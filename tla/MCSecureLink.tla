---------------------------- MODULE MCSecureLink ----------------------------
(* Instances of SecureLink for TLC. *)
EXTENDS SecureLink

Between(x, y) == [e \in Ends |-> IF e = "a" THEN x ELSE y]

EncrypterPairs ==
    {Between("app", "app"), Between("app", "bot"),
     Between("unsigned", "unsigned"), Between("unsigned", "bot")}

EveryPair ==
    EncrypterPairs \cup {Between("app", "legacy"), Between("unsigned", "legacy")}

AppPair == {Between("app", "app")}
=============================================================================
