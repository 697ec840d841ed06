----------------------------- MODULE SecureLink -----------------------------
(***************************************************************************)
(* The encryption of the link between two participants                     *)
(* (src/src/network/encryption.rs), with the three places that drive it:   *)
(* the key task and the answer in the receive loop of                      *)
(* src/src/network/connection.rs, and whatever sends keep-alives or media. *)
(*                                                                         *)
(* One SecureLink per end.  An end that starts its audio session again     *)
(* makes a new link with a new ephemeral key, while packets of the one     *)
(* before are still on their way: an ephemeral key is the pair of an end   *)
(* and the number of its link.  The network loses, repeats and reorders.   *)
(***************************************************************************)
EXTENDS Integers, FiniteSets

CONSTANTS RolePairs,   \* pairs of roles the two ends may have
          Restarting,  \* ends that may begin again with a fresh link
          MaxLinks,    \* links such an end makes, one after the other
          MaxCounter,  \* the count of a link's packets ends here (u64::MAX)
          ReplayWindow,\* REPLAY_WINDOW: how far behind a counter may be
          MaxFaults,   \* packets the network loses or repeats
          MaxInFlight  \* no end sends more of its own while as many are on
                       \* their way

Ends == {"a", "b"}
Peer(e) == IF e = "a" THEN "b" ELSE "a"

\* "app" has a LinkIdentity the server hands to the others; "unsigned" is an
\* app from before identities; "bot" is SecureLink::answering; "legacy" is an
\* app that knows nothing of encryption.
Roles == {"app", "unsigned", "bot", "legacy"}

ASSUME ConstantsAssumption ==
    /\ RolePairs \subseteq [Ends -> Roles]
    /\ Restarting \subseteq Ends
    /\ MaxLinks \in Nat \ {0}
    /\ MaxCounter \in Nat \ {0}
    /\ ReplayWindow \in Nat \ {0}
    /\ MaxFaults \in Nat /\ MaxInFlight \in Nat

VARIABLES
    role,       \* the role of each end
    link,       \* the number of each end's present link, its ephemeral key
    state,      \* State of each link
    peerPublic, \* Keys.peer_public: number of the peer's key, 0 for none
    next,       \* Keys.next_counter
    confirmed,  \* Keys.confirmed
    newest,     \* ReplayWindow.newest, -1 until started
    seen,       \* ReplayWindow.seen, as the set of counters it remembers
    answer,     \* Answering.answer: key the bot's half is signed for, or 0
    net,        \* packets on their way
    faults,     \* packets lost or repeated so far
    opened,     \* history: sealed packets handed up, by link and key
    openedAgain,\* history: those handed up a second time
    mediaSent,  \* history: counters media went out under, by link and key
    mediaAgain  \* history: those used for media a second time

linkVars == <<link, state, peerPublic, next, confirmed, newest, seen, answer>>
history == <<opened, openedAgain, mediaSent, mediaAgain>>
vars == <<role, linkVars, net, faults, history>>

Bodies == {"alive", "media"}
LinkNumbers == 1..MaxLinks
Counters == 0..(MaxCounter - 1)

KeyPackets == [kind : {"key"}, from : Ends, key : LinkNumbers,
               signed : {"no", "identity", "answer"}, to : 0..MaxLinks]
PlainPackets == [kind : {"plain"}, from : Ends, body : Bodies]
SealedPackets == [kind : {"sealed"}, from : Ends, key : LinkNumbers,
                  to : LinkNumbers, counter : Counters, body : Bodies]
Packets == KeyPackets \cup PlainPackets \cup SealedPackets

\* A use of a counter under the key of one direction of an agreed link.
Uses == [key : LinkNumbers, to : LinkNumbers, counter : Counters]

-----------------------------------------------------------------------------
(* What a link is. *)

\* for_peer makes a link that checks when both sides told an identity.
ChecksPeer(e) == role[e] = "app" /\ role[Peer(e)] \in {"app", "bot"}

Encrypts(e) == role[e] # "legacy"

Security(e) ==
    IF state[e] = "encrypted" /\ ~confirmed[e] THEN "negotiating" ELSE state[e]

CanSendMedia(e) == Security(e) # "negotiating"

\* Mutant: the key is sent no more once we have the peer's.
WantsKeyUntilItHasKeys(e) == state[e] = "negotiating"

WantsKeyExchange(e) == Security(e) = "negotiating"

\* Our half of the exchange, given the key the bot's answer is signed for.
KeyExchangePacket(e, answered) ==
    [kind |-> "key", from |-> e, key |-> link[e],
     signed |-> IF ChecksPeer(e) THEN "identity"
                ELSE IF role[e] = "bot" /\ answered # 0 THEN "answer" ELSE "no",
     to |-> IF ~ChecksPeer(e) /\ role[e] = "bot" THEN answered ELSE 0]

\* Whether the half `m` is one e takes: signed by the peer for us or for our
\* ephemeral key, any half for a bot, an unsigned one otherwise.
TakesHalf(e, m) ==
    CASE ChecksPeer(e) -> \/ m.signed = "identity"
                          \/ m.signed = "answer" /\ m.to = link[e]
      [] role[e] = "bot" -> TRUE
      [] OTHER -> m.signed = "no"

SealedPacket(e, theirs, counter, body) ==
    [kind |-> "sealed", from |-> e, key |-> link[e], to |-> theirs,
     counter |-> counter, body |-> body]

PlainPacket(e, body) == [kind |-> "plain", from |-> e, body |-> body]

\* The packets `seal` lets go for one of `body`: none while it must wait.
Seal(e, body) ==
    CASE state[e] = "unencrypted" -> {PlainPacket(e, body)}
      [] state[e] = "negotiating" ->
            IF body = "alive" THEN {PlainPacket(e, body)} ELSE {}
      [] OTHER ->
            IF (confirmed[e] \/ body = "alive") /\ next[e] < MaxCounter
            THEN {SealedPacket(e, peerPublic[e], next[e], body)}
            ELSE {}

\* Mutant: nothing stops the count at its end.
CountWithoutEnd(e, body) == [next EXCEPT ![e] = @ + 1]

\* The count after sealing one packet of `body`.
CountAfter(e, body) ==
    IF /\ state[e] = "encrypted"
       /\ confirmed[e] \/ body = "alive"
       /\ next[e] < MaxCounter
    THEN [next EXCEPT ![e] = @ + 1] ELSE next

\* Mutant: the window reaches one counter further than what it remembers.
IsNewOneFurther(e, counter) ==
    \/ newest[e] = -1
    \/ counter > newest[e]
    \/ newest[e] - counter <= ReplayWindow /\ counter \notin seen[e]

IsNew(e, counter) ==
    \/ newest[e] = -1
    \/ counter > newest[e]
    \/ newest[e] - counter < ReplayWindow /\ counter \notin seen[e]

\* Mutant: to have derived keys counts as the peer having shown it has them.
ConfirmedKeys(theirs) ==
    [peerPublic |-> theirs, counter |-> 0, confirmed |-> TRUE,
     newest |-> -1, seen |-> {}]

\* What derive_keys makes of the peer's half.
DerivedKeys(theirs) ==
    [peerPublic |-> theirs, counter |-> 0, confirmed |-> FALSE,
     newest |-> -1, seen |-> {}]

\* Takes m off its way, or leaves a copy of it there; sends `replies`.
Arrives(m, replies) ==
    \/ /\ net' = (net \ {m}) \cup replies
       /\ UNCHANGED faults
    \/ /\ faults < MaxFaults
       /\ faults' = faults + 1
       /\ net' = net \cup replies

-----------------------------------------------------------------------------
Init ==
    /\ role \in RolePairs
    /\ link = [e \in Ends |-> 1]
    /\ state = [e \in Ends |->
                    IF role[e] = "legacy" THEN "unencrypted" ELSE "negotiating"]
    /\ peerPublic = [e \in Ends |-> 0]
    /\ next = [e \in Ends |-> 0]
    /\ confirmed = [e \in Ends |-> FALSE]
    /\ newest = [e \in Ends |-> -1]
    /\ seen = [e \in Ends |-> {}]
    /\ answer = [e \in Ends |-> 0]
    /\ net = {}
    /\ faults = 0
    /\ opened = [e \in Ends |-> {}]
    /\ openedAgain = [e \in Ends |-> {}]
    /\ mediaSent = [e \in Ends |-> {}]
    /\ mediaAgain = [e \in Ends |-> {}]

\* The end begins again with a fresh link: a new Connection and verify_peer.
Restart(e) ==
    /\ Encrypts(e)
    /\ e \in Restarting /\ link[e] < MaxLinks
    /\ link' = [link EXCEPT ![e] = @ + 1]
    /\ state' = [state EXCEPT ![e] = "negotiating"]
    /\ peerPublic' = [peerPublic EXCEPT ![e] = 0]
    /\ next' = [next EXCEPT ![e] = 0]
    /\ confirmed' = [confirmed EXCEPT ![e] = FALSE]
    /\ newest' = [newest EXCEPT ![e] = -1]
    /\ seen' = [seen EXCEPT ![e] = {}]
    /\ answer' = [answer EXCEPT ![e] = 0]
    /\ UNCHANGED <<role, net, faults, history>>

\* One tick of the key task: our half, and with the keys ours a keep-alive
\* that shows the peer so.
SendKey(e) ==
    /\ Cardinality(net) < MaxInFlight
    /\ Encrypts(e)
    /\ WantsKeyExchange(e)
    /\ net' = net \cup {KeyExchangePacket(e, answer[e])}
                  \cup (IF state[e] = "encrypted" THEN Seal(e, "alive") ELSE {})
    /\ next' = IF state[e] = "encrypted" THEN CountAfter(e, "alive") ELSE next
    /\ UNCHANGED <<role, link, state, peerPublic, confirmed, newest, seen,
                   answer, faults, history>>

\* Sends a keep-alive, whatever the link is at.
SendAlive(e) ==
    /\ Cardinality(net) < MaxInFlight
    /\ Seal(e, "alive") # {}
    /\ net' = net \cup Seal(e, "alive")
    /\ next' = CountAfter(e, "alive")
    /\ UNCHANGED <<role, link, state, peerPublic, confirmed, newest, seen,
                   answer, faults, history>>

\* Sends audio, latency or any other packet that is not a keep-alive.
SendMedia(e) ==
    /\ Cardinality(net) < MaxInFlight
    /\ CanSendMedia(e)
    /\ Seal(e, "media") # {}
    /\ net' = net \cup Seal(e, "media")
    /\ next' = CountAfter(e, "media")
    /\ LET uses == {[key |-> m.key, to |-> m.to, counter |-> m.counter] :
                      m \in {s \in Seal(e, "media") : s.kind = "sealed"}}
       IN  /\ mediaAgain' = [mediaAgain EXCEPT ![e] = @ \cup (uses \cap mediaSent[e])]
           /\ mediaSent' = [mediaSent EXCEPT ![e] = @ \cup uses]
    /\ UNCHANGED <<role, link, state, peerPublic, confirmed, newest, seen,
                   answer, faults, opened, openedAgain>>

\* Mutant: a copy of the half the keys are made with makes them again.
SettlesKeysAgain(e, m) ==
    /\ Encrypts(e) /\ m.kind = "key" /\ TakesHalf(e, m)
    /\ state[e] # "unencrypted"

\* Mutant: another key replaces keys the peer has shown it has.
SettlesKeysLate(e, m) ==
    /\ Encrypts(e) /\ m.kind = "key" /\ TakesHalf(e, m)
    /\ \/ state[e] = "negotiating"
       \/ state[e] = "encrypted" /\ peerPublic[e] # m.key

\* A half that settles the keys: the first one, or another while the peer has
\* not shown it has ours.
SettlesKeys(e, m) ==
    /\ Encrypts(e) /\ m.kind = "key" /\ TakesHalf(e, m)
    /\ \/ state[e] = "negotiating"
       \/ state[e] = "encrypted" /\ ~confirmed[e] /\ peerPublic[e] # m.key

\* A sealed packet that decrypts under our keys and is neither repeated nor
\* too old.
Decrypts(e, m) ==
    /\ m.kind = "sealed" /\ state[e] = "encrypted"
    /\ m.to = link[e] /\ m.key = peerPublic[e]
    /\ IsNew(e, m.counter)

\* Mutant: any plain packet, a keep-alive too, shows the peer cannot encrypt.
ShowsItIsPlainAlive(e, m) ==
    m.kind = "plain" /\ state[e] = "negotiating" /\ ~ChecksPeer(e)

\* Plain media from a peer that is not checked: that peer cannot encrypt.
ShowsItIsPlain(e, m) ==
    /\ m.kind = "plain" /\ m.body = "media"
    /\ state[e] = "negotiating" /\ ~ChecksPeer(e)

\* Derives the keys anew, answers with our half and a sealed keep-alive.
TakeKey(e, m) ==
    /\ SettlesKeys(e, m)
    /\ state' = [state EXCEPT ![e] = "encrypted"]
    /\ answer' = [answer EXCEPT
                    ![e] = IF role[e] = "bot" /\ m.signed # "no" THEN m.key ELSE 0]
    /\ LET keys == DerivedKeys(m.key)
       IN  /\ peerPublic' = [peerPublic EXCEPT ![e] = keys.peerPublic]
           /\ confirmed' = [confirmed EXCEPT ![e] = keys.confirmed]
           /\ newest' = [newest EXCEPT ![e] = keys.newest]
           /\ seen' = [seen EXCEPT ![e] = keys.seen]
           /\ next' = [next EXCEPT ![e] = keys.counter + 1]
           /\ Arrives(m, {KeyExchangePacket(e, answer'[e]),
                          SealedPacket(e, m.key, keys.counter, "alive")})
    /\ UNCHANGED <<role, link, history>>

\* Hands the packet up; that it opened shows the peer has our key.
OpenEncrypted(e, m) ==
    /\ Decrypts(e, m)
    /\ confirmed' = [confirmed EXCEPT ![e] = TRUE]
    /\ LET top == IF m.counter > newest[e] THEN m.counter ELSE newest[e]
       IN  /\ newest' = [newest EXCEPT ![e] = top]
           /\ seen' = [seen EXCEPT
                    ![e] = {c \in @ \cup {m.counter} : top - c < ReplayWindow}]
    /\ LET use == [key |-> m.key, to |-> m.to, counter |-> m.counter]
       IN  /\ openedAgain' = [openedAgain EXCEPT ![e] = @ \cup ({use} \cap opened[e])]
           /\ opened' = [opened EXCEPT ![e] = @ \cup {use}]
    /\ Arrives(m, {})
    /\ UNCHANGED <<role, link, state, peerPublic, next, answer,
                   mediaSent, mediaAgain>>

FallBackToPlain(e, m) ==
    /\ ShowsItIsPlain(e, m)
    /\ state' = [state EXCEPT ![e] = "unencrypted"]
    /\ Arrives(m, {})
    /\ UNCHANGED <<role, link, peerPublic, next, confirmed, newest, seen,
                   answer, history>>

\* A packet that changes nothing: dropped, or plain and handed up as it is.
Ignore(e, m) ==
    /\ ~SettlesKeys(e, m) /\ ~Decrypts(e, m) /\ ~ShowsItIsPlain(e, m)
    /\ Arrives(m, {})
    /\ UNCHANGED <<role, linkVars, history>>

Open(e, m) ==
    /\ m.from = Peer(e)
    /\ TakeKey(e, m) \/ OpenEncrypted(e, m) \/ FallBackToPlain(e, m) \/ Ignore(e, m)

Lose ==
    /\ faults < MaxFaults
    /\ faults' = faults + 1
    /\ \E m \in net : net' = net \ {m}
    /\ UNCHANGED <<role, linkVars, history>>

Next ==
    \/ \E e \in Ends :
        \/ Restart(e) \/ SendKey(e) \/ SendAlive(e) \/ SendMedia(e)
        \/ \E m \in net : Open(e, m)
    \/ Lose

Spec == Init /\ [][Next]_vars

\* The key task and the keep-alive loop tick for ever (strongly fair, for what
\* is in flight holds a sender back in the model only), and a packet that was
\* not lost arrives in the end.
Fairness ==
    /\ \A e \in Ends : SF_vars(SendKey(e)) /\ SF_vars(SendAlive(e))
    /\ \A e \in Ends : \A m \in Packets : WF_vars(m \in net /\ Open(e, m))

FairSpec == Spec /\ Fairness
-----------------------------------------------------------------------------
TypeOK ==
    /\ role \in [Ends -> Roles]
    /\ link \in [Ends -> LinkNumbers]
    /\ state \in [Ends -> {"negotiating", "encrypted", "unencrypted"}]
    /\ peerPublic \in [Ends -> 0..MaxLinks]
    /\ next \in [Ends -> 0..MaxCounter]
    /\ confirmed \in [Ends -> BOOLEAN]
    /\ newest \in [Ends -> {-1} \cup Counters]
    /\ seen \in [Ends -> SUBSET Counters]
    /\ answer \in [Ends -> 0..MaxLinks]
    /\ net \subseteq Packets
    /\ faults \in 0..MaxFaults
    /\ opened \in [Ends -> SUBSET Uses] /\ openedAgain \in [Ends -> SUBSET Uses]
    /\ mediaSent \in [Ends -> SUBSET Uses] /\ mediaAgain \in [Ends -> SUBSET Uses]

\* A sealed packet is handed up once, however often and however late the
\* network brings it (encryption.rs:17).  Two things hold this together: the
\* replay window, and that keys under which anything opened are not derived
\* again, which would empty the window.
OpenedOnce == \A e \in Ends : openedAgain[e] = {}

\* No two packets other than keep-alives are sealed under one count of one key
\* (encryption.rs:14-16), although the count starts again whenever a delayed
\* key makes a link derive its keys anew.
MediaCountedOnce == \A e \in Ends : mediaAgain[e] = {}

\* Media never goes plain between two ends that both encrypt: neither a delay
\* nor a restart of one of them makes the other take it for an older app
\* (encryption.rs:31-33 and 500-504).
NeverPlainBetweenEncrypters ==
    (\A e \in Ends : Encrypts(e)) =>
        \A e \in Ends : /\ state[e] # "unencrypted"
                        /\ PlainPacket(e, "media") \notin net

\* A link that takes the peer to have our key (encryption.rs:275-277, and why
\* media may go, 425-428) is right: the peer's link, unless a later one took its
\* place, has the keys of this pair and no other.
PeerHasOurKey ==
    \A e \in Ends :
        confirmed[e] /\ peerPublic[e] = link[Peer(e)] =>
            /\ state[Peer(e)] = "encrypted"
            /\ peerPublic[Peer(e)] = link[e]

\* Keys the peer has shown it has stand for as long as the link does: only a
\* fresh link takes others, and nothing makes it plain again.
ConfirmedKeysStand ==
    [][\A e \in Ends : confirmed[e] /\ link'[e] = link[e] =>
          /\ confirmed'[e] /\ state'[e] = "encrypted"
          /\ peerPublic'[e] = peerPublic[e]
          /\ next'[e] >= next[e]]_vars

\* Both ends have the keys of their present links, and know it of each other.
Agreed ==
    \A e \in Ends : confirmed[e] /\ peerPublic[e] = link[Peer(e)]

\* Both ends have the keys of their present links.
HaveKeys == \A e \in Ends : state[e] = "encrypted" /\ peerPublic[e] = link[Peer(e)]

\* Two ends that encrypt get each other's keys, whatever was lost on the way, and
\* know it of each other (connection.rs:2037-2039) unless one has sealed all its
\* count allows.
ComesToAgree ==
    (\A e \in Ends : Encrypts(e)) ~>
        HaveKeys /\ (Agreed \/ \E e \in Ends : next[e] = MaxCounter)
=============================================================================
