------------------------------ MODULE RosterRoom ------------------------------
(***************************************************************************)
(* A roster in a room, and the audio it decides about: what the session    *)
(* does with the roster's decisions (run_audio, advertise and keep_address *)
(* of src/src-tauri/src/session/mod.rs) and the sockets those use          *)
(* (prepare_socket, prepare_socket_again and take_prepared_socket of       *)
(* src/src-tauri/src/streaming.rs).  Participants join, publish addresses, *)
(* leave, and come back under a new id while the server still lists the    *)
(* old one; this app does so too.  One step here is what the session does  *)
(* in one turn of its flow lock (module Session has the turns).            *)
(***************************************************************************)
EXTENDS Roster, Integers, Sequences, SequencesExt

CONSTANTS OwnIds,      \* ids this app is given, one each time it enters
          MayPublish,  \* the addresses each participant may publish
          MaxFailures  \* how many audio sessions may fail to start

ASSUME RosterRoomAssumption ==
    /\ IsFiniteSet(Ids) /\ OwnIds \subseteq Ids /\ Addresses # {}
    /\ MayPublish \in [Ids \ OwnIds -> SUBSET Addresses]
    /\ MaxFailures \in Nat

VARIABLES roster,
          own,      \* this app's id in the room, Nobody when in none
          status,   \* of each id: "new", "here" (the server lists it) or "gone"
          addr,     \* what each id has published
          with,     \* whom the audio session is with, Nobody when none runs
          port,     \* the port it is on
          socket,   \* the port of the prepared socket
          lastPort, \* the port the last audio session took over
          failures, \* starts that failed so far
          usedUp,   \* history: a failed start took over the port last told, and
                    \* no other was asked for since
          unpublished \* history: binding or publishing failed, and the room was
                      \* told no port since

audioVars == <<with, port, socket, lastPort, usedUp, unpublished>>
vars == <<roster, own, status, addr, audioVars, failures>>

\* No port, the one the room was told last, or another.
Ports == {"none", "told", "untold"}
\* What comes of having an address: the last port was had again, or else one was
\* published, bound but not published, or not even bound.
Outcomes == {"kept", "published", "unpublished", "unbound"}
InRoom == own # Nobody
InfoOf(id) == [id |-> id, addr |-> addr[id]]
Listed == {id \in Ids : status[id] = "here"}

-----------------------------------------------------------------------------
(* The audio, as a record of its variables while decisions are carried      *)
(* out.                                                                     *)

Audio == [with |-> with, port |-> port, socket |-> socket,
          lastPort |-> lastPort, usedUp |-> usedUp, unpublished |-> unpublished]

StopAudio(a) == [a EXCEPT !.with = Nobody, !.port = "none"]

Untold(p) == IF p = "told" THEN "untold" ELSE p

\* Binds a port the system chooses, unless a socket is bound already.
PrepareSocket(a) == [a EXCEPT !.socket = IF @ = "none" THEN "untold" ELSE @]

\* Tells the room the port of the prepared socket, which is bound first if there is
\* none: the port told before is one like any other from now on.  Either may fail,
\* and the session goes on with what it has.
AdvertiseSocket(a, how) ==
    LET bound == [PrepareSocket(a) EXCEPT !.usedUp = FALSE]
    IN  CASE a.socket = "none" /\ how = "unbound" ->
                [a EXCEPT !.usedUp = FALSE, !.unpublished = TRUE]
          [] a.socket = "told" -> bound
          [] a.socket # "told" /\ how = "unpublished" -> [bound EXCEPT !.unpublished = TRUE]
          [] OTHER -> [bound EXCEPT !.socket = "told", !.unpublished = FALSE,
                                    !.port = Untold(@), !.lastPort = Untold(@)]

\* Mutant: a port that could not be had again is replaced without telling.
KeepsAddressQuietly(a, how) ==
    IF a.socket = "none" /\ a.lastPort # "none" /\ how = "kept"
    THEN [a EXCEPT !.socket = a.lastPort, !.usedUp = FALSE,
                   !.unpublished = @ /\ a.lastPort # "told"]
    ELSE [PrepareSocket(a) EXCEPT !.usedUp = FALSE]

\* Binds the port of the last audio session again, and tells the room only of
\* another one: a port the room was never told it is not told now.
KeepsAddress(a, how) ==
    IF a.socket = "none" /\ a.lastPort # "none" /\ how = "kept"
    THEN [a EXCEPT !.socket = a.lastPort, !.usedUp = FALSE,
                   !.unpublished = @ /\ a.lastPort # "told"]
    ELSE AdvertiseSocket(a, how)

\* Takes the prepared socket over; without one, binds a port of its own.  A
\* start that fails has used the socket up all the same.
StartAudio(a, peer, ok) ==
    LET taken == [a EXCEPT !.socket = "none",
                           !.lastPort = IF a.socket # "none" THEN a.socket ELSE @]
    IN  CASE a.with # Nobody -> a
          [] a.with = Nobody /\ ok ->
                [taken EXCEPT !.with = peer,
                              !.port = PrepareSocket(a).socket]
          [] OTHER -> [taken EXCEPT !.usedUp = @ \/ a.socket = "told"]

CarryOut(a, todo, how, ok) ==
    CASE todo.do = "stop" -> StopAudio(a)
      [] todo.do = "advertise" -> AdvertiseSocket(a, how)
      [] todo.do = "keepAddress" -> KeepsAddress(a, how)
      [] OTHER -> StartAudio(a, todo.peer, ok)

\* The audio a after all there is to do was carried out, in order.  No decision
\* has the address seen to twice, nor two starts.
CarryOutAll(a, todo, how, ok) ==
    LET after[n \in 0..Len(todo)] == IF n = 0 THEN a
                                     ELSE CarryOut(after[n - 1], todo[n], how, ok)
    IN  after[Len(todo)]

\* What may come of all there is to do.
CarriedOut(todo) ==
    {CarryOutAll(Audio, todo, e.how, e.ok) :
        e \in [how : Outcomes, ok : IF failures < MaxFailures THEN BOOLEAN ELSE {TRUE}]}

\* The roster and the audio after `decision` is carried out (run_audio); of a start
\* that failed the roster hears.
RunAudio(decision) ==
    LET starts == {decision.audio[i].peer : i \in
                     {j \in DOMAIN decision.audio : decision.audio[j].do = "start"}}
    IN  \E after \in CarriedOut(decision.audio) :
            /\ with' = after.with /\ port' = after.port
            /\ socket' = after.socket /\ lastPort' = after.lastPort
            /\ usedUp' = after.usedUp /\ unpublished' = after.unpublished
            /\ IF starts # {} /\ after.with \notin starts
               THEN /\ roster' = StartFailed(decision.roster, CHOOSE p \in starts : TRUE)
                    /\ failures' = failures + 1
               ELSE roster' = decision.roster /\ UNCHANGED failures

-----------------------------------------------------------------------------
Init ==
    /\ roster = EmptyRoster
    /\ own = Nobody
    /\ status = [id \in Ids |-> "new"]
    /\ addr = [id \in Ids |-> 0]
    /\ with = Nobody /\ port = "none" /\ socket = "none" /\ lastPort = "none"
    /\ failures = 0 /\ usedUp = FALSE /\ unpublished = FALSE

\* This app creates, joins or rejoins the room, with whoever is listed there, and
\* publishes an address there itself, if it can.
EnterRoom(id) ==
    /\ ~InRoom /\ id \in OwnIds /\ status[id] = "new"
    /\ own' = id
    /\ status' = [status EXCEPT ![id] = "here"]
    /\ \E others \in SetToSeqs({InfoOf(p) : p \in Listed}) :
          RunAudio(Entered(roster, id, others))
    /\ addr' = [addr EXCEPT ![id] = IF unpublished' THEN 0 ELSE CHOOSE a \in Addresses : TRUE]

\* The audio ends with the entry in the room; what that entry was told of is nothing
\* to the next one.
AudioGone ==
    /\ with' = Nobody /\ port' = "none"
    /\ socket' = Untold(socket) /\ lastPort' = Untold(lastPort)
    /\ usedUp' = FALSE /\ unpublished' = FALSE

\* The connection to the server is lost; the server goes on listing this app.
LoseServer ==
    /\ InRoom
    /\ own' = Nobody
    /\ AudioGone
    /\ roster' = AudioEnded(roster)
    /\ UNCHANGED <<status, addr, failures>>

\* With the connection lost, the app connects from scratch: the room is given up
\* (session_leave and session_connect end in connect).
StartOver ==
    /\ ~InRoom /\ roster # EmptyRoster
    /\ roster' = EmptyRoster
    /\ UNCHANGED <<own, status, addr, audioVars, failures>>

LeaveRoom ==
    /\ InRoom
    /\ own' = Nobody
    /\ status' = [status EXCEPT ![own] = "gone"]
    /\ AudioGone
    /\ roster' = EmptyRoster
    /\ UNCHANGED <<addr, failures>>

PeerJoins(id) ==
    /\ id \notin OwnIds /\ status[id] = "new"
    /\ status' = [status EXCEPT ![id] = "here"]
    /\ roster' = IF InRoom THEN Joined(roster, InfoOf(id)) ELSE roster
    /\ UNCHANGED <<own, addr, audioVars, failures>>

PeerPublishes(id, a) ==
    /\ id \in Listed \ OwnIds
    /\ addr' = [addr EXCEPT ![id] = a]
    /\ IF InRoom THEN RunAudio(Updated(roster, [id |-> id, addr |-> a]))
       ELSE UNCHANGED <<roster, audioVars, failures>>
    /\ UNCHANGED <<own, status>>

\* A participant leaves, or the server finds an old connection dead.
PeerLeaves(id) ==
    /\ id \in Listed \ {own}
    /\ status' = [status EXCEPT ![id] = "gone"]
    /\ IF InRoom THEN RunAudio(Left(roster, id))
       ELSE UNCHANGED <<roster, audioVars, failures>>
    /\ UNCHANGED <<own, addr>>

LinkReport ==
    /\ InRoom /\ with # Nobody
    /\ \/ RunAudio(AudioSilent(roster))
       \/ RunAudio(AudioFailed(roster))
       \/ /\ roster' = AudioRecovered(roster)
          /\ UNCHANGED <<audioVars, failures>>
    /\ UNCHANGED <<own, status, addr>>

Next ==
    \/ \E id \in Ids :
          EnterRoom(id) \/ PeerJoins(id) \/ PeerLeaves(id)
    \/ \E id \in Ids \ OwnIds :
          \E a \in MayPublish[id] : PeerPublishes(id, a)
    \/ LoseServer \/ StartOver \/ LeaveRoom \/ LinkReport

Spec == Init /\ [][Next]_vars
-----------------------------------------------------------------------------
\* Every variable has its type, and the roster knows what the audio was started
\* with exactly while it is with someone.
TypeOK ==
    /\ roster \in Rosters
    /\ roster.with = Nobody <=> roster.startedWith = 0
    /\ own \in Ids \cup {Nobody}
    /\ status \in [Ids -> {"new", "here", "gone"}]
    /\ addr \in [Ids -> {0} \cup Addresses]
    /\ with \in Ids \cup {Nobody}
    /\ {port, socket, lastPort} \subseteq Ports
    /\ failures \in 0..MaxFailures /\ {usedUp, unpublished} \subseteq BOOLEAN

\* Whom the roster takes the audio to be with is whom it is with, whatever was
\* moved, stopped or failed to start on the way (roster.rs:54-56).
AudioFollowsRoster == roster.with = with

\* The audio is with a participant the server lists now, never with one who left
\* or with an entry the roster knows to be this app's (roster.rs:81-86).
AudioIsWithSomeoneHere ==
    InRoom /\ with # Nobody => /\ status[with] = "here"
                               /\ with \notin roster.ownIds

\* Entries of this app's earlier ids are not peers (roster.rs:60-63, 81-86): the
\* audio is never sent to one, whichever way the app came back.
NeverWithItself == with \notin OwnIds

\* The port the room was told last is listened on, by the prepared socket or by
\* the audio, however often the audio moved: nobody could send this app audio
\* otherwise (roster.rs:18-24).  A start that fails closes the port it took over,
\* and then no other is bound in its place before it is tried again or replaced and
\* told.  Where binding or publishing failed the room was told of no port, or of
\* one that is gone, until it is told again; neither is tried again by itself.
HeardWhereAdvertised ==
    InRoom /\ ~unpublished =>
        \/ "told" \in {socket, port}
        \/ usedUp /\ socket = "none" /\ lastPort = "told"

\* The same whatever fails, as mod.rs:1075-1077 has it ("so the address the room
\* already has stays good"): the code does not hold to it.
AddressStaysGood == InRoom => "told" \in {socket, port}

\* Nobody who can be heard is passed over: with no audio, and none that failed to
\* start, no participant has an address; with a link that gave up, everyone else
\* with an address was left behind already (roster.rs:195-214, 229-272).
NobodyPassedOver ==
    \A i \in DOMAIN roster.peers :
        LET peer == roster.peers[i]
        IN  InRoom /\ HasAddress(peer) /\ failures = 0 =>
              /\ roster.with # Nobody
              /\ roster.link = "failed" => peer.id \in roster.leftBehind \cup {roster.with}

\* The audio is not with a participant it was moved away from and who published
\* nothing since (roster.rs:65-69).
NotBackToOneLeft == roster.with \notin roster.leftBehind
===============================================================================
