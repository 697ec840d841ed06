-------------------------------- MODULE Session --------------------------------
(***************************************************************************)
(* The session: how far the app has got with the signaling server, the     *)
(* room and the audio (src/src-tauri/src/session/mod.rs), over the         *)
(* registry of server connections of src/src-tauri/src/signaling.rs.       *)
(*                                                                         *)
(* Steps (connect, create, join, leave, reconnect) run as tasks.  A step   *)
(* holds `flow`, a fair lock, while it talks to the server; one that is to *)
(* be ended is told so by a higher epoch and stops at its next check.      *)
(* Beside them a pump per connection reads the room's events and the state *)
(* of the audio link.  An action is what runs between two awaits, or       *)
(* between two points at which anything else can be told the difference.   *)
(***************************************************************************)
EXTENDS Roster, Integers, Sequences, SequencesExt

CONSTANTS MaxConns,     \* connections the server takes
          Own,          \* this app's id in a room
          RoomLists,    \* who a room may hold when it is joined
          MaxAttempts,  \* MAX_RECONNECT_ATTEMPTS
          MaxCommands,  \* commands the user gives
          MaxLosses,    \* connections that get lost
          MaxNews       \* room events and changes of the audio link

ASSUME SessionAssumption ==
    /\ MaxConns \in Nat
    /\ Own \in Ids
    \* everyone else who is there, once; entries of this app's own, which the
    \* roster leaves out, are module RosterRoom's concern
    /\ RoomLists \subseteq Seq(PeerInfos)
    /\ \A peers \in RoomLists : \A i, j \in DOMAIN peers :
          peers[i].id # Own /\ (peers[i].id = peers[j].id => i = j)
    /\ MaxAttempts \in Nat \ {0}
    /\ MaxCommands \in Nat /\ MaxLosses \in Nat /\ MaxNews \in Nat

VARIABLES
    \* Inner
    epoch, phase, connection, joining, error, room, reconnect, roster,
    \* SessionState.flow: who holds it, then who waits for it, in order
    flow,
    \* the steps, in the order they were asked for
    tasks,
    \* SignalingState.connections, lost_logged, and what the server sent
    conns, reported, inbox,
    \* the pump of each connection
    pumps,
    \* StreamingState: whom the audio is with, and its link
    audio,
    \* who else the server has in the app's room
    there,
    \* counted towards the bounds
    commands, losses, news,
    \* history: what the user asked for last, as far as a room goes
    wish

inner == <<epoch, phase, connection, joining, error, room, reconnect, roster>>
registry == <<conns, reported, inbox>>
bounds == <<commands, losses, news>>
vars == <<inner, flow, tasks, registry, pumps, audio, there, bounds, wish>>

Conns == 1..MaxConns
NoConn == 0
TaskIds == 1..(MaxCommands + MaxLosses + 1)

Phases == {"connecting_server", "server_connected", "creating", "joining",
           "connected", "error"}

\* What a step is waiting for: its turn, the server, the clock, or nothing.
Places == {"turn", "connecting", "listing", "entering", "leaving", "audio",
           "pausing", "clock", "done"}

Kinds == {"connect", "create", "join", "leave", "reconnect"}

InTurn(id) == <<"task", id>>
InPump(c) == <<"pump", c>>
HasTurn(who) == flow # <<>> /\ Head(flow) = who

\* The places at which the lock of `connections` is held while the server's
\* answer is waited for.
HoldsRegistry(t) == t.place \in {"listing", "entering", "leaving"}

\* unless_ended runs these steps: they stop when the epoch moves on.
Endable(t) ==
    \/ t.place \in {"connecting", "pausing", "clock"}
    \/ t.place \in {"listing", "entering", "audio"} /\ t.kind \in {"connect", "reconnect"}

Ended(t) == t.epoch # epoch

-----------------------------------------------------------------------------
PutTask(id, t) == tasks' = [tasks EXCEPT ![id] = t]

NewTask(kind, e) == [kind |-> kind, epoch |-> e, place |-> "turn", conn |-> NoConn,
                     attempt |-> 1, rejoin |-> FALSE, todo |-> <<>>]

Over(t) == [NewTask(t.kind, 0) EXCEPT !.place = "done"]

\* The step `id` is over, and lets the flow go.
Finish(id) ==
    /\ PutTask(id, Over(tasks[id]))
    /\ flow' = Tail(flow)

AudioOff == [audio EXCEPT !.with = Nobody, !.link = "quiet"]

Disconnected(c) == IF c = NoConn THEN conns ELSE [conns EXCEPT ![c] = "closed"]

\* The audio runs with `peer`, or with nobody; what was said of its link is over.
Playing(now, peer) == [now EXCEPT !.audio.with = peer, !.audio.link = "quiet"]

\* Mutant: an audio session that could not be started stays the roster's.
CarriesOutForgettingFailure(now, do, ok) ==
    CASE do.do = "stop" -> Playing(now, Nobody)
      [] do.do = "start" /\ ok /\ now.audio.with = Nobody -> Playing(now, do.peer)
      [] OTHER -> now

\* One thing to do to the audio, for a start whether it goes well.
CarriesOut(now, do, ok) ==
    CASE do.do = "stop" -> Playing(now, Nobody)
      [] do.do = "start" /\ ok /\ now.audio.with = Nobody -> Playing(now, do.peer)
      [] do.do = "start" /\ ~(ok /\ now.audio.with = Nobody) ->
             [now EXCEPT !.roster = StartFailed(@, do.peer)]
      [] OTHER -> now

\* Carries out the first n things of `todo` for the roster r (run_audio): the
\* roster and the audio after it.  Addresses are module RosterRoom's concern.
RunAudio(r, todo, n, ok) ==
    LET after[i \in 0..n] == IF i = 0 THEN [roster |-> r, audio |-> audio]
                             ELSE CarriesOut(after[i - 1], todo[i], ok)
    IN  after[n]

-----------------------------------------------------------------------------
\* The app has its terms accepted and asks for its first connection.
Init ==
    /\ epoch = 1
    /\ phase = "connecting_server"
    /\ connection = NoConn
    /\ joining = FALSE /\ error = FALSE /\ room = FALSE
    /\ reconnect = "idle"
    /\ roster = EmptyRoster
    /\ flow = <<InTurn(1)>>
    /\ tasks = <<NewTask("connect", 1)>>
    /\ conns = [c \in Conns |-> "none"]
    /\ reported = {}
    /\ inbox = [c \in Conns |-> <<>>]
    /\ pumps = [c \in Conns |-> [at |-> "none", batch |-> <<>>, link |-> "quiet", after |-> 0]]
    /\ audio = [with |-> Nobody, link |-> "quiet"]
    /\ there = {}
    /\ commands = 0 /\ losses = 0 /\ news = 0
    /\ wish = "none"

\* A step is asked for, and waits for its turn behind `queue`.
AsksBehind(queue, kind, e) ==
    /\ tasks' = Append(tasks, NewTask(kind, e))
    /\ flow' = Append(queue, InTurn(Len(tasks) + 1))

Asks(kind, e) == AsksBehind(flow, kind, e)

Commands == /\ commands < MaxCommands
            /\ commands' = commands + 1
            /\ UNCHANGED <<losses, news>>

\* The connect screen's Cancel and Retry, and the connect the app starts with.
SessionConnect ==
    /\ Commands
    /\ epoch' = epoch + 1
    /\ Asks("connect", epoch')
    /\ wish' = "cancelled"
    /\ UNCHANGED <<phase, connection, joining, error, room, reconnect, roster,
                   registry, pumps, audio, there>>

SessionEnter(kind) ==
    /\ Commands
    /\ Asks(kind, 0)
    /\ wish' = "room"
    /\ UNCHANGED <<inner, registry, pumps, audio, there>>

\* With no connection, or one that is being got back, leaving connects anew.
SessionLeave ==
    /\ Commands
    /\ wish' = "left"
    /\ IF connection = NoConn \/ reconnect # "idle"
       THEN epoch' = epoch + 1 /\ Asks("connect", epoch')
       ELSE UNCHANGED epoch /\ Asks("leave", 0)
    /\ UNCHANGED <<phase, connection, joining, error, room, reconnect, roster,
                   registry, pumps, audio, there>>

SessionReconnect ==
    /\ Commands
    /\ room
    /\ epoch' = epoch + 1
    /\ Asks("reconnect", epoch')
    /\ wish' = "room"
    /\ UNCHANGED <<phase, connection, joining, error, room, reconnect, roster,
                   registry, pumps, audio, there>>

-----------------------------------------------------------------------------
(* The steps.  Each is for the task `id`. *)

SpawnPump(c, id) ==
    pumps' = [pumps EXCEPT ![c].at = "sleep",
                           ![c].after = IF Ended(tasks[id]) THEN id ELSE 0]

\* The session shows what went wrong (fail).
Fails ==
    /\ phase' = "error" /\ error' = TRUE /\ joining' = FALSE
    /\ UNCHANGED <<epoch, connection, room, reconnect, roster>>

FailsUnlessEnded(id) == IF Ended(tasks[id]) THEN UNCHANGED inner ELSE Fails

\* What drop_connection takes away; the caller changes the rest of the session
\* in the same breath.
DropConnection ==
    /\ connection' = NoConn
    /\ conns' = Disconnected(connection)
    /\ audio' = IF room THEN AudioOff ELSE audio

\* Mutant: the list of rooms, once asked for, ends no earlier room.
ConnectTurnKeepsRoom(id) ==
    /\ tasks[id].kind = "connect" /\ tasks[id].place = "turn" /\ HasTurn(InTurn(id))
    /\ ~Ended(tasks[id])
    /\ connection' = NoConn
    /\ conns' = Disconnected(connection)
    /\ UNCHANGED <<audio, epoch, room, roster>>
    /\ phase' = "connecting_server" /\ error' = FALSE /\ joining' = FALSE
    /\ reconnect' = "idle"
    /\ PutTask(id, [tasks[id] EXCEPT !.place = "connecting"])
    /\ UNCHANGED <<flow, reported, inbox, pumps, there, bounds, wish>>

ConnectTurn(id) ==
    /\ tasks[id].kind = "connect" /\ tasks[id].place = "turn" /\ HasTurn(InTurn(id))
    /\ ~Ended(tasks[id])
    /\ DropConnection
    /\ phase' = "connecting_server" /\ error' = FALSE /\ joining' = FALSE
    /\ room' = FALSE /\ roster' = EmptyRoster /\ reconnect' = "idle"
    /\ PutTask(id, [tasks[id] EXCEPT !.place = "connecting"])
    /\ UNCHANGED <<epoch, flow, reported, inbox, pumps, there, bounds, wish>>

\* The room the app is in now is the one to rejoin.
ReconnectTurn(id) ==
    /\ tasks[id].kind = "reconnect" /\ tasks[id].place = "turn" /\ HasTurn(InTurn(id))
    /\ ~Ended(tasks[id])
    /\ DropConnection
    /\ IF room
       THEN /\ reconnect' = "reconnecting"
            /\ roster' = AudioEnded(roster)
            /\ UNCHANGED <<phase, error, joining, room>>
       ELSE /\ phase' = "connecting_server" /\ error' = FALSE /\ joining' = FALSE
            /\ roster' = EmptyRoster
            /\ UNCHANGED <<room, reconnect>>
    /\ PutTask(id, [tasks[id] EXCEPT !.place = "connecting", !.rejoin = room])
    /\ UNCHANGED <<epoch, flow, reported, inbox, pumps, there, bounds, wish>>

\* A step that was ended before its turn came does nothing.
TurnTooLate(id) ==
    /\ tasks[id].kind \in {"connect", "reconnect"} /\ tasks[id].place = "turn"
    /\ HasTurn(InTurn(id)) /\ Ended(tasks[id])
    /\ Finish(id)
    /\ UNCHANGED <<inner, registry, pumps, audio, there, bounds, wish>>

EnterTurn(id) ==
    /\ tasks[id].kind \in {"create", "join"} /\ tasks[id].place = "turn"
    /\ HasTurn(InTurn(id))
    /\ IF room \/ connection = NoConn
       THEN Finish(id) /\ UNCHANGED inner
       ELSE /\ phase' = IF tasks[id].kind = "create" THEN "creating" ELSE "joining"
            /\ joining' = (joining \/ tasks[id].kind = "join")
            /\ error' = FALSE
            /\ PutTask(id, [tasks[id] EXCEPT !.place = "entering", !.conn = connection])
            /\ UNCHANGED <<epoch, connection, room, reconnect, roster, flow>>
    /\ UNCHANGED <<registry, pumps, audio, there, bounds, wish>>

\* Mutant: with the connection lost while it waited, leaving just fails.
LeaveTurnGivesUp(id) ==
    /\ tasks[id].kind = "leave" /\ tasks[id].place = "turn" /\ HasTurn(InTurn(id))
    /\ IF connection = NoConn \/ ~room THEN Finish(id) /\ UNCHANGED audio
       ELSE /\ audio' = AudioOff
            /\ PutTask(id, [tasks[id] EXCEPT !.place = "leaving", !.conn = connection])
            /\ UNCHANGED flow
    /\ UNCHANGED <<inner, registry, pumps, there, bounds, wish>>

\* Lost while it waited for its turn, the connection is made anew.
LeaveTurn(id) ==
    /\ tasks[id].kind = "leave" /\ tasks[id].place = "turn" /\ HasTurn(InTurn(id))
    /\ CASE connection = NoConn ->
              /\ epoch' = epoch + 1
              /\ PutTask(id, NewTask("connect", epoch'))
              /\ flow' = Append(Tail(flow), InTurn(id))
              /\ UNCHANGED audio
         [] connection # NoConn /\ ~room ->
              Finish(id) /\ UNCHANGED <<epoch, audio>>
         [] OTHER ->
              /\ audio' = AudioOff
              /\ PutTask(id, [tasks[id] EXCEPT !.place = "leaving", !.conn = connection])
              /\ UNCHANGED <<epoch, flow>>
    /\ UNCHANGED <<phase, connection, joining, error, room, reconnect, roster,
                   registry, pumps, there, bounds, wish>>

\* The server is reached.
Connects(id) ==
    LET t == tasks[id]
    IN  /\ t.place = "connecting"
        /\ \E c \in Conns :
            /\ conns[c] = "none" /\ \A d \in Conns : d < c => conns[d] # "none"
            /\ CASE Ended(t) ->
                      /\ conns' = [conns EXCEPT ![c] = "closed"]
                      /\ Finish(id)
                      /\ UNCHANGED <<connection, pumps>>
                 [] ~Ended(t) /\ t.kind = "connect" ->
                      /\ conns' = [conns EXCEPT ![c] = "open"]
                      /\ connection' = c
                      /\ SpawnPump(c, id)
                      /\ PutTask(id, [t EXCEPT !.place = "listing", !.conn = c])
                      /\ UNCHANGED flow
                 [] OTHER ->
                      /\ conns' = [conns EXCEPT ![c] = "open"]
                      /\ PutTask(id, [t EXCEPT !.conn = c, !.place =
                                        IF t.rejoin THEN "entering" ELSE "listing"])
                      /\ UNCHANGED <<connection, flow, pumps>>
    /\ UNCHANGED <<epoch, phase, joining, error, room, reconnect, roster,
                   reported, inbox, audio, there, bounds, wish>>

\* Mutant: the last attempt to fail is not told.
AttemptFailsQuietly(id) ==
    /\ UNCHANGED inner
    /\ IF tasks[id].attempt < MaxAttempts
       THEN /\ PutTask(id, [tasks[id] EXCEPT !.place = "pausing", !.conn = NoConn])
            /\ UNCHANGED flow
       ELSE Finish(id)

\* One attempt to get the connection back failed.
AttemptFails(id) ==
    IF tasks[id].attempt < MaxAttempts
    THEN /\ PutTask(id, [tasks[id] EXCEPT !.place = "pausing", !.conn = NoConn])
         /\ UNCHANGED <<inner, flow>>
    ELSE /\ Finish(id)
         /\ IF tasks[id].rejoin
            THEN /\ reconnect' = "failed"
                 /\ UNCHANGED <<epoch, phase, connection, joining, error, room, roster>>
            ELSE FailsUnlessEnded(id)

\* The server is not reached.  If the clock is what it refuses, the app looks at
\* the server's time until it connects again.
ConnectFails(id) ==
    /\ tasks[id].place = "connecting"
    /\ IF tasks[id].kind = "reconnect" THEN AttemptFails(id)
       ELSE /\ FailsUnlessEnded(id)
            /\ \/ Finish(id)
               \/ /\ ~Ended(tasks[id])
                  /\ PutTask(id, [tasks[id] EXCEPT !.place = "clock"])
                  /\ flow' = Tail(flow)
    /\ UNCHANGED <<registry, pumps, audio, there, bounds, wish>>

ClockIsRight(id) ==
    /\ tasks[id].place = "clock" /\ ~Ended(tasks[id])
    /\ PutTask(id, [tasks[id] EXCEPT !.place = "turn"])
    /\ flow' = Append(flow, InTurn(id))
    /\ UNCHANGED <<inner, registry, pumps, audio, there, bounds, wish>>

\* Mutant: attempts are not counted.
TriesForEver(id) ==
    /\ tasks[id].place = "pausing" /\ ~Ended(tasks[id])
    /\ PutTask(id, [tasks[id] EXCEPT !.place = "connecting"])
    /\ UNCHANGED <<inner, flow, registry, pumps, audio, there, bounds, wish>>

TriesAgain(id) ==
    /\ tasks[id].place = "pausing" /\ ~Ended(tasks[id])
    /\ PutTask(id, [tasks[id] EXCEPT !.place = "connecting", !.attempt = @ + 1])
    /\ UNCHANGED <<inner, flow, registry, pumps, audio, there, bounds, wish>>

\* The server lists its rooms; room messages that come first are let go.
Lists(id) ==
    LET t == tasks[id]
    IN  /\ t.place = "listing" /\ conns[t.conn] = "open"
        /\ inbox' = [inbox EXCEPT ![t.conn] = <<>>]
        /\ phase' = "server_connected"
        /\ connection' = t.conn
        /\ IF t.kind = "reconnect" THEN SpawnPump(t.conn, id) ELSE UNCHANGED pumps
        /\ Finish(id)
    /\ UNCHANGED <<epoch, joining, error, room, reconnect, roster, conns, reported,
                   audio, there, bounds, wish>>

ListFails(id) ==
    LET t == tasks[id]
    IN  /\ t.place = "listing"
        /\ IF t.kind = "connect"
           THEN Finish(id) /\ FailsUnlessEnded(id) /\ UNCHANGED conns
           ELSE AttemptFails(id) /\ conns' = Disconnected(t.conn)
    /\ UNCHANGED <<reported, inbox, pumps, audio, there, bounds, wish>>

\* The server takes the app into a room.
Enters(id) ==
    LET t == tasks[id]
    IN  /\ t.place = "entering" /\ conns[t.conn] = "open" /\ inbox[t.conn] = <<>>
        /\ connection' = t.conn
        /\ room' = TRUE /\ phase' = "connected"
        /\ error' = FALSE /\ joining' = FALSE /\ reconnect' = "idle"
        /\ \E peers \in (IF t.kind = "create" THEN {<<>>} ELSE RoomLists) :
              LET entered == Entered(roster, Own, peers)
              IN  /\ roster' = entered.roster
                  /\ there' = Range(peers)
                  /\ PutTask(id, [t EXCEPT !.place = "audio", !.todo = entered.audio])
        /\ IF t.kind = "reconnect" THEN SpawnPump(t.conn, id) ELSE UNCHANGED pumps
    /\ UNCHANGED <<epoch, flow, registry, audio, bounds, wish>>

EnterFails(id) ==
    LET t == tasks[id]
    IN  /\ t.place = "entering"
        /\ IF t.kind = "reconnect"
           THEN AttemptFails(id) /\ conns' = Disconnected(t.conn)
           ELSE Finish(id) /\ Fails /\ UNCHANGED conns
        /\ inbox' = [inbox EXCEPT ![t.conn] = <<>>]
    /\ UNCHANGED <<reported, pumps, audio, there, bounds, wish>>

StartsAudio(id) ==
    LET t == tasks[id]
    IN  /\ t.place = "audio"
        /\ \E ok \in BOOLEAN :
              LET now == RunAudio(roster, t.todo, Len(t.todo), ok)
              IN  roster' = now.roster /\ audio' = now.audio
        /\ Finish(id)
    /\ UNCHANGED <<epoch, phase, connection, joining, error, room, reconnect,
                   registry, pumps, there, bounds, wish>>

Leaves(id) ==
    LET t == tasks[id]
    IN  /\ t.place = "leaving"
        /\ \/ conns[t.conn] = "open" /\ phase' = "server_connected" /\ UNCHANGED error
           \/ phase' = "error" /\ error' = TRUE
        /\ room' = FALSE /\ roster' = EmptyRoster
        /\ inbox' = [inbox EXCEPT ![t.conn] = <<>>]
        /\ Finish(id)
    /\ UNCHANGED <<epoch, connection, joining, reconnect, conns, reported, pumps,
                   audio, there, bounds, wish>>

\* Mutant: the connection made for a step that was ended is left open.
DroppedNot(t) == conns

\* The connections after the step is dropped: one made to get the lost one back is
\* of no use to anyone.
Dropped(t) == IF t.kind = "reconnect" THEN Disconnected(t.conn) ELSE conns

\* The step finds that it was ended: what it waited for is dropped.
Stops(id) ==
    LET t == tasks[id]
    IN  /\ Endable(t) /\ Ended(t)
        /\ conns' = Dropped(t)
        /\ IF t.place = "audio"
           THEN \E n \in 0..Len(t.todo) :
                  LET now == RunAudio(roster, t.todo, n, TRUE)
                  IN  roster' = now.roster /\ audio' = now.audio
           ELSE UNCHANGED <<roster, audio>>
        /\ PutTask(id, Over(t))
        /\ flow' = IF t.place = "clock" THEN flow ELSE Tail(flow)
    /\ UNCHANGED <<epoch, phase, connection, joining, error, room, reconnect,
                   reported, inbox, pumps, there, bounds, wish>>

Step(id) ==
    \/ ConnectTurn(id) \/ ReconnectTurn(id) \/ TurnTooLate(id) \/ EnterTurn(id)
    \/ LeaveTurn(id) \/ TriesAgain(id) \/ StartsAudio(id) \/ Stops(id)

Answer(id) ==
    \/ Connects(id) \/ ConnectFails(id) \/ Lists(id) \/ ListFails(id)
    \/ Enters(id) \/ EnterFails(id) \/ Leaves(id)

-----------------------------------------------------------------------------
(* The pumps.  Each sleeps, reads what the server sent (signaling_poll_events), *)
(* takes a turn for each event, and then one for the state of the audio link.   *)

\* A pump started by a step that was ended already sleeps longer (500 ms) than
\* that step takes to notice (100 ms) and the one that ended it to take over,
\* unless that one waits behind a step that leaves.
Rested(c) ==
    pumps[c].after # 0 =>
        /\ \A id \in DOMAIN tasks : id = pumps[c].after => tasks[id].place = "done"
        /\ \/ \E id \in DOMAIN tasks : tasks[id].place = "leaving"
           \/ \A id \in DOMAIN tasks : tasks[id].place = "turn" => Ended(tasks[id])

PumpEnds(c) ==
    /\ pumps[c].at = "sleep" /\ connection # c /\ Rested(c)
    /\ pumps' = [pumps EXCEPT ![c].at = "none"]
    /\ UNCHANGED <<inner, flow, tasks, registry, audio, there, bounds, wish>>

\* The batch is handled: the pump looks at the audio link, and takes a turn to
\* report it or sleeps.
LooksAtLink(c, queue) ==
    IF audio.link = "quiet"
    THEN /\ pumps' = [pumps EXCEPT ![c].at = "sleep", ![c].batch = <<>>, ![c].after = 0]
         /\ flow' = queue
    ELSE /\ pumps' = [pumps EXCEPT ![c].at = "link", ![c].batch = <<>>,
                                   ![c].link = audio.link]
         /\ flow' = Append(queue, InPump(c))

\* Mutant: the step that gets the connection back is given the epoch before.
GetsConnectionBackStale(c, queue) ==
    /\ epoch' = epoch + 1 /\ AsksBehind(queue, "reconnect", epoch)
    /\ pumps' = [pumps EXCEPT ![c].at = "none", ![c].batch = <<>>]

\* The session's connection is lost: whatever step runs is ended, and the
\* connection is got back.  One that is the session's no more ends nothing.
GetsConnectionBack(c, queue) ==
    /\ IF connection = c THEN epoch' = epoch + 1 /\ AsksBehind(queue, "reconnect", epoch')
       ELSE flow' = queue /\ UNCHANGED <<epoch, tasks>>
    /\ pumps' = [pumps EXCEPT ![c].at = "none", ![c].batch = <<>>]

\* Mutant: only the first event of a batch is handled.
GoesOnWithTheFirst(c, batch, queue) ==
    CASE batch = <<>> -> LooksAtLink(c, queue) /\ UNCHANGED <<epoch, tasks>>
      [] batch # <<>> /\ Head(batch).what = "lost" -> GetsConnectionBack(c, queue)
      [] OTHER -> /\ pumps' = [pumps EXCEPT ![c].at = "event", ![c].batch = <<Head(batch)>>]
                  /\ flow' = Append(queue, InPump(c))
                  /\ UNCHANGED <<epoch, tasks>>

\* The pump of c has `batch` still to handle, and `queue` is who has the flow.
GoesOn(c, batch, queue) ==
    CASE batch = <<>> -> LooksAtLink(c, queue) /\ UNCHANGED <<epoch, tasks>>
      [] batch # <<>> /\ Head(batch).what = "lost" -> GetsConnectionBack(c, queue)
      [] OTHER -> /\ pumps' = [pumps EXCEPT ![c].at = "event", ![c].batch = batch]
                  /\ flow' = Append(queue, InPump(c))
                  /\ UNCHANGED <<epoch, tasks>>

\* What arrived is read; that the connection is lost is told once.
PumpPolls(c) ==
    LET lost == IF conns[c] = "lost" /\ c \notin reported THEN <<[what |-> "lost"]>>
                ELSE <<>>
    IN  /\ pumps[c].at = "sleep" /\ connection = c /\ Rested(c)
        /\ conns[c] \in {"open", "lost"}
        /\ \A id \in DOMAIN tasks : ~HoldsRegistry(tasks[id])
        /\ GoesOn(c, inbox[c] \o lost, flow)
        /\ inbox' = [inbox EXCEPT ![c] = <<>>]
        /\ reported' = IF lost = <<>> THEN reported ELSE reported \cup {c}
    /\ UNCHANGED <<phase, connection, joining, error, room, reconnect, roster,
                   conns, audio, there, bounds, wish>>

\* The roster hears of something and its decision about the audio is carried out.
Decided(decision) ==
    \E ok \in BOOLEAN :
        LET now == RunAudio(decision.roster, decision.audio, Len(decision.audio), ok)
        IN  roster' = now.roster /\ audio' = now.audio

\* An event, or a report of the link, concerns the room the app is in.
Concerns(c) == connection = c /\ room

\* Mutant: the flow is still held when the next turn is asked for.
EventTurnHoldsFlow(c) ==
    /\ pumps[c].at = "event" /\ HasTurn(InPump(c))
    /\ GoesOn(c, Tail(pumps[c].batch), flow)
    /\ UNCHANGED <<phase, connection, joining, error, room, reconnect, roster,
                   registry, audio, there, bounds, wish>>

EventTurn(c) ==
    LET event == Head(pumps[c].batch)
    IN  /\ pumps[c].at = "event" /\ HasTurn(InPump(c))
        /\ Decided(CASE ~Concerns(c) -> Decides(roster, <<>>)
                     [] Concerns(c) /\ event.what = "joined" ->
                            Decides(Joined(roster, event.peer), <<>>)
                     [] Concerns(c) /\ event.what = "updated" -> Updated(roster, event.peer)
                     [] OTHER -> Left(roster, event.peer.id))
        /\ GoesOn(c, Tail(pumps[c].batch), Tail(flow))
    /\ UNCHANGED <<phase, connection, joining, error, room, reconnect,
                   registry, there, bounds, wish>>

LinkTurn(c) ==
    /\ pumps[c].at = "link" /\ HasTurn(InPump(c))
    /\ flow' = Tail(flow)
    /\ pumps' = [pumps EXCEPT ![c].at = "sleep", ![c].link = "quiet",
                              ![c].after = 0]
    /\ Decided(CASE ~Concerns(c) -> Decides(roster, <<>>)
                 [] Concerns(c) /\ pumps[c].link = "reconnecting" -> AudioSilent(roster)
                 [] Concerns(c) /\ pumps[c].link = "failed" -> AudioFailed(roster)
                 [] OTHER -> Decides(AudioRecovered(roster), <<>>))
    /\ UNCHANGED <<epoch, phase, connection, joining, error, room, reconnect,
                   tasks, registry, there, bounds, wish>>

Pump(c) ==
    \/ PumpEnds(c) \/ PumpPolls(c) \/ EventTurn(c) \/ LinkTurn(c)

-----------------------------------------------------------------------------
(* The server, the room's other participants and the audio link.           *)

Lose(c) ==
    /\ losses < MaxLosses /\ losses' = losses + 1
    /\ conns[c] = "open"
    /\ conns' = [conns EXCEPT ![c] = "lost"]
    /\ UNCHANGED <<inner, flow, tasks, reported, inbox, pumps, audio, there,
                   commands, news, wish>>

HappensNow == /\ news < MaxNews /\ news' = news + 1
              /\ UNCHANGED <<commands, losses, wish>>

\* The server tells the app what another participant does.
Tells(c, event) == inbox' = [inbox EXCEPT ![c] = Append(@, event)]

RoomChanges(c) ==
    /\ HappensNow
    /\ connection = c /\ room /\ conns[c] = "open"
    /\ \/ \E peer \in PeerInfos :
            /\ peer.id \notin {Own} \cup {p.id : p \in there} /\ peer.addr = 0
            /\ there' = there \cup {peer}
            /\ Tells(c, [what |-> "joined", peer |-> peer])
       \/ \E peer \in PeerInfos, known \in there :
            /\ peer.id = known.id /\ HasAddress(peer)
            /\ there' = (there \ {known}) \cup {peer}
            /\ Tells(c, [what |-> "updated", peer |-> peer])
       \/ \E known \in there :
            /\ there' = there \ {known}
            /\ Tells(c, [what |-> "left", peer |-> known])
    /\ UNCHANGED <<inner, flow, tasks, conns, reported, pumps, audio>>

\* The link of the audio session that runs comes up, goes silent, comes back,
\* or gives up (link_state).
LinkChanges ==
    /\ HappensNow
    /\ audio.with # Nobody /\ audio.link # "failed"
    /\ \E link \in (IF audio.link = "connected" THEN {"reconnecting"}
                     ELSE {"connected", "failed"}) :
            audio' = [audio EXCEPT !.link = link]
    /\ UNCHANGED <<inner, flow, tasks, registry, pumps, there>>

-----------------------------------------------------------------------------
Command ==
    \/ SessionConnect \/ SessionEnter("create") \/ SessionEnter("join")
    \/ SessionLeave \/ SessionReconnect

Next ==
    \/ Command
    \/ \E id \in DOMAIN tasks : Step(id) \/ Answer(id) \/ ClockIsRight(id)
    \/ \E c \in Conns : Pump(c) \/ Lose(c) \/ RoomChanges(c)
    \/ LinkChanges

Spec == Init /\ [][Next]_vars

\* The runtime goes on with every task that can, and what the server is asked it
\* answers, or the call fails.
Goes == /\ \A id \in TaskIds : WF_vars(id \in DOMAIN tasks /\ Step(id))
        /\ \A c \in Conns : WF_vars(Pump(c))

FairSpec == Spec /\ Goes /\ \A id \in TaskIds : WF_vars(id \in DOMAIN tasks /\ Answer(id))

\* A server that is reached and then says nothing: the calls it is asked over the
\* connection have no time limit, only connecting has.
SilentSpec ==
    Spec /\ Goes /\ \A id \in TaskIds :
        WF_vars(id \in DOMAIN tasks /\ tasks[id].place = "connecting" /\ Answer(id))

-----------------------------------------------------------------------------
(* Properties.                                                             *)

Running(id) == tasks[id].place # "done"
Working == {id \in DOMAIN tasks : Running(id) /\ tasks[id].place # "clock"}

\* A step that makes a connection and has not been ended.
Pursued == \E id \in Working : tasks[id].kind \in {"connect", "reconnect"} /\ ~Ended(tasks[id])

\* The flow is held and waited for by the steps and the pumps that are at such a
\* place, and by each once (SessionState.flow).
EachWaitsOnce ==
    /\ IsInjective(flow)
    /\ Range(flow) = {InTurn(id) : id \in Working}
                        \cup {InPump(c) : c \in {d \in Conns : pumps[d].at \in {"event", "link"}}}

\* Every variable has its type, and the flow is of those who wait for it.
TypeOK ==
    /\ epoch \in Nat /\ phase \in Phases /\ connection \in Conns \cup {NoConn}
    /\ {joining, error, room} \subseteq BOOLEAN
    /\ reconnect \in {"idle", "reconnecting", "failed"}
    /\ roster.peers \in Seq(PeerInfos) /\ roster.with \in Ids \cup {Nobody}
    /\ conns \in [Conns -> {"none", "open", "lost", "closed"}]
    /\ reported \subseteq Conns
    /\ audio.with \in Ids \cup {Nobody}
    /\ \A id \in DOMAIN tasks : tasks[id].place \in Places /\ tasks[id].kind \in Kinds
    /\ EachWaitsOnce

\* The screen can be drawn from one snapshot: the room's screen is up exactly
\* while the app is in a room, a message is shown exactly in the error phase, a
\* code only while joining it, and a connection is only being got back for a room
\* (Snapshot; the room's screen stays up through reconnect).
ScreenCoherent ==
    /\ phase = "connected" <=> room
    /\ phase = "error" <=> error
    /\ phase = "joining" => joining
    /\ joining => phase = "joining"
    /\ reconnect # "idle" => room

\* Whenever nobody holds the flow, the audio session runs with whom the roster
\* says it does, and only in a room (run_audio, drop_connection, start_failed).
AudioIsTheRosters ==
    flow = <<>> => /\ audio.with = roster.with
                   /\ audio.with # Nobody => room

\* No connection is left in the registry with nobody to close it: it is the
\* session's, or a step that is not over yet has it in hand (signaling_connect's
\* callers, try_reconnect's disconnect).
NoConnectionLeaked ==
    \A c \in Conns : conns[c] \in {"open", "lost"} =>
        c = connection \/ \E id \in Working : tasks[id].conn = c

\* The session never waits for what nobody works on: while the screen says it is
\* connecting or the connection is being got back, a step that was not ended is at
\* it, and a connection the session has is either watched by its pump or about to
\* be replaced (next_epoch, next_epoch_of, spawn_pump).
SomebodyIsAtIt ==
    /\ phase = "connecting_server" \/ reconnect = "reconnecting" => Pursued
    /\ connection # NoConn => pumps[connection].at # "none" \/ Pursued

Caught(c) == inbox[c] = <<>> /\ pumps[c].batch = <<>>

RosterIsThere == Range(roster.peers) = there

\* With every event read and handled, the roster is what the server has in the
\* room, as long as no room was left (handle_events).
RosterCatchesUp ==
    room /\ connection # NoConn /\ flow = <<>> /\ Caught(connection)
         /\ (\A id \in DOMAIN tasks : tasks[id].kind # "leave")
      => RosterIsThere

\* The same, whatever was left before: events of a room the app has left tell it
\* nothing of the one it is in.
RosterIsTheRooms ==
    room /\ connection # NoConn /\ flow = <<>> /\ Caught(connection) => RosterIsThere

AllDone == \A id \in DOMAIN tasks : ~Running(id)
\* Whoever asked to leave last is in no room once every step is done, whatever was
\* lost and got back meanwhile (leave).
LeftForGood == wish = "left" /\ AllDone => ~room

\* Whoever asked last for a connection from scratch is in no room once every step
\* is done (session_connect: what Cancel does).
CancelledForGood == wish = "cancelled" /\ AllDone => ~room

\* A lost connection does not stay the session's (ConnectionLost, reconnect).
LossIsGotOver == \A c \in Conns : connection = c /\ conns[c] = "lost" ~> connection # c

\* Connecting comes to an end, the room's rejoining too: made, or failed
\* (MAX_RECONNECT_ATTEMPTS).
ConnectingSettles ==
    phase = "connecting_server" \/ reconnect = "reconnecting"
      ~> ~(phase = "connecting_server" \/ reconnect = "reconnecting")

\* The flow is let go of again and again: no step holds it for ever.
FlowIsFreed == []<>(flow = <<>>)

\* The step that holds the flow lets go when another is to take over: whoever
\* asked for a connection from scratch gets a turn (SessionState.flow).
TakesOver ==
    \A id \in TaskIds :
        (id \in DOMAIN tasks /\ tasks[id].kind = "connect" /\ tasks[id].place = "turn")
          ~> (id \in DOMAIN tasks /\ tasks[id].place # "turn")
===============================================================================
