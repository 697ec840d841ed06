------------------------------ MODULE Streaming ------------------------------
(***************************************************************************)
(* The audio sessions of src/src-tauri/src/streaming.rs: each has a thread *)
(* of its own, and all share one flag, one sender of commands, one list of *)
(* device problems and one published state of the link.  Sessions are      *)
(* started and stopped in turn (under the session's flow), settings change *)
(* at any time (settings.rs), and devices open on threads of their own     *)
(* (audio_slot.rs).                                                        *)
(*                                                                         *)
(* Of the devices the input is modelled, without ASIO.  A thread that      *)
(* opens devices or probes the peer may take longer than streaming_stop    *)
(* waits: opening has 8 s for each device, probing 1.5 s, the stop 2 s.    *)
(***************************************************************************)
EXTENDS Naturals, Sequences, FiniteSets

CONSTANTS
  Devices,      \* the input devices
  Nothing,      \* no device, no session
  Silent,       \* the ring that stays empty
  Stop,         \* the command that ends a session
  MaxSessions,  \* bound: sessions started
  MaxChanges,   \* bound: changes of the setting
  MaxSlow       \* bound: how often a thread outlasts the stop's wait

ASSUME StreamingAssumption ==
  /\ Nothing \notin Devices /\ Silent \notin Devices /\ Stop \notin Devices
  /\ Nothing \notin Nat
  /\ MaxSessions \in Nat /\ MaxChanges \in Nat /\ MaxSlow \in Nat

Sessions == 1 .. MaxSessions

VARIABLES
  active,     \* is_active
  sender,     \* cmd_tx: the session whose thread it sends to
  saved,      \* the input device in the saved settings
  problem,    \* device_problems: the device that is not in use
  published,  \* the session that published a link state the roster heeds
  control,    \* the step that has the flow: "idle", "starting", "holding" changes off, "stopping"
  change,     \* the change that holds `changing`: "none", "saved"
  started,    \* how many sessions were started
  stage,      \* per session, how far its thread is
  queue,      \* per session, its commands
  slot,       \* per session, its input: device wanted, being opened, in use
  told,       \* the sessions that were asked to stop
  outlived,   \* those whose thread outlasted the stop
  changes

vars == <<active, sender, saved, problem, published, control, change, started,
          stage, queue, slot, told, outlived, changes>>
threads == <<stage, queue, slot, published>>
asked == <<sender, control, started, told, outlived>>
settings == <<saved, change, changes>>

NotOpening == [device |-> Nothing, result |-> Nothing]
NoSlot == [wanted |-> Nothing, opening |-> NotOpening, ring |-> Silent]

Init ==
  /\ active = FALSE /\ sender = Nothing
  /\ saved \in Devices
  /\ problem = Nothing /\ published = Nothing
  /\ control = "idle" /\ change = "none" /\ started = 0
  /\ stage = [n \in Sessions |-> "none"]
  /\ queue = [n \in Sessions |-> <<>>]
  /\ slot = [n \in Sessions |-> NoSlot]
  /\ told = {} /\ outlived = {} /\ changes = 0

(***************************************************************************)
(* streaming_start and streaming_stop.                                     *)
(***************************************************************************)
StartBegins ==
  /\ control = "idle" /\ ~active /\ started < MaxSessions
  /\ started' = started + 1
  /\ sender' = started'
  /\ problem' = Nothing
  /\ control' = "starting"
  /\ UNCHANGED <<active, threads, told, outlived, settings>>

\* Changes are held off from here on until the session is active.
StartReads ==
  /\ control = "starting" /\ change = "none"
  /\ slot' = [slot EXCEPT ![started].wanted = saved]
  /\ control' = "holding"
  /\ UNCHANGED <<active, sender, problem, published, started, stage, queue, told, outlived, settings>>

StartActivates ==
  /\ control = "holding"
  /\ stage' = [stage EXCEPT ![started] = "opening"]
  /\ active' = TRUE /\ control' = "idle"
  /\ UNCHANGED <<sender, problem, published, started, queue, slot, told, outlived, settings>>

\* The settings cannot be read.
StartFails ==
  /\ control = "starting" /\ change = "none"
  /\ stage' = [stage EXCEPT ![started] = "ended"]
  /\ control' = "idle"
  /\ UNCHANGED <<active, sender, problem, published, started, queue, slot, told, outlived, settings>>

StopBegins ==
  /\ control = "idle" /\ active
  /\ problem' = Nothing
  /\ sender' = Nothing
  /\ queue' = [queue EXCEPT ![sender] = Append(@, Stop)]
  /\ told' = told \cup {sender}
  /\ control' = "stopping"
  /\ UNCHANGED <<active, published, started, stage, slot, outlived, settings>>

\* There is nothing to stop, but a problem to forget.
StopInVain ==
  /\ control = "idle" /\ ~active /\ problem # Nothing
  /\ problem' = Nothing
  /\ UNCHANGED <<active, asked, threads, settings>>

\* Mutant: the stop does not wait for the thread.
StopDoneAtOnce ==
  /\ control = "stopping"
  /\ control' = "idle" /\ active' = FALSE
  /\ UNCHANGED <<sender, problem, started, told, outlived, threads, settings>>

StopDone ==
  /\ control = "stopping" /\ ~active
  /\ control' = "idle"
  /\ UNCHANGED <<active, sender, problem, started, told, outlived, threads, settings>>

\* STOP_WAIT_LIMIT has passed, and the flag is cleared here.
StopGivesUp ==
  /\ control = "stopping" /\ active
  /\ stage[started] \in {"opening", "connecting"}
  /\ Cardinality(outlived) < MaxSlow
  /\ outlived' = outlived \cup {started}
  /\ active' = FALSE /\ control' = "idle"
  /\ UNCHANGED <<sender, problem, started, told, threads, settings>>

(***************************************************************************)
(* Changing the setting: settings.rs apply, StreamingState::apply_setting. *)
(***************************************************************************)
\* Mutant: a start does not hold changes off.
ChangeSavesUnheld ==
  /\ change = "none" /\ changes < MaxChanges
  /\ saved' \in Devices
  /\ change' = "saved" /\ changes' = changes + 1
  /\ UNCHANGED <<active, asked, threads, problem>>

ChangeSaves ==
  /\ change = "none" /\ control # "holding" /\ changes < MaxChanges
  /\ saved' \in Devices
  /\ change' = "saved" /\ changes' = changes + 1
  /\ UNCHANGED <<active, asked, threads, problem>>

\* The flag is looked at and the command sent; the sender's lock is never held
\* for longer than it takes to send, so no stop and start fit in between.
ChangeTells ==
  /\ change = "saved"
  /\ queue' = IF active /\ sender # Nothing THEN [queue EXCEPT ![sender] = Append(@, saved)] ELSE queue
  /\ change' = "none"
  /\ UNCHANGED <<active, asked, stage, slot, published, problem, saved, changes>>

(***************************************************************************)
(* A session's thread: run_audio_streaming.                                *)
(***************************************************************************)
Goes(n, to) == stage' = [stage EXCEPT ![n] = to]

\* The input opens, or the session goes on in silence; without an output it
\* ends.
OpensDevices(n) ==
  /\ stage[n] = "opening"
  /\ \E opened \in BOOLEAN :
       /\ slot' = [slot EXCEPT ![n].ring = IF opened THEN slot[n].wanted ELSE Silent]
       /\ problem' = IF opened THEN problem ELSE slot[n].wanted
  /\ \/ Goes(n, "connecting")
     \/ Goes(n, "failing")
  /\ UNCHANGED <<active, asked, queue, published, settings>>

Connects(n) ==
  /\ stage[n] = "connecting"
  /\ Goes(n, "running")
  /\ published' = n
  /\ UNCHANGED <<active, asked, queue, slot, problem, settings>>

ConnectFails(n) ==
  /\ stage[n] = "connecting"
  /\ Goes(n, "closing")
  /\ UNCHANGED <<active, asked, queue, slot, published, problem, settings>>

\* Mutant: an open that is out is waited for, and taken for the new one.
SwitchedLater(s, device) ==
  [s EXCEPT !.wanted = device,
            !.opening = IF @ = NotOpening THEN [device |-> device, result |-> Nothing] ELSE @]
\* DeviceSlot::switch: an open that is out is given up on.
Switched(s, device) ==
  [s EXCEPT !.wanted = device, !.opening = [device |-> device, result |-> Nothing]]

\* A turn of the loop that a command ends.
TurnStops(n) ==
  /\ stage[n] = "running"
  /\ IF queue[n] = <<>> THEN sender # n ELSE Head(queue[n]) = Stop
  /\ Goes(n, "closing")
  /\ UNCHANGED <<active, asked, queue, slot, published, problem, settings>>

\* Every other turn ends by looking at the flag.
StillOn(n) == Goes(n, IF active THEN "running" ELSE "closing")

TurnSwitches(n) ==
  /\ stage[n] = "running" /\ queue[n] # <<>> /\ Head(queue[n]) # Stop
  /\ slot' = [slot EXCEPT ![n] = Switched(@, Head(queue[n]))]
  /\ queue' = [queue EXCEPT ![n] = Tail(@)]
  /\ StillOn(n)
  /\ UNCHANGED <<active, asked, published, problem, settings>>

\* DeviceSlot::poll: how the open went.
TurnPolls(n) ==
  /\ stage[n] = "running" /\ queue[n] = <<>> /\ sender = n
  /\ slot[n].opening.result # Nothing
  /\ slot' = [slot EXCEPT ![n].opening = NotOpening, ![n].ring = slot[n].opening.result]
  /\ problem' = IF slot[n].opening.result = Silent THEN slot[n].wanted ELSE Nothing
  /\ StillOn(n)
  /\ UNCHANGED <<active, asked, queue, published, settings>>

TurnIsLast(n) ==
  /\ stage[n] = "running" /\ queue[n] = <<>> /\ sender = n
  /\ ~active
  /\ Goes(n, "closing")
  /\ UNCHANGED <<active, asked, queue, slot, published, problem, settings>>

\* The thread that opens the device is done; the stream it had is stopped.
OpenFinishes(n) ==
  /\ slot[n].opening.device # Nothing /\ slot[n].opening.result = Nothing
  /\ \E result \in {slot[n].opening.device, Silent} :
       slot' = [slot EXCEPT ![n].ring = Silent, ![n].opening.result = result]
  /\ UNCHANGED <<active, asked, stage, queue, published, problem, settings>>

\* Mutant: the connection is not disconnected.
EndsConnected(n) ==
  /\ stage[n] \in {"closing", "failing"}
  /\ Goes(n, "ended")
  /\ active' = FALSE
  /\ UNCHANGED <<asked, queue, slot, published, problem, settings>>

\* The link is disconnected, which publishes that, and the flag is cleared.
Ends(n) ==
  /\ stage[n] \in {"closing", "failing"}
  /\ Goes(n, "ended")
  /\ published' = IF stage[n] = "closing" THEN Nothing ELSE published
  /\ active' = FALSE
  /\ UNCHANGED <<asked, queue, slot, problem, settings>>

Thread(n) ==
  \/ OpensDevices(n) \/ Connects(n) \/ ConnectFails(n)
  \/ TurnStops(n) \/ TurnSwitches(n) \/ TurnPolls(n) \/ TurnIsLast(n)
  \/ OpenFinishes(n) \/ Ends(n)

Next ==
  \/ StartBegins \/ StartReads \/ StartActivates \/ StartFails
  \/ StopBegins \/ StopInVain \/ StopDone \/ StopGivesUp
  \/ ChangeSaves \/ ChangeTells
  \/ \E n \in Sessions : Thread(n)

Spec == Init /\ [][Next]_vars
-----------------------------------------------------------------------------
Input == [wanted : Devices \cup {Nothing},
          opening : [device : Devices \cup {Nothing}, result : Devices \cup {Silent, Nothing}],
          ring : Devices \cup {Silent}]
TypeOK ==
  /\ active \in BOOLEAN
  /\ sender \in Sessions \cup {Nothing}
  /\ saved \in Devices
  /\ problem \in Devices \cup {Nothing}
  /\ published \in Sessions \cup {Nothing}
  /\ control \in {"idle", "starting", "holding", "stopping"}
  /\ change \in {"none", "saved"}
  /\ started \in 0 .. MaxSessions
  /\ stage \in [Sessions -> {"none", "opening", "connecting", "running", "failing", "closing", "ended"}]
  /\ queue \in [Sessions -> Seq(Devices \cup {Stop})]
  /\ slot \in [Sessions -> Input]
  /\ told \subseteq Sessions /\ outlived \subseteq told
  /\ changes \in 0 .. MaxChanges

\* What session n will have as its input once it has read its commands.
Asked(n) == IF queue[n] = <<>> THEN slot[n].wanted ELSE queue[n][Len(queue[n])]

\* A change is either in what a session started with or sent to it
\* (streaming.rs:1011): no session runs on with another device than the one
\* saved and shown.
SavedReachesSession ==
  active /\ control = "idle" /\ change = "none" => Asked(started) = saved

\* With no open out, a running session has the device it wants, or stays silent
\* and the screen says which device is not in use (streaming.rs:1718).
InUseOrTold ==
  \A n \in Sessions :
    stage[n] = "running" /\ n \notin told /\ slot[n].opening = NotOpening /\ outlived = {} =>
      IF problem = Nothing THEN slot[n].ring = slot[n].wanted
      ELSE problem = slot[n].wanted /\ slot[n].ring = Silent

\* A session that runs goes on until it is told to stop.
RunsUntilTold ==
  [][\A n \in Sessions : stage[n] = "running" /\ stage'[n] = "closing" => n \in told]_vars

\* The same, as long as no thread has outlasted the wait of the stop.
RunsUntilToldInTime ==
  [][outlived = {} => \A n \in Sessions :
       stage[n] = "running" /\ stage'[n] = "closing" => n \in told]_vars

\* The link state the roster reads is that of the session started last: a new
\* session never looks connected, silent or failed because of the one before.
LinkIsCurrent == published # Nothing /\ outlived = {} => published = started
=============================================================================
