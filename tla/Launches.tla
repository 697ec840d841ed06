------------------------------- MODULE Launches -------------------------------
(***************************************************************************)
(* One launch of the app after another: how each starts, updates and ends, *)
(* what it finds of the one before (src-tauri watchdog.rs, lib.rs,         *)
(* restart.rs, updater.rs), and what of that goes to the server (usage.rs, *)
(* src/telemetry).  The process may end between any two steps; what is on  *)
(* disk stays.  An incident is named by the launch it happened in.         *)
(*                                                                         *)
(* One process runs at a time.  Not modelled: what an event says, the      *)
(* limits of a batch, the totals of a session in a room, the report of a   *)
(* changed setting or device, when an update is due.                       *)
(***************************************************************************)
EXTENDS Naturals, FiniteSets

CONSTANTS
  Nobody,       \* no launch
  Loop,         \* the background loop of updater.rs
  Hand,         \* an update asked for by hand (install_now)
  MaxLaunches,  \* bound: launches
  MaxSaves,     \* bound: changes of the setting
  MaxTroubles   \* bound: updates begun and panics, together

ASSUME LaunchesAssumption ==
  /\ Nobody \notin Nat /\ Loop # Hand
  /\ MaxLaunches \in Nat /\ MaxSaves \in Nat /\ MaxTroubles \in Nat

Launch == 1 .. MaxLaunches
Updaters == {Loop, Hand}

VARIABLES
  \* on disk
  setting,    \* usage_reporting, as saved
  agreed,     \* whether the terms are agreed to
  installId,  \* whether there is an install ID
  crashFile,  \* crash.json: the event the next launch sends
  hangFile,   \* hang.json: the launch that was stuck
  marker,     \* running.json: the launch that has not ended
  waiting,    \* pending_hang.json: the incident not answered yet
  \* the process
  launch, phase, found,
  enabled, queue,  \* the reporter
  toReport,        \* whether report_launch is still to run
  asking,          \* the incident the user is asked about
  oneOff,          \* the report sent on its own: how far it is, of whom, whether reporting was on
  at, gaveUp, running, installed,  \* the updates and their gate
  dump,            \* the crash record a panic's hook is about to write
  \* what came of it
  fate,       \* per launch, how it ended
  stuck,      \* the launches in which something did not return in time
  unasked,    \* whether an event was sent that was recorded without leave
  answers,    \* per launch, how often its incident was sent or thrown away
  late,       \* whether the crash record was written after reporting was turned off,
              \* and was not thrown away since
  saves, troubles

disk == <<setting, agreed, installId, crashFile, hangFile, marker, waiting>>
process == <<launch, phase, found>>
reporter == <<enabled, queue, toReport, asking, oneOff>>
gate == <<at, gaveUp, running, installed>>
outcome == <<fate, stuck, unasked, answers>>
hook == <<dump, late>>
bounds == <<saves, troubles>>
vars == <<disk, process, reporter, gate, hook, outcome, bounds>>

NoOneOff == [step |-> "none", of |-> Nobody, wasOn |-> FALSE]
Consent == setting /\ agreed
Lent == oneOff.step # "none" /\ ~oneOff.wasOn
Alive == phase # "down"
Up == phase \in {"running", "exiting", "overdue"}

\* Whether what is recorded now is recorded with the user's leave: the setting
\* is on, or reporting is lent on for a report the user agreed to.
Leave == Consent \/ Lent
\* An event tells an incident (or Nobody's), with or without leave.
Event(of, leave) == [of |-> of, leave |-> leave]

Init ==
  /\ setting \in BOOLEAN /\ agreed \in BOOLEAN
  /\ installId = FALSE /\ crashFile = Nobody
  /\ hangFile = Nobody /\ marker = Nobody /\ waiting = Nobody
  /\ launch = 0 /\ phase = "down" /\ found = Nobody
  /\ enabled = FALSE /\ queue = {} /\ toReport = FALSE /\ asking = Nobody /\ oneOff = NoOneOff
  /\ at = [u \in Updaters |-> "idle"] /\ gaveUp = {} /\ running = FALSE /\ installed = FALSE
  /\ dump = Nobody /\ late = FALSE
  /\ fate = [l \in Launch |-> "none"] /\ stuck = {}
  /\ unasked = FALSE /\ answers = [l \in Launch |-> 0]
  /\ saves = 0 /\ troubles = 0

(***************************************************************************)
(* The reporter (collector.rs).                                            *)
(***************************************************************************)
\* set_enabled(true): the ID may not be stored, and then it stays off.
TurnsOn ==
  /\ enabled' \in (IF enabled \/ installId THEN {TRUE} ELSE BOOLEAN)
  /\ installId' = (installId \/ enabled')
  /\ UNCHANGED <<queue, crashFile, late>>
\* set_enabled(false)
TurnsOff ==
  /\ enabled' = FALSE /\ installId' = FALSE /\ queue' = {} /\ crashFile' = Nobody
  /\ late' = FALSE

Push(events) == queue' = IF enabled THEN queue \cup events ELSE queue

\* How often the incident of launch l is among the events.
Told(l, events) == Cardinality({e \in events : e.of = l})

Sends ==
  /\ unasked' = (unasked \/ (enabled /\ \E e \in queue : ~e.leave))
  /\ answers' = IF enabled THEN [l \in Launch |-> answers[l] + Told(l, queue)] ELSE answers
  /\ queue' = IF enabled THEN {} ELSE queue

Flush ==
  /\ Up /\ enabled /\ queue # {}
  /\ Sends
  /\ UNCHANGED <<disk, process, enabled, toReport, asking, oneOff, gate, hook, fate, stuck, bounds>>

\* Anything else that is recorded, by any thread.
Records ==
  /\ Up
  /\ Push({Event(Nobody, Leave)})
  /\ UNCHANGED <<disk, process, enabled, toReport, asking, oneOff, gate, hook, outcome, bounds>>

\* A panic, of any thread; the process may go on.  Its hook looks whether
\* reporting is on, without the lock, and writes its record only after a
\* backtrace: what the others do in between it does not see.
Panics ==
  /\ Alive /\ enabled /\ dump = Nobody
  /\ troubles < MaxTroubles /\ troubles' = troubles + 1
  /\ dump' = Event(Nobody, Leave)
  /\ UNCHANGED <<disk, process, reporter, gate, late, outcome, saves>>

HookWrites ==
  /\ Alive /\ dump # Nobody
  /\ crashFile' = dump /\ dump' = Nobody /\ late' = ~enabled
  /\ UNCHANGED <<setting, agreed, installId, hangFile, marker, waiting>>
  /\ UNCHANGED <<process, reporter, gate, outcome, bounds>>

\* report_launch, of which the flush is a step of its own.
ReportsLaunch ==
  /\ Up /\ toReport /\ toReport' = FALSE
  /\ Push({Event(Nobody, Leave)} \cup ({crashFile} \ {Nobody}))
  /\ crashFile' = IF enabled THEN Nobody ELSE crashFile
  /\ UNCHANGED <<setting, agreed, installId, hangFile, marker, waiting>>
  /\ UNCHANGED <<process, enabled, asking, oneOff, gate, hook, outcome, bounds>>

(***************************************************************************)
(* Settings: the saved setting and the terms, each saved and followed      *)
(* under the lock of the configuration.                                    *)
(***************************************************************************)
\* apply_setting
Follow(on) ==
  \/ on /\ ~enabled /\ TurnsOn /\ toReport' = (toReport \/ enabled')
  \/ ~on /\ enabled /\ TurnsOff /\ UNCHANGED toReport
  \/ on = enabled /\ UNCHANGED <<enabled, installId, queue, crashFile, late, toReport>>

SavesSetting ==
  /\ Up /\ saves < MaxSaves /\ saves' = saves + 1
  /\ setting' = ~setting
  /\ Follow(setting' /\ agreed)
  /\ UNCHANGED <<agreed, hangFile, marker, waiting>>
  /\ UNCHANGED <<process, asking, oneOff, gate, dump, outcome, troubles>>

AgreesToTerms ==
  /\ Up /\ ~agreed /\ agreed' = TRUE
  /\ Follow(setting)
  /\ UNCHANGED <<setting, hangFile, marker, waiting>>
  /\ UNCHANGED <<process, asking, oneOff, gate, dump, outcome, bounds>>

(***************************************************************************)
(* The answer to what is asked: usage_send_previous_hang.                  *)
(***************************************************************************)
\* Mutant: only the copy in memory is taken.
TakesPendingHalf == asking # Nobody /\ asking' = Nobody /\ UNCHANGED waiting
TakesPending == asking # Nobody /\ asking' = Nobody /\ waiting' = Nobody

Declines ==
  /\ Up /\ TakesPending
  /\ answers' = [answers EXCEPT ![asking] = @ + 1]
  /\ UNCHANGED <<setting, agreed, installId, crashFile, hangFile, marker>>
  /\ UNCHANGED <<process, enabled, queue, toReport, oneOff, gate, hook, fate, stuck, unasked, bounds>>

\* send_one_off_hang, to its first await
OneOffBegins ==
  /\ Up /\ agreed /\ oneOff.step = "none" /\ TakesPending
  /\ TurnsOn
  /\ oneOff' = IF enabled' THEN [step |-> "on", of |-> asking, wasOn |-> enabled] ELSE NoOneOff
  /\ UNCHANGED <<setting, agreed, hangFile, marker>>
  /\ UNCHANGED <<process, toReport, gate, dump, outcome, bounds>>

OneOffPushes ==
  /\ Up /\ oneOff.step = "on"
  /\ Push({Event(oneOff.of, TRUE)})
  /\ oneOff' = [oneOff EXCEPT !.step = "pushed"]
  /\ UNCHANGED <<disk, process, enabled, toReport, asking, gate, hook, outcome, bounds>>

OneOffSends ==
  /\ Up /\ oneOff.step = "pushed"
  /\ Sends
  /\ oneOff' = [oneOff EXCEPT !.step = "sent"]
  /\ UNCHANGED <<disk, process, enabled, toReport, asking, gate, hook, fate, stuck, bounds>>

\* Mutant: reporting is left on.
OneOffEndsOn ==
  /\ Up /\ oneOff.step = "sent" /\ oneOff' = NoOneOff
  /\ UNCHANGED <<disk, process, enabled, queue, toReport, asking, gate, hook, outcome, bounds>>
OneOffEnds ==
  /\ Up /\ oneOff.step = "sent" /\ oneOff' = NoOneOff
  /\ IF oneOff.wasOn THEN UNCHANGED <<enabled, installId, queue, crashFile, late>> ELSE TurnsOff
  /\ UNCHANGED <<setting, agreed, hangFile, marker, waiting>>
  /\ UNCHANGED <<process, toReport, asking, gate, dump, outcome, bounds>>

(***************************************************************************)
(* Starting: run() of lib.rs.                                              *)
(***************************************************************************)
\* Mutant: a reporter that is off from the start discards nothing.
StartsAsLeft ==
  /\ phase = "down" /\ launch < MaxLaunches
  /\ launch' = launch + 1 /\ phase' = "made"
  /\ IF Consent THEN TurnsOn
     ELSE late' = FALSE /\ UNCHANGED <<enabled, installId, queue, crashFile>>
  /\ UNCHANGED <<setting, agreed, hangFile, marker, waiting>>
  /\ UNCHANGED <<found, toReport, asking, oneOff, gate, dump, outcome, bounds>>
\* The reporter is made, on or off as the setting and the terms say.
Starts ==
  /\ phase = "down" /\ launch < MaxLaunches
  /\ launch' = launch + 1 /\ phase' = "made"
  /\ IF Consent THEN TurnsOn ELSE TurnsOff
  /\ UNCHANGED <<setting, agreed, hangFile, marker, waiting>>
  /\ UNCHANGED <<found, toReport, asking, oneOff, gate, dump, outcome, bounds>>

\* previous_incident: a stage that was stuck, or else a marker left behind.
FindsIncident ==
  /\ phase = "made" /\ phase' = "found"
  /\ found' = IF hangFile # Nobody THEN hangFile ELSE marker
  /\ hangFile' = Nobody
  /\ marker' = IF hangFile # Nobody THEN marker ELSE Nobody
  /\ UNCHANGED <<setting, agreed, installId, crashFile, waiting>>
  /\ UNCHANGED <<launch, reporter, gate, hook, outcome, bounds>>

\* Mutant: what an earlier launch found comes first.
AppliesOlder ==
  /\ phase = "found" /\ phase' = "applied" /\ found' = Nobody
  /\ LET incident == IF waiting # Nobody THEN waiting ELSE found
     IN IF incident = Nobody THEN UNCHANGED <<waiting, asking, queue>>
        ELSE IF enabled THEN Push({Event(incident, Leave)}) /\ waiting' = Nobody /\ UNCHANGED asking
        ELSE waiting' = incident /\ asking' = incident /\ UNCHANGED queue
  /\ UNCHANGED <<setting, agreed, installId, crashFile, hangFile, marker>>
  /\ UNCHANGED <<launch, enabled, toReport, oneOff, gate, hook, outcome, bounds>>
\* apply_previous_incident
Applies ==
  /\ phase = "found" /\ phase' = "applied" /\ found' = Nobody
  /\ LET incident == IF found # Nobody THEN found ELSE waiting
     IN IF incident = Nobody THEN UNCHANGED <<waiting, asking, queue>>
        ELSE IF enabled THEN Push({Event(incident, Leave)}) /\ waiting' = Nobody /\ UNCHANGED asking
        ELSE waiting' = incident /\ asking' = incident /\ UNCHANGED queue
  /\ UNCHANGED <<setting, agreed, installId, crashFile, hangFile, marker>>
  /\ UNCHANGED <<launch, enabled, toReport, oneOff, gate, hook, outcome, bounds>>

\* Watchdog::install
Marks ==
  /\ phase = "applied" /\ phase' = "running"
  /\ marker' = launch /\ toReport' = enabled
  /\ UNCHANGED <<setting, agreed, installId, crashFile, hangFile, waiting>>
  /\ UNCHANGED <<launch, found, enabled, queue, asking, oneOff, gate, hook, outcome, bounds>>

(***************************************************************************)
(* Ending.                                                                 *)
(***************************************************************************)
ExitBegins ==
  /\ phase = "running" /\ phase' = "exiting"
  /\ UNCHANGED <<disk, launch, found, reporter, gate, hook, outcome, bounds>>

\* The watchdog sees that the exit has not finished.
ExitOverdue ==
  /\ phase = "exiting" /\ phase' = "overdue"
  /\ hangFile' = launch /\ stuck' = stuck \cup {launch}
  /\ UNCHANGED <<setting, agreed, installId, crashFile, marker, waiting>>
  /\ UNCHANGED <<launch, found, reporter, gate, hook, fate, unasked, answers, bounds>>

\* mark_clean_exit
ExitEnds ==
  /\ phase \in {"exiting", "overdue"} /\ phase' = "leaving"
  /\ marker' = Nobody
  /\ UNCHANGED <<setting, agreed, installId, crashFile, hangFile, waiting>>
  /\ UNCHANGED <<launch, found, reporter, gate, hook, outcome, bounds>>

\* What was only in memory is gone.
Ends(how) ==
  /\ phase' = "down" /\ found' = Nobody /\ UNCHANGED launch
  /\ enabled' = FALSE /\ queue' = {} /\ toReport' = FALSE /\ asking' = Nobody /\ oneOff' = NoOneOff
  /\ at' = [u \in Updaters |-> "idle"] /\ gaveUp' = {} /\ running' = FALSE /\ installed' = FALSE
  /\ fate' = [fate EXCEPT ![launch] = IF @ = "none" THEN how ELSE @]
  /\ dump' = Nobody
  /\ UNCHANGED <<late, unasked, answers, bounds>>

\* The Windows updater ends the process.
Handing == \E u \in Updaters : at[u] = "handing"

\* The process ends, of itself or by force.
Dies ==
  /\ Alive
  /\ Ends(CASE phase = "leaving" -> "clean"
             [] phase # "leaving" /\ Handing -> "handed"
             [] Up /\ ~Handing -> "killed"
             [] OTHER -> "unstarted")
  /\ UNCHANGED <<disk, stuck>>

\* start_new_instance: the restart into the new version has not happened in time.
RestartTooSlow ==
  /\ at[Loop] = "restarting" /\ Alive
  /\ hangFile' = launch /\ stuck' = stuck \cup {launch}
  /\ Ends("killed")
  /\ UNCHANGED <<setting, agreed, installId, crashFile, marker, waiting>>

(***************************************************************************)
(* Updates (updater.rs).                                                   *)
(***************************************************************************)
SetsOut(u, step) == at' = [at EXCEPT ![u] = step]
Working == phase \in {"running", "exiting", "overdue", "leaving"}

\* Gate::begin: none while one runs, none once one is installed.
TakesTurn == ~installed /\ ~running /\ running' = TRUE

UpdateBegins(u) ==
  /\ Working /\ at[u] = "idle" /\ (u = Loop => agreed)
  /\ troubles < MaxTroubles /\ troubles' = troubles + 1
  /\ TakesTurn /\ SetsOut(u, "fetching")
  /\ UNCHANGED <<disk, process, reporter, gaveUp, installed, hook, outcome, saves>>

\* The release is there: the loop waits, without the gate, for no session.
Fetches(u) ==
  /\ Working /\ at[u] = "fetching"
  /\ IF u = Loop THEN SetsOut(u, "waiting") /\ running' = FALSE
                  ELSE SetsOut(u, "installing") /\ UNCHANGED running
  /\ UNCHANGED <<disk, process, reporter, gaveUp, installed, hook, outcome, bounds>>

\* No newer release, a failure, or a limit passed; or, after the wait, turned
\* off or refused.
FetchesNothing(u) ==
  /\ Working /\ at[u] \in {"fetching", "waiting"}
  /\ SetsOut(u, "idle")
  /\ running' = (running /\ at[u] = "waiting")
  /\ UNCHANGED <<disk, process, reporter, gaveUp, installed, hook, outcome, bounds>>

BeginsAgain(u) ==
  /\ Working /\ at[u] = "waiting"
  /\ TakesTurn /\ SetsOut(u, "installing")
  /\ UNCHANGED <<disk, process, reporter, gaveUp, installed, hook, outcome, bounds>>

\* Mutant: the hook is not there.
HandsOverMarked(u) ==
  /\ Working /\ at[u] = "installing" /\ SetsOut(u, "handing")
  /\ UNCHANGED <<disk, process, reporter, gaveUp, running, installed, hook, outcome, bounds>>
\* The hook of the Windows updater, before it ends the process.
HandsOver(u) ==
  /\ Working /\ at[u] = "installing"
  /\ SetsOut(u, "handing") /\ marker' = Nobody
  /\ UNCHANGED <<setting, agreed, installId, crashFile, hangFile, waiting>>
  /\ UNCHANGED <<process, reporter, gaveUp, running, installed, hook, outcome, bounds>>

Installs(u) ==
  /\ Working /\ at[u] = "installing"
  /\ installed' = TRUE /\ running' = FALSE /\ gaveUp' = gaveUp \ {u}
  /\ SetsOut(u, IF u = Loop /\ u \notin gaveUp THEN "restarting" ELSE "idle")
  /\ UNCHANGED <<disk, process, reporter, hook, outcome, bounds>>

\* What becomes of the marker is no longer what becomes of the launch: one
\* cleared for good was written again, or one was not written again.
Overrun == fate' = [fate EXCEPT ![launch] = "overrun"]

\* handover_failed: this launch carries on.
MarksAgain ==
  /\ marker' = launch
  /\ IF phase = "leaving" \/ \E u \in Updaters : at[u] = "handing" /\ at'[u] = "handing"
       THEN Overrun ELSE UNCHANGED fate
  /\ UNCHANGED <<setting, agreed, installId, crashFile, hangFile, waiting, stuck, unasked, answers>>

InstallFails(u) ==
  /\ Working /\ at[u] \in {"installing", "handing"}
  /\ running' = FALSE /\ gaveUp' = gaveUp \ {u} /\ SetsOut(u, "idle")
  /\ \/ u \notin gaveUp /\ MarksAgain
     \/ /\ u \in gaveUp /\ UNCHANGED <<disk, stuck, unasked, answers>>
        /\ IF at[u] = "handing" THEN Overrun ELSE UNCHANGED fate
  /\ UNCHANGED <<process, reporter, installed, hook, bounds>>

\* Mutant: the gate does not go with the install that was given up on.
GivesUpFreed(u) ==
  /\ Working /\ at[u] \in {"installing", "handing"} /\ u \notin gaveUp
  /\ gaveUp' = gaveUp \cup {u} /\ UNCHANGED at /\ running' = FALSE
  /\ MarksAgain
  /\ UNCHANGED <<process, reporter, installed, hook, bounds>>
\* The limit of an install has passed: its thread is left behind, with the gate.
GivesUp(u) ==
  /\ Working /\ at[u] \in {"installing", "handing"} /\ u \notin gaveUp
  /\ gaveUp' = gaveUp \cup {u} /\ UNCHANGED <<at, running>>
  /\ MarksAgain
  /\ UNCHANGED <<process, reporter, installed, hook, bounds>>

Updates(u) ==
  \/ UpdateBegins(u) \/ Fetches(u) \/ FetchesNothing(u) \/ BeginsAgain(u)
  \/ HandsOver(u) \/ Installs(u) \/ InstallFails(u) \/ GivesUp(u)

Next ==
  \/ Starts \/ FindsIncident \/ Applies \/ Marks
  \/ ExitBegins \/ ExitOverdue \/ ExitEnds \/ Dies \/ RestartTooSlow
  \/ Flush \/ Records \/ Panics \/ HookWrites \/ ReportsLaunch \/ SavesSetting \/ AgreesToTerms
  \/ Declines \/ OneOffBegins \/ OneOffPushes \/ OneOffSends \/ OneOffEnds
  \/ \E u \in Updaters : Updates(u)

Spec == Init /\ [][Next]_vars

(***************************************************************************)
(* Properties.                                                             *)
(***************************************************************************)
Optional(S) == S \cup {Nobody}
Events == [of : Optional(Launch), leave : BOOLEAN]

\* Every variable keeps its type.
TypeOK ==
  /\ {setting, agreed, installId, enabled, toReport, running, installed} \subseteq BOOLEAN
  /\ {crashFile, dump} \subseteq Optional(Events) /\ queue \subseteq Events
  /\ {late, unasked} \subseteq BOOLEAN
  /\ {hangFile, marker, waiting, found, asking} \subseteq Optional(Launch)
  /\ launch \in 0 .. MaxLaunches
  /\ phase \in {"down", "made", "found", "applied", "running", "exiting", "overdue", "leaving"}
  /\ oneOff \in [step : {"none", "on", "pushed", "sent"}, of : Optional(Launch), wasOn : BOOLEAN]
  /\ at \in [Updaters -> {"idle", "fetching", "waiting", "installing", "handing", "restarting"}]
  /\ gaveUp \subseteq Updaters /\ stuck \subseteq Launch
  /\ fate \in [Launch -> {"none", "unstarted", "clean", "killed", "handed", "overrun"}]
  /\ answers \in [Launch -> Nat] /\ saves \in 0 .. MaxSaves /\ troubles \in 0 .. MaxTroubles

\* Nothing reaches the server that was recorded while the user had reporting
\* off, unless it was off only but for the one report the user agreed to.
SentWithConsent == ~unasked

\* While the app runs with reporting off, it keeps no install ID, no event and
\* no crash record, whatever an earlier launch left when it ended; but for the
\* record of a panic that reporting was turned off before its hook could write.
OffKeepsNothing ==
  Alive /\ ~Leave =>
    ~enabled /\ ~installId /\ queue = {} /\ (crashFile = Nobody \/ late)

\* While the app runs with reporting off, it keeps no crash record at all: what
\* collector.rs says of turning it off, which the hook does not hold to.
OffKeepsNoRecord == Alive /\ ~Leave => crashFile = Nobody

\* Every incident anyone is asked about, or that is kept or sent, is of a
\* launch that was killed or stuck: no clean exit and no update is taken for
\* one, but for an install that failed after the marker was cleared for good.
Incidents == {waiting, asking} \cup {e.of : e \in queue} \cup {l \in Launch : answers[l] > 0}
NoFalseAlarm ==
  \A l \in Incidents \ {Nobody} : fate[l] \in {"killed", "overrun"} \/ l \in stuck
\* A launch that was killed or stuck is noticed by the next one, before that
\* one leaves a marker of its own: it is asked about, or on its way.
KilledIsNoticed ==
  (/\ phase = "applied" /\ launch > 1
   /\ fate[launch - 1] = "killed" \/ launch - 1 \in stuck)
  => asking = launch - 1 \/ Told(launch - 1, queue) > 0
\* What is taken for an incident is what was one (watchdog.rs, updater.rs).
IncidentsAreTrue == NoFalseAlarm /\ KilledIsNoticed

\* An incident is sent or thrown away at most once, over all the launches.
ReportedOnce == \A l \in Launch : answers[l] <= 1

\* Two installs never write into the app's bundle at the same time, also when
\* one was given up on and its thread goes on.
OneInstallAtATime == Cardinality({u \in Updaters : at[u] \in {"installing", "handing"}}) <= 1
=============================================================================
