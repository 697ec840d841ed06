---------------------------- MODULE LaunchesProofs ----------------------------
(***************************************************************************)
(* For any number of launches, changes of the setting, updates and panics  *)
(* (of which one writes its record at a time), however each launch ends:   *)
(* nothing is sent without the user's leave; nothing is kept while         *)
(* reporting is off, but for a record written late; installs never run at  *)
(* the same time; what is taken for an incident was one, what was one is   *)
(* noticed by the next launch, and none is told twice.                     *)
(***************************************************************************)
EXTENDS Launches, FiniteSetTheorems, TLAPS

(***************************************************************************)
(* Consent.  Reporting is on only with the user's leave, whatever was on   *)
(* disk when the process started; while it is off nothing is kept, and     *)
(* what is on disk while no process runs is thrown away by the next one    *)
(* that starts with reporting off: where there is no ID, there is no crash *)
(* record either, but for one that was written late.                       *)
(***************************************************************************)
Steps == {"none", "on", "pushed", "sent"}
OneOffType == \E incidents : oneOff \in [step : Steps, of : incidents, wasOn : BOOLEAN]

ConsentTypes ==
  /\ setting \in BOOLEAN /\ agreed \in BOOLEAN
  /\ enabled \in BOOLEAN /\ installId \in BOOLEAN
  /\ OneOffType

WithLeave(e) == e = Nobody \/ e.leave = TRUE

ConsentInv ==
  /\ ConsentTypes
  /\ enabled => Alive /\ Leave /\ installId
  /\ Alive /\ ~enabled => ~installId
  /\ crashFile # Nobody /\ ~late => installId
  /\ ~enabled => queue = {}
  /\ ~Alive => oneOff = NoOneOff
  /\ WithLeave(crashFile) /\ WithLeave(dump) /\ \A e \in queue : e.leave = TRUE
  /\ SentWithConsent

LEMMA OneOffGoesOn ==
  ASSUME OneOffType, NEW step \in Steps, oneOff' = [oneOff EXCEPT !.step = step]
  PROVE  OneOffType' /\ oneOff'.step = step /\ oneOff'.wasOn = oneOff.wasOn
<1>1. PICK incidents : oneOff \in [step : Steps, of : incidents, wasOn : BOOLEAN]
  BY DEF OneOffType
<1>2. /\ oneOff'.step = step /\ oneOff'.wasOn = oneOff.wasOn
      /\ oneOff' \in [step : Steps, of : incidents, wasOn : BOOLEAN]
  BY <1>1
<1> QED
  BY <1>2 DEF OneOffType

LEMMA OneOffIs ==
  ASSUME NEW step \in Steps, NEW of, NEW wasOn \in BOOLEAN,
         oneOff' = [step |-> step, of |-> of, wasOn |-> wasOn]
  PROVE  OneOffType' /\ oneOff'.step = step /\ oneOff'.wasOn = wasOn
<1>1. oneOff' \in [step : Steps, of : {of}, wasOn : BOOLEAN]
  OBVIOUS
<1> QED
  BY <1>1 DEF OneOffType

LEMMA NoOneOffTyped ==
  /\ \E incidents : NoOneOff \in [step : Steps, of : incidents, wasOn : BOOLEAN]
  /\ NoOneOff.step = "none" /\ NoOneOff.wasOn = FALSE
<1>1. NoOneOff \in [step : Steps, of : {Nobody}, wasOn : BOOLEAN]
  BY DEF NoOneOff, Steps
<1> QED
  BY <1>1 DEF NoOneOff

LEMMA ConsentInit == Init => ConsentInv
<1> SUFFICES ASSUME Init PROVE ConsentInv
  OBVIOUS
<1>1. ConsentTypes
  BY NoOneOffTyped DEF Init, ConsentTypes, OneOffType
<1>2. /\ enabled = FALSE /\ queue = {} /\ crashFile = Nobody /\ unasked = FALSE /\ dump = Nobody
      /\ oneOff = NoOneOff /\ ~Alive
  BY DEF Init, Alive
<1> QED
  BY <1>1, <1>2 DEF ConsentInv, WithLeave, SentWithConsent

\* The actions that leave the reporter alone, in a process that goes on.
LEMMA ConsentKept ==
  ASSUME ConsentInv, Alive, Alive',
         UNCHANGED <<setting, agreed, installId, crashFile, enabled, queue, oneOff, unasked, hook>>
  PROVE  ConsentInv'
<1>1. Leave' = Leave
  BY DEF Leave, Consent, Lent
<1> QED
  BY <1>1 DEF hook, ConsentInv, ConsentTypes, OneOffType, WithLeave, SentWithConsent

\* What is recorded while reporting is on is recorded with leave.
LEMMA ConsentPush ==
  ASSUME ConsentInv, Alive, Alive', NEW events, Push(events),
         enabled => \A e \in events : e.leave = TRUE,
         WithLeave(crashFile'), crashFile' # Nobody /\ ~late => installId,
         OneOffType', Leave' = Leave,
         UNCHANGED <<setting, agreed, installId, enabled, unasked, hook>>
  PROVE  ConsentInv'
<1>1. \A e \in queue' : e.leave = TRUE
  BY DEF ConsentInv, Push
<1> QED
  BY <1>1 DEF hook, ConsentInv, ConsentTypes, SentWithConsent, Push

\* A flush hands over what was recorded with leave.
LEMMA ConsentSends ==
  ASSUME ConsentInv, Alive, Alive', Sends,
         OneOffType', Leave' = Leave,
         UNCHANGED <<setting, agreed, installId, crashFile, enabled, hook>>
  PROVE  ConsentInv'
<1>1. SentWithConsent'
  BY DEF ConsentInv, SentWithConsent, Sends
<1>2. (~enabled => queue' = {}) /\ \A e \in queue' : e.leave = TRUE
  BY DEF ConsentInv, Sends
<1> QED
  BY <1>1, <1>2 DEF hook, ConsentInv, ConsentTypes, WithLeave

\* Reporting turned off leaves nothing, whoever has leave.
LEMMA ConsentOff ==
  ASSUME ConsentInv, TurnsOff, Alive', UNCHANGED <<unasked, dump>>,
         setting' \in BOOLEAN, agreed' \in BOOLEAN, OneOffType'
  PROVE  ConsentInv'
  BY DEF hook, ConsentInv, ConsentTypes, WithLeave, SentWithConsent, TurnsOff

\* Reporting turned on with leave.  It stays off only where there was no ID,
\* and then there is no crash record either, but for a late one.
LEMMA ConsentOn ==
  ASSUME ConsentInv, TurnsOn, Alive', enabled' => Leave', UNCHANGED <<unasked, dump>>,
         setting' \in BOOLEAN, agreed' \in BOOLEAN, OneOffType'
  PROVE  ConsentInv'
<1>1. /\ enabled' \in BOOLEAN /\ installId' \in BOOLEAN
      /\ installId => installId' /\ enabled'
      /\ enabled' => installId'
      /\ ~enabled' => ~installId' /\ ~enabled
  BY DEF TurnsOn, ConsentInv, ConsentTypes
<1>2. queue' = queue /\ crashFile' = crashFile /\ late' = late
  BY DEF TurnsOn
<1> QED
  BY <1>1, <1>2 DEF ConsentInv, ConsentTypes, OneOffType, WithLeave, SentWithConsent

\* A process that ends takes what it had in memory along.
LEMMA ConsentEnds ==
  ASSUME ConsentInv, NEW how, Ends(how), UNCHANGED <<setting, agreed, installId, crashFile>>
  PROVE  ConsentInv'
<1>1. /\ ~Alive' /\ enabled' = FALSE /\ queue' = {} /\ oneOff' = NoOneOff /\ unasked' = unasked
      /\ dump' = Nobody /\ late' = late
  BY DEF Ends, Alive
<1> QED
  BY <1>1, NoOneOffTyped DEF hook, ConsentInv, ConsentTypes, OneOffType, WithLeave, SentWithConsent

LEMMA EventLeave == \A of, leave : Event(of, leave).leave = leave
  BY DEF Event

LEMMA EnabledHasLeave == ASSUME ConsentInv, enabled PROVE Leave = TRUE
  BY DEF hook, ConsentInv, ConsentTypes, Leave, Consent, Lent

LEMMA ConsentStep == ConsentInv /\ [Next]_vars => ConsentInv'
<1> SUFFICES ASSUME ConsentInv, [Next]_vars PROVE ConsentInv'
  OBVIOUS
<1> USE DEF Up, Alive
<1>1. CASE Starts
  <2>1. Alive' /\ UNCHANGED <<setting, agreed, oneOff, unasked, dump>>
    BY <1>1 DEF Starts, outcome, hook
  <2>2. CASE Consent
    <3>1. TurnsOn /\ Leave'
      BY <1>1, <2>1, <2>2 DEF Starts, Leave, Consent
    <3> QED
      BY <2>1, <3>1, ConsentOn DEF ConsentInv, ConsentTypes, OneOffType
  <2>3. CASE ~Consent
    <3>1. TurnsOff
      BY <1>1, <2>3 DEF Starts
    <3> QED
      BY <2>1, <3>1, ConsentOff DEF ConsentInv, ConsentTypes, OneOffType
  <2> QED
    BY <2>2, <2>3
<1>2. CASE FindsIncident \/ Marks \/ ExitBegins \/ ExitOverdue \/ ExitEnds \/ Declines
  BY <1>2, ConsentKept
     DEF FindsIncident, Marks, ExitBegins, ExitOverdue, ExitEnds, Declines, TakesPending,
         disk, process, reporter, outcome, hook
<1>3. CASE Applies
  <2>1. /\ Alive /\ Alive' /\ Leave' = Leave
        /\ UNCHANGED <<setting, agreed, installId, crashFile, enabled, oneOff, unasked, hook>>
    BY <1>3 DEF Applies, outcome, Leave, Consent, Lent
  <2>2. CASE UNCHANGED queue
    BY <2>1, <2>2, ConsentKept
  <2>3. CASE \E incident : enabled /\ Push({Event(incident, Leave)})
    <3>1. PICK incident : enabled /\ Push({Event(incident, Leave)})
      BY <2>3
    <3>2. Leave = TRUE
      BY <3>1, EnabledHasLeave
    <3>3. \A e \in {Event(incident, Leave)} : e.leave = TRUE
      BY <3>2, EventLeave
    <3> QED
      BY <2>1, <3>1, <3>3, ConsentPush DEF ConsentInv, ConsentTypes, OneOffType
  <2> QED
    BY <1>3, <2>2, <2>3 DEF Applies
<1>4. CASE Dies \/ RestartTooSlow
  BY <1>4, ConsentEnds DEF Dies, RestartTooSlow, disk
<1>5. CASE Flush \/ OneOffSends
  <2>1. /\ Alive /\ Alive' /\ Sends
        /\ UNCHANGED <<setting, agreed, installId, crashFile, enabled, hook>>
    BY <1>5 DEF Flush, OneOffSends, disk, process
  <2>2. UNCHANGED <<setting, agreed>>
    BY <1>5 DEF Flush, OneOffSends, disk
  <2>3. OneOffType /\ "sent" \in Steps
    BY DEF ConsentInv, ConsentTypes, Steps
  <2>4. OneOffType' /\ Lent' = Lent
    <3>1. CASE Flush
      <4>1. oneOff' = oneOff
        BY <3>1 DEF Flush
      <4> QED
        BY <2>3, <4>1 DEF OneOffType, Lent
    <3>2. CASE OneOffSends
      <4>1. oneOff.step = "pushed"
        BY <3>2 DEF OneOffSends
      <4>2. oneOff' = [oneOff EXCEPT !.step = "sent"]
        BY <3>2, Zenon DEF OneOffSends
      <4> QED
        BY <2>3, <4>1, <4>2, OneOffGoesOn DEF Lent
    <3> QED
      BY <1>5, <3>1, <3>2
  <2>6. Leave' = Leave
    BY <2>2, <2>4 DEF Leave, Consent
  <2> QED
    BY <2>1, <2>4, <2>6, ConsentSends
<1>6. CASE Records
  <2>1. /\ Alive /\ Alive' /\ Leave' = Leave /\ Push({Event(Nobody, Leave)})
        /\ UNCHANGED <<setting, agreed, installId, crashFile, enabled, oneOff, unasked, hook>>
    BY <1>6 DEF Records, disk, process, outcome, Leave, Consent, Lent
  <2>2. ASSUME enabled PROVE \A e \in {Event(Nobody, Leave)} : e.leave = TRUE
    BY <2>2, EnabledHasLeave, EventLeave
  <2> QED
    BY <2>1, <2>2, ConsentPush DEF ConsentInv, ConsentTypes, OneOffType, WithLeave
<1>7. CASE ReportsLaunch
  <2> DEFINE events == {Event(Nobody, Leave)} \cup ({crashFile} \ {Nobody})
  <2>1. /\ Alive /\ Alive' /\ Leave' = Leave /\ Push(events)
        /\ UNCHANGED <<setting, agreed, installId, enabled, oneOff, unasked, hook>>
        /\ crashFile' \in {crashFile, Nobody}
    BY <1>7 DEF ReportsLaunch, process, outcome, Leave, Consent, Lent
  <2>2. ASSUME enabled PROVE \A e \in events : e.leave = TRUE
    <3>1. Leave = TRUE
      BY <2>2, EnabledHasLeave
    <3>2. \A e \in {crashFile} \ {Nobody} : e.leave = TRUE
      BY DEF ConsentInv, WithLeave
    <3> QED
      BY <3>1, <3>2, EventLeave
  <2> QED
    BY <2>1, <2>2, ConsentPush DEF ConsentInv, ConsentTypes, OneOffType, WithLeave
<1>8. CASE OneOffPushes
  <2>1. /\ Alive /\ Alive' /\ Push({Event(oneOff.of, TRUE)})
        /\ UNCHANGED <<setting, agreed, installId, crashFile, enabled, unasked, hook>>
    BY <1>8 DEF OneOffPushes, disk, process, outcome
  <2>2. OneOffType /\ oneOff.step = "on" /\ oneOff' = [oneOff EXCEPT !.step = "pushed"]
    BY <1>8 DEF OneOffPushes, ConsentInv, ConsentTypes
  <2>3. OneOffType' /\ Lent' = Lent
    BY <2>2, OneOffGoesOn DEF Lent, Steps
  <2>4. Leave' = Leave
    BY <2>1, <2>3 DEF Leave, Consent
  <2>5. \A e \in {Event(oneOff.of, TRUE)} : e.leave = TRUE
    BY EventLeave
  <2> QED
    BY <2>1, <2>3, <2>4, <2>5, ConsentPush DEF ConsentInv, WithLeave
<1>9. CASE Panics \/ HookWrites
  <2>1. /\ Alive /\ Alive' /\ Leave' = Leave
        /\ UNCHANGED <<setting, agreed, installId, enabled, queue, oneOff, unasked>>
    BY <1>9 DEF Panics, HookWrites, disk, process, reporter, outcome, Leave, Consent, Lent
  <2>2. CASE Panics
    <3>1. enabled /\ dump' = Event(Nobody, Leave) /\ UNCHANGED <<crashFile, late>>
      BY <2>2 DEF Panics, disk
    <3>2. WithLeave(dump')
      BY <3>1, EnabledHasLeave, EventLeave DEF WithLeave
    <3> QED
      BY <2>1, <3>1, <3>2 DEF ConsentInv, ConsentTypes, OneOffType, WithLeave, SentWithConsent
  <2>3. CASE HookWrites
    <3>1. crashFile' = dump /\ dump' = Nobody /\ late' = ~enabled
      BY <2>3 DEF HookWrites
    <3> QED
      BY <2>1, <3>1 DEF ConsentInv, ConsentTypes, OneOffType, WithLeave, SentWithConsent
  <2> QED
    BY <1>9, <2>2, <2>3
<1>10. CASE SavesSetting \/ AgreesToTerms
  <2>1. /\ Alive /\ Alive' /\ UNCHANGED <<oneOff, unasked, dump>> /\ Follow(Consent')
        /\ setting' \in BOOLEAN /\ agreed' \in BOOLEAN
    BY <1>10 DEF SavesSetting, AgreesToTerms, process, outcome, Consent, ConsentInv, ConsentTypes
  <2>2. CASE Consent' /\ ~enabled /\ TurnsOn
    BY <2>1, <2>2, ConsentOn DEF ConsentInv, ConsentTypes, OneOffType, Leave
  <2>3. CASE TurnsOff
    BY <2>1, <2>3, ConsentOff DEF ConsentInv, ConsentTypes, OneOffType
  <2>4. CASE Consent' = enabled /\ UNCHANGED <<enabled, installId, queue, crashFile, late>>
    <3>1. enabled' => Leave'
      BY <2>4 DEF Leave
    <3> QED
      BY <2>1, <2>4, <3>1 DEF hook, ConsentInv, ConsentTypes, OneOffType, WithLeave, SentWithConsent
  <2> QED
    BY <2>1, <2>2, <2>3, <2>4 DEF Follow
<1>11. CASE OneOffBegins
  <2>1. /\ Alive' /\ TurnsOn /\ UNCHANGED <<setting, agreed, unasked, dump>>
        /\ oneOff' = IF enabled' THEN [step |-> "on", of |-> asking, wasOn |-> enabled] ELSE NoOneOff
        /\ oneOff.step = "none"
    BY <1>11 DEF OneOffBegins, process, outcome
  <2>2. OneOffType'
    <3>1. "on" \in Steps /\ enabled \in BOOLEAN
      BY DEF Steps, ConsentInv, ConsentTypes
    <3>2. CASE enabled'
      BY <2>1, <3>1, <3>2, OneOffIs
    <3>3. CASE ~enabled'
      BY <2>1, <3>3, NoOneOffTyped DEF OneOffType
    <3> QED
      BY <3>2, <3>3
  <2>3. ASSUME enabled' PROVE Leave'
    <3>1. CASE enabled
      BY <3>1, <2>1 DEF ConsentInv, Leave, Lent, Consent
    <3>2. CASE ~enabled
      BY <3>2, <2>1, <2>3 DEF Leave, Lent
    <3> QED
      BY <3>1, <3>2
  <2> QED
    BY <2>1, <2>2, <2>3, ConsentOn DEF ConsentInv, ConsentTypes, OneOffType
<1>12. CASE OneOffEnds
  <2>1. /\ Alive /\ Alive' /\ UNCHANGED <<setting, agreed, unasked, dump>> /\ oneOff' = NoOneOff
    BY <1>12 DEF OneOffEnds, process, outcome
  <2>2. OneOffType'
    BY <2>1, NoOneOffTyped DEF OneOffType
  <2>3. CASE oneOff.wasOn /\ UNCHANGED <<enabled, installId, queue, crashFile, late>>
    <3>1. Leave' = Leave
      BY <2>1, <2>3 DEF Leave, Lent, Consent, NoOneOff
    <3> QED
      BY <2>1, <2>2, <2>3, <3>1 DEF hook, ConsentInv, ConsentTypes, OneOffType, WithLeave, SentWithConsent
  <2>4. CASE TurnsOff
    BY <2>1, <2>2, <2>4, ConsentOff DEF ConsentInv, ConsentTypes, OneOffType
  <2> QED
    BY <1>12, <2>3, <2>4 DEF OneOffEnds
<1>13. CASE \E u \in Updaters : Updates(u)
  <2>1. PICK u \in Updaters : Updates(u)
    BY <1>13
  <2>2. /\ Alive /\ Alive'
        /\ UNCHANGED <<setting, agreed, installId, crashFile, enabled, queue, oneOff, unasked, hook>>
    BY <2>1 DEF Updates, Working, UpdateBegins, Fetches, FetchesNothing, BeginsAgain, HandsOver,
                Installs, InstallFails, GivesUp, MarksAgain, disk, process, reporter, outcome, hook
  <2> QED
    BY <2>2, ConsentKept
<1>14. CASE UNCHANGED vars
  BY <1>14 DEF vars, disk, process, reporter, outcome, hook, ConsentInv, ConsentTypes, OneOffType, WithLeave,
               SentWithConsent, Leave, Consent, Lent
<1> QED
  BY <1>1, <1>2, <1>3, <1>4, <1>5, <1>6, <1>7, <1>8, <1>9, <1>10, <1>11, <1>12, <1>13, <1>14 DEF Next

LEMMA ConsentAlways == Spec => []ConsentInv
  BY ConsentInit, ConsentStep, PTL DEF Spec

\* Nothing is ever sent that was recorded without the user's leave
\* (collector.rs, usage.rs), over any number of launches, however they end.
THEOREM SendsWithConsent == Spec => []SentWithConsent
<1>1. ConsentInv => SentWithConsent
  BY DEF ConsentInv
<1> QED
  BY <1>1, ConsentAlways, PTL

\* While the app runs with reporting off it keeps no ID, no event and no record,
\* but for one that a panic's hook wrote late (crash.rs), also where an earlier
\* launch ended before it could throw them away (collector.rs).
THEOREM KeepsNothingOff == Spec => []OffKeepsNothing
<1>1. ConsentInv => OffKeepsNothing
  BY DEF ConsentInv, OffKeepsNothing
<1> QED
  BY <1>1, ConsentAlways, PTL

(***************************************************************************)
(* The gate of the updates: whoever fetches or installs has it, and nobody *)
(* else does.  An install that was given up on keeps it, which is why the  *)
(* one that gave up may not be counted out.                                *)
(***************************************************************************)
HasTurn(u) == at[u] \in {"fetching", "installing", "handing"}

GateInv ==
  /\ DOMAIN at = Updaters
  /\ \A u \in Updaters : HasTurn(u) => running = TRUE
  /\ \A u, v \in Updaters : HasTurn(u) /\ HasTurn(v) => u = v

\* One takes the gate while it is free.
LEMMA GateTaken ==
  ASSUME GateInv, NEW u \in Updaters, NEW step, TakesTurn, SetsOut(u, step)
  PROVE  GateInv'
<1>1. \A v \in Updaters : ~HasTurn(v)
  BY DEF GateInv, TakesTurn
<1>2. \A v \in Updaters : v # u => ~HasTurn(v)'
  BY <1>1 DEF SetsOut, HasTurn, GateInv
<1> QED
  BY <1>2 DEF GateInv, TakesTurn, SetsOut

\* One that does not fetch or install any more lets the gate go.
LEMMA GateFreed ==
  ASSUME GateInv, NEW u \in Updaters, HasTurn(u), NEW step, SetsOut(u, step),
         step \notin {"fetching", "installing", "handing"}
  PROVE  GateInv'
<1>1. \A v \in Updaters : v # u => ~HasTurn(v)
  BY DEF GateInv
<1>2. \A v \in Updaters : ~HasTurn(v)'
  BY <1>1 DEF SetsOut, HasTurn, GateInv
<1> QED
  BY <1>2 DEF GateInv, SetsOut

\* One goes on with the gate, or without it.
LEMMA GateKept ==
  ASSUME GateInv, NEW u \in Updaters, NEW step, SetsOut(u, step), running' = running,
         HasTurn(u) \/ step \notin {"fetching", "installing", "handing"}
  PROVE  GateInv'
<1>1. \A v \in Updaters : HasTurn(v)' => HasTurn(v)
  BY DEF SetsOut, HasTurn, GateInv
<1> QED
  BY <1>1 DEF GateInv, SetsOut

LEMMA GateStep == GateInv /\ [Next]_vars => GateInv'
<1> SUFFICES ASSUME GateInv, [Next]_vars PROVE GateInv'
  OBVIOUS
<1>1. CASE \E u \in Updaters : Updates(u)
  <2>1. PICK u \in Updaters : Updates(u)
    BY <1>1
  <2>2. CASE UpdateBegins(u)
    BY <2>2, GateTaken DEF UpdateBegins
  <2>3. CASE BeginsAgain(u)
    BY <2>3, GateTaken DEF BeginsAgain
  <2>4. CASE Fetches(u)
    <3>1. HasTurn(u)
      BY <2>4 DEF Fetches, HasTurn
    <3>2. CASE u = Loop
      BY <2>4, <3>1, <3>2, GateFreed DEF Fetches
    <3>3. CASE u # Loop
      BY <2>4, <3>1, <3>3, GateKept DEF Fetches
    <3> QED
      BY <3>2, <3>3
  <2>5. CASE FetchesNothing(u)
    <3>1. CASE at[u] = "fetching"
      BY <2>5, <3>1, GateFreed DEF FetchesNothing, HasTurn
    <3>2. CASE at[u] = "waiting"
      <4>1. \A v \in Updaters : HasTurn(v)' => HasTurn(v)
        BY <2>5 DEF FetchesNothing, SetsOut, HasTurn, GateInv
      <4>2. running => running'
        BY <2>5, <3>2 DEF FetchesNothing
      <4> QED
        BY <2>5, <4>1, <4>2 DEF FetchesNothing, SetsOut, GateInv
    <3> QED
      BY <2>5, <3>1, <3>2 DEF FetchesNothing
  <2>6. CASE HandsOver(u)
    BY <2>6, GateKept DEF HandsOver, HasTurn
  <2>7. CASE Installs(u)
    <3>1. HasTurn(u)
      BY <2>7 DEF Installs, HasTurn
    <3>2. PICK step \in {"restarting", "idle"} : SetsOut(u, step)
      BY <2>7 DEF Installs
    <3> QED
      BY <3>1, <3>2, GateFreed
  <2>8. CASE InstallFails(u)
    BY <2>8, GateFreed DEF InstallFails, HasTurn
  <2>9. CASE GivesUp(u)
    BY <2>9 DEF GivesUp, GateInv, HasTurn
  <2> QED
    BY <2>1, <2>2, <2>3, <2>4, <2>5, <2>6, <2>7, <2>8, <2>9 DEF Updates
<1>2. CASE Dies \/ RestartTooSlow
  BY <1>2 DEF Dies, RestartTooSlow, Ends, GateInv, HasTurn
<1>3. CASE UNCHANGED gate
  BY <1>3 DEF gate, GateInv, HasTurn
<1>4. CASE UNCHANGED vars
  BY <1>3, <1>4 DEF vars
<1> QED
  BY <1>1, <1>2, <1>3, <1>4
     DEF Next, Starts, FindsIncident, Applies, Marks, ExitBegins, ExitOverdue, ExitEnds, Flush,
         Records, Panics, HookWrites, ReportsLaunch, SavesSetting, AgreesToTerms, Declines, OneOffBegins,
         OneOffPushes, OneOffSends, OneOffEnds

\* However updates are begun, given up on and left behind, no two of them
\* install at the same time (updater.rs, Gate).
THEOREM InstallsOneAtATime == Spec => []OneInstallAtATime
<1>1. Init => GateInv
  BY DEF Init, GateInv, HasTurn
<1>2. GateInv => OneInstallAtATime
  <2> SUFFICES ASSUME GateInv PROVE OneInstallAtATime
    OBVIOUS
  <2> DEFINE installing == {u \in Updaters : at[u] \in {"installing", "handing"}}
  <2>1. CASE installing = {}
    BY <2>1, FS_EmptySet DEF OneInstallAtATime
  <2>2. CASE installing # {}
    <3>1. PICK u \in installing : TRUE
      BY <2>2
    <3>2. installing = {u}
      BY <3>1 DEF GateInv, HasTurn
    <3>3. Cardinality(installing) = 1
      BY <3>2, FS_Singleton
    <3> QED
      BY <3>3 DEF OneInstallAtATime
  <2> QED
    BY <2>1, <2>2
<1> QED
  BY <1>1, <1>2, GateStep, PTL DEF Spec

-----------------------------------------------------------------------------
(* The incidents. *)

(***************************************************************************)
(* Types, one group of variables at a time.                                *)
(***************************************************************************)
Incident == Optional(Launch)
\* The report sent on its own.
OneOffs == [step : {"none", "on", "pushed", "sent"}, of : Incident, wasOn : BOOLEAN]
DiskTypes ==
  /\ setting \in BOOLEAN /\ agreed \in BOOLEAN /\ installId \in BOOLEAN
  /\ crashFile \in Optional(Events)
  /\ hangFile \in Incident /\ marker \in Incident /\ waiting \in Incident
ProcessTypes ==
  /\ launch \in 0 .. MaxLaunches /\ found \in Incident
  /\ phase \in {"down", "made", "found", "applied", "running", "exiting", "overdue", "leaving"}
  /\ Alive => launch \in Launch
ReporterTypes ==
  /\ enabled \in BOOLEAN /\ toReport \in BOOLEAN
  /\ queue \subseteq Events /\ asking \in Incident /\ oneOff \in OneOffs
GateTypes ==
  /\ at \in [Updaters -> {"idle", "fetching", "waiting", "installing", "handing", "restarting"}]
  /\ gaveUp \subseteq Updaters /\ running \in BOOLEAN /\ installed \in BOOLEAN
OutcomeTypes ==
  /\ fate \in [Launch -> {"none", "unstarted", "clean", "killed", "handed", "overrun"}]
  /\ stuck \subseteq Launch /\ unasked \in BOOLEAN /\ answers \in [Launch -> Nat]
HookTypes == dump \in Optional(Events) /\ late \in BOOLEAN
BoundTypes == saves \in 0 .. MaxSaves /\ troubles \in 0 .. MaxTroubles
Types == DiskTypes /\ ProcessTypes /\ ReporterTypes /\ GateTypes /\ HookTypes /\ OutcomeTypes /\ BoundTypes

LEMMA TypeInit == Init => Types
<1> SUFFICES ASSUME Init PROVE Types
  OBVIOUS
<1> USE LaunchesAssumption DEF Init, Optional, Incident
<1>1. DiskTypes
  BY DEF DiskTypes
<1>2. ProcessTypes
  BY DEF ProcessTypes, Alive
<1>3. ReporterTypes
  BY DEF ReporterTypes, NoOneOff, OneOffs
<1>4. GateTypes
  BY DEF GateTypes
<1>5. OutcomeTypes
  BY DEF OutcomeTypes
<1>6. BoundTypes
  BY DEF BoundTypes
<1>7. HookTypes
  BY DEF HookTypes
<1> QED
  BY <1>1, <1>2, <1>3, <1>4, <1>5, <1>6, <1>7 DEF Types

LEMMA TypesAreTypeOK == Types => TypeOK
<1> SUFFICES ASSUME Types PROVE TypeOK
  OBVIOUS
<1>1. {setting, agreed, installId, enabled, toReport, running, installed} \subseteq BOOLEAN
  BY DEF Types, DiskTypes, ReporterTypes, GateTypes
<1>2. {hangFile, marker, waiting, found, asking} \subseteq Optional(Launch)
  BY DEF Types, DiskTypes, ReporterTypes, ProcessTypes, Incident
<1> QED
  BY <1>1, <1>2
     DEF TypeOK, Types, DiskTypes, ProcessTypes, ReporterTypes, GateTypes, HookTypes, OutcomeTypes,
         BoundTypes, OneOffs, Incident

LEMMA NothingIsNoLaunch == Nobody \notin Launch /\ \A l \in Launch : l \in Nat /\ l # 0
  BY LaunchesAssumption DEF Launch

LEMMA EventTyped == \A of \in Incident, leave \in BOOLEAN : Event(of, leave) \in Events
  BY DEF Event, Events, Incident

LEMMA NowTyped == ASSUME Types PROVE Event(Nobody, Leave) \in Events /\ Leave \in BOOLEAN
<1>1. Leave \in BOOLEAN
  BY DEF Types, DiskTypes, Leave, Consent, Lent
<1> QED
  BY <1>1, EventTyped DEF Incident, Optional

LEMMA BoundTypesStep == Types /\ [Next]_vars => BoundTypes'
<1> SUFFICES ASSUME Types, [Next]_vars PROVE BoundTypes'
  OBVIOUS
<1> USE LaunchesAssumption DEF BoundTypes, Types
<1>1. CASE SavesSetting
  BY <1>1 DEF SavesSetting
<1>2. CASE \E u \in Updaters : UpdateBegins(u)
  BY <1>2 DEF UpdateBegins
<1>3. CASE Panics
  BY <1>3 DEF Panics
<1>4. CASE UNCHANGED bounds
  BY <1>4 DEF bounds
<1> QED
  BY <1>1, <1>2, <1>3, <1>4
     DEF Next, vars, Starts, FindsIncident, Applies, Marks, ExitBegins, ExitOverdue, ExitEnds, Dies, Ends,
         RestartTooSlow, Flush, Records, HookWrites, ReportsLaunch, AgreesToTerms, Declines, OneOffBegins,
         OneOffPushes, OneOffSends, OneOffEnds, Updates, Fetches, FetchesNothing, BeginsAgain,
         HandsOver, Installs, InstallFails, GivesUp

LEMMA HookTypesStep == Types /\ [Next]_vars => HookTypes'
<1> SUFFICES ASSUME Types, [Next]_vars PROVE HookTypes'
  OBVIOUS
<1> USE DEF HookTypes, Types
<1>1. CASE Panics
  BY <1>1, NowTyped DEF Panics, Optional
<1>2. CASE HookWrites
  BY <1>2 DEF HookWrites, ReporterTypes, Optional
<1>3. CASE Dies \/ RestartTooSlow
  BY <1>3 DEF Dies, RestartTooSlow, Ends, Optional
<1>4. CASE UNCHANGED hook
  BY <1>4 DEF hook
<1>5. CASE Starts \/ SavesSetting \/ AgreesToTerms \/ OneOffBegins \/ OneOffEnds
  BY <1>5 DEF Starts, SavesSetting, AgreesToTerms, Follow, OneOffBegins, OneOffEnds, TurnsOn, TurnsOff
<1> QED
  BY <1>1, <1>2, <1>3, <1>4, <1>5
     DEF Next, vars, FindsIncident, Applies, Marks, ExitBegins, ExitOverdue, ExitEnds,
         Flush, Records, ReportsLaunch, Declines, OneOffPushes, OneOffSends, Updates, UpdateBegins, Fetches, FetchesNothing,
         BeginsAgain, HandsOver, Installs, InstallFails, GivesUp

LEMMA GateTypesStep == Types /\ [Next]_vars => GateTypes'
<1> SUFFICES ASSUME Types, [Next]_vars PROVE GateTypes'
  OBVIOUS
<1> USE DEF GateTypes, Types
<1>1. CASE \E u \in Updaters : Updates(u)
  <2>1. PICK u \in Updaters : Updates(u)
    BY <1>1
  <2>2. at' \in [Updaters -> {"idle", "fetching", "waiting", "installing", "handing", "restarting"}]
    BY <2>1 DEF Updates, UpdateBegins, Fetches, FetchesNothing, BeginsAgain, HandsOver, Installs,
                InstallFails, GivesUp, SetsOut
  <2>3. gaveUp' \subseteq Updaters /\ running' \in BOOLEAN /\ installed' \in BOOLEAN
    BY <2>1 DEF Updates, UpdateBegins, Fetches, FetchesNothing, BeginsAgain, HandsOver, Installs,
                InstallFails, GivesUp, TakesTurn
  <2> QED
    BY <2>2, <2>3
<1>2. CASE Dies \/ RestartTooSlow
  BY <1>2 DEF Dies, RestartTooSlow, Ends
<1>3. CASE UNCHANGED gate
  BY <1>3 DEF gate
<1> QED
  BY <1>1, <1>2, <1>3
     DEF Next, vars, Starts, FindsIncident, Applies, Marks, ExitBegins, ExitOverdue, ExitEnds,
         Flush, Records, Panics, HookWrites, ReportsLaunch, SavesSetting, AgreesToTerms, Declines, OneOffBegins,
         OneOffPushes, OneOffSends, OneOffEnds

LEMMA ProcessTypesStep == Types /\ [Next]_vars => ProcessTypes'
<1> SUFFICES ASSUME Types, [Next]_vars PROVE ProcessTypes'
  OBVIOUS
<1> USE LaunchesAssumption DEF ProcessTypes, Types, Alive
<1>1. CASE Starts \/ FindsIncident \/ Applies \/ Marks \/ ExitBegins \/ ExitOverdue \/ ExitEnds
  BY <1>1 DEF Starts, FindsIncident, Applies, Marks, ExitBegins, ExitOverdue, ExitEnds, Launch,
              Incident, Optional, DiskTypes
<1>2. CASE Dies \/ RestartTooSlow
  BY <1>2 DEF Dies, RestartTooSlow, Ends, Incident, Optional
<1>3. CASE UNCHANGED process
  BY <1>3 DEF process
<1> QED
  BY <1>1, <1>2, <1>3
     DEF Next, vars, Flush, Records, Panics, HookWrites, ReportsLaunch, SavesSetting, AgreesToTerms, Declines,
         OneOffBegins, OneOffPushes, OneOffSends, OneOffEnds, Updates, UpdateBegins, Fetches, FetchesNothing, BeginsAgain, HandsOver, Installs,
         InstallFails, GivesUp

LEMMA DiskTypesStep == Types /\ [Next]_vars => DiskTypes'
<1> SUFFICES ASSUME Types, [Next]_vars PROVE DiskTypes'
  OBVIOUS
<1> USE DEF DiskTypes, Types
<1>1. CASE Starts \/ FindsIncident \/ Marks \/ ExitOverdue \/ ExitEnds \/ RestartTooSlow
  BY <1>1 DEF Starts, FindsIncident, Marks, ExitOverdue, ExitEnds, RestartTooSlow, Incident, Optional,
        ProcessTypes, Alive, TurnsOn, TurnsOff, GateTypes
<1>2. CASE Applies
  BY <1>2 DEF Applies, ProcessTypes, Incident, Optional
<1>3. CASE HookWrites \/ ReportsLaunch
  BY <1>3 DEF HookWrites, ReportsLaunch, HookTypes, Optional
<1>4. CASE SavesSetting \/ AgreesToTerms
  BY <1>4 DEF SavesSetting, AgreesToTerms, Follow, TurnsOn, TurnsOff, Optional
<1>5. CASE Declines \/ OneOffBegins \/ OneOffEnds
  BY <1>5 DEF Declines, OneOffBegins, OneOffEnds, TakesPending, TurnsOn, TurnsOff, Incident, Optional
<1>6. CASE \E u \in Updaters : Updates(u)
  BY <1>6 DEF Updates, UpdateBegins, Fetches, FetchesNothing, BeginsAgain, HandsOver, Installs,
              InstallFails, GivesUp, MarksAgain, disk, Incident, Optional, ProcessTypes, Working, Alive
<1>7. CASE UNCHANGED disk
  BY <1>7 DEF disk
<1> QED
  BY <1>1, <1>2, <1>3, <1>4, <1>5, <1>6, <1>7
     DEF Next, vars, ExitBegins, Dies, Flush, Records, Panics, OneOffPushes, OneOffSends

LEMMA PushTyped ==
  ASSUME Types, NEW events, events \subseteq Events, Push(events)
  PROVE  queue' \subseteq Events
  BY DEF Push, Types, ReporterTypes

LEMMA OneOffTyped ==
  ASSUME Types
  PROVE  /\ NoOneOff \in OneOffs
         /\ \A step \in {"pushed", "sent"} : [oneOff EXCEPT !.step = step] \in OneOffs
         /\ \A of \in Incident, on \in BOOLEAN : [step |-> "on", of |-> of, wasOn |-> on] \in OneOffs
  BY DEF OneOffs, NoOneOff, Incident, Optional, Types, ReporterTypes

LEMMA ReporterTypesStep == Types /\ [Next]_vars => ReporterTypes'
<1> SUFFICES ASSUME Types, [Next]_vars PROVE ReporterTypes'
  OBVIOUS
<1> USE OneOffTyped DEF ReporterTypes, Types
<1>1. CASE Starts \/ SavesSetting \/ AgreesToTerms
  BY <1>1 DEF Starts, SavesSetting, AgreesToTerms, Follow, TurnsOn, TurnsOff
<1>2. CASE Applies
  <2>1. queue' \subseteq Events
    <3>1. ASSUME NEW incident \in Incident, Push({Event(incident, Leave)}) PROVE queue' \subseteq Events
      BY <3>1, EventTyped, NowTyped, PushTyped
    <3>2. CASE UNCHANGED queue
      BY <3>2
    <3> QED
      BY <1>2, <3>1, <3>2 DEF Applies, ProcessTypes, DiskTypes
  <2> QED
    BY <1>2, <2>1 DEF Applies, ProcessTypes, DiskTypes
<1>3. CASE Flush \/ OneOffSends \/ Marks \/ Declines
  BY <1>3 DEF Flush, OneOffSends, Sends, Marks, Declines, TakesPending, Incident, Optional
<1>4. CASE Records
  <2>1. queue' \subseteq Events
    BY <1>4, NowTyped, PushTyped DEF Records
  <2> QED
    BY <1>4, <2>1 DEF Records
<1>5. CASE ReportsLaunch
  <2>1. {Event(Nobody, Leave)} \cup ({crashFile} \ {Nobody}) \subseteq Events
    BY NowTyped DEF DiskTypes, Optional
  <2>2. queue' \subseteq Events
    BY <1>5, <2>1, PushTyped DEF ReportsLaunch
  <2> QED
    BY <1>5, <2>2 DEF ReportsLaunch
<1>6. CASE OneOffBegins
  <2>1. enabled' \in BOOLEAN /\ queue' = queue /\ toReport' = toReport /\ asking' = Nobody
    BY <1>6 DEF OneOffBegins, TurnsOn, TakesPending
  <2>2. oneOff' \in OneOffs
    BY <1>6 DEF OneOffBegins
  <2> QED
    BY <2>1, <2>2 DEF Incident, Optional
<1>7. CASE OneOffPushes
  <2>1. oneOff.of \in Incident
    BY DEF OneOffs
  <2>2. queue' \subseteq Events
    BY <1>7, <2>1, EventTyped, PushTyped DEF OneOffPushes
  <2> QED
    BY <1>7, <2>2 DEF OneOffPushes
<1>8. CASE OneOffEnds
  BY <1>8 DEF OneOffEnds, TurnsOff
<1>9. CASE Dies \/ RestartTooSlow
  BY <1>9 DEF Dies, RestartTooSlow, Ends, Incident, Optional
<1>10. CASE UNCHANGED reporter
  BY <1>10 DEF reporter
<1> QED
  BY <1>1, <1>2, <1>3, <1>4, <1>5, <1>6, <1>7, <1>8, <1>9, <1>10
     DEF Next, vars, FindsIncident, ExitBegins, ExitOverdue, ExitEnds, Panics, HookWrites, Updates, UpdateBegins,
         Fetches, FetchesNothing, BeginsAgain, HandsOver, Installs, InstallFails, GivesUp

LEMMA ToldIsNat ==
  ASSUME NEW events, IsFiniteSet(events), NEW l
  PROVE  Told(l, events) \in Nat
<1>1. IsFiniteSet({e \in events : e.of = l})
  BY FS_Subset
<1> QED
  BY <1>1, FS_CardinalityType DEF Told

\* There are finitely many events, so that they can be counted.
LEMMA EventsFinite == IsFiniteSet(Events)
<1>1. IsFiniteSet(Launch)
  BY LaunchesAssumption, FS_Interval DEF Launch
<1>2. IsFiniteSet(Incident)
  BY <1>1, FS_AddElement DEF Incident, Optional
<1>3. IsFiniteSet({TRUE, FALSE})
  <2>1. IsFiniteSet({TRUE})
    BY FS_Singleton
  <2>2. {TRUE, FALSE} = {TRUE} \cup {FALSE}
    OBVIOUS
  <2> QED
    BY <2>1, <2>2, FS_AddElement, Zenon
<1>4. IsFiniteSet(Incident \X {TRUE, FALSE})
  BY <1>2, <1>3, FS_Product
<1> DEFINE f == [p \in Incident \X {TRUE, FALSE} |-> [of |-> p[1], leave |-> p[2]]]
<1>5. f \in Surjection(Incident \X {TRUE, FALSE}, Events)
  <2>1. f \in [Incident \X {TRUE, FALSE} -> Events]
    <3>1. \A p \in Incident \X {TRUE, FALSE} : p[1] \in Incident /\ p[2] \in BOOLEAN
      OBVIOUS
    <3>2. \A p \in Incident \X {TRUE, FALSE} : [of |-> p[1], leave |-> p[2]] \in Events
      BY <3>1 DEF Events, Incident
    <3> QED
      BY <3>2
  <2>2. ASSUME NEW e \in Events PROVE \E p \in Incident \X {TRUE, FALSE} : f[p] = e
    <3>1. <<e.of, e.leave>> \in Incident \X {TRUE, FALSE}
      BY DEF Events, Incident
    <3>2. f[<<e.of, e.leave>>] = e
      BY <3>1 DEF Events
    <3> QED
      BY <3>1, <3>2
  <2> QED
    BY <2>1, <2>2 DEF Surjection
<1> QED
  BY <1>4, <1>5, FS_Surjection

LEMMA SendsTyped ==
  ASSUME Types, Sends
  PROVE  answers' \in [Launch -> Nat] /\ unasked' \in BOOLEAN
<1>1. IsFiniteSet(queue)
  BY EventsFinite, FS_Subset DEF Types, ReporterTypes
<1>2. \A l : Told(l, queue) \in Nat
  BY <1>1, ToldIsNat
<1> QED
  BY <1>2 DEF Sends, Types, OutcomeTypes

LEMMA OutcomeTypesStep == Types /\ [Next]_vars => OutcomeTypes'
<1> SUFFICES ASSUME Types, [Next]_vars PROVE OutcomeTypes'
  OBVIOUS
<1> USE DEF OutcomeTypes, Types
<1>1. CASE Flush \/ OneOffSends
  BY <1>1, SendsTyped DEF Flush, OneOffSends
<1>2. CASE Declines
  BY <1>2 DEF Declines, TakesPending, ReporterTypes, Incident, Optional
<1>3. CASE ExitOverdue
  BY <1>3 DEF ExitOverdue, ProcessTypes, Alive
<1>6. CASE Dies \/ RestartTooSlow
  <2>1. Alive /\ launch \in Launch
    BY <1>6 DEF Dies, RestartTooSlow, ProcessTypes
  <2>2. PICK how \in {"clean", "handed", "killed", "unstarted"} : Ends(how)
    BY <1>6 DEF Dies, RestartTooSlow
  <2>3. stuck' \subseteq Launch
    BY <1>6, <2>1 DEF Dies, RestartTooSlow
  <2> QED
    BY <2>2, <2>3 DEF Ends
<1>4. CASE \E u \in Updaters : Updates(u)
  BY <1>4 DEF Updates, UpdateBegins, Fetches, FetchesNothing, BeginsAgain, HandsOver, Installs,
              InstallFails, GivesUp, MarksAgain, Overrun, outcome
<1>5. CASE UNCHANGED outcome
  BY <1>5 DEF outcome
<1> QED
  BY <1>1, <1>2, <1>3, <1>4, <1>5, <1>6
     DEF Next, vars, Starts, FindsIncident, Applies, Marks, ExitBegins, ExitEnds, Records, Panics, HookWrites,
         ReportsLaunch, SavesSetting, AgreesToTerms, OneOffBegins, OneOffPushes, OneOffEnds

LEMMA TypesAlways == Spec => []Types
<1>1. Types /\ [Next]_vars => Types'
  BY BoundTypesStep, GateTypesStep, HookTypesStep, ProcessTypesStep, DiskTypesStep, ReporterTypesStep,
     OutcomeTypesStep, Zenon DEF Types
<1> QED
  BY <1>1, TypeInit, PTL DEF Spec

\* Every variable of the launches keeps its type, however many there are (lib.rs,
\* watchdog.rs, updater.rs, collector.rs).
THEOREM TypeCorrect == Spec => []TypeOK
  BY TypesAlways, TypesAreTypeOK, PTL

(***************************************************************************)
(* Where an incident can be while the process is how far: in a file or in  *)
(* hand before the app runs, asked about, queued or being sent after that. *)
(***************************************************************************)
Early == {"made", "found", "applied"}
Earlier == 1 .. (launch - 1)
Sending(l) == oneOff.step = "on" /\ oneOff.of = l
Queued(l) == \E e \in queue : e.of = l

\* The files are of this launch or of earlier ones, of this one only once it has
\* left its marker, and what is in hand is between finding and applying it.
FilesInv ==
  /\ hangFile \in Optional(1 .. launch) /\ marker \in Optional(1 .. launch)
  /\ phase \in Early => hangFile # launch /\ marker # launch
  /\ phase \in {"found", "applied"} => hangFile = Nobody
  /\ Working => hangFile \in {Nobody, launch} /\ marker \in {Nobody, launch}
  /\ found \in Optional(Earlier)
  /\ found # Nobody => phase = "found"
\* What the user is asked about is what waits on disk.
AskedInv ==
  /\ waiting \in Optional(Earlier)
  /\ asking \in {Nobody, waiting}
  /\ asking # Nobody => phase = "applied" \/ Working
\* Events tell of earlier launches, or of none, and a report on its own is under
\* way only while the app runs; a crash record tells no incident.
EventsInv ==
  /\ \A e \in queue : e.of \in Optional(Earlier)
  /\ queue # {} => phase = "applied" \/ Working
  /\ oneOff.step # "none" => Working
  /\ oneOff.step = "on" => oneOff.of \in Earlier
  /\ \A record \in {crashFile, dump} \ {Nobody} : record.of = Nobody
PlaceInv == FilesInv /\ AskedInv /\ EventsInv

LEMMA PhaseGoesOn ==
  ASSUME Types, UNCHANGED <<launch, phase>> PROVE Working' = Working /\ Earlier' = Earlier /\ Up' = Up /\ Alive' = Alive
  BY DEF Working, Earlier, Up, Alive

LEMMA FilesStep == Types /\ FilesInv /\ [Next]_vars => FilesInv'
<1> SUFFICES ASSUME Types, FilesInv, [Next]_vars PROVE FilesInv'
  OBVIOUS
<1> USE LaunchesAssumption DEF FilesInv, Types, ProcessTypes, Optional, Earlier, Working, Early
<1>1. CASE Starts
  BY <1>1 DEF Starts
<1>2. CASE FindsIncident
  <2>1. phase = "made" /\ phase' = "found" /\ launch' = launch /\ hangFile' = Nobody
    BY <1>2 DEF FindsIncident
  <2>2. found' \in {hangFile, marker} /\ marker' \in {Nobody, marker}
    BY <1>2 DEF FindsIncident
  <2>3. hangFile \in Optional(Earlier) /\ marker \in Optional(Earlier)
    BY <2>1
  <2> QED
    BY <2>1, <2>2, <2>3
<1>3. CASE Applies
  BY <1>3 DEF Applies
<1>8. CASE Marks
  <2>1. launch \in 1 .. launch /\ launch' = launch /\ phase' = "running" /\ marker' = launch
    BY <1>8 DEF Marks, Alive, Launch
  <2>2. hangFile' = Nobody /\ found' = Nobody
    BY <1>8 DEF Marks
  <2> QED
    BY <2>1, <2>2
<1>4. CASE ExitBegins \/ ExitOverdue \/ ExitEnds
  <2>1. launch \in 1 .. launch /\ launch' = launch /\ Working /\ Working' /\ phase' \notin Early
    BY <1>4 DEF ExitBegins, ExitOverdue, ExitEnds, disk, Alive, Launch
  <2>2. hangFile' \in {hangFile, launch} /\ marker' \in {marker, Nobody} /\ found' = found /\ found = Nobody
    BY <1>4 DEF ExitBegins, ExitOverdue, ExitEnds, disk
  <2> QED
    BY <2>1, <2>2
<1>5. CASE Dies \/ RestartTooSlow
  BY <1>5 DEF Dies, RestartTooSlow, Ends, disk, Alive, Launch
<1>6. CASE \E u \in Updaters : Updates(u)
  <2>1. Working /\ UNCHANGED <<launch, phase, found, hangFile>> /\ marker' \in {marker, launch, Nobody}
    BY <1>6 DEF Updates, UpdateBegins, Fetches, FetchesNothing, BeginsAgain, HandsOver, Installs,
        InstallFails, GivesUp, MarksAgain, disk, process
  <2>2. launch \in 1 .. launch
    BY <2>1 DEF Alive, Launch
  <2> QED
    BY <2>1, <2>2
<1>7. CASE UNCHANGED <<launch, phase, found, hangFile, marker>>
  BY <1>7
<1> QED
  BY <1>1, <1>2, <1>3, <1>4, <1>5, <1>6, <1>7, <1>8
     DEF Next, vars, disk, process, Flush, Records, Panics, HookWrites, ReportsLaunch, SavesSetting, AgreesToTerms,
         Declines, OneOffBegins, OneOffPushes, OneOffSends, OneOffEnds

LEMMA AskedStep == Types /\ FilesInv /\ AskedInv /\ [Next]_vars => AskedInv'
<1> SUFFICES ASSUME Types, FilesInv, AskedInv, [Next]_vars PROVE AskedInv'
  OBVIOUS
<1> USE LaunchesAssumption DEF AskedInv, Types, ProcessTypes, Optional, Earlier, Working
<1>1. CASE Starts \/ FindsIncident \/ Marks \/ ExitBegins \/ ExitOverdue \/ ExitEnds
  BY <1>1 DEF Starts, FindsIncident, Marks, ExitBegins, ExitOverdue, ExitEnds, disk, reporter
<1>2. CASE Applies
  BY <1>2 DEF Applies, FilesInv
<1>3. CASE Declines \/ OneOffBegins
  BY <1>3 DEF Declines, OneOffBegins, TakesPending, process
<1>4. CASE Dies \/ RestartTooSlow
  BY <1>4 DEF Dies, RestartTooSlow, Ends, disk
<1>5. CASE UNCHANGED <<launch, phase, waiting, asking>>
  BY <1>5
<1> QED
  BY <1>1, <1>2, <1>3, <1>4, <1>5
     DEF Next, vars, disk, process, reporter, Flush, Records, Panics, HookWrites, ReportsLaunch, SavesSetting, AgreesToTerms,
         OneOffPushes, OneOffSends, OneOffEnds, Updates, UpdateBegins, Fetches, FetchesNothing, BeginsAgain, HandsOver,
         Installs, InstallFails, GivesUp, MarksAgain

LEMMA EventIs == \A of, leave : Event(of, leave).of = of /\ Event(of, leave).leave = leave
  BY DEF Event

LEMMA OneOffGoes ==
  ASSUME Types, NEW step \in {"pushed", "sent"}, oneOff' = [oneOff EXCEPT !.step = step]
  PROVE  oneOff'.step = step /\ oneOff'.of = oneOff.of
  BY DEF Types, ReporterTypes, OneOffs

LEMMA NoOneOffIs == NoOneOff.step = "none" /\ NoOneOff.of = Nobody
  BY DEF NoOneOff

\* While the process goes on from one step to the next.
LEMMA EventsKept ==
  ASSUME EventsInv, launch' = launch, Working => Working', phase = "applied" => Working' \/ phase' = "applied",
         queue' = queue \/ queue' = {}, {crashFile, dump}' \subseteq {crashFile, dump, Nobody},
         oneOff' = oneOff \/ (Working' /\ oneOff'.step # "on") \/ oneOff' = NoOneOff
  PROVE  EventsInv'
<1>1. Earlier' = Earlier
  BY DEF Earlier
<1> QED
  BY <1>1, NoOneOffIs DEF EventsInv

\* What is recorded while the app runs.
LEMMA EventsPushed ==
  ASSUME EventsInv, NEW events, Push(events), \A e \in events : e.of \in Optional(Earlier),
         launch' = launch, Working', {crashFile, dump}' \subseteq {crashFile, dump, Nobody},
         oneOff'.step # "on" \/ oneOff' = oneOff
  PROVE  EventsInv'
<1>1. Earlier' = Earlier
  BY DEF Earlier
<1>2. \A e \in queue' : e.of \in Optional(Earlier)
  BY DEF EventsInv, Push
<1> QED
  BY <1>1, <1>2 DEF EventsInv

LEMMA EventsStep == Types /\ PlaceInv /\ [Next]_vars => EventsInv'
<1> SUFFICES ASSUME Types, PlaceInv, [Next]_vars PROVE EventsInv'
  OBVIOUS
<1> USE DEF PlaceInv, Working
<1>1. CASE Starts
  <2>1. queue = {} /\ queue' = {} /\ oneOff.step = "none" /\ oneOff' = oneOff
    BY <1>1 DEF Starts, EventsInv, TurnsOn, TurnsOff
  <2>2. crashFile' \in {crashFile, Nobody} /\ dump' = dump
    BY <1>1 DEF Starts, TurnsOn, TurnsOff, hook
  <2> QED
    BY <2>1, <2>2 DEF EventsInv
<1>2. CASE FindsIncident \/ Marks \/ ExitBegins \/ ExitOverdue \/ ExitEnds \/ Declines
  BY <1>2, EventsKept DEF FindsIncident, Marks, ExitBegins, ExitOverdue, ExitEnds, Declines, TakesPending,
        disk, process, hook, reporter, EventsInv
<1>3. CASE Applies
  <2>1. queue = {} /\ oneOff' = oneOff /\ oneOff.step = "none" /\ UNCHANGED <<crashFile, dump>> /\ Earlier' = Earlier /\ phase' = "applied"
    BY <1>3 DEF Applies, hook, EventsInv, Earlier
  <2>2. CASE \E incident \in Earlier : Push({Event(incident, Leave)})
    <3>1. \A e \in queue' : e.of \in Optional(Earlier)
      BY <2>1, <2>2, EventIs DEF Push, Optional
    <3> QED
      BY <2>1, <3>1 DEF EventsInv
  <2>3. CASE UNCHANGED queue
    BY <2>1, <2>3 DEF EventsInv
  <2> QED
    BY <1>3, <2>2, <2>3 DEF Applies, FilesInv, AskedInv, Optional
<1>4. CASE Dies \/ RestartTooSlow
  BY <1>4, NoOneOffIs DEF Dies, RestartTooSlow, Ends, disk, hook, EventsInv
<1>5. CASE Flush
  BY <1>5, EventsKept DEF Flush, Sends, disk, process, hook
<1>6. CASE OneOffSends
  <2>1. Working /\ Working' /\ launch' = launch /\ phase' = phase /\ UNCHANGED <<crashFile, dump>>
    BY <1>6 DEF OneOffSends, disk, process, hook, Up
  <2>2. queue' = queue \/ queue' = {}
    BY <1>6 DEF OneOffSends, Sends
  <2>3. oneOff'.step # "on"
    BY <1>6, OneOffGoes DEF OneOffSends
  <2> QED
    BY <2>1, <2>2, <2>3, EventsKept
<1>7. CASE Records
  BY <1>7, EventsPushed, EventIs DEF Records, Up, disk, process, hook, Optional
<1>8. CASE Panics \/ HookWrites
  <2>1. /\ UNCHANGED <<launch, phase, queue, oneOff>>
        /\ {crashFile, dump}' \subseteq {crashFile, dump, Nobody, Event(Nobody, Leave)}
    BY <1>8 DEF Panics, HookWrites, disk, process, hook, reporter
  <2> QED
    BY <2>1, EventIs, PhaseGoesOn DEF EventsInv
<1>9. CASE ReportsLaunch
  <2> DEFINE events == {Event(Nobody, Leave)} \cup ({crashFile} \ {Nobody})
  <2>1. Push(events) /\ Working' /\ launch' = launch /\ oneOff' = oneOff /\ crashFile' \in {crashFile, Nobody} /\ dump' = dump
    BY <1>9 DEF ReportsLaunch, process, hook, Up
  <2>2. \A e \in events : e.of \in Optional(Earlier)
    BY EventIs DEF EventsInv, Optional
  <2> QED
    BY <2>1, <2>2, EventsPushed
<1>10. CASE SavesSetting \/ AgreesToTerms
  BY <1>10, EventsKept DEF SavesSetting, AgreesToTerms, Follow, TurnsOn, TurnsOff, process, hook, Up
<1>11. CASE OneOffBegins
  <2>1. UNCHANGED <<launch, phase, queue, crashFile, dump>> /\ Working' /\ asking # Nobody
    BY <1>11 DEF OneOffBegins, TurnsOn, process, hook, Up, TakesPending
  <2>2. oneOff'.step = "on" => oneOff'.of = asking
    BY <1>11, NoOneOffIs DEF OneOffBegins
  <2>3. asking \in Earlier
    BY <2>1 DEF AskedInv, Optional
  <2> QED
    BY <2>1, <2>2, <2>3 DEF EventsInv, Earlier
<1>12. CASE OneOffPushes
  <2>1. Working /\ Working' /\ launch' = launch /\ UNCHANGED <<crashFile, dump>> /\ Push({Event(oneOff.of, TRUE)})
    BY <1>12 DEF OneOffPushes, disk, process, hook, Up
  <2>2. oneOff'.step # "on"
    BY <1>12, OneOffGoes DEF OneOffPushes
  <2>3. oneOff.of \in Earlier
    BY <1>12 DEF OneOffPushes, EventsInv
  <2>4. \A e \in {Event(oneOff.of, TRUE)} : e.of \in Optional(Earlier)
    BY <2>3, EventIs DEF Optional
  <2> QED
    BY <2>1, <2>2, <2>4, EventsPushed
<1>13. CASE OneOffEnds
  BY <1>13, EventsKept, NoOneOffIs DEF OneOffEnds, TurnsOff, process, hook, Up
<1>14. CASE \E u \in Updaters : Updates(u)
  <2>1. UNCHANGED <<launch, phase, queue, oneOff, crashFile, dump>>
    BY <1>14 DEF Updates, UpdateBegins, Fetches, FetchesNothing, BeginsAgain, HandsOver,
                Installs, InstallFails, GivesUp, MarksAgain, disk, process, hook, reporter
  <2> QED
    BY <2>1, EventsKept
<1>15. CASE UNCHANGED vars
  BY <1>15, EventsKept DEF vars, disk, process, hook, reporter
<1> QED
  BY <1>1, <1>2, <1>3, <1>4, <1>5, <1>6, <1>7, <1>8, <1>9, <1>10, <1>11, <1>12, <1>13, <1>14, <1>15 DEF Next

(***************************************************************************)
(* Each incident is told once.  From the time the app asks about it, it is *)
(* in one place only, and once it is told it is in none: what is in a file *)
(* or in hand by then is the running launch's.                             *)
(***************************************************************************)
InHand(l) == l \in {hangFile, marker, found}
\* No incident is in two of the places at once, nor told by two events, and one
\* that was told is an earlier launch's and nowhere any more.
OnceInv ==
  /\ \A l \in Launch : Queued(l) => waiting # l /\ ~Sending(l)
  /\ \A l \in Launch : Sending(l) => waiting # l
  /\ \A e, f \in queue : e.of = f.of /\ e.of # Nobody => e = f
  /\ \A l \in Launch : answers[l] # 0 =>
       /\ answers[l] = 1 /\ l \in Earlier
       /\ ~InHand(l) /\ waiting # l /\ ~Queued(l) /\ ~Sending(l)

\* What is earlier stays earlier.
LEMMA EarlierGrows ==
  ASSUME launch \in Nat, launch' \in {launch, launch + 1}
  PROVE  \A l \in Earlier : l \in Earlier' /\ l # launch
<1>1. CASE launch' = launch
  BY <1>1 DEF Earlier
<1>2. CASE launch' = launch + 1
  BY <1>2 DEF Earlier
<1> QED
  BY <1>1, <1>2

\* An incident counts once among the events.
LEMMA ToldHow ==
  ASSUME Types, OnceInv, NEW l \in Launch
  PROVE  Told(l, queue) = IF Queued(l) THEN 1 ELSE 0
<1> DEFINE telling == {e \in queue : e.of = l}
<1>1. CASE ~Queued(l)
  <2>1. telling = {}
    BY <1>1 DEF Queued
  <2> QED
    BY <1>1, <2>1, FS_EmptySet DEF Told
<1>2. CASE Queued(l)
  <2>1. PICK e \in queue : e.of = l
    BY <1>2 DEF Queued
  <2>2. telling = {e}
    BY <2>1, NothingIsNoLaunch DEF OnceInv
  <2> QED
    BY <1>2, <2>2, FS_Singleton DEF Told
<1> QED
  BY <1>1, <1>2

\* What is queued, waits or is sent stays so or is gone; what was in hand is now
\* the running launch's at most.
LEMMA OnceKept ==
  ASSUME Types, OnceInv, launch' \in {launch, launch + 1},
         queue' \subseteq queue, waiting' \in {waiting, Nobody}, answers' = answers,
         oneOff' = oneOff \/ oneOff'.step # "on",
         hangFile' \in {hangFile, Nobody, launch}, marker' \in {marker, Nobody, launch},
         found' \in {hangFile, marker, found, Nobody}
  PROVE  OnceInv'
<1>1. \A l \in Launch : (Queued(l)' => Queued(l)) /\ (Sending(l)' => Sending(l)) /\ (waiting' = l => waiting = l)
  BY NothingIsNoLaunch DEF Queued, Sending
<1>2. \A l \in Earlier : l \in Earlier' /\ l # launch
  BY EarlierGrows, LaunchesAssumption DEF Types, ProcessTypes
<1>3. ASSUME NEW l \in Launch, InHand(l)' PROVE InHand(l) \/ l = launch
  <2>1. l # Nobody /\ (l = hangFile' \/ l = marker' \/ l = found')
    BY <1>3, NothingIsNoLaunch DEF InHand
  <2> QED
    BY <2>1 DEF InHand
<1> QED
  BY <1>1, <1>2, <1>3 DEF OnceInv

\* What is recorded of no incident.
LEMMA OncePushed ==
  ASSUME Types, OnceInv, NEW events, Push(events), \A e \in events : e.of = Nobody,
         UNCHANGED <<launch, waiting, answers, oneOff, hangFile, marker, found>>
  PROVE  OnceInv'
<1>1. \A l \in Launch : (Queued(l)' <=> Queued(l)) /\ (Sending(l)' <=> Sending(l)) /\ (InHand(l)' <=> InHand(l))
  BY NothingIsNoLaunch DEF Queued, Sending, InHand, Push
<1>2. \A e, f \in queue' : e.of = f.of /\ e.of # Nobody => e = f
  BY DEF OnceInv, Push
<1>3. Earlier' = Earlier
  BY DEF Earlier
<1> QED
  BY <1>1, <1>2, <1>3 DEF OnceInv

\* A flush: each incident in the queue counts once.
LEMMA OnceSent ==
  ASSUME Types, PlaceInv, OnceInv, Up, Sends,
         UNCHANGED <<launch, waiting, hangFile, marker, found>>,
         oneOff' = oneOff \/ (oneOff.step # "on" /\ oneOff'.step # "on")
  PROVE  OnceInv'
<1>1. CASE ~enabled
  BY <1>1, OnceKept DEF Sends
<1>2. CASE enabled
  <2>1. queue' = {} /\ answers' = [l \in Launch |-> answers[l] + Told(l, queue)]
    BY <1>2 DEF Sends
  <2>2. \A l \in Launch : ~Queued(l)' /\ (Sending(l)' => Sending(l)) /\ (InHand(l)' <=> InHand(l))
    BY <2>1 DEF Queued, Sending, InHand
  <2>3. Earlier' = Earlier
    BY DEF Earlier
  <2>4. ASSUME NEW l \in Launch, answers'[l] # 0
        PROVE  answers'[l] = 1 /\ l \in Earlier' /\ ~InHand(l)' /\ waiting' # l /\ ~Sending(l)'
    <3>1. CASE Queued(l)
      <4>1. answers[l] = 0 /\ waiting # l /\ ~Sending(l) /\ Told(l, queue) = 1
        BY <3>1, ToldHow DEF OnceInv
      <4>2. l \in Earlier
        BY <3>1, NothingIsNoLaunch DEF Queued, PlaceInv, EventsInv, Optional
      <4>3. l # launch
        BY <4>2, LaunchesAssumption DEF Earlier, Types, ProcessTypes
      <4>4. ~InHand(l)
        BY <4>3, NothingIsNoLaunch DEF InHand, PlaceInv, FilesInv, Up, Working
      <4> QED
        BY <2>1, <2>2, <2>3, <4>1, <4>2, <4>4
    <3>2. CASE ~Queued(l)
      <4>1. Told(l, queue) = 0 /\ answers[l] \in Nat
        BY <3>2, ToldHow DEF Types, OutcomeTypes
      <4>2. answers'[l] = answers[l]
        BY <2>1, <4>1
      <4> QED
        BY <2>2, <2>3, <2>4, <4>2 DEF OnceInv
    <3> QED
      BY <3>1, <3>2
  <2> QED
    BY <2>1, <2>2, <2>4 DEF OnceInv
<1> QED
  BY <1>1, <1>2

LEMMA OnceStep == Types /\ PlaceInv /\ OnceInv /\ [Next]_vars => OnceInv'
<1> SUFFICES ASSUME Types, PlaceInv, OnceInv, [Next]_vars PROVE OnceInv'
  OBVIOUS
<1>1. CASE Starts
  <2>1. queue' \subseteq queue
    BY <1>1 DEF Starts, TurnsOn, TurnsOff
  <2> QED
    BY <1>1, <2>1, OnceKept DEF Starts, outcome
<1>2. CASE FindsIncident \/ Marks \/ ExitBegins \/ ExitOverdue \/ ExitEnds \/ Panics \/ HookWrites
  BY <1>2, OnceKept DEF FindsIncident, Marks, ExitBegins, ExitOverdue, ExitEnds, Panics, HookWrites,
        disk, process, reporter, outcome
<1>3. CASE Applies
  <2>1. queue = {} /\ oneOff.step # "on" /\ UNCHANGED <<launch, oneOff, answers, hangFile, marker>> /\ found' = Nobody
    BY <1>3 DEF Applies, PlaceInv, EventsInv, Working, outcome
  <2>2. \A l \in Launch : ~Sending(l)' /\ (InHand(l)' => InHand(l))
    BY <2>1, NothingIsNoLaunch DEF Sending, InHand
  <2>3. Earlier' = Earlier
    BY <2>1 DEF Earlier
  <2>4. CASE UNCHANGED <<waiting, queue>>
    BY <2>1, <2>4, OnceKept
  <2>5. ASSUME NEW incident \in {found, waiting}, waiting' = incident, UNCHANGED queue PROVE OnceInv'
    <3>1. \A l \in Launch : ~Queued(l)'
      BY <2>1, <2>5 DEF Queued
    <3>2. \A l \in Launch : answers[l] # 0 => incident # l
      BY DEF OnceInv, InHand
    <3> QED
      BY <2>1, <2>2, <2>3, <2>5, <3>1, <3>2 DEF OnceInv
  <2>6. ASSUME NEW incident \in {found, waiting}, waiting' = Nobody, Push({Event(incident, Leave)}) PROVE OnceInv'
    <3>1. \A e \in queue' : e = Event(incident, Leave)
      BY <2>1, <2>6 DEF Push
    <3>2. \A l \in Launch : Queued(l)' => l = incident
      BY <3>1, EventIs DEF Queued
    <3>3. \A l \in Launch : answers[l] # 0 => incident # l
      BY DEF OnceInv, InHand
    <3> QED
      BY <2>1, <2>2, <2>3, <2>6, <3>1, <3>2, <3>3, NothingIsNoLaunch DEF OnceInv
  <2> QED
    BY <1>3, <2>4, <2>5, <2>6 DEF Applies
<1>4. CASE Dies \/ RestartTooSlow
  <2>1. /\ launch' = launch /\ queue' = {} /\ oneOff' = NoOneOff /\ waiting' = waiting /\ answers' = answers
        /\ found' = Nobody /\ marker' = marker /\ hangFile' \in {hangFile, launch}
    BY <1>4 DEF Dies, RestartTooSlow, Ends, disk
  <2> QED
    BY <2>1, NoOneOffIs, OnceKept
<1>5. CASE Flush
  BY <1>5, OnceSent DEF Flush, disk, process
<1>6. CASE OneOffSends
  <2>1. oneOff.step # "on" /\ oneOff'.step # "on"
    BY <1>6, OneOffGoes DEF OneOffSends
  <2> QED
    BY <1>6, <2>1, OnceSent DEF OneOffSends, disk, process
<1>7. CASE Records
  BY <1>7, OncePushed, EventIs DEF Records, disk, process, outcome
<1>8. CASE ReportsLaunch
  <2> DEFINE events == {Event(Nobody, Leave)} \cup ({crashFile} \ {Nobody})
  <2>1. Push(events) /\ UNCHANGED <<launch, waiting, answers, oneOff, hangFile, marker, found>>
    BY <1>8 DEF ReportsLaunch, process, outcome
  <2>2. \A e \in events : e.of = Nobody
    BY EventIs DEF PlaceInv, EventsInv
  <2> QED
    BY <2>1, <2>2, OncePushed
<1>9. CASE SavesSetting \/ AgreesToTerms
  BY <1>9, OnceKept DEF SavesSetting, AgreesToTerms, Follow, TurnsOn, TurnsOff, process, outcome
<1>10. CASE Declines
  <2>1. asking = waiting /\ asking \in Launch /\ asking \in Earlier
    BY <1>10 DEF Declines, TakesPending, PlaceInv, AskedInv, Optional, Types, ReporterTypes, Incident
  <2>2. /\ waiting' = Nobody /\ answers' = [answers EXCEPT ![waiting] = @ + 1]
        /\ UNCHANGED <<launch, oneOff, hangFile, marker, found, queue>>
    BY <1>10, <2>1 DEF Declines, TakesPending, process
  <2>3. \A l \in Launch : (Queued(l)' <=> Queued(l)) /\ (Sending(l)' <=> Sending(l)) /\ (InHand(l)' <=> InHand(l))
    BY <2>2 DEF Queued, Sending, InHand
  <2>4. answers[waiting] = 0 /\ ~Queued(waiting) /\ ~Sending(waiting)
    BY <2>1 DEF OnceInv
  <2>5. Up /\ waiting # launch /\ waiting # Nobody
    BY <1>10, <2>1, LaunchesAssumption, NothingIsNoLaunch DEF Declines, Earlier, Types, ProcessTypes
  <2>6. ~InHand(waiting)
    BY <2>5 DEF InHand, PlaceInv, FilesInv, Up, Working
  <2>7. \A l \in Launch : l # waiting => answers'[l] = answers[l]
    BY <2>2 DEF Types, OutcomeTypes
  <2>8. answers'[waiting] = 1
    BY <2>1, <2>2, <2>4 DEF Types, OutcomeTypes
  <2>9. Earlier' = Earlier
    BY <2>2 DEF Earlier
  <2> QED
    BY <2>1, <2>2, <2>3, <2>4, <2>6, <2>7, <2>8, <2>9, NothingIsNoLaunch DEF OnceInv
<1>11. CASE OneOffBegins
  <2>1. asking = waiting /\ asking \in Launch
    BY <1>11 DEF OneOffBegins, TakesPending, PlaceInv, AskedInv, Types, ReporterTypes, Incident, Optional
  <2>2. /\ waiting' = Nobody /\ UNCHANGED <<launch, answers, hangFile, marker, found, queue>>
        /\ oneOff.step = "none" /\ (oneOff'.step = "on" => oneOff'.of = waiting)
    BY <1>11, <2>1, NoOneOffIs DEF OneOffBegins, TakesPending, TurnsOn, process, outcome
  <2>3. \A l \in Launch : (Queued(l)' <=> Queued(l)) /\ ~Sending(l) /\ (Sending(l)' => l = waiting) /\ (InHand(l)' <=> InHand(l))
    BY <2>2 DEF Queued, Sending, InHand
  <2>4. Earlier' = Earlier
    BY <2>2 DEF Earlier
  <2> QED
    BY <2>2, <2>3, <2>4, NothingIsNoLaunch DEF OnceInv
<1>12. CASE OneOffPushes
  <2>1. /\ UNCHANGED <<launch, answers, hangFile, marker, found, waiting>> /\ Push({Event(oneOff.of, TRUE)})
        /\ oneOff.step = "on"
    BY <1>12 DEF OneOffPushes, disk, process, outcome
  <2>2. oneOff'.step # "on"
    BY <1>12, OneOffGoes DEF OneOffPushes
  <2>3. oneOff.of \in Launch /\ Sending(oneOff.of)
    BY <2>1, LaunchesAssumption DEF PlaceInv, EventsInv, Earlier, Launch, Types, ProcessTypes, Sending
  <2>4. ~Queued(oneOff.of) /\ waiting # oneOff.of /\ answers[oneOff.of] = 0
    BY <2>3 DEF OnceInv
  <2>8. PICK event : event.of = oneOff.of /\ queue' \subseteq queue \cup {event}
    BY <2>1, EventIs DEF Push
  <2>5. \A l \in Launch : (Queued(l)' => Queued(l) \/ l = oneOff.of) /\ ~Sending(l)' /\ (InHand(l)' <=> InHand(l))
    BY <2>1, <2>2, <2>8 DEF Queued, Sending, InHand
  <2>6. \A e, f \in queue' : e.of = f.of /\ e.of # Nobody => e = f
    BY <2>4, <2>8 DEF OnceInv, Queued
  <2>7. Earlier' = Earlier
    BY <2>1 DEF Earlier
  <2> QED
    BY <2>1, <2>4, <2>5, <2>6, <2>7 DEF OnceInv
<1>13. CASE OneOffEnds
  BY <1>13, OnceKept, NoOneOffIs DEF OneOffEnds, TurnsOff, process, outcome
<1>14. CASE \E u \in Updaters : Updates(u)
  <2>1. UNCHANGED <<launch, queue, waiting, answers, oneOff, found, hangFile>> /\ marker' \in {marker, launch, Nobody}
    BY <1>14 DEF Updates, UpdateBegins, Fetches, FetchesNothing, BeginsAgain, HandsOver,
                Installs, InstallFails, GivesUp, MarksAgain, disk, process, reporter, outcome
  <2> QED
    BY <2>1, OnceKept
<1>15. CASE UNCHANGED vars
  BY <1>15, OnceKept DEF vars, disk, process, reporter, outcome
<1> QED
  BY <1>1, <1>2, <1>3, <1>4, <1>5, <1>6, <1>7, <1>8, <1>9, <1>10, <1>11, <1>12, <1>13, <1>14, <1>15 DEF Next

(***************************************************************************)
(* What is taken for an incident was one, and what was one is noticed.     *)
(***************************************************************************)
Guilty(l) == fate[l] \in {"killed", "overrun"} \/ l \in stuck
Bad(l) == fate[l] = "killed" \/ l \in stuck
LeftBehind(l) == hangFile = l \/ (hangFile = Nobody /\ marker = l)

\* What the files and what is in hand tell of was one; a marker of the launch
\* that runs says nothing yet.
MarkerInv ==
  /\ hangFile # Nobody => hangFile \in stuck
  /\ marker # Nobody => (marker = launch /\ Alive) \/ Guilty(marker)
  /\ found # Nobody => Guilty(found)
\* A launch that runs has no fate yet, its marker is there until it leaves or is
\* handed over to the installer and not after that, but for an overrun.
FateInv ==
  /\ \A l \in Launch : l > launch => fate[l] = "none" /\ l \notin stuck
  /\ Alive => fate[launch] \in {"none", "overrun"}
  /\ Working /\ marker = launch => (phase # "leaving" /\ ~Handing) \/ fate[launch] = "overrun"
  /\ Up /\ ~Handing => marker = launch \/ fate[launch] = "overrun"
  /\ ~Working => ~Handing /\ at[Loop] # "restarting"
\* The launch that was bad can be told by the files until the next one takes it
\* in hand, and then is asked about or queued.
NoticeInv ==
  /\ launch \in stuck => hangFile = launch
  /\ phase = "down" => \A l \in Launch : l = launch /\ Bad(l) => LeftBehind(l)
  /\ phase = "made" => \A l \in Launch : l = launch - 1 /\ Bad(l) => LeftBehind(l)
  /\ phase = "found" => \A l \in Launch : l = launch - 1 /\ Bad(l) => found = l
  /\ phase = "applied" => \A l \in Launch : l = launch - 1 /\ Bad(l) => asking = l \/ Queued(l)
\* What is asked about, queued, sent or told was one.
TellInv ==
  /\ waiting # Nobody => Guilty(waiting)
  /\ \A l \in Launch : Queued(l) \/ Sending(l) \/ answers[l] > 0 => Guilty(l)

\* How a step changes what becomes of the launches: not, or the running one's, in
\* a launch that goes on, or at its end.
LEMMA FateChanges ==
  ASSUME Types, FateInv, [Next]_vars
  PROVE  \/ UNCHANGED <<fate, stuck>>
         \/ Alive /\ stuck' = stuck /\ fate' = [fate EXCEPT ![launch] = "overrun"]
         \/ Alive /\ fate' = fate /\ stuck' = stuck \cup {launch} /\ hangFile' = launch
         \/ \E how : Ends(how) /\ stuck \subseteq stuck' /\ stuck' \subseteq stuck \cup {launch}
<1>1. CASE Dies \/ RestartTooSlow
  BY <1>1 DEF Dies, RestartTooSlow
<1>2. CASE ExitOverdue
  BY <1>2 DEF ExitOverdue, Alive
<1>3. CASE \E u \in Updaters : Updates(u)
  BY <1>3 DEF Updates, UpdateBegins, Fetches, FetchesNothing, BeginsAgain, HandsOver, Installs,
              InstallFails, GivesUp, MarksAgain, Overrun, outcome, Working, Alive
<1>4. CASE UNCHANGED <<fate, stuck>>
  BY <1>4
<1> QED
  BY <1>1, <1>2, <1>3, <1>4
     DEF Next, vars, outcome, Starts, FindsIncident, Applies, Marks, ExitBegins, ExitEnds,
         Flush, Records, Panics, HookWrites, ReportsLaunch, SavesSetting, AgreesToTerms, Declines, OneOffBegins,
         OneOffPushes, OneOffSends, OneOffEnds

\* What was an incident stays one.
LEMMA GuiltStays ==
  ASSUME Types, FateInv, [Next]_vars, NEW l \in Launch, Guilty(l)
  PROVE  Guilty(l)'
<1>1. \A how : Ends(how) => fate' = [fate EXCEPT ![launch] = IF @ = "none" THEN how ELSE @]
  BY DEF Ends
<1> QED
  BY <1>1, FateChanges DEF Guilty, Types, OutcomeTypes

LEMMA MarkerStep ==
  Types /\ FilesInv /\ FateInv /\ MarkerInv /\ [Next]_vars => MarkerInv'
<1> SUFFICES ASSUME Types, FilesInv, FateInv, MarkerInv, [Next]_vars PROVE MarkerInv'
  OBVIOUS
<1>0. /\ \A l \in Launch : Guilty(l) => Guilty(l)'
      /\ hangFile \in Optional(Launch) /\ marker \in Optional(Launch) /\ found \in Optional(Launch)
      /\ stuck \subseteq Launch
  BY GuiltStays DEF Types, DiskTypes, ProcessTypes, OutcomeTypes, Incident
<1>s. stuck \subseteq stuck'
  BY FateChanges
<1>1. CASE Starts
  <2>1. UNCHANGED <<hangFile, marker, found>> /\ phase = "down"
    BY <1>1 DEF Starts
  <2> QED
    BY <1>0, <1>s, <2>1 DEF MarkerInv, Optional, Alive
<1>2. CASE FindsIncident
  <2>1. /\ hangFile' = Nobody /\ marker' \in {Nobody, marker} /\ found' = IF hangFile # Nobody THEN hangFile ELSE marker
        /\ UNCHANGED <<launch, fate, stuck>> /\ phase = "made"
    BY <1>2 DEF FindsIncident, outcome
  <2>2. marker # launch
    BY <2>1 DEF FilesInv, Early
  <2>3. marker # Nobody => Guilty(marker)
    BY <2>2 DEF MarkerInv
  <2>4. hangFile # Nobody => Guilty(hangFile)
    BY DEF MarkerInv, Guilty
  <2> QED
    BY <1>0, <2>1, <2>3, <2>4 DEF MarkerInv, Optional
<1>3. CASE Dies
  <2>1. UNCHANGED <<hangFile, marker, stuck, launch>> /\ found' = Nobody /\ Alive
    BY <1>3 DEF Dies, Ends, disk
  <2>2. CASE marker # launch \/ marker = Nobody
    BY <1>0, <2>1, <2>2 DEF MarkerInv, Optional
  <2>3. CASE marker = launch /\ marker # Nobody
    <3>1. launch \in Launch
      BY <1>0, <2>3 DEF Optional
    <3>2. CASE fate[launch] = "overrun"
      BY <1>0, <2>1, <2>3, <3>1, <3>2 DEF MarkerInv, Guilty
    <3>3. CASE fate[launch] # "overrun"
      <4>1. Working /\ phase # "leaving" /\ ~Handing /\ fate[launch] = "none"
        BY <2>1, <2>3, <3>3 DEF FateInv, FilesInv, Early, Alive, Working, Types, ProcessTypes
      <4>2. Ends("killed")
        BY <1>3, <4>1 DEF Dies, Handing, Working, Up
      <4>3. fate'[launch] = "killed"
        BY <3>1, <4>1, <4>2 DEF Ends, Types, OutcomeTypes
      <4> QED
        BY <2>1, <2>3, <4>3 DEF MarkerInv, Guilty
    <3> QED
      BY <3>2, <3>3
  <2> QED
    BY <2>2, <2>3
<1>4. CASE RestartTooSlow
  <2>1. hangFile' = launch /\ stuck' = stuck \cup {launch} /\ marker' = marker /\ found' = Nobody /\ launch' = launch
    BY <1>4 DEF RestartTooSlow, Ends
  <2> QED
    BY <1>0, <2>1 DEF MarkerInv, Guilty, Optional
<1>5. CASE ExitOverdue
  <2>1. /\ hangFile' = launch /\ stuck' = stuck \cup {launch} /\ marker' = marker /\ found' = found /\ launch' = launch
        /\ fate' = fate /\ Alive'
    BY <1>5 DEF ExitOverdue, Alive
  <2> QED
    BY <1>0, <2>1 DEF MarkerInv, Guilty, Optional
<1>6. CASE Marks \/ ExitEnds \/ ExitBegins \/ Applies \/ (\E u \in Updaters : Updates(u))
  <2>1. hangFile' = hangFile /\ marker' \in {marker, Nobody, launch} /\ found' \in {Nobody, found} /\ launch' = launch /\ Alive'
    BY <1>6 DEF Marks, ExitEnds, ExitBegins, Applies, disk, process, Alive, Updates, UpdateBegins, Fetches, FetchesNothing,
                BeginsAgain, HandsOver, Installs, InstallFails, GivesUp, MarksAgain, Working
  <2> QED
    BY <1>0, <1>s, <2>1 DEF MarkerInv, Optional
<1>7. CASE UNCHANGED <<launch, phase, found, hangFile, marker>>
  BY <1>0, <1>s, <1>7 DEF MarkerInv, Optional, Alive
<1> QED
  BY <1>1, <1>2, <1>3, <1>4, <1>5, <1>6, <1>7
     DEF Next, vars, disk, process, Flush, Records, Panics, HookWrites, ReportsLaunch, SavesSetting, AgreesToTerms,
         Declines, OneOffBegins, OneOffPushes, OneOffSends, OneOffEnds

LEMMA FateStep == Types /\ FilesInv /\ FateInv /\ [Next]_vars => FateInv'
<1> SUFFICES ASSUME Types, FilesInv, FateInv, [Next]_vars PROVE FateInv'
  OBVIOUS
<1>0. /\ launch \in Nat /\ (Alive => launch \in Launch) /\ launch # Nobody
      /\ \A l \in Launch : l \in Nat
      /\ fate \in [Launch -> {"none", "unstarted", "clean", "killed", "handed", "overrun"}]
  BY LaunchesAssumption DEF Types, ProcessTypes, OutcomeTypes, Launch
<1>1. CASE Starts
  <2>1. /\ launch' = launch + 1 /\ launch' \in Launch /\ phase' = "made" /\ UNCHANGED <<fate, stuck, at>> /\ phase = "down"
    BY <1>0, <1>1, LaunchesAssumption DEF Starts, outcome, gate, Launch
  <2> QED
    BY <1>0, <2>1 DEF FateInv, Working, Up, Handing
<1>2. CASE FindsIncident \/ Applies
  <2>1. phase \in {"made", "found"} /\ phase' \in {"found", "applied"} /\ UNCHANGED <<launch, fate, stuck, at>>
    BY <1>2 DEF FindsIncident, Applies, outcome, gate
  <2> QED
    BY <2>1 DEF FateInv, Working, Up, Handing, Alive
<1>3. CASE Marks
  <2>1. phase = "applied" /\ phase' = "running" /\ marker' = launch /\ UNCHANGED <<launch, fate, stuck, at>>
    BY <1>3 DEF Marks, outcome, gate
  <2> QED
    BY <2>1 DEF FateInv, Working, Up, Handing, Alive
<1>4. CASE ExitBegins \/ ExitOverdue \/ ExitEnds
  <2>1. /\ Up /\ Working' /\ UNCHANGED <<launch, fate, at>> /\ stuck' \in {stuck, stuck \cup {launch}}
        /\ \/ phase' # "leaving" /\ marker' = marker
           \/ phase' = "leaving" /\ marker' = Nobody
    BY <1>4 DEF ExitBegins, ExitOverdue, ExitEnds, outcome, gate, disk, Working, Up
  <2> QED
    BY <1>0, <2>1 DEF FateInv, Working, Up, Handing, Alive
<1>5. CASE Dies \/ RestartTooSlow
  <2>1. PICK how : Ends(how)
    BY <1>5 DEF Dies, RestartTooSlow
  <2>2. stuck' \in {stuck, stuck \cup {launch}}
    BY <1>5 DEF Dies, RestartTooSlow
  <2>3. phase' = "down" /\ launch' = launch /\ at' = [u \in Updaters |-> "idle"]
    BY <2>1 DEF Ends
  <2>4. \A l \in Launch : l > launch => fate'[l] = fate[l] /\ (l \in stuck' => l \in stuck)
    BY <1>0, <2>1, <2>2 DEF Ends
  <2> QED
    BY <1>0, <2>3, <2>4 DEF FateInv, Working, Up, Handing, Alive, Updaters
<1>6. CASE \E u \in Updaters : Updates(u)
  <2>1. PICK u \in Updaters : Updates(u)
    BY <1>6
  <2>2. Working /\ Alive /\ launch \in Launch /\ launch' = launch /\ phase' = phase /\ stuck' = stuck
    BY <1>0, <2>1 DEF Updates, UpdateBegins, Fetches, FetchesNothing, BeginsAgain, HandsOver, Installs,
              InstallFails, GivesUp, MarksAgain, outcome, process, Working, Alive
  <2>3. \/ fate' = fate
        \/ fate' = [fate EXCEPT ![launch] = "overrun"]
    BY <2>1 DEF Updates, UpdateBegins, Fetches, FetchesNothing, BeginsAgain, HandsOver, Installs,
              InstallFails, GivesUp, MarksAgain, Overrun, outcome
  <2>4. /\ \A l \in Launch : l > launch => fate'[l] = fate[l]
        /\ fate'[launch] \in {fate[launch], "overrun"}
    BY <1>0, <2>2, <2>3
  <2> DEFINE Told3 == Working' /\ marker' = launch' => (phase' # "leaving" /\ ~Handing') \/ fate'[launch'] = "overrun"
             Told4 == Up' /\ ~Handing' => marker' = launch' \/ fate'[launch'] = "overrun"
  <2>5. Told3 /\ Told4
    <3>1. ASSUME UNCHANGED <<marker, fate>>, Handing' <=> Handing PROVE Told3 /\ Told4
      BY <2>2, <3>1 DEF FateInv, Working, Up
    <3>2. ASSUME fate' = [fate EXCEPT ![launch] = "overrun"] PROVE Told3 /\ Told4
      BY <1>0, <2>2, <3>2
    <3>3. CASE UpdateBegins(u) \/ Fetches(u) \/ FetchesNothing(u) \/ BeginsAgain(u) \/ Installs(u)
      <4>1. UNCHANGED <<marker, fate>>
        BY <3>3 DEF UpdateBegins, Fetches, FetchesNothing, BeginsAgain, Installs, disk, outcome
      <4>2. PICK step : at' = [at EXCEPT ![u] = step] /\ step # "handing" /\ at[u] # "handing"
        BY <3>3 DEF UpdateBegins, Fetches, FetchesNothing, BeginsAgain, Installs, SetsOut
      <4>3. Handing' <=> Handing
        BY <4>2 DEF Handing, Types, GateTypes
      <4> QED
        BY <3>1, <4>1, <4>3
    <3>4. CASE HandsOver(u)
      <4>1. marker' = Nobody /\ at' = [at EXCEPT ![u] = "handing"]
        BY <3>4 DEF HandsOver, SetsOut
      <4>2. Handing'
        BY <4>1 DEF Handing, Types, GateTypes
      <4> QED
        BY <1>0, <2>2, <4>1, <4>2
    <3>5. CASE InstallFails(u)
      <4>1. at' = [at EXCEPT ![u] = "idle"]
        BY <3>5 DEF InstallFails, SetsOut
      <4>2. \A v \in Updaters : at'[v] = "handing" => at[v] = "handing" /\ v # u
        BY <4>1 DEF Types, GateTypes
      <4>3. CASE MarksAgain
        <5>1. CASE phase = "leaving" \/ \E v \in Updaters : at[v] = "handing" /\ at'[v] = "handing"
          BY <3>2, <4>3, <5>1 DEF MarksAgain, Overrun
        <5>2. CASE ~(phase = "leaving" \/ \E v \in Updaters : at[v] = "handing" /\ at'[v] = "handing")
          BY <2>2, <4>2, <4>3, <5>2 DEF MarksAgain, Handing
        <5> QED
          BY <5>1, <5>2
      <4>4. CASE ~MarksAgain
        <5>1. UNCHANGED marker /\ IF at[u] = "handing" THEN Overrun ELSE UNCHANGED fate
          BY <3>5, <4>4 DEF InstallFails, disk
        <5>2. CASE at[u] = "handing"
          BY <3>2, <5>1, <5>2 DEF Overrun
        <5>3. CASE at[u] # "handing"
          <6>1. Handing' <=> Handing
            BY <4>1, <5>3 DEF Handing, Types, GateTypes
          <6> QED
            BY <3>1, <5>1, <5>3, <6>1
        <5> QED
          BY <5>2, <5>3
      <4> QED
        BY <4>3, <4>4
    <3>6. CASE GivesUp(u)
      <4>1. at' = at /\ MarksAgain
        BY <3>6 DEF GivesUp
      <4>2. CASE phase = "leaving" \/ \E v \in Updaters : at[v] = "handing" /\ at'[v] = "handing"
        BY <3>2, <4>1, <4>2 DEF MarksAgain, Overrun
      <4>3. CASE ~(phase = "leaving" \/ \E v \in Updaters : at[v] = "handing" /\ at'[v] = "handing")
        BY <2>2, <4>1, <4>3 DEF MarksAgain, Handing
      <4> QED
        BY <4>2, <4>3
    <3> QED
      BY <2>1, <3>3, <3>4, <3>5, <3>6 DEF Updates
  <2> QED
    BY <1>0, <2>2, <2>4, <2>5 DEF FateInv, Working, Alive
<1>7. CASE UNCHANGED <<launch, phase, fate, stuck, at, marker>>
  BY <1>7 DEF FateInv, Working, Up, Handing, Alive
<1> QED
  BY <1>1, <1>2, <1>3, <1>4, <1>5, <1>6, <1>7
     DEF Next, vars, disk, process, gate, outcome, Flush, Records, Panics, HookWrites, ReportsLaunch, SavesSetting, AgreesToTerms,
         Declines, OneOffBegins, OneOffPushes, OneOffSends, OneOffEnds

LEMMA NoticeStep ==
  Types /\ PlaceInv /\ FateInv /\ NoticeInv /\ [Next]_vars => NoticeInv'
<1> SUFFICES ASSUME Types, PlaceInv, FateInv, NoticeInv, [Next]_vars PROVE NoticeInv'
  OBVIOUS
<1>0. /\ launch \in Nat /\ (Alive => launch \in Launch) /\ \A l \in Launch : l \in Nat /\ l # Nobody
      /\ fate \in [Launch -> {"none", "unstarted", "clean", "killed", "handed", "overrun"}]
      /\ stuck \subseteq Launch
  BY LaunchesAssumption, NothingIsNoLaunch DEF Types, ProcessTypes, OutcomeTypes
<1>1. CASE Starts
  <2>1. /\ launch' = launch + 1 /\ phase' = "made" /\ UNCHANGED <<fate, stuck, hangFile, marker>> /\ phase = "down"
    BY <1>1 DEF Starts, outcome
  <2>2. launch' \notin stuck'
    BY <1>0, <2>1 DEF FateInv
  <2>3. \A l \in Launch : l = launch' - 1 /\ Bad(l)' => LeftBehind(l)'
    BY <1>0, <2>1 DEF NoticeInv, Bad, LeftBehind
  <2> QED
    BY <2>1, <2>2, <2>3 DEF NoticeInv
<1>2. CASE FindsIncident
  <2>1. /\ phase = "made" /\ phase' = "found" /\ UNCHANGED <<launch, fate, stuck>> /\ Alive
        /\ found' = IF hangFile # Nobody THEN hangFile ELSE marker
    BY <1>2 DEF FindsIncident, outcome, Alive
  <2>2. launch \notin stuck
    BY <2>1 DEF NoticeInv, PlaceInv, FilesInv, Early
  <2> QED
    BY <1>0, <2>1, <2>2 DEF NoticeInv, Bad, LeftBehind
<1>3. CASE Applies
  <2>1. /\ phase = "found" /\ phase' = "applied" /\ UNCHANGED <<launch, fate, stuck, hangFile>>
        /\ queue = {} /\ found \in Optional(Launch)
    BY <1>3 DEF Applies, outcome, PlaceInv, EventsInv, Working, Types, ProcessTypes, Incident
  <2>2. ASSUME NEW l \in Launch, found = l PROVE asking' = l \/ Queued(l)'
    <3>1. \/ Push({Event(l, Leave)}) /\ enabled
          \/ asking' = l
      BY <1>0, <1>3, <2>2 DEF Applies
    <3>2. CASE Push({Event(l, Leave)}) /\ enabled
      <4>1. Event(l, Leave) \in queue'
        BY <3>2 DEF Push
      <4> QED
        BY <4>1, EventIs DEF Queued
    <3> QED
      BY <3>1, <3>2
  <2> QED
    BY <2>1, <2>2 DEF NoticeInv, Bad
<1>4. CASE Marks \/ ExitBegins \/ ExitEnds \/ ExitOverdue \/ \E u \in Updaters : Updates(u)
  <2>1. /\ phase' \in {"running", "exiting", "overdue", "leaving"}
        /\ launch' = launch
        /\ UNCHANGED <<hangFile, stuck>> \/ hangFile' = launch
    BY <1>4 DEF Marks, ExitBegins, ExitEnds, ExitOverdue, Updates, UpdateBegins, Fetches, FetchesNothing,
                BeginsAgain, HandsOver, Installs, InstallFails, GivesUp, MarksAgain, Working, process, disk, outcome
  <2> QED
    BY <2>1 DEF NoticeInv
<1>5. CASE RestartTooSlow
  <2>1. phase' = "down" /\ launch' = launch /\ hangFile' = launch
    BY <1>5 DEF RestartTooSlow, Ends
  <2> QED
    BY <2>1 DEF NoticeInv, LeftBehind
<1>6. CASE Dies
  <2>1. phase' = "down" /\ Alive /\ launch \in Launch /\ UNCHANGED <<launch, hangFile, marker, stuck>>
    BY <1>0, <1>6 DEF Dies, Ends, disk
  <2>2. ASSUME fate'[launch] = "killed" PROVE LeftBehind(launch)'
    <3>1. PICK how \in {"clean", "handed", "killed", "unstarted"} :
            Ends(how) /\ (how = "killed" => Up /\ ~Handing)
      <4>1. CASE phase = "leaving"
        <5>1. Ends("clean")
          BY <1>6, <4>1 DEF Dies, Up
        <5> QED
          BY <5>1
      <4>2. CASE phase # "leaving" /\ Handing
        <5>1. Ends("handed")
          BY <1>6, <4>2 DEF Dies
        <5> QED
          BY <5>1
      <4>3. CASE phase # "leaving" /\ ~Handing /\ Up
        BY <1>6, <4>3 DEF Dies, Handing
      <4>4. CASE phase # "leaving" /\ ~Handing /\ ~Up
        BY <1>6, <4>4 DEF Dies, Handing
      <4> QED
        BY <4>1, <4>2, <4>3, <4>4
    <3>2. fate[launch] = "none" /\ how = "killed"
      BY <1>0, <2>1, <2>2, <3>1 DEF Ends, FateInv
    <3>3. marker = launch /\ hangFile \in {Nobody, launch}
      BY <3>1, <3>2 DEF FateInv, PlaceInv, FilesInv, Up, Working
    <3> QED
      BY <2>1, <3>3 DEF LeftBehind
  <2>3. launch \in stuck => LeftBehind(launch)'
    BY <2>1 DEF NoticeInv, LeftBehind
  <2> QED
    BY <2>1, <2>2, <2>3 DEF NoticeInv, Bad, LeftBehind
<1>7. CASE UNCHANGED <<launch, phase, found, fate, stuck, hangFile, marker>> /\ (phase = "applied" => UNCHANGED <<asking, queue>>)
  BY <1>7 DEF NoticeInv, Bad, LeftBehind, Queued
<1> QED
  BY <1>1, <1>2, <1>3, <1>4, <1>5, <1>6, <1>7
     DEF Next, vars, disk, process, reporter, outcome, Flush, Records, Panics, HookWrites, ReportsLaunch, SavesSetting, AgreesToTerms,
         Declines, OneOffBegins, OneOffPushes, OneOffSends, OneOffEnds, Up

LEMMA TellStep ==
  Types /\ PlaceInv /\ OnceInv /\ FateInv /\ MarkerInv /\ TellInv /\ [Next]_vars => TellInv'
<1> SUFFICES ASSUME Types, PlaceInv, OnceInv, FateInv, MarkerInv, TellInv, [Next]_vars PROVE TellInv'
  OBVIOUS
<1>0. /\ \A l \in Launch : Guilty(l) => Guilty(l)'
      /\ waiting \in Optional(Launch) /\ asking \in {Nobody, waiting} /\ found \in Optional(Launch)
      /\ Nobody \notin Launch
  BY GuiltStays, NothingIsNoLaunch DEF Types, DiskTypes, ProcessTypes, Incident, PlaceInv, AskedInv
<1>1. ASSUME waiting' \in {waiting, Nobody},
             \A l \in Launch : (Queued(l)' => Queued(l)) /\ (Sending(l)' => Sending(l))
                                /\ (answers'[l] > 0 => answers[l] > 0 \/ Queued(l) \/ waiting = l)
      PROVE  TellInv'
  BY <1>0, <1>1 DEF TellInv, Optional
<1>2. CASE Applies
  <2>1. /\ \A l \in Launch : ~Queued(l) /\ ~Sending(l)' /\ answers' = answers
    BY <1>2 DEF Applies, PlaceInv, EventsInv, Working, Queued, Sending, outcome
  <2>2. \A l \in {found, waiting} : l # Nobody => Guilty(l)
    BY DEF MarkerInv, TellInv
  <2>3. PICK incident \in {found, waiting} :
            \/ UNCHANGED <<waiting, queue>>
            \/ waiting' = incident /\ UNCHANGED queue
            \/ waiting' = Nobody /\ Push({Event(incident, Leave)})
    BY <1>2 DEF Applies
  <2>4. \A l \in Launch : Queued(l)' => l = incident
    BY <2>1, <2>3, EventIs DEF Queued, Push
  <2>5. waiting' \in {waiting, Nobody, incident}
    BY <2>3
  <2> QED
    BY <1>0, <2>1, <2>2, <2>4, <2>5 DEF TellInv, Optional
<1>3. CASE Flush \/ OneOffSends
  <2>1. Sends /\ waiting' = waiting /\ (oneOff' = oneOff \/ oneOff'.step # "on")
    BY <1>3, OneOffGoes DEF Flush, OneOffSends, disk
  <2>2. \A l \in Launch : (Queued(l)' => Queued(l)) /\ (Sending(l)' => Sending(l))
    BY <2>1 DEF Queued, Sending, Sends
  <2>3. \A l \in Launch : answers'[l] > 0 => answers[l] > 0 \/ Queued(l)
    BY <2>1, ToldHow DEF Sends, Types, OutcomeTypes
  <2> QED
    BY <1>1, <2>1, <2>2, <2>3
<1>4. CASE Records \/ ReportsLaunch
  <2>1. PICK events : Push(events) /\ \A e \in events : e.of = Nobody
    BY <1>4, EventIs DEF Records, ReportsLaunch, PlaceInv, EventsInv
  <2>2. UNCHANGED <<waiting, oneOff, answers>>
    BY <1>4 DEF Records, ReportsLaunch, disk, outcome
  <2>3. \A l \in Launch : (Queued(l)' => Queued(l)) /\ (Sending(l)' => Sending(l))
    BY <1>0, <2>1, <2>2 DEF Queued, Sending, Push
  <2> QED
    BY <1>1, <2>2, <2>3
<1>5. CASE Declines
  <2>1. /\ waiting' = Nobody /\ UNCHANGED <<queue, oneOff>> /\ asking = waiting
        /\ answers' = [answers EXCEPT ![waiting] = @ + 1]
    BY <1>0, <1>5 DEF Declines, TakesPending
  <2>2. \A l \in Launch : l # waiting => answers'[l] = answers[l]
    BY <2>1 DEF Types, OutcomeTypes
  <2> QED
    BY <1>1, <2>1, <2>2 DEF Queued, Sending
<1>6. CASE OneOffBegins
  <2>1. waiting' = Nobody /\ UNCHANGED <<queue, answers>> /\ asking = waiting /\ asking # Nobody
    BY <1>0, <1>6 DEF OneOffBegins, TakesPending, TurnsOn, outcome
  <2>2. \A l \in Launch : Sending(l)' => l = waiting
    BY <1>6, <2>1, NoOneOffIs DEF OneOffBegins, Sending
  <2>3. \A l \in Launch : Queued(l)' => Queued(l)
    BY <2>1 DEF Queued
  <2> QED
    BY <1>0, <2>1, <2>2, <2>3 DEF TellInv, Optional
<1>7. CASE OneOffPushes
  <2>1. Push({Event(oneOff.of, TRUE)}) /\ UNCHANGED <<waiting, answers>> /\ oneOff.step = "on"
    BY <1>7 DEF OneOffPushes, disk, outcome
  <2>2. \A l \in Launch : ~Sending(l)'
    BY <1>7, OneOffGoes DEF OneOffPushes, Sending
  <2>4. PICK event : event.of = oneOff.of /\ queue' \subseteq queue \cup {event}
    BY <2>1, EventIs DEF Push
  <2>3. \A l \in Launch : Queued(l)' => Queued(l) \/ Sending(l)
    BY <2>1, <2>4 DEF Queued, Sending
  <2> QED
    BY <1>0, <2>1, <2>2, <2>3 DEF TellInv, Optional
<1>8. CASE UNCHANGED <<waiting, answers>> /\ queue' \subseteq queue /\ oneOff' \in {oneOff, NoOneOff}
  <2>1. \A l \in Launch : (Queued(l)' => Queued(l)) /\ (Sending(l)' => Sending(l))
    BY <1>8, NoOneOffIs DEF Queued, Sending
  <2> QED
    BY <1>1, <1>8, <2>1
<1>9. CASE Starts \/ SavesSetting \/ AgreesToTerms \/ OneOffEnds \/ Dies \/ RestartTooSlow
  BY <1>8, <1>9 DEF Starts, SavesSetting, AgreesToTerms, OneOffEnds, Dies, RestartTooSlow, Ends, Follow,
        TurnsOn, TurnsOff, disk, outcome
<1>10. CASE \/ FindsIncident \/ Marks \/ ExitBegins \/ ExitOverdue \/ ExitEnds
            \/ Panics \/ HookWrites \/ UNCHANGED vars
  BY <1>8, <1>10 DEF FindsIncident, Marks, ExitBegins, ExitOverdue, ExitEnds, Panics, HookWrites, vars, disk, reporter, outcome
<1>11. CASE \E u \in Updaters : Updates(u)
  BY <1>8, <1>11 DEF Updates, UpdateBegins, Fetches, FetchesNothing, BeginsAgain, HandsOver,
                Installs, InstallFails, GivesUp, MarksAgain, disk, reporter, outcome
<1> QED
  BY <1>2, <1>3, <1>4, <1>5, <1>6, <1>7, <1>9, <1>10, <1>11 DEF Next

IncidentsInv == PlaceInv /\ OnceInv /\ MarkerInv /\ FateInv /\ NoticeInv /\ TellInv

LEMMA IncidentsInit == Init => IncidentsInv
<1> SUFFICES ASSUME Init PROVE IncidentsInv
  OBVIOUS
<1> USE LaunchesAssumption DEF Init
<1>1. PlaceInv
  BY NoOneOffIs DEF PlaceInv, FilesInv, AskedInv, EventsInv, Optional, Working, Early
<1>2. OnceInv
  BY NoOneOffIs DEF OnceInv, Queued, Sending
<1>3. MarkerInv /\ TellInv
  BY NoOneOffIs DEF MarkerInv, TellInv, Queued, Sending
<1>4. FateInv
  BY DEF FateInv, Working, Up, Alive, Handing, Updaters, Launch
<1>5. NoticeInv
  BY DEF NoticeInv, Bad, Launch
<1> QED
  BY <1>1, <1>2, <1>3, <1>4, <1>5 DEF IncidentsInv

LEMMA IncidentsAlways == Spec => [](Types /\ IncidentsInv)
<1>1. PlaceInv /\ Types /\ [Next]_vars => PlaceInv'
  BY FilesStep, AskedStep, EventsStep DEF PlaceInv
<1>2. Types /\ IncidentsInv /\ [Next]_vars => IncidentsInv'
  BY <1>1, OnceStep, MarkerStep, FateStep, NoticeStep, TellStep DEF IncidentsInv, PlaceInv
<1> QED
  BY <1>2, IncidentsInit, TypesAlways, PTL DEF Spec

\* An incident is sent or thrown away at most once, over any number of launches
\* and whatever ends them (usage.rs, take_pending; watchdog.rs).
THEOREM EachReportedOnce == Spec => []ReportedOnce
<1>1. Types /\ IncidentsInv => ReportedOnce
  BY DEF Types, OutcomeTypes, IncidentsInv, OnceInv, ReportedOnce
<1> QED
  BY <1>1, IncidentsAlways, PTL

\* Nothing but a launch that was killed or stuck is taken for an incident, and
\* the next launch notices every one that was (watchdog.rs, previous_incident).
THEOREM NoIncidentIsFalse == Spec => []IncidentsAreTrue
<1>1. ASSUME Types, IncidentsInv PROVE NoFalseAlarm
  <2> SUFFICES ASSUME NEW l \in Incidents \ {Nobody} PROVE Guilty(l)
    BY DEF NoFalseAlarm, Guilty
  <2>1. l \in Launch
    <3>1. {waiting, asking} \subseteq Optional(Launch)
      BY <1>1 DEF Types, DiskTypes, ReporterTypes, Incident
    <3>2. \A e \in queue : e.of \in Optional(Launch)
      BY <1>1 DEF Types, ReporterTypes, Events
    <3> QED
      BY <3>1, <3>2 DEF Incidents, Optional
  <2>2. l = waiting \/ Queued(l) \/ answers[l] > 0
    BY <1>1, <2>1 DEF Incidents, Queued, IncidentsInv, PlaceInv, AskedInv
  <2> QED
    BY <1>1, <2>1, <2>2 DEF IncidentsInv, TellInv
<1>2. ASSUME Types, IncidentsInv PROVE KilledIsNoticed
  <2> SUFFICES ASSUME phase = "applied", launch > 1,
                      fate[launch - 1] = "killed" \/ launch - 1 \in stuck
               PROVE  asking = launch - 1 \/ Told(launch - 1, queue) > 0
    BY DEF KilledIsNoticed
  <2>1. launch - 1 \in Launch
    BY <1>2, LaunchesAssumption DEF Types, ProcessTypes, Launch
  <2>2. asking = launch - 1 \/ Queued(launch - 1)
    BY <1>2, <2>1 DEF IncidentsInv, NoticeInv, Bad
  <2> QED
    BY <1>2, <2>1, <2>2, ToldHow DEF IncidentsInv
<1> QED
  BY <1>1, <1>2, IncidentsAlways, PTL DEF IncidentsAreTrue
=============================================================================
