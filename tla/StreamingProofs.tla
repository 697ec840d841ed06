--------------------------- MODULE StreamingProofs ---------------------------
(***************************************************************************)
(* What module Streaming promises, proved for any number of sessions,      *)
(* changes and devices.  Two invariants, inductive together, carry it: Inv *)
(* holds always and says who has the sender, what was told and where a     *)
(* setting is on its way to a session; TimelyInv holds as long as no       *)
(* thread has outlasted the wait of a stop, and says that then one session *)
(* at a time has the flag, the list of problems and the published link.    *)
(***************************************************************************)
EXTENDS Streaming, SequenceTheorems, TLAPS

Live == {"opening", "connecting", "running", "failing", "closing"}
NotYet == {"starting", "holding"}

\* A session that starts is not active, and is told no change: it reads the
\* settings itself.  One that is active has the sender.
OneSender ==
  /\ control \in NotYet => ~active /\ started \in Sessions /\ sender = started /\ stage[started] = "none"
  /\ active => started \in Sessions
  /\ active /\ control = "idle" => sender = started /\ stage[started] # "none"
  /\ control = "stopping" => sender = Nothing
Untouched ==
  /\ \A n \in Sessions : n > started => stage[n] = "none"
  /\ \A n \in Sessions : stage[n] = "none" => queue[n] = <<>>
HeldOff == control = "holding" => change = "none" /\ slot[started].wanted = saved

\* Only the session started last is live, with the flag set.
OneLive == \A n \in Sessions : stage[n] \in Live => n = started /\ active
\* A stop is under way only for a session that was told.
StopIsTold ==
  /\ control = "stopping" => started \in told
  /\ \A n \in Sessions : \A i \in DOMAIN queue[n] : queue[n][i] = Stop => n \in told
OneLink == published # Nothing => published = started /\ stage[started] \in {"running", "closing"}
NoProblemYet ==
  /\ control \in NotYet => problem = Nothing
  /\ \A n \in Sessions : stage[n] = "opening" /\ n \notin told => problem = Nothing
\* An open that is out is of the device wanted; none is out before the loop.
Wants ==
  /\ \A n \in Sessions : stage[n] \in {"none", "opening", "connecting"} => slot[n].opening = NotOpening
  /\ \A n \in Sessions : stage[n] \in Live => slot[n].wanted \in Devices
  /\ \A n \in Sessions : stage[n] \in Live /\ slot[n].opening # NotOpening =>
       slot[n].opening.device = slot[n].wanted /\ slot[n].opening.result \in {Nothing, Silent, slot[n].wanted}
Inv == TypeOK /\ OneSender /\ Untouched /\ HeldOff /\ SavedReachesSession /\ StopIsTold /\ Wants

InUse(n) ==
  IF problem = Nothing THEN slot[n].ring = slot[n].wanted
  ELSE problem = slot[n].wanted /\ slot[n].ring = Silent
HasOrTells ==
  \A n \in Sessions :
    stage[n] \in {"connecting", "running"} /\ n \notin told /\ slot[n].opening = NotOpening => InUse(n)
Timely == OneLive /\ OneLink /\ NoProblemYet /\ HasOrTells
TimelyInv == outlived = {} => Timely

Stages == {"none", "opening", "connecting", "running", "failing", "closing", "ended"}

\* What the updates of the actions do to the records they update.
LEMMA StageGoes ==
  ASSUME TypeOK, NEW n \in Sessions, NEW to \in Stages, Goes(n, to)
  PROVE  /\ stage' \in [Sessions -> Stages] /\ stage'[n] = to
         /\ \A k \in Sessions \ {n} : stage'[k] = stage[k]
  BY DEF TypeOK, Stages, Goes

\* Only the ring of one session's input is set.
LEMMA RingSet ==
  ASSUME TypeOK, NEW n \in Sessions, NEW r \in Devices \cup {Silent}, slot' = [slot EXCEPT ![n].ring = r]
  PROVE  /\ slot' \in [Sessions -> Input]
         /\ slot'[n].ring = r /\ slot'[n].wanted = slot[n].wanted /\ slot'[n].opening = slot[n].opening
         /\ \A k \in Sessions \ {n} : slot'[k] = slot[k]
  BY DEF TypeOK, Input

\* DeviceSlot::switch: an open of the new device is out.
LEMMA SlotSwitches ==
  ASSUME TypeOK, NEW n \in Sessions, NEW d \in Devices, slot' = [slot EXCEPT ![n] = Switched(@, d)]
  PROVE  /\ slot' \in [Sessions -> Input]
         /\ slot'[n].wanted = d /\ slot'[n].opening = [device |-> d, result |-> Nothing]
         /\ slot'[n].ring = slot[n].ring
         /\ \A k \in Sessions \ {n} : slot'[k] = slot[k]
  BY DEF TypeOK, Input, Switched

\* DeviceSlot::poll: the result is taken, and no open is out.
LEMMA SlotPolls ==
  ASSUME TypeOK, NEW n \in Sessions, slot[n].opening.result # Nothing,
         slot' = [slot EXCEPT ![n].opening = NotOpening, ![n].ring = slot[n].opening.result]
  PROVE  /\ slot' \in [Sessions -> Input]
         /\ slot'[n].wanted = slot[n].wanted /\ slot'[n].opening = NotOpening
         /\ slot'[n].ring = slot[n].opening.result
         /\ \A k \in Sessions \ {n} : slot'[k] = slot[k]
  BY DEF TypeOK, Input, NotOpening

\* A thread that opens a device leaves the result, and the old stream is stopped.
LEMMA SlotFinishes ==
  ASSUME TypeOK, NEW n \in Sessions, NEW r \in Devices \cup {Silent},
         slot' = [slot EXCEPT ![n].ring = Silent, ![n].opening.result = r]
  PROVE  /\ slot' \in [Sessions -> Input]
         /\ slot'[n].wanted = slot[n].wanted /\ slot'[n].ring = Silent
         /\ slot'[n].opening = [device |-> slot[n].opening.device, result |-> r]
         /\ \A k \in Sessions \ {n} : slot'[k] = slot[k]
  BY DEF TypeOK, Input

\* A step of session n's thread leaves the other sessions alone, and what
\* commands and settings go by.
OnlyThread(n) ==
  /\ stage' \in [Sessions -> Stages] /\ slot' \in [Sessions -> Input]
  /\ queue' \in [Sessions -> Seq(Devices \cup {Stop})]
  /\ \A k \in Sessions \ {n} : stage'[k] = stage[k] /\ slot'[k] = slot[k] /\ queue'[k] = queue[k]
  /\ UNCHANGED <<sender, control, started, told, outlived, saved, change, changes>>

\* What each step of a thread changes.
LEMMA OpensDevicesDoes ==
  ASSUME Inv, NEW n \in Sessions, OpensDevices(n)
  PROVE  /\ OnlyThread(n) /\ UNCHANGED <<active, queue, published>>
         /\ stage[n] = "opening" /\ stage'[n] \in {"connecting", "failing"}
         /\ slot[n].wanted \in Devices
         /\ slot'[n].wanted = slot[n].wanted /\ slot'[n].opening = slot[n].opening
         /\ \/ slot'[n].ring = slot[n].wanted /\ problem' = problem
            \/ slot'[n].ring = Silent /\ problem' = slot[n].wanted
<1>1. stage[n] = "opening" /\ slot[n].wanted \in Devices
  BY DEF OpensDevices, Inv, Wants, Live
<1>2. PICK to \in {"connecting", "failing"} : Goes(n, to)
  BY DEF OpensDevices
<1>3. /\ stage' \in [Sessions -> Stages] /\ stage'[n] = to
      /\ \A k \in Sessions \ {n} : stage'[k] = stage[k]
  BY <1>2, StageGoes DEF Stages, Inv
<1>4. PICK opened \in BOOLEAN :
        /\ slot' = [slot EXCEPT ![n].ring = IF opened THEN slot[n].wanted ELSE Silent]
        /\ problem' = IF opened THEN problem ELSE slot[n].wanted
  BY DEF OpensDevices
<1>5. /\ slot' \in [Sessions -> Input]
      /\ slot'[n].ring = (IF opened THEN slot[n].wanted ELSE Silent)
      /\ slot'[n].wanted = slot[n].wanted /\ slot'[n].opening = slot[n].opening
      /\ \A k \in Sessions \ {n} : slot'[k] = slot[k]
  <2>1. (IF opened THEN slot[n].wanted ELSE Silent) \in Devices \cup {Silent}
    BY <1>1
  <2> QED
    BY <1>4, <2>1, RingSet DEF Inv
<1> QED
  BY <1>1, <1>2, <1>3, <1>4, <1>5 DEF OpensDevices, OnlyThread, Inv, TypeOK, asked, settings

\* A session that connects publishes its link.
LEMMA ConnectsDoes ==
  ASSUME Inv, NEW n \in Sessions, Connects(n)
  PROVE  /\ OnlyThread(n) /\ UNCHANGED <<queue, slot, problem>>
         /\ stage[n] \in {"connecting"} /\ stage'[n] = "running"
         /\ published' = n /\ UNCHANGED active
<1>1. /\ stage' \in [Sessions -> Stages] /\ stage'[n] = "running"
      /\ \A k \in Sessions \ {n} : stage'[k] = stage[k]
  BY StageGoes DEF Connects, Stages, Inv
<1> QED
  BY <1>1 DEF Connects, OnlyThread, Inv, TypeOK, asked, settings

\* A session that cannot connect closes.
LEMMA ConnectFailsDoes ==
  ASSUME Inv, NEW n \in Sessions, ConnectFails(n)
  PROVE  /\ OnlyThread(n) /\ UNCHANGED <<queue, slot, problem>>
         /\ stage[n] \in {"connecting"} /\ stage'[n] = "closing"
         /\ UNCHANGED <<active, published>>
<1>1. /\ stage' \in [Sessions -> Stages] /\ stage'[n] = "closing"
      /\ \A k \in Sessions \ {n} : stage'[k] = stage[k]
  BY StageGoes DEF ConnectFails, Stages, Inv
<1> QED
  BY <1>1 DEF ConnectFails, OnlyThread, Inv, TypeOK, asked, settings

\* A loop ends at a Stop, or when nobody has its sender.
LEMMA TurnStopsDoes ==
  ASSUME Inv, NEW n \in Sessions, TurnStops(n)
  PROVE  /\ OnlyThread(n) /\ UNCHANGED <<queue, slot, problem>>
         /\ stage[n] \in {"running"} /\ stage'[n] = "closing"
         /\ IF queue[n] = <<>> THEN sender # n ELSE Head(queue[n]) = Stop
         /\ UNCHANGED <<active, published>>
<1>1. /\ stage' \in [Sessions -> Stages] /\ stage'[n] = "closing"
      /\ \A k \in Sessions \ {n} : stage'[k] = stage[k]
  BY StageGoes DEF TurnStops, Stages, Inv
<1> QED
  BY <1>1 DEF TurnStops, OnlyThread, Inv, TypeOK, asked, settings

\* A loop ends when the flag is off.
LEMMA TurnIsLastDoes ==
  ASSUME Inv, NEW n \in Sessions, TurnIsLast(n)
  PROVE  /\ OnlyThread(n) /\ UNCHANGED <<queue, slot, problem>>
         /\ stage[n] \in {"running"} /\ stage'[n] = "closing"
         /\ ~active
         /\ UNCHANGED <<active, published>>
<1>1. /\ stage' \in [Sessions -> Stages] /\ stage'[n] = "closing"
      /\ \A k \in Sessions \ {n} : stage'[k] = stage[k]
  BY StageGoes DEF TurnIsLast, Stages, Inv
<1> QED
  BY <1>1 DEF TurnIsLast, OnlyThread, Inv, TypeOK, asked, settings

\* A thread that ends clears the flag, and takes its link back.
LEMMA EndsDoes ==
  ASSUME Inv, NEW n \in Sessions, Ends(n)
  PROVE  /\ OnlyThread(n) /\ UNCHANGED <<queue, slot, problem>>
         /\ stage[n] \in {"closing", "failing"} /\ stage'[n] = "ended"
         /\ active' = FALSE
         /\ published' = IF stage[n] = "closing" THEN Nothing ELSE published
<1>1. /\ stage' \in [Sessions -> Stages] /\ stage'[n] = "ended"
      /\ \A k \in Sessions \ {n} : stage'[k] = stage[k]
  BY StageGoes DEF Ends, Stages, Inv
<1> QED
  BY <1>1 DEF Ends, OnlyThread, Inv, TypeOK, asked, settings

\* The flag still set, the loop goes on.
LEMMA StillOnDoes ==
  ASSUME Inv, NEW n \in Sessions, StillOn(n)
  PROVE  /\ stage' \in [Sessions -> Stages] /\ stage'[n] = IF active THEN "running" ELSE "closing"
         /\ \A k \in Sessions \ {n} : stage'[k] = stage[k]
<1>1. CASE active
  BY <1>1, StageGoes DEF StillOn, Stages, Inv
<1>2. CASE ~active
  BY <1>2, StageGoes DEF StillOn, Stages, Inv
<1> QED
  BY <1>1, <1>2

\* A change is taken from the queue, and its device opened.
LEMMA TurnSwitchesDoes ==
  ASSUME Inv, NEW n \in Sessions, TurnSwitches(n)
  PROVE  /\ OnlyThread(n) /\ UNCHANGED <<active, published, problem>>
         /\ stage[n] = "running" /\ stage'[n] = IF active THEN "running" ELSE "closing"
         /\ queue[n] # <<>> /\ Head(queue[n]) \in Devices /\ queue'[n] = Tail(queue[n])
         /\ slot'[n].wanted = Head(queue[n])
         /\ slot'[n].opening = [device |-> Head(queue[n]), result |-> Nothing]
<1>1. StillOn(n) /\ stage[n] = "running" /\ queue[n] # <<>> /\ Head(queue[n]) # Stop
  BY DEF TurnSwitches
<1>2. queue \in [Sessions -> Seq(Devices \cup {Stop})] /\ queue[n] \in Seq(Devices \cup {Stop})
  BY DEF Inv, TypeOK
<1>3. Head(queue[n]) \in Devices /\ Tail(queue[n]) \in Seq(Devices \cup {Stop})
  BY <1>1, <1>2
<1>4. /\ queue' \in [Sessions -> Seq(Devices \cup {Stop})] /\ queue'[n] = Tail(queue[n])
      /\ \A k \in Sessions \ {n} : queue'[k] = queue[k]
  BY <1>2, <1>3 DEF TurnSwitches
<1>5. /\ slot' \in [Sessions -> Input]
      /\ slot'[n].wanted = Head(queue[n])
      /\ slot'[n].opening = [device |-> Head(queue[n]), result |-> Nothing]
      /\ \A k \in Sessions \ {n} : slot'[k] = slot[k]
  BY <1>3, SlotSwitches DEF TurnSwitches, Inv
<1>6. UNCHANGED <<active, published, problem, sender, control, started, told, outlived, saved, change, changes>>
  BY DEF TurnSwitches, asked, settings
<1> QED
  BY <1>1, <1>3, <1>4, <1>5, <1>6, StillOnDoes DEF OnlyThread

\* The result of an open is taken, and told if the device is not in use.
LEMMA TurnPollsDoes ==
  ASSUME Inv, NEW n \in Sessions, TurnPolls(n)
  PROVE  /\ OnlyThread(n) /\ UNCHANGED <<active, published, queue>>
         /\ stage[n] = "running" /\ stage'[n] = IF active THEN "running" ELSE "closing"
         /\ slot[n].opening.result # Nothing
         /\ slot'[n].wanted = slot[n].wanted /\ slot'[n].opening = NotOpening
         /\ slot'[n].ring = slot[n].opening.result
         /\ problem' = IF slot[n].opening.result = Silent THEN slot[n].wanted ELSE Nothing
<1>1. StillOn(n) /\ stage[n] = "running" /\ slot[n].opening.result # Nothing
  BY DEF TurnPolls
<1>2. /\ slot' \in [Sessions -> Input]
      /\ slot'[n].wanted = slot[n].wanted /\ slot'[n].opening = NotOpening
      /\ slot'[n].ring = slot[n].opening.result
      /\ \A k \in Sessions \ {n} : slot'[k] = slot[k]
  BY <1>1, SlotPolls DEF TurnPolls, Inv
<1>3. /\ problem' = IF slot[n].opening.result = Silent THEN slot[n].wanted ELSE Nothing
      /\ UNCHANGED <<active, published, queue, sender, control, started, told, outlived, saved, change, changes>>
  BY DEF TurnPolls, asked, settings
<1> QED
  BY <1>1, <1>2, <1>3, StillOnDoes DEF OnlyThread, Inv, TypeOK

\* The open that is out gets its result.
LEMMA OpenFinishesDoes ==
  ASSUME Inv, NEW n \in Sessions, OpenFinishes(n)
  PROVE  /\ OnlyThread(n) /\ UNCHANGED <<active, published, problem, queue, stage>>
         /\ slot[n].opening.device # Nothing
         /\ slot'[n].wanted = slot[n].wanted
         /\ slot'[n].opening.device = slot[n].opening.device
         /\ slot'[n].opening.result \in {slot[n].opening.device, Silent}
<1>1. slot[n].opening.device # Nothing
  BY DEF OpenFinishes
<1>2. slot[n].opening.device \in Devices
  BY <1>1 DEF Inv, TypeOK, Input
<1>3. PICK r \in {slot[n].opening.device, Silent} : slot' = [slot EXCEPT ![n].ring = Silent, ![n].opening.result = r]
  BY DEF OpenFinishes
<1>4. /\ slot' \in [Sessions -> Input]
      /\ slot'[n].wanted = slot[n].wanted /\ slot'[n].ring = Silent
      /\ slot'[n].opening = [device |-> slot[n].opening.device, result |-> r]
      /\ \A k \in Sessions \ {n} : slot'[k] = slot[k]
  <2>1. TypeOK /\ r \in Devices \cup {Silent}
    BY <1>2 DEF Inv
  <2> QED
    BY <1>3, <2>1, SlotFinishes
<1>5. UNCHANGED <<active, published, problem, queue, stage, sender, control, started, told, outlived, saved, change, changes>>
  BY DEF OpenFinishes, asked, settings
<1> QED
  BY <1>1, <1>3, <1>4, <1>5 DEF OnlyThread, Inv, TypeOK, Stages

\* A session that starts leaves those after it untouched.
LEMMA UntouchedStays ==
  ASSUME Inv, started \in Sessions, NEW to, to # "none",
         stage' = [stage EXCEPT ![started] = to], UNCHANGED <<started, queue>>
  PROVE  Untouched'
<1>1. stage \in [Sessions -> Stages] /\ started \in Nat
  BY DEF Inv, TypeOK, Stages
<1>2. \A k \in Sessions : stage'[k] = IF k = started THEN to ELSE stage[k]
  BY <1>1
<1>3. \A k \in Sessions : k > started => k # started
  BY <1>1, StreamingAssumption DEF Sessions
<1> QED
  BY <1>2, <1>3 DEF Inv, Untouched

\* Taking a command from the queue keeps the last one, if there is one more.
LEMMA LastOfTail ==
  ASSUME NEW S, NEW q \in Seq(S), q # <<>>
  PROVE  IF Len(q) = 1 THEN Tail(q) = <<>> /\ q[Len(q)] = Head(q)
         ELSE Tail(q) # <<>> /\ Tail(q)[Len(Tail(q))] = q[Len(q)]
<1>1. Len(q) \in Nat \ {0}
  BY EmptySeq
<1>2. /\ Tail(q) \in Seq(S) /\ Len(Tail(q)) = Len(q) - 1
      /\ \A i \in 1 .. Len(Tail(q)) : Tail(q)[i] = q[i + 1]
  BY HeadTailProperties
<1>3. ASSUME Len(q) # 1 PROVE Tail(q) # <<>> /\ Tail(q)[Len(Tail(q))] = q[Len(q)]
  <2>1. Len(Tail(q)) \in 1 .. Len(Tail(q)) /\ Len(Tail(q)) + 1 = Len(q)
    BY <1>1, <1>2, <1>3
  <2>2. Len(Tail(q)) # 0
    BY <2>1
  <2>3. Tail(q) # <<>>
    BY <2>2, EmptySeq
  <2>4. Tail(q)[Len(Tail(q))] = q[Len(Tail(q)) + 1]
    BY <1>2, <2>1
  <2> QED
    BY <2>1, <2>3, <2>4
<1>4. ASSUME Len(q) = 1 PROVE Tail(q) = <<>>
  <2>1. Len(Tail(q)) = 0
    BY <1>2, <1>4
  <2> QED
    BY <1>2, <2>1, EmptySeq
<1>5. Head(q) = q[1]
  OBVIOUS
<1> QED
  BY <1>3, <1>4, <1>5

\* A change that is taken in is what the session wants from then on.
LEMMA SwitchStep ==
  ASSUME Inv, NEW n \in Sessions, TurnSwitches(n)
  PROVE  HeldOff' /\ SavedReachesSession'
<1>1. queue[n] \in Seq(Devices \cup {Stop}) /\ queue[n] # <<>>
  BY TurnSwitchesDoes DEF Inv, TypeOK
<1>2. queue'[n] = Tail(queue[n]) /\ slot'[n].wanted = Head(queue[n])
  BY TurnSwitchesDoes
<1>3. Asked(n)' = Asked(n)
  BY <1>1, <1>2, LastOfTail, Zenon DEF Asked
<1>4. Asked(started)' = Asked(started) \/ ~(active /\ control = "idle")
  <2>1. CASE started = n
    BY <1>3, <2>1, TurnSwitchesDoes DEF OnlyThread, Asked
  <2>2. CASE started # n /\ active /\ control = "idle"
    <3>1. started \in Sessions \ {n}
      BY <2>2 DEF Inv, OneSender
    <3>2. slot'[started] = slot[started] /\ queue'[started] = queue[started] /\ started' = started
      BY <3>1, TurnSwitchesDoes DEF OnlyThread
    <3> QED
      BY <3>2 DEF Asked
  <2> QED
    BY <2>1, <2>2
<1>5. HeldOff'
  <2>1. SUFFICES ASSUME control = "holding" PROVE change = "none" /\ slot'[started].wanted = saved
    BY TurnSwitchesDoes DEF OnlyThread, HeldOff
  <2>2. started \in Sessions \ {n}
    BY <2>1, TurnSwitchesDoes DEF Inv, OneSender, NotYet
  <2> QED
    BY <2>1, <2>2, TurnSwitchesDoes DEF OnlyThread, Inv, HeldOff
<1>6. UNCHANGED <<active, control, change, saved, started>>
  BY TurnSwitchesDoes DEF OnlyThread
<1> QED
  BY <1>4, <1>5, <1>6 DEF Inv, SavedReachesSession

\* Taking the result of an open keeps the devices wanted.
LEMMA PollStep ==
  ASSUME Inv, NEW n \in Sessions, TurnPolls(n)
  PROVE  StopIsTold' /\ Wants'
<1>1. /\ OnlyThread(n) /\ queue' = queue /\ stage[n] = "running" /\ stage'[n] \in {"running", "closing"}
      /\ slot'[n].wanted = slot[n].wanted /\ slot'[n].opening = NotOpening
  BY TurnPollsDoes
<1>2. StopIsTold'
  BY <1>1 DEF OnlyThread, Inv, StopIsTold
<1>3. \A k \in Sessions \ {n} : stage'[k] = stage[k] /\ slot'[k] = slot[k]
  BY <1>1 DEF OnlyThread
<1>4. slot[n].wanted \in Devices
  BY <1>1 DEF Inv, Wants, Live
<1>5. Wants'
  BY <1>1, <1>3, <1>4, Zenon DEF Inv, Wants, Live
<1> QED
  BY <1>2, <1>5

\* A loop that ends keeps one session at a time.
LEMMA StopStep ==
  ASSUME Inv, TimelyInv, outlived' = {}, NEW n \in Sessions, TurnStops(n)
  PROVE  Timely'
<1>1. /\ OnlyThread(n) /\ UNCHANGED <<active, published, slot, problem>>
      /\ stage[n] = "running" /\ stage'[n] = "closing"
  BY TurnStopsDoes
<1>2. /\ \A k \in Sessions \ {n} : stage'[k] = stage[k]
      /\ UNCHANGED <<started, control, told>>
  BY <1>1 DEF OnlyThread
<1> Timely
  BY TurnStopsDoes DEF OnlyThread, TimelyInv
<1>3. n = started /\ active
  BY <1>1 DEF Timely, OneLive, Live
<1>4. OneLive'
  BY <1>1, <1>2, <1>3 DEF Timely, OneLive, Live
<1>5. OneLink'
  BY <1>1, <1>2, <1>3 DEF Timely, OneLink
<1>6. NoProblemYet'
  BY <1>1, <1>2 DEF Timely, NoProblemYet
<1>7. HasOrTells'
  BY <1>1, <1>2 DEF Timely, HasOrTells, InUse
<1> QED
  BY <1>4, <1>5, <1>6, <1>7 DEF Timely

\* Every step keeps the types.
LEMMA TypeStep ==
  ASSUME Inv, [Next]_vars
  PROVE  TypeOK'
<1> USE StreamingAssumption DEF Sessions, Inv, TypeOK
<1>1. CASE StartBegins
  BY <1>1 DEF OneSender, StopIsTold, NotYet, Input, Stages, StartBegins, threads, settings
<1>2. CASE StartReads
  BY <1>2 DEF OneSender, StopIsTold, NotYet, Input, Stages, StartReads, settings
<1>3. CASE StartActivates
  BY <1>3 DEF OneSender, StopIsTold, NotYet, Input, Stages, StartActivates, settings
<1>4. CASE StartFails
  BY <1>4 DEF OneSender, StopIsTold, NotYet, Input, Stages, StartFails, settings
<1>5. CASE StopBegins
  BY <1>5 DEF OneSender, StopIsTold, NotYet, Input, Stages, StopBegins, settings
<1>6. CASE StopInVain
  BY <1>6 DEF OneSender, StopIsTold, NotYet, Input, Stages, StopInVain, asked, threads, settings
<1>7. CASE StopDone
  BY <1>7 DEF OneSender, StopIsTold, NotYet, Input, Stages, StopDone, threads, settings
<1>8. CASE StopGivesUp
  BY <1>8 DEF OneSender, StopIsTold, NotYet, Input, Stages, StopGivesUp, threads, settings
<1>9. CASE ChangeSaves
  BY <1>9 DEF OneSender, StopIsTold, NotYet, Input, Stages, ChangeSaves, asked, threads
<1>10. CASE ChangeTells
  BY <1>10 DEF OneSender, StopIsTold, NotYet, Input, Stages, ChangeTells, asked
<1>11. CASE \E n \in Sessions : OpensDevices(n)
  <2> SUFFICES ASSUME NEW n \in Sessions, OpensDevices(n) PROVE TypeOK'
    BY <1>11
  <2> QED
    BY OpensDevicesDoes DEF OneSender, StopIsTold, NotYet, Input, Stages, OnlyThread
<1>12. CASE \E n \in Sessions : Connects(n)
  <2> SUFFICES ASSUME NEW n \in Sessions, Connects(n) PROVE TypeOK'
    BY <1>12
  <2> QED
    BY ConnectsDoes DEF OneSender, StopIsTold, NotYet, Input, Stages, OnlyThread
<1>13. CASE \E n \in Sessions : ConnectFails(n)
  <2> SUFFICES ASSUME NEW n \in Sessions, ConnectFails(n) PROVE TypeOK'
    BY <1>13
  <2> QED
    BY ConnectFailsDoes DEF OneSender, StopIsTold, NotYet, Input, Stages, OnlyThread
<1>14. CASE \E n \in Sessions : TurnStops(n)
  <2> SUFFICES ASSUME NEW n \in Sessions, TurnStops(n) PROVE TypeOK'
    BY <1>14
  <2> QED
    BY TurnStopsDoes DEF OneSender, StopIsTold, NotYet, Input, Stages, OnlyThread
<1>15. CASE \E n \in Sessions : TurnSwitches(n)
  <2> SUFFICES ASSUME NEW n \in Sessions, TurnSwitches(n) PROVE TypeOK'
    BY <1>15
  <2> QED
    BY TurnSwitchesDoes DEF OneSender, StopIsTold, NotYet, Input, Stages, OnlyThread
<1>16. CASE \E n \in Sessions : TurnPolls(n)
  <2> SUFFICES ASSUME NEW n \in Sessions, TurnPolls(n) PROVE TypeOK'
    BY <1>16
  <2>1. slot[n] \in Input
    OBVIOUS
  <2>2. problem' \in Devices \cup {Nothing}
    BY <2>1, TurnPollsDoes DEF Input
  <2> QED
    BY <2>2, TurnPollsDoes DEF OnlyThread, Stages
<1>17. CASE \E n \in Sessions : TurnIsLast(n)
  <2> SUFFICES ASSUME NEW n \in Sessions, TurnIsLast(n) PROVE TypeOK'
    BY <1>17
  <2> QED
    BY TurnIsLastDoes DEF OneSender, StopIsTold, NotYet, Input, Stages, OnlyThread
<1>18. CASE \E n \in Sessions : OpenFinishes(n)
  <2> SUFFICES ASSUME NEW n \in Sessions, OpenFinishes(n) PROVE TypeOK'
    BY <1>18
  <2> QED
    BY OpenFinishesDoes DEF OneSender, StopIsTold, NotYet, Input, Stages, OnlyThread
<1>19. CASE \E n \in Sessions : Ends(n)
  <2> SUFFICES ASSUME NEW n \in Sessions, Ends(n) PROVE TypeOK'
    BY <1>19
  <2> QED
    BY EndsDoes DEF OneSender, StopIsTold, NotYet, Input, Stages, OnlyThread
<1>20. CASE UNCHANGED vars
  BY <1>20 DEF OneSender, StopIsTold, NotYet, Input, Stages, vars, threads, asked, settings
<1> QED
  BY <1>1, <1>2, <1>3, <1>4, <1>5, <1>6, <1>7, <1>8, <1>9, <1>10, <1>11, <1>12, <1>13, <1>14, <1>15, <1>16, <1>17, <1>18, <1>19, <1>20 DEF Next, Thread

\* Every step keeps who has the sender, and the sessions not yet started.
LEMMA SenderStep ==
  ASSUME Inv, [Next]_vars
  PROVE  OneSender' /\ Untouched'
<1> USE StreamingAssumption DEF Sessions, Inv, TypeOK, OneSender, Untouched, NotYet
<1>1. CASE StartBegins
  BY <1>1 DEF Stages, StartBegins, threads, settings
<1>2. CASE StartReads
  BY <1>2 DEF Stages, StartReads, settings
<1>3. CASE StartActivates
  <2>1. stage' = [stage EXCEPT ![started] = "opening"] /\ UNCHANGED <<started, queue, sender>>
    BY <1>3 DEF StartActivates
  <2>2. started \in Sessions /\ sender = started /\ control' = "idle"
    BY <1>3 DEF StartActivates
  <2>3. OneSender'
    BY <1>3, <2>1, <2>2 DEF StartActivates
  <2>4. Inv
    OBVIOUS
  <2> QED
    BY <2>1, <2>2, <2>3, <2>4, UntouchedStays
<1>4. CASE StartFails
  <2>1. stage' = [stage EXCEPT ![started] = "ended"] /\ UNCHANGED <<started, queue, sender>>
    BY <1>4 DEF StartFails
  <2>2. started \in Sessions /\ sender = started /\ control' = "idle"
    BY <1>4 DEF StartFails
  <2>3. OneSender'
    BY <1>4, <2>1, <2>2 DEF StartFails
  <2>4. Inv
    OBVIOUS
  <2> QED
    BY <2>1, <2>2, <2>3, <2>4, UntouchedStays
<1>5. CASE StopBegins
  BY <1>5 DEF Stages, StopBegins, settings
<1>6. CASE StopInVain
  BY <1>6 DEF Stages, StopInVain, asked, threads, settings
<1>7. CASE StopDone
  BY <1>7 DEF Stages, StopDone, threads, settings
<1>8. CASE StopGivesUp
  BY <1>8 DEF Stages, StopGivesUp, threads, settings
<1>9. CASE ChangeSaves
  BY <1>9 DEF Stages, ChangeSaves, asked, threads
<1>10. CASE ChangeTells
  BY <1>10 DEF Stages, ChangeTells, asked
<1>11. CASE \E n \in Sessions : OpensDevices(n)
  <2> SUFFICES ASSUME NEW n \in Sessions, OpensDevices(n) PROVE OneSender' /\ Untouched'
    BY <1>11
  <2> QED
    BY OpensDevicesDoes DEF Stages, OnlyThread
<1>12. CASE \E n \in Sessions : Connects(n)
  <2> SUFFICES ASSUME NEW n \in Sessions, Connects(n) PROVE OneSender' /\ Untouched'
    BY <1>12
  <2> QED
    BY ConnectsDoes DEF Stages, OnlyThread
<1>13. CASE \E n \in Sessions : ConnectFails(n)
  <2> SUFFICES ASSUME NEW n \in Sessions, ConnectFails(n) PROVE OneSender' /\ Untouched'
    BY <1>13
  <2> QED
    BY ConnectFailsDoes DEF Stages, OnlyThread
<1>14. CASE \E n \in Sessions : TurnStops(n)
  <2> SUFFICES ASSUME NEW n \in Sessions, TurnStops(n) PROVE OneSender' /\ Untouched'
    BY <1>14
  <2> QED
    BY TurnStopsDoes DEF Stages, OnlyThread
<1>15. CASE \E n \in Sessions : TurnSwitches(n)
  <2> SUFFICES ASSUME NEW n \in Sessions, TurnSwitches(n) PROVE OneSender' /\ Untouched'
    BY <1>15
  <2> QED
    BY TurnSwitchesDoes DEF Stages, OnlyThread
<1>16. CASE \E n \in Sessions : TurnPolls(n)
  <2> SUFFICES ASSUME NEW n \in Sessions, TurnPolls(n) PROVE OneSender' /\ Untouched'
    BY <1>16
  <2> QED
    BY TurnPollsDoes DEF Stages, OnlyThread
<1>17. CASE \E n \in Sessions : TurnIsLast(n)
  <2> SUFFICES ASSUME NEW n \in Sessions, TurnIsLast(n) PROVE OneSender' /\ Untouched'
    BY <1>17
  <2> QED
    BY TurnIsLastDoes DEF Stages, OnlyThread
<1>18. CASE \E n \in Sessions : OpenFinishes(n)
  <2> SUFFICES ASSUME NEW n \in Sessions, OpenFinishes(n) PROVE OneSender' /\ Untouched'
    BY <1>18
  <2> QED
    BY OpenFinishesDoes DEF Stages, OnlyThread
<1>19. CASE \E n \in Sessions : Ends(n)
  <2> SUFFICES ASSUME NEW n \in Sessions, Ends(n) PROVE OneSender' /\ Untouched'
    BY <1>19
  <2> QED
    BY EndsDoes DEF Stages, OnlyThread
<1>20. CASE UNCHANGED vars
  BY <1>20 DEF Stages, vars, threads, asked, settings
<1> QED
  BY <1>1, <1>2, <1>3, <1>4, <1>5, <1>6, <1>7, <1>8, <1>9, <1>10, <1>11, <1>12, <1>13, <1>14, <1>15, <1>16, <1>17, <1>18, <1>19, <1>20 DEF Next, Thread

\* Every step keeps the saved device on its way to the session.
LEMMA SavedStep ==
  ASSUME Inv, [Next]_vars
  PROVE  HeldOff' /\ SavedReachesSession'
<1> USE StreamingAssumption DEF Sessions, Inv, TypeOK, OneSender, Untouched, NotYet, HeldOff, SavedReachesSession, Asked
<1>1. CASE StartBegins
  BY <1>1 DEF Stages, StartBegins, threads, settings
<1>2. CASE StartReads
  BY <1>2 DEF Stages, StartReads, settings
<1>3. CASE StartActivates
  BY <1>3 DEF Stages, StartActivates, settings
<1>4. CASE StartFails
  BY <1>4 DEF Stages, StartFails, settings
<1>5. CASE StopBegins
  BY <1>5 DEF Stages, StopBegins, settings
<1>6. CASE StopInVain
  BY <1>6 DEF Stages, StopInVain, asked, threads, settings
<1>7. CASE StopDone
  BY <1>7 DEF Stages, StopDone, threads, settings
<1>8. CASE StopGivesUp
  BY <1>8 DEF Stages, StopGivesUp, threads, settings
<1>9. CASE ChangeSaves
  BY <1>9 DEF Stages, ChangeSaves, asked, threads
<1>10. CASE ChangeTells
  BY <1>10 DEF Stages, ChangeTells, asked
<1>11. CASE \E n \in Sessions : OpensDevices(n)
  BY <1>11 DEF Input, OpensDevices, Goes, asked, settings
<1>12. CASE \E n \in Sessions : Connects(n)
  BY <1>12 DEF Input, Connects, Goes, asked, settings
<1>13. CASE \E n \in Sessions : ConnectFails(n)
  BY <1>13 DEF Input, ConnectFails, Goes, asked, settings
<1>14. CASE \E n \in Sessions : TurnStops(n)
  BY <1>14 DEF Input, TurnStops, Goes, asked, settings
<1>15. CASE \E n \in Sessions : TurnSwitches(n)
  BY <1>15, SwitchStep
<1>16. CASE \E n \in Sessions : TurnPolls(n)
  BY <1>16 DEF Input, TurnPolls, Goes, StillOn, asked, settings
<1>17. CASE \E n \in Sessions : TurnIsLast(n)
  BY <1>17 DEF Input, TurnIsLast, Goes, asked, settings
<1>18. CASE \E n \in Sessions : OpenFinishes(n)
  BY <1>18 DEF Input, OpenFinishes, asked, settings
<1>19. CASE \E n \in Sessions : Ends(n)
  BY <1>19 DEF Input, Ends, Goes, asked, settings
<1>20. CASE UNCHANGED vars
  BY <1>20 DEF Stages, vars, threads, asked, settings
<1> QED
  BY <1>1, <1>2, <1>3, <1>4, <1>5, <1>6, <1>7, <1>8, <1>9, <1>10, <1>11, <1>12, <1>13, <1>14, <1>15, <1>16, <1>17, <1>18, <1>19, <1>20 DEF Next, Thread

\* Every step keeps the stops told and the devices wanted.
LEMMA WantsStep ==
  ASSUME Inv, [Next]_vars
  PROVE  StopIsTold' /\ Wants'
<1> USE StreamingAssumption DEF Sessions, Inv, TypeOK, OneSender, Untouched, NotYet, HeldOff, StopIsTold, Wants, Live, NotOpening
<1>1. CASE StartBegins
  BY <1>1 DEF Input, StartBegins, threads, settings
<1>2. CASE StartReads
  BY <1>2 DEF Input, StartReads, settings
<1>3. CASE StartActivates
  BY <1>3 DEF Input, StartActivates, settings
<1>4. CASE StartFails
  BY <1>4 DEF Input, StartFails, settings
<1>5. CASE StopBegins
  BY <1>5 DEF Input, StopBegins, settings
<1>6. CASE StopInVain
  BY <1>6 DEF Input, StopInVain, asked, threads, settings
<1>7. CASE StopDone
  BY <1>7 DEF Input, StopDone, threads, settings
<1>8. CASE StopGivesUp
  BY <1>8 DEF Input, StopGivesUp, threads, settings
<1>9. CASE ChangeSaves
  BY <1>9 DEF Input, ChangeSaves, asked, threads
<1>10. CASE ChangeTells
  BY <1>10 DEF Input, ChangeTells, asked
<1>11. CASE \E n \in Sessions : OpensDevices(n)
  BY <1>11 DEF Input, OpensDevices, Goes, asked, settings
<1>12. CASE \E n \in Sessions : Connects(n)
  BY <1>12 DEF Input, Connects, Goes, asked, settings
<1>13. CASE \E n \in Sessions : ConnectFails(n)
  BY <1>13 DEF Input, ConnectFails, Goes, asked, settings
<1>14. CASE \E n \in Sessions : TurnStops(n)
  BY <1>14 DEF Input, TurnStops, Goes, asked, settings
<1>15. CASE \E n \in Sessions : TurnSwitches(n)
  BY <1>15 DEF Input, TurnSwitches, Goes, StillOn, Switched, asked, settings
<1>16. CASE \E n \in Sessions : TurnPolls(n)
  BY <1>16, PollStep
<1>17. CASE \E n \in Sessions : TurnIsLast(n)
  BY <1>17 DEF Input, TurnIsLast, Goes, asked, settings
<1>18. CASE \E n \in Sessions : OpenFinishes(n)
  BY <1>18 DEF Input, OpenFinishes, asked, settings
<1>19. CASE \E n \in Sessions : Ends(n)
  BY <1>19 DEF Input, Ends, Goes, asked, settings
<1>20. CASE UNCHANGED vars
  BY <1>20 DEF Input, vars, threads, asked, settings
<1> QED
  BY <1>1, <1>2, <1>3, <1>4, <1>5, <1>6, <1>7, <1>8, <1>9, <1>10, <1>11, <1>12, <1>13, <1>14, <1>15, <1>16, <1>17, <1>18, <1>19, <1>20 DEF Next, Thread

\* Every step keeps one session at a time, if no thread outlasts a stop.
LEMMA TimelyStep ==
  ASSUME Inv, TimelyInv, [Next]_vars, outlived' = {}
  PROVE  Timely'
<1> USE StreamingAssumption DEF Sessions, Inv, TypeOK, OneSender, Untouched, NotYet, HeldOff, StopIsTold, Wants, Live, NotOpening, TimelyInv, Timely, OneLive, OneLink, NoProblemYet, HasOrTells, InUse
<1>1. CASE StartBegins
  BY <1>1 DEF Input, StartBegins, threads, settings
<1>2. CASE StartReads
  BY <1>2 DEF Input, StartReads, settings
<1>3. CASE StartActivates
  BY <1>3 DEF Input, StartActivates, settings
<1>4. CASE StartFails
  BY <1>4 DEF Input, StartFails, settings
<1>5. CASE StopBegins
  BY <1>5 DEF Input, StopBegins, settings
<1>6. CASE StopInVain
  BY <1>6 DEF Input, StopInVain, asked, threads, settings
<1>7. CASE StopDone
  BY <1>7 DEF Input, StopDone, threads, settings
<1>8. CASE StopGivesUp
  BY <1>8 DEF Input, StopGivesUp, threads, settings
<1>9. CASE ChangeSaves
  BY <1>9 DEF Input, ChangeSaves, asked, threads
<1>10. CASE ChangeTells
  BY <1>10 DEF Input, ChangeTells, asked
<1>11. CASE \E n \in Sessions : OpensDevices(n)
  BY <1>11 DEF Input, OpensDevices, Goes, asked, settings
<1>12. CASE \E n \in Sessions : Connects(n)
  BY <1>12 DEF Input, Connects, Goes, asked, settings
<1>13. CASE \E n \in Sessions : ConnectFails(n)
  BY <1>13 DEF Input, ConnectFails, Goes, asked, settings
<1>14. CASE \E n \in Sessions : TurnStops(n)
  BY <1>14, StopStep
<1>15. CASE \E n \in Sessions : TurnSwitches(n)
  BY <1>15 DEF Input, TurnSwitches, Goes, StillOn, Switched, asked, settings
<1>16. CASE \E n \in Sessions : TurnPolls(n)
  BY <1>16 DEF Input, TurnPolls, Goes, StillOn, asked, settings
<1>17. CASE \E n \in Sessions : TurnIsLast(n)
  BY <1>17 DEF Input, TurnIsLast, Goes, asked, settings
<1>18. CASE \E n \in Sessions : OpenFinishes(n)
  BY <1>18 DEF Input, OpenFinishes, asked, settings
<1>19. CASE \E n \in Sessions : Ends(n)
  BY <1>19 DEF Input, Ends, Goes, asked, settings
<1>20. CASE UNCHANGED vars
  BY <1>20 DEF Input, vars, threads, asked, settings
<1> QED
  BY <1>1, <1>2, <1>3, <1>4, <1>5, <1>6, <1>7, <1>8, <1>9, <1>10, <1>11, <1>12, <1>13, <1>14, <1>15, <1>16, <1>17, <1>18, <1>19, <1>20 DEF Next, Thread

\* Both invariants hold to begin with.
LEMMA InitInv ==
  ASSUME Init
  PROVE  Inv /\ TimelyInv
<1> USE StreamingAssumption DEF Sessions, Init
<1>1. TypeOK
  <2>1. NoSlot \in Input
    BY DEF Input, NoSlot, NotOpening
  <2>2. <<>> \in Seq(Devices \cup {Stop})
    OBVIOUS
  <2>3. slot \in [Sessions -> Input]
    BY <2>1
  <2>4. queue \in [Sessions -> Seq(Devices \cup {Stop})]
    BY <2>2
  <2>5. stage \in [Sessions -> Stages]
    BY DEF Stages
  <2>6. active \in BOOLEAN /\ sender \in Sessions \cup {Nothing} /\ saved \in Devices
    OBVIOUS
  <2>7. problem \in Devices \cup {Nothing} /\ published \in Sessions \cup {Nothing}
    OBVIOUS
  <2>8. control \in {"idle", "starting", "holding", "stopping"} /\ change \in {"none", "saved"}
    OBVIOUS
  <2>9. started \in 0 .. MaxSessions /\ told \subseteq Sessions /\ outlived \subseteq told /\ changes \in 0 .. MaxChanges
    OBVIOUS
  <2> HIDE DEF Init
  <2> QED
    BY <2>3, <2>4, <2>5, <2>6, <2>7, <2>8, <2>9 DEF TypeOK, Stages
<1>2. OneSender /\ Untouched /\ HeldOff /\ SavedReachesSession
  BY DEF OneSender, Untouched, HeldOff, SavedReachesSession, NotYet
<1>3. StopIsTold /\ Wants /\ Timely
  BY DEF StopIsTold, Wants, Timely, OneLive, OneLink, NoProblemYet, HasOrTells, InUse, Live, NotYet, NoSlot
<1> QED
  BY <1>1, <1>2, <1>3 DEF Inv, TimelyInv

\* Every step keeps both invariants.
LEMMA InvStep ==
  ASSUME Inv, TimelyInv, [Next]_vars
  PROVE  Inv' /\ TimelyInv'
<1>1. outlived' = {} => Timely'
  BY TimelyStep
<1> QED
  BY <1>1, TypeStep, SenderStep, SavedStep, WantsStep DEF Inv, TimelyInv

\* Both invariants hold in every state of every run.
THEOREM Inductive == Spec => [](Inv /\ TimelyInv)
<1>1. Init => Inv /\ TimelyInv
  BY InitInv
<1>2. Inv /\ TimelyInv /\ [Next]_vars => (Inv /\ TimelyInv)'
  BY InvStep
<1> QED
  BY <1>1, <1>2, PTL DEF Spec

\* streaming_start reads the settings and sets the flag under the lock that a
\* change takes to save, and a change sends to the thread it finds: a session
\* ends up with the device that was saved last (streaming.rs:1011).
THEOREM SavedReaches == Spec => []SavedReachesSession
<1>1. Inv => SavedReachesSession
  BY DEF Inv
<1> QED
  BY <1>1, Inductive, PTL

\* The loop and the threads that open devices keep the list of problems true
\* of the device in use (streaming.rs:1718).
THEOREM InUseIsTold == Spec => []InUseOrTold
<1>1. TimelyInv => InUseOrTold
  BY DEF TimelyInv, Timely, HasOrTells, InUse, InUseOrTold
<1> QED
  BY <1>1, Inductive, PTL

\* A session publishes a link state only while it is the one started last, and
\* takes it back before the next is started.
THEOREM LinkCurrent == Spec => []LinkIsCurrent
<1>1. TimelyInv => LinkIsCurrent
  BY DEF TimelyInv, Timely, OneLink, LinkIsCurrent
<1> QED
  BY <1>1, Inductive, PTL

\* A loop that ends was told to: neither the flag nor the sender it looks at is
\* taken from it by another session.
LEMMA ClosesWhenTold ==
  ASSUME Inv, TimelyInv, [Next]_vars, outlived = {},
         NEW n \in Sessions, stage[n] = "running", stage'[n] = "closing"
  PROVE  n \in told
<1>1. active /\ n = started
  BY DEF TimelyInv, Timely, OneLive, Live
<1>2. /\ stage \in [Sessions -> Stages]
      /\ queue[n] \in Seq(Devices \cup {Stop})
  BY DEF Inv, TypeOK, Stages
<1>3. CASE \E k \in Sessions : TurnStops(k)
  <2>1. IF queue[n] = <<>> THEN sender # n ELSE Head(queue[n]) = Stop
    BY <1>3, TurnStopsDoes DEF OnlyThread
  <2>2. CASE queue[n] = <<>>
    <3>1. control # "idle"
      BY <1>1, <2>1, <2>2 DEF Inv, OneSender
    <3>2. control \notin NotYet
      BY <1>1 DEF Inv, OneSender
    <3>3. control = "stopping"
      BY <3>1, <3>2 DEF Inv, TypeOK, NotYet
    <3> QED
      BY <1>1, <3>3 DEF Inv, StopIsTold
  <2>3. CASE queue[n] # <<>>
    <3>1. 1 \in DOMAIN queue[n] /\ queue[n][1] = Stop
      BY <1>2, <2>1, <2>3
    <3> QED
      BY <3>1 DEF Inv, StopIsTold
  <2> QED
    BY <2>2, <2>3
<1>4. ASSUME NEW k \in Sessions, OpensDevices(k) \/ Connects(k) \/ ConnectFails(k) \/ OpenFinishes(k) \/ Ends(k)
      PROVE  FALSE
  BY <1>4, OpensDevicesDoes, ConnectsDoes, ConnectFailsDoes, OpenFinishesDoes, EndsDoes DEF OnlyThread
<1>5. ASSUME NEW k \in Sessions, TurnSwitches(k) \/ TurnPolls(k) \/ TurnIsLast(k)
      PROVE  FALSE
  BY <1>1, <1>5, TurnSwitchesDoes, TurnPollsDoes, TurnIsLastDoes DEF OnlyThread
<1>6. ASSUME StartBegins \/ StartReads \/ StopBegins \/ StopInVain \/ StopDone \/ StopGivesUp
             \/ ChangeSaves \/ ChangeTells \/ UNCHANGED vars
      PROVE  FALSE
  BY <1>6 DEF StartBegins, StartReads, StopBegins, StopInVain, StopDone, StopGivesUp,
              ChangeSaves, ChangeTells, threads, vars
<1>7. ASSUME StartActivates \/ StartFails
      PROVE  FALSE
  BY <1>1, <1>7 DEF StartActivates, StartFails, Inv, OneSender, NotYet
<1> QED
  BY <1>3, <1>4, <1>5, <1>6, <1>7 DEF Next, Thread

\* As long as no thread has outlasted the wait of a stop, a session that runs
\* goes on until streaming_stop asks it to end.
THEOREM RunsOn == Spec => RunsUntilToldInTime
<1>1. Inv /\ TimelyInv /\ [Next]_vars =>
        [outlived = {} => \A n \in Sessions : stage[n] = "running" /\ stage'[n] = "closing" => n \in told]_vars
  BY ClosesWhenTold
<1> QED
  BY <1>1, Inductive, PTL DEF Spec, RunsUntilToldInTime
=============================================================================
