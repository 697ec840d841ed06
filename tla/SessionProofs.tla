---------------------------- MODULE SessionProofs -----------------------------
(***************************************************************************)
(* For any number of commands, losses, news and connections: what the      *)
(* session promises.  First what each action does to the steps, the flow,  *)
(* the connections and the audio, one lemma for each, and that it keeps    *)
(* their types; then an inductive invariant that says who waits, who is at *)
(* work with what, what the screen shows meanwhile, and who is to take     *)
(* over from whoever was told to end.                                      *)
(***************************************************************************)
EXTENDS Session, RosterProofs

(***************************************************************************)
(* Queues: what is in one, and what stays in it.                           *)
(***************************************************************************)
IsQueue(q) == \E S : q \in Seq(S)
In(x, q) == \E i \in DOMAIN q : q[i] = x

\* The shape of a queue.
LEMMA QueueShape ==
  ASSUME NEW q, IsQueue(q)
  PROVE  Len(q) \in Nat /\ DOMAIN q = 1 .. Len(q) /\ (q # <<>> => Len(q) > 0)
<1>1. PICK S : q \in Seq(S)
  BY DEF IsQueue
<1> QED
  BY <1>1, LenProperties, EmptySeq

\* What is in a queue stays in it when one is put behind it, and in its place.
LEMMA AppendQueue ==
  ASSUME NEW q, IsQueue(q), NEW x
  PROVE  /\ IsQueue(Append(q, x)) /\ In(x, Append(q, x)) /\ Append(q, x) # <<>>
         /\ \A y : In(y, q) => In(y, Append(q, x))
         /\ q # <<>> => Head(Append(q, x)) = Head(q)
         /\ Len(Append(q, x)) = Len(q) + 1
         /\ DOMAIN Append(q, x) = 1 .. (Len(q) + 1)
         /\ \A i \in 1 .. Len(q) : Append(q, x)[i] = q[i]
         /\ Append(q, x)[Len(q) + 1] = x
<1>1. PICK S : q \in Seq(S)
  BY DEF IsQueue
<1>2. q \in Seq(S \cup {x})
  BY <1>1, SeqMonotonic
<1>3. /\ Append(q, x) \in Seq(S \cup {x}) /\ Append(q, x) # <<>>
      /\ Len(Append(q, x)) = Len(q) + 1
      /\ \A i \in 1 .. Len(q) : Append(q, x)[i] = q[i]
      /\ Append(q, x)[Len(q) + 1] = x
  BY <1>2, AppendProperties
<1>4. DOMAIN Append(q, x) = 1 .. (Len(q) + 1) /\ DOMAIN q = 1 .. Len(q) /\ Len(q) \in Nat
  BY <1>2, <1>3, LenProperties
<1>5. IsQueue(Append(q, x))
  BY <1>3, Zenon DEF IsQueue
<1>6. q # <<>> => Head(Append(q, x)) = Head(q)
  BY <1>2, HeadTailAppend, Zenon
<1>7. In(x, Append(q, x)) /\ \A y : In(y, q) => In(y, Append(q, x))
  BY <1>3, <1>4 DEF In
<1> QED
  BY <1>3, <1>4, <1>5, <1>6, <1>7

\* Without its head a queue holds everyone else.
LEMMA TailQueue ==
  ASSUME NEW q, IsQueue(q), q # <<>>
  PROVE  /\ IsQueue(Tail(q))
         /\ \A y : In(y, q) /\ y # Head(q) => In(y, Tail(q))
<1>1. PICK S : q \in Seq(S)
  BY DEF IsQueue
<1>2. /\ Tail(q) \in Seq(S) /\ Len(Tail(q)) = Len(q) - 1
      /\ \A i \in 1 .. Len(Tail(q)) : Tail(q)[i] = q[i + 1]
  BY <1>1, HeadTailProperties, Zenon
<1>3. /\ DOMAIN q = 1 .. Len(q) /\ Len(q) \in Nat
      /\ DOMAIN Tail(q) = 1 .. Len(Tail(q))
  BY <1>1, <1>2, LenProperties
<1>4. ASSUME NEW y, In(y, q), y # Head(q) PROVE In(y, Tail(q))
  <2>1. PICK i \in 1 .. Len(q) : q[i] = y
    BY <1>3, <1>4 DEF In
  <2>2. Head(q) = q[1]
    BY <1>1
  <2>3. i - 1 \in 1 .. Len(Tail(q)) /\ Tail(q)[i - 1] = y
    BY <1>2, <1>3, <1>4, <2>1, <2>2
  <2> QED
    BY <1>3, <2>3 DEF In
<1> QED
  BY <1>2, <1>4, Zenon DEF IsQueue

\* A queue with one place taken anew.
LEMMA ExceptQueue ==
  ASSUME NEW q, IsQueue(q), NEW i \in DOMAIN q, NEW x
  PROVE  /\ IsQueue([q EXCEPT ![i] = x])
         /\ DOMAIN [q EXCEPT ![i] = x] = DOMAIN q
         /\ [q EXCEPT ![i] = x][i] = x
         /\ \A j \in DOMAIN q : j # i => [q EXCEPT ![i] = x][j] = q[j]
<1>1. PICK S : q \in Seq(S)
  BY DEF IsQueue
<1>2. q \in Seq(S \cup {x})
  BY <1>1, SeqMonotonic
<1>3. i \in 1 .. Len(q)
  BY <1>1, LenProperties
<1>4. [q EXCEPT ![i] = x] \in Seq(S \cup {x})
  BY <1>2, <1>3, ExceptSeq
<1>5. IsQueue([q EXCEPT ![i] = x])
  BY <1>4, Zenon DEF IsQueue
<1> QED
  BY <1>5

(***************************************************************************)
(* What the steps, the pumps and the roster are, field by field.           *)
(***************************************************************************)
TaskFields == {"kind", "epoch", "place", "conn", "attempt", "rejoin", "todo"}
IsTask(t) ==
    /\ DOMAIN t = TaskFields
    /\ t.kind \in Kinds /\ t.place \in Places
    /\ t.epoch \in Nat /\ t.attempt \in Nat
    /\ t.conn \in Conns \cup {NoConn} /\ t.rejoin \in BOOLEAN
IsPump(p) == /\ DOMAIN p = {"at", "batch", "link", "after"}
             /\ p.at \in {"none", "sleep", "event", "link"}
IsAudio(a) == DOMAIN a = {"with", "link"}

\* A step that is asked for (NewTask).
LEMMA NewTaskIs ==
  ASSUME NEW kind \in Kinds, NEW e \in Nat
  PROVE  /\ IsTask(NewTask(kind, e))
         /\ NewTask(kind, e).kind = kind /\ NewTask(kind, e).epoch = e
         /\ NewTask(kind, e).place = "turn" /\ NewTask(kind, e).conn = NoConn
  BY DEF NewTask, IsTask, TaskFields, Places, Conns, NoConn

\* A step that is over (Over).
LEMMA OverIs ==
  ASSUME NEW t, IsTask(t)
  PROVE  IsTask(Over(t)) /\ Over(t).kind = t.kind /\ Over(t).place = "done" /\ Over(t).conn = NoConn
         /\ Over(t).epoch = 0
  BY DEF Over, NewTask, IsTask, TaskFields, Places, Conns, NoConn

\* A step that has moved to another place.
LEMMA PlacedIs ==
  ASSUME NEW t, IsTask(t), NEW p \in Places
  PROVE  LET u == [t EXCEPT !.place = p]
         IN  /\ IsTask(u) /\ u.kind = t.kind /\ u.epoch = t.epoch /\ u.place = p
             /\ u.conn = t.conn /\ u.rejoin = t.rejoin
  BY DEF IsTask, TaskFields

\* A step that has moved to another place with another connection in hand.
LEMMA PlacedWithConnIs ==
  ASSUME NEW t, IsTask(t), NEW p \in Places, NEW c \in Conns \cup {NoConn}
  PROVE  LET u == [t EXCEPT !.place = p, !.conn = c] w == [t EXCEPT !.conn = c, !.place = p]
         IN  /\ IsTask(u) /\ u.kind = t.kind /\ u.epoch = t.epoch /\ u.place = p
             /\ u.conn = c /\ u.rejoin = t.rejoin /\ w = u
  BY DEF IsTask, TaskFields

(***************************************************************************)
(* What becomes of the roster and the audio when it is carried out.        *)
(***************************************************************************)
IsState(now) ==
    DOMAIN now = {"roster", "audio"} /\ IsRoster(now.roster) /\ IsAudio(now.audio)

\* The audio is with `peer` now, or with nobody.
LEMMA PlayingIs ==
  ASSUME NEW now, IsState(now), NEW peer
  PROVE  /\ IsState(Playing(now, peer)) /\ Playing(now, peer).roster = now.roster
         /\ Playing(now, peer).audio.with = peer
<1> DEFINE a == [[now.audio EXCEPT !.with = peer] EXCEPT !.link = "quiet"]
           n1 == [now EXCEPT !.audio = [now.audio EXCEPT !.with = peer]]
           n2 == [n1 EXCEPT !.audio = [n1.audio EXCEPT !.link = "quiet"]]
<1>1. Playing(now, peer) = n2
  BY DEF Playing
<1>2. IsAudio(a) /\ a.with = peer
  BY DEF IsState, IsAudio
<1>3. n1.audio = [now.audio EXCEPT !.with = peer] /\ n1.roster = now.roster
      /\ DOMAIN n1 = {"roster", "audio"}
  BY DEF IsState
<1> HIDE DEF n1
<1>4. n2.audio = a /\ n2.roster = now.roster /\ DOMAIN n2 = {"roster", "audio"}
  BY <1>3
<1> QED
  BY <1>1, <1>2, <1>4, Zenon DEF IsState

\* One thing done: the audio stopped, started, or found not to start, and then
\* the roster knows.
LEMMA CarriesOutIs ==
  ASSUME NEW now, IsState(now), NEW do, NEW ok \in BOOLEAN
  PROVE  LET then == CarriesOut(now, do, ok)
         IN  /\ IsState(then)
             /\ do.do = "stop" => then.roster = now.roster /\ then.audio.with = Nobody
             /\ do.do = "start" /\ now.roster.with = do.peer /\ now.audio.with = Nobody =>
                  then.roster.with = then.audio.with
             /\ do.do \notin {"stop", "start"} => then = now
<1> DEFINE failed == [now EXCEPT !.roster = StartFailed(@, do.peer)]
<1>1. /\ IsState(failed) /\ failed.audio = now.audio
      /\ now.roster.with = do.peer => failed.roster.with = Nobody
  BY StartFailedIs DEF IsState
<1>2. CASE do.do = "stop"
  BY <1>2, PlayingIs DEF CarriesOut
<1>3. CASE do.do = "start"
  <2>1. CASE ok /\ now.audio.with = Nobody
    <3>1. CarriesOut(now, do, ok) = Playing(now, do.peer)
      BY <1>3, <2>1 DEF CarriesOut
    <3> QED
      BY <1>3, <3>1, PlayingIs
  <2>2. CASE ~(ok /\ now.audio.with = Nobody)
    <3>1. CarriesOut(now, do, ok) = failed
      BY <1>3, <2>2 DEF CarriesOut
    <3> HIDE DEF failed
    <3> QED
      BY <1>1, <1>3, <3>1
  <2> QED
    BY <2>1, <2>2
<1>4. CASE do.do \notin {"stop", "start"}
  BY <1>4 DEF CarriesOut
<1> QED
  BY <1>2, <1>3, <1>4

\* Decisions are of up to three things.
LEMMA RunsInTurn ==
  ASSUME NEW r, NEW todo, NEW ok
  PROVE  LET now == [roster |-> r, audio |-> audio]
             first == CarriesOut(now, todo[1], ok)
             second == CarriesOut(first, todo[2], ok)
         IN  /\ RunAudio(r, todo, 0, ok) = now
             /\ RunAudio(r, todo, 1, ok) = first
             /\ RunAudio(r, todo, 2, ok) = second
             /\ RunAudio(r, todo, 3, ok) = CarriesOut(second, todo[3], ok)
<1> DEFINE now == [roster |-> r, audio |-> audio]
           first == CarriesOut(now, todo[1], ok)
           second == CarriesOut(first, todo[2], ok)
           third == CarriesOut(second, todo[3], ok)
           f(n) == [i \in 0 .. n |-> IF i = 0 THEN now ELSE IF i = 1 THEN first
                                     ELSE IF i = 2 THEN second ELSE third]
           after(n) == CHOOSE g : g = [i \in 0 .. n |-> IF i = 0 THEN now
                                          ELSE CarriesOut(g[i - 1], todo[i], ok)]
<1>1. ASSUME NEW n \in {0, 1, 2, 3}
      PROVE  f(n) = [i \in 0 .. n |-> IF i = 0 THEN now ELSE CarriesOut(f(n)[i - 1], todo[i], ok)]
  <2> HIDE DEF now
  <2>1. ASSUME NEW i \in 0 .. n
        PROVE  f(n)[i] = IF i = 0 THEN now ELSE CarriesOut(f(n)[i - 1], todo[i], ok)
    <3>1. i = 0 \/ (i = 1 /\ i - 1 = 0) \/ (i = 2 /\ i - 1 = 1) \/ (i = 3 /\ i - 1 = 2)
      BY <1>1
    <3>2. i # 0 => i - 1 \in 0 .. n
      BY <1>1
    <3> QED
      BY <3>1, <3>2
  <2> QED
    BY <2>1
<1>2. ASSUME NEW n \in {0, 1, 2, 3}
      PROVE  after(n) = [i \in 0 .. n |-> IF i = 0 THEN now
                                          ELSE CarriesOut(after(n)[i - 1], todo[i], ok)]
  <2> HIDE DEF now, f
  <2>1. \E g : g = [i \in 0 .. n |-> IF i = 0 THEN now ELSE CarriesOut(g[i - 1], todo[i], ok)]
    BY <1>1, Zenon
  <2> QED
    BY <2>1, Zenon
<1>3. ASSUME NEW n \in {0, 1, 2, 3}
      PROVE  RunAudio(r, todo, n, ok) = after(n)[n]
  BY Zenon DEF RunAudio
<1>4. ASSUME NEW n \in {0, 1, 2, 3}
      PROVE  /\ after(n)[0] = now
             /\ n >= 1 => after(n)[1] = first
             /\ n >= 2 => after(n)[2] = second
             /\ n >= 3 => after(n)[3] = third
  <2> HIDE DEF after, now
  <2>1. after(n)[0] = now
    BY <1>2
  <2>2. n >= 1 => after(n)[1] = CarriesOut(after(n)[0], todo[1], ok)
    BY <1>2
  <2>3. n >= 2 => after(n)[2] = CarriesOut(after(n)[1], todo[2], ok)
    BY <1>2
  <2>4. n >= 3 => after(n)[3] = CarriesOut(after(n)[2], todo[3], ok)
    BY <1>2
  <2> QED
    BY <2>1, <2>2, <2>3, <2>4
<1> HIDE DEF after, now, first, second, third
<1>5. /\ RunAudio(r, todo, 0, ok) = now /\ RunAudio(r, todo, 1, ok) = first
      /\ RunAudio(r, todo, 2, ok) = second /\ RunAudio(r, todo, 3, ok) = third
  BY <1>3, <1>4
<1> QED
  BY <1>5, Zenon DEF now, first, second, third

\* A sound decision, carried out whole, leaves the audio with whom the roster
\* says.
LEMMA SoundDecisionRuns ==
  ASSUME NEW d, NEW from, Sound(d, from), NEW ok \in BOOLEAN, IsAudio(audio)
  PROVE  LET now == RunAudio(d.roster, d.audio, Len(d.audio), ok)
         IN  /\ IsState(now)
             /\ from = audio.with => now.roster.with = now.audio.with
<1> DEFINE now == [roster |-> d.roster, audio |-> audio]
           first == CarriesOut(now, d.audio[1], ok)
           second == CarriesOut(first, d.audio[2], ok)
           third == CarriesOut(second, d.audio[3], ok)
<1>1. IsState(now) /\ now.roster = d.roster /\ now.audio = audio
  BY DEF Sound, Starts, StopsFirst, IsState
<1>2. /\ RunAudio(d.roster, d.audio, 0, ok) = now /\ RunAudio(d.roster, d.audio, 1, ok) = first
      /\ RunAudio(d.roster, d.audio, 2, ok) = second /\ RunAudio(d.roster, d.audio, 3, ok) = third
  BY RunsInTurn, Zenon
<1> HIDE DEF now
<1>3. IsState(first)
  BY <1>1, CarriesOutIs
<1>4. CASE Starts(d, from)
  <2>1. CASE d.audio = <<>> /\ d.roster.with = from
    <3>1. Len(d.audio) = 0
      BY <2>1
    <3> QED
      BY <1>1, <1>2, <2>1, <3>1
  <2>2. ASSUME from = Nobody, NEW s, d.audio = <<s>>, s.do = "start", s.peer = d.roster.with
        PROVE  /\ IsState(RunAudio(d.roster, d.audio, Len(d.audio), ok))
               /\ from = audio.with => RunAudio(d.roster, d.audio, Len(d.audio), ok).roster.with
                                         = RunAudio(d.roster, d.audio, Len(d.audio), ok).audio.with
    <3>1. Len(d.audio) = 1 /\ d.audio[1] = s
      BY <2>2
    <3>2. from = audio.with => first.roster.with = first.audio.with
      BY <1>1, <2>2, <3>1, CarriesOutIs
    <3> QED
      BY <1>2, <1>3, <3>1, <3>2
  <2> QED
    BY <1>4, <2>1, <2>2 DEF Starts
<1>5. CASE StopsFirst(d)
  <2>1. PICK x : /\ x.do \notin {"stop", "start"}
                 /\ \/ d.audio = <<Stop, x>> /\ d.roster.with = Nobody
                    \/ \E s : d.audio = <<Stop, x, s>> /\ s.do = "start" /\ s.peer = d.roster.with
    BY <1>5 DEF StopsFirst, IsOfAddress
  <2>2. d.audio[1] = Stop /\ d.audio[2] = x
    BY <2>1
  <2>3. first.roster = d.roster /\ first.audio.with = Nobody
    BY <1>1, <2>2, CarriesOutIs DEF Stop
  <2>4. second = first
    BY <1>3, <2>1, <2>2, CarriesOutIs
  <2>5. CASE d.audio = <<Stop, x>> /\ d.roster.with = Nobody
    <3>1. Len(d.audio) = 2
      BY <2>5
    <3> QED
      BY <1>2, <1>3, <2>3, <2>4, <2>5, <3>1
  <2>6. ASSUME NEW s, d.audio = <<Stop, x, s>>, s.do = "start", s.peer = d.roster.with
        PROVE  /\ IsState(RunAudio(d.roster, d.audio, Len(d.audio), ok))
               /\ from = audio.with => RunAudio(d.roster, d.audio, Len(d.audio), ok).roster.with
                                         = RunAudio(d.roster, d.audio, Len(d.audio), ok).audio.with
    <3>1. Len(d.audio) = 3 /\ d.audio[3] = s
      BY <2>6
    <3>2. IsState(third) /\ third.roster.with = third.audio.with
      BY <1>3, <2>3, <2>4, <2>6, <3>1, CarriesOutIs
    <3> QED
      BY <1>2, <3>1, <3>2
  <2> QED
    BY <2>1, <2>5, <2>6
<1> QED
  BY <1>4, <1>5 DEF Sound

\* With no audio yet, entering ends with the audio being with whom the roster says.
LEMMA EnteringRuns ==
  ASSUME IsRoster(roster), IsAudio(audio), audio.with = Nobody, NEW todo, ToStart(roster, todo),
         NEW n \in 0 .. Len(todo), NEW ok \in BOOLEAN
  PROVE  LET now == RunAudio(roster, todo, n, ok)
         IN  /\ IsState(now)
             /\ n = Len(todo) => now.roster.with = now.audio.with
<1> DEFINE now == [roster |-> roster, audio |-> audio]
           first == CarriesOut(now, todo[1], ok)
           second == CarriesOut(first, todo[2], ok)
<1>1. IsState(now) /\ now.roster = roster /\ now.audio = audio
  BY DEF IsState
<1>2. /\ RunAudio(roster, todo, 0, ok) = now /\ RunAudio(roster, todo, 1, ok) = first
      /\ RunAudio(roster, todo, 2, ok) = second
  BY RunsInTurn, Zenon
<1> HIDE DEF now
<1>3. todo[1] = Advertise /\ Advertise.do \notin {"stop", "start"}
  BY DEF ToStart, Advertise
<1>4. first = now
  BY <1>1, <1>3, CarriesOutIs
<1>5. CASE todo = <<Advertise>> /\ roster.with = Nobody
  <2>1. Len(todo) = 1 /\ n \in {0, 1}
    BY <1>5
  <2> QED
    BY <1>1, <1>2, <1>4, <1>5, <2>1
<1>6. ASSUME NEW s, todo = <<Advertise, s>>, s.do = "start", s.peer = roster.with
      PROVE  LET then == RunAudio(roster, todo, n, ok)
             IN  /\ IsState(then)
                 /\ n = Len(todo) => then.roster.with = then.audio.with
  <2>1. Len(todo) = 2 /\ n \in {0, 1, 2} /\ todo[2] = s
    BY <1>6
  <2>2. IsState(second) /\ second.roster.with = second.audio.with
    BY <1>1, <1>4, <1>6, <2>1, CarriesOutIs
  <2> QED
    BY <1>1, <1>2, <1>4, <2>1, <2>2
<1> QED
  BY <1>5, <1>6 DEF ToStart

(***************************************************************************)
(* The steps and the flow: who is at work, and what an action does to them *)
(***************************************************************************)
TaskTypes ==
    /\ IsQueue(tasks) /\ \A id \in DOMAIN tasks : IsTask(tasks[id])
    /\ IsQueue(flow)
    /\ epoch \in Nat /\ connection \in Conns \cup {NoConn} /\ room \in BOOLEAN

Rests(t) == t.place \in {"clock", "done"}
\* It has had its turn and is not over.
AtWork(t) == t.place \notin {"turn", "clock", "done"}
FlowInv ==
    \A id \in DOMAIN tasks :
        /\ ~Rests(tasks[id]) => In(InTurn(id), flow)
        /\ AtWork(tasks[id]) => HasTurn(InTurn(id))

\* Nobody waits under another's name.
LEMMA TurnsDiffer ==
  /\ \A i, j : InTurn(i) = InTurn(j) => i = j
  /\ \A i, c : InTurn(i) # InPump(c)
<1>1. ASSUME NEW i, NEW j, InTurn(i) = InTurn(j) PROVE i = j
  <2>1. InTurn(i)[2] = i /\ InTurn(j)[2] = j
    BY DEF InTurn
  <2> QED
    BY <1>1, <2>1
<1>2. ASSUME NEW i, NEW c PROVE InTurn(i) # InPump(c)
  <2>1. InTurn(i)[1] = "task" /\ InPump(c)[1] = "pump"
    BY DEF InTurn, InPump
  <2> QED
    BY <2>1
<1> QED
  BY <1>1, <1>2

\* Only who has the turn is at work.
LEMMA OneAtWork ==
  ASSUME FlowInv, NEW id \in DOMAIN tasks, HasTurn(InTurn(id)) \/ AtWork(tasks[id])
  PROVE  HasTurn(InTurn(id)) /\ \A j \in DOMAIN tasks : j # id => ~AtWork(tasks[j])
  BY TurnsDiffer DEF FlowInv, HasTurn

\* While a pump has the turn no step is at work.
LEMMA NoneAtWork ==
  ASSUME FlowInv, NEW c, HasTurn(InPump(c))
  PROVE  \A j \in DOMAIN tasks : ~AtWork(tasks[j])
  BY TurnsDiffer DEF FlowInv, HasTurn

\* The step id becomes t, and is at `place` with `conn` in hand.
Moves(id, place, conn, rejoin) ==
    /\ DOMAIN tasks' = DOMAIN tasks
    /\ \A j \in DOMAIN tasks : j # id => tasks'[j] = tasks[j]
    /\ IsQueue(tasks') /\ IsTask(tasks'[id])
    /\ tasks'[id].kind = tasks[id].kind
    /\ tasks'[id].place = place /\ tasks'[id].conn = conn /\ tasks'[id].rejoin = rejoin
GoesTo(id, place, conn, rejoin) ==
    Moves(id, place, conn, rejoin) /\ tasks'[id].epoch = tasks[id].epoch
Ends(id) == Moves(id, "done", NoConn, FALSE) /\ tasks'[id].epoch = 0

\* The step id becomes t.
LEMMA Puts ==
  ASSUME TaskTypes, NEW id \in DOMAIN tasks, NEW t, IsTask(t), t.kind = tasks[id].kind,
         PutTask(id, t)
  PROVE  Moves(id, t.place, t.conn, t.rejoin) /\ tasks'[id] = t
  BY ExceptQueue DEF TaskTypes, PutTask, Moves

\* The step id is over.
LEMMA OverEnds ==
  ASSUME TaskTypes, NEW id \in DOMAIN tasks, PutTask(id, Over(tasks[id]))
  PROVE  Ends(id)
<1> DEFINE t == Over(tasks[id])
<1>1. /\ IsTask(t) /\ t.rejoin = FALSE /\ t.kind = tasks[id].kind /\ t.place = "done"
      /\ t.conn = NoConn /\ t.epoch = 0
  BY OverIs DEF TaskTypes, Over, NewTask
<1> HIDE DEF t
<1>2. PutTask(id, t)
  BY DEF t
<1> QED
  BY <1>1, <1>2, Puts DEF Ends

\* The step id is over and lets the flow go.
LEMMA FinishEnds ==
  ASSUME TaskTypes, NEW id \in DOMAIN tasks, Finish(id)
  PROVE  Ends(id) /\ flow' = Tail(flow)
  BY OverEnds DEF Finish

\* The places by name.
LEMMA PlacesAre == /\ "connecting" \in Places /\ "listing" \in Places /\ "entering" \in Places
                   /\ "leaving" \in Places /\ "audio" \in Places /\ "pausing" \in Places
                   /\ "clock" \in Places /\ "done" \in Places /\ "turn" \in Places
  BY DEF Places

\* No connection is none of the connections.
LEMMA NoConnIs == NoConn \notin Conns /\ NoConn \in Conns \cup {NoConn}
  BY SessionAssumption DEF NoConn, Conns

\* The step id moves to another place.
LEMMA PutsPlace ==
  ASSUME TaskTypes, NEW id \in DOMAIN tasks, NEW place \in Places,
         PutTask(id, [tasks[id] EXCEPT !.place = place])
  PROVE  GoesTo(id, place, tasks[id].conn, tasks[id].rejoin)
<1> DEFINE t == [tasks[id] EXCEPT !.place = place]
<1>1. /\ IsTask(t) /\ t.kind = tasks[id].kind /\ t.epoch = tasks[id].epoch /\ t.place = place
      /\ t.conn = tasks[id].conn /\ t.rejoin = tasks[id].rejoin
  BY PlacedIs DEF TaskTypes
<1>2. PutTask(id, t)
  OBVIOUS
<1> HIDE DEF t
<1> QED
  BY <1>1, <1>2, Puts DEF GoesTo

\* The step id moves to another place with another connection in hand.
LEMMA PutsPlaceConn ==
  ASSUME TaskTypes, NEW id \in DOMAIN tasks, NEW place \in Places, NEW c \in Conns \cup {NoConn},
         \/ PutTask(id, [tasks[id] EXCEPT !.place = place, !.conn = c])
         \/ PutTask(id, [tasks[id] EXCEPT !.conn = c, !.place = place])
  PROVE  GoesTo(id, place, c, tasks[id].rejoin)
<1> DEFINE t == [tasks[id] EXCEPT !.place = place, !.conn = c]
<1>1. /\ IsTask(t) /\ t.kind = tasks[id].kind /\ t.epoch = tasks[id].epoch /\ t.place = place
      /\ t.conn = c /\ t.rejoin = tasks[id].rejoin
      /\ [tasks[id] EXCEPT !.conn = c, !.place = place] = t
  BY PlacedWithConnIs DEF TaskTypes
<1>2. PutTask(id, t)
  BY <1>1
<1> HIDE DEF t
<1> QED
  BY <1>1, <1>2, Puts DEF GoesTo

(* One lemma for each kind of step. *)
\* It takes its turn to connect.
LEMMA ConnectTurnMoves ==
  ASSUME TaskTypes, NEW id \in DOMAIN tasks, ConnectTurn(id)
  PROVE  GoesTo(id, "connecting", tasks[id].conn, tasks[id].rejoin)
  BY PutsPlace, PlacesAre DEF ConnectTurn

\* It takes its turn to get the connection back, for the room the app is in.
LEMMA ReconnectTurnMoves ==
  ASSUME TaskTypes, NEW id \in DOMAIN tasks, ReconnectTurn(id)
  PROVE  GoesTo(id, "connecting", tasks[id].conn, room)
<1> DEFINE t == [tasks[id] EXCEPT !.place = "connecting", !.rejoin = room]
<1>1. /\ IsTask(t) /\ t.kind = tasks[id].kind /\ t.epoch = tasks[id].epoch
      /\ t.place = "connecting" /\ t.conn = tasks[id].conn /\ t.rejoin = room
  <2>1. room \in BOOLEAN /\ IsTask(tasks[id]) /\ "connecting" \in Places
    BY PlacesAre DEF TaskTypes
  <2> QED
    BY <2>1 DEF IsTask, TaskFields
<1>2. PutTask(id, t)
  BY DEF ReconnectTurn
<1> HIDE DEF t
<1>3. Moves(id, t.place, t.conn, t.rejoin) /\ tasks'[id] = t
  BY <1>1, <1>2, Puts
<1> QED
  BY <1>1, <1>3, Zenon DEF GoesTo

\* It takes its turn to enter a room, with the session's connection, or finds
\* it cannot.
LEMMA EnterTurnMoves ==
  ASSUME TaskTypes, NEW id \in DOMAIN tasks, EnterTurn(id)
  PROVE  IF room \/ connection = NoConn THEN Ends(id) /\ flow' = Tail(flow)
         ELSE GoesTo(id, "entering", connection, tasks[id].rejoin) /\ flow' = flow
<1>1. CASE room \/ connection = NoConn
  BY <1>1, FinishEnds DEF EnterTurn
<1>2. CASE ~(room \/ connection = NoConn)
  <2>1. PutTask(id, [tasks[id] EXCEPT !.place = "entering", !.conn = connection]) /\ flow' = flow
    BY <1>2 DEF EnterTurn
  <2> QED
    BY <1>2, <2>1, PutsPlaceConn, PlacesAre DEF TaskTypes
<1> QED
  BY <1>1, <1>2

\* It takes its turn to leave: it connects anew, has nothing to leave, or
\* leaves.
LEMMA LeaveTurnMoves ==
  ASSUME TaskTypes, NEW id \in DOMAIN tasks, LeaveTurn(id)
  PROVE  \/ /\ connection = NoConn /\ epoch' = epoch + 1 /\ UNCHANGED audio
            /\ DOMAIN tasks' = DOMAIN tasks
            /\ \A j \in DOMAIN tasks : j # id => tasks'[j] = tasks[j]
            /\ IsQueue(tasks') /\ tasks'[id] = NewTask("connect", epoch')
            /\ flow' = Append(Tail(flow), InTurn(id))
         \/ /\ connection # NoConn /\ ~room /\ UNCHANGED <<epoch, audio>>
            /\ Ends(id) /\ flow' = Tail(flow)
         \/ /\ connection # NoConn /\ room /\ UNCHANGED <<epoch, flow>>
            /\ audio' = AudioOff
            /\ GoesTo(id, "leaving", connection, tasks[id].rejoin)
<1>1. CASE connection = NoConn
  <2>1. PutTask(id, NewTask("connect", epoch')) /\ epoch' = epoch + 1 /\ UNCHANGED audio
        /\ flow' = Append(Tail(flow), InTurn(id))
    BY <1>1 DEF LeaveTurn
  <2> QED
    BY <1>1, <2>1, ExceptQueue DEF TaskTypes, PutTask
<1>2. CASE connection # NoConn /\ ~room
  <2>1. Finish(id) /\ UNCHANGED <<epoch, audio>>
    BY <1>2 DEF LeaveTurn
  <2> QED
    BY <1>2, <2>1, FinishEnds
<1>3. CASE connection # NoConn /\ room
  <2>1. /\ PutTask(id, [tasks[id] EXCEPT !.place = "leaving", !.conn = connection])
        /\ UNCHANGED <<epoch, flow>> /\ audio' = AudioOff
    BY <1>3 DEF LeaveTurn
  <2> QED
    BY <1>3, <2>1, PutsPlaceConn, PlacesAre DEF TaskTypes
<1> QED
  BY <1>1, <1>2, <1>3 DEF TaskTypes

\* It reaches the server: too late, or with a connection for the session or for
\* itself.
LEMMA ConnectsMoves ==
  ASSUME TaskTypes, NEW id \in DOMAIN tasks, Connects(id)
  PROVE  \E c \in Conns :
            /\ conns[c] = "none"
            /\ \/ /\ Ended(tasks[id]) /\ Ends(id) /\ flow' = Tail(flow)
                  /\ conns' = [conns EXCEPT ![c] = "closed"] /\ UNCHANGED <<connection, pumps>>
               \/ /\ ~Ended(tasks[id]) /\ tasks[id].kind = "connect"
                  /\ GoesTo(id, "listing", c, tasks[id].rejoin) /\ flow' = flow
                  /\ conns' = [conns EXCEPT ![c] = "open"] /\ connection' = c /\ SpawnPump(c, id)
               \/ /\ ~Ended(tasks[id]) /\ tasks[id].kind # "connect"
                  /\ GoesTo(id, IF tasks[id].rejoin THEN "entering" ELSE "listing", c, tasks[id].rejoin)
                  /\ flow' = flow
                  /\ conns' = [conns EXCEPT ![c] = "open"] /\ UNCHANGED <<connection, pumps>>
<1> DEFINE t == tasks[id]
<1>1. PICK c \in Conns :
            /\ conns[c] = "none"
            /\ CASE Ended(t) ->
                      /\ conns' = [conns EXCEPT ![c] = "closed"]
                      /\ Finish(id)
                      /\ UNCHANGED <<connection, pumps>>
                 [] ~Ended(t) /\ t.kind = "connect" ->
                      /\ conns' = [conns EXCEPT ![c] = "open"]
                      /\ connection' = c
                      /\ SpawnPump(c, id)
                      /\ PutTask(id, [t EXCEPT !.place = "listing", !.conn = c])
                      /\ UNCHANGED flow
                 [] OTHER ->
                      /\ conns' = [conns EXCEPT ![c] = "open"]
                      /\ PutTask(id, [t EXCEPT !.conn = c, !.place =
                                        IF t.rejoin THEN "entering" ELSE "listing"])
                      /\ UNCHANGED <<connection, flow, pumps>>
  BY Zenon DEF Connects
<1>2. CASE Ended(t)
  <2>1. conns' = [conns EXCEPT ![c] = "closed"] /\ Finish(id) /\ UNCHANGED <<connection, pumps>>
    BY <1>1, <1>2
  <2> QED
    BY <1>1, <1>2, <2>1, FinishEnds
<1>3. CASE ~Ended(t) /\ t.kind = "connect"
  <2>1. /\ conns' = [conns EXCEPT ![c] = "open"] /\ connection' = c /\ SpawnPump(c, id)
        /\ PutTask(id, [t EXCEPT !.place = "listing", !.conn = c])
        /\ UNCHANGED flow
    BY <1>1, <1>3, Zenon
  <2>2. GoesTo(id, "listing", c, tasks[id].rejoin)
    BY <2>1, PutsPlaceConn, PlacesAre
  <2> QED
    BY <1>1, <1>3, <2>1, <2>2
<1>4. CASE ~Ended(t) /\ t.kind # "connect"
  <2> DEFINE place == IF t.rejoin THEN "entering" ELSE "listing"
  <2>1. /\ conns' = [conns EXCEPT ![c] = "open"]
        /\ PutTask(id, [t EXCEPT !.conn = c, !.place = place])
        /\ UNCHANGED <<connection, flow, pumps>>
    BY <1>1, <1>4, Zenon
  <2>2. place \in Places
    BY PlacesAre
  <2> HIDE DEF place
  <2>3. GoesTo(id, place, c, tasks[id].rejoin)
    BY <2>1, <2>2, PutsPlaceConn
  <2> QED
    BY <1>1, <1>4, <2>1, <2>3 DEF place
<1> QED
  BY <1>2, <1>3, <1>4

\* An attempt to get the connection back fails: it pauses, or gives up.
LEMMA AttemptFailsMoves ==
  ASSUME TaskTypes, NEW id \in DOMAIN tasks, AttemptFails(id)
  PROVE  \/ GoesTo(id, "pausing", NoConn, tasks[id].rejoin) /\ UNCHANGED <<inner, flow>>
         \/ /\ Ends(id) /\ flow' = Tail(flow) /\ tasks[id].rejoin
            /\ reconnect' = "failed"
            /\ UNCHANGED <<epoch, phase, connection, joining, error, room, roster>>
         \/ Ends(id) /\ flow' = Tail(flow) /\ ~tasks[id].rejoin /\ FailsUnlessEnded(id)
<1>1. CASE tasks[id].attempt < MaxAttempts
  <2>1. /\ PutTask(id, [tasks[id] EXCEPT !.place = "pausing", !.conn = NoConn])
        /\ UNCHANGED <<inner, flow>>
    BY <1>1 DEF AttemptFails
  <2> QED
    BY <2>1, PutsPlaceConn, PlacesAre, NoConnIs
<1>2. CASE ~(tasks[id].attempt < MaxAttempts)
  <2>1. Finish(id)
    BY <1>2 DEF AttemptFails
  <2> QED
    BY <1>2, <2>1, FinishEnds DEF AttemptFails
<1> QED
  BY <1>1, <1>2

\* It does not reach the server: it fails, or waits for the clock.
LEMMA ConnectFailsMoves ==
  ASSUME TaskTypes, NEW id \in DOMAIN tasks, ConnectFails(id)
  PROVE  \/ tasks[id].kind = "reconnect" /\ AttemptFails(id)
         \/ /\ tasks[id].kind # "reconnect" /\ FailsUnlessEnded(id) /\ flow' = Tail(flow)
            /\ \/ Ends(id)
               \/ ~Ended(tasks[id]) /\ GoesTo(id, "clock", tasks[id].conn, tasks[id].rejoin)
<1>1. CASE tasks[id].kind # "reconnect" /\ Finish(id)
  BY <1>1, FinishEnds DEF ConnectFails
<1>2. CASE /\ ~Ended(tasks[id])
           /\ PutTask(id, [tasks[id] EXCEPT !.place = "clock"]) /\ flow' = Tail(flow)
           /\ tasks[id].kind # "reconnect"
  BY <1>2, PutsPlace, PlacesAre DEF ConnectFails
<1> QED
  BY <1>1, <1>2 DEF ConnectFails

\* The clock is right, and it waits for its turn again.
LEMMA ClockMoves ==
  ASSUME TaskTypes, NEW id \in DOMAIN tasks, ClockIsRight(id)
  PROVE  GoesTo(id, "turn", tasks[id].conn, tasks[id].rejoin)
  BY PutsPlace, PlacesAre DEF ClockIsRight

\* It tries again.
LEMMA TriesAgainMoves ==
  ASSUME TaskTypes, NEW id \in DOMAIN tasks, TriesAgain(id)
  PROVE  GoesTo(id, "connecting", tasks[id].conn, tasks[id].rejoin)
<1> DEFINE t == [tasks[id] EXCEPT !.place = "connecting", !.attempt = @ + 1]
<1>1. /\ IsTask(t) /\ t.kind = tasks[id].kind /\ t.epoch = tasks[id].epoch
      /\ t.place = "connecting" /\ t.conn = tasks[id].conn /\ t.rejoin = tasks[id].rejoin
  <2>1. IsTask(tasks[id]) /\ "connecting" \in Places
    BY PlacesAre DEF TaskTypes
  <2> QED
    BY <2>1 DEF IsTask, TaskFields
<1>2. PutTask(id, t)
  BY DEF TriesAgain
<1> HIDE DEF t
<1> QED
  BY <1>1, <1>2, Puts DEF GoesTo

\* It enters a room, and is to start the audio the roster decides on.
LEMMA EntersMoves ==
  ASSUME TaskTypes, IsRoster(roster), NEW id \in DOMAIN tasks, Enters(id)
  PROVE  /\ GoesTo(id, "audio", tasks[id].conn, tasks[id].rejoin)
         /\ IsRoster(roster') /\ ToStart(roster', tasks'[id].todo)
<1>1. PICK peers : LET entered == Entered(roster, Own, peers)
                   IN  /\ roster' = entered.roster
                       /\ PutTask(id, [tasks[id] EXCEPT !.place = "audio", !.todo = entered.audio])
  BY DEF Enters
<1> DEFINE entered == Entered(roster, Own, peers)
           t == [tasks[id] EXCEPT !.place = "audio", !.todo = entered.audio]
<1>2. IsRoster(entered.roster) /\ ToStart(entered.roster, entered.audio)
  BY EnteredIs
<1>3. roster' = entered.roster /\ PutTask(id, t)
  BY <1>1
<1> HIDE DEF entered
<1>4. /\ IsTask(t) /\ t.kind = tasks[id].kind /\ t.epoch = tasks[id].epoch
      /\ t.place = "audio" /\ t.conn = tasks[id].conn /\ t.rejoin = tasks[id].rejoin
      /\ t.todo = entered.audio
  <2>1. IsTask(tasks[id]) /\ "audio" \in Places
    BY PlacesAre DEF TaskTypes
  <2> QED
    BY <2>1 DEF IsTask, TaskFields
<1> HIDE DEF t
<1>5. Moves(id, t.place, t.conn, t.rejoin) /\ tasks'[id] = t
  BY <1>3, <1>4, Puts
<1>6. GoesTo(id, "audio", tasks[id].conn, tasks[id].rejoin)
  BY <1>4, <1>5 DEF GoesTo
<1>7. ToStart(roster', tasks'[id].todo)
  BY <1>2, <1>3, <1>4, <1>5, Zenon
<1> QED
  BY <1>2, <1>3, <1>6, <1>7

\* A step is asked for: there is one more, which waits for its turn.
Joins(kind, e) ==
    /\ IsQueue(tasks')
    /\ \E new \in DOMAIN tasks' :
          /\ new \notin DOMAIN tasks
          /\ DOMAIN tasks' = DOMAIN tasks \cup {new}
          /\ \A j \in DOMAIN tasks : tasks'[j] = tasks[j]
          /\ tasks'[new] = NewTask(kind, e)
          /\ In(InTurn(new), flow')
\* A step is asked for: there is one more, which waits for its turn.
LEMMA AskedJoins ==
  ASSUME TaskTypes, NEW queue, IsQueue(queue), NEW kind, NEW e, AsksBehind(queue, kind, e)
  PROVE  /\ Joins(kind, e) /\ IsQueue(flow')
         /\ queue # <<>> => flow' # <<>> /\ Head(flow') = Head(queue)
         /\ \A x : In(x, queue) => In(x, flow')
<1> DEFINE new == Len(tasks) + 1
<1>1. tasks' = Append(tasks, NewTask(kind, e)) /\ flow' = Append(queue, InTurn(new))
  BY DEF AsksBehind
<1>2. DOMAIN tasks = 1 .. Len(tasks) /\ Len(tasks) \in Nat
  BY QueueShape DEF TaskTypes
<1>3. /\ IsQueue(tasks') /\ DOMAIN tasks' = 1 .. new
      /\ \A j \in 1 .. Len(tasks) : tasks'[j] = tasks[j]
      /\ tasks'[new] = NewTask(kind, e)
  BY <1>1, AppendQueue DEF TaskTypes
<1>4. /\ IsQueue(flow') /\ In(InTurn(new), flow') /\ flow' # <<>>
      /\ queue # <<>> => Head(flow') = Head(queue)
      /\ \A x : In(x, queue) => In(x, flow')
  BY <1>1, AppendQueue
<1>5. new \in DOMAIN tasks' /\ new \notin DOMAIN tasks /\ DOMAIN tasks' = DOMAIN tasks \cup {new}
  BY <1>2, <1>3
<1> HIDE DEF new
<1> QED
  BY <1>2, <1>3, <1>4, <1>5 DEF Joins

\* What a command does to the steps.
LEMMA CommandJoins ==
  ASSUME TaskTypes, Command
  PROVE  \E kind \in Kinds, e \in Nat :
            /\ AsksBehind(flow, kind, e)
            /\ \/ epoch' = epoch /\ e = 0 /\ kind \notin {"connect", "reconnect"}
               \/ epoch' = epoch + 1 /\ e = epoch' /\ kind \in {"connect", "reconnect"}
            /\ UNCHANGED <<phase, connection, joining, error, room, reconnect, roster, registry,
                           pumps, audio, there>>
<1> USE DEF Asks, Kinds, TaskTypes, inner
<1>1. CASE SessionConnect
  BY <1>1 DEF SessionConnect
<1>2. CASE SessionEnter("create")
  BY <1>2 DEF SessionEnter
<1>3. CASE SessionEnter("join")
  BY <1>3 DEF SessionEnter
<1>4. CASE SessionLeave
  BY <1>4 DEF SessionLeave
<1>5. CASE SessionReconnect
  BY <1>5 DEF SessionReconnect
<1> QED
  BY <1>1, <1>2, <1>3, <1>4, <1>5 DEF Command

\* What a pump does to the steps when it goes on with the flow held and waited for
\* by `queue`.
LEMMA GoesOnMoves ==
  ASSUME TaskTypes, NEW c \in Conns, NEW batch, NEW queue, GoesOn(c, batch, queue)
  PROVE  \/ /\ UNCHANGED <<epoch, tasks>>
            /\ \/ flow' = queue
               \/ flow' = Append(queue, InPump(c))
            /\ \/ \E link : pumps' = [pumps EXCEPT ![c].at = "link", ![c].batch = <<>>, ![c].link = link]
               \/ pumps' = [pumps EXCEPT ![c].at = "sleep", ![c].batch = <<>>, ![c].after = 0]
               \/ pumps' = [pumps EXCEPT ![c].at = "event", ![c].batch = batch]
         \/ /\ connection # c /\ UNCHANGED <<epoch, tasks>> /\ flow' = queue
            /\ pumps' = [pumps EXCEPT ![c].at = "none", ![c].batch = <<>>]
         \/ /\ connection = c /\ epoch' = epoch + 1 /\ AsksBehind(queue, "reconnect", epoch')
            /\ pumps' = [pumps EXCEPT ![c].at = "none", ![c].batch = <<>>]
<1>1. CASE batch = <<>>
  <2>1. LooksAtLink(c, queue) /\ UNCHANGED <<epoch, tasks>>
    BY <1>1 DEF GoesOn
  <2> QED
    BY <2>1, Zenon DEF LooksAtLink
<1>2. CASE batch # <<>> /\ Head(batch).what = "lost"
  <2>1. GetsConnectionBack(c, queue)
    BY <1>2 DEF GoesOn
  <2> QED
    BY <2>1 DEF GetsConnectionBack
<1>3. CASE batch # <<>> /\ Head(batch).what # "lost"
  <2>1. /\ pumps' = [pumps EXCEPT ![c].at = "event", ![c].batch = batch]
        /\ flow' = Append(queue, InPump(c)) /\ UNCHANGED <<epoch, tasks>>
    BY <1>3, Zenon DEF GoesOn
  <2> QED
    BY <2>1
<1> QED
  BY <1>1, <1>2, <1>3

(***************************************************************************)
(* Types, and the flow: whoever is at work has the turn, and whoever waits *)
(* for one is in the queue.                                                *)
(***************************************************************************)
ScreenTypes ==
    /\ phase \in Phases /\ joining \in BOOLEAN /\ error \in BOOLEAN
    /\ reconnect \in {"idle", "reconnecting", "failed"}
RosterTypes == IsRoster(roster) /\ IsAudio(audio)
ConnTypes ==
    /\ conns \in [Conns -> {"none", "open", "lost", "closed"}]
    /\ DOMAIN pumps = Conns /\ \A c \in Conns : IsPump(pumps[c])
Types == TaskTypes /\ ScreenTypes /\ RosterTypes /\ ConnTypes

QueueTypes ==
    /\ IsQueue(tasks) /\ \A id \in DOMAIN tasks : IsTask(tasks[id])
    /\ IsQueue(flow)

\* Who has the turn is in the queue.
LEMMA TurnIsIn ==
  ASSUME IsQueue(flow), NEW who, HasTurn(who)
  PROVE  In(who, flow)
<1>1. PICK S : flow \in Seq(S)
  BY DEF IsQueue
<1>2. flow # <<>> /\ Head(flow) = who
  BY DEF HasTurn
<1>3. Head(flow) = flow[1]
  BY <1>1
<1>4. 1 \in DOMAIN flow
  BY <1>2, QueueShape
<1> QED
  BY <1>2, <1>3, <1>4 DEF In

\* A step that moves keeps its turn.
LEMMA MoveKeepsFlow ==
  ASSUME TaskTypes, FlowInv, NEW id \in DOMAIN tasks, HasTurn(InTurn(id)), NEW place, NEW c, NEW b,
         Moves(id, place, c, b), flow' = flow
  PROVE  QueueTypes' /\ FlowInv'
<1>1. In(InTurn(id), flow)
  BY TurnIsIn DEF TaskTypes
<1>2. QueueTypes'
  BY DEF TaskTypes, QueueTypes, Moves
<1>3. \A j \in DOMAIN tasks : j # id => ~AtWork(tasks[j])
  BY OneAtWork
<1>4. FlowInv'
  BY <1>1, <1>3 DEF FlowInv, Moves, HasTurn
<1> QED
  BY <1>2, <1>4

\* A step that ends, or waits for the clock, gives the turn to the next.
LEMMA EndLetsFlowGo ==
  ASSUME TaskTypes, FlowInv, NEW id \in DOMAIN tasks, HasTurn(InTurn(id)),
         NEW place \in {"clock", "done"}, NEW c, NEW b,
         Moves(id, place, c, b), flow' = Tail(flow)
  PROVE  QueueTypes' /\ FlowInv'
<1>1. \A j \in DOMAIN tasks : j # id => ~AtWork(tasks[j])
  BY OneAtWork
<1>2. flow # <<>> /\ Head(flow) = InTurn(id)
  BY DEF HasTurn
<1>3. IsQueue(flow') /\ \A x : In(x, flow) /\ x # InTurn(id) => In(x, flow')
  BY <1>2, TailQueue DEF TaskTypes
<1>4. \A j : j # id => InTurn(j) # InTurn(id)
  BY TurnsDiffer
<1>5. QueueTypes'
  BY <1>3 DEF TaskTypes, QueueTypes, Moves
<1>6. FlowInv'
  BY <1>1, <1>3, <1>4 DEF FlowInv, Moves, Rests, AtWork
<1> QED
  BY <1>5, <1>6

\* A step that is to wait again goes to the end of the queue.
LEMMA WaitsAnew ==
  ASSUME TaskTypes, FlowInv, NEW id \in DOMAIN tasks,
         \/ tasks[id].place = "clock" /\ flow' = Append(flow, InTurn(id))
         \/ HasTurn(InTurn(id)) /\ flow' = Append(Tail(flow), InTurn(id)),
         DOMAIN tasks' = DOMAIN tasks, \A j \in DOMAIN tasks : j # id => tasks'[j] = tasks[j],
         IsQueue(tasks'), IsTask(tasks'[id]), tasks'[id].place = "turn"
  PROVE  QueueTypes' /\ FlowInv'
<1>1. CASE tasks[id].place = "clock" /\ flow' = Append(flow, InTurn(id))
  <2>1. /\ IsQueue(flow') /\ In(InTurn(id), flow') /\ flow' # <<>>
        /\ flow # <<>> => Head(flow') = Head(flow)
        /\ \A x : In(x, flow) => In(x, flow')
    BY <1>1, AppendQueue DEF TaskTypes
  <2> QED
    BY <1>1, <2>1 DEF TaskTypes, QueueTypes, FlowInv, HasTurn, Rests, AtWork
<1>2. CASE HasTurn(InTurn(id)) /\ flow' = Append(Tail(flow), InTurn(id))
  <2>1. \A j \in DOMAIN tasks : j # id => ~AtWork(tasks[j])
    BY <1>2, OneAtWork
  <2>2. flow # <<>> /\ Head(flow) = InTurn(id)
    BY <1>2 DEF HasTurn
  <2>3. IsQueue(Tail(flow)) /\ \A x : In(x, flow) /\ x # InTurn(id) => In(x, Tail(flow))
    BY <2>2, TailQueue DEF TaskTypes
  <2>4. /\ IsQueue(flow') /\ In(InTurn(id), flow')
        /\ \A x : In(x, Tail(flow)) => In(x, flow')
    BY <1>2, <2>3, AppendQueue
  <2>5. \A j : j # id => InTurn(j) # InTurn(id)
    BY TurnsDiffer
  <2> QED
    BY <2>1, <2>3, <2>4, <2>5 DEF TaskTypes, QueueTypes, FlowInv, Rests, AtWork
<1> QED
  BY <1>1, <1>2

\* A pump that goes on takes nobody's place.
LEMMA PumpMovesOn ==
  ASSUME TaskTypes, FlowInv, NEW c, NEW queue,
         queue = flow \/ (HasTurn(InPump(c)) /\ queue = Tail(flow))
  PROVE  /\ IsQueue(queue)
         /\ \A id \in DOMAIN tasks : ~Rests(tasks[id]) => In(InTurn(id), queue)
         /\ \A id \in DOMAIN tasks : AtWork(tasks[id]) => queue # <<>> /\ Head(queue) = InTurn(id)
<1>1. CASE queue = flow
  BY <1>1 DEF TaskTypes, FlowInv, HasTurn
<1>2. CASE HasTurn(InPump(c)) /\ queue = Tail(flow)
  <2>1. flow # <<>> /\ Head(flow) = InPump(c)
    BY <1>2 DEF HasTurn
  <2>2. IsQueue(queue) /\ \A x : In(x, flow) /\ x # InPump(c) => In(x, queue)
    BY <1>2, <2>1, TailQueue DEF TaskTypes
  <2>3. \A id \in DOMAIN tasks : ~AtWork(tasks[id])
    BY <1>2, NoneAtWork
  <2> QED
    BY <2>2, <2>3, TurnsDiffer DEF FlowInv
<1> QED
  BY <1>1, <1>2

\* A step that is asked for goes to the end of the queue.
LEMMA JoinsFlow ==
  ASSUME TaskTypes, FlowInv, NEW c, NEW queue,
         queue = flow \/ (HasTurn(InPump(c)) /\ queue = Tail(flow)),
         NEW kind \in Kinds, NEW e \in Nat, AsksBehind(queue, kind, e)
  PROVE  QueueTypes' /\ FlowInv'
<1>1. /\ IsQueue(queue)
      /\ \A id \in DOMAIN tasks : ~Rests(tasks[id]) => In(InTurn(id), queue)
      /\ \A id \in DOMAIN tasks : AtWork(tasks[id]) => queue # <<>> /\ Head(queue) = InTurn(id)
  BY PumpMovesOn
<1>2. /\ Joins(kind, e) /\ IsQueue(flow')
      /\ queue # <<>> => flow' # <<>> /\ Head(flow') = Head(queue)
      /\ \A x : In(x, queue) => In(x, flow')
  <2>1. IsQueue(queue)
    BY <1>1
  <2> QED
    BY <2>1, AskedJoins
<1>3. IsTask(NewTask(kind, e)) /\ NewTask(kind, e).place = "turn"
  BY NewTaskIs
<1>4. PICK new \in DOMAIN tasks' :
         /\ new \notin DOMAIN tasks
         /\ DOMAIN tasks' = DOMAIN tasks \cup {new}
         /\ \A j \in DOMAIN tasks : tasks'[j] = tasks[j]
         /\ tasks'[new] = NewTask(kind, e)
         /\ In(InTurn(new), flow')
  <2>1. Joins(kind, e)
    BY <1>2
  <2> QED
    BY <2>1, Zenon DEF Joins
<1>5. \A j \in DOMAIN tasks' : j = new \/ j \in DOMAIN tasks
  BY <1>4
<1>6. ASSUME NEW j \in DOMAIN tasks'
      PROVE  /\ IsTask(tasks'[j])
             /\ ~Rests(tasks'[j]) => In(InTurn(j), flow')
             /\ AtWork(tasks'[j]) => flow' # <<>> /\ Head(flow') = InTurn(j)
  <2>1. CASE j = new
    BY <1>3, <1>4, <2>1 DEF AtWork
  <2>2. CASE j \in DOMAIN tasks
    <3>1. tasks'[j] = tasks[j] /\ IsTask(tasks[j])
      BY <1>4, <2>2 DEF TaskTypes
    <3>2. ~Rests(tasks[j]) => In(InTurn(j), flow')
      BY <1>1, <1>2, <2>2
    <3>3. AtWork(tasks[j]) => flow' # <<>> /\ Head(flow') = InTurn(j)
      BY <1>1, <1>2, <2>2
    <3> QED
      BY <3>1, <3>2, <3>3
  <2> QED
    BY <1>5, <2>1, <2>2
<1>7. IsQueue(tasks')
  BY <1>2 DEF Joins
<1> QED
  BY <1>2, <1>6, <1>7 DEF QueueTypes, FlowInv, HasTurn

\* A pump that lets its turn go, or asks for one, changes nothing of the steps.
LEMMA SameTasksFlow ==
  ASSUME TaskTypes, FlowInv, NEW c, NEW queue,
         queue = flow \/ (HasTurn(InPump(c)) /\ queue = Tail(flow)),
         UNCHANGED tasks, flow' = queue \/ flow' = Append(queue, InPump(c))
  PROVE  QueueTypes' /\ FlowInv'
<1>1. /\ IsQueue(queue)
      /\ \A id \in DOMAIN tasks : ~Rests(tasks[id]) => In(InTurn(id), queue)
      /\ \A id \in DOMAIN tasks : AtWork(tasks[id]) => queue # <<>> /\ Head(queue) = InTurn(id)
  BY PumpMovesOn
<1>2. /\ IsQueue(flow')
      /\ queue # <<>> => flow' # <<>> /\ Head(flow') = Head(queue)
      /\ \A x : In(x, queue) => In(x, flow')
  <2>1. CASE flow' = queue
    BY <1>1, <2>1
  <2>2. CASE flow' = Append(queue, InPump(c))
    BY <1>1, <2>2, AppendQueue
  <2> QED
    BY <2>1, <2>2
<1> QED
  BY <1>1, <1>2 DEF QueueTypes, TaskTypes, FlowInv, HasTurn

\* A step that was ended is over, and gives its turn to the next if it had it.
LEMMA StopsMoves ==
  ASSUME TaskTypes, FlowInv, NEW id \in DOMAIN tasks, Stops(id)
  PROVE  /\ Ends(id) /\ Endable(tasks[id]) /\ Ended(tasks[id])
         /\ conns' = Dropped(tasks[id])
         /\ \/ tasks[id].place = "clock" /\ flow' = flow
            \/ tasks[id].place # "clock" /\ HasTurn(InTurn(id)) /\ flow' = Tail(flow)
<1>1. PutTask(id, Over(tasks[id])) /\ Endable(tasks[id]) /\ Ended(tasks[id])
  BY DEF Stops
<1>2. tasks[id].place # "clock" => HasTurn(InTurn(id))
  BY <1>1, OneAtWork DEF Endable, AtWork
<1> QED
  BY <1>1, <1>2, OverEnds DEF Stops

\* The flow through a step's own moves.
LEMMA StepKeepsFlow ==
  ASSUME Types, FlowInv, NEW id \in DOMAIN tasks, Step(id)
  PROVE  QueueTypes' /\ FlowInv'
<1> USE DEF Types
<1>1. CASE ConnectTurn(id)
  BY <1>1, ConnectTurnMoves, MoveKeepsFlow DEF ConnectTurn, GoesTo
<1>2. CASE ReconnectTurn(id)
  BY <1>2, ReconnectTurnMoves, MoveKeepsFlow DEF ReconnectTurn, GoesTo
<1>3. CASE TurnTooLate(id)
  BY <1>3, FinishEnds, EndLetsFlowGo DEF TurnTooLate, Ends
<1>4. CASE EnterTurn(id)
  <2>1. HasTurn(InTurn(id))
    BY <1>4 DEF EnterTurn
  <2> QED
    BY <1>4, <2>1, EnterTurnMoves, EndLetsFlowGo, MoveKeepsFlow DEF GoesTo, Ends
<1>5. CASE LeaveTurn(id)
  <2>1. HasTurn(InTurn(id))
    BY <1>5 DEF LeaveTurn
  <2>2. CASE /\ connection = NoConn /\ epoch' = epoch + 1
             /\ DOMAIN tasks' = DOMAIN tasks
             /\ \A j \in DOMAIN tasks : j # id => tasks'[j] = tasks[j]
             /\ IsQueue(tasks') /\ tasks'[id] = NewTask("connect", epoch')
             /\ flow' = Append(Tail(flow), InTurn(id))
    <3>1. IsTask(tasks'[id]) /\ tasks'[id].place = "turn"
      BY <2>2, NewTaskIs DEF Kinds, TaskTypes
    <3> QED
      BY <2>1, <2>2, <3>1, WaitsAnew
  <2>3. CASE Ends(id) /\ flow' = Tail(flow)
    BY <2>1, <2>3, EndLetsFlowGo DEF Ends
  <2>4. CASE GoesTo(id, "leaving", connection, tasks[id].rejoin) /\ flow' = flow
    BY <2>1, <2>4, MoveKeepsFlow DEF GoesTo
  <2> QED
    BY <1>5, <2>2, <2>3, <2>4, LeaveTurnMoves
<1>6. CASE TriesAgain(id)
  <2>1. HasTurn(InTurn(id)) /\ flow' = flow
    BY <1>6, OneAtWork DEF TriesAgain, AtWork
  <2> QED
    BY <1>6, <2>1, TriesAgainMoves, MoveKeepsFlow DEF GoesTo
<1>7. CASE StartsAudio(id)
  <2>1. HasTurn(InTurn(id)) /\ Finish(id)
    BY <1>7, OneAtWork DEF StartsAudio, AtWork
  <2> QED
    BY <2>1, FinishEnds, EndLetsFlowGo DEF Ends
<1>8. CASE Stops(id)
  <2>1. CASE tasks[id].place # "clock" /\ HasTurn(InTurn(id)) /\ flow' = Tail(flow)
    BY <1>8, <2>1, StopsMoves, EndLetsFlowGo DEF Ends
  <2>2. CASE tasks[id].place = "clock" /\ flow' = flow
    <3>1. Ends(id)
      BY <1>8, StopsMoves
    <3> QED
      BY <2>2, <3>1 DEF TaskTypes, QueueTypes, FlowInv, Ends, Moves, Rests, AtWork, HasTurn
  <2> QED
    BY <1>8, <2>1, <2>2, StopsMoves
<1> QED
  BY <1>1, <1>2, <1>3, <1>4, <1>5, <1>6, <1>7, <1>8 DEF Step

\* The flow through a failed attempt.
LEMMA AttemptFailsKeepsFlow ==
  ASSUME TaskTypes, FlowInv, NEW id \in DOMAIN tasks, HasTurn(InTurn(id)), AttemptFails(id)
  PROVE  QueueTypes' /\ FlowInv'
<1>1. CASE GoesTo(id, "pausing", NoConn, tasks[id].rejoin) /\ UNCHANGED <<inner, flow>>
  BY <1>1, MoveKeepsFlow DEF GoesTo
<1>2. CASE Ends(id) /\ flow' = Tail(flow)
  BY <1>2, EndLetsFlowGo DEF Ends
<1> QED
  BY <1>1, <1>2, AttemptFailsMoves

\* The flow through what the server answers.
LEMMA AnswerKeepsFlow ==
  ASSUME Types, FlowInv, NEW id \in DOMAIN tasks, Answer(id) \/ ClockIsRight(id)
  PROVE  QueueTypes' /\ FlowInv'
<1> USE DEF Types
<1>1. CASE Answer(id)
  <2>1. HasTurn(InTurn(id))
    BY <1>1, OneAtWork, Zenon DEF Answer, AtWork, Connects, ConnectFails, Lists, ListFails, Enters,
                           EnterFails, Leaves
  <2>2. CASE Connects(id)
    <3>1. \/ Ends(id) /\ flow' = Tail(flow)
          \/ \E place, c, b : GoesTo(id, place, c, b) /\ flow' = flow
      BY <2>2, ConnectsMoves
    <3> QED
      BY <2>1, <3>1, EndLetsFlowGo, MoveKeepsFlow DEF GoesTo, Ends
  <2>3. CASE ConnectFails(id)
    <3>1. CASE AttemptFails(id)
      BY <2>1, <3>1, AttemptFailsKeepsFlow
    <3>2. CASE \/ Ends(id) /\ flow' = Tail(flow)
               \/ GoesTo(id, "clock", tasks[id].conn, tasks[id].rejoin) /\ flow' = Tail(flow)
      BY <2>1, <3>2, EndLetsFlowGo DEF GoesTo, Ends
    <3> QED
      BY <2>3, <3>1, <3>2, ConnectFailsMoves
  <2>4. CASE Finish(id)
    BY <2>1, <2>4, FinishEnds, EndLetsFlowGo DEF Ends
  <2>5. CASE AttemptFails(id)
    BY <2>1, <2>5, AttemptFailsKeepsFlow
  <2>6. CASE Enters(id)
    <3>1. GoesTo(id, "audio", tasks[id].conn, tasks[id].rejoin) /\ flow' = flow
      BY <2>6, EntersMoves DEF Enters, RosterTypes
    <3> QED
      BY <2>1, <3>1, MoveKeepsFlow DEF GoesTo
  <2> QED
    BY <1>1, <2>2, <2>3, <2>4, <2>5, <2>6 DEF Answer, Lists, ListFails, EnterFails, Leaves
<1>2. CASE ClockIsRight(id)
  BY <1>2, ClockMoves, WaitsAnew DEF ClockIsRight, GoesTo, Moves
<1> QED
  BY <1>1, <1>2

\* The flow through a pump's going on.
LEMMA GoesOnKeepsFlow ==
  ASSUME TaskTypes, FlowInv, NEW c \in Conns, NEW batch, NEW queue,
         queue = flow \/ (HasTurn(InPump(c)) /\ queue = Tail(flow)), GoesOn(c, batch, queue)
  PROVE  QueueTypes' /\ FlowInv'
<1>1. CASE UNCHANGED tasks /\ (flow' = queue \/ flow' = Append(queue, InPump(c)))
  BY <1>1, SameTasksFlow
<1>2. CASE epoch' = epoch + 1 /\ AsksBehind(queue, "reconnect", epoch')
  <2>1. epoch' \in Nat /\ "reconnect" \in Kinds
    BY <1>2 DEF TaskTypes, Kinds
  <2> QED
    BY <1>2, <2>1, JoinsFlow
<1> QED
  BY <1>1, <1>2, GoesOnMoves, Zenon

\* The flow through a pump's moves.
LEMMA PumpKeepsFlow ==
  ASSUME Types, FlowInv, NEW c \in Conns, Pump(c)
  PROVE  QueueTypes' /\ FlowInv'
<1> USE DEF Types
<1>1. CASE PumpEnds(c)
  BY <1>1, SameTasksFlow DEF PumpEnds
<1>2. CASE PumpPolls(c)
  <2>1. PICK batch : GoesOn(c, batch, flow)
    BY <1>2, Zenon DEF PumpPolls
  <2> QED
    BY <2>1, GoesOnKeepsFlow
<1>3. CASE EventTurn(c)
  <2>1. HasTurn(InPump(c)) /\ GoesOn(c, Tail(pumps[c].batch), Tail(flow))
    BY <1>3, Zenon DEF EventTurn
  <2> QED
    BY <2>1, GoesOnKeepsFlow
<1>4. CASE LinkTurn(c)
  <2>1. HasTurn(InPump(c)) /\ flow' = Tail(flow) /\ UNCHANGED tasks
    BY <1>4, Zenon DEF LinkTurn
  <2> QED
    BY <2>1, SameTasksFlow
<1> QED
  BY <1>1, <1>2, <1>3, <1>4 DEF Pump

\* Every step of the specification keeps the flow.
LEMMA FlowStep ==
  ASSUME Types, FlowInv, [Next]_vars
  PROVE  QueueTypes' /\ FlowInv'
<1>1. CASE Command
  <2>1. PICK kind \in Kinds, e \in Nat : AsksBehind(flow, kind, e)
    BY <1>1, CommandJoins DEF Types
  <2> QED
    BY <2>1, JoinsFlow DEF Types
<1>2. CASE UNCHANGED <<flow, tasks>>
  BY <1>2, SameTasksFlow DEF Types
<1> QED
  BY <1>1, <1>2, StepKeepsFlow, AnswerKeepsFlow, PumpKeepsFlow
     DEF Next, vars, Lose, RoomChanges, LinkChanges

\* Without an audio session the audio is with nobody.
LEMMA AudioOffIs ==
  ASSUME IsAudio(audio)
  PROVE  IsAudio(AudioOff) /\ AudioOff.with = Nobody
  BY DEF AudioOff, IsAudio

\* A connection that is dropped is closed, and no other.
LEMMA DisconnectedIs ==
  ASSUME ConnTypes, NEW c \in Conns \cup {NoConn}
  PROVE  /\ Disconnected(c) \in [Conns -> {"none", "open", "lost", "closed"}]
         /\ c \in Conns => Disconnected(c)[c] = "closed"
         /\ \A d \in Conns : d # c => Disconnected(c)[d] = conns[d]
  BY NoConnIs DEF Disconnected, ConnTypes

\* Every step keeps the types of what the screen shows.
LEMMA ScreenTypesStep ==
  ASSUME Types, [Next]_vars
  PROVE  ScreenTypes' /\ epoch' \in Nat /\ room' \in BOOLEAN
<1> USE DEF ScreenTypes, Phases
<1>0. /\ phase \in Phases /\ joining \in BOOLEAN /\ error \in BOOLEAN
      /\ reconnect \in {"idle", "reconnecting", "failed"}
      /\ epoch \in Nat /\ room \in BOOLEAN
  BY DEF Types, TaskTypes
<1>1. CASE Command
  BY <1>0, <1>1, CommandJoins DEF Types
<1>2. CASE \E id \in DOMAIN tasks : Step(id)
  <2>1. PICK id \in DOMAIN tasks : Step(id)
    BY <1>2
  <2>2. CASE LeaveTurn(id)
    <3>1. UNCHANGED <<phase, joining, error, room, reconnect>>
      BY <2>2, Zenon DEF LeaveTurn
    <3>2. epoch' = epoch + 1 \/ epoch' = epoch
      BY <2>2, LeaveTurnMoves DEF Types
    <3> QED
      BY <1>0, <3>1, <3>2
  <2>3. CASE StartsAudio(id) \/ Stops(id)
    <3>1. UNCHANGED <<epoch, phase, joining, error, room, reconnect>>
      BY <2>3, Zenon DEF StartsAudio, Stops
    <3> QED
      BY <1>0, <3>1
  <2> QED
    BY <1>0, <2>1, <2>2, <2>3
       DEF Step, ConnectTurn, ReconnectTurn, TurnTooLate, EnterTurn, TriesAgain, inner
<1>3. CASE \E id \in DOMAIN tasks : Answer(id) \/ ClockIsRight(id)
  <2>1. PICK id \in DOMAIN tasks : Answer(id) \/ ClockIsRight(id)
    BY <1>3
  <2>2. CASE Connects(id)
    <3>1. UNCHANGED <<epoch, phase, joining, error, room, reconnect>>
      BY <2>2, Zenon DEF Connects
    <3> QED
      BY <1>0, <3>1
  <2>3. CASE AttemptFails(id) \/ FailsUnlessEnded(id) \/ Fails
    BY <1>0, <2>3 DEF AttemptFails, FailsUnlessEnded, Fails, inner
  <2>4. CASE Enters(id)
    <3>1. /\ room' = TRUE /\ phase' = "connected" /\ error' = FALSE /\ joining' = FALSE
          /\ reconnect' = "idle" /\ UNCHANGED epoch
      BY <2>4, Zenon DEF Enters
    <3> QED
      BY <1>0, <3>1
  <2>5. CASE Lists(id) \/ Leaves(id) \/ ClockIsRight(id)
    BY <1>0, <2>5 DEF Lists, Leaves, ClockIsRight, inner
  <2> QED
    BY <2>1, <2>2, <2>3, <2>4, <2>5 DEF Answer, ConnectFails, ListFails, EnterFails
<1>4. CASE \E c \in Conns : Pump(c)
  <2>1. PICK c \in Conns : Pump(c)
    BY <1>4
  <2>2. UNCHANGED <<phase, joining, error, room, reconnect>>
    BY <2>1, Zenon DEF Pump, PumpEnds, PumpPolls, EventTurn, LinkTurn, inner
  <2>3. (\E batch, queue : GoesOn(c, batch, queue)) \/ UNCHANGED epoch
    BY <2>1, Zenon DEF Pump, PumpEnds, PumpPolls, EventTurn, LinkTurn, inner
  <2>4. epoch' = epoch \/ epoch' = epoch + 1
    BY <2>3, GoesOnMoves, Zenon DEF Types
  <2> QED
    BY <1>0, <2>2, <2>4
<1>5. CASE UNCHANGED inner
  BY <1>0, <1>5 DEF inner
<1> QED
  BY <1>1, <1>2, <1>3, <1>4, <1>5 DEF Next, vars, Lose, RoomChanges, LinkChanges

\* The session's connection is one of the connections, or none.
LEMMA ConnectionStep ==
  ASSUME Types, [Next]_vars
  PROVE  connection' \in Conns \cup {NoConn}
<1>0. connection \in Conns \cup {NoConn} /\ \A id \in DOMAIN tasks : tasks[id].conn \in Conns \cup {NoConn}
  BY DEF Types, TaskTypes, IsTask
<1>1. CASE Command
  BY <1>0, <1>1, CommandJoins DEF Types
<1>2. CASE \E id \in DOMAIN tasks : Step(id)
  <2>1. PICK id \in DOMAIN tasks : Step(id)
    BY <1>2
  <2>2. connection' = NoConn \/ UNCHANGED connection
    BY <2>1, Zenon DEF Step, ConnectTurn, ReconnectTurn, DropConnection, TurnTooLate, EnterTurn, LeaveTurn,
                       TriesAgain, StartsAudio, Stops, inner
  <2> QED
    BY <1>0, <2>2
<1>3. CASE \E id \in DOMAIN tasks : Answer(id) \/ ClockIsRight(id)
  <2>1. PICK id \in DOMAIN tasks : Answer(id) \/ ClockIsRight(id)
    BY <1>3
  <2>2. CASE Connects(id)
    BY <1>0, <2>2, ConnectsMoves DEF Types
  <2>3. CASE AttemptFails(id) \/ FailsUnlessEnded(id) \/ Fails
    BY <1>0, <2>3 DEF AttemptFails, FailsUnlessEnded, Fails, inner
  <2>4. CASE Enters(id) \/ Lists(id)
    <3>1. connection' = tasks[id].conn
      BY <2>4, Zenon DEF Enters, Lists
    <3> QED
      BY <1>0, <2>1, <3>1
  <2>5. CASE Leaves(id) \/ ClockIsRight(id)
    BY <1>0, <2>5 DEF Leaves, ClockIsRight, inner
  <2> QED
    BY <2>1, <2>2, <2>3, <2>4, <2>5 DEF Answer, ConnectFails, ListFails, EnterFails
<1>4. CASE \E c \in Conns : Pump(c)
  BY <1>0, <1>4, Zenon DEF Pump, PumpEnds, PumpPolls, EventTurn, LinkTurn, inner
<1>5. CASE UNCHANGED inner
  BY <1>0, <1>5 DEF inner
<1> QED
  BY <1>1, <1>2, <1>3, <1>4, <1>5 DEF Next, vars, Lose, RoomChanges, LinkChanges

\* A sound decision of the roster leaves roster and audio agreed if they were.
LEMMA DecidedRuns ==
  ASSUME RosterTypes, NEW d, NEW from, Sound(d, from), Decided(d)
  PROVE  /\ RosterTypes'
         /\ from = audio.with => roster'.with = audio'.with
<1>1. PICK ok \in BOOLEAN :
         LET now == RunAudio(d.roster, d.audio, Len(d.audio), ok)
         IN  roster' = now.roster /\ audio' = now.audio
  BY DEF Decided
<1> DEFINE now == RunAudio(d.roster, d.audio, Len(d.audio), ok)
<1>2. IsState(now) /\ (from = audio.with => now.roster.with = now.audio.with)
  BY SoundDecisionRuns DEF RosterTypes
<1> HIDE DEF now
<1>3. roster' = now.roster /\ audio' = now.audio
  BY <1>1 DEF now
<1> QED
  BY <1>2, <1>3 DEF RosterTypes, IsState

\* An event, or a report of the link, that concerns no room changes nothing.
LEMMA NothingDecided ==
  ASSUME Decided(Decides(roster, <<>>))
  PROVE  roster' = roster /\ audio' = audio
<1> DEFINE now == RunAudio(roster, <<>>, 0, TRUE)
<1>1. Decides(roster, <<>>).roster = roster /\ Decides(roster, <<>>).audio = <<>> /\ Len(<<>>) = 0
  BY DEF Decides
<1>2. \A ok \in BOOLEAN : RunAudio(roster, <<>>, 0, ok) = [roster |-> roster, audio |-> audio]
  BY RunsInTurn, Zenon
<1> QED
  BY <1>1, <1>2 DEF Decided

\* What a pump decides for an event or a report of the link is sound.
LEMMA EventDecides ==
  ASSUME RosterTypes, NEW c, EventTurn(c) \/ LinkTurn(c)
  PROVE  \/ ~Concerns(c) /\ roster' = roster /\ audio' = audio
         \/ Concerns(c) /\ \E d : Sound(d, roster.with) /\ Decided(d)
<1>0. IsRoster(roster)
  BY DEF RosterTypes
<1>1. CASE EventTurn(c) /\ ~Concerns(c)
  <2>1. Decided(Decides(roster, <<>>))
    BY <1>1 DEF EventTurn
  <2> QED
    BY <1>1, <2>1, NothingDecided
<1>2. CASE LinkTurn(c) /\ ~Concerns(c)
  <2>1. Decided(Decides(roster, <<>>))
    BY <1>2 DEF LinkTurn
  <2> QED
    BY <1>2, <2>1, NothingDecided
<1>3. CASE EventTurn(c) /\ Concerns(c)
  <2> DEFINE event == Head(pumps[c].batch)
  <2>1. \/ Decided(Decides(Joined(roster, event.peer), <<>>))
        \/ Decided(Updated(roster, event.peer))
        \/ Decided(Left(roster, event.peer.id))
    BY <1>3 DEF EventTurn
  <2> HIDE DEF event
  <2>2. CASE Decided(Decides(Joined(roster, event.peer), <<>>))
    <3>1. Sound(Decides(Joined(roster, event.peer), <<>>), roster.with)
      BY <1>0, JoinedIs, DoesNothing DEF Sound
    <3> QED
      BY <1>3, <2>2, <3>1, Zenon
  <2>3. CASE Decided(Updated(roster, event.peer))
    BY <1>0, <1>3, <2>3, UpdatedIs, Zenon
  <2>4. CASE Decided(Left(roster, event.peer.id))
    BY <1>0, <1>3, <2>4, LeftIs, Zenon
  <2> QED
    BY <2>1, <2>2, <2>3, <2>4
<1>4. CASE LinkTurn(c) /\ Concerns(c)
  <2>1. \/ Decided(AudioSilent(roster)) \/ Decided(AudioFailed(roster))
        \/ Decided(Decides(AudioRecovered(roster), <<>>))
    BY <1>4 DEF LinkTurn
  <2>2. CASE Decided(Decides(AudioRecovered(roster), <<>>))
    <3>1. Sound(Decides(AudioRecovered(roster), <<>>), roster.with)
      BY <1>0, AudioRecoveredIs, DoesNothing DEF Sound
    <3> QED
      BY <1>4, <2>2, <3>1, Zenon
  <2> QED
    BY <1>0, <1>4, <2>1, <2>2, AudioSilentIs, AudioFailedIs, Zenon
<1> QED
  BY <1>1, <1>2, <1>3, <1>4

\* What becomes of the audio of a step that starts it, or is ended while it does.
LEMMA StartsAudioRuns ==
  ASSUME RosterTypes, audio.with = Nobody, NEW id, ToStart(roster, tasks[id].todo), StartsAudio(id)
  PROVE  RosterTypes' /\ roster'.with = audio'.with
<1> DEFINE todo == tasks[id].todo
<1>1. PICK ok \in BOOLEAN :
         LET now == RunAudio(roster, todo, Len(todo), ok)
         IN  roster' = now.roster /\ audio' = now.audio
  BY DEF StartsAudio
<1> DEFINE now == RunAudio(roster, todo, Len(todo), ok)
<1>2. Len(todo) \in 0 .. Len(todo)
  BY DEF ToStart
<1> HIDE DEF todo
<1>3. IsState(now) /\ now.roster.with = now.audio.with
  BY <1>2, EnteringRuns DEF RosterTypes, todo
<1> HIDE DEF now
<1>4. roster' = now.roster /\ audio' = now.audio
  BY <1>1 DEF now
<1> QED
  BY <1>3, <1>4 DEF RosterTypes, IsState

\* A step that is ended while it starts the audio leaves a roster and an audio.
LEMMA StopsRuns ==
  ASSUME RosterTypes, NEW id, Stops(id),
         tasks[id].place = "audio" => audio.with = Nobody /\ ToStart(roster, tasks[id].todo)
  PROVE  RosterTypes' /\ (tasks[id].place # "audio" => UNCHANGED <<roster, audio>>)
<1> DEFINE todo == tasks[id].todo
<1>1. CASE tasks[id].place = "audio"
  <2>1. PICK n \in 0 .. Len(todo) :
           LET now == RunAudio(roster, todo, n, TRUE)
           IN  roster' = now.roster /\ audio' = now.audio
    BY <1>1 DEF Stops
  <2> DEFINE now == RunAudio(roster, todo, n, TRUE)
  <2> HIDE DEF todo
  <2>3. IsState(now)
    BY <1>1, EnteringRuns DEF RosterTypes, todo
  <2> HIDE DEF now
  <2>4. roster' = now.roster /\ audio' = now.audio
    BY <2>1 DEF now
  <2> QED
    BY <1>1, <2>3, <2>4 DEF RosterTypes, IsState
<1>2. CASE tasks[id].place # "audio"
  <2>1. UNCHANGED <<roster, audio>>
    BY <1>2 DEF Stops
  <2> QED
    BY <1>2, <2>1 DEF RosterTypes
<1> QED
  BY <1>1, <1>2
(***************************************************************************)
(* What becomes of the list of peers when a decision is carried out:       *)
(* nothing, and the audio is with one who could be there, or with nobody.  *)
(***************************************************************************)
MayBe(peer) == peer \in Ids \cup {Nobody}
\* Whomever `todo` starts the audio of could be there.
StartsOne(todo) ==
    /\ Len(todo) \in 0 .. 3
    /\ \A i \in 1 .. Len(todo) : todo[i].do = "start" => MayBe(todo[i].peer)
\* What was done left the list of the roster r.
KeepsList(now, r) == IsState(now) /\ SameList(now.roster, r) /\ MayBe(now.audio.with)

\* One thing done changes nothing of the list.
LEMMA CarriesOutLists ==
  ASSUME NEW r, NEW now, KeepsList(now, r), NEW do, do.do = "start" => MayBe(do.peer), NEW ok
  PROVE  KeepsList(CarriesOut(now, do, ok), r)
<1> DEFINE failed == [now EXCEPT !.roster = StartFailed(@, do.peer)]
<1>1. IsState(now) /\ SameList(now.roster, r) /\ Listing(now.roster)
  BY DEF KeepsList, SameList
<1>2. MayBe(Nobody)
  BY DEF MayBe
<1>3. KeepsList(failed, r)
  <2>1. SameList(StartFailed(now.roster, do.peer), now.roster)
    BY <1>1, StartFailedLists
  <2>2. failed.roster = StartFailed(now.roster, do.peer) /\ failed.audio = now.audio
        /\ DOMAIN failed = DOMAIN now
    BY <1>1 DEF IsState
  <2> HIDE DEF failed
  <2> QED
    BY <1>1, <2>1, <2>2 DEF KeepsList, SameList, IsState, Listing
<1>4. ASSUME NEW peer, MayBe(peer)
      PROVE  KeepsList(Playing(now, peer), r)
  BY <1>1, <1>4, PlayingIs DEF KeepsList
<1>5. CASE do.do = "stop"
  BY <1>2, <1>4, <1>5 DEF CarriesOut
<1>6. CASE do.do = "start" /\ ok /\ now.audio.with = Nobody
  BY <1>4, <1>6 DEF CarriesOut
<1>7. CASE do.do = "start" /\ ~(ok /\ now.audio.with = Nobody)
  BY <1>3, <1>7 DEF CarriesOut
<1>8. CASE do.do \notin {"stop", "start"}
  BY <1>8 DEF CarriesOut
<1> QED
  BY <1>5, <1>6, <1>7, <1>8

\* A decision carried out, whole or in part, changes nothing of the list.
LEMMA RunsLists ==
  ASSUME NEW r, Listing(r), IsAudio(audio), MayBe(audio.with), NEW todo, StartsOne(todo),
         NEW n \in 0 .. Len(todo), NEW ok
  PROVE  KeepsList(RunAudio(r, todo, n, ok), r)
<1> DEFINE now == [roster |-> r, audio |-> audio]
           first == CarriesOut(now, todo[1], ok)
           second == CarriesOut(first, todo[2], ok)
           third == CarriesOut(second, todo[3], ok)
<1>1. KeepsList(now, r)
  BY DEF KeepsList, IsState, SameList, Listing
<1>2. /\ RunAudio(r, todo, 0, ok) = now /\ RunAudio(r, todo, 1, ok) = first
      /\ RunAudio(r, todo, 2, ok) = second /\ RunAudio(r, todo, 3, ok) = third
  BY RunsInTurn, Zenon
<1> HIDE DEF now
<1>3. n >= 1 => KeepsList(first, r)
  BY <1>1, CarriesOutLists DEF StartsOne
<1> HIDE DEF first
<1>4. n >= 2 => KeepsList(second, r)
  BY <1>3, CarriesOutLists DEF StartsOne, second
<1> HIDE DEF second
<1>5. n >= 3 => KeepsList(third, r)
  BY <1>4, CarriesOutLists DEF StartsOne, third
<1> HIDE DEF third
<1>6. n \in {0, 1, 2, 3}
  BY DEF StartsOne
<1> QED
  BY <1>1, <1>2, <1>3, <1>4, <1>5, <1>6

\* Whoever a sound decision starts the audio of could be there.
LEMMA SoundStarts ==
  ASSUME NEW d, NEW from, Sound(d, from), MayBe(d.roster.with)
  PROVE  StartsOne(d.audio)
<1>1. CASE d.audio = <<>>
  <2>1. Len(d.audio) = 0
    BY <1>1
  <2> QED
    BY <2>1 DEF StartsOne
<1>2. ASSUME NEW s, d.audio = <<s>>, s.peer = d.roster.with
      PROVE  StartsOne(d.audio)
  <2>1. Len(d.audio) = 1 /\ d.audio[1] = s
    BY <1>2
  <2> QED
    BY <1>2, <2>1 DEF StartsOne
<1>3. ASSUME NEW x, IsOfAddress(x), d.audio = <<Stop, x>>
      PROVE  StartsOne(d.audio)
  <2>1. Len(d.audio) = 2 /\ d.audio[1] = Stop /\ d.audio[2] = x
    BY <1>3
  <2> QED
    BY <1>3, <2>1 DEF StartsOne, IsOfAddress, Stop
<1>4. ASSUME NEW x, IsOfAddress(x), NEW s, d.audio = <<Stop, x, s>>, s.peer = d.roster.with
      PROVE  StartsOne(d.audio)
  <2>1. Len(d.audio) = 3 /\ d.audio[1] = Stop /\ d.audio[2] = x /\ d.audio[3] = s
    BY <1>4
  <2> QED
    BY <1>4, <2>1 DEF StartsOne, IsOfAddress, Stop
<1> QED
  BY <1>1, <1>2, <1>3, <1>4 DEF Sound, Starts, StopsFirst

\* Whoever is started with on entering could be there.
LEMMA EnteringStarts ==
  ASSUME NEW r, MayBe(r.with), NEW todo, ToStart(r, todo)
  PROVE  StartsOne(todo)
<1>1. CASE todo = <<Advertise>>
  <2>1. Len(todo) = 1 /\ todo[1] = Advertise
    BY <1>1
  <2> QED
    BY <2>1 DEF StartsOne, Advertise
<1>2. ASSUME NEW s, todo = <<Advertise, s>>, s.peer = r.with
      PROVE  StartsOne(todo)
  <2>1. Len(todo) = 2 /\ todo[1] = Advertise /\ todo[2] = s
    BY <1>2
  <2> QED
    BY <1>2, <2>1 DEF StartsOne, Advertise
<1> QED
  BY <1>1, <1>2 DEF ToStart

\* A sound decision, carried out, leaves the list the roster decided on.
LEMMA DecidedLists ==
  ASSUME IsAudio(audio), MayBe(audio.with), NEW d, NEW from, Sound(d, from), Listing(d.roster),
         Decided(d)
  PROVE  SameList(roster', d.roster) /\ MayBe(audio'.with)
<1>1. PICK ok \in BOOLEAN :
         LET now == RunAudio(d.roster, d.audio, Len(d.audio), ok)
         IN  roster' = now.roster /\ audio' = now.audio
  BY DEF Decided
<1> DEFINE now == RunAudio(d.roster, d.audio, Len(d.audio), ok)
<1>2. StartsOne(d.audio)
  BY SoundStarts DEF Listing, MayBe
<1>3. Len(d.audio) \in 0 .. Len(d.audio)
  BY <1>2 DEF StartsOne
<1>4. KeepsList(now, d.roster)
  BY <1>2, <1>3, RunsLists
<1> HIDE DEF now
<1>5. roster' = now.roster /\ audio' = now.audio
  BY <1>1 DEF now
<1> QED
  BY <1>4, <1>5 DEF KeepsList

\* The step id, starting the audio or ended while it does, changes nothing of the list.
LEMMA AudioLists ==
  ASSUME IsAudio(audio), MayBe(audio.with), Listing(roster), NEW id,
         tasks[id].place = "audio" => ToStart(roster, tasks[id].todo),
         StartsAudio(id) \/ Stops(id)
  PROVE  SameList(roster', roster) /\ MayBe(audio'.with)
<1> DEFINE todo == tasks[id].todo
<1>1. CASE tasks[id].place = "audio"
  <2>1. ToStart(roster, todo)
    BY <1>1
  <2>2. PICK n \in 0 .. Len(todo), ok \in BOOLEAN :
           LET now == RunAudio(roster, todo, n, ok)
           IN  roster' = now.roster /\ audio' = now.audio
    <3>1. CASE StartsAudio(id)
      <4>1. Len(todo) \in 0 .. Len(todo)
        BY <2>1 DEF ToStart
      <4> QED
        BY <3>1, <4>1, Zenon DEF StartsAudio
    <3>2. CASE Stops(id)
      BY <1>1, <3>2, Zenon DEF Stops
    <3> QED
      BY <3>1, <3>2
  <2> DEFINE now == RunAudio(roster, todo, n, ok)
  <2>3. MayBe(roster.with)
    BY DEF Listing, MayBe
  <2> HIDE DEF todo
  <2>4. KeepsList(now, roster)
    BY <2>1, <2>3, EnteringStarts, RunsLists
  <2> HIDE DEF now
  <2>5. roster' = now.roster /\ audio' = now.audio
    BY <2>2 DEF now
  <2> QED
    BY <2>4, <2>5 DEF KeepsList
<1>2. CASE tasks[id].place # "audio"
  <2>1. UNCHANGED <<roster, audio>>
    BY <1>2 DEF StartsAudio, Stops
  <2> QED
    BY <2>1 DEF SameList
<1> QED
  BY <1>1, <1>2

-----------------------------------------------------------------------------
(***************************************************************************)
(* What holds besides.  A step by its kind and place, the screen, the      *)
(* connections, the audio, and whom the session waits for.                 *)
(***************************************************************************)
Reaches(t) == t.kind \in {"connect", "reconnect"}
\* A step that will take the session over: it waits for its turn and has not been ended.
Superseding(t) == Reaches(t) /\ t.place = "turn" /\ ~Ended(t)
Superseded == \E id \in DOMAIN tasks : Superseding(tasks[id])

Placed(t) ==
    /\ t.place \in {"connecting", "listing", "pausing", "clock"} => Reaches(t)
    /\ t.place = "pausing" => t.kind = "reconnect"
    /\ t.place = "clock" => t.kind = "connect"
    /\ t.place \in {"entering", "audio"} => t.kind \in {"create", "join", "reconnect"}
    /\ t.place = "leaving" => t.kind = "leave"
    /\ t.kind = "leave" => t.place \in {"turn", "leaving", "done"}
PlaceInv == \A id \in DOMAIN tasks : Placed(tasks[id])

\* Whoever was ended at work is to be replaced.
EndedInv == \A id \in DOMAIN tasks : LET t == tasks[id]
                                     IN  AtWork(t) /\ Reaches(t) /\ Ended(t) => Superseded

\* What is left to do once a room was entered; until then, and while the room is
\* left, there is no audio.
Sounds(t) ==
    /\ AtWork(t) => audio.with = Nobody
    /\ t.place = "audio" => room /\ ToStart(roster, t.todo)
AudioInv ==
    /\ audio.with # Nobody => room
    /\ \A id \in DOMAIN tasks : Sounds(tasks[id])
    /\ \/ audio.with = roster.with
       \/ \E id \in DOMAIN tasks : tasks[id].place \in {"audio", "leaving"}
       \/ Superseded

\* Every step keeps the types of the roster and the audio.
LEMMA RosterTypesStep ==
  ASSUME Types, FlowInv, AudioInv, [Next]_vars
  PROVE  RosterTypes'
<1>0. IsRoster(roster) /\ IsAudio(audio) /\ RosterTypes /\ TaskTypes
  BY DEF Types, RosterTypes
<1> USE DEF RosterTypes
<1>1. CASE \E id \in DOMAIN tasks : Step(id)
  <2>1. PICK id \in DOMAIN tasks : Step(id)
    BY <1>1
  <2>2. CASE ConnectTurn(id) \/ ReconnectTurn(id)
    <3>1. IsRoster(AudioEnded(roster)) /\ IsRoster(EmptyRoster) /\ IsAudio(AudioOff)
      BY <1>0, ForgottenIs, EmptyRosterIs, AudioOffIs DEF AudioEnded
    <3> QED
      BY <1>0, <2>2, <3>1, Zenon DEF ConnectTurn, ReconnectTurn, DropConnection
  <2>3. CASE LeaveTurn(id)
    <3>1. UNCHANGED roster
      BY <2>3, Zenon DEF LeaveTurn
    <3> QED
      BY <1>0, <2>3, <3>1, LeaveTurnMoves, AudioOffIs
  <2>4. CASE StartsAudio(id)
    <3>1. audio.with = Nobody /\ ToStart(roster, tasks[id].todo)
      BY <2>4 DEF AudioInv, Sounds, AtWork, StartsAudio
    <3> QED
      BY <1>0, <2>4, <3>1, StartsAudioRuns
  <2>5. CASE Stops(id)
    <3>1. tasks[id].place = "audio" => audio.with = Nobody /\ ToStart(roster, tasks[id].todo)
      BY <2>5 DEF AudioInv, Sounds, AtWork
    <3> QED
      BY <1>0, <2>5, <3>1, StopsRuns
  <2>6. CASE TurnTooLate(id) \/ EnterTurn(id) \/ TriesAgain(id)
    BY <1>0, <2>6, Zenon DEF TurnTooLate, EnterTurn, TriesAgain, inner
  <2> QED
    BY <2>1, <2>2, <2>3, <2>4, <2>5, <2>6 DEF Step
<1>2. CASE \E id \in DOMAIN tasks : Answer(id) \/ ClockIsRight(id)
  <2>1. PICK id \in DOMAIN tasks : Answer(id) \/ ClockIsRight(id)
    BY <1>2
  <2>2. UNCHANGED audio
    BY <2>1, Zenon DEF Answer, Connects, ConnectFails, Lists, ListFails, Enters, EnterFails, Leaves,
                       ClockIsRight
  <2>3. CASE AttemptFails(id) \/ FailsUnlessEnded(id) \/ Fails
    BY <1>0, <2>2, <2>3 DEF AttemptFails, FailsUnlessEnded, Fails, inner
  <2>4. CASE Enters(id)
    BY <1>0, <2>1, <2>2, <2>4, EntersMoves
  <2>5. CASE Connects(id) \/ Lists(id) \/ ClockIsRight(id)
    BY <1>0, <2>2, <2>5, Zenon DEF Connects, Lists, ClockIsRight, inner
  <2>6. CASE Leaves(id)
    BY <1>0, <2>2, <2>6, EmptyRosterIs DEF Leaves
  <2> QED
    BY <2>1, <2>3, <2>4, <2>5, <2>6 DEF Answer, ConnectFails, ListFails, EnterFails
<1>3. CASE \E c \in Conns : Pump(c)
  <2>1. PICK c \in Conns : Pump(c)
    BY <1>3
  <2>2. CASE EventTurn(c) \/ LinkTurn(c)
    <3>1. CASE \E d : Sound(d, roster.with) /\ Decided(d)
      BY <1>0, <3>1, DecidedRuns
    <3> QED
      BY <1>0, <2>2, <3>1, EventDecides
  <2>3. CASE PumpEnds(c) \/ PumpPolls(c)
    BY <1>0, <2>3, Zenon DEF PumpEnds, PumpPolls, inner
  <2> QED
    BY <2>1, <2>2, <2>3 DEF Pump
<1>4. CASE LinkChanges
  <2>1. PICK link : audio' = [audio EXCEPT !.link = link]
    BY <1>4 DEF LinkChanges
  <2> QED
    BY <1>0, <1>4, <2>1 DEF LinkChanges, inner, IsAudio
<1>5. CASE Command
  BY <1>0, <1>5, CommandJoins
<1>6. CASE UNCHANGED <<roster, audio>>
  BY <1>0, <1>6
<1> QED
  BY <1>1, <1>2, <1>3, <1>4, <1>5, <1>6 DEF Next, vars, Lose, RoomChanges, inner

\* A pump that is started sleeps, and the others are as before.
LEMMA SpawnedIs ==
  ASSUME ConnTypes, NEW c \in Conns, NEW id, SpawnPump(c, id)
  PROVE  /\ DOMAIN pumps' = Conns /\ \A d \in Conns : IsPump(pumps'[d])
         /\ pumps'[c].at = "sleep" /\ \A d \in Conns : d # c => pumps'[d] = pumps[d]
<1> DEFINE after == IF Ended(tasks[id]) THEN id ELSE 0
           p == [pumps[c] EXCEPT !.at = "sleep", !.after = after]
<1>1. pumps' = [pumps EXCEPT ![c] = p]
  BY DEF SpawnPump, ConnTypes
<1>2. IsPump(p) /\ p.at = "sleep"
  BY DEF ConnTypes, IsPump
<1> HIDE DEF p
<1> QED
  BY <1>1, <1>2 DEF ConnTypes

\* Every step keeps the types of the connections and the pumps.
LEMMA ConnTypesStep ==
  ASSUME Types, [Next]_vars
  PROVE  ConnTypes'
<1>0. ConnTypes /\ TaskTypes /\ connection \in Conns \cup {NoConn}
      /\ \A id \in DOMAIN tasks : tasks[id].conn \in Conns \cup {NoConn}
  BY DEF Types, TaskTypes, IsTask
<1>1. CASE \E id \in DOMAIN tasks : Step(id)
  <2>1. PICK id \in DOMAIN tasks : Step(id)
    BY <1>1
  <2>2. UNCHANGED pumps
    BY <2>1, Zenon DEF Step, ConnectTurn, ReconnectTurn, TurnTooLate, EnterTurn, LeaveTurn,
                       TriesAgain, StartsAudio, Stops
  <2>3. conns' = conns \/ conns' = Disconnected(connection) \/ conns' = Disconnected(tasks[id].conn)
    BY <2>1, Zenon DEF Step, ConnectTurn, ReconnectTurn, TurnTooLate, EnterTurn, LeaveTurn,
                       TriesAgain, StartsAudio, Stops, DropConnection, Dropped, registry
  <2> QED
    BY <1>0, <2>1, <2>2, <2>3, DisconnectedIs DEF ConnTypes
<1>2. CASE \E id \in DOMAIN tasks : Answer(id) \/ ClockIsRight(id)
  <2>1. PICK id \in DOMAIN tasks : Answer(id) \/ ClockIsRight(id)
    BY <1>2
  <2>2. CASE Connects(id)
    <3>1. PICK c \in Conns : /\ \/ conns' = [conns EXCEPT ![c] = "closed"]
                                \/ conns' = [conns EXCEPT ![c] = "open"]
                             /\ UNCHANGED pumps \/ SpawnPump(c, id)
      BY <1>0, <2>2, ConnectsMoves
    <3>2. conns' \in [Conns -> {"none", "open", "lost", "closed"}]
      BY <1>0, <3>1 DEF ConnTypes
    <3> QED
      BY <1>0, <3>1, <3>2, SpawnedIs DEF ConnTypes
  <2>3. CASE Lists(id) \/ Enters(id)
    <3>1. /\ UNCHANGED conns /\ conns[tasks[id].conn] = "open"
          /\ UNCHANGED pumps \/ SpawnPump(tasks[id].conn, id)
      BY <2>3, Zenon DEF Lists, Enters, registry
    <3>2. CASE tasks[id].conn \in Conns
      BY <1>0, <3>1, <3>2, SpawnedIs DEF ConnTypes
    <3>3. CASE tasks[id].conn = NoConn /\ SpawnPump(tasks[id].conn, id)
      <4>1. NoConn \notin DOMAIN pumps
        BY <1>0, NoConnIs DEF ConnTypes
      <4> DEFINE after == IF Ended(tasks[id]) THEN id ELSE 0
      <4>2. pumps' = [pumps EXCEPT ![NoConn].at = "sleep", ![NoConn].after = after]
        BY <3>3 DEF SpawnPump
      <4> HIDE DEF after
      <4>3. DOMAIN pumps' = Conns /\ \A d \in Conns : pumps'[d] = pumps[d]
        BY <1>0, <4>1, <4>2 DEF ConnTypes
      <4> QED
        BY <1>0, <3>1, <4>3 DEF ConnTypes
    <3> QED
      BY <1>0, <2>1, <3>1, <3>2, <3>3 DEF ConnTypes
  <2>4. CASE UNCHANGED pumps /\ (conns' = conns \/ conns' = Disconnected(tasks[id].conn))
    BY <1>0, <2>1, <2>4, DisconnectedIs DEF ConnTypes
  <2> QED
    BY <2>1, <2>2, <2>3, <2>4, Zenon
       DEF Answer, ConnectFails, ListFails, EnterFails, Leaves, ClockIsRight, registry
<1>3. CASE \E c \in Conns : Pump(c)
  <2>1. PICK c \in Conns : Pump(c)
    BY <1>3
  <2>2. UNCHANGED conns
    BY <2>1, Zenon DEF Pump, PumpEnds, PumpPolls, EventTurn, LinkTurn, registry
  <2>3. IsPump(pumps[c]) /\ DOMAIN pumps = Conns
    BY <1>0 DEF ConnTypes
  <2>4. CASE \E batch, queue : GoesOn(c, batch, queue)
    <3>1. PICK batch, queue : GoesOn(c, batch, queue)
      BY <2>4
    <3>2. CASE \E link : pumps' = [pumps EXCEPT ![c].at = "link", ![c].batch = <<>>, ![c].link = link]
      BY <1>0, <2>2, <2>3, <3>2 DEF ConnTypes, IsPump
    <3>3. CASE \/ pumps' = [pumps EXCEPT ![c].at = "sleep", ![c].batch = <<>>, ![c].after = 0]
               \/ pumps' = [pumps EXCEPT ![c].at = "event", ![c].batch = batch]
               \/ pumps' = [pumps EXCEPT ![c].at = "none", ![c].batch = <<>>]
      BY <1>0, <2>2, <2>3, <3>3 DEF ConnTypes, IsPump
    <3> QED
      BY <1>0, <3>1, <3>2, <3>3, GoesOnMoves, Zenon
  <2>5. CASE PumpEnds(c)
    BY <1>0, <2>2, <2>3, <2>5 DEF PumpEnds, ConnTypes, IsPump
  <2>6. CASE LinkTurn(c)
    <3>1. pumps' = [pumps EXCEPT ![c].at = "sleep", ![c].link = "quiet", ![c].after = 0]
      BY <2>6, Zenon DEF LinkTurn
    <3> QED
      BY <1>0, <2>2, <2>3, <3>1 DEF ConnTypes, IsPump
  <2> QED
    BY <2>1, <2>4, <2>5, <2>6, Zenon DEF Pump, PumpPolls, EventTurn
<1>4. CASE \E c \in Conns : Lose(c)
  BY <1>0, <1>4 DEF Lose, ConnTypes
<1>5. CASE Command
  BY <1>0, <1>5, CommandJoins DEF registry, ConnTypes
<1>6. CASE UNCHANGED <<conns, pumps>>
  BY <1>0, <1>6 DEF ConnTypes
<1> QED
  BY <1>1, <1>2, <1>3, <1>4, <1>5, <1>6 DEF Next, vars, RoomChanges, LinkChanges, registry

\* What the others make of the steps: nothing, but that one more may be asked for,
\* which then supersedes whatever was to be ended.
Waits ==
    \/ UNCHANGED <<epoch, tasks>>
    \/ \E kind \in Kinds, e \in Nat :
          /\ Joins(kind, e)
          /\ \/ epoch' = epoch /\ e = 0 /\ kind \notin {"connect", "reconnect"}
             \/ epoch' = epoch + 1 /\ e = epoch' /\ kind \in {"connect", "reconnect"}

Moved == \E id \in DOMAIN tasks : Step(id) \/ Answer(id) \/ ClockIsRight(id)

\* Whoever is no step asks for one at most, and leaves the screen alone.
LEMMA OthersWait ==
  ASSUME Types, FlowInv, [Next]_vars, ~Moved
  PROVE  Waits /\ UNCHANGED <<phase, connection, joining, error, room, reconnect>>
<1>0. TaskTypes
  BY DEF Types
<1>1. CASE Command
  <2>1. PICK kind \in Kinds, e \in Nat :
            /\ AsksBehind(flow, kind, e)
            /\ \/ epoch' = epoch /\ e = 0 /\ kind \notin {"connect", "reconnect"}
               \/ epoch' = epoch + 1 /\ e = epoch' /\ kind \in {"connect", "reconnect"}
            /\ UNCHANGED <<phase, connection, joining, error, room, reconnect>>
    BY <1>0, <1>1, CommandJoins
  <2>2. IsQueue(flow)
    BY <1>0 DEF TaskTypes
  <2>3. Joins(kind, e)
    BY <1>0, <2>1, <2>2, AskedJoins
  <2> QED
    BY <2>1, <2>3 DEF Waits
<1>2. CASE \E c \in Conns : Pump(c)
  <2>1. PICK c \in Conns : Pump(c)
    BY <1>2
  <2>2. UNCHANGED <<phase, connection, joining, error, room, reconnect>>
    BY <2>1, Zenon DEF Pump, PumpEnds, PumpPolls, EventTurn, LinkTurn, inner
  <2>3. \/ UNCHANGED <<epoch, tasks>>
        \/ \E batch, queue : /\ queue = flow \/ (HasTurn(InPump(c)) /\ queue = Tail(flow))
                             /\ GoesOn(c, batch, queue)
    BY <2>1, Zenon DEF Pump, PumpEnds, PumpPolls, EventTurn, LinkTurn, inner
  <2>4. ASSUME NEW batch, NEW queue, queue = flow \/ (HasTurn(InPump(c)) /\ queue = Tail(flow)),
               GoesOn(c, batch, queue)
        PROVE  Waits
    <3>1. CASE epoch' = epoch + 1 /\ AsksBehind(queue, "reconnect", epoch')
      <4>1. IsQueue(queue)
        BY <1>0, <2>4, PumpMovesOn
      <4>2. Joins("reconnect", epoch') /\ epoch' \in Nat
        BY <1>0, <3>1, <4>1, AskedJoins DEF TaskTypes
      <4> QED
        BY <3>1, <4>2 DEF Waits, Kinds
    <3> QED
      BY <1>0, <2>4, <3>1, GoesOnMoves, Zenon DEF Waits
  <2> QED
    BY <2>2, <2>3, <2>4 DEF Waits
<1>3. CASE UNCHANGED <<inner, tasks>>
  BY <1>3 DEF inner, Waits
<1> QED
  BY <1>1, <1>2, <1>3 DEF Next, vars, Moved, Lose, RoomChanges, LinkChanges

\* Each step is as it was, or was asked for just now.
LEMMA WaitsFor ==
  ASSUME Waits
  PROVE  /\ \A j \in DOMAIN tasks : j \in DOMAIN tasks' /\ tasks'[j] = tasks[j]
         /\ \A j \in DOMAIN tasks' :
              \/ j \in DOMAIN tasks
              \/ \E kind \in Kinds, e \in Nat : tasks'[j] = NewTask(kind, e)
         /\ epoch' # epoch => Superseded'
<1>1. CASE UNCHANGED <<epoch, tasks>>
  BY <1>1
<1>2. ASSUME NEW kind \in Kinds, NEW e \in Nat, Joins(kind, e),
             \/ epoch' = epoch /\ e = 0 /\ kind \notin {"connect", "reconnect"}
             \/ epoch' = epoch + 1 /\ e = epoch' /\ kind \in {"connect", "reconnect"}
      PROVE  /\ \A j \in DOMAIN tasks : j \in DOMAIN tasks' /\ tasks'[j] = tasks[j]
             /\ \A j \in DOMAIN tasks' :
                  \/ j \in DOMAIN tasks
                  \/ \E k \in Kinds, f \in Nat : tasks'[j] = NewTask(k, f)
             /\ epoch' # epoch => Superseded'
  <2>1. PICK new \in DOMAIN tasks' :
          /\ new \notin DOMAIN tasks
          /\ DOMAIN tasks' = DOMAIN tasks \cup {new}
          /\ \A j \in DOMAIN tasks : tasks'[j] = tasks[j]
          /\ tasks'[new] = NewTask(kind, e)
    <3>1. Joins(kind, e)
      BY <1>2
    <3> QED
      BY <3>1, Zenon DEF Joins
  <2>2. epoch' # epoch => Superseded'
    <3>1. NewTask(kind, e).kind = kind /\ NewTask(kind, e).epoch = e /\ NewTask(kind, e).place = "turn"
      BY NewTaskIs
    <3> QED
      BY <1>2, <2>1, <3>1 DEF Superseded, Superseding, Reaches, Ended
  <2> QED
    BY <2>1, <2>2
<1> QED
  BY <1>1, <1>2 DEF Waits

\* Every step of the specification keeps each kind to its places.
LEMMA PlaceStep ==
  ASSUME Types, FlowInv, PlaceInv, [Next]_vars
  PROVE  PlaceInv'
<1>0. TaskTypes /\ IsRoster(roster) /\ \A id \in DOMAIN tasks : IsTask(tasks[id]) /\ Placed(tasks[id])
  BY DEF Types, TaskTypes, PlaceInv, RosterTypes
<1>1. ASSUME NEW id \in DOMAIN tasks, NEW p, NEW c, NEW b, Moves(id, p, c, b), Placed(tasks'[id])
      PROVE  PlaceInv'
  BY <1>0, <1>1 DEF Moves, PlaceInv, Placed, Reaches
<1>2. CASE ~Moved
  <2>1. \A kind \in Kinds, e \in Nat : Placed(NewTask(kind, e))
    BY NewTaskIs DEF Placed
  <2>2. \A j \in DOMAIN tasks' : Placed(tasks'[j])
    BY <1>0, <1>2, <2>1, OthersWait, WaitsFor
  <2> QED
    BY <2>2 DEF PlaceInv, Placed, Reaches
<1>3. CASE Moved
  <2>1. PICK id \in DOMAIN tasks : Step(id) \/ Answer(id) \/ ClockIsRight(id)
    BY <1>3 DEF Moved
  <2> USE DEF Placed, Reaches
  <2>2. CASE Ends(id)
    BY <1>0, <1>1, <2>1, <2>2 DEF Ends, Moves
  <2>3. CASE ConnectTurn(id)
    <3>1. GoesTo(id, "connecting", tasks[id].conn, tasks[id].rejoin) /\ tasks[id].kind = "connect"
      BY <1>0, <2>1, <2>3, ConnectTurnMoves DEF ConnectTurn
    <3> QED
      BY <1>1, <2>1, <3>1 DEF GoesTo, Moves
  <2>4. CASE ReconnectTurn(id)
    <3>1. GoesTo(id, "connecting", tasks[id].conn, room) /\ tasks[id].kind = "reconnect"
      BY <1>0, <2>1, <2>4, ReconnectTurnMoves DEF ReconnectTurn
    <3> QED
      BY <1>1, <2>1, <3>1 DEF GoesTo, Moves
  <2>5. CASE EnterTurn(id)
    <3>1. tasks[id].kind \in {"create", "join"}
      BY <2>5 DEF EnterTurn
    <3> QED
      BY <1>0, <1>1, <2>1, <2>2, <2>5, <3>1, EnterTurnMoves DEF GoesTo, Moves
  <2>6. CASE LeaveTurn(id)
    <3>1. tasks[id].kind = "leave"
      BY <2>6 DEF LeaveTurn
    <3>2. CASE /\ epoch' = epoch + 1 /\ DOMAIN tasks' = DOMAIN tasks
               /\ \A j \in DOMAIN tasks : j # id => tasks'[j] = tasks[j]
               /\ tasks'[id] = NewTask("connect", epoch')
      <4>1. Placed(tasks'[id])
        BY <1>0, <3>2, NewTaskIs DEF TaskTypes, Kinds
      <4> QED
        BY <1>0, <3>2, <4>1 DEF PlaceInv
    <3> QED
      BY <1>0, <1>1, <2>1, <2>2, <2>6, <3>1, <3>2, LeaveTurnMoves DEF GoesTo, Moves
  <2>7. CASE TriesAgain(id)
    BY <1>0, <1>1, <2>1, <2>7, TriesAgainMoves DEF GoesTo, Moves, TriesAgain
  <2>8. CASE StartsAudio(id) \/ Stops(id) \/ TurnTooLate(id)
    BY <1>0, <2>1, <2>2, <2>8, FinishEnds, StopsMoves DEF StartsAudio, TurnTooLate
  <2>9. CASE Connects(id)
    <3>1. tasks[id].place = "connecting"
      BY <2>9 DEF Connects
    <3> QED
      BY <1>0, <1>1, <2>1, <2>2, <2>9, <3>1, ConnectsMoves DEF GoesTo, Moves
  <2>10. CASE AttemptFails(id) /\ tasks[id].kind = "reconnect"
    BY <1>0, <1>1, <2>1, <2>2, <2>10, AttemptFailsMoves DEF GoesTo, Moves
  <2>11. CASE ConnectFails(id)
    <3>1. tasks[id].place = "connecting"
      BY <2>11 DEF ConnectFails
    <3> QED
      BY <1>0, <1>1, <2>1, <2>2, <2>10, <2>11, <3>1, ConnectFailsMoves DEF GoesTo, Moves
  <2>12. CASE Lists(id) \/ ListFails(id) \/ Leaves(id) \/ EnterFails(id)
    <3>1. Finish(id) \/ (AttemptFails(id) /\ tasks[id].kind = "reconnect")
      BY <1>0, <2>1, <2>12 DEF Lists, ListFails, Leaves, EnterFails
    <3> QED
      BY <1>0, <2>1, <2>2, <2>10, <3>1, FinishEnds
  <2>13. CASE Enters(id)
    <3>1. tasks[id].place = "entering"
      BY <2>13 DEF Enters
    <3> QED
      BY <1>0, <1>1, <2>1, <2>13, <3>1, EntersMoves DEF GoesTo, Moves
  <2>14. CASE ClockIsRight(id)
    BY <1>0, <1>1, <2>1, <2>14, ClockMoves DEF GoesTo, Moves, ClockIsRight
  <2> QED
    BY <2>1, <2>3, <2>4, <2>5, <2>6, <2>7, <2>8, <2>9, <2>11, <2>12, <2>13, <2>14 DEF Step, Answer
<1> QED
  BY <1>2, <1>3

\* A step moves alone and keeps the epoch, but for one that is to connect anew.
LEMMA StepMoves ==
  ASSUME Types, FlowInv, NEW id \in DOMAIN tasks, Step(id) \/ Answer(id) \/ ClockIsRight(id)
  PROVE  \/ (\E p, c, b : Moves(id, p, c, b)) /\ epoch' = epoch
            /\ tasks'[id].epoch \in {tasks[id].epoch, 0}
         \/ /\ LeaveTurn(id) /\ connection = NoConn /\ epoch' = epoch + 1 /\ UNCHANGED audio
            /\ DOMAIN tasks' = DOMAIN tasks
            /\ \A j \in DOMAIN tasks : j # id => tasks'[j] = tasks[j]
            /\ tasks'[id] = NewTask("connect", epoch')
<1>0. TaskTypes /\ IsRoster(roster)
  BY DEF Types, RosterTypes
<1>1. CASE LeaveTurn(id)
  BY <1>0, <1>1, LeaveTurnMoves DEF GoesTo, Ends
<1>2. CASE Step(id) /\ ~LeaveTurn(id)
  <2>1. UNCHANGED epoch
    BY <1>2, Zenon DEF Step, ConnectTurn, ReconnectTurn, TurnTooLate, EnterTurn, TriesAgain,
                       StartsAudio, Stops, inner
  <2>2. CASE ConnectTurn(id) \/ ReconnectTurn(id) \/ TriesAgain(id)
    BY <1>0, <2>1, <2>2, ConnectTurnMoves, ReconnectTurnMoves, TriesAgainMoves, Zenon DEF GoesTo
  <2>3. CASE TurnTooLate(id) \/ StartsAudio(id) \/ Stops(id)
    <3>1. Ends(id)
      BY <1>0, <2>3, FinishEnds, StopsMoves DEF TurnTooLate, StartsAudio
    <3> QED
      BY <2>1, <3>1, Zenon DEF Ends
  <2>4. CASE EnterTurn(id)
    BY <1>0, <2>1, <2>4, EnterTurnMoves DEF GoesTo, Ends
  <2> QED
    BY <1>2, <2>2, <2>3, <2>4 DEF Step
<1>3. CASE Answer(id) \/ ClockIsRight(id)
  <2>1. UNCHANGED epoch
    BY <1>3, Zenon DEF Answer, Connects, ConnectFails, Lists, ListFails, Enters, EnterFails, Leaves, ClockIsRight,
                AttemptFails, FailsUnlessEnded, Fails, inner
  <2>2. CASE ClockIsRight(id) \/ Enters(id)
    BY <1>0, <2>1, <2>2, ClockMoves, EntersMoves, Zenon DEF GoesTo
  <2>3. CASE Finish(id)
    BY <1>0, <2>1, <2>3, FinishEnds, Zenon DEF Ends
  <2>4. CASE AttemptFails(id)
    BY <1>0, <2>1, <2>4, AttemptFailsMoves, Zenon DEF GoesTo, Ends
  <2>5. CASE ConnectFails(id)
    BY <1>0, <2>1, <2>4, <2>5, ConnectFailsMoves, Zenon DEF GoesTo, Ends
  <2>6. CASE Connects(id)
    BY <1>0, <2>1, <2>6, ConnectsMoves, Zenon DEF GoesTo, Ends
  <2> QED
    BY <1>3, <2>2, <2>3, <2>4, <2>5, <2>6, Zenon DEF Answer, Lists, ListFails, EnterFails, Leaves
<1> QED
  BY <1>1, <1>2, <1>3

\* A new epoch comes with a step to take over.
LEMMA EpochSupersedes ==
  ASSUME Types, FlowInv, [Next]_vars, epoch' # epoch
  PROVE  Superseded'
<1>1. CASE ~Moved
  BY <1>1, OthersWait, WaitsFor
<1>2. CASE Moved
  <2>1. PICK id \in DOMAIN tasks : Step(id) \/ Answer(id) \/ ClockIsRight(id)
    BY <1>2 DEF Moved
  <2>2. DOMAIN tasks' = DOMAIN tasks /\ tasks'[id] = NewTask("connect", epoch') /\ epoch' = epoch + 1
    BY <2>1, StepMoves
  <2>3. epoch' \in Nat
    BY <2>2 DEF Types, TaskTypes
  <2>4. tasks'[id].kind = "connect" /\ tasks'[id].place = "turn" /\ tasks'[id].epoch = epoch'
    BY <2>2, <2>3, NewTaskIs DEF Kinds
  <2> QED
    BY <2>2, <2>4 DEF Superseded, Superseding, Reaches, Ended
<1> QED
  BY <1>1, <1>2

\* A step that is to take over is there until it has its turn.
LEMMA SupersededStays ==
  ASSUME Types, FlowInv, [Next]_vars, Superseded,
         \A id \in DOMAIN tasks : ~ConnectTurn(id) /\ ~ReconnectTurn(id)
  PROVE  Superseded'
<1>1. CASE epoch' # epoch
  BY <1>1, EpochSupersedes
<1>2. CASE epoch' = epoch
  <2>1. PICK w \in DOMAIN tasks : Superseding(tasks[w])
    BY DEF Superseded
  <2>2. CASE ~Moved
    <3>1. w \in DOMAIN tasks' /\ tasks'[w] = tasks[w]
      BY <2>2, OthersWait, WaitsFor
    <3> QED
      BY <1>2, <2>1, <3>1 DEF Superseded, Superseding, Ended
  <2>3. CASE Moved
    <3>1. PICK id \in DOMAIN tasks : Step(id) \/ Answer(id) \/ ClockIsRight(id)
      BY <2>3 DEF Moved
    <3>2. id # w
      BY <2>1, <3>1, Zenon
         DEF Superseding, Reaches, Step, Answer, TurnTooLate, EnterTurn, LeaveTurn, TriesAgain, StartsAudio,
             Stops, Endable, Connects, ConnectFails, Lists, ListFails, Enters, EnterFails, Leaves, ClockIsRight
    <3>3. epoch + 1 # epoch
      BY DEF Types, TaskTypes
    <3>4. w \in DOMAIN tasks' /\ tasks'[w] = tasks[w]
      BY <1>2, <2>1, <3>1, <3>2, <3>3, StepMoves DEF Moves
    <3> QED
      BY <1>2, <2>1, <3>4 DEF Superseded, Superseding, Ended
  <2> QED
    BY <2>2, <2>3
<1> QED
  BY <1>1, <1>2

\* Every step keeps a successor for whoever was ended at work.
LEMMA EndedStep ==
  ASSUME Types, FlowInv, EndedInv, [Next]_vars
  PROVE  EndedInv'
<1>1. CASE epoch' # epoch
  BY <1>1, EpochSupersedes DEF EndedInv
<1>2. CASE epoch' = epoch /\ ~Moved
  <2>1. \A kind \in Kinds, e \in Nat : ~AtWork(NewTask(kind, e))
    BY NewTaskIs DEF AtWork
  <2>2. \A j \in DOMAIN tasks' : AtWork(tasks'[j]) => j \in DOMAIN tasks /\ tasks'[j] = tasks[j]
    BY <1>2, <2>1, OthersWait, WaitsFor
  <2>3. ASSUME NEW id \in DOMAIN tasks, ConnectTurn(id) \/ ReconnectTurn(id) PROVE FALSE
    BY <1>2, <2>3 DEF Moved, Step
  <2>4. Superseded => Superseded'
    BY <2>3, SupersededStays
  <2> QED
    BY <1>2, <2>2, <2>4 DEF EndedInv, AtWork, Reaches, Ended
<1>3. CASE epoch' = epoch /\ Moved
  <2>1. PICK id \in DOMAIN tasks : Step(id) \/ Answer(id) \/ ClockIsRight(id)
    BY <1>3 DEF Moved
  <2>2. PICK p, c, b : Moves(id, p, c, b)
    <3>1. epoch + 1 # epoch
      BY DEF Types, TaskTypes
    <3> QED
      BY <1>3, <2>1, <3>1, StepMoves
  <2>3. CASE ConnectTurn(id) \/ ReconnectTurn(id)
    <3>1. \A j \in DOMAIN tasks : j # id => ~AtWork(tasks[j])
      BY <2>3, OneAtWork DEF ConnectTurn, ReconnectTurn
    <3>2. tasks'[id].epoch = epoch
      BY <2>3, ConnectTurnMoves, ReconnectTurnMoves DEF GoesTo, ConnectTurn, ReconnectTurn, Ended, Types
    <3> QED
      BY <1>3, <2>2, <3>1, <3>2 DEF EndedInv, Moves, AtWork, Reaches, Ended
  <2>4. CASE ~ConnectTurn(id) /\ ~ReconnectTurn(id)
    <3>1. Superseded => Superseded'
      <4>1. \A j \in DOMAIN tasks : ~ConnectTurn(j) /\ ~ReconnectTurn(j)
        <5>1. \A j \in DOMAIN tasks : ConnectTurn(j) \/ ReconnectTurn(j) => tasks'[j] # tasks[j] /\ j # id
          BY <2>4, ConnectTurnMoves, ReconnectTurnMoves
             DEF Types, GoesTo, Moves, ConnectTurn, ReconnectTurn
        <5> QED
          BY <2>2, <5>1 DEF Moves
      <4> QED
        BY <4>1, SupersededStays
    <3>2. CASE AtWork(tasks[id]) /\ tasks'[id].epoch = tasks[id].epoch
      BY <1>3, <2>2, <3>1, <3>2 DEF EndedInv, Moves, AtWork, Reaches, Ended
    <3>3. CASE ~AtWork(tasks'[id]) \/ ~Reaches(tasks'[id])
      BY <1>3, <2>2, <3>1, <3>3 DEF EndedInv, Moves, AtWork, Reaches, Ended
    <3>4. \/ AtWork(tasks[id]) /\ tasks'[id].epoch = tasks[id].epoch
          \/ ~AtWork(tasks'[id]) \/ ~Reaches(tasks'[id])
      <4>0. TaskTypes /\ IsRoster(roster)
        BY DEF Types, RosterTypes
      <4>1. CASE Ends(id) \/ Finish(id) \/ StartsAudio(id) \/ Stops(id) \/ TurnTooLate(id) \/ ClockIsRight(id)
        BY <4>0, <4>1, FinishEnds, StopsMoves, ClockMoves
           DEF Ends, Moves, GoesTo, StartsAudio, TurnTooLate, AtWork
      <4>2. CASE EnterTurn(id) \/ LeaveTurn(id)
        <5>1. tasks[id].kind \notin {"connect", "reconnect"}
          BY <4>2 DEF EnterTurn, LeaveTurn
        <5> QED
          BY <2>2, <5>1 DEF Moves, Reaches
      <4>3. CASE TriesAgain(id) \/ Enters(id)
        BY <4>0, <4>3, TriesAgainMoves, EntersMoves DEF TriesAgain, Enters, GoesTo, AtWork
      <4>4. CASE Connects(id)
        BY <4>0, <4>4, ConnectsMoves, Zenon DEF Connects, GoesTo, Ends, Moves, AtWork
      <4>5. CASE AttemptFails(id) /\ AtWork(tasks[id])
        BY <4>0, <4>5, AttemptFailsMoves DEF GoesTo, Ends, Moves, AtWork
      <4>6. CASE ConnectFails(id)
        BY <4>0, <4>5, <4>6, ConnectFailsMoves DEF ConnectFails, GoesTo, Ends, Moves, AtWork
      <4>7. CASE Lists(id) \/ ListFails(id) \/ EnterFails(id) \/ Leaves(id)
        <5>1. Finish(id) \/ (AttemptFails(id) /\ AtWork(tasks[id]))
          BY <4>7 DEF Lists, ListFails, EnterFails, Leaves, AtWork
        <5> QED
          BY <4>1, <4>5, <5>1
      <4> QED
        BY <2>1, <2>4, <4>1, <4>2, <4>3, <4>4, <4>6, <4>7 DEF Step, Answer
    <3> QED
      BY <3>2, <3>3, <3>4
  <2> QED
    BY <2>3, <2>4
<1> QED
  BY <1>1, <1>2, <1>3

Acts(id) == Step(id) \/ Answer(id) \/ ClockIsRight(id)

\* A step that moves leaves the others where they are.
LEMMA OthersStay ==
  ASSUME Types, FlowInv, NEW id \in DOMAIN tasks, Acts(id)
  PROVE  DOMAIN tasks' = DOMAIN tasks /\ \A j \in DOMAIN tasks : j # id => tasks'[j] = tasks[j]
BY StepMoves DEF Moves, Acts

\* The same, for a move of another step.
LEMMA StaysSuperseded ==
  ASSUME Types, FlowInv, [Next]_vars, Superseded, NEW id \in DOMAIN tasks, Acts(id),
         ~ConnectTurn(id), ~ReconnectTurn(id)
  PROVE  Superseded'
<1>1. ASSUME NEW j \in DOMAIN tasks, ConnectTurn(j) \/ ReconnectTurn(j) PROVE FALSE
  <2>1. tasks'[j] # tasks[j]
    BY <1>1, ConnectTurnMoves, ReconnectTurnMoves DEF Types, GoesTo, Moves, ConnectTurn, ReconnectTurn
  <2> QED
    BY <1>1, <2>1, OthersStay
<1> QED
  BY <1>1, SupersededStays

\* A step that does nothing to the audio, the roster and the room.
LEMMA QuietStep ==
  ASSUME Types, FlowInv, AudioInv, [Next]_vars, NEW id \in DOMAIN tasks, Acts(id),
         ~ConnectTurn(id), ~ReconnectTurn(id), UNCHANGED <<audio, roster, room>>,
         tasks[id].place \notin {"audio", "leaving"}, tasks'[id].place # "audio",
         AtWork(tasks'[id]) => AtWork(tasks[id]) \/ ~room
  PROVE  AudioInv'
<1>1. \A j \in DOMAIN tasks' : Sounds(tasks[j])
  BY OthersStay DEF AudioInv
<1>2. \A j \in DOMAIN tasks' : Sounds(tasks[j])'
  BY <1>1, OthersStay DEF Sounds, AtWork, AudioInv
<1>3. (\E j \in DOMAIN tasks : tasks[j].place \in {"audio", "leaving"})
        => \E j \in DOMAIN tasks' : tasks'[j].place \in {"audio", "leaving"}
  BY OthersStay
<1> QED
  BY <1>2, <1>3, StaysSuperseded DEF AudioInv

\* Nobody but the step that moved is at work.
LEMMA AloneSounds ==
  ASSUME Types, FlowInv, NEW id \in DOMAIN tasks, Acts(id),
         HasTurn(InTurn(id)) \/ AtWork(tasks[id]), Sounds(tasks[id])'
  PROVE  \A j \in DOMAIN tasks' : Sounds(tasks[j])'
<1>1. \A j \in DOMAIN tasks : j # id => ~AtWork(tasks[j])
  BY OneAtWork
<1> QED
  BY <1>1, OthersStay DEF Sounds, AtWork

\* Pumps, commands and the others' news keep the audio the roster's.
LEMMA WaitingAudio ==
  ASSUME Types, FlowInv, AudioInv, [Next]_vars, ~Moved
  PROVE  AudioInv'
<1>1. room' = room /\ Waits
  BY OthersWait
<1>2. Superseded => Superseded'
  <2>1. \A id \in DOMAIN tasks : ~ConnectTurn(id) /\ ~ReconnectTurn(id)
    BY DEF Moved, Step
  <2> QED
    BY <2>1, SupersededStays
<1>3. \A kind \in Kinds, e \in Nat : NewTask(kind, e).place = "turn"
  BY NewTaskIs
<1>4. \A j \in DOMAIN tasks' : tasks'[j].place # "turn" => j \in DOMAIN tasks /\ tasks'[j] = tasks[j]
  BY <1>1, <1>3, WaitsFor
<1>5. \A j \in DOMAIN tasks : j \in DOMAIN tasks' /\ tasks'[j] = tasks[j]
  BY <1>1, WaitsFor
<1>6. CASE UNCHANGED roster /\ audio'.with = audio.with
  <2>1. \A j \in DOMAIN tasks' : Sounds(tasks[j])'
    BY <1>1, <1>4, <1>6 DEF AudioInv, Sounds, AtWork
  <2>2. (\E j \in DOMAIN tasks : tasks[j].place \in {"audio", "leaving"})
          => \E j \in DOMAIN tasks' : tasks'[j].place \in {"audio", "leaving"}
    BY <1>5
  <2> QED
    BY <1>1, <1>2, <1>6, <2>1, <2>2 DEF AudioInv
<1>7. ASSUME NEW c \in Conns, EventTurn(c) \/ LinkTurn(c)
      PROVE  AudioInv'
  <2>1. \A j \in DOMAIN tasks : ~AtWork(tasks[j])
    BY <1>7, NoneAtWork DEF EventTurn, LinkTurn
  <2>2. \A j \in DOMAIN tasks' : Sounds(tasks[j])'
    BY <1>4, <2>1 DEF Sounds, AtWork
  <2>3. audio.with = roster.with \/ Superseded
    BY <2>1 DEF AudioInv, AtWork
  <2>4. CASE Concerns(c) /\ \E d : Sound(d, roster.with) /\ Decided(d)
    <3>1. roster.with = audio.with => roster'.with = audio'.with
      BY <2>4, DecidedRuns DEF Types
    <3> QED
      BY <1>1, <1>2, <2>2, <2>3, <2>4, <3>1 DEF AudioInv, Concerns
  <2>5. CASE UNCHANGED <<roster, audio>>
    BY <1>6, <2>5
  <2> QED
    BY <1>7, <2>4, <2>5, EventDecides DEF Types
<1>8. CASE LinkChanges
  <2>1. \E link : audio' = [audio EXCEPT !.link = link]
    BY <1>8 DEF LinkChanges
  <2>2. UNCHANGED roster
    BY <1>8 DEF LinkChanges, inner
  <2> QED
    BY <1>6, <2>1, <2>2 DEF Types, RosterTypes, IsAudio
<1>9. CASE Command
  BY <1>6, <1>9, CommandJoins DEF Types
<1>10. CASE UNCHANGED <<roster, audio>>
  BY <1>6, <1>10
<1>11. CASE \E c \in Conns : Pump(c)
  <2>1. PICK c \in Conns : Pump(c)
    BY <1>11
  <2>2. EventTurn(c) \/ LinkTurn(c) \/ UNCHANGED <<roster, audio>>
    BY <2>1, Zenon DEF Pump, PumpEnds, PumpPolls, inner
  <2> QED
    BY <1>7, <1>10, <2>2
<1> QED
  BY <1>8, <1>9, <1>10, <1>11 DEF Next, vars, Moved, Lose, RoomChanges, inner

\* Taking its turn to connect, a step ends the room's audio.
LEMMA TurnAudio ==
  ASSUME Types, FlowInv, AudioInv, [Next]_vars, NEW id \in DOMAIN tasks,
         ConnectTurn(id) \/ ReconnectTurn(id)
  PROVE  AudioInv'
<1>0. Acts(id) /\ HasTurn(InTurn(id)) /\ TaskTypes /\ IsRoster(roster) /\ IsAudio(audio)
  BY DEF Acts, Step, ConnectTurn, ReconnectTurn, Types, RosterTypes
<1>1. audio'.with = Nobody
  BY <1>0, AudioOffIs DEF ConnectTurn, ReconnectTurn, DropConnection, AudioInv
<1>2. roster'.with = Nobody
  BY <1>0, ForgottenIs, EmptyRosterIs, Zenon DEF ConnectTurn, ReconnectTurn, AudioEnded
<1>3. tasks'[id].place = "connecting"
  BY <1>0, ConnectTurnMoves, ReconnectTurnMoves DEF GoesTo, Moves
<1>4. \A j \in DOMAIN tasks' : Sounds(tasks[j])'
  BY <1>0, <1>1, <1>3, AloneSounds DEF Sounds
<1> QED
  BY <1>1, <1>2, <1>4 DEF AudioInv

\* The audio through a step's own moves.
LEMMA StepAudio ==
  ASSUME Types, FlowInv, EndedInv, AudioInv, [Next]_vars, NEW id \in DOMAIN tasks, Step(id)
  PROVE  AudioInv'
<1>0. Acts(id) /\ TaskTypes /\ IsRoster(roster) /\ IsAudio(audio)
  BY DEF Acts, Types, RosterTypes
<1>1. CASE ConnectTurn(id) \/ ReconnectTurn(id)
  BY <1>1, TurnAudio
<1>2. CASE TurnTooLate(id) \/ EnterTurn(id) \/ TriesAgain(id)
  <2>1. UNCHANGED <<audio, roster, room>>
    BY <1>2, Zenon DEF TurnTooLate, EnterTurn, TriesAgain, inner
  <2>2. /\ tasks[id].place \notin {"audio", "leaving"} /\ ~ConnectTurn(id) /\ ~ReconnectTurn(id)
        /\ TriesAgain(id) => AtWork(tasks[id])
    BY <1>2 DEF TurnTooLate, EnterTurn, TriesAgain, AtWork, ConnectTurn, ReconnectTurn
  <2>3. tasks'[id].place # "audio" /\ (AtWork(tasks'[id]) => TriesAgain(id) \/ ~room)
    BY <1>0, <1>2, FinishEnds, EnterTurnMoves, TriesAgainMoves DEF TurnTooLate, Ends, GoesTo, Moves, AtWork
  <2> QED
    BY <1>0, <2>1, <2>2, <2>3, QuietStep
<1>3. CASE LeaveTurn(id)
  <2>1. /\ tasks[id].place = "turn" /\ HasTurn(InTurn(id)) /\ ~ConnectTurn(id) /\ ~ReconnectTurn(id)
        /\ UNCHANGED <<roster, room>>
    BY <1>3 DEF LeaveTurn, ConnectTurn, ReconnectTurn
  <2>2. CASE audio' = audio /\ tasks'[id].place \in {"turn", "done"}
    BY <1>0, <2>1, <2>2, QuietStep DEF AtWork
  <2>3. CASE audio' = AudioOff /\ tasks'[id].place = "leaving"
    <3>1. audio'.with = Nobody
      BY <1>0, <2>3, AudioOffIs
    <3>2. \A j \in DOMAIN tasks' : Sounds(tasks[j])'
      BY <1>0, <2>1, <2>3, <3>1, AloneSounds DEF Sounds
    <3>3. id \in DOMAIN tasks'
      BY <1>0, OthersStay
    <3> QED
      BY <2>3, <3>1, <3>2, <3>3 DEF AudioInv
  <2>4. (epoch' = epoch + 1 /\ tasks'[id] = NewTask("connect", epoch')) => tasks'[id].place = "turn"
    BY <1>0, NewTaskIs DEF Kinds, TaskTypes
  <2> QED
    BY <1>0, <1>3, <2>2, <2>3, <2>4, LeaveTurnMoves DEF Ends, GoesTo, Moves
<1>4. CASE StartsAudio(id)
  <2>1. tasks[id].place = "audio" /\ room' = room
    BY <1>4 DEF StartsAudio
  <2>2. audio.with = Nobody /\ room /\ ToStart(roster, tasks[id].todo)
    BY <2>1 DEF AudioInv, Sounds, AtWork
  <2>3. roster'.with = audio'.with
    BY <1>0, <1>4, <2>2, StartsAudioRuns DEF Types
  <2>4. tasks'[id].place = "done"
    BY <1>0, <1>4, FinishEnds DEF StartsAudio, Ends, Moves
  <2>5. \A j \in DOMAIN tasks' : Sounds(tasks[j])'
    BY <1>0, <2>1, <2>4, AloneSounds DEF Sounds, AtWork
  <2> QED
    BY <2>1, <2>2, <2>3, <2>5 DEF AudioInv
<1>5. CASE Stops(id)
  <2>1. tasks'[id].place = "done" /\ UNCHANGED room
    BY <1>0, <1>5, StopsMoves DEF Stops, Ends, Moves
  <2>2. ~ConnectTurn(id) /\ ~ReconnectTurn(id) /\ Ended(tasks[id]) /\ tasks[id].place # "leaving"
    BY <1>5 DEF Stops, Endable, ConnectTurn, ReconnectTurn
  <2>3. CASE tasks[id].place = "audio"
    <3>1. Superseded /\ room
      BY <1>5, <2>2, <2>3 DEF EndedInv, AudioInv, Sounds, AtWork, Reaches, Stops, Endable
    <3>2. \A j \in DOMAIN tasks' : Sounds(tasks[j])'
      BY <1>0, <2>1, <2>3, AloneSounds DEF Sounds, AtWork
    <3> QED
      BY <1>0, <2>1, <2>2, <3>1, <3>2, StaysSuperseded DEF AudioInv
  <2>4. CASE tasks[id].place # "audio"
    <3>1. UNCHANGED <<roster, audio>>
      BY <1>5, <2>4 DEF Stops
    <3> QED
      BY <1>0, <2>1, <2>2, <2>4, <3>1, QuietStep DEF AtWork
  <2> QED
    BY <2>3, <2>4
<1> QED
  BY <1>1, <1>2, <1>3, <1>4, <1>5 DEF Step

\* The audio through what the server answers.
LEMMA AnswerAudio ==
  ASSUME Types, FlowInv, AudioInv, [Next]_vars, NEW id \in DOMAIN tasks, Answer(id) \/ ClockIsRight(id)
  PROVE  AudioInv'
<1>0. /\ Acts(id) /\ TaskTypes /\ IsRoster(roster) /\ IsAudio(audio) /\ UNCHANGED audio
      /\ tasks[id].place # "turn"
  BY Zenon DEF Acts, Types, RosterTypes, Answer, Connects, ConnectFails, Lists, ListFails, Enters, EnterFails,
         Leaves, ClockIsRight
<1>1. ~ConnectTurn(id) /\ ~ReconnectTurn(id)
  BY <1>0 DEF ConnectTurn, ReconnectTurn
<1>2. CASE Enters(id)
  <2>1. /\ tasks[id].place = "entering" /\ room' = TRUE
    BY <1>2 DEF Enters
  <2>2. tasks'[id].place = "audio" /\ ToStart(roster', tasks'[id].todo)
    BY <1>0, <1>2, EntersMoves DEF GoesTo, Moves
  <2>3. audio.with = Nobody
    BY <2>1 DEF AudioInv, Sounds, AtWork
  <2>4. \A j \in DOMAIN tasks' : Sounds(tasks[j])'
    BY <1>0, <2>1, <2>2, <2>3, AloneSounds DEF Sounds, AtWork
  <2>5. id \in DOMAIN tasks'
    BY <1>0, OthersStay
  <2> QED
    BY <1>0, <2>1, <2>2, <2>3, <2>4, <2>5 DEF AudioInv
<1>3. CASE Leaves(id)
  <2>1. tasks[id].place = "leaving" /\ roster' = EmptyRoster /\ Finish(id)
    BY <1>3 DEF Leaves
  <2>2. audio.with = Nobody /\ roster'.with = Nobody
    BY <2>1, EmptyRosterIs DEF AudioInv, Sounds, AtWork
  <2>3. tasks'[id].place = "done"
    BY <1>0, <2>1, FinishEnds DEF Ends, Moves
  <2>4. \A j \in DOMAIN tasks' : Sounds(tasks[j])'
    BY <1>0, <2>1, <2>3, AloneSounds DEF Sounds, AtWork
  <2> QED
    BY <1>0, <2>2, <2>4 DEF AudioInv
<1>4. CASE ~Enters(id) /\ ~Leaves(id)
  <2>1. UNCHANGED <<roster, room>>
    BY <1>4, Zenon DEF Answer, Connects, ConnectFails, Lists, ListFails, EnterFails, ClockIsRight, AttemptFails,
                FailsUnlessEnded, Fails, inner
  <2>2. /\ tasks[id].place \notin {"audio", "leaving"}
        /\ ClockIsRight(id) \/ AtWork(tasks[id])
    BY <1>4, Zenon DEF Answer, Connects, ConnectFails, Lists, ListFails, EnterFails, ClockIsRight, AtWork
  <2>3. ClockIsRight(id) => tasks'[id].place = "turn"
    BY <1>0, ClockMoves DEF GoesTo, Moves
  <2>4. tasks'[id].place # "audio"
    <3>1. CASE AttemptFails(id)
      BY <1>0, <3>1, AttemptFailsMoves DEF GoesTo, Moves, Ends
    <3>2. CASE ConnectFails(id)
      BY <1>0, <3>1, <3>2, ConnectFailsMoves DEF GoesTo, Moves, Ends
    <3>3. CASE Connects(id)
      BY <1>0, <3>3, ConnectsMoves DEF GoesTo, Moves, Ends
    <3>4. CASE Finish(id)
      BY <1>0, <3>4, FinishEnds DEF Moves, Ends
    <3> QED
      BY <1>4, <2>3, <3>1, <3>2, <3>3, <3>4 DEF Answer, Lists, ListFails, EnterFails
  <2> QED
    BY <1>0, <1>1, <2>1, <2>2, <2>3, <2>4, QuietStep DEF AtWork
<1> QED
  BY <1>2, <1>3, <1>4

\* Every step of the specification keeps the audio's invariant.
LEMMA AudioStep ==
  ASSUME Types, FlowInv, EndedInv, AudioInv, [Next]_vars
  PROVE  AudioInv'
BY WaitingAudio, StepAudio, AnswerAudio DEF Moved

\* What the screen shows while the step t is at work.
Shown(t) ==
    /\ t.kind = "connect" /\ AtWork(t) => phase = "connecting_server"
    /\ t.kind = "reconnect" /\ t.place \in {"connecting", "pausing", "listing", "entering"} =>
         t.rejoin = room /\ (~room => phase = "connecting_server")
    /\ t.kind = "reconnect" /\ t.place = "listing" => ~room
    /\ t.kind = "reconnect" /\ t.place = "entering" => room
    /\ t.kind = "create" /\ t.place = "entering" => phase = "creating"
    /\ t.kind = "join" /\ t.place = "entering" => phase = "joining"
    /\ t.place \in {"leaving", "audio"} => room

JoinsRoom(t) == t.kind = "join" /\ t.place = "entering"
ScreenInv ==
    /\ ScreenCoherent
    /\ reconnect # "idle" => connection = NoConn
    /\ phase = "joining" => \E id \in DOMAIN tasks : JoinsRoom(tasks[id])
    /\ \A id \in DOMAIN tasks : Shown(tasks[id])

\* The step t is at work with the connection of the session.
Uses(t) ==
    \/ t.kind = "connect" /\ t.place = "listing"
    \/ t.kind \in {"create", "join"} /\ t.place = "entering"
    \/ t.place \in {"audio", "leaving"}
\* What connection the step t has in hand.
Holds(t) ==
    /\ t.place \in {"turn", "connecting", "pausing", "clock", "done"} => t.conn = NoConn
    /\ t.place \in {"connecting", "pausing"} => connection = NoConn
    /\ t.kind = "reconnect" /\ t.place \in {"listing", "entering"} =>
         connection = NoConn /\ t.conn # NoConn
    /\ Uses(t) => t.conn = connection /\ connection # NoConn
\* The connection c is made to get the lost one back.
Regained(t, c) ==
    t.kind = "reconnect" /\ t.place \in {"listing", "entering"} /\ t.conn = c
ConnInv ==
    /\ connection # NoConn => conns[connection] # "none"
    /\ \A id \in DOMAIN tasks : Holds(tasks[id])
    /\ \A c \in Conns : conns[c] \in {"open", "lost"} =>
         c = connection \/ \E id \in DOMAIN tasks : Regained(tasks[id], c)

Screen == <<phase, connection, joining, error, room, reconnect>>

\* A step that is not at work shows nothing.
LEMMA RestShown ==
  ASSUME NEW t, ~AtWork(t)
  PROVE  Shown(t)
BY DEF Shown, AtWork

\* The step that moved is the only one at work.
LEMMA AloneShown ==
  ASSUME Types, FlowInv, NEW id \in DOMAIN tasks, Acts(id),
         HasTurn(InTurn(id)) \/ AtWork(tasks[id]),
         Shown(tasks[id])', ScreenCoherent',
         reconnect' # "idle" => connection' = NoConn,
         phase' = "joining" => JoinsRoom(tasks'[id])
  PROVE  ScreenInv'
<1>1. \A j \in DOMAIN tasks : j # id => ~AtWork(tasks[j])
  BY OneAtWork
<1>2. \A j \in DOMAIN tasks' : Shown(tasks[j])'
  BY <1>1, OthersStay DEF Shown, AtWork
<1>3. id \in DOMAIN tasks'
  BY OthersStay
<1> QED
  BY <1>2, <1>3 DEF ScreenInv, JoinsRoom

\* A step that changes nothing of the screen but stops being at work.
LEMMA QuietShown ==
  ASSUME Types, FlowInv, ScreenInv, NEW id \in DOMAIN tasks, Acts(id), UNCHANGED Screen,
         ~AtWork(tasks'[id]), ~JoinsRoom(tasks[id])
  PROVE  ScreenInv'
<1>1. \A j \in DOMAIN tasks' : Shown(tasks[j])'
  BY OthersStay DEF ScreenInv, Shown, AtWork, Screen
<1>2. (\E j \in DOMAIN tasks : JoinsRoom(tasks[j])) => \E j \in DOMAIN tasks' : JoinsRoom(tasks'[j])
  BY OthersStay
<1> QED
  BY <1>1, <1>2 DEF ScreenInv, ScreenCoherent, Screen, JoinsRoom

\* Pumps, commands and the others' news change nothing of the screen.
LEMMA WaitingScreen ==
  ASSUME Types, FlowInv, ScreenInv, [Next]_vars, ~Moved
  PROVE  ScreenInv'
<1>1. UNCHANGED Screen /\ Waits
  BY OthersWait DEF Screen
<1>2. \A kind \in Kinds, e \in Nat : NewTask(kind, e).place = "turn"
  BY NewTaskIs
<1>3. \A j \in DOMAIN tasks' : tasks'[j].place # "turn" => j \in DOMAIN tasks /\ tasks'[j] = tasks[j]
  BY <1>1, <1>2, WaitsFor
<1>4. \A j \in DOMAIN tasks : j \in DOMAIN tasks' /\ tasks'[j] = tasks[j]
  BY <1>1, WaitsFor
<1>5. \A j \in DOMAIN tasks' : Shown(tasks[j])'
  BY <1>1, <1>3 DEF ScreenInv, Shown, AtWork, Screen
<1>6. (\E j \in DOMAIN tasks : JoinsRoom(tasks[j])) => \E j \in DOMAIN tasks' : JoinsRoom(tasks'[j])
  BY <1>4
<1> QED
  BY <1>1, <1>5, <1>6 DEF ScreenInv, ScreenCoherent, Screen, JoinsRoom

\* The screen through a step's own moves.
LEMMA StepScreen ==
  ASSUME Types, FlowInv, ScreenInv, ConnInv, [Next]_vars, NEW id \in DOMAIN tasks, Step(id)
  PROVE  ScreenInv'
<1>0. Acts(id) /\ TaskTypes /\ ScreenTypes /\ IsRoster(roster) /\ room \in BOOLEAN
  BY DEF Acts, Types, RosterTypes, TaskTypes
<1>1. CASE ConnectTurn(id)
  <2>1. /\ connection' = NoConn /\ phase' = "connecting_server" /\ error' = FALSE /\ joining' = FALSE
        /\ room' = FALSE /\ reconnect' = "idle" /\ HasTurn(InTurn(id)) /\ tasks[id].kind = "connect"
    BY <1>1 DEF ConnectTurn, DropConnection
  <2>2. tasks'[id].place = "connecting" /\ tasks'[id].kind = "connect"
    BY <1>0, <1>1, <2>1, ConnectTurnMoves DEF GoesTo, Moves
  <2>3. Shown(tasks[id])' /\ ScreenCoherent'
    BY <2>1, <2>2 DEF Shown, ScreenCoherent
  <2> QED
    BY <1>0, <2>1, <2>3, AloneShown
<1>2. CASE ReconnectTurn(id)
  <2>1. /\ connection' = NoConn /\ HasTurn(InTurn(id)) /\ tasks[id].kind = "reconnect"
        /\ tasks[id].place = "turn"
        /\ room' = room
        /\ room => reconnect' = "reconnecting" /\ UNCHANGED <<phase, error, joining>>
        /\ ~room => /\ phase' = "connecting_server" /\ error' = FALSE /\ joining' = FALSE
                    /\ reconnect' = reconnect
    BY <1>2 DEF ReconnectTurn, DropConnection
  <2>2. tasks'[id].place = "connecting" /\ tasks'[id].kind = "reconnect" /\ tasks'[id].rejoin = room
    BY <1>0, <1>2, <2>1, ReconnectTurnMoves DEF GoesTo, Moves
  <2>3. Shown(tasks[id])' /\ ScreenCoherent' /\ phase' # "joining"
    BY <1>0, <2>1, <2>2 DEF Shown, ScreenCoherent, ScreenInv
  <2> QED
    BY <1>0, <2>1, <2>3, AloneShown
<1>3. CASE EnterTurn(id)
  <2>1. /\ tasks[id].kind \in {"create", "join"} /\ tasks[id].place = "turn" /\ HasTurn(InTurn(id))
    BY <1>3 DEF EnterTurn
  <2>2. CASE room \/ connection = NoConn
    <3>1. UNCHANGED Screen
      BY <1>3, <2>2 DEF EnterTurn, inner, Screen
    <3>2. ~AtWork(tasks'[id]) /\ ~JoinsRoom(tasks[id])
      BY <1>0, <1>3, <2>1, <2>2, EnterTurnMoves DEF Ends, Moves, AtWork, JoinsRoom
    <3> QED
      BY <1>0, <3>1, <3>2, QuietShown
  <2>3. CASE ~(room \/ connection = NoConn)
    <3>1. /\ phase' = IF tasks[id].kind = "create" THEN "creating" ELSE "joining"
          /\ joining' = (joining \/ tasks[id].kind = "join")
          /\ error' = FALSE /\ UNCHANGED <<connection, room, reconnect>>
      BY <1>3, <2>3 DEF EnterTurn
    <3>2. tasks'[id].place = "entering" /\ tasks'[id].kind = tasks[id].kind
      BY <1>0, <1>3, <2>3, EnterTurnMoves DEF GoesTo, Moves
    <3>3. phase # "joining"
      <4>1. \A j \in DOMAIN tasks : ~AtWork(tasks[j])
        BY <2>1, OneAtWork DEF AtWork
      <4> QED
        BY <4>1 DEF ScreenInv, JoinsRoom, AtWork
    <3>4. joining = FALSE /\ reconnect = "idle"
      BY <1>0, <2>3, <3>3 DEF ScreenInv, ScreenCoherent, ScreenTypes
    <3>5. Shown(tasks[id])' /\ ScreenCoherent' /\ (phase' = "joining" => JoinsRoom(tasks'[id]))
      BY <1>0, <2>1, <2>3, <3>1, <3>2, <3>4 DEF Shown, ScreenCoherent, JoinsRoom, ScreenTypes
    <3> QED
      BY <1>0, <2>1, <3>1, <3>4, <3>5, AloneShown
  <2> QED
    BY <2>2, <2>3
<1>4. CASE LeaveTurn(id)
  <2>1. /\ UNCHANGED Screen /\ tasks[id].place = "turn" /\ HasTurn(InTurn(id))
    BY <1>4 DEF LeaveTurn, Screen
  <2>2. CASE tasks'[id].place \in {"turn", "done"}
    BY <1>0, <2>1, <2>2, QuietShown DEF AtWork, JoinsRoom
  <2>3. CASE tasks'[id].place = "leaving" /\ tasks'[id].kind = "leave" /\ room
    <3>1. \A j \in DOMAIN tasks : ~AtWork(tasks[j])
      BY <2>1, OneAtWork DEF AtWork
    <3>2. phase' # "joining" /\ ScreenCoherent' /\ Shown(tasks[id])'
      BY <2>1, <2>3, <3>1 DEF ScreenInv, ScreenCoherent, Screen, Shown, AtWork, JoinsRoom
    <3>3. reconnect' # "idle" => connection' = NoConn
      BY <2>1 DEF Screen, ScreenInv
    <3> QED
      BY <1>0, <2>1, <3>2, <3>3, AloneShown
  <2>4. (epoch' = epoch + 1 /\ tasks'[id] = NewTask("connect", epoch')) => tasks'[id].place = "turn"
    BY <1>0, NewTaskIs DEF Kinds, TaskTypes
  <2>5. tasks[id].kind = "leave"
    BY <1>4 DEF LeaveTurn
  <2> QED
    BY <1>0, <1>4, <2>2, <2>3, <2>4, <2>5, LeaveTurnMoves DEF Ends, GoesTo, Moves
<1>5. CASE TriesAgain(id)
  <2>1. UNCHANGED Screen /\ tasks[id].place = "pausing"
    BY <1>5 DEF TriesAgain, inner, Screen
  <2>2. /\ tasks'[id].place = "connecting" /\ tasks'[id].kind = tasks[id].kind
        /\ tasks'[id].rejoin = tasks[id].rejoin
    BY <1>0, <1>5, TriesAgainMoves DEF GoesTo, Moves
  <2>3. \A j \in DOMAIN tasks : AtWork(tasks[j]) => j = id
    BY <2>1, OneAtWork DEF AtWork
  <2>4. Shown(tasks[id])
    BY DEF ScreenInv
  <2>5. Shown(tasks[id])'
    BY <2>1, <2>2, <2>4 DEF Shown, Screen, AtWork
  <2>6. phase' # "joining" /\ ScreenCoherent' /\ (reconnect' # "idle" => connection' = NoConn)
    BY <2>1, <2>3 DEF ScreenInv, ScreenCoherent, Screen, AtWork, JoinsRoom
  <2> QED
    BY <1>0, <2>1, <2>5, <2>6, AloneShown DEF AtWork
<1>6. CASE TurnTooLate(id) \/ StartsAudio(id) \/ Stops(id)
  <2>1. UNCHANGED Screen
    BY <1>6, Zenon DEF TurnTooLate, StartsAudio, Stops, inner, Screen
  <2>2. ~AtWork(tasks'[id])
    BY <1>0, <1>6, FinishEnds, StopsMoves DEF TurnTooLate, StartsAudio, Ends, Moves, AtWork
  <2>3. ~JoinsRoom(tasks[id])
    BY <1>6 DEF TurnTooLate, StartsAudio, Stops, Endable, JoinsRoom
  <2> QED
    BY <1>0, <2>1, <2>2, <2>3, QuietShown
<1> QED
  BY <1>1, <1>2, <1>3, <1>4, <1>5, <1>6 DEF Step

\* A failure is shown as one.
LEMMA FailsIsCoherent ==
  ASSUME ScreenCoherent, ~room, Fails
  PROVE  ScreenCoherent' /\ phase' = "error" /\ UNCHANGED <<connection, room, reconnect>> /\ reconnect = "idle"
BY DEF ScreenCoherent, Fails

\* The screen through a failed attempt.
LEMMA AttemptFailsScreen ==
  ASSUME Types, FlowInv, ScreenInv, ConnInv, NEW id \in DOMAIN tasks, Acts(id), AttemptFails(id),
         tasks[id].kind = "reconnect", tasks[id].place \in {"connecting", "listing", "entering"}
  PROVE  ScreenInv'
<1>0. /\ TaskTypes /\ AtWork(tasks[id])
  BY DEF Types, AtWork
<1>1. /\ Shown(tasks[id]) /\ Holds(tasks[id]) /\ ScreenCoherent
      /\ \A j \in DOMAIN tasks : AtWork(tasks[j]) => j = id
  BY <1>0, OneAtWork DEF ScreenInv, ConnInv
<1>2. phase # "joining" /\ (reconnect # "idle" => connection = NoConn)
  BY <1>1 DEF ScreenInv, JoinsRoom, AtWork
<1>3. /\ tasks[id].rejoin = room /\ (~room => phase = "connecting_server")
      /\ connection = NoConn
  BY <1>1 DEF Shown, Holds
<1>4. CASE GoesTo(id, "pausing", NoConn, tasks[id].rejoin) /\ UNCHANGED <<inner, flow>>
  <2>1. UNCHANGED Screen
    BY <1>4 DEF inner, Screen
  <2>2. Shown(tasks[id])'
    BY <1>3, <1>4, <2>1 DEF Shown, GoesTo, Moves, Screen, AtWork
  <2> QED
    BY <1>0, <1>1, <1>2, <2>1, <2>2, AloneShown DEF Screen, ScreenCoherent
<1>5. CASE Ends(id) /\ ~AtWork(tasks'[id])
  <2>1. Shown(tasks[id])'
    BY <1>5 DEF Shown, AtWork
  <2>2. CASE /\ tasks[id].rejoin /\ reconnect' = "failed"
             /\ UNCHANGED <<epoch, phase, connection, joining, error, room, roster>>
    BY <1>0, <1>1, <1>2, <1>3, <2>1, <2>2, AloneShown DEF ScreenCoherent
  <2>3. CASE ~tasks[id].rejoin /\ FailsUnlessEnded(id)
    <3>1. CASE UNCHANGED inner
      BY <1>0, <1>1, <1>2, <2>1, <3>1, AloneShown DEF inner, ScreenCoherent
    <3>2. CASE Fails
      BY <1>0, <1>1, <1>2, <1>3, <2>1, <2>3, <3>2, AloneShown, FailsIsCoherent
    <3> QED
      BY <2>3, <3>1, <3>2 DEF FailsUnlessEnded
  <2> QED
    BY <1>0, <1>1, <1>5, <2>2, <2>3, AttemptFailsMoves DEF GoesTo, Moves, Ends, AtWork, AttemptFails
<1> QED
  BY <1>0, <1>4, <1>5, AttemptFailsMoves DEF Ends, Moves, AtWork

\* The screen through what the server answers.
LEMMA AnswerScreen ==
  ASSUME Types, FlowInv, PlaceInv, ScreenInv, ConnInv, [Next]_vars, NEW id \in DOMAIN tasks,
         Answer(id) \/ ClockIsRight(id)
  PROVE  ScreenInv'
<1>0. /\ Acts(id) /\ TaskTypes /\ ScreenTypes /\ IsRoster(roster) /\ room \in BOOLEAN
      /\ Placed(tasks[id]) /\ Shown(tasks[id]) /\ Holds(tasks[id]) /\ ScreenCoherent
      /\ tasks[id].kind \in Kinds
  BY DEF Acts, Types, RosterTypes, TaskTypes, PlaceInv, ScreenInv, ConnInv, IsTask
<1>1. CASE ClockIsRight(id)
  <2>1. UNCHANGED Screen /\ tasks[id].place = "clock"
    BY <1>1 DEF ClockIsRight, inner, Screen
  <2>2. tasks'[id].place = "turn"
    BY <1>0, <1>1, ClockMoves DEF GoesTo, Moves
  <2> QED
    BY <1>0, <2>1, <2>2, QuietShown DEF AtWork, JoinsRoom
<1>2. CASE Answer(id)
  <2>0. AtWork(tasks[id])
    BY <1>2, Zenon DEF Answer, Connects, ConnectFails, Lists, ListFails, Enters, EnterFails, Leaves, AtWork
  <2>a. /\ \A j \in DOMAIN tasks : AtWork(tasks[j]) => j = id
        /\ phase = "joining" => JoinsRoom(tasks[id])
        /\ reconnect # "idle" => connection = NoConn
    BY <2>0, OneAtWork DEF ScreenInv, JoinsRoom, AtWork
  <2>b. tasks[id].kind = "connect" => phase = "connecting_server" /\ ~room /\ reconnect = "idle"
    BY <1>0, <2>0 DEF Shown, ScreenCoherent
  <2>c. /\ ~AtWork(tasks'[id]) => Shown(tasks[id])'
    BY DEF Shown, AtWork
  <2>1. CASE Connects(id)
    <3>1. tasks[id].place = "connecting" /\ UNCHANGED <<phase, joining, error, room, reconnect>>
      BY <2>1 DEF Connects
    <3>2. tasks[id].kind \in {"connect", "reconnect"} /\ phase # "joining"
      BY <1>0, <2>a, <3>1 DEF Placed, Reaches, JoinsRoom
    <3>3. CASE Ends(id) /\ UNCHANGED connection
      BY <1>0, <2>0, <2>a, <2>c, <3>1, <3>2, <3>3, AloneShown DEF Ends, Moves, AtWork, ScreenCoherent
    <3>4. ASSUME NEW c \in Conns, tasks[id].kind = "connect", GoesTo(id, "listing", c, tasks[id].rejoin)
          PROVE  ScreenInv'
      <4>1. Shown(tasks[id])'
        BY <2>b, <3>1, <3>4 DEF Shown, GoesTo, Moves, AtWork
      <4> QED
        BY <1>0, <2>0, <2>b, <3>1, <3>2, <3>4, <4>1, AloneShown DEF ScreenCoherent
    <3>5. ASSUME NEW c \in Conns, tasks[id].kind # "connect", UNCHANGED connection,
                 GoesTo(id, IF tasks[id].rejoin THEN "entering" ELSE "listing", c, tasks[id].rejoin)
          PROVE  ScreenInv'
      <4>1. Shown(tasks[id])'
        BY <1>0, <3>1, <3>2, <3>5 DEF Shown, GoesTo, Moves, AtWork
      <4> QED
        BY <1>0, <2>0, <2>a, <3>1, <3>2, <3>5, <4>1, AloneShown DEF ScreenCoherent
    <3> QED
      BY <1>0, <2>1, <3>3, <3>4, <3>5, ConnectsMoves
  <2>2. CASE AttemptFails(id) /\ tasks[id].kind = "reconnect"
             /\ tasks[id].place \in {"connecting", "listing", "entering"}
    BY <1>0, <2>2, AttemptFailsScreen
  <2>3. CASE /\ FailsUnlessEnded(id) /\ tasks[id].kind = "connect" /\ ~AtWork(tasks'[id])
    <3>1. CASE UNCHANGED inner
      BY <1>0, <2>0, <2>a, <2>b, <2>c, <2>3, <3>1, AloneShown DEF inner, ScreenCoherent
    <3>2. CASE Fails
      BY <1>0, <2>0, <2>a, <2>b, <2>c, <2>3, <3>2, AloneShown, FailsIsCoherent
    <3> QED
      BY <2>3, <3>1, <3>2 DEF FailsUnlessEnded
  <2>4. CASE ConnectFails(id)
    <3>1. tasks[id].place = "connecting"
      BY <2>4 DEF ConnectFails
    <3>2. tasks[id].kind # "reconnect" => tasks[id].kind = "connect"
      BY <1>0, <3>1 DEF Placed, Reaches
    <3>3. CASE tasks[id].kind = "reconnect"
      BY <2>2, <2>4, <3>1, <3>3 DEF ConnectFails
    <3>4. CASE tasks[id].kind # "reconnect"
      <4>1. FailsUnlessEnded(id) /\ ~AtWork(tasks'[id])
        BY <1>0, <2>4, <3>4, ConnectFailsMoves DEF GoesTo, Ends, Moves, AtWork
      <4> QED
        BY <2>3, <3>2, <3>4, <4>1
    <3> QED
      BY <3>3, <3>4
  <2>5. CASE Lists(id)
    <3>1. /\ tasks[id].place = "listing" /\ phase' = "server_connected" /\ Finish(id)
          /\ UNCHANGED <<joining, error, room, reconnect>>
      BY <2>5 DEF Lists
    <3>2. ~AtWork(tasks'[id])
      BY <1>0, <3>1, FinishEnds DEF Ends, Moves, AtWork
    <3>3. ~room /\ phase = "connecting_server"
      BY <1>0, <2>b, <3>1 DEF Shown, Placed, Reaches
    <3>4. ScreenCoherent' /\ reconnect' = "idle"
      BY <1>0, <3>1, <3>3 DEF ScreenCoherent
    <3> QED
      BY <1>0, <2>0, <2>c, <3>1, <3>2, <3>4, AloneShown
  <2>6. CASE ListFails(id)
    <3>1. CASE tasks[id].kind = "connect"
      <4>1. FailsUnlessEnded(id) /\ Finish(id)
        BY <2>6, <3>1 DEF ListFails
      <4> QED
        BY <1>0, <2>3, <3>1, <4>1, FinishEnds DEF Ends, Moves, AtWork
    <3>2. CASE tasks[id].kind # "connect"
      <4>1. AttemptFails(id) /\ tasks[id].place = "listing"
        BY <2>6, <3>2 DEF ListFails
      <4> QED
        BY <1>0, <2>2, <3>2, <4>1 DEF Placed, Reaches
    <3> QED
      BY <3>1, <3>2
  <2>7. CASE Enters(id)
    <3>1. /\ room' = TRUE /\ phase' = "connected" /\ error' = FALSE /\ joining' = FALSE
          /\ reconnect' = "idle"
      BY <2>7 DEF Enters
    <3>2. tasks'[id].place = "audio"
      BY <1>0, <2>7, EntersMoves DEF GoesTo, Moves
    <3>3. tasks'[id].kind # "connect"
      BY <1>0, <2>7, EntersMoves DEF GoesTo, Moves, Enters, Placed
    <3>4. Shown(tasks[id])' /\ ScreenCoherent'
      BY <3>1, <3>2, <3>3 DEF Shown, ScreenCoherent
    <3> QED
      BY <1>0, <2>0, <3>1, <3>4, AloneShown
  <2>8. CASE EnterFails(id)
    <3>1. tasks[id].place = "entering"
      BY <2>8 DEF EnterFails
    <3>2. CASE tasks[id].kind = "reconnect"
      BY <2>2, <2>8, <3>1, <3>2 DEF EnterFails
    <3>3. CASE tasks[id].kind # "reconnect"
      <4>1. Finish(id) /\ Fails
        BY <2>8, <3>3 DEF EnterFails
      <4>2. ~AtWork(tasks'[id])
        BY <1>0, <4>1, FinishEnds DEF Ends, Moves, AtWork
      <4>3. ~room
        BY <1>0, <3>1, <3>3 DEF Placed, Shown, ScreenCoherent
      <4> QED
        BY <1>0, <2>0, <2>a, <2>c, <4>1, <4>2, <4>3, AloneShown, FailsIsCoherent
    <3> QED
      BY <3>2, <3>3
  <2>9. CASE Leaves(id)
    <3>1. /\ tasks[id].place = "leaving" /\ Finish(id) /\ room' = FALSE
          /\ \/ phase' = "server_connected" /\ UNCHANGED error
             \/ phase' = "error" /\ error' = TRUE
          /\ UNCHANGED <<joining, reconnect, connection>>
      BY <2>9 DEF Leaves
    <3>2. ~AtWork(tasks'[id])
      BY <1>0, <3>1, FinishEnds DEF Ends, Moves, AtWork
    <3>3. room /\ connection # NoConn
      BY <1>0, <3>1 DEF Shown, Holds, Uses
    <3>4. ScreenCoherent' /\ reconnect' = "idle" /\ phase' # "joining"
      BY <1>0, <2>a, <3>1, <3>3 DEF ScreenCoherent, ScreenTypes
    <3> QED
      BY <1>0, <2>0, <2>c, <3>2, <3>4, AloneShown
  <2> QED
    BY <1>2, <2>1, <2>4, <2>5, <2>6, <2>7, <2>8, <2>9 DEF Answer
<1> QED
  BY <1>1, <1>2

\* Every step of the specification keeps the screen coherent.
LEMMA ScreenStep ==
  ASSUME Types, FlowInv, PlaceInv, ScreenInv, ConnInv, [Next]_vars
  PROVE  ScreenInv'
BY WaitingScreen, StepScreen, AnswerScreen DEF Moved

Alive(c) == conns[c] \in {"open", "lost"}

\* Only the step at work has a connection in hand besides the session's.
LEMMA OnlyMine ==
  ASSUME Types, FlowInv, ConnInv, NEW id \in DOMAIN tasks, HasTurn(InTurn(id)) \/ AtWork(tasks[id])
  PROVE  \A c \in Conns : Alive(c) => c = connection \/ Regained(tasks[id], c)
<1>1. \A j \in DOMAIN tasks : AtWork(tasks[j]) => j = id
  BY OneAtWork
<1> QED
  BY <1>1 DEF ConnInv, Alive, Regained, AtWork

\* A step at work answers for every connection but the session's.
LEMMA AloneHolds ==
  ASSUME Types, FlowInv, ConnInv, NEW id \in DOMAIN tasks, Acts(id),
         HasTurn(InTurn(id)) \/ AtWork(tasks[id]), Holds(tasks[id])',
         connection' # NoConn => conns'[connection'] # "none",
         \A c \in Conns : Alive(c)' => c = connection' \/ Regained(tasks'[id], c)
  PROVE  ConnInv'
<1>1. \A j \in DOMAIN tasks : j # id => ~AtWork(tasks[j]) /\ Holds(tasks[j])
  BY OneAtWork DEF ConnInv
<1>2. \A j \in DOMAIN tasks' : Holds(tasks[j])'
  BY <1>1, OthersStay DEF Holds, Uses, AtWork
<1>3. id \in DOMAIN tasks'
  BY OthersStay
<1> QED
  BY <1>2, <1>3 DEF ConnInv, Alive

\* A step that waits for the clock has no connection in hand.
LEMMA QuietHolds ==
  ASSUME Types, FlowInv, ConnInv, NEW id \in DOMAIN tasks, Acts(id), UNCHANGED <<connection, conns>>,
         tasks[id].place = "clock", tasks'[id].conn = NoConn, tasks'[id].place \in {"turn", "done"}
  PROVE  ConnInv'
<1>1. \A j \in DOMAIN tasks' : Holds(tasks[j])'
  BY OthersStay DEF ConnInv, Holds, Uses
<1>2. \A c \in Conns : (\E j \in DOMAIN tasks : Regained(tasks[j], c))
                         => \E j \in DOMAIN tasks' : Regained(tasks'[j], c)
  BY OthersStay DEF Regained
<1> QED
  BY <1>1, <1>2 DEF ConnInv, Alive

\* Pumps, commands and the others' news open and close no connection.
LEMMA WaitingConn ==
  ASSUME Types, FlowInv, ConnInv, [Next]_vars, ~Moved
  PROVE  ConnInv'
<1>1. connection' = connection /\ Waits
  BY OthersWait
<1>2. \A kind \in Kinds, e \in Nat : NewTask(kind, e).place = "turn" /\ NewTask(kind, e).conn = NoConn
  BY NewTaskIs
<1>3. \A j \in DOMAIN tasks : j \in DOMAIN tasks' /\ tasks'[j] = tasks[j]
  BY <1>1, WaitsFor
<1>4. \A j \in DOMAIN tasks' : Holds(tasks[j])'
  BY <1>1, <1>2, WaitsFor DEF ConnInv, Holds, Uses
<1>5. \A c \in Conns : (\E j \in DOMAIN tasks : Regained(tasks[j], c))
                         => \E j \in DOMAIN tasks' : Regained(tasks'[j], c)
  BY <1>3
<1>6. ASSUME \A c \in Conns : Alive(c)' => Alive(c),
             \A c \in Conns : conns'[c] = "none" => conns[c] = "none"
      PROVE  ConnInv'
  <2>1. connection \in Conns \cup {NoConn}
    BY DEF Types, TaskTypes
  <2> QED
    BY <1>1, <1>4, <1>5, <1>6, <2>1 DEF ConnInv, Alive, Regained
<1>7. CASE UNCHANGED conns
  BY <1>6, <1>7 DEF Alive
<1>8. ASSUME NEW c \in Conns, Lose(c)
      PROVE  ConnInv'
  <2>1. conns[c] = "open" /\ conns' = [conns EXCEPT ![c] = "lost"]
    BY <1>8 DEF Lose
  <2> QED
    BY <1>6, <2>1 DEF Alive, Types, ConnTypes
<1>9. CASE Command
  BY <1>7, <1>9, CommandJoins DEF Types, registry
<1> QED
  BY <1>7, <1>8, <1>9, Zenon DEF Next, vars, Moved, RoomChanges, LinkChanges, registry, Pump, PumpEnds, PumpPolls,
                          EventTurn, LinkTurn

\* The connections through a step's own moves.
LEMMA StepConn ==
  ASSUME Types, FlowInv, PlaceInv, ConnInv, [Next]_vars, NEW id \in DOMAIN tasks, Step(id)
  PROVE  ConnInv'
<1>0. /\ Acts(id) /\ TaskTypes /\ ConnTypes /\ Holds(tasks[id]) /\ Placed(tasks[id])
      /\ connection \in Conns \cup {NoConn} /\ tasks[id].conn \in Conns \cup {NoConn}
      /\ connection # NoConn => conns[connection] # "none"
  BY DEF Acts, Types, TaskTypes, ConnInv, PlaceInv, IsTask
<1>1. CASE ConnectTurn(id) \/ ReconnectTurn(id)
  <2>1. /\ connection' = NoConn /\ conns' = Disconnected(connection)
        /\ HasTurn(InTurn(id)) /\ tasks[id].place = "turn"
    BY <1>1 DEF ConnectTurn, ReconnectTurn, DropConnection
  <2>2. tasks'[id].place = "connecting" /\ tasks'[id].conn = NoConn
    BY <1>0, <1>1, <2>1, ConnectTurnMoves, ReconnectTurnMoves DEF GoesTo, Moves, Holds
  <2>3. Holds(tasks[id])'
    BY <2>1, <2>2 DEF Holds, Uses
  <2>4. \A c \in Conns : ~Alive(c)'
    BY <1>0, <2>1, OnlyMine, DisconnectedIs DEF Alive, Regained
  <2> QED
    BY <1>0, <2>1, <2>3, <2>4, AloneHolds
<1>2. CASE Stops(id)
  <2>1. Ends(id) /\ conns' = Dropped(tasks[id]) /\ UNCHANGED connection /\ Endable(tasks[id])
    BY <1>0, <1>2, StopsMoves DEF Stops
  <2>2. tasks'[id].place = "done" /\ tasks'[id].conn = NoConn
    BY <2>1 DEF Ends, Moves
  <2>3. CASE tasks[id].place = "clock"
    <3>1. UNCHANGED conns
      BY <1>0, <2>1, <2>3 DEF Dropped, Placed
    <3> QED
      BY <1>0, <2>1, <2>2, <2>3, <3>1, QuietHolds
  <2>4. CASE tasks[id].place # "clock"
    <3>1. AtWork(tasks[id])
      BY <2>1, <2>4 DEF Endable, AtWork
    <3>2. Holds(tasks[id])'
      BY <2>2 DEF Holds, Uses
    <3>3. \A c \in Conns : Alive(c)' => c = connection
      <4>1. CASE tasks[id].kind = "reconnect"
        BY <1>0, <2>1, <3>1, <4>1, OnlyMine, DisconnectedIs DEF Alive, Dropped, Regained
      <4>2. CASE tasks[id].kind # "reconnect"
        BY <2>1, <3>1, <4>2, OnlyMine DEF Alive, Dropped, Regained
      <4> QED
        BY <4>1, <4>2
    <3>4. connection' # NoConn => conns'[connection'] # "none"
      BY <1>0, <2>1, DisconnectedIs DEF Dropped
    <3> QED
      BY <1>0, <2>1, <3>1, <3>2, <3>3, <3>4, AloneHolds
  <2> QED
    BY <2>3, <2>4
<1>3. CASE TurnTooLate(id) \/ EnterTurn(id) \/ LeaveTurn(id) \/ TriesAgain(id) \/ StartsAudio(id)
  <2>1. UNCHANGED <<connection, conns>>
    BY <1>3, Zenon DEF TurnTooLate, EnterTurn, LeaveTurn, TriesAgain, StartsAudio, inner, registry
  <2>2. /\ HasTurn(InTurn(id)) \/ AtWork(tasks[id])
        /\ tasks[id].place \in {"turn", "pausing", "audio"}
    BY <1>3 DEF TurnTooLate, EnterTurn, LeaveTurn, TriesAgain, StartsAudio, AtWork
  <2>3. \A c \in Conns : Alive(c)' => c = connection
    BY <2>1, <2>2, OnlyMine DEF Alive, Regained
  <2>4. Holds(tasks[id])'
    <3>1. CASE tasks'[id].place = "done" /\ tasks'[id].conn = NoConn
      BY <3>1 DEF Holds, Uses
    <3>2. CASE EnterTurn(id) /\ ~(room \/ connection = NoConn)
      <4>1. tasks'[id].place = "entering" /\ tasks'[id].conn = connection /\ tasks'[id].kind = tasks[id].kind
        BY <1>0, <3>2, EnterTurnMoves DEF GoesTo, Moves
      <4> QED
        BY <2>1, <3>2, <4>1 DEF Holds, Uses, EnterTurn
    <3>3. CASE LeaveTurn(id)
      <4>1. CASE epoch' = epoch + 1 /\ tasks'[id] = NewTask("connect", epoch')
        <5>1. tasks'[id].place = "turn" /\ tasks'[id].conn = NoConn
          BY <1>0, <4>1, NewTaskIs DEF Kinds, TaskTypes
        <5> QED
          BY <5>1 DEF Holds, Uses
      <4>2. CASE GoesTo(id, "leaving", connection, tasks[id].rejoin) /\ connection # NoConn
        <5>1. tasks'[id].kind = "leave"
          BY <3>3, <4>2 DEF LeaveTurn, GoesTo, Moves
        <5> QED
          BY <2>1, <4>2, <5>1 DEF Holds, Uses, GoesTo, Moves
      <4> QED
        BY <1>0, <3>1, <3>3, <4>1, <4>2, LeaveTurnMoves DEF Ends, Moves
    <3>4. CASE TriesAgain(id)
      <4>1. tasks'[id].place = "connecting" /\ tasks'[id].conn = tasks[id].conn
        BY <1>0, <3>4, TriesAgainMoves DEF GoesTo, Moves
      <4> QED
        BY <1>0, <2>1, <3>4, <4>1 DEF Holds, Uses, TriesAgain
    <3> QED
      BY <1>0, <1>3, <3>1, <3>2, <3>3, <3>4, FinishEnds, EnterTurnMoves
         DEF TurnTooLate, StartsAudio, Ends, Moves
  <2> QED
    BY <1>0, <2>1, <2>2, <2>3, <2>4, AloneHolds
<1> QED
  BY <1>1, <1>2, <1>3 DEF Step

\* A step that is over has no connection in hand.
LEMMA DoneHolds ==
  ASSUME NEW id, tasks'[id].place = "done", tasks'[id].conn = NoConn
  PROVE  Holds(tasks[id])'
BY DEF Holds, Uses

\* An attempt that fails closes the connection it made.
LEMMA AttemptFailsConn ==
  ASSUME Types, FlowInv, ConnInv, NEW id \in DOMAIN tasks, Acts(id), AttemptFails(id),
         tasks[id].kind = "reconnect", tasks[id].place \in {"connecting", "listing", "entering"},
         \/ conns' = conns /\ tasks[id].place = "connecting"
         \/ conns' = Disconnected(tasks[id].conn)
  PROVE  ConnInv'
<1>0. /\ TaskTypes /\ ConnTypes /\ Holds(tasks[id]) /\ AtWork(tasks[id])
      /\ connection = NoConn /\ tasks[id].conn \in Conns \cup {NoConn}
  BY DEF Types, TaskTypes, ConnInv, IsTask, Holds, AtWork
<1>1. UNCHANGED connection
  BY DEF AttemptFails, FailsUnlessEnded, Fails, inner
<1>2. \A c \in Conns : ~Alive(c)'
  BY <1>0, OnlyMine, DisconnectedIs, NoConnIs DEF Alive, Regained
<1>3. Holds(tasks[id])'
  <2>1. CASE tasks'[id].place = "pausing" /\ tasks'[id].conn = NoConn
    BY <1>0, <1>1, <2>1 DEF Holds, Uses
  <2> QED
    BY <1>0, <2>1, DoneHolds, AttemptFailsMoves DEF GoesTo, Ends, Moves
<1> QED
  BY <1>0, <1>1, <1>2, <1>3, AloneHolds

\* The connections through what the server answers.
LEMMA AnswerConn ==
  ASSUME Types, FlowInv, PlaceInv, ConnInv, [Next]_vars, NEW id \in DOMAIN tasks,
         Answer(id) \/ ClockIsRight(id)
  PROVE  ConnInv'
<1>0. /\ Acts(id) /\ TaskTypes /\ ConnTypes /\ Holds(tasks[id]) /\ Placed(tasks[id]) /\ IsRoster(roster)
      /\ connection \in Conns \cup {NoConn} /\ tasks[id].conn \in Conns \cup {NoConn}
      /\ connection # NoConn => conns[connection] # "none"
      /\ tasks[id].kind \in Kinds
  BY DEF Acts, Types, TaskTypes, ConnInv, PlaceInv, IsTask, RosterTypes
<1>1. CASE ClockIsRight(id)
  <2>1. UNCHANGED <<connection, conns>> /\ tasks[id].place = "clock"
    BY <1>1 DEF ClockIsRight, inner, registry
  <2>2. tasks'[id].place = "turn" /\ tasks'[id].conn = NoConn
    BY <1>0, <1>1, <2>1, ClockMoves DEF GoesTo, Moves, Holds
  <2> QED
    BY <1>0, <2>1, <2>2, QuietHolds
<1>2. CASE Answer(id)
  <2>0. AtWork(tasks[id]) /\ \A c \in Conns : Alive(c) => c = connection \/ Regained(tasks[id], c)
    <3>1. AtWork(tasks[id])
      BY <1>2, Zenon DEF Answer, Connects, ConnectFails, Lists, ListFails, Enters, EnterFails, Leaves, AtWork
    <3> QED
      BY <3>1, OnlyMine
  <2>a. ASSUME tasks'[id].place = "done", tasks'[id].conn = NoConn, UNCHANGED <<connection, conns>>,
               \A c \in Conns : ~Regained(tasks[id], c)
        PROVE  ConnInv'
    BY <1>0, <2>0, <2>a, DoneHolds, AloneHolds DEF Alive
  <2>1. CASE Connects(id)
    <3>1. tasks[id].place = "connecting" /\ connection = NoConn
      BY <1>0, <2>1 DEF Connects, Holds
    <3>2. \A c \in Conns : ~Alive(c)
      BY <2>0, <3>1, NoConnIs DEF Regained
    <3>3. tasks[id].kind \in {"connect", "reconnect"}
      BY <1>0, <3>1 DEF Placed, Reaches
    <3>4. ASSUME NEW c \in Conns, conns' = [conns EXCEPT ![c] = "closed"], UNCHANGED connection, Ends(id)
          PROVE  ConnInv'
      <4>1. \A d \in Conns : ~Alive(d)'
        BY <1>0, <3>2, <3>4 DEF Alive, ConnTypes
      <4> QED
        BY <1>0, <2>0, <3>1, <3>4, <4>1, DoneHolds, AloneHolds DEF Ends, Moves
    <3>5. ASSUME NEW c \in Conns, conns' = [conns EXCEPT ![c] = "open"]
          PROVE  conns'[c] # "none" /\ \A d \in Conns : Alive(d)' => d = c
      BY <1>0, <3>2, <3>5 DEF Alive, ConnTypes
    <3>6. ASSUME NEW c \in Conns, conns' = [conns EXCEPT ![c] = "open"], connection' = c,
                 GoesTo(id, "listing", c, tasks[id].rejoin), tasks[id].kind = "connect"
          PROVE  ConnInv'
      <4>1. Holds(tasks[id])'
        BY <3>6, NoConnIs DEF Holds, Uses, GoesTo, Moves
      <4> QED
        BY <1>0, <2>0, <3>5, <3>6, <4>1, AloneHolds
    <3>7. ASSUME NEW c \in Conns, conns' = [conns EXCEPT ![c] = "open"], UNCHANGED connection,
                 GoesTo(id, IF tasks[id].rejoin THEN "entering" ELSE "listing", c, tasks[id].rejoin),
                 tasks[id].kind = "reconnect"
          PROVE  ConnInv'
      <4>1. Holds(tasks[id])' /\ Regained(tasks'[id], c)
        BY <3>1, <3>7, NoConnIs DEF Holds, Uses, GoesTo, Moves, Regained
      <4> QED
        BY <1>0, <2>0, <3>1, <3>5, <3>7, <4>1, AloneHolds
    <3> QED
      BY <1>0, <2>1, <3>3, <3>4, <3>6, <3>7, ConnectsMoves
  <2>2. CASE ConnectFails(id)
    <3>1. tasks[id].place = "connecting" /\ UNCHANGED conns
      BY <2>2, Zenon DEF ConnectFails, registry
    <3>2. CASE tasks[id].kind = "reconnect"
      BY <1>0, <2>2, <3>1, <3>2, AttemptFailsConn DEF ConnectFails
    <3>3. CASE tasks[id].kind # "reconnect"
      <4>1. FailsUnlessEnded(id) /\ tasks'[id].place \in {"clock", "done"} /\ tasks'[id].conn = NoConn
        BY <1>0, <2>2, <3>1, <3>3, ConnectFailsMoves DEF GoesTo, Ends, Moves, Holds
      <4>2. UNCHANGED connection
        BY <4>1 DEF FailsUnlessEnded, Fails, inner
      <4>3. Holds(tasks[id])'
        BY <4>1 DEF Holds, Uses
      <4>4. \A c \in Conns : Alive(c)' => c = connection
        BY <2>0, <3>1 DEF Alive, Regained
      <4> QED
        BY <1>0, <2>0, <3>1, <4>2, <4>3, <4>4, AloneHolds
    <3> QED
      BY <3>2, <3>3
  <2>3. CASE Lists(id)
    <3>1. /\ tasks[id].place = "listing" /\ conns[tasks[id].conn] = "open" /\ UNCHANGED conns
          /\ connection' = tasks[id].conn /\ Finish(id)
      BY <2>3 DEF Lists
    <3>2. tasks'[id].place = "done" /\ tasks'[id].conn = NoConn
      BY <1>0, <3>1, FinishEnds DEF Ends, Moves
    <3>3. \A c \in Conns : Alive(c) => c = tasks[id].conn
      BY <1>0, <2>0, <3>1, NoConnIs DEF Holds, Uses, Placed, Reaches, Regained
    <3> QED
      BY <1>0, <2>0, <3>1, <3>2, <3>3, DoneHolds, AloneHolds DEF Alive
  <2>4. CASE ListFails(id)
    <3>1. tasks[id].place = "listing"
      BY <2>4 DEF ListFails
    <3>2. CASE tasks[id].kind = "connect"
      <4>1. Finish(id) /\ FailsUnlessEnded(id) /\ UNCHANGED conns
        BY <2>4, <3>2 DEF ListFails
      <4>2. UNCHANGED connection /\ tasks'[id].place = "done" /\ tasks'[id].conn = NoConn
        BY <1>0, <4>1, FinishEnds DEF Ends, Moves, FailsUnlessEnded, Fails, inner
      <4> QED
        BY <2>a, <3>2, <4>1, <4>2 DEF Regained
    <3>3. CASE tasks[id].kind # "connect"
      <4>1. AttemptFails(id) /\ conns' = Disconnected(tasks[id].conn) /\ tasks[id].kind = "reconnect"
        BY <1>0, <2>4, <3>1, <3>3 DEF ListFails, Placed, Reaches
      <4> QED
        BY <1>0, <3>1, <4>1, AttemptFailsConn
    <3> QED
      BY <3>2, <3>3
  <2>5. CASE Enters(id)
    <3>1. /\ tasks[id].place = "entering" /\ conns[tasks[id].conn] = "open" /\ UNCHANGED conns
          /\ connection' = tasks[id].conn
      BY <2>5 DEF Enters, registry
    <3>2. tasks'[id].place = "audio" /\ tasks'[id].conn = tasks[id].conn
      BY <1>0, <2>5, EntersMoves DEF GoesTo, Moves
    <3>3. tasks[id].conn # NoConn /\ \A c \in Conns : Alive(c) => c = tasks[id].conn
      BY <1>0, <2>0, <3>1, NoConnIs DEF Holds, Uses, Placed, Regained
    <3>4. Holds(tasks[id])'
      BY <3>1, <3>2, <3>3 DEF Holds, Uses
    <3> QED
      BY <1>0, <2>0, <3>1, <3>3, <3>4, AloneHolds DEF Alive
  <2>6. CASE EnterFails(id)
    <3>1. tasks[id].place = "entering"
      BY <2>6 DEF EnterFails
    <3>2. CASE tasks[id].kind = "reconnect"
      BY <1>0, <2>6, <3>1, <3>2, AttemptFailsConn DEF EnterFails
    <3>3. CASE tasks[id].kind # "reconnect"
      <4>1. Finish(id) /\ Fails /\ UNCHANGED conns
        BY <2>6, <3>3 DEF EnterFails
      <4>2. UNCHANGED connection /\ tasks'[id].place = "done" /\ tasks'[id].conn = NoConn
        BY <1>0, <4>1, FinishEnds DEF Ends, Moves, Fails
      <4> QED
        BY <2>a, <3>3, <4>1, <4>2 DEF Regained
    <3> QED
      BY <3>2, <3>3
  <2>7. CASE Leaves(id)
    <3>1. tasks[id].place = "leaving" /\ Finish(id) /\ UNCHANGED <<connection, conns>>
      BY <2>7 DEF Leaves
    <3>2. tasks'[id].place = "done" /\ tasks'[id].conn = NoConn
      BY <1>0, <3>1, FinishEnds DEF Ends, Moves
    <3> QED
      BY <2>a, <3>1, <3>2 DEF Regained
  <2> QED
    BY <1>2, <2>1, <2>2, <2>3, <2>4, <2>5, <2>6, <2>7 DEF Answer
<1> QED
  BY <1>1, <1>2

\* Every step of the specification keeps each open connection in someone's
\* hand.
LEMMA ConnStep ==
  ASSUME Types, FlowInv, PlaceInv, ConnInv, [Next]_vars
  PROVE  ConnInv'
BY WaitingConn, StepConn, AnswerConn DEF Moved

Pursues(t) == Reaches(t) /\ ~Rests(t) /\ ~Ended(t)
Connecting == phase = "connecting_server" \/ reconnect = "reconnecting"
Watched == connection # NoConn => pumps[connection].at # "none" \/ Superseded
WatchInv == (Connecting => \E id \in DOMAIN tasks : Pursues(tasks[id])) /\ Watched

\* Someone is at it: a step that connects, was not ended and is not at rest.
LEMMA PursuedBy == Pursued <=> \E id \in DOMAIN tasks : Pursues(tasks[id])
BY DEF Pursued, Pursues, Working, Running, Rests, Reaches

\* A step that is to take over is at it.
LEMMA SupersededIsPursued ==
  ASSUME Superseded
  PROVE  \E id \in DOMAIN tasks : Pursues(tasks[id])
BY DEF Superseded, Superseding, Pursues, Rests

\* With a step to take over the session is watched.
LEMMA WatchedAnew ==
  ASSUME Superseded'
  PROVE  WatchInv'
<1>1. \E id \in DOMAIN tasks' : Reaches(tasks'[id]) /\ tasks'[id].place = "turn" /\ tasks'[id].epoch = epoch'
  BY DEF Superseded, Superseding, Ended, Reaches
<1> QED
  BY <1>1 DEF WatchInv, Watched, Pursues, Rests, Ended, Reaches

\* Pumps, commands and the others' news keep someone at it.
LEMMA WaitingWatch ==
  ASSUME Types, FlowInv, WatchInv, [Next]_vars, ~Moved
  PROVE  WatchInv'
<1>1. /\ UNCHANGED <<phase, connection, reconnect>> /\ Waits
      /\ connection \in Conns \cup {NoConn} /\ ConnTypes
  BY OthersWait DEF Types, TaskTypes
<1>2. CASE epoch' # epoch
  BY <1>1, <1>2, WaitsFor, WatchedAnew
<1>3. CASE epoch' = epoch
  <2>1. \A j \in DOMAIN tasks : j \in DOMAIN tasks' /\ tasks'[j] = tasks[j]
    BY <1>1, WaitsFor
  <2>2. Connecting' => \E id \in DOMAIN tasks' : Pursues(tasks[id])'
    BY <1>1, <1>3, <2>1 DEF WatchInv, Connecting, Pursues, Reaches, Rests, Ended
  <2>3. Superseded => Superseded'
    <3>1. \A id \in DOMAIN tasks : ~ConnectTurn(id) /\ ~ReconnectTurn(id)
      BY DEF Moved, Step
    <3> QED
      BY <3>1, SupersededStays
  <2>4. ASSUME connection # NoConn, pumps[connection].at # "none"
        PROVE  pumps'[connection].at # "none"
    <3>1. CASE UNCHANGED pumps
      BY <2>4, <3>1
    <3>2. ASSUME NEW c \in Conns, Pump(c)
          PROVE  pumps'[connection].at # "none"
      <4>1. IsPump(pumps[c]) /\ DOMAIN pumps = Conns /\ connection \in DOMAIN pumps
        BY <1>1, <2>4 DEF ConnTypes
      <4>2. CASE PumpEnds(c)
        BY <2>4, <4>1, <4>2 DEF PumpEnds
      <4>3. CASE LinkTurn(c)
        <5>1. pumps' = [pumps EXCEPT ![c].at = "sleep", ![c].link = "quiet", ![c].after = 0]
          BY <4>3, Zenon DEF LinkTurn
        <5> QED
          BY <2>4, <4>1, <5>1 DEF IsPump
      <4>4. ASSUME NEW batch, NEW queue, GoesOn(c, batch, queue)
            PROVE  pumps'[connection].at # "none"
        <5>1. \/ \E link : pumps' = [pumps EXCEPT ![c].at = "link", ![c].batch = <<>>, ![c].link = link]
              \/ pumps' = [pumps EXCEPT ![c].at = "sleep", ![c].batch = <<>>, ![c].after = 0]
              \/ pumps' = [pumps EXCEPT ![c].at = "event", ![c].batch = batch]
              \/ /\ connection # c
                 /\ pumps' = [pumps EXCEPT ![c].at = "none", ![c].batch = <<>>]
          <6>1. epoch' # epoch + 1
            BY <1>3 DEF Types, TaskTypes
          <6> QED
            BY <1>3, <4>4, <6>1, GoesOnMoves, Zenon DEF Types
        <5> QED
          BY <2>4, <4>1, <5>1 DEF IsPump
      <4> QED
        BY <3>2, <4>2, <4>3, <4>4, Zenon DEF Pump, PumpPolls, EventTurn
    <3>3. CASE Command
      BY <2>4, <3>3, CommandJoins DEF Types
    <3> QED
      BY <3>1, <3>2, <3>3 DEF Next, vars, Moved, Lose, RoomChanges, LinkChanges
  <2> QED
    BY <1>1, <2>2, <2>3, <2>4 DEF WatchInv, Watched
<1> QED
  BY <1>2, <1>3

\* The session stays watched as long as its connection stays the same.
LEMMA StaysWatched ==
  ASSUME Types, FlowInv, WatchInv, [Next]_vars, NEW id \in DOMAIN tasks, Acts(id),
         connection' = connection, UNCHANGED pumps
  PROVE  Watched'
<1>1. CASE ConnectTurn(id) \/ ReconnectTurn(id)
  BY <1>1 DEF ConnectTurn, ReconnectTurn, DropConnection, Watched
<1>2. CASE ~ConnectTurn(id) /\ ~ReconnectTurn(id)
  BY <1>2, StaysSuperseded DEF WatchInv, Watched
<1> QED
  BY <1>1, <1>2

\* A step's move leaves the session's connection watched.
LEMMA StillWatched ==
  ASSUME Types, FlowInv, PlaceInv, ConnInv, WatchInv, [Next]_vars, NEW id \in DOMAIN tasks, Acts(id)
  PROVE  Watched'
<1>0. /\ TaskTypes /\ ConnTypes /\ Holds(tasks[id]) /\ Placed(tasks[id])
      /\ tasks[id].conn \in Conns \cup {NoConn} /\ connection \in Conns \cup {NoConn}
  BY DEF Types, TaskTypes, ConnInv, PlaceInv, IsTask
<1>1. CASE connection' = connection /\ UNCHANGED pumps
  BY <1>1, StaysWatched
<1>2. CASE connection' = NoConn
  BY <1>2 DEF Watched
<1>3. CASE connection' \in Conns /\ SpawnPump(connection', id)
  <2>1. pumps'[connection'].at = "sleep"
    BY <1>0, <1>3, SpawnedIs
  <2> QED
    BY <2>1 DEF Watched
<1>4. CASE Step(id)
  <2>1. UNCHANGED pumps
    BY <1>4, Zenon DEF Step, ConnectTurn, ReconnectTurn, TurnTooLate, EnterTurn, LeaveTurn,
                       TriesAgain, StartsAudio, Stops
  <2>2. connection' = connection \/ connection' = NoConn
    BY <1>4, Zenon DEF Step, ConnectTurn, ReconnectTurn, TurnTooLate, EnterTurn, LeaveTurn,
                       TriesAgain, StartsAudio, Stops, DropConnection, inner
  <2> QED
    BY <1>1, <1>2, <2>1, <2>2
<1>5. CASE Connects(id)
  <2>1. \/ UNCHANGED <<connection, pumps>>
        \/ \E c \in Conns : connection' = c /\ SpawnPump(c, id)
    BY <1>0, <1>5, ConnectsMoves
  <2> QED
    BY <1>1, <1>3, <2>1
<1>6. CASE Lists(id) \/ Enters(id)
  <2>1. /\ connection' = tasks[id].conn /\ tasks[id].place \in {"listing", "entering"}
        /\ IF tasks[id].kind = "reconnect" THEN SpawnPump(tasks[id].conn, id) ELSE UNCHANGED pumps
        /\ Lists(id) => tasks[id].place = "listing"
        /\ Enters(id) => tasks[id].place = "entering"
    BY <1>6 DEF Lists, Enters
  <2>2. CASE tasks[id].kind = "reconnect"
    <3>1. tasks[id].conn \in Conns
      BY <1>0, <2>1, <2>2 DEF Holds
    <3> QED
      BY <1>3, <2>1, <2>2, <3>1
  <2>3. CASE tasks[id].kind # "reconnect"
    <3>1. tasks[id].conn = connection
      BY <1>0, <2>1, <2>3 DEF Holds, Uses, Placed, Reaches
    <3> QED
      BY <1>1, <2>1, <2>3, <3>1
  <2> QED
    BY <2>2, <2>3
<1>7. CASE ConnectFails(id) \/ ListFails(id) \/ EnterFails(id) \/ Leaves(id) \/ ClockIsRight(id)
  <2>1. UNCHANGED pumps
    BY <1>7, Zenon DEF ConnectFails, ListFails, EnterFails, Leaves, ClockIsRight
  <2>2. connection' = connection
    BY <1>7 DEF ConnectFails, ListFails, EnterFails, Leaves, ClockIsRight, AttemptFails,
                FailsUnlessEnded, Fails, inner
  <2> QED
    BY <1>1, <2>1, <2>2
<1> QED
  BY <1>4, <1>5, <1>6, <1>7 DEF Acts, Answer

\* A step that moves stays at it, or was not the one who was.
LEMMA StaysPursued ==
  ASSUME Types, FlowInv, WatchInv, NEW id \in DOMAIN tasks, Acts(id), epoch' = epoch,
         Pursues(tasks[id])' \/ (Connecting /\ ~Pursues(tasks[id])) \/ ~Connecting'
  PROVE  Connecting' => \E j \in DOMAIN tasks' : Pursues(tasks[j])'
<1>1. \A j \in DOMAIN tasks : j # id => (Pursues(tasks[j]) => Pursues(tasks[j])')
  BY OthersStay DEF Pursues, Reaches, Rests, Ended
<1>2. DOMAIN tasks' = DOMAIN tasks
  BY OthersStay
<1> QED
  BY <1>1, <1>2 DEF WatchInv

\* Someone is at it through a step's own moves.
LEMMA StepPursued ==
  ASSUME Types, FlowInv, PlaceInv, ScreenInv, ConnInv, WatchInv, NEW id \in DOMAIN tasks, Step(id),
         epoch' = epoch
  PROVE  Connecting' => \E j \in DOMAIN tasks' : Pursues(tasks[j])'
<1>0. /\ Acts(id) /\ TaskTypes /\ Placed(tasks[id]) /\ Shown(tasks[id]) /\ Holds(tasks[id])
      /\ ScreenCoherent /\ (reconnect # "idle" => connection = NoConn)
  BY DEF Acts, Types, PlaceInv, ScreenInv, ConnInv
<1>1. CASE ConnectTurn(id) \/ ReconnectTurn(id) \/ TriesAgain(id)
  <2>1. /\ tasks'[id].place = "connecting" /\ tasks'[id].kind = tasks[id].kind
        /\ tasks'[id].epoch = tasks[id].epoch
    BY <1>0, <1>1, ConnectTurnMoves, ReconnectTurnMoves, TriesAgainMoves DEF GoesTo, Moves
  <2>2. ~Ended(tasks[id]) /\ Reaches(tasks[id])
    BY <1>0, <1>1 DEF ConnectTurn, ReconnectTurn, TriesAgain, Placed, Reaches
  <2>3. Pursues(tasks[id])'
    BY <2>1, <2>2 DEF Pursues, Reaches, Rests, Ended
  <2> QED
    BY <1>0, <2>3, StaysPursued
<1>2. CASE TurnTooLate(id) \/ LeaveTurn(id) \/ Stops(id) \/ EnterTurn(id)
  <2>1. ~Pursues(tasks[id])
    BY <1>2 DEF TurnTooLate, LeaveTurn, Stops, EnterTurn, Pursues, Reaches
  <2>2. Connecting' => Connecting
    BY <1>2 DEF TurnTooLate, LeaveTurn, Stops, EnterTurn, Connecting, inner
  <2> QED
    BY <1>0, <2>1, <2>2, StaysPursued
<1>3. CASE StartsAudio(id)
  <2>1. tasks[id].place = "audio" /\ UNCHANGED <<phase, reconnect>>
    BY <1>3 DEF StartsAudio
  <2>2. ~Connecting
    BY <1>0, <2>1 DEF Shown, Holds, Uses, ScreenCoherent, Connecting
  <2> QED
    BY <1>0, <2>1, <2>2, StaysPursued DEF Connecting
<1> QED
  BY <1>1, <1>2, <1>3 DEF Step

\* Someone is at it through what the server answers.
LEMMA AnswerPursued ==
  ASSUME Types, FlowInv, PlaceInv, ScreenInv, ConnInv, WatchInv, NEW id \in DOMAIN tasks,
         Answer(id) \/ ClockIsRight(id), epoch' = epoch
  PROVE  Connecting' => \E j \in DOMAIN tasks' : Pursues(tasks[j])'
<1>0. /\ Acts(id) /\ TaskTypes /\ Placed(tasks[id]) /\ Shown(tasks[id]) /\ Holds(tasks[id])
      /\ ScreenCoherent /\ (reconnect # "idle" => connection = NoConn)
      /\ tasks[id].kind \in Kinds
  BY DEF Acts, Types, TaskTypes, PlaceInv, ScreenInv, ConnInv, IsTask
<1>1. CASE FailsUnlessEnded(id) /\ ~room
  <2>1. CASE Ended(tasks[id]) /\ UNCHANGED inner
    BY <1>0, <2>1, StaysPursued DEF Pursues, Connecting, inner
  <2>2. CASE Fails
    BY <1>0, <1>1, <2>2, StaysPursued, FailsIsCoherent DEF Connecting
  <2> QED
    BY <1>1, <2>1, <2>2 DEF FailsUnlessEnded
<1>2. CASE /\ AttemptFails(id) /\ tasks[id].kind = "reconnect"
           /\ tasks[id].place \in {"connecting", "listing", "entering"}
  <2>1. CASE GoesTo(id, "pausing", NoConn, tasks[id].rejoin) /\ UNCHANGED <<inner, flow>>
    <3>1. CASE Ended(tasks[id])
      BY <1>0, <2>1, <3>1, StaysPursued DEF Pursues, Connecting, inner
    <3>2. CASE ~Ended(tasks[id])
      <4>1. Pursues(tasks[id])'
        BY <1>2, <2>1, <3>2 DEF Pursues, Reaches, Rests, Ended, GoesTo, Moves, inner
      <4> QED
        BY <1>0, <4>1, StaysPursued
    <3> QED
      BY <3>1, <3>2
  <2>2. CASE tasks[id].rejoin /\ reconnect' = "failed" /\ UNCHANGED phase
    <3>1. ~Connecting'
      BY <1>0, <1>2, <2>2 DEF Shown, ScreenCoherent, Connecting
    <3> QED
      BY <1>0, <3>1, StaysPursued
  <2>3. CASE ~tasks[id].rejoin /\ FailsUnlessEnded(id)
    BY <1>0, <1>1, <1>2, <2>3 DEF Shown
  <2> QED
    BY <1>0, <1>2, <2>1, <2>2, <2>3, AttemptFailsMoves
<1>3. CASE ConnectFails(id)
  <2>1. tasks[id].place = "connecting"
    BY <1>3 DEF ConnectFails
  <2>2. CASE tasks[id].kind = "reconnect"
    BY <1>2, <1>3, <2>1, <2>2 DEF ConnectFails
  <2>3. CASE tasks[id].kind # "reconnect"
    <3>1. FailsUnlessEnded(id)
      BY <1>3, <2>3 DEF ConnectFails
    <3>2. ~room
      BY <1>0, <2>1, <2>3 DEF Placed, Reaches, Shown, AtWork, ScreenCoherent
    <3> QED
      BY <1>1, <3>1, <3>2
  <2> QED
    BY <2>2, <2>3
<1>4. CASE ListFails(id)
  <2>1. tasks[id].place = "listing"
    BY <1>4 DEF ListFails
  <2>2. CASE tasks[id].kind = "connect"
    <3>1. FailsUnlessEnded(id)
      BY <1>4, <2>2 DEF ListFails
    <3>2. ~room
      BY <1>0, <2>1, <2>2 DEF Shown, AtWork, ScreenCoherent
    <3> QED
      BY <1>1, <3>1, <3>2
  <2>3. CASE tasks[id].kind # "connect"
    <3>1. AttemptFails(id) /\ tasks[id].kind = "reconnect"
      BY <1>0, <1>4, <2>1, <2>3 DEF ListFails, Placed, Reaches
    <3> QED
      BY <1>2, <2>1, <3>1
  <2> QED
    BY <2>2, <2>3
<1>5. CASE EnterFails(id)
  <2>1. tasks[id].place = "entering"
    BY <1>5 DEF EnterFails
  <2>2. CASE tasks[id].kind = "reconnect"
    BY <1>2, <1>5, <2>1, <2>2 DEF EnterFails
  <2>3. CASE tasks[id].kind # "reconnect"
    <3>1. Fails /\ ~room
      BY <1>0, <1>5, <2>1, <2>3 DEF EnterFails, Placed, Shown, ScreenCoherent
    <3> QED
      BY <1>0, <3>1, FailsIsCoherent, StaysPursued DEF Connecting
  <2> QED
    BY <2>2, <2>3
<1>6. CASE Connects(id)
  <2>1. tasks[id].place = "connecting" /\ UNCHANGED <<phase, reconnect>>
    BY <1>6 DEF Connects
  <2>2. CASE Ended(tasks[id])
    BY <1>0, <2>1, <2>2, StaysPursued DEF Pursues, Connecting
  <2>3. CASE ~Ended(tasks[id])
    <3>1. \E p \in {"listing", "entering"}, c \in Conns : GoesTo(id, p, c, tasks[id].rejoin)
      BY <1>0, <1>6, <2>3, ConnectsMoves
    <3>2. Pursues(tasks[id])'
      BY <1>0, <2>1, <2>3, <3>1 DEF Pursues, Reaches, Rests, Ended, GoesTo, Moves, Placed
    <3> QED
      BY <1>0, <3>2, StaysPursued
  <2> QED
    BY <2>2, <2>3
<1>7. CASE Lists(id) \/ Enters(id) \/ Leaves(id)
  <2>1. CASE Lists(id)
    <3>1. tasks[id].place = "listing" /\ phase' = "server_connected" /\ UNCHANGED reconnect
      BY <2>1 DEF Lists
    <3>2. ~Connecting'
      BY <1>0, <3>1 DEF Shown, Placed, Reaches, AtWork, ScreenCoherent, Connecting
    <3> QED
      BY <1>0, <3>2, StaysPursued
  <2>2. CASE Enters(id)
    <3>1. ~Connecting'
      BY <2>2 DEF Enters, Connecting
    <3> QED
      BY <1>0, <3>1, StaysPursued
  <2>3. CASE Leaves(id)
    <3>1. /\ tasks[id].place = "leaving" /\ phase' \in {"server_connected", "error"}
          /\ UNCHANGED reconnect
      BY <2>3 DEF Leaves
    <3>2. ~Connecting'
      BY <1>0, <3>1 DEF Holds, Uses, Connecting
    <3> QED
      BY <1>0, <3>2, StaysPursued
  <2> QED
    BY <1>7, <2>1, <2>2, <2>3
<1>8. CASE ClockIsRight(id)
  <2>1. tasks[id].place = "clock" /\ ~Ended(tasks[id])
    BY <1>8 DEF ClockIsRight
  <2>2. GoesTo(id, "turn", tasks[id].conn, tasks[id].rejoin)
    BY <1>0, <1>8, ClockMoves
  <2>3. Pursues(tasks[id])'
    BY <1>0, <2>1, <2>2 DEF Pursues, Reaches, Rests, Ended, GoesTo, Moves, Placed
  <2> QED
    BY <1>0, <2>3, StaysPursued
<1> QED
  BY <1>3, <1>4, <1>5, <1>6, <1>7, <1>8 DEF Answer

\* Every step of the specification keeps someone at it.
LEMMA WatchStep ==
  ASSUME Types, FlowInv, PlaceInv, ScreenInv, ConnInv, WatchInv, [Next]_vars
  PROVE  WatchInv'
<1>1. CASE ~Moved
  BY <1>1, WaitingWatch
<1>2. CASE Moved
  <2>1. PICK id \in DOMAIN tasks : Acts(id)
    BY <1>2 DEF Moved, Acts
  <2>2. CASE epoch' # epoch
    BY <2>2, EpochSupersedes, WatchedAnew
  <2>3. CASE epoch' = epoch
    <3>1. Connecting' => \E j \in DOMAIN tasks' : Pursues(tasks[j])'
      BY <2>1, <2>3, StepPursued, AnswerPursued DEF Acts
    <3> QED
      BY <2>1, <3>1, StillWatched DEF WatchInv
  <2> QED
    BY <2>2, <2>3
<1> QED
  BY <1>1, <1>2

CoreInv == /\ Types /\ FlowInv /\ PlaceInv /\ EndedInv
        /\ ScreenInv /\ ConnInv /\ AudioInv /\ WatchInv

\* What holds of the flow, the screen, the connections and the audio holds at
\* first.
LEMMA InitCore == Init => CoreInv
<1> SUFFICES ASSUME Init
             PROVE  CoreInv
  OBVIOUS
<1> DEFINE t == NewTask("connect", 1)
<1>0. /\ IsTask(t) /\ t.kind = "connect" /\ t.epoch = 1 /\ t.place = "turn" /\ t.conn = NoConn
  BY NewTaskIs DEF Kinds
<1> HIDE DEF t
<1>1. /\ tasks = <<t>> /\ flow = <<InTurn(1)>> /\ epoch = 1 /\ connection = NoConn
      /\ phase = "connecting_server" /\ reconnect = "idle" /\ room = FALSE
      /\ joining = FALSE /\ error = FALSE /\ roster = EmptyRoster
      /\ conns = [c \in Conns |-> "none"] /\ audio.with = Nobody
  BY DEF Init, t
<1>2. /\ IsQueue(tasks) /\ DOMAIN tasks = {1} /\ tasks[1] = t
      /\ IsQueue(flow) /\ HasTurn(InTurn(1)) /\ In(InTurn(1), flow)
  <2>1. tasks \in Seq({t}) /\ DOMAIN tasks = 1 .. 1 /\ tasks[1] = t
    BY <1>1
  <2>2. flow \in Seq({InTurn(1)}) /\ DOMAIN flow = 1 .. 1 /\ flow[1] = InTurn(1) /\ flow # <<>>
    BY <1>1
  <2>3. Head(flow) = InTurn(1)
    BY <1>1
  <2> QED
    BY <2>1, <2>2, <2>3 DEF IsQueue, In, HasTurn
<1>3. Types
  <2>1. TaskTypes
    BY <1>0, <1>1, <1>2, NoConnIs DEF TaskTypes
  <2>2. RosterTypes
    BY <1>1, EmptyRosterIs DEF Init, RosterTypes, IsAudio
  <2>3. ConnTypes
    BY <1>1 DEF Init, ConnTypes, IsPump
  <2> QED
    BY <1>1, <2>1, <2>2, <2>3 DEF Types, ScreenTypes, Phases
<1>4. ~AtWork(t) /\ Superseding(t)
  BY <1>0, <1>1 DEF AtWork, Superseding, Reaches, Ended
<1>5. FlowInv /\ PlaceInv /\ EndedInv
  BY <1>0, <1>2, <1>4 DEF FlowInv, PlaceInv, EndedInv, Placed, AtWork
<1>6. ScreenInv
  BY <1>0, <1>1, <1>2, <1>4, RestShown DEF ScreenInv, ScreenCoherent
<1>7. ConnInv
  BY <1>0, <1>1, <1>2 DEF ConnInv, Holds, Uses
<1>8. AudioInv
  BY <1>0, <1>1, <1>2, <1>4, EmptyRosterIs DEF AudioInv, Sounds
<1>9. WatchInv
  BY <1>0, <1>1, <1>2 DEF WatchInv, Watched, Pursues, Reaches, Rests, Ended
<1> QED
  BY <1>3, <1>5, <1>6, <1>7, <1>8, <1>9 DEF CoreInv

\* It is inductive.
LEMMA StepCore == CoreInv /\ [Next]_vars => CoreInv'
<1> SUFFICES ASSUME CoreInv, [Next]_vars
             PROVE  CoreInv'
  OBVIOUS
<1> USE DEF CoreInv
<1>1. QueueTypes' /\ FlowInv'
  BY FlowStep
<1>2. ScreenTypes' /\ epoch' \in Nat /\ room' \in BOOLEAN
  BY ScreenTypesStep
<1>3. connection' \in Conns \cup {NoConn}
  BY ConnectionStep
<1>4. RosterTypes' /\ ConnTypes'
  BY RosterTypesStep, ConnTypesStep
<1>5. Types'
  BY <1>1, <1>2, <1>3, <1>4 DEF Types, TaskTypes, QueueTypes
<1>6. PlaceInv' /\ EndedInv' /\ AudioInv'
  BY PlaceStep, EndedStep, AudioStep
<1>7. ScreenInv' /\ ConnInv' /\ WatchInv'
  BY ScreenStep, ConnStep, WatchStep
<1> QED
  BY <1>1, <1>5, <1>6, <1>7

(***************************************************************************)
(* The flow is exactly of those who wait for it or hold it, each once.     *)
(***************************************************************************)
Once(q) == \A i, j \in DOMAIN q : q[i] = q[j] => i = j

\* Without its head a queue holds the others, each once.
LEMMA OnceTail ==
  ASSUME NEW q, IsQueue(q), q # <<>>, Once(q)
  PROVE  Once(Tail(q)) /\ \A x : In(x, Tail(q)) <=> In(x, q) /\ x # Head(q)
<1>1. /\ Len(q) \in Nat /\ Len(q) > 0 /\ DOMAIN q = 1 .. Len(q) /\ Head(q) = q[1]
  BY QueueShape, HeadTailProperties DEF IsQueue
<1>2. /\ DOMAIN Tail(q) = 1 .. (Len(q) - 1) /\ \A i \in 1 .. (Len(q) - 1) : Tail(q)[i] = q[i + 1]
  BY <1>1, HeadTailProperties DEF IsQueue
<1>3. Once(Tail(q))
  BY <1>1, <1>2 DEF Once
<1>4. ASSUME NEW x, In(x, Tail(q))
      PROVE  In(x, q) /\ x # Head(q)
  <2>1. PICK i \in 1 .. (Len(q) - 1) : q[i + 1] = x
    BY <1>2, <1>4 DEF In
  <2>2. i + 1 \in DOMAIN q /\ 1 \in DOMAIN q /\ i + 1 # 1
    BY <1>1, <2>1
  <2> QED
    BY <1>1, <2>1, <2>2 DEF In, Once
<1>5. ASSUME NEW x, In(x, q), x # Head(q)
      PROVE  In(x, Tail(q))
  BY <1>5, TailQueue
<1> QED
  BY <1>3, <1>4, <1>5

\* One who was not in the queue is in it once when put behind it.
LEMMA OnceAppend ==
  ASSUME NEW q, IsQueue(q), Once(q), NEW x, ~In(x, q)
  PROVE  Once(Append(q, x)) /\ \A y : In(y, Append(q, x)) <=> In(y, q) \/ y = x
<1>1. /\ Len(q) \in Nat /\ DOMAIN q = 1 .. Len(q)
      /\ DOMAIN Append(q, x) = 1 .. (Len(q) + 1)
      /\ \A i \in 1 .. Len(q) : Append(q, x)[i] = q[i]
      /\ Append(q, x)[Len(q) + 1] = x
  BY QueueShape, AppendQueue
<1>2. Once(Append(q, x))
  BY <1>1 DEF Once, In
<1>3. \A y : In(y, Append(q, x)) => In(y, q) \/ y = x
  BY <1>1 DEF In
<1> QED
  BY <1>2, <1>3, AppendQueue

(***************************************************************************)
(* A pump is started once for each connection, and with it.                *)
(***************************************************************************)
PumpInv == \A c \in Conns :
    conns[c] = "none" \/ (\E id \in DOMAIN tasks : Regained(tasks[id], c)) => pumps[c].at = "none"

\* A pump is started for a connection that has none.
LEMMA SpawnsFresh ==
  ASSUME CoreInv, PumpInv, [Next]_vars, NEW id \in DOMAIN tasks, Acts(id)
  PROVE  \/ UNCHANGED pumps
         \/ \E c \in Conns : /\ SpawnPump(c, id) /\ connection' = c /\ conns'[c] # "none"
                             /\ pumps[c].at = "none"
                             /\ \A j \in DOMAIN tasks' : ~Regained(tasks'[j], c)
<1>0. /\ Types /\ FlowInv /\ TaskTypes /\ ConnTypes /\ IsRoster(roster) /\ Holds(tasks[id])
      /\ tasks[id].conn \in Conns \cup {NoConn}
  BY DEF CoreInv, Types, TaskTypes, ConnInv, RosterTypes, IsTask
<1>1. CASE Step(id)
  BY <1>1, Zenon DEF Step, ConnectTurn, ReconnectTurn, TurnTooLate, EnterTurn, LeaveTurn,
                     TriesAgain, StartsAudio, Stops
<1>2. ASSUME AtWork(tasks[id]), ~(tasks'[id].kind = "reconnect" /\ tasks'[id].place \in {"listing", "entering"}),
             NEW c
      PROVE  \A j \in DOMAIN tasks' : ~Regained(tasks'[j], c)
  <2>1. \A j \in DOMAIN tasks : j # id => ~AtWork(tasks[j])
    BY <1>0, <1>2, OneAtWork
  <2> QED
    BY <1>0, <1>2, <2>1, OthersStay DEF Regained, AtWork
<1>3. CASE Connects(id)
  <2>1. PICK c \in Conns :
            /\ conns[c] = "none"
            /\ \/ UNCHANGED pumps
               \/ /\ tasks[id].kind = "connect" /\ GoesTo(id, "listing", c, tasks[id].rejoin)
                  /\ conns' = [conns EXCEPT ![c] = "open"] /\ connection' = c /\ SpawnPump(c, id)
    BY <1>0, <1>3, ConnectsMoves
  <2>2. pumps[c].at = "none"
    BY <2>1 DEF PumpInv
  <2>3. CASE /\ tasks[id].kind = "connect" /\ GoesTo(id, "listing", c, tasks[id].rejoin)
             /\ conns' = [conns EXCEPT ![c] = "open"] /\ connection' = c /\ SpawnPump(c, id)
    <3>1. conns'[c] # "none"
      BY <1>0, <2>3 DEF ConnTypes
    <3>2. \A j \in DOMAIN tasks' : ~Regained(tasks'[j], c)
      BY <1>2, <1>3, <2>3 DEF GoesTo, Moves, Connects, AtWork
    <3> QED
      BY <2>2, <2>3, <3>1, <3>2
  <2> QED
    BY <2>1, <2>3
<1>4. CASE (Lists(id) \/ Enters(id)) /\ tasks[id].kind = "reconnect"
  <2>1. /\ tasks[id].place \in {"listing", "entering"} /\ connection' = tasks[id].conn
        /\ SpawnPump(tasks[id].conn, id) /\ conns'[tasks[id].conn] = "open"
        /\ Lists(id) => Finish(id)
    BY <1>4, Zenon DEF Lists, Enters, registry
  <2>2. tasks[id].conn \in Conns
    BY <1>0, <1>4, <2>1 DEF Holds
  <2>3. pumps[tasks[id].conn].at = "none"
    BY <1>4, <2>1, <2>2 DEF PumpInv, Regained
  <2>4. tasks'[id].place \in {"done", "audio"}
    BY <1>0, <1>4, <2>1, FinishEnds, EntersMoves DEF Ends, GoesTo, Moves
  <2>5. \A j \in DOMAIN tasks' : ~Regained(tasks'[j], tasks[id].conn)
    BY <1>2, <2>1, <2>4 DEF AtWork
  <2> QED
    BY <2>1, <2>2, <2>3, <2>5
<1>5. CASE (Lists(id) \/ Enters(id)) /\ tasks[id].kind # "reconnect"
  BY <1>5 DEF Lists, Enters
<1>6. CASE ConnectFails(id) \/ ListFails(id) \/ EnterFails(id) \/ Leaves(id) \/ ClockIsRight(id)
  BY <1>6, Zenon DEF ConnectFails, ListFails, EnterFails, Leaves, ClockIsRight
<1> QED
  BY <1>1, <1>3, <1>4, <1>5, <1>6 DEF Acts, Answer

\* A connection that was made stays so, and a step has one in hand to get the lost
\* one back only once it is made.
LEMMA RegainedStep ==
  ASSUME CoreInv, [Next]_vars, NEW id \in DOMAIN tasks, Acts(id), NEW c \in Conns
  PROVE  /\ conns'[c] = "none" => conns[c] = "none"
         /\ (\E j \in DOMAIN tasks' : Regained(tasks'[j], c)) =>
              conns[c] = "none" \/ \E j \in DOMAIN tasks : Regained(tasks[j], c)
<1>0. /\ Types /\ FlowInv /\ TaskTypes /\ ConnTypes /\ IsRoster(roster)
      /\ tasks[id].conn \in Conns \cup {NoConn} /\ connection \in Conns \cup {NoConn}
  BY DEF CoreInv, Types, TaskTypes, RosterTypes, IsTask
<1>1. ASSUME Regained(tasks'[id], c) => conns[c] = "none" \/ Regained(tasks[id], c)
      PROVE  (\E j \in DOMAIN tasks' : Regained(tasks'[j], c)) =>
                conns[c] = "none" \/ \E j \in DOMAIN tasks : Regained(tasks[j], c)
  BY <1>0, <1>1, OthersStay
<1>2. CASE Step(id)
  <2>1. conns' = conns \/ conns' = Disconnected(connection) \/ conns' = Disconnected(tasks[id].conn)
    BY <1>2, Zenon DEF Step, ConnectTurn, ReconnectTurn, TurnTooLate, EnterTurn, LeaveTurn,
                       TriesAgain, StartsAudio, Stops, DropConnection, Dropped, registry
  <2>2. conns'[c] = "none" => conns[c] = "none"
    BY <1>0, <2>1, DisconnectedIs
  <2>3. ~Regained(tasks'[id], c)
    <3>1. CASE EnterTurn(id)
      BY <1>0, <3>1, EnterTurnMoves DEF EnterTurn, Ends, GoesTo, Moves, Regained
    <3>2. CASE LeaveTurn(id)
      <4>1. \A e \in Nat : NewTask("connect", e).place = "turn"
        BY NewTaskIs DEF Kinds
      <4>2. epoch + 1 \in Nat
        BY <1>0 DEF TaskTypes
      <4>3. tasks'[id].place \in {"turn", "done", "leaving"}
        BY <1>0, <3>2, <4>1, <4>2, LeaveTurnMoves DEF Ends, GoesTo, Moves
      <4> QED
        BY <4>3 DEF Regained
    <3> QED
      BY <1>0, <1>2, <3>1, <3>2, ConnectTurnMoves, ReconnectTurnMoves, TriesAgainMoves, FinishEnds, StopsMoves
         DEF Step, TurnTooLate, StartsAudio, Ends, GoesTo, Moves, Regained
  <2> QED
    BY <1>1, <2>2, <2>3
<1>3. CASE Connects(id)
  <2>1. PICK d \in Conns :
            /\ conns[d] = "none"
            /\ conns' = [conns EXCEPT ![d] = "closed"] \/ conns' = [conns EXCEPT ![d] = "open"]
            /\ Ends(id) \/ \E p : GoesTo(id, p, d, tasks[id].rejoin)
    BY <1>0, <1>3, ConnectsMoves
  <2>2. conns'[c] = "none" => conns[c] = "none"
    BY <1>0, <2>1 DEF ConnTypes
  <2>3. Regained(tasks'[id], c) => conns[c] = "none"
    BY <1>0, <2>1 DEF Ends, GoesTo, Moves, Regained
  <2> QED
    BY <1>1, <2>2, <2>3
<1>4. CASE ClockIsRight(id) \/ (Answer(id) /\ ~Connects(id))
  <2>1. conns' = conns \/ conns' = Disconnected(tasks[id].conn)
    BY <1>4, Zenon DEF Answer, ConnectFails, Lists, ListFails, Enters, EnterFails, Leaves,
                       ClockIsRight, registry
  <2>2. conns'[c] = "none" => conns[c] = "none"
    BY <1>0, <2>1, DisconnectedIs
  <2>3. ~Regained(tasks'[id], c)
    <3>1. CASE AttemptFails(id)
      BY <1>0, <3>1, AttemptFailsMoves DEF GoesTo, Moves, Ends, Regained
    <3>2. CASE ConnectFails(id)
      BY <1>0, <3>1, <3>2, ConnectFailsMoves DEF GoesTo, Moves, Ends, Regained
    <3>3. CASE Enters(id) \/ ClockIsRight(id)
      BY <1>0, <3>3, EntersMoves, ClockMoves DEF GoesTo, Moves, Regained
    <3>4. CASE Finish(id)
      BY <1>0, <3>4, FinishEnds DEF Moves, Ends, Regained
    <3> QED
      BY <1>4, <3>1, <3>2, <3>3, <3>4 DEF Answer, Lists, ListFails, EnterFails, Leaves
  <2> QED
    BY <1>1, <2>2, <2>3
<1> QED
  BY <1>2, <1>3, <1>4 DEF Acts

\* Where there is no pump, only a step starts one.
LEMMA NoneStays ==
  ASSUME CoreInv, [Next]_vars, ~Moved, NEW c \in Conns, pumps[c].at = "none"
  PROVE  pumps'[c].at = "none"
<1>1. CASE UNCHANGED pumps
  BY <1>1
<1>2. ASSUME NEW d \in Conns, Pump(d)
      PROVE  pumps'[c].at = "none"
  <2>1. d # c
    BY <1>2 DEF Pump, PumpEnds, PumpPolls, EventTurn, LinkTurn
  <2>2. pumps'[c] = pumps[c]
    <3>1. ASSUME NEW batch, NEW queue, GoesOn(d, batch, queue)
          PROVE  pumps'[c] = pumps[c]
      <4>1. TaskTypes /\ DOMAIN pumps = Conns
        BY DEF CoreInv, Types, ConnTypes
      <4>2. \/ \E link : pumps' = [pumps EXCEPT ![d].at = "link", ![d].batch = <<>>, ![d].link = link]
            \/ pumps' = [pumps EXCEPT ![d].at = "sleep", ![d].batch = <<>>, ![d].after = 0]
            \/ pumps' = [pumps EXCEPT ![d].at = "event", ![d].batch = batch]
            \/ pumps' = [pumps EXCEPT ![d].at = "none", ![d].batch = <<>>]
        BY <3>1, <4>1, GoesOnMoves, Zenon
      <4> QED
        BY <2>1, <4>1, <4>2
    <3>2. CASE PumpEnds(d)
      BY <2>1, <3>2 DEF PumpEnds, CoreInv, Types, ConnTypes
    <3>3. CASE LinkTurn(d)
      <4>1. pumps' = [pumps EXCEPT ![d].at = "sleep", ![d].link = "quiet", ![d].after = 0]
        BY <3>3, Zenon DEF LinkTurn
      <4> QED
        BY <2>1, <4>1 DEF CoreInv, Types, ConnTypes
    <3> QED
      BY <1>2, <3>1, <3>2, <3>3, Zenon DEF Pump, PumpPolls, EventTurn
  <2> QED
    BY <2>2
<1>3. CASE Command
  BY <1>3, CommandJoins DEF CoreInv, Types
<1> QED
  BY <1>1, <1>2, <1>3 DEF Next, vars, Moved, Lose, RoomChanges, LinkChanges

\* Pumps, commands and the others' news make no connection, and have none in hand.
LEMMA NoneMade ==
  ASSUME CoreInv, [Next]_vars, ~Moved, NEW c \in Conns
  PROVE  /\ conns'[c] = "none" => conns[c] = "none"
         /\ (\E j \in DOMAIN tasks' : Regained(tasks'[j], c)) => \E j \in DOMAIN tasks : Regained(tasks[j], c)
<1>0. Types /\ FlowInv /\ ConnTypes
  BY DEF CoreInv, Types
<1>1. Waits
  BY <1>0, OthersWait
<1>2. \A kind \in Kinds, e \in Nat : NewTask(kind, e).place = "turn"
  BY NewTaskIs
<1>3. (\E j \in DOMAIN tasks' : Regained(tasks'[j], c)) => \E j \in DOMAIN tasks : Regained(tasks[j], c)
  BY <1>1, <1>2, WaitsFor DEF Regained
<1>4. conns'[c] = "none" => conns[c] = "none"
  <2>1. CASE UNCHANGED conns
    BY <2>1
  <2>2. CASE Command
    BY <1>0, <2>2, CommandJoins DEF Types, registry
  <2>3. CASE \E d \in Conns : Lose(d)
    BY <1>0, <2>3 DEF Lose, ConnTypes
  <2> QED
    BY <2>1, <2>2, <2>3, Zenon DEF Next, vars, Moved, RoomChanges, LinkChanges, registry, Pump,
                        PumpEnds, PumpPolls, EventTurn, LinkTurn
<1> QED
  BY <1>3, <1>4

\* Every step of the specification keeps pumps to connections that were made.
LEMMA PumpStep ==
  ASSUME CoreInv, PumpInv, [Next]_vars
  PROVE  PumpInv'
<1>0. Types /\ FlowInv /\ ConnTypes
  BY DEF CoreInv, Types
<1>1. CASE ~Moved
  BY <1>1, NoneMade, NoneStays DEF PumpInv, Regained
<1>2. CASE Moved
  <2>1. PICK id \in DOMAIN tasks : Acts(id)
    BY <1>2 DEF Moved, Acts
  <2>2. ASSUME NEW c \in Conns, conns'[c] = "none" \/ \E j \in DOMAIN tasks' : Regained(tasks'[j], c)
        PROVE  pumps'[c].at = "none"
    <3>1. pumps[c].at = "none"
      BY <2>1, <2>2, RegainedStep DEF PumpInv
    <3>2. CASE UNCHANGED pumps
      BY <3>1, <3>2
    <3>3. ASSUME NEW d \in Conns, SpawnPump(d, id), conns'[d] # "none",
                 \A j \in DOMAIN tasks' : ~Regained(tasks'[j], d)
          PROVE  pumps'[c].at = "none"
      BY <1>0, <2>2, <3>1, <3>3, SpawnedIs
    <3> QED
      BY <2>1, <3>2, <3>3, SpawnsFresh
  <2> QED
    BY <2>2 DEF PumpInv, Regained
<1> QED
  BY <1>1, <1>2

TaskWaits(id) == id \in DOMAIN tasks /\ ~Rests(tasks[id])
PumpWaits(c) == c \in Conns /\ pumps[c].at \in {"event", "link"}
Waiting(x) == (\E id : x = InTurn(id) /\ TaskWaits(id)) \/ (\E c : x = InPump(c) /\ PumpWaits(c))
FlowExact == Once(flow) /\ \A x : In(x, flow) <=> Waiting(x)

\* Pumps wait under different names.
LEMMA PumpsDiffer == \A c, d : InPump(c) = InPump(d) => c = d
BY DEF InPump

\* What a step does to the flow.
LEMMA MovesInFlow ==
  ASSUME CoreInv, NEW id \in DOMAIN tasks, Acts(id)
  PROVE  \/ flow' = flow /\ (Rests(tasks[id]) <=> Rests(tasks'[id]))
         \/ HasTurn(InTurn(id)) /\ flow' = Tail(flow) /\ Rests(tasks'[id])
         \/ /\ Rests(tasks[id]) /\ ~Rests(tasks'[id]) /\ flow' = Append(flow, InTurn(id))
            /\ tasks[id].place = "clock"
         \/ /\ HasTurn(InTurn(id)) /\ flow' = Append(Tail(flow), InTurn(id)) /\ ~Rests(tasks'[id])
            /\ tasks'[id].kind = "connect"
<1>0. /\ TaskTypes /\ FlowInv /\ IsRoster(roster)
      /\ AtWork(tasks[id]) => HasTurn(InTurn(id)) /\ ~Rests(tasks[id])
  BY DEF CoreInv, Types, RosterTypes, FlowInv, AtWork, Rests
<1>1. CASE Ends(id) /\ HasTurn(InTurn(id)) /\ flow' = Tail(flow)
  BY <1>1 DEF Ends, Moves, Rests
<1>2. CASE Step(id)
  <2>1. CASE ConnectTurn(id) \/ ReconnectTurn(id) \/ TriesAgain(id)
    <3>1. flow' = flow /\ tasks[id].place \in {"turn", "pausing"}
      BY <2>1 DEF ConnectTurn, ReconnectTurn, TriesAgain
    <3>2. tasks'[id].place = "connecting"
      BY <1>0, <2>1, ConnectTurnMoves, ReconnectTurnMoves, TriesAgainMoves DEF GoesTo, Moves
    <3> QED
      BY <3>1, <3>2 DEF Rests
  <2>2. CASE TurnTooLate(id) \/ StartsAudio(id)
    <3>1. Finish(id) /\ HasTurn(InTurn(id))
      BY <1>0, <2>2 DEF TurnTooLate, StartsAudio, AtWork
    <3> QED
      BY <1>0, <1>1, <3>1, FinishEnds
  <2>3. CASE Stops(id)
    BY <1>0, <1>1, <2>3, StopsMoves DEF Ends, Moves, Rests
  <2>4. CASE EnterTurn(id)
    <3>1. HasTurn(InTurn(id)) /\ tasks[id].place = "turn"
      BY <2>4 DEF EnterTurn
    <3> QED
      BY <1>0, <1>1, <2>4, <3>1, EnterTurnMoves DEF GoesTo, Moves, Rests
  <2>5. CASE LeaveTurn(id)
    <3>1. HasTurn(InTurn(id)) /\ tasks[id].place = "turn"
      BY <2>5 DEF LeaveTurn
    <3>2. \A e \in Nat : NewTask("connect", e).place = "turn" /\ NewTask("connect", e).kind = "connect"
      BY NewTaskIs DEF Kinds
    <3>3. epoch + 1 \in Nat
      BY <1>0 DEF TaskTypes
    <3>4. CASE /\ epoch' = epoch + 1 /\ tasks'[id] = NewTask("connect", epoch')
               /\ flow' = Append(Tail(flow), InTurn(id))
      BY <3>1, <3>2, <3>3, <3>4 DEF Rests
    <3> QED
      BY <1>0, <1>1, <2>5, <3>1, <3>4, LeaveTurnMoves DEF GoesTo, Moves, Rests
  <2> QED
    BY <1>2, <2>1, <2>2, <2>3, <2>4, <2>5 DEF Step
<1>3. CASE ClockIsRight(id)
  <2>1. tasks[id].place = "clock" /\ flow' = Append(flow, InTurn(id))
    BY <1>3 DEF ClockIsRight
  <2>2. tasks'[id].place = "turn"
    BY <1>0, <1>3, ClockMoves DEF GoesTo, Moves
  <2> QED
    BY <2>1, <2>2 DEF Rests
<1>4. CASE Answer(id)
  <2>1. AtWork(tasks[id])
    BY <1>4, Zenon DEF Answer, Connects, ConnectFails, Lists, ListFails, Enters, EnterFails, Leaves, AtWork
  <2>2. CASE Finish(id)
    BY <1>0, <1>1, <2>1, <2>2, FinishEnds
  <2>3. CASE AttemptFails(id)
    BY <1>0, <1>1, <2>1, <2>3, AttemptFailsMoves DEF GoesTo, Moves, Rests, inner
  <2>4. CASE ConnectFails(id)
    BY <1>0, <1>1, <2>1, <2>3, <2>4, ConnectFailsMoves DEF GoesTo, Moves, Rests
  <2>5. CASE Connects(id)
    BY <1>0, <1>1, <2>1, <2>5, ConnectsMoves DEF GoesTo, Moves, Rests
  <2>6. CASE Enters(id)
    <3>1. flow' = flow
      BY <2>6 DEF Enters
    <3> QED
      BY <1>0, <2>1, <2>6, <3>1, EntersMoves DEF GoesTo, Moves, Rests
  <2> QED
    BY <1>4, <2>2, <2>3, <2>4, <2>5, <2>6 DEF Answer, Lists, ListFails, EnterFails, Leaves
<1> QED
  BY <1>2, <1>3, <1>4 DEF Acts

\* What a pump does to the flow: it lets go of its turn, and may ask for another.
LEMMA PumpInFlow ==
  ASSUME CoreInv, NEW c \in Conns, Pump(c)
  PROVE  \E queue :
           /\ \/ queue = flow /\ ~PumpWaits(c)
              \/ HasTurn(InPump(c)) /\ queue = Tail(flow) /\ PumpWaits(c)
           /\ \/ UNCHANGED <<epoch, tasks>> /\ flow' = queue /\ ~PumpWaits(c)'
              \/ UNCHANGED <<epoch, tasks>> /\ flow' = Append(queue, InPump(c)) /\ PumpWaits(c)'
              \/ /\ connection = c /\ epoch' = epoch + 1
                 /\ AsksBehind(queue, "reconnect", epoch') /\ ~PumpWaits(c)'
           /\ \A d \in Conns : d # c => pumps'[d] = pumps[d]
<1>0. TaskTypes /\ DOMAIN pumps = Conns /\ IsPump(pumps[c])
  BY DEF CoreInv, Types, ConnTypes
<1>1. CASE PumpEnds(c)
  <2>1. /\ pumps' = [pumps EXCEPT ![c].at = "none"] /\ pumps[c].at = "sleep"
        /\ UNCHANGED <<epoch, tasks, flow>>
    BY <1>1 DEF PumpEnds, inner
  <2> QED
    BY <1>0, <2>1 DEF PumpWaits, IsPump
<1>2. CASE LinkTurn(c)
  <2>1. /\ pumps' = [pumps EXCEPT ![c].at = "sleep", ![c].link = "quiet", ![c].after = 0]
        /\ pumps[c].at = "link" /\ HasTurn(InPump(c)) /\ flow' = Tail(flow)
        /\ UNCHANGED <<epoch, tasks>>
    BY <1>2, Zenon DEF LinkTurn
  <2> QED
    BY <1>0, <2>1 DEF PumpWaits, IsPump
<1>3. ASSUME NEW batch, NEW queue, GoesOn(c, batch, queue),
             \/ queue = flow /\ ~PumpWaits(c)
             \/ HasTurn(InPump(c)) /\ queue = Tail(flow) /\ PumpWaits(c)
      PROVE  /\ \/ UNCHANGED <<epoch, tasks>> /\ flow' = queue /\ ~PumpWaits(c)'
                \/ UNCHANGED <<epoch, tasks>> /\ flow' = Append(queue, InPump(c)) /\ PumpWaits(c)'
                \/ /\ connection = c /\ epoch' = epoch + 1
                   /\ AsksBehind(queue, "reconnect", epoch') /\ ~PumpWaits(c)'
             /\ \A d \in Conns : d # c => pumps'[d] = pumps[d]
  <2>1. CASE batch = <<>>
    <3>1. LooksAtLink(c, queue) /\ UNCHANGED <<epoch, tasks>>
      BY <1>3, <2>1 DEF GoesOn
    <3>2. CASE audio.link = "quiet"
      <4>1. /\ pumps' = [pumps EXCEPT ![c].at = "sleep", ![c].batch = <<>>, ![c].after = 0]
            /\ flow' = queue
        BY <3>1, <3>2, Zenon DEF LooksAtLink
      <4> QED
        BY <1>0, <3>1, <4>1 DEF PumpWaits, IsPump
    <3>3. CASE audio.link # "quiet"
      <4>1. /\ pumps' = [pumps EXCEPT ![c].at = "link", ![c].batch = <<>>, ![c].link = audio.link]
            /\ flow' = Append(queue, InPump(c))
        BY <3>1, <3>3, Zenon DEF LooksAtLink
      <4> QED
        BY <1>0, <3>1, <4>1 DEF PumpWaits, IsPump
    <3> QED
      BY <3>2, <3>3
  <2>2. CASE batch # <<>> /\ Head(batch).what = "lost"
    <3>1. GetsConnectionBack(c, queue)
      BY <1>3, <2>2 DEF GoesOn
    <3>2. /\ pumps' = [pumps EXCEPT ![c].at = "none", ![c].batch = <<>>]
          /\ \/ connection = c /\ epoch' = epoch + 1 /\ AsksBehind(queue, "reconnect", epoch')
             \/ flow' = queue /\ UNCHANGED <<epoch, tasks>>
      BY <3>1, Zenon DEF GetsConnectionBack
    <3> QED
      BY <1>0, <3>2 DEF PumpWaits, IsPump
  <2>3. CASE batch # <<>> /\ Head(batch).what # "lost"
    <3>1. /\ pumps' = [pumps EXCEPT ![c].at = "event", ![c].batch = batch]
          /\ flow' = Append(queue, InPump(c))
          /\ UNCHANGED <<epoch, tasks>>
      BY <1>3, <2>3 DEF GoesOn
    <3> QED
      BY <1>0, <3>1 DEF PumpWaits, IsPump
  <2> QED
    BY <2>1, <2>2, <2>3
<1>4. CASE PumpPolls(c) \/ EventTurn(c)
  <2>1. \E batch, queue : /\ GoesOn(c, batch, queue)
                          /\ \/ queue = flow /\ pumps[c].at = "sleep"
                             \/ HasTurn(InPump(c)) /\ queue = Tail(flow) /\ pumps[c].at = "event"
    BY <1>4, Zenon DEF PumpPolls, EventTurn
  <2>2. PICK batch, queue : /\ GoesOn(c, batch, queue)
                            /\ \/ queue = flow /\ ~PumpWaits(c)
                               \/ HasTurn(InPump(c)) /\ queue = Tail(flow) /\ PumpWaits(c)
    BY <2>1 DEF PumpWaits
  <2> QED
    BY <1>3, <2>2
<1> QED
  BY <1>1, <1>2, <1>4 DEF Pump

\* Who has the turn is waited for.
LEMMA HasTurnWaits ==
  ASSUME IsQueue(flow), FlowExact, NEW who, HasTurn(who)
  PROVE  Waiting(who) /\ flow # <<>> /\ Head(flow) = who
BY TurnIsIn DEF FlowExact, HasTurn

\* Whoever moves is waiting or at rest afterwards, and all others are as before.
LEMMA MovedWaits ==
  ASSUME CoreInv, PumpInv, [Next]_vars, NEW id \in DOMAIN tasks, Acts(id)
  PROVE  \A x : Waiting(x)' <=> \/ Waiting(x) /\ x # InTurn(id)
                                \/ ~Rests(tasks'[id]) /\ x = InTurn(id)
<1>0. Types /\ FlowInv /\ ConnTypes
  BY DEF CoreInv, Types
<1>1. \A c : PumpWaits(c)' <=> PumpWaits(c)
  <2>1. ASSUME NEW d \in Conns, SpawnPump(d, id), pumps[d].at = "none", NEW c \in Conns
        PROVE  pumps'[c].at \in {"event", "link"} <=> pumps[c].at \in {"event", "link"}
    BY <1>0, <2>1, SpawnedIs
  <2> QED
    BY <2>1, SpawnsFresh DEF PumpWaits
<1>2. /\ \A j : j # id => (TaskWaits(j)' <=> TaskWaits(j))
      /\ TaskWaits(id)' <=> ~Rests(tasks'[id])
  BY <1>0, OthersStay DEF TaskWaits, Rests
<1> QED
  BY <1>1, <1>2, TurnsDiffer, Zenon DEF Waiting

\* A step's move keeps the flow exact.
LEMMA MovedExact ==
  ASSUME CoreInv, PumpInv, FlowExact, [Next]_vars, NEW id \in DOMAIN tasks, Acts(id)
  PROVE  FlowExact'
<1>0. IsQueue(flow)
  BY DEF CoreInv, Types, TaskTypes
<1>1. \A x : Waiting(x)' <=> \/ Waiting(x) /\ x # InTurn(id)
                             \/ ~Rests(tasks'[id]) /\ x = InTurn(id)
  BY MovedWaits
<1>2. Waiting(InTurn(id)) <=> ~Rests(tasks[id])
  BY TurnsDiffer DEF Waiting, TaskWaits
<1>3. CASE flow' = flow /\ (Rests(tasks[id]) <=> Rests(tasks'[id]))
  <2>1. \A x : Waiting(x)' <=> Waiting(x)
    BY <1>1, <1>2, <1>3
  <2> QED
    BY <1>3, <2>1 DEF FlowExact, Once, In
<1>4. CASE Rests(tasks[id]) /\ ~Rests(tasks'[id]) /\ flow' = Append(flow, InTurn(id))
  <2>1. Once(Append(flow, InTurn(id))) /\ \A y : In(y, Append(flow, InTurn(id))) <=> In(y, flow) \/ y = InTurn(id)
    BY <1>0, <1>2, <1>4, OnceAppend DEF FlowExact
  <2>2. \A y : In(y, Append(flow, InTurn(id))) <=> Waiting(y)'
    BY <1>1, <1>2, <1>4, <2>1 DEF FlowExact
  <2> QED
    BY <1>4, <2>1, <2>2 DEF FlowExact, Once, In
<1>5. CASE HasTurn(InTurn(id))
  <2>1. flow # <<>> /\ Head(flow) = InTurn(id)
    BY <1>0, <1>5, HasTurnWaits
  <2>2. /\ IsQueue(Tail(flow)) /\ Once(Tail(flow))
        /\ \A x : In(x, Tail(flow)) <=> Waiting(x) /\ x # InTurn(id)
    BY <1>0, <2>1, OnceTail, TailQueue DEF FlowExact
  <2>3. CASE flow' = Tail(flow) /\ Rests(tasks'[id])
    <3>1. \A x : In(x, Tail(flow)) <=> Waiting(x)'
      BY <1>1, <2>2, <2>3
    <3> QED
      BY <2>2, <2>3, <3>1 DEF FlowExact, Once, In
  <2>4. CASE flow' = Append(Tail(flow), InTurn(id)) /\ ~Rests(tasks'[id])
    <3>1. /\ Once(Append(Tail(flow), InTurn(id)))
          /\ \A y : In(y, Append(Tail(flow), InTurn(id))) <=> In(y, Tail(flow)) \/ y = InTurn(id)
      BY <2>2, OnceAppend
    <3>2. \A x : In(x, Append(Tail(flow), InTurn(id))) <=> Waiting(x)'
      BY <1>1, <2>2, <2>4, <3>1
    <3> QED
      BY <2>4, <3>1, <3>2 DEF FlowExact, Once, In
  <2> QED
    BY <1>3, <1>4, <2>3, <2>4, MovesInFlow
<1> QED
  BY <1>3, <1>4, <1>5, MovesInFlow

\* A step is asked for behind `queue`, which is who waits but for `who`.
LEMMA AskedExact ==
  ASSUME TaskTypes, NEW queue, IsQueue(queue), Once(queue), NEW who,
         \A x : In(x, queue) <=> Waiting(x) /\ x # who,
         NEW kind \in Kinds, NEW e \in Nat, AsksBehind(queue, kind, e),
         \A c : PumpWaits(c)' <=> PumpWaits(c) /\ InPump(c) # who, \A id : who # InTurn(id)
  PROVE  FlowExact'
<1> DEFINE new == Len(tasks) + 1
           t == NewTask(kind, e)
<1>1. /\ DOMAIN tasks = 1 .. Len(tasks) /\ Len(tasks) \in Nat
      /\ DOMAIN tasks' = 1 .. (Len(tasks) + 1)
      /\ \A j \in DOMAIN tasks : tasks'[j] = tasks[j]
      /\ tasks'[new] = t /\ flow' = Append(queue, InTurn(new))
  BY QueueShape, AppendQueue DEF TaskTypes, AsksBehind
<1>2. ~Rests(t)
  BY NewTaskIs DEF Rests
<1>3. new \notin DOMAIN tasks /\ DOMAIN tasks' = DOMAIN tasks \cup {new}
  BY <1>1
<1> HIDE DEF new, t
<1>4. \A j : TaskWaits(j)' <=> TaskWaits(j) \/ j = new
  BY <1>1, <1>2, <1>3 DEF TaskWaits, Rests
<1>5. \A x : Waiting(x)' <=> (Waiting(x) /\ x # who) \/ x = InTurn(new)
  BY <1>4, TurnsDiffer, Zenon DEF Waiting
<1>6. ~Waiting(InTurn(new))
  BY <1>3, TurnsDiffer DEF Waiting, TaskWaits
<1>7. /\ Once(Append(queue, InTurn(new)))
      /\ \A y : In(y, Append(queue, InTurn(new))) <=> In(y, queue) \/ y = InTurn(new)
  BY <1>6, OnceAppend
<1>8. \A x : In(x, Append(queue, InTurn(new))) <=> Waiting(x)'
  BY <1>5, <1>7
<1> QED
  BY <1>1, <1>7, <1>8 DEF FlowExact, Once, In

\* Pumps, commands and the others' news keep the flow exact.
LEMMA WaitingExact ==
  ASSUME CoreInv, FlowExact, [Next]_vars, ~Moved
  PROVE  FlowExact'
<1>0. TaskTypes /\ IsQueue(flow) /\ epoch + 1 \in Nat
  BY DEF CoreInv, Types, TaskTypes
<1>1. CASE UNCHANGED <<flow, tasks, pumps>>
  BY <1>1 DEF FlowExact, Waiting, TaskWaits, PumpWaits, Once, In, Rests
<1>2. CASE Command
  <2>1. PICK kind \in Kinds, e \in Nat : AsksBehind(flow, kind, e) /\ UNCHANGED pumps
    BY <1>0, <1>2, CommandJoins
  <2> DEFINE who == <<"nobody", 0>>
  <2>2. \A x : In(x, flow) <=> Waiting(x) /\ x # who
    BY DEF FlowExact, Waiting, InTurn, InPump
  <2>3. (\A id : who # InTurn(id)) /\ (\A c : InPump(c) # who)
    BY DEF InTurn, InPump
  <2>4. \A c : PumpWaits(c)' <=> PumpWaits(c) /\ InPump(c) # who
    BY <2>1, <2>3 DEF PumpWaits
  <2>5. Once(flow)
    BY DEF FlowExact
  <2> HIDE DEF who
  <2> QED
    BY <1>0, <2>1, <2>2, <2>3, <2>4, <2>5, AskedExact
<1>3. ASSUME NEW c \in Conns, Pump(c)
      PROVE  FlowExact'
  <2>1. PICK queue :
           /\ \/ queue = flow /\ ~PumpWaits(c)
              \/ HasTurn(InPump(c)) /\ queue = Tail(flow) /\ PumpWaits(c)
           /\ \/ UNCHANGED <<epoch, tasks>> /\ flow' = queue /\ ~PumpWaits(c)'
              \/ UNCHANGED <<epoch, tasks>> /\ flow' = Append(queue, InPump(c)) /\ PumpWaits(c)'
              \/ /\ connection = c /\ epoch' = epoch + 1
                 /\ AsksBehind(queue, "reconnect", epoch') /\ ~PumpWaits(c)'
           /\ \A d \in Conns : d # c => pumps'[d] = pumps[d]
    BY <1>3, PumpInFlow
  <2>2. Waiting(InPump(c)) <=> PumpWaits(c)
    BY TurnsDiffer, PumpsDiffer DEF Waiting
  <2>3. IsQueue(queue) /\ Once(queue) /\ \A x : In(x, queue) <=> Waiting(x) /\ x # InPump(c)
    <3>1. CASE queue = flow /\ ~PumpWaits(c)
      BY <1>0, <2>2, <3>1 DEF FlowExact
    <3>2. CASE HasTurn(InPump(c)) /\ queue = Tail(flow)
      <4>1. flow # <<>> /\ Head(flow) = InPump(c)
        BY <1>0, <3>2, HasTurnWaits
      <4> QED
        BY <1>0, <3>2, <4>1, OnceTail, TailQueue DEF FlowExact
    <3> QED
      BY <2>1, <3>1, <3>2
  <2>4. \A d : d # c => (PumpWaits(d)' <=> PumpWaits(d))
    BY <2>1 DEF PumpWaits
  <2>5. CASE UNCHANGED tasks
    <3>1. \A j : TaskWaits(j)' <=> TaskWaits(j)
      BY <2>5 DEF TaskWaits, Rests
    <3>2. \A x : Waiting(x)' <=> (Waiting(x) /\ x # InPump(c)) \/ (PumpWaits(c)' /\ x = InPump(c))
      BY <2>4, <3>1, TurnsDiffer, PumpsDiffer, Zenon DEF Waiting
    <3>3. CASE flow' = queue /\ ~PumpWaits(c)'
      <4>1. \A x : In(x, queue) <=> Waiting(x)'
        BY <2>3, <3>2, <3>3
      <4> QED
        BY <2>3, <3>3, <4>1 DEF FlowExact, Once, In
    <3>4. CASE flow' = Append(queue, InPump(c)) /\ PumpWaits(c)'
      <4>1. /\ Once(Append(queue, InPump(c)))
            /\ \A y : In(y, Append(queue, InPump(c))) <=> In(y, queue) \/ y = InPump(c)
        BY <2>3, OnceAppend
      <4>2. \A x : In(x, Append(queue, InPump(c))) <=> Waiting(x)'
        BY <2>3, <3>2, <3>4, <4>1
      <4> QED
        BY <3>4, <4>1, <4>2 DEF FlowExact, Once, In
    <3>5. CASE AsksBehind(queue, "reconnect", epoch')
      <4>1. Len(tasks) \in Nat /\ DOMAIN tasks = 1 .. Len(tasks) /\ DOMAIN tasks' = 1 .. (Len(tasks) + 1)
        BY <1>0, <3>5, QueueShape, AppendQueue DEF TaskTypes, AsksBehind
      <4> QED
        BY <2>5, <4>1
    <3> QED
      BY <2>1, <3>3, <3>4, <3>5
  <2>6. CASE epoch' = epoch + 1 /\ AsksBehind(queue, "reconnect", epoch') /\ ~PumpWaits(c)'
    <3>1. \A d : PumpWaits(d)' <=> PumpWaits(d) /\ InPump(d) # InPump(c)
      BY <2>4, <2>6, PumpsDiffer
    <3>2. \A id : InPump(c) # InTurn(id)
      BY TurnsDiffer
    <3> QED
      BY <1>0, <2>3, <2>6, <3>1, <3>2, AskedExact DEF Kinds
  <2> QED
    BY <2>1, <2>5, <2>6
<1>4. CASE \E c \in Conns : Lose(c) \/ RoomChanges(c)
  BY <1>1, <1>4, Zenon DEF Lose, RoomChanges
<1>5. CASE LinkChanges \/ UNCHANGED vars
  BY <1>1, <1>5, Zenon DEF LinkChanges, vars
<1> QED
  BY <1>2, <1>3, <1>4, <1>5 DEF Next, Moved

\* Every step of the specification keeps the flow exact.
LEMMA ExactStep ==
  ASSUME CoreInv, PumpInv, FlowExact, [Next]_vars
  PROVE  FlowExact'
BY WaitingExact, MovedExact DEF Moved, Acts

(***************************************************************************)
(* An epoch is of one step: to be told to end is final.                    *)
(***************************************************************************)
Numbered(t) == t.epoch \in 0..epoch /\ (~Reaches(t) => t.epoch = 0)
EpochInv ==
    /\ epoch # 0
    /\ \A id \in DOMAIN tasks : Numbered(tasks[id])
    /\ \A i, j \in DOMAIN tasks : tasks[i].epoch = tasks[j].epoch /\ tasks[i].epoch # 0 => i = j

\* Every step of the specification keeps epochs apart.
LEMMA EpochStep ==
  ASSUME CoreInv, EpochInv, [Next]_vars
  PROVE  EpochInv'
<1>0. Types /\ FlowInv /\ epoch \in Nat
  BY DEF CoreInv, Types, TaskTypes
\* One step takes the epoch e, and is of a kind that may have one.
<1>1. ASSUME NEW id, NEW t, DOMAIN tasks' = DOMAIN tasks \cup {id}, tasks'[id] = t,
             \A j \in DOMAIN tasks : j # id => tasks'[j] = tasks[j],
             \/ t.epoch = 0 /\ epoch' = epoch
             \/ t.epoch = epoch + 1 /\ epoch' = epoch + 1 /\ Reaches(t)
             \/ id \in DOMAIN tasks /\ t.epoch = tasks[id].epoch /\ t.kind = tasks[id].kind /\ epoch' = epoch
      PROVE  EpochInv'
  <2>1. \A j \in DOMAIN tasks : tasks[j].epoch \in 0..epoch
    BY DEF EpochInv, Numbered
  <2>2. Numbered(tasks[id])'
    BY <1>0, <1>1, <2>1 DEF EpochInv, Numbered, Reaches
  <2>3. \A j \in DOMAIN tasks' : Numbered(tasks[j])'
    BY <1>0, <1>1, <2>1, <2>2 DEF EpochInv, Numbered, Reaches
  <2>4. \A i, j \in DOMAIN tasks' : tasks'[i].epoch = tasks'[j].epoch /\ tasks'[i].epoch # 0 => i = j
    BY <1>0, <1>1, <2>1 DEF EpochInv
  <2> QED
    BY <1>0, <1>1, <2>3, <2>4 DEF EpochInv
<1>2. CASE Moved
  <2>1. PICK id \in DOMAIN tasks : Acts(id)
    BY <1>2 DEF Moved, Acts
  <2>2. CASE (\E p, c, b : Moves(id, p, c, b)) /\ epoch' = epoch /\ tasks'[id].epoch \in {tasks[id].epoch, 0}
    <3>1. /\ DOMAIN tasks' = DOMAIN tasks \cup {id} /\ tasks'[id].kind = tasks[id].kind
          /\ \A j \in DOMAIN tasks : j # id => tasks'[j] = tasks[j]
      BY <2>2 DEF Moves
    <3> QED
      BY <1>1, <2>2, <3>1
  <2>3. CASE /\ epoch' = epoch + 1 /\ DOMAIN tasks' = DOMAIN tasks
             /\ \A j \in DOMAIN tasks : j # id => tasks'[j] = tasks[j]
             /\ tasks'[id] = NewTask("connect", epoch')
    <3>1. tasks'[id].kind = "connect" /\ tasks'[id].epoch = epoch'
      BY <1>0, <2>3, NewTaskIs DEF Kinds
    <3> QED
      BY <1>1, <2>3, <3>1 DEF Reaches
  <2> QED
    BY <1>0, <2>1, <2>2, <2>3, StepMoves DEF Acts
<1>3. CASE UNCHANGED <<epoch, tasks>>
  BY <1>3 DEF EpochInv, Numbered, Reaches
<1>4. ASSUME NEW kind \in Kinds, NEW e \in Nat, Joins(kind, e),
             \/ epoch' = epoch /\ e = 0 /\ kind \notin {"connect", "reconnect"}
             \/ epoch' = epoch + 1 /\ e = epoch' /\ kind \in {"connect", "reconnect"}
      PROVE  EpochInv'
  <2>1. PICK new : /\ DOMAIN tasks' = DOMAIN tasks \cup {new}
                   /\ \A j \in DOMAIN tasks : j # new => tasks'[j] = tasks[j]
                   /\ tasks'[new] = NewTask(kind, e)
    BY <1>4 DEF Joins
  <2>2. tasks'[new].kind = kind /\ tasks'[new].epoch = e
    BY <2>1, NewTaskIs
  <2> QED
    BY <1>1, <1>4, <2>1, <2>2 DEF Reaches
<1> QED
  BY <1>0, <1>2, <1>3, <1>4, OthersWait DEF Waits

(***************************************************************************)
(* Whoever asked to leave gets out of the room.                            *)
(***************************************************************************)
Before(q, x, y) == \A k, m \in DOMAIN q : q[k] = x /\ q[m] = y => k < m

\* Order stays when the head goes.
LEMMA BeforeTail ==
  ASSUME NEW q, IsQueue(q), q # <<>>, NEW x, NEW y, Before(q, x, y)
  PROVE  Before(Tail(q), x, y)
<1>1. /\ Len(q) \in Nat /\ DOMAIN q = 1 .. Len(q)
      /\ DOMAIN Tail(q) = 1 .. (Len(q) - 1) /\ \A i \in 1 .. (Len(q) - 1) : Tail(q)[i] = q[i + 1]
  BY QueueShape, HeadTailProperties DEF IsQueue
<1>2. ASSUME NEW k \in DOMAIN Tail(q), NEW m \in DOMAIN Tail(q), Tail(q)[k] = x, Tail(q)[m] = y
      PROVE  k < m
  <2>1. k + 1 \in DOMAIN q /\ m + 1 \in DOMAIN q /\ q[k + 1] = x /\ q[m + 1] = y
    BY <1>1, <1>2
  <2>2. k + 1 < m + 1
    BY <2>1 DEF Before
  <2> QED
    BY <1>1, <2>2
<1> QED
  BY <1>2 DEF Before

\* Order stays when one comes who is not the first of the two.
LEMMA BeforeAppend ==
  ASSUME NEW q, IsQueue(q), NEW x, NEW y, Before(q, x, y), NEW z, z # x
  PROVE  Before(Append(q, z), x, y)
<1>1. /\ Len(q) \in Nat /\ DOMAIN q = 1 .. Len(q)
      /\ DOMAIN Append(q, z) = 1 .. (Len(q) + 1)
      /\ \A i \in 1 .. Len(q) : Append(q, z)[i] = q[i]
      /\ Append(q, z)[Len(q) + 1] = z
  BY QueueShape, AppendQueue
<1> QED
  BY <1>1 DEF Before

\* Who comes last has everyone before.
LEMMA BeforeLast ==
  ASSUME NEW q, IsQueue(q), NEW x, NEW y, ~In(y, q), x # y
  PROVE  Before(Append(q, y), x, y)
<1>1. /\ Len(q) \in Nat /\ DOMAIN q = 1 .. Len(q)
      /\ DOMAIN Append(q, y) = 1 .. (Len(q) + 1)
      /\ \A i \in 1 .. Len(q) : Append(q, y)[i] = q[i]
      /\ Append(q, y)[Len(q) + 1] = y
  BY QueueShape, AppendQueue
<1> QED
  BY <1>1 DEF Before, In

\* Nobody is before the head.
LEMMA BeforeHead ==
  ASSUME NEW q, IsQueue(q), q # <<>>, NEW x, Before(q, x, Head(q))
  PROVE  ~In(x, q)
<1>1. Len(q) \in Nat /\ Len(q) > 0 /\ DOMAIN q = 1 .. Len(q) /\ Head(q) = q[1]
  BY QueueShape, HeadTailProperties DEF IsQueue
<1> QED
  BY <1>1 DEF Before, In

\* A step that is to take the app into a room, and that there is none.
WantsRoom(t) == t.kind \in {"create", "join"}
NoneEnters == ~room /\ \A id \in DOMAIN tasks : WantsRoom(tasks[id]) => Rests(tasks[id])
\* Nobody who wants a room comes after the step w.
Behind(w) == \A id \in DOMAIN tasks : WantsRoom(tasks[id]) => Before(flow, InTurn(id), InTurn(w))
IsToLeave(w) == tasks[w].kind = "leave" /\ tasks[w].place \in {"turn", "leaving"} /\ Behind(w)
\* The pump of the session's connection, if it has one, lets the step that takes over go first.
Resting == connection = NoConn \/ (pumps[connection].at = "sleep" /\ pumps[connection].after # 0)
IsToConnect(w) == tasks[w].kind = "connect" /\ Superseding(tasks[w]) /\ Behind(w) /\ Resting
LeftInv == wish = "left" => NoneEnters \/ \E w \in DOMAIN tasks : IsToLeave(w) \/ IsToConnect(w)

\* When the turn has come to a step that everyone who wants a room is before,
\* they all have had theirs.
LEMMA WantersRest ==
  ASSUME CoreInv, FlowExact, NEW w, HasTurn(InTurn(w)), Behind(w)
  PROVE  \A id \in DOMAIN tasks : WantsRoom(tasks[id]) => Rests(tasks[id])
<1>1. IsQueue(flow) /\ flow # <<>> /\ Head(flow) = InTurn(w) /\ FlowInv
  BY DEF CoreInv, Types, TaskTypes, HasTurn
<1>2. \A id \in DOMAIN tasks : WantsRoom(tasks[id]) => ~In(InTurn(id), flow)
  BY <1>1, BeforeHead DEF Behind
<1> QED
  BY <1>1, <1>2 DEF FlowInv

\* A step that is over does not move.
LEMMA ActsNotDone ==
  ASSUME NEW id, Acts(id)
  PROVE  tasks[id].place # "done"
BY Zenon DEF Acts, Step, Answer, ConnectTurn, ReconnectTurn, TurnTooLate, EnterTurn, LeaveTurn, TriesAgain,
       StartsAudio, Stops, Endable, Connects, ConnectFails, Lists, ListFails, Enters, EnterFails,
       Leaves, ClockIsRight

\* A step that moves wants no room it did not want, and does not come after another
\* for one.
LEMMA WantersStay ==
  ASSUME CoreInv, NEW id \in DOMAIN tasks, Acts(id), NEW j \in DOMAIN tasks, WantsRoom(tasks'[j])
  PROVE  WantsRoom(tasks[j]) /\ (j = id => flow' = flow \/ (flow' = Tail(flow) /\ HasTurn(InTurn(id))))
<1>0. Types /\ FlowInv /\ Placed(tasks[id]) /\ epoch + 1 \in Nat
  BY DEF CoreInv, PlaceInv, Types, TaskTypes
<1>1. WantsRoom(tasks[j])
  <2>1. \A e \in Nat : NewTask("connect", e).kind = "connect"
    BY NewTaskIs DEF Kinds
  <2> QED
    BY <1>0, <2>1, StepMoves DEF Moves, WantsRoom, Acts
<1>2. CASE j = id
  <2>1. tasks[id].place # "clock" /\ tasks'[id].kind # "connect"
    BY <1>0, <1>1, <1>2 DEF Placed, WantsRoom
  <2> QED
    BY <1>1, <2>1, MovesInFlow
<1> QED
  BY <1>1, <1>2

\* Whoever wanted a room before the step w stays before it.
LEMMA StaysBehind ==
  ASSUME CoreInv, FlowExact, NEW id \in DOMAIN tasks, Acts(id), NEW w \in DOMAIN tasks, Behind(w)
  PROVE  Behind(w)'
<1>0. Types /\ FlowInv /\ IsQueue(flow) /\ DOMAIN tasks' = DOMAIN tasks
  BY OthersStay DEF CoreInv, Types, TaskTypes
<1>1. ASSUME NEW j \in DOMAIN tasks', WantsRoom(tasks'[j])
      PROVE  Before(flow', InTurn(j), InTurn(w))
  <2>1. Before(flow, InTurn(j), InTurn(w))
    BY <1>0, <1>1, WantersStay DEF Behind
  <2>2. HasTurn(InTurn(id)) => /\ flow # <<>> /\ IsQueue(Tail(flow))
                               /\ Before(Tail(flow), InTurn(j), InTurn(w))
    BY <1>0, <2>1, BeforeTail, TailQueue DEF HasTurn
  <2>3. CASE j = id
    BY <1>0, <1>1, <2>1, <2>2, <2>3, WantersStay
  <2>4. CASE j # id
    <3>1. InTurn(id) # InTurn(j)
      BY <2>4, TurnsDiffer
    <3> QED
      BY <1>0, <2>1, <2>2, <3>1, MovesInFlow, BeforeAppend
  <2> QED
    BY <2>3, <2>4
<1> QED
  BY <1>1 DEF Behind

\* Out of the room with nobody to enter one, the app stays out.
LEMMA NoneEntersStays ==
  ASSUME CoreInv, NoneEnters, NEW id \in DOMAIN tasks, Acts(id)
  PROVE  NoneEnters'
<1>0. /\ Types /\ FlowInv /\ TaskTypes /\ IsRoster(roster)
      /\ Placed(tasks[id]) /\ Shown(tasks[id]) /\ DOMAIN tasks' = DOMAIN tasks
  BY OthersStay DEF CoreInv, Types, RosterTypes, PlaceInv, ScreenInv
<1>1. ~Enters(id)
  BY <1>0 DEF Enters, NoneEnters, Placed, Shown, WantsRoom, Rests
<1>2. room' = room \/ room' = FALSE
  BY <1>1, Zenon DEF Acts, Step, Answer, ConnectTurn, ReconnectTurn, TurnTooLate, EnterTurn, LeaveTurn,
                     TriesAgain, StartsAudio, Stops, Connects, ConnectFails, Lists, ListFails, EnterFails,
                     Leaves, ClockIsRight, AttemptFails, FailsUnlessEnded, Fails, inner
<1>3. ~WantsRoom(tasks[id])
  BY <1>0, ActsNotDone DEF NoneEnters, Placed, WantsRoom, Rests
<1>4. \A j \in DOMAIN tasks' : WantsRoom(tasks'[j]) => Rests(tasks'[j])
  <2>1. \A j \in DOMAIN tasks : WantsRoom(tasks'[j]) => WantsRoom(tasks[j])
    BY WantersStay
  <2> QED
    BY <1>0, <1>3, <2>1, OthersStay DEF NoneEnters
<1> QED
  BY <1>2, <1>4 DEF NoneEnters, WantsRoom, Rests

\* A step that was ended leaves the session's connection to whoever takes over.
LEMMA RestingStays ==
  ASSUME CoreInv, PumpInv, [Next]_vars, NEW id \in DOMAIN tasks, Acts(id), Resting,
         Reaches(tasks[id]) => Ended(tasks[id])
  PROVE  Resting'
<1>0. /\ Types /\ FlowInv /\ TaskTypes /\ ConnTypes /\ IsRoster(roster)
      /\ Placed(tasks[id]) /\ Holds(tasks[id])
  BY DEF CoreInv, Types, RosterTypes, PlaceInv, ConnInv
<1>1. CASE connection' \in {connection, NoConn} /\ UNCHANGED pumps
  BY <1>1 DEF Resting
<1>2. CASE Connects(id)
  <2>1. Ended(tasks[id])
    BY <1>0, <1>2 DEF Connects, Placed
  <2> QED
    BY <1>0, <1>1, <1>2, <2>1, ConnectsMoves
<1>3. CASE (Lists(id) \/ Enters(id)) /\ tasks[id].kind = "reconnect"
  <2>1. /\ tasks[id].place \in {"listing", "entering"} /\ connection' = tasks[id].conn
        /\ SpawnPump(tasks[id].conn, id)
    BY <1>3, Zenon DEF Lists, Enters
  <2>2. tasks[id].conn \in Conns /\ Ended(tasks[id])
    BY <1>0, <1>3, <2>1 DEF Holds, TaskTypes, IsTask, Reaches
  <2>3. id # 0
    BY <1>0, QueueShape DEF TaskTypes
  <2>4. pumps' = [pumps EXCEPT ![tasks[id].conn].at = "sleep", ![tasks[id].conn].after = id]
    BY <2>1, <2>2 DEF SpawnPump
  <2>5. pumps'[tasks[id].conn].at = "sleep" /\ pumps'[tasks[id].conn].after = id
    BY <1>0, <2>2, <2>4 DEF ConnTypes, IsPump
  <2> QED
    BY <2>1, <2>3, <2>5 DEF Resting
<1>4. CASE (Lists(id) \/ Enters(id)) /\ tasks[id].kind # "reconnect"
  <2>1. connection' = tasks[id].conn /\ UNCHANGED pumps /\ tasks[id].place \in {"listing", "entering"}
    BY <1>4, Zenon DEF Lists, Enters
  <2>2. Uses(tasks[id])
    BY <1>0, <1>4, <2>1 DEF Uses, Placed, Reaches, Lists, Enters
  <2> QED
    BY <1>0, <1>1, <2>1, <2>2 DEF Holds
<1>5. CASE Step(id)
  BY <1>1, <1>5, Zenon DEF Step, ConnectTurn, ReconnectTurn, TurnTooLate, EnterTurn, LeaveTurn,
                     TriesAgain, StartsAudio, Stops, DropConnection, inner
<1>6. CASE ClockIsRight(id) \/ ConnectFails(id) \/ ListFails(id) \/ EnterFails(id) \/ Leaves(id)
  BY <1>1, <1>6, Zenon DEF ClockIsRight, ConnectFails, ListFails, EnterFails, Leaves, AttemptFails,
                     FailsUnlessEnded, Fails, inner
<1> QED
  BY <1>2, <1>3, <1>4, <1>5, <1>6 DEF Acts, Answer

\* Leaving again with no connection, the app connects anew.
LEMMA LeavesAnew ==
  ASSUME CoreInv, FlowExact, NEW id \in DOMAIN tasks, LeaveTurn(id), connection = NoConn
  PROVE  IsToConnect(id)'
<1>0. /\ Types /\ FlowInv /\ TaskTypes /\ IsQueue(flow) /\ epoch + 1 \in Nat /\ Acts(id)
      /\ DOMAIN tasks' = DOMAIN tasks
  BY OthersStay DEF CoreInv, Types, TaskTypes, Acts, Step
<1>1. /\ epoch' = epoch + 1 /\ tasks'[id] = NewTask("connect", epoch')
      /\ flow' = Append(Tail(flow), InTurn(id))
  BY <1>0, LeaveTurnMoves
<1>2. connection' = NoConn /\ HasTurn(InTurn(id))
  BY DEF LeaveTurn
<1>3. tasks'[id].kind = "connect" /\ tasks'[id].place = "turn" /\ tasks'[id].epoch = epoch'
  BY <1>0, <1>1, NewTaskIs DEF Kinds
<1>4. IsQueue(Tail(flow)) /\ ~In(InTurn(id), Tail(flow))
  <2>1. flow # <<>> /\ Head(flow) = InTurn(id)
    BY <1>2 DEF HasTurn
  <2> QED
    BY <1>0, <2>1, OnceTail, TailQueue DEF FlowExact
<1>5. ASSUME NEW j \in DOMAIN tasks', WantsRoom(tasks'[j])
      PROVE  Before(flow', InTurn(j), InTurn(id))
  <2>1. InTurn(j) # InTurn(id)
    BY <1>3, <1>5, TurnsDiffer DEF WantsRoom
  <2> QED
    BY <1>1, <1>4, <2>1, BeforeLast
<1>6. Behind(id)'
  BY <1>5 DEF Behind
<1> QED
  BY <1>2, <1>3, <1>6 DEF IsToConnect, Superseding, Reaches, Ended, Resting

\* A step's move keeps the app on its way out.
LEMMA MovedLeft ==
  ASSUME CoreInv, PumpInv, FlowExact, EpochInv, LeftInv, [Next]_vars, NEW id \in DOMAIN tasks, Acts(id),
         wish = "left"
  PROVE  NoneEnters' \/ \E w \in DOMAIN tasks' : IsToLeave(w)' \/ IsToConnect(w)'
<1>0. /\ Types /\ FlowInv /\ TaskTypes /\ DOMAIN tasks' = DOMAIN tasks
      /\ Placed(tasks[id]) /\ epoch \in Nat
  BY OthersStay DEF CoreInv, Types, PlaceInv, TaskTypes
<1>1. CASE NoneEnters
  BY <1>1, NoneEntersStays
\* Out of the room, with the last who wants one before the step that is at it.
<1>2. ASSUME HasTurn(InTurn(id)), Behind(id), room' = FALSE, tasks[id].kind \in {"leave", "connect"}
      PROVE  NoneEnters'
  <2>1. \A j \in DOMAIN tasks : WantsRoom(tasks[j]) => Rests(tasks[j])
    BY <1>2, WantersRest
  <2>2. \A j \in DOMAIN tasks : WantsRoom(tasks'[j]) => WantsRoom(tasks[j])
    BY WantersStay
  <2>3. ~WantsRoom(tasks'[id])
    BY <1>2, <2>2 DEF WantsRoom
  <2> QED
    BY <1>0, <1>2, <2>1, <2>2, <2>3, OthersStay DEF NoneEnters, WantsRoom, Rests
<1>3. CASE LeaveTurn(id) /\ connection = NoConn
  BY <1>0, <1>3, LeavesAnew
<1>4. ASSUME NEW w \in DOMAIN tasks, IsToLeave(w), ~(LeaveTurn(id) /\ connection = NoConn)
      PROVE  NoneEnters' \/ IsToLeave(w)'
  <2>1. Behind(w)'
    BY <1>4, StaysBehind DEF IsToLeave
  <2>2. CASE w # id
    <3>1. tasks'[w] = tasks[w]
      BY <1>0, <2>2, OthersStay
    <3> QED
      BY <1>4, <2>1, <3>1 DEF IsToLeave
  <2>3. CASE w = id /\ Leaves(id)
    <3>1. HasTurn(InTurn(id))
      BY <1>0, <2>3 DEF Leaves, FlowInv, AtWork
    <3>2. room' = FALSE /\ tasks[id].kind = "leave" /\ Behind(id)
      BY <1>4, <2>3 DEF Leaves, IsToLeave
    <3> QED
      BY <1>2, <3>1, <3>2
  <2>4. CASE w = id /\ LeaveTurn(id)
    <3>1. HasTurn(InTurn(id)) /\ tasks[id].kind = "leave" /\ Behind(id) /\ room' = room
      BY <1>4, <2>4 DEF LeaveTurn, IsToLeave
    <3>2. CASE ~room
      <4>1. room' = FALSE
        BY <1>0, <3>1, <3>2 DEF TaskTypes
      <4> QED
        BY <1>2, <3>1, <4>1
    <3>3. CASE room
      <4>1. GoesTo(id, "leaving", connection, tasks[id].rejoin)
        BY <1>0, <1>4, <2>4, <3>3, LeaveTurnMoves
      <4>2. tasks'[id].kind = "leave" /\ tasks'[id].place = "leaving"
        BY <3>1, <4>1 DEF GoesTo, Moves
      <4> QED
        BY <2>1, <2>4, <4>2 DEF IsToLeave
    <3> QED
      BY <3>2, <3>3
  <2>5. w = id => Leaves(id) \/ LeaveTurn(id)
    <3>1. ASSUME tasks[id].kind = "leave", tasks[id].place \in {"turn", "leaving"}
          PROVE  Leaves(id) \/ LeaveTurn(id)
      BY <3>1 DEF Acts, Step, Answer, ConnectTurn, ReconnectTurn, TurnTooLate, EnterTurn, TriesAgain,
         StartsAudio, Stops, Endable, Connects, ConnectFails, Lists, ListFails, Enters, EnterFails,
         ClockIsRight
    <3> QED
      BY <1>4, <3>1 DEF IsToLeave
  <2> QED
    BY <2>2, <2>3, <2>4, <2>5
<1>5. ASSUME NEW w \in DOMAIN tasks, IsToConnect(w), ~(LeaveTurn(id) /\ connection = NoConn)
      PROVE  NoneEnters' \/ IsToConnect(w)'
  <2>0. tasks[w].kind = "connect" /\ tasks[w].place = "turn" /\ ~Ended(tasks[w]) /\ Behind(w) /\ Resting
    BY <1>5 DEF IsToConnect, Superseding
  <2>1. epoch' = epoch
    BY <1>0, <1>5, StepMoves DEF Acts
  <2>2. CASE w = id
    <3>1. ConnectTurn(id)
      BY <2>0, <2>2 DEF Acts, Step, Answer, ReconnectTurn, TurnTooLate, EnterTurn, LeaveTurn, TriesAgain,
         StartsAudio, Stops, Endable, Connects, ConnectFails, Lists, ListFails, Enters, EnterFails,
         Leaves, ClockIsRight
    <3>2. HasTurn(InTurn(id)) /\ room' = FALSE
      BY <3>1 DEF ConnectTurn
    <3> QED
      BY <1>2, <2>0, <2>2, <3>2, Zenon
  <2>3. CASE w # id
    <3>1. tasks'[w] = tasks[w]
      BY <1>0, <2>3, OthersStay
    <3>2. Reaches(tasks[id]) => Ended(tasks[id])
      <4>1. tasks[w].epoch = epoch
        BY <2>0 DEF Ended
      <4> QED
        BY <2>3, <4>1 DEF EpochInv, Ended
    <3>3. Resting' /\ Behind(w)'
      BY <2>0, <3>2, RestingStays, StaysBehind
    <3>4. Superseding(tasks[w])'
      BY <1>5, <2>1, <3>1 DEF IsToConnect, Superseding, Reaches, Ended
    <3> QED
      BY <2>0, <3>1, <3>3, <3>4 DEF IsToConnect
  <2> QED
    BY <2>2, <2>3
<1> QED
  BY <1>0, <1>1, <1>3, <1>4, <1>5 DEF LeftInv

\* So does a pump's.
LEMMA PumpLeft ==
  ASSUME CoreInv, PumpInv, FlowExact, EpochInv, LeftInv, [Next]_vars, wish = "left",
         NEW c \in Conns, Pump(c)
  PROVE  NoneEnters' \/ \E w \in DOMAIN tasks' : IsToLeave(w)' \/ IsToConnect(w)'
<1>0. /\ Types /\ FlowInv /\ TaskTypes /\ IsQueue(flow) /\ epoch + 1 \in Nat
  BY DEF CoreInv, Types, TaskTypes
<1>1. UNCHANGED <<connection, room>>
  BY Zenon DEF Pump, PumpEnds, PumpPolls, EventTurn, LinkTurn, inner
<1>2. PICK queue :
         /\ \/ queue = flow /\ ~PumpWaits(c)
            \/ HasTurn(InPump(c)) /\ queue = Tail(flow) /\ PumpWaits(c)
         /\ \/ UNCHANGED <<epoch, tasks>> /\ flow' = queue /\ ~PumpWaits(c)'
            \/ UNCHANGED <<epoch, tasks>> /\ flow' = Append(queue, InPump(c)) /\ PumpWaits(c)'
            \/ /\ connection = c /\ epoch' = epoch + 1
               /\ AsksBehind(queue, "reconnect", epoch') /\ ~PumpWaits(c)'
         /\ \A d \in Conns : d # c => pumps'[d] = pumps[d]
  BY PumpInFlow
<1>3. IsQueue(queue) /\ \A x, y : Before(flow, x, y) => Before(queue, x, y)
  <2>1. CASE HasTurn(InPump(c)) /\ queue = Tail(flow)
    BY <1>0, <2>1, BeforeTail, TailQueue DEF HasTurn
  <2> QED
    BY <1>0, <1>2, <2>1
\* The steps are as before, but that one is asked for to get the connection back.
<1>4. /\ \A j \in DOMAIN tasks : j \in DOMAIN tasks' /\ tasks'[j] = tasks[j]
      /\ \A j \in DOMAIN tasks' : WantsRoom(tasks'[j]) => j \in DOMAIN tasks
      /\ \A j \in DOMAIN tasks : \A y : Before(flow, InTurn(j), y) => Before(flow', InTurn(j), y)
  <2>1. CASE UNCHANGED tasks /\ (flow' = queue \/ flow' = Append(queue, InPump(c)))
    <3>1. \A j \in DOMAIN tasks : \A y : Before(queue, InTurn(j), y) => Before(flow', InTurn(j), y)
      <4>1. \A j : InPump(c) # InTurn(j)
        BY TurnsDiffer
      <4> QED
        BY <1>3, <2>1, <4>1, BeforeAppend
    <3> QED
      BY <1>3, <2>1, <3>1
  <2>2. CASE AsksBehind(queue, "reconnect", epoch') /\ epoch' = epoch + 1
    <3>1. /\ DOMAIN tasks = 1 .. Len(tasks) /\ Len(tasks) \in Nat
          /\ DOMAIN tasks' = 1 .. (Len(tasks) + 1)
          /\ \A j \in DOMAIN tasks : tasks'[j] = tasks[j]
          /\ tasks'[Len(tasks) + 1] = NewTask("reconnect", epoch')
          /\ flow' = Append(queue, InTurn(Len(tasks) + 1))
      BY <1>0, <2>2, QueueShape, AppendQueue DEF TaskTypes, AsksBehind
    <3>2. ~WantsRoom(NewTask("reconnect", epoch'))
      BY <1>0, <2>2, NewTaskIs DEF WantsRoom, Kinds
    <3>3. \A j \in DOMAIN tasks : InTurn(j) # InTurn(Len(tasks) + 1)
      <4>1. \A j \in DOMAIN tasks : j # Len(tasks) + 1
        BY <3>1
      <4> QED
        BY <4>1, TurnsDiffer
    <3>4. \A j \in DOMAIN tasks : \A y : Before(flow, InTurn(j), y) => Before(flow', InTurn(j), y)
      BY <1>3, <3>1, <3>3, BeforeAppend
    <3> QED
      BY <3>1, <3>2, <3>4
  <2> QED
    BY <1>2, <2>1, <2>2
<1>5. CASE NoneEnters
  BY <1>1, <1>4, <1>5 DEF NoneEnters, WantsRoom, Rests
<1>6. ASSUME NEW w \in DOMAIN tasks, Behind(w)
      PROVE  Behind(w)'
  <2>1. \A j \in DOMAIN tasks' : WantsRoom(tasks'[j]) => Before(flow', InTurn(j), InTurn(w))
    BY <1>4, <1>6 DEF Behind
  <2> QED
    BY <2>1 DEF Behind
<1>7. ASSUME NEW w \in DOMAIN tasks, IsToLeave(w)
      PROVE  IsToLeave(w)' /\ w \in DOMAIN tasks'
  BY <1>4, <1>6, <1>7 DEF IsToLeave
<1>8. ASSUME NEW w \in DOMAIN tasks, IsToConnect(w), \A v \in DOMAIN tasks : ~IsToLeave(v)
      PROVE  IsToConnect(w)' /\ w \in DOMAIN tasks'
  <2>0. /\ tasks[w].kind = "connect" /\ tasks[w].place = "turn" /\ ~Ended(tasks[w]) /\ Behind(w)
        /\ Superseding(tasks[w])
        /\ connection = NoConn \/ (pumps[connection].at = "sleep" /\ pumps[connection].after # 0)
    BY <1>8 DEF IsToConnect, Superseding, Resting
  <2>1. connection # c
    <3>1. SUFFICES ASSUME connection = c PROVE FALSE
      OBVIOUS
    <3>2. pumps[c].at = "sleep" /\ pumps[c].after # 0
      BY <2>0, <3>1, NoConnIs
    <3>3. PumpPolls(c)
      BY <3>1, <3>2 DEF Pump, PumpEnds, EventTurn, LinkTurn
    <3>4. \A id \in DOMAIN tasks : tasks[id].place # "leaving"
      BY <3>3 DEF PumpPolls, HoldsRegistry
    <3> QED
      BY <2>0, <3>2, <3>3, <3>4 DEF PumpPolls, Rested
  <2>2. epoch' = epoch
    BY <1>2, <2>1
  <2>3. Resting'
    <3>1. connection # NoConn => pumps'[connection] = pumps[connection]
      BY <1>0, <1>2, <2>1 DEF TaskTypes
    <3> QED
      BY <1>1, <2>0, <3>1 DEF Resting
  <2>4. Superseding(tasks[w])'
    BY <1>4, <2>0, <2>2 DEF Superseding, Reaches, Ended
  <2> QED
    BY <1>4, <1>6, <2>0, <2>3, <2>4 DEF IsToConnect
<1> QED
  BY <1>5, <1>7, <1>8 DEF LeftInv

\* Leaving asks for a step that comes after all who want a room.
LEMMA CommandLeft ==
  ASSUME CoreInv, FlowExact, Command, wish' = "left"
  PROVE  \E w \in DOMAIN tasks' : IsToLeave(w)' \/ IsToConnect(w)'
<1>0. /\ TaskTypes /\ IsQueue(flow) /\ epoch + 1 \in Nat /\ (reconnect # "idle" => connection = NoConn)
  BY DEF CoreInv, Types, TaskTypes, ScreenInv
<1>1. SessionLeave
  BY DEF Command, SessionConnect, SessionEnter, SessionReconnect
<1>2. UNCHANGED <<connection, pumps>>
  BY <1>1 DEF SessionLeave
<1>3. PICK kind \in {"connect", "leave"}, e \in Nat :
         /\ AsksBehind(flow, kind, e)
         /\ kind = "connect" => connection = NoConn /\ e = epoch'
  BY <1>0, <1>1 DEF SessionLeave, Asks
<1>4. PICK w : /\ w \in DOMAIN tasks' /\ w \notin DOMAIN tasks
               /\ tasks'[w] = NewTask(kind, e) /\ flow' = Append(flow, InTurn(w))
  BY <1>0, <1>3, QueueShape, AppendQueue DEF TaskTypes, AsksBehind
<1>5. tasks'[w].kind = kind /\ tasks'[w].place = "turn" /\ tasks'[w].epoch = e
  BY <1>3, <1>4, NewTaskIs DEF Kinds
<1>7. ~In(InTurn(w), flow)
  BY <1>4, TurnsDiffer DEF FlowExact, Waiting, TaskWaits
<1>8. ASSUME NEW j \in DOMAIN tasks', WantsRoom(tasks'[j])
      PROVE  Before(flow', InTurn(j), InTurn(w))
  <2>1. InTurn(j) # InTurn(w)
    BY <1>3, <1>5, <1>8, TurnsDiffer DEF WantsRoom
  <2> QED
    BY <1>0, <1>4, <1>7, <2>1, BeforeLast
<1>9. Behind(w)'
  BY <1>8 DEF Behind
<1> QED
  BY <1>2, <1>3, <1>4, <1>5, <1>9 DEF IsToLeave, IsToConnect, Superseding, Reaches, Ended, Resting

\* Every step of the specification keeps the app on its way out.
LEMMA LeftStep ==
  ASSUME CoreInv, PumpInv, FlowExact, EpochInv, LeftInv, [Next]_vars
  PROVE  LeftInv'
<1> SUFFICES ASSUME wish' = "left"
             PROVE  NoneEnters' \/ \E w \in DOMAIN tasks' : IsToLeave(w)' \/ IsToConnect(w)'
  BY DEF LeftInv
<1>1. CASE Command
  BY <1>1, CommandLeft
<1>2. ASSUME ~Command PROVE wish' = wish
  <2>1. ASSUME NEW id, Acts(id) PROVE wish' = wish
    BY <2>1, Zenon DEF Acts, Step, Answer, ConnectTurn, ReconnectTurn, TurnTooLate, EnterTurn, LeaveTurn,
       TriesAgain, StartsAudio, Stops, Connects, ConnectFails, Lists, ListFails, Enters, EnterFails, Leaves,
       ClockIsRight
  <2>2. ASSUME NEW c, Pump(c) PROVE wish' = wish
    BY <2>2, Zenon DEF Pump, PumpEnds, PumpPolls, EventTurn, LinkTurn
  <2>3. ASSUME NEW c, Lose(c) \/ RoomChanges(c) \/ LinkChanges PROVE wish' = wish
    BY <2>3, Zenon DEF Lose, RoomChanges, LinkChanges, HappensNow
  <2> QED
    BY <1>2, <2>1, <2>2, <2>3 DEF Next, vars, Acts
<1>3. CASE ~Command /\ Moved
  <2>1. PICK id \in DOMAIN tasks : Acts(id)
    BY <1>3 DEF Moved, Acts
  <2> QED
    BY <1>2, <1>3, <2>1, MovedLeft
<1>4. CASE ~Command /\ \E c \in Conns : Pump(c)
  BY <1>2, <1>4, PumpLeft
<1>5. CASE ~Command /\ UNCHANGED <<inner, flow, tasks, pumps>>
  BY <1>2, <1>5 DEF LeftInv, NoneEnters, WantsRoom, Rests, IsToLeave, IsToConnect, Superseding, Reaches, Ended,
                    Resting, Behind, inner
<1>6. CASE ~Command /\ (LinkChanges \/ UNCHANGED vars \/ \E c \in Conns : Lose(c) \/ RoomChanges(c))
  <2>1. UNCHANGED <<inner, flow, tasks, pumps>>
    BY <1>6, Zenon DEF LinkChanges, vars, Lose, RoomChanges
  <2> QED
    BY <1>5, <1>6, <2>1
<1> QED
  BY <1>1, <1>3, <1>4, <1>6 DEF Next, Moved


(***************************************************************************)
(* The list of peers catches up with the room: what was sent and is not    *)
(* handled yet leads from the one to the other.                            *)
(***************************************************************************)
RoomEvents == [what : {"joined", "updated", "left"}, peer : PeerInfos]
Gone == [what |-> "lost"]
News == RoomEvents \cup {Gone}

\* Who is in the room after the event e, with `all` in it before.
Hears(all, e) ==
    CASE e.what = "joined" -> all \cup {e.peer}
      [] e.what = "updated" -> {p \in all : p.id # e.peer.id} \cup {e.peer}
      [] e.what = "left" -> {p \in all : p.id # e.peer.id}
      [] OTHER -> all
\* Someone joins who is not there, and changes who is.
Likely(all, e) ==
    /\ e.what = "joined" => \A p \in all : p.id # e.peer.id
    /\ e.what = "updated" => \E p \in all : p.id = e.peer.id

\* The events es, one after the other, lead from `all` to `after`.
Path(f, all, es, after) ==
    /\ f[0] = all /\ f[Len(es)] = after
    /\ \A i \in 1 .. Len(es) : Likely(f[i - 1], es[i]) /\ f[i] = Hears(f[i - 1], es[i])
LeadsTo(all, es, after) == \E f : Path(f, all, es, after)

\* No events lead nowhere else.
LEMMA NoEvents ==
  /\ \A all : LeadsTo(all, <<>>, all)
  /\ \A all, after : LeadsTo(all, <<>>, after) => all = after
<1>1. ASSUME NEW all PROVE LeadsTo(all, <<>>, all)
  <2>1. Path([i \in {0} |-> all], all, <<>>, all)
    BY DEF Path
  <2> QED
    BY <2>1, Zenon DEF LeadsTo
<1>2. ASSUME NEW all, NEW after, LeadsTo(all, <<>>, after) PROVE all = after
  <2>1. PICK f : Path(f, all, <<>>, after)
    BY <1>2, Zenon DEF LeadsTo
  <2> QED
    BY <2>1 DEF Path
<1> QED
  BY <1>1, <1>2

\* One event more leads one step further.
LEMMA EventBehind ==
  ASSUME NEW S, NEW es \in Seq(S), NEW e \in S, NEW all, NEW after, LeadsTo(all, es, after),
         Likely(after, e)
  PROVE  LeadsTo(all, Append(es, e), Hears(after, e))
<1>1. PICK f : Path(f, all, es, after)
  BY Zenon DEF LeadsTo
<1> DEFINE n == Len(es)
           further == Hears(after, e)
           g == [i \in 0 .. (n + 1) |-> IF i <= n THEN f[i] ELSE further]
           more == Append(es, e)
<1>2. /\ n \in Nat /\ Len(more) = n + 1
      /\ \A i \in 1 .. n : more[i] = es[i] /\ more[n + 1] = e
  BY AppendProperties
<1>3. g[0] = all /\ g[n + 1] = further /\ \A i \in 0 .. n : g[i] = f[i]
  BY <1>1, <1>2 DEF Path
<1>4. f[n] = after /\ \A i \in 1 .. n : Likely(f[i - 1], es[i]) /\ f[i] = Hears(f[i - 1], es[i])
  BY <1>1 DEF Path
<1> HIDE DEF g, more, further
<1>5. ASSUME NEW i \in 1 .. (n + 1)
      PROVE  Likely(g[i - 1], more[i]) /\ g[i] = Hears(g[i - 1], more[i])
  <2>1. CASE i = n + 1
    <3>1. i - 1 = n /\ more[i] = e /\ g[i - 1] = after /\ g[i] = further
      BY <1>2, <1>3, <1>4, <2>1, AppendProperties DEF more
    <3> QED
      BY <3>1 DEF further
  <2>2. CASE i # n + 1
    <3>1. i \in 1 .. n /\ i - 1 \in 0 .. n
      BY <1>2, <2>2
    <3> QED
      BY <1>2, <1>3, <1>4, <3>1
  <2> QED
    BY <2>1, <2>2
<1>6. Path(g, all, more, further)
  BY <1>2, <1>3, <1>5 DEF Path
<1> QED
  BY <1>6, Zenon DEF LeadsTo, more, further

\* The first event leads one step, and the others the rest of the way.
LEMMA EventFirst ==
  ASSUME NEW S, NEW es \in Seq(S), es # <<>>, NEW all, NEW after, LeadsTo(all, es, after)
  PROVE  Likely(all, Head(es)) /\ LeadsTo(Hears(all, Head(es)), Tail(es), after)
<1>1. PICK f : Path(f, all, es, after)
  BY Zenon DEF LeadsTo
<1> DEFINE n == Len(es)
           rest == Tail(es)
           g == [i \in 0 .. (n - 1) |-> f[i + 1]]
<1>2. /\ n \in Nat \ {0} /\ Head(es) = es[1]
      /\ Len(rest) = n - 1 /\ \A i \in 1 .. (n - 1) : rest[i] = es[i + 1]
  BY EmptySeq, HeadTailProperties
<1>3. f[0] = all /\ f[n] = after
      /\ \A i \in 1 .. n : Likely(f[i - 1], es[i]) /\ f[i] = Hears(f[i - 1], es[i])
  BY <1>1 DEF Path
<1>4. g[0] = f[1] /\ g[n - 1] = f[n] /\ \A i \in 0 .. (n - 1) : g[i] = f[i + 1]
  BY <1>2
<1>5. Likely(all, Head(es)) /\ f[1] = Hears(all, Head(es))
  <2>1. 1 \in 1 .. n /\ 1 - 1 = 0
    BY <1>2
  <2> QED
    BY <1>2, <1>3, <2>1
<1> HIDE DEF g, rest
<1>6. ASSUME NEW i \in 1 .. (n - 1)
      PROVE  Likely(g[i - 1], rest[i]) /\ g[i] = Hears(g[i - 1], rest[i])
  <2>1. /\ i + 1 \in 1 .. n /\ (i + 1) - 1 = i /\ i - 1 \in 0 .. (n - 1) /\ (i - 1) + 1 = i
        /\ i \in 0 .. (n - 1)
    BY <1>2
  <2>2. Likely(f[i], es[i + 1]) /\ f[i + 1] = Hears(f[i], es[i + 1])
    BY <1>3, <2>1
  <2> QED
    BY <1>2, <1>4, <2>1, <2>2
<1>7. Path(g, Hears(all, Head(es)), rest, after)
  BY <1>2, <1>3, <1>4, <1>5, <1>6 DEF Path
<1> QED
  BY <1>5, <1>7, Zenon DEF LeadsTo, rest

\* That the connection is lost tells nothing of the room.
LEMMA GoneIsNoEvent == Gone \notin RoomEvents /\ \A all : Likely(all, Gone) /\ Hears(all, Gone) = all
BY DEF Gone, RoomEvents, Likely, Hears

\* What is read and not handled, and what is not read yet.  That the connection is lost
\* comes last.
InOrder(batch, box, dead) ==
    /\ batch \in Seq(News) /\ box \in Seq(RoomEvents)
    /\ \A i \in DOMAIN batch : batch[i] = Gone => i = Len(batch) /\ box = <<>> /\ dead

\* Without its first event what was read is still in order.
LEMMA InOrderTail ==
  ASSUME NEW batch, NEW box, NEW dead, InOrder(batch, box, dead), batch # <<>>
  PROVE  InOrder(Tail(batch), box, dead)
<1>1. batch \in Seq(News)
  BY DEF InOrder
<1>2. /\ Tail(batch) \in Seq(News) /\ Len(Tail(batch)) = Len(batch) - 1 /\ Len(batch) \in Nat
      /\ \A i \in 1 .. Len(Tail(batch)) : Tail(batch)[i] = batch[i + 1]
  BY <1>1, HeadTailProperties
<1>3. DOMAIN Tail(batch) = 1 .. (Len(batch) - 1) /\ DOMAIN batch = 1 .. Len(batch)
  BY <1>1, <1>2
<1>4. ASSUME NEW i \in DOMAIN Tail(batch), Tail(batch)[i] = Gone
      PROVE  i = Len(Tail(batch)) /\ box = <<>> /\ dead
  <2>1. i + 1 \in DOMAIN batch /\ batch[i + 1] = Gone /\ i \in Nat
    BY <1>2, <1>3, <1>4
  <2>2. i + 1 = Len(batch) /\ box = <<>> /\ dead
    BY <2>1, Zenon DEF InOrder
  <2>3. i = Len(Tail(batch))
    <3>1. i + 1 = Len(batch) /\ i \in Nat
      BY <2>1, <2>2
    <3>2. Len(Tail(batch)) = Len(batch) - 1 /\ Len(batch) \in Nat
      BY <1>2
    <3> HIDE <1>2
    <3> QED
      BY <3>1, <3>2
  <2> QED
    BY <2>2, <2>3, Zenon
<1>5. box \in Seq(RoomEvents)
  BY DEF InOrder
<1> HIDE DEF News, RoomEvents, Gone
<1> QED
  BY <1>2, <1>4, <1>5, Zenon DEF InOrder

\* The pump of c goes on with what is in order: with the first event, or with nothing,
\* and then nothing of the room is left to be told.
LEMMA GoesOnInOrder ==
  ASSUME ConnTypes, NEW c \in Conns, NEW batch, NEW queue, GoesOn(c, batch, queue),
         NEW box, NEW dead, InOrder(batch, box, dead)
  PROVE  /\ DOMAIN pumps' = Conns /\ \A d \in Conns : d # c => pumps'[d] = pumps[d]
         /\ \/ /\ pumps'[c].at = "event" /\ pumps'[c].batch = batch
               /\ batch # <<>> /\ Head(batch) \in RoomEvents
            \/ /\ pumps'[c].at # "event" /\ pumps'[c].batch = <<>>
               /\ batch = <<>> \/ (batch = <<Gone>> /\ box = <<>>)
<1>1. DOMAIN pumps = Conns /\ IsPump(pumps[c])
  BY DEF ConnTypes
<1>2. CASE batch = <<>>
  <2>1. \/ pumps' = [pumps EXCEPT ![c].at = "sleep", ![c].batch = <<>>, ![c].after = 0]
        \/ pumps' = [pumps EXCEPT ![c].at = "link", ![c].batch = <<>>, ![c].link = audio.link]
    BY <1>2, Zenon DEF GoesOn, LooksAtLink
  <2>2. /\ DOMAIN pumps' = Conns /\ \A d \in Conns : d # c => pumps'[d] = pumps[d]
        /\ pumps'[c].at # "event" /\ pumps'[c].batch = <<>>
    BY <1>1, <2>1 DEF IsPump
  <2> QED
    BY <1>2, <2>2
<1>3. CASE batch # <<>>
  <2>1. /\ Head(batch) \in News /\ Head(batch) = batch[1] /\ 1 \in DOMAIN batch
        /\ Len(batch) \in Nat
    BY <1>3 DEF InOrder
  <2>2. Head(batch) \in RoomEvents <=> Head(batch).what # "lost"
    BY <2>1 DEF News, RoomEvents, Gone
  <2>3. CASE Head(batch).what = "lost"
    <3>1. batch[1] = Gone
      BY <2>1, <2>2, <2>3 DEF News
    <3>2. Len(batch) = 1 /\ box = <<>>
      BY <2>1, <3>1 DEF InOrder
    <3>3. batch = <<Gone>>
      <4>1. batch \in Seq(News) /\ <<Gone>> \in Seq(News) /\ Len(<<Gone>>) = 1 /\ <<Gone>>[1] = Gone
        BY DEF InOrder, News
      <4> QED
        BY <3>1, <3>2, <4>1, SeqEqual
    <3>4. pumps' = [pumps EXCEPT ![c].at = "none", ![c].batch = <<>>]
      BY <1>3, <2>3, Zenon DEF GoesOn, GetsConnectionBack
    <3>5. /\ DOMAIN pumps' = Conns /\ \A d \in Conns : d # c => pumps'[d] = pumps[d]
          /\ pumps'[c].at # "event" /\ pumps'[c].batch = <<>>
      BY <1>1, <3>4 DEF IsPump
    <3> QED
      BY <3>2, <3>3, <3>5
  <2>4. CASE Head(batch).what # "lost"
    <3>1. pumps' = [pumps EXCEPT ![c].at = "event", ![c].batch = batch]
      BY <1>3, <2>4, Zenon DEF GoesOn
    <3>2. /\ DOMAIN pumps' = Conns /\ \A d \in Conns : d # c => pumps'[d] = pumps[d]
          /\ pumps'[c].at = "event" /\ pumps'[c].batch = batch
      BY <1>1, <3>1 DEF IsPump
    <3> QED
      BY <1>3, <2>2, <2>4, <3>2
  <2> QED
    BY <2>3, <2>4
<1> QED
  BY <1>2, <1>3

\* With nothing more to tell, or only that the connection is lost, the list has caught
\* up.
LEMMA ToldAll ==
  ASSUME NEW batch, NEW box, box \in Seq(RoomEvents), NEW all, NEW after,
         batch = <<>> \/ (batch = <<Gone>> /\ box = <<>>), LeadsTo(all, batch \o box, after)
  PROVE  LeadsTo(all, <<>> \o box, after)
<1>1. CASE batch = <<>>
  BY <1>1
<1>2. CASE batch = <<Gone>> /\ box = <<>>
  <2>1. <<Gone>> \in Seq({Gone}) /\ <<Gone>> # <<>> /\ Head(<<Gone>>) = Gone /\ Tail(<<Gone>>) = <<>>
    OBVIOUS
  <2>2. batch \o box = <<Gone>> /\ <<>> \o box = <<>>
    BY <1>2, <2>1, ConcatEmptySeq
  <2> DEFINE es == <<Gone>>
  <2> HIDE DEF es
  <2>3. LeadsTo(Hears(all, Gone), <<>>, after)
    BY <2>1, <2>2, EventFirst DEF es
  <2> QED
    BY <2>2, <2>3, GoneIsNoEvent
<1> QED
  BY <1>1, <1>2

-----------------------------------------------------------------------------
\* The connection c is there no more.
Dead(c) == conns[c] \in {"lost", "closed"}

\* What has been sent on the connection c is in order, and is nothing while nobody is in
\* a room by it.
Sent(c) ==
    /\ InOrder(pumps[c].batch, inbox[c], Dead(c))
    /\ IF pumps[c].at = "event"
       THEN pumps[c].batch # <<>> /\ Head(pumps[c].batch) \in RoomEvents
       ELSE pumps[c].batch = <<>>
    /\ conns[c] = "none" \/ (\E id \in DOMAIN tasks : Regained(tasks[id], c)) => inbox[c] = <<>>
InboxInv == DOMAIN inbox = Conns /\ \A c \in Conns : Sent(c)

\* A pump that is started has read nothing.
LEMMA SpawnedReads ==
  ASSUME ConnTypes, NEW c \in Conns, NEW id, SpawnPump(c, id)
  PROVE  \A d \in Conns : pumps'[d].batch = pumps[d].batch
<1>1. ASSUME NEW after, pumps' = [pumps EXCEPT ![c].at = "sleep", ![c].after = after]
      PROVE  pumps'[c].batch = pumps[c].batch
  BY <1>1 DEF ConnTypes, IsPump
<1> QED
  BY <1>1, SpawnedIs DEF SpawnPump

\* A connection that is there no more does not come back.
LEMMA DeadStays ==
  ASSUME Types, [Next]_vars, NEW c \in Conns, Dead(c)
  PROVE  Dead(c)'
<1>0. /\ TaskTypes /\ ConnTypes /\ connection \in Conns \cup {NoConn}
      /\ \A id \in DOMAIN tasks : tasks[id].conn \in Conns \cup {NoConn}
  BY DEF Types, TaskTypes, IsTask
<1>1. CASE \E id \in DOMAIN tasks : Step(id)
  <2>1. PICK id \in DOMAIN tasks : Step(id)
    BY <1>1
  <2>2. conns' = conns \/ conns' = Disconnected(connection) \/ conns' = Disconnected(tasks[id].conn)
    BY <2>1, Zenon DEF Step, ConnectTurn, ReconnectTurn, TurnTooLate, EnterTurn, LeaveTurn,
                       TriesAgain, StartsAudio, Stops, DropConnection, Dropped, registry
  <2> QED
    BY <1>0, <2>1, <2>2, DisconnectedIs DEF Dead
<1>2. CASE \E id \in DOMAIN tasks : Answer(id) \/ ClockIsRight(id)
  <2>1. PICK id \in DOMAIN tasks : Answer(id) \/ ClockIsRight(id)
    BY <1>2
  <2>2. CASE Connects(id)
    <3>1. PICK d \in Conns : /\ conns[d] = "none"
                             /\ \/ conns' = [conns EXCEPT ![d] = "closed"]
                                \/ conns' = [conns EXCEPT ![d] = "open"]
      BY <1>0, <2>1, <2>2, ConnectsMoves
    <3> QED
      BY <1>0, <3>1 DEF ConnTypes, Dead
  <2>3. CASE ~Connects(id)
    <3>1. conns' = conns \/ conns' = Disconnected(tasks[id].conn)
      BY <2>1, <2>3, Zenon DEF Answer, ConnectFails, Lists, ListFails, Enters, EnterFails, Leaves,
                               ClockIsRight, registry
    <3> QED
      BY <1>0, <2>1, <3>1, DisconnectedIs DEF Dead
  <2> QED
    BY <2>2, <2>3
<1>3. CASE UNCHANGED conns
  BY <1>3 DEF Dead
<1>4. CASE \E d \in Conns : Lose(d)
  BY <1>0, <1>4 DEF Lose, ConnTypes, Dead
<1>5. CASE Command
  BY <1>0, <1>3, <1>5, CommandJoins DEF registry
<1> QED
  BY <1>1, <1>2, <1>3, <1>4, <1>5, Zenon
     DEF Next, vars, RoomChanges, LinkChanges, registry, Pump, PumpEnds, PumpPolls, EventTurn, LinkTurn

\* It stays in order when what is not read yet goes, or the connection.
LEMMA InOrderMore ==
  ASSUME NEW batch, NEW box, NEW dead, InOrder(batch, box, dead),
         NEW more, more = box \/ more = <<>>, NEW later, dead => later
  PROVE  InOrder(batch, more, later) /\ InOrder(<<>>, more, later)
<1>1. <<>> \in Seq(RoomEvents) /\ <<>> \in Seq(News) /\ DOMAIN <<>> = {}
  OBVIOUS
<1>2. /\ batch \in Seq(News) /\ more \in Seq(RoomEvents)
      /\ \A i \in DOMAIN batch : batch[i] = Gone => i = Len(batch) /\ more = <<>> /\ later
  BY <1>1 DEF InOrder
<1> HIDE DEF News, RoomEvents, Gone
<1> QED
  BY <1>1, <1>2 DEF InOrder

\* What arrived is read, and behind it that the connection is lost.
LEMMA PolledInOrder ==
  ASSUME NEW batch, NEW box, NEW c, InOrder(batch, box, Dead(c))
  PROVE  LET lost == IF conns[c] = "lost" /\ c \notin reported THEN <<[what |-> "lost"]>> ELSE <<>>
         IN  InOrder(box \o lost, <<>>, Dead(c))
<1> DEFINE lost == IF conns[c] = "lost" /\ c \notin reported THEN <<Gone>> ELSE <<>>
           all == box \o lost
<1>1. box \in Seq(RoomEvents) /\ box \in Seq(News) /\ lost \in Seq(News)
  <2>1. box \in Seq(RoomEvents) /\ RoomEvents \subseteq News /\ Gone \in News
    BY DEF InOrder, News
  <2> QED
    BY <2>1, SeqMonotonic
<1>2. /\ all \in Seq(News) /\ Len(all) = Len(box) + Len(lost) /\ Len(box) \in Nat
      /\ \A i \in 1 .. Len(box) : all[i] = box[i] /\ box[i] \in RoomEvents
      /\ Len(lost) \in {0, 1} /\ (Len(lost) = 1 => Dead(c)) /\ <<>> \in Seq(RoomEvents)
  <2>2. \A i \in 1 .. Len(box) : box[i] \in RoomEvents
    BY <1>1
  <2>3. Len(box) \in Nat /\ Len(lost) \in {0, 1} /\ <<>> \in Seq(RoomEvents)
    BY <1>1
  <2>4. Len(lost) = 1 => Dead(c)
    BY DEF Dead
  <2>1. all \in Seq(News) /\ Len(all) = Len(box) + Len(lost) /\ \A i \in 1 .. Len(box) : all[i] = box[i]
    BY <1>1, ConcatProperties
  <2> QED
    BY <2>1, <2>2, <2>3, <2>4
<1> HIDE DEF all, lost
<1>3. ASSUME NEW i \in DOMAIN all, all[i] = Gone
      PROVE  i = Len(all) /\ Dead(c)
  <2>0. all \in Seq(News)
    BY <1>2
  <2>3. i \in 1 .. Len(all)
    BY <1>3, <2>0, LenProperties
  <2>4. i \notin 1 .. Len(box)
    <3>1. i \in 1 .. Len(box) => all[i] \in RoomEvents
      BY <1>2
    <3> QED
      BY <1>3, <3>1, GoneIsNoEvent, Zenon
  <2>1. i \in 1 .. Len(all) /\ i \notin 1 .. Len(box)
    BY <2>3, <2>4
  <2>2. i = Len(all) /\ Len(lost) = 1
    <3>1. Len(all) = Len(box) + Len(lost) /\ Len(box) \in Nat /\ (Len(lost) = 0 \/ Len(lost) = 1)
      BY <1>2, Zenon
    <3>2. \A n \in Nat : \A m, k : m \in 1 .. (n + k) /\ m \notin 1 .. n /\ (k = 0 \/ k = 1) => k = 1 /\ m = n + 1
      OBVIOUS
    <3> QED
      BY <2>1, <3>1, <3>2, Zenon
  <2> QED
    BY <1>2, <2>2
<1>4. InOrder(all, <<>>, Dead(c))
  BY <1>2, <1>3, Zenon DEF InOrder
<1> QED
  BY <1>4 DEF all, lost, Gone


\* Nobody is in the room twice.
ThereInv == there \subseteq PeerInfos /\ \A p, q \in there : p.id = q.id => p = q

\* Every step of the specification keeps everyone in the room once.
LEMMA ThereStep ==
  ASSUME ThereInv, [Next]_vars
  PROVE  ThereInv'
<1>1. CASE \E id : Enters(id)
  <2>1. PICK peers \in RoomLists \cup {<<>>} : there' = Range(peers)
    BY <1>1 DEF Enters
  <2>2. peers \in Seq(PeerInfos) /\ \A i, j \in DOMAIN peers : peers[i].id = peers[j].id => i = j
    <3>1. CASE peers = <<>>
      BY <3>1
    <3>2. CASE peers \in RoomLists
      BY <3>2, SessionAssumption
    <3> QED
      BY <3>1, <3>2
  <2>3. Range(peers) \subseteq PeerInfos /\ \A p, q \in Range(peers) : p.id = q.id => p = q
    BY <2>2 DEF Range
  <2> QED
    BY <2>1, <2>3 DEF ThereInv
<1>2. CASE \E c : RoomChanges(c)
  <2>1. \/ \E peer \in PeerInfos : (\A p \in there : p.id # peer.id) /\ there' = there \cup {peer}
        \/ \E peer \in PeerInfos, known \in there :
              peer.id = known.id /\ there' = (there \ {known}) \cup {peer}
        \/ \E known \in there : there' = there \ {known}
    BY <1>2 DEF RoomChanges
  <2> QED
    BY <2>1 DEF ThereInv
<1>3. CASE UNCHANGED there
  BY <1>3 DEF ThereInv
<1> QED
  BY <1>1, <1>2, <1>3, Zenon DEF Next, vars, Step, Answer, ConnectTurn, ReconnectTurn, TurnTooLate, EnterTurn,
     LeaveTurn, TriesAgain, StartsAudio, Stops, Connects, ConnectFails, Lists, ListFails, EnterFails, Leaves,
     ClockIsRight, Command, SessionConnect, SessionEnter, SessionLeave, SessionReconnect, Pump, PumpEnds,
     PumpPolls, EventTurn, LinkTurn, Lose, LinkChanges

\* Who tells the pump of c more, or reads what it was told, keeps everything in order.
LEMMA SentOn ==
  ASSUME CoreInv, InboxInv, [Next]_vars, ~Moved, NEW c \in Conns,
         DOMAIN inbox' = Conns, \A d \in Conns : d # c => pumps'[d] = pumps[d] /\ inbox'[d] = inbox[d],
         InOrder(pumps'[c].batch, inbox'[c], Dead(c)'),
         IF pumps'[c].at = "event"
         THEN pumps'[c].batch # <<>> /\ Head(pumps'[c].batch) \in RoomEvents
         ELSE pumps'[c].batch = <<>>,
         conns[c] = "none" \/ (\E id \in DOMAIN tasks : Regained(tasks[id], c)) => inbox'[c] = <<>>
  PROVE  InboxInv'
<1>0. Types
  BY DEF CoreInv
<1>1. ASSUME NEW d \in Conns
      PROVE  conns'[d] = "none" \/ (\E id \in DOMAIN tasks' : Regained(tasks'[id], d)) => inbox'[d] = <<>>
  <2>1. conns[d] = "none" \/ (\E id \in DOMAIN tasks : Regained(tasks[id], d)) => inbox'[d] = <<>>
    BY DEF InboxInv, Sent
  <2> QED
    BY <2>1, NoneMade
<1>2. ASSUME NEW d \in Conns
      PROVE  InOrder(pumps'[d].batch, inbox'[d], Dead(d)')
  <2>1. CASE d # c
    <3>1. InOrder(pumps[d].batch, inbox[d], Dead(d))
      BY DEF InboxInv, Sent
    <3>2. pumps'[d] = pumps[d] /\ inbox'[d] = inbox[d] /\ (Dead(d) => Dead(d)')
      BY <1>0, <2>1, DeadStays
    <3> QED
      BY <3>1, <3>2, InOrderMore
  <2> QED
    BY <2>1
<1>3. ASSUME NEW d \in Conns
      PROVE  IF pumps'[d].at = "event"
             THEN pumps'[d].batch # <<>> /\ Head(pumps'[d].batch) \in RoomEvents
             ELSE pumps'[d].batch = <<>>
  <2>1. CASE d # c
    BY <2>1 DEF InboxInv, Sent
  <2> QED
    BY <2>1
<1> QED
  BY <1>1, <1>2, <1>3 DEF InboxInv, Sent, Regained

\* A step handles nothing of what was sent: it starts a pump at most.
LEMMA BatchStays ==
  ASSUME CoreInv, PumpInv, [Next]_vars, NEW id \in DOMAIN tasks, Acts(id), NEW c \in Conns
  PROVE  /\ pumps'[c].batch = pumps[c].batch
         /\ pumps'[c].at = pumps[c].at \/ (pumps[c].at = "none" /\ pumps'[c].at = "sleep")
<1>0. ConnTypes
  BY DEF CoreInv, Types
<1>1. CASE UNCHANGED pumps
  BY <1>1
<1>2. ASSUME NEW d \in Conns, SpawnPump(d, id), pumps[d].at = "none"
      PROVE  /\ pumps'[c].batch = pumps[c].batch
             /\ pumps'[c].at = pumps[c].at \/ (pumps[c].at = "none" /\ pumps'[c].at = "sleep")
  BY <1>0, <1>2, SpawnedIs, SpawnedReads
<1> QED
  BY <1>1, <1>2, SpawnsFresh

\* What was sent stays in order through a step's own moves.
LEMMA InboxMoved ==
  ASSUME CoreInv, PumpInv, InboxInv, [Next]_vars, NEW id \in DOMAIN tasks, Acts(id)
  PROVE  InboxInv'
<1>0. Types /\ ConnTypes
  BY DEF CoreInv, Types
<1>1. inbox' = inbox \/ \E d : inbox' = [inbox EXCEPT ![d] = <<>>]
  BY Zenon DEF Acts, Step, Answer, ConnectTurn, ReconnectTurn, TurnTooLate, EnterTurn, LeaveTurn,
     TriesAgain, StartsAudio, Stops, Connects, ConnectFails, Lists, ListFails, Enters, EnterFails, Leaves,
     ClockIsRight, registry
<1>2. DOMAIN inbox' = Conns /\ \A c \in Conns : inbox'[c] = inbox[c] \/ inbox'[c] = <<>>
  BY <1>1 DEF InboxInv
<1>3. \A c \in Conns :
         /\ pumps'[c].batch = pumps[c].batch
         /\ pumps'[c].at = pumps[c].at \/ (pumps[c].at = "none" /\ pumps'[c].at = "sleep")
  BY BatchStays
<1>4. ASSUME NEW c \in Conns
      PROVE  Sent(c)'
  <2>1. /\ InOrder(pumps[c].batch, inbox[c], Dead(c))
        /\ IF pumps[c].at = "event"
           THEN pumps[c].batch # <<>> /\ Head(pumps[c].batch) \in RoomEvents
           ELSE pumps[c].batch = <<>>
        /\ conns[c] = "none" \/ (\E j \in DOMAIN tasks : Regained(tasks[j], c)) => inbox[c] = <<>>
    BY DEF InboxInv, Sent
  <2>2. InOrder(pumps'[c].batch, inbox'[c], Dead(c)')
    <3>1. Dead(c) => Dead(c)'
      BY <1>0, DeadStays
    <3> QED
      BY <1>2, <1>3, <2>1, <3>1, InOrderMore
  <2>3. conns'[c] = "none" \/ (\E j \in DOMAIN tasks' : Regained(tasks'[j], c)) => inbox'[c] = <<>>
    BY <1>2, <2>1, RegainedStep
  <2> QED
    BY <1>3, <2>1, <2>2, <2>3 DEF Sent, Regained
<1> QED
  BY <1>2, <1>4 DEF InboxInv

\* What was sent stays in order when it is read: an event is handled, or the connection
\* is asked for more.
LEMMA InboxPumped ==
  ASSUME CoreInv, InboxInv, [Next]_vars, ~Moved, NEW c \in Conns, Pump(c)
  PROVE  InboxInv'
<1>0. /\ Types /\ ConnTypes /\ IsPump(pumps[c]) /\ DOMAIN pumps = Conns /\ DOMAIN inbox = Conns /\ Sent(c)
      /\ (Dead(c) => Dead(c)')
  BY DeadStays DEF CoreInv, Types, ConnTypes, InboxInv
<1>1. CASE PumpEnds(c) \/ LinkTurn(c)
  <2>1. UNCHANGED inbox /\ pumps[c].at # "event"
    BY <1>1 DEF PumpEnds, LinkTurn, registry
  <2>2. \/ pumps' = [pumps EXCEPT ![c].at = "none"]
        \/ pumps' = [pumps EXCEPT ![c].at = "sleep", ![c].link = "quiet", ![c].after = 0]
    BY <1>1, Zenon DEF PumpEnds, LinkTurn
  <2>3. /\ pumps'[c].at # "event" /\ pumps'[c].batch = pumps[c].batch
        /\ \A d \in Conns : d # c => pumps'[d] = pumps[d]
    BY <1>0, <2>2 DEF IsPump
  <2>4. pumps[c].batch = <<>> /\ InOrder(pumps'[c].batch, inbox'[c], Dead(c)')
    BY <1>0, <2>1, <2>3, InOrderMore DEF Sent
  <2> QED
    BY <1>0, <2>1, <2>3, <2>4, SentOn DEF Sent
<1>2. CASE EventTurn(c)
  <2>1. GoesOn(c, Tail(pumps[c].batch), Tail(flow)) /\ UNCHANGED inbox /\ pumps[c].at = "event"
    BY <1>2, Zenon DEF EventTurn, registry
  <2>2. pumps[c].batch # <<>> /\ InOrder(Tail(pumps[c].batch), inbox[c], Dead(c))
    BY <1>0, <2>1, InOrderTail DEF Sent
  <2> DEFINE rest == Tail(pumps[c].batch)
  <2> HIDE DEF rest
  <2>3. /\ \A d \in Conns : d # c => pumps'[d] = pumps[d]
        /\ \/ /\ pumps'[c].at = "event" /\ pumps'[c].batch = rest
              /\ rest # <<>> /\ Head(rest) \in RoomEvents
           \/ pumps'[c].at # "event" /\ pumps'[c].batch = <<>>
    BY <1>0, <2>1, <2>2, GoesOnInOrder DEF rest
  <2>4. InOrder(pumps'[c].batch, inbox'[c], Dead(c)')
    BY <1>0, <2>1, <2>2, <2>3, InOrderMore DEF rest
  <2> QED
    BY <1>0, <2>1, <2>3, <2>4, SentOn DEF Sent
<1>3. CASE PumpPolls(c)
  <2> DEFINE lost == IF conns[c] = "lost" /\ c \notin reported THEN <<[what |-> "lost"]>> ELSE <<>>
             batch == inbox[c] \o lost
  <2>1. GoesOn(c, batch, flow) /\ inbox' = [inbox EXCEPT ![c] = <<>>]
    BY <1>3, Zenon DEF PumpPolls
  <2>2. InOrder(batch, <<>>, Dead(c))
    BY <1>0, PolledInOrder DEF Sent
  <2> HIDE DEF batch
  <2>3. inbox'[c] = <<>> /\ DOMAIN inbox' = Conns /\ \A d \in Conns : d # c => inbox'[d] = inbox[d]
    BY <1>0, <2>1
  <2>4. /\ \A d \in Conns : d # c => pumps'[d] = pumps[d]
        /\ \/ /\ pumps'[c].at = "event" /\ pumps'[c].batch = batch
              /\ batch # <<>> /\ Head(batch) \in RoomEvents
           \/ pumps'[c].at # "event" /\ pumps'[c].batch = <<>>
    BY <1>0, <2>1, <2>2, GoesOnInOrder
  <2>5. InOrder(pumps'[c].batch, inbox'[c], Dead(c)')
    BY <1>0, <2>2, <2>3, <2>4, InOrderMore
  <2> QED
    BY <2>3, <2>4, <2>5, SentOn
<1> QED
  BY <1>1, <1>2, <1>3 DEF Pump

\* What the server tells of the room comes behind what it told before.
LEMMA InboxTold ==
  ASSUME CoreInv, InboxInv, ThereInv, [Next]_vars, ~Moved, NEW c \in Conns, RoomChanges(c)
  PROVE  InboxInv'
<1>0. /\ Types /\ DOMAIN inbox = Conns /\ Sent(c) /\ c # NoConn
  BY NoConnIs DEF CoreInv, InboxInv
<1>1. PICK e \in RoomEvents : inbox' = [inbox EXCEPT ![c] = Append(@, e)]
  <2>1. PICK what \in {"joined", "updated", "left"}, peer \in PeerInfos :
           Tells(c, [what |-> what, peer |-> peer])
    BY DEF RoomChanges, ThereInv
  <2>2. [what |-> what, peer |-> peer] \in RoomEvents
    BY <2>1 DEF RoomEvents
  <2> QED
    BY <2>1, <2>2, Zenon DEF Tells
<1>2. /\ connection = c /\ conns[c] = "open" /\ conns' = conns /\ UNCHANGED pumps
  BY DEF RoomChanges
<1>3. ~Dead(c) /\ ~Dead(c)'
  BY <1>2 DEF Dead
<1>4. inbox'[c] = Append(inbox[c], e) /\ DOMAIN inbox' = Conns /\ \A d \in Conns : d # c => inbox'[d] = inbox[d]
  BY <1>0, <1>1
<1>5. /\ pumps[c].batch \in Seq(News) /\ inbox[c] \in Seq(RoomEvents)
      /\ \A i \in DOMAIN pumps[c].batch : pumps[c].batch[i] # Gone
  BY <1>0, <1>3, Zenon DEF Sent, InOrder
<1>6. InOrder(pumps'[c].batch, inbox'[c], Dead(c)')
  <2>1. Append(inbox[c], e) \in Seq(RoomEvents)
    BY <1>5
  <2> QED
    BY <1>2, <1>4, <1>5, <2>1, Zenon DEF InOrder
<1>7. \A id \in DOMAIN tasks : ~Regained(tasks[id], c)
  BY <1>0, <1>2 DEF CoreInv, ConnInv, Holds, Regained
<1> QED
  BY <1>0, <1>2, <1>4, <1>6, <1>7, SentOn DEF Sent

\* Every step of the specification keeps what was sent in order.
LEMMA InboxStep ==
  ASSUME CoreInv, PumpInv, InboxInv, ThereInv, [Next]_vars
  PROVE  InboxInv'
<1>1. CASE Moved
  <2>1. PICK id \in DOMAIN tasks : Acts(id)
    BY <1>1 DEF Moved, Acts
  <2> QED
    BY <2>1, InboxMoved
<1>2. CASE ~Moved /\ UNCHANGED <<inbox, pumps>>
  <2>1. Types
    BY DEF CoreInv
  <2>2. ASSUME NEW c \in Conns
        PROVE  InboxInv'
    <3>1. /\ Sent(c) /\ DOMAIN inbox = Conns /\ (Dead(c) => Dead(c)')
      BY <2>1, DeadStays DEF InboxInv
    <3>2. InOrder(pumps'[c].batch, inbox'[c], Dead(c)')
      BY <1>2, <3>1, InOrderMore DEF Sent
    <3> QED
      BY <1>2, <3>1, <3>2, SentOn DEF Sent
  <2>3. CASE Conns = {}
    BY <1>2, <2>3 DEF InboxInv
  <2> QED
    BY <2>2, <2>3
<1>3. CASE Command
  <2>1. UNCHANGED <<inbox, pumps>>
    BY <1>3, CommandJoins DEF registry, CoreInv, Types
  <2> QED
    BY <1>1, <1>2, <2>1
<1> QED
  BY <1>1, <1>2, <1>3, InboxPumped, InboxTold DEF Next, vars, Moved, Lose, LinkChanges, registry

(***************************************************************************)
(* Who is on the list.                                                     *)
(***************************************************************************)
ListInv == Listing(roster) /\ roster.ownIds \subseteq {Own} /\ MayBe(audio.with)

\* There is nobody on an empty list.
LEMMA EmptyLists == Listing(EmptyRoster) /\ EmptyRoster.ownIds = {} /\ EmptyRoster.peers = <<>>
BY DEF EmptyRoster, Listing, IsRoster

\* The audio that is off could be with whom it is: with nobody.
LEMMA OffMayBe ==
  ASSUME IsAudio(audio)
  PROVE  MayBe(AudioOff.with)
BY DEF AudioOff, IsAudio, MayBe

\* A step starts a list anew where it begins or ends with a room, and makes it of whom the
\* server says is there; the others leave it alone.
LEMMA MovedLists ==
  ASSUME CoreInv, ListInv, NEW id \in DOMAIN tasks, Acts(id)
  PROVE  /\ ListInv'
         /\ \/ roster'.peers = roster.peers
            \/ ConnectTurn(id) \/ ReconnectTurn(id) \/ Enters(id) \/ Leaves(id)
         /\ Enters(id) => Range(roster'.peers) = there'
<1>0. Listing(roster) /\ IsAudio(audio) /\ Sounds(tasks[id]) /\ MayBe(audio.with) /\ roster.ownIds \subseteq {Own}
  BY DEF CoreInv, Types, RosterTypes, AudioInv, ListInv
<1>1. CASE UNCHANGED roster /\ (UNCHANGED audio \/ audio' = AudioOff) /\ ~Enters(id)
  BY <1>0, <1>1, OffMayBe DEF ListInv
<1>2. CASE ConnectTurn(id) \/ ReconnectTurn(id)
  <2>1. /\ roster' \in {EmptyRoster, ForgetTheAudio(roster)}
        /\ UNCHANGED audio \/ audio' = AudioOff
    BY <1>2, Zenon DEF ConnectTurn, ReconnectTurn, DropConnection, AudioEnded
  <2>2. Listing(roster') /\ roster'.ownIds \subseteq {Own}
    BY <1>0, <2>1, EmptyLists, ForgottenLists DEF SameList
  <2>3. ~Enters(id)
    BY <1>2 DEF ConnectTurn, ReconnectTurn, Enters
  <2> QED
    BY <1>0, <1>2, <2>1, <2>2, <2>3, OffMayBe DEF ListInv
<1>3. CASE StartsAudio(id) \/ Stops(id)
  <2>1. tasks[id].place = "audio" => ToStart(roster, tasks[id].todo)
    BY <1>0 DEF Sounds
  <2>2. SameList(roster', roster) /\ MayBe(audio'.with)
    BY <1>0, <1>3, <2>1, AudioLists
  <2>3. roster'.peers = roster.peers /\ ListInv'
    BY <1>0, <2>2 DEF SameList, ListInv
  <2>5. ~Enters(id)
    <3>1. tasks'[id].place = "done"
      BY <1>3, FinishEnds, StopsMoves DEF CoreInv, Types, StartsAudio, Ends, Moves
    <3>2. Enters(id) => tasks'[id].place = "audio"
      BY EntersMoves DEF CoreInv, Types, RosterTypes, GoesTo, Moves
    <3> QED
      BY <3>1, <3>2
  <2> QED
    BY <2>3, <2>5
<1>4. CASE Enters(id)
  <2>1. PICK peers \in RoomLists \cup {<<>>} : roster' = Entered(roster, Own, peers).roster /\ there' = Range(peers)
    BY <1>4 DEF Enters
  <2>2. peers \in Seq(PeerInfos) /\ \A i \in DOMAIN peers : peers[i].id # Own
    <3>1. CASE peers = <<>>
      BY <3>1
    <3>2. CASE peers \in RoomLists
      BY <3>2, SessionAssumption
    <3> QED
      BY <3>1, <3>2
  <2>3. {p \in Range(peers) : p.id # Own} = Range(peers)
    BY <2>2 DEF Range
  <2>4. /\ Listing(roster') /\ roster'.ownIds = {Own}
        /\ Range(roster'.peers) = {p \in Range(peers) : p.id # Own}
    <3>1. Listing(roster) /\ roster.ownIds \subseteq {Own} /\ peers \in Seq(PeerInfos)
      BY <1>0, <2>2
    <3>2. ListsOthers(Entered(roster, Own, peers).roster, Own, peers)
      BY <3>1, EnteredLists
    <3> QED
      BY <2>1, <3>2 DEF ListsOthers
  <2>5. audio' = audio
    BY <1>4 DEF Enters
  <2> QED
    BY <1>0, <1>4, <2>1, <2>3, <2>4, <2>5 DEF ListInv
<1>5. CASE Leaves(id)
  <2>1. roster' = EmptyRoster /\ audio' = audio
    BY <1>5 DEF Leaves
  <2>2. ~Enters(id)
    BY <1>5 DEF Leaves, Enters
  <2> QED
    BY <1>0, <1>5, <2>1, <2>2, EmptyLists DEF ListInv
<1>6. CASE ~Enters(id) /\ ~Leaves(id) /\ ~ConnectTurn(id) /\ ~ReconnectTurn(id) /\ ~StartsAudio(id) /\ ~Stops(id)
  <2>1. UNCHANGED roster
    BY <1>6, Zenon DEF Acts, Step, Answer, TurnTooLate, EnterTurn, LeaveTurn, TriesAgain, Connects,
       ConnectFails, Lists, ListFails, EnterFails, ClockIsRight, AttemptFails, FailsUnlessEnded, Fails, inner
  <2>2. UNCHANGED audio \/ audio' = AudioOff
    BY <1>6, Zenon DEF Acts, Step, Answer, TurnTooLate, EnterTurn, LeaveTurn, TriesAgain, Connects,
       ConnectFails, Lists, ListFails, EnterFails, ClockIsRight
  <2> QED
    BY <1>1, <1>6, <2>1, <2>2
<1> QED
  BY <1>2, <1>3, <1>4, <1>5, <1>6

\* An event of the room the app is in is heard by the list; one of another room is not.
LEMMA EventLists ==
  ASSUME CoreInv, ListInv, InboxInv, NEW c \in Conns, EventTurn(c)
  PROVE  /\ ListInv'
         /\ ~Concerns(c) => roster'.peers = roster.peers
         /\ Concerns(c) /\ Likely(Range(roster.peers), Head(pumps[c].batch)) =>
              Range(roster'.peers) = Hears(Range(roster.peers), Head(pumps[c].batch))
<1>0. Listing(roster) /\ IsRoster(roster) /\ IsAudio(audio) /\ MayBe(audio.with) /\ roster.ownIds \subseteq {Own}
      /\ RosterTypes
  BY DEF CoreInv, Types, RosterTypes, ListInv
<1> DEFINE event == Head(pumps[c].batch)
           all == Range(roster.peers)
<1>1. CASE ~Concerns(c)
  <2>1. roster' = roster /\ audio' = audio
    BY <1>0, <1>1, EventDecides
  <2> QED
    BY <1>0, <1>1, <2>1 DEF ListInv
<1>2. CASE Concerns(c)
  <2>1. event \in RoomEvents
    BY DEF EventTurn, InboxInv, Sent
  <2>2. event.what \in {"joined", "updated", "left"} /\ event.peer \in PeerInfos
    BY <2>1 DEF RoomEvents
  <2>3. /\ event.what = "joined" => Decided(Decides(Joined(roster, event.peer), <<>>))
        /\ event.what = "updated" => Decided(Updated(roster, event.peer))
        /\ event.what = "left" => Decided(Left(roster, event.peer.id))
    BY <1>2 DEF EventTurn
  <2> HIDE DEF event, all
  <2>4. CASE event.what = "joined"
    <3> DEFINE r == Joined(roster, event.peer)
               d == Decides(r, <<>>)
    <3>1. OwnList(r, roster) /\ ((\A p \in all : p.id # event.peer.id) => HasList(r, roster, all \cup {event.peer}))
      BY <1>0, <2>2, JoinedLists DEF all
    <3>2. Sound(d, roster.with) /\ d.roster = r
      BY <1>0, JoinedIs, DoesNothing DEF Sound, Decides
    <3> HIDE DEF d, r
    <3>3. SameList(roster', r) /\ MayBe(audio'.with)
      BY <1>0, <2>3, <2>4, <3>1, <3>2, DecidedLists DEF OwnList, d, r
    <3>4. ListInv'
      BY <1>0, <3>1, <3>3 DEF SameList, OwnList, ListInv
    <3>5. Likely(all, event) => Range(roster'.peers) = Hears(all, event)
      BY <2>4, <3>1, <3>3 DEF SameList, HasList, Likely, Hears
    <3> QED
      BY <1>2, <3>4, <3>5 DEF event, all
  <2>5. CASE event.what = "updated"
    <3> DEFINE d == Updated(roster, event.peer)
    <3>1. /\ OwnList(d.roster, roster)
          /\ (\E p \in all : p.id = event.peer.id) =>
               HasList(d.roster, roster, {p \in all : p.id # event.peer.id} \cup {event.peer})
      BY <1>0, <2>2, UpdatedLists DEF all
    <3>2. Sound(d, roster.with)
      BY <1>0, UpdatedIs
    <3> HIDE DEF d
    <3>3. SameList(roster', d.roster) /\ MayBe(audio'.with)
      BY <1>0, <2>3, <2>5, <3>1, <3>2, DecidedLists DEF OwnList, d
    <3>4. ListInv'
      BY <1>0, <3>1, <3>3 DEF SameList, OwnList, ListInv
    <3>5. Likely(all, event) => Range(roster'.peers) = Hears(all, event)
      BY <2>5, <3>1, <3>3 DEF SameList, HasList, Likely, Hears
    <3> QED
      BY <1>2, <3>4, <3>5 DEF event, all
  <2>6. CASE event.what = "left"
    <3> DEFINE d == Left(roster, event.peer.id)
    <3>1. HasList(d.roster, roster, {p \in all : p.id # event.peer.id})
      BY <1>0, LeftLists DEF all
    <3>2. Sound(d, roster.with)
      BY <1>0, LeftIs
    <3> HIDE DEF d
    <3>3. SameList(roster', d.roster) /\ MayBe(audio'.with)
      BY <1>0, <2>3, <2>6, <3>1, <3>2, DecidedLists DEF HasList, OwnList, d
    <3>4. ListInv'
      BY <1>0, <3>1, <3>3 DEF SameList, HasList, OwnList, ListInv
    <3>5. Range(roster'.peers) = Hears(all, event)
      BY <2>6, <3>1, <3>3 DEF SameList, HasList, Hears
    <3> QED
      BY <1>2, <3>4, <3>5 DEF event, all
  <2> QED
    BY <2>2, <2>4, <2>5, <2>6
<1> QED
  BY <1>1, <1>2

\* Whatever else the pumps and the others do leaves the list alone.
LEMMA OthersLists ==
  ASSUME CoreInv, ListInv, [Next]_vars, ~Moved, \A c \in Conns : ~EventTurn(c)
  PROVE  ListInv' /\ roster'.peers = roster.peers
<1>0. Listing(roster) /\ IsRoster(roster) /\ IsAudio(audio) /\ MayBe(audio.with) /\ roster.ownIds \subseteq {Own}
      /\ RosterTypes
  BY DEF CoreInv, Types, RosterTypes, ListInv
<1>1. CASE UNCHANGED <<roster, audio>>
  BY <1>1 DEF ListInv
<1>2. ASSUME NEW c \in Conns, LinkTurn(c)
      PROVE  ListInv' /\ roster'.peers = roster.peers
  <2>1. CASE ~Concerns(c)
    BY <1>0, <1>1, <1>2, <2>1, EventDecides
  <2>2. CASE Concerns(c)
    <3>1. PICK d : d \in {AudioSilent(roster), AudioFailed(roster), Decides(AudioRecovered(roster), <<>>)} /\ Decided(d)
      BY <1>2, <2>2 DEF LinkTurn
    <3>2. Sound(d, roster.with)
      <4>1. Sound(Decides(AudioRecovered(roster), <<>>), roster.with)
        BY <1>0, AudioRecoveredIs, DoesNothing DEF Sound
      <4> QED
        BY <1>0, <3>1, <4>1, AudioSilentIs, AudioFailedIs
    <3>3. SameList(d.roster, roster)
      <4>1. Decides(AudioRecovered(roster), <<>>).roster = AudioRecovered(roster)
        BY DEF Decides
      <4> QED
        BY <1>0, <3>1, <4>1, LinkLists
    <3>4. SameList(roster', d.roster) /\ MayBe(audio'.with)
      BY <1>0, <3>1, <3>2, <3>3, DecidedLists DEF SameList
    <3> QED
      BY <1>0, <3>3, <3>4 DEF SameList, ListInv
  <2> QED
    BY <2>1, <2>2
<1>3. CASE LinkChanges
  <2>1. PICK link : audio' = [audio EXCEPT !.link = link]
    BY <1>3 DEF LinkChanges
  <2>2. audio'.with = audio.with /\ roster' = roster
    BY <1>0, <1>3, <2>1 DEF IsAudio, LinkChanges, inner
  <2> QED
    BY <1>0, <2>2 DEF ListInv
<1>4. CASE Command
  BY <1>1, <1>4, CommandJoins DEF CoreInv, Types
<1>5. ASSUME NEW c \in Conns, PumpEnds(c) \/ PumpPolls(c) \/ Lose(c) \/ RoomChanges(c)
      PROVE  ListInv' /\ roster'.peers = roster.peers
  <2>1. UNCHANGED <<roster, audio>>
    BY <1>5, Zenon DEF PumpEnds, PumpPolls, Lose, RoomChanges, inner
  <2> QED
    BY <1>1, <2>1
<1>6. CASE UNCHANGED vars
  BY <1>1, <1>6 DEF vars, inner
<1> QED
  BY <1>2, <1>3, <1>4, <1>5, <1>6 DEF Next, Moved, Pump

\* Every step of the specification keeps the list.
LEMMA ListStep ==
  ASSUME CoreInv, InboxInv, ListInv, [Next]_vars
  PROVE  ListInv'
BY MovedLists, EventLists, OthersLists DEF Moved, Acts

(***************************************************************************)
(* The list catches up, as long as no room is left.                        *)
(***************************************************************************)
NoLeave == \A id \in DOMAIN tasks : tasks[id].kind # "leave"
\* What the session's connection has told and is not handled yet leads from who is on the
\* list to who is there; it is nothing while the app is in no room.
OnTheWay ==
    IF room THEN LeadsTo(Range(roster.peers), pumps[connection].batch \o inbox[connection], there)
    ELSE pumps[connection].batch = <<>> /\ inbox[connection] = <<>>
RoomInv == NoLeave /\ connection # NoConn => OnTheWay

\* The first of what is read is the first of all that came.
LEMMA ConcatFirst ==
  ASSUME NEW S, NEW b \in Seq(S), b # <<>>, NEW x \in Seq(S)
  PROVE  b \o x \in Seq(S) /\ b \o x # <<>> /\ Head(b \o x) = Head(b) /\ Tail(b \o x) = Tail(b) \o x
<1>1. /\ b \o x \in Seq(S) /\ Len(b \o x) = Len(b) + Len(x)
      /\ \A i \in 1 .. Len(b) : (b \o x)[i] = b[i]
      /\ \A i \in 1 .. Len(x) : (b \o x)[Len(b) + i] = x[i]
  BY ConcatProperties
<1>2. Len(b) \in Nat \ {0} /\ Len(x) \in Nat
  BY EmptySeq
<1>3. b \o x # <<>> /\ Head(b \o x) = Head(b)
  BY <1>1, <1>2
<1> DEFINE s == Tail(b \o x)
           t == Tail(b) \o x
<1>4. /\ Tail(b) \in Seq(S) /\ Len(Tail(b)) = Len(b) - 1
      /\ \A i \in 1 .. (Len(b) - 1) : Tail(b)[i] = b[i + 1]
  BY <1>2
<1>5. /\ t \in Seq(S) /\ Len(t) = Len(b) - 1 + Len(x)
      /\ \A i \in 1 .. (Len(b) - 1) : t[i] = b[i + 1]
      /\ \A i \in 1 .. Len(x) : t[(Len(b) - 1) + i] = x[i]
  BY <1>4, ConcatProperties
<1> DEFINE all == b \o x
<1> HIDE DEF all
<1>6. /\ s \in Seq(S) /\ Len(s) = Len(b) - 1 + Len(x)
      /\ \A i \in 1 .. (Len(b) - 1 + Len(x)) : s[i] = all[i + 1]
  <2>1. Len(all) = Len(b) + Len(x) /\ all # <<>> /\ all \in Seq(S)
    BY <1>1, <1>3 DEF all
  <2>2. s = Tail(all)
    BY DEF all
  <2>3. Tail(all) \in Seq(S) /\ Len(Tail(all)) = Len(all) - 1
        /\ \A i \in 1 .. Len(Tail(all)) : Tail(all)[i] = all[i + 1]
    BY <2>1, HeadTailProperties
  <2>4. Len(all) - 1 = Len(b) - 1 + Len(x)
    BY <1>2, <2>1
  <2> HIDE DEF s
  <2>5. /\ s \in Seq(S) /\ Len(s) = Len(b) - 1 + Len(x)
        /\ \A i \in 1 .. Len(s) : s[i] = all[i + 1]
    BY <2>2, <2>3, <2>4, Zenon
  <2> QED
    BY <2>5, Zenon
<1> HIDE DEF s, t
<1>7. ASSUME NEW i \in 1 .. (Len(b) - 1 + Len(x))
      PROVE  s[i] = t[i]
  <2>1. CASE i \in 1 .. (Len(b) - 1)
    <3>1. i + 1 \in 1 .. Len(b)
      BY <1>2, <2>1
    <3>2. all[i + 1] = b[i + 1]
      BY <1>1, <3>1 DEF all
    <3> QED
      BY <1>5, <1>6, <2>1, <3>2
  <2>2. CASE i \notin 1 .. (Len(b) - 1)
    <3>1. PICK k \in 1 .. Len(x) : i = (Len(b) - 1) + k /\ i + 1 = Len(b) + k
      <4>1. i - (Len(b) - 1) \in 1 .. Len(x) /\ i = (Len(b) - 1) + (i - (Len(b) - 1))
            /\ i + 1 = Len(b) + (i - (Len(b) - 1))
        BY <1>2, <2>2
      <4> QED
        BY <4>1
    <3>2. all[i + 1] = x[k] /\ t[i] = x[k]
      BY <1>1, <1>5, <3>1 DEF all
    <3> QED
      BY <1>6, <3>2
  <2> QED
    BY <2>1, <2>2
<1>8. s = t
  BY <1>5, <1>6, <1>7, SeqEqual
<1> QED
  BY <1>1, <1>3, <1>8 DEF s, t

\* What comes last comes last of all.
LEMMA ConcatBehind ==
  ASSUME NEW S, NEW b \in Seq(S), NEW x \in Seq(S), NEW e \in S
  PROVE  b \o Append(x, e) = Append(b \o x, e)
<1>1. <<e>> \in Seq(S) /\ Append(x, e) = x \o <<e>> /\ b \o x \in Seq(S)
  BY AppendIsConcat, ConcatProperties
<1> QED
  BY <1>1, AppendIsConcat, ConcatAssociative

\* Whoever leaves no room now has left none before.
LEMMA LeaveStays ==
  ASSUME CoreInv, [Next]_vars, NoLeave', connection' # NoConn
  PROVE  NoLeave
<1>0. Types /\ FlowInv
  BY DEF CoreInv
<1>1. ASSUME NEW id \in DOMAIN tasks, Acts(id)
      PROVE  NoLeave
  <2>1. ~(LeaveTurn(id) /\ connection = NoConn)
    BY DEF LeaveTurn
  <2>2. PICK p, c, b : Moves(id, p, c, b)
    BY <1>0, <1>1, <2>1, StepMoves DEF Acts
  <2> QED
    BY <2>2 DEF Moves, NoLeave
<1>2. CASE ~Moved
  <2>1. Waits
    BY <1>0, <1>2, OthersWait
  <2>2. \A j \in DOMAIN tasks : j \in DOMAIN tasks' /\ tasks'[j] = tasks[j]
    BY <2>1, WaitsFor
  <2> QED
    BY <2>2 DEF NoLeave
<1> QED
  BY <1>1, <1>2 DEF Moved, Acts

\* Where nothing is told, handled or changed, the same is on its way.
LEMMA RoomStays ==
  ASSUME OnTheWay, UNCHANGED <<connection, room, there>>, roster'.peers = roster.peers,
         pumps'[connection].batch = pumps[connection].batch, inbox'[connection] = inbox[connection]
  PROVE  OnTheWay'
<1>1. pumps'[connection'].batch = pumps[connection].batch /\ inbox'[connection'] = inbox[connection]
  OBVIOUS
<1> QED
  BY <1>1 DEF OnTheWay

\* The room through a step's own moves: into it, out of it, or on with another connection.
LEMMA RoomMoved ==
  ASSUME CoreInv, PumpInv, InboxInv, ListInv, RoomInv, [Next]_vars, NoLeave, connection' # NoConn,
         NEW id \in DOMAIN tasks, Acts(id)
  PROVE  OnTheWay'
<1>0. /\ Types /\ TaskTypes /\ RosterTypes /\ ConnTypes /\ Shown(tasks[id]) /\ Placed(tasks[id])
      /\ Holds(tasks[id]) /\ ScreenCoherent /\ connection' \in Conns
  BY ConnectionStep DEF CoreInv, Types, ScreenInv, PlaceInv, ConnInv
<1>1. /\ DOMAIN pumps = Conns /\ \A c \in Conns : pumps'[c].batch = pumps[c].batch
      /\ \A c \in Conns : pumps[c].at # "event" => pumps[c].batch = <<>>
  BY <1>0, BatchStays DEF ConnTypes, InboxInv, Sent
<1>2. CASE ConnectTurn(id) \/ ReconnectTurn(id)
  BY <1>2 DEF ConnectTurn, ReconnectTurn, DropConnection
<1>3. CASE Connects(id)
  <2>1. UNCHANGED <<room, there, inbox>> /\ roster'.peers = roster.peers /\ tasks[id].place = "connecting"
    BY <1>3 DEF Connects
  <2>2. CASE UNCHANGED connection
    BY <1>0, <1>1, <2>1, <2>2, RoomStays DEF RoomInv
  <2>3. CASE ~UNCHANGED connection
    <3>1. PICK c \in Conns : conns[c] = "none" /\ connection' = c /\ tasks[id].kind = "connect"
      BY <1>0, <1>3, <2>3, ConnectsMoves
    <3>2. ~room
      BY <1>0, <2>1, <3>1 DEF Shown, AtWork, ScreenCoherent
    <3>3. pumps[c].batch = <<>> /\ inbox[c] = <<>>
      BY <1>1, <3>1 DEF PumpInv, InboxInv, Sent
    <3> QED
      BY <1>1, <2>1, <3>1, <3>2, <3>3 DEF OnTheWay
  <2> QED
    BY <2>2, <2>3
<1>4. CASE Lists(id) \/ Enters(id)
  <2> DEFINE c == tasks[id].conn
  <2>1. /\ tasks[id].place \in {"listing", "entering"} /\ connection' = c /\ c \in Conns
    BY <1>0, <1>4 DEF Lists, Enters
  <2>2. ~room \/ tasks[id].kind = "reconnect"
    BY <1>0, <2>1 DEF Shown, AtWork, ScreenCoherent, Placed, Reaches
  <2>3. pumps[c].batch = <<>>
    <3>1. CASE tasks[id].kind = "reconnect"
      <4>1. Regained(tasks[id], c)
        BY <2>1, <3>1 DEF Regained
      <4>2. pumps[c].at = "none"
        BY <2>1, <4>1 DEF PumpInv
      <4> QED
        BY <1>1, <2>1, <4>2
    <3>2. CASE tasks[id].kind # "reconnect"
      <4>1. Uses(tasks[id])
        BY <1>0, <2>1, <3>2 DEF Placed, Reaches, Uses
      <4>2. c = connection /\ connection # NoConn
        BY <1>0, <4>1 DEF Holds
      <4> QED
        BY <2>2, <3>2, <4>2 DEF RoomInv, OnTheWay
    <3> QED
      BY <3>1, <3>2
  <2>4. pumps'[c].batch = <<>>
    BY <1>1, <2>1, <2>3
  <2> HIDE DEF c
  <2>5. CASE Lists(id)
    <3>1. ~room' /\ inbox'[c] = <<>>
      BY <1>0, <2>1, <2>5 DEF Lists, Shown, AtWork, ScreenCoherent, Placed, Reaches, InboxInv, c
    <3> QED
      BY <2>1, <2>4, <3>1 DEF OnTheWay
  <2>6. CASE Enters(id)
    <3>1. room' = TRUE /\ inbox'[c] = <<>> /\ Range(roster'.peers) = there'
      BY <2>6, MovedLists DEF Enters, registry, c
    <3>2. <<>> \o <<>> = <<>>
      OBVIOUS
    <3>3. LeadsTo(Range(roster'.peers), pumps'[connection'].batch \o inbox'[connection'], there')
      BY <2>1, <2>4, <3>1, <3>2, NoEvents
    <3> QED
      BY <3>1, <3>3 DEF OnTheWay
  <2> QED
    BY <1>4, <2>5, <2>6
<1>5. CASE EnterFails(id)
  <2>1. CASE tasks[id].kind = "reconnect"
    <3>1. connection = NoConn
      BY <1>0, <1>5, <2>1 DEF Holds, EnterFails
    <3>2. connection' = connection
      BY <1>0, <1>5, <2>1, AttemptFailsMoves DEF EnterFails, FailsUnlessEnded, Fails, inner
    <3> QED
      BY <3>1, <3>2
  <2>2. CASE tasks[id].kind # "reconnect"
    <3>1. tasks[id].place = "entering" /\ Uses(tasks[id]) /\ ~room
      BY <1>0, <1>5, <2>2 DEF EnterFails, Placed, Reaches, Uses, Shown, ScreenCoherent
    <3>2. tasks[id].conn = connection /\ UNCHANGED <<connection, room, pumps>>
      BY <1>0, <1>5, <2>2, <3>1 DEF Holds, EnterFails, Fails
    <3>3. inbox'[connection] = <<>> /\ pumps[connection].batch = <<>>
      BY <1>0, <1>5, <3>1, <3>2 DEF EnterFails, InboxInv, RoomInv, OnTheWay
    <3> QED
      BY <3>1, <3>2, <3>3 DEF OnTheWay
  <2> QED
    BY <2>1, <2>2
<1>6. CASE Leaves(id)
  <2>1. tasks[id].kind = "leave"
    BY <1>0, <1>6 DEF Leaves, Placed
  <2> QED
    BY <2>1 DEF NoLeave
<1>7. CASE TurnTooLate(id) \/ EnterTurn(id) \/ LeaveTurn(id) \/ TriesAgain(id) \/ StartsAudio(id) \/ Stops(id)
           \/ ClockIsRight(id) \/ ConnectFails(id) \/ ListFails(id)
  <2>1. UNCHANGED <<there, inbox>>
    BY <1>7, Zenon DEF TurnTooLate, EnterTurn, LeaveTurn, TriesAgain, StartsAudio, Stops, ClockIsRight, ConnectFails,
       ListFails, registry
  <2>2. UNCHANGED <<connection, room>>
    <3>1. CASE ConnectFails(id) \/ ListFails(id)
      <4>1. AttemptFails(id) \/ FailsUnlessEnded(id)
        BY <3>1 DEF ConnectFails, ListFails
      <4> QED
        BY <1>0, <4>1, AttemptFailsMoves DEF FailsUnlessEnded, Fails, inner
    <3>2. CASE ~(ConnectFails(id) \/ ListFails(id))
      BY <1>7, <3>2, Zenon DEF TurnTooLate, EnterTurn, LeaveTurn, TriesAgain, StartsAudio, Stops, ClockIsRight, inner
    <3> QED
      BY <3>1, <3>2
  <2>3. roster'.peers = roster.peers
    <3>1. UNCHANGED roster \/ StartsAudio(id) \/ Stops(id)
      <4>1. CASE ConnectFails(id) \/ ListFails(id)
        <5>1. AttemptFails(id) \/ FailsUnlessEnded(id)
          BY <4>1 DEF ConnectFails, ListFails
        <5> QED
          BY <1>0, <5>1, AttemptFailsMoves DEF FailsUnlessEnded, Fails, inner
      <4>2. CASE ~(ConnectFails(id) \/ ListFails(id))
        BY <1>7, <4>2, Zenon DEF TurnTooLate, EnterTurn, LeaveTurn, TriesAgain, ClockIsRight, inner
      <4> QED
        BY <4>1, <4>2
    <3>2. CASE StartsAudio(id) \/ Stops(id)
      <4>1. /\ IsAudio(audio) /\ MayBe(audio.with) /\ Listing(roster)
            /\ tasks[id].place = "audio" => ToStart(roster, tasks[id].todo)
        BY DEF CoreInv, Types, RosterTypes, AudioInv, Sounds, ListInv
      <4> QED
        BY <3>2, <4>1, AudioLists DEF SameList
    <3> QED
      BY <3>1, <3>2
  <2>4. connection \in Conns /\ OnTheWay
    BY <1>0, <2>2 DEF RoomInv
  <2> QED
    BY <1>1, <2>1, <2>2, <2>3, <2>4, RoomStays
<1> QED
  BY <1>2, <1>3, <1>4, <1>5, <1>6, <1>7, Zenon DEF Acts, Step, Answer

\* An event handled is one step of the way.
LEMMA RoomHeard ==
  ASSUME CoreInv, InboxInv, ListInv, OnTheWay, [Next]_vars, ~Moved, connection \in Conns,
         NEW c \in Conns, EventTurn(c)
  PROVE  OnTheWay'
<1>0. /\ ConnTypes /\ Sent(c) /\ UNCHANGED <<connection, room, there, inbox>>
      /\ GoesOn(c, Tail(pumps[c].batch), Tail(flow)) /\ pumps[c].at = "event"
  BY Zenon DEF CoreInv, Types, InboxInv, EventTurn, registry
<1>1. pumps[c].batch # <<>> /\ InOrder(pumps[c].batch, inbox[c], Dead(c))
      /\ InOrder(Tail(pumps[c].batch), inbox[c], Dead(c))
  BY <1>0, InOrderTail DEF Sent
<1> DEFINE rest == Tail(pumps[c].batch)
<1> HIDE DEF rest
<1>2. /\ \A d \in Conns : d # c => pumps'[d] = pumps[d]
      /\ \/ pumps'[c].batch = rest
         \/ /\ pumps'[c].batch = <<>>
            /\ rest = <<>> \/ (rest = <<Gone>> /\ inbox[c] = <<>>)
  BY <1>0, <1>1, GoesOnInOrder DEF rest
<1>3. CASE connection # c
  <2>1. roster'.peers = roster.peers
    BY <1>3, EventLists DEF Concerns
  <2> QED
    BY <1>0, <1>2, <1>3, <2>1, RoomStays
<1>4. CASE connection = c
  <2> DEFINE all == Range(roster.peers)
             first == Head(pumps[c].batch)
             came == pumps[c].batch \o inbox[c]
  <2>1. room /\ LeadsTo(all, came, there)
    BY <1>1, <1>4 DEF OnTheWay
  <2>2. pumps[c].batch \in Seq(News) /\ inbox[c] \in Seq(News) /\ inbox[c] \in Seq(RoomEvents)
    <3>1. pumps[c].batch \in Seq(News) /\ inbox[c] \in Seq(RoomEvents) /\ RoomEvents \subseteq News
      BY <1>1 DEF InOrder, News
    <3> QED
      BY <3>1, SeqMonotonic
  <2>3. came \in Seq(News) /\ came # <<>> /\ Head(came) = first /\ Tail(came) = rest \o inbox[c]
    BY <1>1, <2>2, ConcatFirst DEF rest
  <2> HIDE DEF all, first, came
  <2>4. Likely(all, first) /\ LeadsTo(Hears(all, first), rest \o inbox[c], there)
    BY <2>1, <2>3, EventFirst
  <2>5. Range(roster'.peers) = Hears(all, first)
    BY <1>4, <2>1, <2>4, EventLists DEF Concerns, all, first
  <2>6. LeadsTo(Hears(all, first), pumps'[c].batch \o inbox[c], there)
    BY <1>2, <2>2, <2>4, ToldAll
  <2> QED
    BY <1>0, <1>4, <2>1, <2>5, <2>6 DEF OnTheWay
<1> QED
  BY <1>3, <1>4

\* What is read is what came.
LEMMA RoomRead ==
  ASSUME CoreInv, InboxInv, ListInv, OnTheWay, [Next]_vars, ~Moved, connection \in Conns,
         NEW c \in Conns, PumpPolls(c)
  PROVE  OnTheWay'
<1> DEFINE lost == IF conns[c] = "lost" /\ c \notin reported THEN <<[what |-> "lost"]>> ELSE <<>>
           came == inbox[c] \o lost
<1>0. /\ ConnTypes /\ Sent(c) /\ UNCHANGED <<connection, room, there, roster>> /\ connection = c
      /\ GoesOn(c, came, flow) /\ inbox' = [inbox EXCEPT ![c] = <<>>] /\ pumps[c].at = "sleep"
  BY Zenon DEF CoreInv, Types, InboxInv, PumpPolls
<1>1. /\ pumps[c].batch = <<>> /\ inbox[c] \in Seq(RoomEvents) /\ inbox[c] \in Seq(News)
      /\ InOrder(came, <<>>, Dead(c)) /\ inbox'[c] = <<>>
  <2>1. pumps[c].batch = <<>> /\ InOrder(pumps[c].batch, inbox[c], Dead(c))
    BY <1>0 DEF Sent
  <2>2. inbox[c] \in Seq(RoomEvents) /\ RoomEvents \subseteq News
    BY <2>1 DEF InOrder, News
  <2>3. InOrder(came, <<>>, Dead(c))
    BY <2>1, PolledInOrder
  <2>4. inbox'[c] = <<>>
    BY <1>0 DEF InboxInv
  <2> QED
    BY <2>1, <2>2, <2>3, <2>4, SeqMonotonic
<1>2. \/ lost = <<>> /\ came = inbox[c]
      \/ lost = <<Gone>> /\ came = Append(inbox[c], Gone)
  <2>1. lost = <<>> \/ lost = <<Gone>>
    BY DEF Gone
  <2>2. inbox[c] \in Seq(News) /\ Gone \in News
    BY <1>1 DEF News
  <2> DEFINE box == inbox[c]
  <2> HIDE DEF lost, box
  <2>3. box \o <<>> = box
    BY <2>2, ConcatEmptySeq DEF box
  <2>4. Append(box, Gone) = box \o <<Gone>>
    BY <2>2, AppendIsConcat DEF box
  <2> QED
    BY <2>1, <2>3, <2>4, Zenon DEF box
<1>3. came \in Seq(News) /\ came \o <<>> = came /\ <<>> \o <<>> = <<>> /\ <<>> \in Seq(RoomEvents)
      /\ <<>> \o inbox[c] = inbox[c]
  <2>1. came \in Seq(News)
    BY <1>1, Zenon DEF InOrder
  <2> HIDE DEF came
  <2> QED
    BY <1>1, <2>1, ConcatEmptySeq
<1>4. CASE room
  <2> DEFINE all == Range(roster.peers)
  <2>1. LeadsTo(all, inbox[c], there)
    BY <1>0, <1>1, <1>3, <1>4 DEF OnTheWay
  <2> HIDE DEF all, lost
  <2>2. LeadsTo(all, came, there)
    <3>1. Gone \in News
      BY DEF News
    <3>2. LeadsTo(all, Append(inbox[c], Gone), Hears(there, Gone))
      BY <1>1, <2>1, <3>1, EventBehind, GoneIsNoEvent
    <3> HIDE DEF came
    <3> QED
      BY <1>2, <2>1, <3>2, GoneIsNoEvent
  <2> HIDE DEF came
  <2>3. LeadsTo(all, pumps'[c].batch \o <<>>, there)
    <3>1. \/ pumps'[c].batch = came
          \/ pumps'[c].batch = <<>> /\ (came = <<>> \/ came = <<Gone>>)
      BY <1>0, <1>1, GoesOnInOrder
    <3>2. came = <<>> \/ came = <<Gone>> => LeadsTo(all, <<>> \o <<>>, there)
      BY <1>3, <2>2, ToldAll
    <3> QED
      BY <1>3, <2>2, <3>1, <3>2
  <2> QED
    BY <1>0, <1>1, <1>4, <2>3 DEF OnTheWay, all
<1>5. CASE ~room
  <2>1. inbox[c] = <<>>
    BY <1>0, <1>5 DEF OnTheWay
  <2>2. came = <<>> \/ came = <<Gone>>
    BY <1>2, <2>1
  <2> HIDE DEF came, lost
  <2>3. pumps'[c].batch = <<>>
    <3>1. \/ came # <<>> /\ Head(came) \in RoomEvents
          \/ pumps'[c].batch = <<>>
      BY <1>0, <1>1, GoesOnInOrder
    <3>2. Head(<<Gone>>) = Gone
      OBVIOUS
    <3> QED
      BY <2>2, <3>1, <3>2, GoneIsNoEvent
  <2> QED
    BY <1>0, <1>1, <1>5, <2>3 DEF OnTheWay
<1> QED
  BY <1>4, <1>5

\* What the server tells is one step more.
LEMMA RoomTold ==
  ASSUME CoreInv, InboxInv, ThereInv, ListInv, OnTheWay, [Next]_vars, ~Moved, connection \in Conns,
         NEW c \in Conns, RoomChanges(c)
  PROVE  OnTheWay'
<1>0. /\ Sent(c) /\ UNCHANGED <<connection, room, pumps, roster>> /\ connection = c /\ room
  BY Zenon DEF InboxInv, RoomChanges, inner
<1>1. PICK e \in RoomEvents : /\ inbox' = [inbox EXCEPT ![c] = Append(@, e)]
                              /\ Likely(there, e) /\ there' = Hears(there, e)
  <2>1. CASE \E peer \in PeerInfos : /\ peer.id \notin {Own} \cup {p.id : p \in there}
                                     /\ there' = there \cup {peer}
                                     /\ Tells(c, [what |-> "joined", peer |-> peer])
    <3>1. PICK peer \in PeerInfos : /\ \A p \in there : p.id # peer.id
                                    /\ there' = there \cup {peer}
                                    /\ Tells(c, [what |-> "joined", peer |-> peer])
      BY <2>1
    <3> DEFINE e == [what |-> "joined", peer |-> peer]
    <3>2. e \in RoomEvents /\ Likely(there, e) /\ there' = Hears(there, e)
      BY <3>1 DEF RoomEvents, Likely, Hears
    <3> QED
      BY <3>1, <3>2, Zenon DEF Tells
  <2>2. CASE \E peer \in PeerInfos, known \in there :
               /\ peer.id = known.id
               /\ there' = (there \ {known}) \cup {peer}
               /\ Tells(c, [what |-> "updated", peer |-> peer])
    <3>1. PICK peer \in PeerInfos, known \in there :
               /\ peer.id = known.id
               /\ there' = (there \ {known}) \cup {peer}
               /\ Tells(c, [what |-> "updated", peer |-> peer])
      BY <2>2
    <3> DEFINE e == [what |-> "updated", peer |-> peer]
    <3>2. there \ {known} = {p \in there : p.id # peer.id}
      BY <3>1 DEF ThereInv
    <3>3. e \in RoomEvents /\ Likely(there, e) /\ there' = Hears(there, e)
      BY <3>1, <3>2 DEF RoomEvents, Likely, Hears
    <3> QED
      BY <3>1, <3>3, Zenon DEF Tells
  <2>3. CASE \E known \in there : there' = there \ {known} /\ Tells(c, [what |-> "left", peer |-> known])
    <3>1. PICK known \in there : there' = there \ {known} /\ Tells(c, [what |-> "left", peer |-> known])
      BY <2>3
    <3> DEFINE e == [what |-> "left", peer |-> known]
    <3>2. there \ {known} = {p \in there : p.id # known.id} /\ known \in PeerInfos
      BY <3>1 DEF ThereInv
    <3>3. e \in RoomEvents /\ Likely(there, e) /\ there' = Hears(there, e)
      BY <3>1, <3>2 DEF RoomEvents, Likely, Hears
    <3> QED
      BY <3>1, <3>3, Zenon DEF Tells
  <2> QED
    BY <2>1, <2>2, <2>3 DEF RoomChanges
<1>2. inbox'[c] = Append(inbox[c], e)
  BY <1>1 DEF InboxInv
<1>3. pumps[c].batch \in Seq(News) /\ inbox[c] \in Seq(News) /\ e \in News
  <2>1. pumps[c].batch \in Seq(News) /\ inbox[c] \in Seq(RoomEvents) /\ RoomEvents \subseteq News
    BY <1>0 DEF Sent, InOrder, News
  <2> QED
    BY <1>1, <2>1, SeqMonotonic
<1> DEFINE came == pumps[c].batch \o inbox[c]
           all == Range(roster.peers)
<1>4. LeadsTo(all, came, there) /\ came \in Seq(News)
  <2>1. LeadsTo(all, came, there)
    BY <1>0 DEF OnTheWay
  <2>2. came \in Seq(News)
    BY <1>3, ConcatProperties
  <2> QED
    BY <2>1, <2>2, Zenon
<1>5. pumps[c].batch \o inbox'[c] = Append(came, e)
  <2> DEFINE batch == pumps[c].batch
             box == inbox[c]
  <2>1. batch \in Seq(News) /\ box \in Seq(News)
    BY <1>3
  <2> HIDE DEF batch, box
  <2>2. batch \o Append(box, e) = Append(batch \o box, e)
    BY <1>3, <2>1, ConcatBehind
  <2> QED
    BY <1>2, <2>2 DEF batch, box
<1> HIDE DEF came, all
<1>6. LeadsTo(all, Append(came, e), there')
  BY <1>1, <1>3, <1>4, EventBehind
<1> QED
  BY <1>0, <1>5, <1>6 DEF OnTheWay, all

\* Whatever else happens, what is on its way to the list stays so.
LEMMA RoomWaiting ==
  ASSUME CoreInv, InboxInv, ThereInv, ListInv, OnTheWay, [Next]_vars, ~Moved, connection \in Conns
  PROVE  OnTheWay'
<1>0. Types /\ FlowInv /\ DOMAIN pumps = Conns /\ \A c \in Conns : IsPump(pumps[c])
  BY DEF CoreInv, Types, ConnTypes
<1>1. UNCHANGED <<connection, room>>
  BY <1>0, OthersWait
<1>2. CASE (\A c \in Conns : ~EventTurn(c)) /\ UNCHANGED <<there, inbox>>
           /\ \A d \in Conns : pumps'[d].batch = pumps[d].batch
  <2>1. roster'.peers = roster.peers
    BY <1>2, OthersLists
  <2> QED
    BY <1>1, <1>2, <2>1, RoomStays
<1>3. ASSUME NEW c \in Conns, PumpEnds(c) \/ LinkTurn(c)
      PROVE  OnTheWay'
  <2>1. \/ pumps' = [pumps EXCEPT ![c].at = "none"]
        \/ pumps' = [pumps EXCEPT ![c].at = "sleep", ![c].link = "quiet", ![c].after = 0]
    BY <1>3, Zenon DEF PumpEnds, LinkTurn
  <2>2. \A d \in Conns : pumps'[d].batch = pumps[d].batch
    BY <1>0, <2>1 DEF IsPump
  <2>3. UNCHANGED <<there, inbox>>
    BY <1>3, Zenon DEF PumpEnds, LinkTurn, registry
  <2>4. CASE \A d \in Conns : ~EventTurn(d)
    BY <1>2, <2>2, <2>3, <2>4
  <2>5. CASE \E d \in Conns : EventTurn(d)
    BY <2>5, RoomHeard
  <2> QED
    BY <2>4, <2>5
<1>4. CASE UNCHANGED <<pumps, there, inbox>>
  BY <1>2, <1>4, RoomHeard
<1>5. CASE Command
  BY <1>0, <1>4, <1>5, CommandJoins DEF registry, Types
<1> QED
  BY <1>3, <1>4, <1>5, RoomHeard, RoomRead, RoomTold
     DEF Next, vars, Moved, Pump, Lose, LinkChanges, registry

\* Every step of the specification keeps the list on its way to who is there.
LEMMA RoomStep ==
  ASSUME CoreInv, PumpInv, InboxInv, ThereInv, ListInv, RoomInv, [Next]_vars
  PROVE  RoomInv'
<1> SUFFICES ASSUME NoLeave', connection' # NoConn
             PROVE  OnTheWay'
  BY Zenon DEF RoomInv
<1>1. NoLeave
  BY LeaveStays
<1>2. CASE Moved
  BY <1>1, <1>2, RoomMoved DEF Moved, Acts
<1>3. CASE ~Moved
  <2>1. connection' = connection /\ connection \in Conns
    BY <1>3, OthersWait DEF CoreInv, Types, TaskTypes
  <2>2. OnTheWay
    BY <1>1, <2>1 DEF RoomInv
  <2> QED
    BY <1>3, <2>1, <2>2, RoomWaiting
<1> QED
  BY <1>2, <1>3

\* Only a connection is told lost.
ReportedInv == reported \subseteq Conns

\* Every step of the specification tells of connections only.
LEMMA ReportedStep ==
  ASSUME CoreInv, ReportedInv, [Next]_vars
  PROVE  ReportedInv'
<1>1. CASE Moved
  <2>1. UNCHANGED reported
    BY <1>1, Zenon DEF Moved, Step, Answer, ConnectTurn, ReconnectTurn, TurnTooLate, EnterTurn, LeaveTurn,
       TriesAgain, StartsAudio, Stops, Connects, ConnectFails, Lists, ListFails, Enters, EnterFails, Leaves,
       ClockIsRight, registry
  <2> QED
    BY <2>1 DEF ReportedInv
<1>2. CASE Command
  BY <1>2, CommandJoins DEF registry, CoreInv, Types, ReportedInv
<1>3. CASE \E c \in Conns : Pump(c)
  <2>1. PICK c \in Conns : Pump(c)
    BY <1>3
  <2>2. reported' = reported \/ reported' = reported \cup {c}
    BY <2>1, Zenon DEF Pump, PumpEnds, PumpPolls, EventTurn, LinkTurn, registry
  <2> QED
    BY <2>1, <2>2 DEF ReportedInv
<1> QED
  BY <1>1, <1>2, <1>3 DEF Next, vars, Moved, Lose, RoomChanges, LinkChanges, registry, ReportedInv

NewsInv == ThereInv /\ InboxInv /\ ListInv /\ RoomInv /\ ReportedInv

\* At first nothing was sent, and nobody is there.
LEMMA InitNews == Init => NewsInv
<1> SUFFICES ASSUME Init
             PROVE  NewsInv
  OBVIOUS
<1>1. ThereInv /\ ReportedInv
  BY DEF Init, ThereInv, ReportedInv
<1>2. ListInv
  BY EmptyLists DEF Init, ListInv, MayBe
<1>3. RoomInv
  BY DEF Init, RoomInv
<1>4. InboxInv
  <2>1. /\ <<>> \in Seq(News) /\ <<>> \in Seq(RoomEvents) /\ DOMAIN <<>> = {}
        /\ DOMAIN inbox = Conns
        /\ \A c \in Conns : inbox[c] = <<>> /\ pumps[c].batch = <<>> /\ pumps[c].at = "none"
    BY DEF Init
  <2> QED
    BY <2>1 DEF InboxInv, Sent, InOrder
<1> QED
  BY <1>1, <1>2, <1>3, <1>4 DEF NewsInv

\* What is told of a room is kept by every step of the specification.
LEMMA StepNews == CoreInv /\ PumpInv /\ NewsInv /\ [Next]_vars => NewsInv'
BY ThereStep, InboxStep, ListStep, RoomStep, ReportedStep DEF NewsInv

-----------------------------------------------------------------------------
IInv == CoreInv /\ PumpInv /\ FlowExact /\ EpochInv /\ LeftInv /\ NewsInv

\* The inductive invariant holds at first.
LEMMA InitInv == Init => IInv
<1> SUFFICES ASSUME Init
             PROVE  IInv
  OBVIOUS
<1>1. CoreInv
  BY InitCore
<1>2. /\ tasks = <<NewTask("connect", 1)>> /\ flow = <<InTurn(1)>> /\ epoch = 1 /\ wish = "none"
      /\ \A c \in Conns : pumps[c].at = "none"
  BY DEF Init
<1> DEFINE t == NewTask("connect", 1)
<1>3. t.kind = "connect" /\ t.epoch = 1 /\ t.place = "turn"
  BY NewTaskIs DEF Kinds
<1>4. DOMAIN tasks = {1} /\ tasks[1] = t /\ DOMAIN flow = {1} /\ flow[1] = InTurn(1)
  BY <1>2
<1> HIDE DEF t
<1>5. PumpInv /\ EpochInv /\ LeftInv
  BY <1>2, <1>3, <1>4 DEF PumpInv, EpochInv, Numbered, Reaches, LeftInv
<1>6. FlowExact
  <2>1. \A id : TaskWaits(id) <=> id = 1
    BY <1>3, <1>4 DEF TaskWaits, Rests
  <2>2. \A c : ~PumpWaits(c)
    BY <1>2 DEF PumpWaits
  <2>3. \A x : In(x, flow) <=> x = InTurn(1)
    BY <1>4 DEF In
  <2>4. Once(flow)
    BY <1>4 DEF Once
  <2> QED
    BY <2>1, <2>2, <2>3, <2>4, Zenon DEF FlowExact, Waiting
<1> QED
  BY <1>1, <1>5, <1>6, InitNews DEF IInv

\* It is inductive.
LEMMA StepInv == IInv /\ [Next]_vars => IInv'
BY StepCore, PumpStep, ExactStep, EpochStep, LeftStep, StepNews DEF IInv

\* The flow, said as who is at work and which pumps have something to tell.
LEMMA ExactIsOnce ==
  ASSUME FlowExact
  PROVE  EachWaitsOnce
<1>1. /\ \A i, j \in DOMAIN flow : flow[i] = flow[j] => i = j
      /\ \A x : (\E i \in DOMAIN flow : flow[i] = x) <=> Waiting(x)
  BY DEF FlowExact, Once, In
<1>2. \A id : TaskWaits(id) <=> id \in Working
  BY DEF TaskWaits, Rests, Working, Running
<1>3. \A x : Waiting(x) <=> \/ \E id \in Working : x = InTurn(id)
                           \/ \E c \in Conns : pumps[c].at \in {"event", "link"} /\ x = InPump(c)
  BY <1>2 DEF Waiting, PumpWaits
<1>4. IsInjective(flow)
  BY <1>1, Zenon DEF IsInjective
<1> DEFINE waiting == {InTurn(id) : id \in Working}
                        \cup {InPump(c) : c \in {d \in Conns : pumps[d].at \in {"event", "link"}}}
<1>5. \A x : x \in Range(flow) <=> x \in waiting
  <2>1. \A x : x \in Range(flow) <=> Waiting(x)
    BY <1>1, Zenon DEF Range
  <2>2. \A x : x \in waiting <=> Waiting(x)
    BY <1>3, Zenon
  <2> QED
    BY <2>1, <2>2, Zenon
<1>6. Range(flow) = waiting
  BY <1>5
<1> QED
  BY <1>4, <1>6, Zenon DEF EachWaitsOnce

\* The inductive invariant.
THEOREM Invariant == Spec => []IInv
BY InitInv, StepInv, PTL DEF Spec

\* The screen can be drawn from any snapshot, whatever is done, lost and got
\* back (Snapshot).
THEOREM ScreenIsCoherent == Spec => []ScreenCoherent
<1>1. IInv => ScreenCoherent
  BY DEF IInv, CoreInv, ScreenInv
<1> QED
  BY <1>1, Invariant, PTL

\* When nobody holds the flow the audio is with whom the roster says, and only
\* in a room (run_audio).
THEOREM AudioSettles == Spec => []AudioIsTheRosters
<1>1. IInv => AudioIsTheRosters
  <2> SUFFICES ASSUME IInv, flow = <<>>
               PROVE  audio.with = roster.with /\ (audio.with # Nobody => room)
    BY DEF AudioIsTheRosters
  <2>1. \A who : ~In(who, flow)
    BY DEF In
  <2>2. \A id \in DOMAIN tasks : Rests(tasks[id])
    BY <2>1 DEF IInv, CoreInv, FlowInv
  <2> QED
    BY <2>2 DEF IInv, CoreInv, AudioInv, Superseded, Superseding, Rests
<1> QED
  BY <1>1, Invariant, PTL

\* No connection is left open with nobody to close it, whichever step is ended
\* where (drop_connection).
THEOREM NoneLeaked == Spec => []NoConnectionLeaked
<1>1. IInv => NoConnectionLeaked
  BY DEF IInv, CoreInv, ConnInv, Regained, NoConnectionLeaked, Working, Running
<1> QED
  BY <1>1, Invariant, PTL

\* While the screen says connecting a step that was not ended is at it
\* (next_epoch, spawn_pump).
THEOREM AlwaysAtIt == Spec => []SomebodyIsAtIt
<1>1. IInv => SomebodyIsAtIt
  BY PursuedBy, SupersededIsPursued DEF IInv, CoreInv, WatchInv, Watched, Connecting, SomebodyIsAtIt
<1> QED
  BY <1>1, Invariant, PTL

\* The flow is held and waited for by exactly those who are at such a place, by
\* each once.
THEOREM TurnsAreExact == Spec => []EachWaitsOnce
<1>1. IInv => EachWaitsOnce
  BY ExactIsOnce DEF IInv
<1> QED
  BY <1>1, Invariant, PTL

\* Whoever asked to leave last is in no room once every step is done (leave).
THEOREM LeftIsLeft == Spec => []LeftForGood
<1>1. IInv => LeftForGood
  <2> SUFFICES ASSUME IInv, wish = "left", AllDone
               PROVE  ~room
    BY DEF LeftForGood
  <2>1. \A w \in DOMAIN tasks : ~IsToLeave(w) /\ ~IsToConnect(w)
    BY DEF AllDone, Running, IsToLeave, IsToConnect, Superseding
  <2> QED
    BY <2>1 DEF IInv, LeftInv, NoneEnters
<1> QED
  BY <1>1, Invariant, PTL

\* With every event read and handled, the list of peers is who the server has in the
\* room, through joins, updates, losses and rejoins, as long as no room was left
\* (handle_events, enter_room, try_reconnect).
THEOREM ListCatchesUp == Spec => []RosterCatchesUp
<1>1. IInv => RosterCatchesUp
  <2> SUFFICES ASSUME IInv, room, connection # NoConn, Caught(connection), NoLeave
               PROVE  RosterIsThere
    BY DEF RosterCatchesUp, NoLeave
  <2>1. LeadsTo(Range(roster.peers), pumps[connection].batch \o inbox[connection], there)
    BY DEF IInv, NewsInv, RoomInv, OnTheWay
  <2>2. pumps[connection].batch \o inbox[connection] = <<>>
    BY DEF Caught
  <2>3. LeadsTo(Range(roster.peers), <<>>, there)
    BY <2>1, <2>2
  <2>4. Range(roster.peers) = there
    BY <2>3, NoEvents
  <2> QED
    BY <2>4 DEF RosterIsThere
<1> QED
  BY <1>1, Invariant, PTL

\* Every variable has its type, and the flow is of those who wait for it.
THEOREM TypesHold == Spec => []TypeOK
<1>1. IInv => TypeOK
  <2> SUFFICES ASSUME IInv
               PROVE  TypeOK
    OBVIOUS
  <2>1. /\ epoch \in Nat /\ phase \in Phases /\ connection \in Conns \cup {NoConn}
        /\ {joining, error, room} \subseteq BOOLEAN
        /\ reconnect \in {"idle", "reconnecting", "failed"}
        /\ conns \in [Conns -> {"none", "open", "lost", "closed"}]
    BY DEF IInv, CoreInv, Types, TaskTypes, ScreenTypes, ConnTypes
  <2>2. \A id \in DOMAIN tasks : tasks[id].place \in Places /\ tasks[id].kind \in Kinds
    BY DEF IInv, CoreInv, Types, TaskTypes, IsTask
  <2>3. /\ roster.peers \in Seq(PeerInfos) /\ roster.with \in Ids \cup {Nobody}
        /\ audio.with \in Ids \cup {Nobody} /\ reported \subseteq Conns
    BY DEF IInv, NewsInv, ListInv, Listing, MayBe, ReportedInv
  <2>4. EachWaitsOnce
    BY ExactIsOnce DEF IInv
  <2> QED
    BY <2>1, <2>2, <2>3, <2>4, Zenon DEF TypeOK
<1> QED
  BY <1>1, Invariant, PTL
===============================================================================
