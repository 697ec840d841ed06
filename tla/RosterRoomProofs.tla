--------------------------- MODULE RosterRoomProofs ---------------------------
(***************************************************************************)
(* Proofs about RosterRoom: whatever decision of the roster is carried     *)
(* out, and whatever of it fails, the audio is as the roster has it, with  *)
(* someone the server lists, on a port the room knows; and nobody who can  *)
(* be heard is passed over.                                                *)
(***************************************************************************)
EXTENDS RosterRoom, RosterProofs, FiniteSetTheorems

-----------------------------------------------------------------------------
(* The audio. *)

\* The audio's record: no audio has no port, an audio that runs has used the socket
\* up, and what the room was told of it is the port it took over.
AudioOK(a) ==
    /\ a \in [with : Ids \cup {Nobody}, port : Ports, socket : Ports, lastPort : Ports,
              usedUp : BOOLEAN, unpublished : BOOLEAN]
    /\ a.with = Nobody => a.port = "none"
    /\ a.with # Nobody => a.socket = "none"
    /\ a.port = "told" => a.lastPort = "told"

\* The room knows a port that is listened on, or a failed start closed it and none was
\* bound since, or the room could not be told.
Heard(a) ==
    \/ a.unpublished \/ a.socket = "told" \/ a.port = "told"
    \/ a.usedUp /\ a.socket = "none" /\ a.lastPort = "told"
\* The port the room knows was let go of, and may be had again.
Missed(a) == a.socket = "none" /\ a.port = "none" /\ a.lastPort = "told"

\* A stop lets the port go.
LEMMA StopIs ==
  ASSUME NEW a, AudioOK(a)
  PROVE  LET b == StopAudio(a)
         IN  /\ AudioOK(b) /\ b.with = Nobody
             /\ Heard(a) => Heard(b) \/ Missed(b)
  BY DEF AudioOK, Heard, Missed, StopAudio, Ports

\* With no audio, telling the room a socket's port, or keeping the one it knows, has
\* it heard.
LEMMA OfAddressIs ==
  ASSUME NEW a, AudioOK(a), a.with = Nobody, NEW x, IsOfAddress(x),
         NEW how \in Outcomes, NEW ok \in BOOLEAN
  PROVE  LET b == CarryOut(a, x, how, ok)
         IN  /\ AudioOK(b) /\ b.with = Nobody
             /\ x.do = "advertise" \/ Heard(a) \/ Missed(a) => Heard(b)
<1> DEFINE b == AdvertiseSocket(a, how)
           c == [a EXCEPT !.socket = a.lastPort, !.usedUp = FALSE,
                          !.unpublished = @ /\ a.lastPort # "told"]
<1>1. AudioOK(b) /\ b.with = Nobody /\ Heard(b)
  <2> DEFINE none == [a EXCEPT !.usedUp = FALSE, !.unpublished = TRUE]
             bound == [PrepareSocket(a) EXCEPT !.usedUp = FALSE]
             quiet == [bound EXCEPT !.unpublished = TRUE]
             told == [bound EXCEPT !.socket = "told", !.unpublished = FALSE,
                                   !.port = Untold(@), !.lastPort = Untold(@)]
  <2>1. AudioOK(none) /\ none.with = Nobody /\ none.unpublished
    BY DEF AudioOK, Ports
  <2>2. /\ AudioOK(bound) /\ bound.with = Nobody
        /\ bound.socket = IF a.socket = "none" THEN "untold" ELSE a.socket
    BY DEF AudioOK, PrepareSocket, Ports
  <2>3. /\ AudioOK(quiet) /\ quiet.with = Nobody /\ quiet.unpublished
        /\ AudioOK(told) /\ told.with = Nobody /\ told.socket = "told"
    <3> HIDE DEF bound
    <3> QED
      BY <2>2 DEF AudioOK, Ports, Untold
  <2>4. \/ b = none \/ b = quiet \/ b = told
        \/ b = bound /\ a.socket = "told"
    BY DEF AdvertiseSocket
  <2> HIDE DEF b, none, bound, quiet, told
  <2> QED
    BY <2>1, <2>2, <2>3, <2>4 DEF Heard
<1>2. a.socket = "none" => AudioOK(c) /\ c.with = Nobody /\ (Heard(a) \/ Missed(a) => Heard(c))
  <2>1. /\ c.with = a.with /\ c.port = a.port /\ c.socket = a.lastPort
        /\ c.lastPort = a.lastPort /\ c.usedUp = FALSE
        /\ c.unpublished = (a.unpublished /\ a.lastPort # "told")
    BY DEF AudioOK
  <2>2. c \in [with : Ids \cup {Nobody}, port : Ports, socket : Ports, lastPort : Ports,
              usedUp : BOOLEAN, unpublished : BOOLEAN]
    <3>1. (a.unpublished /\ a.lastPort # "told") \in BOOLEAN
      OBVIOUS
    <3> QED
      BY <3>1 DEF AudioOK
  <2> HIDE DEF c
  <2> QED
    BY <2>1, <2>2 DEF AudioOK, Heard, Missed, Ports
<1>3. x.do = "advertise" => CarryOut(a, x, how, ok) = b
  BY DEF CarryOut
<1>4. CASE x.do = "keepAddress"
  <2>1. CarryOut(a, x, how, ok) = KeepsAddress(a, how)
    BY <1>4 DEF CarryOut
  <2>2. KeepsAddress(a, how) = b \/ (a.socket = "none" /\ KeepsAddress(a, how) = c)
    BY DEF KeepsAddress
  <2> HIDE DEF b, c
  <2> QED
    BY <1>1, <1>2, <1>4, <2>1, <2>2
<1> HIDE DEF b, c
<1> QED
  BY <1>1, <1>3, <1>4 DEF IsOfAddress

\* With no audio, a start takes the socket, and with it the port the room knows.
LEMMA StartIs ==
  ASSUME NEW a, AudioOK(a), a.with = Nobody, NEW s, s.do = "start", s.peer \in Ids,
         NEW how \in Outcomes, NEW ok \in BOOLEAN
  PROVE  LET b == CarryOut(a, s, how, ok)
         IN  /\ AudioOK(b) /\ b.with = IF ok THEN s.peer ELSE Nobody
             /\ Heard(a) => Heard(b)
<1> DEFINE taken == [a EXCEPT !.socket = "none",
                              !.lastPort = IF a.socket # "none" THEN a.socket ELSE @]
           on == [taken EXCEPT !.with = s.peer, !.port = PrepareSocket(a).socket]
           off == [taken EXCEPT !.usedUp = @ \/ a.socket = "told"]
<1>1. CarryOut(a, s, how, ok) = IF ok THEN on ELSE off
  <2>1. CarryOut(a, s, how, ok) = StartAudio(a, s.peer, ok)
    BY DEF CarryOut
  <2>2. StartAudio(a, s.peer, ok) = IF ok THEN on ELSE off
    BY DEF StartAudio
  <2> QED
    BY <2>1, <2>2
<1>2. PrepareSocket(a).socket = IF a.socket = "none" THEN "untold" ELSE a.socket
  BY DEF PrepareSocket, AudioOK
<1>3. AudioOK(on) /\ on.with = s.peer /\ (Heard(a) => Heard(on))
  <2>1. s.peer # Nobody
    BY RosterAssumption
  <2> DEFINE bound == PrepareSocket(a).socket
  <2> HIDE DEF bound
  <2>2. bound \in {"told", "untold"} /\ (bound = "told" <=> a.socket = "told")
    BY <1>2 DEF AudioOK, Ports, bound
  <2> QED
    BY <2>1, <2>2 DEF AudioOK, Heard, Ports, bound
<1>4. AudioOK(off) /\ off.with = Nobody /\ (Heard(a) => Heard(off))
  <2>1. (a.usedUp \/ a.socket = "told") \in BOOLEAN
    OBVIOUS
  <2>2. /\ off \in [with : Ids \cup {Nobody}, port : Ports, socket : Ports, lastPort : Ports,
                   usedUp : BOOLEAN, unpublished : BOOLEAN]
        /\ off.with = Nobody /\ off.port = a.port /\ off.socket = "none"
        /\ off.lastPort = IF a.socket # "none" THEN a.socket ELSE a.lastPort
        /\ off.usedUp = (a.usedUp \/ a.socket = "told") /\ off.unpublished = a.unpublished
    BY <2>1 DEF AudioOK, Ports
  <2> HIDE DEF off
  <2> QED
    BY <2>2 DEF AudioOK, Heard
<1> HIDE DEF on, off
<1> QED
  BY <1>1, <1>3, <1>4

\* The audio after each of the first n things to do.
AfterEach(a, todo, how, ok, after, n) ==
    after = [i \in 0 .. n |-> IF i = 0 THEN a ELSE CarryOut(after[i - 1], todo[i], how, ok)]

\* However much there is to do, there is an audio after each thing.
LEMMA AfterExists ==
  ASSUME NEW a, NEW todo, NEW how, NEW ok, NEW n \in Nat
  PROVE  \E after : AfterEach(a, todo, how, ok, after, n)
<1> DEFINE T == {m \in Nat : ~\E after : AfterEach(a, todo, how, ok, after, m)}
<1>1. SUFFICES ASSUME T # {} PROVE FALSE
  OBVIOUS
<1>2. PICK m \in T : \A y \in T : m <= y
  BY <1>1, Least, Zenon
<1>3. CASE m = 0
  <2>1. AfterEach(a, todo, how, ok, [i \in 0 .. 0 |-> a], 0)
    BY DEF AfterEach
  <2> QED
    BY <1>2, <1>3, <2>1, Zenon
<1>4. CASE m # 0
  <2>1. m - 1 \in Nat /\ m - 1 \notin T
    BY <1>2, <1>4
  <2>2. PICK after : AfterEach(a, todo, how, ok, after, m - 1)
    BY <2>1, Zenon
  <2> DEFINE next == CarryOut(after[m - 1], todo[m], how, ok)
             more == [i \in 0 .. m |-> IF i = m THEN next ELSE after[i]]
  <2>3. ASSUME NEW i \in 0 .. m
        PROVE  more[i] = IF i = 0 THEN a ELSE CarryOut(more[i - 1], todo[i], how, ok)
    <3>1. CASE i = m
      <4>1. more[i] = next /\ more[i - 1] = after[m - 1]
        BY <1>2, <1>4, <3>1
      <4> HIDE DEF more
      <4> QED
        BY <1>4, <3>1, <4>1, Zenon
    <3>2. CASE i # m
      <4>1. i \in 0 .. m - 1 /\ (i # 0 => i - 1 \in 0 .. m - 1)
        BY <1>2, <1>4, <3>2
      <4>2. more[i] = after[i] /\ (i # 0 => more[i - 1] = after[i - 1])
        BY <1>2, <3>2, <4>1
      <4>3. after[i] = IF i = 0 THEN a ELSE CarryOut(after[i - 1], todo[i], how, ok)
        BY <2>2, <4>1, Zenon DEF AfterEach
      <4> HIDE DEF more
      <4> QED
        BY <4>2, <4>3, Zenon
    <3> QED
      BY <3>1, <3>2
  <2>4. more = [i \in 0 .. m |-> more[i]]
    OBVIOUS
  <2> HIDE DEF more
  <2>5. more = [i \in 0 .. m |-> IF i = 0 THEN a ELSE CarryOut(more[i - 1], todo[i], how, ok)]
    BY <2>3, <2>4, Zenon
  <2>6. AfterEach(a, todo, how, ok, more, m)
    BY <2>5, Zenon DEF AfterEach
  <2> QED
    BY <1>2, <2>6, Zenon
<1> QED
  BY <1>3, <1>4

\* The audio is a at first, and after[i] when i things are done.
InTurns(a, todo, how, ok, after) ==
    /\ after[0] = a
    /\ \A i \in 1 .. Len(todo) : after[i] = CarryOut(after[i - 1], todo[i], how, ok)
    /\ CarryOutAll(a, todo, how, ok) = after[Len(todo)]

\* What all there is to do comes to, one thing after the other.
LEMMA AllInTurn ==
  ASSUME NEW a, NEW todo, NEW how, NEW ok, Len(todo) \in Nat
  PROVE  \E after : InTurns(a, todo, how, ok, after)
<1> DEFINE n == Len(todo)
           after == CHOOSE f : AfterEach(a, todo, how, ok, f, n)
<1>1. AfterEach(a, todo, how, ok, after, n)
  BY AfterExists, Zenon
<1>2. CarryOutAll(a, todo, how, ok) = after[n]
  BY Zenon DEF CarryOutAll, AfterEach
<1> HIDE DEF after
<1>3. \A i \in 0 .. n : after[i] = IF i = 0 THEN a ELSE CarryOut(after[i - 1], todo[i], how, ok)
  BY <1>1, Zenon DEF AfterEach
<1>4. /\ after[0] = a
      /\ \A i \in 1 .. n : after[i] = CarryOut(after[i - 1], todo[i], how, ok)
  BY <1>3
<1> QED
  BY <1>2, <1>4, Zenon DEF InTurns

\* Whatever comes of it, carrying out d from a leaves the audio with whom d leaves the
\* roster with, or that one's could not be started; if `heard`, this app is heard.
WellDone(a, d, heard) ==
    \A how \in Outcomes, ok \in BOOLEAN :
        LET b == CarryOutAll(a, d.audio, how, ok)
            starts == {d.audio[i].peer : i \in {j \in DOMAIN d.audio : d.audio[j].do = "start"}}
        IN  /\ AudioOK(b) /\ (heard => Heard(b))
            /\ \/ starts = {} /\ b.with = d.roster.with
               \/ starts = {d.roster.with} /\ ok /\ b.with = d.roster.with
               \/ starts = {d.roster.with} /\ ~ok /\ b.with = Nobody

\* A sound decision is carried out well.
LEMMA SoundWellDone ==
  ASSUME NEW a, AudioOK(a), NEW d, Sound(d, a.with), d.roster.with \in Ids \cup {Nobody},
         Someone(d)
  PROVE  WellDone(a, d, Heard(a))
<1> SUFFICES ASSUME NEW how \in Outcomes, NEW ok \in BOOLEAN
             PROVE  LET b == CarryOutAll(a, d.audio, how, ok)
                        starts == {d.audio[i].peer :
                                     i \in {j \in DOMAIN d.audio : d.audio[j].do = "start"}}
                    IN  /\ AudioOK(b) /\ (Heard(a) => Heard(b))
                        /\ \/ starts = {} /\ b.with = d.roster.with
                           \/ starts = {d.roster.with} /\ ok /\ b.with = d.roster.with
                           \/ starts = {d.roster.with} /\ ~ok /\ b.with = Nobody
  BY Zenon DEF WellDone
<1> DEFINE b == CarryOutAll(a, d.audio, how, ok)
           starts == {d.audio[i].peer : i \in {j \in DOMAIN d.audio : d.audio[j].do = "start"}}
           carried(x, y) == CarryOut(x, y, how, ok)
<1>0. Stop.do = "stop"
  BY DEF Stop
<1>1. CASE Starts(d, a.with)
  <2>1. CASE d.audio = <<>> /\ d.roster.with = a.with
    <3>1. b = a
      <4>1. Len(d.audio) = 0 /\ Len(d.audio) \in Nat
        BY <2>1
      <4>2. PICK f : InTurns(a, d.audio, how, ok, f)
        BY <4>1, AllInTurn, Zenon
      <4> QED
        BY <4>1, <4>2 DEF InTurns
    <3>2. starts = {}
      BY <2>1
    <3> QED
      BY <2>1, <3>1, <3>2
  <2>2. ASSUME a.with = Nobody, NEW s, d.audio = <<s>>, s.do = "start", s.peer = d.roster.with
        PROVE  /\ AudioOK(b) /\ (Heard(a) => Heard(b)) /\ starts = {d.roster.with}
               /\ b.with = IF ok THEN d.roster.with ELSE Nobody
    <3>1. Len(d.audio) = 1 /\ DOMAIN d.audio = {1} /\ d.audio[1] = s
      BY <2>2
    <3>2. b = carried(a, s)
      <4>0. Len(d.audio) \in Nat
        BY <3>1
      <4>1. PICK f : InTurns(a, d.audio, how, ok, f)
        BY <4>0, AllInTurn, Zenon
      <4>2. f[1] = carried(f[0], d.audio[1])
        BY <3>1, <4>1 DEF InTurns
      <4> QED
        BY <3>1, <4>1, <4>2 DEF InTurns
    <3>3. starts = {d.roster.with}
      BY <2>2, <3>1
    <3>4. s.peer \in Ids
      BY <2>2, <3>1 DEF Someone
    <3> QED
      BY <2>2, <3>2, <3>3, <3>4, StartIs
  <2> QED
    BY <1>1, <2>1, <2>2 DEF Starts
<1>2. CASE StopsFirst(d)
  <2>1. PICK x : /\ IsOfAddress(x)
                 /\ \/ d.audio = <<Stop, x>> /\ d.roster.with = Nobody
                    \/ \E s : /\ d.audio = <<Stop, x, s>>
                              /\ s.do = "start" /\ s.peer = d.roster.with
    BY <1>2, Zenon DEF StopsFirst
  <2> DEFINE off == carried(a, Stop)
             known == carried(off, x)
  <2>2. AudioOK(off) /\ off.with = Nobody /\ (Heard(a) => Heard(off) \/ Missed(off))
    <3>1. off = StopAudio(a)
      BY <1>0 DEF CarryOut
    <3> QED
      BY <3>1, StopIs
  <2> HIDE DEF off
  <2>3. AudioOK(known) /\ known.with = Nobody /\ (Heard(a) => Heard(known))
    BY <2>1, <2>2, OfAddressIs
  <2>4. x.do # "start" /\ Stop.do # "start"
    BY <1>0, <2>1 DEF IsOfAddress
  <2> HIDE DEF known
  <2>5. CASE d.audio = <<Stop, x>> /\ d.roster.with = Nobody
    <3>1. Len(d.audio) = 2 /\ DOMAIN d.audio = {1, 2} /\ d.audio[1] = Stop /\ d.audio[2] = x
      BY <2>5
    <3>2. b = known
      <4>0. Len(d.audio) \in Nat
        BY <3>1
      <4>1. PICK f : InTurns(a, d.audio, how, ok, f)
        BY <4>0, AllInTurn, Zenon
      <4>2. f[1] = carried(f[0], d.audio[1])
        BY <3>1, <4>1 DEF InTurns
      <4>3. f[2] = carried(f[1], d.audio[2])
        BY <3>1, <4>1 DEF InTurns
      <4> QED
        BY <3>1, <4>1, <4>2, <4>3 DEF known, off, InTurns
    <3>3. starts = {}
      BY <2>4, <3>1
    <3> QED
      BY <2>3, <2>5, <3>2, <3>3
  <2>6. ASSUME NEW s, d.audio = <<Stop, x, s>>, s.do = "start", s.peer = d.roster.with
        PROVE  /\ AudioOK(b) /\ (Heard(a) => Heard(b)) /\ starts = {d.roster.with}
               /\ b.with = IF ok THEN d.roster.with ELSE Nobody
    <3>1. /\ Len(d.audio) = 3 /\ DOMAIN d.audio = {1, 2, 3}
          /\ d.audio[1] = Stop /\ d.audio[2] = x /\ d.audio[3] = s
      BY <2>6
    <3>2. b = carried(known, s)
      <4>0. Len(d.audio) \in Nat
        BY <3>1
      <4>1. PICK f : InTurns(a, d.audio, how, ok, f)
        BY <4>0, AllInTurn, Zenon
      <4>2. f[1] = carried(f[0], d.audio[1])
        BY <3>1, <4>1 DEF InTurns
      <4>3. f[2] = carried(f[1], d.audio[2])
        BY <3>1, <4>1 DEF InTurns
      <4>4. f[3] = carried(f[2], d.audio[3])
        BY <3>1, <4>1 DEF InTurns
      <4> QED
        BY <3>1, <4>1, <4>2, <4>3, <4>4 DEF known, off, InTurns
    <3>3. starts = {d.roster.with}
      BY <2>4, <2>6, <3>1
    <3>4. s.peer \in Ids
      BY <2>6, <3>1 DEF Someone
    <3>5. /\ AudioOK(b) /\ b.with = (IF ok THEN s.peer ELSE Nobody)
          /\ Heard(known) => Heard(b)
      <4> HIDE DEF b
      <4> QED
        BY <2>3, <2>6, <3>2, <3>4, StartIs, Zenon
    <3> HIDE DEF b, starts
    <3> QED
      BY <2>3, <2>6, <3>3, <3>5
  <2> QED
    BY <2>1, <2>5, <2>6
<1> QED
  BY <1>1, <1>2 DEF Sound

\* What is to be done for someone who has entered a room is carried out well.
LEMMA EnteringWellDone ==
  ASSUME NEW a, AudioOK(a), a.with = Nobody, NEW d, ToStart(d.roster, d.audio),
         d.roster.with \in Ids \cup {Nobody}, Someone(d)
  PROVE  WellDone(a, d, TRUE)
<1> SUFFICES ASSUME NEW how \in Outcomes, NEW ok \in BOOLEAN
             PROVE  LET b == CarryOutAll(a, d.audio, how, ok)
                        starts == {d.audio[i].peer :
                                     i \in {j \in DOMAIN d.audio : d.audio[j].do = "start"}}
                    IN  /\ AudioOK(b) /\ Heard(b)
                        /\ \/ starts = {} /\ b.with = d.roster.with
                           \/ starts = {d.roster.with} /\ ok /\ b.with = d.roster.with
                           \/ starts = {d.roster.with} /\ ~ok /\ b.with = Nobody
  BY Zenon DEF WellDone
<1> DEFINE b == CarryOutAll(a, d.audio, how, ok)
           starts == {d.audio[i].peer : i \in {j \in DOMAIN d.audio : d.audio[j].do = "start"}}
           told == CarryOut(a, Advertise, how, ok)
<1>1. Advertise.do = "advertise" /\ IsOfAddress(Advertise)
  BY DEF Advertise, IsOfAddress
<1>2. AudioOK(told) /\ told.with = Nobody /\ Heard(told)
  BY <1>1, OfAddressIs
<1> HIDE DEF told
<1>3. CASE d.audio = <<Advertise>> /\ d.roster.with = Nobody
  <2>1. Len(d.audio) = 1 /\ DOMAIN d.audio = {1} /\ d.audio[1] = Advertise /\ Len(d.audio) \in Nat
    BY <1>3
  <2>2. PICK f : InTurns(a, d.audio, how, ok, f)
    BY <2>1, AllInTurn, Zenon
  <2>3. f[1] = CarryOut(f[0], d.audio[1], how, ok)
    BY <2>1, <2>2 DEF InTurns
  <2>4. b = told
    BY <2>1, <2>2, <2>3 DEF InTurns, told
  <2>5. starts = {}
    BY <1>1, <2>1
  <2> QED
    BY <1>2, <1>3, <2>4, <2>5
<1>4. ASSUME NEW s, d.audio = <<Advertise, s>>, s.do = "start", s.peer = d.roster.with
      PROVE  /\ AudioOK(b) /\ Heard(b) /\ starts = {d.roster.with}
             /\ b.with = IF ok THEN d.roster.with ELSE Nobody
  <2>1. /\ Len(d.audio) = 2 /\ DOMAIN d.audio = {1, 2} /\ d.audio[1] = Advertise /\ d.audio[2] = s
        /\ Len(d.audio) \in Nat
    BY <1>4
  <2>2. PICK f : InTurns(a, d.audio, how, ok, f)
    BY <2>1, AllInTurn, Zenon
  <2>3. f[1] = CarryOut(f[0], d.audio[1], how, ok)
    BY <2>1, <2>2 DEF InTurns
  <2>4. f[2] = CarryOut(f[1], d.audio[2], how, ok)
    BY <2>1, <2>2 DEF InTurns
  <2>5. b = CarryOut(told, s, how, ok)
    BY <2>1, <2>2, <2>3, <2>4 DEF InTurns, told
  <2>6. starts = {d.roster.with}
    BY <1>1, <1>4, <2>1
  <2>7. s.peer \in Ids
    BY <1>4, <2>1 DEF Someone
  <2>8. AudioOK(b) /\ b.with = (IF ok THEN s.peer ELSE Nobody) /\ (Heard(told) => Heard(b))
    <3> HIDE DEF b
    <3> QED
      BY <1>2, <1>4, <2>5, <2>7, StartIs, Zenon
  <2> HIDE DEF b, starts
  <2> QED
    BY <1>2, <1>4, <2>6, <2>8
<1> QED
  BY <1>3, <1>4 DEF ToStart

-----------------------------------------------------------------------------
(* The room. *)

\* The audio is as the roster has it, and a port is known that is listened on.
SoundInv ==
    /\ AudioOK(Audio)
    /\ roster.with = with
    /\ InRoom => Heard(Audio)
    /\ ~InRoom => with = Nobody

\* The participants of the room: nobody has published before joining, and this app's
\* entries are its own.
PeopleInv ==
    /\ own \in OwnIds \cup {Nobody}
    /\ status \in [Ids -> {"new", "here", "gone"}]
    /\ addr \in [Ids -> {0} \cup Addresses]
    /\ \A id \in Ids \ OwnIds : status[id] = "new" => addr[id] = 0
    /\ failures \in 0 .. MaxFailures

\* What the roster knows is what the server lists, while it is in the room.
KnownInv ==
    /\ roster.ownIds \subseteq OwnIds
    /\ Known(roster, IF InRoom THEN Listed ELSE Ids)
    /\ InRoom /\ failures = 0 => Complete(roster)

Inv == SoundInv /\ PeopleInv /\ KnownInv

\* A decision carried out well: roster and audio agree, and a failed start is the only
\* reason somebody is passed over.
LEMMA RunsWell ==
  ASSUME NEW d, NEW here, NEW heard, WellDone(Audio, d, heard), RunAudio(d),
         Known(d.roster, here), MaxFailures \in Nat, failures \in 0 .. MaxFailures
  PROVE  /\ AudioOK(Audio') /\ roster'.with = with' /\ (heard => Heard(Audio'))
         /\ Known(roster', here) /\ roster'.ownIds = d.roster.ownIds
         /\ failures' \in 0 .. MaxFailures
         /\ failures' = 0 => failures = 0 /\ roster' = d.roster
<1> DEFINE after(how, ok) == CarryOutAll(Audio, d.audio, how, ok)
           starts == {d.audio[i].peer : i \in {j \in DOMAIN d.audio : d.audio[j].do = "start"}}
<1>1. PICK how \in Outcomes, ok \in (IF failures < MaxFailures THEN BOOLEAN ELSE {TRUE}) :
        /\ with' = after(how, ok).with /\ port' = after(how, ok).port
        /\ socket' = after(how, ok).socket /\ lastPort' = after(how, ok).lastPort
        /\ usedUp' = after(how, ok).usedUp /\ unpublished' = after(how, ok).unpublished
        /\ IF starts # {} /\ after(how, ok).with \notin starts
           THEN /\ roster' = StartFailed(d.roster, CHOOSE p \in starts : TRUE)
                /\ failures' = failures + 1
           ELSE roster' = d.roster /\ UNCHANGED failures
  <2> DEFINE endsUp(b) ==
               /\ with' = b.with /\ port' = b.port
               /\ socket' = b.socket /\ lastPort' = b.lastPort
               /\ usedUp' = b.usedUp /\ unpublished' = b.unpublished
               /\ IF starts # {} /\ b.with \notin starts
                  THEN /\ roster' = StartFailed(d.roster, CHOOSE p \in starts : TRUE)
                       /\ failures' = failures + 1
                  ELSE roster' = d.roster /\ UNCHANGED failures
  <2>1. PICK b \in CarriedOut(d.audio) : endsUp(b)
    BY Zenon DEF RunAudio
  <2>2. PICK how \in Outcomes, ok \in (IF failures < MaxFailures THEN BOOLEAN ELSE {TRUE}) :
          b = after(how, ok)
    <3> DEFINE oks == IF failures < MaxFailures THEN BOOLEAN ELSE {TRUE}
    <3>1. PICK e \in [how : Outcomes, ok : oks] : b = after(e.how, e.ok)
      BY <2>1, Zenon DEF CarriedOut
    <3> HIDE DEF oks, after
    <3>2. e.how \in Outcomes /\ e.ok \in oks
      OBVIOUS
    <3> QED
      BY <3>1, <3>2, Zenon DEF oks
  <2>3. endsUp(after(how, ok))
    BY <2>1, <2>2, Zenon
  <2> QED
    BY <2>3, Zenon
<1>2. ok \in BOOLEAN /\ (~ok => failures < MaxFailures)
  OBVIOUS
<1> DEFINE b == after(how, ok)
<1>3. /\ AudioOK(b) /\ (heard => Heard(b))
      /\ \/ starts = {} /\ b.with = d.roster.with
         \/ starts = {d.roster.with} /\ ok /\ b.with = d.roster.with
         \/ starts = {d.roster.with} /\ ~ok /\ b.with = Nobody
  BY <1>2, Zenon DEF WellDone
<1> HIDE DEF after, starts
<1>4. Audio' = b
  <2>1. /\ Audio' = [with |-> with', port |-> port', socket |-> socket',
                     lastPort |-> lastPort', usedUp |-> usedUp', unpublished |-> unpublished']
    BY DEF Audio
  <2> HIDE DEF b
  <2> QED
    BY <1>1, <1>3, <2>1 DEF AudioOK, b
<1>5. CASE starts = {} \/ b.with \in starts
  <2>1. roster' = d.roster /\ failures' = failures /\ with' = b.with
    BY <1>1, <1>5
  <2> HIDE DEF b
  <2> QED
    BY <1>3, <1>4, <1>5, <2>1
<1>6. CASE starts # {} /\ b.with \notin starts
  <2>1. /\ roster' = StartFailed(d.roster, CHOOSE p \in starts : TRUE)
        /\ failures' = failures + 1 /\ with' = b.with
    BY <1>1, <1>6
  <2> HIDE DEF b
  <2>2. starts = {d.roster.with} /\ ~ok /\ b.with = Nobody
    BY <1>3, <1>6
  <2>3. roster' = ForgetTheAudio(d.roster)
    BY <2>1, <2>2 DEF StartFailed
  <2>4. Known(roster', here) /\ roster'.with = Nobody /\ roster'.ownIds = d.roster.ownIds
    BY <2>3, ForgottenKnows
  <2>5. failures' \in 0 .. MaxFailures /\ failures' # 0
    BY <1>2, <2>1, <2>2
  <2> QED
    BY <1>3, <1>4, <2>1, <2>2, <2>4, <2>5
<1> QED
  BY <1>5, <1>6

\* Whoever the server lists can be in the list someone who enters gets.
LEMMA ListsPeople ==
  ASSUME Inv, NEW others \in SetToSeqs({InfoOf(p) : p \in Listed})
  PROVE  others \in Seq(PeersOf(Listed, {}))
<1> DEFINE S == {InfoOf(p) : p \in Listed}
           f == [p \in Listed |-> InfoOf(p)]
<1>1. IsFiniteSet(Listed)
  BY RosterRoomAssumption, FS_Subset DEF Listed
<1>2. f \in Surjection(Listed, S)
  BY DEF Surjection
<1> HIDE DEF f
<1>3. IsFiniteSet(S)
  BY <1>1, <1>2, FS_Surjection DEF ExistsSurjection
<1>4. S \subseteq PeersOf(Listed, {})
  <2> SUFFICES ASSUME NEW p \in Listed PROVE InfoOf(p) \in PeersOf(Listed, {})
    OBVIOUS
  <2>1. p \in Ids /\ addr[p] \in {0} \cup Addresses
    BY DEF Inv, PeopleInv, Listed
  <2>2. addr[p] # BindOnly
    <3> DEFINE n == addr[p]
    <3> HIDE DEF n
    <3>1. \A x \in Addresses : x \in Nat
      BY RosterAssumption, Zenon
    <3>2. n \in Nat
      BY <2>1, <3>1 DEF n
    <3>3. n # BindOnly
      BY <3>2 DEF BindOnly
    <3> QED
      BY <3>3 DEF n
  <2> QED
    BY <2>1, <2>2 DEF InfoOf, PeersOf, PeerInfos
<1> HIDE DEF S
<1>5. Cardinality(S) \in Nat
  BY <1>3, FS_CardinalityType
<1>6. others \in [1 .. Cardinality(S) -> S]
  BY DEF SetToSeqs, S
<1>7. others \in Seq(S)
  BY <1>5, <1>6, SeqDef
<1> QED
  BY <1>4, <1>7, SeqMonotonic

\* The room entered is the one the roster knows.
LEMMA EnterRoomKeeps ==
  ASSUME Inv, NEW id \in Ids, EnterRoom(id)
  PROVE  Inv'
<1>1. PICK others \in SetToSeqs({InfoOf(p) : p \in Listed}) : RunAudio(Entered(roster, id, others))
  BY DEF EnterRoom
<1>2. PICK d : d = Entered(roster, id, others)
  OBVIOUS
<1>3. PICK here : here = Listed
  OBVIOUS
<1>4. others \in Seq(PeersOf(here, {}))
  BY <1>1, <1>3, ListsPeople
<1>5. ~InRoom /\ id \in OwnIds /\ Known(roster, Ids) /\ with = Nobody /\ AudioOK(Audio)
  BY DEF EnterRoom, Inv, KnownInv, SoundInv
<1>6. /\ Known(d.roster, here) /\ d.roster.ownIds = roster.ownIds \cup {id} /\ Someone(d)
      /\ Complete(d.roster)
  BY <1>2, <1>4, <1>5, EnteredKnows
<1>7. ToStart(d.roster, d.audio)
  BY <1>2, <1>5, KnownIsRoster, EnteredIs
<1>8. d.roster.with \in Ids \cup {Nobody}
  BY <1>6 DEF Known, Rosters
<1>9. WellDone(Audio, d, TRUE)
  <2>1. PICK a : a = Audio
    OBVIOUS
  <2>2. AudioOK(a) /\ a.with = Nobody
    BY <1>5, <2>1 DEF Audio
  <2>3. WellDone(a, d, TRUE)
    BY <1>6, <1>7, <1>8, <2>2, EnteringWellDone
  <2> QED
    BY <2>1, <2>3
<1>10. MaxFailures \in Nat /\ failures \in 0 .. MaxFailures
  BY RosterRoomAssumption DEF Inv, PeopleInv
<1>11. /\ AudioOK(Audio') /\ roster'.with = with' /\ Heard(Audio')
       /\ Known(roster', here) /\ roster'.ownIds = d.roster.ownIds
       /\ failures' \in 0 .. MaxFailures
       /\ failures' = 0 => failures = 0 /\ roster' = d.roster
  BY <1>1, <1>2, <1>6, <1>9, <1>10, RunsWell
<1>12. own' = id /\ own' # Nobody
  BY <1>5, RosterAssumption, RosterRoomAssumption DEF EnterRoom
<1>13. here \subseteq Listed'
  <2>1. status' = [status EXCEPT ![id] = "here"]
    BY DEF EnterRoom
  <2> QED
    BY <1>3, <2>1 DEF Listed, Inv, PeopleInv
<1>14. Known(roster', Listed')
  BY <1>11, <1>13, KnownMore
<1>15. SoundInv'
  BY <1>11, <1>12 DEF SoundInv, InRoom
<1>16. PeopleInv'
  <2>1. (CHOOSE a \in Addresses : TRUE) \in Addresses
    BY RosterRoomAssumption
  <2>2. /\ status' = [status EXCEPT ![id] = "here"]
        /\ addr' = [addr EXCEPT ![id] = IF unpublished' THEN 0 ELSE CHOOSE a \in Addresses : TRUE]
    BY DEF EnterRoom
  <2> QED
    BY <1>5, <1>11, <1>12, <2>1, <2>2 DEF PeopleInv, Inv
<1>17. KnownInv'
  <2>1. roster'.ownIds \subseteq OwnIds
    BY <1>5, <1>6, <1>11 DEF Inv, KnownInv
  <2>2. failures' = 0 => Complete(roster')
    BY <1>6, <1>11
  <2> QED
    BY <1>12, <1>14, <2>1, <2>2 DEF KnownInv, InRoom
<1> QED
  BY <1>15, <1>16, <1>17 DEF Inv

\* With the entry in the room, the audio and what the room knew of it are gone.
LEMMA OutsideOK ==
  ASSUME AudioOK(Audio), AudioGone
  PROVE  AudioOK(Audio')
<1>1. /\ {socket, lastPort} \subseteq Ports
      /\ socket' = Untold(socket) /\ lastPort' = Untold(lastPort)
      /\ with' = Nobody /\ port' = "none" /\ usedUp' = FALSE /\ unpublished' = FALSE
  BY DEF AudioOK, Audio, AudioGone
<1>2. {socket', lastPort'} \subseteq Ports
  BY <1>1 DEF Untold, Ports
<1>3. Audio' = [with |-> with', port |-> port', socket |-> socket', lastPort |-> lastPort',
                usedUp |-> usedUp', unpublished |-> unpublished']
  BY DEF Audio
<1> QED
  BY <1>1, <1>2, <1>3 DEF AudioOK, Ports

\* When the connection is lost the audio ends, and so it does for the roster.
LEMMA LoseServerKeeps ==
  ASSUME Inv, LoseServer
  PROVE  Inv'
<1>1. /\ own' = Nobody /\ with' = Nobody /\ port' = "none" /\ roster' = ForgetTheAudio(roster)
      /\ AudioGone /\ UNCHANGED <<status, addr, failures>>
  BY DEF LoseServer, AudioGone, AudioEnded
<1>2. Known(roster, Ids)
  BY KnownAnywhere DEF Inv, KnownInv
<1>3. Known(roster', Ids) /\ roster'.with = Nobody /\ roster'.ownIds = roster.ownIds
  BY <1>1, <1>2, ForgottenKnows
<1>4. AudioOK(Audio')
  BY <1>1, OutsideOK DEF Inv, SoundInv
<1> QED
  BY <1>1, <1>3, <1>4 DEF Inv, SoundInv, PeopleInv, KnownInv, InRoom

\* The roster of no room knows nobody.
LEMMA EmptyKnows == Known(EmptyRoster, Ids) /\ EmptyRoster.ownIds = {} /\ EmptyRoster.with = Nobody
<1>1. <<>> \in Seq(PeerInfos) /\ <<>> \in Seq(PeersOf(Ids, {}))
  OBVIOUS
<1>2. EmptyRoster \in Rosters
  BY <1>1 DEF EmptyRoster, Rosters
<1> QED
  BY <1>1, <1>2 DEF EmptyRoster, Known

\* Starting over gives the room up.
LEMMA StartOverKeeps ==
  ASSUME Inv, StartOver
  PROVE  Inv'
<1>1. /\ ~InRoom /\ roster' = EmptyRoster
      /\ UNCHANGED <<own, status, addr, with, port, socket, lastPort, usedUp, unpublished, failures>>
  BY DEF StartOver, audioVars
<1>2. with = Nobody
  BY <1>1 DEF Inv, SoundInv
<1> QED
  BY <1>1, <1>2, EmptyKnows
     DEF Inv, SoundInv, PeopleInv, KnownInv, InRoom, Audio

\* Leaving ends the audio and gives the room up.
LEMMA LeaveRoomKeeps ==
  ASSUME Inv, LeaveRoom
  PROVE  Inv'
<1>1. /\ own' = Nobody /\ with' = Nobody /\ port' = "none" /\ roster' = EmptyRoster
      /\ status' = [status EXCEPT ![own] = "gone"]
      /\ AudioGone /\ UNCHANGED <<addr, failures>>
  BY DEF LeaveRoom, AudioGone
<1>2. own \in OwnIds /\ OwnIds \subseteq Ids
  BY RosterRoomAssumption DEF LeaveRoom, Inv, PeopleInv, InRoom
<1>3. AudioOK(Audio')
  BY <1>1, OutsideOK DEF Inv, SoundInv
<1> QED
  BY <1>1, <1>2, <1>3, EmptyKnows
     DEF Inv, SoundInv, PeopleInv, KnownInv, InRoom

\* Who joins has no address yet.
LEMMA PeerJoinsKeeps ==
  ASSUME Inv, NEW id \in Ids, PeerJoins(id)
  PROVE  Inv'
<1>1. /\ id \notin OwnIds /\ status[id] = "new" /\ status' = [status EXCEPT ![id] = "here"]
      /\ roster' = IF InRoom THEN Joined(roster, InfoOf(id)) ELSE roster
      /\ UNCHANGED <<own, addr, with, port, socket, lastPort, usedUp, unpublished, failures>>
  BY DEF PeerJoins, audioVars
<1>2. addr[id] = 0
  BY <1>1 DEF Inv, PeopleInv
<1>3. Listed \subseteq Listed' /\ id \in Listed'
  BY <1>1 DEF Listed, Inv, PeopleInv
<1>4. PeopleInv'
  BY <1>1 DEF Inv, PeopleInv
<1>5. /\ roster'.with = roster.with /\ roster'.ownIds = roster.ownIds
      /\ Known(roster', IF InRoom THEN Listed' ELSE Ids)
      /\ InRoom /\ failures = 0 => Complete(roster')
  <2>1. CASE InRoom
    <3>1. Known(roster, Listed) /\ roster.ownIds \subseteq OwnIds
      BY <2>1 DEF Inv, KnownInv
    <3>2. PICK r, here, peer : r = roster /\ here = Listed' /\ peer = InfoOf(id)
      OBVIOUS
    <3>3. Known(r, here)
      BY <1>3, <3>1, <3>2, KnownMore
    <3>4. peer \in PeersOf(here, r.ownIds) /\ ~HasAddress(peer)
      BY <1>1, <1>2, <1>3, <3>1, <3>2 DEF InfoOf, PeersOf, PeerInfos, HasAddress, BindOnly
    <3>5. roster' = Joined(r, peer)
      BY <1>1, <2>1, <3>2
    <3>6. IsRoster(r)
      BY <3>3, KnownIsRoster
    <3>7. Known(roster', here) /\ roster'.ownIds = r.ownIds /\ (Complete(r) => Complete(roster'))
      BY <3>3, <3>4, <3>5, JoinedKnows
    <3>8. roster'.with = r.with
      BY <3>5, <3>6, JoinedIs
    <3> QED
      BY <2>1, <3>2, <3>7, <3>8 DEF Inv, KnownInv
  <2>2. CASE ~InRoom
    BY <1>1, <2>2 DEF Inv, KnownInv
  <2> QED
    BY <2>1, <2>2
<1>6. SoundInv'
  BY <1>1, <1>5 DEF Inv, SoundInv, InRoom, Audio
<1>7. KnownInv'
  BY <1>1, <1>5 DEF Inv, KnownInv, InRoom
<1> QED
  BY <1>4, <1>6, <1>7 DEF Inv

\* Where this app is in no room, others come and go without the roster.
LEMMA OutsideKeeps ==
  ASSUME Inv, ~InRoom, PeopleInv', UNCHANGED <<roster, own, audioVars, failures>>
  PROVE  Inv'
<1>1. UNCHANGED <<roster, own, with, port, socket, lastPort, usedUp, unpublished, failures>>
  BY DEF audioVars
<1> QED
  BY <1>1 DEF Inv, SoundInv, KnownInv, InRoom, Audio

\* In the room, carrying a decision out well that has who is listed keeps it all.
LEMMA DecisionKeeps ==
  ASSUME Inv, InRoom, UNCHANGED own, NEW d, RunAudio(d),
         Sound(d, roster.with), Someone(d), Known(d.roster, Listed'),
         d.roster.ownIds = roster.ownIds, Complete(roster) => Complete(d.roster),
         failures' \in 0 .. MaxFailures => PeopleInv'
  PROVE  Inv'
<1>1. AudioOK(Audio) /\ Heard(Audio) /\ Audio.with = roster.with
  BY DEF Inv, SoundInv, Audio
<1>2. d.roster.with \in Ids \cup {Nobody}
  BY DEF Known, Rosters
<1>3. WellDone(Audio, d, TRUE)
  <2>1. PICK a : a = Audio
    OBVIOUS
  <2>2. WellDone(a, d, Heard(a))
    BY <1>1, <1>2, <2>1, SoundWellDone
  <2> QED
    BY <1>1, <2>1, <2>2, Zenon DEF WellDone
<1>4. MaxFailures \in Nat /\ failures \in 0 .. MaxFailures
  BY RosterRoomAssumption DEF Inv, PeopleInv
<1>5. PICK here : here = Listed'
  OBVIOUS
<1>6. /\ AudioOK(Audio') /\ roster'.with = with' /\ Heard(Audio')
      /\ Known(roster', here) /\ roster'.ownIds = d.roster.ownIds
      /\ failures' \in 0 .. MaxFailures
      /\ failures' = 0 => failures = 0 /\ roster' = d.roster
  BY <1>3, <1>4, <1>5, RunsWell
<1> QED
  BY <1>5, <1>6 DEF Inv, SoundInv, KnownInv, InRoom

\* An address that is published reaches the roster and the audio.
LEMMA PeerPublishesKeeps ==
  ASSUME Inv, NEW id \in Ids \ OwnIds, NEW a \in MayPublish[id], PeerPublishes(id, a)
  PROVE  Inv'
<1>1. /\ id \in Listed /\ addr' = [addr EXCEPT ![id] = a] /\ UNCHANGED <<own, status>>
      /\ IF InRoom THEN RunAudio(Updated(roster, [id |-> id, addr |-> a]))
         ELSE UNCHANGED <<roster, audioVars, failures>>
  BY DEF PeerPublishes
<1>2. a \in Addresses
  BY RosterRoomAssumption
<1>3. failures' \in 0 .. MaxFailures => PeopleInv'
  BY <1>1, <1>2 DEF Inv, PeopleInv, Listed
<1>4. CASE InRoom
  <2>1. Known(roster, Listed) /\ roster.ownIds \subseteq OwnIds
    BY <1>4 DEF Inv, KnownInv
  <2>2. PICK r, here, peer : r = roster /\ here = Listed /\ peer = [id |-> id, addr |-> a]
    OBVIOUS
  <2>3. peer \in PeersOf(here, r.ownIds)
    <3>1. \A x \in Addresses : x \in Nat
      BY RosterAssumption, Zenon
    <3>2. a # BindOnly
      BY <1>2, <3>1 DEF BindOnly
    <3> QED
      BY <1>1, <1>2, <2>1, <2>2, <3>2 DEF PeersOf, PeerInfos
  <2>4. PICK d : d = Updated(r, peer)
    OBVIOUS
  <2>5. /\ Known(d.roster, here) /\ d.roster.ownIds = r.ownIds /\ Someone(d)
        /\ Complete(r) => Complete(d.roster)
    BY <2>1, <2>2, <2>3, <2>4, UpdatedKnows
  <2>6. Sound(d, r.with)
    BY <2>1, <2>2, <2>4, KnownIsRoster, UpdatedIs
  <2>7. Listed' = here
    BY <1>1, <2>2 DEF Listed
  <2>8. RunAudio(d)
    BY <1>1, <1>4, <2>2, <2>4
  <2> QED
    BY <1>1, <1>3, <1>4, <2>2, <2>5, <2>6, <2>7, <2>8, DecisionKeeps
<1>5. CASE ~InRoom
  <2>1. UNCHANGED <<roster, own, audioVars, failures>>
    BY <1>1, <1>5
  <2>2. PeopleInv'
    BY <1>3, <2>1 DEF Inv, PeopleInv
  <2> QED
    BY <1>5, <2>1, <2>2, OutsideKeeps
<1> QED
  BY <1>4, <1>5

\* Who leaves is not listed, and the roster goes on without.
LEMMA PeerLeavesKeeps ==
  ASSUME Inv, NEW id \in Ids, PeerLeaves(id)
  PROVE  Inv'
<1>1. /\ id \in Listed \ {own} /\ status' = [status EXCEPT ![id] = "gone"]
      /\ UNCHANGED <<own, addr>>
      /\ IF InRoom THEN RunAudio(Left(roster, id))
         ELSE UNCHANGED <<roster, audioVars, failures>>
  BY DEF PeerLeaves
<1>2. failures' \in 0 .. MaxFailures => PeopleInv'
  BY <1>1 DEF Inv, PeopleInv
<1>3. CASE InRoom
  <2>1. Known(roster, Listed)
    BY <1>3 DEF Inv, KnownInv
  <2>2. PICK r, here : r = roster /\ here = Listed
    OBVIOUS
  <2>3. PICK d : d = Left(r, id)
    OBVIOUS
  <2>4. /\ Known(d.roster, here \ {id}) /\ d.roster.ownIds = r.ownIds /\ Someone(d)
        /\ Complete(r) => Complete(d.roster)
    BY <2>1, <2>2, <2>3, LeftKnows
  <2>5. Sound(d, r.with)
    BY <2>1, <2>2, <2>3, KnownIsRoster, LeftIs
  <2>6. Listed' = here \ {id}
    BY <1>1, <2>2 DEF Listed, Inv, PeopleInv
  <2>7. RunAudio(d)
    BY <1>1, <1>3, <2>2, <2>3
  <2> QED
    BY <1>1, <1>2, <1>3, <2>2, <2>4, <2>5, <2>6, <2>7, DecisionKeeps
<1>4. CASE ~InRoom
  <2>1. UNCHANGED <<roster, own, audioVars, failures>>
    BY <1>1, <1>4
  <2>2. PeopleInv'
    BY <1>2, <2>1 DEF Inv, PeopleInv
  <2> QED
    BY <1>4, <2>1, <2>2, OutsideKeeps
<1> QED
  BY <1>3, <1>4

\* What the audio says of its link.
LEMMA LinkReportKeeps ==
  ASSUME Inv, LinkReport
  PROVE  Inv'
<1>1. InRoom /\ UNCHANGED <<own, status, addr>>
  BY DEF LinkReport
<1>2. failures' \in 0 .. MaxFailures => PeopleInv'
  BY <1>1 DEF Inv, PeopleInv
<1>3. Known(roster, Listed) /\ Listed' = Listed
  BY <1>1 DEF Inv, KnownInv, Listed
<1>4. PICK r, here : r = roster /\ here = Listed
  OBVIOUS
<1>5. Known(r, here) /\ IsRoster(r)
  BY <1>3, <1>4, KnownIsRoster
<1>6. CASE RunAudio(AudioSilent(roster)) \/ RunAudio(AudioFailed(roster))
  <2>1. PICK d : RunAudio(d) /\ (d = AudioSilent(r) \/ d = AudioFailed(r))
    BY <1>4, <1>6
  <2>2. /\ Known(d.roster, here) /\ d.roster.ownIds = r.ownIds /\ Someone(d)
        /\ Complete(r) => Complete(d.roster)
    BY <1>5, <2>1, LinkKnows
  <2>3. Sound(d, r.with)
    BY <1>5, <2>1, AudioSilentIs, AudioFailedIs
  <2> QED
    BY <1>1, <1>2, <1>3, <1>4, <2>1, <2>2, <2>3, DecisionKeeps
<1>7. CASE roster' = AudioRecovered(roster) /\ UNCHANGED <<audioVars, failures>>
  <2>1. /\ Known(roster', here) /\ (Complete(r) => Complete(roster'))
        /\ roster'.ownIds = r.ownIds /\ roster'.with = r.with
    BY <1>4, <1>5, <1>7, LinkKnows, AudioRecoveredIs
  <2>2. UNCHANGED <<with, port, socket, lastPort, usedUp, unpublished, failures>>
    BY <1>7 DEF audioVars
  <2> QED
    BY <1>1, <1>2, <1>3, <1>4, <2>1, <2>2
       DEF Inv, SoundInv, PeopleInv, KnownInv, InRoom, Audio
<1> QED
  BY <1>6, <1>7 DEF LinkReport

\* At first there is no room and no audio.
LEMMA InitInv == Init => Inv
<1> SUFFICES ASSUME Init PROVE Inv
  OBVIOUS
<1>1. AudioOK(Audio)
  BY DEF Init, AudioOK, Audio, Ports
<1>2. PeopleInv
  BY RosterRoomAssumption DEF Init, PeopleInv
<1>3. roster.with = Nobody /\ roster.ownIds = {} /\ Known(roster, Ids)
  BY EmptyKnows DEF Init
<1> QED
  BY <1>1, <1>2, <1>3 DEF Init, Inv, SoundInv, KnownInv, InRoom

\* Every step keeps the audio as the roster has it and the roster as the room is.
LEMMA StepInv == Inv /\ [Next]_vars => Inv'
<1> SUFFICES ASSUME Inv, [Next]_vars PROVE Inv'
  OBVIOUS
<1>1. ASSUME NEW id \in Ids, EnterRoom(id) \/ PeerJoins(id) \/ PeerLeaves(id)
      PROVE  Inv'
  BY <1>1, EnterRoomKeeps, PeerJoinsKeeps, PeerLeavesKeeps
<1>2. ASSUME NEW id \in Ids \ OwnIds, NEW a \in MayPublish[id], PeerPublishes(id, a)
      PROVE  Inv'
  BY <1>2, PeerPublishesKeeps
<1>3. CASE LoseServer \/ StartOver \/ LeaveRoom \/ LinkReport
  BY <1>3, LoseServerKeeps, StartOverKeeps, LeaveRoomKeeps, LinkReportKeeps
<1>4. CASE UNCHANGED vars
  <2>1. UNCHANGED <<roster, own, status, addr, with, port, socket, lastPort, usedUp, unpublished, failures>>
    BY <1>4 DEF vars, audioVars
  <2> QED
    BY <2>1 DEF Inv, SoundInv, PeopleInv, KnownInv, InRoom, Listed, Audio
<1> QED
  BY <1>1, <1>2, <1>3, <1>4 DEF Next

-----------------------------------------------------------------------------
(* The theorems. *)

\* In every state the audio is as the roster has it, and the roster knows nobody but
\* who the server lists.
THEOREM Invariant == Spec => []Inv
<1>1. Init => Inv
  BY InitInv
<1>2. Inv /\ [Next]_vars => Inv'
  BY StepInv
<1> QED
  BY <1>1, <1>2, PTL DEF Spec

\* The roster takes the audio to be with whom it is with (roster.rs:54-56).
THEOREM FollowsRoster == Spec => []AudioFollowsRoster
<1>1. Inv => AudioFollowsRoster
  BY DEF Inv, SoundInv, AudioFollowsRoster
<1> QED
  BY <1>1, Invariant, PTL

\* The audio is with a participant the server lists, and never with an entry of this
\* app's own (roster.rs:81-86).
THEOREM WithSomeoneHere == Spec => []AudioIsWithSomeoneHere
<1>1. Inv => AudioIsWithSomeoneHere
  <2> SUFFICES ASSUME Inv, InRoom, with # Nobody
               PROVE  status[with] = "here" /\ with \notin roster.ownIds
    BY DEF AudioIsWithSomeoneHere
  <2>1. Known(roster, Listed) /\ roster.with = with
    BY DEF Inv, KnownInv, SoundInv
  <2> QED
    BY <2>1 DEF Known, Listed
<1> QED
  BY <1>1, Invariant, PTL

\* The port the room was told last is listened on, or a failed start closed it and none
\* was bound in its place, unless the room could not be told (roster.rs:18-24).
THEOREM RoomHearsUs == Spec => []HeardWhereAdvertised
<1>1. Inv => HeardWhereAdvertised
  BY DEF Inv, SoundInv, Heard, Audio, HeardWhereAdvertised
<1> QED
  BY <1>1, Invariant, PTL

\* Nobody who can be heard is passed over (roster.rs:195-214, 229-272).
THEOREM PassesNobodyOver == Spec => []NobodyPassedOver
<1>1. Inv => NobodyPassedOver
  BY DEF Inv, KnownInv, Complete, NobodyPassedOver
<1> QED
  BY <1>1, Invariant, PTL

\* Every variable has its type.
THEOREM Types == Spec => []TypeOK
<1>1. Inv => TypeOK
  <2> SUFFICES ASSUME Inv PROVE TypeOK
    OBVIOUS
  <2>1. roster \in Rosters /\ (roster.with = Nobody <=> roster.startedWith = 0)
    BY DEF Inv, KnownInv, Known
  <2>2. /\ with \in Ids \cup {Nobody} /\ {port, socket, lastPort} \subseteq Ports
        /\ usedUp \in BOOLEAN /\ unpublished \in BOOLEAN
    BY DEF Inv, SoundInv, AudioOK, Audio
  <2> QED
    BY <2>1, <2>2, RosterRoomAssumption DEF Inv, PeopleInv, TypeOK
<1> QED
  BY <1>1, Invariant, PTL
===============================================================================
