--------------------------- MODULE ReceptionProofs ---------------------------
(***************************************************************************)
(* Audio over the link, for groups of any size, any trouble of the network *)
(* and any number of frames: what is recovered is what was sent, the loss  *)
(* counted is what is missing, and what is recovered is played in its turn *)
(* where the buffer is deep enough for the groups.                         *)
(*                                                                         *)
(* The argument for the first: every FEC packet there is, is the XOR of a  *)
(* whole group, so that it carries the numbers of that group; what is left *)
(* of it when the frames that came are taken out is the one that did not.  *)
(* For the last: the device asks for a frame no sooner than the delay      *)
(* after it was sent, and by then its group is whole and its FEC packet    *)
(* has come.                                                               *)
(***************************************************************************)
EXTENDS Reception, FiniteSetTheorems, TLAPS

\* The number of the first frame of a group, when groups are of SendGroup.
First(g) == g * SendGroup

\* The FEC packet of a whole group.
Whole(g) ==
  [group |-> g, count |-> SendGroup, payload |-> First(g) .. First(g) + SendGroup - 1]

Wholes == {Whole(g) : g \in Nat}

LEMMA FirstNumbers ==
  ASSUME NEW g \in Nat
  PROVE  First(g) \in Nat /\ First(g + 1) = First(g) + SendGroup
<1>1. SendGroup \in Nat BY ReceptionAssumption
<1>2. \A a, b \in Nat : a * b \in Nat OBVIOUS
<1>3. \A a, b \in Nat : (a + 1) * b = a * b + b OBVIOUS
<1> QED BY <1>1, <1>2, <1>3 DEF First

\* Every number is in its group, at its place.
LEMMA PlaceOfNumber ==
  ASSUME NEW s \in Nat
  PROVE  /\ s \div SendGroup \in Nat /\ s % SendGroup \in 0 .. SendGroup - 1
         /\ s = First(s \div SendGroup) + (s % SendGroup)
<1>1. SendGroup \in Nat \ {0} BY ReceptionAssumption
<1> QED BY <1>1 DEF First

-----------------------------------------------------------------------------
(* XOR of a whole group, and of a group with one frame replaced by it.      *)

LEMMA OneIsOdd == \A x : Cardinality({x}) % 2 = 1
<1>1. \A x : Cardinality({x}) = 1 BY FS_Singleton
<1>2. 1 % 2 = 1 OBVIOUS
<1> QED BY <1>1, <1>2

LEMMA TwoIsEven == \A x, y : x # y => Cardinality({x, y}) % 2 = 0
<1> SUFFICES ASSUME NEW x, NEW y, x # y PROVE Cardinality({x, y}) % 2 = 0
  OBVIOUS
<1>1. IsFiniteSet({x}) /\ Cardinality({x}) = 1 BY FS_Singleton
<1>2. Cardinality({x} \cup {y}) = 2 BY <1>1, FS_AddElement
<1>3. {x} \cup {y} = {x, y} OBVIOUS
<1>4. 2 % 2 = 0 OBVIOUS
<1> QED BY <1>2, <1>3, <1>4

LEMMA XorOfWhole ==
  ASSUME NEW f, NEW b \in Nat, NEW n \in Nat, DOMAIN f = 1 .. n,
         \A i \in 1 .. n : f[i] = {b + i - 1}
  PROVE  Xor(f) = b .. b + n - 1
<1>1. ASSUME NEW x \in b .. b + n - 1
      PROVE  x \in Xor(f)
  <2>1. x - b + 1 \in 1 .. n /\ b + (x - b + 1) - 1 = x
    OBVIOUS
  <2>2. f[x - b + 1] = {x} BY <2>1
  <2>3. \A i \in DOMAIN f : x \in f[i] <=> i = x - b + 1
    <3> TAKE i \in DOMAIN f
    <3>1. i \in Int /\ f[i] = {b + i - 1} OBVIOUS
    <3> QED BY <3>1
  <2>4. {i \in DOMAIN f : x \in f[i]} = {x - b + 1} BY <2>1, <2>3
  <2>5. x \in UNION {f[i] : i \in DOMAIN f} BY <2>1, <2>2
  <2> QED BY <2>4, <2>5, OneIsOdd DEF Xor
<1>2. ASSUME NEW x \in Xor(f) PROVE x \in b .. b + n - 1
  <2>1. PICK i \in 1 .. n : x \in f[i] BY DEF Xor
  <2>2. x = b + i - 1 BY <2>1
  <2> QED BY <2>2
<1> QED BY <1>1, <1>2

LEMMA XorWithWhole ==
  ASSUME NEW f, NEW b \in Nat, NEW n \in Nat, NEW j \in 0 .. n - 1,
         DOMAIN f = 0 .. n - 1,
         f[j] = b .. b + n - 1,
         \A i \in 0 .. n - 1 : i # j => f[i] = {b + i}
  PROVE  Xor(f) = {b + j}
<1>1. f[j] = b .. b + n - 1 OBVIOUS
<1>2. b + j \in Xor(f)
  <2>1. \A i \in DOMAIN f : b + j \in f[i] <=> i = j
    <3> TAKE i \in DOMAIN f
    <3>1. i # j => f[i] = {b + i} /\ i \in Int OBVIOUS
    <3> QED BY <1>1, <3>1
  <2>2. {i \in DOMAIN f : b + j \in f[i]} = {j} BY <2>1
  <2>3. b + j \in UNION {f[i] : i \in DOMAIN f} BY <2>1
  <2> QED BY <2>2, <2>3, OneIsOdd DEF Xor
<1>3. ASSUME NEW x \in Xor(f), x # b + j PROVE FALSE
  <2>1. PICK i \in DOMAIN f : x \in f[i] BY DEF Xor
  <2>2. x \in b .. b + n - 1
    <3>1. CASE i = j BY <2>1, <1>1, <3>1
    <3>2. CASE i # j
      <4>1. f[i] = {b + i} /\ i \in 0 .. n - 1 BY <3>2
      <4> QED BY <2>1, <4>1
    <3> QED BY <3>1, <3>2
  <2>3. x - b \in 0 .. n - 1 /\ x - b # j /\ x \in Int BY <1>3, <2>2
  <2>4. \A k \in DOMAIN f : x \in f[k] <=> k = j \/ k = x - b
    <3> TAKE k \in DOMAIN f
    <3>1. k # j => f[k] = {b + k} /\ k \in Int OBVIOUS
    <3> QED BY <1>1, <2>2, <2>3, <3>1
  <2>5. {k \in DOMAIN f : x \in f[k]} = {j, x - b} BY <2>3, <2>4
  <2>6. Cardinality({j, x - b}) % 2 = 0 BY <2>3, TwoIsEven
  <2>7. Cardinality({k \in DOMAIN f : x \in f[k]}) % 2 = 1 BY <1>3 DEF Xor
  <2>8. 0 # 1 OBVIOUS
  <2> QED BY <2>5, <2>6, <2>7, <2>8, Zenon
<1> QED BY <1>2, <1>3

-----------------------------------------------------------------------------
(* The sender.                                                              *)

\* The encoder `enc` when s is the next number: the group it fills holds the
\* numbers since the last group was whole.
EncoderAt(enc, s) ==
  /\ enc \in [group : Seq(SUBSET Nat), number : Nat]
  /\ Len(enc.group) < SendGroup
  /\ First(enc.number) + Len(enc.group) = s
  /\ \A i \in 1 .. Len(enc.group) : enc.group[i] = {First(enc.number) + i - 1}

LEMMA EncodesWholes ==
  ASSUME NEW enc, NEW s \in Nat, EncoderAt(enc, s)
  PROVE  /\ EncoderAt(Encoded(enc, SendGroup, {s}).encoder, s + 1)
         /\ Encoded(enc, SendGroup, {s}).fec \in {NoFec} \cup Wholes
<1> DEFINE k == Len(enc.group)
           b == First(enc.number)
           group == Append(enc.group, {s})
<1>1. /\ SendGroup \in Nat /\ SendGroup > 1 /\ k \in Nat /\ k < SendGroup
      /\ enc.number \in Nat /\ enc.group \in Seq(SUBSET Nat)
  BY ReceptionAssumption DEF EncoderAt
<1>2. b \in Nat /\ First(enc.number + 1) = b + SendGroup /\ b + k = s
  BY <1>1, FirstNumbers DEF EncoderAt
<1>3. /\ group \in Seq(SUBSET Nat) /\ Len(group) = k + 1 /\ DOMAIN group = 1 .. k + 1
      /\ \A i \in 1 .. k : group[i] = enc.group[i]
      /\ group[k + 1] = {s}
  BY <1>1
<1>4. \A i \in 1 .. k + 1 : group[i] = {b + i - 1}
  <2> TAKE i \in 1 .. k + 1
  <2>1. CASE i = k + 1
    <3>1. s = b + i - 1 BY <1>1, <1>2, <2>1
    <3> QED BY <1>3, <2>1, <3>1
  <2>2. CASE i \in 1 .. k BY <1>3, <2>2 DEF EncoderAt
  <2> QED BY <1>1, <2>1, <2>2
<1> HIDE DEF k, b, group
<1>5. CASE k + 1 >= SendGroup
  <2>1. k + 1 = SendGroup BY <1>1, <1>5
  <2>2. Xor(group) = b .. b + SendGroup - 1
    <3>1. DOMAIN group = 1 .. SendGroup BY <1>3, <2>1
    <3>2. \A i \in 1 .. SendGroup : group[i] = {b + i - 1} BY <1>4, <2>1
    <3>3. b \in Nat /\ SendGroup \in Nat BY <1>1, <1>2
    <3> QED BY <3>1, <3>2, <3>3, XorOfWhole, Zenon
  <2>3. Encoded(enc, SendGroup, {s})
          = [encoder |-> [group |-> <<>>, number |-> enc.number + 1],
             fec |-> Whole(enc.number)]
    <3>1. Len(group) >= SendGroup /\ Len(group) = SendGroup BY <1>1, <1>3, <2>1
    <3> QED BY <2>2, <3>1 DEF Encoded, Whole, group, b
  <2>4. EncoderAt([group |-> <<>>, number |-> enc.number + 1], s + 1)
    <3>1. b + SendGroup = s + 1 BY <1>1, <1>2, <2>1
    <3>2. <<>> \in Seq(SUBSET Nat) /\ Len(<<>>) = 0 OBVIOUS
    <3>3. First(enc.number + 1) + 0 = s + 1 BY <1>1, <1>2, <3>1
    <3> DEFINE new == [group |-> <<>>, number |-> enc.number + 1]
    <3>4. new.group = <<>> /\ new.number = enc.number + 1 OBVIOUS
    <3>5. new \in [group : Seq(SUBSET Nat), number : Nat] BY <1>1, <3>2
    <3> HIDE DEF new
    <3>6. EncoderAt(new, s + 1) BY <1>1, <3>2, <3>3, <3>4, <3>5 DEF EncoderAt
    <3> QED BY <3>6 DEF new
  <2>5. Whole(enc.number) \in Wholes BY <1>1 DEF Wholes
  <2> QED BY <2>3, <2>4, <2>5
<1>6. CASE ~(k + 1 >= SendGroup)
  <2>1. Encoded(enc, SendGroup, {s})
          = [encoder |-> [enc EXCEPT !.group = group], fec |-> NoFec]
    BY <1>3, <1>6 DEF Encoded, group
  <2>2. EncoderAt([enc EXCEPT !.group = group], s + 1)
    <3>1. b + (k + 1) = s + 1 /\ k + 1 < SendGroup BY <1>1, <1>2, <1>6
    <3>2. /\ [enc EXCEPT !.group = group] \in [group : Seq(SUBSET Nat), number : Nat]
          /\ [enc EXCEPT !.group = group].group = group
          /\ [enc EXCEPT !.group = group].number = enc.number
      BY <1>3 DEF EncoderAt
    <3> QED BY <1>3, <1>4, <3>1, <3>2 DEF EncoderAt, b
  <2> QED BY <2>1, <2>2
<1> QED BY <1>5, <1>6

-----------------------------------------------------------------------------
(* The receiver's groups, when it groups as the sender does.                *)

Places == 0 .. SendGroup - 1

\* What can be known of a group: the frames at the places D, as they were sent.
GroupOf(g, D, fec, recovered) ==
  [packets |-> [i \in D |-> {First(g) + i}], fec |-> fec, recovered |-> recovered]

\* What XOR leaves of a whole group without the frame at place j.
LEMMA XorOfTheRest ==
  ASSUME NEW f, NEW g \in Nat, NEW j \in Places, DOMAIN f = Places,
         f[j] = First(g) .. First(g) + SendGroup - 1,
         \A i \in Places : i # j => f[i] = {First(g) + i}
  PROVE  Xor(f) = {First(g) + j}
<1>1. First(g) \in Nat BY FirstNumbers
<1>2. SendGroup \in Nat BY ReceptionAssumption
<1>3. j \in 0 .. SendGroup - 1 BY DEF Places
<1>4. DOMAIN f = 0 .. SendGroup - 1 BY DEF Places
<1>5. \A i \in 0 .. SendGroup - 1 : i # j => f[i] = {First(g) + i} BY DEF Places
<1> DEFINE b == First(g)
<1>6. f[j] = b .. b + SendGroup - 1 OBVIOUS
<1> HIDE DEF b
<1>7. \A i \in 0 .. SendGroup - 1 : i # j => f[i] = {b + i} BY <1>5 DEF b
<1>8. b \in Nat BY <1>1 DEF b
<1>9. Xor(f) = {b + j} BY <1>2, <1>3, <1>4, <1>6, <1>7, <1>8, XorWithWhole, SMT
<1> QED BY <1>9 DEF b

GroupFits(g, group) ==
  \E D \in SUBSET Places, fec \in {NoFec, Whole(g)}, recovered \in BOOLEAN :
    group = GroupOf(g, D, fec, recovered)

GroupsFit(known) ==
  /\ DOMAIN known \subseteq Nat
  /\ \A g \in DOMAIN known : GroupFits(g, known[g])

\* What is recovered is a frame of the group, as it was sent.
RecoveryFits(recovery) ==
  \/ recovery = NoRecovery
  \/ \E g \in Nat, i \in Places :
       recovery = [group |-> g, index |-> i, payload |-> {First(g) + i}]

LEMMA KnownFits ==
  ASSUME NEW known, GroupsFit(known), NEW g \in Nat
  PROVE  GroupFits(g, Known(known, g))
<1>1. CASE g \in DOMAIN known BY <1>1 DEF Known, GroupsFit
<1>2. CASE g \notin DOMAIN known
  <2>1. NewGroup = GroupOf(g, {}, NoFec, FALSE)
    <3>1. [i \in {} |-> {}] = [i \in {} |-> {First(g) + i}] OBVIOUS
    <3> QED BY <3>1 DEF NewGroup, GroupOf
  <2> QED BY <1>2, <2>1 DEF Known, GroupFits
<1> QED BY <1>1, <1>2

LEMMA WithFits ==
  ASSUME NEW known, GroupsFit(known), NEW g \in Nat, NEW group, GroupFits(g, group)
  PROVE  GroupsFit(With(known, g, group)) /\ g \in DOMAIN With(known, g, group)
         /\ With(known, g, group)[g] = group
BY DEF With, GroupsFit

LEMMA ForgetFits ==
  ASSUME NEW known, GroupsFit(known)
  PROVE  GroupsFit(Forget(known))
BY DEF Forget, GroupsFit

\* Of a group that misses one frame, that one is found, and XOR gives it.
LEMMA RecoversWhatWasSent ==
  ASSUME NEW known, GroupsFit(known), NEW g \in DOMAIN known
  PROVE  /\ GroupsFit(TryRecover(known, g).groups)
         /\ RecoveryFits(TryRecover(known, g).recovery)
<1> DEFINE group == known[g]
<1>1. g \in Nat /\ First(g) \in Nat /\ SendGroup \in Nat
  BY FirstNumbers, ReceptionAssumption DEF GroupsFit
<1>2. PICK D \in SUBSET Places, fec \in {NoFec, Whole(g)}, recovered \in BOOLEAN :
        group = GroupOf(g, D, fec, recovered)
  BY DEF GroupsFit, GroupFits
<1>3. /\ DOMAIN group.packets = D /\ group.fec = fec /\ group.recovered = recovered
      /\ \A i \in D : group.packets[i] = {First(g) + i}
  BY <1>2 DEF GroupOf
<1>4. CASE ~MissingOne(group)
  <2>1. TryRecover(known, g) = [groups |-> known, recovery |-> NoRecovery]
    BY <1>4 DEF TryRecover
  <2> QED BY <2>1 DEF RecoveryFits
<1>5. CASE MissingOne(group)
  <2> DEFINE j == MissingIndex(group)
             all == [i \in DOMAIN group.packets \cup {j} |->
                       IF i = j THEN group.fec.payload ELSE group.packets[i]]
             marked == [group EXCEPT !.recovered = TRUE]
  <2>1. fec = Whole(g) /\ Cardinality(D) + 1 = SendGroup
    <3>1. fec # NoFec /\ Cardinality(D) + 1 = fec.count
      BY <1>3, <1>5 DEF MissingOne
    <3> QED BY <3>1 DEF Whole
  <2>2. group.fec.count = SendGroup
        /\ group.fec.payload = First(g) .. First(g) + SendGroup - 1
    BY <1>3, <2>1 DEF Whole
  <2>3. IsFiniteSet(Places) /\ Cardinality(Places) = SendGroup
    <3>1. IsFiniteSet(0 .. SendGroup - 1)
          /\ Cardinality(0 .. SendGroup - 1)
               = IF 0 > SendGroup - 1 THEN 0 ELSE SendGroup - 1 - 0 + 1
      <4>1. 0 \in Int /\ SendGroup - 1 \in Int BY <1>1
      <4> QED BY <4>1, FS_Interval, Zenon
    <3>2. ~(0 > SendGroup - 1) /\ SendGroup - 1 - 0 + 1 = SendGroup
      BY ReceptionAssumption
    <3> QED BY <3>1, <3>2 DEF Places
  <2>4. IsFiniteSet(D) /\ Cardinality(D) \in Nat
    BY <2>3, FS_Subset, FS_CardinalityType
  <2>5. PICK x \in Places : x \notin D
    <3>1. D # Places BY <2>1, <2>3, <2>4
    <3> QED BY <3>1
  <2>6. D \cup {x} = Places
    <3>1. Cardinality(D \cup {x}) = Cardinality(D) + 1 BY <2>4, <2>5, FS_AddElement
    <3>2. D \cup {x} \in SUBSET Places BY <2>5
    <3> QED BY <2>1, <2>3, <3>1, <3>2, FS_Subset
  <2>7. j = x
    <3>1. \A i \in 0 .. x - 1 : i \in DOMAIN group.packets
      <4> TAKE i \in 0 .. x - 1
      <4>1. i \in Places /\ i # x BY <2>5, <1>1 DEF Places
      <4> QED BY <1>3, <2>6, <4>1
    <3>2. x \in 0 .. group.fec.count - 1 /\ x \notin DOMAIN group.packets
      BY <1>3, <2>2, <2>5 DEF Places
    <3>3. \A i \in 0 .. group.fec.count - 1 : i \notin DOMAIN group.packets => i = x
      BY <1>3, <2>2, <2>6 DEF Places
    <3> HIDE DEF group
    <3> QED BY <3>1, <3>2, <3>3 DEF MissingIndex
  <2>8. DOMAIN all = Places
    BY <1>3, <2>6, <2>7
  <2>9. \A i \in Places :
          all[i] = IF i = x THEN First(g) .. First(g) + SendGroup - 1 ELSE {First(g) + i}
    <3> TAKE i \in Places
    <3>1. i \in DOMAIN all /\ (i # x => i \in D) BY <2>6, <2>8
    <3>2. all[i] = IF i = j THEN group.fec.payload ELSE group.packets[i] BY <3>1
    <3> HIDE DEF all, j
    <3> QED BY <1>3, <2>2, <2>7, <3>1, <3>2
  <2>10. Xor(all) = {First(g) + x}
    <3> HIDE DEF all
    <3>1. all[x] = First(g) .. First(g) + SendGroup - 1 BY <2>9
    <3>2. \A i \in Places : i # x => all[i] = {First(g) + i} BY <2>9
    <3> QED BY <1>1, <2>8, <3>1, <3>2, XorOfTheRest
  <2>11. GroupFits(g, marked)
    <3>1. marked = GroupOf(g, D, fec, TRUE)
      <4> DEFINE old == [i \in D |-> {First(g) + i}]
      <4>1. group = [packets |-> old, fec |-> fec, recovered |-> recovered]
        BY <1>2 DEF GroupOf
      <4> HIDE DEF old, group
      <4>2. \A t : [group EXCEPT !.recovered = t]
                     = [packets |-> old, fec |-> fec, recovered |-> t]
        BY <4>1
      <4>3. marked = [packets |-> old, fec |-> fec, recovered |-> TRUE]
        BY <4>2, Zenon
      <4> QED BY <4>3 DEF GroupOf, old
    <3> QED BY <3>1 DEF GroupFits
  <2>12. TryRecover(known, g) =
           [groups |-> Forget(With(known, g, marked)),
            recovery |-> [group |-> g, index |-> j, payload |-> Xor(all)]]
    BY <1>5 DEF TryRecover
  <2> HIDE DEF marked, all, j
  <2>13. GroupsFit(Forget(With(known, g, marked)))
    BY <1>1, <2>11, WithFits, ForgetFits
  <2>14. RecoveryFits([group |-> g, index |-> j, payload |-> Xor(all)])
    BY <1>1, <2>5, <2>7, <2>10 DEF RecoveryFits
  <2> QED BY <2>12, <2>13, <2>14
<1> QED BY <1>4, <1>5

\* add_packet, for a frame as it was sent.
LEMMA TakesPacket ==
  ASSUME NEW known, GroupsFit(known), NEW g \in Nat, NEW i \in Places
  PROVE  GroupsFit(WithPacket(known, g, i, {First(g) + i}).groups)
<1> DEFINE group == Known(known, g)
           more == [group EXCEPT !.packets =
                      [k \in DOMAIN @ \cup {i} |-> IF k = i THEN {First(g) + i} ELSE @[k]]]
<1>1. PICK D \in SUBSET Places, fec \in {NoFec, Whole(g)}, recovered \in BOOLEAN :
        group = GroupOf(g, D, fec, recovered)
  BY KnownFits DEF GroupFits
<1>2. more = GroupOf(g, D \cup {i}, fec, recovered)
  <2> DEFINE old == [d \in D |-> {First(g) + d}]
  <2>1. [k \in D \cup {i} |-> IF k = i THEN {First(g) + i} ELSE old[k]]
          = [k \in D \cup {i} |-> {First(g) + k}]
    OBVIOUS
  <2>2. DOMAIN old = D OBVIOUS
  <2>3. group = [packets |-> old, fec |-> fec, recovered |-> recovered]
    BY <1>1 DEF GroupOf
  <2> HIDE DEF group, old
  <2>4. more = [packets |-> [k \in DOMAIN old \cup {i} |->
                               IF k = i THEN {First(g) + i} ELSE old[k]],
                fec |-> fec, recovered |-> recovered]
    BY <2>3
  <2> QED BY <2>1, <2>2, <2>4 DEF GroupOf
<1>3. GroupFits(g, more)
  <2>1. D \cup {i} \in SUBSET Places OBVIOUS
  <2> QED BY <1>2, <2>1 DEF GroupFits
<1>4. WithPacket(known, g, i, {First(g) + i}) = TryRecover(With(known, g, more), g)
  BY DEF WithPacket
<1> HIDE DEF more
<1> QED BY <1>3, <1>4, WithFits, RecoversWhatWasSent

\* add_fec, for the FEC packet of a whole group.
LEMMA TakesFec ==
  ASSUME NEW known, GroupsFit(known), NEW fec \in Wholes
  PROVE  /\ GroupsFit(WithFec(known, fec).groups)
         /\ RecoveryFits(WithFec(known, fec).recovery)
<1>1. PICK g \in Nat : fec = Whole(g) BY DEF Wholes
<1>2. fec.group = g BY <1>1 DEF Whole
<1> DEFINE group == Known(known, g)
           more == [group EXCEPT !.fec = fec]
<1>3. PICK D \in SUBSET Places, old \in {NoFec, Whole(g)}, recovered \in BOOLEAN :
        group = GroupOf(g, D, old, recovered)
  BY KnownFits DEF GroupFits
<1>4. more = GroupOf(g, D, fec, recovered) BY <1>3 DEF GroupOf
<1>5. GroupFits(g, more) BY <1>1, <1>4 DEF GroupFits
<1>6. WithFec(known, fec) = TryRecover(With(known, g, more), g)
  BY <1>2 DEF WithFec
<1> HIDE DEF more
<1> QED BY <1>5, <1>6, WithFits, RecoversWhatWasSent
-----------------------------------------------------------------------------
(* The stream.                                                              *)

OnAir == {Audio(s) : s \in Nat} \cup {FecPacket(fec) : fec \in Wholes}

\* What the sender has sent, its encoder holds and the air carries.
SenderInv ==
  /\ sent \in Nat /\ EncoderAt(encoder, sent)
  /\ air \in Seq(OnAir)

LEMMA WithoutOne ==
  ASSUME NEW S, NEW s \in Seq(S), NEW i \in 1 .. Len(s)
  PROVE  WithoutAt(s, i) \in Seq(S)
<1>1. SubSeq(s, 1, i - 1) \in Seq(S) OBVIOUS
<1>2. SubSeq(s, i + 1, Len(s)) \in Seq(S)
  <2> DEFINE l == Len(s)
  <2>1. l \in Nat OBVIOUS
  <2>2. \A a, b \in Int : (\A k \in a .. b : k \in 1 .. Len(s)) => SubSeq(s, a, b) \in Seq(S)
    OBVIOUS
  <2>3. \A k \in i + 1 .. l : k \in 1 .. Len(s) BY <2>1
  <2> QED BY <2>1, <2>2, <2>3
<1> QED BY <1>1, <1>2 DEF WithoutAt

LEMMA InitSender == Init => SenderInv
<1> SUFFICES ASSUME Init PROVE SenderInv
  OBVIOUS
<1>1. sent = 0 /\ encoder = NewEncoder /\ air = <<>>
  BY DEF Init
<1>2. EncoderAt(NewEncoder, 0)
  <2>1. SendGroup \in Nat /\ SendGroup > 1 BY ReceptionAssumption
  <2>2. First(0) = 0 BY <2>1 DEF First
  <2>3. NewEncoder.group = <<>> /\ NewEncoder.number = 0 BY DEF NewEncoder
  <2>4. NewEncoder \in [group : Seq(SUBSET Nat), number : Nat] BY DEF NewEncoder
  <2>5. Len(<<>>) = 0 OBVIOUS
  <2> QED BY <2>1, <2>2, <2>3, <2>4, <2>5 DEF EncoderAt
<1>3. air \in Seq(OnAir) BY <1>1
<1> QED BY <1>1, <1>2, <1>3 DEF SenderInv

LEMMA NextSender == SenderInv /\ [Next]_vars => SenderInv'
<1> SUFFICES ASSUME SenderInv, [Next]_vars PROVE SenderInv'
  OBVIOUS
<1> USE DEF SenderInv
<1>1. CASE Send
  <2> DEFINE done == Encoded(encoder, SendGroup, {sent})
             parity == IF done.fec = NoFec THEN <<>> ELSE <<FecPacket(done.fec)>>
  <2>1. EncoderAt(done.encoder, sent + 1) /\ done.fec \in {NoFec} \cup Wholes
    BY EncodesWholes
  <2>2. /\ sent' = sent + 1 /\ encoder' = done.encoder
        /\ air' = air \o <<Audio(sent)>> \o parity
    BY <1>1 DEF Send
  <2>3. Audio(sent) \in OnAir BY DEF OnAir
  <2>4. done.fec # NoFec => FecPacket(done.fec) \in OnAir BY <2>1 DEF OnAir
  <2> HIDE DEF done
  <2>5. parity \in Seq(OnAir) BY <2>4
  <2> HIDE DEF parity
  <2>6. air' \in Seq(OnAir) BY <2>2, <2>3, <2>5
  <2> QED BY <2>1, <2>2, <2>6
<1>2. CASE SendFails
  <2>1. EncoderAt(Encoded(encoder, SendGroup, {sent}).encoder, sent + 1)
    BY EncodesWholes
  <2> QED BY <1>2, <2>1 DEF SendFails
<1>3. CASE Deliver \/ Copy \/ Lose
  <2>1. /\ air # <<>> /\ UNCHANGED <<sent, encoder>>
        /\ air' = Tail(air) \/ air' = air
    BY <1>3 DEF Deliver, Copy, Lose
  <2>2. air' \in Seq(OnAir) BY <2>1
  <2> QED BY <2>1, <2>2
<1>4. CASE Overtake
  <2>1. PICK i \in 2 .. Len(air) : air' = WithoutAt(air, i)
    BY <1>4 DEF Overtake
  <2>2. i \in 1 .. Len(air)
    <3>1. Len(air) \in Nat OBVIOUS
    <3> QED BY <3>1
  <2>3. air' \in Seq(OnAir) BY <2>1, <2>2, WithoutOne
  <2>4. UNCHANGED <<sent, encoder>> BY <1>4 DEF Overtake
  <2> QED BY <2>3, <2>4
<1>5. CASE Ask \/ LinkIsBack \/ UNCHANGED vars
  BY <1>5 DEF Ask, LinkIsBack, vars
<1> QED BY <1>1, <1>2, <1>3, <1>4, <1>5 DEF Next

LEMMA SenderInvariant == Spec => []SenderInv
BY InitSender, NextSender, PTL DEF Spec

\* A step takes in a packet that was sent, leaves the receiver alone, or makes
\* it begin again.
LEMMA ReceiverMoves ==
  ASSUME SenderInv, [Next]_vars
  PROVE  \/ \E packet \in OnAir : TakeIn(packet)
         \/ UNCHANGED receiverVars
         \/ LinkIsBack
<1> USE DEF SenderInv
<1>1. CASE Send \/ SendFails \/ Lose \/ Ask \/ UNCHANGED vars
  BY <1>1 DEF Send, SendFails, Lose, Ask, vars, receiverVars
<1>2. CASE Deliver \/ Copy
  <2>1. air # <<>> /\ TakeIn(Head(air)) BY <1>2 DEF Deliver, Copy
  <2>2. Head(air) \in OnAir BY <2>1
  <2> QED BY <2>1, <2>2
<1>3. CASE Overtake
  <2>1. PICK i \in 2 .. Len(air) : TakeIn(air[i]) BY <1>3 DEF Overtake
  <2>2. air[i] \in OnAir
    <3>1. Len(air) \in Nat OBVIOUS
    <3>2. i \in 1 .. Len(air) BY <3>1
    <3> QED BY <3>2
  <2> QED BY <2>1, <2>2
<1> QED BY <1>1, <1>2, <1>3 DEF Next

-----------------------------------------------------------------------------
(* What is handed on.                                                       *)

HandedInv == GroupsFit(groups) /\ HandedIsSent

LEMMA AudioTaken ==
  ASSUME SendGroup = HearGroup, GroupsFit(groups), HandedIsSent, NEW s \in Nat, TakeAudio(s)
  PROVE  GroupsFit(groups') /\ HandedIsSent'
<1>1. GroupsFit(groups')
  <2> DEFINE g == s \div SendGroup
             i == s % SendGroup
  <2>1. g \in Nat /\ i \in Places /\ s = First(g) + i BY PlaceOfNumber DEF Places
  <2>2. groups' = WithPacket(groups, g, i, {s}).groups BY DEF TakeAudio
  <2> HIDE DEF g, i
  <2> QED BY <2>1, <2>2, TakesPacket
<1>2. handed' = handed \cup {[number |-> s, payload |-> {s}]} BY DEF TakeAudio, HandOn
<1> QED BY <1>1, <1>2 DEF HandedIsSent

LEMMA FecTaken ==
  ASSUME SendGroup = HearGroup, GroupsFit(groups), HandedIsSent, NEW fec \in Wholes,
         TakeFec(fec)
  PROVE  GroupsFit(groups') /\ HandedIsSent'
<1> DEFINE after == WithFec(groups, fec)
           recovery == after.recovery
<1>1. GroupsFit(after.groups) /\ RecoveryFits(recovery) BY TakesFec
<1>2. groups' = after.groups BY DEF TakeFec
<1>3. CASE recovery = NoRecovery
  <2>1. handed' = handed BY <1>3 DEF TakeFec
  <2> QED BY <1>1, <1>2, <2>1 DEF HandedIsSent
<1>4. CASE recovery # NoRecovery
  <2>1. handed' = handed \cup {[number |-> recovery.group * HearGroup + recovery.index,
                                payload |-> recovery.payload]}
    BY <1>4 DEF TakeFec, HandOn
  <2> HIDE DEF after, recovery
  <2>2. PICK g \in Nat, i \in Places :
          recovery = [group |-> g, index |-> i, payload |-> {First(g) + i}]
    BY <1>1, <1>4 DEF RecoveryFits
  <2>3. /\ recovery.group * HearGroup + recovery.index = First(g) + i
        /\ recovery.payload = {First(g) + i}
    BY <2>2 DEF First
  <2>4. handed' = handed \cup {[number |-> First(g) + i, payload |-> {First(g) + i}]}
    BY <2>1, <2>3
  <2>5. HandedIsSent' BY <2>4 DEF HandedIsSent
  <2> QED BY <1>1, <1>2, <2>5
<1> QED BY <1>3, <1>4

LEMMA PacketTaken ==
  ASSUME SendGroup = HearGroup, GroupsFit(groups), HandedIsSent, NEW packet \in OnAir,
         TakeIn(packet)
  PROVE  GroupsFit(groups') /\ HandedIsSent'
<1>1. CASE \E s \in Nat : packet = Audio(s)
  <2>1. PICK s \in Nat : packet = Audio(s) BY <1>1
  <2>2. packet.kind = "audio" /\ packet.number = s BY <2>1 DEF Audio
  <2>3. TakeAudio(s) BY <2>2 DEF TakeIn
  <2> QED BY <2>3, AudioTaken
<1>2. CASE \E fec \in Wholes : packet = FecPacket(fec)
  <2>1. PICK fec \in Wholes : packet = FecPacket(fec) BY <1>2
  <2>2. packet.kind = "fec" /\ packet.fec = fec BY <2>1 DEF FecPacket
  <2>3. TakeFec(fec) BY <2>2 DEF TakeIn
  <2> QED BY <2>3, FecTaken
<1> QED BY <1>1, <1>2 DEF OnAir

LEMMA NoGroupsFit == GroupsFit(NoGroups)
BY DEF GroupsFit, NoGroups

LEMMA NextHanded ==
  ASSUME SendGroup = HearGroup, SenderInv, HandedInv, [Next]_vars
  PROVE  HandedInv'
<1> USE DEF HandedInv
<1>1. CASE \E packet \in OnAir : TakeIn(packet)
  BY <1>1, PacketTaken
<1>2. CASE UNCHANGED receiverVars
  <2>1. UNCHANGED <<groups, handed>> BY <1>2 DEF receiverVars
  <2> QED BY <2>1 DEF HandedIsSent
<1>3. CASE LinkIsBack
  <2>1. groups' = NoGroups /\ handed' = handed BY <1>3 DEF LinkIsBack
  <2> QED BY <2>1, NoGroupsFit DEF HandedIsSent
<1> QED BY <1>1, <1>2, <1>3, ReceiverMoves

\* Ends that group alike, in groups of any size: a frame handed on is the frame
\* sent under its number, whether it came or was recovered, and whatever was
\* lost, copied, overtaken or forgotten (FecEncoder, FecDecoder, ADR-021).
THEOREM WhatIsHandedWasSent ==
  ASSUME SendGroup = HearGroup
  PROVE  Spec => []HandedIsSent
<1>1. Init => HandedInv
  BY NoGroupsFit DEF Init, HandedInv, HandedIsSent
<1>2. SenderInv /\ HandedInv /\ [Next]_vars => HandedInv' BY NextHanded
<1>3. HandedInv => HandedIsSent BY DEF HandedInv
<1> QED BY <1>1, <1>2, <1>3, SenderInvariant, PTL DEF Spec

-----------------------------------------------------------------------------
(* The receiver's tracker.  Until a number comes that it does not place,    *)
(* its marks are the late numbers of those that arrived, so that a number   *)
(* is counted back exactly when it was missing.                             *)

\* What is missing of the numbers up to h, since the first of those in S.
Gap(S, h) == {n \in 0 .. h : (\E m \in S : m < n) /\ n \notin S}

Trackers == [begun : BOOLEAN, highest : Nat, marks : SUBSET Nat, received : Nat, lost : Nat]

\* The tracker `t` has placed all of the numbers S.
Counts(t, S) ==
  /\ t.highest \in S /\ \A n \in S : n <= t.highest
  /\ t.marks = {d \in 0 .. Window - 1 : t.highest - d \in S}
  /\ t.lost = Cardinality(Gap(S, t.highest))

TrackerInv ==
  /\ tracker \in Trackers /\ arrived \in SUBSET Nat /\ strayed \in BOOLEAN
  /\ ~tracker.begun => tracker = NewTracker /\ arrived = {}
  /\ tracker.begun /\ ~strayed => Counts(tracker, arrived)

LEMMA GapIsFinite ==
  ASSUME NEW S, NEW h \in Nat
  PROVE  IsFiniteSet(Gap(S, h)) /\ Cardinality(Gap(S, h)) \in Nat
<1>1. IsFiniteSet(0 .. h) BY FS_Interval
<1>2. Gap(S, h) \in SUBSET (0 .. h) BY DEF Gap
<1> QED BY <1>1, <1>2, FS_Subset, FS_CardinalityType

\* A number further on leaves all that it passes over missing.
LEMMA GapGrows ==
  ASSUME NEW S \in SUBSET Nat, NEW h \in S, \A n \in S : n <= h,
         NEW s \in Nat, s > h
  PROVE  Cardinality(Gap(S \cup {s}, s)) = Cardinality(Gap(S, h)) + (s - h - 1)
<1> DEFINE old == Gap(S, h)
           passed == h + 1 .. s - 1
<1>1. Gap(S \cup {s}, s) = old \cup passed
  <2>1. ASSUME NEW n \in Gap(S \cup {s}, s) PROVE n \in old \cup passed
    <3>1. n \in 0 .. s /\ n \notin S /\ n # s BY DEF Gap
    <3>2. \E m \in S : m < n
      <4>1. PICK m \in S \cup {s} : m < n BY DEF Gap
      <4>2. m # s BY <3>1, <4>1
      <4> QED BY <4>1, <4>2
    <3>3. CASE n <= h
      <4>1. n \in 0 .. h BY <3>1, <3>3
      <4> QED BY <3>1, <3>2, <4>1 DEF Gap
    <3>4. CASE n > h BY <3>1, <3>4
    <3> QED BY <3>1, <3>3, <3>4
  <2>2. ASSUME NEW n \in old PROVE n \in Gap(S \cup {s}, s)
    <3>1. n \in 0 .. h /\ n \notin S /\ \E m \in S : m < n BY DEF Gap
    <3>2. n \in 0 .. s /\ n # s BY <3>1
    <3> QED BY <3>1, <3>2 DEF Gap
  <2>3. ASSUME NEW n \in passed PROVE n \in Gap(S \cup {s}, s)
    <3>1. n \in 0 .. s /\ n # s /\ n > h OBVIOUS
    <3>2. n \notin S BY <3>1
    <3>3. h < n BY <3>1
    <3> QED BY <3>1, <3>2, <3>3 DEF Gap
  <2> HIDE DEF old, passed
  <2> QED BY <2>1, <2>2, <2>3
<1>2. IsFiniteSet(old) /\ Cardinality(old) \in Nat BY GapIsFinite
<1>3. IsFiniteSet(passed) /\ Cardinality(passed) = s - h - 1
  <2>1. h + 1 \in Int /\ s - 1 \in Int OBVIOUS
  <2>2. /\ IsFiniteSet(passed)
        /\ Cardinality(passed) = IF h + 1 > s - 1 THEN 0 ELSE (s - 1) - (h + 1) + 1
    BY <2>1, FS_Interval
  <2>3. (IF h + 1 > s - 1 THEN 0 ELSE (s - 1) - (h + 1) + 1) = s - h - 1 OBVIOUS
  <2> QED BY <2>2, <2>3
<1>4. old \cap passed = {} BY DEF Gap
<1> HIDE DEF old, passed
<1>5. Cardinality(old \cup passed)
        = Cardinality(old) + Cardinality(passed) - Cardinality(old \cap passed)
  BY <1>2, <1>3, FS_Union
<1>6. Cardinality(old \cap passed) = 0 BY <1>4, FS_EmptySet
<1>7. Cardinality(old \cup passed) = Cardinality(old) + (s - h - 1)
  BY <1>2, <1>3, <1>5, <1>6
<1> QED BY <1>1, <1>7 DEF old

\* A number that comes late is missing no more.
LEMMA GapShrinks ==
  ASSUME NEW S \in SUBSET Nat, NEW h \in Nat, NEW s \in Nat, s < h, s \notin S,
         \E m \in S : m <= s
  PROVE  /\ Cardinality(Gap(S, h)) > 0
         /\ Cardinality(Gap(S \cup {s}, h)) = Cardinality(Gap(S, h)) - 1
<1>1. PICK m \in S : m < s OBVIOUS
<1>2. s \in Gap(S, h) BY <1>1 DEF Gap
<1>3. Gap(S \cup {s}, h) = Gap(S, h) \ {s}
  <2>1. ASSUME NEW n \in 0 .. h PROVE (\E k \in S \cup {s} : k < n) <=> (\E k \in S : k < n)
    <3>1. s < n => m < n BY <1>1, <2>1
    <3> QED BY <3>1
  <2> QED BY <2>1 DEF Gap
<1>4. IsFiniteSet(Gap(S, h)) /\ Cardinality(Gap(S, h)) \in Nat BY GapIsFinite
<1>5. Cardinality(Gap(S, h) \ {s}) = Cardinality(Gap(S, h)) - 1
  BY <1>2, <1>4, FS_RemoveElement
<1>6. Cardinality(Gap(S, h)) # 0 BY <1>2, <1>4, FS_EmptySet
<1> QED BY <1>3, <1>4, <1>5, <1>6

\* A number ahead, no further than the window.
LEMMA CountsAhead ==
  ASSUME NEW t \in Trackers, NEW S \in SUBSET Nat, Counts(t, S),
         NEW s \in Nat, s > t.highest, s - t.highest <= Window
  PROVE  Ahead(t, s) \in Trackers /\ Ahead(t, s).begun = t.begun /\ Counts(Ahead(t, s), S \cup {s})
<1> DEFINE d == s - t.highest
           moved == {m + d : m \in {m \in t.marks : m + d < Window}}
           a == Ahead(t, s)
<1>1. /\ t.highest \in Nat /\ t.lost \in Nat /\ t.marks \in SUBSET Nat /\ Window \in Nat /\ Window > 0
      /\ d \in Nat /\ d >= 1 /\ d <= Window
  BY TrackerAssumption DEF Trackers
<1>2. a = [t EXCEPT !.highest = s, !.lost = @ + d - 1, !.marks = {0} \cup moved]
  BY DEF Ahead
<1>3. moved \in SUBSET Nat BY <1>1
<1>4. {0} \cup moved = {k \in 0 .. Window - 1 : s - k \in S \cup {s}}
  <2>1. ASSUME NEW k \in moved PROVE k \in 0 .. Window - 1 /\ s - k \in S \cup {s}
    <3>1. PICK m \in t.marks : m + d < Window /\ k = m + d OBVIOUS
    <3>2. m \in Nat /\ t.highest - m \in S BY <1>1, <3>1 DEF Counts
    <3>3. s - k = t.highest - m /\ k \in 0 .. Window - 1 BY <1>1, <3>1, <3>2
    <3> QED BY <3>2, <3>3
  <2>2. 0 \in 0 .. Window - 1 /\ s - 0 = s BY <1>1
  <2>3. ASSUME NEW k \in 0 .. Window - 1, s - k \in S \cup {s}, k # 0 PROVE k \in moved
    <3>1. s - k # s /\ s - k \in S BY <2>3
    <3>2. s - k <= t.highest BY <3>1 DEF Counts
    <3>3. k - d \in 0 .. Window - 1 /\ t.highest - (k - d) = s - k /\ (k - d) + d = k /\ k < Window
      BY <1>1, <3>2
    <3>4. k - d \in t.marks BY <3>1, <3>3 DEF Counts
    <3> QED BY <3>3, <3>4
  <2> HIDE DEF moved
  <2> QED BY <2>1, <2>2, <2>3
<1>5. Cardinality(Gap(S \cup {s}, s)) = Cardinality(Gap(S, t.highest)) + (s - t.highest - 1)
  BY GapGrows DEF Counts
<1> HIDE DEF moved, a
<1>6. /\ a.highest = s /\ a.lost = t.lost + d - 1 /\ a.marks = {0} \cup moved
      /\ a.begun = t.begun /\ a \in Trackers
  <2>1. {0} \cup moved \in SUBSET Nat BY <1>3
  <2>2. t.lost + d - 1 \in Nat BY <1>1
  <2> QED BY <1>2, <2>1, <2>2 DEF Trackers
<1>7. a.lost = Cardinality(Gap(S \cup {s}, s))
  BY <1>1, <1>5, <1>6 DEF Counts
<1>8. \A n \in S \cup {s} : n <= s BY <1>1 DEF Counts
<1>9. Counts(a, S \cup {s}) BY <1>4, <1>6, <1>7, <1>8 DEF Counts
<1> QED BY <1>6, <1>9 DEF a

\* A number behind, within the window and no earlier than the first.
LEMMA CountsBehind ==
  ASSUME NEW t \in Trackers, NEW S \in SUBSET Nat, Counts(t, S),
         NEW s \in Nat, s < t.highest, t.highest - s < Window, \E m \in S : m <= s
  PROVE  Behind(t, s) \in Trackers /\ Behind(t, s).begun = t.begun /\ Counts(Behind(t, s), S \cup {s})
<1> DEFINE d == t.highest - s
           b == Behind(t, s)
<1>1. /\ t.highest \in Nat /\ t.lost \in Nat /\ t.marks \in SUBSET Nat /\ Window \in Nat
      /\ d \in 0 .. Window - 1 /\ t.highest - d = s
  BY TrackerAssumption DEF Trackers
<1>2. d \in t.marks <=> s \in S BY <1>1 DEF Counts
<1>3. CASE s \in S
  <2>1. b = t BY <1>2, <1>3 DEF Behind
  <2>2. S \cup {s} = S BY <1>3
  <2> QED BY <2>1, <2>2
<1>4. CASE s \notin S
  <2>1. /\ Cardinality(Gap(S, t.highest)) > 0
        /\ Cardinality(Gap(S \cup {s}, t.highest)) = Cardinality(Gap(S, t.highest)) - 1
    BY <1>1, <1>4, GapShrinks
  <2>2. t.lost > 0 BY <2>1 DEF Counts
  <2>3. b = [t EXCEPT !.marks = @ \cup {d}, !.lost = IF @ > 0 THEN @ - 1 ELSE 0]
    BY <1>2, <1>4 DEF Behind
  <2> HIDE DEF b
  <2>4. /\ b.highest = t.highest /\ b.lost = t.lost - 1 /\ b.marks = t.marks \cup {d}
        /\ b.begun = t.begun /\ b \in Trackers
    <3>1. (IF t.lost > 0 THEN t.lost - 1 ELSE 0) = t.lost - 1 /\ t.lost - 1 \in Nat
      BY <1>1, <2>2
    <3>2. t.marks \cup {d} \in SUBSET Nat BY <1>1
    <3> QED BY <2>3, <3>1, <3>2 DEF Trackers
  <2>5. t.marks \cup {d} = {k \in 0 .. Window - 1 : t.highest - k \in S \cup {s}}
    <3>1. \A k \in 0 .. Window - 1 : t.highest - k = s <=> k = d BY <1>1
    <3> QED BY <1>1, <3>1 DEF Counts
  <2>6. b.lost = Cardinality(Gap(S \cup {s}, t.highest)) BY <2>1, <2>4 DEF Counts
  <2>7. t.highest \in S \cup {s} /\ \A n \in S \cup {s} : n <= t.highest
    BY <1>1 DEF Counts
  <2>8. Counts(b, S \cup {s}) BY <2>4, <2>5, <2>6, <2>7 DEF Counts
  <2> QED BY <2>4, <2>8 DEF b
<1> QED BY <1>3, <1>4

\* The first number begins the count.
LEMMA CountsFirst ==
  ASSUME NEW s \in Nat, NEW t, t.highest = s, t.marks = {0}, t.lost = 0
  PROVE  Counts(t, {s})
<1>2. {0} = {d \in 0 .. Window - 1 : s - d \in {s}}
  <2>1. Window \in Nat /\ Window > 0 BY TrackerAssumption
  <2> QED BY <2>1
<1>3. Gap({s}, s) = {}
  BY DEF Gap
<1>4. Cardinality(Gap({s}, s)) = 0 BY <1>3, FS_EmptySet
<1>5. s \in {s} /\ \A n \in {s} : n <= s OBVIOUS
<1> QED BY <1>2, <1>3, <1>4, <1>5 DEF Counts

\* Whatever a number is, counting it leaves a tracker.
LEMMA AheadType ==
  ASSUME NEW t \in Trackers, NEW s \in Nat, s > t.highest
  PROVE  Ahead(t, s) \in Trackers /\ Ahead(t, s).begun = t.begun
<1> DEFINE d == s - t.highest
           moved == {m + d : m \in {m \in t.marks : m + d < Window}}
<1>1. t.highest \in Nat /\ t.lost \in Nat /\ t.marks \in SUBSET Nat /\ d \in Nat /\ d >= 1
  BY DEF Trackers
<1>2. {0} \cup moved \in SUBSET Nat /\ {0} \in SUBSET Nat /\ t.lost + d - 1 \in Nat
  BY <1>1
<1>3. \/ Ahead(t, s) = [t EXCEPT !.highest = s, !.lost = @ + d - 1, !.marks = {0} \cup moved]
      \/ Ahead(t, s) = [t EXCEPT !.highest = s, !.marks = {0}]
  BY DEF Ahead
<1> HIDE DEF d, moved
<1> QED BY <1>2, <1>3 DEF Trackers

LEMMA BehindType ==
  ASSUME NEW t \in Trackers, NEW s \in Nat, s < t.highest
  PROVE  Behind(t, s) \in Trackers /\ Behind(t, s).begun = t.begun
<1> DEFINE d == t.highest - s
           less == IF t.lost > 0 THEN t.lost - 1 ELSE 0
<1>1. t.highest \in Nat /\ t.lost \in Nat /\ t.marks \in SUBSET Nat /\ d \in Nat
  BY DEF Trackers
<1>2. t.marks \cup {d} \in SUBSET Nat /\ less \in Nat
  BY <1>1
<1>3. \/ Behind(t, s) = [t EXCEPT !.marks = @ \cup {d}, !.lost = less]
      \/ Behind(t, s) = t
  BY DEF Behind
<1> HIDE DEF d, less
<1> QED BY <1>2, <1>3 DEF Trackers

LEMMA NumberTaken ==
  ASSUME TrackerInv, NEW s \in Nat, TakeAudio(s)
  PROVE  TrackerInv'
<1> DEFINE t == [tracker EXCEPT !.received = @ + 1]
<1>1. /\ tracker' = Recorded(tracker, s) /\ arrived' = arrived \cup {s}
      /\ strayed' = (strayed \/ ~Placed(s))
  BY DEF TakeAudio
<1>2. /\ t \in Trackers /\ t.begun = tracker.begun /\ t.highest = tracker.highest
      /\ t.marks = tracker.marks /\ t.lost = tracker.lost
  BY DEF TrackerInv, Trackers
<1>3. t.highest \in Nat /\ t.lost \in Nat /\ t.marks \in SUBSET Nat /\ Window \in Nat
  BY <1>2, TrackerAssumption DEF Trackers
<1>4. arrived' \in SUBSET Nat /\ strayed' \in BOOLEAN
  BY <1>1 DEF TrackerInv
<1>5. CASE ~tracker.begun
  <2>1. tracker = NewTracker /\ arrived = {} BY <1>5 DEF TrackerInv
  <2>2. tracker' = [t EXCEPT !.begun = TRUE, !.highest = s, !.marks = {0}]
    BY <1>1, <1>2, <1>5 DEF Recorded
  <2>3. t.lost = 0 BY <1>2, <2>1 DEF NewTracker
  <2>4. \A b \in BOOLEAN :
          LET begun == [t EXCEPT !.begun = b, !.highest = s, !.marks = {0}]
          IN  /\ begun \in Trackers /\ begun.begun = b
              /\ begun.highest = s /\ begun.marks = {0} /\ begun.lost = 0
    <3> HIDE DEF t
    <3>1. {0} \in SUBSET Nat OBVIOUS
    <3> QED BY <1>2, <2>3, <3>1 DEF Trackers
  <2>5. /\ tracker' \in Trackers /\ tracker'.begun = TRUE
        /\ tracker'.highest = s /\ tracker'.marks = {0} /\ tracker'.lost = 0
    <3> HIDE DEF t
    <3> QED BY <2>2, <2>4, Zenon
  <2>6. arrived' = {s} BY <1>1, <2>1
  <2>7. Counts(tracker', arrived') BY <2>5, <2>6, CountsFirst
  <2> QED BY <1>4, <2>5, <2>7 DEF TrackerInv
<1>6. CASE tracker.begun /\ s > t.highest
  <2>1. tracker' = Ahead(t, s) BY <1>1, <1>2, <1>6 DEF Recorded
  <2>2. tracker' \in Trackers /\ tracker'.begun
    BY <1>2, <1>6, <2>1, AheadType
  <2>3. ASSUME ~strayed' PROVE Counts(tracker', arrived')
    <3>1. ~strayed /\ Placed(s) BY <1>1, <2>3 DEF TrackerInv
    <3>2. s - t.highest <= Window BY <1>2, <1>6, <3>1 DEF Placed
    <3>3. Counts(t, arrived) BY <1>2, <1>6, <3>1 DEF TrackerInv, Counts
    <3> QED BY <1>1, <1>2, <1>6, <2>1, <3>2, <3>3, CountsAhead DEF TrackerInv
  <2> QED BY <1>4, <2>2, <2>3 DEF TrackerInv
<1>7. CASE tracker.begun /\ s < t.highest
  <2>1. tracker' = Behind(t, s) BY <1>1, <1>2, <1>3, <1>7 DEF Recorded
  <2>2. tracker' \in Trackers /\ tracker'.begun
    BY <1>2, <1>7, <2>1, BehindType
  <2>3. ASSUME ~strayed' PROVE Counts(tracker', arrived')
    <3>1. ~strayed /\ Placed(s) BY <1>1, <2>3 DEF TrackerInv
    <3>2. t.highest - s < Window /\ \E n \in arrived : n <= s
      BY <1>2, <1>7, <3>1 DEF Placed
    <3>3. Counts(t, arrived) BY <1>2, <1>7, <3>1 DEF TrackerInv, Counts
    <3> QED BY <1>1, <1>2, <1>7, <2>1, <3>2, <3>3, CountsBehind DEF TrackerInv
  <2> QED BY <1>4, <2>2, <2>3 DEF TrackerInv
<1>8. CASE tracker.begun /\ s = t.highest
  <2>1. tracker' = t BY <1>1, <1>2, <1>3, <1>8 DEF Recorded
  <2>2. ASSUME ~strayed' PROVE Counts(tracker', arrived')
    <3>1. ~strayed BY <1>1, <2>2 DEF TrackerInv
    <3>2. Counts(t, arrived) BY <1>2, <1>8, <3>1 DEF TrackerInv, Counts
    <3>3. arrived' = arrived BY <1>1, <1>8, <3>2 DEF Counts
    <3> QED BY <2>1, <3>2, <3>3
  <2> QED BY <1>2, <1>4, <1>8, <2>1, <2>2 DEF TrackerInv
<1> QED BY <1>3, <1>5, <1>6, <1>7, <1>8

LEMMA NewTrackerType == NewTracker \in Trackers /\ ~NewTracker.begun
BY DEF NewTracker, Trackers

LEMMA InitTracker == Init => TrackerInv
BY NewTrackerType DEF Init, TrackerInv

LEMMA NextTracker == SenderInv /\ TrackerInv /\ [Next]_vars => TrackerInv'
<1> SUFFICES ASSUME SenderInv, TrackerInv, [Next]_vars PROVE TrackerInv'
  OBVIOUS
<1>1. ASSUME NEW packet \in OnAir, TakeIn(packet) PROVE TrackerInv'
  <2>1. CASE \E s \in Nat : packet = Audio(s)
    <3>1. PICK s \in Nat : packet = Audio(s) BY <2>1
    <3>2. packet.kind = "audio" /\ packet.number = s BY <3>1 DEF Audio
    <3>3. TakeAudio(s) BY <1>1, <3>2 DEF TakeIn
    <3> QED BY <3>3, NumberTaken
  <2>2. CASE \E fec \in Wholes : packet = FecPacket(fec)
    <3>1. packet.kind = "fec" BY <2>2 DEF FecPacket
    <3>2. TakeFec(packet.fec) BY <1>1, <3>1 DEF TakeIn
    <3>3. UNCHANGED <<tracker, arrived, strayed>> BY <3>2 DEF TakeFec
    <3> QED BY <3>3 DEF TrackerInv, Counts
  <2> QED BY <2>1, <2>2 DEF OnAir
<1>2. CASE UNCHANGED receiverVars
  <2>1. UNCHANGED <<tracker, arrived, strayed>> BY <1>2 DEF receiverVars
  <2> QED BY <2>1 DEF TrackerInv, Counts
<1>3. CASE LinkIsBack
  <2>1. tracker' = NewTracker /\ arrived' = {} /\ strayed' = FALSE
    BY <1>3 DEF LinkIsBack
  <2> QED BY <2>1, NewTrackerType DEF TrackerInv
<1> QED BY <1>1, <1>2, <1>3, ReceiverMoves

\* For any window and any order of arrival: the loss shown is what is missing,
\* as long as the tracker could place everything that came
\* (SequenceTracker::record, REQ-CON-023).
THEOREM LossShownIsMissing == Spec => []LossIsWhatIsMissing
<1>1. TrackerInv => LossIsWhatIsMissing
  BY DEF TrackerInv, Counts, LossIsWhatIsMissing, Gap
<1> QED BY <1>1, InitTracker, NextTracker, SenderInvariant, PTL DEF Spec

-----------------------------------------------------------------------------
(* A calm stream: numbers that do not start over, and what a ring holds.    *)

\* Both ends group alike, and the buffer is as deep as a group less the frame
\* that is played.
DeepEnough == HearGroup = SendGroup /\ FirstDelay + 1 >= SendGroup

LEMMA Sizes ==
  ASSUME DeepEnough
  PROVE  /\ SendGroup \in Nat /\ SendGroup >= 2 /\ FirstDelay \in Nat /\ FirstDelay + 1 >= SendGroup
         /\ Capacity \in Nat /\ Capacity >= 4 * FirstDelay + 6
         /\ Modulus \in Nat /\ MaxSent \in Nat /\ MaxSent < Modulus \div 2
         /\ Modulus \div 2 \in Nat /\ 2 * (Modulus \div 2) <= Modulus /\ Modulus >= 4 * Capacity
<1>1. SendGroup \in Nat /\ SendGroup >= 2 BY ReceptionAssumption
<1>2. FirstDelay \in Nat /\ FirstDelay >= 1 BY <1>1, PlayoutAssumption DEF DeepEnough
<1>3. RingDelay \in Nat /\ RingDelay >= FirstDelay * 2 + 2
  BY <1>2, PlayoutAssumption DEF RingDelay, Larger, HighestDelay
<1>4. Capacity \in Nat /\ Capacity >= 4 * FirstDelay + 6 BY <1>2, <1>3 DEF Capacity, Larger
<1>5. Modulus \in Nat /\ Modulus >= 4 * Capacity /\ MaxSent \in Nat /\ MaxSent < Modulus \div 2
  BY PlayoutAssumption, ReceptionAssumption
<1>6. Modulus \div 2 \in Nat /\ 2 * (Modulus \div 2) <= Modulus BY <1>5
<1> QED BY <1>1, <1>2, <1>4, <1>5, <1>6 DEF DeepEnough

\* Among the frames of the stream a distance is a difference.
LEMMA NearNumbers ==
  ASSUME DeepEnough, NEW s \in 0 .. MaxSent, NEW p \in 0 .. MaxSent
  PROVE  s \in Numbers /\ Distance(s, p) = s - p
<1> DEFINE m == Modulus
<1>1. m \in Nat \ {0} /\ m \div 2 \in Nat /\ 2 * (m \div 2) <= m /\ MaxSent < m \div 2 /\ MaxSent \in Nat
  BY Sizes
<1>2. PICK d \in Int : d = s - p BY <1>1
<1>3. -MaxSent <= d /\ d <= MaxSent BY <1>1, <1>2
<1> HIDE DEF m
<1>4. d % m = IF d >= 0 THEN d ELSE d + m
  <2>1. \A a \in Int, n \in Nat \ {0} : /\ (0 <= a /\ a < n) => (a % n) = a
                                        /\ (-n <= a /\ a < 0) => (a % n) = (a + n)
    OBVIOUS
  <2> QED BY <1>1, <1>3, <2>1
<1>5. Distance(s, p) = IF d % m < m \div 2 THEN d % m ELSE (d % m) - m
  BY <1>2, Zenon DEF Distance, m
<1>6. Distance(s, p) = d BY <1>1, <1>3, <1>4, <1>5
<1> QED BY <1>1, <1>2, <1>6 DEF Numbers, m

Rings == [0 .. Capacity - 1 -> Numbers \cup {Free}]
InPlace(ring) == \A i \in 0 .. Capacity - 1 : ring[i] # Free => SlotFor(ring[i]) = i

LEMMA HeldIs ==
  ASSUME NEW ring \in Rings
  PROVE  /\ DOMAIN ring = 0 .. Capacity - 1
         /\ Held(ring) \subseteq Numbers
         /\ \A h : h \in Held(ring) <=> h # Free /\ \E i \in 0 .. Capacity - 1 : ring[i] = h
         /\ Free \notin Numbers
BY PlayoutAssumption DEF Rings, Held, Numbers

LEMMA SlotIs ==
  ASSUME DeepEnough, NEW s \in Numbers
  PROVE  SlotFor(s) \in 0 .. Capacity - 1
BY Sizes DEF SlotFor, Numbers

LEMMA EmptyIs == Empty \in Rings /\ InPlace(Empty) /\ Held(Empty) = {}
BY DEF Empty, Rings, InPlace, Held

LEMMA HoldsIs ==
  ASSUME DeepEnough, NEW ring \in Rings, InPlace(ring), NEW s \in Numbers
  PROVE  Holds(ring, s) <=> s \in Held(ring)
BY HeldIs, SlotIs DEF Holds, InPlace

\* Fewer than a ring's length apart, two frames have two slots.
LEMMA SlotTellsApart ==
  ASSUME DeepEnough, NEW s \in Nat, NEW h \in Nat, SlotFor(s) = SlotFor(h),
         s - h < Capacity, h - s < Capacity
  PROVE  s = h
<1>1. Capacity \in Nat \ {0} BY Sizes
<1> DEFINE a == s \div Capacity
           b == h \div Capacity
<1>2. /\ a \in Int /\ b \in Int /\ SlotFor(s) \in Int
      /\ s = Capacity * a + SlotFor(s) /\ h = Capacity * b + SlotFor(h)
  BY <1>1 DEF SlotFor
<1> HIDE DEF a, b
<1>3. s - h = Capacity * (a - b)
  <2>1. \A c, x, y \in Int : c * (x - y) = c * x - c * y /\ c * x \in Int /\ c * y \in Int OBVIOUS
  <2>2. /\ Capacity * (a - b) = Capacity * a - Capacity * b
        /\ Capacity * a \in Int /\ Capacity * b \in Int
    BY <1>1, <1>2, <2>1
  <2> QED BY <1>2, <2>2
<1>4. \A t \in Int : -Capacity < Capacity * t /\ Capacity * t < Capacity => t = 0
  BY <1>1
<1>5. a - b \in Int /\ -Capacity < Capacity * (a - b) /\ Capacity * (a - b) < Capacity
  <2>1. s - h \in Int OBVIOUS
  <2> QED BY <1>1, <1>2, <1>3, <2>1
<1>6. a - b = 0 BY <1>4, <1>5
<1> QED BY <1>2, <1>6

\* A ring into which s is stored holds s, and of the others those of other slots.
LEMMA StoreIs ==
  ASSUME DeepEnough, NEW ring \in Rings, InPlace(ring), NEW s \in Numbers
  PROVE  LET after == [ring EXCEPT ![SlotFor(s)] = s]
         IN  /\ after \in Rings /\ InPlace(after)
             /\ Held(after) = {h \in Held(ring) : SlotFor(h) # SlotFor(s)} \cup {s}
<1> DEFINE after == [ring EXCEPT ![SlotFor(s)] = s]
<1>1. SlotFor(s) \in 0 .. Capacity - 1 BY SlotIs
<1>2. after \in Rings BY <1>1 DEF Rings
<1>3. \A i \in 0 .. Capacity - 1 : after[i] = IF i = SlotFor(s) THEN s ELSE ring[i]
  BY <1>1 DEF Rings
<1>4. InPlace(after) BY <1>3 DEF InPlace
<1>5. s # Free BY HeldIs
<1> HIDE DEF after
<1>6. ASSUME NEW h
      PROVE  h \in Held(after) <=> h = s \/ (h \in Held(ring) /\ SlotFor(h) # SlotFor(s))
  <2>1. /\ h \in Held(after) <=> h # Free /\ \E i \in 0 .. Capacity - 1 : after[i] = h
        /\ h \in Held(ring) <=> h # Free /\ \E i \in 0 .. Capacity - 1 : ring[i] = h
    BY <1>2, HeldIs
  <2>2. \A i \in 0 .. Capacity - 1 : ring[i] # Free => SlotFor(ring[i]) = i
    BY DEF InPlace
  <2> QED BY <1>1, <1>3, <1>5, <2>1, <2>2
<1>7. Held(after) = {h \in Held(ring) : SlotFor(h) # SlotFor(s)} \cup {s} BY <1>6
<1> QED BY <1>2, <1>4, <1>7 DEF after

LEMMA WithoutIs ==
  ASSUME NEW ring \in Rings, InPlace(ring), NEW gone, Free \notin gone
  PROVE  /\ Without(ring, gone) \in Rings /\ InPlace(Without(ring, gone))
         /\ Held(Without(ring, gone)) = Held(ring) \ gone
<1> DEFINE after == Without(ring, gone)
<1>1. \A i \in 0 .. Capacity - 1 : after[i] = IF ring[i] \in gone THEN Free ELSE ring[i]
  BY DEF Without, Rings
<1>2. after \in Rings BY DEF Without, Rings
<1>3. InPlace(after) BY <1>1 DEF InPlace
<1> HIDE DEF after
<1>4. ASSUME NEW h
      PROVE  h \in Held(after) <=> h \in Held(ring) \ gone
  <2>1. /\ h \in Held(after) <=> h # Free /\ \E i \in 0 .. Capacity - 1 : after[i] = h
        /\ h \in Held(ring) <=> h # Free /\ \E i \in 0 .. Capacity - 1 : ring[i] = h
    BY <1>2, HeldIs
  <2> QED BY <1>1, <2>1
<1>5. Held(after) = Held(ring) \ gone BY <1>4
<1> QED BY <1>2, <1>3, <1>5 DEF after

\* A frame is in one slot: so many are held as there are slots that hold one.
LEMMA ReadyIs ==
  ASSUME DeepEnough, NEW ring \in Rings, InPlace(ring)
  PROVE  IsFiniteSet(Held(ring)) /\ Ready(ring) = Cardinality(Held(ring)) /\ Ready(ring) \in Nat
<1> DEFINE full == {i \in DOMAIN ring : ring[i] # Free}
           f == [i \in full |-> ring[i]]
<1>1. Capacity - 1 \in Int BY Sizes
<1>2. IsFiniteSet(0 .. Capacity - 1) BY <1>1, FS_Interval
<1>3. full \subseteq 0 .. Capacity - 1 BY DEF Rings
<1>4. IsFiniteSet(full) BY <1>2, <1>3, FS_Subset
<1>5. f \in Surjection(full, Held(ring)) /\ f \in Injection(full, Held(ring))
  <2>1. \A i \in full : f[i] \in Held(ring) BY <1>3, HeldIs
  <2>2. \A i, j \in full : f[i] = f[j] => i = j BY <1>3 DEF InPlace
  <2>3. \A h \in Held(ring) : \E i \in full : f[i] = h BY HeldIs
  <2>4. f \in [full -> Held(ring)] BY <2>1
  <2> HIDE DEF f, full
  <2>5. f \in Surjection(full, Held(ring)) BY <2>3, <2>4, Zenon DEF Surjection
  <2>6. f \in Injection(full, Held(ring)) BY <2>2, <2>4, Zenon DEF Injection, IsInjective
  <2> QED BY <2>5, <2>6
<1>6. IsFiniteSet(Held(ring)) /\ Cardinality(full) = Cardinality(Held(ring))
  <2> HIDE DEF f, full
  <2> QED BY <1>4, <1>5, FS_Surjection
<1>7. Cardinality(full) \in Nat BY <1>4, FS_CardinalityType
<1> QED BY <1>6, <1>7 DEF Ready

-----------------------------------------------------------------------------
(* Groups of a calm stream.                                                 *)

GroupFor(n) == n \div SendGroup

LEMMA FirstsApart ==
  ASSUME NEW g \in Nat, NEW h \in Nat, g < h
  PROVE  First(g) + SendGroup <= First(h)
<1>1. SendGroup \in Nat BY ReceptionAssumption
<1>2. \A a, b, c \in Nat : a < b => a * c + c <= b * c
  <2> TAKE a, b, c \in Nat
  <2> HAVE a < b
  <2>1. PICK d \in Nat : b = a + 1 + d
    <3>1. b - a - 1 \in Nat /\ b = a + 1 + (b - a - 1) OBVIOUS
    <3> QED BY <3>1
  <2>2. (a + 1 + d) * c = a * c + c + d * c OBVIOUS
  <2>3. d * c \in Nat /\ a * c \in Nat OBVIOUS
  <2> QED BY <2>1, <2>2, <2>3
<1> QED BY <1>1, <1>2 DEF First

\* A number is in one group.
LEMMA GroupIs ==
  ASSUME NEW n \in Nat
  PROVE  /\ GroupFor(n) \in Nat /\ First(GroupFor(n)) \in Nat
         /\ First(GroupFor(n)) <= n /\ n < First(GroupFor(n)) + SendGroup
         /\ \A g \in Nat : First(g) <= n /\ n < First(g) + SendGroup => g = GroupFor(n)
<1>1. /\ GroupFor(n) \in Nat /\ n % SendGroup \in 0 .. SendGroup - 1
      /\ n = First(GroupFor(n)) + (n % SendGroup)
  BY PlaceOfNumber DEF GroupFor
<1>2. SendGroup \in Nat BY ReceptionAssumption
<1>3. \A g \in Nat : First(g) \in Nat BY FirstNumbers
<1>4. \A g \in Nat, h \in Nat : g < h => First(g) + SendGroup <= First(h) BY FirstsApart
<1>5. First(GroupFor(n)) <= n /\ n < First(GroupFor(n)) + SendGroup BY <1>1, <1>2, <1>3
<1>6. ASSUME NEW g \in Nat, First(g) <= n, n < First(g) + SendGroup
      PROVE  g = GroupFor(n)
  <2>1. ~(g < GroupFor(n)) BY <1>1, <1>2, <1>3, <1>4, <1>5, <1>6
  <2>2. ~(GroupFor(n) < g) BY <1>1, <1>2, <1>3, <1>4, <1>5, <1>6
  <2> QED BY <1>1, <2>1, <2>2
<1> QED BY <1>1, <1>3, <1>5, <1>6

\* The FEC packet comes with the last frame of a group, and only then.
LEMMA FecEndsAGroup ==
  ASSUME NEW enc, NEW s \in Nat, EncoderAt(enc, s)
  PROVE  Encoded(enc, SendGroup, {s}).fec
           = IF s + 1 = First(GroupFor(s)) + SendGroup THEN Whole(GroupFor(s)) ELSE NoFec
<1> DEFINE group == Append(enc.group, {s})
           fec == Encoded(enc, SendGroup, {s}).fec
<1>0. /\ SendGroup \in Nat /\ SendGroup > 1 /\ Len(enc.group) \in Nat
      /\ Len(enc.group) < SendGroup /\ enc.number \in Nat /\ enc.group \in Seq(SUBSET Nat)
  BY ReceptionAssumption DEF EncoderAt
<1>1. /\ First(enc.number) \in Nat /\ First(enc.number) + Len(enc.group) = s
      /\ First(enc.number) <= s /\ s < First(enc.number) + SendGroup
  <2>1. First(enc.number) \in Nat BY <1>0, FirstNumbers
  <2>2. First(enc.number) + Len(enc.group) = s BY DEF EncoderAt
  <2> QED BY <1>0, <2>1, <2>2
<1>2. enc.number = GroupFor(s) BY <1>0, <1>1, GroupIs
<1>3. Len(group) = Len(enc.group) + 1 /\ group \in Seq(SUBSET Nat) BY <1>0
<1>4. Len(group) >= SendGroup <=> s + 1 = First(enc.number) + SendGroup BY <1>0, <1>1, <1>3
<1>5. CASE Len(group) >= SendGroup
  <2>1. fec = [group |-> enc.number, count |-> Len(group), payload |-> Xor(group)]
    BY <1>5 DEF Encoded
  <2>2. Xor(group) \in SUBSET Nat
    <3> HIDE DEF group
    <3> QED BY <1>3 DEF Xor
  <2> HIDE DEF group
  <2> HIDE DEF fec
  <2>3. fec \in [group : Nat, count : Nat, payload : SUBSET Nat]
    <3>1. \A a, b \in Nat, c \in SUBSET Nat :
            [group |-> a, count |-> b, payload |-> c] \in [group : Nat, count : Nat, payload : SUBSET Nat]
      OBVIOUS
    <3>2. Len(group) \in Nat BY <1>0, <1>3
    <3> QED BY <1>0, <2>1, <2>2, <3>1, <3>2
  <2>4. fec # NoFec BY <2>3, FecAssumption
  <2>5. fec.group = enc.number BY <2>1
  <2>6. fec \in {NoFec} \cup Wholes BY EncodesWholes DEF fec
  <2>7. PICK h \in Nat : fec = Whole(h) BY <2>4, <2>6 DEF Wholes
  <2>8. h = enc.number BY <2>5, <2>7 DEF Whole
  <2> QED BY <1>2, <1>4, <1>5, <2>7, <2>8 DEF fec
<1>6. CASE ~(Len(group) >= SendGroup)
  <2>1. fec = NoFec BY <1>6 DEF Encoded
  <2> QED BY <1>2, <1>4, <1>6, <2>1
<1> QED BY <1>5, <1>6

LEMMA KnownAfterWith ==
  ASSUME NEW known, NEW g, NEW group
  PROVE  /\ Known(With(known, g, group), g) = group
         /\ \A h : h # g => Known(With(known, g, group), h) = Known(known, h)
BY DEF Known, With

\* What is known of a group while its FEC packet has not come.
SoFar(g, D) == GroupOf(g, D, NoFec, FALSE)

\* add_packet, while the FEC packet has not come.
LEMMA PacketIsKept ==
  ASSUME NEW known, NEW g, NEW D, NEW i, Known(known, g) = SoFar(g, D),
         NEW after, after = WithPacket(known, g, i, {First(g) + i}).groups
  PROVE  /\ Known(after, g) = SoFar(g, D \cup {i})
         /\ \A h : h # g => Known(after, h) = Known(known, h)
<1> DEFINE group == Known(known, g)
           more == [group EXCEPT !.packets =
                      [k \in DOMAIN @ \cup {i} |-> IF k = i THEN {First(g) + i} ELSE @[k]]]
<1>1. \A recovered : group = GroupOf(g, D, NoFec, recovered) => more = GroupOf(g, D \cup {i}, NoFec, recovered)
  <2> DEFINE old == [d \in D |-> {First(g) + d}]
  <2>1. [k \in D \cup {i} |-> IF k = i THEN {First(g) + i} ELSE old[k]]
          = [k \in D \cup {i} |-> {First(g) + k}]
    OBVIOUS
  <2>2. DOMAIN old = D OBVIOUS
  <2> TAKE recovered
  <2> HAVE group = GroupOf(g, D, NoFec, recovered)
  <2>3. group = [packets |-> old, fec |-> NoFec, recovered |-> recovered]
    BY DEF GroupOf
  <2> HIDE DEF group, old
  <2>4. more = [packets |-> [k \in DOMAIN old \cup {i} |->
                               IF k = i THEN {First(g) + i} ELSE old[k]],
                fec |-> NoFec, recovered |-> recovered]
    BY <2>3
  <2> QED BY <2>1, <2>2, <2>4 DEF GroupOf
<1>2. more = SoFar(g, D \cup {i}) BY <1>1, Zenon DEF SoFar
<1>3. ~MissingOne(more)
  <2>1. more.fec = NoFec BY <1>2 DEF SoFar, GroupOf
  <2> QED BY <2>1 DEF MissingOne
<1>4. WithPacket(known, g, i, {First(g) + i}) = TryRecover(With(known, g, more), g)
  BY DEF WithPacket
<1> HIDE DEF more
<1>5. With(known, g, more)[g] = more BY DEF With
<1>6. TryRecover(With(known, g, more), g).groups = With(known, g, more)
  BY <1>3, <1>5 DEF TryRecover
<1>7. /\ Known(With(known, g, more), g) = more
      /\ \A h : h # g => Known(With(known, g, more), h) = Known(known, h)
  BY KnownAfterWith
<1> QED BY <1>2, <1>4, <1>6, <1>7

LEMMA PlacesAre ==
  /\ IsFiniteSet(Places) /\ Cardinality(Places) = SendGroup /\ SendGroup \in Nat
  /\ Places \subseteq Nat
<1>1. SendGroup \in Nat /\ 0 \in Int /\ SendGroup - 1 \in Int BY ReceptionAssumption
<1>2. IsFiniteSet(0 .. SendGroup - 1)
      /\ Cardinality(0 .. SendGroup - 1)
           = IF 0 > SendGroup - 1 THEN 0 ELSE SendGroup - 1 - 0 + 1
  BY <1>1, FS_Interval, Zenon
<1>3. ~(0 > SendGroup - 1) /\ SendGroup - 1 - 0 + 1 = SendGroup
  BY ReceptionAssumption
<1> QED BY <1>1, <1>2, <1>3 DEF Places

\* What is known of a later group outlasts the forgetting of the oldest one.
LEMMA LaterIsKept ==
  ASSUME NEW known, NEW g \in DOMAIN known, DOMAIN known \subseteq Nat, NEW h \in Nat, g < h
  PROVE  Known(Forget(known), h) = Known(known, h)
BY DEF Known, Forget

\* add_fec, for a group of which one frame or none is missing.
LEMMA FecIsUsed ==
  ASSUME NEW known, GroupsFit(known), NEW g \in Nat, NEW D \in SUBSET Places,
         Known(known, g) = SoFar(g, D)
  PROVE  LET after == WithFec(known, Whole(g))
         IN  /\ D = Places => after.recovery = NoRecovery
             /\ \A x \in Places : x \notin D /\ D \cup {x} = Places =>
                  /\ after.recovery # NoRecovery
                  /\ after.recovery.group = g /\ after.recovery.index = x
             /\ \A h \in Nat : g < h => Known(after.groups, h) = Known(known, h)
<1> DEFINE group == Known(known, g)
           more == [group EXCEPT !.fec = Whole(g)]
           held == With(known, g, more)
<1>1. more = GroupOf(g, D, Whole(g), FALSE)
  <2>1. \A recovered : group = GroupOf(g, D, NoFec, recovered)
           => more = GroupOf(g, D, Whole(g), recovered)
    BY DEF GroupOf
  <2> QED BY <2>1, Zenon DEF SoFar
<1>2. DOMAIN more.packets = D /\ more.fec = Whole(g) /\ more.fec.count = SendGroup
  BY <1>1 DEF GroupOf, Whole
<1>3. ~more.recovered
  <2>1. \A recovered : GroupOf(g, D, Whole(g), recovered).recovered = recovered BY DEF GroupOf
  <2> QED BY <1>1, <2>1, Zenon
<1>4. Whole(g) # NoFec
  <2>1. Whole(g) \in [group : Nat, count : Nat, payload : SUBSET Nat]
    BY FirstNumbers, ReceptionAssumption DEF Whole
  <2> QED BY <2>1, FecAssumption
<1>5. IsFiniteSet(D) /\ Cardinality(D) \in Nat BY PlacesAre, FS_Subset, FS_CardinalityType
<1>6. GroupFits(g, more) BY <1>1 DEF GroupFits
<1>7. WithFec(known, Whole(g)) = TryRecover(held, g)
  BY DEF WithFec, Whole
<1> HIDE DEF more
<1>8. GroupsFit(held) /\ g \in DOMAIN held /\ held[g] = more BY <1>6, WithFits
<1>9. \A h \in Nat : g < h => Known(held, h) = Known(known, h) BY KnownAfterWith
<1>10. MissingOne(more) <=> Cardinality(D) + 1 = SendGroup
  BY <1>2, <1>3, <1>4 DEF MissingOne
<1> HIDE DEF held
<1>11. CASE MissingOne(more)
  <2> DEFINE marked == [more EXCEPT !.recovered = TRUE]
             j == MissingIndex(more)
             all == [i \in DOMAIN more.packets \cup {j} |->
                       IF i = j THEN more.fec.payload ELSE more.packets[i]]
  <2>1. TryRecover(held, g) = [groups |-> Forget(With(held, g, marked)),
                               recovery |-> [group |-> g, index |-> j, payload |-> Xor(all)]]
    BY <1>8, <1>11 DEF TryRecover
  <2>2. RecoveryFits(TryRecover(held, g).recovery) BY <1>8, RecoversWhatWasSent
  <2>3. D # Places BY <1>10, <1>11, PlacesAre
  <2>4. ASSUME NEW x \in Places, x \notin D, D \cup {x} = Places PROVE j = x
    <3>1. \A i \in 0 .. x - 1 : i \in DOMAIN more.packets
      <4> TAKE i \in 0 .. x - 1
      <4>1. i \in Places /\ i # x BY PlacesAre DEF Places
      <4> QED BY <1>2, <2>4, <4>1
    <3>2. x \in 0 .. more.fec.count - 1 /\ x \notin DOMAIN more.packets
      BY <1>2, <2>4 DEF Places
    <3>3. \A i \in 0 .. more.fec.count - 1 : i \notin DOMAIN more.packets => i = x
      BY <1>2, <2>4 DEF Places
    <3> QED BY <3>1, <3>2, <3>3 DEF MissingIndex
  <2> HIDE DEF marked, j, all
  <2>5. TryRecover(held, g).recovery # NoRecovery
    <3>0. PICK x \in Places : x \notin D BY <2>3
    <3>3. D \cup {x} = Places
      <4>1. Cardinality(D \cup {x}) = SendGroup BY <1>5, <1>10, <1>11, <3>0, FS_AddElement
      <4>2. D \cup {x} \in SUBSET Places BY <3>0
      <4> QED BY <4>1, <4>2, PlacesAre, FS_Subset
    <3>4. j = x /\ j \in Nat BY <2>4, <3>0, <3>3, PlacesAre
    <3>5. Xor(all) \in SUBSET Nat
      <4>1. \A i \in DOMAIN all : all[i] \in SUBSET Nat
        <5>1. more.fec.payload \in SUBSET Nat
          <6>1. First(g) \in Nat /\ SendGroup \in Nat BY FirstNumbers, PlacesAre
          <6> QED BY <1>2, <6>1 DEF Whole
        <5>2. \A i \in D : more.packets[i] \in SUBSET Nat
          <6>1. First(g) \in Nat BY FirstNumbers
          <6>2. \A i \in D : more.packets[i] = {First(g) + i} BY <1>1 DEF GroupOf
          <6>3. \A i \in D : First(g) + i \in Nat BY <6>1, PlacesAre
          <6> QED BY <6>2, <6>3
        <5> QED BY <1>2, <5>1, <5>2 DEF all
      <4> QED BY <4>1 DEF Xor
    <3>1. Xor(all) \in SUBSET Nat /\ j \in Nat BY <3>4, <3>5
    <3>2. [group |-> g, index |-> j, payload |-> Xor(all)] \in [group : Nat, index : Nat, payload : SUBSET Nat]
      BY <3>1
    <3> QED BY <2>1, <3>2, FecAssumption
  <2>6. \A h \in Nat : g < h => Known(Forget(With(held, g, marked)), h) = Known(known, h)
    <3> DEFINE last == With(held, g, marked)
    <3>1. DOMAIN last \subseteq Nat /\ g \in DOMAIN last BY <1>8 DEF With, GroupsFit
    <3>2. \A h \in Nat : g < h => Known(last, h) = Known(held, h) BY KnownAfterWith
    <3> HIDE DEF last
    <3>3. \A h \in Nat : g < h => Known(Forget(last), h) = Known(last, h) BY <3>1, LaterIsKept
    <3> QED BY <1>9, <3>2, <3>3 DEF last
  <2> QED BY <1>7, <2>1, <2>3, <2>4, <2>5, <2>6
<1>12. CASE ~MissingOne(more)
  <2>1. TryRecover(held, g) = [groups |-> held, recovery |-> NoRecovery]
    BY <1>8, <1>12 DEF TryRecover
  <2>2. ASSUME NEW x \in Places, x \notin D, D \cup {x} = Places PROVE FALSE
    <3>1. Cardinality(D \cup {x}) = Cardinality(D) + 1 BY <1>5, <2>2, FS_AddElement
    <3> QED BY <1>10, <1>12, <2>2, <3>1, PlacesAre
  <2> QED BY <1>7, <1>9, <2>1, <2>2
<1> QED BY <1>11, <1>12

-----------------------------------------------------------------------------
(* A calm stream.  At most one frame of a group is lost, and nothing else   *)
(* happens.                                                                 *)

\* Not all of group g has been sent, or something of it is on its way.
Open(g) == sent < First(g) + SendGroup \/ (air # <<>> /\ sent = First(g) + SendGroup)
OnTheWay(n) == air # <<>> /\ Head(air) = Audio(n)
Lost(n) == n \notin arrived /\ ~OnTheWay(n)

\* On the way is what was sent last: a frame, and the FEC packet if it ends its group.
CarriesLast ==
  LET g == GroupFor(sent - 1)
  IN  \/ air = <<Audio(sent - 1)>> /\ sent < First(g) + SendGroup
      \/ air = <<Audio(sent - 1), FecPacket(Whole(g))>> /\ sent = First(g) + SendGroup
      \/ air = <<FecPacket(Whole(g))>> /\ sent = First(g) + SendGroup

CalmAir ==
  /\ sent \in 0 .. MaxSent /\ ahead \in {0, 1} /\ arrived \in SUBSET (0 .. sent - 1)
  /\ \A n \in arrived : ~OnTheWay(n)
  /\ air # <<>> => ahead = 1 /\ sent > 0 /\ CarriesLast

CalmLosses ==
  /\ \A n \in 0 .. sent - 1 : Lost(n) => GroupFor(n) \in missed
  /\ \A m, n \in 0 .. sent - 1 : Lost(m) /\ Lost(n) /\ GroupFor(m) = GroupFor(n) => m = n

\* Of an open group the receiver has what came, and no FEC packet.
Came(g) == {i \in Places : First(g) + i \in arrived}
CalmGroups == \A g \in Nat : Open(g) => Known(groups, g) = SoFar(g, Came(g))

StartDelay ==
  [target |-> FirstDelay, lowest |-> LowestDelay(FirstDelay),
   highest |-> HighestDelay(FirstDelay), chosen |-> FirstDelay, shift |-> 0]
Earliest == IF play = NoNumber THEN 0 ELSE play

\* The buffer is the delay it was made with behind what is sent.
CalmRing ==
  /\ slots \in Rings /\ InPlace(slots) /\ delay = StartDelay /\ depth.least \in Nat
  /\ playing \in BOOLEAN /\ play \in (0 .. MaxSent) \cup {NoNumber}
  /\ Held(slots) \subseteq Earliest .. sent - 1
  /\ playing => play # NoNumber /\ play + FirstDelay <= sent - ahead /\ sent - ahead <= play + FirstDelay + 1
  /\ ~playing => sent - ahead <= FirstDelay + 1 /\ (play # NoNumber => play <= 1)
  /\ play = NoNumber => arrived = {} /\ Held(slots) = {}

\* What is yet to be played is held, unless its group is open.
Due == IF playing THEN play ELSE 0
AllThere == \A n \in Due .. sent - 1 : n \in Held(slots) \/ (n \notin arrived /\ Open(GroupFor(n)))

Heard == heard.result \notin {"concealed", "starved"}
Calm == CalmAir /\ CalmLosses /\ CalmGroups /\ CalmRing /\ AllThere /\ Heard

LEMMA Packets ==
  /\ \A a : Head(<<a>>) = a /\ Tail(<<a>>) = <<>> /\ <<a>> # <<>>
  /\ \A a, b : Head(<<a, b>>) = a /\ Tail(<<a, b>>) = <<b>> /\ <<a, b>> # <<>>
  /\ \A a : <<>> \o <<a>> \o <<>> = <<a>>
  /\ \A a, b : <<>> \o <<a>> \o <<b>> = <<a, b>>
  /\ \A s, fec : Audio(s) # FecPacket(fec)
  /\ \A s, n : Audio(s) = Audio(n) => s = n
<1>1. ASSUME NEW a PROVE Head(<<a>>) = a /\ Tail(<<a>>) = <<>> /\ <<a>> # <<>>
  <2>1. Tail(<<a>>) \in Seq({a}) OBVIOUS
  <2>5. Len(Tail(<<a>>)) = 0 OBVIOUS
  <2>2. \A S, t : t \in Seq(S) /\ Len(t) = 0 => t = <<>> OBVIOUS
  <2>3. Tail(<<a>>) = <<>> BY <2>1, <2>2, <2>5
  <2>4. Head(<<a>>) = a /\ <<a>> # <<>> OBVIOUS
  <2> QED BY <2>3, <2>4
<1>2. ASSUME NEW a, NEW b PROVE Head(<<a, b>>) = a /\ Tail(<<a, b>>) = <<b>> /\ <<a, b>> # <<>>
  <2>1. Tail(<<a, b>>) = <<b>> OBVIOUS
  <2>2. Head(<<a, b>>) = a /\ <<a, b>> # <<>> OBVIOUS
  <2> QED BY <2>1, <2>2
<1>3. \A a : <<>> \o <<a>> \o <<>> = <<a>> OBVIOUS
<1>4. ASSUME NEW a, NEW b PROVE <<>> \o <<a>> \o <<b>> = <<a, b>>
  <2>1. <<>> \o <<a>> = <<a>> OBVIOUS
  <2>2. Len(<<a>> \o <<b>>) = 2 /\ (<<a>> \o <<b>>) \in Seq({a, b}) OBVIOUS
  <2>3. (<<a>> \o <<b>>)[1] = a /\ (<<a>> \o <<b>>)[2] = b OBVIOUS
  <2>4. /\ <<a, b>> \in Seq({a, b}) /\ Len(<<a, b>>) = 2
        /\ <<a, b>>[1] = a /\ <<a, b>>[2] = b
    OBVIOUS
  <2>5. \A S, t, u : /\ t \in Seq(S) /\ u \in Seq(S) /\ Len(t) = 2 /\ Len(u) = 2
                     /\ t[1] = u[1] /\ t[2] = u[2]
                     => t = u
    OBVIOUS
  <2>6. <<a>> \o <<b>> = <<a, b>> BY <2>2, <2>3, <2>4, <2>5
  <2> QED BY <2>1, <2>6, Zenon
<1>5. \A s, fec : Audio(s) # FecPacket(fec)
  <2>1. \A s, fec : Audio(s).kind = "audio" /\ FecPacket(fec).kind = "fec" BY DEF Audio, FecPacket
  <2>2. "audio" # "fec" OBVIOUS
  <2> QED BY <2>1, <2>2
<1>6. ASSUME NEW s, NEW n, Audio(s) = Audio(n) PROVE s = n
  <2>1. Audio(s).number = s /\ Audio(n).number = n BY DEF Audio
  <2>2. Audio(s).number = Audio(n).number BY <1>6
  <2> QED BY <2>1, <2>2
<1> QED BY <1>1, <1>2, <1>3, <1>4, <1>5, <1>6

\* The packet next to come, and what is left on the way after it.
LEMMA NextToCome ==
  ASSUME CalmAir, air # <<>>
  PROVE  LET s == sent - 1
             g == GroupFor(s)
         IN  /\ s \in Nat /\ ahead = 1
             /\ \/ Head(air) = Audio(s) /\ Tail(air) = <<>> /\ sent < First(g) + SendGroup
                \/ /\ Head(air) = Audio(s) /\ Tail(air) = <<FecPacket(Whole(g))>>
                   /\ sent = First(g) + SendGroup
                \/ /\ Head(air) = FecPacket(Whole(g)) /\ Tail(air) = <<>>
                   /\ sent = First(g) + SendGroup
<1> DEFINE s == sent - 1
           g == GroupFor(s)
<1>1. s \in Nat /\ ahead = 1 BY ReceptionAssumption DEF CalmAir
<1>2. \/ air = <<Audio(s)>> /\ sent < First(g) + SendGroup
      \/ air = <<Audio(s), FecPacket(Whole(g))>> /\ sent = First(g) + SendGroup
      \/ air = <<FecPacket(Whole(g))>> /\ sent = First(g) + SendGroup
  BY DEF CalmAir, CarriesLast
<1> HIDE DEF s, g
<1>3. \/ Head(air) = Audio(s) /\ Tail(air) = <<>> /\ sent < First(g) + SendGroup
      \/ /\ Head(air) = Audio(s) /\ Tail(air) = <<FecPacket(Whole(g))>>
         /\ sent = First(g) + SendGroup
      \/ /\ Head(air) = FecPacket(Whole(g)) /\ Tail(air) = <<>>
         /\ sent = First(g) + SendGroup
  <2>1. CASE air = <<Audio(s)>> /\ sent < First(g) + SendGroup
    <3>1. Head(air) = Audio(s) /\ Tail(air) = <<>> BY <2>1, Packets, Zenon
    <3> QED BY <2>1, <3>1
  <2>2. CASE air = <<Audio(s), FecPacket(Whole(g))>> /\ sent = First(g) + SendGroup
    <3>1. Head(air) = Audio(s) /\ Tail(air) = <<FecPacket(Whole(g))>> BY <2>2, Packets, Zenon
    <3> QED BY <2>2, <3>1
  <2>3. CASE air = <<FecPacket(Whole(g))>> /\ sent = First(g) + SendGroup
    <3>1. Head(air) = FecPacket(Whole(g)) /\ Tail(air) = <<>> BY <2>3, Packets, Zenon
    <3> QED BY <2>3, <3>1
  <2> QED BY <1>2, <2>1, <2>2, <2>3
<1> QED BY <1>1, <1>3 DEF s, g

\* Of the frames sent, those of an open group are of the group sent last.
LEMMA OpenIsLast ==
  ASSUME sent \in Nat, NEW n \in 0 .. sent - 1, Open(GroupFor(n))
  PROVE  sent - 1 \in Nat /\ GroupFor(n) = GroupFor(sent - 1)
<1>1. n \in Nat /\ sent - 1 \in Nat /\ SendGroup \in Nat BY PlacesAre
<1> DEFINE g == GroupFor(n)
<1>2. g \in Nat /\ First(g) \in Nat /\ First(g) <= n BY <1>1, GroupIs
<1>3. sent <= First(g) + SendGroup BY <1>1, <1>2 DEF Open
<1>4. First(g) <= sent - 1 /\ sent - 1 < First(g) + SendGroup BY <1>1, <1>2, <1>3
<1> HIDE DEF g
<1>5. g = GroupFor(sent - 1) BY <1>1, <1>2, <1>4, GroupIs
<1> QED BY <1>1, <1>5 DEF g

\* The frame comes, or is lost: no group is closed by that.
LEMMA OpenAfterFrame ==
  ASSUME CalmAir, air # <<>>, Head(air) = Audio(sent - 1), air' = Tail(air), sent' = sent
  PROVE  /\ \A g \in Nat : Open(g)' <=> Open(g)
         /\ \A n : ~OnTheWay(n)'
         /\ CarriesLast' \/ air' = <<>>
<1> DEFINE s == sent - 1
           last == GroupFor(s)
<1>1. s \in Nat /\ sent \in Nat /\ SendGroup \in Nat BY NextToCome, PlacesAre DEF CalmAir
<1>2. last \in Nat /\ First(last) \in Nat BY <1>1, GroupIs
<1>3. CASE air' = <<>> /\ sent < First(last) + SendGroup
  <2>1. ASSUME NEW g \in Nat, sent = First(g) + SendGroup PROVE FALSE
    <3>1. First(g) \in Nat BY FirstNumbers
    <3>2. SendGroup >= 2 BY ReceptionAssumption
    <3>3. First(g) <= s /\ s < First(g) + SendGroup BY <1>1, <2>1, <3>1, <3>2
    <3>4. g = last BY <1>1, <3>3, GroupIs
    <3> QED BY <1>1, <1>2, <1>3, <2>1, <3>4
  <2> QED BY <1>3, <2>1 DEF Open, OnTheWay
<1>4. CASE air' = <<FecPacket(Whole(last))>> /\ sent = First(last) + SendGroup
  <2>1. air' # <<>> /\ Head(air') = FecPacket(Whole(last)) BY <1>4, Packets
  <2>2. \A n : ~OnTheWay(n)' BY <2>1, Packets DEF OnTheWay
  <2>3. CarriesLast' BY <1>4 DEF CarriesLast
  <2> QED BY <2>1, <2>2, <2>3 DEF Open
<1> QED BY <1>3, <1>4, NextToCome, Packets

\* The FEC packet comes, or is lost: the group sent last is closed.
LEMMA OpenAfterFec ==
  ASSUME CalmAir, air # <<>>, Head(air) # Audio(sent - 1), air' = Tail(air), sent' = sent
  PROVE  LET last == GroupFor(sent - 1)
         IN  /\ sent - 1 \in Nat /\ last \in Nat /\ Open(last)
             /\ Head(air) = FecPacket(Whole(last)) /\ sent = First(last) + SendGroup
             /\ \A g \in Nat : Open(g)' => Open(g) /\ last < g
             /\ \A n : ~OnTheWay(n) /\ ~OnTheWay(n)'
             /\ air' = <<>>
<1> DEFINE s == sent - 1
           last == GroupFor(s)
<1>1. s \in Nat /\ sent \in Nat /\ SendGroup \in Nat BY NextToCome, PlacesAre DEF CalmAir
<1>2. last \in Nat /\ First(last) \in Nat BY <1>1, GroupIs
<1>3. Head(air) = FecPacket(Whole(last)) /\ Tail(air) = <<>> /\ sent = First(last) + SendGroup
  BY NextToCome
<1>4. \A n : ~OnTheWay(n) /\ ~OnTheWay(n)' BY <1>3, Packets DEF OnTheWay
<1>5. ASSUME NEW g \in Nat, Open(g)' PROVE Open(g) /\ last < g
  <2>1. sent < First(g) + SendGroup BY <1>3, <1>5 DEF Open
  <2>0. First(g) \in Nat BY FirstNumbers
  <2> HIDE DEF last
  <2>2. First(g) \in Nat /\ First(last) < First(g) BY <1>1, <1>2, <1>3, <2>0, <2>1
  <2>3. ~(g < last)
    <3>1. g < last => First(g) + SendGroup <= First(last) BY <1>2, FirstsApart
    <3> QED BY <1>1, <1>2, <2>2, <3>1
  <2>4. g # last BY <1>2, <2>2
  <2> QED BY <1>2, <2>1, <2>3, <2>4 DEF Open
<1>6. Open(last) BY <1>3 DEF Open
<1> QED BY <1>1, <1>2, <1>3, <1>4, <1>5, <1>6

-----------------------------------------------------------------------------
(* The buffer of a calm stream.                                             *)

\* Where the buffer stands, in numbers.
LEMMA RingIs ==
  ASSUME DeepEnough, CalmRing, sent \in 0 .. MaxSent, ahead \in {0, 1}
  PROVE  /\ sent \in Nat /\ sent <= MaxSent /\ Earliest \in Nat
         /\ play # NoNumber => play \in Nat /\ play <= MaxSent /\ Earliest = play
         /\ Held(slots) \subseteq Numbers
         /\ \A h \in Held(slots) : h \in Nat /\ Earliest <= h /\ h <= sent - 1
         /\ NoNumber \notin Int
<1>1. MaxSent \in Nat BY ReceptionAssumption
<1>2. NoNumber \notin Int BY PlayoutAssumption
<1>3. Held(slots) \subseteq Numbers BY HeldIs DEF CalmRing
<1>4. play # NoNumber => play \in 0 .. MaxSent BY DEF CalmRing
<1>5. Earliest \in Nat BY <1>1, <1>4 DEF Earliest
<1>6. Held(slots) \subseteq Earliest .. sent - 1 BY DEF CalmRing
<1> QED BY <1>1, <1>2, <1>3, <1>4, <1>5, <1>6 DEF Earliest

\* A frame that comes, or is recovered in the group sent last, is held.
LEMMA WritesCalmly ==
  ASSUME DeepEnough, CalmRing, sent \in 0 .. MaxSent, ahead \in {0, 1},
         NEW n \in 0 .. sent - 1, n >= sent - SendGroup, play = NoNumber => n <= 1, Write(n)
  PROVE  /\ slots' \in Rings /\ InPlace(slots') /\ UNCHANGED <<playing, delay, depth, heard>>
         /\ play' \in 0 .. MaxSent /\ (playing => play' = play) /\ (~playing => play' <= 1)
         /\ Held(slots') \subseteq play' .. sent - 1
         /\ Held(slots) \subseteq Held(slots')
         /\ n >= Due => n \in Held(slots')
<1>1. /\ SendGroup \in Nat /\ SendGroup >= 2 /\ FirstDelay \in Nat /\ FirstDelay + 1 >= SendGroup
      /\ Capacity \in Nat /\ Capacity >= 4 * FirstDelay + 6 /\ MaxSent \in Nat
  BY Sizes
<1>2. /\ sent \in Nat /\ sent <= MaxSent /\ Earliest \in Nat
      /\ play # NoNumber => play \in Nat /\ play <= MaxSent /\ Earliest = play
      /\ Held(slots) \subseteq Numbers
      /\ \A h \in Held(slots) : h \in Nat /\ Earliest <= h /\ h <= sent - 1
      /\ NoNumber \notin Int
  BY RingIs
<1>3. n \in Nat /\ n <= sent - 1 /\ n <= MaxSent /\ n \in 0 .. MaxSent BY <1>1, <1>2
<1>4. n \in Numbers BY <1>3, NearNumbers
<1>5. play # NoNumber => Distance(n, play) = n - play
  BY <1>1, <1>2, <1>3, NearNumbers
<1>6. playing => /\ play # NoNumber /\ play + FirstDelay <= sent
                 /\ sent <= play + FirstDelay + 2
  BY <1>1, <1>2 DEF CalmRing
<1>7. ~playing => sent <= FirstDelay + 2 /\ (play # NoNumber => play <= 1)
  BY <1>1, <1>2 DEF CalmRing
<1>8. ~(play # NoNumber /\ Size(Distance(n, play)) >= Capacity)
  <2> SUFFICES ASSUME play # NoNumber PROVE ~(Size(n - play) >= Capacity)
    BY <1>5
  <2> QED BY <1>1, <1>2, <1>3, <1>6, <1>7 DEF Size, CalmRing
<1>9. CASE playing /\ n < play
  <2>1. Distance(n, play) < 0 /\ play # NoNumber BY <1>2, <1>3, <1>5, <1>6, <1>9
  <2>2. UNCHANGED playoutVars BY <1>8, <1>9, <2>1 DEF Write
  <2>3. Due = play BY <1>9 DEF Due
  <2>4. Held(slots') = Held(slots) BY <2>2 DEF playoutVars
  <2>5. ~(n >= Due) BY <1>2, <1>3, <1>9, <2>1, <2>3
  <2>6. Held(slots) \subseteq play .. sent - 1 /\ play \in 0 .. MaxSent
    BY <1>1, <1>2, <2>1
  <2>7. UNCHANGED <<slots, play, playing, delay, depth, heard>> BY <2>2 DEF playoutVars
  <2> QED BY <1>9, <2>4, <2>5, <2>6, <2>7 DEF CalmRing
<1>10. CASE ~(playing /\ n < play)
  <2>1. ~(play # NoNumber /\ Distance(n, play) < 0 /\ playing) BY <1>2, <1>3, <1>5, <1>10
  <2>2. Store(n) BY <1>8, <2>1 DEF Write
  <2>3. /\ slots' = [slots EXCEPT ![SlotFor(n)] = n]
        /\ play' = IF play = NoNumber \/ Distance(n, play) < 0 THEN n ELSE play
        /\ UNCHANGED <<playing, delay, depth, heard>>
    BY <2>2 DEF Store
  <2>4. /\ slots' \in Rings /\ InPlace(slots')
        /\ Held(slots') = {h \in Held(slots) : SlotFor(h) # SlotFor(n)} \cup {n}
    BY <1>4, <2>3, StoreIs DEF CalmRing
  <2>5. ASSUME NEW h \in Held(slots), SlotFor(h) = SlotFor(n) PROVE h = n
    <3>1. h \in Nat /\ Earliest <= h /\ h <= sent - 1 BY <1>2
    <3>2. h - n < Capacity /\ n - h < Capacity
      <4>1. CASE playing
        <5>1. play \in Nat /\ Earliest = play /\ n >= play BY <1>2, <1>3, <1>6, <1>10, <4>1
        <5> QED BY <1>1, <1>2, <1>3, <1>6, <3>1, <4>1, <5>1
      <4>2. CASE ~playing BY <1>1, <1>2, <1>3, <1>7, <3>1, <4>2
      <4> QED BY <4>1, <4>2
    <3> QED BY <1>3, <2>5, <3>1, <3>2, SlotTellsApart
  <2>6. Held(slots') = Held(slots) \cup {n} BY <2>4, <2>5
  <2>7. play' \in Nat /\ play' <= n /\ (play # NoNumber => play' <= play)
        /\ play' \in {n, play}
    BY <1>2, <1>3, <1>5, <2>3
  <2>8. play' \in 0 .. MaxSent BY <1>1, <1>3, <2>7
  <2>9. playing => play' = play BY <1>2, <1>3, <1>5, <1>6, <1>10, <2>3
  <2>10. ~playing => play' <= 1 BY <1>2, <1>3, <1>7, <2>7
  <2>11. ASSUME NEW h \in Held(slots') PROVE h \in play' .. sent - 1
    <3>1. CASE h = n BY <1>2, <1>3, <2>7, <3>1
    <3>2. CASE h \in Held(slots)
      <4>1. h \in Nat /\ Earliest <= h /\ h <= sent - 1 BY <1>2, <3>2
      <4>2. play # NoNumber BY <3>2 DEF CalmRing
      <4> QED BY <1>2, <2>7, <4>1, <4>2
    <3> QED BY <2>6, <3>1, <3>2
  <2> QED BY <2>3, <2>4, <2>6, <2>8, <2>9, <2>10, <2>11
<1> QED BY <1>9, <1>10

\* Nothing is skipped where nothing is asked for.
LEMMA NothingTrimmed ==
  ASSUME DeepEnough, NEW ring \in Rings, NEW n \in 0 .. MaxSent
  PROVE  Trimmed(ring, n, 0) = [ring |-> ring, from |-> n]
<1>1. MaxSent \in Nat /\ MaxSent < Modulus /\ Modulus \in Nat \ {0} BY Sizes
<1>2. After(n, 0) = n
  <2>1. \A a \in Nat, m \in Nat \ {0} : a < m => a % m = a OBVIOUS
  <2>2. n + 0 = n /\ n \in Nat /\ n < Modulus BY <1>1
  <2> QED BY <1>1, <2>1, <2>2 DEF After
<1>3. Skipped(ring, n, 0) = 0
  <2>1. 0 .. 0 = {0} /\ 0 .. 0 - 1 = {} OBVIOUS
  <2> QED BY <2>1 DEF Skipped
<1>4. 0 .. 0 - 1 = {} OBVIOUS
<1>5. {After(n, i) : i \in 0 .. 0 - 1} = {} BY <1>4
<1>6. Without(ring, {}) = ring
  <2>1. DOMAIN ring = 0 .. Capacity - 1 /\ \A i \in DOMAIN ring : ring[i] \notin {} BY HeldIs
  <2> QED BY <2>1 DEF Without, Rings
<1> QED BY <1>2, <1>3, <1>5, <1>6 DEF Trimmed

LEMMA HeldAreFew ==
  ASSUME DeepEnough, NEW ring \in Rings, InPlace(ring), NEW a \in Int, NEW b \in Int,
         Held(ring) \subseteq a .. b
  PROVE  Ready(ring) <= (IF a > b THEN 0 ELSE b - a + 1) /\ Ready(ring) \in Nat
<1>1. Ready(ring) = Cardinality(Held(ring)) /\ Ready(ring) \in Nat BY ReadyIs
<1>2. IsFiniteSet(a .. b) /\ Cardinality(a .. b) = IF a > b THEN 0 ELSE b - a + 1
  BY FS_Interval
<1>3. Cardinality(Held(ring)) <= Cardinality(a .. b) BY <1>2, FS_Subset
<1> QED BY <1>1, <1>2, <1>3

\* With no more held than one beyond the delay, a read takes the frame due.
LEMMA AdvancesCalmly ==
  ASSUME DeepEnough, slots \in Rings, delay = StartDelay, depth.least \in Nat,
         Ready(slots) \in Nat, Ready(slots) <= FirstDelay + 2, play \in 0 .. MaxSent, Advance
  PROVE  /\ delay' = StartDelay /\ playing' = TRUE /\ depth'.least \in Nat
         /\ slots' = Without(slots, {play})
         /\ play' = IF Ready(slots) = 0 THEN play ELSE After(play, 1)
         /\ heard' = IF Holds(slots, play) THEN Played(play)
                     ELSE Silence(IF Ready(slots) = 0 THEN "starved" ELSE "concealed")
<1> DEFINE asked == Trimmed(slots, play, -delay.shift)
           least == Smaller(depth.least, Ready(asked.ring))
           ends == depth.reads + 1 >= DepthWindow
           left == IF ends THEN Trimmed(asked.ring, asked.from, Excess(least)) ELSE asked
<1>1. delay.shift = 0 /\ delay.target = FirstDelay BY DEF StartDelay
<1>2. -delay.shift = 0
  <2>1. \A k \in Int : -k = 0 - k OBVIOUS
  <2>2. \A k \in Int : k <= 0 /\ k >= 0 => 0 - k = 0 OBVIOUS
  <2>3. delay.shift \in Int /\ delay.shift <= 0 /\ delay.shift >= 0 BY <1>1
  <2> QED BY <2>1, <2>2, <2>3, Zenon
<1>3. asked = [ring |-> slots, from |-> play] BY <1>2, NothingTrimmed
<1>4. asked.ring = slots /\ asked.from = play BY <1>3
<1> HIDE DEF asked
<1>5. least \in Nat /\ least <= Ready(slots) BY <1>4 DEF Smaller
<1>6. Excess(least) = 0
  <2>1. FirstDelay \in Nat BY Sizes
  <2> HIDE DEF least
  <2> QED BY <1>1, <1>5, <2>1 DEF Excess, TrimWhenExcess
<1> HIDE DEF least
<1>7. left = [ring |-> slots, from |-> play]
  BY <1>3, <1>4, <1>6, NothingTrimmed
<1>8. left.ring = slots /\ left.from = play BY <1>7
<1>9. /\ playing' = TRUE /\ delay' = [delay EXCEPT !.shift = 0]
      /\ depth' = IF ends THEN FreshDepth ELSE [least |-> least, reads |-> depth.reads + 1]
      /\ Take(left.ring, left.from)
  BY DEF Advance, asked, least
<1> HIDE DEF ends, left
<1>10. delay' = StartDelay
  <2>1. \A k : k = 0 => [StartDelay EXCEPT !.shift = k] = StartDelay
    BY DEF StartDelay
  <2> QED BY <1>9, <2>1
<1>11. depth'.least \in Nat
  <2>1. FreshDepth.least \in Nat BY Sizes DEF FreshDepth
  <2>2. [least |-> least, reads |-> depth.reads + 1].least = least OBVIOUS
  <2> QED BY <1>5, <1>9, <2>1, <2>2
<1> QED BY <1>8, <1>9, <1>10, <1>11 DEF Take

-----------------------------------------------------------------------------
(* The steps of a calm stream.                                              *)

LEMMA CalmStart ==
  ASSUME DeepEnough, Init
  PROVE  Calm
<1>1. /\ sent = 0 /\ air = <<>> /\ groups = NoGroups /\ arrived = {} /\ ahead = 0
      /\ slots = Empty /\ play = NoNumber /\ playing = FALSE
      /\ depth = FreshDepth /\ heard = Silence("priming") /\ delay = StartDelay
  BY DEF Init, PlayoutInit, StartDelay
<1>2. MaxSent \in Nat /\ FirstDelay \in Nat BY Sizes
<1>3. 0 .. sent - 1 = {} BY <1>1
<1>4. CalmAir BY <1>1, <1>2 DEF CalmAir
<1>5. CalmLosses BY <1>3 DEF CalmLosses
<1>6. CalmGroups
  <2> SUFFICES ASSUME NEW g \in Nat PROVE Known(groups, g) = SoFar(g, Came(g))
    BY DEF CalmGroups
  <2>1. Known(groups, g) = NewGroup BY <1>1 DEF Known, NoGroups
  <2>2. Came(g) = {} BY <1>1 DEF Came
  <2>3. [i \in {} |-> {}] = [i \in {} |-> {First(g) + i}] OBVIOUS
  <2> QED BY <2>1, <2>2, <2>3 DEF NewGroup, GroupOf, SoFar
<1>7. CalmRing
  <2>1. depth.least \in Nat BY <1>1, Sizes DEF FreshDepth
  <2>2. slots \in Rings /\ InPlace(slots) /\ Held(slots) = {} BY <1>1, EmptyIs
  <2>3. sent - ahead <= FirstDelay + 1 BY <1>1, <1>2
  <2> QED BY <1>1, <2>1, <2>2, <2>3 DEF CalmRing
<1>8. AllThere BY <1>1 DEF AllThere, Due
<1>9. Heard BY <1>1 DEF Heard, Silence
<1> QED BY <1>4, <1>5, <1>6, <1>7, <1>8, <1>9 DEF Calm

LEMMA DueIs ==
  ASSUME CalmRing
  PROVE  Due \in Nat
<1>1. MaxSent \in Nat BY ReceptionAssumption
<1>2. play # NoNumber => play \in Nat BY <1>1 DEF CalmRing
<1>3. playing => play # NoNumber BY DEF CalmRing
<1> QED BY <1>2, <1>3 DEF Due

LEMMA CalmSend ==
  ASSUME DeepEnough, SenderInv, Calm, Send
  PROVE  Calm'
<1> DEFINE last == GroupFor(sent)
           done == Encoded(encoder, SendGroup, {sent})
<1>1. /\ sent \in Nat /\ sent < MaxSent /\ MaxSent \in Nat /\ ahead = 0 /\ SendGroup \in Nat
      /\ sent' = sent + 1 /\ ahead' = 1 /\ sent' - 1 = sent
      /\ arrived \in SUBSET (0 .. sent - 1)
  BY Sizes DEF Send, Calm, CalmAir
<1>2. /\ UNCHANGED <<groups, arrived, missed, slots, play, playing, delay, depth, heard>>
      /\ air' = air \o <<Audio(sent)>> \o (IF done.fec = NoFec THEN <<>> ELSE <<FecPacket(done.fec)>>)
  BY DEF Send, playoutVars, receiverVars, Quietly
<1>3. air = <<>> BY <1>1 DEF Calm, CalmAir
<1>4. last \in Nat /\ First(last) \in Nat /\ First(last) <= sent /\ sent < First(last) + SendGroup
  BY <1>1, GroupIs
<1>5. done.fec = IF sent + 1 = First(last) + SendGroup THEN Whole(last) ELSE NoFec
  BY <1>1, FecEndsAGroup DEF SenderInv
<1>6. Whole(last) # NoFec
  <2>1. Whole(last) \in [group : Nat, count : Nat, payload : SUBSET Nat]
    BY <1>1, <1>4 DEF Whole
  <2> QED BY <2>1, FecAssumption
<1> HIDE DEF last, done
<1>7. \/ air' = <<Audio(sent)>> /\ sent + 1 < First(last) + SendGroup
      \/ air' = <<Audio(sent), FecPacket(Whole(last))>> /\ sent + 1 = First(last) + SendGroup
  <2>1. CASE sent + 1 = First(last) + SendGroup
    <3>1. air' = <<>> \o <<Audio(sent)>> \o <<FecPacket(Whole(last))>>
      BY <1>2, <1>3, <1>5, <1>6, <2>1
    <3>2. air' = <<Audio(sent), FecPacket(Whole(last))>> BY <3>1, Packets, Zenon
    <3> QED BY <2>1, <3>2
  <2>2. CASE sent + 1 # First(last) + SendGroup
    <3>1. air' = <<>> \o <<Audio(sent)>> \o <<>> BY <1>2, <1>3, <1>5, <2>2
    <3>2. air' = <<Audio(sent)>> BY <3>1, Packets, Zenon
    <3>3. sent + 1 < First(last) + SendGroup BY <1>1, <1>4, <2>2
    <3> QED BY <3>2, <3>3
  <2> QED BY <2>1, <2>2
<1>8. air' # <<>> /\ Head(air') = Audio(sent)
  <2>1. CASE air' = <<Audio(sent)>> BY <2>1, Packets, Zenon
  <2>2. CASE air' = <<Audio(sent), FecPacket(Whole(last))>> BY <2>2, Packets, Zenon
  <2> QED BY <1>7, <2>1, <2>2
<1>9. \A n : OnTheWay(n)' <=> n = sent BY <1>8, Packets DEF OnTheWay
<1>10. \A n : ~OnTheWay(n) BY <1>3 DEF OnTheWay
<1>11. \A n \in 0 .. sent - 1 : Lost(n)' <=> Lost(n)
  BY <1>1, <1>2, <1>9, <1>10 DEF Lost
<1>12. \A n \in 0 .. sent' - 1 : Lost(n)' => n \in 0 .. sent - 1
  BY <1>1, <1>2, <1>9 DEF Lost
<1>13. \A g \in Nat : Open(g)' <=> Open(g)
  <2> TAKE g \in Nat
  <2>1. First(g) \in Nat BY FirstNumbers
  <2> QED BY <1>1, <1>3, <1>8, <2>1 DEF Open
<1>14. CalmAir'
  <2>1. sent' \in 0 .. MaxSent /\ arrived' \in SUBSET (0 .. sent' - 1) BY <1>1, <1>2
  <2>2. \A n \in arrived' : ~OnTheWay(n)' BY <1>1, <1>2, <1>9
  <2>3. CarriesLast' BY <1>1, <1>7 DEF CarriesLast, last
  <2>4. sent' > 0 BY <1>1
  <2> QED BY <1>1, <2>1, <2>2, <2>3, <2>4 DEF CalmAir
<1>15. CalmLosses' BY <1>2, <1>11, <1>12 DEF Calm, CalmLosses
<1>16. CalmGroups' BY <1>2, <1>13 DEF Calm, CalmGroups, Came
<1>17. CalmRing'
  <2>1. Held(slots) \subseteq Earliest .. sent - 1 BY DEF Calm, CalmRing
  <2>2. Held(slots') \subseteq Earliest' .. sent' - 1
    <3>1. Earliest' = Earliest BY <1>2 DEF Earliest
    <3> QED BY <1>1, <1>2, <2>1, <3>1
  <2>3. sent' - ahead' = sent - ahead BY <1>1
  <2> QED BY <1>2, <2>2, <2>3 DEF Calm, CalmRing
<1>18. AllThere'
  <2> SUFFICES ASSUME NEW n \in Due .. sent
      PROVE  n \in Held(slots) \/ (n \notin arrived /\ Open(GroupFor(n))')
    BY <1>1, <1>2 DEF AllThere, Due
  <2>1. CASE n = sent
    <3>1. sent \notin arrived BY <1>1
    <3>2. \A g \in Nat : g = last => Open(g)'
      BY <1>1, <1>4, <1>7, <1>8 DEF Open
    <3>3. GroupFor(n) = last BY <2>1 DEF last
    <3> QED BY <1>4, <2>1, <3>1, <3>2, <3>3
  <2>2. CASE n # sent
    <3>1. Due \in Nat
      BY DueIs DEF Calm
    <3>2. n \in Due .. sent - 1 /\ n \in Nat BY <1>1, <2>2, <3>1
    <3>3. GroupFor(n) \in Nat BY <3>2, GroupIs
    <3> QED BY <1>13, <3>2, <3>3 DEF Calm, AllThere
  <2> QED BY <2>1, <2>2
<1>19. Heard' BY <1>2 DEF Calm, Heard
<1> QED BY <1>14, <1>15, <1>16, <1>17, <1>18, <1>19 DEF Calm

LEMMA CalmLose ==
  ASSUME DeepEnough, Calm, Lose, calm'
  PROVE  Calm'
<1> DEFINE s == sent - 1
           last == GroupFor(s)
<1>1. /\ air # <<>> /\ air' = Tail(air) /\ missed' = missed \cup {Head(air).group}
      /\ Head(air).group \notin missed
      /\ UNCHANGED <<groups, arrived, sent, ahead, slots, play, playing, delay, depth, heard>>
  BY DEF Lose, playoutVars, receiverVars
<1>2. /\ CalmAir /\ CalmLosses /\ s \in Nat /\ last \in Nat /\ sent \in Nat
      /\ \A n \in 0 .. sent - 1 : n \in Nat /\ GroupFor(n) \in Nat
  <2>1. s \in Nat /\ CalmAir BY <1>1, NextToCome DEF Calm
  <2>2. \A n \in 0 .. sent - 1 : n \in Nat BY ReceptionAssumption DEF Calm, CalmAir
  <2>3. \A n \in Nat : GroupFor(n) \in Nat BY GroupIs
  <2>4. sent \in Nat BY ReceptionAssumption DEF Calm, CalmAir
  <2> QED BY <2>1, <2>2, <2>3, <2>4 DEF Calm
<1>4. Head(air).group = last
  <2>1. Head(air) = Audio(s) \/ Head(air) = FecPacket(Whole(last)) BY <1>1, <1>2, NextToCome
  <2>2. Audio(s).group = last BY DEF Audio, GroupFor
  <2>3. FecPacket(Whole(last)).group = last BY DEF FecPacket, Whole
  <2> QED BY <2>1, <2>2, <2>3
<1>5. \A n \in 0 .. sent - 1 : Lost(n) => GroupFor(n) # last
  BY <1>1, <1>2, <1>4 DEF CalmLosses
<1>6. /\ \A n : ~OnTheWay(n)'
      /\ \A g \in Nat : Open(g)' => Open(g)
      /\ CarriesLast' \/ air' = <<>>
      /\ \A n \in 0 .. sent - 1 : n \notin arrived /\ Open(GroupFor(n)) => Open(GroupFor(n))'
      /\ \A n \in 0 .. sent - 1 : n \notin arrived => Lost(n) \/ n = s
  <2>1. CASE Head(air) = Audio(s)
    <3>1. /\ \A g \in Nat : Open(g)' <=> Open(g)
          /\ \A n : ~OnTheWay(n)'
          /\ CarriesLast' \/ air' = <<>>
      BY <1>1, <1>2, <2>1, OpenAfterFrame
    <3>2. \A n : n \notin arrived => Lost(n) \/ n = s BY <1>1, <2>1, Packets DEF Lost, OnTheWay
    <3> QED BY <1>2, <3>1, <3>2
  <2>2. CASE Head(air) # Audio(s)
    <3>1. /\ \A g \in Nat : Open(g)' => Open(g)
          /\ \A n : ~OnTheWay(n) /\ ~OnTheWay(n)'
          /\ air' = <<>>
      BY <1>1, <1>2, <2>2, OpenAfterFec
    <3>2. \A n : n \notin arrived => Lost(n) BY <3>1 DEF Lost
    <3>3. ASSUME NEW n \in 0 .. sent - 1, n \notin arrived, Open(GroupFor(n)) PROVE FALSE
      BY <1>2, <1>5, <3>2, <3>3, OpenIsLast
    <3> QED BY <1>2, <3>1, <3>2, <3>3
  <2> QED BY <2>1, <2>2
<1>7. CalmAir' BY <1>1, <1>2, <1>6 DEF CalmAir
<1>8. CalmLosses'
  <2>1. \A n \in 0 .. sent - 1 : Lost(n)' => Lost(n) \/ n = s BY <1>1, <1>6 DEF Lost
  <2> HIDE DEF s, last
  <2>2. GroupFor(s) = last BY DEF last
  <2>3. missed' = missed \cup {last} BY <1>1, <1>4
  <2>4. ASSUME NEW n \in 0 .. sent' - 1, Lost(n)' PROVE GroupFor(n) \in missed'
    BY <1>1, <1>2, <2>1, <2>2, <2>3, <2>4 DEF CalmLosses
  <2>5. ASSUME NEW m \in 0 .. sent' - 1, NEW n \in 0 .. sent' - 1,
               Lost(m)', Lost(n)', GroupFor(m) = GroupFor(n)
        PROVE  m = n
    BY <1>1, <1>2, <1>5, <2>1, <2>2, <2>5 DEF CalmLosses
  <2> QED BY <2>4, <2>5 DEF CalmLosses
<1>9. CalmGroups' BY <1>1, <1>6 DEF Calm, CalmGroups, Came
<1>10. CalmRing' BY <1>1 DEF Calm, CalmRing, Earliest
<1>11. AllThere'
  <2>1. Due' = Due /\ Due \in Nat BY <1>1, DueIs DEF Due, Calm
  <2>2. \A n \in Due .. sent - 1 : n \in 0 .. sent - 1 BY <1>2, <2>1
  <2> QED BY <1>1, <1>6, <2>1, <2>2 DEF Calm, AllThere
<1>12. Heard' BY <1>1 DEF Calm, Heard
<1> QED BY <1>7, <1>8, <1>9, <1>10, <1>11, <1>12 DEF Calm

\* What a frame that comes, or is recovered, leaves of a calm buffer.
LEMMA CalmAfterWrite ==
  ASSUME DeepEnough, Calm, NEW n \in 0 .. sent - 1, n >= sent - SendGroup,
         play = NoNumber => n <= 1, Write(n), UNCHANGED <<sent, ahead>>
  PROVE  /\ CalmRing' /\ Heard' /\ Due' = Due
         /\ Held(slots) \subseteq Held(slots')
         /\ n >= Due => n \in Held(slots')
<1>1. sent \in 0 .. MaxSent /\ ahead \in {0, 1} /\ CalmRing BY DEF Calm, CalmAir
<1>2. /\ slots' \in Rings /\ InPlace(slots') /\ UNCHANGED <<playing, delay, depth, heard>>
      /\ play' \in 0 .. MaxSent /\ (playing => play' = play) /\ (~playing => play' <= 1)
      /\ Held(slots') \subseteq play' .. sent - 1
      /\ Held(slots) \subseteq Held(slots')
      /\ n >= Due => n \in Held(slots')
  BY <1>1, WritesCalmly
<1>3. play' # NoNumber
  <2>1. MaxSent \in Nat /\ NoNumber \notin Int BY ReceptionAssumption, PlayoutAssumption
  <2> QED BY <1>2, <2>1
<1>4. Earliest' = play' BY <1>3 DEF Earliest
<1>5. CalmRing' BY <1>1, <1>2, <1>3, <1>4 DEF CalmRing
<1>6. Due' = Due BY <1>2 DEF Due
<1>7. Heard' BY <1>2 DEF Heard, Calm
<1> QED BY <1>2, <1>5, <1>6, <1>7

\* Before anything came, no more than the first frame has been lost.
LEMMA FirstToCome ==
  ASSUME DeepEnough, CalmAir, CalmLosses, arrived = {}, air # <<>>, Head(air) = Audio(sent - 1)
  PROVE  sent - 1 <= 1
<1> SUFFICES ASSUME ~(sent - 1 <= 1) PROVE FALSE
  OBVIOUS
<1>1. sent \in Nat BY ReceptionAssumption DEF CalmAir
<1>2. 0 \in 0 .. sent - 1 /\ 1 \in 0 .. sent - 1 /\ sent - 1 # 0 /\ sent - 1 # 1 BY <1>1
<1>3. Lost(0) /\ Lost(1) BY <1>2, Packets DEF Lost, OnTheWay
<1>4. GroupFor(0) = GroupFor(1)
  <2>1. First(0) = 0 /\ SendGroup \in Nat /\ SendGroup >= 2 BY Sizes DEF First
  <2>2. GroupFor(0) = 0 BY <2>1, GroupIs
  <2>4. First(0) <= 1 /\ 1 < First(0) + SendGroup BY <2>1
  <2>3. GroupFor(1) = 0 BY <2>4, GroupIs
  <2> QED BY <2>2, <2>3
<1>5. 0 = 1 BY <1>2, <1>3, <1>4 DEF CalmLosses
<1> QED BY <1>5

LEMMA CalmFrame ==
  ASSUME DeepEnough, Calm, Deliver, Head(air) = Audio(sent - 1)
  PROVE  Calm'
<1> DEFINE s == sent - 1
           last == GroupFor(s)
           place == s % SendGroup
<1>1. /\ air # <<>> /\ air' = Tail(air) /\ TakeIn(Head(air))
      /\ UNCHANGED <<sent, ahead, missed>>
  BY DEF Deliver, Quietly
<1>2. TakeAudio(s)
  <2>1. Audio(s).kind = "audio" /\ Audio(s).number = s BY DEF Audio
  <2> QED BY <1>1, <2>1 DEF TakeIn
<1>3. /\ arrived' = arrived \cup {s} /\ Write(s)
      /\ groups' = WithPacket(groups, last, place, {s}).groups
  BY <1>2 DEF TakeAudio, HandOn, GroupFor, DeepEnough
<1>4. /\ CalmAir /\ CalmLosses /\ CalmGroups /\ CalmRing /\ AllThere
  BY DEF Calm
<1>5. /\ s \in Nat /\ ahead = 1 /\ sent \in Nat /\ SendGroup \in Nat /\ SendGroup >= 2
      /\ s \in 0 .. sent - 1
  BY <1>1, <1>4, NextToCome, Sizes, ReceptionAssumption DEF CalmAir
<1>6. last \in Nat /\ place \in Places /\ s = First(last) + place /\ First(last) \in Nat
  BY <1>5, PlaceOfNumber, GroupIs DEF Places, GroupFor
<1>7. /\ \A g \in Nat : Open(g)' <=> Open(g)
      /\ \A n : ~OnTheWay(n)'
      /\ CarriesLast' \/ air' = <<>>
  BY <1>1, <1>4, OpenAfterFrame
<1>8. Open(last)
  <2>1. s < First(last) + SendGroup BY <1>5, GroupIs
  <2>2. sent < First(last) + SendGroup \/ sent = First(last) + SendGroup BY <1>5, <1>6, <2>1
  <2> QED BY <1>1, <2>2 DEF Open
<1> HIDE DEF last, place
<1>9. CalmAir'
  <2>1. arrived' \in SUBSET (0 .. sent' - 1) BY <1>1, <1>3, <1>4, <1>5 DEF CalmAir
  <2>2. \A n \in arrived' : ~OnTheWay(n)' BY <1>7
  <2> QED BY <1>1, <1>4, <1>5, <1>7, <2>1, <2>2 DEF CalmAir
<1>10. \A n : Lost(n)' => Lost(n)
  <2> SUFFICES ASSUME NEW n, n \notin arrived, n # s PROVE ~OnTheWay(n)
    BY <1>3, <1>7 DEF Lost
  <2> QED BY <1>1, Packets DEF OnTheWay
<1>11. CalmLosses' BY <1>1, <1>4, <1>10 DEF CalmLosses
<1>12. CalmGroups'
  <2>1. Known(groups, last) = SoFar(last, Came(last))
    BY <1>4, <1>6, <1>8 DEF CalmGroups
  <2>2. /\ Known(groups', last) = SoFar(last, Came(last) \cup {place})
        /\ \A h : h # last => Known(groups', h) = Known(groups, h)
    <3>1. groups' = WithPacket(groups, last, place, {First(last) + place}).groups
      BY <1>3, <1>6
    <3> QED BY <2>1, <3>1, PacketIsKept
  <2>3. \A g \in Nat, i \in Places : First(g) + i = s <=> g = last /\ i = place
    <3> TAKE g \in Nat, i \in Places
    <3>1. First(g) \in Nat /\ i \in Nat /\ i < SendGroup /\ place \in Nat
      <4>1. First(g) \in Nat BY FirstNumbers
      <4>2. i \in Nat /\ i < SendGroup BY <1>5 DEF Places
      <4>3. place \in Nat BY <1>5, <1>6 DEF Places
      <4> QED BY <4>1, <4>2, <4>3
    <3>2. ASSUME First(g) + i = s PROVE g = last /\ i = place
      <4>1. First(g) <= s /\ s < First(g) + SendGroup BY <1>5, <3>1, <3>2
      <4>2. g = last BY <1>5, <4>1, GroupIs DEF last
      <4> QED BY <1>6, <3>1, <3>2, <4>2
    <3> QED BY <1>6, <3>2
  <2>4. \A g \in Nat : Came(g)' = IF g = last THEN Came(g) \cup {place} ELSE Came(g)
    BY <1>3, <1>6, <2>3 DEF Came
  <2> SUFFICES ASSUME NEW g \in Nat, Open(g)
      PROVE  Known(groups', g) = SoFar(g, Came(g)')
    BY <1>7 DEF CalmGroups
  <2>5. CASE g = last BY <1>6, <2>2, <2>4, <2>5
  <2>6. CASE g # last
    <3>1. Known(groups, g) = SoFar(g, Came(g)) BY <1>4 DEF CalmGroups
    <3>2. Came(g)' = Came(g) /\ Known(groups', g) = Known(groups, g) BY <2>2, <2>4, <2>6
    <3> QED BY <3>1, <3>2, Zenon
  <2> QED BY <2>5, <2>6
<1>13. /\ CalmRing' /\ Heard' /\ Due' = Due
       /\ Held(slots) \subseteq Held(slots')
       /\ s >= Due => s \in Held(slots')
  <2>1. s >= sent - SendGroup BY <1>5
  <2>2. play = NoNumber => s <= 1 BY <1>1, <1>4, FirstToCome DEF CalmRing
  <2> QED BY <1>1, <1>3, <1>5, <2>1, <2>2, CalmAfterWrite
<1>14. AllThere'
  <2>1. Due \in Nat BY <1>4, DueIs
  <2> SUFFICES ASSUME NEW n \in Due .. sent - 1
      PROVE  n \in Held(slots') \/ (n \notin arrived' /\ Open(GroupFor(n))')
    BY <1>1, <1>13 DEF AllThere
  <2>2. n \in Nat /\ GroupFor(n) \in Nat
    <3>1. n \in Nat BY <1>5, <2>1
    <3> QED BY <3>1, GroupIs
  <2>3. CASE n = s BY <1>5, <1>13, <2>1, <2>3
  <2>4. CASE n # s
    <3>1. n \in Held(slots) \/ (n \notin arrived /\ Open(GroupFor(n))) BY <1>4 DEF AllThere
    <3> QED BY <1>3, <1>7, <1>13, <2>2, <2>4, <3>1
  <2> QED BY <2>3, <2>4
<1> QED BY <1>9, <1>11, <1>12, <1>13, <1>14 DEF Calm

LEMMA CalmFec ==
  ASSUME DeepEnough, GroupsFit(groups), Calm, Deliver, Head(air) # Audio(sent - 1)
  PROVE  Calm'
<1> DEFINE last == GroupFor(sent - 1)
           after == WithFec(groups, Whole(last))
<1>1. /\ air # <<>> /\ air' = Tail(air) /\ TakeIn(Head(air))
      /\ UNCHANGED <<sent, ahead, missed>>
  BY DEF Deliver, Quietly
<1>2. /\ CalmAir /\ CalmLosses /\ CalmGroups /\ CalmRing /\ AllThere /\ Heard
  BY DEF Calm
<1>3. /\ sent - 1 \in Nat /\ last \in Nat /\ Open(last)
      /\ Head(air) = FecPacket(Whole(last)) /\ sent = First(last) + SendGroup
      /\ \A g \in Nat : Open(g)' => Open(g) /\ last < g
      /\ \A n : ~OnTheWay(n) /\ ~OnTheWay(n)'
      /\ air' = <<>>
  BY <1>1, <1>2, OpenAfterFec
<1>4. TakeFec(Whole(last))
  <2>1. FecPacket(Whole(last)).kind = "fec" /\ FecPacket(Whole(last)).fec = Whole(last)
    BY DEF FecPacket
  <2>2. "fec" # "audio" OBVIOUS
  <2> QED BY <1>1, <1>3, <2>1, <2>2 DEF TakeIn
<1>5. /\ groups' = after.groups /\ arrived' = arrived
      /\ IF after.recovery = NoRecovery THEN UNCHANGED <<playoutVars, handed>>
         ELSE HandOn(after.recovery.group * HearGroup + after.recovery.index, after.recovery.payload)
  BY <1>4 DEF TakeFec
<1>6. Known(groups, last) = SoFar(last, Came(last))
  BY <1>2, <1>3 DEF CalmGroups
<1>7. /\ Came(last) = Places => after.recovery = NoRecovery
      /\ \A x \in Places : x \notin Came(last) /\ Came(last) \cup {x} = Places =>
           /\ after.recovery # NoRecovery
           /\ after.recovery.group = last /\ after.recovery.index = x
      /\ \A h \in Nat : last < h => Known(after.groups, h) = Known(groups, h)
  <2>1. Came(last) \in SUBSET Places BY DEF Came
  <2> QED BY <1>3, <1>6, <2>1, FecIsUsed
<1> HIDE DEF last, after
<1>8. /\ sent \in Nat /\ First(last) \in Nat /\ SendGroup \in Nat /\ SendGroup >= 2
      /\ Due \in Nat
  <2>1. First(last) \in Nat BY <1>3, FirstNumbers
  <2>2. sent \in Nat BY <1>2, ReceptionAssumption DEF CalmAir
  <2>3. SendGroup \in Nat /\ SendGroup >= 2 BY Sizes
  <2> QED BY <1>2, <2>1, <2>2, <2>3, DueIs
<1>9. CalmAir' BY <1>1, <1>2, <1>3, <1>5 DEF CalmAir
<1>10. CalmLosses' BY <1>1, <1>2, <1>3, <1>5 DEF CalmLosses, Lost
<1>11. CalmGroups' BY <1>2, <1>3, <1>5, <1>7 DEF CalmGroups, Came
<1>12. \A i \in Places : /\ First(last) + i \in 0 .. sent - 1 /\ First(last) + i \in Nat
                         /\ GroupFor(First(last) + i) = last
                         /\ First(last) + i >= sent - SendGroup
  <2> TAKE i \in Places
  <2>1. i \in Nat /\ i < SendGroup BY <1>8 DEF Places
  <2>2. First(last) + i \in Nat /\ First(last) <= First(last) + i
        /\ First(last) + i < First(last) + SendGroup
    BY <1>8, <2>1
  <2>3. last = GroupFor(First(last) + i) BY <1>3, <2>2, GroupIs
  <2> QED BY <1>3, <1>8, <2>1, <2>2, <2>3
\* What may be missing is of this group, and did not come.
<1>13. ASSUME NEW n \in Due .. sent - 1, n \notin Held(slots)
       PROVE  \E i \in Places : n = First(last) + i /\ i \notin Came(last)
  <2>1. n \in 0 .. sent - 1 /\ n \in Nat BY <1>8
  <2>2. n \notin arrived /\ Open(GroupFor(n)) BY <1>2, <1>13 DEF AllThere
  <2>3. GroupFor(n) = last BY <1>8, <2>1, <2>2, OpenIsLast DEF last
  <2>4. First(last) <= n BY <2>1, <2>3, GroupIs
  <2>5. n - First(last) \in Places /\ n = First(last) + (n - First(last))
    BY <1>3, <1>8, <2>1, <2>4 DEF Places
  <2> QED BY <2>2, <2>5 DEF Came
<1>14. CASE Came(last) = Places
  <2>1. UNCHANGED playoutVars BY <1>5, <1>7, <1>14
  <2>2. UNCHANGED <<slots, play, playing, delay, depth, heard>> BY <2>1 DEF playoutVars
  <2>3. CalmRing' BY <1>1, <1>2, <1>5, <2>2 DEF CalmRing, Earliest
  <2>4. Heard' BY <1>2, <2>2 DEF Heard
  <2>5. AllThere' BY <1>1, <1>13, <1>14, <2>2 DEF AllThere, Due
  <2> QED BY <1>9, <1>10, <1>11, <2>3, <2>4, <2>5 DEF Calm
<1>15. CASE Came(last) # Places
  <2>1. PICK x \in Places : x \notin Came(last) BY <1>15 DEF Came
  <2> DEFINE n == First(last) + x
  <2>2. ASSUME NEW i \in Places, i \notin Came(last) PROVE i = x
    <3>1. Lost(First(last) + i) /\ Lost(First(last) + x)
      BY <1>3, <2>1, <2>2 DEF Lost, Came
    <3>2. First(last) + i = First(last) + x
      BY <1>2, <1>12, <3>1 DEF CalmLosses
    <3>3. i \in Nat /\ x \in Nat BY PlacesAre
    <3> QED BY <1>8, <3>2, <3>3
  <2>3. Came(last) \cup {x} = Places BY <2>1, <2>2 DEF Came
  <2>4. Write(n)
    <3>1. after.recovery # NoRecovery /\ after.recovery.group = last /\ after.recovery.index = x
      BY <1>7, <2>1, <2>3
    <3>2. Write(after.recovery.group * HearGroup + after.recovery.index)
      BY <1>5, <3>1 DEF HandOn
    <3> QED BY <3>1, <3>2 DEF First, DeepEnough
  <2>5. play # NoNumber
    <3> SUFFICES ASSUME play = NoNumber PROVE FALSE
      OBVIOUS
    <3>1. Came(last) = {} BY <1>2 DEF CalmRing, Came
    <3>2. 0 \in Places /\ 1 \in Places BY <1>8 DEF Places
    <3> QED BY <2>3, <3>1, <3>2
  <2>6. /\ CalmRing' /\ Heard' /\ Due' = Due
        /\ Held(slots) \subseteq Held(slots')
        /\ n >= Due => n \in Held(slots')
    BY <1>1, <1>12, <2>4, <2>5, CalmAfterWrite
  <2>7. AllThere'
    <3> SUFFICES ASSUME NEW m \in Due .. sent - 1, m \notin Held(slots)
        PROVE  m \in Held(slots')
      BY <1>1, <2>6 DEF AllThere
    <3>1. m = n BY <1>13, <2>2
    <3>2. m >= Due BY <1>8
    <3> QED BY <2>6, <3>1, <3>2
  <2> QED BY <1>9, <1>10, <1>11, <2>6, <2>7 DEF Calm
<1> QED BY <1>14, <1>15

\* Of what is yet to be played, no more than one frame is missing when nothing
\* is on its way.
LEMMA OneMissing ==
  ASSUME DeepEnough, Calm, air = <<>>,
         NEW m \in Due .. sent - 1, m \notin Held(slots),
         NEW n \in Due .. sent - 1, n \notin Held(slots)
  PROVE  m = n
<1>1. sent \in Nat /\ Due \in Nat /\ CalmLosses
  BY DueIs, ReceptionAssumption DEF Calm, CalmAir
<1>2. m \in 0 .. sent - 1 /\ n \in 0 .. sent - 1 BY <1>1
<1>3. /\ m \notin arrived /\ Open(GroupFor(m))
      /\ n \notin arrived /\ Open(GroupFor(n))
  BY DEF Calm, AllThere
<1>4. GroupFor(m) = GroupFor(n) BY <1>1, <1>2, <1>3, OpenIsLast
<1>5. Lost(m) /\ Lost(n) BY <1>3 DEF Lost, OnTheWay
<1> QED BY <1>1, <1>2, <1>4, <1>5 DEF CalmLosses

\* Of a group that is sent, with nothing on its way, all that is due is held.
LEMMA SentIsHeld ==
  ASSUME DeepEnough, Calm, air = <<>>, NEW n \in Due .. sent - 1, n + SendGroup <= sent
  PROVE  n \in Held(slots)
<1>1. n \in Nat /\ SendGroup \in Nat /\ sent \in Nat
  BY DueIs, ReceptionAssumption DEF Calm, CalmAir
<1>2. GroupFor(n) \in Nat /\ First(GroupFor(n)) \in Nat /\ First(GroupFor(n)) <= n
  BY <1>1, GroupIs
<1>3. First(GroupFor(n)) + SendGroup <= sent BY <1>1, <1>2
<1>4. ~Open(GroupFor(n)) BY <1>1, <1>2, <1>3 DEF Open
<1> QED BY <1>4 DEF Calm, AllThere

\* Nothing is on its way when the device asks.
LEMMA CalmAsk ==
  ASSUME DeepEnough, Calm, Ask, calm'
  PROVE  Calm'
<1>1. /\ air = <<>> /\ ahead = 1 /\ ahead' = 0 /\ Read
      /\ UNCHANGED <<sent, air, groups, arrived, missed>>
  BY DEF Ask, Quietly, Upset, receiverVars
<1>2. /\ CalmAir /\ CalmLosses /\ CalmGroups /\ CalmRing /\ AllThere /\ Heard
  BY DEF Calm
<1>3. CalmAir' /\ CalmLosses' /\ CalmGroups'
  <2>1. \A n : OnTheWay(n)' <=> OnTheWay(n) BY <1>1 DEF OnTheWay
  <2>2. \A n : Lost(n)' <=> Lost(n) BY <1>1, <2>1 DEF Lost
  <2>3. \A g : Open(g)' <=> Open(g) BY <1>1 DEF Open
  <2>4. CalmAir' BY <1>1, <1>2, <2>1 DEF CalmAir
  <2>5. CalmLosses' BY <1>1, <1>2, <2>2 DEF CalmLosses
  <2>6. CalmGroups' BY <1>1, <1>2, <2>3 DEF CalmGroups, Came
  <2> QED BY <2>4, <2>5, <2>6
<1>4. /\ SendGroup \in Nat /\ SendGroup >= 2 /\ FirstDelay \in Nat /\ FirstDelay + 1 >= SendGroup
      /\ MaxSent \in Nat
  BY Sizes
<1>5. /\ sent \in Nat /\ sent <= MaxSent /\ Earliest \in Nat
      /\ play # NoNumber => play \in Nat /\ play <= MaxSent /\ Earliest = play
      /\ Held(slots) \subseteq Numbers
      /\ \A h \in Held(slots) : h \in Nat /\ Earliest <= h /\ h <= sent - 1
      /\ NoNumber \notin Int
  BY <1>2, RingIs DEF CalmAir
<1>6. /\ delay.shift = 0 /\ delay.target = FirstDelay BY <1>2 DEF CalmRing, StartDelay
<1>7. /\ Ready(slots) \in Nat
      /\ Ready(slots) <= IF Earliest > sent - 1 THEN 0 ELSE sent - 1 - Earliest + 1
  BY <1>2, <1>4, <1>5, HeldAreFew DEF CalmRing
<1>8. ~Pad BY <1>6 DEF Pad
<1>9. CASE Prime
  <2>1. /\ ~playing /\ Ready(slots) <= FirstDelay
        /\ heard' = Silence("priming") /\ UNCHANGED <<slots, play, playing, delay, depth>>
    BY <1>6, <1>9 DEF Prime
  <2>2. sent <= FirstDelay + 1
    <3> SUFFICES ASSUME sent > FirstDelay + 1 PROVE FALSE
      BY <1>4, <1>5
    <3>1. Due = 0 BY <2>1 DEF Due
    <3>2. PICK m \in 0 .. sent - 1 : (0 .. sent - 1) \ {m} \subseteq Held(slots)
      <4>1. 0 \in 0 .. sent - 1 BY <1>4, <1>5
      <4>2. CASE 0 .. sent - 1 \subseteq Held(slots) BY <4>1, <4>2
      <4>3. CASE \E m \in 0 .. sent - 1 : m \notin Held(slots)
        <5>1. PICK m \in 0 .. sent - 1 : m \notin Held(slots) BY <4>3
        <5>2. \A n \in 0 .. sent - 1 : n \notin Held(slots) => n = m
          BY <1>1, <3>1, <5>1, OneMissing
        <5> QED BY <5>1, <5>2
      <4> QED BY <4>2, <4>3
    <3>3. IsFiniteSet(0 .. sent - 1) /\ Cardinality(0 .. sent - 1) = sent
      <4>1. 0 \in Int /\ sent - 1 \in Int BY <1>5
      <4>2. /\ IsFiniteSet(0 .. sent - 1)
            /\ Cardinality(0 .. sent - 1) = IF 0 > sent - 1 THEN 0 ELSE sent - 1 - 0 + 1
        BY <4>1, FS_Interval, Zenon
      <4>3. ~(0 > sent - 1) /\ sent - 1 - 0 + 1 = sent BY <1>4, <1>5
      <4> QED BY <4>2, <4>3
    <3>4. Cardinality((0 .. sent - 1) \ {m}) = sent - 1
      BY <3>3, FS_RemoveElement
    <3>5. IsFiniteSet(Held(slots)) /\ Ready(slots) = Cardinality(Held(slots))
      BY <1>2, ReadyIs DEF CalmRing
    <3>6. Cardinality((0 .. sent - 1) \ {m}) <= Cardinality(Held(slots))
      BY <3>2, <3>5, FS_Subset
    <3> QED BY <1>4, <1>5, <1>7, <2>1, <3>4, <3>5, <3>6
  <2>3. CalmRing' BY <1>1, <1>2, <1>4, <1>5, <2>1, <2>2 DEF CalmRing, Earliest
  <2>4. AllThere'
    <3>1. \A g : Open(g)' <=> Open(g) BY <1>1 DEF Open
    <3> QED BY <1>1, <1>2, <2>1, <3>1 DEF AllThere, Due
  <2>5. Heard' BY <2>1 DEF Heard, Silence
  <2> QED BY <1>3, <2>3, <2>4, <2>5 DEF Calm
<1>10. CASE Advance
  <2>1. playing \/ Ready(slots) > FirstDelay BY <1>6, <1>10 DEF Advance
  \* The frame due is the first of all, or in its turn.
  <2>2. play # NoNumber /\ play \in Nat /\ play \in 0 .. MaxSent
    <3>1. play # NoNumber
      <4> SUFFICES ASSUME play = NoNumber PROVE FALSE
        OBVIOUS
      <4>1. ~playing /\ Held(slots) = {} BY <1>2 DEF CalmRing
      <4>2. Ready(slots) = 0
        <5>1. Held(slots) \subseteq 1 .. 0 BY <4>1
        <5>2. Ready(slots) <= 0 BY <1>2, <5>1, HeldAreFew DEF CalmRing
        <5> QED BY <1>7, <5>2
      <4> QED BY <1>4, <2>1, <4>1, <4>2
    <3> QED BY <1>4, <1>5, <3>1
  <2>3. play + FirstDelay + 1 <= sent /\ sent <= play + FirstDelay + 2 /\ (~playing => play = 0)
    <3>1. CASE playing BY <1>1, <1>2, <1>4, <1>5, <2>2, <3>1 DEF CalmRing
    <3>2. CASE ~playing
      <4>1. sent <= FirstDelay + 2 /\ play <= 1 BY <1>1, <1>2, <1>4, <1>5, <2>2, <3>2 DEF CalmRing
      <4>2. FirstDelay + 1 <= sent - play
        BY <1>4, <1>5, <1>7, <2>1, <2>2, <3>2
      <4>3. play = 0
        <5> SUFFICES ASSUME play # 0 PROVE FALSE
          OBVIOUS
        <5>1. play = 1 BY <2>2, <4>1
        <5>2. 0 \in Due .. sent - 1 /\ 0 + SendGroup <= sent
          BY <1>4, <1>5, <3>2, <4>2, <5>1 DEF Due
        <5>3. 0 \in Held(slots) BY <1>1, <5>2, SentIsHeld
        <5> QED BY <1>5, <2>2, <5>1, <5>3
      <4> QED BY <1>4, <1>5, <4>1, <4>2, <4>3
    <3> QED BY <3>1, <3>2
  <2>4. play \in Held(slots)
    <3>1. Due = play BY <2>3 DEF Due
    <3>2. play \in Due .. sent - 1 /\ play + SendGroup <= sent
      BY <1>4, <1>5, <2>2, <2>3, <3>1
    <3> QED BY <1>1, <3>2, SentIsHeld
  <2>5. Holds(slots, play) BY <1>2, <1>5, <2>4, HoldsIs DEF CalmRing
  <2>6. Ready(slots) # 0 /\ Ready(slots) <= FirstDelay + 2
    <3>1. IsFiniteSet(Held(slots)) /\ Ready(slots) = Cardinality(Held(slots))
      BY <1>2, ReadyIs DEF CalmRing
    <3>2. Ready(slots) # 0 BY <2>4, <3>1, FS_EmptySet
    <3>3. Ready(slots) <= FirstDelay + 2 BY <1>4, <1>5, <1>7, <2>2, <2>3
    <3> QED BY <3>2, <3>3
  <2>7. /\ delay' = StartDelay /\ playing' = TRUE /\ depth'.least \in Nat
        /\ slots' = Without(slots, {play})
        /\ play' = After(play, 1)
        /\ heard' = Played(play)
    <3>1. /\ delay' = StartDelay /\ playing' = TRUE /\ depth'.least \in Nat
          /\ slots' = Without(slots, {play})
          /\ play' = IF Ready(slots) = 0 THEN play ELSE After(play, 1)
          /\ heard' = IF Holds(slots, play) THEN Played(play)
                      ELSE Silence(IF Ready(slots) = 0 THEN "starved" ELSE "concealed")
      BY <1>2, <1>7, <1>10, <2>2, <2>6, AdvancesCalmly DEF CalmRing
    <3> QED BY <2>5, <2>6, <3>1
  <2>8. play' = play + 1
    <3>1. \A a \in Nat, m \in Nat \ {0} : a < m => a % m = a OBVIOUS
    <3>2. Modulus \in Nat \ {0} /\ play + 1 < Modulus /\ play + 1 \in Nat
      <4>1. Modulus \in Nat /\ 2 * (Modulus \div 2) <= Modulus /\ MaxSent < Modulus \div 2
            /\ Modulus \div 2 \in Nat
        BY Sizes
      <4>2. play + 1 <= MaxSent BY <1>4, <1>5, <2>2, <2>3
      <4> QED BY <1>4, <2>2, <4>1, <4>2
    <3>3. PICK a \in Nat : a = play + 1 BY <3>2
    <3> QED BY <2>7, <3>1, <3>2, <3>3 DEF After
  <2>9. /\ slots' \in Rings /\ InPlace(slots') /\ Held(slots') = Held(slots) \ {play}
    <3>1. Free \notin {play} BY <2>2, PlayoutAssumption
    <3> QED BY <1>2, <2>7, <3>1, WithoutIs DEF CalmRing
  <2>10. play' \in 0 .. MaxSent /\ play' # NoNumber /\ Earliest' = play'
    <3>1. play' \in 0 .. MaxSent /\ play' \in Int BY <1>4, <1>5, <2>2, <2>3, <2>8
    <3> QED BY <1>5, <3>1 DEF Earliest
  <2>11. ASSUME NEW h \in Held(slots') PROVE h \in play' .. sent - 1
    <3>1. h \in Held(slots) /\ h # play BY <2>9
    <3>2. h \in Nat /\ play <= h /\ h <= sent - 1 BY <1>5, <2>2, <3>1
    <3> QED BY <1>5, <2>2, <2>8, <3>1, <3>2
  <2>12. play' + FirstDelay <= sent' - ahead' /\ sent' - ahead' <= play' + FirstDelay + 1
    BY <1>1, <1>4, <1>5, <2>2, <2>3, <2>8
  <2>13. CalmRing' BY <1>1, <2>7, <2>9, <2>10, <2>11, <2>12 DEF CalmRing
  <2>14. AllThere'
    <3> SUFFICES ASSUME NEW n \in play' .. sent - 1
        PROVE  n \in Held(slots') \/ (n \notin arrived /\ Open(GroupFor(n))')
      BY <1>1, <2>7 DEF AllThere, Due
    <3>1. n # play /\ n \in Due .. sent - 1
      BY <1>4, <1>5, <2>2, <2>3, <2>8 DEF Due
    <3>2. n \in Held(slots) \/ (n \notin arrived /\ Open(GroupFor(n))) BY <1>2, <3>1 DEF AllThere
    <3>3. Open(GroupFor(n))' <=> Open(GroupFor(n)) BY <1>1 DEF Open
    <3> QED BY <2>9, <3>1, <3>2, <3>3
  <2>15. Heard' BY <2>7 DEF Heard, Played
  <2> QED BY <1>3, <2>13, <2>14, <2>15 DEF Calm
<1> QED BY <1>1, <1>8, <1>9, <1>10 DEF Read

CalmInv == calm => Calm

LEMMA NextCalm ==
  ASSUME DeepEnough, SenderInv, GroupsFit(groups), CalmInv, [Next]_vars
  PROVE  CalmInv'
<1> SUFFICES ASSUME calm' PROVE Calm'
  BY DEF CalmInv
<1>1. calm
  BY DEF Next, Send, SendFails, Deliver, Overtake, Copy, Lose, Ask, LinkIsBack, Quietly, Upset, vars
<1>2. Calm BY <1>1 DEF CalmInv
<1>3. CASE Send BY <1>2, <1>3, CalmSend
<1>4. CASE Deliver
  <2>1. CASE Head(air) = Audio(sent - 1) BY <1>2, <1>4, <2>1, CalmFrame
  <2>2. CASE Head(air) # Audio(sent - 1) BY <1>2, <1>4, <2>2, CalmFec
  <2> QED BY <2>1, <2>2
<1>5. CASE Lose BY <1>2, <1>5, CalmLose
<1>6. CASE Ask BY <1>2, <1>6, CalmAsk
<1>7. CASE SendFails \/ Overtake \/ Copy \/ LinkIsBack
  BY <1>7 DEF SendFails, Overtake, Copy, LinkIsBack, Upset
<1>8. CASE UNCHANGED vars
  <2>1. UNCHANGED <<sent, air, groups, arrived, ahead, missed, slots, play, playing, delay,
                    depth, heard>>
    BY <1>8 DEF vars, playoutVars
  <2> QED BY <1>2, <2>1 DEF Calm, CalmAir, CarriesLast, OnTheWay, CalmLosses, Lost, CalmGroups,
                            Came, Open, CalmRing, Earliest, AllThere, Due, Heard
<1> QED BY <1>3, <1>4, <1>5, <1>6, <1>7, <1>8 DEF Next

\* Ends that group alike, and a buffer as deep as a group less the frame that is
\* played: of a stream that loses at most one frame in a group, however often,
\* every frame is played, and what is recovered is never too late (ADR-021;
\* FecDecoder::try_recover, PlayoutBuffer::read_into).
THEOREM RecoveredFramesPlay ==
  ASSUME HearGroup = SendGroup, FirstDelay + 1 >= SendGroup
  PROVE  Spec => []RecoveredInTime
<1> DEFINE Inv == HandedInv /\ CalmInv
<1>1. DeepEnough BY DEF DeepEnough
<1>2. Init => Inv
  <2>1. Init => HandedInv BY NoGroupsFit DEF Init, HandedInv, HandedIsSent
  <2>2. Init => CalmInv BY <1>1, CalmStart DEF CalmInv
  <2> QED BY <2>1, <2>2
<1>3. SenderInv /\ Inv /\ [Next]_vars => Inv'
  <2> SUFFICES ASSUME SenderInv, Inv, [Next]_vars PROVE Inv'
    OBVIOUS
  <2>1. HandedInv' BY NextHanded
  <2>2. CalmInv' BY <1>1, NextCalm DEF HandedInv
  <2> QED BY <2>1, <2>2
<1>4. Inv => RecoveredInTime BY DEF CalmInv, Calm, Heard, RecoveredInTime
<1> HIDE DEF Inv
<1> QED BY <1>2, <1>3, <1>4, SenderInvariant, PTL DEF Spec
=============================================================================
