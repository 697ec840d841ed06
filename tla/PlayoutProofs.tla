---------------------------- MODULE PlayoutProofs ----------------------------
(***************************************************************************)
(* The play-out buffer in a stream, for delays, rings and numbers of any   *)
(* size and troubles of any number and order: what is held is ahead of the *)
(* frame due, and the buffer keeps the promise of PlayOrder.               *)
(*                                                                         *)
(* The argument: what is held is less than a ring's length from the frame  *)
(* due, so that a slot tells its frames apart, but for two with the place  *)
(* between them where the numbers start over; and it was held before the   *)
(* peer's next frame was numbered.                                         *)
(***************************************************************************)
EXTENDS PlayoutStream, FiniteSetTheorems, TLAPS

\* How many numbers after n the number s is.
Steps(s, n) == (s - n) % Modulus

\* A ring, and a ring with every frame in its slot.
Rings == [0 .. Capacity - 1 -> Numbers \cup {Free}]
InPlace(ring) == \A i \in 0 .. Capacity - 1 : ring[i] # Free => SlotFor(ring[i]) = i

-----------------------------------------------------------------------------
(* Numbers that start over.                                                 *)

LEMMA Constants ==
  /\ RingDelay \in Nat /\ Capacity \in Nat /\ Capacity >= 4
  /\ Modulus \in Nat /\ Modulus >= 4 * Capacity
  /\ Modulus \div 2 \in Nat /\ Modulus \div 2 >= 2 * Capacity /\ Modulus \div 2 <= Modulus
  /\ Capacity \in Numbers /\ 0 \in Numbers
<1>1. RingDelay \in Nat
  BY PlayoutAssumption DEF RingDelay, Larger, HighestDelay
<1>2. Capacity \in Nat /\ Capacity >= 4
  BY <1>1 DEF Capacity, Larger
<1>3. Modulus \in Nat /\ Modulus >= 4 * Capacity
  BY PlayoutAssumption
<1>4. Modulus \div 2 \in Nat /\ Modulus \div 2 >= 2 * Capacity /\ Modulus \div 2 <= Modulus
  BY <1>2, <1>3
<1> QED BY <1>1, <1>2, <1>3, <1>4 DEF Numbers

LEMMA ModOnce ==
  ASSUME NEW m \in Nat \ {0}, NEW a \in Int
  PROVE  /\ 0 <= a /\ a < m => a % m = a
         /\ m <= a /\ a < 2 * m => a % m = a - m
         /\ -m <= a /\ a < 0 => a % m = a + m
OBVIOUS

LEMMA AfterIs ==
  ASSUME NEW n \in Numbers, NEW k \in 0 .. Modulus
  PROVE  /\ After(n, k) \in Numbers
         /\ After(n, k) = IF n + k < Modulus THEN n + k ELSE n + k - Modulus
<1>1. Modulus \in Nat \ {0} BY Constants
<1>2. n + k \in Int /\ 0 <= n + k /\ n + k < 2 * Modulus BY <1>1 DEF Numbers
<1>3. PICK a \in Int : a = n + k BY <1>2
<1>4. a % Modulus = IF a < Modulus THEN a ELSE a - Modulus
  BY <1>1, <1>2, <1>3, ModOnce
<1> QED BY <1>1, <1>2, <1>3, <1>4 DEF After, Numbers

LEMMA StepsIs ==
  ASSUME NEW s \in Numbers, NEW n \in Numbers
  PROVE  /\ Steps(s, n) \in Numbers
         /\ Steps(s, n) = IF s >= n THEN s - n ELSE s - n + Modulus
<1>1. Modulus \in Nat \ {0} BY Constants
<1>2. s - n \in Int /\ -Modulus <= s - n /\ s - n < Modulus /\ (s >= n <=> 0 <= s - n)
  BY <1>1 DEF Numbers
<1>3. (s - n) % Modulus = IF s >= n THEN s - n ELSE s - n + Modulus
  BY <1>1, <1>2, ModOnce
<1> QED BY <1>1, <1>2, <1>3 DEF Steps, Numbers

LEMMA StepsType == \A s, n \in Numbers : Steps(s, n) \in Nat
BY StepsIs, Constants DEF Numbers

LEMMA DistanceIs ==
  ASSUME NEW s \in Numbers, NEW n \in Numbers
  PROVE  Distance(s, n) = IF Steps(s, n) < Modulus \div 2 THEN Steps(s, n)
                          ELSE Steps(s, n) - Modulus
BY DEF Distance, Steps

LEMMA DistanceType == \A s, n \in Numbers : Distance(s, n) \in Int
<1> TAKE s, n \in Numbers
<1>1. Steps(s, n) \in Int /\ Modulus \in Int /\ Modulus \div 2 \in Int
  BY StepsIs, Constants DEF Numbers
<1> QED BY <1>1, DistanceIs

\* A number is reached by its steps, and by no fewer.
LEMMA ReachedBySteps ==
  ASSUME NEW s \in Numbers, NEW n \in Numbers
  PROVE  /\ After(n, Steps(s, n)) = s
         /\ \A k \in 0 .. Modulus - 1 : After(n, k) = s => k = Steps(s, n)
<1>1. Modulus \in Nat BY Constants
<1>2. /\ Steps(s, n) \in 0 .. Modulus - 1
      /\ Steps(s, n) = IF s >= n THEN s - n ELSE s - n + Modulus
  BY StepsIs DEF Numbers
<1>3. \A k \in 0 .. Modulus - 1 : After(n, k) = IF n + k < Modulus THEN n + k ELSE n + k - Modulus
  BY <1>1, AfterIs
<1> QED BY <1>1, <1>2, <1>3 DEF Numbers

\* From k numbers on, it is k steps less.
LEMMA StepsFromLater ==
  ASSUME NEW s \in Numbers, NEW n \in Numbers, NEW k \in 0 .. Modulus - 1
  PROVE  /\ k <= Steps(s, n) => Steps(s, After(n, k)) = Steps(s, n) - k
         /\ k > Steps(s, n) => Steps(s, After(n, k)) = Steps(s, n) - k + Modulus
<1>1. Modulus \in Nat BY Constants
<1>2. Steps(s, n) = IF s >= n THEN s - n ELSE s - n + Modulus
  BY StepsIs
<1>3. /\ After(n, k) \in Numbers
      /\ After(n, k) = IF n + k < Modulus THEN n + k ELSE n + k - Modulus
  BY <1>1, AfterIs
<1>4. Steps(s, After(n, k)) = IF s >= After(n, k) THEN s - After(n, k) ELSE s - After(n, k) + Modulus
  BY <1>3, StepsIs
<1> QED BY <1>1, <1>2, <1>3, <1>4 DEF Numbers

\* Two ways on add up.
LEMMA AfterAfter ==
  ASSUME NEW n \in Numbers, NEW j \in 0 .. Modulus, NEW k \in 0 .. Modulus, j + k <= Modulus
  PROVE  After(After(n, j), k) = After(n, j + k)
<1>1. Modulus \in Nat BY Constants
<1>2. /\ After(n, j) \in Numbers
      /\ After(n, j) = IF n + j < Modulus THEN n + j ELSE n + j - Modulus
  BY AfterIs
<1>3. After(After(n, j), k) =
        IF After(n, j) + k < Modulus THEN After(n, j) + k ELSE After(n, j) + k - Modulus
  BY <1>2, AfterIs
<1>4. After(n, j + k) = IF n + j + k < Modulus THEN n + j + k ELSE n + j + k - Modulus
  <2>1. j + k \in 0 .. Modulus BY <1>1
  <2>2. \A i \in 0 .. Modulus :
          After(n, i) = IF n + i < Modulus THEN n + i ELSE n + i - Modulus
    BY AfterIs
  <2>3. PICK i \in 0 .. Modulus : i = j + k BY <2>1
  <2>4. n + i = n + j + k BY <1>1, <2>3 DEF Numbers
  <2>5. After(n, i) = IF n + i < Modulus THEN n + i ELSE n + i - Modulus BY <2>2
  <2>6. After(n, i) = After(n, j + k) BY <2>3, Zenon
  <2> QED BY <1>1, <2>4, <2>5, <2>6 DEF Numbers
<1> QED BY <1>1, <1>2, <1>3, <1>4 DEF Numbers

\* Fewer than a ring's length apart, two frames have two slots, but for two with the
\* place between them where the numbers start over.
LEMMA SlotTellsApart ==
  ASSUME NEW s \in Numbers, NEW h \in Numbers, NEW n \in Numbers,
         Steps(s, n) <= Steps(h, n), Steps(h, n) < Capacity, SlotFor(s) = SlotFor(h)
  PROVE  s = h \/ (h < s /\ h = After(s, Modulus % Capacity))
<1>1. Capacity \in Nat \ {0} /\ Modulus \in Nat /\ Capacity <= Modulus BY Constants
<1> DEFINE a == s \div Capacity
           b == h \div Capacity
           q == Modulus \div Capacity
           slip == Modulus % Capacity
<1>2. /\ a \in Int /\ b \in Int /\ q \in Int
      /\ s = Capacity * a + SlotFor(s) /\ h = Capacity * b + SlotFor(h)
      /\ SlotFor(s) \in Int
      /\ Modulus = Capacity * q + slip
      /\ slip \in Nat /\ slip < Capacity
  BY <1>1 DEF SlotFor, Numbers
<1> HIDE DEF a, b, q, slip
<1>3. /\ Steps(s, n) \in Nat /\ Steps(s, n) = IF s >= n THEN s - n ELSE s - n + Modulus
      /\ Steps(h, n) \in Nat /\ Steps(h, n) = IF h >= n THEN h - n ELSE h - n + Modulus
  BY <1>1, StepsIs DEF Numbers
<1>4. /\ Capacity * (b - a) = Capacity * b - Capacity * a
      /\ Capacity * (b - a + q) = Capacity * b - Capacity * a + Capacity * q
  <2>1. \A c, x, y, z \in Int :
          /\ c * (x - y) = c * x - c * y
          /\ c * (x - y + z) = c * x - c * y + c * z
    OBVIOUS
  <2> QED BY <1>1, <1>2, <2>1
<1>5. Capacity * a \in Int /\ Capacity * b \in Int /\ Capacity * q \in Int BY <1>1, <1>2
<1>6. \/ Steps(h, n) - Steps(s, n) = h - s
      \/ Steps(h, n) - Steps(s, n) = h - s + Modulus
  BY <1>1, <1>3 DEF Numbers
<1>7. \A t \in Int : -Capacity < Capacity * t /\ Capacity * t < Capacity => t = 0
  BY <1>1
<1>8. CASE Steps(h, n) - Steps(s, n) = h - s
  <2>1. h - s = Capacity * (b - a) BY <1>2, <1>4, <1>5
  <2>2. b - a \in Int /\ -Capacity < Capacity * (b - a) /\ Capacity * (b - a) < Capacity
    BY <1>1, <1>2, <1>3, <1>8, <2>1
  <2>3. b - a = 0 BY <1>7, <2>2
  <2>4. Capacity * (b - a) = 0 BY <1>1, <2>3
  <2>5. s = h BY <2>1, <2>4 DEF Numbers
  <2> QED BY <2>5
<1>9. CASE Steps(h, n) - Steps(s, n) = h - s + Modulus
  <2>1. h - s + Modulus = Capacity * (b - a + q) + slip BY <1>2, <1>4, <1>5
  <2>2. /\ b - a + q \in Int
        /\ -Capacity < Capacity * (b - a + q) /\ Capacity * (b - a + q) < Capacity
    <3>1. /\ 0 <= h - s + Modulus /\ h - s + Modulus < Capacity
      BY <1>1, <1>3, <1>9
    <3>2. b - a + q \in Int /\ Capacity * (b - a + q) \in Int BY <1>1, <1>2, <1>4, <1>5
    <3> QED BY <1>1, <1>2, <2>1, <3>1, <3>2
  <2>3. b - a + q = 0 BY <1>7, <2>2
  <2>4. Capacity * (b - a + q) = 0 BY <1>1, <2>3
  <2>5. h - s + Modulus = slip BY <1>2, <2>1, <2>4
  <2>6. h < s /\ s + slip = h + Modulus BY <1>1, <1>2, <2>5 DEF Numbers
  <2>7. slip \in 0 .. Modulus BY <1>1, <1>2
  <2>8. After(s, slip) = IF s + slip < Modulus THEN s + slip ELSE s + slip - Modulus
    BY <2>7, AfterIs
  <2>9. After(s, slip) = h
    <3>1. ~(s + slip < Modulus) /\ s + slip - Modulus = h BY <1>1, <1>2, <2>6 DEF Numbers
    <3> QED BY <2>8, <3>1
  <2> QED BY <2>6, <2>9 DEF slip
<1> QED BY <1>6, <1>8, <1>9

\* A number k on is k steps further.
LEMMA StepsFurther ==
  ASSUME NEW s \in Numbers, NEW n \in Numbers, NEW k \in 0 .. Modulus, Steps(s, n) + k < Modulus
  PROVE  Steps(After(s, k), n) = Steps(s, n) + k
<1>1. Modulus \in Nat BY Constants
<1>2. Steps(s, n) = IF s >= n THEN s - n ELSE s - n + Modulus BY StepsIs
<1>3. /\ After(s, k) \in Numbers
      /\ After(s, k) = IF s + k < Modulus THEN s + k ELSE s + k - Modulus
  BY AfterIs
<1>4. Steps(After(s, k), n) = IF After(s, k) >= n THEN After(s, k) - n ELSE After(s, k) - n + Modulus
  BY <1>3, StepsIs
<1> QED BY <1>1, <1>2, <1>3, <1>4 DEF Numbers

\* By way of another number, the steps add up.
LEMMA StepsByWayOf ==
  ASSUME NEW s \in Numbers, NEW p \in Numbers, NEW n \in Numbers,
         Steps(s, p) + Steps(p, n) < Modulus
  PROVE  Steps(s, n) = Steps(s, p) + Steps(p, n)
<1>1. Modulus \in Nat BY Constants
<1>2. /\ Steps(s, p) = IF s >= p THEN s - p ELSE s - p + Modulus
      /\ Steps(p, n) = IF p >= n THEN p - n ELSE p - n + Modulus
      /\ Steps(s, n) = IF s >= n THEN s - n ELSE s - n + Modulus
  BY StepsIs
<1> QED BY <1>1, <1>2 DEF Numbers

LEMMA StepsToItself == \A s \in Numbers : Steps(s, s) = 0
<1> TAKE s \in Numbers
<1>1. Steps(s, s) = IF s >= s THEN s - s ELSE s - s + Modulus BY StepsIs
<1>2. s \in Int BY DEF Numbers
<1> QED BY <1>1, <1>2

-----------------------------------------------------------------------------
(* What a ring holds.                                                       *)

LEMMA HeldIs ==
  ASSUME NEW ring \in Rings
  PROVE  /\ DOMAIN ring = 0 .. Capacity - 1
         /\ Held(ring) \subseteq Numbers
         /\ \A h : h \in Held(ring) <=> h # Free /\ \E i \in 0 .. Capacity - 1 : ring[i] = h
         /\ Free \notin Numbers /\ NoNumber \notin Numbers
BY PlayoutAssumption DEF Rings, Held, Numbers

LEMMA SlotIs ==
  ASSUME NEW s \in Numbers
  PROVE  SlotFor(s) \in 0 .. Capacity - 1
BY Constants DEF SlotFor, Numbers

LEMMA EmptyIs == Empty \in Rings /\ InPlace(Empty) /\ Held(Empty) = {}
BY DEF Empty, Rings, InPlace, Held

\* A frame is held when its slot holds it.
LEMMA HoldsIs ==
  ASSUME NEW ring \in Rings, InPlace(ring), NEW s \in Numbers
  PROVE  Holds(ring, s) <=> s \in Held(ring)
BY HeldIs, SlotIs DEF Holds, InPlace

\* A ring into which s is stored holds s, and of the others those of other slots.
LEMMA StoreIs ==
  ASSUME NEW ring \in Rings, InPlace(ring), NEW s \in Numbers
  PROVE  LET after == [ring EXCEPT ![SlotFor(s)] = s]
         IN  /\ after \in Rings /\ InPlace(after)
             /\ Held(after) = {h \in Held(ring) : SlotFor(h) # SlotFor(s)} \cup {s}
<1> DEFINE after == [ring EXCEPT ![SlotFor(s)] = s]
<1>1. SlotFor(s) \in 0 .. Capacity - 1 BY SlotIs
<1>2. after \in Rings BY <1>1 DEF Rings
<1>3. \A i \in 0 .. Capacity - 1 : after[i] = IF i = SlotFor(s) THEN s ELSE ring[i]
  BY <1>1 DEF Rings
<1>4. InPlace(after) BY <1>3 DEF InPlace
<1>5. s # Free BY HeldIs
<1> HIDE DEF after
<1>6. ASSUME NEW h
      PROVE  h \in Held(after) <=> h = s \/ (h \in Held(ring) /\ SlotFor(h) # SlotFor(s))
  <2>1. /\ h \in Held(after) <=> h # Free /\ \E i \in 0 .. Capacity - 1 : after[i] = h
        /\ h \in Held(ring) <=> h # Free /\ \E i \in 0 .. Capacity - 1 : ring[i] = h
    BY <1>2, HeldIs
  <2>2. \A i \in 0 .. Capacity - 1 : ring[i] # Free => SlotFor(ring[i]) = i
    BY DEF InPlace
  <2> QED BY <1>1, <1>3, <1>5, <2>1, <2>2
<1>7. Held(after) = {h \in Held(ring) : SlotFor(h) # SlotFor(s)} \cup {s} BY <1>6
<1> QED BY <1>2, <1>4, <1>7 DEF after

LEMMA WithoutIs ==
  ASSUME NEW ring \in Rings, InPlace(ring), NEW gone, Free \notin gone
  PROVE  /\ Without(ring, gone) \in Rings /\ InPlace(Without(ring, gone))
         /\ Held(Without(ring, gone)) = Held(ring) \ gone
<1> DEFINE after == Without(ring, gone)
<1>1. \A i \in 0 .. Capacity - 1 : after[i] = IF ring[i] \in gone THEN Free ELSE ring[i]
  BY DEF Without, Rings
<1>2. after \in Rings BY DEF Without, Rings
<1>3. InPlace(after) BY <1>1 DEF InPlace
<1> HIDE DEF after
<1>4. ASSUME NEW h
      PROVE  h \in Held(after) <=> h \in Held(ring) \ gone
  <2>1. /\ h \in Held(after) <=> h # Free /\ \E i \in 0 .. Capacity - 1 : after[i] = h
        /\ h \in Held(ring) <=> h # Free /\ \E i \in 0 .. Capacity - 1 : ring[i] = h
    BY <1>2, HeldIs
  <2> QED BY <1>1, <2>1
<1>5. Held(after) = Held(ring) \ gone BY <1>4
<1> QED BY <1>2, <1>3, <1>5 DEF after

\* How many frames a ring holds, and that it holds any.
LEMMA ReadyIs ==
  ASSUME NEW ring \in Rings
  PROVE  Ready(ring) \in Nat /\ (Ready(ring) = 0 <=> Held(ring) = {})
<1> DEFINE full == {i \in DOMAIN ring : ring[i] # Free}
<1>1. Capacity - 1 \in Int BY Constants
<1>2. IsFiniteSet(0 .. Capacity - 1) BY <1>1, FS_Interval
<1>3. full \subseteq 0 .. Capacity - 1 BY DEF Rings
<1>4. IsFiniteSet(full) BY <1>2, <1>3, FS_Subset
<1>5. Cardinality(full) \in Nat BY <1>4, FS_CardinalityType
<1>6. Cardinality(full) = 0 <=> full = {} BY <1>4, FS_EmptySet
<1>7. full = {} <=> Held(ring) = {} BY HeldIs
<1> QED BY <1>5, <1>6, <1>7 DEF Ready

-----------------------------------------------------------------------------
(* The device's turn.                                                       *)

\* What is held is fewer than `far` numbers ahead of the number `from`.
Near(ring, from, far) == \A h \in Held(ring) : Steps(h, from) < far

\* The k numbers from `from` on.
Passed(from, k) == {After(from, i) : i \in 0 .. k - 1}

\* When k numbers are passed over, what is left is ahead of the next one.
LEMMA PassedOver ==
  ASSUME NEW ring \in Rings, InPlace(ring), NEW from \in Numbers,
         NEW far \in 0 .. Capacity, Near(ring, from, far), NEW k \in 0 .. far
  PROVE  LET left == Without(ring, Passed(from, k))
         IN  /\ left \in Rings /\ InPlace(left)
             /\ Held(left) = Held(ring) \ Passed(from, k)
             /\ After(from, k) \in Numbers
             /\ Near(left, After(from, k), far - k)
<1> DEFINE left == Without(ring, Passed(from, k))
<1>1. /\ Capacity \in Nat /\ Modulus \in Nat /\ 4 * Capacity <= Modulus /\ Capacity >= 4
      /\ far \in Nat /\ k \in Nat /\ k <= far /\ far <= Capacity
  BY Constants
<1>2. \A i \in 0 .. Modulus - 1 : After(from, i) \in Numbers BY <1>1, AfterIs
<1>3. Free \notin Passed(from, k) BY <1>1, <1>2, HeldIs DEF Passed
<1>4. left \in Rings /\ InPlace(left) /\ Held(left) = Held(ring) \ Passed(from, k)
  BY <1>3, WithoutIs
<1>5. After(from, k) \in Numbers BY <1>1, <1>2
<1>6. ASSUME NEW h \in Held(left) PROVE Steps(h, After(from, k)) < far - k
  <2>1. h \in Numbers /\ h \in Held(ring) /\ h \notin Passed(from, k) BY <1>4, HeldIs
  <2>2. Steps(h, from) \in Nat /\ Steps(h, from) < far
    BY <1>1, <2>1, StepsIs DEF Near, Numbers
  <2>3. After(from, Steps(h, from)) = h BY <2>1, ReachedBySteps
  <2>4. ~(Steps(h, from) \in 0 .. k - 1) BY <2>1, <2>3 DEF Passed
  <2>5. k <= Steps(h, from) BY <1>1, <2>2, <2>4
  <2>6. k \in 0 .. Modulus - 1 BY <1>1
  <2>7. Steps(h, After(from, k)) = Steps(h, from) - k BY <2>1, <2>5, <2>6, StepsFromLater
  <2> QED BY <1>1, <2>2, <2>7
<1>7. Near(left, After(from, k), far - k) BY <1>6 DEF Near
<1> QED BY <1>4, <1>5, <1>7

\* A set of natural numbers that is not empty has a least one.
LEMMA Least ==
  ASSUME NEW T, T \subseteq Nat, T # {}
  PROVE  \E x \in T : \A y \in T : x <= y
<1>1. PICK x \in T : \A y \in T : ~(<<y, x>> \in OpToRel(<, Nat))
  BY NatLessThanWellFounded, WFMin, Zenon
<1>2. ASSUME NEW y \in T PROVE x <= y
  <2>1. <<y, x>> \in OpToRel(<, Nat) <=> y < x BY SMT DEF OpToRel
  <2>2. ~(y < x) BY <1>1, <2>1, Zenon
  <2> QED BY <2>2
<1> QED BY <1>2

\* A trim passes over no more than it may, nor more than is held.
LEMMA SkippedIs ==
  ASSUME NEW ring \in Rings, InPlace(ring), NEW from \in Numbers, NEW most \in Nat,
         NEW far \in 0 .. Capacity, Near(ring, from, far), delay.target \in Nat
  PROVE  Skipped(ring, from, most) \in 0 .. far
<1> DEFINE gone(k) == {After(from, i) : i \in 0 .. k - 1}
           enough(k) == k = most \/ Ready(Without(ring, gone(k))) <= delay.target + 1
           first(k) == enough(k) /\ \A j \in 0 .. k - 1 : ~enough(j)
           found == {k \in 0 .. most : enough(k)}
<1>1. /\ Capacity \in Nat /\ Modulus \in Nat /\ 4 * Capacity <= Modulus /\ Capacity >= 4
      /\ far \in Nat /\ far <= Capacity
  BY Constants
<1>2. most \in found
  <2>1. most \in 0 .. most OBVIOUS
  <2>2. enough(most) OBVIOUS
  <2> HIDE DEF enough
  <2> QED BY <2>1, <2>2
<1>3. PICK k \in found : \A j \in found : k <= j
  <2>1. found \subseteq Nat
    <3> HIDE DEF enough
    <3> QED OBVIOUS
  <2>2. found # {} BY <1>2
  <2> HIDE DEF found
  <2> QED BY <2>1, <2>2, Least
<1>4. enough(far)
  <2>1. gone(far) = Passed(from, far) BY DEF Passed
  <2>2. /\ Without(ring, gone(far)) \in Rings
        /\ Near(Without(ring, gone(far)), After(from, far), far - far)
        /\ Held(Without(ring, gone(far))) \subseteq Numbers
        /\ After(from, far) \in Numbers
    <3>1. far \in 0 .. far BY <1>1
    <3> QED BY <2>1, <3>1, PassedOver, HeldIs
  <2> HIDE DEF gone
  <2>3. \A h \in Held(Without(ring, gone(far))) : FALSE
    <3> TAKE h \in Held(Without(ring, gone(far)))
    <3>1. Steps(h, After(from, far)) \in Nat BY <1>1, <2>2, StepsIs DEF Numbers
    <3>2. Steps(h, After(from, far)) < 0 BY <1>1, <2>2 DEF Near
    <3> QED BY <3>1, <3>2
  <2>4. Ready(Without(ring, gone(far))) = 0 BY <2>2, <2>3, ReadyIs
  <2> QED BY <2>4
<1>5. k \in 0 .. most /\ first(k)
  <2> HIDE DEF enough
  <2>1. \A j \in 0 .. k - 1 : j \in 0 .. most BY <1>3
  <2> QED BY <1>3, <2>1
<1>6. Skipped(ring, from, most) = CHOOSE i \in 0 .. most : first(i)
  BY DEF Skipped
<1> DEFINE n == CHOOSE i \in 0 .. most : first(i)
<1>7. n \in 0 .. most /\ first(n)
  <2> HIDE DEF first
  <2> QED BY <1>5
<1> HIDE DEF n
<1>8. n <= far
  <2>1. \A j \in 0 .. n - 1 : ~enough(j) BY <1>7
  <2> HIDE DEF enough
  <2> QED BY <1>1, <1>4, <1>7, <2>1
<1> QED BY <1>1, <1>6, <1>7, <1>8 DEF n

\* What a trim leaves, and of which number it is the turn.
LEMMA TrimmedIs ==
  ASSUME NEW ring \in Rings, InPlace(ring), NEW from \in Numbers, NEW most \in Nat,
         NEW far \in 0 .. Capacity, Near(ring, from, far), delay.target \in Nat
  PROVE  \E k \in 0 .. far :
           LET t == Trimmed(ring, from, most)
           IN  /\ t.from = After(from, k) /\ t.from \in Numbers
               /\ t.ring \in Rings /\ InPlace(t.ring)
               /\ Held(t.ring) = Held(ring) \ Passed(from, k)
               /\ Near(t.ring, t.from, far - k)
<1> DEFINE k == Skipped(ring, from, most)
<1>1. k \in 0 .. far BY SkippedIs
<1>2. /\ Trimmed(ring, from, most).ring = Without(ring, Passed(from, k))
      /\ Trimmed(ring, from, most).from = After(from, k)
  BY DEF Trimmed, Passed
<1> HIDE DEF k
<1> QED BY <1>1, <1>2, PassedOver

\* Numbers passed over twice are passed over at once.
LEMMA PassedTwice ==
  ASSUME NEW from \in Numbers, NEW j \in 0 .. Modulus, NEW k \in 0 .. Modulus,
         j + k <= Modulus
  PROVE  Passed(from, j) \cup Passed(After(from, j), k) = Passed(from, j + k)
<1>1. Modulus \in Nat /\ j \in Nat /\ k \in Nat BY Constants
<1>2. \A i \in 0 .. k - 1 : After(After(from, j), i) = After(from, j + i)
  <2> TAKE i \in 0 .. k - 1
  <2>1. i \in 0 .. Modulus /\ j + i <= Modulus BY <1>1
  <2> QED BY <2>1, AfterAfter
<1>3. ASSUME NEW s \in Passed(from, j) \cup Passed(After(from, j), k)
      PROVE  s \in Passed(from, j + k)
  <2>1. CASE s \in Passed(from, j) BY <1>1, <2>1 DEF Passed
  <2>2. CASE s \in Passed(After(from, j), k)
    <3>1. PICK i \in 0 .. k - 1 : s = After(After(from, j), i) BY <2>2 DEF Passed
    <3>2. s = After(from, j + i) /\ j + i \in 0 .. j + k - 1 BY <1>1, <1>2, <3>1
    <3> QED BY <3>2 DEF Passed
  <2> QED BY <2>1, <2>2
<1>4. ASSUME NEW s \in Passed(from, j + k)
      PROVE  s \in Passed(from, j) \cup Passed(After(from, j), k)
  <2>1. PICK i \in 0 .. j + k - 1 : s = After(from, i) BY <1>4 DEF Passed
  <2>2. CASE i < j BY <1>1, <2>1, <2>2 DEF Passed
  <2>3. CASE i >= j
    <3>1. i - j \in 0 .. k - 1 BY <1>1, <2>3
    <3>2. j + (i - j) = i BY <1>1
    <3>3. s = After(After(from, j), i - j) BY <1>2, <2>1, <3>1, <3>2
    <3> QED BY <3>1, <3>3 DEF Passed
  <2> QED BY <1>1, <2>2, <2>3
<1> QED BY <1>3, <1>4

-----------------------------------------------------------------------------
(* The invariant.                                                           *)

Delays == [target : Nat, lowest : Nat, highest : Nat, chosen : Nat, shift : Int]
Depths == [least : Nat, reads : Nat]

\* The buffer's fields are what they are declared as.
Shapes ==
  /\ slots \in Rings /\ play \in Numbers \cup {NoNumber} /\ playing \in BOOLEAN
  /\ delay \in Delays /\ depth \in Depths
  /\ sent \in Numbers /\ troubles \in 0 .. MaxTroubles

\* Nothing is held and nothing plays before a frame has come; every frame is in its
\* slot, and less than a ring's length from the one due.
RingInv ==
  /\ play = NoNumber => ~playing /\ Held(slots) = {}
  /\ play # NoNumber => Near(slots, play, Capacity)
  /\ InPlace(slots)

\* How far the peer may be ahead of the frame due when the buffer has not begun to
\* play: a ring's length, and one for every trouble.
Reach == (troubles + 1) * Capacity

\* Until it plays, the frame due is one that was sent, and what is held was sent.
PrimingInv ==
  ~playing /\ play # NoNumber =>
    /\ Steps(sent, play) >= 1 /\ Steps(sent, play) <= Reach
    /\ Near(slots, play, Steps(sent, play))

StreamInv == Shapes /\ RingInv /\ PrimingInv

LEMMA FreshDepthType == FreshDepth \in Depths
BY Constants DEF FreshDepth, Depths

LEMMA ReachIs ==
  ASSUME troubles \in 0 .. MaxTroubles
  PROVE  /\ Reach \in Nat /\ Reach >= Capacity /\ Reach <= Modulus - Capacity
         /\ \A t : t = troubles + 1 => (t + 1) * Capacity = Reach + Capacity
         /\ \A t \in 0 .. MaxTroubles : t >= troubles => (t + 1) * Capacity >= Reach
<1>1. /\ Capacity \in Nat /\ MaxTroubles \in Nat /\ troubles \in Nat /\ troubles <= MaxTroubles
      /\ (MaxTroubles + 2) * Capacity <= Modulus /\ Modulus \in Nat
  BY Constants, StreamAssumption, NumbersAssumption
<1>2. \A a, b, c \in Nat : /\ (a + 1) * c \in Nat
                           /\ (a + 2) * c = (a + 1) * c + c
                           /\ (a + 1) * c = a * c + c /\ a * c >= 0
                           /\ a <= b => (a + 1) * c <= (b + 1) * c
  OBVIOUS
<1>3. Reach \in Nat /\ Reach >= Capacity BY <1>1, <1>2 DEF Reach
<1>4. (MaxTroubles + 2) * Capacity = (MaxTroubles + 1) * Capacity + Capacity BY <1>1, <1>2
<1>5. Reach <= (MaxTroubles + 1) * Capacity BY <1>1, <1>2 DEF Reach
<1>6. \A t : t = troubles + 1 => (t + 1) * Capacity = Reach + Capacity
  <2> TAKE t
  <2> HAVE t = troubles + 1
  <2>1. (troubles + 2) * Capacity = Reach + Capacity BY <1>1, <1>2 DEF Reach
  <2>2. t + 1 = troubles + 2 BY <1>1
  <2> QED BY <2>1, <2>2
<1>7. \A t \in 0 .. MaxTroubles : t >= troubles => (t + 1) * Capacity >= Reach
  <2> TAKE t \in 0 .. MaxTroubles
  <2> HAVE t >= troubles
  <2>1. (troubles + 1) * Capacity <= (t + 1) * Capacity
    <3>1. t \in Nat BY <1>1
    <3> QED BY <1>1, <1>2, <3>1
  <2> QED BY <1>1, <1>2, <2>1 DEF Reach
<1> QED BY <1>1, <1>3, <1>4, <1>5, <1>6, <1>7, <1>2

\* The buffer is not with a number before a frame has come.
LEMMA DueIs ==
  ASSUME StreamInv, play # NoNumber
  PROVE  play \in Numbers /\ Near(slots, play, Capacity)
BY DEF StreamInv, Shapes, RingInv

-----------------------------------------------------------------------------
(* The network hands over a frame.                                          *)

\* The frame s was numbered k turns before the peer's next one.
SentBefore(s, k) == s \in Numbers /\ k \in 0 .. Capacity /\ Steps(sent, s) = k

\* Where a frame comes that was numbered k turns before the next: so many numbers
\* ahead of the one due, or so many behind it.
LEMMA WhereItComes ==
  ASSUME StreamInv, play # NoNumber, ~playing, NEW s, NEW k, SentBefore(s, k)
  PROVE  LET m == Steps(sent, play)
         IN  /\ m \in Nat
             /\ k <= m => Steps(s, play) = m - k
             /\ Size(Distance(s, play)) < Capacity /\ Distance(s, play) >= 0 => k <= m /\ Distance(s, play) = m - k
             /\ Size(Distance(s, play)) < Capacity /\ Distance(s, play) < 0 => k > m /\ Distance(s, play) = m - k
<1> DEFINE m == Steps(sent, play)
<1>1. /\ Capacity \in Nat /\ Modulus \in Nat /\ 4 * Capacity <= Modulus /\ Capacity >= 4
      /\ Modulus \div 2 \in Nat /\ Modulus \div 2 >= 2 * Capacity /\ Modulus \div 2 <= Modulus
  BY Constants
<1>2. s \in Numbers /\ play \in Numbers /\ sent \in Numbers
  BY DueIs DEF SentBefore, StreamInv, Shapes
<1>3. m \in Numbers /\ m >= 1 /\ m <= Reach /\ Reach \in Nat /\ Reach <= Modulus - Capacity
  BY <1>2, StepsIs, ReachIs DEF StreamInv, PrimingInv, Shapes
<1>4. k \in 0 .. Capacity /\ Steps(sent, s) = k BY DEF SentBefore
<1>5. Steps(s, play) = IF k <= m THEN m - k ELSE m - k + Modulus
  <2>1. m = IF sent >= play THEN sent - play ELSE sent - play + Modulus BY <1>2, StepsIs
  <2>2. k = IF sent >= s THEN sent - s ELSE sent - s + Modulus BY <1>2, <1>4, StepsIs
  <2>3. Steps(s, play) = IF s >= play THEN s - play ELSE s - play + Modulus BY <1>2, StepsIs
  <2> HIDE DEF m
  <2> QED BY <1>1, <1>2, <1>3, <1>4, <2>1, <2>2, <2>3 DEF Numbers
<1>6. Distance(s, play) = IF Steps(s, play) < Modulus \div 2 THEN Steps(s, play)
                          ELSE Steps(s, play) - Modulus
  BY <1>2, DistanceIs
<1> HIDE DEF m
<1>7. PICK d \in Int : d = Distance(s, play) BY <1>2, DistanceType
<1>8. Size(d) < Capacity <=> -Capacity < d /\ d < Capacity BY <1>1 DEF Size
<1>9. /\ m \in Nat
      /\ Size(d) < Capacity /\ d >= 0 => k <= m /\ d = m - k
      /\ Size(d) < Capacity /\ d < 0 => k > m /\ d = m - k
  BY <1>1, <1>3, <1>4, <1>5, <1>6, <1>7, <1>8 DEF Numbers
<1> QED BY <1>5, <1>7, <1>9 DEF m

\* A ring that holds one frame, and it is its turn.
LEMMA OneHeld ==
  ASSUME NEW ring \in Rings, NEW s \in Numbers, Held(ring) = {s}, NEW far \in Nat \ {0}
  PROVE  Near(ring, s, far)
BY StepsToItself DEF Near

\* The frame s is held now, and the one whose slot it has is not.
InPlaceOfAnother(s) ==
  \E n \in Held(slots) \cup {s} :
    /\ n = s \/ Order!SharePlace(n, s)
    /\ Held(slots') = (Held(slots) \ {n}) \cup {s}

\* Written: the buffer starts over from the frame, or passes it over, or stores it.
LEMMA Writes ==
  ASSUME StreamInv, NEW s, NEW k, SentBefore(s, k), Write(s)
  PROVE  /\ slots' \in Rings /\ InPlace(slots') /\ play' \in Numbers
         /\ UNCHANGED heard
         /\ delay' = delay \/ delay' = [delay EXCEPT !.shift = 0]
         /\ depth' = depth \/ depth' = FreshDepth
         /\ \/ Held(slots') = {s} /\ play' = s /\ playing' = FALSE
            \/ playing /\ UNCHANGED playoutVars
            \/ /\ playing /\ UNCHANGED <<play, playing>>
               /\ Steps(s, play) < Capacity
               /\ InPlaceOfAnother(s)
            \/ /\ ~playing /\ play # NoNumber /\ UNCHANGED playing
               /\ s \in Held(slots') /\ Held(slots') \subseteq Held(slots) \cup {s}
               /\ \/ /\ play' = play /\ k <= Steps(sent, play)
                     /\ Steps(s, play) = Steps(sent, play) - k /\ Steps(s, play) < Capacity
                  \/ /\ play' = s /\ k > Steps(sent, play) /\ Steps(play, s) = k - Steps(sent, play)
<1>1. /\ Capacity \in Nat /\ Modulus \in Nat /\ 4 * Capacity <= Modulus /\ Capacity >= 4
      /\ Modulus \div 2 \in Nat /\ Modulus \div 2 >= 2 * Capacity /\ Modulus \div 2 <= Modulus
  BY Constants
<1>2. s \in Numbers /\ sent \in Numbers /\ slots \in Rings /\ InPlace(slots) /\ playing \in BOOLEAN
  BY DEF SentBefore, StreamInv, Shapes, RingInv
<1>3. s # NoNumber BY <1>2, HeldIs
<1>4. CASE Resync(s)
  <2>1. /\ slots' = [Empty EXCEPT ![SlotFor(s)] = s] /\ play' = s /\ playing' = FALSE
        /\ delay' = [delay EXCEPT !.shift = 0] /\ depth' = FreshDepth /\ UNCHANGED heard
    BY <1>4 DEF Resync
  <2>2. slots' \in Rings /\ InPlace(slots') /\ Held(slots') = {s}
    BY <1>2, <2>1, EmptyIs, StoreIs
  <2> QED BY <1>2, <2>1, <2>2
<1>5. CASE play # NoNumber /\ Distance(s, play) < 0 /\ playing /\ UNCHANGED playoutVars
  <2>1. UNCHANGED <<slots, play, playing, delay, depth, heard>> BY <1>5 DEF playoutVars
  <2> QED BY <1>2, <1>5, <2>1, DueIs
<1>6. CASE /\ Store(s)
           /\ play # NoNumber => Size(Distance(s, play)) < Capacity
           /\ ~(play # NoNumber /\ Distance(s, play) < 0 /\ playing)
  <2>1. /\ slots' = [slots EXCEPT ![SlotFor(s)] = s]
        /\ play' = IF play = NoNumber \/ Distance(s, play) < 0 THEN s ELSE play
        /\ UNCHANGED <<playing, delay, depth, heard>>
    BY <1>6 DEF Store
  <2>2. /\ slots' \in Rings /\ InPlace(slots')
        /\ Held(slots') = {h \in Held(slots) : SlotFor(h) # SlotFor(s)} \cup {s}
    BY <1>2, <2>1, StoreIs
  <2>3. CASE play = NoNumber
    <3>1. Held(slots) = {} /\ ~playing BY <2>3 DEF StreamInv, RingInv
    <3>2. Held(slots') = {s} /\ play' = s /\ playing' = FALSE BY <1>2, <2>1, <2>2, <2>3, <3>1
    <3> QED BY <1>2, <2>1, <2>2, <3>2
  <2>4. CASE play # NoNumber
    <3>1. play \in Numbers /\ Near(slots, play, Capacity) BY <2>4, DueIs
    <3>2. PICK d \in Int : d = Distance(s, play)
      BY <1>2, <3>1, DistanceType
    <3>3. -Capacity < d /\ d < Capacity BY <1>1, <1>6, <2>4, <3>2 DEF Size
    <3>4. Steps(s, play) \in Nat /\ Steps(s, play) < Modulus BY <1>1, <1>2, <3>1, StepsIs DEF Numbers
    <3>5. d = IF Steps(s, play) < Modulus \div 2 THEN Steps(s, play) ELSE Steps(s, play) - Modulus
      BY <1>2, <3>1, <3>2, DistanceIs
    <3>6. play' \in Numbers BY <1>2, <2>1, <3>1
    <3>7. CASE playing
      <4>1. d >= 0 /\ Steps(s, play) < Capacity BY <1>1, <1>6, <2>4, <3>2, <3>3, <3>4, <3>5, <3>7
      <4>2. play' = play BY <2>1, <2>4, <3>2, <4>1
      <4>3. \A h \in Held(slots) : SlotFor(h) = SlotFor(s) => h = s \/ Order!SharePlace(h, s)
        <5> TAKE h \in Held(slots)
        <5> HAVE SlotFor(h) = SlotFor(s)
        <5>1. h \in Numbers /\ Steps(h, play) < Capacity BY <1>2, <3>1, HeldIs DEF Near
        <5>2. Steps(h, play) \in Nat BY <3>1, <5>1, StepsType
        <5>3. CASE Steps(s, play) <= Steps(h, play)
          <6>1. s = h \/ (h < s /\ h = After(s, Modulus % Capacity))
            BY <1>2, <3>1, <5>1, <5>3, SlotTellsApart
          <6> QED BY <6>1 DEF Order!SharePlace, After, Order!After
        <5>4. CASE Steps(h, play) <= Steps(s, play)
          <6>1. h = s \/ (s < h /\ s = After(h, Modulus % Capacity))
            BY <1>2, <3>1, <4>1, <5>1, <5>4, SlotTellsApart
          <6> QED BY <6>1 DEF Order!SharePlace, After, Order!After
        <5> QED BY <3>4, <5>2, <5>3, <5>4
      <4>4. \A g, h \in Held(slots) : SlotFor(g) = SlotFor(h) => g = h
        BY <1>2, HeldIs DEF InPlace
      <4>5. InPlaceOfAnother(s)
        <5>1. CASE \E h \in Held(slots) : SlotFor(h) = SlotFor(s)
          <6>1. PICK h \in Held(slots) : SlotFor(h) = SlotFor(s) BY <5>1
          <6>2. Held(slots') = (Held(slots) \ {h}) \cup {s} BY <2>2, <4>4, <6>1
          <6>3. h = s \/ Order!SharePlace(h, s) BY <4>3, <6>1
          <6> QED BY <6>1, <6>2, <6>3 DEF InPlaceOfAnother
        <5>2. CASE ~\E h \in Held(slots) : SlotFor(h) = SlotFor(s)
          <6>1. Held(slots') = (Held(slots) \ {s}) \cup {s} BY <2>2, <5>2
          <6> QED BY <6>1 DEF InPlaceOfAnother
        <5> QED BY <5>1, <5>2
      <4> QED BY <2>1, <2>2, <3>6, <3>7, <4>1, <4>2, <4>5
    <3>8. CASE ~playing
      <4>1. /\ Steps(sent, play) \in Nat
            /\ k <= Steps(sent, play) => Steps(s, play) = Steps(sent, play) - k
            /\ d >= 0 => k <= Steps(sent, play) /\ d = Steps(sent, play) - k
            /\ d < 0 => k > Steps(sent, play) /\ d = Steps(sent, play) - k
        BY <1>6, <2>4, <3>2, <3>8, WhereItComes
      <4>2. s \in Held(slots') /\ Held(slots') \subseteq Held(slots) \cup {s} BY <2>2
      <4>3. CASE d >= 0
        <5>1. play' = play BY <2>1, <2>4, <3>2, <4>3
        <5>2. Steps(s, play) = Steps(sent, play) - k /\ Steps(s, play) < Capacity
          BY <3>3, <4>1, <4>3
        <5> QED BY <2>1, <2>2, <2>4, <3>6, <3>8, <4>1, <4>2, <4>3, <5>1, <5>2
      <4>4. CASE d < 0
        <5>1. play' = s BY <2>1, <3>2, <4>4
        <5>2. /\ Steps(s, play) = IF s >= play THEN s - play ELSE s - play + Modulus
              /\ Steps(play, s) = IF play >= s THEN play - s ELSE play - s + Modulus
          BY <1>2, <3>1, StepsIs
        <5>3. Steps(s, play) = d + Modulus BY <1>1, <3>4, <3>5, <4>4
        <5>4. s \in 0 .. Modulus - 1 /\ play \in 0 .. Modulus - 1 BY <1>2, <3>1 DEF Numbers
        <5>5. Steps(play, s) = -d
          <6>1. CASE s >= play
            <7>1. d + Modulus = s - play BY <5>2, <5>3, <6>1
            <7>2. s # play BY <1>1, <3>3, <5>4, <7>1
            <7>3. ~(play >= s) BY <5>4, <6>1, <7>2
            <7> QED BY <1>1, <5>2, <5>4, <7>1, <7>3
          <6>2. CASE ~(s >= play)
            <7>1. d + Modulus = s - play + Modulus BY <5>2, <5>3, <6>2
            <7>2. play >= s BY <5>4, <6>2
            <7>3. d = s - play BY <1>1, <5>4, <7>1
            <7> QED BY <5>2, <5>4, <7>2, <7>3
          <6> QED BY <6>1, <6>2
        <5>6. k \in Int BY <1>1 DEF SentBefore
        <5>7. Steps(play, s) = k - Steps(sent, play) BY <4>1, <4>4, <5>5, <5>6
        <5> QED BY <2>1, <2>2, <2>4, <3>6, <3>8, <4>1, <4>2, <4>4, <5>1, <5>7
      <4>5. d >= 0 \/ d < 0 BY <3>2
      <4> QED BY <4>3, <4>4, <4>5
    <3> QED BY <1>2, <3>7, <3>8
  <2> QED BY <2>3, <2>4
<1>7. \/ Resync(s)
      \/ play # NoNumber /\ Distance(s, play) < 0 /\ playing /\ UNCHANGED playoutVars
      \/ /\ Store(s)
         /\ play # NoNumber => ~(Size(Distance(s, play)) >= Capacity)
         /\ ~(play # NoNumber /\ Distance(s, play) < 0 /\ playing)
  BY Zenon DEF Write
<1>8. play # NoNumber => (~(Size(Distance(s, play)) >= Capacity) <=> Size(Distance(s, play)) < Capacity)
  <2> SUFFICES ASSUME play # NoNumber
               PROVE  ~(Size(Distance(s, play)) >= Capacity) <=> Size(Distance(s, play)) < Capacity
    OBVIOUS
  <2>1. Distance(s, play) \in Int
    BY <1>2, DueIs, DistanceType
  <2> QED BY <1>1, <2>1 DEF Size
<1> QED BY <1>4, <1>5, <1>6, <1>7, <1>8

LEMMA WriteKeeps ==
  ASSUME StreamInv, NEW s, NEW k, SentBefore(s, k), Write(s),
         troubles' \in 0 .. MaxTroubles, troubles' >= troubles,
         (k >= 1 /\ UNCHANGED sent) \/ (k = 0 /\ sent' = After(sent, 1))
  PROVE  StreamInv'
<1>1. /\ Capacity \in Nat /\ Modulus \in Nat /\ 4 * Capacity <= Modulus /\ Capacity >= 4
  BY Constants
<1>2. /\ s \in Numbers /\ sent \in Numbers /\ slots \in Rings /\ InPlace(slots)
      /\ k \in 0 .. Capacity /\ Steps(sent, s) = k /\ playing \in BOOLEAN
  BY DEF SentBefore, StreamInv, Shapes, RingInv
<1>3. /\ Reach \in Nat /\ Reach >= Capacity /\ Reach <= Modulus - Capacity
      /\ Reach' \in Nat /\ Reach' >= Reach
  <2>1. troubles \in 0 .. MaxTroubles BY DEF StreamInv, Shapes
  <2>2. /\ Reach \in Nat /\ Reach >= Capacity /\ Reach <= Modulus - Capacity
        /\ \A t \in 0 .. MaxTroubles : t >= troubles => (t + 1) * Capacity >= Reach
    BY <2>1, ReachIs
  <2>3. (troubles' + 1) * Capacity >= Reach BY <2>2
  <2>4. troubles' + 1 \in Nat
    <3>1. troubles' \in Nat BY StreamAssumption
    <3>2. \A n \in Nat : n + 1 \in Nat OBVIOUS
    <3> QED BY <3>1, <3>2, Zenon
  <2>5. Reach' = (troubles' + 1) * Capacity BY DEF Reach, Capacity, RingDelay
  <2>6. (troubles' + 1) * Capacity \in Nat
    <3>1. \A a, b \in Nat : a * b \in Nat OBVIOUS
    <3> QED BY <1>1, <2>4, <3>1
  <2> QED BY <2>2, <2>3, <2>5, <2>6
<1>4. sent' \in Numbers /\ Steps(sent', s) \in 1 .. Capacity /\ Steps(sent', s) >= k
  <2>1. CASE k >= 1 /\ UNCHANGED sent BY <1>2, <2>1
  <2>2. CASE k = 0 /\ sent' = After(sent, 1)
    <3>1. After(sent, 1) \in Numbers BY <1>1, <1>2, AfterIs
    <3>2. Steps(After(sent, 1), s) = 1 BY <1>1, <1>2, <2>2, StepsFurther
    <3> QED BY <1>1, <2>2, <3>1, <3>2
  <2> QED BY <2>1, <2>2
<1>5. ASSUME playing \/ play # NoNumber, play \in Numbers, Steps(sent, play) + 1 < Modulus
      PROVE  Steps(sent', play) = IF k >= 1 THEN Steps(sent, play) ELSE Steps(sent, play) + 1
  <2>1. CASE k >= 1 /\ UNCHANGED sent BY <2>1
  <2>2. CASE k = 0 /\ sent' = After(sent, 1)
    BY <1>1, <1>2, <1>5, <2>2, StepsFurther
  <2> QED BY <2>1, <2>2
<1>6. /\ slots' \in Rings /\ InPlace(slots') /\ play' \in Numbers /\ play' # NoNumber
      /\ delay' = delay \/ delay' = [delay EXCEPT !.shift = 0]
      /\ depth' = depth \/ depth' = FreshDepth
  BY Writes, HeldIs
<1>7. Shapes' /\ Near(slots', play', Capacity) /\ (~playing' => PrimingInv')
  <2>1. delay' \in Delays BY <1>6 DEF StreamInv, Shapes, Delays
  <2>2. depth' \in Depths BY <1>6, FreshDepthType DEF StreamInv, Shapes
  <2>3. ASSUME playing' \in BOOLEAN PROVE Shapes'
    <3>1. Rings' = Rings /\ Numbers' = Numbers BY DEF Rings, Numbers, Capacity, RingDelay
    <3> QED BY <1>4, <1>6, <2>1, <2>2, <2>3, <3>1 DEF Shapes
  <2>4. CASE Held(slots') = {s} /\ play' = s /\ playing' = FALSE
    <3>1. Near(slots', s, Capacity) /\ Near(slots', s, Steps(sent', s))
      BY <1>1, <1>2, <1>4, <1>6, <2>4, OneHeld
    <3>2. Steps(sent', s) >= 1 /\ Steps(sent', s) <= Reach' BY <1>1, <1>3, <1>4
    <3> QED BY <2>3, <2>4, <3>1, <3>2 DEF PrimingInv
  <2>5. CASE playing /\ UNCHANGED playoutVars
    <3>1. UNCHANGED <<slots, play, playing>> BY <2>5 DEF playoutVars
    <3>2. Near(slots, play, Capacity) BY <1>6, <3>1, DueIs
    <3> QED BY <1>2, <2>3, <2>5, <3>1, <3>2
  <2>6. CASE /\ playing /\ UNCHANGED <<play, playing>>
             /\ Steps(s, play) < Capacity
             /\ Held(slots') \subseteq Held(slots) \cup {s}
    <3>1. Near(slots, play, Capacity) BY <1>6, <2>6, DueIs
    <3>2. Near(slots', play, Capacity) BY <2>6, <3>1 DEF Near
    <3> QED BY <1>2, <2>3, <2>6, <3>2
  <2>7. CASE /\ ~playing /\ play # NoNumber /\ UNCHANGED playing
             /\ s \in Held(slots') /\ Held(slots') \subseteq Held(slots) \cup {s}
             /\ play' = play /\ k <= Steps(sent, play)
             /\ Steps(s, play) = Steps(sent, play) - k /\ Steps(s, play) < Capacity
    <3>1. play \in Numbers /\ Near(slots, play, Capacity) BY <2>7, DueIs
    <3>2. /\ Steps(sent, play) \in Nat /\ Steps(sent, play) >= 1 /\ Steps(sent, play) <= Reach
          /\ Near(slots, play, Steps(sent, play))
      BY <1>1, <1>2, <2>7, <3>1, StepsIs DEF StreamInv, PrimingInv, Numbers
    <3>3. Steps(sent', play) = IF k >= 1 THEN Steps(sent, play) ELSE Steps(sent, play) + 1
      BY <1>1, <1>3, <1>5, <2>7, <3>1, <3>2
    <3>4. Steps(sent', play) >= 1 /\ Steps(sent', play) <= Reach'
      BY <1>1, <1>2, <1>3, <2>7, <3>2, <3>3
    <3>5. ASSUME NEW h \in Held(slots')
          PROVE  Steps(h, play) < Capacity /\ Steps(h, play) < Steps(sent', play)
      <4>1. CASE h = s BY <1>1, <1>2, <2>7, <3>2, <3>3, <4>1
      <4>2. CASE h \in Held(slots)
        <5>1. h \in Numbers BY <1>2, <4>2, HeldIs
        <5>2. Steps(h, play) \in Nat BY <1>1, <3>1, <5>1, StepsIs DEF Numbers
        <5>3. Steps(h, play) < Capacity /\ Steps(h, play) < Steps(sent, play)
          BY <3>1, <3>2, <4>2 DEF Near
        <5> QED BY <1>1, <3>2, <3>3, <5>2, <5>3
      <4> QED BY <2>7, <4>1, <4>2
    <3>6. Near(slots', play, Capacity) /\ Near(slots', play, Steps(sent', play))
      BY <3>5 DEF Near
    <3> QED BY <1>2, <2>3, <2>7, <3>4, <3>6 DEF PrimingInv
  <2>8. CASE /\ ~playing /\ play # NoNumber /\ UNCHANGED playing
             /\ s \in Held(slots') /\ Held(slots') \subseteq Held(slots) \cup {s}
             /\ play' = s /\ k > Steps(sent, play) /\ Steps(play, s) = k - Steps(sent, play)
    <3>1. play \in Numbers /\ Near(slots, play, Capacity) BY <2>8, DueIs
    <3>2. /\ Steps(sent, play) \in Nat /\ Steps(sent, play) >= 1
          /\ Near(slots, play, Steps(sent, play))
      BY <1>1, <1>2, <2>8, <3>1, StepsIs DEF StreamInv, PrimingInv, Numbers
    <3>3. ASSUME NEW h \in Held(slots')
          PROVE  Steps(h, s) < Capacity /\ Steps(h, s) < Steps(sent', s)
      <4>1. CASE h = s
        <5>1. Steps(h, s) = 0 BY <1>2, <4>1, StepsToItself
        <5> QED BY <1>1, <1>4, <5>1
      <4>2. CASE h \in Held(slots)
        <5>1. h \in Numbers BY <1>2, <4>2, HeldIs
        <5>2. Steps(h, play) \in Nat BY <1>1, <3>1, <5>1, StepsIs DEF Numbers
        <5>3. Steps(h, play) < Steps(sent, play) BY <3>2, <4>2 DEF Near
        <5>4. Steps(h, play) + Steps(play, s) < k BY <1>2, <2>8, <3>2, <5>2, <5>3
        <5>5. Steps(h, play) + Steps(play, s) < Modulus
          BY <1>1, <1>2, <2>8, <3>2, <5>2, <5>4
        <5>6. Steps(h, s) = Steps(h, play) + Steps(play, s)
          BY <1>2, <3>1, <5>1, <5>5, StepsByWayOf
        <5> QED BY <1>1, <1>2, <1>4, <2>8, <3>2, <5>2, <5>4, <5>6
      <4> QED BY <2>8, <4>1, <4>2
    <3>4. Near(slots', s, Capacity) /\ Near(slots', s, Steps(sent', s)) BY <3>3 DEF Near
    <3>5. Steps(sent', s) >= 1 /\ Steps(sent', s) <= Reach' BY <1>1, <1>3, <1>4
    <3> QED BY <1>2, <2>3, <2>8, <3>4, <3>5 DEF PrimingInv
  <2>9. InPlaceOfAnother(s) => Held(slots') \subseteq Held(slots) \cup {s} BY DEF InPlaceOfAnother
  <2> QED BY <2>4, <2>5, <2>6, <2>7, <2>8, <2>9, Writes
<1>8. RingInv' BY <1>6, <1>7 DEF RingInv
<1>9. PrimingInv' BY <1>7 DEF PrimingInv
<1> QED BY <1>7, <1>8, <1>9 DEF StreamInv

-----------------------------------------------------------------------------
(* Steps that leave alone what is held, and that play.                      *)

LEMMA DelayInv ==
  ASSUME StreamInv, UNCHANGED <<slots, play, playing, sent>>,
         delay' \in Delays, depth' \in Depths,
         troubles' \in 0 .. MaxTroubles, troubles' >= troubles
  PROVE  StreamInv'
<1>1. Rings' = Rings /\ Numbers' = Numbers BY DEF Rings, Numbers, Capacity, RingDelay
<1>2. Shapes' /\ RingInv' BY <1>1 DEF StreamInv, Shapes, RingInv
<1>3. Reach' >= Reach /\ Reach' \in Int /\ Reach \in Int
  <2>1. troubles \in 0 .. MaxTroubles BY DEF StreamInv, Shapes
  <2>2. Reach \in Int /\ \A t \in 0 .. MaxTroubles : t >= troubles => (t + 1) * Capacity >= Reach
    BY <2>1, ReachIs
  <2>3. (troubles' + 1) * Capacity >= Reach BY <2>2
  <2>4. Reach' = (troubles' + 1) * Capacity BY DEF Reach, Capacity, RingDelay
  <2>5. (troubles' + 1) * Capacity \in Int
    <3>1. \A a, c \in Nat : (a + 1) * c \in Int OBVIOUS
    <3>2. troubles' \in Nat BY StreamAssumption
    <3> QED BY <3>1, <3>2, Constants
  <2> QED BY <2>2, <2>3, <2>4, <2>5
<1>4. ASSUME ~playing, play # NoNumber
      PROVE  /\ Steps(sent, play) >= 1 /\ Steps(sent, play) <= Reach'
             /\ Near(slots, play, Steps(sent, play))
  <2>1. play \in Numbers /\ sent \in Numbers BY <1>4, DueIs DEF StreamInv, Shapes
  <2>2. Steps(sent, play) \in Int BY <2>1, StepsIs, Constants DEF Numbers
  <2> QED BY <1>3, <1>4, <2>2 DEF StreamInv, PrimingInv
<1>5. PrimingInv' BY <1>4 DEF PrimingInv
<1> QED BY <1>2, <1>5 DEF StreamInv

LEMMA SameInv ==
  ASSUME StreamInv, UNCHANGED <<slots, play, playing, delay, depth, sent, troubles>>
  PROVE  StreamInv'
<1>1. /\ delay' \in Delays /\ depth' \in Depths /\ troubles' \in 0 .. MaxTroubles
      /\ troubles' >= troubles
  BY StreamAssumption DEF StreamInv, Shapes
<1> QED BY <1>1, DelayInv

LEMMA PlayingInv ==
  ASSUME StreamInv, playing' = TRUE, slots' \in Rings, InPlace(slots'),
         play' \in Numbers, Near(slots', play', Capacity),
         delay' \in Delays, depth' \in Depths, UNCHANGED <<sent, troubles>>
  PROVE  StreamInv'
<1>1. Rings' = Rings /\ Numbers' = Numbers BY DEF Rings, Numbers, Capacity, RingDelay
<1>2. play' # NoNumber BY PlayoutAssumption DEF Numbers
<1>3. Shapes' BY <1>1 DEF StreamInv, Shapes
<1>4. RingInv' BY <1>2 DEF RingInv
<1>5. PrimingInv' BY DEF PrimingInv
<1> QED BY <1>3, <1>4, <1>5 DEF StreamInv

-----------------------------------------------------------------------------
(* The device takes a frame.                                                *)

\* After trims the ring is `ring` and it is the turn of the k-th number from the
\* one that was due.
Left(ring, turn, k) ==
  /\ turn = After(play, k) /\ turn \in Numbers
  /\ ring \in Rings /\ InPlace(ring)
  /\ Held(ring) = Held(slots) \ Passed(play, k)
  /\ Near(ring, turn, Capacity - k)

\* Something is held or plays, so that a number is due.
LEMMA SomethingDue ==
  ASSUME StreamInv, playing \/ Ready(slots) > delay.target
  PROVE  play \in Numbers /\ Near(slots, play, Capacity)
<1>1. CASE playing BY <1>1, DueIs DEF StreamInv, RingInv
<1>2. CASE Ready(slots) > delay.target
  <2>1. slots \in Rings /\ delay.target \in Nat BY DEF StreamInv, Shapes, Delays
  <2>2. Ready(slots) # 0 BY <1>2, <2>1, ReadyIs
  <2>3. Held(slots) # {} BY <2>1, <2>2, ReadyIs
  <2>4. play # NoNumber BY <2>3 DEF StreamInv, RingInv
  <2> QED BY <2>4, DueIs
<1> QED BY <1>1, <1>2

LEMMA Takes ==
  ASSUME NEW ring, NEW turn, NEW k, Left(ring, turn, k), Take(ring, turn)
  PROVE  /\ slots' \in Rings /\ InPlace(slots')
         /\ Held(slots') = Held(ring) \ {turn}
         /\ play' = IF Held(ring) = {} THEN turn ELSE After(turn, 1)
         /\ heard' = IF turn \in Held(ring) THEN Played(turn)
                     ELSE Silence(IF Held(ring) = {} THEN "starved" ELSE "concealed")
<1>1. /\ turn \in Numbers /\ ring \in Rings /\ InPlace(ring) BY DEF Left
<1>2. Free \notin {turn} BY <1>1, HeldIs
<1>3. Ready(ring) = 0 <=> Held(ring) = {} BY <1>1, ReadyIs
<1>4. Holds(ring, turn) <=> turn \in Held(ring) BY <1>1, HoldsIs
<1>5. slots' = Without(ring, {turn}) BY DEF Take
<1>6. slots' \in Rings /\ InPlace(slots') /\ Held(slots') = Held(ring) \ {turn}
  BY <1>1, <1>2, <1>5, WithoutIs
<1>7. play' = IF Ready(ring) = 0 THEN turn ELSE After(turn, 1) BY DEF Take
<1>8. heard' = IF Holds(ring, turn) THEN Played(turn)
               ELSE Silence(IF Ready(ring) = 0 THEN "starved" ELSE "concealed")
  BY DEF Take
<1> QED BY <1>3, <1>4, <1>6, <1>7, <1>8

LEMMA Advances ==
  ASSUME StreamInv, Advance
  PROVE  /\ play \in Numbers /\ playing' = TRUE
         /\ delay' = [delay EXCEPT !.shift = 0]
         /\ depth' \in Depths
         /\ \E k, ring, turn : k \in 0 .. Capacity /\ Left(ring, turn, k) /\ Take(ring, turn)
<1> DEFINE asked == Trimmed(slots, play, -delay.shift)
           least == Smaller(depth.least, Ready(asked.ring))
           ends == depth.reads + 1 >= DepthWindow
           again == Trimmed(asked.ring, asked.from, Excess(least))
           left == IF ends THEN again ELSE asked
<1>1. /\ slots \in Rings /\ InPlace(slots)
      /\ delay.target \in Nat /\ delay.shift \in Int /\ depth.least \in Nat /\ depth.reads \in Nat
  BY DEF StreamInv, Shapes, RingInv, Delays, Depths
<1>2. play \in Numbers /\ Near(slots, play, Capacity) BY SomethingDue DEF Advance
<1>3. /\ Capacity \in Nat /\ Modulus \in Nat /\ 4 * Capacity <= Modulus /\ Capacity >= 4
      /\ Capacity \in 0 .. Capacity
  BY Constants
<1>4. /\ playing' = TRUE /\ delay' = [delay EXCEPT !.shift = 0] /\ delay.shift <= 0
      /\ depth' = IF ends THEN FreshDepth ELSE [least |-> least, reads |-> depth.reads + 1]
      /\ Take(left.ring, left.from)
  BY Zenon DEF Advance
<1>5. -delay.shift \in Nat BY <1>1, <1>4
<1>6. PICK j \in 0 .. Capacity :
        /\ asked.from = After(play, j) /\ asked.from \in Numbers
        /\ asked.ring \in Rings /\ InPlace(asked.ring)
        /\ Held(asked.ring) = Held(slots) \ Passed(play, j)
        /\ Near(asked.ring, asked.from, Capacity - j)
  BY <1>1, <1>2, <1>3, <1>5, TrimmedIs
<1> HIDE DEF asked
<1>7. least \in Nat BY <1>1, <1>6, ReadyIs DEF Smaller
<1>8. depth' \in Depths
  <2> HIDE DEF least, ends, left
  <2>1. depth.reads + 1 \in Nat BY <1>1
  <2> QED BY <1>4, <1>7, <2>1, FreshDepthType DEF Depths
<1>9. Excess(least) \in Nat
  <2> HIDE DEF least
  <2> QED BY <1>1, <1>7 DEF Excess, TrimWhenExcess
<1> HIDE DEF least, ends
<1>10. PICK k \in 0 .. Capacity - j :
        /\ again.from = After(asked.from, k) /\ again.from \in Numbers
        /\ again.ring \in Rings /\ InPlace(again.ring)
        /\ Held(again.ring) = Held(asked.ring) \ Passed(asked.from, k)
        /\ Near(again.ring, again.from, Capacity - j - k)
  <2>1. Capacity - j \in 0 .. Capacity BY <1>3
  <2> QED BY <1>1, <1>6, <1>9, <2>1, TrimmedIs
<1> HIDE DEF again
<1>11. \E i \in 0 .. Capacity : Left(left.ring, left.from, i)
  <2>1. CASE ~ends
    <3>1. Left(asked.ring, asked.from, j) BY <1>6 DEF Left
    <3> QED BY <2>1, <3>1
  <2>2. CASE ends
    <3>1. j + k \in 0 .. Capacity /\ j \in 0 .. Modulus /\ k \in 0 .. Modulus /\ j + k <= Modulus
      BY <1>3
    <3>2. again.from = After(play, j + k) BY <1>2, <1>6, <1>10, <3>1, AfterAfter
    <3>3. Passed(play, j) \cup Passed(asked.from, k) = Passed(play, j + k)
      BY <1>2, <1>6, <3>1, PassedTwice
    <3>4. Held(again.ring) = Held(slots) \ Passed(play, j + k) BY <1>6, <1>10, <3>3
    <3>5. Capacity - j - k = Capacity - (j + k) BY <1>3
    <3>6. Near(again.ring, again.from, Capacity - (j + k)) BY <1>10, <3>5, Zenon
    <3>7. Left(again.ring, again.from, j + k) BY <1>10, <3>2, <3>4, <3>6 DEF Left
    <3> QED BY <2>2, <3>1, <3>7
  <2> QED BY <2>1, <2>2
<1> HIDE DEF left
<1> QED BY <1>2, <1>4, <1>8, <1>11

\* The frame due after a turn is ahead of none that is held.
LEMMA TakeKeepsAhead ==
  ASSUME NEW k \in 0 .. Capacity, NEW ring, NEW turn, Left(ring, turn, k), Take(ring, turn)
  PROVE  play' \in Numbers /\ Near(slots', play', Capacity)
<1>1. /\ Capacity \in Nat /\ Modulus \in Nat /\ 4 * Capacity <= Modulus /\ Capacity >= 4
  BY Constants
<1>2. turn \in Numbers /\ ring \in Rings /\ Near(ring, turn, Capacity - k) BY DEF Left
<1>3. /\ Held(slots') = Held(ring) \ {turn}
      /\ play' = IF Held(ring) = {} THEN turn ELSE After(turn, 1)
  BY Takes
<1>4. After(turn, 1) \in Numbers BY <1>1, <1>2, AfterIs
<1>5. ASSUME NEW h \in Held(slots') PROVE Steps(h, play') < Capacity
  <2>1. h \in Held(ring) /\ h # turn /\ h \in Numbers /\ play' = After(turn, 1)
    BY <1>2, <1>3, HeldIs
  <2>2. Steps(h, turn) \in Nat /\ Steps(h, turn) < Capacity - k
    BY <1>1, <1>2, <2>1, StepsIs DEF Near, Numbers
  <2>3. Steps(h, turn) # 0
    <3>1. After(turn, Steps(h, turn)) = h BY <1>2, <2>1, ReachedBySteps
    <3>2. After(turn, 0) = turn BY <1>1, <1>2, AfterIs DEF Numbers
    <3> QED BY <2>1, <3>1, <3>2
  <2>4. Steps(h, After(turn, 1)) = Steps(h, turn) - 1
    <3>1. 1 \in 0 .. Modulus - 1 /\ 1 <= Steps(h, turn) BY <1>1, <2>2, <2>3
    <3> QED BY <1>2, <2>1, <3>1, StepsFromLater
  <2> QED BY <1>1, <2>1, <2>2, <2>4
<1> QED BY <1>2, <1>3, <1>4, <1>5 DEF Near

LEMMA ReadKeeps ==
  ASSUME StreamInv, Read, UNCHANGED <<sent, troubles>>
  PROVE  StreamInv'
<1>1. CASE Prime
  <2>1. UNCHANGED <<slots, play, playing, delay, depth>> BY <1>1 DEF Prime
  <2> QED BY <2>1, SameInv
<1>2. CASE Pad
  <2>1. /\ playing' = TRUE /\ delay' = [delay EXCEPT !.shift = @ - 1]
        /\ UNCHANGED <<slots, play, depth>>
    BY <1>2 DEF Pad
  <2>2. play \in Numbers BY <1>2, SomethingDue DEF Pad
  <2>3. delay' \in Delays BY <2>1 DEF StreamInv, Shapes, Delays
  <2>4. play # NoNumber BY <2>2, PlayoutAssumption DEF Numbers
  <2>5. slots' \in Rings /\ InPlace(slots') /\ depth' \in Depths
    BY <2>1 DEF StreamInv, Shapes, RingInv
  <2>6. play' \in Numbers /\ Near(slots', play', Capacity) BY <2>1, <2>2, <2>4, DueIs
  <2> QED BY <2>1, <2>3, <2>5, <2>6, PlayingInv
<1>3. CASE Advance
  <2>1. /\ playing' = TRUE /\ delay' = [delay EXCEPT !.shift = 0] /\ depth' \in Depths
    BY <1>3, Advances
  <2>2. PICK k, ring, turn : k \in 0 .. Capacity /\ Left(ring, turn, k) /\ Take(ring, turn)
    BY <1>3, Advances
  <2>3. slots' \in Rings /\ InPlace(slots') BY <2>2, Takes
  <2>4. play' \in Numbers /\ Near(slots', play', Capacity) BY <2>2, TakeKeepsAhead
  <2>5. delay' \in Delays BY <2>1 DEF StreamInv, Shapes, Delays
  <2> QED BY <2>1, <2>3, <2>4, <2>5, PlayingInv
<1> QED BY <1>1, <1>2, <1>3 DEF Read

-----------------------------------------------------------------------------
(* The stream and the user.                                                 *)

\* Nothing gets through while the peer goes on by k numbers.
LEMMA LossKeeps ==
  ASSUME StreamInv, UNCHANGED playoutVars, Trouble, NEW k \in 1 .. Capacity,
         sent' = After(sent, k)
  PROVE  StreamInv'
<1>1. /\ Capacity \in Nat /\ Modulus \in Nat /\ 4 * Capacity <= Modulus /\ Capacity >= 4
  BY Constants
<1>2. UNCHANGED <<slots, play, playing, delay, depth>> BY DEF playoutVars
<1>3. /\ troubles' = troubles + 1 /\ troubles \in 0 .. MaxTroubles
      /\ troubles' \in 0 .. MaxTroubles
  BY StreamAssumption DEF Trouble, StreamInv, Shapes
<1>4. sent \in Numbers /\ sent' \in Numbers
  <2>1. sent \in Numbers BY DEF StreamInv, Shapes
  <2> QED BY <1>1, <2>1, AfterIs
<1>5. Reach' = Reach + Capacity
  BY <1>3, ReachIs DEF Reach, Capacity, RingDelay
<1>6. Reach \in Nat /\ Reach + Capacity <= Modulus - Capacity
  <2>1. Reach \in Nat BY <1>3, ReachIs
  <2>2. troubles + 1 <= MaxTroubles /\ troubles \in Nat /\ MaxTroubles \in Nat
    BY <1>3, StreamAssumption
  <2>3. (troubles + 1 + 1) * Capacity <= (MaxTroubles + 1) * Capacity
    <3>1. \A a, b, c \in Nat : a <= b => a * c <= b * c OBVIOUS
    <3>2. troubles + 1 + 1 \in Nat /\ MaxTroubles + 1 \in Nat /\ troubles + 1 + 1 <= MaxTroubles + 1
      BY <2>2
    <3> HIDE DEF Capacity
    <3> QED BY <1>1, <3>1, <3>2
  <2>4. (MaxTroubles + 2) * Capacity = (MaxTroubles + 1) * Capacity + Capacity
    <3>1. \A a, c \in Nat : (a + 2) * c = (a + 1) * c + c OBVIOUS
    <3> QED BY <1>1, <2>2, <3>1
  <2>5. (troubles + 1 + 1) * Capacity = Reach + Capacity BY <1>3, ReachIs
  <2>6. (MaxTroubles + 1) * Capacity \in Nat
    <3>1. \A a, c \in Nat : (a + 1) * c \in Nat OBVIOUS
    <3> QED BY <1>1, <2>2, <3>1
  <2> QED BY <1>1, <2>1, <2>3, <2>4, <2>5, <2>6, NumbersAssumption
<1>7. Shapes' /\ RingInv'
  <2>1. Rings' = Rings /\ Numbers' = Numbers BY DEF Rings, Numbers, Capacity, RingDelay
  <2> QED BY <1>2, <1>3, <1>4, <2>1 DEF StreamInv, Shapes, RingInv
<1>8. ASSUME ~playing, play # NoNumber
      PROVE  /\ Steps(sent', play) >= 1 /\ Steps(sent', play) <= Reach'
             /\ Near(slots, play, Steps(sent', play))
  <2>1. play \in Numbers BY <1>8, DueIs
  <2>2. /\ Steps(sent, play) \in Nat /\ Steps(sent, play) >= 1 /\ Steps(sent, play) <= Reach
        /\ Near(slots, play, Steps(sent, play))
    BY <1>1, <1>4, <1>8, <2>1, StepsIs DEF StreamInv, PrimingInv, Numbers
  <2>3. Steps(sent', play) = Steps(sent, play) + k
    <3>1. k \in 0 .. Modulus /\ Steps(sent, play) + k < Modulus BY <1>1, <1>6, <2>2
    <3> QED BY <1>4, <2>1, <3>1, StepsFurther
  <2>4. Steps(sent', play) >= 1 /\ Steps(sent', play) <= Reach'
    BY <1>1, <1>5, <1>6, <2>2, <2>3
  <2>5. ASSUME NEW h \in Held(slots) PROVE Steps(h, play) < Steps(sent', play)
    <3>1. h \in Numbers BY <2>5, HeldIs DEF StreamInv, Shapes
    <3>2. Steps(h, play) \in Nat BY <2>1, <3>1, StepsType
    <3>3. Steps(h, play) < Steps(sent, play) BY <2>2 DEF Near
    <3> QED BY <2>2, <2>3, <3>2, <3>3
  <2> QED BY <2>4, <2>5 DEF Near
<1>9. PrimingInv' BY <1>2, <1>8 DEF PrimingInv
<1> QED BY <1>7, <1>9 DEF StreamInv

LEMMA MovedIs ==
  ASSUME NEW d \in Delays, NEW to \in Nat
  PROVE  Moved(d, to) \in Delays
<1> DEFINE clamped == Smaller(Larger(to, d.lowest), Larger(d.highest, d.lowest))
           shift == IF playing THEN d.shift + clamped - d.target ELSE d.shift
<1>1. clamped \in Nat BY DEF Smaller, Larger, Delays
<1>2. shift \in Int
  <2> HIDE DEF clamped
  <2> QED BY <1>1 DEF Delays
<1>3. Moved(d, to) = [d EXCEPT !.target = clamped, !.shift = shift]
  <2> HIDE DEF clamped
  <2>1. Moved(d, to) = [d EXCEPT !.target = clamped,
                                 !.shift = IF playing THEN d.shift + clamped - d.target ELSE d.shift]
    BY DEF Moved, clamped
  <2> QED BY <2>1
<1> HIDE DEF clamped, shift
<1> QED BY <1>1, <1>2, <1>3, Zenon DEF Delays

LEMMA MovedDepthType == StreamInv => MovedDepth \in Depths
BY FreshDepthType DEF MovedDepth, StreamInv, Shapes

LEMMA PicksKeeps == StreamInv /\ Picks => StreamInv'
<1> SUFFICES ASSUME StreamInv, Picks PROVE StreamInv' OBVIOUS
<1>1. PICK d \in Presets : SetDelay(d) BY DEF Picks
<1>2. UNCHANGED sent /\ troubles' \in 0 .. MaxTroubles /\ troubles' >= troubles
  BY StreamAssumption DEF Picks, Trouble, StreamInv, Shapes
<1> DEFINE highest == Smaller(HighestDelay(d), RingDelay)
           chosen == Smaller(d, highest)
           asked == [delay EXCEPT !.lowest = LowestDelay(d), !.highest = highest, !.chosen = chosen]
<1>3. d \in Nat BY StreamAssumption, PlayoutAssumption
<1>4. LowestDelay(d) \in Nat /\ highest \in Nat
  BY <1>3, Constants DEF LowestDelay, HighestDelay, Smaller
<1>5. chosen \in Nat
  <2> HIDE DEF highest
  <2> QED BY <1>3, <1>4 DEF Smaller
<1>6. delay' = Moved(asked, chosen) /\ depth' = MovedDepth /\ UNCHANGED <<slots, play, playing>>
  BY <1>1, Zenon DEF SetDelay
<1> HIDE DEF highest, chosen
<1>7. asked \in Delays BY <1>4, <1>5 DEF StreamInv, Shapes, Delays
<1> HIDE DEF asked
<1>8. delay' \in Delays BY <1>5, <1>6, <1>7, MovedIs
<1> QED BY <1>2, <1>6, <1>8, MovedDepthType, DelayInv

LEMMA FollowsKeeps == StreamInv /\ Follows => StreamInv'
<1> SUFFICES ASSUME StreamInv, Follows PROVE StreamInv' OBVIOUS
<1>1. UNCHANGED <<slots, play, playing, sent, troubles>> /\ Adapt
  BY DEF Follows, Quietly, Adapt
<1>2. delay \in Delays /\ depth \in Depths BY DEF StreamInv, Shapes
<1>3. /\ delay.target + 1 \in Nat /\ Larger(delay.target - 1, 0) \in Nat
  BY <1>2 DEF Delays, Larger
<1>4. /\ delay' \in {delay, Moved(delay, delay.target + 1), Moved(delay, Larger(delay.target - 1, 0))}
      /\ depth' \in {depth, MovedDepth}
  BY <1>1 DEF Adapt
<1>5. delay' \in Delays /\ depth' \in Depths BY <1>2, <1>3, <1>4, MovedIs, MovedDepthType
<1>6. troubles' \in 0 .. MaxTroubles /\ troubles' >= troubles
  BY <1>1, StreamAssumption DEF StreamInv, Shapes
<1> QED BY <1>1, <1>5, <1>6, DelayInv

LEMMA ResetKeeps == StreamInv /\ LinkIsBack => StreamInv'
<1> SUFFICES ASSUME StreamInv, LinkIsBack PROVE StreamInv' OBVIOUS
<1>1. /\ slots' = Empty /\ play' = NoNumber /\ playing' = FALSE
      /\ delay' = [delay EXCEPT !.target = delay.chosen, !.shift = 0] /\ depth' = FreshDepth
      /\ UNCHANGED sent
  BY DEF LinkIsBack, Reset
<1>2. troubles' \in 0 .. MaxTroubles BY StreamAssumption DEF LinkIsBack, Trouble, StreamInv, Shapes
<1>3. delay' \in Delays
  <2>1. delay \in Delays /\ delay.chosen \in Nat BY DEF StreamInv, Shapes, Delays
  <2>2. ASSUME NEW d \in Delays, NEW n \in Nat, NEW z \in Int
        PROVE  [d EXCEPT !.target = n, !.shift = z] \in Delays
    BY Zenon DEF Delays
  <2>3. 0 \in Int OBVIOUS
  <2> QED BY <1>1, <2>1, <2>2, <2>3, Zenon
<1>4. Rings' = Rings /\ Numbers' = Numbers BY DEF Rings, Numbers, Capacity, RingDelay
<1>5. Shapes' BY <1>1, <1>2, <1>3, <1>4, EmptyIs, FreshDepthType DEF StreamInv, Shapes
<1>6. RingInv' BY <1>1, EmptyIs DEF RingInv
<1>7. PrimingInv' BY <1>1 DEF PrimingInv
<1> QED BY <1>5, <1>6, <1>7 DEF StreamInv

\* A frame that comes late was numbered as many turns ago.
LEMMA LateIs ==
  ASSUME sent \in Numbers, NEW k \in 1 .. Lateness
  PROVE  SentBefore(After(sent, Modulus - k), k)
<1>1. /\ Capacity \in Nat /\ Modulus \in Nat /\ 4 * Capacity <= Modulus /\ Capacity >= 4
      /\ Lateness \in Nat /\ Lateness <= Capacity
  BY Constants, StreamAssumption, NumbersAssumption
<1>2. PICK n \in 0 .. Modulus - 1 : n = Modulus - k BY <1>1
<1>3. After(sent, n) \in Numbers BY <1>1, AfterIs
<1>4. Steps(sent, sent) = 0 BY StepsToItself
<1>5. Steps(sent, After(sent, n)) = k
  <2>1. n > Steps(sent, sent) BY <1>1, <1>2, <1>4
  <2>2. Steps(sent, After(sent, n)) = Steps(sent, sent) - n + Modulus BY <2>1, StepsFromLater
  <2> QED BY <1>1, <1>2, <1>4, <2>2
<1>6. After(sent, Modulus - k) = After(sent, n) BY <1>2, Zenon
<1>7. k \in 0 .. Capacity BY <1>1
<1>8. SentBefore(After(sent, n), k) BY <1>3, <1>5, <1>7 DEF SentBefore
<1> QED BY <1>6, <1>8, Zenon

LEMMA NowIs == ASSUME sent \in Numbers PROVE SentBefore(sent, 0)
BY StepsToItself, Constants DEF SentBefore

LEMMA InitInv == Init => StreamInv
<1> SUFFICES ASSUME Init PROVE StreamInv OBVIOUS
<1>1. /\ slots = Empty /\ play = NoNumber /\ playing = FALSE
      /\ delay = [target |-> FirstDelay, lowest |-> LowestDelay(FirstDelay),
                  highest |-> HighestDelay(FirstDelay), chosen |-> FirstDelay, shift |-> 0]
      /\ depth = FreshDepth /\ sent = 0 /\ troubles = 0
  BY DEF Init, PlayoutInit
<1>2. FirstDelay \in Nat /\ LowestDelay(FirstDelay) \in Nat /\ HighestDelay(FirstDelay) \in Nat
  BY PlayoutAssumption DEF LowestDelay, HighestDelay
<1>3. delay \in Delays BY <1>1, <1>2 DEF Delays
<1>4. Shapes
  <2>1. slots \in Rings /\ depth \in Depths BY <1>1, EmptyIs, FreshDepthType
  <2>2. play \in Numbers \cup {NoNumber} /\ sent \in Numbers BY <1>1, Constants
  <2>3. playing \in BOOLEAN BY <1>1
  <2>4. troubles \in 0 .. MaxTroubles BY <1>1, StreamAssumption
  <2> QED BY <1>3, <2>1, <2>2, <2>3, <2>4 DEF Shapes
<1>5. RingInv BY <1>1, EmptyIs DEF RingInv
<1>6. PrimingInv BY <1>1 DEF PrimingInv
<1> QED BY <1>4, <1>5, <1>6 DEF StreamInv

LEMMA NextInv == StreamInv /\ [Next]_vars => StreamInv'
<1> SUFFICES ASSUME StreamInv, [Next]_vars PROVE StreamInv' OBVIOUS
<1>1. /\ sent \in Numbers /\ troubles \in 0 .. MaxTroubles
      /\ troubles >= troubles
      /\ Trouble => troubles' \in 0 .. MaxTroubles /\ troubles' >= troubles
  BY StreamAssumption DEF StreamInv, Shapes, Trouble
<1>2. CASE Arrives
  <2>1. Write(sent) /\ sent' = After(sent, 1) /\ UNCHANGED troubles
    BY <1>2 DEF Arrives, Numbered, Quietly
  <2>2. SentBefore(sent, 0) BY <1>1, NowIs
  <2> QED BY <1>1, <2>1, <2>2, WriteKeeps
<1>3. CASE GetsLost
  <2>1. 1 \in 1 .. Capacity BY Constants
  <2>2. UNCHANGED playoutVars /\ Trouble /\ sent' = After(sent, 1)
    BY <1>3 DEF GetsLost, Numbered
  <2> QED BY <2>1, <2>2, LossKeeps
<1>4. CASE Outage
  <2>1. Capacity \in 1 .. Capacity BY Constants
  <2> QED BY <1>4, <2>1, LossKeeps DEF Outage
<1>5. CASE ComesLate
  <2>1. PICK k \in 1 .. Lateness : Write(After(sent, Modulus - k)) BY <1>5 DEF ComesLate
  <2>2. SentBefore(After(sent, Modulus - k), k) BY <1>1, LateIs
  <2>3. k >= 1 /\ UNCHANGED sent /\ Trouble BY <1>5, StreamAssumption DEF ComesLate
  <2> QED BY <1>1, <2>1, <2>2, <2>3, WriteKeeps
<1>6. CASE Asks BY <1>6, ReadKeeps DEF Asks, Quietly
<1>7. CASE Stalls
  <2>1. UNCHANGED <<slots, play, playing, delay, depth, sent>> /\ Trouble
    BY <1>7 DEF Stalls, playoutVars
  <2>2. delay' \in Delays /\ depth' \in Depths BY <2>1 DEF StreamInv, Shapes
  <2> QED BY <1>1, <2>1, <2>2, DelayInv
<1>8. CASE UNCHANGED vars
  <2>1. UNCHANGED <<slots, play, playing, delay, depth, sent, troubles>>
    BY <1>8 DEF vars, playoutVars
  <2> QED BY <2>1, SameInv
<1> QED BY <1>2, <1>3, <1>4, <1>5, <1>6, <1>7, <1>8, PicksKeeps, FollowsKeeps, ResetKeeps DEF Next

\* For any delays, ring and troubles, what the buffer holds and where its turn is
\* are as StreamInv says (PlayoutBuffer).
THEOREM Invariant == Spec => []StreamInv
BY InitInv, NextInv, PTL DEF Spec

\* Whatever comes late, twice or not at all, and however the delay moves: no frame
\* that is held is behind the one due (PlayoutBuffer::read_into, which waits only
\* while nothing is held).
THEOREM AllHeldIsAhead == Spec => []HeldIsAhead
<1>1. StreamInv => HeldIsAhead
  <2> SUFFICES ASSUME StreamInv, NEW s \in Held(slots) PROVE Distance(s, play) >= 0
    BY DEF HeldIsAhead
  <2>1. play # NoNumber BY DEF StreamInv, RingInv
  <2>2. play \in Numbers /\ Steps(s, play) < Capacity BY <2>1, DueIs DEF Near
  <2>3. s \in Numbers BY HeldIs DEF StreamInv, Shapes
  <2>4. Steps(s, play) \in Nat BY <2>2, <2>3, StepsType
  <2>5. Steps(s, play) < Modulus \div 2 BY <2>2, <2>4, Constants
  <2> QED BY <2>2, <2>3, <2>4, <2>5, DistanceIs
<1> QED BY <1>1, Invariant, PTL

-----------------------------------------------------------------------------
(* The buffer implements PlayOrder.                                         *)

\* A turn of the buffer's device is a turn of PlayOrder's listener.
LEMMA TurnIsListened ==
  ASSUME play \in Numbers, playing' = TRUE, NEW k \in 0 .. Capacity,
         NEW turn, NEW left, turn = After(play, k), left = Held(slots) \ Passed(play, k),
         \/ /\ turn \in left
            /\ heard' = Played(turn) /\ play' = After(turn, 1) /\ Held(slots)' = left \ {turn}
         \/ /\ turn \notin left /\ left # {}
            /\ heard'.result = "concealed" /\ play' = After(turn, 1) /\ Held(slots)' = left
         \/ /\ heard'.result \notin Order!Audible
            /\ play' = turn /\ Held(slots)' = left
  PROVE  Order!Listen
<1>1. play # NoNumber BY PlayoutAssumption DEF Numbers
<1>2. k \in Order!Numbers BY Constants DEF Order!Numbers
<1>3. turn = Order!After(play, k) BY DEF After, Order!After
<1>4. Passed(play, k) = {Order!After(play, i) : i \in 0 .. k - 1}
  BY DEF Passed, After, Order!After
<1>5. After(turn, 1) = Order!After(turn, 1) BY DEF After, Order!After
<1> DEFINE t == Order!After(play, k)
           l == Held(slots) \ {Order!After(play, i) : i \in 0 .. k - 1}
<1>6. turn = t /\ left = l BY <1>3, <1>4
<1> HIDE DEF t, l
<1>7. \/ /\ t \in l
         /\ heard' = [result |-> "played", number |-> t]
         /\ play' = Order!After(t, 1) /\ Held(slots)' = l \ {t}
      \/ /\ t \notin l /\ l # {}
         /\ heard'.result = "concealed" /\ play' = Order!After(t, 1) /\ Held(slots)' = l
      \/ /\ heard'.result \notin Order!Audible
         /\ play' = t /\ Held(slots)' = l
  BY <1>5, <1>6 DEF Played
<1>8. \E n \in Order!Numbers :
        LET its == Order!After(play, n)
            rest == Held(slots) \ {Order!After(play, i) : i \in 0 .. n - 1}
        IN  \/ /\ its \in rest
               /\ heard' = [result |-> "played", number |-> its]
               /\ play' = Order!After(its, 1) /\ Held(slots)' = rest \ {its}
            \/ /\ its \notin rest /\ rest # {}
               /\ heard'.result = "concealed" /\ play' = Order!After(its, 1) /\ Held(slots)' = rest
            \/ /\ heard'.result \notin Order!Audible
               /\ play' = its /\ Held(slots)' = rest
  <2> WITNESS k \in Order!Numbers
  <2> QED BY <1>7, Zenon DEF t, l
<1> QED BY <1>1, <1>8, Zenon DEF Order!Listen

LEMMA ReadIsListened ==
  ASSUME StreamInv, Read
  PROVE  Order!Next
<1>1. CASE Prime
  <2>1. heard' = Silence("priming") /\ UNCHANGED <<slots, play, playing>> BY <1>1 DEF Prime
  <2>2. heard'.result \notin Order!Audible BY <2>1 DEF Silence, Order!Audible
  <2>3. Held(slots)' = Held(slots) BY <2>1
  <2> QED BY <2>1, <2>2, <2>3 DEF Order!Next, Order!Silence
<1>2. CASE Pad
  <2>1. /\ heard' = Silence("padded") /\ playing' = TRUE /\ UNCHANGED <<slots, play>>
    BY <1>2 DEF Pad
  <2>2. heard'.result \notin Order!Audible BY <2>1 DEF Silence, Order!Audible
  <2>3. play \in Numbers BY <1>2, SomethingDue DEF Pad
  <2>4. After(play, 0) = play BY <2>3, Constants, AfterIs DEF Numbers
  <2>5. Passed(play, 0) = {} BY DEF Passed
  <2>6. 0 \in 0 .. Capacity BY Constants
  <2>7. Held(slots)' = Held(slots) \ Passed(play, 0) BY <2>1, <2>5
  <2>8. Order!Listen BY <2>1, <2>2, <2>3, <2>4, <2>6, <2>7, TurnIsListened
  <2> QED BY <2>8 DEF Order!Next
<1>3. CASE Advance
  <2>1. play \in Numbers /\ playing' = TRUE BY <1>3, Advances
  <2>2. PICK k, ring, turn : k \in 0 .. Capacity /\ Left(ring, turn, k) /\ Take(ring, turn)
    BY <1>3, Advances
  <2>3. turn = After(play, k) /\ Held(ring) = Held(slots) \ Passed(play, k) BY <2>2 DEF Left
  <2>4. /\ Held(slots') = Held(ring) \ {turn}
        /\ play' = IF Held(ring) = {} THEN turn ELSE After(turn, 1)
        /\ heard' = IF turn \in Held(ring) THEN Played(turn)
                    ELSE Silence(IF Held(ring) = {} THEN "starved" ELSE "concealed")
    BY <2>2, Takes
  <2>5. Held(slots)' = Held(slots') BY DEF Held
  <2>6. Silence("concealed").result = "concealed" /\ Silence("starved").result \notin Order!Audible
    BY DEF Silence, Order!Audible
  <2>7. \/ /\ turn \in Held(ring)
           /\ heard' = Played(turn) /\ play' = After(turn, 1) /\ Held(slots)' = Held(ring) \ {turn}
        \/ /\ turn \notin Held(ring) /\ Held(ring) # {}
           /\ heard'.result = "concealed" /\ play' = After(turn, 1) /\ Held(slots)' = Held(ring)
        \/ /\ heard'.result \notin Order!Audible
           /\ play' = turn /\ Held(slots)' = Held(ring)
    <3>1. CASE turn \in Held(ring) BY <2>4, <2>5, <3>1
    <3>2. CASE turn \notin Held(ring) /\ Held(ring) # {}
      <4>1. Held(ring) \ {turn} = Held(ring) BY <3>2
      <4> QED BY <2>4, <2>5, <2>6, <3>2, <4>1
    <3>3. CASE Held(ring) = {} BY <2>4, <2>5, <2>6, <3>3
    <3> QED BY <3>1, <3>2, <3>3
  <2>8. Order!Listen BY <2>1, <2>2, <2>3, <2>7, TurnIsListened
  <2> QED BY <2>8 DEF Order!Next
<1> QED BY <1>1, <1>2, <1>3 DEF Read

LEMMA WriteIsJoined ==
  ASSUME StreamInv, NEW s, NEW k, SentBefore(s, k), Write(s)
  PROVE  Order!Next \/ UNCHANGED Order!vars
<1>1. s \in Numbers /\ s \in Order!Numbers BY DEF SentBefore, Numbers, Order!Numbers
<1>2. Held(slots)' = Held(slots') BY DEF Held
<1>3. UNCHANGED heard BY Writes
<1>4. s # NoNumber BY <1>1, PlayoutAssumption DEF Numbers
<1>5. CASE Held(slots') = {s} /\ play' = s /\ playing' = FALSE
  <2>1. Order!StartOver BY <1>1, <1>2, <1>3, <1>5 DEF Order!StartOver
  <2> QED BY <2>1 DEF Order!Next
<1>6. CASE playing /\ UNCHANGED playoutVars
  <2>1. UNCHANGED <<slots, play, playing, heard>> BY <1>6 DEF playoutVars
  <2>2. Held(slots)' = Held(slots) BY <2>1
  <2> QED BY <2>1, <2>2 DEF Order!vars
<1>7. CASE /\ playing /\ UNCHANGED <<play, playing>>
           /\ InPlaceOfAnother(s)
  <2>1. PICK n \in Held(slots) \cup {s} : /\ n = s \/ Order!SharePlace(n, s)
                                          /\ Held(slots') = (Held(slots) \ {n}) \cup {s}
    BY <1>7 DEF InPlaceOfAnother
  <2>2. Held(slots)' = (Held(slots) \ {n}) \cup {s} BY <1>2, <2>1
  <2>3. Order!Join BY <1>1, <1>3, <1>7, <2>1, <2>2, Zenon DEF Order!Join
  <2> QED BY <2>3 DEF Order!Next
<1>8. CASE /\ ~playing /\ UNCHANGED playing
           /\ s \in Held(slots') /\ Held(slots') \subseteq Held(slots) \cup {s}
           /\ play' \in {play, s} \ {NoNumber}
  <2> DEFINE kept == Held(slots') \ {s}
  <2>1. kept \in SUBSET Held(slots) /\ Held(slots)' = kept \cup {s} BY <1>2, <1>8
  <2> HIDE DEF kept
  <2>2. Order!Join BY <1>1, <1>3, <1>8, <2>1 DEF Order!Join
  <2> QED BY <2>2 DEF Order!Next
<1>9. \/ Held(slots') = {s} /\ play' = s /\ playing' = FALSE
      \/ playing /\ UNCHANGED playoutVars
      \/ playing /\ UNCHANGED <<play, playing>> /\ InPlaceOfAnother(s)
      \/ /\ ~playing /\ UNCHANGED playing
         /\ s \in Held(slots') /\ Held(slots') \subseteq Held(slots) \cup {s}
         /\ play # NoNumber /\ (play' = play \/ play' = s)
  BY Writes, Zenon
<1> QED BY <1>4, <1>5, <1>6, <1>7, <1>8, <1>9

LEMMA NextOrder == StreamInv /\ [Next]_vars => [Order!Next]_(Order!vars)
<1> SUFFICES ASSUME StreamInv, [Next]_vars PROVE Order!Next \/ UNCHANGED Order!vars
  OBVIOUS
<1>1. sent \in Numbers BY DEF StreamInv, Shapes
<1>2. ASSUME UNCHANGED <<slots, play, playing, heard>> PROVE UNCHANGED Order!vars
  <2>1. Held(slots)' = Held(slots) BY <1>2
  <2> QED BY <1>2, <2>1 DEF Order!vars
<1>3. CASE Arrives BY <1>1, <1>3, NowIs, WriteIsJoined DEF Arrives
<1>4. CASE GetsLost BY <1>2, <1>4 DEF GetsLost, playoutVars
<1>5. CASE Outage BY <1>2, <1>5 DEF Outage, playoutVars
<1>6. CASE ComesLate BY <1>1, <1>6, LateIs, WriteIsJoined DEF ComesLate
<1>7. CASE Asks BY <1>7, ReadIsListened DEF Asks
<1>8. CASE Stalls BY <1>2, <1>8 DEF Stalls, playoutVars
<1>9. CASE Picks BY <1>2, <1>9 DEF Picks, SetDelay
<1>10. CASE LinkIsBack
  <2>1. slots' = Empty /\ play' = NoNumber /\ playing' = FALSE /\ UNCHANGED heard
    BY <1>10 DEF LinkIsBack, Reset
  <2>2. Held(slots)' = {} BY <2>1, EmptyIs DEF Held
  <2>3. Order!StartOver BY <2>1, <2>2 DEF Order!StartOver
  <2> QED BY <2>3 DEF Order!Next
<1>11. CASE Follows BY <1>2, <1>11 DEF Follows, Adapt
<1>12. CASE UNCHANGED vars BY <1>2, <1>12 DEF vars, playoutVars
<1> QED BY <1>3, <1>4, <1>5, <1>6, <1>7, <1>8, <1>9, <1>10, <1>11, <1>12 DEF Next

LEMMA InitOrder == Init => Order!Init
<1> SUFFICES ASSUME Init PROVE Order!Init OBVIOUS
<1>1. slots = Empty /\ play = NoNumber /\ playing = FALSE /\ heard = Silence("priming")
  BY DEF Init, PlayoutInit
<1>2. heard.result \notin Order!Audible BY <1>1 DEF Silence, Order!Audible
<1> QED BY <1>1, <1>2, EmptyIs DEF Order!Init

\* For any delays, ring and troubles the buffer keeps the promise of PlayOrder: in
\* order, at most once, and a gap only where a later frame is held
\* (PlayoutBuffer::write, PlayoutBuffer::read_into).
THEOREM KeepsTheOrder == Spec => PlaysInOrder
<1>1. Spec => Order!Init BY InitOrder DEF Spec
<1>2. Spec => [][Order!Next]_(Order!vars)
  BY NextOrder, Invariant, PTL DEF Spec
<1> QED BY <1>1, <1>2, PTL DEF PlaysInOrder, Order!Spec
=============================================================================
