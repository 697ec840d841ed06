------------------------------- MODULE Playout -------------------------------
(***************************************************************************)
(* The play-out buffer of src/src/audio/playout.rs: received frames wait   *)
(* in a ring of slots until the output device asks for them; what is held  *)
(* follows a delay that the user's preset chooses and that adaptation      *)
(* moves with the link.                                                    *)
(*                                                                         *)
(* Every operation holds the buffer's mutex (audio/stream.rs), so each is  *)
(* one step.  A read that finds the mutex taken plays silence and leaves   *)
(* the buffer alone.  Frames are their numbers; their samples, the         *)
(* concealment and the resampling are left out.                            *)
(***************************************************************************)
EXTENDS Integers, FiniteSets

CONSTANTS
  Modulus,          \* how many sequence numbers there are: 2^32
  NoNumber,         \* None
  Free,             \* a slot that holds nothing
  FirstDelay,       \* the delay the path is made with
  LargestDelay,     \* the delay the ring is sized for
  DepthWindow,      \* DEPTH_WINDOW_READS
  MinWindow,        \* MIN_ADAPT_WINDOW_FRAMES
  CleanToShrink,    \* CLEAN_WINDOWS_BEFORE_SHRINK
  MaxCleanToShrink, \* MAX_CLEAN_WINDOWS_BEFORE_SHRINK
  BounceWithin,     \* BOUNCE_WITHIN_WINDOWS
  NoShrink          \* no shrink that a grow would still show wrong

Larger(a, b) == IF a >= b THEN a ELSE b
Smaller(a, b) == IF a <= b THEN a ELSE b

\* PlayoutConfig::for_delay
LowestDelay(d) == IF d = 0 THEN 0 ELSE 1
HighestDelay(d) == IF d = 0 THEN 0 ELSE d * 2 + 2
\* PlayoutBuffer::with_ring_for, PlayoutConfig::capacity_frames
RingDelay == Larger(LargestDelay, HighestDelay(FirstDelay))
Capacity == Larger(RingDelay * 2 + 2, 4)
TrimWhenExcess == 2

ASSUME PlayoutAssumption ==
  /\ FirstDelay \in Nat /\ LargestDelay \in Nat
  /\ Modulus \in Nat /\ Modulus >= 4 * Capacity
  /\ NoNumber \notin Int /\ Free \notin Int /\ NoShrink \notin Int
  /\ DepthWindow \in Nat \ {0} /\ MinWindow \in Nat
  /\ CleanToShrink \in Nat \ {0} /\ MaxCleanToShrink \in Nat /\ BounceWithin \in Nat

VARIABLES
  slots,    \* the ring: a number or Free in every slot
  play,     \* the number the next read plays, or NoNumber
  playing,  \* whether enough has been held to start
  delay,    \* the delay in force, its range, the one chosen, what is to be moved
  depth,    \* the fewest frames held in this depth window, and its reads
  adaption, \* reads and misses of this window, clean windows, when to shrink
  heard     \* what the last read gave

playoutVars == <<slots, play, playing, delay, depth, adaption, heard>>

Numbers == 0 .. Modulus - 1
\* wrapping_add, and wrapping_sub read as a signed number.
After(n, k) == (n + k) % Modulus
Distance(s, n) ==
  LET d == (s - n) % Modulus IN IF d < Modulus \div 2 THEN d ELSE d - Modulus
Size(d) == IF d < 0 THEN -d ELSE d

\* Where the numbers start over the slots do not go on in turn: 2^32 is no
\* multiple of a ring's size, so a frame may come into a slot that is taken.
SlotFor(s) == s % Capacity
Holds(ring, s) == ring[SlotFor(s)] = s
Held(ring) == {ring[i] : i \in DOMAIN ring} \ {Free}
Ready(ring) == Cardinality({i \in DOMAIN ring : ring[i] # Free})
Empty == [i \in 0 .. Capacity - 1 |-> Free]
Without(ring, gone) == [i \in DOMAIN ring |-> IF ring[i] \in gone THEN Free ELSE ring[i]]

FreshDepth == [least |-> Capacity, reads |-> 0]  \* Capacity for usize::MAX
FreshAdaption == [seen |-> 0, missed |-> 0, clean |-> 0, needed |-> CleanToShrink, since |-> NoShrink]

\* PlayoutResult
Played(s) == [result |-> "played", number |-> s]
Silence(result) == [result |-> result, number |-> NoNumber]

PlayoutInit ==
  /\ slots = Empty /\ play = NoNumber /\ playing = FALSE
  /\ delay = [target |-> FirstDelay, lowest |-> LowestDelay(FirstDelay),
              highest |-> HighestDelay(FirstDelay), chosen |-> FirstDelay, shift |-> 0]
  /\ depth = FreshDepth /\ adaption = FreshAdaption
  /\ heard = Silence("priming")

(***************************************************************************)
(* write: the network hands over the frame numbered s.                     *)
(***************************************************************************)
\* Mutant: a frame whose turn has passed is stored all the same.
WriteLate(s) ==
  LET far == play # NoNumber /\ Size(Distance(s, play)) >= Capacity
  IN  /\ play' = IF far \/ play = NoNumber THEN s ELSE play
      /\ slots' = [(IF far THEN Empty ELSE slots) EXCEPT ![SlotFor(s)] = s]
      /\ playing' = (playing /\ ~far)
      /\ delay' = IF far THEN [delay EXCEPT !.shift = 0] ELSE delay
      /\ depth' = IF far THEN FreshDepth ELSE depth
      /\ UNCHANGED <<adaption, heard>>

\* Too far from the frame due: the stream has started again.
Resync(s) ==
  /\ slots' = [Empty EXCEPT ![SlotFor(s)] = s]
  /\ play' = s /\ playing' = FALSE
  /\ delay' = [delay EXCEPT !.shift = 0]
  /\ depth' = FreshDepth
  /\ UNCHANGED <<adaption, heard>>

\* A frame already held is stored again over itself.
Store(s) ==
  /\ slots' = [slots EXCEPT ![SlotFor(s)] = s]
  /\ play' = IF play = NoNumber \/ Distance(s, play) < 0 THEN s ELSE play
  /\ UNCHANGED <<playing, delay, depth, adaption, heard>>

\* Mutant: a frame whose turn has passed is played after all.
WriteRewinds(s) ==
  IF play # NoNumber /\ Size(Distance(s, play)) >= Capacity THEN Resync(s) ELSE Store(s)

Write(s) ==
  IF play # NoNumber /\ Size(Distance(s, play)) >= Capacity THEN Resync(s)
  ELSE IF play # NoNumber /\ Distance(s, play) < 0 /\ playing THEN UNCHANGED playoutVars
  ELSE Store(s)

(***************************************************************************)
(* read_into: the output device takes the next frame.                      *)
(***************************************************************************)
\* trim_excess: how many numbers are skipped to hold target + 1 frames, at
\* most `most`.
Skipped(ring, from, most) ==
  LET gone(k) == {After(from, i) : i \in 0 .. k - 1}
      enough(k) == k = most \/ Ready(Without(ring, gone(k))) <= delay.target + 1
  IN  CHOOSE k \in 0 .. most : enough(k) /\ \A j \in 0 .. k - 1 : ~enough(j)
Trimmed(ring, from, most) ==
  LET k == Skipped(ring, from, most)
  IN  [ring |-> Without(ring, {After(from, i) : i \in 0 .. k - 1}), from |-> After(from, k)]

\* Mutant: the depth is watched and nothing comes of it.
ExcessIgnored(least) == 0
\* watch_depth at the end of a window: what was never needed in it.
Excess(least) ==
  LET excess == least - (delay.target + 1) IN IF excess >= TrimWhenExcess THEN excess ELSE 0

Prime ==
  /\ ~playing /\ Ready(slots) <= delay.target
  /\ heard' = Silence("priming")
  /\ UNCHANGED <<slots, play, playing, delay, depth, adaption>>

\* The delay is being raised: silence, and the play position stays.
Pad ==
  /\ playing \/ Ready(slots) > delay.target
  /\ delay.shift > 0
  /\ playing' = TRUE
  /\ delay' = [delay EXCEPT !.shift = @ - 1]
  /\ heard' = Silence("padded")
  /\ UNCHANGED <<slots, play, depth, adaption>>

\* Mutant: a frame that is due and not there is passed over at once.
TakeImpatient(ring, due) ==
  /\ slots' = Without(ring, {due})
  /\ play' = After(due, 1)
  /\ heard' = IF Holds(ring, due) THEN Played(due) ELSE Silence("concealed")
  /\ adaption' = [adaption EXCEPT !.seen = @ + 1, !.missed = @ + (IF Holds(ring, due) THEN 0 ELSE 1)]

\* The frame due is played; concealed when only later ones are held; and waited
\* for when nothing is.
Take(ring, due) ==
  /\ slots' = Without(ring, {due})
  /\ play' = IF Ready(ring) = 0 THEN due ELSE After(due, 1)
  /\ heard' = IF Holds(ring, due) THEN Played(due)
              ELSE Silence(IF Ready(ring) = 0 THEN "starved" ELSE "concealed")
  /\ adaption' = [adaption EXCEPT !.seen = @ + 1, !.missed = @ + (IF Holds(ring, due) THEN 0 ELSE 1)]

Advance ==
  /\ playing \/ Ready(slots) > delay.target
  /\ delay.shift <= 0
  /\ playing' = TRUE
  /\ delay' = [delay EXCEPT !.shift = 0]
  /\ LET asked == Trimmed(slots, play, -delay.shift)
         least == Smaller(depth.least, Ready(asked.ring))
         ends == depth.reads + 1 >= DepthWindow
         left == IF ends THEN Trimmed(asked.ring, asked.from, Excess(least)) ELSE asked
     IN  /\ depth' = IF ends THEN FreshDepth ELSE [least |-> least, reads |-> depth.reads + 1]
         /\ Take(left.ring, left.from)

Read == Prime \/ Pad \/ Advance

(***************************************************************************)
(* The delay moves: set_target_delay_frames, by the preset (set_delay), by *)
(* adaptation (adapt); and everything starts over (reset).                 *)
(***************************************************************************)
\* The delay with target `to`, and what is held yet to be moved to it.
Moved(d, to) ==
  LET clamped == Smaller(Larger(to, d.lowest), Larger(d.highest, d.lowest))
  IN  [d EXCEPT !.target = clamped,
                !.shift = IF playing THEN @ + clamped - d.target ELSE @]
MovedDepth == IF playing THEN FreshDepth ELSE depth

SetDelay(d) ==
  LET highest == Smaller(HighestDelay(d), RingDelay)
      chosen == Smaller(d, highest)
  IN  /\ delay' = Moved([delay EXCEPT !.lowest = LowestDelay(d), !.highest = highest,
                                      !.chosen = chosen], chosen)
      /\ depth' = MovedDepth
      /\ adaption' = [adaption EXCEPT !.clean = 0, !.needed = CleanToShrink, !.since = NoShrink]
      /\ UNCHANGED <<slots, play, playing, heard>>

\* GROW_ABOVE_MISS_RATE and SHRINK_BELOW_MISS_RATE.
Missing == adaption.missed * 100 > adaption.seen
Clean == adaption.missed * 1000 < adaption.seen

Adapt ==
  LET since == IF adaption.since = NoShrink THEN NoShrink
               ELSE Smaller(adaption.since + 1, BounceWithin + 1)
      bounced == since # NoShrink /\ since <= BounceWithin
      fresh == [adaption EXCEPT !.seen = 0, !.missed = 0, !.since = since]
      shrinks == Clean /\ adaption.clean + 1 >= adaption.needed
      smaller == Moved(delay, Larger(delay.target - 1, 0))
  IN  /\ adaption.seen >= MinWindow
      /\ \/ /\ Missing
            /\ adaption' = [fresh EXCEPT !.clean = 0, !.since = NoShrink,
                                         !.needed = IF bounced THEN Smaller(@ * 2, MaxCleanToShrink) ELSE @]
            /\ delay' = Moved(delay, delay.target + 1)
            /\ depth' = MovedDepth
         \/ /\ ~Missing /\ shrinks
            /\ adaption' = [fresh EXCEPT !.clean = 0,
                                         !.since = IF smaller.target # delay.target THEN 0 ELSE since]
            /\ delay' = smaller
            /\ depth' = MovedDepth
         \/ /\ ~Missing /\ ~shrinks
            /\ adaption' = [fresh EXCEPT !.clean = IF Clean THEN @ + 1 ELSE 0]
            /\ UNCHANGED <<delay, depth>>
      /\ UNCHANGED <<slots, play, playing, heard>>

Reset ==
  /\ slots' = Empty /\ play' = NoNumber /\ playing' = FALSE
  /\ delay' = [delay EXCEPT !.target = delay.chosen, !.shift = 0]
  /\ depth' = FreshDepth /\ adaption' = FreshAdaption
  /\ UNCHANGED heard
-----------------------------------------------------------------------------
PlayoutTypeOK ==
  /\ slots \in [0 .. Capacity - 1 -> Numbers \cup {Free}]
  /\ play \in Numbers \cup {NoNumber}
  /\ playing \in BOOLEAN
  /\ delay \in [target : 0 .. RingDelay, lowest : {0, 1}, highest : 0 .. RingDelay,
                chosen : 0 .. RingDelay, shift : Int]
  /\ depth \in [least : 0 .. Capacity, reads : 0 .. DepthWindow - 1]
  /\ adaption.seen \in Nat /\ adaption.missed \in 0 .. adaption.seen
  /\ adaption.clean \in Nat /\ adaption.needed \in Nat /\ adaption.since \in Nat \cup {NoShrink}
  /\ heard \in [result : {"played", "concealed", "priming", "padded", "starved"},
               number : Numbers \cup {NoNumber}]
=============================================================================
