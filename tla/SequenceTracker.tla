--------------------------- MODULE SequenceTracker ---------------------------
(***************************************************************************)
(* Counting what got lost, src/src/network/sequence_tracker.rs: a gap in   *)
(* the numbers counts as lost, and what fills it late is counted back.     *)
(***************************************************************************)
EXTENDS Integers

CONSTANT Window  \* window_size, and the bits of received_bitmap

ASSUME TrackerAssumption == Window \in Nat \ {0}

\* marks: how far behind the highest number each one received of late is.
NewTracker == [begun |-> FALSE, highest |-> 0, marks |-> {}, received |-> 0, lost |-> 0]

Ahead(t, s) ==
  LET d == s - t.highest
  IN  IF d <= Window
      THEN [t EXCEPT !.highest = s, !.lost = @ + d - 1,
                     !.marks = {0} \cup {m + d : m \in {m \in @ : m + d < Window}}]
      ELSE [t EXCEPT !.highest = s, !.marks = {0}]

\* Mutant: what comes late is not counted back.
BehindForgotten(t, s) == [t EXCEPT !.marks = @ \cup {t.highest - s}]
Behind(t, s) ==
  LET d == t.highest - s
  IN  IF d < Window /\ d \notin t.marks
      THEN [t EXCEPT !.marks = @ \cup {d}, !.lost = IF @ > 0 THEN @ - 1 ELSE 0]
      ELSE t

\* record
Recorded(tracker, s) ==
  LET t == [tracker EXCEPT !.received = @ + 1]
  IN  IF ~t.begun THEN [t EXCEPT !.begun = TRUE, !.highest = s, !.marks = {0}]
      ELSE IF s > t.highest THEN Ahead(t, s)
      ELSE IF s < t.highest THEN Behind(t, s)
      ELSE t
=============================================================================
