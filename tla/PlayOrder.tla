------------------------------ MODULE PlayOrder ------------------------------
(***************************************************************************)
(* What the play-out buffer promises its listener (the module text of      *)
(* src/src/audio/playout.rs): frames wait for their turn and are heard in  *)
(* the order of their numbers, each at most once, and the turn passes a    *)
(* frame that is not there only when a later one is.  A frame that waits   *)
(* loses its place to another only where the numbers start over.  How many *)
(* frames are held, in what, and for how long is the buffer's own affair.  *)
(***************************************************************************)
EXTENDS Naturals

CONSTANTS
  Modulus,   \* how many numbers there are before they start over
  Slip,      \* how far places are off where the numbers start over
  NoNumber   \* no frame has been seen yet

VARIABLES
  waiting,  \* the frames that wait for their turn
  next,     \* whose turn it is
  begun,    \* whether the listener has heard anything since the start
  heard     \* what the last turn gave: a frame "played", a gap "concealed", or silence

vars == <<waiting, next, begun, heard>>

Numbers == 0 .. Modulus - 1
After(n, k) == (n + k) % Modulus
Audible == {"played", "concealed"}

Init == waiting = {} /\ next = NoNumber /\ ~begun /\ heard.result \notin Audible

\* Two numbers with one place: the numbers start over between them, and they are
\* no further apart than Slip.
SharePlace(n, s) == \/ s < n /\ s = After(n, Slip)
                    \/ n < s /\ n = After(s, Slip)

\* A frame joins those that wait, in its place.  Before anything was heard it may
\* turn out to be the first one, and take the place of others.
Join ==
  /\ UNCHANGED <<begun, heard>>
  /\ \E s \in Numbers :
       \/ /\ begun /\ UNCHANGED next
          /\ \E n \in waiting \cup {s} :
                /\ n = s \/ SharePlace(n, s)
                /\ waiting' = (waiting \ {n}) \cup {s}
       \/ /\ ~begun
          /\ next' \in {next, s} \ {NoNumber}
          /\ \E kept \in SUBSET waiting : waiting' = kept \cup {s}

\* Everything starts over: from a frame far away, or from nothing.
StartOver ==
  /\ begun' = FALSE
  /\ UNCHANGED heard
  /\ \/ waiting' = {} /\ next' = NoNumber
     \/ \E s \in Numbers : waiting' = {s} /\ next' = s

\* The listener's turn: some frames may be skipped, and then the one whose turn
\* it is is heard, or a gap in its place, or silence.
Listen ==
  /\ next # NoNumber
  /\ begun' = TRUE
  /\ \E k \in Numbers :
       LET turn == After(next, k)
           left == waiting \ {After(next, i) : i \in 0 .. k - 1}
       IN  \/ /\ turn \in left
              /\ heard' = [result |-> "played", number |-> turn] /\ next' = After(turn, 1) /\ waiting' = left \ {turn}
           \/ /\ turn \notin left /\ left # {}
              /\ heard'.result = "concealed" /\ next' = After(turn, 1) /\ waiting' = left
           \/ /\ heard'.result \notin Audible
              /\ next' = turn /\ waiting' = left

Silence == heard'.result \notin Audible /\ UNCHANGED <<waiting, next, begun>>

Next == Join \/ StartOver \/ Listen \/ Silence

Spec == Init /\ [][Next]_vars
=============================================================================
