---------------------------- MODULE PlayoutStream ----------------------------
(***************************************************************************)
(* A stream into the play-out buffer and out of it.  The peer sends frames *)
(* at its clock and the device asks for them at its own; the two run at    *)
(* the same rate, apart by no more than a jitter.  Frames get lost, come   *)
(* late or twice, the device stalls, the user picks another preset, and    *)
(* the link comes back from an outage: any of these, so many times.        *)
(***************************************************************************)
EXTENDS Playout

CONSTANTS
  Jitter,      \* how many frames the clocks may be apart
  Lateness,    \* how many frames late a frame may come
  Presets,     \* the delays the user's presets ask for
  MaxTroubles, \* bound: how often any of it happens
  MaxWindow    \* bound: reads between two adaptations

ASSUME StreamAssumption ==
  /\ Jitter \in Nat \ {0} /\ Lateness \in Nat /\ MaxTroubles \in Nat
  /\ Presets \subseteq 0 .. LargestDelay
  /\ MaxWindow \in Nat /\ MaxWindow >= MinWindow

\* The numbers are so many that all the troubles together do not bring them
\* round, and a frame comes late by no more than a ring holds: one that comes
\* later, before anything plays, moves the start back (playout.rs:330) by so much
\* that a frame which waits is written over while its turn is to come.
ASSUME NumbersAssumption ==
  /\ (MaxTroubles + 2) * Capacity <= Modulus
  /\ Lateness <= Capacity

VARIABLES
  sent,     \* the number the peer gives its next frame
  ahead,    \* by how many frames the peer is ahead of the device
  troubles

vars == <<playoutVars, sent, ahead, troubles>>

Init ==
  /\ PlayoutInit
  /\ sent = 0 /\ ahead = 0 /\ troubles = 0

Quietly == UNCHANGED troubles
Trouble == troubles < MaxTroubles /\ troubles' = troubles + 1

Numbered == /\ ahead < Jitter /\ ahead' = ahead + 1
            /\ sent' = After(sent, 1)
Arrives == Numbered /\ Write(sent) /\ Quietly
GetsLost == Numbered /\ UNCHANGED playoutVars /\ Trouble

\* External: nothing gets through, and the device does not ask, for a ring's
\* length.
Outage == sent' = After(sent, Capacity) /\ UNCHANGED <<playoutVars, ahead>> /\ Trouble

\* External: a frame of a moment ago arrives late, or once more.
ComesLate ==
  /\ \E k \in 1 .. Lateness : Write(After(sent, Modulus - k))
  /\ UNCHANGED <<sent, ahead>> /\ Trouble

\* External: the output callback of the device.
Asks ==
  /\ ahead > -Jitter /\ ahead' = ahead - 1
  /\ adaption.seen < MaxWindow
  /\ Read
  /\ UNCHANGED sent /\ Quietly

\* External: the device misses a turn.
Stalls ==
  /\ ahead > -Jitter /\ ahead' = ahead - 1
  /\ UNCHANGED <<playoutVars, sent>> /\ Trouble

Picks == (\E d \in Presets : SetDelay(d)) /\ UNCHANGED <<sent, ahead>> /\ Trouble
LinkIsBack == Reset /\ UNCHANGED <<sent, ahead>> /\ Trouble
Follows == Adapt /\ UNCHANGED <<sent, ahead>> /\ Quietly

Next == Arrives \/ GetsLost \/ Outage \/ ComesLate \/ Asks \/ Stalls \/ Picks \/ LinkIsBack \/ Follows

Spec == Init /\ [][Next]_vars

\* The peer and the device go on, and so does the timer of adaptation.
FairSpec == Spec /\ []<><<Next>>_vars
-----------------------------------------------------------------------------
\* What playout.rs:395 takes for granted before it waits: every frame held is
\* at or after the one due.
HeldIsAhead == \A s \in Held(slots) : Distance(s, play) >= 0

Order == INSTANCE PlayOrder WITH
  waiting <- Held(slots), next <- play, begun <- playing, Slip <- Modulus % Capacity

\* The buffer keeps the promise of PlayOrder: in order, at most once, a gap only
\* where a later frame is held, and no frame that waits overwritten but by one
\* from across the place where the numbers start over.
PlaysInOrder == Order!Spec

\* Once playing, a frame leaves the ring when its turn comes or is skipped, or when
\* everything starts over, and never before: each waits in the slot its number
\* names (playout.rs, out_of_order_arrivals_play_in_order).
WaitsForItsTurn ==
  [][playing /\ playing' => \A s \in Held(slots) \ Held(slots') : Distance(s, play') < 0]_vars

\* After every trouble the stream plays again (playout.rs:403, ADR-026), and
\* goes on.
KeepsPlaying == []<>(heard.result = "played")

\* A delay that grew by itself is given back (ADR-047): it is never for good
\* that more is held than the delay, the frame played and one of phase.
DelayIsGivenBack == []<>(Ready(slots) <= delay.target + TrimWhenExcess)
=============================================================================
