------------------------------ MODULE Reception ------------------------------
(***************************************************************************)
(* Audio from one end of a call to the other end's output device: numbered *)
(* and grouped by send_audio_packet, taken in by the receive loop (both    *)
(* src/src/network/connection.rs), which counts what is lost, recovers     *)
(* what it can and hands every frame to the play-out buffer.               *)
(*                                                                         *)
(* By itself the network delivers in order and in no time, and the device  *)
(* asks once for every frame sent.  Frames get lost, overtaken, copied or  *)
(* held up, and the link comes back from an outage, so many times.  Frame  *)
(* n carries {n}.  The keys are agreed (SecureLink), both ends may         *)
(* transmit, and the numbers do not start over.                            *)
(***************************************************************************)
EXTENDS Playout, Fec, SequenceTracker

CONSTANTS
  SendGroup,   \* fec_group_size of the sender's preset
  HearGroup,   \* fec_group_size of the receiver's preset
  MaxSent,     \* bound: frames sent
  MaxTroubles  \* bound: how often the network or the device interferes

ASSUME ReceptionAssumption ==
  /\ SendGroup \in Nat \ {0, 1} /\ HearGroup \in Nat \ {0, 1}
  /\ MaxSent \in Nat /\ MaxSent < Modulus \div 2 /\ MaxTroubles \in Nat

VARIABLES
  sent,     \* audio_sequence: the next frame's number
  encoder,  \* the sender's FecEncoder
  air,      \* the packets on their way, in the order sent
  tracker,  \* the receiver's SequenceTracker
  groups,   \* the receiver's FecDecoder
  handed,   \* what the receive loop handed on: numbers and payloads
  arrived,  \* the numbers that arrived since the tracker was last reset
  ahead,    \* frames sent that the device has not yet asked for
  missed,   \* the groups that lost something
  calm,     \* nothing happened but losses, at most one in a group
  strayed,  \* a number came that the tracker does not place
  troubles

vars == <<playoutVars, sent, encoder, air, tracker, groups, handed, arrived, ahead,
          missed, calm, strayed, troubles>>
receiverVars == <<tracker, groups, handed, arrived, strayed>>

Init ==
  /\ PlayoutInit
  /\ sent = 0 /\ encoder = NewEncoder /\ air = <<>>
  /\ tracker = NewTracker /\ groups = NoGroups /\ handed = {} /\ arrived = {}
  /\ ahead = 0 /\ missed = {} /\ calm = TRUE /\ strayed = FALSE /\ troubles = 0

Quietly == UNCHANGED <<troubles, calm, missed>>
Trouble == troubles < MaxTroubles /\ troubles' = troubles + 1
Upset == Trouble /\ calm' = FALSE /\ UNCHANGED missed

Audio(s) == [kind |-> "audio", number |-> s, group |-> s \div SendGroup]
FecPacket(fec) == [kind |-> "fec", group |-> fec.group, fec |-> fec]

\* send_audio_packet: the number is taken with the place in the group, before
\* anything is sent; the FEC packet follows the last of its group.
Send ==
  /\ sent < MaxSent /\ ahead = 0
  /\ LET done == Encoded(encoder, SendGroup, {sent})
     IN  /\ encoder' = done.encoder
         /\ air' = air \o <<Audio(sent)>> \o (IF done.fec = NoFec THEN <<>> ELSE <<FecPacket(done.fec)>>)
  /\ sent' = sent + 1 /\ ahead' = 1
  /\ UNCHANGED <<playoutVars, receiverVars>> /\ Quietly

\* A send that fails has its number and its place all the same, and the FEC
\* packet that would have followed is not sent.
SendFails ==
  /\ sent < MaxSent /\ ahead = 0
  /\ encoder' = Encoded(encoder, SendGroup, {sent}).encoder
  /\ sent' = sent + 1 /\ ahead' = 1
  /\ UNCHANGED <<playoutVars, receiverVars, air>> /\ Upset

(***************************************************************************)
(* The receive loop, for an audio packet and for an FEC packet.            *)
(***************************************************************************)
HandOn(s, payload) == handed' = handed \cup {[number |-> s, payload |-> payload]} /\ Write(s)

\* The tracker places a number that is no further from the highest than its
\* window, and no earlier than the first.  No part of the code.
Placed(s) ==
  ~tracker.begun \/ /\ s - tracker.highest <= Window /\ tracker.highest - s < Window
                    /\ \E n \in arrived : n <= s

\* What add_packet recovers is not handed on.
TakeAudio(s) ==
  /\ tracker' = Recorded(tracker, s)
  /\ strayed' = (strayed \/ ~Placed(s))
  /\ arrived' = arrived \cup {s}
  /\ groups' = WithPacket(groups, s \div HearGroup, s % HearGroup, {s}).groups
  /\ HandOn(s, {s})

\* Mutant: what add_fec recovers is not handed on either.
TakeFecUnheeded(fec) ==
  groups' = WithFec(groups, fec).groups /\ UNCHANGED <<playoutVars, handed, tracker, arrived, strayed>>

TakeFec(fec) ==
  LET after == WithFec(groups, fec)
      recovery == after.recovery
  IN  /\ groups' = after.groups
      /\ IF recovery = NoRecovery THEN UNCHANGED <<playoutVars, handed>>
         ELSE HandOn(recovery.group * HearGroup + recovery.index, recovery.payload)
      /\ UNCHANGED <<tracker, arrived, strayed>>

TakeIn(packet) == IF packet.kind = "audio" THEN TakeAudio(packet.number) ELSE TakeFec(packet.fec)
WithoutAt(packets, i) == SubSeq(packets, 1, i - 1) \o SubSeq(packets, i + 1, Len(packets))

Deliver ==
  /\ air # <<>> /\ TakeIn(Head(air)) /\ air' = Tail(air)
  /\ UNCHANGED <<sent, encoder, ahead>> /\ Quietly

\* External: the network.
Overtake ==
  /\ \E i \in 2 .. Len(air) : TakeIn(air[i]) /\ air' = WithoutAt(air, i)
  /\ UNCHANGED <<sent, encoder, ahead>> /\ Upset
Copy ==
  /\ air # <<>> /\ TakeIn(Head(air))
  /\ UNCHANGED <<sent, encoder, ahead, air>> /\ Upset
Lose ==
  /\ air # <<>> /\ air' = Tail(air)
  /\ missed' = missed \cup {Head(air).group}
  /\ calm' = (calm /\ Head(air).group \notin missed)
  /\ Trouble
  /\ UNCHANGED <<playoutVars, receiverVars, sent, encoder, ahead>>

\* External: the output callback, in its turn, or before what is on its way.
Ask ==
  /\ ahead = 1 /\ ahead' = 0
  /\ Read
  /\ IF air = <<>> THEN Quietly ELSE Upset
  /\ UNCHANGED <<sent, encoder, air, receiverVars>>

\* The link comes back: the liveness monitor, and the callback it makes.
LinkIsBack ==
  /\ groups' = NoGroups /\ tracker' = NewTracker
  /\ arrived' = {} /\ strayed' = FALSE
  /\ Reset
  /\ UNCHANGED <<sent, encoder, air, ahead, handed>> /\ Upset

Next == Send \/ SendFails \/ Deliver \/ Overtake \/ Copy \/ Lose \/ Ask \/ LinkIsBack

Spec == Init /\ [][Next]_vars
-----------------------------------------------------------------------------
TypeOK ==
  /\ PlayoutTypeOK
  /\ sent \in 0 .. MaxSent /\ encoder.number \in Nat /\ Len(encoder.group) < SendGroup
  /\ tracker.highest \in Nat /\ tracker.lost \in Nat /\ tracker.received \in Nat
  /\ tracker.marks \subseteq 0 .. Window - 1
  /\ \A g \in DOMAIN groups : g \in Nat /\ DOMAIN groups[g].packets \subseteq 0 .. HearGroup - 1
  /\ ahead \in {0, 1} /\ troubles \in 0 .. MaxTroubles

\* What is handed on under a number is what was sent under it, recovered or not
\* (fec.rs:1, ADR-021: sender and receiver agree on the groups).
HandedIsSent == \A h \in handed : h.payload = {h.number}

\* The loss shown (REQ-CON-023) is what is missing, as long as the tracker
\* could place everything that came.
LossIsWhatIsMissing ==
  tracker.begun /\ ~strayed =>
    tracker.lost = Cardinality({n \in 0 .. tracker.highest : (\E m \in arrived : m < n) /\ n \notin arrived})

\* ADR-021: a buffer as deep as a group plays every frame of a stream that
\* loses one in a group, and what is recovered is never too late.
RecoveredInTime == calm => heard.result \notin {"concealed", "starved"}

\* fec.rs:163, 298: only so many groups are kept.
GroupsAreForgotten == Cardinality(DOMAIN groups) <= MaxGroups
=============================================================================
