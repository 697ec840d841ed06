--------------------------------- MODULE Fec ---------------------------------
(***************************************************************************)
(* Forward error correction, src/src/network/fec.rs: the sender adds one   *)
(* packet for every group of frames, the XOR of them all, and the receiver *)
(* recovers a frame when it is the only one of its group that is missing.  *)
(*                                                                         *)
(* A payload is a set, XOR the symmetric difference.  Frames are of one    *)
(* length.                                                                 *)
(***************************************************************************)
EXTENDS Naturals, Sequences, FiniteSets

CONSTANTS
  MaxGroups,  \* max_groups
  NoFec,      \* no FEC packet
  NoRecovery  \* nothing was recovered

ASSUME FecAssumption ==
  /\ MaxGroups \in Nat
  /\ NoFec \notin [group : Nat, count : Nat, payload : SUBSET Nat]
  /\ NoRecovery \notin [group : Nat, index : Nat, payload : SUBSET Nat]

Xor(payloads) ==  \* payloads: a function to sets
  {e \in UNION {payloads[i] : i \in DOMAIN payloads} :
     Cardinality({i \in DOMAIN payloads : e \in payloads[i]}) % 2 = 1}

(***************************************************************************)
(* FecEncoder                                                              *)
(***************************************************************************)
NewEncoder == [group |-> <<>>, number |-> 0]
\* The encoder after add_packet, and the FEC packet of the group it completes.
Encoded(encoder, size, payload) ==
  LET group == Append(encoder.group, payload)
  IN  IF Len(group) >= size
      THEN [encoder |-> [group |-> <<>>, number |-> encoder.number + 1],
            fec |-> [group |-> encoder.number, count |-> Len(group), payload |-> Xor(group)]]
      ELSE [encoder |-> [encoder EXCEPT !.group = group], fec |-> NoFec]

(***************************************************************************)
(* FecDecoder: what is known of each group.                                *)
(***************************************************************************)
NoGroups == [g \in {} |-> NoFec]
NewGroup == [packets |-> [i \in {} |-> {}], fec |-> NoFec, recovered |-> FALSE]
Known(groups, g) == IF g \in DOMAIN groups THEN groups[g] ELSE NewGroup
With(groups, g, group) == [h \in DOMAIN groups \cup {g} |-> IF h = g THEN group ELSE groups[h]]

\* Mutant: one frame too few is enough.
MissingOneLoose(group) ==
  group.fec # NoFec /\ ~group.recovered /\ Cardinality(DOMAIN group.packets) + 2 >= group.fec.count
                    /\ Cardinality(DOMAIN group.packets) < group.fec.count
\* Exactly one of the frames the FEC packet covers is missing.
MissingOne(group) ==
  group.fec # NoFec /\ ~group.recovered /\ Cardinality(DOMAIN group.packets) + 1 = group.fec.count

MissingIndex(group) ==
  CHOOSE i \in 0 .. group.fec.count - 1 :
    i \notin DOMAIN group.packets /\ \A j \in 0 .. i - 1 : j \in DOMAIN group.packets

\* cleanup: the oldest group goes when there are too many.
Forget(groups) ==
  IF Cardinality(DOMAIN groups) <= MaxGroups THEN groups
  ELSE [g \in {g \in DOMAIN groups : \E h \in DOMAIN groups : h < g} |-> groups[g]]

\* try_recover: the groups after it, and what it recovers.
TryRecover(groups, g) ==
  LET group == groups[g]
      missing == MissingIndex(group)
      all == [i \in DOMAIN group.packets \cup {missing} |->
                IF i = missing THEN group.fec.payload ELSE group.packets[i]]
  IN  IF MissingOne(group)
      THEN [groups |-> Forget(With(groups, g, [group EXCEPT !.recovered = TRUE])),
            recovery |-> [group |-> g, index |-> missing, payload |-> Xor(all)]]
      ELSE [groups |-> groups, recovery |-> NoRecovery]

\* add_packet, add_fec
WithPacket(groups, g, index, payload) ==
  LET group == Known(groups, g)
  IN  TryRecover(With(groups, g, [group EXCEPT !.packets =
        [i \in DOMAIN @ \cup {index} |-> IF i = index THEN payload ELSE @[i]]]), g)
WithFec(groups, fec) ==
  TryRecover(With(groups, fec.group, [Known(groups, fec.group) EXCEPT !.fec = fec]), fec.group)
=============================================================================
