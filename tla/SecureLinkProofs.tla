-------------------------- MODULE SecureLinkProofs --------------------------
(***************************************************************************)
(* What holds of a secure link for every count, window, number of links    *)
(* and fault of the network.  The argument: a counter counts as used under *)
(* one pair of keys, and both histories are tied to what the link itself   *)
(* remembers for as long as the pair is the present one.  A pair under     *)
(* which anything was opened, or media was sent, is confirmed, and a       *)
(* confirmed pair is replaced only with the whole link.                    *)
(***************************************************************************)
EXTENDS SecureLink, TLAPS

\* What is in `opened` under the present pair is what the replay window has.
OpenedIsRemembered ==
    \A e \in Ends : \A u \in opened[e] :
        /\ u.to <= link[e]
        /\ u.to = link[e] =>
              /\ confirmed[e]
              /\ u.key = peerPublic[e]
              /\ u.counter <= newest[e]
              /\ newest[e] - u.counter < ReplayWindow => u.counter \in seen[e]

\* What is in `mediaSent` under the present pair is below the count.
MediaIsCounted ==
    \A e \in Ends : \A u \in mediaSent[e] :
        /\ u.key <= link[e]
        /\ u.key = link[e] =>
              /\ confirmed[e]
              /\ u.to = peerPublic[e]
              /\ u.counter < next[e]

ConfirmedIsEncrypted ==
    \A e \in Ends : confirmed[e] => state[e] = "encrypted" /\ peerPublic[e] # 0

LinkInv ==
    /\ OpenedIsRemembered /\ MediaIsCounted /\ ConfirmedIsEncrypted
    /\ OpenedOnce /\ MediaCountedOnce

-----------------------------------------------------------------------------
LEMMA PeerType == \A e \in Ends : Peer(e) \in Ends
BY DEF Ends, Peer

\* What a link seals is a packet, and comes from it.
LEMMA SealType ==
    ASSUME TypeOK, NEW e \in Ends, NEW body \in Bodies,
           state[e] = "encrypted" => peerPublic[e] # 0
    PROVE  Seal(e, body) \subseteq Packets
BY ConstantsAssumption
   DEF TypeOK, Seal, Packets, PlainPackets, SealedPackets, PlainPacket,
       SealedPacket, Counters, LinkNumbers, Bodies

LEMMA CountAfterType ==
    ASSUME TypeOK, NEW e \in Ends, NEW body \in Bodies
    PROVE  CountAfter(e, body) \in [Ends -> 0..MaxCounter]
BY ConstantsAssumption DEF TypeOK, CountAfter

LEMMA KeyExchangeType ==
    ASSUME TypeOK, NEW e \in Ends, NEW k \in 0..MaxLinks
    PROVE  KeyExchangePacket(e, k) \in Packets
BY ConstantsAssumption DEF TypeOK, KeyExchangePacket, Packets, KeyPackets, LinkNumbers

LEMMA ArrivesType ==
    ASSUME TypeOK, NEW m \in net, NEW S \in SUBSET Packets, Arrives(m, S)
    PROVE  net' \subseteq Packets /\ faults' \in 0..MaxFaults
BY ConstantsAssumption DEF TypeOK, Arrives

-----------------------------------------------------------------------------
\* A link's keys are of a peer it has heard: the type invariant with it.
EncryptedHasPeer == \A e \in Ends : state[e] = "encrypted" => peerPublic[e] # 0

LEMMA InitType == Init => TypeOK /\ EncryptedHasPeer
BY ConstantsAssumption
   DEF Init, TypeOK, EncryptedHasPeer, LinkNumbers, Counters, Ends, Roles

LEMMA NextType ==
    TypeOK /\ EncryptedHasPeer /\ [Next]_vars => TypeOK' /\ EncryptedHasPeer'
<1> SUFFICES ASSUME TypeOK, EncryptedHasPeer, [Next]_vars
             PROVE  TypeOK' /\ EncryptedHasPeer'
  OBVIOUS
<1>1. ASSUME NEW e \in Ends, Restart(e) PROVE TypeOK' /\ EncryptedHasPeer'
  BY <1>1, ConstantsAssumption
     DEF Restart, TypeOK, EncryptedHasPeer, LinkNumbers, history
<1>2. ASSUME NEW e \in Ends, SendKey(e) PROVE TypeOK' /\ EncryptedHasPeer'
  <2>1. "alive" \in Bodies BY DEF Bodies
  <2>2. answer[e] \in 0..MaxLinks BY DEF TypeOK
  <2>3. Seal(e, "alive") \subseteq Packets BY <2>1, SealType DEF EncryptedHasPeer
  <2>4. KeyExchangePacket(e, answer[e]) \in Packets BY <2>2, KeyExchangeType
  <2>5. CountAfter(e, "alive") \in [Ends -> 0..MaxCounter] BY <2>1, CountAfterType
  <2> QED BY <1>2, <2>3, <2>4, <2>5 DEF SendKey, TypeOK, EncryptedHasPeer, history
<1>3. ASSUME NEW e \in Ends, SendAlive(e) PROVE TypeOK' /\ EncryptedHasPeer'
  <2>1. "alive" \in Bodies BY DEF Bodies
  <2>3. Seal(e, "alive") \subseteq Packets BY <2>1, SealType DEF EncryptedHasPeer
  <2>5. CountAfter(e, "alive") \in [Ends -> 0..MaxCounter] BY <2>1, CountAfterType
  <2> QED BY <1>3, <2>3, <2>5 DEF SendAlive, TypeOK, EncryptedHasPeer, history
<1>4. ASSUME NEW e \in Ends, SendMedia(e) PROVE TypeOK' /\ EncryptedHasPeer'
  <2>1. "media" \in Bodies BY DEF Bodies
  <2>3. Seal(e, "media") \subseteq Packets BY <2>1, SealType DEF EncryptedHasPeer
  <2>5. CountAfter(e, "media") \in [Ends -> 0..MaxCounter] BY <2>1, CountAfterType
  <2> DEFINE uses == {[key |-> m.key, to |-> m.to, counter |-> m.counter] :
                        m \in {s \in Seal(e, "media") : s.kind = "sealed"}}
  <2>6. uses \subseteq Uses
    BY <2>3 DEF Uses, Packets, KeyPackets, PlainPackets, SealedPackets
  <2>7. /\ mediaAgain' = [mediaAgain EXCEPT ![e] = @ \cup (uses \cap mediaSent[e])]
        /\ mediaSent' = [mediaSent EXCEPT ![e] = @ \cup uses]
    BY <1>4 DEF SendMedia
  <2>8. /\ mediaAgain' \in [Ends -> SUBSET Uses]
        /\ mediaSent' \in [Ends -> SUBSET Uses]
    <3> HIDE DEF uses
    <3> QED BY <2>6, <2>7 DEF TypeOK
  <2> QED BY <1>4, <2>3, <2>5, <2>8 DEF SendMedia, TypeOK, EncryptedHasPeer
<1>5. ASSUME NEW e \in Ends, NEW m \in net, TakeKey(e, m)
      PROVE TypeOK' /\ EncryptedHasPeer'
  <2>1. m \in KeyPackets
    BY <1>5 DEF TakeKey, SettlesKeys, TypeOK, Packets, PlainPackets, SealedPackets
  <2>2. m.key \in LinkNumbers /\ m.key \in 0..MaxLinks /\ m.key # 0
    BY <2>1, ConstantsAssumption DEF KeyPackets, LinkNumbers
  <2>3. answer' \in [Ends -> 0..MaxLinks] /\ answer'[e] \in 0..MaxLinks
    BY <1>5, <2>2, ConstantsAssumption DEF TakeKey, TypeOK
  <2>4. KeyExchangePacket(e, answer'[e]) \in Packets BY <2>3, KeyExchangeType
  <2>5. SealedPacket(e, m.key, 0, "alive") \in Packets
    BY <2>2, ConstantsAssumption
       DEF SealedPacket, Packets, SealedPackets, TypeOK, Counters, Bodies
  <2>6. net' \subseteq Packets /\ faults' \in 0..MaxFaults
    BY <1>5, <2>4, <2>5, ArrivesType DEF TakeKey, DerivedKeys
  <2> QED
    BY <1>5, <2>2, <2>3, <2>6, ConstantsAssumption
       DEF TakeKey, DerivedKeys, TypeOK, EncryptedHasPeer, history
<1>6. ASSUME NEW e \in Ends, NEW m \in net, OpenEncrypted(e, m)
      PROVE TypeOK' /\ EncryptedHasPeer'
  <2>1. m \in SealedPackets
    BY <1>6 DEF OpenEncrypted, Decrypts, TypeOK, Packets, PlainPackets, KeyPackets
  <2>2. m.counter \in Counters /\ m.key \in LinkNumbers /\ m.to \in LinkNumbers
    BY <2>1 DEF SealedPackets
  <2>3. newest' \in [Ends -> {-1} \cup Counters] /\ seen' \in [Ends -> SUBSET Counters]
    BY <1>6, <2>2 DEF OpenEncrypted, TypeOK
  <2>4. opened' \in [Ends -> SUBSET Uses] /\ openedAgain' \in [Ends -> SUBSET Uses]
    BY <1>6, <2>2 DEF OpenEncrypted, TypeOK, Uses
  <2>5. net' \subseteq Packets /\ faults' \in 0..MaxFaults
    BY <1>6, ArrivesType DEF OpenEncrypted
  <2> QED BY <1>6, <2>3, <2>4, <2>5 DEF OpenEncrypted, TypeOK, EncryptedHasPeer
<1>7. ASSUME NEW e \in Ends, NEW m \in net, FallBackToPlain(e, m)
      PROVE TypeOK' /\ EncryptedHasPeer'
  <2>1. net' \subseteq Packets /\ faults' \in 0..MaxFaults
    BY <1>7, ArrivesType DEF FallBackToPlain
  <2> QED BY <1>7, <2>1 DEF FallBackToPlain, TypeOK, EncryptedHasPeer, history
<1>8. ASSUME NEW e \in Ends, NEW m \in net, Ignore(e, m)
      PROVE TypeOK' /\ EncryptedHasPeer'
  <2>1. net' \subseteq Packets /\ faults' \in 0..MaxFaults
    BY <1>8, ArrivesType DEF Ignore
  <2> QED BY <1>8, <2>1 DEF Ignore, TypeOK, EncryptedHasPeer, history, linkVars
<1>9. CASE Lose
  BY <1>9, ConstantsAssumption DEF Lose, TypeOK, EncryptedHasPeer, history, linkVars
<1>10. CASE UNCHANGED vars
  BY <1>10 DEF vars, linkVars, history, TypeOK, EncryptedHasPeer
<1> QED
  BY <1>1, <1>2, <1>3, <1>4, <1>5, <1>6, <1>7, <1>8, <1>9, <1>10 DEF Next, Open

\* Every variable of the link and the network keeps its type, whatever the
\* network does.
THEOREM TypeCorrect == Spec => [](TypeOK /\ EncryptedHasPeer)
<1>1. Init => TypeOK /\ EncryptedHasPeer BY InitType
<1>2. TypeOK /\ EncryptedHasPeer /\ [Next]_vars => TypeOK' /\ EncryptedHasPeer'
  BY NextType
<1> QED BY <1>1, <1>2, PTL DEF Spec

-----------------------------------------------------------------------------
LEMMA InitLink == Init => LinkInv
BY ConstantsAssumption
   DEF Init, LinkInv, OpenedIsRemembered, MediaIsCounted, ConfirmedIsEncrypted,
       OpenedOnce, MediaCountedOnce, Ends

\* A step that touches neither histories nor the present pair, and only
\* raises the count, keeps the invariant.
LEMMA SealingKeepsLink ==
    ASSUME TypeOK, LinkInv, NEW e \in Ends, NEW body \in Bodies,
           next' = CountAfter(e, body) \/ UNCHANGED next,
           UNCHANGED <<link, state, peerPublic, confirmed, newest, seen, history>>
    PROVE  LinkInv'
<1>1. \A f \in Ends : next[f] \in 0..MaxCounter /\ next'[f] >= next[f]
  BY ConstantsAssumption DEF TypeOK, CountAfter
<1>2. \A f \in Ends : \A u \in mediaSent[f] : u.counter \in Nat
  BY DEF TypeOK, Uses, Counters
<1>3. UNCHANGED <<link, state, peerPublic, confirmed, newest, seen,
                  opened, openedAgain, mediaSent, mediaAgain>>
  BY DEF history
<1>4. MediaIsCounted'
  <2> SUFFICES ASSUME NEW f \in Ends, NEW u \in mediaSent[f]
               PROVE  /\ u.key <= link[f]
                      /\ u.key = link[f] => /\ confirmed[f] /\ u.to = peerPublic[f]
                                            /\ u.counter < next'[f]
    BY <1>3 DEF MediaIsCounted
  <2>1. /\ u.key <= link[f]
        /\ u.key = link[f] => /\ confirmed[f] /\ u.to = peerPublic[f]
                              /\ u.counter < next[f]
    BY DEF LinkInv, MediaIsCounted
  <2>2. next[f] \in Int /\ next'[f] \in Int /\ next'[f] >= next[f] /\ u.counter \in Int
    BY <1>1, <1>2 DEF TypeOK, CountAfter
  <2> QED BY <2>1, <2>2
<1> QED
  BY <1>3, <1>4
     DEF LinkInv, OpenedIsRemembered, ConfirmedIsEncrypted, OpenedOnce, MediaCountedOnce

LEMMA NextLink ==
    TypeOK /\ EncryptedHasPeer /\ LinkInv /\ [Next]_vars => LinkInv'
<1> SUFFICES ASSUME TypeOK, EncryptedHasPeer, LinkInv, [Next]_vars
             PROVE  LinkInv'
  OBVIOUS
<1> USE DEF LinkInv
<1>1. ASSUME NEW e \in Ends, Restart(e) PROVE LinkInv'
  <2>1. \A f \in Ends : link[f] \in Nat /\ link'[f] \in Nat /\ link'[f] >= link[f]
    BY <1>1, ConstantsAssumption DEF Restart, TypeOK, LinkNumbers
  <2>2. \A f \in Ends : (\A u \in opened[f] : u.to \in Nat)
                       /\ (\A u \in mediaSent[f] : u.key \in Nat)
    BY DEF TypeOK, Uses, LinkNumbers
  <2>3. \A f \in Ends : f # e => /\ link'[f] = link[f] /\ peerPublic'[f] = peerPublic[f]
                                 /\ confirmed'[f] = confirmed[f] /\ next'[f] = next[f]
                                 /\ newest'[f] = newest[f] /\ seen'[f] = seen[f]
                                 /\ state'[f] = state[f]
    BY <1>1 DEF Restart, TypeOK
  <2>4. link'[e] = link[e] + 1 /\ link[e] \in Nat /\ ~confirmed'[e]
    BY <1>1, ConstantsAssumption DEF Restart, TypeOK, LinkNumbers
  <2>5. UNCHANGED <<opened, openedAgain, mediaSent, mediaAgain>>
    BY <1>1 DEF Restart, history
  <2>6. OpenedIsRemembered' BY <2>2, <2>3, <2>4, <2>5 DEF OpenedIsRemembered
  <2>7. MediaIsCounted' BY <2>2, <2>3, <2>4, <2>5 DEF MediaIsCounted
  <2>8. ConfirmedIsEncrypted' BY <2>3, <2>4 DEF ConfirmedIsEncrypted
  <2> QED BY <2>5, <2>6, <2>7, <2>8 DEF OpenedOnce, MediaCountedOnce
<1>2. ASSUME NEW e \in Ends, SendKey(e) PROVE LinkInv'
  <2>1. "alive" \in Bodies BY DEF Bodies
  <2>2. next' = CountAfter(e, "alive") \/ UNCHANGED next
    BY <1>2 DEF SendKey
  <2> QED BY <1>2, <2>1, <2>2, SealingKeepsLink DEF SendKey, history
<1>3. ASSUME NEW e \in Ends, SendAlive(e) PROVE LinkInv'
  <2>1. "alive" \in Bodies BY DEF Bodies
  <2> QED BY <1>3, <2>1, SealingKeepsLink DEF SendAlive, history
<1>4. ASSUME NEW e \in Ends, SendMedia(e) PROVE LinkInv'
  <2> DEFINE uses == {[key |-> m.key, to |-> m.to, counter |-> m.counter] :
                        m \in {s \in Seal(e, "media") : s.kind = "sealed"}}
  <2>1. /\ mediaAgain' = [mediaAgain EXCEPT ![e] = @ \cup (uses \cap mediaSent[e])]
        /\ mediaSent' = [mediaSent EXCEPT ![e] = @ \cup uses]
    BY <1>4 DEF SendMedia
  <2>2. \A u \in uses : /\ u.key = link[e] /\ u.to = peerPublic[e]
                        /\ u.counter = next[e] /\ confirmed[e]
                        /\ state[e] = "encrypted" /\ next[e] < MaxCounter
    <3>1. \A m \in Seal(e, "media") : m.kind = "sealed" =>
              /\ m = SealedPacket(e, peerPublic[e], next[e], "media")
              /\ state[e] = "encrypted" /\ confirmed[e] /\ next[e] < MaxCounter
      BY DEF Seal, PlainPacket, TypeOK
    <3> QED BY <3>1 DEF SealedPacket
  <2>3. next' = CountAfter(e, "media")
    BY <1>4 DEF SendMedia
  <2>4. \A u \in uses : next'[e] = next[e] + 1
    BY <2>2, <2>3 DEF CountAfter, TypeOK
  <2>5. \A f \in Ends : next[f] \in Nat /\ next'[f] \in Nat /\ next'[f] >= next[f]
    BY <2>3, ConstantsAssumption DEF TypeOK, CountAfter
  <2>6. \A f \in Ends : \A u \in mediaSent[f] : u.counter \in Nat /\ u.key \in Nat
    BY DEF TypeOK, Uses, Counters, LinkNumbers
  <2>7. link[e] \in Nat
    BY ConstantsAssumption DEF TypeOK, LinkNumbers
  <2> HIDE DEF uses
  <2>8. uses \cap mediaSent[e] = {}
    <3> SUFFICES ASSUME NEW u \in uses, u \in mediaSent[e] PROVE FALSE
      OBVIOUS
    <3>1. u.counter < next[e] BY <2>2 DEF MediaIsCounted
    <3> QED BY <3>1, <2>2, <2>5
  <2>9. mediaAgain' = mediaAgain
    BY <2>1, <2>8 DEF TypeOK
  <2>10. \A f \in Ends : mediaSent'[f] = IF f = e THEN mediaSent[e] \cup uses
                                                ELSE mediaSent[f]
    BY <2>1 DEF TypeOK
  <2>11. UNCHANGED <<link, state, peerPublic, confirmed, newest, seen, opened, openedAgain>>
    BY <1>4 DEF SendMedia
  <2>12. MediaIsCounted'
    <3> SUFFICES ASSUME NEW f \in Ends, NEW u \in mediaSent'[f]
                 PROVE  /\ u.key <= link[f]
                        /\ u.key = link[f] => /\ confirmed[f] /\ u.to = peerPublic[f]
                                              /\ u.counter < next'[f]
      BY <2>11 DEF MediaIsCounted
    <3>1. CASE u \in mediaSent[f]
      BY <3>1, <2>5, <2>6 DEF MediaIsCounted
    <3>2. CASE f = e /\ u \in uses
      BY <3>2, <2>2, <2>4, <2>5, <2>7
    <3> QED BY <3>1, <3>2, <2>10
  <2> QED
    BY <2>9, <2>11, <2>12
       DEF OpenedIsRemembered, ConfirmedIsEncrypted, OpenedOnce, MediaCountedOnce
<1>5. ASSUME NEW e \in Ends, NEW m \in net, TakeKey(e, m) PROVE LinkInv'
  <2>1. ~confirmed[e]
    BY <1>5 DEF TakeKey, SettlesKeys, ConfirmedIsEncrypted
  <2>2. \A f \in Ends : f # e => /\ peerPublic'[f] = peerPublic[f] /\ next'[f] = next[f]
                                 /\ newest'[f] = newest[f] /\ seen'[f] = seen[f]
                                 /\ state'[f] = state[f]
    BY <1>5 DEF TakeKey, TypeOK
  <2>3. /\ \A f \in Ends : confirmed'[f] = confirmed[f]
        /\ UNCHANGED <<link, opened, openedAgain, mediaSent, mediaAgain>>
    BY <1>5, <2>1 DEF TakeKey, DerivedKeys, TypeOK, history
  <2> QED
    BY <2>1, <2>2, <2>3
       DEF OpenedIsRemembered, MediaIsCounted, ConfirmedIsEncrypted,
           OpenedOnce, MediaCountedOnce
<1>6. ASSUME NEW e \in Ends, NEW m \in net, OpenEncrypted(e, m) PROVE LinkInv'
  <2> DEFINE top == IF m.counter > newest[e] THEN m.counter ELSE newest[e]
             use == [key |-> m.key, to |-> m.to, counter |-> m.counter]
  <2>1. m \in SealedPackets
    BY <1>6 DEF OpenEncrypted, Decrypts, TypeOK, Packets, PlainPackets, KeyPackets
  <2>2. m.counter \in Nat /\ m.key \in Nat /\ m.to \in Nat
    BY <2>1 DEF SealedPackets, Counters, LinkNumbers
  <2>3. newest[e] \in Int /\ top \in Int /\ top >= m.counter /\ top >= newest[e]
    BY <2>2 DEF TypeOK, Counters
  <2>4. /\ newest' = [newest EXCEPT ![e] = top]
        /\ seen' = [seen EXCEPT ![e] = {c \in @ \cup {m.counter} : top - c < ReplayWindow}]
        /\ confirmed' = [confirmed EXCEPT ![e] = TRUE]
        /\ openedAgain' = [openedAgain EXCEPT ![e] = @ \cup ({use} \cap opened[e])]
        /\ opened' = [opened EXCEPT ![e] = @ \cup {use}]
        /\ UNCHANGED <<link, state, peerPublic, next, mediaSent, mediaAgain>>
    BY <1>6 DEF OpenEncrypted
  <2>5. /\ state[e] = "encrypted" /\ use.to = link[e] /\ use.key = peerPublic[e]
        /\ use.counter = m.counter /\ IsNew(e, m.counter)
    BY <1>6 DEF OpenEncrypted, Decrypts
  <2>6. use \notin opened[e]
    <3> SUFFICES ASSUME use \in opened[e] PROVE FALSE
      OBVIOUS
    <3>1. /\ m.counter <= newest[e]
          /\ newest[e] - m.counter < ReplayWindow => m.counter \in seen[e]
      BY <2>5 DEF OpenedIsRemembered
    <3> QED BY <3>1, <2>2, <2>3, <2>5 DEF IsNew
  <2>7. \A f \in Ends :
            /\ f = e => /\ newest'[f] = top /\ confirmed'[f]
                        /\ seen'[f] = {c \in seen[e] \cup {m.counter} : top - c < ReplayWindow}
                        /\ opened'[f] = opened[e] \cup {use}
            /\ f # e => /\ newest'[f] = newest[f] /\ confirmed'[f] = confirmed[f]
                        /\ seen'[f] = seen[f] /\ opened'[f] = opened[f]
    BY <2>4 DEF TypeOK
  <2>8. openedAgain' = openedAgain
    BY <2>4, <2>6 DEF TypeOK
  <2>9. \A f \in Ends : \A u \in opened[f] : u.counter \in Nat /\ u.to \in Nat
    BY DEF TypeOK, Uses, Counters, LinkNumbers
  <2>10. link[e] \in Nat /\ ReplayWindow \in Nat
    BY ConstantsAssumption DEF TypeOK, LinkNumbers
  <2> HIDE DEF top, use
  <2>11. OpenedIsRemembered'
    <3> SUFFICES ASSUME NEW f \in Ends, NEW u \in opened'[f]
                 PROVE  /\ u.to <= link[f]
                        /\ u.to = link[f] =>
                              /\ confirmed'[f] /\ u.key = peerPublic[f]
                              /\ u.counter <= newest'[f]
                              /\ newest'[f] - u.counter < ReplayWindow =>
                                    u.counter \in seen'[f]
      BY <2>4 DEF OpenedIsRemembered
    <3>1. CASE f # e
      BY <3>1, <2>7 DEF OpenedIsRemembered
    <3>2. CASE f = e /\ u \in opened[e]
      BY <3>2, <2>3, <2>7, <2>9, <2>10 DEF OpenedIsRemembered
    <3>3. CASE f = e /\ u = use
      BY <3>3, <2>2, <2>3, <2>5, <2>7, <2>10
    <3> QED BY <3>1, <3>2, <3>3, <2>7
  <2>12. MediaIsCounted'
    BY <2>4, <2>7 DEF MediaIsCounted
  <2>13. ConfirmedIsEncrypted'
    BY <2>4, <2>5, <2>7 DEF ConfirmedIsEncrypted, EncryptedHasPeer
  <2> QED BY <2>4, <2>8, <2>11, <2>12, <2>13 DEF OpenedOnce, MediaCountedOnce
<1>7. ASSUME NEW e \in Ends, NEW m \in net, FallBackToPlain(e, m) PROVE LinkInv'
  <2>1. ~confirmed[e]
    BY <1>7 DEF FallBackToPlain, ShowsItIsPlain, ConfirmedIsEncrypted
  <2> QED
    BY <1>7, <2>1
       DEF FallBackToPlain, TypeOK, OpenedIsRemembered, MediaIsCounted,
           ConfirmedIsEncrypted, OpenedOnce, MediaCountedOnce, history
<1>8. ASSUME NEW e \in Ends, NEW m \in net, Ignore(e, m) PROVE LinkInv'
  BY <1>8
     DEF Ignore, OpenedIsRemembered, MediaIsCounted, ConfirmedIsEncrypted,
         OpenedOnce, MediaCountedOnce, history, linkVars
<1>9. CASE Lose
  BY <1>9
     DEF Lose, OpenedIsRemembered, MediaIsCounted, ConfirmedIsEncrypted,
         OpenedOnce, MediaCountedOnce, history, linkVars
<1>10. CASE UNCHANGED vars
  BY <1>10
     DEF vars, OpenedIsRemembered, MediaIsCounted, ConfirmedIsEncrypted,
         OpenedOnce, MediaCountedOnce, history, linkVars
<1> QED
  BY <1>1, <1>2, <1>3, <1>4, <1>5, <1>6, <1>7, <1>8, <1>9, <1>10 DEF Next, Open

LEMMA LinkInvariant == Spec => []LinkInv
<1>1. Init => LinkInv BY InitLink
<1>2. TypeOK /\ EncryptedHasPeer /\ LinkInv /\ [Next]_vars => LinkInv'
  BY NextLink
<1> QED BY <1>1, <1>2, TypeCorrect, PTL DEF Spec

\* A sealed packet is handed up once, for every window and every fault of the
\* network (SecureLink::open, ReplayWindow).
THEOREM OpensOnce == Spec => []OpenedOnce
<1>1. LinkInv => OpenedOnce BY DEF LinkInv
<1> QED BY <1>1, LinkInvariant, PTL

\* No two packets of media share a count under one key (SecureLink::seal).
THEOREM CountsMediaOnce == Spec => []MediaCountedOnce
<1>1. LinkInv => MediaCountedOnce BY DEF LinkInv
<1> QED BY <1>1, LinkInvariant, PTL

-----------------------------------------------------------------------------
LEMMA RolesStay == [Next]_vars => role' = role
<1>1. ASSUME NEW e \in Ends, Restart(e) PROVE role' = role
  BY <1>1 DEF Restart
<1>2. ASSUME NEW e \in Ends, SendKey(e) \/ SendAlive(e) \/ SendMedia(e)
      PROVE  role' = role
  BY <1>2 DEF SendKey, SendAlive, SendMedia
<1>3. ASSUME NEW e \in Ends, NEW m, Open(e, m) PROVE role' = role
  <2>1. CASE TakeKey(e, m) BY <2>1 DEF TakeKey
  <2>2. CASE OpenEncrypted(e, m) BY <2>2 DEF OpenEncrypted
  <2>3. CASE FallBackToPlain(e, m) BY <2>3 DEF FallBackToPlain
  <2>4. CASE Ignore(e, m) BY <2>4 DEF Ignore
  <2> QED BY <1>3, <2>1, <2>2, <2>3, <2>4 DEF Open
<1>4. CASE Lose BY <1>4 DEF Lose
<1>5. CASE UNCHANGED vars BY <1>5 DEF vars
<1> QED BY <1>1, <1>2, <1>3, <1>4, <1>5 DEF Next

\* What an end that does not talk plain seals is never plain media.
LEMMA SealsNoPlainMedia ==
    ASSUME TypeOK, NEW e \in Ends, NEW body \in Bodies, state[e] # "unencrypted",
           NEW f \in Ends
    PROVE  PlainPacket(f, "media") \notin Seal(e, body)
BY DEF Seal, PlainPacket, SealedPacket, TypeOK, Bodies

LEMMA ArrivesBringsOnly ==
    ASSUME NEW m, NEW S, NEW p, Arrives(m, S), p \notin net, p \notin S
    PROVE  p \notin net'
BY DEF Arrives

\* Between two ends that encrypt nothing turns a link plain and no media goes
\* plain, through every restart and delay (SecureLink::seal, receive).
THEOREM EncryptersNeverPlain == Spec => []NeverPlainBetweenEncrypters
<1>1. Init => NeverPlainBetweenEncrypters
  BY DEF Init, NeverPlainBetweenEncrypters, Encrypts
<1>2. TypeOK /\ NeverPlainBetweenEncrypters /\ [Next]_vars
        => NeverPlainBetweenEncrypters'
  <2> SUFFICES ASSUME TypeOK, NeverPlainBetweenEncrypters, [Next]_vars,
                      (\A e \in Ends : Encrypts(e))'
               PROVE  \A f \in Ends : /\ state'[f] # "unencrypted"
                                      /\ PlainPacket(f, "media") \notin net'
    BY DEF NeverPlainBetweenEncrypters, PlainPacket
  <2>1. \A f \in Ends : /\ Encrypts(f) /\ state[f] # "unencrypted"
                        /\ PlainPacket(f, "media") \notin net
    BY RolesStay DEF NeverPlainBetweenEncrypters, Encrypts
  <2> SUFFICES ASSUME NEW f \in Ends
               PROVE  state'[f] # "unencrypted" /\ PlainPacket(f, "media") \notin net'
    OBVIOUS
  <2>2. "alive" \in Bodies /\ "media" \in Bodies BY DEF Bodies
  <2>3. ASSUME NEW e \in Ends, Restart(e)
        PROVE  state'[f] # "unencrypted" /\ PlainPacket(f, "media") \notin net'
    BY <2>1, <2>3 DEF Restart, TypeOK
  <2>4. ASSUME NEW e \in Ends, SendKey(e)
        PROVE  state'[f] # "unencrypted" /\ PlainPacket(f, "media") \notin net'
    <3>1. PlainPacket(f, "media") \notin Seal(e, "alive")
      BY <2>1, <2>2, SealsNoPlainMedia
    <3>2. PlainPacket(f, "media") # KeyExchangePacket(e, answer[e])
      BY DEF PlainPacket, KeyExchangePacket
    <3> QED BY <2>1, <2>4, <3>1, <3>2 DEF SendKey
  <2>5. ASSUME NEW e \in Ends, SendAlive(e) \/ SendMedia(e)
        PROVE  state'[f] # "unencrypted" /\ PlainPacket(f, "media") \notin net'
    <3>1. /\ PlainPacket(f, "media") \notin Seal(e, "alive")
          /\ PlainPacket(f, "media") \notin Seal(e, "media")
      BY <2>1, <2>2, SealsNoPlainMedia
    <3> QED BY <2>1, <2>5, <3>1 DEF SendAlive, SendMedia
  <2>6. ASSUME NEW e \in Ends, NEW m \in net, Open(e, m)
        PROVE  state'[f] # "unencrypted" /\ PlainPacket(f, "media") \notin net'
    <3>1. CASE TakeKey(e, m)
      <4> DEFINE half == KeyExchangePacket(e, answer'[e])
                 shown == SealedPacket(e, m.key, 0, "alive")
      <4>1. PlainPacket(f, "media") # half /\ PlainPacket(f, "media") # shown
        BY DEF PlainPacket, KeyExchangePacket, SealedPacket
      <4>2. Arrives(m, {half, shown}) BY <3>1 DEF TakeKey, DerivedKeys
      <4> HIDE DEF half, shown
      <4>3. PlainPacket(f, "media") \notin net'
        BY <2>1, <4>1, <4>2, ArrivesBringsOnly
      <4> QED BY <2>1, <3>1, <4>3 DEF TakeKey, TypeOK
    <3>2. CASE OpenEncrypted(e, m) \/ Ignore(e, m)
      BY <2>1, <3>2, ArrivesBringsOnly DEF OpenEncrypted, Ignore, linkVars
    <3>3. CASE FallBackToPlain(e, m)
      <4>1. m.kind = "plain" /\ m.body = "media" /\ m \in Packets
        BY <3>3 DEF FallBackToPlain, ShowsItIsPlain, TypeOK
      <4>2. \E g \in Ends : m = PlainPacket(g, "media")
        BY <4>1 DEF Packets, KeyPackets, PlainPackets, SealedPackets, PlainPacket
      <4> QED BY <2>1, <4>2
    <3> QED BY <2>6, <3>1, <3>2, <3>3 DEF Open
  <2>7. CASE Lose
    BY <2>1, <2>7 DEF Lose, linkVars
  <2>8. CASE UNCHANGED vars
    BY <2>1, <2>8 DEF vars, linkVars
  <2> QED BY <2>3, <2>4, <2>5, <2>6, <2>7, <2>8 DEF Next
<1> QED BY <1>1, <1>2, TypeCorrect, PTL DEF Spec

\* Once the peer has shown it has our key, the pair stands until the link is
\* made anew (SecureLink::receive_control).
THEOREM ConfirmedStands == Spec => ConfirmedKeysStand
<1> DEFINE Stands == \A e \in Ends : confirmed[e] /\ link'[e] = link[e] =>
                        /\ confirmed'[e] /\ state'[e] = "encrypted"
                        /\ peerPublic'[e] = peerPublic[e]
                        /\ next'[e] >= next[e]
<1>1. TypeOK /\ LinkInv /\ [Next]_vars => [Stands]_vars
  <2> SUFFICES ASSUME TypeOK, LinkInv, Next, NEW f \in Ends,
                      confirmed[f], link'[f] = link[f]
               PROVE  /\ confirmed'[f] /\ state'[f] = "encrypted"
                      /\ peerPublic'[f] = peerPublic[f] /\ next'[f] >= next[f]
    OBVIOUS
  <2>1. state[f] = "encrypted" /\ confirmed[f] = TRUE
    BY DEF LinkInv, ConfirmedIsEncrypted, TypeOK
  <2>2. next[f] \in Nat BY ConstantsAssumption DEF TypeOK
  <2>3. ASSUME NEW e \in Ends, Restart(e) PROVE e # f
    BY <2>3, ConstantsAssumption DEF Restart, TypeOK, LinkNumbers
  <2>4. ASSUME NEW e \in Ends, NEW m \in net, TakeKey(e, m) PROVE e # f
    BY <2>1, <2>4 DEF TakeKey, SettlesKeys
  <2>5. ASSUME NEW e \in Ends, NEW m \in net, FallBackToPlain(e, m) PROVE e # f
    BY <2>1, <2>5 DEF FallBackToPlain, ShowsItIsPlain
  <2>6. \A e \in Ends, body \in Bodies : CountAfter(e, body)[f] >= next[f]
    BY <2>2, ConstantsAssumption DEF CountAfter, TypeOK
  <2>7. "alive" \in Bodies /\ "media" \in Bodies BY DEF Bodies
  <2>8. ASSUME NEW e \in Ends, Restart(e)
        PROVE  /\ confirmed'[f] /\ state'[f] = "encrypted"
               /\ peerPublic'[f] = peerPublic[f] /\ next'[f] >= next[f]
    <3>1. /\ state'[f] = state[f] /\ peerPublic'[f] = peerPublic[f]
          /\ next'[f] = next[f] /\ confirmed'[f] = confirmed[f]
      BY <2>3, <2>8 DEF Restart, TypeOK
    <3> QED BY <2>1, <2>2, <3>1
  <2> DEFINE Kept == UNCHANGED <<state, peerPublic, confirmed, next>>
  <2>kept. Kept => /\ confirmed'[f] /\ state'[f] = "encrypted"
                   /\ peerPublic'[f] = peerPublic[f] /\ next'[f] >= next[f]
    BY <2>1, <2>2
  <2>9. ASSUME NEW e \in Ends, SendKey(e) \/ SendAlive(e) \/ SendMedia(e)
        PROVE  /\ confirmed'[f] /\ state'[f] = "encrypted"
               /\ peerPublic'[f] = peerPublic[f] /\ next'[f] >= next[f]
    <3>1. /\ UNCHANGED <<state, peerPublic, confirmed>>
          /\ next' = next \/ \E body \in Bodies : next' = CountAfter(e, body)
      BY <2>7, <2>9 DEF SendKey, SendAlive, SendMedia
    <3>2. next'[f] >= next[f] BY <3>1, <2>2, <2>6
    <3> QED BY <2>1, <3>1, <3>2
  <2>10. ASSUME NEW e \in Ends, NEW m \in net, Open(e, m)
         PROVE  /\ confirmed'[f] /\ state'[f] = "encrypted"
                /\ peerPublic'[f] = peerPublic[f] /\ next'[f] >= next[f]
    <3>1. CASE TakeKey(e, m)
      <4>1. /\ state'[f] = state[f] /\ peerPublic'[f] = peerPublic[f]
            /\ next'[f] = next[f] /\ confirmed'[f] = confirmed[f]
        BY <2>4, <3>1 DEF TakeKey, TypeOK
      <4> QED BY <2>1, <2>2, <4>1
    <3>2. CASE OpenEncrypted(e, m) BY <2>1, <2>2, <3>2 DEF OpenEncrypted, TypeOK
    <3>3. CASE FallBackToPlain(e, m)
      <4>1. /\ state'[f] = state[f]
            /\ UNCHANGED <<peerPublic, next, confirmed>>
        BY <2>5, <3>3 DEF FallBackToPlain, TypeOK
      <4> QED BY <2>1, <2>2, <4>1
    <3>4. CASE Ignore(e, m)
      <4>1. Kept BY <3>4 DEF Ignore, linkVars
      <4> QED BY <2>kept, <4>1
    <3> QED BY <2>10, <3>1, <3>2, <3>3, <3>4 DEF Open
  <2>11. ASSUME Lose PROVE Kept
    BY <2>11 DEF Lose, linkVars
  <2> HIDE DEF Kept
  <2> QED BY <2>kept, <2>8, <2>9, <2>10, <2>11 DEF Next
<1>2. Spec => [][Stands]_vars
  BY <1>1, TypeCorrect, LinkInvariant, PTL DEF Spec
<1> QED BY <1>2 DEF ConfirmedKeysStand
-----------------------------------------------------------------------------
\* An end that does not begin again is at its first link for ever.
FirstLinkStays == \A e \in Ends : e \notin Restarting => link[e] = 1

\* No key is older news than its link: a packet names a key its sender has or
\* had, and a peer's key is one the peer has or had.
KeysWereMade ==
    /\ \A m \in net : m.kind # "plain" => m.key <= link[m.from]
    /\ \A e \in Ends : peerPublic[e] <= link[Peer(e)]

\* What is sealed with the key of a present link was sealed by that link.
SealedByItsLink ==
    \A m \in net :
        m.kind = "sealed" /\ m.key = link[m.from] => state[m.from] = "encrypted"

\* A link is confirmed by the link it has the key of.
ConfirmedByItsPeer ==
    \A e \in Ends :
        confirmed[e] /\ peerPublic[e] = link[Peer(e)] => state[Peer(e)] = "encrypted"

ShownInv == FirstLinkStays /\ KeysWereMade /\ SealedByItsLink /\ ConfirmedByItsPeer

LEMMA PeerOfPeer == \A e \in Ends : Peer(e) \in Ends /\ Peer(e) # e /\ Peer(Peer(e)) = e
BY DEF Ends, Peer

\* Whoever sends, and whichever of its packets arrive or are lost, a step that
\* leaves links and keys alone and brings only packets of a present link keeps
\* what packets show.
LEMMA BringingKeepsShown ==
    ASSUME TypeOK, ShownInv, NEW e \in Ends, NEW S \in SUBSET Packets,
           net' \subseteq net \cup S,
           UNCHANGED <<link, state, peerPublic, confirmed>>,
           \A m \in S : m.kind # "plain" => m.from = e /\ m.key = link[e],
           \A m \in S : m.kind = "sealed" => state[e] = "encrypted"
    PROVE  ShownInv'
<1> USE DEF ShownInv
<1>1. \A m \in S : m.kind # "plain" => m.key <= link[m.from]
  BY DEF TypeOK, LinkNumbers
<1>2. \A m \in S : m.kind = "sealed" => state[m.from] = "encrypted"
  OBVIOUS
<1>3. KeysWereMade' BY <1>1 DEF KeysWereMade
<1>4. SealedByItsLink' BY <1>2 DEF SealedByItsLink
<1> QED BY <1>3, <1>4 DEF FirstLinkStays, ConfirmedByItsPeer

\* The packets of `seal` that are not plain are of the present link.
LEMMA SealIsOfItsLink ==
    ASSUME NEW e \in Ends, NEW body \in Bodies, TypeOK, EncryptedHasPeer
    PROVE  /\ Seal(e, body) \subseteq Packets
           /\ \A m \in Seal(e, body) :
                 /\ m.kind # "plain" => m.from = e /\ m.key = link[e]
                 /\ m.kind = "sealed" => state[e] = "encrypted"
<1>1. Seal(e, body) \subseteq Packets BY SealType DEF EncryptedHasPeer
<1>2. \A m \in Seal(e, body) :
          \/ m = PlainPacket(e, body)
          \/ m = SealedPacket(e, peerPublic[e], next[e], body) /\ state[e] = "encrypted"
  <2>1. CASE state[e] = "unencrypted" BY <2>1 DEF Seal
  <2>3. CASE state[e] = "negotiating"
    <3>1. Seal(e, body) \subseteq {PlainPacket(e, body)} BY <2>3 DEF Seal
    <3> QED BY <3>1
  <2>2. CASE state[e] = "encrypted"
    <3>1. Seal(e, body) \subseteq {SealedPacket(e, peerPublic[e], next[e], body)}
      BY <2>2 DEF Seal
    <3> QED BY <2>2, <3>1
  <2> QED BY <2>1, <2>2, <2>3 DEF TypeOK
<1> QED BY <1>1, <1>2 DEF PlainPacket, SealedPacket

LEMMA InitShown == Init => ShownInv
BY ConstantsAssumption, PeerOfPeer
   DEF Init, ShownInv, FirstLinkStays, KeysWereMade, SealedByItsLink,
       ConfirmedByItsPeer, Ends

LEMMA NextShown ==
    TypeOK /\ EncryptedHasPeer /\ ShownInv /\ [Next]_vars => ShownInv'
<1> SUFFICES ASSUME TypeOK, EncryptedHasPeer, ShownInv, [Next]_vars
             PROVE  ShownInv'
  OBVIOUS
<1> "alive" \in Bodies /\ "media" \in Bodies BY DEF Bodies
<1>0. \A m \in net : /\ m \in Packets /\ m.from \in Ends
                     /\ m.kind # "plain" => m.key \in LinkNumbers
  BY DEF TypeOK, Packets, KeyPackets, PlainPackets, SealedPackets
<1>1. ASSUME NEW e \in Ends, Restart(e) PROVE ShownInv'
  <2>1. \A f \in Ends : /\ f # e => /\ link'[f] = link[f] /\ state'[f] = state[f]
                                    /\ peerPublic'[f] = peerPublic[f]
                                    /\ confirmed'[f] = confirmed[f]
                        /\ link[f] \in Int /\ peerPublic[f] \in Int
    <3>1. \A f \in Ends : link[f] \in Int /\ peerPublic[f] \in Int
      BY ConstantsAssumption DEF TypeOK, LinkNumbers
    <3> QED BY <1>1, <3>1 DEF Restart, TypeOK
  <2>2. /\ link'[e] = link[e] + 1 /\ peerPublic'[e] = 0 /\ ~confirmed'[e]
        /\ link[e] >= 1 /\ e \in Restarting /\ net' = net
    BY <1>1, ConstantsAssumption DEF Restart, TypeOK, LinkNumbers
  <2>3. FirstLinkStays' BY <2>1, <2>2 DEF ShownInv, FirstLinkStays
  <2>4. \A m \in net : m.kind # "plain" => m.key <= link'[m.from]
    BY <1>0, <2>1, <2>2 DEF ShownInv, KeysWereMade, LinkNumbers
  <2>5. \A f \in Ends : peerPublic'[f] <= link'[Peer(f)]
    <3> TAKE f \in Ends
    <3>1. peerPublic[f] <= link[Peer(f)] /\ Peer(f) \in Ends /\ Peer(f) # f
      BY PeerOfPeer DEF ShownInv, KeysWereMade
    <3>2. link[Peer(f)] >= 1 /\ link'[Peer(f)] >= link[Peer(f)] /\ link'[Peer(f)] \in Int
      BY <2>1, <2>2, <3>1 DEF TypeOK, LinkNumbers
    <3> QED BY <2>1, <2>2, <3>1, <3>2
  <2>6. KeysWereMade' BY <2>2, <2>4, <2>5 DEF KeysWereMade
  <2>7. SealedByItsLink'
    <3> SUFFICES ASSUME NEW m \in net, m.kind = "sealed", m.key = link'[m.from]
                 PROVE  state'[m.from] = "encrypted"
      BY <2>2 DEF SealedByItsLink
    <3>1. m.key <= link[m.from] /\ m.from \in Ends
      BY <1>0 DEF ShownInv, KeysWereMade
    <3>2. m.from # e BY <2>1, <2>2, <3>1
    <3> QED BY <2>1, <3>1, <3>2 DEF ShownInv, SealedByItsLink
  <2>8. ConfirmedByItsPeer'
    <3> SUFFICES ASSUME NEW f \in Ends, confirmed'[f], peerPublic'[f] = link'[Peer(f)]
                 PROVE  state'[Peer(f)] = "encrypted"
      BY DEF ConfirmedByItsPeer
    <3>1. peerPublic[f] <= link[Peer(f)] /\ Peer(f) \in Ends
      BY PeerOfPeer DEF ShownInv, KeysWereMade
    <3>2. f # e BY <2>2
    <3>3. Peer(f) # e BY <2>1, <2>2, <3>1, <3>2
    <3> QED BY <2>1, <3>1, <3>2, <3>3 DEF ShownInv, ConfirmedByItsPeer
  <2> QED BY <2>3, <2>6, <2>7, <2>8 DEF ShownInv
<1>2. ASSUME NEW e \in Ends, SendKey(e) PROVE ShownInv'
  <2> DEFINE half == KeyExchangePacket(e, answer[e])
             alive == IF state[e] = "encrypted" THEN Seal(e, "alive") ELSE {}
  <2>1. half \in Packets /\ half.kind = "key" /\ half.from = e /\ half.key = link[e]
    <3>1. answer[e] \in 0..MaxLinks BY DEF TypeOK
    <3> QED BY <3>1, KeyExchangeType DEF KeyExchangePacket
  <2>2. /\ alive \subseteq Packets
        /\ \A m \in alive : /\ m.kind # "plain" => m.from = e /\ m.key = link[e]
                            /\ m.kind = "sealed" => state[e] = "encrypted"
    BY SealIsOfItsLink
  <2>3. net' = net \cup {half} \cup alive BY <1>2 DEF SendKey
  <2>4. UNCHANGED <<link, state, peerPublic, confirmed>> BY <1>2 DEF SendKey
  <2> HIDE DEF half, alive
  <2> DEFINE S == {half} \cup alive
  <2>5. /\ S \in SUBSET Packets /\ net' \subseteq net \cup S
        /\ \A m \in S : m.kind # "plain" => m.from = e /\ m.key = link[e]
        /\ \A m \in S : m.kind = "sealed" => state[e] = "encrypted"
    BY <2>1, <2>2, <2>3
  <2> HIDE DEF S
  <2> QED BY <2>4, <2>5, BringingKeepsShown
<1>3. ASSUME NEW e \in Ends, SendAlive(e) \/ SendMedia(e) PROVE ShownInv'
  <2>1. /\ UNCHANGED <<link, state, peerPublic, confirmed>>
        /\ \E body \in Bodies : net' = net \cup Seal(e, body)
    BY <1>3 DEF SendAlive, SendMedia
  <2>2. PICK body \in Bodies : net' = net \cup Seal(e, body) BY <2>1
  <2> QED BY <2>1, <2>2, SealIsOfItsLink, BringingKeepsShown
<1>4. ASSUME NEW e \in Ends, NEW m \in net, m.from = Peer(e), TakeKey(e, m)
      PROVE  ShownInv'
  <2> DEFINE half == KeyExchangePacket(e, answer'[e])
             shown == SealedPacket(e, m.key, 0, "alive")
  <2>1. m.kind = "key" BY <1>4 DEF TakeKey, SettlesKeys
  <2>2. m.key <= link[Peer(e)]
    BY <1>4, <2>1 DEF ShownInv, KeysWereMade
  <2>3. /\ half.kind = "key" /\ half.from = e /\ half.key = link[e]
        /\ shown.kind = "sealed" /\ shown.from = e /\ shown.key = link[e]
    BY DEF KeyExchangePacket, SealedPacket
  <2>4. net' \subseteq net \cup {half, shown}
    BY <1>4 DEF TakeKey, DerivedKeys, Arrives
  <2>5. \A f \in Ends :
            /\ f # e => /\ peerPublic'[f] = peerPublic[f]
                        /\ confirmed'[f] = confirmed[f] /\ state'[f] = state[f]
            /\ f = e => /\ peerPublic'[f] = m.key
                        /\ ~confirmed'[f] /\ state'[f] = "encrypted"
    BY <1>4 DEF TakeKey, DerivedKeys, TypeOK
  <2>6. link' = link /\ link[e] \in Int
    BY <1>4 DEF TakeKey, TypeOK, LinkNumbers
  <2> HIDE DEF half, shown
  <2>7. \A p \in net' : p \in net \/ p = half \/ p = shown BY <2>4
  <2>8. KeysWereMade'
    <3>1. \A p \in net' : p.kind # "plain" => p.key <= link[p.from]
      BY <2>3, <2>6, <2>7 DEF ShownInv, KeysWereMade
    <3>2. \A f \in Ends : peerPublic'[f] <= link[Peer(f)]
      BY <2>2, <2>5 DEF ShownInv, KeysWereMade
    <3> QED BY <2>6, <3>1, <3>2 DEF KeysWereMade
  <2>9. SealedByItsLink'
    <3> SUFFICES ASSUME NEW p \in net', p.kind = "sealed", p.key = link[p.from]
                 PROVE  state'[p.from] = "encrypted"
      BY <2>6 DEF SealedByItsLink
    <3>1. CASE p \in net
      BY <1>0, <2>5, <3>1 DEF ShownInv, SealedByItsLink
    <3>2. CASE p = half \/ p = shown
      BY <2>3, <2>5, <3>2
    <3> QED BY <2>7, <3>1, <3>2
  <2>10. ConfirmedByItsPeer'
    BY <2>5, <2>6, PeerOfPeer DEF ShownInv, ConfirmedByItsPeer
  <2> QED BY <2>6, <2>8, <2>9, <2>10 DEF ShownInv, FirstLinkStays
<1>5. ASSUME NEW e \in Ends, NEW m \in net, m.from = Peer(e), OpenEncrypted(e, m)
      PROVE  ShownInv'
  <2>1. m.kind = "sealed" /\ m.key = peerPublic[e]
    BY <1>5 DEF OpenEncrypted, Decrypts
  <2>2. m.key = link[Peer(e)] => state[Peer(e)] = "encrypted"
    BY <1>5, <2>1 DEF ShownInv, SealedByItsLink
  <2>3. /\ UNCHANGED <<link, state, peerPublic>> /\ net' \subseteq net
        /\ \A f \in Ends : f # e => confirmed'[f] = confirmed[f]
    BY <1>5 DEF OpenEncrypted, Arrives, TypeOK
  <2>4. ConfirmedByItsPeer'
    BY <2>1, <2>2, <2>3 DEF ShownInv, ConfirmedByItsPeer
  <2> QED
    BY <2>3, <2>4 DEF ShownInv, FirstLinkStays, KeysWereMade, SealedByItsLink
<1>6. ASSUME NEW e \in Ends, NEW m \in net, FallBackToPlain(e, m) PROVE ShownInv'
  <2>1. /\ UNCHANGED <<link, peerPublic, confirmed>> /\ net' \subseteq net
        /\ \A f \in Ends : state[f] = "encrypted" => state'[f] = "encrypted"
    BY <1>6 DEF FallBackToPlain, ShowsItIsPlain, Arrives, TypeOK
  <2>2. SealedByItsLink'
    BY <1>0, <2>1 DEF ShownInv, SealedByItsLink
  <2> QED
    BY <2>1, <2>2, PeerOfPeer
       DEF ShownInv, FirstLinkStays, KeysWereMade, ConfirmedByItsPeer
<1>7. ASSUME NEW e \in Ends, NEW m \in net, Ignore(e, m) PROVE ShownInv'
  <2>1. UNCHANGED <<link, state, peerPublic, confirmed>> /\ net' \subseteq net
    BY <1>7 DEF Ignore, Arrives, linkVars
  <2> QED
    BY <2>1 DEF ShownInv, FirstLinkStays, KeysWereMade, SealedByItsLink,
                ConfirmedByItsPeer
<1>8. CASE Lose \/ UNCHANGED vars
  <2>1. UNCHANGED <<link, state, peerPublic, confirmed>> /\ net' \subseteq net
    BY <1>8 DEF Lose, vars, linkVars
  <2> QED
    BY <2>1 DEF ShownInv, FirstLinkStays, KeysWereMade, SealedByItsLink,
                ConfirmedByItsPeer
<1> QED
  BY <1>1, <1>2, <1>3, <1>4, <1>5, <1>6, <1>7, <1>8 DEF Next, Open

LEMMA ShownInvariant == Spec => []ShownInv
<1>1. Init => ShownInv BY InitShown
<1>2. TypeOK /\ EncryptedHasPeer /\ ShownInv /\ [Next]_vars => ShownInv'
  BY NextShown
<1> QED BY <1>1, <1>2, TypeCorrect, PTL DEF Spec

\* What PeerHasOurKey says, of an end that does not begin again: its peer may.
ShownIsTrueOf(e) ==
    confirmed[e] /\ peerPublic[e] = link[Peer(e)] =>
        /\ state[Peer(e)] = "encrypted"
        /\ peerPublic[Peer(e)] = link[e]

LEMMA ShownIsTrue ==
    ASSUME TypeOK, EncryptedHasPeer, ShownInv, NEW e \in Ends, e \notin Restarting
    PROVE  ShownIsTrueOf(e)
<1> SUFFICES ASSUME confirmed[e], peerPublic[e] = link[Peer(e)]
             PROVE  state[Peer(e)] = "encrypted" /\ peerPublic[Peer(e)] = link[e]
  BY DEF ShownIsTrueOf
<1>1. state[Peer(e)] = "encrypted" BY DEF ShownInv, ConfirmedByItsPeer
<1>2. peerPublic[Peer(e)] # 0 /\ peerPublic[Peer(e)] \in Nat
  BY <1>1, PeerOfPeer, ConstantsAssumption DEF EncryptedHasPeer, TypeOK
<1>3. link[e] = 1 BY DEF ShownInv, FirstLinkStays
<1>4. peerPublic[Peer(e)] <= link[e]
  BY PeerOfPeer DEF ShownInv, KeysWereMade
<1> QED BY <1>1, <1>2, <1>3, <1>4

\* An end that stays at its first link, and takes the peer to have its key, is
\* right, however often the peer begins again (Keys.confirmed, SecureLink::open).
THEOREM FirstLinkIsRight ==
    Spec => [](\A e \in Ends : e \notin Restarting => ShownIsTrueOf(e))
<1>1. TypeOK /\ EncryptedHasPeer /\ ShownInv
        => \A e \in Ends : e \notin Restarting => ShownIsTrueOf(e)
  BY ShownIsTrue
<1> QED BY <1>1, TypeCorrect, ShownInvariant, PTL

\* Where nobody begins again, a link that takes the peer to have our key is
\* right, whatever the network loses, repeats or reorders.
THEOREM ConfirmedIsRight ==
    ASSUME Restarting = {}
    PROVE  Spec => []PeerHasOurKey
<1>1. TypeOK /\ EncryptedHasPeer /\ ShownInv => PeerHasOurKey
  BY ShownIsTrue DEF PeerHasOurKey, ShownIsTrueOf
<1> QED BY <1>1, TypeCorrect, ShownInvariant, PTL
=============================================================================
