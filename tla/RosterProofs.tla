----------------------------- MODULE RosterProofs -----------------------------
(***************************************************************************)
(* What the decisions of the roster come to, for any participants and any  *)
(* roster: whom it is with afterwards, and whether the audio is to be      *)
(* stopped before another is started.                                      *)
(***************************************************************************)
EXTENDS Roster, SequenceTheorems, WellFoundedInduction, TLAPS

\* A roster has these fields.
IsRoster(r) == DOMAIN r = {"peers", "with", "startedWith", "link", "ownIds", "leftBehind"}

\* The roster of no room.
LEMMA EmptyRosterIs == IsRoster(EmptyRoster) /\ EmptyRoster.with = Nobody
  BY DEF EmptyRoster, IsRoster

\* A roster that forgets the audio is with nobody.
LEMMA ForgottenIs ==
  ASSUME NEW r, IsRoster(r)
  PROVE  IsRoster(ForgetTheAudio(r)) /\ ForgetTheAudio(r).with = Nobody
  BY DEF ForgetTheAudio, IsRoster

\* Only the one whose audio could not be started is forgotten (start_failed).
LEMMA StartFailedIs ==
  ASSUME NEW r, IsRoster(r), NEW id
  PROVE  /\ IsRoster(StartFailed(r, id))
         /\ StartFailed(r, id).with = IF r.with = id THEN Nobody ELSE r.with
  BY ForgottenIs DEF StartFailed

\* The decision d starts nobody's audio and leaves the roster with `from`, or starts
\* the audio of the one it leaves the roster with.
Starts(d, from) ==
    /\ IsRoster(d.roster)
    /\ \/ d.audio = <<>> /\ d.roster.with = from
       \/ /\ from = Nobody
          /\ \E s : d.audio = <<s>> /\ s.do = "start" /\ s.peer = d.roster.with

\* The first who can be reached is started with, if there is no audio
\* (start_with).
LEMMA StartWithIs ==
  ASSUME NEW r, IsRoster(r), NEW peers
  PROVE  Starts(StartWith(r, peers), r.with)
<1> DEFINE first == SelectInSeq(peers, Published)
           peer == peers[first]
           d == Decides([r EXCEPT !.with = peer.id, !.startedWith = peer.addr, !.link = "healthy"],
                        <<Start(peer)>>)
<1>1. CASE r.with = Nobody /\ first # 0 /\ HasAddress(peer)
  <2>1. StartWith(r, peers) = d
    BY <1>1, Zenon DEF StartWith
  <2>2. IsRoster(d.roster) /\ d.roster.with = peer.id /\ d.audio = <<Start(peer)>>
    BY DEF Decides, IsRoster
  <2>3. Start(peer).do = "start" /\ Start(peer).peer = peer.id
    BY DEF Start
  <2> QED
    BY <1>1, <2>1, <2>2, <2>3, Zenon DEF Starts
<1>2. CASE ~(r.with = Nobody /\ first # 0 /\ HasAddress(peer))
  <2>1. StartWith(r, peers) = Decides(r, <<>>)
    BY <1>2, Zenon DEF StartWith
  <2> QED
    BY <2>1 DEF Starts, Decides
<1> QED
  BY <1>1, <1>2, Zenon

\* x is about the address others send to.
IsOfAddress(x) == x.do \in {"advertise", "keepAddress"}

\* The decision d stops the audio first, then sees to the address,
\* and may start the audio of the one it leaves the roster with.
StopsFirst(d) ==
    /\ IsRoster(d.roster)
    /\ \E x : /\ IsOfAddress(x)
              /\ \/ d.audio = <<Stop, x>> /\ d.roster.with = Nobody
                 \/ \E s : /\ d.audio = <<Stop, x, s>>
                           /\ s.do = "start" /\ s.peer = d.roster.with
Sound(d, from) == Starts(d, from) \/ StopsFirst(d)

\* To leave the roster as it is and do nothing is to start nobody's audio.
LEMMA DoesNothing ==
  ASSUME NEW r, IsRoster(r)
  PROVE  Starts(Decides(r, <<>>), r.with)
  BY DEF Starts, Decides

\* Two things to do, and one more.
LEMMA TwoAndOne ==
  ASSUME NEW a, NEW b, NEW c
  PROVE  <<a, b>> \o <<c>> = <<a, b, c>>
<1> DEFINE S == {a, b, c}
<1>1. <<a, b>> \in Seq(S) /\ <<c>> \in Seq(S) /\ <<a, b, c>> \in Seq(S)
  OBVIOUS
<1>2. /\ Len(<<a, b>>) = 2 /\ Len(<<c>>) = 1 /\ Len(<<a, b, c>>) = 3
      /\ <<a, b>>[1] = a /\ <<a, b>>[2] = b /\ <<c>>[1] = c
      /\ <<a, b, c>>[1] = a /\ <<a, b, c>>[2] = b /\ <<a, b, c>>[3] = c
  OBVIOUS
<1> DEFINE two == <<a, b>> one == <<c>> three == <<a, b, c>>
<1> HIDE DEF S, two, one, three
<1>3. /\ two \o one \in Seq(S) /\ Len(two \o one) = 3
      /\ \A i \in 1 .. 3 : (two \o one)[i] = IF i <= 2 THEN two[i] ELSE one[i - 2]
  BY <1>1, <1>2, ConcatProperties DEF two, one
<1>4. \A i \in 1 .. 3 : (two \o one)[i] = three[i]
  BY <1>2, <1>3 DEF two, one, three
<1> QED
  BY <1>1, <1>2, <1>3, <1>4, SeqEqual DEF two, one, three

\* A stop put before what starts the next one's audio.
LEMMA StopsThenStarts ==
  ASSUME NEW d, Starts(d, Nobody), NEW e, NEW x, IsOfAddress(x),
         IsRoster(e.roster), e.roster.with = d.roster.with,
         e.audio = <<Stop, x>> \o d.audio
  PROVE  StopsFirst(e)
<1>1. CASE d.audio = <<>> /\ d.roster.with = Nobody
  <2>1. <<Stop, x>> \in Seq({Stop, x})
    OBVIOUS
  <2>2. e.audio = <<Stop, x>>
    BY <1>1, <2>1, ConcatEmptySeq
  <2> QED
    BY <1>1, <2>2 DEF StopsFirst
<1>2. ASSUME NEW s, d.audio = <<s>>, s.do = "start", s.peer = d.roster.with
      PROVE  StopsFirst(e)
  <2>2. e.audio = <<Stop, x, s>>
    BY <1>2, TwoAndOne
  <2> QED
    BY <1>2, <2>2 DEF StopsFirst
<1> QED
  BY <1>1, <1>2 DEF Starts

\* The audio that failed is stopped before the next one's is started
\* (go_onward).
LEMMA GoOnwardIs ==
  ASSUME NEW r, IsRoster(r)
  PROVE  Sound(GoOnward(r), r.with)
<1> DEFINE onward == SelectInSeq(r.peers, LAMBDA p : MayGoOnTo(r, p))
           next == r.peers[onward]
           start == StartWith([r EXCEPT !.with = Nobody], <<next>>)
           left == [start.roster EXCEPT !.leftBehind = IF next.id = r.with THEN @
                                                         ELSE @ \cup {r.with}]
           d == Decides(left, <<Stop, KeepAddress>> \o start.audio)
<1>1. CASE r.with = Nobody \/ r.link = "healthy" \/ onward = 0
  <2>1. GoOnward(r) = Decides(r, <<>>)
    BY <1>1, Zenon DEF GoOnward
  <2> QED
    BY <2>1, DoesNothing DEF Sound
<1>2. CASE ~(r.with = Nobody \/ r.link = "healthy" \/ onward = 0)
  <2>1. GoOnward(r) = d
    BY <1>2, Zenon DEF GoOnward
  <2>2. IsRoster([r EXCEPT !.with = Nobody]) /\ [r EXCEPT !.with = Nobody].with = Nobody
    BY DEF IsRoster
  <2>3. Starts(start, Nobody)
    BY <2>2, StartWithIs, Zenon
  <2> HIDE DEF start
  <2>4. IsRoster(left) /\ left.with = start.roster.with
    BY <2>3 DEF Starts, IsRoster
  <2>5. IsOfAddress(KeepAddress)
    BY DEF KeepAddress, IsOfAddress
  <2>6. d.roster = left /\ d.audio = <<Stop, KeepAddress>> \o start.audio
    BY DEF Decides
  <2>7. StopsFirst(d)
    BY <2>3, <2>4, <2>5, <2>6, StopsThenStarts
  <2> QED
    BY <2>1, <2>7, Zenon DEF Sound
<1> QED
  BY <1>1, <1>2

\* Someone who joins changes nothing of the audio (joined).
LEMMA JoinedIs ==
  ASSUME NEW r, IsRoster(r), NEW peer
  PROVE  IsRoster(Joined(r, peer)) /\ Joined(r, peer).with = r.with
  BY DEF Joined, IsRoster

\* An address that becomes known starts the audio, or restarts it (updated).
LEMMA UpdatedIs ==
  ASSUME NEW r, IsRoster(r), NEW peer
  PROVE  Sound(Updated(r, peer), r.with)
<1> DEFINE known == [r EXCEPT
                    !.peers = [i \in DOMAIN @ |->
                                 IF @[i].id = peer.id THEN peer ELSE @[i]],
                    !.leftBehind = @ \ {peer.id}]
<1>1. IsRoster(known) /\ known.with = r.with
  BY DEF IsRoster
<1>2. Updated(r, peer) = IF known.with = Nobody THEN StartWith(known, <<peer>>)
                         ELSE GoOnward(known)
  BY DEF Updated
<1> HIDE DEF known
<1> QED
  BY <1>1, <1>2, StartWithIs, GoOnwardIs, Zenon DEF Sound

\* A silent link goes on, or to the next one (audio_silent).
LEMMA AudioSilentIs ==
  ASSUME NEW r, IsRoster(r)
  PROVE  Sound(AudioSilent(r), r.with)
<1>1. IsRoster([r EXCEPT !.link = "silent"]) /\ [r EXCEPT !.link = "silent"].with = r.with
  BY DEF IsRoster
<1> QED
  BY <1>1, GoOnwardIs, DoesNothing DEF AudioSilent, Sound

\* A link that failed goes on to the next one (audio_failed).
LEMMA AudioFailedIs ==
  ASSUME NEW r, IsRoster(r)
  PROVE  Sound(AudioFailed(r), r.with)
<1>1. IsRoster([r EXCEPT !.link = "failed"]) /\ [r EXCEPT !.link = "failed"].with = r.with
  BY DEF IsRoster
<1> QED
  BY <1>1, GoOnwardIs, DoesNothing DEF AudioFailed, Sound

\* A link that is back changes nothing of the audio (audio_recovered).
LEMMA AudioRecoveredIs ==
  ASSUME NEW r, IsRoster(r)
  PROVE  IsRoster(AudioRecovered(r)) /\ AudioRecovered(r).with = r.with
  BY DEF AudioRecovered, IsRoster

\* When the one the audio is with leaves, it is stopped first (left).
LEMMA LeftIs ==
  ASSUME NEW r, IsRoster(r), NEW id
  PROVE  Sound(Left(r, id), r.with)
<1> DEFINE rest == [r EXCEPT !.peers = Without(@, {id}),
                          !.leftBehind = @ \ {id}]
           start == StartWith(ForgetTheAudio(rest), rest.peers)
           d == Decides(start.roster, <<Stop, Advertise>> \o start.audio)
<1>1. IsRoster(rest) /\ rest.with = r.with
  BY DEF IsRoster
<1>2. Left(r, id) = IF r.with # id THEN Decides(rest, <<>>) ELSE d
  BY DEF Left
<1>3. Starts(start, Nobody)
  BY <1>1, ForgottenIs, StartWithIs, Zenon
<1> HIDE DEF rest, start
<1>4. IsOfAddress(Advertise)
  BY DEF Advertise, IsOfAddress
<1>5. d.roster = start.roster /\ d.audio = <<Stop, Advertise>> \o start.audio
  BY DEF Decides
<1>6. IsRoster(d.roster) /\ d.roster.with = start.roster.with
  BY <1>3, <1>5, Zenon DEF Starts
<1>7. StopsFirst(d)
  BY <1>3, <1>4, <1>5, <1>6, StopsThenStarts
<1> QED
  BY <1>1, <1>2, <1>7, DoesNothing, Zenon DEF Sound

\* What is left to do for someone who has just entered a room.
ToStart(r, todo) ==
    \/ todo = <<Advertise>> /\ r.with = Nobody
    \/ \E s : todo = <<Advertise, s>> /\ s.do = "start" /\ s.peer = r.with

\* Who enters a room starts with the first who can be reached (entered).
LEMMA EnteredIs ==
  ASSUME NEW r, IsRoster(r), NEW own, NEW peers
  PROVE  LET d == Entered(r, own, peers)
         IN  IsRoster(d.roster) /\ ToStart(d.roster, d.audio)
<1> DEFINE ownIds == r.ownIds \cup {own}
           here == [ForgetTheAudio(r) EXCEPT
                   !.ownIds = ownIds, !.leftBehind = {},
                   !.peers = Without(peers, ownIds)]
           start == StartWith(here, here.peers)
           d == Decides(start.roster, <<Advertise>> \o start.audio)
<1>1. Entered(r, own, peers) = d
  BY DEF Entered
<1>2. IsRoster(here) /\ here.with = Nobody
  BY ForgottenIs DEF IsRoster
<1>3. Starts(start, Nobody)
  BY <1>2, StartWithIs, Zenon
<1> HIDE DEF here, start
<1>4. d.roster = start.roster /\ d.audio = <<Advertise>> \o start.audio
  BY DEF Decides
<1>5. IsRoster(d.roster) /\ ToStart(d.roster, d.audio)
  BY <1>3, <1>4 DEF Starts, ToStart
<1> QED
  BY <1>1, <1>5, Zenon

-----------------------------------------------------------------------------
\* A set of natural numbers that is not empty has a least one.
LEMMA Least ==
  ASSUME NEW T, T \subseteq Nat, T # {}
  PROVE  \E x \in T : \A y \in T : x <= y
<1>1. PICK x \in T : \A y \in T : ~(<<y, x>> \in OpToRel(<, Nat))
  BY NatLessThanWellFounded, WFMin, Zenon
<1>2. ASSUME NEW y \in T
      PROVE  x <= y
  <2>1. <<y, x>> \in OpToRel(<, Nat) <=> y < x
    BY SMT DEF OpToRel
  <2>2. ~(y < x)
    BY <1>1, <2>1, Zenon
  <2> QED
    BY <2>2
<1> QED
  BY <1>2

\* What is kept of the first n peers.
KeptOf(peers, ids, kept, n) ==
    kept = [i \in 0 .. n |-> IF i = 0 THEN <<>>
                             ELSE IF peers[i].id \in ids THEN kept[i - 1]
                             ELSE Append(kept[i - 1], peers[i])]

LEMMA KeptExists ==
  ASSUME NEW peers, NEW ids, NEW n \in Nat
  PROVE  \E kept : KeptOf(peers, ids, kept, n)
<1> DEFINE T == {m \in Nat : ~\E kept : KeptOf(peers, ids, kept, m)}
<1>1. SUFFICES ASSUME T # {} PROVE FALSE
  OBVIOUS
<1>2. PICK m \in T : \A y \in T : m <= y
  BY <1>1, Least, Zenon
<1>3. CASE m = 0
  <2>1. KeptOf(peers, ids, [i \in 0 .. 0 |-> <<>>], 0)
    BY DEF KeptOf
  <2> QED
    BY <1>2, <1>3, <2>1, Zenon
<1>4. CASE m # 0
  <2>1. m - 1 \in Nat /\ m - 1 \notin T
    BY <1>2, <1>4
  <2>2. PICK kept : KeptOf(peers, ids, kept, m - 1)
    BY <2>1, Zenon
  <2> DEFINE next == IF peers[m].id \in ids THEN kept[m - 1] ELSE Append(kept[m - 1], peers[m])
             more == [i \in 0 .. m |-> IF i = m THEN next ELSE kept[i]]
  <2>3. ASSUME NEW i \in 0 .. m
        PROVE  more[i] = IF i = 0 THEN <<>>
                         ELSE IF peers[i].id \in ids THEN more[i - 1]
                         ELSE Append(more[i - 1], peers[i])
    <3>1. CASE i = m
      <4>1. more[i] = next /\ more[i - 1] = kept[m - 1]
        BY <1>2, <1>4, <3>1
      <4> QED
        BY <1>4, <3>1, <4>1, Zenon
    <3>2. CASE i # m
      <4>1. i \in 0 .. m - 1 /\ (i # 0 => i - 1 \in 0 .. m - 1)
        BY <1>2, <1>4, <3>2
      <4>2. more[i] = kept[i] /\ (i # 0 => more[i - 1] = kept[i - 1])
        BY <1>2, <3>2, <4>1
      <4>3. kept[i] = IF i = 0 THEN <<>>
                      ELSE IF peers[i].id \in ids THEN kept[i - 1]
                      ELSE Append(kept[i - 1], peers[i])
        BY <2>2, <4>1, Zenon DEF KeptOf
      <4> HIDE DEF more
      <4> QED
        BY <4>2, <4>3, Zenon
    <3> QED
      BY <3>1, <3>2
  <2>4. more = [i \in 0 .. m |-> more[i]]
    OBVIOUS
  <2> HIDE DEF more
  <2>5. more = [i \in 0 .. m |-> IF i = 0 THEN <<>>
                         ELSE IF peers[i].id \in ids THEN more[i - 1]
                         ELSE Append(more[i - 1], peers[i])]
    BY <2>3, <2>4, Zenon
  <2>6. KeptOf(peers, ids, more, m)
    BY <2>5, Zenon DEF KeptOf
  <2> QED
    BY <1>2, <2>6, Zenon
<1> QED
  BY <1>3, <1>4

\* Those of the peers in S that are none of `ids`.
OthersIn(S, peers, ids) == {x \in S : x.id \notin ids /\ \E i \in DOMAIN peers : x = peers[i]}

\* What is kept is a sequence of the peers that are none of `ids`.
LEMMA WithoutIs ==
  ASSUME NEW S, NEW peers \in Seq(S), NEW ids
  PROVE  Without(peers, ids) \in Seq(OthersIn(S, peers, ids))
<1> DEFINE K == OthersIn(S, peers, ids)
           kept == CHOOSE f : KeptOf(peers, ids, f, Len(peers))
           T == {m \in Nat : m <= Len(peers) /\ kept[m] \notin Seq(K)}
<1>1. Len(peers) \in Nat /\ DOMAIN peers = 1 .. Len(peers)
  OBVIOUS
<1>2. KeptOf(peers, ids, kept, Len(peers))
  BY <1>1, KeptExists, Zenon
<1>3. Without(peers, ids) = kept[Len(peers)]
  BY Zenon DEF Without, KeptOf
<1> HIDE DEF kept
<1>4. SUFFICES ASSUME kept[Len(peers)] \notin Seq(K) PROVE FALSE
  BY <1>3, Zenon
<1>5. PICK m \in T : \A y \in T : m <= y
  <2>1. T \subseteq Nat /\ Len(peers) \in T
    BY <1>1, <1>4
  <2> QED
    BY <2>1, Least, Zenon
<1>6. m \in 0 .. Len(peers)
  BY <1>1, <1>5
<1>7. kept[m] = IF m = 0 THEN <<>>
                ELSE IF peers[m].id \in ids THEN kept[m - 1]
                ELSE Append(kept[m - 1], peers[m])
  BY <1>2, <1>6, Zenon DEF KeptOf
<1>8. <<>> \in Seq(K)
  OBVIOUS
<1>9. CASE m # 0
  <2>1. m - 1 \in Nat /\ m - 1 <= Len(peers) /\ m - 1 \notin T
    BY <1>1, <1>5, <1>9
  <2>2. kept[m - 1] \in Seq(K)
    BY <2>1, Zenon
  <2>3. peers[m].id \notin ids => peers[m] \in K
    BY <1>1, <1>6, <1>9 DEF OthersIn
  <2> HIDE DEF K
  <2>4. peers[m].id \notin ids => Append(kept[m - 1], peers[m]) \in Seq(K)
    BY <2>2, <2>3
  <2>5. kept[m] \in Seq(K)
    BY <1>7, <1>9, <2>2, <2>4, Zenon
  <2> QED
    BY <1>5, <2>5
<1> QED
  BY <1>5, <1>7, <1>8, <1>9, Zenon

-----------------------------------------------------------------------------
(* Who is known, and whether somebody is passed over. *)

\* Peers the server lists as one of `here`, that are none of `own` and have published
\* what can be sent to, if anything.
PeersOf(here, own) == {x \in PeerInfos : x.id \in here /\ x.id \notin own /\ x.addr # BindOnly}

\* The roster r is of a room with `here`.
Known(r, here) ==
    /\ r \in Rosters
    /\ r.with = Nobody <=> r.startedWith = 0
    /\ r.peers \in Seq(PeersOf(here, r.ownIds))
    /\ r.with # Nobody => r.with \in here /\ r.with \notin r.ownIds

\* Nobody in r who can be heard is passed over.
Complete(r) ==
    \A i \in DOMAIN r.peers :
        HasAddress(r.peers[i]) =>
            /\ r.with # Nobody
            /\ r.link = "failed" => r.peers[i].id \in r.leftBehind \cup {r.with}

\* No audio is started with nobody.
Someone(d) == (\E i \in DOMAIN d.audio : d.audio[i].do = "start") => d.roster.with # Nobody

\* A roster of some room has a roster's fields.
LEMMA KnownIsRoster ==
  ASSUME NEW r, NEW here, Known(r, here)
  PROVE  IsRoster(r)
<1>1. r \in Rosters
  BY DEF Known
<1> QED
  BY <1>1 DEF Rosters, IsRoster

\* Who is in a room: an id, and an address when there is one.
LEMMA PeerIs ==
  ASSUME NEW here, NEW own, NEW p \in PeersOf(here, own)
  PROVE  /\ p \in PeerInfos /\ p.id \in Ids /\ p.id # Nobody /\ p.id \in here /\ p.id \notin own
         /\ p.addr \in {0} \cup Addresses /\ p.addr \in Nat
         /\ (Published(p) <=> HasAddress(p))
         /\ (HasAddress(p) <=> p.addr \in Addresses)
<1>1. p \in PeerInfos /\ p.id \in here /\ p.id \notin own /\ p.addr # BindOnly
  BY DEF PeersOf
<1>2. p.id \in Ids /\ p.id # Nobody /\ p.addr \in {0} \cup Addresses
  BY <1>1, RosterAssumption DEF PeerInfos
<1>3. /\ p.addr \in Nat
      /\ (Published(p) <=> HasAddress(p))
      /\ (HasAddress(p) <=> p.addr \in Addresses)
  <2>1. p.addr \in Nat /\ 0 \notin Addresses
    <3> DEFINE a == p.addr
    <3>1. a \in {0} \cup Addresses
      BY <1>2
    <3> HIDE DEF a
    <3>2. a \in Nat /\ 0 \notin Addresses
      <4>1. \A x \in Addresses : x \in Nat \ {0}
        BY RosterAssumption, Zenon
      <4>2. 0 \notin Addresses
        BY <4>1
      <4>3. a \in Nat
        BY <4>1, <3>1
      <4> QED
        BY <4>2, <4>3
    <3> QED
      BY <3>2 DEF a
  <2>2. p.addr # 0 <=> p.addr \in Addresses
    BY <1>2, <2>1
  <2>3. p.addr > 0 <=> p.addr # 0
    BY <2>1
  <2> QED
    BY <2>1, <2>2, <2>3 DEF Published, HasAddress
<1> QED
  BY <1>1, <1>2, <1>3

\* The first of a list is found if there is one.
LEMMA PublishedFirst ==
  ASSUME NEW S, NEW peers \in Seq(S)
  PROVE  LET first == SelectInSeq(peers, Published)
         IN  /\ first # 0 => first \in DOMAIN peers /\ Published(peers[first])
             /\ first = 0 => \A i \in DOMAIN peers : ~Published(peers[i])
<1> DEFINE I == {i \in 1 .. Len(peers) : Published(peers[i])}
           first == SelectInSeq(peers, Published)
<1>1. first = IF I # {} THEN Min(I) ELSE 0
  BY Zenon DEF SelectInSeq
<1>2. I \subseteq Nat /\ DOMAIN peers = 1 .. Len(peers)
  OBVIOUS
<1>3. CASE I # {}
  <2>1. \E x \in I : \A y \in I : x <= y
    BY <1>2, <1>3, Least, Zenon
  <2>2. Min(I) \in I
    BY <2>1, Zenon DEF Min
  <2> QED
    BY <1>1, <1>2, <1>3, <2>2
<1>4. CASE I = {}
  BY <1>1, <1>2, <1>4
<1> QED
  BY <1>3, <1>4

\* The audio is started with one of `peers` unless none can be sent to.
LEMMA StartWithKnows ==
  ASSUME NEW r, NEW here, Known(r, here),
         NEW peers \in Seq(PeersOf(here, r.ownIds))
  PROVE  LET d == StartWith(r, peers)
         IN  /\ Known(d.roster, here)
             /\ d.roster.peers = r.peers /\ d.roster.ownIds = r.ownIds
             /\ d.roster.leftBehind = r.leftBehind
             /\ d.audio = <<>> \/ d.roster.with # Nobody
             /\ r.with # Nobody => d.roster = r
             /\ r.with = Nobody =>
                  \/ d.roster = r /\ \A i \in DOMAIN peers : ~HasAddress(peers[i])
                  \/ d.roster.with # Nobody /\ d.roster.link = "healthy"
<1> DEFINE first == SelectInSeq(peers, Published)
           peer == peers[first]
           to == [r EXCEPT !.with = peer.id, !.startedWith = peer.addr, !.link = "healthy"]
<1>1. /\ first # 0 => first \in DOMAIN peers /\ Published(peer)
      /\ first = 0 => \A i \in DOMAIN peers : ~Published(peers[i])
  BY PublishedFirst, Zenon
<1>2. \A i \in DOMAIN peers : Published(peers[i]) <=> HasAddress(peers[i])
  <2>1. \A i \in DOMAIN peers : peers[i] \in PeersOf(here, r.ownIds)
    OBVIOUS
  <2> QED
    BY <2>1, PeerIs
<1> HIDE DEF first
<1>3. CASE r.with = Nobody /\ first # 0
  <2>1. peer \in PeersOf(here, r.ownIds) /\ HasAddress(peer)
    BY <1>1, <1>2, <1>3
  <2>2. peer.id \in Ids /\ peer.id # Nobody /\ peer.id \in here /\ peer.id \notin r.ownIds
        /\ peer.addr \in Addresses /\ peer.addr # 0
    BY <2>1, PeerIs, RosterAssumption
  <2>3. StartWith(r, peers) = Decides(to, <<Start(peer)>>)
    BY <1>3, <2>1, Zenon DEF StartWith, first
  <2>4. r \in Rosters /\ r.peers \in Seq(PeersOf(here, r.ownIds))
    BY DEF Known
  <2> HIDE DEF peer
  <2>5. /\ to \in Rosters /\ to.with = peer.id /\ to.startedWith = peer.addr /\ to.link = "healthy"
        /\ to.peers = r.peers /\ to.ownIds = r.ownIds /\ to.leftBehind = r.leftBehind
    BY <2>2, <2>4 DEF Rosters
  <2>6. Known(to, here)
    BY <2>2, <2>4, <2>5, Zenon DEF Known
  <2>7. StartWith(r, peers).roster = to
    BY <2>3 DEF Decides
  <2> HIDE DEF to
  <2> QED
    BY <1>3, <2>2, <2>5, <2>6, <2>7
<1>4. CASE ~(r.with = Nobody /\ first # 0)
  <2>1. StartWith(r, peers).roster = r /\ StartWith(r, peers).audio = <<>>
    BY <1>4 DEF StartWith, first, Decides
  <2> QED
    BY <1>1, <1>2, <1>4, <2>1
<1> QED
  BY <1>3, <1>4

\* Whom the audio may move to is found if there is one.
LEMMA OnwardFirst ==
  ASSUME NEW r, NEW S, r.peers \in Seq(S)
  PROVE  LET onward == SelectInSeq(r.peers, LAMBDA p : MayGoOnTo(r, p))
         IN  /\ onward # 0 => onward \in DOMAIN r.peers /\ MayGoOnTo(r, r.peers[onward])
             /\ onward = 0 => \A i \in DOMAIN r.peers : ~MayGoOnTo(r, r.peers[i])
<1> DEFINE I == {i \in 1 .. Len(r.peers) : MayGoOnTo(r, r.peers[i])}
           onward == SelectInSeq(r.peers, LAMBDA p : MayGoOnTo(r, p))
<1>1. onward = IF I # {} THEN Min(I) ELSE 0
  BY Zenon DEF SelectInSeq
<1>2. I \subseteq Nat /\ DOMAIN r.peers = 1 .. Len(r.peers)
  OBVIOUS
<1>3. CASE I # {}
  <2>1. \E x \in I : \A y \in I : x <= y
    BY <1>2, <1>3, Least, Zenon
  <2>2. Min(I) \in I
    BY <2>1, Zenon DEF Min
  <2>3. Min(I) # 0
    BY <2>2
  <2> QED
    BY <1>1, <1>2, <1>3, <2>2, <2>3
<1>4. CASE I = {}
  BY <1>1, <1>2, <1>4
<1> QED
  BY <1>3, <1>4

\* With a link that is down the audio moves on to someone who may be heard, or there is
\* nobody.
LEMMA GoOnwardKnows ==
  ASSUME NEW r, NEW here, Known(r, here), r.with # Nobody
  PROVE  LET d == GoOnward(r)
         IN  /\ Known(d.roster, here) /\ Complete(d.roster) /\ d.roster.ownIds = r.ownIds
             /\ d.roster.with # Nobody
<1> DEFINE onward == SelectInSeq(r.peers, LAMBDA p : MayGoOnTo(r, p))
           next == r.peers[onward]
           none == [r EXCEPT !.with = Nobody]
           start == StartWith(none, <<next>>)
           left == [start.roster EXCEPT !.leftBehind = IF next.id = r.with THEN @
                                                         ELSE @ \cup {r.with}]
<1>2. r \in Rosters /\ r.peers \in Seq(PeersOf(here, r.ownIds))
  BY DEF Known
<1>1. /\ onward # 0 => onward \in DOMAIN r.peers /\ MayGoOnTo(r, next)
      /\ onward = 0 => \A i \in DOMAIN r.peers : ~MayGoOnTo(r, r.peers[i])
  BY <1>2, OnwardFirst, Zenon
<1> HIDE DEF onward
<1>3. CASE r.link = "healthy" \/ onward = 0
  <2>1. GoOnward(r).roster = r
    BY <1>3 DEF GoOnward, onward, Decides
  <2>2. ASSUME NEW i \in DOMAIN r.peers, HasAddress(r.peers[i]), r.link = "failed"
        PROVE  r.peers[i].id \in r.leftBehind \cup {r.with}
    <3>1. ~MayGoOnTo(r, r.peers[i])
      BY <1>1, <1>3, <2>2
    <3> QED
      BY <2>2, <3>1 DEF MayGoOnTo
  <2> QED
    BY <2>1, <2>2 DEF Complete
<1>4. CASE ~(r.link = "healthy" \/ onward = 0)
  <2>1. next \in PeersOf(here, r.ownIds) /\ HasAddress(next)
    BY <1>1, <1>2, <1>4 DEF MayGoOnTo
  <2>2. /\ next.id \in Ids /\ next.id # Nobody /\ next.id \in here /\ next.id \notin r.ownIds
        /\ next.addr \in Addresses /\ Published(next)
    BY <2>1, PeerIs
  <2>3. GoOnward(r).roster = left
    BY <1>4, Zenon DEF GoOnward, onward, Decides
  <2> HIDE DEF next
  <2>4. SelectInSeq(<<next>>, Published) = 1
    <3> DEFINE I == {i \in 1 .. Len(<<next>>) : Published(<<next>>[i])}
    <3>1. I = {1}
      BY <2>2
    <3> HIDE DEF I
    <3>2. SelectInSeq(<<next>>, Published) = Min(I)
      BY <3>1, Zenon DEF SelectInSeq, I
    <3>3. Min({1}) = 1
      BY DEF Min
    <3> QED
      BY <3>1, <3>2, <3>3
  <2> DEFINE to == [none EXCEPT !.with = next.id, !.startedWith = next.addr, !.link = "healthy"]
  <2>5. start.roster = to
    <3>1. none.with = Nobody
      BY <1>2 DEF Rosters
    <3>2. <<next>>[1] = next
      OBVIOUS
    <3> DEFINE list == <<next>>
    <3> HIDE DEF none, next, list
    <3>3. StartWith(none, list) = Decides([none EXCEPT !.with = list[1].id,
                 !.startedWith = list[1].addr, !.link = "healthy"], <<Start(list[1])>>)
      <4>1. SelectInSeq(list, Published) = 1 /\ 1 # 0 /\ HasAddress(list[1])
        BY <2>1, <2>4, <3>2 DEF list
      <4> QED
        BY <3>1, <4>1, Zenon DEF StartWith
    <3> QED
      BY <3>2, <3>3 DEF list, Decides
  <2>6. /\ to \in Rosters /\ to.with = next.id /\ to.startedWith = next.addr
        /\ to.link = "healthy" /\ to.peers = r.peers /\ to.ownIds = r.ownIds
        /\ to.leftBehind = r.leftBehind
    BY <1>2, <2>2 DEF Rosters
  <2> HIDE DEF to, start
  <2>7. /\ left \in Rosters /\ left.with = next.id /\ left.startedWith = next.addr
        /\ left.link = "healthy" /\ left.peers = r.peers /\ left.ownIds = r.ownIds
    <3>1. r.with \in Ids
      BY <1>2 DEF Rosters
    <3> QED
      BY <2>5, <2>6, <3>1 DEF Rosters
  <2> HIDE DEF left
  <2>8. next.addr # 0
    BY <2>2, RosterAssumption
  <2>9. Known(left, here)
    BY <1>2, <2>2, <2>7, <2>8, Zenon DEF Known
  <2>10. Complete(left)
    BY <2>2, <2>7 DEF Complete
  <2> QED
    BY <2>2, <2>3, <2>7, <2>9, <2>10
<1> QED
  BY <1>3, <1>4

\* A roster of a room that forgets the audio is still of that room.
LEMMA ForgottenKnows ==
  ASSUME NEW r, NEW here, Known(r, here)
  PROVE  LET f == ForgetTheAudio(r)
         IN  /\ Known(f, here) /\ f.with = Nobody /\ f.link = "healthy"
             /\ f.peers = r.peers /\ f.ownIds = r.ownIds
<1> DEFINE f == ForgetTheAudio(r)
<1>1. r \in Rosters /\ r.peers \in Seq(PeersOf(here, r.ownIds))
  BY DEF Known
<1>2. /\ f \in Rosters /\ f.with = Nobody /\ f.startedWith = 0 /\ f.link = "healthy"
      /\ f.peers = r.peers /\ f.ownIds = r.ownIds
  BY <1>1 DEF ForgetTheAudio, Rosters
<1> HIDE DEF f
<1>3. Known(f, here)
  BY <1>1, <1>2 DEF Known
<1> QED
  BY <1>2, <1>3 DEF f

\* A roster knows its peers wherever they are.
LEMMA KnownAnywhere ==
  ASSUME NEW r, NEW here, Known(r, here)
  PROVE  Known(r, Ids)
<1>1. r \in Rosters /\ r.peers \in Seq(PeersOf(here, r.ownIds))
  BY DEF Known
<1>2. PeersOf(here, r.ownIds) \subseteq PeersOf(Ids, r.ownIds)
  BY DEF PeersOf, PeerInfos
<1>3. r.peers \in Seq(PeersOf(Ids, r.ownIds))
  BY <1>1, <1>2, SeqMonotonic
<1>4. r.with # Nobody => r.with \in Ids
  BY <1>1 DEF Rosters
<1> QED
  BY <1>1, <1>3, <1>4, Zenon DEF Known

\* More participants than a roster knows of may be there.
LEMMA KnownMore ==
  ASSUME NEW r, NEW here, Known(r, here), NEW more, here \subseteq more
  PROVE  Known(r, more)
<1>1. r \in Rosters /\ r.peers \in Seq(PeersOf(here, r.ownIds))
  BY DEF Known
<1>2. PeersOf(here, r.ownIds) \subseteq PeersOf(more, r.ownIds)
  BY DEF PeersOf
<1>3. r.peers \in Seq(PeersOf(more, r.ownIds))
  BY <1>1, <1>2, SeqMonotonic
<1> QED
  BY <1>1, <1>3 DEF Known

\* Someone without an address joins (joined).
LEMMA JoinedKnows ==
  ASSUME NEW r, NEW here, Known(r, here), NEW peer \in PeersOf(here, r.ownIds)
  PROVE  LET j == Joined(r, peer)
         IN  /\ Known(j, here) /\ j.ownIds = r.ownIds
             /\ ~HasAddress(peer) /\ Complete(r) => Complete(j)
<1> DEFINE j == Joined(r, peer)
           more == Append(r.peers, peer)
<1>1. r \in Rosters /\ r.peers \in Seq(PeersOf(here, r.ownIds))
  BY DEF Known
<1>2. j = r \/ j = [r EXCEPT !.peers = more]
  BY DEF Joined
<1>3. more \in Seq(PeersOf(here, r.ownIds)) /\ more \in Seq(PeerInfos)
  <2>1. PeersOf(here, r.ownIds) \subseteq PeerInfos
    BY DEF PeersOf
  <2>2. more \in Seq(PeersOf(here, r.ownIds))
    BY <1>1
  <2> QED
    BY <2>1, <2>2, SeqMonotonic
<1>4. \A i \in DOMAIN more : more[i] = peer \/ (i \in DOMAIN r.peers /\ more[i] = r.peers[i])
  BY <1>1
<1> HIDE DEF j, more
<1>5. CASE j = r
  BY <1>5 DEF j
<1>6. CASE j = [r EXCEPT !.peers = more]
  <2>1. /\ j \in Rosters /\ j.peers = more /\ j.with = r.with /\ j.startedWith = r.startedWith
        /\ j.link = r.link /\ j.ownIds = r.ownIds /\ j.leftBehind = r.leftBehind
    BY <1>1, <1>3, <1>6 DEF Rosters
  <2>2. Known(j, here)
    BY <1>3, <2>1, Zenon DEF Known
  <2>3. ASSUME ~HasAddress(peer), Complete(r) PROVE Complete(j)
    BY <1>4, <2>1, <2>3 DEF Complete
  <2> QED
    BY <2>1, <2>2, <2>3 DEF j
<1> QED
  BY <1>2, <1>5, <1>6 DEF j

\* A participant's new address is put in its place, and the audio goes by it
\* (updated).
LEMMA UpdatedKnows ==
  ASSUME NEW r, NEW here, Known(r, here), NEW peer \in PeersOf(here, r.ownIds)
  PROVE  LET d == Updated(r, peer)
         IN  /\ Known(d.roster, here) /\ d.roster.ownIds = r.ownIds /\ Someone(d)
             /\ Complete(r) => Complete(d.roster)
<1> DEFINE peers == [i \in DOMAIN r.peers |->
                        IF r.peers[i].id = peer.id THEN peer ELSE r.peers[i]]
           known == [r EXCEPT !.peers = peers, !.leftBehind = @ \ {peer.id}]
           K == PeersOf(here, r.ownIds)
<1>1. r \in Rosters /\ r.peers \in Seq(K)
  BY DEF Known
<1>2. Updated(r, peer) = IF known.with = Nobody THEN StartWith(known, <<peer>>) ELSE GoOnward(known)
  <2>1. known = [r EXCEPT
                    !.peers = [i \in DOMAIN @ |->
                                 IF @[i].id = peer.id THEN peer ELSE @[i]],
                    !.leftBehind = @ \ {peer.id}]
    OBVIOUS
  <2> QED
    BY <2>1 DEF Updated
<1> K \subseteq PeerInfos
  BY DEF PeersOf
<1> HIDE DEF K
<1>3. peers \in Seq(K)
  <2>1. r.peers \in [1 .. Len(r.peers) -> K] /\ Len(r.peers) \in Nat
    BY <1>1
  <2>2. peers \in [1 .. Len(r.peers) -> K]
    BY <2>1 DEF K
  <2> HIDE DEF peers
  <2> QED
    BY <2>1, <2>2, SeqDef
<1>4. \A i \in DOMAIN peers : peers[i] = peer \/ (i \in DOMAIN r.peers /\ peers[i] = r.peers[i])
  OBVIOUS
<1> HIDE DEF peers
<1>5. /\ known \in Rosters /\ known.peers = peers /\ known.with = r.with
      /\ known.startedWith = r.startedWith /\ known.link = r.link /\ known.ownIds = r.ownIds
  <2>1. peers \in Seq(PeerInfos)
    BY <1>3, SeqMonotonic
  <2> QED
    BY <1>1, <2>1 DEF Rosters
<1> HIDE DEF known
<1>6. Known(known, here)
  BY <1>3, <1>5, Zenon DEF Known, K
<1>7. CASE r.with # Nobody
  BY <1>2, <1>5, <1>6, <1>7, GoOnwardKnows DEF Someone
<1>8. CASE r.with = Nobody
  <2> DEFINE list == <<peer>>
             d == StartWith(known, list)
  <2>1. list \in Seq(PeersOf(here, known.ownIds)) /\ 1 \in DOMAIN list /\ list[1] = peer
    <3>1. known.ownIds = r.ownIds
      BY <1>5
    <3> QED
      BY <3>1
  <2> HIDE DEF list
  <2>2. /\ Known(d.roster, here)
        /\ d.roster.peers = known.peers /\ d.roster.ownIds = known.ownIds
        /\ \/ d.roster = known /\ \A i \in DOMAIN list : ~HasAddress(list[i])
           \/ d.roster.with # Nobody /\ d.roster.link = "healthy"
    BY <1>5, <1>6, <1>8, <2>1, StartWithKnows
  <2>9. d.audio = <<>> \/ d.roster.with # Nobody
    BY <1>6, <2>1, StartWithKnows
  <2> HIDE DEF d
  <2>3. d.roster = known => ~HasAddress(peer) \/ (d.roster.with # Nobody /\ d.roster.link = "healthy")
    BY <2>1, <2>2
  <2>4. ASSUME Complete(r) PROVE Complete(d.roster)
    <3>1. CASE d.roster.with # Nobody /\ d.roster.link = "healthy"
      BY <3>1 DEF Complete
    <3>2. CASE d.roster = known /\ ~HasAddress(peer)
      BY <1>4, <1>5, <1>8, <2>4, <3>2 DEF Complete
    <3> QED
      BY <2>2, <2>3, <3>1, <3>2
  <2>5. Updated(r, peer) = d
    BY <1>2, <1>5, <1>8 DEF d, list
  <2>6. Someone(d)
    BY <2>9 DEF Someone
  <2> QED
    BY <1>5, <2>2, <2>4, <2>5, <2>6
<1> QED
  BY <1>7, <1>8

\* A link that is silent or failed changes nothing of who is there (audio_silent,
\* audio_failed, audio_recovered).
LEMMA LinkKnows ==
  ASSUME NEW r, NEW here, Known(r, here)
  PROVE  /\ Known(AudioSilent(r).roster, here) /\ (Complete(r) => Complete(AudioSilent(r).roster))
         /\ AudioSilent(r).roster.ownIds = r.ownIds /\ Someone(AudioSilent(r))
         /\ Known(AudioFailed(r).roster, here) /\ (Complete(r) => Complete(AudioFailed(r).roster))
         /\ AudioFailed(r).roster.ownIds = r.ownIds /\ Someone(AudioFailed(r))
         /\ Known(AudioRecovered(r), here) /\ (Complete(r) => Complete(AudioRecovered(r)))
         /\ AudioRecovered(r).ownIds = r.ownIds
<1> DEFINE now(link) == [r EXCEPT !.link = link]
<1>1. r \in Rosters /\ r.peers \in Seq(PeersOf(here, r.ownIds))
  BY DEF Known
<1>2. ASSUME NEW link \in {"healthy", "silent", "failed"}
      PROVE  /\ Known(now(link), here) /\ now(link).with = r.with /\ now(link).ownIds = r.ownIds
             /\ now(link).link = link /\ now(link).peers = r.peers
  <2>1. /\ now(link) \in Rosters /\ now(link).with = r.with /\ now(link).peers = r.peers
        /\ now(link).startedWith = r.startedWith /\ now(link).ownIds = r.ownIds
        /\ now(link).link = link
    BY <1>1 DEF Rosters
  <2> HIDE DEF now
  <2> QED
    BY <1>1, <2>1, Zenon DEF Known
<1>3. Decides(r, <<>>).roster = r /\ Someone(Decides(r, <<>>))
  BY DEF Decides, Someone
<1>4. AudioSilent(r) = Decides(r, <<>>) \/ (r.with # Nobody /\ AudioSilent(r) = GoOnward(now("silent")))
  BY DEF AudioSilent
<1>5. AudioFailed(r) = Decides(r, <<>>) \/ (r.with # Nobody /\ AudioFailed(r) = GoOnward(now("failed")))
  BY DEF AudioFailed
<1>6. AudioRecovered(r) = r \/ (r.with # Nobody /\ AudioRecovered(r) = now("healthy"))
  BY DEF AudioRecovered
<1> HIDE DEF now
<1>7. r.with # Nobody /\ Complete(r) => Complete(now("healthy"))
  BY <1>2 DEF Complete
<1>8. ASSUME NEW link \in {"silent", "failed"}, r.with # Nobody
      PROVE  LET d == GoOnward(now(link))
             IN  /\ Known(d.roster, here) /\ Complete(d.roster) /\ d.roster.ownIds = r.ownIds
                 /\ Someone(d)
  BY <1>2, <1>8, GoOnwardKnows DEF Someone
<1>9. /\ Known(AudioSilent(r).roster, here) /\ (Complete(r) => Complete(AudioSilent(r).roster))
      /\ AudioSilent(r).roster.ownIds = r.ownIds /\ Someone(AudioSilent(r))
  BY <1>3, <1>4, <1>8
<1>10. /\ Known(AudioFailed(r).roster, here) /\ (Complete(r) => Complete(AudioFailed(r).roster))
       /\ AudioFailed(r).roster.ownIds = r.ownIds /\ Someone(AudioFailed(r))
  BY <1>3, <1>5, <1>8
<1>11. /\ Known(AudioRecovered(r), here) /\ (Complete(r) => Complete(AudioRecovered(r)))
       /\ AudioRecovered(r).ownIds = r.ownIds
  BY <1>2, <1>6, <1>7
<1> QED
  BY <1>9, <1>10, <1>11

\* Who leaves is not known any longer, and the audio with them goes on to the first
\* who can be heard (left).
LEMMA LeftKnows ==
  ASSUME NEW r, NEW here, Known(r, here), NEW id
  PROVE  LET d == Left(r, id)
         IN  /\ Known(d.roster, here \ {id}) /\ d.roster.ownIds = r.ownIds /\ Someone(d)
             /\ Complete(r) => Complete(d.roster)
<1> DEFINE peers == Without(r.peers, {id})
           rest == [r EXCEPT !.peers = peers, !.leftBehind = @ \ {id}]
           forgot == ForgetTheAudio(rest)
           K == PeersOf(here, r.ownIds)
           L == OthersIn(K, r.peers, {id})
           M == PeersOf(here \ {id}, r.ownIds)
<1>1. r \in Rosters /\ r.peers \in Seq(K)
  BY DEF Known
<1>2. peers \in Seq(L)
  BY <1>1, WithoutIs, Zenon
<1>3. L \subseteq M /\ M \subseteq PeerInfos
  BY DEF PeersOf, OthersIn
<1>4. peers \in Seq(M) /\ peers \in Seq(PeerInfos)
  <2> HIDE DEF L, M, K
  <2> QED
    BY <1>2, <1>3, SeqMonotonic
<1>5. \A i \in DOMAIN peers : peers[i].id # id /\ \E j \in DOMAIN r.peers : peers[i] = r.peers[j]
  <2>1. \A i \in DOMAIN peers : peers[i] \in L
    <3> HIDE DEF L, peers
    <3> QED
      BY <1>2
  <2> QED
    BY <2>1 DEF OthersIn
<1> HIDE DEF peers, L, K, M
<1>6. /\ rest \in Rosters /\ rest.peers = peers /\ rest.with = r.with /\ rest.link = r.link
      /\ rest.startedWith = r.startedWith /\ rest.ownIds = r.ownIds
      /\ rest.leftBehind = r.leftBehind \ {id}
  BY <1>1, <1>4 DEF Rosters
<1>7. Left(r, id) = IF r.with # id THEN Decides(rest, <<>>)
                    ELSE Decides(StartWith(forgot, rest.peers).roster,
                                 <<Stop, Advertise>> \o StartWith(forgot, rest.peers).audio)
  BY DEF Left, peers
<1>8. CASE r.with # id
  <2>1. Left(r, id).roster = rest /\ Someone(Left(r, id))
    BY <1>7, <1>8 DEF Decides, Someone
  <2> HIDE DEF rest
  <2>2. Known(rest, here \ {id})
    BY <1>4, <1>6, <1>8 DEF Known, M
  <2>3. ASSUME Complete(r) PROVE Complete(rest)
    <3> SUFFICES ASSUME NEW i \in DOMAIN peers, HasAddress(peers[i])
                 PROVE  /\ r.with # Nobody
                        /\ r.link = "failed" => peers[i].id \in (r.leftBehind \ {id}) \cup {r.with}
      BY <1>6 DEF Complete
    <3>1. PICK j \in DOMAIN r.peers : peers[i] = r.peers[j]
      BY <1>5
    <3> QED
      BY <1>5, <2>3, <3>1 DEF Complete
  <2> QED
    BY <1>6, <2>1, <2>2, <2>3
<1>9. CASE r.with = id
  <2>1. /\ forgot \in Rosters /\ forgot.with = Nobody /\ forgot.startedWith = 0
        /\ forgot.link = "healthy" /\ forgot.peers = peers /\ forgot.ownIds = r.ownIds
    BY <1>6 DEF ForgetTheAudio, Rosters
  <2>2. /\ Left(r, id).roster = StartWith(forgot, peers).roster
        /\ Left(r, id).audio = <<Stop, Advertise>> \o StartWith(forgot, peers).audio
    BY <1>6, <1>7, <1>9 DEF Decides
  <2> HIDE DEF forgot
  <2>3. Known(forgot, here \ {id})
    BY <1>4, <2>1, Zenon DEF Known, M
  <2> DEFINE d == StartWith(forgot, peers)
  <2>4. /\ Known(d.roster, here \ {id})
        /\ d.roster.peers = peers /\ d.roster.ownIds = r.ownIds
        /\ d.audio = <<>> \/ d.roster.with # Nobody
        /\ \/ d.roster = forgot /\ \A i \in DOMAIN peers : ~HasAddress(peers[i])
           \/ d.roster.with # Nobody /\ d.roster.link = "healthy"
    BY <1>4, <2>1, <2>3, StartWithKnows DEF M
  <2> HIDE DEF d
  <2>5. Complete(d.roster)
    BY <2>4 DEF Complete
  <2>6. Someone(Left(r, id))
    <3>1. CASE d.audio = <<>>
      <4>1. <<Stop, Advertise>> \in Seq({Stop, Advertise})
        OBVIOUS
      <4>2. Left(r, id).audio = <<Stop, Advertise>>
        BY <2>2, <3>1, <4>1, ConcatEmptySeq DEF d
      <4>3. \A i \in DOMAIN <<Stop, Advertise>> : <<Stop, Advertise>>[i].do # "start"
        BY DEF Stop, Advertise
      <4> QED
        BY <4>2, <4>3 DEF Someone
    <3>2. CASE d.roster.with # Nobody
      BY <2>2, <3>2 DEF Someone, d
    <3> QED
      BY <2>4, <3>1, <3>2
  <2> QED
    BY <2>2, <2>4, <2>5, <2>6 DEF d
<1> QED
  BY <1>8, <1>9

\* Who enters a room knows those who are there, this app's own entries but for
\* (entered).
LEMMA EnteredKnows ==
  ASSUME NEW r, NEW there, Known(r, there), NEW here, NEW own \in Ids,
         NEW peers \in Seq(PeersOf(here, {}))
  PROVE  LET d == Entered(r, own, peers)
         IN  /\ Known(d.roster, here) /\ d.roster.ownIds = r.ownIds \cup {own} /\ Someone(d)
             /\ Complete(d.roster)
<1> DEFINE ownIds == r.ownIds \cup {own}
           others == Without(peers, ownIds)
           forgot == ForgetTheAudio(r)
           now == [forgot EXCEPT !.ownIds = ownIds, !.leftBehind = {}, !.peers = others]
           K == PeersOf(here, {})
           L == OthersIn(K, peers, ownIds)
           M == PeersOf(here, ownIds)
<1>1. others \in Seq(L)
  BY WithoutIs, Zenon
<1>2. L \subseteq M /\ M \subseteq PeerInfos
  BY DEF PeersOf, OthersIn
<1>3. others \in Seq(M) /\ others \in Seq(PeerInfos)
  <2> HIDE DEF L, M, K
  <2> QED
    BY <1>1, <1>2, SeqMonotonic
<1>4. r \in Rosters
  BY DEF Known
<1>5. /\ Entered(r, own, peers).roster = StartWith(now, now.peers).roster
      /\ Entered(r, own, peers).audio = <<Advertise>> \o StartWith(now, now.peers).audio
  BY DEF Entered, Decides
<1> HIDE DEF others, L, K
<1>6. /\ now \in Rosters /\ now.with = Nobody /\ now.startedWith = 0 /\ now.link = "healthy"
      /\ now.peers = others /\ now.ownIds = ownIds
  BY <1>3, <1>4 DEF ForgetTheAudio, Rosters
<1> HIDE DEF now, ownIds, M
<1>7. Known(now, here)
  BY <1>3, <1>6, Zenon DEF Known, M
<1> DEFINE d == StartWith(now, others)
<1>8. /\ Known(d.roster, here)
      /\ d.roster.peers = others /\ d.roster.ownIds = ownIds
      /\ d.audio = <<>> \/ d.roster.with # Nobody
      /\ \/ d.roster = now /\ \A i \in DOMAIN others : ~HasAddress(others[i])
         \/ d.roster.with # Nobody /\ d.roster.link = "healthy"
  BY <1>3, <1>6, <1>7, StartWithKnows DEF M
<1> HIDE DEF d
<1>9. Complete(d.roster)
  BY <1>8 DEF Complete
<1>10. Someone(Entered(r, own, peers))
  <2>1. CASE d.audio = <<>>
    <3>1. <<Advertise>> \in Seq({Advertise})
      OBVIOUS
    <3>2. Entered(r, own, peers).audio = <<Advertise>>
      BY <1>5, <1>6, <2>1, <3>1, ConcatEmptySeq DEF d
    <3>3. \A i \in DOMAIN <<Advertise>> : <<Advertise>>[i].do # "start"
      BY DEF Advertise
    <3> QED
      BY <3>2, <3>3 DEF Someone
  <2>2. CASE d.roster.with # Nobody
    BY <1>5, <1>6, <2>2 DEF Someone, d
  <2> QED
    BY <1>8, <2>1, <2>2
<1> QED
  BY <1>5, <1>6, <1>8, <1>9, <1>10 DEF d, ownIds

\* One put behind a list is on it.
LEMMA RangeOfAppend ==
  ASSUME NEW S, NEW q \in Seq(S), NEW x \in S
  PROVE  Append(q, x) \in Seq(S) /\ Range(Append(q, x)) = Range(q) \cup {x}
<1>1. /\ DOMAIN q = 1 .. Len(q) /\ Len(q) \in Nat
      /\ DOMAIN Append(q, x) = 1 .. (Len(q) + 1)
      /\ \A i \in 1 .. Len(q) : Append(q, x)[i] = q[i]
      /\ Append(q, x)[Len(q) + 1] = x /\ Append(q, x) \in Seq(S)
  OBVIOUS
<1> DEFINE more == Append(q, x)
<1> HIDE DEF more
<1>2. \A y : (\E i \in DOMAIN more : y = more[i]) <=> (\E i \in DOMAIN q : y = q[i]) \/ y = x
  BY <1>1 DEF more
<1>3. Range(more) = Range(q) \cup {x}
  BY <1>2 DEF Range
<1> QED
  BY <1>1, <1>3 DEF more

-----------------------------------------------------------------------------
(* Who is on the list, whatever they published: in a session's room.       *)

\* A roster with a list of peers, that is with one who could be there.
Listing(r) == IsRoster(r) /\ r.peers \in Seq(PeerInfos) /\ r.with \in Ids \cup {Nobody}

\* The roster s has the list of r, and the ids of r for this app's.
SameList(s, r) == Listing(s) /\ s.peers = r.peers /\ s.ownIds = r.ownIds

\* Who is kept is everyone but `ids`.
LEMMA WithoutRange ==
  ASSUME NEW peers \in Seq(PeerInfos), NEW ids
  PROVE  /\ Without(peers, ids) \in Seq(PeerInfos)
         /\ Range(Without(peers, ids)) = {x \in Range(peers) : x.id \notin ids}
<1> DEFINE n == Len(peers)
           kept == CHOOSE f : KeptOf(peers, ids, f, n)
           others(m) == {peers[i] : i \in {j \in 1 .. m : peers[j].id \notin ids}}
           Good(m) == kept[m] \in Seq(PeerInfos) /\ Range(kept[m]) = others(m)
           T == {m \in Nat : m <= n /\ ~Good(m)}
<1>1. n \in Nat /\ DOMAIN peers = 1 .. n /\ \A i \in 1 .. n : peers[i] \in PeerInfos
  OBVIOUS
<1>2. KeptOf(peers, ids, kept, n)
  BY <1>1, KeptExists, Zenon
<1>3. Without(peers, ids) = kept[n]
  BY Zenon DEF Without, KeptOf
<1> HIDE DEF kept
<1>4. others(n) = {x \in Range(peers) : x.id \notin ids}
  BY <1>1 DEF Range
<1>5. SUFFICES ASSUME ~Good(n) PROVE FALSE
  BY <1>3, <1>4, Zenon
<1>6. PICK m \in T : \A y \in T : m <= y
  <2>1. T \subseteq Nat /\ n \in T
    BY <1>1, <1>5
  <2> QED
    BY <2>1, Least, Zenon
<1>7. m \in 0 .. n
  BY <1>1, <1>6
<1>8. kept[m] = IF m = 0 THEN <<>>
                ELSE IF peers[m].id \in ids THEN kept[m - 1]
                ELSE Append(kept[m - 1], peers[m])
  BY <1>2, <1>7, Zenon DEF KeptOf
<1>9. m = 0 => Good(m)
  BY <1>8 DEF Range
<1>10. ASSUME m # 0 PROVE Good(m)
  <2>1. m - 1 \in Nat /\ m - 1 <= n /\ m - 1 \notin T
    <3>1. m \in Nat /\ m <= n
      BY <1>6
    <3> HIDE DEF T
    <3> QED
      BY <1>1, <1>6, <1>10, <3>1
  <2>2. Good(m - 1)
    BY <2>1, Zenon
  <2>3. m \in 1 .. n /\ peers[m] \in PeerInfos
    BY <1>1, <1>7, <1>10
  <2>4. 1 .. m = (1 .. (m - 1)) \cup {m}
    BY <2>3
  <2>5. others(m) = IF peers[m].id \in ids THEN others(m - 1) ELSE others(m - 1) \cup {peers[m]}
    <3>1. {j \in 1 .. m : peers[j].id \notin ids}
            = IF peers[m].id \in ids THEN {j \in 1 .. (m - 1) : peers[j].id \notin ids}
              ELSE {j \in 1 .. (m - 1) : peers[j].id \notin ids} \cup {m}
      BY <2>4
    <3> QED
      BY <3>1
  <2>6. CASE peers[m].id \in ids
    BY <1>8, <1>10, <2>2, <2>5, <2>6
  <2>7. CASE peers[m].id \notin ids
    <3> DEFINE q == kept[m - 1]
               x == peers[m]
    <3>1. q \in Seq(PeerInfos) /\ Range(q) = others(m - 1) /\ x \in PeerInfos
      BY <2>2, <2>3
    <3>2. kept[m] = Append(q, x)
      BY <1>8, <1>10, <2>7
    <3> HIDE DEF q, x, others
    <3>3. Append(q, x) \in Seq(PeerInfos) /\ Range(Append(q, x)) = Range(q) \cup {x}
      BY <3>1, RangeOfAppend
    <3> QED
      BY <2>5, <2>7, <3>1, <3>2, <3>3 DEF x
  <2> QED
    BY <2>6, <2>7
<1> QED
  BY <1>6, <1>9, <1>10, Zenon
\* A roster that forgets the audio keeps its list.
LEMMA ForgottenLists ==
  ASSUME NEW r, Listing(r)
  PROVE  SameList(ForgetTheAudio(r), r)
BY DEF ForgetTheAudio, Listing, IsRoster, SameList

\* Whoever's audio could not be started stays on the list (start_failed).
LEMMA StartFailedLists ==
  ASSUME NEW r, Listing(r), NEW id
  PROVE  SameList(StartFailed(r, id), r)
BY ForgottenLists DEF StartFailed, SameList

\* Starting the audio changes nothing of the list (start_with).
LEMMA StartWithLists ==
  ASSUME NEW r, Listing(r), NEW peers \in Seq(PeerInfos)
  PROVE  SameList(StartWith(r, peers).roster, r)
<1> DEFINE first == SelectInSeq(peers, Published)
           peer == peers[first]
           to == [r EXCEPT !.with = peer.id, !.startedWith = peer.addr, !.link = "healthy"]
<1>1. first # 0 => first \in DOMAIN peers
  BY PublishedFirst, Zenon
<1> HIDE DEF first
<1>2. CASE r.with = Nobody /\ first # 0 /\ HasAddress(peer)
  <2>1. StartWith(r, peers) = Decides(to, <<Start(peer)>>)
    BY <1>2, Zenon DEF StartWith, first
  <2>2. peer \in PeerInfos
    BY <1>1, <1>2
  <2>3. peer.id \in Ids
    BY <2>2 DEF PeerInfos
  <2> HIDE DEF peer
  <2>4. SameList(to, r)
    BY <2>3 DEF Listing, IsRoster, SameList
  <2> HIDE DEF to
  <2> QED
    BY <2>1, <2>4 DEF Decides
<1>3. CASE ~(r.with = Nobody /\ first # 0 /\ HasAddress(peer))
  <2>1. StartWith(r, peers) = Decides(r, <<>>)
    BY <1>3, Zenon DEF StartWith, first
  <2> QED
    BY <2>1 DEF Decides, SameList
<1> QED
  BY <1>2, <1>3

\* Going on to another changes nothing of the list (go_onward).
LEMMA GoOnwardLists ==
  ASSUME NEW r, Listing(r)
  PROVE  SameList(GoOnward(r).roster, r)
<1> DEFINE onward == SelectInSeq(r.peers, LAMBDA p : MayGoOnTo(r, p))
           next == r.peers[onward]
           none == [r EXCEPT !.with = Nobody]
           start == StartWith(none, <<next>>)
           left == [start.roster EXCEPT !.leftBehind = IF next.id = r.with THEN @
                                                         ELSE @ \cup {r.with}]
<1>1. onward # 0 => onward \in DOMAIN r.peers
  BY OnwardFirst, Zenon DEF Listing
<1> HIDE DEF onward
<1>2. CASE r.with = Nobody \/ r.link = "healthy" \/ onward = 0
  BY <1>2 DEF GoOnward, onward, Decides, SameList
<1>3. CASE ~(r.with = Nobody \/ r.link = "healthy" \/ onward = 0)
  <2>1. next \in PeerInfos
    BY <1>1, <1>3 DEF Listing
  <2>2. GoOnward(r).roster = left
    BY <1>3, Zenon DEF GoOnward, onward, Decides
  <2> HIDE DEF next
  <2>3. SameList(none, r)
    BY DEF Listing, IsRoster, SameList
  <2>4. <<next>> \in Seq(PeerInfos)
    BY <2>1
  <2> HIDE DEF none
  <2>5. SameList(start.roster, r)
    BY <2>3, <2>4, StartWithLists DEF SameList
  <2> HIDE DEF start
  <2>6. SameList(left, r)
    BY <2>5 DEF Listing, IsRoster, SameList
  <2> QED
    BY <2>2, <2>6
<1> QED
  BY <1>2, <1>3

\* The roster s has a list, and the ids of r for this app's.
OwnList(s, r) == Listing(s) /\ s.ownIds = r.ownIds
\* It has everyone of `all` on its list, and no one else.
HasList(s, r, all) == OwnList(s, r) /\ Range(s.peers) = all

\* Who joins comes to be on the list (joined).
LEMMA JoinedLists ==
  ASSUME NEW r, Listing(r), NEW peer \in PeerInfos
  PROVE  /\ OwnList(Joined(r, peer), r)
         /\ (\A p \in Range(r.peers) : p.id # peer.id) =>
              HasList(Joined(r, peer), r, Range(r.peers) \cup {peer})
<1> DEFINE more == Append(r.peers, peer)
           s == [r EXCEPT !.peers = more]
<1>1. more \in Seq(PeerInfos) /\ Range(more) = Range(r.peers) \cup {peer}
  BY RangeOfAppend DEF Listing
<1> HIDE DEF more
<1>2. s.peers = more /\ s.ownIds = r.ownIds /\ Listing(s)
  BY <1>1 DEF Listing, IsRoster
<1> HIDE DEF s
<1>3. CASE \E i \in DOMAIN r.peers : r.peers[i].id = peer.id
  <2>1. Joined(r, peer) = r
    BY <1>3, Zenon DEF Joined
  <2>2. \E p \in Range(r.peers) : p.id = peer.id
    BY <1>3 DEF Range
  <2> QED
    BY <2>1, <2>2 DEF OwnList
<1>4. CASE ~\E i \in DOMAIN r.peers : r.peers[i].id = peer.id
  <2>1. Joined(r, peer) = s
    BY <1>4 DEF Joined, s, more
  <2> QED
    BY <1>1, <1>2, <2>1 DEF OwnList, HasList
<1> QED
  BY <1>3, <1>4

\* What one who is there published takes the place of what it was (updated).
LEMMA UpdatedLists ==
  ASSUME NEW r, Listing(r), NEW peer \in PeerInfos
  PROVE  /\ OwnList(Updated(r, peer).roster, r)
         /\ (\E p \in Range(r.peers) : p.id = peer.id) =>
              HasList(Updated(r, peer).roster, r, {p \in Range(r.peers) : p.id # peer.id} \cup {peer})
<1> DEFINE peers == [i \in DOMAIN r.peers |-> IF r.peers[i].id = peer.id THEN peer ELSE r.peers[i]]
           known == [r EXCEPT
                    !.peers = [i \in DOMAIN @ |->
                                 IF @[i].id = peer.id THEN peer ELSE @[i]],
                    !.leftBehind = @ \ {peer.id}]
<1>1. peers \in Seq(PeerInfos)
  BY DEF Listing
<1>2. ASSUME \E p \in Range(r.peers) : p.id = peer.id
      PROVE  Range(peers) = {p \in Range(r.peers) : p.id # peer.id} \cup {peer}
  <2>1. PICK k \in DOMAIN r.peers : r.peers[k].id = peer.id
    BY <1>2 DEF Range
  <2>2. Range(peers) = {peers[i] : i \in DOMAIN r.peers} /\ Range(r.peers) = {r.peers[i] : i \in DOMAIN r.peers}
    BY DEF Range
  <2>3. peer \in Range(peers)
    BY <2>1, <2>2
  <2>4. \A x : x # peer => (x \in Range(peers) <=> x \in Range(r.peers) /\ x.id # peer.id)
    BY <2>2
  <2> QED
    BY <2>3, <2>4
<1>3. known.peers = peers /\ known.ownIds = r.ownIds /\ IsRoster(known) /\ known.with = r.with
  BY DEF Listing, IsRoster
<1> HIDE DEF peers
<1>4. Listing(known)
  BY <1>1, <1>3 DEF Listing
<1>5. Updated(r, peer) = IF known.with = Nobody THEN StartWith(known, <<peer>>) ELSE GoOnward(known)
  BY DEF Updated
<1> HIDE DEF known
<1>6. <<peer>> \in Seq(PeerInfos)
  OBVIOUS
<1>7. SameList(Updated(r, peer).roster, known)
  BY <1>4, <1>5, <1>6, StartWithLists, GoOnwardLists
<1> QED
  BY <1>2, <1>3, <1>7 DEF SameList, OwnList, HasList

\* Nobody else goes from the list than who leaves (left).
LEMMA LeftLists ==
  ASSUME NEW r, Listing(r), NEW id
  PROVE  HasList(Left(r, id).roster, r, {p \in Range(r.peers) : p.id # id})
<1> DEFINE peers == Without(r.peers, {id})
           rest == [r EXCEPT !.peers = peers, !.leftBehind = @ \ {id}]
           start == StartWith(ForgetTheAudio(rest), rest.peers)
<1>1. peers \in Seq(PeerInfos) /\ Range(peers) = {p \in Range(r.peers) : p.id # id}
  <2>1. /\ peers \in Seq(PeerInfos)
        /\ Range(peers) = {p \in Range(r.peers) : p.id \notin {id}}
    BY WithoutRange DEF Listing
  <2> QED
    BY <2>1
<1>2. Left(r, id).roster = rest \/ Left(r, id).roster = start.roster
  BY DEF Left, Decides
<1> HIDE DEF peers
<1>3. Listing(rest) /\ rest.peers = peers /\ rest.ownIds = r.ownIds
  BY <1>1 DEF Listing, IsRoster
<1> HIDE DEF rest
<1>4. SameList(ForgetTheAudio(rest), rest)
  BY <1>3, ForgottenLists
<1>5. SameList(start.roster, rest)
  BY <1>1, <1>3, <1>4, StartWithLists DEF SameList
<1> QED
  BY <1>1, <1>2, <1>3, <1>5 DEF SameList, OwnList, HasList

\* What the link does changes nothing of the list (audio_silent, audio_failed,
\* audio_recovered).
LEMMA LinkLists ==
  ASSUME NEW r, Listing(r)
  PROVE  /\ SameList(AudioSilent(r).roster, r) /\ SameList(AudioFailed(r).roster, r)
         /\ SameList(AudioRecovered(r), r)
<1>1. /\ SameList([r EXCEPT !.link = "silent"], r) /\ SameList([r EXCEPT !.link = "failed"], r)
      /\ SameList([r EXCEPT !.link = "healthy"], r) /\ SameList(r, r)
  BY DEF Listing, IsRoster, SameList
<1>2. /\ SameList(GoOnward([r EXCEPT !.link = "silent"]).roster, r)
      /\ SameList(GoOnward([r EXCEPT !.link = "failed"]).roster, r)
  BY <1>1, GoOnwardLists DEF SameList
<1> QED
  BY <1>1, <1>2 DEF AudioSilent, AudioFailed, AudioRecovered, Decides

\* The roster s lists everyone of `peers` but `own`, this app's only id.
ListsOthers(s, own, peers) ==
    Listing(s) /\ s.ownIds = {own} /\ Range(s.peers) = {p \in Range(peers) : p.id # own}

\* Who enters a room as the one it always is lists everyone else there (entered).
LEMMA EnteredLists ==
  ASSUME NEW r, Listing(r), NEW own, r.ownIds \subseteq {own}, NEW peers \in Seq(PeerInfos)
  PROVE  ListsOthers(Entered(r, own, peers).roster, own, peers)
<1> DEFINE others == Without(peers, {own})
           now == [ForgetTheAudio(r) EXCEPT !.ownIds = r.ownIds \cup {own}, !.leftBehind = {},
                                            !.peers = Without(peers, r.ownIds \cup {own})]
<1>1. r.ownIds \cup {own} = {own}
  OBVIOUS
<1>2. others \in Seq(PeerInfos) /\ Range(others) = {p \in Range(peers) : p.id # own}
  <2>1. /\ others \in Seq(PeerInfos)
        /\ Range(others) = {p \in Range(peers) : p.id \notin {own}}
    BY WithoutRange
  <2> QED
    BY <2>1
<1>3. Entered(r, own, peers).roster = StartWith(now, now.peers).roster
  BY DEF Entered, Decides
<1> HIDE DEF others
<1>4. Listing(now) /\ now.peers = others /\ now.ownIds = {own}
  <2>1. SameList(ForgetTheAudio(r), r)
    BY ForgottenLists
  <2> QED
    BY <1>1, <1>2, <2>1 DEF Listing, IsRoster, SameList, others
<1> HIDE DEF now
<1>5. SameList(StartWith(now, now.peers).roster, now)
  BY <1>2, <1>4, StartWithLists
<1> QED
  BY <1>2, <1>3, <1>4, <1>5 DEF SameList, ListsOthers
===============================================================================
