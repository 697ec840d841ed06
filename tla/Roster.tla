-------------------------------- MODULE Roster --------------------------------
(***************************************************************************)
(* Who is in the room and which of them the audio goes to                  *)
(* (src/src-tauri/src/session/roster.rs).  The roster decides and does no  *)
(* I/O: each operation here takes a roster and gives back the roster after *)
(* it with what is to be done to the audio, in order.                      *)
(*                                                                         *)
(* What a peer published is one number: 0 for nothing yet, BindOnly for a  *)
(* bind address that names no host, another for a list of addresses that   *)
(* can be sent to.                                                         *)
(***************************************************************************)
EXTENDS Integers, Sequences, SequencesExt

CONSTANTS Ids,       \* ids the server gives to whoever enters a room
          Name,      \* the name each id goes by: one who comes back has two ids
          Addresses, \* addresses a peer may publish
          Nobody     \* not an id

ASSUME RosterAssumption ==
    /\ Nobody \notin Ids
    /\ Addresses \subseteq Nat \ {0}

BindOnly == -1

PeerInfos == [id : Ids, addr : {0, BindOnly} \cup Addresses]

Published(peer) == peer.addr # 0
HasAddress(peer) == peer.addr > 0

Rosters == [peers : Seq(PeerInfos), with : Ids \cup {Nobody},
            startedWith : {0} \cup Addresses, link : {"healthy", "silent", "failed"},
            ownIds : SUBSET Ids, leftBehind : SUBSET Ids]

EmptyRoster == [peers |-> <<>>, with |-> Nobody, startedWith |-> 0,
                link |-> "healthy", ownIds |-> {}, leftBehind |-> {}]

Stop == [do |-> "stop"]
Advertise == [do |-> "advertise"]
KeepAddress == [do |-> "keepAddress"]
Start(peer) == [do |-> "start", peer |-> peer.id, addr |-> peer.addr]

Decides(roster, audio) == [roster |-> roster, audio |-> audio]

-----------------------------------------------------------------------------
\* Those of `peers` whose ids are none of `ids`, in their order.
Without(peers, ids) ==
    LET kept[n \in 0..Len(peers)] ==
            IF n = 0 THEN <<>>
            ELSE IF peers[n].id \in ids THEN kept[n - 1]
            ELSE Append(kept[n - 1], peers[n])
    IN  kept[Len(peers)]

ForgetTheAudio(r) == [r EXCEPT !.with = Nobody, !.startedWith = 0, !.link = "healthy"]

\* Starts with the first of `peers` that has published anything, if it can be
\* sent to.
StartWith(r, peers) ==
    LET first == SelectInSeq(peers, Published)
    IN  IF r.with = Nobody /\ first # 0 /\ HasAddress(peers[first])
        THEN LET peer == peers[first]
             IN  Decides([r EXCEPT !.with = peer.id, !.startedWith = peer.addr,
                                   !.link = "healthy"], <<Start(peer)>>)
        ELSE Decides(r, <<>>)

\* Mutant: stays with the peer whose link is down unless it publishes anew.
MayGoOnToSameOnly(r, peer) ==
    /\ peer.id \notin r.leftBehind
    /\ peer.id = r.with /\ HasAddress(peer) /\ peer.addr # r.startedWith

\* Whether the audio may move to `peer` while its link is down.
MayGoOnTo(r, peer) ==
    /\ peer.id \notin r.leftBehind
    /\ HasAddress(peer)
    /\ IF peer.id = r.with THEN peer.addr # r.startedWith
       ELSE \/ r.link = "failed"
            \/ \E i \in DOMAIN r.peers :
                  r.peers[i].id = r.with /\ Name[peer.id] = Name[r.with]

GoOnward(r) ==
    LET onward == SelectInSeq(r.peers, LAMBDA p : MayGoOnTo(r, p))
    IN  IF r.with = Nobody \/ r.link = "healthy" \/ onward = 0
        THEN Decides(r, <<>>)
        ELSE LET next == r.peers[onward]
                 start == StartWith([r EXCEPT !.with = Nobody], <<next>>)
             IN  Decides([start.roster EXCEPT
                            !.leftBehind = IF next.id = r.with THEN @
                                           ELSE @ \cup {r.with}],
                         <<Stop, KeepAddress>> \o start.audio)

\* Mutant: everyone the server lists is a peer.
EnteredAsListed(r, own, peers) ==
    LET here == [ForgetTheAudio(r) EXCEPT
                   !.ownIds = @ \cup {own}, !.leftBehind = {}, !.peers = peers]
        start == StartWith(here, here.peers)
    IN  Decides(start.roster, <<Advertise>> \o start.audio)

\* This app is in a room as `own`; entries of its earlier ids are not peers.
Entered(r, own, peers) ==
    LET ownIds == r.ownIds \cup {own}
        here == [ForgetTheAudio(r) EXCEPT
                   !.ownIds = ownIds, !.leftBehind = {},
                   !.peers = Without(peers, ownIds)]
        start == StartWith(here, here.peers)
    IN  Decides(start.roster, <<Advertise>> \o start.audio)

Joined(r, peer) ==
    IF \E i \in DOMAIN r.peers : r.peers[i].id = peer.id THEN r
    ELSE [r EXCEPT !.peers = Append(@, peer)]

Updated(r, peer) ==
    LET known == [r EXCEPT
                    !.peers = [i \in DOMAIN @ |->
                                 IF @[i].id = peer.id THEN peer ELSE @[i]],
                    !.leftBehind = @ \ {peer.id}]
    IN  IF known.with = Nobody THEN StartWith(known, <<peer>>) ELSE GoOnward(known)

AudioSilent(r) ==
    IF r.with = Nobody \/ r.link # "healthy" THEN Decides(r, <<>>)
    ELSE GoOnward([r EXCEPT !.link = "silent"])

AudioFailed(r) ==
    IF r.with = Nobody \/ r.link = "failed" THEN Decides(r, <<>>)
    ELSE GoOnward([r EXCEPT !.link = "failed"])

AudioRecovered(r) == IF r.with = Nobody THEN r ELSE [r EXCEPT !.link = "healthy"]

\* Mutant: the socket the audio used up is not replaced.
LeftUnadvertised(r, id) ==
    LET rest == [r EXCEPT !.peers = Without(@, {id}),
                          !.leftBehind = @ \ {id}]
        start == StartWith(ForgetTheAudio(rest), rest.peers)
    IN  IF r.with # id THEN Decides(rest, <<>>)
        ELSE Decides(start.roster, <<Stop>> \o start.audio)

\* Mutant: the audio with someone who left is not ended.
LeftPlaying(r, id) ==
    LET rest == [r EXCEPT !.peers = Without(@, {id}),
                          !.leftBehind = @ \ {id}]
        start == StartWith(ForgetTheAudio(rest), rest.peers)
    IN  IF r.with # id THEN Decides(rest, <<>>)
        ELSE Decides(start.roster, <<Advertise>> \o start.audio)

Left(r, id) ==
    LET rest == [r EXCEPT !.peers = Without(@, {id}),
                          !.leftBehind = @ \ {id}]
        start == StartWith(ForgetTheAudio(rest), rest.peers)
    IN  IF r.with # id THEN Decides(rest, <<>>)
        ELSE Decides(start.roster, <<Stop, Advertise>> \o start.audio)

StartFailed(r, id) == IF r.with = id THEN ForgetTheAudio(r) ELSE r

AudioEnded(r) == ForgetTheAudio(r)
===============================================================================
