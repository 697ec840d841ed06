# jamjam, specified in TLA+

jamjam lets musicians play together over the internet. Its Rust core
(`src/src/`) has the audio, the link between two participants and the wire
protocol; its desktop app (`src/src-tauri/src/`) has the session with the
signaling server, the room and the user interface's state. This directory holds
TLA+ models of the parts whose behaviour is hard to test, the TLC runs that check
them and theorems that TLAPS proves about them.

    tlc -workers 2 -config MCSession.cfg MCSession
    tlapm SecureLinkProofs.tla

## 1. Inventory

| part | source | state | operations |
|---|---|---|---|
| secure link | `network/encryption.rs`, `connection.rs` (key task, receive loop) | one link's keys, count, replay window, whether the peer has shown it has our key | send our half, take the peer's, seal, open, fall back to plain, begin again |
| connection | `network/connection.rs` | connection state, route and the peer's other addresses, timers, loops | connect (probe), receive loop, liveness monitor, trying other addresses, give up, reconnect, keep-alive |
| reception | `network/connection.rs`, `sequence_tracker.rs`, `fec.rs` | numbers and groups of the sender; window of numbers seen, groups being put together | send audio and parity, take in, recover, reset |
| playout | `audio/playout.rs`, `audio/stream.rs` | ring of frames, its delay, what tells when to adapt it | write, read, adapt, set the delay, reset |
| roster | `src-tauri session/roster.rs` | participants, whom the audio is with, how its link is, own ids, ids left behind | entered, joined, updated, left, audio silent / failed / recovered / ended, start failed |
| prepared socket | `src-tauri streaming.rs:340-428` | the bound socket not yet used, the last port used | prepare, prepare again, take, advertise |
| session | `src-tauri session/mod.rs` | phase, connection, room, reconnect state, epoch, `flow` lock | connect, create, join, leave, reconnect, pump (events, audio link, loss) |
| signaling registry | `src-tauri signaling.rs` | connections by id, losses already reported | connect, disconnect, list, create, join, leave, poll, publish candidates |
| streaming | `src-tauri streaming.rs`, `audio_slot.rs`, `settings.rs` | is the audio running, who is sent commands, the devices' problems, the published link state; per session its thread, commands and devices | start, stop, change a setting, the audio thread's loop, devices that open on threads of their own |
| launches | `src-tauri watchdog.rs`, `restart.rs`, `updater.rs`, `usage.rs`, `config.rs`, `terms.rs`, `lib.rs`; `telemetry/` | files that say how the last launch ended and what is not yet reported; the reporter's switch and queue; the gate of the updates | start, exit, hang, update and restart; turn reporting on and off, record, send, ask about an incident |
| the rest | see `components` in `PROJECT.json` | devices, settings, RPC, UI | — |

**How they interact.** A command of the UI or of the RPC starts a *step* of the
session. Steps run as tasks and take turns with a fair lock, `flow`; a step that
is to be ended learns it from a higher `epoch`. Beside them, one *pump* per server
connection polls the server's events every 500 ms and reads the state of the audio
link; both are handled under `flow`. Events go to the roster, which answers with
what to do to the audio; the session carries that out by `streaming_start`,
`streaming_stop` and the prepared socket, and tells the room the socket's port. The
audio session runs a `Connection`, whose packets the secure link seals and opens; what
its receive loop takes in goes to the play-out buffer, which the output device's
callback reads. One launch leaves files to the next, and the reporter is off or on as
the setting and the terms say.

**What is hard here.** A step is dropped at any await once the epoch moves on.
Losses, cancels, leaves and rejoins overlap, each with its own idea of the room.
Events are read before their turn and applied after it. The server goes on listing
an app whose connection died, so a participant may be listed twice, under two ids.
Packets of one link arrive at the next one, late, twice or not at all, while both
ends change keys. Both ends of a call watch the same paths by clocks of their own and move
away from them. An audio session that ends late shares its flag with the next one. The
process may die at any step of its start, its exit or its update, and the next one has
to tell what happened from the files it finds. Every one of these is in `hazards`, at its
line.

**What makes each part correct.**

- *Secure link*: two ends that encrypt agree on keys in the end and know it; nothing
  is opened twice; no count is used twice for media under one key; no fall back
  to plain; keys once confirmed stand.
- *Roster and sockets*: the audio runs with whom the roster says; that is somebody
  who is there and is not this app; nobody who can be heard is passed over; the room
  knows a port somebody listens on, unless none could be had or told.
- *Session*: one snapshot can always be drawn; no connection is leaked; a loss is got
  over; connecting ends one way or the other; who left or cancelled stays out; the
  lock is always let go; the roster is the room's.
- *Connection*: given up only when nothing could be heard; both ends end up on a path that
  works both ways; a lost link is found again or given up; a peer that has gone is noticed.
- *Reception*: only what was sent is handed on; the loss counted is what is missing; what
  is recovered comes while it can be played.
- *Playout*: a frame is played once, in order; what waits is ahead of what plays;
  playing goes on after every trouble; delay gained in a burst is given back.
- *Streaming*: a changed setting reaches the session that runs; the device in use is the
  one wanted, or the screen says so; sessions do not disturb one another.
- *Launches*: nothing is recorded or sent without leave; an incident is reported if and
  only if there was one, and once; installs do not overlap.

## 2. Modules

| module | models | code |
|---|---|---|
| `SecureLink` | the secure link of both ends and the network between them | `encryption.rs`, the key task, the senders |
| `Connection` | the connections of both ends and the paths between them | `connection.rs` |
| `Playout` | the play-out buffer: its operations as actions on its variables | `playout.rs` |
| `PlayOrder` | abstract: what a play-out buffer promises its listener | text of `playout.rs` |
| `PlayoutStream` | a stream into a `Playout` and out of it; shown to implement `PlayOrder` | `stream.rs` |
| `Fec`, `SequenceTracker` | parity groups and the count of what is lost, as operators | `fec.rs`, `sequence_tracker.rs` |
| `Reception` | sender, network, receive loop and device around the three above | `connection.rs`, `streaming.rs` |
| `Roster` | the roster's operations, as operators on a roster: no state of its own | `roster.rs` |
| `RosterRoom` | a room and the app's audio around `Roster` | `roster.rs`, `mod.rs`, `streaming.rs` |
| `Session` | the steps, the pumps, the lock, the registry, around `Roster` | `mod.rs`, `signaling.rs` |
| `Streaming` | audio sessions after each other, their threads, stops and changes of the setting | `streaming.rs`, `audio_slot.rs` |
| `Launches` | launches after each other: start, exit, update, and what is reported of them | `watchdog.rs`, `updater.rs`, `usage.rs`, `collector.rs` |
| `SecureLinkProofs`, `StreamingProofs`, `LaunchesProofs`, `ReceptionProofs` | theorems about those four, proved | |
| `PlayoutProofs` | theorems about `PlayoutStream`, and that it implements `PlayOrder` | |
| `RosterProofs` | lemmas on the roster's decisions: whom the audio is with after each, who is known, whether somebody is passed over | |
| `RosterRoomProofs` | theorems about `RosterRoom`, on top of it | |
| `SessionProofs` | theorems about `Session`, with a lemma on what each action does, on top of `RosterProofs` | |
| `MC...` | instances for TLC | |

The lines each definition stands for are in `map` of `PROJECT.json`. Two compositions
share operators: `Roster` is used by `RosterRoom` and `Session`, and `Playout` by
`PlayoutStream` and `Reception`.

`Roster` decides and does no I/O, as the code it models says of itself, so it is a
module of pure operators used by both others: `RosterRoom` asks whether the
*decisions* are right whatever happens in a room, with ids that come back, addresses
and ports, each decision carried out in one step; `Session` asks whether *interleaved
steps* keep roster, audio, screen and registry together, with one other participant
and no ports.

Operators that begin with `Mutant:` in their comment are bugs the code could have;
no specification uses them. Each checked property is violated by one, substituted
for the definition after it.

### SecureLink

One end per value of `Ends`. A variable is a field: `state` is `State`,
`peerPublic`, `next`, `confirmed` are those of `Keys`, `newest` and `seen` the
`ReplayWindow`, `answer` the `Answering`'s. An ephemeral key is the number of the
link it was made for, which a shared secret identifies as well as the key does; what
a packet was sealed under is the pair of the sender's and the receiver's key, so
"decrypts" is equality of that pair and a direction. `role` covers the four ways ends meet: an
app with an identity, an app from before identities, the bot (`SecureLink::answering`)
and an app that does not encrypt.

`SendKey` is a tick of the key task, `SendAlive` a keep-alive, `SendMedia` any other
packet, `Open` the arrival of one; it is one of `TakeKey`, `OpenEncrypted`,
`FallBackToPlain` and `Ignore`, with the answer the receive loop sends in the same
step. `Arrives` may leave a copy of the packet behind, `Lose` takes one away, and
`net` is a set: order is any. `Restart` is a new `Connection` with a new key while
packets of the last one are still about. Not modelled: the cryptography itself,
packets somebody else makes up, `u64` (the count ends at `MaxCounter` instead), and
played-back own halves (`net` carries each packet to the other end only).

### Roster and RosterRoom

A peer is an id and what it published: nothing, a bind address that names no host, or
a number for a list of addresses that can be sent to. `Name` says which ids are one
participant. `RosterRoom` numbers no ports: a port is the one the room was told last,
another, or none. `RunAudio` carries out one decision whole, as `run_audio` does under
`flow`; what comes of a bind, of publishing and of a start is a choice (`Outcomes`, `ok`): the
last port is had again, or another is bound and published, or bound and not published, or
not even bound, and as in the code a failure is passed over. The server's list (`status`)
keeps ids of connections that died until it notices (`PeerLeaves`); the app comes back
as another of `OwnIds`. `LoseServer` then `EnterRoom` is a rejoin, `LoseServer` then
`StartOver` is a connection from scratch.

Bind-only addresses are in `Roster` but `MayPublish` of the instance does not list
them: the present code always publishes an address that can be sent to
(`signaling.rs:424-470`), an older one might not. `start_with` gives up at the first
who published one; this is noted under the hazards.

### Session

A task is a step: what kind, which epoch it was asked in, where it waits
(`place`), on which connection, which attempt. `flow` is the queue of a fair
`tokio::sync::Mutex`: its head holds it. An action is the code between two awaits at
which another task can be told the difference:

| actions | code |
|---|---|
| `SessionConnect`, `SessionEnter`, `SessionLeave`, `SessionReconnect` | the commands, `mod.rs:340-470` |
| `ConnectTurn`, `ReconnectTurn`, `EnterTurn`, `LeaveTurn`, `TurnTooLate` | a step once it has `flow` |
| `Connects`, `ConnectFails`, `Lists`, `ListFails`, `Enters`, `EnterFails`, `StartsAudio`, `Leaves` | the answers it waits for |
| `Dropped` / `Stops` | `unless_ended` gives up, inside and outside `try_reconnect` |
| `TriesAgain`, `ClockIsRight` | `pause`; `connect_again_when_the_clock_is_right`, which runs without `flow` |
| `PumpPolls`, `EventTurn`, `LinkTurn`, `PumpEnds`, `GetsConnectionBack` | `spawn_pump`, `handle_events`, `follow_the_audio_link`, `get_connection_back` |
| `Lose`, `RoomChanges`, `LinkChanges` | the world outside |

Steps that cannot be told apart are one: `drop_connection` and the change of the
session after it; `run_audio` in a turn that cannot be ended (with one that can,
`StartsAudio` may be cut off after any thing to do); poll and queueing for `flow`.
Commands are not guarded by the screen, since the RPC gives them too. The app starts
with the connect step it asks for at launch.

One timing assumption: a pump is not run while the step that was about to replace its
connection still ends (`Rested`): the pump waits 500 ms before each poll, the first one too, while
that step has nothing left but to let `flow` go.

### Connection

A path is a pair of addresses that belong together, one of each end; each direction of it
works, loses what is sent, or is refused by the sender's own system. Time passes in
keep-alive intervals (`Tick`): within one, every packet arrives and every task that is
due runs, in any order. `silence`, `unanswered` and `pinged` are the code's timers counted
in intervals; `AnswerWait` is the wait for an answer that grows with the slowest round
trip. `StartConnecting`, `ConnectToOnly`, `ConnectToAnswering`, `FallBack` and
`ProbingFails` are `connect`; `Hear` is the receive loop with `TakeIn`; `Monitor` is the
liveness monitor with what it heeds, loses and gives up; `KeepAlive` and `TryOther` are
the keep-alive loop, which is cut at its send because that is where it awaits; `Retry` is
`reconnect`, `Disconnect` is `disconnect`. Time is bounded by `Shared` and by what the
timers stop at. Not modelled: latency and statistics, keys (agreed, as in `SecureLink`),
what the audio carries.

### Playout, PlayoutStream and PlayOrder

`Playout` has the buffer's fields as variables: the ring `slots`, the number `play` due
next, whether it is `playing`, the delay and what adapts it. A frame is its number, of
which there are `Modulus`, as there are 2^32: distances are signed around the ring of
numbers (`Distance`), and numbers start over within the run. `Write`, `Read`, `Adapt`,
`SetDelay` and `Reset` are the functions of that name; `Read` is split, as in the code,
into what primes, what pads and what plays. `PlayoutStream` has the peer's clock and the
device's, which drift apart by no more than `Jitter`, and troubles: loss, lateness, copies,
a stalled device, another preset, a link that comes back.

`PlayOrder` is the promise: frames wait, and are heard in the order of their numbers, each
at most once; a gap is heard only where a later frame waits. `PlayoutStream` implements it
with `waiting <- Held(slots)`, `next <- play`, `begun <- playing`. It may hold
less than what came, but only before it plays: what waits then may give way to a frame
that turns out to be earlier. `NumbersAssumption` is what the refinement needs of the
stream: that the numbers are not brought round by all the troubles together, as 2^32 are
not, and that no frame comes later than the ring is long. It need not be that the ring's size
divides the numbers, which 38 and 2^32 do not: where the numbers start over, slots jump by
`Modulus % Capacity` (6 in the code, 3 in `MCPlayout`), and a frame that comes from behind that
point takes the slot of one before it that may still wait. `PlayOrder` says so, with `Slip`
for how far places are off: only such a frame (`SharePlace`) gives way once playing has
begun. The second is a limit of the code: an
earlier frame moves the start back while the buffer primes (`playout.rs:330`), any number of
times, and what is held is then further ahead than the ring is long. With a ring of
10 that primes for 2 frames, frame 0 comes, then those 2 and 11 before it; the buffer plays
the earliest, and when the one 10 before frame 0 comes it is stored over frame 0
(`:577`), whose turn is to come: a frame that was accepted is lost. TLC finds this with `Lateness` 12.
`MinWindow` must exceed `DepthWindow`, as it does in the code.
Sample contents, resampling and levels are left out.

### Fec, SequenceTracker and Reception

A frame carries the set of its own number, and parity is the symmetric difference of such
sets: what a group recovers is right if and only if the set is the one sent. `Reception`
sends (`Send`: numbering, grouping, parity), lets the network lose, copy and overtake,
takes in (`TakeAudio`, `TakeFec`: tracker, decoder, hand-on to the buffer), and lets the
device ask. `LinkIsBack` is the reset after an outage. The recovery that
`decoder.add_packet` returns is dropped, since `connection.rs:1765` drops it.

### Streaming

One session per start, numbered; `sender` is `cmd_tx`, `active` is `is_active`. Starting is
three steps, because the settings are read under `changing` and the flag is set later, and
a change may come before or after; a stop is told in one step and done in another, or gives
up when the thread outlasts `STOP_WAIT_LIMIT`, which it can while it opens devices or
probes. The loop's turn is one of `TurnStops`, `TurnSwitches`, `TurnPolls`, `TurnIsLast`;
a device opens on another thread (`OpenFinishes`) and may be switched meanwhile. Of the
devices the input is modelled, without ASIO; the output goes by the same slot.
Steps that cannot be told apart are one: the flag of a change and its send, since
the sender's lock is held only for the send.

### Launches

The variables are those on disk, those of the process, and what came of each launch. A
start is four steps in the order of `lib.rs` (process made, incident found, reporting
applied, marker written), an exit three, and `Dies` may come between any two. The reporter
turns on and off with the setting and the terms, under one lock; a report sent on its own
lends reporting on across its awaits (`OneOffBegins` to `OneOffEnds`). Updates are asked for
by the loop or by hand, take their turn at the gate, fetch, install, and may be given up on
while their thread goes on. Waiting for no session is a moment that may come at any time.
A panic takes two steps: its hook looks whether reporting is on (`Panics`), without the lock, and writes its record after the
backtrace (`HookWrites`), with anything in between; one hook at a time. `late` says of the
record on disk that reporting had been turned off when it was written.
`fate` says how a launch ended, for the properties only; "overrun" is an install that failed
after the marker was removed for good, or that was given up on and handed over all the
same: both are excepted from `NoFalseAlarm`, and are findings below.

## 3. Runs

| run | checks | bounds |
|---|---|---|
| `secure_link` | safety of the secure link, all six pairs of roles, one end beginning again | 2 links, counts of 2, window of 1, 1 fault, 2 packets of one's own in flight |
| `secure_link_agrees` | both ends get the keys and know it, and are right about it, when neither begins again | counts of 3, window of 2, 1 fault |
| `connection` | a connection is given up only when no path worked for as long as it waits | 2 paths, 1 change, 1 retry, timers scaled (below) |
| `connection_live` | both ends settle on a path that works; what is lost is found or given up; gone is noticed | 2 paths in four states, no change, 1 retry |
| `connection_retry` | *violated*: after giving up, a retry hears the peer | 1 path that breaks and works again, 1 retry by each |
| `playout` | the buffer plays in order (refinement of `PlayOrder`), goes on, and gives delay back | delays to 2, a ring of 6, 33 numbers (slots jump by 3 where they start over), 3 troubles, late by up to 2 |
| `reception` | what is handed on, counted and recovered | groups of 2, 8 frames, 4 troubles |
| `roster` | decisions of the roster, and the sockets | 5 ids: a participant who comes back, another, this app twice; 2 addresses, 1 start that fails, binding and publishing that fail at any time |
| `session` | safety of the session | 3 commands besides the first connect, 2 connections, 1 loss, 2 attempts, 2 events |
| `session_live` | liveness of the session | 2 commands, 1 loss, 1 event, always one other participant |
| `streaming` | changes reach sessions, sessions leave each other alone | 3 sessions, 2 changes, 2 devices, 1 thread that outlasts its stop |
| `launches` | consent, incidents and updates over launches | 3 launches, 1 change of the setting, 2 updates or panics |

Types (`TypeOK`) are checked by `secure_link`, where the end of the count is part of them,
and proved of `Streaming`; those of the other modules hold on these instances too but are
no question of their own.

**Why the bounds are enough.** Links: a restart needs one before and one after.
A replay window of 1 or 2 has an edge that counts of 2 and 3 reach. One fault is a
copy or a loss at any step; agreeing does not depend on how often, since every tick
sends the same again. Session: three steps beside the first one and one loss let a
step be ended while it is in each place, with another queued behind it, and reconnect
give up; two connections are the one before and the one after; two events are what
can be read in one batch and handled in two turns. The five ids have a double
entry on both sides at once; with the address changed by the one who comes back and not
by the other, 3.1 million states hold as well. Connection: the code's timers keep their order (detecting
before waiting for answers before giving up) at smaller values; with the code's own, of
10 intervals and 5, two changes and no retry, 7.7 million states hold as well. Playout: a
ring of the least sizes its delays need, and numbers that start over within a run, the ring
not dividing them; with 30 numbers, where it does, 448,141 states hold as well. A group
of two has one loss that is recovered and one that is not; groups of three and 12 frames
hold as well. Three audio sessions are one that outlasts its stop, one it disturbs,
and one more; with three changes, 9.7 million states hold as well. Three launches are one
that ends in any way, one that finds it, and one that finds what the second left; with
2 launches, 2 changes of the setting and 3 updates or panics, 1.8 million states hold as well.

The bounded counters (`faults`, `failures`, `commands`, `losses`, `news`, `troubles`,
`changes`, `launch`, links, counts and the like) are in the guards, so most runs may
stop: that is why their configurations switch the deadlock check off. `playout` never
stops and is checked for deadlock. What must go on is stated as liveness instead.
`MCRosterRoom` declares this app's two ids symmetric, and the two of the participant who comes
back, `MCStreaming` its two devices; they differ in nothing, and these runs have no liveness property.

**Fairness.** `SecureLink!FairSpec`: the key task and the keep-alive loop tick for
ever, and a packet that is not lost arrives. The senders are strongly fair only because
`MaxInFlight` holds them back now and then, which no code does. `Connection!FairSpec`: the
runtime's tasks run and time passes (weak fairness of `Tasks`), and a connect that was
begun goes on; what the user asks for and what the network does are not fair.
`PlayoutStream!FairSpec`: the stream goes on (some step is taken again and again); since
the two clocks stay within `Jitter` and troubles are bounded, that is the peer sending
and the device asking for ever. `Session!FairSpec`: the runtime goes on with every task that
can run (weak fairness of each step and pump), and the server answers or the call fails.
`SilentSpec` drops the second: only connecting has a time limit in the code. Commands,
losses, events and `ClockIsRight` (a clock may stay wrong) are not fair.

**Findings.** One run ends in a violation: `reconnect` after giving up starts the monitor
and the keep-alive loop again, but not the receive loop, which ended at the first packet
that came while the connection was `Failed`; the retried end hears nothing.

Further instances, not among the runs, are kept for what they show; each ends in a
violation of the property it names:

| instance | property | what happens |
|---|---|---|
| `MCSecureLinkStale.cfg` | `PeerHasOurKey` | a link that restarted is still taken to have the keys: `confirmed` rests on a packet of its former self (`encryption.rs:427`, against `:275-276`) |
| `MCRosterRoomSelf.cfg` | `NeverWithItself` | connecting from scratch clears `own_ids` while the server still lists the old entry: the app streams to itself (`roster.rs:190`) |
| `MCRosterRoomBack.cfg` | `NotBackToOneLeft` | `left` starts with the first peer with an address, one of `left_behind` too (`roster.rs:171`) |
| `MCRosterRoomUntold.cfg` | `AddressStaysGood` | a bind or a publish that fails is only logged (`mod.rs:1083`, `:1111-1112`), and nothing tries again: the room has no port, or one nobody listens on, though `mod.rs:1075-1077` has "so the address the room already has stays good" |
| `MCPlayoutWrap.cfg` | `WaitsForItsTurn` | where numbers start over, a frame is stored over one that waits (in the code up to 6 of them: 2^32 is no multiple of 38), though the text has each wait in the slot its number names (`playout.rs:572-581`, against `:726-727`) |
| `MCLaunchesPanic.cfg` | `OffKeepsNoRecord` | reporting is turned off between a panic hook's look and its write: the record is kept while reporting is off (`crash.rs:129`, against `collector.rs:4-6`) |
| `MCSessionCancel.cfg` | `CancelledForGood` | a loss read after Cancel raises the epoch past it: a reconnect rejoins the room (`mod.rs:256`) |
| `MCSessionSilent.cfg` | `TakesOver` | create and join wait under `flow` for a server that does not answer, and Cancel waits behind them (`mod.rs:650`) |
| `MCReceptionSizes.cfg` | `HandedIsSent` | ends whose presets group differently recover frames nobody sent: the receiver goes by its own preset (`connection.rs:1763`, `streaming.rs:1963`), though ADR-021:108 has both agree |
| `MCReceptionMemory.cfg` | `GroupsAreForgotten` | on a link that loses nothing the decoder's groups add up (`fec.rs:289`, against `:163`) |
| `MCStreamingLate.cfg` | `RunsUntilTold` | a thread that outlasts its stop clears the flag of the next session, which ends unasked (`streaming.rs:1177`) |

Read while modelling, and not the subject of a run:

- *Reception*: a late packet from before the first one, or before a jump, takes from a loss
  that did not count it (`sequence_tracker.rs:91`); adapting may shrink the delay below the
  depth of a group, so that what is recovered comes too late; the recovery `add_packet`
  returns (`fec.rs:189`) is dropped.
- *Streaming*: when the audio thread fails by itself nobody tells the roster
  (`streaming.rs:1062`); every start sets `is_muted` to false (`:984`), so audio the roster
  moves to another participant is no longer muted; two `set_mute` at a time may be sent in
  another order than they were stored (`:1351-1366`); a connect that fails publishes
  "disconnected" last, not "failed".
- *Session*: the pump reads the state of the link before its turn and applies it after
  (`mod.rs:916`).
- *Launches*: the watchdog's text (`watchdog.rs:9-11`) has closing, restarting, updating and
  opening a device watched, the code only the exit (`lib.rs:188`); a stage that was slow and
  then returned keeps its record; while a report of its own lends reporting on, other
  events are recorded and sent too, and turning the setting on meanwhile is undone at its
  end (`collector.rs:346-362`); the incident not yet answered is a single slot that a newer
  one overwrites (`usage.rs:142`), and one taken from disk is lost if the process ends before
  it is saved again; an install that fails after the exit began writes the marker anew, and
  the next launch takes it for an incident, while an install that was given up on and then
  hands over and fails leaves none; the user may enter a room while an install runs, and be
  cut off by the restart.

## 4. Proofs

`SecureLinkProofs` proves about `SecureLink`, for every set of role pairs, every
window, count, number of links, faults and packets in flight (`ConstantsAssumption`):

| theorem | property |
|---|---|
| `TypeCorrect` | `TypeOK` |
| `OpensOnce` | no sealed packet is opened twice |
| `CountsMediaOnce` | no count is used twice for media under one key |
| `EncryptersNeverPlain` | two ends that encrypt never send media plain |
| `ConfirmedStands` | confirmed keys stay, and their count does not start again |
| `FirstLinkIsRight` | `PeerHasOurKey`, of each end that does not begin again, even if its peer does |
| `ConfirmedIsRight` | `PeerHasOurKey`, if neither end does |

`OpenedOnce` and `MediaCountedOnce` are not inductive: each says only that its history
saw nothing twice. `LinkInv` ties both histories to what the link itself remembers.
`OpenedIsRemembered`: what was opened belongs to links up to the present one, and what
was opened on the present one belongs to keys that are confirmed and are still those in
use, is not beyond `newest`, and is in `seen` if the window reaches it.
`MediaIsCounted`: media of the present link was sent under keys that are confirmed and
still in use, with counts below `next`. `ConfirmedIsEncrypted`: confirmed keys are there
and are somebody's. This is why deriving keys anew may empty the window and start the
count: it happens only to keys that are not confirmed, under which nothing was opened
and no media was sent. `TypeOK` is made inductive by `EncryptedHasPeer`. Each action
has a step of its own in every proof.

`MediaCountedOnce` leaves keep-alives out. They carry nothing and are sealed before the
keys are confirmed; while they are not, keys may change and change back (a late copy of
the key of a former link), and the count starts again.

`PeerHasOurKey` rests on `ShownInv`. `KeysWereMade`: no packet names a key its sender has not made yet, and
no link has one from the future of its peer, so that an end's fresh link is in nobody's hands.
`SealedByItsLink`: a packet sealed with the key of a present link shows that this link has
keys, since keys, once there, stay until the link is made anew. `ConfirmedByItsPeer` is
what opening such a packet leaves. All of it holds with restarts at both ends; what is
needed besides, for the keys the peer has to be *ours*, is that we had only one link. With more,
the peer may go back to the key of a former one, as `MCSecureLinkStale.cfg` shows.

`StreamingProofs` proves about `Streaming`, for any number of sessions, changes, devices and
threads that outlast their stops (`StreamingAssumption`):

| theorem | property |
|---|---|
| `SavedReaches` | `SavedReachesSession` |
| `InUseIsTold` | `InUseOrTold` |
| `LinkCurrent` | `LinkIsCurrent` |
| `RunsOn` | `RunsUntilToldInTime` |

`Inv` holds in every state. `OneSender` says who is sent commands in each step of a start or
a stop, `HeldOff` that nothing is saved between the reading of the settings and the flag,
and these make `SavedReachesSession` inductive; `StopIsTold` says that whoever finds a stop in
its commands, or its sender gone, was told. `TimelyInv` holds as long as no thread has
outlasted its stop: then only the session started last is live, with the flag set
(`OneLive`), and so the published link and the problem are that session's. Whether a
loop can end unasked then comes down to the flag and the sender, which nobody else writes
(`ClosesWhenTold`). The proviso is needed, as `MCStreamingLate.cfg` shows. The proof
has a lemma on what each action does to the records, and one step per action.

`LaunchesProofs` proves about `Launches`, for any number of launches, changes, updates and panics
(`LaunchesAssumption`):

| theorem | property |
|---|---|
| `SendsWithConsent` | `SentWithConsent` |
| `KeepsNothingOff` | `OffKeepsNothing` |
| `InstallsOneAtATime` | `OneInstallAtATime` |
| `TypeCorrect` | `TypeOK` |
| `EachReportedOnce` | `ReportedOnce` |
| `NoIncidentIsFalse` | `IncidentsAreTrue` |

`ConsentInv` relates the switch to the leave it rests on and to what is on disk: reporting is
on only with leave and with an ID; a process with reporting off has no ID; where there is
no ID there is no crash record that was not written `late`; what waits to be sent, or to be
written by a panic's hook, was recorded with leave. The third
is what carries consent over the end of a process, wherever it comes: a late record too is
thrown away by the next process that starts with reporting off. Until then it is kept, which
`OffKeepsNothing` excepts and `MCLaunchesPanic.cfg` shows. `GateInv` says who
holds the gate of the updates while an install that was given up on still runs.

Neither `ReportedOnce` nor `IncidentsAreTrue` says where an incident is between the end of one process and the report
of a later one, so `IncidentsInv` does. `PlaceInv` gives the places an incident can be in
while a process is how far: in a file or in hand before the app runs, asked about, queued
or being sent after that. `OnceInv` is `ReportedOnce` made inductive: an incident of an earlier
launch is in one of these places or has been answered, never two of them, so that no
end of a process, wherever it comes, doubles it. `MarkerInv` and `FateInv` relate the marker on
disk to how each launch ended, `NoticeInv` what is in hand to a launch that did not end
clean, and `TellInv` says the same of what is told. TLC checked all of them within the
bounds of `MCLaunches.cfg` (3,593,714 states) before they were proved.

`SessionProofs` proves about `Session`, for any lists of a room and any number of connections,
attempts, commands, losses and news (`SessionAssumption`):

| theorem | property |
|---|---|
| `ScreenIsCoherent` | `ScreenCoherent` |
| `AudioSettles` | `AudioIsTheRosters` |
| `NoneLeaked` | `NoConnectionLeaked` |
| `AlwaysAtIt` | `SomebodyIsAtIt` |
| `LeftIsLeft` | `LeftForGood` |
| `ListCatchesUp` | `RosterCatchesUp` |
| `TurnsAreExact` | `EachWaitsOnce`, the flow's part of `TypeOK` |
| `TypesHold` | `TypeOK` |

None of the first six is inductive, because each is broken for a while whenever a step that
overlaps with others is ended or the server has told more than was handled. What mends it is
always somewhere on its way, and `IInv` says where. TLC checked each part on `MCSession.cfg`
(572,839 states) before it was proved.

- `FlowInv` and `FlowExact`: a step at work has the turn, so there is one at most; the flow has
  everyone who waits, once. Every proof that two steps do not disturb each other comes down
  to this.
- `PlaceInv` and `EndedInv`: what kind of step waits at which await; and *a step at work that was
  ended has a successor* (`Superseded`): a later step that connects, waits for its turn and was
  not ended itself. Raising the epoch and queueing come with no await between them and
  are one step of the model, which is why this holds.
- `ScreenInv`, `ConnInv`, `AudioInv`, `WatchInv`: what the screen shows, who has which connection
  in hand, and whether the audio is the roster's, each *as long as no successor is to come*. A step
  that is dropped halfway leaves all of them as they are, for the successor to begin by dropping.
- `PumpInv`: a pump is started once for each connection that is made.
- `EpochInv`: an epoch belongs to one step, so ending those before ends no later one.
- `LeftInv`, for `LeftForGood`: when leaving was asked for last, either nobody wants a room any
  longer, or the one who leaves (or, with no connection to leave by, connects anew) is behind
  everyone who does in the flow. This needs the lock to be fair, as `tokio`'s is; and that the
  pump of a connection just got back rests while the step that drops it is to come
  (`Resting`), or a loss it read could ask for a rejoin behind that step. `CancelledForGood`
  fails for lack of this: there the pump is an older one (`MCSessionCancel.cfg`).
- `NewsInv`, for `RosterCatchesUp`. `RoomInv`: what was read and not handled, followed by what was not
  read yet, *leads from* the list of peers *to* who is in the room (`LeadsTo`), each event likely
  where it comes: nobody joins who is there, nobody changes who is not. Handling an event takes
  the first step off this way, the server's telling puts one at its end, reading moves it from
  the one part to the other; entering, rejoining and listing begin it anew, empty.
  `InboxInv` is why nothing is lost or comes late: that the connection is lost is read last, when
  nothing is left to be read, and a connection that is not the session's yet has told
  nothing. Leaving breaks it: what was read before the app left is handled after
  (`handle_events`), so the invariant holds only as long as no room was left, as
  `RosterCatchesUp` says. `ListInv` and `ThereInv`: the list and the room are of participants of
  the right type, in the room nobody is twice. `SessionAssumption` says of a room's lists only
  that they are of the others, each once: that the roster leaves this app's own entries out
  is proved of `RosterRoom`.

`SessionProofs` begins with a lemma for each action on what it does to tasks and flow, and then
has one lemma per action and part. Of the roster's decisions these proofs
need whom the audio is with after them (`Sound`), and who is on the list: what `Joined`, `Updated`,
`Left` and `Entered` make of it, and that the others leave it alone (`JoinedLists` and the lemmas
after it in `RosterProofs`).

`RosterRoomProofs` proves about `RosterRoom`, for any finite set of ids, names, addresses
(at least one) and failed starts (`RosterAssumption`, `RosterRoomAssumption`):

| theorem | property |
|---|---|
| `FollowsRoster` | `AudioFollowsRoster` |
| `WithSomeoneHere` | `AudioIsWithSomeoneHere` |
| `RoomHearsUs` | `HeardWhereAdvertised` |
| `PassesNobodyOver` | `NobodyPassedOver` |
| `Types` | `TypeOK` |

`Inv` has three parts, which TLC checked on `MCRosterRoom.cfg` (1,577,616 states) before they
were proved. `SoundInv`: the audio is as the roster has it, an audio that runs has used up the
socket, and the port it told the room is the last port (`AudioOK`); the port the room was told
last is listened on, or binding or publishing has failed since, or a start used it up (`Heard`).
These two are not left out for ease but because the code gives the port up there
(`MCRosterRoomUntold.cfg`); `usedUp` and `unpublished` end as soon as the code tells a port
again, so they except no more than that. `PeopleInv`: nobody has published before
joining, so joining passes nobody over. `KnownInv`: the list of the roster has only
participants the server lists, none of them an own id, none with a bind-only
address (`Known`); outside a room it may have anyone. `HeardWhereAdvertised` is broken in
the middle of a decision, when the audio was stopped and the port let go (`Missed`), so the
proof goes by what a whole decision can be: nothing, one start, or a stop, what is told of
an address, and maybe a start. `RosterProofs` proves that of every decision (`Sound`,
`ToStart`), `WellDone` says what carrying one out comes to for each outcome of the bind and
of the start, and every action in a room rests on the two by one lemma (`DecisionKeeps`).

Lists of any length are reasoned about without the library's induction theorems, which take
an operator: the operators on lists (`Without`, `CarryOutAll`) are recursive functions, and
what holds of each of their values is proved by the least number for which it fails
(`Least`, from the well-foundedness of `Nat`).

`ReceptionProofs` proves about `Reception`, for groups of any size, any window of the tracker, any
number of frames, of groups kept and of troubles (`ReceptionAssumption`, `FecAssumption`,
`TrackerAssumption`):

| theorem | property |
|---|---|
| `WhatIsHandedWasSent` | `HandedIsSent`, for ends that group alike |
| `LossShownIsMissing` | `LossIsWhatIsMissing` |
| `RecoveredFramesPlay` | `RecoveredInTime`, for ends that group alike and a delay of the group's size less one or more |

For the first, `SenderInv` says that the group the encoder fills holds the numbers since the last
whole one, so that every FEC packet on its way is the XOR of a whole group, and that is
the set of its numbers (`XorOfWhole`); `GroupsFit` that the receiver's groups hold each frame at
its place, and no parity but their own. When one frame is missing, `MissingIndex` finds its
place, because the places are as many as the parity covers, and the XOR of
the others with the parity is what it was sent with (`XorOfTheRest`): every other number occurs
twice. That both ends group alike is needed: `MCReceptionSizes.cfg` shows what comes of it
otherwise. For the second, `Counts` ties the marks to the late numbers among those that
arrived, which makes the count exact: a number further on leaves missing all it passes over
(`GapGrows`), a late one is counted back if and only if it was missing (`GapShrinks`), so that
the count is never held at 0. It lasts until a number comes that the tracker does not place.

The third is what the presets rely on: a frame is recovered up to a group's size less one late, and
is still in time (`preset.rs:145`, REQ-AUD-024). The presets with FEC take the delay for the
size of the group (`fec_group_size`), so the hypothesis holds for each of them with
one frame to spare, when both ends use the same preset; a group of three with a delay of one breaks it,
which TLC shows. `Calm` says what a stream is like while nothing has happened but losses, at most
one in a group: on its way is only what was sent last (`CarriesLast`); nothing is lost in a group
that `missed` does not name (`CalmLosses`); of a group still open the receiver has exactly what
came (`CalmGroups`); the buffer stays the delay, or one frame more, behind
(`CalmRing`); and whatever is yet to be played is held, unless its group is open (`AllThere`). The
frame due is so far behind that its group is not, so it is held (`SentIsHeld`). Playing does not
begin with the second frame, because by the time enough is held the first has been recovered, nor
does it begin late, because at most one frame is missing (`OneMissing`). No number
starts over and nothing is trimmed. TLC checked `Calm` for groups of two to four and delays of one
to three, up to 130,724 states, before it was proved. `FecAssumption` keeps the code's
`None` apart from every FEC packet and recovery.

`PlayoutProofs` proves about `PlayoutStream`, for any delays, presets, ring, jitter, windows and
number of troubles (`PlayoutAssumption`, `StreamAssumption`, `NumbersAssumption`):

| theorem | property |
|---|---|
| `Invariant` | `StreamInv`, on which the next two rest |
| `AllHeldIsAhead` | `HeldIsAhead` |
| `KeepsTheOrder` | `PlaysInOrder`: `PlayoutStream` implements `PlayOrder` |

Distances are signed and numbers start over, so `HeldIsAhead` says little of a ring by itself:
a frame a lap ahead would be in the slot of the one due. The proofs count the `Steps` from one
number on to another instead. `RingInv`: every frame is in its slot, and less than a ring's
length of steps from the one due, so that two frames meet in one slot only where numbers start
over between them, `Modulus % Capacity` apart (`SlotTellsApart`). Nothing is assumed of how the
ring and the numbers divide, so the code's 38 and 2^32 are covered. That is
kept by `write` if the earlier frame which moves the start back is not too far from
those held; `PrimingInv` says why it is not: until the buffer plays, everything held was sent,
so it is behind the peer's next number, and the frame due is at most `Reach` behind that, a
ring's length and one for each trouble. Of trimming, a search for the least number of frames
to skip, the proofs need that there is one (by the well-foundedness of `Nat`) and that what is
left is ahead of where it ends (`Left`). In the refinement, `Write` is a `Join`, a
`StartOver` or nothing; `Read` is a `Listen` that passes over what was trimmed, or `Silence`;
`Reset` is a `StartOver`, and losses, stalls and adaptation are nothing at all. TLC checked
`StreamInv` on `MCPlayout.cfg` (496,670 states) before it was proved.

Only model-checked: `Connection`, and liveness (`ComesToAgree`, `SettlesOnAWorkingPath`, `LostOrFound`,
`GoneIsNoticed`, `KeepsPlaying`, `DelayIsGivenBack`, `LossIsGotOver`, `ConnectingSettles`,
`FlowIsFreed`), which is beyond TLAPS.

## 5. Plan

1. *Done*: `SecureLink`, `Streaming` and `Launches` with their proofs, `Roster`, `RosterRoom`,
   `Session`, `Connection`, `Playout` with its abstract specification, `Reception`.
2. Proofs: the safety of `Connection`. *Done*: `Session`, `RosterRoom`, the incidents of
   `Launches`, all of `Reception`, the rest of `SecureLink`, and that `PlayoutStream`
   implements `PlayOrder`.
3. Abstract specifications: of the session, *a room one is in or not, as last asked*, and of
   the secure link, *a channel that delivers at most once*, with the refinements.
4. `Streaming` composed with `Session`, which now takes a start as one step; the output
   device and ASIO in `Streaming`; the totals of a session in `Launches`.

Runs are few, so a new question takes the place of a run it makes superfluous.

## 6. Not modelled

- *Signal processing*: codecs, resampling, mixing, effects, level meters and the engine's
  callbacks. They are real-valued, or pass buffers on, and keep no protocol state.
- *Pure functions and single exchanges*: device identity, address discovery and STUN, the
  packet format, link measures, presets' labels, settings' ranges.
- *The command line* (`main.rs`) drives the same `Connection` by its own loop, one call at a
  time. *RPC, diagnostics, problem reports, logging and the user interface's code* pass on,
  show or collect; `Session` takes commands in any order because of the RPC.
- *Of the modelled files*: wording, logging, statistics, usage counts, levels and volumes, the
  screen's texts.

The greater part of the repository's lines is of these kinds, so the share of lines the map
covers stays small; what it covers is where tasks, threads, ends and launches meet.
