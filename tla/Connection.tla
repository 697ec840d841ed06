----------------------------- MODULE Connection -----------------------------
(***************************************************************************)
(* The audio connection of src/src/network/connection.rs, at both ends of  *)
(* one call: how a silent link is noticed, got over and given up on, how   *)
(* the address sent to follows the peer, and what the user's retry does.   *)
(*                                                                         *)
(* A path is one address of each end that belong together (the two LAN     *)
(* addresses, the two public ones): what is sent on a path arrives from    *)
(* that path.  Each direction of a path works, loses what is sent, or is   *)
(* refused by the sender's own system (a send error), and may change at    *)
(* any moment.                                                             *)
(*                                                                         *)
(* Time passes in keep-alive intervals: within one interval every task     *)
(* that is due runs and every packet arrives, in any order.  The tasks of  *)
(* one end share a runtime of one thread (streaming.rs:1071), so a task is *)
(* only interleaved where it awaits a send.  The keys are taken as agreed: *)
(* SecureLink models how.                                                  *)
(***************************************************************************)
EXTENDS Naturals, FiniteSets

CONSTANTS
  Ends,           \* the two ends of the call
  Paths,          \* the pairs of addresses
  NoPath,         \* the route before any: 0.0.0.0:0
  NoPing,         \* no ping is out
  Offers,         \* the sets of the peer's addresses an end may be given
  Networks,       \* what may become of what is sent where, to begin with
  AskedDetect,    \* detect_after as configured, before it is validated
  GiveUpAfter,    \* give_up_after
  TwicePingCap,   \* UNANSWERED_PING_CAP, twice
  MaxChanges,     \* bound: how often a path changes
  MaxRetries,     \* bound: how often users ask to reconnect
  Watched,        \* the paths the properties watch
  Shared          \* bound: how long a path is watched working

ASSUME ConnectionAssumption ==
  /\ Cardinality(Ends) = 2
  /\ NoPath \notin Paths /\ NoPing \notin Nat
  /\ Offers \subseteq (SUBSET Paths) \ {{}}
  /\ Networks \subseteq [Ends -> [Paths -> {"works", "loses", "refused"}]]
  /\ AskedDetect \in Nat /\ GiveUpAfter \in Nat /\ TwicePingCap \in Nat
  /\ Watched \subseteq Paths
  /\ MaxChanges \in Nat /\ MaxRetries \in Nat /\ Shared \in Nat

VARIABLES
  state,       \* per end, its ConnectionState
  receiver,    \* per end, its receive loop: "none", "on" or "ended"
  monitor,     \* per end, whether its liveness monitor runs
  keepers,     \* per end, how many keep-alive loops run
  current,     \* per end, the address sent to
  others,      \* per end, the peer's other addresses and whether sends go out
  silence,     \* per end, intervals since a packet was taken in
  unanswered,  \* per end, intervals since an answer or since the route moved
  pinged,      \* per end, the age of the oldest ping newer than any answered
  probing,     \* per end, the other addresses this interval's loop has to try
  net,         \* the packets on their way
  way,         \* per end and path, what becomes of what it sends there
  due,         \* the ends whose keep-alive loop has its turn in this interval
  shared,      \* per path, how long it has worked for two ends both up
  changes,
  retries

vars == <<state, receiver, monitor, keepers, current, others, silence,
          unanswered, pinged, probing, net, way, due, shared, changes, retries>>

Interval == 1
\* ReconnectConfig::validated: losing a link takes at least two intervals.
MinDetectIntervals == 2
AtLeast(a, b) == IF a >= b THEN a ELSE b
AtMost(a, b) == IF a <= b THEN a ELSE b
DetectAfter == AtLeast(AskedDetect, MinDetectIntervals * Interval)
GiveUp == AtLeast(GiveUpAfter, DetectAfter)

\* Route::knows
Knows(e, p) == p = current[e] \/ others[e][p] # "absent"

Peer(e) == CHOOSE o \in Ends : o # e
Transmits(e) == state[e] \in {"Connected", "Reconnecting"}

\* Mutant: pings that are out count for as long as they are.
AnswerWaitUncapped(e) ==
  LET twice == IF pinged[e] = NoPing THEN 0 ELSE 2 * pinged[e]
  IN  AtMost(AtLeast(DetectAfter, Interval + twice), GiveUp)

\* ReconnectConfig::answer_wait of RttMeasurement::slowest_recent: round trips
\* are short here, so the pings still out are the slowest.
AnswerWait(e) ==
  LET twice == IF pinged[e] = NoPing THEN 0 ELSE AtMost(2 * pinged[e], TwicePingCap)
  IN  AtMost(AtLeast(DetectAfter, Interval + twice), GiveUp)
LooksElsewhere(e) == unanswered[e] >= AnswerWait(e)

Packet(e, p, kind) == [from |-> e, path |-> p, kind |-> kind]
\* What a send leaves on the wire.
Sent(e, p, kind) == IF p \in Paths /\ way[e][p] = "works" THEN {Packet(e, p, kind)} ELSE {}
GoesOut(e, p) == way[e][p] # "refused"

(***************************************************************************)
(* How long each path has worked in both directions while both ends were   *)
(* up: the measure the properties hold the two ends to.  No part of code.  *)
(***************************************************************************)
Works(p) == \A e \in Ends : way[e][p] = "works"
BothUp == \A e \in Ends : Transmits(e)
Watch(step) ==
  shared' = [p \in Watched |->
               IF Works(p)' /\ BothUp' THEN AtMost(shared[p] + step, Shared) ELSE 0]

Init ==
  /\ state = [e \in Ends |-> "Disconnected"]
  /\ receiver = [e \in Ends |-> "none"]
  /\ monitor = [e \in Ends |-> FALSE]
  /\ keepers = [e \in Ends |-> 0]
  /\ current = [e \in Ends |-> NoPath]
  /\ others = [e \in Ends |-> [p \in Paths |-> "absent"]]
  /\ silence = [e \in Ends |-> 0]
  /\ unanswered = [e \in Ends |-> 0]
  /\ pinged = [e \in Ends |-> NoPing]
  /\ probing = [e \in Ends |-> {}]
  /\ net = {}
  /\ way \in Networks
  /\ due = {}
  /\ shared = [p \in Watched |-> 0]
  /\ changes = 0
  /\ retries = 0

(***************************************************************************)
(* Connecting: every candidate is probed, and the one that answers fastest *)
(* is taken up.                                                            *)
(***************************************************************************)
StartConnecting(e) ==
  /\ state[e] = "Disconnected" /\ receiver[e] = "none"
  /\ \E offered \in Offers :
       /\ probing' = [probing EXCEPT ![e] = offered]
       /\ state' = [state EXCEPT ![e] =
                      IF Cardinality(offered) = 1 THEN "Connecting" ELSE "CheckingConnectivity"]
  /\ UNCHANGED <<receiver, monitor, keepers, current, others, silence, unanswered,
                 pinged, net, way, due, changes, retries>>
  /\ Watch(0)

\* A peer that probes, or listens to an address it knows, answers a probe.
AnswersProbes(e, p) ==
  \/ state[e] = "CheckingConnectivity" /\ p \in probing[e]
  \/ Transmits(e) /\ receiver[e] = "on" /\ Knows(e, p)

\* The link is up on the candidate chosen; the others are kept with whether the
\* probe to each went out.
ComeUp(e, chosen) ==
  /\ current' = [current EXCEPT ![e] = chosen]
  /\ others' = [others EXCEPT ![e] = [p \in Paths |->
                  IF p \notin probing[e] \ {chosen} THEN "absent"
                  ELSE IF GoesOut(e, p) THEN "sendable" ELSE "unsendable"]]
  /\ state' = [state EXCEPT ![e] = "Connected"]
  /\ silence' = [silence EXCEPT ![e] = 0]
  /\ unanswered' = [unanswered EXCEPT ![e] = 0]
  /\ receiver' = [receiver EXCEPT ![e] = "on"]
  /\ monitor' = [monitor EXCEPT ![e] = TRUE]
  /\ keepers' = [keepers EXCEPT ![e] = 1]
  /\ probing' = [probing EXCEPT ![e] = {}]
  /\ due' = due \cup {e}
  /\ UNCHANGED <<pinged, net, way, changes, retries>>
  /\ Watch(0)

\* connect: the one address there is, if the first keep-alive goes out.
ConnectToOnly(e) ==
  /\ state[e] = "Connecting"
  /\ \E p \in probing[e] : GoesOut(e, p) /\ ComeUp(e, p)

\* connect_with_candidates: an address whose probe was answered.  Which one of
\* those is fastest (Probing::assess) is left open.
ConnectToAnswering(e) ==
  /\ state[e] = "CheckingConnectivity"
  /\ \E p \in probing[e] : Works(p) /\ AnswersProbes(Peer(e), p) /\ ComeUp(e, p)

\* No answer in time: one that could be sent to, or the first when none could
\* (the order the addresses were offered in is left out).
FallBack(e) ==
  /\ state[e] = "CheckingConnectivity"
  /\ \E p \in probing[e] :
       /\ (\E q \in probing[e] : GoesOut(e, q)) => GoesOut(e, p)
       /\ ComeUp(e, p)

\* connect: the first keep-alive cannot be sent, and the call returns the error.
SendFails(e) ==
  /\ state[e] = "Connecting" /\ \A p \in probing[e] : ~GoesOut(e, p)
  /\ state' = [state EXCEPT ![e] = "Disconnected"]  \* its caller drops it
  /\ receiver' = [receiver EXCEPT ![e] = "ended"]
  /\ probing' = [probing EXCEPT ![e] = {}]
  /\ UNCHANGED <<monitor, keepers, current, others, silence, unanswered, pinged,
                 net, way, due, changes, retries>>
  /\ Watch(0)

\* hear_probe: the socket cannot be read.
ProbingFails(e) ==
  /\ state[e] = "CheckingConnectivity"
  /\ state' = [state EXCEPT ![e] = "Failed"]
  /\ UNCHANGED <<receiver, monitor, keepers, current, others, silence, unanswered,
                 pinged, probing, net, way, due, changes, retries>>
  /\ Watch(0)

Disconnect(e) ==
  /\ state[e] # "Disconnected"
  /\ state' = [state EXCEPT ![e] = "Disconnected"]
  /\ receiver' = [receiver EXCEPT ![e] = "ended"]
  /\ monitor' = [monitor EXCEPT ![e] = FALSE]
  /\ keepers' = [keepers EXCEPT ![e] = 0]
  /\ probing' = [probing EXCEPT ![e] = {}]
  /\ due' = due \ {e}
  /\ UNCHANGED <<current, others, silence, unanswered, pinged, net, way, changes, retries>>
  /\ Watch(0)

\* Mutant: the retry does not start the monitor again.
RetryUnwatched(e) ==
  /\ receiver[e] # "none" /\ state[e] \notin {"Disconnected", "Connected"}
  /\ retries < MaxRetries
  /\ retries' = retries + 1
  /\ silence' = [silence EXCEPT ![e] = 0]
  /\ state' = [state EXCEPT ![e] = "Reconnecting"]
  /\ keepers' = [keepers EXCEPT ![e] = @ + 1]
  /\ due' = due \cup {e}
  /\ UNCHANGED <<receiver, monitor, current, others, unanswered, pinged, probing, net, way, changes>>
  /\ Watch(0)

\* reconnect: the user's retry.  The monitor and a keep-alive loop start (an
\* older loop that has not ended goes on); the receive loop does not.
Retry(e) ==
  /\ receiver[e] # "none" /\ state[e] \notin {"Disconnected", "Connected"}
  /\ retries < MaxRetries
  /\ retries' = retries + 1
  /\ silence' = [silence EXCEPT ![e] = 0]
  /\ state' = [state EXCEPT ![e] = "Reconnecting"]
  /\ monitor' = [monitor EXCEPT ![e] = TRUE]
  /\ keepers' = [keepers EXCEPT ![e] = @ + 1]
  /\ due' = due \cup {e}
  /\ UNCHANGED <<receiver, current, others, unanswered, pinged, probing, net, way, changes>>
  /\ Watch(0)

(***************************************************************************)
(* The receive loop, for one packet of the peer.                           *)
(***************************************************************************)
\* Mutant: the route moves to wherever the peer is heard.
FollowsAtOnce(e, p) == p # current[e] /\ others[e][p] = "sendable"

\* Route::follow
Follows(e, p) ==
  /\ p # current[e] /\ LooksElsewhere(e)
  /\ others[e][p] = "sendable"

TakeIn(e, m) ==
  LET follows == Follows(e, m.path)
      answered == m.kind = "pong"
      sendTo == IF follows THEN m.path ELSE current[e]
  IN  /\ silence' = [silence EXCEPT ![e] = 0]
      /\ current' = [current EXCEPT ![e] = sendTo]
      /\ others' = IF follows
                   THEN [others EXCEPT ![e] = [@ EXCEPT ![m.path] = "absent", ![current[e]] = "sendable"]]
                   ELSE others
      /\ unanswered' = IF follows \/ answered THEN [unanswered EXCEPT ![e] = 0] ELSE unanswered
      /\ pinged' = IF answered THEN [pinged EXCEPT ![e] = NoPing] ELSE pinged
      /\ net' = (net \ {m}) \cup (IF m.kind = "ping" THEN Sent(e, sendTo, "pong") ELSE {})

Hear(e) ==
  \E m \in net :
    /\ m.from = Peer(e)
    /\ \/ /\ receiver[e] = "on" /\ Transmits(e)
          /\ TakeIn(e, m)
          /\ UNCHANGED receiver
       \/ /\ ~(receiver[e] = "on" /\ Transmits(e))
          /\ receiver' = [receiver EXCEPT ![e] = IF @ = "on" THEN "ended" ELSE @]
          /\ net' = net \ {m}
          /\ UNCHANGED <<current, others, silence, unanswered, pinged>>
    /\ UNCHANGED <<state, monitor, keepers, probing, way, due, changes, retries>>
    /\ Watch(0)

\* Mutant: a link already called lost is not given up on.
HeedOnce(e) ==
  IF state[e] \in {"Disconnected", "Failed"} THEN state[e]
  ELSE IF silence[e] >= DetectAfter THEN IF state[e] = "Connected" THEN "Reconnecting" ELSE state[e]
  ELSE IF state[e] = "Reconnecting" THEN "Connected" ELSE state[e]

\* What the liveness monitor makes of the silence.
Heed(e) ==
  IF state[e] \in {"Disconnected", "Failed"} THEN state[e]
  ELSE IF silence[e] >= GiveUp THEN "Failed"
  ELSE IF silence[e] >= DetectAfter THEN IF state[e] = "Connected" THEN "Reconnecting" ELSE state[e]
  ELSE IF state[e] = "Reconnecting" THEN "Connected" ELSE state[e]

\* It checks several times in an interval: a check that finds nothing new
\* changes nothing, and one that would find something has to be made.
HasNews(e) == monitor[e] /\ Heed(e) # state[e]
Monitor(e) ==
  /\ HasNews(e)
  /\ state' = [state EXCEPT ![e] = Heed(e)]
  /\ monitor' = [monitor EXCEPT ![e] = Heed(e) # "Failed"]
  /\ UNCHANGED <<receiver, keepers, current, others, silence, unanswered, pinged,
                 probing, net, way, due, changes, retries>>
  /\ Watch(0)

\* One turn of a keep-alive loop: a keep-alive and a ping, and the other
\* addresses to try when nothing is answered.  A turn that finds the link down
\* is the loop's last.
KeepAlive(e) ==
  /\ e \in due
  /\ \/ /\ Transmits(e)
        /\ net' = net \cup Sent(e, current[e], "ping")
        /\ pinged' = [pinged EXCEPT ![e] = IF @ = NoPing THEN 0 ELSE @]
        /\ probing' = [probing EXCEPT ![e] =
                         IF LooksElsewhere(e) THEN {p \in Paths : others[e][p] # "absent"} ELSE {}]
        /\ due' = due \ {e}
        /\ UNCHANGED keepers
     \/ /\ ~Transmits(e)
        /\ keepers' = [keepers EXCEPT ![e] = @ - 1]
        /\ due' = IF keepers[e] = 1 THEN due \ {e} ELSE due
        /\ UNCHANGED <<net, pinged, probing>>
  /\ UNCHANGED <<state, receiver, monitor, current, others, silence, unanswered,
                 way, changes, retries>>
  /\ Watch(0)

TryOther(e) ==
  /\ receiver[e] # "none"
  /\ \E p \in probing[e] :
       /\ net' = net \cup Sent(e, p, "alive")
       /\ others' = [others EXCEPT ![e][p] =
                       IF @ = "absent" THEN @ ELSE IF GoesOut(e, p) THEN "sendable" ELSE "unsendable"]
       /\ probing' = [probing EXCEPT ![e] = @ \ {p}]
       /\ UNCHANGED <<state, receiver, monitor, keepers, current, silence, unanswered,
                      pinged, way, due, changes, retries>>
       /\ Watch(0)

Quiet == net = {} /\ due = {} /\ \A e \in Ends : ~HasNews(e) /\ (receiver[e] # "none" => probing[e] = {})

Tick ==
  /\ Quiet
  /\ \E e \in Ends : monitor[e] \/ keepers[e] > 0
  /\ silence' = [e \in Ends |-> IF receiver[e] = "none" \/ state[e] = "Disconnected" THEN 0 ELSE AtMost(silence[e] + 1, GiveUp)]
  /\ unanswered' = [e \in Ends |-> IF receiver[e] = "none" \/ state[e] = "Disconnected" THEN 0
                                   ELSE AtMost(unanswered[e] + 1, AtLeast(DetectAfter, Interval + TwicePingCap))]
  /\ pinged' = [e \in Ends |-> IF pinged[e] = NoPing THEN NoPing ELSE AtMost(pinged[e] + 1, TwicePingCap)]
  /\ due' = {e \in Ends : keepers[e] > 0}
  /\ UNCHANGED <<state, receiver, monitor, keepers, current, others, probing, net,
                 way, changes, retries>>
  /\ Watch(1)

\* External: a network that comes and goes.
WayChanges ==
  /\ changes < MaxChanges
  /\ changes' = changes + 1
  /\ \E e \in Ends, p \in Paths, w \in {"works", "loses", "refused"} :
       w # way[e][p] /\ way' = [way EXCEPT ![e][p] = w]
  /\ UNCHANGED <<state, receiver, monitor, keepers, current, others, silence,
                 unanswered, pinged, probing, net, due, retries>>
  /\ Watch(0)

Tasks ==
  \/ Tick
  \/ \E e \in Ends : Hear(e) \/ Monitor(e) \/ KeepAlive(e) \/ TryOther(e)

Next ==
  \/ Tasks
  \/ WayChanges
  \/ \E e \in Ends : \/ StartConnecting(e) \/ ConnectToOnly(e) \/ ConnectToAnswering(e) \/ FallBack(e) \/ SendFails(e)
                     \/ ProbingFails(e) \/ Disconnect(e) \/ Retry(e)

Spec == Init /\ [][Next]_vars

\* The runtime runs what is due and time goes on; a check of the paths ends.
FairSpec ==
  /\ Spec
  /\ WF_vars(Tasks)
  /\ \A e \in Ends : WF_vars(ConnectToOnly(e) \/ ConnectToAnswering(e) \/ FallBack(e) \/ SendFails(e))
-----------------------------------------------------------------------------
TypeOK ==
  /\ state \in [Ends -> {"Disconnected", "Connecting", "CheckingConnectivity", "Connected",
                         "Reconnecting", "Failed"}]
  /\ receiver \in [Ends -> {"none", "on", "ended"}]
  /\ monitor \in [Ends -> BOOLEAN]
  /\ keepers \in [Ends -> Nat]
  /\ current \in [Ends -> Paths \cup {NoPath}]
  /\ others \in [Ends -> [Paths -> {"absent", "sendable", "unsendable"}]]
  /\ silence \in [Ends -> Nat]
  /\ unanswered \in [Ends -> Nat]
  /\ pinged \in [Ends -> Nat \cup {NoPing}]
  /\ probing \in [Ends -> SUBSET Paths]
  /\ net \subseteq [from : Ends, path : Paths, kind : {"ping", "pong", "alive"}]
  /\ way \in [Ends -> [Paths -> {"works", "loses", "refused"}]]
  /\ due \subseteq Ends
  /\ shared \in [Watched -> Nat]
  /\ changes \in Nat /\ retries \in Nat

FoundEachOther(p) == \A e \in Ends : Knows(e, p)
Listen == \A e \in Ends : receiver[e] = "on"

\* An end gives up only when no path both ends know has worked both ways for
\* all of the silence.
GivesUpOnlyOnDeadPaths ==
  [][\A e \in Ends : Transmits(e) /\ state'[e] = "Failed" /\ Listen =>
       \A p \in Watched : FoundEachOther(p) => shared[p] < Shared]_vars

\* Two ends that stay up on a path that goes on working settle: both are
\* connected and answered, and neither moves any more, whatever the other paths
\* do.
SettlesOnAWorkingPath ==
  \A p \in Watched :
    <>[](Works(p) /\ BothUp /\ Listen /\ FoundEachOther(p))
      => /\ <>[](\A e \in Ends : state[e] = "Connected" /\ ~LooksElsewhere(e))
         /\ <>[][UNCHANGED current]_current

\* The user's retry is a full attempt (connection.rs:1324, 1335): two ends that
\* have both been trying, over a path that works, hear each other.
RetryIsHeard ==
  \A p \in Watched :
    shared[p] = Shared /\ FoundEachOther(p) => \A e \in Ends : silence[e] < DetectAfter

\* Being lost is a passing state: the link is got over or given up on.
LostOrFound ==
  \A e \in Ends : state[e] = "Reconnecting" ~> state[e] \in {"Connected", "Failed", "Disconnected"}

\* A peer that is gone is noticed, and the user is asked.
GoneIsNoticed ==
  \A e \in Ends : state[Peer(e)] = "Disconnected" /\ receiver[Peer(e)] = "ended"
                    ~> state[e] \notin {"Connected", "Reconnecting"}
=============================================================================
