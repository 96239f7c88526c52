------------------------------ MODULE Keepalive ------------------------------
(***************************************************************************)
(* The timing of one registered connection: the node's pinger              *)
(* (node/coord_client.go), the read deadline and the ping handler of        *)
(* handleNodeWS and the prune loop (coordinator/main.go).  The connection   *)
(* was registered at time 0.                                                *)
(*                                                                         *)
(* Clocks are natural numbers.  Time passes only when nothing is due: a     *)
(* timer that has expired is acted upon before the clock moves on, and a    *)
(* ping of a live node is handled within MaxDelay of its tick (the network  *)
(* and the scheduling of both ends).  Locks are free (see Coordinator.tla). *)
(***************************************************************************)
EXTENDS Integers

CONSTANTS PingInterval,   \* coordPingInterval of the node
          DropAfter,      \* nodeDropAfter of the coordinator
          PruneInterval,  \* period of pruneLoop
          MaxDelay,       \* longest time from a ping's tick to its handling
          MaxTime         \* bound: the clock stops here

ASSUME TimingAssumption ==
    /\ PingInterval \in Nat \ {0}
    /\ DropAfter \in Nat
    /\ PruneInterval \in Nat \ {0}
    /\ MaxDelay \in Nat
    /\ PingInterval + MaxDelay < DropAfter
    /\ MaxTime \in Nat

VARIABLES
    now,        \* the clock
    node,       \* "alive": it runs and the network delivers its messages
    died,       \* when that ended
    nextPing,   \* next tick of the node's ticker
    oldest,     \* tick of the oldest ping not handled yet; nextPing if none
    lastSeen,   \* n.lastSeen
    deadline,   \* the read deadline of conn
    nextPrune,  \* next tick of pruneLoop
    entry,      \* the connection's entry in c.nodes: "listed" or "none"
    conn,       \* "open", or "closed" by pruneLoop
    hpc         \* the read loop runs, has ended, or has unregistered

vars == <<now, node, died, nextPing, oldest, lastSeen, deadline, nextPrune,
          entry, conn, hpc>>

\* The node's ticker starts when the node has sent its registration.
Init ==
    /\ now = 0
    /\ node = "alive" /\ died = 0
    /\ nextPing \in 1..PingInterval
    /\ oldest = nextPing
    /\ lastSeen = 0
    /\ deadline = DropAfter
    /\ nextPrune \in 1..PruneInterval
    /\ entry = "listed" /\ conn = "open"
    /\ hpc = "reading"

Tick ==
    /\ now < MaxTime
    /\ node = "alive" => now < nextPing /\ (oldest < nextPing => now < oldest + MaxDelay)
    /\ hpc = "reading" => now < deadline /\ conn = "open"
    /\ hpc # "unregister"
    /\ now < nextPrune
    /\ now' = now + 1
    /\ UNCHANGED <<node, died, nextPing, oldest, lastSeen, deadline, nextPrune,
                   entry, conn, hpc>>

\* The machine or the network disappears without a packet.
Vanish ==
    /\ node = "alive"
    /\ node' = "gone" /\ died' = now
    /\ UNCHANGED <<now, nextPing, oldest, lastSeen, deadline, nextPrune, entry,
                   conn, hpc>>

SendPing ==
    /\ node = "alive"
    /\ now = nextPing
    /\ nextPing' = nextPing + PingInterval
    /\ UNCHANGED <<now, node, died, oldest, lastSeen, deadline, nextPrune, entry,
                   conn, hpc>>

\* Mutant: the handler answers the ping and does not set lastSeen.
HandlePingUnseen ==
    /\ hpc = "reading" /\ conn = "open" /\ now < deadline
    /\ oldest < nextPing /\ now <= oldest + MaxDelay
    /\ oldest' = oldest + PingInterval
    /\ deadline' = now + DropAfter
    /\ UNCHANGED <<now, node, died, nextPing, lastSeen, nextPrune, entry, conn, hpc>>

\* Mutant: the deadline is set only when ReadMessage returns, and a ping does not
\* make it return.
HandlePingNoDeadline ==
    /\ hpc = "reading" /\ conn = "open" /\ now < deadline
    /\ oldest < nextPing /\ now <= oldest + MaxDelay
    /\ oldest' = oldest + PingInterval
    /\ lastSeen' = now
    /\ UNCHANGED <<now, node, died, nextPing, deadline, nextPrune, entry, conn, hpc>>

\* The ping handler.
HandlePing ==
    /\ hpc = "reading" /\ conn = "open" /\ now < deadline
    /\ oldest < nextPing /\ now <= oldest + MaxDelay
    /\ oldest' = oldest + PingInterval
    /\ lastSeen' = now
    /\ deadline' = now + DropAfter
    /\ UNCHANGED <<now, node, died, nextPing, nextPrune, entry, conn, hpc>>

\* Any other message makes the read loop come round: the deadline moves and
\* lastSeen does not.
ReadMessage ==
    /\ hpc = "reading" /\ conn = "open" /\ now < deadline
    /\ node = "alive" \/ now <= died + MaxDelay
    /\ deadline' = now + DropAfter
    /\ UNCHANGED <<now, node, died, nextPing, oldest, lastSeen, nextPrune, entry,
                   conn, hpc>>

\* The read fails: the deadline has passed, or pruneLoop has closed conn.
ReadFails ==
    /\ hpc = "reading"
    /\ now >= deadline \/ conn = "closed"
    /\ hpc' = "unregister"
    /\ UNCHANGED <<now, node, died, nextPing, oldest, lastSeen, deadline, nextPrune,
                   entry, conn>>

\* Mutant: the handler returns without unregistering.
UnregisterNothing ==
    /\ hpc = "unregister"
    /\ hpc' = "done"
    /\ UNCHANGED <<now, node, died, nextPing, oldest, lastSeen, deadline, nextPrune,
                   entry, conn>>

Unregister ==
    /\ hpc = "unregister"
    /\ hpc' = "done" /\ entry' = "none"
    /\ UNCHANGED <<now, node, died, nextPing, oldest, lastSeen, deadline, nextPrune,
                   conn>>

\* n.lastSeen.Before(cutoff)
Stale == lastSeen < now - DropAfter

Prune ==
    /\ now = nextPrune
    /\ nextPrune' = nextPrune + PruneInterval
    /\ IF entry = "listed" /\ Stale
       THEN entry' = "none" /\ conn' = "closed"
       ELSE UNCHANGED <<entry, conn>>
    /\ UNCHANGED <<now, node, died, nextPing, oldest, lastSeen, deadline, hpc>>

Next ==
    \/ Tick \/ Vanish \/ SendPing \/ HandlePing \/ ReadMessage \/ ReadFails
    \/ Unregister \/ Prune

Spec == Init /\ [][Next]_vars

------------------------------------------------------------------------------
\* The values each variable takes.
TypeOK ==
    /\ now \in Nat /\ died \in Nat
    /\ nextPing \in Nat /\ oldest \in Nat
    /\ lastSeen \in Nat /\ deadline \in Nat /\ nextPrune \in Nat
    /\ node \in {"alive", "gone"}
    /\ entry \in {"listed", "none"} /\ conn \in {"open", "closed"}
    /\ hpc \in {"reading", "unregister", "done"}

\* A live node is never dropped, neither by the deadline nor by the pruner,
\* although a ping may come as late as DropAfter - PingInterval allows.
LiveNodeKept ==
    node = "alive" => entry = "listed" /\ conn = "open" /\ hpc = "reading"

\* A vanished node is out of the registry DropAfter after the last message of
\* it that can still arrive: the read deadline works without the pruner.
VanishedNodeDropped ==
    entry = "listed" /\ node = "gone" => now <= died + MaxDelay + DropAfter

\* Whatever other messages arrive, no entry is listed for longer than one prune
\* period past DropAfter without a ping.
SilenceBounded ==
    entry = "listed" => now <= lastSeen + DropAfter + PruneInterval

------------------------------------------------------------------------------
(* Why: the gap between two pings handled is at most PingInterval + MaxDelay. *)
IInv ==
    /\ TypeOK
    /\ lastSeen <= now
    /\ now <= nextPrune /\ nextPrune <= now + PruneInterval
    /\ entry = "listed" => nextPrune <= lastSeen + DropAfter + PruneInterval
    /\ deadline >= lastSeen + DropAfter
    /\ deadline <= (IF node = "alive" THEN now ELSE died + MaxDelay) + DropAfter
    /\ \E k \in 0..nextPing : nextPing = oldest + k * PingInterval
    /\ nextPing <= (IF node = "alive" THEN now ELSE died) + PingInterval
    /\ oldest <= lastSeen + PingInterval
    /\ node = "alive" => /\ entry = "listed" /\ conn = "open" /\ hpc = "reading"
                         /\ now <= nextPing
                         /\ now <= oldest + MaxDelay
    /\ node = "gone" => died <= now
    /\ entry = "listed" => conn = "open"
    /\ hpc # "done" => now <= deadline \/ conn = "closed"
    /\ hpc = "done" => entry = "none"
==============================================================================
