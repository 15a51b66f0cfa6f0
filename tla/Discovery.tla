----------------------------- MODULE Discovery -----------------------------
(* Discovery of peers: every running node multicasts a heartbeat each second  *)
(* (discovery.rs, start_broadcaster), a listener registers what it hears      *)
(* (start_listener, PeerRegistry::register), and a task drops the peers not   *)
(* heard of for nine seconds, every three (main.rs, clean_stale).  Datagrams  *)
(* are delayed (in the network, or while the listener backs off after an      *)
(* error), duplicated and lost.  Time is discrete: one Tick is one second,    *)
(* and a sleep ends in the tick in which it is due.                           *)
EXTENDS Naturals

CONSTANTS
    Nodes,       \* the uuids; a node that is started again has a new one
    Beat,        \* between two heartbeats of a node
    SweepEvery,  \* between two sweeps of the registry
    Timeout,     \* how long a peer is kept without a heartbeat
    MaxDelay,    \* assumed of the network: the age at which a datagram arrives
    MaxLoss      \* assumed of the network: heartbeats lost in a row

ASSUME DiscoveryAssumption ==
    /\ {Beat, SweepEvery, Timeout} \subseteq Nat \ {0}
    /\ {MaxDelay, MaxLoss} \subseteq Nat
    /\ (MaxLoss + 1) * Beat + MaxDelay < Timeout

(* The time after which a running node is known, and a stopped one is not.   *)
Known == (MaxLoss + 1) * Beat + MaxDelay
Forgotten == MaxDelay + Timeout + SweepEvery

VARIABLES
    up,       \* new, up or gone
    since,    \* time since a node was started (up to Known + 1) or stopped (up to Forgotten)
    beat,     \* time since its last heartbeat
    lost,     \* its last heartbeats that were lost in a row
    air,      \* datagrams on their way
    listed,   \* the nodes in the registry
    age,      \* time since the last_seen of a listed one (up to Forgotten)
    sweeper   \* time since the last sweep

nodes == <<up, since, beat, lost>>
registry == <<listed, age>>
vars == <<nodes, air, registry, sweeper>>

----------------------------------------------------------------------------

Init ==
    /\ up = [n \in Nodes |-> "new"]
    /\ since = [n \in Nodes |-> 0]
    /\ beat = [n \in Nodes |-> 0]
    /\ lost = [n \in Nodes |-> 0]
    /\ air = {}
    /\ listed = {} /\ age = [n \in Nodes |-> 0]
    /\ sweeper = 0

(* A node starts; its first heartbeat is due at once.                        *)
Boot(n) ==
    /\ up[n] = "new"
    /\ up' = [up EXCEPT ![n] = "up"]
    /\ since' = [since EXCEPT ![n] = 0]
    /\ beat' = [beat EXCEPT ![n] = Beat]
    /\ UNCHANGED <<lost, air, registry, sweeper>>

(* A node stops or crashes.  It takes no leave.                              *)
Stop(n) ==
    /\ up[n] = "up"
    /\ up' = [up EXCEPT ![n] = "gone"]
    /\ since' = [since EXCEPT ![n] = 0]
    /\ beat' = [beat EXCEPT ![n] = 0] /\ lost' = [lost EXCEPT ![n] = 0]
    /\ UNCHANGED <<air, registry, sweeper>>

(* broadcast_once, whose error is only logged, then the sleep.               *)
Broadcast(n) ==
    /\ up[n] = "up" /\ beat[n] = Beat
    /\ beat' = [beat EXCEPT ![n] = 0]
    /\ \/ /\ air' = air \cup {[node |-> n, age |-> 0, heard |-> FALSE]}
          /\ lost' = [lost EXCEPT ![n] = 0]
       \/ /\ lost[n] < MaxLoss
          /\ lost' = [lost EXCEPT ![n] = @ + 1]
          /\ UNCHANGED air
    /\ UNCHANGED <<up, since, registry, sweeper>>

(* Mutant: a peer that is registered already is not registered again.        *)
ReceiveFirst(d) ==
    /\ air' = (air \ {d}) \cup {[d EXCEPT !.heard = TRUE]}
    /\ listed' = listed \cup {d.node}
    /\ age' = IF d.node \in listed THEN age ELSE [age EXCEPT ![d.node] = 0]
    /\ UNCHANGED <<nodes, sweeper>>

(* A datagram is received, possibly more than once: register inserts the     *)
(* peer or replaces it, and sets last_seen.                                  *)
Receive(d) ==
    /\ air' = (air \ {d}) \cup {[d EXCEPT !.heard = TRUE]}
    /\ listed' = listed \cup {d.node}
    /\ age' = [age EXCEPT ![d.node] = 0]
    /\ UNCHANGED <<nodes, sweeper>>

(* Mutant: a peer is kept up to and including the timeout.                   *)
SweepLate ==
    /\ sweeper = SweepEvery
    /\ sweeper' = 0
    /\ listed' = {n \in listed : age[n] <= Timeout}
    /\ age' = [n \in Nodes |-> IF n \in listed' THEN age[n] ELSE 0]
    /\ UNCHANGED <<nodes, air>>

(* Mutant: the interval is not started again.                                *)
SweepOver ==
    /\ sweeper = SweepEvery
    /\ sweeper' = sweeper + 1
    /\ listed' = {n \in listed : age[n] < Timeout}
    /\ age' = [n \in Nodes |-> IF n \in listed' THEN age[n] ELSE 0]
    /\ UNCHANGED <<nodes, air>>

(* clean_stale                                                               *)
Sweep ==
    /\ sweeper = SweepEvery
    /\ sweeper' = 0
    /\ listed' = {n \in listed : age[n] < Timeout}
    /\ age' = [n \in Nodes |-> IF n \in listed' THEN age[n] ELSE 0]
    /\ UNCHANGED <<nodes, air>>

Older(t) == IF t < Forgotten THEN t + 1 ELSE t

(* Time passes when nothing is due.                                          *)
Tick ==
    /\ \A n \in Nodes : up[n] = "up" => beat[n] < Beat
    /\ sweeper < SweepEvery
    /\ \A d \in air : d.age = MaxDelay => d.heard
    /\ since' = [n \in Nodes |-> IF up[n] = "new" \/ (up[n] = "up" /\ since[n] > Known)
                                 THEN since[n] ELSE Older(since[n])]
    /\ beat' = [n \in Nodes |-> IF up[n] = "up" THEN beat[n] + 1 ELSE beat[n]]
    /\ age' = [n \in Nodes |-> IF n \in listed THEN Older(age[n]) ELSE 0]
    /\ air' = {[d EXCEPT !.age = @ + 1] : d \in {e \in air : e.age < MaxDelay}}
    /\ sweeper' = sweeper + 1
    /\ UNCHANGED <<up, lost, listed>>

Next ==
    \/ \E n \in Nodes : Boot(n) \/ Stop(n) \/ Broadcast(n)
    \/ \E d \in air : Receive(d)
    \/ Sweep \/ Tick

Spec == Init /\ [][Next]_vars

----------------------------------------------------------------------------
(* Properties *)

(* The clocks stay within the intervals of the code: no heartbeat and no     *)
(* sweep is overdue when a second passes.                                    *)
TypeOK ==
    /\ up \in [Nodes -> {"new", "up", "gone"}]
    /\ since \in [Nodes -> 0..Forgotten]
    /\ beat \in [Nodes -> 0..Beat]
    /\ lost \in [Nodes -> 0..MaxLoss]
    /\ air \subseteq [node : Nodes, age : 0..MaxDelay, heard : BOOLEAN]
    /\ listed \subseteq Nodes
    /\ age \in [Nodes -> 0..Forgotten]
    /\ sweeper \in 0..SweepEvery

(* A node that has been running for long enough is in the registry, whatever *)
(* heartbeats were lost or late within the assumed bounds: the sweep never   *)
(* drops a running peer.                                                     *)
LiveIsListed == \A n \in Nodes : up[n] = "up" /\ since[n] > Known => n \in listed

(* A node that stopped is not offered as a destination for longer than the   *)
(* timeout and one sweep after its last datagram could arrive - though it    *)
(* may be up to then, beside the node started in its place.                  *)
GoneIsForgotten == \A n \in Nodes : up[n] = "gone" /\ since[n] >= Forgotten => n \notin listed
=============================================================================
