--------------------------- MODULE DiscoveryProofs ---------------------------
(* Proofs about Discovery, for every set of nodes and all durations that      *)
(* satisfy DiscoveryAssumption.                                               *)
EXTENDS Discovery, TLAPS

(* What the durations are.                                                   *)
LEMMA Durations ==
    /\ Beat \in Nat /\ Beat > 0 /\ SweepEvery \in Nat /\ SweepEvery > 0
    /\ Timeout \in Nat /\ Timeout > 0 /\ MaxDelay \in Nat /\ MaxLoss \in Nat
    /\ Known \in Nat /\ Forgotten \in Nat /\ Known < Timeout
    /\ Forgotten = MaxDelay + Timeout + SweepEvery
BY DiscoveryAssumption DEF Known, Forgotten

(* How long ago the last heartbeat was sent that was not lost.               *)
Sent(n) == lost[n] * Beat + beat[n]

LEMMA Losses ==
    ASSUME NEW i \in 0..MaxLoss
    PROVE  /\ i * Beat \in Nat /\ (i + 1) * Beat = i * Beat + Beat
           /\ i * Beat + Beat <= (MaxLoss + 1) * Beat
           /\ (MaxLoss + 1) * Beat \in Nat
           /\ Known = (MaxLoss + 1) * Beat + MaxDelay
<1>1. i \in Nat /\ MaxLoss \in Nat /\ Beat \in Nat /\ i <= MaxLoss
    BY Durations
<1>2. i * Beat \in Nat /\ (i + 1) * Beat = i * Beat + Beat /\ (MaxLoss + 1) * Beat \in Nat
    BY <1>1
<1>3. PICK k \in Nat : MaxLoss = i + k
    <2>1. MaxLoss - i \in Nat /\ MaxLoss = i + (MaxLoss - i)
        BY <1>1
    <2>. QED  BY <2>1
<1>4. (MaxLoss + 1) * Beat = i * Beat + Beat + k * Beat /\ k * Beat \in Nat
    BY <1>1, <1>3
<1>. QED  BY <1>1, <1>2, <1>4 DEF Known

----------------------------------------------------------------------------

LEMMA OlderTyped ==
    ASSUME NEW t \in 0..Forgotten
    PROVE  Older(t) \in 0..Forgotten /\ Older(t) <= t + 1 /\ (Older(t) = t + 1 \/ Older(t) = Forgotten)
BY Durations DEF Older

LEMMA InitTypeOK == Init => TypeOK
BY Durations DEF Init, TypeOK

LEMMA NextTypeOK == TypeOK /\ [Next]_vars => TypeOK'
<1>. SUFFICES ASSUME TypeOK, [Next]_vars PROVE TypeOK'
    OBVIOUS
<1>1. ASSUME NEW n \in Nodes, Boot(n) PROVE TypeOK'
    BY <1>1, Durations DEF Boot, TypeOK, registry
<1>2. ASSUME NEW n \in Nodes, Stop(n) PROVE TypeOK'
    <2>1. up' \in [Nodes -> {"new", "up", "gone"}]
        BY <1>2 DEF Stop, TypeOK
    <2>2. since' \in [Nodes -> 0..Forgotten]
        BY <1>2, Durations DEF Stop, TypeOK
    <2>3. beat' \in [Nodes -> 0..Beat] /\ lost' \in [Nodes -> 0..MaxLoss]
        BY <1>2, Durations DEF Stop, TypeOK
    <2>. QED  BY <1>2, <2>1, <2>2, <2>3 DEF Stop, TypeOK, registry
<1>3. ASSUME NEW n \in Nodes, Broadcast(n) PROVE TypeOK'
    <2>1. beat' \in [Nodes -> 0..Beat]
        BY <1>3, Durations DEF Broadcast, TypeOK
    <2>2. lost' \in [Nodes -> 0..MaxLoss]
        <3>1. lost[n] \in 0..MaxLoss /\ lost \in [Nodes -> 0..MaxLoss] /\ MaxLoss \in Nat
            BY Durations DEF TypeOK
        <3>2. lost' = [lost EXCEPT ![n] = 0] \/ (lost[n] < MaxLoss /\ lost' = [lost EXCEPT ![n] = @ + 1])
            BY <1>3 DEF Broadcast
        <3>. QED  BY <3>1, <3>2
    <2>3. air' \subseteq [node : Nodes, age : 0..MaxDelay, heard : BOOLEAN]
        <3>1. [node |-> n, age |-> 0, heard |-> FALSE] \in [node : Nodes, age : 0..MaxDelay, heard : BOOLEAN]
            BY Durations
        <3>2. air' = air \/ air' = air \cup {[node |-> n, age |-> 0, heard |-> FALSE]}
            BY <1>3 DEF Broadcast
        <3>3. air \subseteq [node : Nodes, age : 0..MaxDelay, heard : BOOLEAN]
            BY DEF TypeOK
        <3>. QED  BY <3>1, <3>2, <3>3
    <2>. QED  BY <1>3, <2>1, <2>2, <2>3 DEF Broadcast, TypeOK, registry
<1>4. ASSUME NEW d \in air, Receive(d) PROVE TypeOK'
    <2>1. d \in [node : Nodes, age : 0..MaxDelay, heard : BOOLEAN]
        BY DEF TypeOK
    <2>2. air' \subseteq [node : Nodes, age : 0..MaxDelay, heard : BOOLEAN]
        <3>1. [d EXCEPT !.heard = TRUE] \in [node : Nodes, age : 0..MaxDelay, heard : BOOLEAN]
            BY <2>1
        <3>2. air' = (air \ {d}) \cup {[d EXCEPT !.heard = TRUE]}
            BY <1>4 DEF Receive
        <3>. QED  BY <3>1, <3>2 DEF TypeOK
    <2>3. listed' \subseteq Nodes /\ age' \in [Nodes -> 0..Forgotten]
        BY <1>4, <2>1, Durations DEF Receive, TypeOK
    <2>. QED  BY <1>4, <2>2, <2>3 DEF Receive, TypeOK, nodes
<1>5. CASE Sweep
    <2>1. listed' \subseteq Nodes /\ age' \in [Nodes -> 0..Forgotten]
        BY <1>5, Durations DEF Sweep, TypeOK
    <2>. QED  BY <1>5, <2>1, Durations DEF Sweep, TypeOK, nodes
<1>6. CASE Tick
    <2>1. since' \in [Nodes -> 0..Forgotten] /\ age' \in [Nodes -> 0..Forgotten]
        <3>1. 0 \in 0..Forgotten
            BY Durations
        <3>2. \A n \in Nodes : since[n] \in 0..Forgotten /\ age[n] \in 0..Forgotten
            BY DEF TypeOK
        <3>3. \A n \in Nodes : Older(since[n]) \in 0..Forgotten /\ Older(age[n]) \in 0..Forgotten
            BY <3>2, OlderTyped
        <3>4. since' = [n \in Nodes |-> IF up[n] = "new" \/ (up[n] = "up" /\ since[n] > Known)
                                      THEN since[n] ELSE Older(since[n])]
            BY <1>6 DEF Tick
        <3>5. age' = [n \in Nodes |-> IF n \in listed THEN Older(age[n]) ELSE 0]
            BY <1>6 DEF Tick
        <3>6. since' \in [Nodes -> 0..Forgotten]
            BY <3>2, <3>3, <3>4
        <3>7. age' \in [Nodes -> 0..Forgotten]
            BY <3>1, <3>3, <3>5
        <3>. QED  BY <3>6, <3>7
    <2>2. beat' \in [Nodes -> 0..Beat]
        BY <1>6, Durations DEF Tick, TypeOK
    <2>3. air' \subseteq [node : Nodes, age : 0..MaxDelay, heard : BOOLEAN]
        BY <1>6, Durations DEF Tick, TypeOK
    <2>4. sweeper' \in 0..SweepEvery
        BY <1>6, Durations DEF Tick, TypeOK
    <2>. QED  BY <1>6, <2>1, <2>2, <2>3, <2>4 DEF Tick, TypeOK
<1>7. CASE UNCHANGED vars
    BY <1>7 DEF vars, nodes, registry, TypeOK
<1>. QED  BY <1>1, <1>2, <1>3, <1>4, <1>5, <1>6, <1>7 DEF Next

(* The clocks stay within the intervals of the code.                         *)
THEOREM DiscoveryTyped == Spec => []TypeOK
<1>. QED  BY InitTypeOK, NextTypeOK, PTL DEF Spec

----------------------------------------------------------------------------
(* A node that stopped: its datagrams on their way are as old as its absence, *)
(* so its entry is, but for their delay; and no entry outlives the timeout by *)
(* more than the sweep is away.                                              *)
NoEcho == \A n \in Nodes : up[n] = "gone" => \A d \in air : d.node = n => since[n] <= d.age
Fading == \A n \in Nodes : up[n] = "gone" /\ n \in listed => since[n] <= age[n] + MaxDelay
Swept == \A n \in listed : age[n] < Timeout + sweeper
GoneInv == NoEcho /\ Fading /\ Swept

LEMMA InitGone == Init => GoneInv
BY DEF Init, GoneInv, NoEcho, Fading, Swept

LEMMA NextGone == TypeOK /\ GoneInv /\ [Next]_vars => GoneInv'
<1>. SUFFICES ASSUME TypeOK, GoneInv, [Next]_vars PROVE GoneInv'
    OBVIOUS
<1>. USE DEF GoneInv
<1>1. ASSUME NEW n \in Nodes, Boot(n) PROVE GoneInv'
    BY <1>1 DEF Boot, TypeOK, registry, NoEcho, Fading, Swept
<1>2. ASSUME NEW n \in Nodes, Stop(n) PROVE GoneInv'
    <2>1. NoEcho'
        BY <1>2, Durations DEF Stop, TypeOK, NoEcho
    <2>2. Fading'
        BY <1>2, Durations DEF Stop, TypeOK, registry, Fading
    <2>3. Swept'
        BY <1>2 DEF Stop, registry, Swept
    <2>. QED  BY <2>1, <2>2, <2>3
<1>3. ASSUME NEW n \in Nodes, Broadcast(n) PROVE GoneInv'
    <2>1. NoEcho'
        BY <1>3 DEF Broadcast, TypeOK, NoEcho
    <2>2. Fading' /\ Swept'
        BY <1>3 DEF Broadcast, registry, Fading, Swept
    <2>. QED  BY <2>1, <2>2
<1>4. ASSUME NEW d \in air, Receive(d) PROVE GoneInv'
    <2>1. NoEcho'
        BY <1>4 DEF Receive, TypeOK, nodes, NoEcho
    <2>2. d.node \in Nodes /\ d.age \in 0..MaxDelay
        BY DEF TypeOK
    <2>3. Fading'
        BY <1>4, <2>2, Durations DEF Receive, TypeOK, nodes, NoEcho, Fading
    <2>4. Swept'
        BY <1>4, <2>2, Durations DEF Receive, TypeOK, Swept
    <2>. QED  BY <2>1, <2>3, <2>4
<1>5. CASE Sweep
    BY <1>5, Durations DEF Sweep, TypeOK, nodes, NoEcho, Fading, Swept
<1>6. CASE Tick
    <2>1. NoEcho'
        <3>. SUFFICES ASSUME NEW n \in Nodes, up[n] = "gone", NEW d \in air', d.node = n
                      PROVE  since'[n] <= d.age
            BY <1>6 DEF Tick, NoEcho
        <3>1. PICK e \in air : d = [e EXCEPT !.age = @ + 1]
            BY <1>6 DEF Tick
        <3>2. e \in [node : Nodes, age : 0..MaxDelay, heard : BOOLEAN]
            BY DEF TypeOK
        <3>3. e.node = n /\ d.age = e.age + 1
            BY <3>1, <3>2
        <3>4. since[n] <= e.age /\ since'[n] = Older(since[n])
            BY <1>6, <3>3 DEF NoEcho, Tick
        <3>5. since[n] \in 0..Forgotten
            BY DEF TypeOK
        <3>. QED  BY <3>2, <3>3, <3>4, <3>5, OlderTyped, Durations
    <2>2. Fading'
        <3>. SUFFICES ASSUME NEW n \in Nodes, up[n] = "gone", n \in listed
                      PROVE  since'[n] <= age'[n] + MaxDelay
            BY <1>6 DEF Tick, Fading
        <3>1. since[n] \in 0..Forgotten /\ age[n] \in 0..Forgotten /\ since[n] <= age[n] + MaxDelay
            BY DEF TypeOK, Fading
        <3>2. since'[n] = Older(since[n]) /\ age'[n] = Older(age[n])
            BY <1>6 DEF Tick
        <3>. QED  BY <3>1, <3>2, OlderTyped, Durations
    <2>3. Swept'
        <3>. SUFFICES ASSUME NEW n \in listed PROVE age'[n] < Timeout + sweeper'
            BY <1>6 DEF Tick, Swept
        <3>1. n \in Nodes /\ age[n] \in 0..Forgotten /\ sweeper \in Nat /\ age[n] < Timeout + sweeper
            BY Durations DEF TypeOK, Swept
        <3>2. age'[n] = Older(age[n]) /\ sweeper' = sweeper + 1
            BY <1>6, <3>1 DEF Tick
        <3>. QED  BY <3>1, <3>2, OlderTyped, Durations
    <2>. QED  BY <2>1, <2>2, <2>3
<1>7. CASE UNCHANGED vars
    BY <1>7 DEF vars, nodes, registry, NoEcho, Fading, Swept
<1>. QED  BY <1>1, <1>2, <1>3, <1>4, <1>5, <1>6, <1>7 DEF Next

LEMMA GoneBound == TypeOK /\ GoneInv => GoneIsForgotten
<1>. SUFFICES ASSUME TypeOK, GoneInv, NEW n \in Nodes, up[n] = "gone", since[n] >= Forgotten,
                     n \in listed
              PROVE  FALSE
    BY DEF GoneIsForgotten
<1>1. since[n] <= age[n] + MaxDelay /\ age[n] < Timeout + sweeper
    BY DEF GoneInv, Fading, Swept
<1>2. since[n] \in 0..Forgotten /\ age[n] \in 0..Forgotten /\ sweeper \in 0..SweepEvery
    BY DEF TypeOK
<1>. QED  BY <1>1, <1>2, Durations

(* A stopped node is not offered for longer than the timeout, one sweep and  *)
(* the delay of its last datagram.                                           *)
THEOREM GoneTheorem == Spec => []GoneIsForgotten
<1>1. Init => TypeOK /\ GoneInv
    BY InitTypeOK, InitGone
<1>2. TypeOK /\ GoneInv /\ [Next]_vars => (TypeOK /\ GoneInv)'
    BY NextTypeOK, NextGone
<1>. QED  BY <1>1, <1>2, GoneBound, PTL DEF Spec

----------------------------------------------------------------------------
(* A node that has not started is unknown.  What is heard of a running one is *)
(* no older than its last heartbeat that was not lost - or a heartbeat is on  *)
(* its way that was sent no later than the next after it.                    *)
News(n) == IF n \in listed THEN age[n] ELSE since[n]
OnItsWay(n) ==
    \E d \in air : d.node = n /\ ~d.heard /\ News(n) <= d.age + (MaxLoss + 1) * Beat

Unknown == \A n \in Nodes : up[n] = "new" => n \notin listed /\ \A d \in air : d.node # n
Heard == \A n \in Nodes : up[n] = "up" => News(n) <= Sent(n) \/ OnItsWay(n)
LiveInv == Unknown /\ Heard

(* So no running node's entry reaches the timeout.                           *)
LEMMA NewsBound ==
    ASSUME TypeOK, LiveInv, NEW n \in Nodes, up[n] = "up"
    PROVE  News(n) <= Known
<1>1. lost[n] \in 0..MaxLoss /\ beat[n] \in 0..Beat /\ News(n) \in 0..Forgotten
    BY DEF TypeOK, News
<1>2. CASE News(n) <= Sent(n)
    <2>1. PICK k \in Nat : k = lost[n] * Beat /\ k + Beat <= (MaxLoss + 1) * Beat
        BY <1>1, Losses
    <2>2. Sent(n) = k + beat[n] /\ beat[n] \in Nat /\ beat[n] <= Beat /\ Beat \in Nat
        BY <1>1, <2>1, Durations DEF Sent
    <2>3. PICK w \in Nat : w = (MaxLoss + 1) * Beat /\ Known = w + MaxDelay
        BY <1>1, Losses
    <2>4. Sent(n) <= w
        BY <2>1, <2>2, <2>3
    <2>5. News(n) \in Nat /\ Sent(n) \in Nat /\ MaxDelay \in Nat
        BY <1>1, <2>2, Durations
    <2>. QED  BY <1>2, <2>3, <2>4, <2>5
<1>3. CASE OnItsWay(n)
    <2>1. PICK d \in air : d.node = n /\ News(n) <= d.age + (MaxLoss + 1) * Beat
        BY <1>3 DEF OnItsWay
    <2>2. d.age \in 0..MaxDelay
        BY DEF TypeOK
    <2>. QED  BY <1>1, <2>1, <2>2, Losses, Durations
<1>. QED  BY <1>2, <1>3 DEF LiveInv, Heard

LEMMA InitLive == Init => LiveInv
BY DEF Init, LiveInv, Unknown, Heard

LEMMA LiveBound == TypeOK /\ LiveInv => LiveIsListed
<1>. SUFFICES ASSUME TypeOK, LiveInv, NEW n \in Nodes, up[n] = "up", since[n] > Known, n \notin listed
              PROVE  FALSE
    BY DEF LiveIsListed
<1>1. since[n] <= Known
    BY NewsBound DEF News
<1>. QED  BY <1>1, Durations DEF TypeOK

LEMMA NextUnknown == TypeOK /\ LiveInv /\ [Next]_vars => Unknown'
<1>. SUFFICES ASSUME TypeOK, Unknown, [Next]_vars PROVE Unknown'
    BY DEF LiveInv
<1>1. ASSUME NEW n \in Nodes, Boot(n) PROVE Unknown'
    BY <1>1 DEF Boot, TypeOK, registry, Unknown
<1>2. ASSUME NEW n \in Nodes, Stop(n) PROVE Unknown'
    BY <1>2 DEF Stop, TypeOK, registry, Unknown
<1>3. ASSUME NEW n \in Nodes, Broadcast(n) PROVE Unknown'
    BY <1>3 DEF Broadcast, TypeOK, registry, Unknown
<1>4. ASSUME NEW d \in air, Receive(d) PROVE Unknown'
    BY <1>4 DEF Receive, TypeOK, nodes, Unknown
<1>5. CASE Sweep
    BY <1>5 DEF Sweep, nodes, Unknown
<1>6. CASE Tick
    <2>1. \A d \in air' : \E e \in air : d.node = e.node
        BY <1>6 DEF Tick, TypeOK
    <2>. QED  BY <1>6, <2>1 DEF Tick, Unknown
<1>7. CASE UNCHANGED vars
    BY <1>7 DEF vars, nodes, registry, Unknown
<1>. QED  BY <1>1, <1>2, <1>3, <1>4, <1>5, <1>6, <1>7 DEF Next

(* A node the step leaves alone, with its entry and its datagrams.           *)
LEMMA HeardKept ==
    ASSUME NEW n \in Nodes, News(n) <= Sent(n) \/ OnItsWay(n),
           lost'[n] = lost[n], beat'[n] = beat[n], News(n)' = News(n),
           \A d \in air : d.node = n => d \in air'
    PROVE  (News(n) <= Sent(n) \/ OnItsWay(n))'
BY DEF Sent, OnItsWay

LEMMA NextHeard == TypeOK /\ LiveInv /\ [Next]_vars => Heard'
<1>. SUFFICES ASSUME TypeOK, LiveInv, [Next]_vars, NEW n \in Nodes, up'[n] = "up"
              PROVE  (News(n) <= Sent(n) \/ OnItsWay(n))'
    BY DEF Heard
<1>. DEFINE Holds == News(n) <= Sent(n) \/ OnItsWay(n)
<1>0. up[n] = "up" => Holds
    BY DEF LiveInv, Heard
<1>1. ASSUME NEW m \in Nodes, Boot(m) PROVE Holds'
    <2>1. CASE m = n
        <3>1. n \notin listed' /\ since'[n] = 0 /\ beat'[n] = Beat /\ lost'[n] = lost[n]
            BY <1>1, <2>1 DEF Boot, TypeOK, registry, LiveInv, Unknown
        <3>2. News(n)' = 0 /\ lost[n] * Beat \in Nat /\ Sent(n)' = lost[n] * Beat + Beat
            BY <3>1, Losses DEF News, Sent, TypeOK
        <3>. QED  BY <3>2, Durations
    <2>2. CASE m # n
        BY <1>0, <1>1, <2>2, HeardKept DEF Boot, TypeOK, registry, News
    <2>. QED  BY <2>1, <2>2
<1>2. ASSUME NEW m \in Nodes, Stop(m) PROVE Holds'
    <2>1. m # n /\ up[n] = "up" /\ since'[n] = since[n]
        BY <1>2 DEF Stop, TypeOK
    <2>. QED  BY <1>0, <1>2, <2>1, HeardKept DEF Stop, registry, News
<1>3. ASSUME NEW m \in Nodes, Broadcast(m) PROVE Holds'
    <2>1. up[n] = "up" /\ News(n)' = News(n) /\ \A d \in air : d \in air'
        BY <1>3 DEF Broadcast, registry, News
    <2>2. CASE m # n
        BY <1>0, <1>3, <2>1, <2>2, HeardKept DEF Broadcast, TypeOK
    <2>3. CASE OnItsWay(n)
        BY <2>1, <2>3 DEF OnItsWay
    <2>4. CASE m = n /\ News(n) <= Sent(n)
        <3>1. lost[n] \in 0..MaxLoss /\ beat[n] = Beat /\ News(n) \in Nat
            BY <1>3, <2>4, Durations DEF Broadcast, TypeOK, News
        <3>2. Sent(n) = (lost[n] + 1) * Beat /\ Sent(n) <= (MaxLoss + 1) * Beat
            BY <3>1, Losses DEF Sent
        <3>3. CASE air' = air \cup {[node |-> n, age |-> 0, heard |-> FALSE]}
            <4>. DEFINE w == (MaxLoss + 1) * Beat
            <4>0. w \in Nat /\ Sent(n) <= w /\ News(n)' = News(n) /\ Sent(n) \in Nat
                BY <2>1, <3>1, <3>2, Losses, Durations DEF Sent
            <4>. HIDE DEF w
            <4>1. News(n)' <= 0 + w
                BY <2>4, <3>1, <4>0
            <4>. USE DEF w
            <4>2. [node |-> n, age |-> 0, heard |-> FALSE] \in air'
                BY <3>3
            <4>. QED  BY <4>1, <4>2 DEF OnItsWay
        <3>4. CASE lost' = [lost EXCEPT ![n] = @ + 1]
            <4>1. lost'[n] = lost[n] + 1 /\ beat'[n] = 0
                BY <1>3, <2>4, <3>4 DEF Broadcast, TypeOK
            <4>2. Sent(n)' = (lost[n] + 1) * Beat + 0 /\ (lost[n] + 1) * Beat \in Nat
                BY <4>1, <3>1, Losses, Durations DEF Sent
            <4>. QED  BY <4>2, <3>2, <2>1, <2>4
        <3>. QED  BY <1>3, <2>4, <3>3, <3>4 DEF Broadcast
    <2>. QED  BY <1>0, <2>1, <2>2, <2>3, <2>4
<1>4. ASSUME NEW d \in air, Receive(d) PROVE Holds'
    <2>1. up[n] = "up" /\ lost' = lost /\ beat' = beat /\ since' = since
        BY <1>4 DEF Receive, nodes
    <2>2. d.node \in Nodes
        BY DEF TypeOK
    <2>3. CASE d.node = n
        <3>1. News(n)' = 0
            BY <1>4, <2>2, <2>3 DEF Receive, News, TypeOK
        <3>2. Sent(n)' \in Nat
            BY <2>1, Losses, Durations DEF Sent, TypeOK
        <3>. QED  BY <3>1, <3>2
    <2>4. CASE d.node # n
        <3>1. News(n)' = News(n) /\ \A e \in air : e.node = n => e \in air'
            BY <1>4, <2>1, <2>2, <2>4 DEF Receive, News, TypeOK
        <3>. QED  BY <1>0, <2>1, <3>1, HeardKept
    <2>. QED  BY <2>3, <2>4
<1>5. CASE Sweep
    <2>1. up[n] = "up" /\ lost' = lost /\ beat' = beat /\ since' = since /\ air' = air
        BY <1>5 DEF Sweep, nodes
    <2>2. n \in listed => age[n] < Timeout
        BY <2>1, NewsBound, Durations DEF News, TypeOK
    <2>3. News(n)' = News(n)
        BY <1>5, <2>1, <2>2 DEF Sweep, News
    <2>. QED  BY <1>0, <2>1, <2>3, HeardKept
<1>6. CASE Tick
    <2>1. up[n] = "up" /\ beat'[n] = beat[n] + 1 /\ lost'[n] = lost[n]
        BY <1>6 DEF Tick
    <2>0. News(n) <= Known /\ News(n) \in 0..Forgotten
        BY <2>1, NewsBound DEF News, TypeOK
    <2>2. News(n) \in 0..Forgotten /\ News(n)' = Older(News(n))
        <3>1. since[n] \in Nat /\ Known \in Nat /\ n \in Nodes
            BY Durations DEF TypeOK
        <3>2. n \in listed => n \in listed' /\ age'[n] = Older(age[n])
            BY <1>6, <3>1 DEF Tick
        <3>3. n \notin listed => n \notin listed' /\ since'[n] = Older(since[n])
            BY <1>6, <2>0, <2>1, <3>1 DEF Tick, News
        <3>. QED  BY <2>0, <3>2, <3>3 DEF News
    <2>3. News(n)' \in Nat /\ News(n)' <= News(n) + 1
        BY <2>2, OlderTyped
    <2>4. CASE News(n) <= Sent(n)
        <3>1. lost[n] * Beat \in Nat /\ beat[n] \in Nat
            BY Losses DEF TypeOK
        <3>2. Sent(n)' = Sent(n) + 1 /\ Sent(n) \in Nat
            BY <2>1, <3>1 DEF Sent
        <3>. QED  BY <2>2, <2>3, <2>4, <3>2
    <2>5. CASE OnItsWay(n)
        <3>1. PICK d \in air : d.node = n /\ ~d.heard /\ News(n) <= d.age + (MaxLoss + 1) * Beat
            BY <2>5 DEF OnItsWay
        <3>2. d \in [node : Nodes, age : 0..MaxDelay, heard : BOOLEAN]
            BY DEF TypeOK
        <3>3. d.age < MaxDelay
            <4>1. d.age # MaxDelay
                BY <1>6, <3>1 DEF Tick
            <4>2. d.age \in 0..MaxDelay /\ MaxDelay \in Nat
                BY <3>2, Durations
            <4>. QED  BY <4>1, <4>2
        <3>. DEFINE e == [d EXCEPT !.age = @ + 1]
        <3>4. e \in air' /\ e.node = n /\ ~e.heard /\ e.age = d.age + 1
            BY <1>6, <3>1, <3>2, <3>3 DEF Tick
        <3>5. 0 \in 0..MaxLoss
            BY Durations
        <3>6. (MaxLoss + 1) * Beat \in Nat
            BY <3>5, Losses
        <3>7. News(n)' <= e.age + (MaxLoss + 1) * Beat
            BY <2>2, <2>3, <3>1, <3>2, <3>4, <3>6
        <3>. QED  BY <3>4, <3>7 DEF OnItsWay
    <2>. QED  BY <1>0, <2>1, <2>4, <2>5
<1>7. CASE UNCHANGED vars
    BY <1>0, <1>7, HeardKept DEF vars, nodes, registry, News
<1>. QED  BY <1>1, <1>2, <1>3, <1>4, <1>5, <1>6, <1>7 DEF Next

LEMMA NextLive == TypeOK /\ LiveInv /\ [Next]_vars => LiveInv'
BY NextUnknown, NextHeard DEF LiveInv

(* A running node is in the registry, whatever heartbeats are lost or late   *)
(* within the assumed bounds: no sweep drops it.                             *)
THEOREM LiveTheorem == Spec => []LiveIsListed
<1>1. Init => TypeOK /\ LiveInv
    BY InitTypeOK, InitLive
<1>2. TypeOK /\ LiveInv /\ [Next]_vars => (TypeOK /\ LiveInv)'
    BY NextTypeOK, NextLive
<1>. QED  BY <1>1, <1>2, LiveBound, PTL DEF Spec
=============================================================================
