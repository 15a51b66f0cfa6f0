---------------------------- MODULE ResolveProofs ----------------------------
(* Proofs about Resolve, for every set of nodes, all names, addresses and     *)
(* durations.                                                                 *)
EXTENDS Resolve, DiscoveryProofs

LEMMA RDurations ==
    /\ ScanTime \in Nat /\ ScanTime > 0 /\ ListenTime \in Nat /\ ListenTime > 0
    /\ ProbeTime \in Nat /\ ProbeTime > 0
    /\ Everyone \notin Names /\ Fallback \notin Addresses /\ Nobody \notin Nodes
    /\ Name \in [Nodes -> Names]
BY ResolveAssumption

LEMMA AddressLists ==
    ASSUME NEW n \in Nodes
    PROVE  /\ Addr[n] \in Seq(Addresses) /\ Len(Addr[n]) \in Nat
           /\ DOMAIN Addr[n] = 1..Len(Addr[n])
           /\ \A i \in 1..Len(Addr[n]) : Addr[n][i] \in AddressesOf(n) /\ Addr[n][i] \in Addresses
           /\ Addr[n] # <<>> => Len(Addr[n]) > 0
<1>1. Addr[n] \in Seq(Addresses)
    BY ResolveAssumption
<1>2. Len(Addr[n]) \in Nat /\ DOMAIN Addr[n] = 1..Len(Addr[n]) /\ (Addr[n] # <<>> => Len(Addr[n]) > 0)
    BY <1>1
<1>. QED  BY <1>1, <1>2 DEF AddressesOf, Addresses

----------------------------------------------------------------------------
(* The sender only listens.                                                  *)

LEMMA Listens == [RNext]_rvars => [Next]_vars
<1>. SUFFICES ASSUME [RNext]_rvars PROVE [Next]_vars
    OBVIOUS
<1>1. ASSUME NEW n \in Nodes, Boot(n) \/ RBroadcast(n) \/ Stop(n) PROVE Next
    BY <1>1 DEF RBroadcast, Next
<1>2. ASSUME NEW d \in air, Receive(d) PROVE Next
    BY <1>2 DEF Next
<1>3. ASSUME NEW d \in air, ScanHear(d) PROVE UNCHANGED vars
    BY <1>3 DEF ScanHear
<1>4. ASSUME NEW t \in Names \cup {Everyone}, ScanStart(t) PROVE UNCHANGED vars
    BY <1>4 DEF ScanStart
<1>5. ASSUME ScanFind \/ ScanEnd \/ Probe PROVE UNCHANGED vars
    BY <1>5 DEF ScanFind, ScanEnd, Probe
<1>6. ASSUME Sweep \/ RTick PROVE Next
    BY <1>6 DEF RTick, Next
<1>7. ASSUME UNCHANGED rvars PROVE UNCHANGED vars
    BY <1>7 DEF rvars
<1>. QED  BY <1>1, <1>2, <1>3, <1>4, <1>5, <1>6, <1>7 DEF RNext

(* Resolve implements Discovery: what holds of the registries of the nodes   *)
(* holds while a sender scans.                                               *)
THEOREM ResolveImplementsDiscovery == RSpec => Spec
<1>1. RInit => Init
    BY DEF RInit
<1>. QED  BY <1>1, Listens, PTL DEF RSpec, Spec

----------------------------------------------------------------------------
(* The type *)

ScanTyped ==
    /\ scan \in Scans
    /\ Probing => scan.peer \in Nodes /\ scan.next \in DOMAIN Addr[scan.peer] /\ scan.clock <= ProbeTime
    /\ Listening => scan.clock <= Limit /\ scan.peer = Nobody

LEMMA IdleTyped == Idle \in Scans
BY DEF Idle, Scans

LEMMA InitScanTyped == RInit => ScanTyped
BY IdleTyped DEF RInit, Idle, ScanTyped, Probing, Listening

LEMMA DoneTyped ==
    ASSUME scan \in Scans, NEW a \in Addresses \cup {Fallback}, Done(a)
    PROVE  /\ ScanTyped' /\ scan'.pc = "done" /\ scan'.answer = a
           /\ ~Asked => scan'.heard = scan.heard
<1>1. scan' \in Scans
    BY DEF Done, Idle, Scans
<1>2. scan'.pc = "done" /\ scan'.answer = a /\ (~Asked => scan'.heard = scan.heard)
    BY DEF Done, Idle
<1>. QED  BY <1>1, <1>2 DEF ScanTyped, Probing, Listening

LEMMA LimitIs == Limit \in Nat /\ (Asked => Limit = ScanTime)
BY RDurations DEF Limit

LEMMA NextScanTyped == TypeOK /\ ScanTyped /\ [RNext]_rvars => ScanTyped'
<1>. SUFFICES ASSUME TypeOK, ScanTyped, [RNext]_rvars PROVE ScanTyped'
    OBVIOUS
<1>0. scan \in Scans
    BY DEF ScanTyped
<1>1. ASSUME UNCHANGED scan PROVE ScanTyped'
    BY <1>1 DEF ScanTyped, Probing, Listening, Limit, Asked
<1>2. ASSUME NEW n \in Nodes, RBroadcast(n) PROVE ScanTyped'
    <2>1. scan' = scan \/ scan' = [scan EXCEPT !.due = @ \cup {n}]
        BY <1>2 DEF RBroadcast
    <2>. QED  BY <1>0, <2>1 DEF ScanTyped, Scans, Probing, Listening, Limit, Asked
<1>3. ASSUME NEW d \in air, ScanHear(d) PROVE ScanTyped'
    <2>1. d.node \in Nodes
        BY DEF TypeOK
    <2>. QED  BY <1>0, <1>3, <2>1 DEF ScanHear, ScanTyped, Scans, Probing, Listening, Limit, Asked
<1>4. ASSUME NEW t \in Names \cup {Everyone}, ScanStart(t) PROVE ScanTyped'
    <2>1. PICK deaf \in BOOLEAN :
             scan' = [Idle EXCEPT !.pc = "listen", !.target = t, !.deaf = deaf]
        BY <1>4 DEF ScanStart
    <2>2. scan'.pc = "listen" /\ scan'.clock = 0 /\ scan'.peer = Nobody /\ scan'.target = t
        BY <2>1 DEF Idle
    <2>3. scan' \in Scans
        BY <2>1, IdleTyped DEF Scans
    <2>. QED  BY <2>2, <2>3, RDurations DEF ScanTyped, Probing, Listening, Limit, Asked
<1>5. CASE ScanFind
    <2>1. PICK n \in Matching :
             IF Addr[n] = <<>> THEN Done(Fallback)
             ELSE scan' = [Idle EXCEPT !.pc = "probe", !.target = scan.target, !.peer = n, !.next = 1]
        BY <1>5 DEF ScanFind
    <2>2. n \in Nodes
        BY <1>0 DEF Matching, Scans
    <2>3. CASE Addr[n] = <<>>
        BY <1>0, <2>1, <2>3, DoneTyped
    <2>4. CASE Addr[n] # <<>>
        <3>1. 1 \in DOMAIN Addr[n]
            BY <2>2, <2>4, AddressLists
        <3>2. scan' = [Idle EXCEPT !.pc = "probe", !.target = scan.target, !.peer = n, !.next = 1]
            BY <2>1, <2>4
        <3>3. scan'.pc = "probe" /\ scan'.peer = n /\ scan'.next = 1 /\ scan'.clock = 0
            BY <3>2 DEF Idle
        <3>4. scan' \in Scans
            BY <1>0, <2>2, <3>2, IdleTyped DEF Scans
        <3>. QED  BY <2>2, <3>1, <3>3, <3>4, RDurations DEF ScanTyped, Probing, Listening
    <2>. QED  BY <2>3, <2>4
<1>6. CASE ScanEnd
    BY <1>0, <1>6, DoneTyped DEF ScanEnd
<1>7. CASE Probe
    <2>1. Probing /\ scan.peer \in Nodes /\ scan.next \in DOMAIN Addr[scan.peer]
        BY <1>7 DEF Probe, ScanTyped
    <2>2. Tried \in Addresses /\ Addr[scan.peer][1] \in Addresses
        BY <2>1, AddressLists DEF Tried
    <2>4. CASE scan.next # Len(Addr[scan.peer])
               /\ scan' = [scan EXCEPT !.next = @ + 1, !.clock = 0]
        <3>1. scan.next + 1 \in DOMAIN Addr[scan.peer] /\ scan.next + 1 \in Nat
            BY <2>1, <2>4, AddressLists
        <3>2. scan'.pc = scan.pc /\ scan'.peer = scan.peer /\ scan'.next = scan.next + 1
                 /\ scan'.clock = 0 /\ scan' \in Scans
            BY <1>0, <2>4, <3>1 DEF Scans
        <3>. QED  BY <2>1, <3>1, <3>2, RDurations DEF ScanTyped, Probing, Listening
    <2>. QED  BY <1>0, <1>7, <2>2, <2>4, DoneTyped DEF Probe
<1>8. CASE RTick
    <2>1. scan' = [scan EXCEPT !.clock = IF Listening \/ Probing THEN @ + 1 ELSE 0]
        BY <1>8 DEF RTick
    <2>2. Listening => scan.clock < Limit
        BY <1>8 DEF RTick
    <2>3. Probing => scan.clock < ProbeTime
        BY <1>8 DEF RTick
    <2>4. scan' \in Scans /\ scan'.pc = scan.pc /\ scan'.peer = scan.peer /\ scan'.next = scan.next
              /\ scan'.target = scan.target
        BY <1>0, <2>1 DEF Scans
    <2>5. Listening \/ Probing => scan'.clock = scan.clock + 1 /\ scan.clock \in Nat
        BY <1>0, <2>1 DEF Scans
    <2>. QED  BY <2>2, <2>3, <2>4, <2>5, LimitIs, RDurations DEF ScanTyped, Probing, Listening, Limit, Asked
<1>. QED  BY <1>1, <1>2, <1>3, <1>4, <1>5, <1>6, <1>7, <1>8 DEF RNext, rvars

LEMMA TypedBoth == TypeOK /\ ScanTyped => RTypeOK
BY DEF RTypeOK, ScanTyped

(* The sender tries only addresses there are, none for longer than the       *)
(* timeout, and listens no longer than it says.                              *)
THEOREM ResolveTyped == RSpec => []RTypeOK
<1>1. RInit => TypeOK /\ ScanTyped
    BY InitTypeOK, InitScanTyped DEF RInit
<1>2. TypeOK /\ ScanTyped /\ [RNext]_rvars => (TypeOK /\ ScanTyped)'
    BY Listens, NextTypeOK, NextScanTyped
<1>. QED  BY <1>1, <1>2, TypedBoth, PTL DEF RSpec

----------------------------------------------------------------------------
(* How long ago a peer ran that was heard, and what is known of the addresses *)
(* that were tried.                                                          *)

HeardRecently ==
    Listening => \A n \in scan.heard :
        up[n] # "new" /\ Recent(n, scan.clock) /\ (Asked /\ n \in Matching => Recent(n, 0))

FoundRecently ==
    Probing => /\ up[scan.peer] # "new" /\ Name[scan.peer] = scan.target
               /\ Recent(scan.peer, (scan.next - 1) * ProbeTime + scan.clock)

Refused ==
    Probing /\ up[scan.peer] = "up" =>
        \A i \in 1..Len(Addr[scan.peer]) : i < scan.next => Addr[scan.peer][i] \notin Prompt

FreshInv == HeardRecently /\ FoundRecently /\ Refused
Base == TypeOK /\ GoneInv /\ LiveInv /\ ScanTyped

LEMMA InitBase == RInit => Base
BY InitTypeOK, InitGone, InitLive, InitScanTyped DEF RInit, Base

LEMMA NextBase == Base /\ [RNext]_rvars => Base'
BY Listens, NextTypeOK, NextGone, NextLive, NextScanTyped DEF Base

LEMMA Products ==
    ASSUME NEW i \in Nat, i > 0
    PROVE  /\ i - 1 \in Nat /\ (i - 1) * ProbeTime \in Nat /\ i * ProbeTime \in Nat
           /\ i * ProbeTime = (i - 1) * ProbeTime + ProbeTime
           /\ (i + 1) - 1 = i
<1>1. i - 1 \in Nat /\ ProbeTime \in Nat
    BY RDurations
<1>. QED  BY <1>1

(* A node that once ran stays recent, a second later by one more.            *)
LEMMA StaysRecent ==
    ASSUME TypeOK, Next, ~Tick, NEW n \in Nodes, up[n] # "new", NEW t \in Nat, Recent(n, t)
    PROVE  up'[n] # "new" /\ Recent(n, t)' /\ (up'[n] = "up" => up[n] = "up")
<1>1. ASSUME NEW m \in Nodes, Boot(m) PROVE up'[n] = up[n] /\ since'[n] = since[n]
    BY <1>1 DEF Boot, TypeOK
<1>2. ASSUME NEW m \in Nodes, Stop(m)
      PROVE  up'[n] # "new" /\ Recent(n, t)' /\ (up'[n] = "up" => up[n] = "up")
    BY <1>2, Durations DEF Stop, TypeOK, Recent
<1>3. ASSUME NEW m \in Nodes, Broadcast(m) PROVE up'[n] = up[n] /\ since'[n] = since[n]
    BY <1>3 DEF Broadcast
<1>4. ASSUME NEW d \in air, Receive(d) PROVE up'[n] = up[n] /\ since'[n] = since[n]
    BY <1>4 DEF Receive, nodes
<1>5. ASSUME Sweep PROVE up'[n] = up[n] /\ since'[n] = since[n]
    BY <1>5 DEF Sweep, nodes
<1>6. ASSUME up'[n] = up[n], since'[n] = since[n]
      PROVE  up'[n] # "new" /\ Recent(n, t)' /\ (up'[n] = "up" => up[n] = "up")
    BY <1>6 DEF Recent
<1>. QED  BY <1>1, <1>2, <1>3, <1>4, <1>5, <1>6 DEF Next

LEMMA TickRecent ==
    ASSUME TypeOK, Tick, NEW n \in Nodes, NEW t \in Nat, Recent(n, t)
    PROVE  up' = up /\ Recent(n, t + 1)'
<1>1. up' = up /\ since'[n] \in {since[n], Older(since[n])} /\ since[n] \in 0..Forgotten
    BY DEF Tick, TypeOK
<1>. QED  BY <1>1, OlderTyped, Durations DEF Recent

LEMMA Longer ==
    ASSUME TypeOK, NEW n \in Nodes, NEW s \in Nat, NEW t \in Nat, s <= t, Recent(n, s)
    PROVE  Recent(n, t)
<1>1. since[n] \in Nat
    BY Durations DEF TypeOK
<1>. QED  BY <1>1, Durations DEF Recent

(* A node that is heard now ran when its heartbeat was sent.                 *)
LEMMA JustHeard ==
    ASSUME Base, NEW d \in air
    PROVE  d.node \in Nodes /\ up[d.node] # "new" /\ Recent(d.node, 0)
<1>1. d.node \in Nodes /\ d.age \in 0..MaxDelay
    BY DEF Base, TypeOK
<1>2. up[d.node] # "new"
    BY <1>1 DEF Base, LiveInv, Unknown
<1>3. up[d.node] = "gone" => since[d.node] <= d.age
    BY <1>1 DEF Base, GoneInv, NoEcho
<1>. QED  BY <1>1, <1>2, <1>3, Durations DEF Base, TypeOK, Recent

LEMMA InitFresh == RInit => FreshInv
BY DEF RInit, Init, Idle, FreshInv, HeardRecently, FoundRecently, Refused, Listening, Probing

(* Steps of the nodes other than a tick, and broadcasts the sender is due.   *)
LEMMA NodesMove ==
    ASSUME Base, FreshInv, Next, ~Tick,
           scan' = scan \/ \E n \in Nodes : scan' = [scan EXCEPT !.due = @ \cup {n}]
    PROVE  (HeardRecently /\ FoundRecently /\ Refused)'
<1>1. /\ scan \in Scans /\ scan'.pc = scan.pc /\ scan'.target = scan.target /\ scan'.clock = scan.clock
      /\ scan'.heard = scan.heard /\ scan'.peer = scan.peer /\ scan'.next = scan.next
    BY DEF Base, ScanTyped, Scans
<1>2. scan.clock \in Nat /\ scan.heard \subseteq Nodes /\ TypeOK
    BY <1>1 DEF Scans, Base
<1>3. HeardRecently'
    <2>. SUFFICES ASSUME Listening, NEW n \in scan.heard
                  PROVE  up'[n] # "new" /\ Recent(n, scan.clock)'
                            /\ (Asked /\ n \in Matching => Recent(n, 0)')
        BY <1>1 DEF HeardRecently, Listening, Asked, Matching, Recent
    <2>1. n \in Nodes /\ up[n] # "new" /\ Recent(n, scan.clock) /\ (Asked /\ n \in Matching => Recent(n, 0))
        BY <1>2 DEF FreshInv, HeardRecently
    <2>2. up'[n] # "new" /\ Recent(n, scan.clock)'
        BY <1>1, <1>2, <2>1, StaysRecent DEF Recent
    <2>3. Recent(n, 0) => Recent(n, 0)'
        BY <1>2, <2>1, StaysRecent
    <2>. QED  BY <2>1, <2>2, <2>3
<1>4. CASE Probing
    <2>1. scan.peer \in Nodes /\ scan.next \in Nat /\ scan.next > 0
        BY <1>4, AddressLists DEF Base, ScanTyped
    <2>. DEFINE t == (scan.next - 1) * ProbeTime + scan.clock
    <2>2. t \in Nat
        BY <1>2, <2>1, Products
    <2>3. up[scan.peer] # "new" /\ Name[scan.peer] = scan.target /\ Recent(scan.peer, t)
        BY <1>4 DEF FreshInv, FoundRecently
    <2>4. PICK n \in Nodes, u \in Nat : n = scan.peer /\ u = t
        BY <2>1, <2>2
    <2>5. up'[n] # "new" /\ Recent(n, u)' /\ (up'[n] = "up" => up[n] = "up")
        BY <1>2, <2>3, <2>4, StaysRecent
    <2>6. FoundRecently'
        BY <1>1, <2>3, <2>4, <2>5 DEF FoundRecently, Recent
    <2>7. Refused'
        BY <1>1, <1>4, <2>4, <2>5 DEF FreshInv, Refused, Probing
    <2>. QED  BY <1>3, <2>6, <2>7
<1>5. CASE ~Probing
    BY <1>1, <1>3, <1>5 DEF FoundRecently, Refused, Probing
<1>. QED  BY <1>4, <1>5

LEMMA TickMoves ==
    ASSUME Base, FreshInv, RTick
    PROVE  (HeardRecently /\ FoundRecently /\ Refused)'
<1>1. scan' = [scan EXCEPT !.clock = IF Listening \/ Probing THEN @ + 1 ELSE 0] /\ Tick
    BY DEF RTick
<1>2. /\ scan \in Scans /\ scan'.pc = scan.pc /\ scan'.target = scan.target
      /\ scan'.heard = scan.heard /\ scan'.peer = scan.peer /\ scan'.next = scan.next
    BY <1>1 DEF Base, ScanTyped, Scans
<1>3. scan.clock \in Nat /\ scan.heard \subseteq Nodes /\ TypeOK /\ up' = up
    BY <1>1, <1>2 DEF Scans, Base, Tick
<1>4. Listening \/ Probing => scan'.clock = scan.clock + 1
    BY <1>1, <1>2 DEF Scans
<1>5. HeardRecently'
    <2>. SUFFICES ASSUME Listening, NEW n \in scan.heard
                  PROVE  up'[n] # "new" /\ Recent(n, scan.clock)' /\ ~(Asked /\ n \in Matching)
        BY <1>2 DEF HeardRecently, Listening, Asked, Matching, Recent
    <2>1. n \in Nodes /\ up[n] # "new" /\ Recent(n, scan.clock)
        BY <1>3 DEF FreshInv, HeardRecently
    <2>2. PICK u \in Nat : u = scan.clock
        BY <1>3
    <2>3. Recent(n, u + 1)' /\ scan'.clock = u + 1
        BY <1>1, <1>3, <1>4, <2>1, <2>2, TickRecent
    <2>4. Asked => Matching = {}
        BY DEF RTick, Asked
    <2>. QED  BY <1>3, <2>1, <2>3, <2>4 DEF Recent
<1>6. CASE Probing
    <2>1. scan.peer \in Nodes /\ scan.next \in Nat /\ scan.next > 0
        BY <1>6, AddressLists DEF Base, ScanTyped
    <2>. DEFINE s == (scan.next - 1) * ProbeTime
                t == s + scan.clock
    <2>2. s \in Nat
        BY <1>3, <2>1, Products
    <2>3. up[scan.peer] # "new" /\ Name[scan.peer] = scan.target /\ Recent(scan.peer, t)
        BY <1>6 DEF FreshInv, FoundRecently
    <2>4. s' = s
        BY <1>2
    <2>. HIDE DEF s
    <2>5. PICK n \in Nodes : n = scan.peer
        BY <2>1
    <2>6. PICK u \in Nat : u = t /\ u + 1 = s + (scan.clock + 1)
        BY <1>3, <2>2
    <2>7. Recent(n, u + 1)'
        BY <1>1, <1>3, <2>3, <2>5, <2>6, TickRecent
    <2>8. (scan'.next - 1) * ProbeTime + scan'.clock = u + 1
        BY <1>2, <1>4, <1>6, <2>6 DEF s
    <2>9. FoundRecently'
        BY <1>2, <1>3, <2>3, <2>5, <2>7, <2>8 DEF FoundRecently, Recent
    <2>10. Refused'
        BY <1>2, <1>3, <1>6 DEF FreshInv, Refused, Probing
    <2>. QED  BY <1>5, <2>9, <2>10
<1>7. CASE ~Probing
    BY <1>2, <1>5, <1>7 DEF FoundRecently, Refused, Probing
<1>. QED  BY <1>6, <1>7

(* A sender that is done, or begins, has nothing to be recent.               *)
LEMMA IdleFresh ==
    ASSUME UNCHANGED vars, scan'.pc \notin {"listen", "probe"} \/ (scan'.pc = "listen" /\ scan'.heard = {})
    PROVE  (HeardRecently /\ FoundRecently /\ Refused)'
BY DEF HeardRecently, FoundRecently, Refused, Listening, Probing

LEMMA NextFresh == Base /\ FreshInv /\ [RNext]_rvars => FreshInv'
<1>. SUFFICES ASSUME Base, FreshInv, [RNext]_rvars PROVE (HeardRecently /\ FoundRecently /\ Refused)'
    BY DEF FreshInv
<1>0. scan \in Scans /\ TypeOK /\ scan.clock \in Nat
    BY DEF Base, ScanTyped, Scans
<1>1. ASSUME Next, ~Tick, scan' = scan \/ \E n \in Nodes : scan' = [scan EXCEPT !.due = @ \cup {n}]
      PROVE  (HeardRecently /\ FoundRecently /\ Refused)'
    BY <1>1, NodesMove
<1>2. ASSUME NEW n \in Nodes, RBroadcast(n) PROVE (HeardRecently /\ FoundRecently /\ Refused)'
    <2>1. Next /\ ~Tick
        <3>1. Next /\ up[n] = "up" /\ beat[n] = Beat
            BY <1>2 DEF RBroadcast, Broadcast, Next
        <3>. QED  BY <3>1, Durations DEF Tick
    <2>2. scan' = scan \/ scan' = [scan EXCEPT !.due = @ \cup {n}]
        BY <1>2 DEF RBroadcast
    <2>. QED  BY <1>1, <2>1, <2>2
<1>3. ASSUME NEW n \in Nodes, (Boot(n) \/ Stop(n)) /\ UNCHANGED scan
      PROVE  (HeardRecently /\ FoundRecently /\ Refused)'
    <2>1. Next
        BY <1>3 DEF Next
    <2>2. ~Tick
        BY <1>0, <1>3 DEF Boot, Stop, Tick, TypeOK
    <2>. QED  BY <1>1, <1>3, <2>1, <2>2
<1>4. ASSUME NEW d \in air, Receive(d), UNCHANGED scan PROVE (HeardRecently /\ FoundRecently /\ Refused)'
    <2>1. Next /\ ~Tick
        <3>1. Next
            BY <1>4 DEF Next
        <3>2. sweeper' = sweeper /\ sweeper \in Nat
            BY <1>0, <1>4, Durations DEF Receive, TypeOK
        <3>. QED  BY <3>1, <3>2 DEF Tick
    <2>. QED  BY <1>1, <1>4, <2>1
<1>5. ASSUME Sweep, UNCHANGED scan PROVE (HeardRecently /\ FoundRecently /\ Refused)'
    <2>1. Next /\ ~Tick
        BY <1>0, <1>5, Durations DEF Sweep, Next, Tick
    <2>. QED  BY <1>1, <1>5, <2>1
<1>6. ASSUME NEW d \in air, ScanHear(d) PROVE (HeardRecently /\ FoundRecently /\ Refused)'
    <2>1. d.node \in Nodes /\ up[d.node] # "new" /\ Recent(d.node, 0)
        BY JustHeard
    <2>2. Recent(d.node, scan.clock)
        BY <1>0, <2>1, Longer
    <2>3. /\ Listening /\ scan'.pc = "listen" /\ scan'.heard = scan.heard \cup {d.node}
          /\ scan'.clock = scan.clock /\ scan'.target = scan.target
        BY <1>0, <1>6 DEF ScanHear, Listening, Scans
    <2>4. up' = up /\ since' = since
        BY <1>6 DEF ScanHear, vars, nodes
    <2>5. \A n \in scan'.heard : up[n] # "new" /\ Recent(n, scan.clock)
             /\ (Asked /\ Name[n] = scan.target => Recent(n, 0))
        <3>1. \A n \in scan.heard : up[n] # "new" /\ Recent(n, scan.clock)
                 /\ (Asked /\ Name[n] = scan.target => Recent(n, 0))
            BY <2>3 DEF FreshInv, HeardRecently, Matching
        <3>. QED  BY <2>1, <2>2, <2>3, <3>1
    <2>6. HeardRecently'
        BY <2>3, <2>4, <2>5 DEF HeardRecently, Recent, Asked, Matching
    <2>. QED  BY <2>3, <2>6 DEF FoundRecently, Refused, Probing
<1>7. ASSUME NEW t \in Names \cup {Everyone}, ScanStart(t)
      PROVE  (HeardRecently /\ FoundRecently /\ Refused)'
    <2>1. scan'.pc = "listen" /\ scan'.heard = {} /\ UNCHANGED vars
        BY <1>7 DEF ScanStart, Idle
    <2>. QED  BY <2>1, IdleFresh
<1>8. CASE ScanFind
    <2>1. PICK n \in Matching :
             IF Addr[n] = <<>> THEN Done(Fallback)
             ELSE scan' = [Idle EXCEPT !.pc = "probe", !.target = scan.target, !.peer = n, !.next = 1]
        BY <1>8 DEF ScanFind
    <2>2. n \in scan.heard /\ n \in Nodes /\ Name[n] = scan.target /\ Asked /\ Listening /\ UNCHANGED vars
        BY <1>0, <1>8 DEF Matching, Scans, ScanFind, Asked
    <2>3. CASE Addr[n] = <<>>
        BY <1>0, <2>1, <2>2, <2>3, DoneTyped, IdleFresh
    <2>4. CASE Addr[n] # <<>>
        <3>1. scan'.pc = "probe" /\ scan'.peer = n /\ scan'.next = 1 /\ scan'.clock = 0
                 /\ scan'.target = scan.target
            BY <2>1, <2>4 DEF Idle
        <3>2. up[n] # "new" /\ Recent(n, 0) /\ up' = up /\ since' = since
            BY <2>2 DEF FreshInv, HeardRecently, vars, nodes
        <3>3. (scan'.next - 1) * ProbeTime + scan'.clock = 0
            BY <3>1, RDurations
        <3>4. FoundRecently'
            BY <2>2, <3>1, <3>2, <3>3 DEF FoundRecently, Recent
        <3>5. Refused'
            BY <2>2, <3>1, AddressLists DEF Refused
        <3>. QED  BY <3>1, <3>4, <3>5 DEF HeardRecently, Listening
    <2>. QED  BY <2>3, <2>4
<1>9. CASE ScanEnd
    BY <1>0, <1>9, DoneTyped, IdleFresh DEF ScanEnd
<1>10. CASE Probe
    <2>. DEFINE Refuses == ~Connects(Tried) \/ Tried \in Slow
    <2>1. Probing /\ UNCHANGED vars
        BY <1>10 DEF Probe
    <2>2. CASE scan' = [scan EXCEPT !.next = @ + 1, !.clock = 0] /\ Refuses
        <3>1. scan.peer \in Nodes /\ scan.next \in 1..Len(Addr[scan.peer]) /\ scan.clock <= ProbeTime
                 /\ Len(Addr[scan.peer]) \in Nat
            BY <2>1, AddressLists DEF Base, ScanTyped
        <3>2. scan'.pc = "probe" /\ scan'.peer = scan.peer /\ scan'.next = scan.next + 1
                 /\ scan'.clock = 0 /\ scan'.target = scan.target
            BY <1>0, <2>1, <2>2 DEF Scans, Probing
        <3>3. up' = up /\ since' = since
            BY <2>1 DEF vars, nodes
        <3>4. PICK n \in Nodes, s \in Nat, u \in Nat :
                 n = scan.peer /\ s = (scan.next - 1) * ProbeTime + scan.clock /\ u = scan.next * ProbeTime
            BY <1>0, <3>1, Products
        <3>5. s <= u
            <4>1. PICK k \in Nat : k = (scan.next - 1) * ProbeTime /\ u = k + ProbeTime
                BY <3>1, <3>4, Products
            <4>2. s = k + scan.clock
                BY <3>4, <4>1
            <4>. QED  BY <1>0, <3>1, <4>1, <4>2, RDurations
        <3>6. up[n] # "new" /\ Name[n] = scan.target /\ Recent(n, s)
            BY <2>1, <3>4 DEF FreshInv, FoundRecently
        <3>7. Recent(n, u)
            BY <1>0, <3>5, <3>6, Longer
        <3>8. (scan'.next - 1) * ProbeTime + scan'.clock = u
            BY <3>1, <3>2, <3>4, RDurations
        <3>9. FoundRecently'
            BY <3>2, <3>3, <3>4, <3>6, <3>7, <3>8 DEF FoundRecently, Recent
        <3>10. up[n] = "up" => Tried \notin Prompt
            <4>1. Tried \in AddressesOf(n)
                BY <3>1, <3>4, AddressLists DEF Tried
            <4>. QED  BY <2>2, <4>1 DEF Connects, Prompt
        <3>11. Refused'
            BY <2>1, <3>1, <3>2, <3>3, <3>4, <3>10 DEF FreshInv, Refused, Tried
        <3>. QED  BY <3>2, <3>9, <3>11 DEF HeardRecently, Listening
    <2>3. CASE scan'.pc = "done"
        BY <2>1, <2>3, IdleFresh
    <2>5. scan'.pc = "done" \/ (scan' = [scan EXCEPT !.next = @ + 1, !.clock = 0] /\ Refuses)
        BY <1>10 DEF Probe, Done, Idle
    <2>. QED  BY <2>2, <2>3, <2>5
<1>11. CASE RTick
    BY <1>11, TickMoves
<1>12. CASE UNCHANGED rvars
    BY <1>12 DEF rvars, vars, nodes, FreshInv, HeardRecently, FoundRecently, Refused,
                 Recent, Asked, Matching, Listening, Probing
<1>. QED  BY <1>2, <1>3, <1>4, <1>5, <1>6, <1>7, <1>8, <1>9, <1>10, <1>11, <1>12 DEF RNext

----------------------------------------------------------------------------
(* The answer *)

LEMMA EndingSteps ==
    ASSUME Base, RNext, Ends
    PROVE  ScanFind \/ ScanEnd \/ Probe
<1>. USE DEF Ends
<1>0. scan \in Scans
    BY DEF Base, ScanTyped
<1>1. ASSUME NEW n \in Nodes, RBroadcast(n) PROVE FALSE
    BY <1>0, <1>1 DEF RBroadcast, Scans
<1>2. ASSUME NEW d \in air, ScanHear(d) PROVE FALSE
    BY <1>0, <1>2 DEF ScanHear, Listening, Scans
<1>3. ASSUME NEW t \in Names \cup {Everyone}, ScanStart(t) PROVE FALSE
    BY <1>3 DEF ScanStart, Idle
<1>4. ASSUME RTick PROVE FALSE
    BY <1>0, <1>4 DEF RTick, Scans
<1>. QED  BY <1>1, <1>2, <1>3, <1>4 DEF RNext

LEMMA EndsFresh == Base /\ FreshInv /\ RNext /\ Ends => FoundFresh /\ AnswerServes
<1>. SUFFICES ASSUME Base, FreshInv, RNext, Ends PROVE FoundFresh /\ AnswerServes
    OBVIOUS
<1>0. scan \in Scans /\ TypeOK
    BY DEF Base, ScanTyped
<1>1. ScanFind \/ ScanEnd \/ Probe
    BY EndingSteps
<1>2. CASE Listening
    <2>1. scan.peer = Nobody
        BY <1>2 DEF Base, ScanTyped
    <2>2. ScanFind => Asked
        BY DEF ScanFind, Asked
    <2>3. ASSUME ScanEnd, ~Asked PROVE \A n \in scan'.heard : Recent(n, ListenTime)
        <3>1. scan.clock = ListenTime /\ scan'.heard = scan.heard
            BY <1>0, <2>3, DoneTyped DEF ScanEnd, Limit
        <3>. QED  BY <1>2, <3>1 DEF FreshInv, HeardRecently
    <2>4. ~Probe
        BY <1>2 DEF Probe, Probing, Listening
    <2>5. Nobody \notin Nodes /\ up = up
        BY RDurations
    <2>. QED  BY <1>1, <2>1, <2>2, <2>3, <2>4, <2>5 DEF FoundFresh, AnswerServes
<1>3. CASE Probe
    <2>1. /\ Probing /\ scan.peer \in Nodes /\ scan.next \in 1..Len(Addr[scan.peer])
          /\ Len(Addr[scan.peer]) \in Nat /\ scan.clock \in Nat /\ scan.clock <= ProbeTime
        BY <1>0, <1>3, AddressLists DEF Base, ScanTyped, Probe, Scans
    <2>2. PICK n \in Nodes : n = scan.peer
        BY <2>1
    <2>3. up[n] # "new" /\ Name[n] = scan.target
        BY <2>1, <2>2 DEF FreshInv, FoundRecently
    <2>4. Recent(n, scan.next * ProbeTime)
        <3>0. PICK k \in Nat, u \in Nat :
                 k = (scan.next - 1) * ProbeTime /\ u = scan.next * ProbeTime /\ u = k + ProbeTime
            BY <2>1, Products
        <3>1. PICK s \in Nat : s = k + scan.clock
            BY <2>1
        <3>2. Recent(n, s)
            BY <2>1, <2>2, <3>0, <3>1 DEF FreshInv, FoundRecently
        <3>3. s <= u
            BY <2>1, <3>0, <3>1, RDurations
        <3>. QED  BY <1>0, <3>0, <3>2, <3>3, Longer
    <2>5. FoundFresh
        BY <2>2, <2>3, <2>4, RDurations DEF FoundFresh, Asked
    <2>6. ASSUME up[n] = "up" PROVE AnswerServes
        <3>. DEFINE prompt == AddressesOf(n) \cap Prompt # {}
        <3>. DEFINE answer == scan'.answer
        <3>1. \A i \in 1..Len(Addr[n]) : i < scan.next => Addr[n][i] \notin Prompt
            BY <2>1, <2>2, <2>6 DEF FreshInv, Refused
        <3>2. Tried = Addr[n][scan.next] /\ Tried \in AddressesOf(n) /\ Tried \in Addresses
            BY <2>1, <2>2, AddressLists DEF Tried
        <3>3. Addr[n][1] \in Addresses /\ 1 \in DOMAIN Addr[n] /\ scan.next \in DOMAIN Addr[n]
                 /\ DOMAIN Addr[n] = 1..Len(Addr[n])
            BY <2>1, <2>2, AddressLists
        <3>4. \/ Connects(Tried) /\ Done(Tried)
              \/ /\ ~Connects(Tried) \/ Tried \in Slow
                 /\ scan.next = Len(Addr[n]) /\ Done(Addr[n][1])
            BY <1>0, <1>3, <2>1, <2>2 DEF Ends, Probe, Scans, Probing
        <3>5. CASE Connects(Tried) /\ Done(Tried)
            <4>1. answer = Tried
                BY <1>0, <3>2, <3>5, DoneTyped
            <4>2. Connects(answer)
                BY <3>5, <4>1 DEF Connects
            <4>3. \A k \in 1..(scan.next - 1) : Addr[n][k] \notin Prompt
                <5>1. PICK len \in Nat : len = Len(Addr[n]) /\ scan.next \in 1..len
                    BY <2>1, <2>2
                <5>2. \A k \in 1..(scan.next - 1) : k \in 1..len /\ k < scan.next
                    BY <5>1
                <5>. QED  BY <3>1, <5>1, <5>2
            <4>. QED  BY <2>2, <3>2, <3>3, <4>1, <4>2, <4>3 DEF AnswerServes
        <3>6. CASE (~Connects(Tried) \/ Tried \in Slow) /\ scan.next = Len(Addr[n]) /\ Done(Addr[n][1])
            <4>1. answer = Addr[n][1]
                BY <1>0, <3>3, <3>6, DoneTyped
            <4>2. Tried \notin Prompt
                BY <2>6, <3>2, <3>6 DEF Connects, Prompt
            <4>3. \A i \in DOMAIN Addr[n] : Addr[n][i] \notin Prompt
                BY <2>1, <3>1, <3>2, <3>3, <3>6, <4>2
            <4>4. ~prompt
                BY <4>3 DEF AddressesOf
            <4>. QED  BY <2>2, <3>3, <4>1, <4>4 DEF AnswerServes
        <3>. QED  BY <3>4, <3>5, <3>6
    <2>. QED  BY <2>2, <2>5, <2>6 DEF AnswerServes
<1>. QED  BY <1>1, <1>2, <1>3 DEF ScanFind, ScanEnd

LEMMA InitAll == RInit => Base /\ FreshInv
BY InitBase, InitFresh

LEMMA NextAll == Base /\ FreshInv /\ [RNext]_rvars => (Base /\ FreshInv)'
BY NextBase, NextFresh

(* A sender is sent to a peer of the name it asked for, which ran when its   *)
(* heartbeat was sent; while that peer runs, to the first of its addresses   *)
(* that accepts connections, if one of them does so in time.                 *)
THEOREM ResolvedFreshTheorem == RSpec => ResolvedFresh
<1>1. Base /\ FreshInv /\ [RNext]_rvars => [Ends => FoundFresh /\ AnswerServes]_rvars
    BY EndsFresh
<1>. QED  BY <1>1, InitAll, NextAll, PTL DEF RSpec, ResolvedFresh

----------------------------------------------------------------------------
(* A scan misses nobody it could hear in time                                *)

Coming(n) == \E d \in air : d.node = n /\ scan.clock + MaxDelay < ScanTime + d.age

DueInv ==
    Listening /\ Asked /\ ~scan.deaf => \A n \in scan.due : Name[n] = scan.target =>
        scan.clock < ScanTime /\ (n \in scan.heard \/ Coming(n))

LEMMA InitDue == RInit => DueInv
BY DEF RInit, Idle, DueInv, Listening

(* Steps that leave the sender alone and keep what is on its way.            *)
LEMMA DueKept ==
    ASSUME DueInv, UNCHANGED scan, \A d \in air : \E e \in air' : e.node = d.node /\ e.age = d.age
    PROVE  DueInv'
<1>1. ASSUME NEW n, Coming(n) PROVE Coming(n)'
    BY <1>1 DEF Coming
<1>. QED  BY <1>1 DEF DueInv, Listening, Asked

LEMMA NextDue == Base /\ DueInv /\ [RNext]_rvars => DueInv'
<1>. SUFFICES ASSUME Base, DueInv, [RNext]_rvars PROVE DueInv'
    OBVIOUS
<1>0. scan \in Scans /\ TypeOK /\ scan.clock \in Nat
    BY DEF Base, ScanTyped, Scans
<1>1. ASSUME UNCHANGED scan, air' = air PROVE DueInv'
    BY <1>1, DueKept
<1>2. ASSUME NEW n \in Nodes, (Boot(n) \/ Stop(n)) /\ UNCHANGED scan PROVE DueInv'
    BY <1>1, <1>2 DEF Boot, Stop
<1>3. ASSUME NEW n \in Nodes, RBroadcast(n) PROVE DueInv'
    <2>1. \A d \in air : d \in air'
        BY <1>3 DEF RBroadcast, Broadcast
    <2>2. CASE scan' = scan
        BY <2>1, <2>2, DueKept
    <2>3. CASE scan' = [scan EXCEPT !.due = @ \cup {n}] /\ Listening /\ air' # air
                  /\ scan.clock + MaxDelay < ScanTime
        <3>1. [node |-> n, age |-> 0, heard |-> FALSE] \in air'
            BY <1>3, <2>3 DEF RBroadcast, Broadcast
        <3>2. /\ scan'.pc = scan.pc /\ scan'.target = scan.target /\ scan'.clock = scan.clock
              /\ scan'.heard = scan.heard /\ scan'.due = scan.due \cup {n} /\ scan'.deaf = scan.deaf
            BY <1>0, <2>3 DEF Scans
        <3>3. Coming(n)' /\ scan.clock < ScanTime
            BY <1>0, <2>3, <3>1, <3>2, Durations, RDurations DEF Coming
        <3>4. \A m : Coming(m) => Coming(m)'
            BY <2>1, <3>2 DEF Coming
        <3>. QED  BY <3>2, <3>3, <3>4 DEF DueInv, Listening, Asked
    <2>. QED  BY <1>3, <2>2, <2>3 DEF RBroadcast
<1>4. ASSUME NEW d \in air, Receive(d), UNCHANGED scan PROVE DueInv'
    <2>1. d \in [node : Nodes, age : 0..MaxDelay, heard : BOOLEAN]
        BY <1>0 DEF TypeOK
    <2>2. \A e \in air : \E f \in air' : f.node = e.node /\ f.age = e.age
        <3>. DEFINE f == [d EXCEPT !.heard = TRUE]
        <3>1. f.node = d.node /\ f.age = d.age
            BY <2>1
        <3>2. air' = (air \ {d}) \cup {f}
            BY <1>4 DEF Receive
        <3>. QED  BY <3>1, <3>2
    <2>. QED  BY <1>4, <2>2, DueKept
<1>5. ASSUME Sweep, UNCHANGED scan PROVE DueInv'
    BY <1>1, <1>5 DEF Sweep
<1>6. ASSUME NEW d \in air, ScanHear(d) PROVE DueInv'
    <2>1. /\ scan'.pc = scan.pc /\ scan'.target = scan.target /\ scan'.clock = scan.clock
          /\ scan'.heard = scan.heard \cup {d.node} /\ scan'.due = scan.due /\ air' = air
          /\ scan'.deaf = scan.deaf
        BY <1>0, <1>6 DEF ScanHear, Scans, vars
    <2>2. \A m : Coming(m) => Coming(m)'
        BY <2>1 DEF Coming
    <2>. QED  BY <2>1, <2>2 DEF DueInv, Listening, Asked
<1>7. ASSUME NEW t \in Names \cup {Everyone}, ScanStart(t) PROVE DueInv'
    <2>1. scan'.due = {}
        BY <1>7 DEF ScanStart, Idle
    <2>. QED  BY <2>1 DEF DueInv
<1>8. ASSUME ScanFind \/ ScanEnd \/ Probe PROVE DueInv'
    <2>1. scan'.pc # "listen"
        BY <1>0, <1>8 DEF ScanFind, ScanEnd, Probe, Done, Idle, Probing, Scans
    <2>. QED  BY <2>1 DEF DueInv, Listening
<1>9. CASE RTick
    <2>1. /\ scan'.pc = scan.pc /\ scan'.target = scan.target /\ scan'.due = scan.due
          /\ scan'.deaf = scan.deaf
        BY <1>0, <1>9 DEF RTick, Scans
    <2>. SUFFICES ASSUME Listening, Asked, ~scan.deaf, NEW n \in scan.due, Name[n] = scan.target
                  PROVE  scan'.clock < ScanTime /\ Coming(n)'
        BY <2>1 DEF DueInv, Listening, Asked
    <2>2. scan'.clock = scan.clock + 1
        BY <1>0, <1>9 DEF RTick, Scans
    <2>3. n \notin scan.heard
        BY <1>9 DEF RTick, Matching, Asked
    <2>4. PICK d \in air : d.node = n /\ scan.clock + MaxDelay < ScanTime + d.age
        BY <2>3 DEF DueInv, Coming
    <2>5. d \in [node : Nodes, age : 0..MaxDelay, heard : BOOLEAN]
        BY <1>0 DEF TypeOK
    <2>6. d.age < MaxDelay /\ d.age \in Nat /\ MaxDelay \in Nat
        <3>1. d.age # MaxDelay
            BY <1>9, <2>3, <2>4 DEF RTick
        <3>. QED  BY <2>5, <3>1, Durations
    <2>. DEFINE e == [d EXCEPT !.age = @ + 1]
    <2>7. e \in air' /\ e.node = n /\ e.age = d.age + 1
        BY <1>9, <2>4, <2>5, <2>6 DEF RTick, Tick
    <2>8. scan.clock + 1 + MaxDelay < ScanTime + (d.age + 1) /\ scan.clock + 1 < ScanTime
        BY <1>0, <2>4, <2>6, RDurations
    <2>9. Coming(n)'
        BY <2>2, <2>7, <2>8 DEF Coming
    <2>. QED  BY <2>2, <2>8, <2>9
<1>10. CASE UNCHANGED rvars
    BY <1>1, <1>10 DEF rvars, vars
<1>. QED  BY <1>2, <1>3, <1>4, <1>5, <1>6, <1>7, <1>8, <1>9, <1>10 DEF RNext

LEMMA EndsSilent ==
    Base /\ DueInv /\ RNext /\ Ends /\ Asked /\ ~scan.deaf /\ scan.peer = Nobody =>
        \A n \in scan.due : Name[n] = scan.target => \E m \in Matching : Addr[m] = <<>>
<1>. SUFFICES ASSUME Base, DueInv, RNext, Ends, Asked, ~scan.deaf, scan.peer = Nobody,
                     NEW n \in scan.due, Name[n] = scan.target
              PROVE  \E m \in Matching : Addr[m] = <<>>
    OBVIOUS
<1>0. scan \in Scans
    BY DEF Base, ScanTyped
<1>1. CASE ScanFind
    BY <1>0, <1>1 DEF ScanFind, Idle, Ends, Scans
<1>2. CASE ScanEnd
    <2>1. Listening /\ scan.clock = ScanTime
        BY <1>2 DEF ScanEnd, Limit, Asked
    <2>2. scan.clock < ScanTime
        BY <2>1 DEF DueInv
    <2>. QED  BY <2>1, <2>2, RDurations
<1>3. CASE Probe
    BY <1>3, RDurations DEF Probe, Base, ScanTyped
<1>. QED  BY <1>1, <1>2, <1>3, EndingSteps

(* A scan whose listener works gives up on a name only when no heartbeat of  *)
(* it came in time, or the peer that was heard has no address.               *)
THEOREM MissedOnlySilentTheorem == RSpec => MissedOnlySilent
<1>1. Base /\ DueInv /\ [RNext]_rvars =>
         [Ends /\ Asked /\ ~scan.deaf /\ scan.peer = Nobody =>
             \A n \in scan.due : Name[n] = scan.target => \E m \in Matching : Addr[m] = <<>>]_rvars
    BY EndsSilent
<1>2. RInit => Base /\ DueInv
    BY InitBase, InitDue
<1>3. Base /\ DueInv /\ [RNext]_rvars => (Base /\ DueInv)'
    BY NextBase, NextDue
<1>. QED  BY <1>1, <1>2, <1>3, PTL DEF RSpec, MissedOnlySilent
=============================================================================
