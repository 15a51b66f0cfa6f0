------------------------------- MODULE Resolve -------------------------------
(* How a sender finds its destination (src/src/main.rs, resolve_destination   *)
(* and the command `peers`): it listens to the heartbeats of Discovery with a *)
(* registry of its own, which is empty and never swept, takes the first peer  *)
(* of that name, and tries its addresses (src/src/client.rs,                  *)
(* pick_reachable_address).  Datagrams reach it as they reach the registry of *)
(* a node.                                                                    *)
EXTENDS Discovery, Sequences

CONSTANTS
    Names,       \* what a destination may be called: the name of a peer
    Name,        \* node -> its name; a restarted node keeps it
    Addr,        \* node -> the addresses in its heartbeats, the best first
    Reachable,   \* the addresses that this machine has a route to
    Slow,        \* those of them that may take longer than ProbeTime
    ScanTime,    \* 40 polls and sleeps of 50 ms
    ListenTime,  \* of `peers`: 1.5 s
    ProbeTime,   \* the timeout for one address: 1.5 s
    Everyone,    \* of `peers`: no name is asked for
    Fallback,    \* the answer when nobody is found: the name itself, port 8080
    Nobody

Addresses == UNION {{Addr[n][i] : i \in DOMAIN Addr[n]} : n \in Nodes}

ASSUME ResolveAssumption ==
    /\ Name \in [Nodes -> Names]
    /\ \A n \in Nodes : Addr[n] \in Seq(Addresses)
    /\ {ScanTime, ListenTime, ProbeTime} \subseteq Nat \ {0}
    /\ Everyone \notin Names /\ Fallback \notin Addresses /\ Nobody \notin Nodes

VARIABLE
    scan  \* the sender: see Scans

rvars == <<vars, scan>>

(* pc: where it is.  clock: since it began to listen, or to try an address.  *)
(* heard: its registry.  deaf: start_listener has failed, which nobody sees. *)
(* peer: the one it has found; next: the address of it to be tried.  due:    *)
(* who sent it a heartbeat, not lost, in time for its last poll (no variable *)
(* of the code).                                                             *)
Scans == [pc : {"idle", "listen", "probe", "done"}, target : Names \cup {Everyone},
          clock : Nat, deaf : BOOLEAN, heard : SUBSET Nodes, due : SUBSET Nodes,
          peer : Nodes \cup {Nobody},
          next : Nat, answer : Addresses \cup {Fallback}]

Idle == [pc |-> "idle", target |-> Everyone, clock |-> 0, deaf |-> FALSE, heard |-> {},
         due |-> {}, peer |-> Nobody, next |-> 0, answer |-> Fallback]

Listening == scan.pc = "listen"
Probing == scan.pc = "probe"
Asked == scan.target # Everyone
Limit == IF Asked THEN ScanTime ELSE ListenTime

(* find_by_name_or_ip; a uuid or an address is a name that one peer has.     *)
Matching == {n \in scan.heard : Name[n] = scan.target}
Tried == Addr[scan.peer][scan.next]

AddressesOf(n) == {Addr[n][i] : i \in DOMAIN Addr[n]}

(* Some node accepts connections at an address: several may have it, as      *)
(* every machine advertises the addresses of its virtual interfaces, too.    *)
Connects(a) == a \in Reachable /\ \E n \in Nodes : up[n] = "up" /\ a \in AddressesOf(n)

----------------------------------------------------------------------------

(* The function returns; what it lists or answers is left.                   *)
Done(answer) == scan' = [Idle EXCEPT !.pc = "done", !.answer = answer,
                                     !.heard = IF Asked THEN {} ELSE scan.heard]

RInit == Init /\ scan = Idle

(* A command is given.  (A destination that is an address needs no scan.)    *)
(* The socket of its listener may fail to open: that error is dropped.       *)
ScanStart(target) ==
    /\ scan.pc \in {"idle", "done"}
    /\ \E deaf \in BOOLEAN :
          scan' = [Idle EXCEPT !.pc = "listen", !.target = target, !.deaf = deaf]
    /\ UNCHANGED vars

ScanHear(d) ==
    /\ Listening /\ ~scan.deaf
    /\ scan' = [scan EXCEPT !.heard = @ \cup {d.node}]
    /\ UNCHANGED vars

(* A poll finds a peer; of several with that name, any.                      *)
ScanFind ==
    /\ Listening /\ Asked /\ scan.clock < ScanTime
    /\ \E n \in Matching :
          IF Addr[n] = <<>> THEN Done(Fallback)
          ELSE scan' = [Idle EXCEPT !.pc = "probe", !.target = scan.target, !.peer = n, !.next = 1]
    /\ UNCHANGED vars

(* Mutant: one sleep too few.                                                *)
ScanEndEarly ==
    /\ Listening /\ scan.clock + 1 >= Limit
    /\ Done(Fallback)
    /\ UNCHANGED vars

(* The time is over: nobody is found, or `peers` lists who was heard.        *)
ScanEnd ==
    /\ Listening /\ scan.clock = Limit
    /\ Done(Fallback)
    /\ UNCHANGED vars

(* Mutant: the first address is taken as it is.                              *)
ProbeFirst ==
    /\ Probing
    /\ Done(Addr[scan.peer][1])
    /\ UNCHANGED vars

(* One round of pick_reachable_address: the address accepts a connection, or *)
(* refuses it or does not answer in time; after the last, the first is taken. *)
Probe ==
    /\ Probing
    /\ \/ Connects(Tried) /\ Done(Tried)
       \/ /\ ~Connects(Tried) \/ Tried \in Slow
          /\ IF scan.next = Len(Addr[scan.peer])
             THEN Done(Addr[scan.peer][1])
             ELSE scan' = [scan EXCEPT !.next = @ + 1, !.clock = 0]
    /\ UNCHANGED vars

RBroadcast(n) ==
    /\ Broadcast(n)
    /\ LET intime == Listening /\ Asked /\ air' # air /\ scan.clock + MaxDelay < ScanTime
       IN  scan' = IF intime THEN [scan EXCEPT !.due = @ \cup {n}] ELSE scan

(* The sender's timers are kept, too: polls are far shorter than a second.   *)
RTick ==
    /\ Listening => /\ scan.clock < Limit
                    /\ Asked => Matching = {}
                    /\ \A d \in air : d.age = MaxDelay => d.node \in scan.heard \/ scan.deaf
    /\ Probing => scan.clock < ProbeTime /\ (~Connects(Tried) \/ Tried \in Slow)
    /\ Tick
    /\ scan' = [scan EXCEPT !.clock = IF Listening \/ Probing THEN @ + 1 ELSE 0]

RNext ==
    \/ \E n \in Nodes : RBroadcast(n) \/ ((Boot(n) \/ Stop(n)) /\ UNCHANGED scan)
    \/ \E d \in air : ScanHear(d) \/ (Receive(d) /\ UNCHANGED scan)
    \/ Sweep /\ UNCHANGED scan
    \/ \E t \in Names \cup {Everyone} : ScanStart(t)
    \/ ScanFind \/ ScanEnd \/ Probe
    \/ RTick

RSpec == RInit /\ [][RNext]_rvars

----------------------------------------------------------------------------
(* Properties *)

RTypeOK ==
    /\ TypeOK
    /\ scan \in Scans
    /\ Probing => scan.next \in DOMAIN Addr[scan.peer] /\ scan.clock <= ProbeTime
    /\ Listening => scan.clock <= Limit

Ends == scan.pc # "done" /\ scan'.pc = "done"

(* How long a node may be gone that is taken for a destination, or listed.   *)
Recent(n, t) == up[n] = "up" \/ since[n] <= MaxDelay + t

(* A peer that is found has the name asked for and was running when it was   *)
(* found, but for the delay of its last heartbeat; so was a listed one when  *)
(* the listening began.  While that peer runs, the sender is sent to an      *)
(* address it has advertised; and if one of them accepts connections within  *)
(* the timeout, to one that does accept them, before which the peer did not  *)
(* list one that is as quick.                                                *)
FoundFresh ==
    /\ scan.peer # Nobody => /\ Name[scan.peer] = scan.target
                             /\ Recent(scan.peer, scan.next * ProbeTime)
    /\ ~Asked => \A n \in scan'.heard : Recent(n, ListenTime)

Prompt == Reachable \ Slow

AnswerServes ==
    scan.peer # Nobody /\ up[scan.peer] = "up" =>
        \E i \in DOMAIN Addr[scan.peer] :
            /\ scan'.answer = Addr[scan.peer][i]
            /\ AddressesOf(scan.peer) \cap Prompt # {} =>
                  /\ Connects(scan'.answer)
                  /\ \A j \in 1..(i - 1) : Addr[scan.peer][j] \notin Prompt

ResolvedFresh == [][Ends => FoundFresh /\ AnswerServes]_rvars

(* A scan finds nobody only when no heartbeat of that name was sent to it    *)
(* and not lost, early enough to arrive before its last poll, however late   *)
(* it was - or one was heard, of a peer of that name without an address, or  *)
(* its listener had failed.                                                  *)
MissedOnlySilent ==
    [][Ends /\ Asked /\ ~scan.deaf /\ scan.peer = Nobody =>
          \A n \in scan.due : Name[n] = scan.target => \E m \in Matching : Addr[m] = <<>>]_rvars
=============================================================================
