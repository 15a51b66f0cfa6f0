----------------------------- MODULE EventStream -----------------------------
(* The events a node pushes to the web pages open on it                       *)
(* (src/src/server.rs, handle_sse_events; src/src/web_ui.rs, sse_events): a   *)
(* broadcast channel that holds the last Capacity events, read by one         *)
(* receiver per connection.  `log` is everything a node ever published; the   *)
(* channel holds its tail.                                                    *)
EXTENDS Naturals, Sequences

CONSTANTS
    Nodes,     \* nodes that serve a web page
    Pages,     \* browser tabs
    Home,      \* page -> the node that served it
    Messages,  \* what an event may say
    Capacity,  \* events the channel holds (64: src/src/main.rs:733)
    Closed     \* of a page: no connection

ASSUME EventStreamAssumption ==
    /\ Home \in [Pages -> Nodes]
    /\ Capacity \in Nat \ {0}
    /\ Closed \notin Nat

VARIABLES
    log,     \* node -> the events it published, oldest first
    cursor,  \* page -> the last event its receiver has passed, or Closed
    since,   \* page -> the last event published when it (re)connected
    shown    \* page -> the events it was given, over all its connections

esvars == <<log, cursor, since, shown>>

----------------------------------------------------------------------------

Last(n) == Len(log[n])
Newest(p) == Last(Home[p])
Open(p) == cursor[p] # Closed

(* The events before this one are no longer in the channel.                  *)
Lost(n) == IF Last(n) > Capacity THEN Last(n) - Capacity ELSE 0

ESInit ==
    /\ log = [n \in Nodes |-> <<>>]
    /\ cursor = [p \in Pages |-> Closed]
    /\ since = [p \in Pages |-> 0]
    /\ shown = [p \in Pages |-> <<>>]

(* The page connects, or its EventSource connects again: a receiver gets     *)
(* only what is published from now on.                                       *)
Subscribe(p) ==
    /\ ~Open(p)
    /\ cursor' = [cursor EXCEPT ![p] = Newest(p)]
    /\ since' = [since EXCEPT ![p] = Newest(p)]
    /\ UNCHANGED <<log, shown>>

(* sse_tx.send in a handler; without receivers the event is dropped.         *)
Publish(n, m) == log' = [log EXCEPT ![n] = Append(@, m)]

(* Mutants: a receiver that lags starts over at the newest event; it is      *)
(* given up.                                                                 *)
RecvNewest(p) ==
    /\ Open(p) /\ cursor[p] < Newest(p)
    /\ IF cursor[p] < Lost(Home[p])
       THEN cursor' = [cursor EXCEPT ![p] = Newest(p)] /\ UNCHANGED shown
       ELSE /\ cursor' = [cursor EXCEPT ![p] = @ + 1]
            /\ shown' = [shown EXCEPT ![p] = Append(@, cursor'[p])]
    /\ UNCHANGED <<log, since>>

RecvStuck(p) ==
    /\ Open(p) /\ cursor[p] < Newest(p) /\ cursor[p] >= Lost(Home[p])
    /\ cursor' = [cursor EXCEPT ![p] = @ + 1]
    /\ shown' = [shown EXCEPT ![p] = Append(@, cursor'[p])]
    /\ UNCHANGED <<log, since>>

(* One turn of the stream's loop: recv gives the next event, or Lagged when  *)
(* the channel no longer holds it; the loop then goes on with the oldest.    *)
Recv(p) ==
    /\ Open(p) /\ cursor[p] < Newest(p)
    /\ IF cursor[p] < Lost(Home[p])
       THEN cursor' = [cursor EXCEPT ![p] = Lost(Home[p])] /\ UNCHANGED shown
       ELSE /\ cursor' = [cursor EXCEPT ![p] = @ + 1]
            /\ shown' = [shown EXCEPT ![p] = Append(@, cursor'[p])]
    /\ UNCHANGED <<log, since>>

(* The connections of these pages break; their receivers are dropped.        *)
Disconnect(ps) == cursor' = [p \in Pages |-> IF p \in ps THEN Closed ELSE cursor[p]]

ESNext ==
    \/ \E p \in Pages : Subscribe(p) \/ Recv(p)
    \/ \E n \in Nodes, m \in Messages : Publish(n, m) /\ UNCHANGED <<cursor, since, shown>>
    \/ \E ps \in SUBSET Pages : Disconnect(ps) /\ UNCHANGED <<log, since, shown>>

ESSpec == ESInit /\ [][ESNext]_esvars

----------------------------------------------------------------------------
(* Properties *)

ESTypeOK ==
    /\ log \in [Nodes -> Seq(Messages)]
    /\ cursor \in [Pages -> Nat \cup {Closed}]
    /\ since \in [Pages -> Nat]
    /\ shown \in [Pages -> Seq(Nat)]

Shown(p, i) == \E k \in DOMAIN shown[p] : shown[p][k] = i

(* An event reaches a page at most once and after those published before it, *)
(* over all the connections the page makes; it misses one published during   *)
(* its connection only when Capacity later ones were published before its    *)
(* receiver came to it.                                                      *)
InOrder ==
    \A p \in Pages : \A i, j \in DOMAIN shown[p] : i < j => shown[p][i] < shown[p][j]

NoneSkipped ==
    \A p \in Pages : Open(p) =>
        /\ since[p] <= cursor[p] /\ cursor[p] <= Newest(p)
        /\ \A i \in (since[p] + 1)..cursor[p] : Shown(p, i) \/ i <= Lost(Home[p])

StreamFaithful == InOrder /\ NoneSkipped

(* A page that stays connected is given the newest event once no newer one   *)
(* comes, however far its receiver had fallen behind.                        *)
NewestShown ==
    \A p \in Pages :
        (Open(p) /\ since[p] < Newest(p)) ~>
            (~Open(p) \/ since[p] >= Newest(p) \/ Shown(p, Newest(p)))
=============================================================================
