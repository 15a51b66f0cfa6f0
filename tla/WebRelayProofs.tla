---------------------------- MODULE WebRelayProofs ----------------------------
(* Proofs about EventStream, for every number of nodes and pages and every    *)
(* capacity of the channel, and about the WebRelay that publishes to it, for  *)
(* any number of requests, peers, attempts, fields and restarts.              *)
EXTENDS WebRelay, FiniteSetTheorems, TLAPS

----------------------------------------------------------------------------
(* The event stream *)

LEMMA StreamConstants ==
    /\ Capacity \in Nat /\ Capacity > 0 /\ Closed \notin Nat
    /\ \A p \in Pages : Home[p] \in Nodes
BY EventStreamAssumption

LEMMA ChannelTyped ==
    ASSUME ESTypeOK, NEW n \in Nodes
    PROVE  log[n] \in Seq(Messages) /\ Last(n) \in Nat /\ Lost(n) \in Nat /\ Lost(n) <= Last(n)
<1>1. log[n] \in Seq(Messages) /\ Last(n) \in Nat
    BY DEF ESTypeOK, Last
<1>. QED  BY <1>1, StreamConstants DEF Lost

(* An event more is not an event less.                                       *)
LEMMA Published ==
    ASSUME ESTypeOK, NEW n \in Nodes, NEW m \in Messages, Publish(n, m)
    PROVE  /\ log' \in [Nodes -> Seq(Messages)]
           /\ \A k \in Nodes : /\ Last(k)' \in Nat /\ Last(k) <= Last(k)'
                               /\ Lost(k)' \in Nat /\ Lost(k) <= Lost(k)'
<1>1. log' \in [Nodes -> Seq(Messages)]
    BY DEF Publish, ESTypeOK
<1>2. \A k \in Nodes : log'[k] = IF k = n THEN Append(log[k], m) ELSE log[k]
    BY DEF Publish, ESTypeOK
<1>3. ASSUME NEW k \in Nodes
      PROVE  Last(k)' \in Nat /\ Last(k) \in Nat /\ (Last(k)' = Last(k) \/ Last(k)' = Last(k) + 1)
    <2>1. log[k] \in Seq(Messages)
        BY DEF ESTypeOK
    <2>2. Len(Append(log[k], m)) = Len(log[k]) + 1 /\ Len(log[k]) \in Nat
        BY <2>1
    <2>3. log'[k] = log[k] \/ log'[k] = Append(log[k], m)
        BY <1>2
    <2>4. Last(k) = Len(log[k]) /\ Last(k)' = Len(log'[k])
        BY DEF Last
    <2>. QED  BY <2>2, <2>3, <2>4
<1>4. ASSUME NEW k \in Nodes PROVE Lost(k)' \in Nat /\ Lost(k) <= Lost(k)'
    BY <1>3, StreamConstants DEF Lost
<1>. QED  BY <1>1, <1>3, <1>4

LEMMA InitESTypeOK == ESInit => ESTypeOK
BY DEF ESInit, ESTypeOK

LEMMA NextESTypeOK == ESTypeOK /\ [ESNext]_esvars => ESTypeOK'
<1>. SUFFICES ASSUME ESTypeOK, [ESNext]_esvars PROVE ESTypeOK'
    OBVIOUS
<1>1. ASSUME NEW p \in Pages, Subscribe(p) PROVE ESTypeOK'
    <2>1. Newest(p) \in Nat
        BY StreamConstants, ChannelTyped DEF Newest
    <2>. QED  BY <1>1, <2>1 DEF Subscribe, ESTypeOK
<1>2. ASSUME NEW p \in Pages, Recv(p) PROVE ESTypeOK'
    <2>1. cursor[p] \in Nat /\ Lost(Home[p]) \in Nat
        BY <1>2, StreamConstants, ChannelTyped DEF Recv, Open, ESTypeOK
    <2>2. CASE cursor' = [cursor EXCEPT ![p] = Lost(Home[p])] /\ UNCHANGED shown
        BY <1>2, <2>1, <2>2 DEF Recv, ESTypeOK
    <2>3. CASE /\ cursor' = [cursor EXCEPT ![p] = @ + 1]
               /\ shown' = [shown EXCEPT ![p] = Append(@, cursor'[p])]
        <3>1. cursor'[p] \in Nat /\ cursor' \in [Pages -> Nat \cup {Closed}]
            BY <2>1, <2>3 DEF ESTypeOK
        <3>2. shown' \in [Pages -> Seq(Nat)]
            BY <2>3, <3>1 DEF ESTypeOK
        <3>. QED  BY <1>2, <3>1, <3>2 DEF Recv, ESTypeOK
    <2>. QED  BY <1>2, <2>2, <2>3 DEF Recv
<1>3. ASSUME NEW n \in Nodes, NEW m \in Messages, Publish(n, m), UNCHANGED <<cursor, since, shown>>
      PROVE  ESTypeOK'
    BY <1>3, Published DEF ESTypeOK
<1>4. ASSUME NEW ps \in SUBSET Pages, Disconnect(ps), UNCHANGED <<log, since, shown>> PROVE ESTypeOK'
    BY <1>4 DEF Disconnect, ESTypeOK
<1>5. CASE UNCHANGED esvars
    BY <1>5 DEF esvars, ESTypeOK
<1>. QED  BY <1>1, <1>2, <1>3, <1>4, <1>5 DEF ESNext

----------------------------------------------------------------------------
(* Nothing shown is newer than where the page's receiver is, or than what was *)
(* published when it has none.                                               *)
NoneAhead ==
    \A p \in Pages : \A i \in DOMAIN shown[p] :
        shown[p][i] <= Newest(p) /\ (Open(p) => shown[p][i] <= cursor[p])

StreamInv == ESTypeOK /\ NoneAhead /\ StreamFaithful

LEMMA InitStream == ESInit => StreamInv
<1>1. ESInit => \A p \in Pages : DOMAIN shown[p] = {} /\ ~Open(p)
    BY DEF ESInit, Open
<1>. QED  BY <1>1, InitESTypeOK DEF StreamInv, NoneAhead, StreamFaithful, InOrder, NoneSkipped

(* What StreamInv says of one page.                                          *)
Faithful(p) ==
    /\ \A i \in DOMAIN shown[p] :
          shown[p][i] <= Newest(p) /\ (Open(p) => shown[p][i] <= cursor[p])
    /\ \A i, j \in DOMAIN shown[p] : i < j => shown[p][i] < shown[p][j]
    /\ Open(p) => /\ since[p] <= cursor[p] /\ cursor[p] <= Newest(p)
                  /\ \A i \in (since[p] + 1)..cursor[p] : Shown(p, i) \/ i <= Lost(Home[p])

LEMMA ByPage == StreamInv <=> ESTypeOK /\ \A p \in Pages : Faithful(p)
BY DEF StreamInv, NoneAhead, StreamFaithful, InOrder, NoneSkipped, Faithful

(* A page the step leaves alone but for what is published.                   *)
LEMMA PageKept ==
    ASSUME ESTypeOK, ESTypeOK', NEW p \in Pages, Faithful(p),
           cursor'[p] = cursor[p] \/ cursor'[p] = Closed, since'[p] = since[p], shown'[p] = shown[p],
           Last(Home[p]) <= Last(Home[p])', Lost(Home[p]) <= Lost(Home[p])'
    PROVE  Faithful(p)'
<1>. DEFINE n == Home[p]
<1>1. n \in Nodes
    BY StreamConstants
<1>2. Last(n) \in Nat /\ Last(n)' \in Nat /\ Lost(n) \in Nat /\ Lost(n)' \in Nat
    BY <1>1, ChannelTyped, StreamConstants DEF ESTypeOK, Last, Lost
<1>3. shown[p] \in Seq(Nat) /\ since[p] \in Nat /\ (Open(p) => cursor[p] \in Nat)
    BY DEF ESTypeOK, Open
<1>4. \A i \in DOMAIN shown[p] : shown[p][i] \in Nat
    BY <1>3
<1>5. Open(p)' => Open(p) /\ cursor'[p] = cursor[p]
    BY DEF Open
<1>6. \A i \in Nat : Shown(p, i) => Shown(p, i)'
    BY DEF Shown
<1>7. (\A i, j \in DOMAIN shown[p] : i < j => shown[p][i] < shown[p][j])'
    BY DEF Faithful
<1>8. (\A i \in DOMAIN shown[p] : shown[p][i] <= Newest(p) /\ (Open(p) => shown[p][i] <= cursor[p]))'
    BY <1>2, <1>4, <1>5 DEF Faithful, Newest
<1>9. ASSUME Open(p)' PROVE (since[p] <= cursor[p] /\ cursor[p] <= Newest(p))'
    BY <1>2, <1>3, <1>5, <1>9 DEF Faithful, Newest
<1>10. ASSUME Open(p)', NEW i \in (since[p] + 1)..cursor[p] PROVE (Shown(p, i) \/ i <= Lost(Home[p]))'
    <2>1. Open(p) /\ i \in Nat
        BY <1>3, <1>5, <1>10
    <2>2. Shown(p, i) \/ i <= Lost(n)
        BY <1>10, <2>1 DEF Faithful
    <2>. QED  BY <1>2, <1>6, <2>1, <2>2
<1>. QED  BY <1>5, <1>7, <1>8, <1>9, <1>10 DEF Faithful

LEMMA NextStream == StreamInv /\ [ESNext]_esvars => StreamInv'
<1>. SUFFICES ASSUME ESTypeOK, ESTypeOK', \A p \in Pages : Faithful(p), [ESNext]_esvars,
                     NEW p \in Pages
              PROVE  Faithful(p)'
    BY ByPage, NextESTypeOK DEF StreamInv, NoneAhead, StreamFaithful, InOrder, NoneSkipped, Faithful
<1>. DEFINE n == Home[p]
<1>1. n \in Nodes /\ Last(n) \in Nat /\ Lost(n) \in Nat /\ Lost(n) <= Last(n)
    BY StreamConstants, ChannelTyped
<1>2. shown[p] \in Seq(Nat) /\ since[p] \in Nat
    BY DEF ESTypeOK
<1>3. ASSUME log' = log PROVE Last(n)' = Last(n) /\ Lost(n)' = Lost(n)
    BY <1>3 DEF Last, Lost
<1>4. ASSUME NEW q \in Pages, Subscribe(q) PROVE Faithful(p)'
    <2>1. CASE q # p
        BY <1>1, <1>3, <1>4, <2>1, PageKept DEF Subscribe, ESTypeOK
    <2>2. CASE q = p
        <3>1. cursor'[p] = Last(n) /\ since'[p] = Last(n) /\ shown' = shown /\ log' = log
            BY <1>4, <2>2 DEF Subscribe, ESTypeOK, Newest
        <3>2. ~Open(p) /\ Newest(p)' = Last(n)
            BY <1>4, <2>2, <3>1 DEF Subscribe, Newest, Last
        <3>3. \A i \in (Last(n) + 1)..Last(n) : FALSE
            BY <1>1
        <3>4. \A i \in DOMAIN shown[p] : shown[p][i] <= Last(n)
            BY DEF Faithful, Newest
        <3>5. \A i, j \in DOMAIN shown[p] : i < j => shown[p][i] < shown[p][j]
            BY DEF Faithful
        <3>6. Last(n) <= Last(n)
            BY <1>1
        <3>. QED  BY <3>1, <3>2, <3>3, <3>4, <3>5, <3>6 DEF Faithful
    <2>. QED  BY <2>1, <2>2
<1>5. ASSUME NEW q \in Pages, Recv(q) PROVE Faithful(p)'
    <2>1. CASE q # p
        <3>1. cursor'[p] = cursor[p] /\ shown'[p] = shown[p] /\ since' = since /\ log' = log
            BY <1>5, <2>1 DEF Recv, ESTypeOK
        <3>. QED  BY <1>1, <1>3, <3>1, PageKept
    <2>2. CASE q = p
        <3>1. log' = log /\ since' = since /\ Open(p) /\ cursor[p] \in Nat /\ cursor[p] < Last(n)
            BY <1>5, <2>2 DEF Recv, Open, ESTypeOK, Newest
        <3>2. Newest(p)' = Last(n) /\ Lost(n)' = Lost(n) /\ since'[p] = since[p] /\ since[p] <= cursor[p]
            BY <1>3, <3>1 DEF Newest, Faithful
        <3>3. CASE cursor[p] < Lost(n) /\ cursor' = [cursor EXCEPT ![p] = Lost(n)] /\ UNCHANGED shown
            <4>1. cursor'[p] = Lost(n) /\ shown'[p] = shown[p]
                BY <3>3 DEF ESTypeOK
            <4>2. \A i \in DOMAIN shown[p] : shown[p][i] \in Nat /\ shown[p][i] <= cursor[p]
                BY <1>2, <3>1 DEF Faithful
            <4>3. \A i \in DOMAIN shown[p] : shown[p][i] <= Last(n) /\ shown[p][i] <= Lost(n)
                BY <1>1, <3>1, <3>3, <4>2
            <4>4. since[p] <= Lost(n) /\ \A i \in (since[p] + 1)..Lost(n) : i <= Lost(n)
                BY <1>1, <1>2, <3>1, <3>2, <3>3
            <4>5. \A i, j \in DOMAIN shown[p] : i < j => shown[p][i] < shown[p][j]
                BY DEF Faithful
            <4>. QED  BY <1>1, <3>2, <4>1, <4>3, <4>4, <4>5 DEF Faithful
        <3>4. CASE /\ cursor[p] >= Lost(n)
                   /\ cursor' = [cursor EXCEPT ![p] = @ + 1]
                   /\ shown' = [shown EXCEPT ![p] = Append(@, cursor'[p])]
            <4>. DEFINE c == cursor[p] + 1
                        s == shown[p]
            <4>1. cursor'[p] = c /\ shown'[p] = Append(s, c) /\ c \in Nat /\ c <= Last(n)
                BY <1>1, <3>1, <3>4 DEF ESTypeOK
            <4>2. /\ Len(s) \in Nat /\ DOMAIN s = 1..Len(s)
                  /\ DOMAIN Append(s, c) = 1..(Len(s) + 1) /\ Append(s, c)[Len(s) + 1] = c
                  /\ \A i \in 1..Len(s) : Append(s, c)[i] = s[i] /\ s[i] \in Nat
                BY <1>2, <4>1
            <4>3. \A i \in DOMAIN s : s[i] <= cursor[p]
                BY <3>1 DEF Faithful
            <4>4. \A i \in DOMAIN Append(s, c) : Append(s, c)[i] <= c /\ Append(s, c)[i] <= Last(n)
                BY <1>1, <3>1, <4>1, <4>2, <4>3
            <4>5. \A i, j \in DOMAIN Append(s, c) : i < j => Append(s, c)[i] < Append(s, c)[j]
                <5>1. \A i, j \in DOMAIN s : i < j => s[i] < s[j]
                    BY DEF Faithful
                <5>. QED  BY <3>1, <4>2, <4>3, <5>1
            <4>6. ASSUME NEW i \in (since[p] + 1)..c PROVE Shown(p, i)' \/ i <= Lost(n)
                <5>1. CASE i = c
                    BY <4>1, <4>2, <5>1 DEF Shown
                <5>2. CASE i # c
                    <6>1. i \in (since[p] + 1)..cursor[p]
                        BY <1>2, <3>1, <4>6, <5>2
                    <6>2. Shown(p, i) \/ i <= Lost(n)
                        BY <3>1, <6>1 DEF Faithful
                    <6>3. Shown(p, i) => Shown(p, i)'
                        BY <4>1, <4>2 DEF Shown
                    <6>. QED  BY <6>2, <6>3
                <5>. QED  BY <5>1, <5>2
            <4>7. since[p] <= c
                BY <1>2, <3>1, <3>2
            <4>. QED  BY <3>2, <4>1, <4>4, <4>5, <4>6, <4>7 DEF Faithful
        <3>. QED  BY <1>1, <1>5, <2>2, <3>1, <3>3, <3>4 DEF Recv
    <2>. QED  BY <2>1, <2>2
<1>6. ASSUME NEW k \in Nodes, NEW m \in Messages, Publish(k, m), UNCHANGED <<cursor, since, shown>>
      PROVE  Faithful(p)'
    BY <1>1, <1>6, Published, PageKept
<1>7. ASSUME NEW ps \in SUBSET Pages, Disconnect(ps), UNCHANGED <<log, since, shown>>
      PROVE  Faithful(p)'
    BY <1>1, <1>3, <1>7, PageKept DEF Disconnect
<1>8. CASE UNCHANGED esvars
    BY <1>1, <1>3, <1>8, PageKept DEF esvars
<1>. QED  BY <1>4, <1>5, <1>6, <1>7, <1>8 DEF ESNext

(* A page gets events at most once and in order, over all its connections,   *)
(* and misses none but those the channel could no longer hold.               *)
THEOREM StreamTheorem == ESSpec => []StreamFaithful
<1>1. StreamInv => StreamFaithful
    BY DEF StreamInv
<1>. QED  BY <1>1, InitStream, NextStream, PTL DEF ESSpec

----------------------------------------------------------------------------
(* The relay *)

LEMMA RelayConstants ==
    /\ Here \in Nodes /\ \A r \in Requests : From[r] \in Pages /\ Home[From[r]] = Here
    /\ \A e \in Entries : Host[e] \in Nodes
    /\ Watched \subseteq Pages
    /\ Messages = [of : Requests, whole : BOOLEAN]
    /\ Retries \in Nat /\ MaxFields \in Nat /\ NoFile \notin Messages /\ NoEntry \notin Entries
BY WebRelayAssumption

LEMMA Bodies ==
    ASSUME NEW r \in Requests
    PROVE  /\ Whole(r) \in Messages /\ Part(r) \in Messages /\ Whole(r) # Part(r)
           /\ Whole(r).of = r /\ Part(r).of = r
           /\ Whole(r) # NoFile /\ Part(r) # NoFile
<1>1. Whole(r) \in Messages /\ Part(r) \in Messages
    BY RelayConstants DEF Whole, Part
<1>2. Whole(r) # Part(r) /\ Whole(r).of = r /\ Part(r).of = r
    <2>1. Whole(r).whole = TRUE /\ Part(r).whole = FALSE
        BY DEF Whole, Part
    <2>. QED  BY <2>1 DEF Whole, Part
<1>. QED  BY <1>1, <1>2, RelayConstants

----------------------------------------------------------------------------
(* The locals of a handler: what its place in the code says of them.  A file  *)
(* field was saved before a peer is looked up for it, a peer was chosen      *)
(* before it is sent to; a remote handler past the guard carries the token   *)
(* of the run and the origin of the node.                                    *)
Sending == {"resolve", "loop", "hash", "send", "got"}

Placed(h) ==
    /\ h.saved <= h.fields
    /\ h.pc \in {"idle", "guard"} => h.fields = 0
    /\ h.kind = "file" /\ h.pc \in Sending => h.saved > 0
    /\ h.pc = "hash" => h.kind = "file"
    /\ h.pc \in {"hash", "send", "got"} => h.peer \in Entries

Allowed(h, r) ==
    /\ h.carried <= run
    /\ h.pc \notin {"idle", "dropped", "guard"} \cup Answers /\ From[r] \notin Local =>
          h.carried = run /\ From[r] \in SameOrigin
    /\ h.pc = "forbidden" /\ From[r] \in SameOrigin => h.carried < run

HandlerOK(h, r) == h \in Handlers /\ Placed(h) /\ Allowed(h, r)

HandlersOK ==
    /\ TypeOK
    /\ \A r \in Requests : HandlerOK(handler[r], r)
    /\ \A p \in Pages : token[p] <= run

(* Steps of the handler of one request.                                      *)
Handle(r) == Submit(r) \/ Read(r) \/ Relay(r) \/ Drop(r)

LEMMA IdleOK ==
    ASSUME run \in Nat, NEW r \in Requests
    PROVE  HandlerOK(Idle, r)
<1>1. Idle \in Handlers
    BY RelayConstants DEF Idle, Handlers
<1>2. Idle.saved = 0 /\ Idle.fields = 0 /\ Idle.pc = "idle" /\ Idle.carried = 0
    BY DEF Idle
<1>. QED  BY <1>1, <1>2 DEF HandlerOK, Placed, Allowed, Sending

LEMMA DroppedOK ==
    ASSUME run \in Nat, NEW r \in Requests, NEW h \in Handlers
    PROVE  HandlerOK(Dropped(h), r)
<1>1. Dropped(h) = [Idle EXCEPT !.pc = "dropped", !.kind = h.kind, !.targets = h.targets]
    BY DEF Dropped
<1>2. Idle \in Handlers
    BY IdleOK DEF HandlerOK
<1>3. h.kind \in {"text", "file"} /\ h.targets \in SUBSET Entries
    BY DEF Handlers
<1>4. Dropped(h) \in Handlers
    BY <1>1, <1>2, <1>3 DEF Handlers
<1>5. Dropped(h).saved = 0 /\ Dropped(h).fields = 0 /\ Dropped(h).pc = "dropped" /\ Dropped(h).carried = 0
    BY <1>1 DEF Idle
<1>. QED  BY <1>4, <1>5 DEF HandlerOK, Placed, Allowed, Sending

(* Set moves one handler.                                                    *)
LEMMA HandlerSet ==
    ASSUME handler \in [Requests -> Handlers], NEW r \in Requests, NEW h \in Handlers, Set(r, h)
    PROVE  /\ handler' \in [Requests -> Handlers] /\ handler'[r] = h
           /\ \A q \in Requests : q # r => handler'[q] = handler[q]
BY DEF Set

(* The handler goes on with the locals it gives RemoveSpool, but for kept.   *)
LEMMA RemoveSpoolSets ==
    ASSUME NEW r \in Requests, NEW b \in Handlers, HandlerOK(b, r), RemoveSpool(r, b)
    PROVE  \E l \in Handlers : HandlerOK(l, r) /\ Set(r, l) /\ l.pc = b.pc
<1>. DEFINE k == [b EXCEPT !.kept = TRUE]
<1>1. Set(r, b) \/ Set(r, k)
    BY DEF RemoveSpool
<1>2. /\ k \in Handlers /\ k.pc = b.pc /\ k.saved = b.saved /\ k.fields = b.fields
      /\ k.carried = b.carried /\ k.kind = b.kind /\ k.peer = b.peer
    BY DEF Handlers
<1>3. HandlerOK(k, r)
    BY <1>2 DEF HandlerOK, Placed, Allowed, Sending
<1>. QED  BY <1>1, <1>2, <1>3

LEMMA HandleOK ==
    ASSUME HandlersOK, NEW r \in Requests, Handle(r)
    PROVE  \E l : HandlerOK(l, r) /\ Set(r, l)
<1>. DEFINE h == handler[r]
<1>0. h \in Handlers /\ Placed(h) /\ Allowed(h, r) /\ MaxFields \in Nat /\ Retries \in Nat /\ run \in Nat
    BY RelayConstants DEF HandlersOK, HandlerOK, TypeOK
<1>. USE DEF HandlerOK, Placed, Allowed, Sending, Answers
<1>1. CASE Submit(r)
    <2>1. token[From[r]] \in Nat /\ token[From[r]] <= run
        BY RelayConstants DEF HandlersOK, TypeOK
    <2>2. PICK k \in {"text", "file"} :
             Set(r, [h EXCEPT !.kind = k, !.pc = "guard", !.carried = token[From[r]]])
        BY <1>1 DEF Submit
    <2>. DEFINE l == [h EXCEPT !.kind = k, !.pc = "guard", !.carried = token[From[r]]]
    <2>3. l \in Handlers
        BY <1>0, <2>1 DEF Handlers
    <2>4. l.saved = h.saved /\ l.fields = h.fields /\ l.pc = "guard" /\ l.carried = token[From[r]]
        BY <1>0 DEF Handlers
    <2>5. h.pc = "idle"
        BY <1>1 DEF Submit
    <2>6. HandlerOK(l, r)
        BY <1>0, <2>1, <2>3, <2>4, <2>5
    <2>. QED  BY <2>2, <2>6
<1>2. CASE Guard(r)
    <2>. DEFINE label == IF Admitted(r) THEN "form" ELSE "forbidden"
                l == [h EXCEPT !.pc = label]
    <2>1. h.pc = "guard" /\ Set(r, l)
        BY <1>2 DEF Guard, Goto
    <2>2. l \in Handlers /\ l.pc = label /\ l.saved = h.saved /\ l.fields = h.fields /\ l.kind = h.kind
             /\ l.carried = h.carried
        BY <1>0 DEF Handlers
    <2>3. h.carried \in Nat /\ h.carried <= run
        BY <1>0 DEF Handlers
    <2>4. Admitted(r) <=> From[r] \in Local \/ (h.carried = run /\ From[r] \in SameOrigin)
        BY DEF Admitted, ValidToken
    <2>5. HandlerOK(l, r)
        BY <1>0, <2>1, <2>2, <2>3, <2>4
    <2>. QED  BY <2>1, <2>5
<1>3. CASE ReadText(r)
    <2>1. h.pc = "form" /\ h.kind = "text"
        BY <1>0, <1>3 DEF ReadText, IsFile, Handlers
    <2>2. ASSUME NEW t \in {"one", "all"} PROVE HandlerOK([h EXCEPT !.pc = "resolve", !.target = t], r)
        BY <1>0, <2>1 DEF Handlers
    <2>3. HandlerOK([h EXCEPT !.pc = "bad"], r)
        BY <1>0, <2>1 DEF Handlers
    <2>. QED  BY <1>3, <2>2, <2>3 DEF ReadText
<1>4. CASE ReadTarget(r)
    <2>1. PICK t \in {"one", h.target} : Set(r, [h EXCEPT !.fields = @ + 1, !.target = t])
        BY <1>4 DEF ReadTarget
    <2>. DEFINE l == [h EXCEPT !.fields = @ + 1, !.target = t]
    <2>2. h.fields + 1 \in 0..MaxFields /\ t \in {"one", "all"} /\ h.pc = "form"
        BY <1>0, <1>4, <2>1 DEF ReadTarget, Handlers
    <2>3. l \in Handlers
        BY <1>0, <2>2 DEF Handlers
    <2>4. l.pc = "form" /\ l.saved = h.saved /\ l.fields = h.fields + 1 /\ l.carried = h.carried
             /\ h.saved \in Nat /\ h.fields \in Nat
        BY <1>0, <2>2 DEF Handlers
    <2>5. HandlerOK(l, r)
        BY <1>0, <2>2, <2>3, <2>4
    <2>. QED  BY <2>1, <2>5
<1>5. CASE SaveFile(r)
    <2>1. h.fields + 1 \in 0..MaxFields /\ h.pc = "form" /\ h.fields \in Nat /\ h.saved \in Nat
        BY <1>0, <1>5 DEF SaveFile, Handlers
    <2>. DEFINE l == [h EXCEPT !.fields = h.fields + 1, !.saved = h.fields + 1]
                b == [h EXCEPT !.fields = h.fields + 1, !.pc = "bad"]
    <2>2. l \in Handlers /\ b \in Handlers
        BY <1>0, <2>1 DEF Handlers
    <2>3. /\ l.pc = "form" /\ l.saved = h.fields + 1 /\ l.fields = h.fields + 1 /\ l.carried = h.carried
          /\ b.pc = "bad" /\ b.saved = h.saved /\ b.fields = h.fields + 1 /\ b.carried = h.carried
        BY <1>0, <2>1 DEF Handlers
    <2>4. HandlerOK(l, r)
        BY <1>0, <2>1, <2>2, <2>3
    <2>5. HandlerOK(b, r)
        BY <1>0, <2>1, <2>2, <2>3
    <2>. QED  BY <1>5, <2>4, <2>5 DEF SaveFile
<1>6. CASE EndForm(r)
    <2>. DEFINE l == [h EXCEPT !.pc = "resolve"]
                b == [h EXCEPT !.pc = "bad"]
    <2>1. l \in Handlers /\ b \in Handlers
        BY <1>0 DEF Handlers
    <2>2. /\ l.pc = "resolve" /\ l.saved = h.saved /\ l.fields = h.fields /\ l.carried = h.carried
          /\ b.pc = "bad" /\ b.saved = h.saved /\ b.fields = h.fields /\ b.carried = h.carried
          /\ l.kind = h.kind
        BY <1>0 DEF Handlers
    <2>3. (h.saved > 0 /\ h.pc = "form" /\ Set(r, l)) \/ (h.pc = "form" /\ Set(r, b))
        BY <1>6 DEF EndForm, Goto
    <2>4. h.saved > 0 /\ h.pc = "form" => HandlerOK(l, r)
        BY <1>0, <2>1, <2>2
    <2>5. h.pc = "form" => HandlerOK(b, r)
        BY <1>0, <2>1, <2>2
    <2>. QED  BY <2>3, <2>4, <2>5
<1>7. CASE Resolve(r)
    <2>1. h.pc = "resolve"
        BY <1>7 DEF Resolve
    <2>. DEFINE l(es) == [h EXCEPT !.pc = "loop", !.targets = es, !.todo = es]
                b == [h EXCEPT !.pc = "unknown"]
    <2>2. b \in Handlers /\ b.pc = "unknown" /\ b.saved = h.saved /\ b.fields = h.fields /\ b.carried = h.carried
        BY <1>0 DEF Handlers
    <2>3. HandlerOK(b, r)
        BY <1>0, <2>1, <2>2
    <2>4. ASSUME NEW es \in SUBSET Entries PROVE HandlerOK(l(es), r)
        <3>1. l(es) \in Handlers
            BY <1>0 DEF Handlers
        <3>2. /\ l(es).pc = "loop" /\ l(es).saved = h.saved /\ l(es).fields = h.fields
              /\ l(es).carried = h.carried /\ l(es).kind = h.kind
            BY <1>0 DEF Handlers
        <3>. QED  BY <1>0, <2>1, <3>1, <3>2
    <2>5. RemoveSpool(r, b) => \E x : HandlerOK(x, r) /\ Set(r, x)
        BY <2>2, <2>3, RemoveSpoolSets
    <2>. QED  BY <1>7, <2>4, <2>5 DEF Resolve
<1>8. CASE NextPeer(r)
    <2>1. PICK e \in h.todo :
             \/ Set(r, [h EXCEPT !.pc = IF IsFile(r) THEN "hash" ELSE "send", !.peer = e,
                                 !.todo = @ \ {e}, !.tries = 0])
             \/ Set(r, [h EXCEPT !.todo = @ \ {e}, !.failed = TRUE])
        BY <1>8 DEF NextPeer
    <2>. DEFINE l == [h EXCEPT !.pc = IF IsFile(r) THEN "hash" ELSE "send", !.peer = e,
                               !.todo = @ \ {e}, !.tries = 0]
                b == [h EXCEPT !.todo = @ \ {e}, !.failed = TRUE]
    <2>2. e \in Entries /\ h.todo \ {e} \in SUBSET Entries /\ h.pc = "loop"
        BY <1>0, <1>8 DEF NextPeer, Handlers
    <2>3. l \in Handlers /\ b \in Handlers
        <3>1. (IF IsFile(r) THEN "hash" ELSE "send") \in {"hash", "send"} /\ 0 \in 0..Retries
            BY <1>0
        <3>2. l \in Handlers
            BY <1>0, <2>2, <3>1 DEF Handlers
        <3>3. b \in Handlers
            BY <1>0, <2>2 DEF Handlers
        <3>. QED  BY <3>2, <3>3
    <2>4. /\ l.pc = (IF IsFile(r) THEN "hash" ELSE "send") /\ l.peer = e /\ l.saved = h.saved
          /\ l.fields = h.fields /\ l.carried = h.carried /\ l.kind = h.kind
        BY <1>0 DEF Handlers
    <2>5. b.pc = "loop" /\ b.saved = h.saved /\ b.fields = h.fields /\ b.carried = h.carried /\ b.kind = h.kind
        BY <1>0, <2>2 DEF Handlers
    <2>6. HandlerOK(l, r)
        BY <1>0, <2>2, <2>3, <2>4 DEF IsFile
    <2>7. HandlerOK(b, r)
        BY <1>0, <2>2, <2>3, <2>5
    <2>. QED  BY <2>1, <2>6, <2>7
<1>9. CASE Hash(r)
    <2>. DEFINE l == [h EXCEPT !.pc = "send", !.hashed = spool[Saved(r)]]
                b == [h EXCEPT !.pc = "loop", !.peer = NoEntry, !.failed = TRUE]
    <2>1. h.pc = "hash" /\ (Set(r, l) \/ Set(r, b))
        BY <1>9 DEF Hash
    <2>2. spool[Saved(r)] \in Messages \cup {NoFile}
        <3>1. h.saved \in 1..MaxFields
            BY <1>0, <2>1 DEF Handlers
        <3>2. Saved(r) \in Spools
            BY <3>1 DEF Saved, Spools
        <3>. QED  BY <3>2 DEF HandlersOK, TypeOK
    <2>3. l \in Handlers /\ b \in Handlers
        BY <1>0, <2>2 DEF Handlers
    <2>4. /\ l.pc = "send" /\ l.peer = h.peer /\ l.saved = h.saved /\ l.fields = h.fields
          /\ l.carried = h.carried /\ l.kind = h.kind
          /\ b.pc = "loop" /\ b.saved = h.saved /\ b.fields = h.fields
          /\ b.carried = h.carried /\ b.kind = h.kind
        BY <1>0 DEF Handlers
    <2>5. HandlerOK(l, r)
        BY <1>0, <2>1, <2>3, <2>4
    <2>6. HandlerOK(b, r)
        BY <1>0, <2>1, <2>3, <2>4
    <2>. QED  BY <2>1, <2>5, <2>6
<1>10. CASE PeerTakes(r)
    <2>. DEFINE l == [h EXCEPT !.pc = "got"]
    <2>1. h.pc = "send" /\ Set(r, l)
        BY <1>10 DEF PeerTakes, Goto
    <2>2. /\ l \in Handlers /\ l.pc = "got" /\ l.peer = h.peer /\ l.saved = h.saved /\ l.fields = h.fields
          /\ l.carried = h.carried /\ l.kind = h.kind
        BY <1>0 DEF Handlers
    <2>3. HandlerOK(l, r)
        BY <1>0, <2>1, <2>2
    <2>. QED  BY <2>1, <2>3
<1>11. CASE PeerAnswers(r)
    <2>. DEFINE l == [h EXCEPT !.pc = "loop", !.peer = NoEntry, !.hashed = NoFile, !.delivered = @ + 1]
    <2>1. h.pc = "got" /\ Set(r, l)
        BY <1>11 DEF PeerAnswers
    <2>2. l \in Handlers
        <3>1. h.delivered + 1 \in Nat /\ NoEntry \in Entries \cup {NoEntry} /\ NoFile \in Messages \cup {NoFile}
            BY <1>0 DEF Handlers
        <3>. QED  BY <1>0, <3>1 DEF Handlers
    <2>3. l.pc = "loop" /\ l.saved = h.saved /\ l.fields = h.fields /\ l.carried = h.carried /\ l.kind = h.kind
        BY <1>0 DEF Handlers
    <2>4. HandlerOK(l, r)
        BY <1>0, <2>1, <2>2, <2>3
    <2>. QED  BY <2>1, <2>4
<1>12. CASE PeerFails(r)
    <2>. DEFINE l == [h EXCEPT !.pc = "send", !.tries = @ + 1]
                b == [h EXCEPT !.pc = "loop", !.peer = NoEntry, !.hashed = NoFile, !.failed = TRUE]
    <2>1. h.pc \in {"send", "got"} /\ ((h.tries < Retries /\ Set(r, l)) \/ Set(r, b))
        BY <1>12 DEF PeerFails
    <2>2. h.tries < Retries => l \in Handlers
        <3>1. h.tries < Retries => h.tries + 1 \in 0..Retries
            BY <1>0 DEF Handlers
        <3>. QED  BY <1>0, <3>1 DEF Handlers
    <2>3. b \in Handlers
        BY <1>0 DEF Handlers
    <2>4. /\ l.pc = "send" /\ l.peer = h.peer /\ l.saved = h.saved /\ l.fields = h.fields
          /\ l.carried = h.carried /\ l.kind = h.kind
          /\ b.pc = "loop" /\ b.saved = h.saved /\ b.fields = h.fields
          /\ b.carried = h.carried /\ b.kind = h.kind
        BY <1>0 DEF Handlers
    <2>5. h.tries < Retries => HandlerOK(l, r)
        BY <1>0, <2>1, <2>2, <2>4
    <2>6. HandlerOK(b, r)
        BY <1>0, <2>1, <2>3, <2>4
    <2>. QED  BY <2>1, <2>5, <2>6
<1>13. CASE Finish(r)
    <2>. DEFINE label == IF h.delivered = 0 THEN "none" ELSE "ok"
                l == [h EXCEPT !.pc = label]
    <2>1. h.pc = "loop" /\ RemoveSpool(r, l)
        BY <1>13 DEF Finish
    <2>2. l \in Handlers /\ l.pc = label /\ l.saved = h.saved /\ l.fields = h.fields /\ l.carried = h.carried
        BY <1>0 DEF Handlers
    <2>3. HandlerOK(l, r)
        BY <1>0, <2>1, <2>2
    <2>. QED  BY <2>1, <2>2, <2>3, RemoveSpoolSets
<1>14. CASE Drop(r)
    BY <1>0, <1>14, DroppedOK DEF Drop
<1>. QED  BY <1>1, <1>2, <1>3, <1>4, <1>5, <1>6, <1>7, <1>8, <1>9, <1>10, <1>11, <1>12, <1>13, <1>14
          DEF Handle, Read, Relay

----------------------------------------------------------------------------
(* What a relay publishes is a message, so its steps are steps of the stream. *)

LEMMA DroppedIs ==
    ASSUME NEW h \in Handlers
    PROVE  /\ Dropped(h) \in Handlers /\ Dropped(h).pc = "dropped"
           /\ Dropped(h).saved = 0 /\ Dropped(h).fields = 0 /\ Dropped(h).carried = 0
<1>1. Dropped(h) = [Idle EXCEPT !.pc = "dropped", !.kind = h.kind, !.targets = h.targets]
    BY DEF Dropped
<1>2. Idle \in Handlers
    BY RelayConstants DEF Idle, Handlers
<1>3. h.kind \in {"text", "file"} /\ h.targets \in SUBSET Entries
    BY DEF Handlers
<1>4. Dropped(h) \in Handlers
    BY <1>1, <1>2, <1>3 DEF Handlers
<1>. QED  BY <1>1, <1>4 DEF Idle

(* The file a handler sends is the one it saved.                             *)
LEMMA SavedIs ==
    ASSUME HandlersOK, NEW r \in Requests, IsFile(r), handler[r].pc \in Sending
    PROVE  Saved(r) = <<r, handler[r].saved>> /\ Saved(r) \in Spools /\ handler[r].saved \in 1..MaxFields
<1>1. handler[r].saved \in 0..MaxFields /\ handler[r].saved > 0 /\ MaxFields \in Nat
    BY RelayConstants DEF HandlersOK, HandlerOK, Placed, Handlers, IsFile
<1>2. handler[r].saved \in 1..MaxFields
    BY <1>1
<1>. QED  BY <1>2 DEF Saved, Spools

LEMMA Taken ==
    ASSUME HandlersOK, NEW r \in Requests, PeerTakes(r)
    PROVE  LET body == IF IsFile(r) THEN spool[Saved(r)] ELSE Whole(r)
           IN  /\ handler[r].pc = "send" /\ Host[handler[r].peer] \in Nodes /\ body \in Messages
               /\ body # NoFile
               /\ Publish(Host[handler[r].peer], body) /\ UNCHANGED <<cursor, since, shown>>
<1>. DEFINE body == IF IsFile(r) THEN spool[Saved(r)] ELSE Whole(r)
<1>1. handler[r].pc = "send" /\ Publish(Host[handler[r].peer], body) /\ UNCHANGED <<cursor, since, shown>>
        /\ (IsFile(r) => body # NoFile)
    BY DEF PeerTakes, Goto
<1>2. Host[handler[r].peer] \in Nodes
    BY <1>1, RelayConstants DEF HandlersOK, HandlerOK, Placed
<1>3. IsFile(r) => spool[Saved(r)] \in Messages \cup {NoFile}
    BY <1>1, SavedIs DEF Sending, HandlersOK, TypeOK
<1>. QED  BY <1>1, <1>2, <1>3, Bodies

LEMMA RelayStreams == HandlersOK /\ [Next]_vars => [ESNext]_esvars
<1>. SUFFICES ASSUME HandlersOK, [Next]_vars PROVE [ESNext]_esvars
    OBVIOUS
<1>1. ASSUME NEW p \in Pages, LoadPage(p) PROVE UNCHANGED esvars
    BY <1>1 DEF LoadPage
<1>2. ASSUME NEW p \in Pages, Stream(p) PROVE ESNext
    <2>1. CASE Subscribe(p) \/ Recv(p)
        BY <2>1 DEF ESNext
    <2>2. CASE Disconnect({p}) /\ UNCHANGED <<log, since, shown>>
        BY <2>2 DEF ESNext
    <2>. QED  BY <1>2, <2>1, <2>2 DEF Stream
<1>3. ASSUME NEW r \in Requests, Handle(r) PROVE UNCHANGED esvars \/ ESNext
    <2>1. CASE PeerTakes(r)
        BY <2>1, Taken DEF ESNext
    <2>2. CASE ~PeerTakes(r)
        BY <1>3, <2>2 DEF Handle, Read, Relay, Submit, ReadText, ReadTarget, SaveFile, EndForm, Guard,
                          Resolve, NextPeer, Hash, PeerAnswers, PeerFails, Finish, Drop
    <2>. QED  BY <2>1, <2>2
<1>4. ASSUME NEW r \in Requests, NEW e \in Entries, PeerTakesLate(r, e) PROVE ESNext
    BY <1>4, Bodies, RelayConstants DEF PeerTakesLate, ESNext
<1>5. ASSUME NEW s \in Spools, Settle(s) PROVE UNCHANGED esvars
    BY <1>5 DEF Settle
<1>6. CASE Restart
    BY <1>6 DEF Restart, ESNext
<1>7. CASE UNCHANGED vars
    BY <1>7 DEF vars
<1>. QED  BY <1>1, <1>2, <1>3, <1>4, <1>5, <1>6, <1>7, RelayConstants DEF Next, Handle

(* A handler's step touches its own spools only, and neither run nor tokens. *)
LEMMA HandleFrame ==
    ASSUME HandlersOK, NEW r \in Requests, Handle(r)
    PROVE  /\ run' = run /\ token' = token /\ due' \subseteq Spools /\ late' \subseteq Requests \X Entries
           /\ spool' \in [Spools -> Messages \cup {NoFile}]
           /\ \A s \in Spools : s[1] # r => spool'[s] = spool[s]
<1>0. /\ spool \in [Spools -> Messages \cup {NoFile}] /\ due \subseteq Spools
      /\ late \subseteq Requests \X Entries
    BY DEF HandlersOK, TypeOK
<1>1. run' = run /\ token' = token
    BY DEF Handle, Read, Relay, Submit, ReadText, ReadTarget, SaveFile, EndForm, Guard,
           Resolve, NextPeer, Hash, PeerTakes, PeerAnswers, PeerFails, Finish, Drop
<1>2. CASE SaveFile(r)
    <2>1. handler[r].fields + 1 \in 1..MaxFields
        BY <1>2, RelayConstants DEF SaveFile, HandlersOK, HandlerOK, Handlers
    <2>2. <<r, handler[r].fields + 1>> \in Spools
        BY <2>1 DEF Spools
    <2>3. spool' = spool \/ spool' = [spool EXCEPT ![<<r, handler[r].fields + 1>>] = Part(r)]
        BY <1>2 DEF SaveFile
    <2>4. due' = due \/ due' = due \cup {<<r, handler[r].fields + 1>>}
        BY <1>2 DEF SaveFile
    <2>5. late' = late
        BY <1>2 DEF SaveFile
    <2>6. spool' \in [Spools -> Messages \cup {NoFile}] /\ \A s \in Spools : s[1] # r => spool'[s] = spool[s]
        BY <1>0, <2>3, Bodies
    <2>. QED  BY <1>0, <1>1, <2>2, <2>4, <2>5, <2>6
<1>3. ASSUME NEW l, RemoveSpool(r, l)
      PROVE  /\ due' = due /\ spool' \in [Spools -> Messages \cup {NoFile}]
             /\ \A s \in Spools : s[1] # r => spool'[s] = spool[s]
    <2>1. due' = due /\ (spool' = spool \/ spool' = [spool EXCEPT ![Saved(r)] = NoFile])
        BY <1>3 DEF RemoveSpool
    <2>. QED  BY <1>0, <2>1 DEF Saved
<1>4. CASE Resolve(r) \/ Finish(r)
    <2>1. (\E l : RemoveSpool(r, l)) \/ UNCHANGED <<spool, due>>
        BY <1>4 DEF Resolve, Finish
    <2>2. late' = late
        BY <1>4 DEF Resolve, Finish
    <2>. QED  BY <1>0, <1>1, <1>3, <2>1, <2>2
<1>5. CASE PeerFails(r)
    <2>1. handler[r].pc = "send" => handler[r].peer \in Entries
        BY DEF HandlersOK, HandlerOK, Placed
    <2>. QED  BY <1>0, <1>1, <1>5, <2>1 DEF PeerFails
<1>6. CASE ~(SaveFile(r) \/ Resolve(r) \/ Finish(r) \/ PeerFails(r))
    <2>1. spool' = spool /\ due' = due /\ late' = late
        BY <1>6 DEF Handle, Read, Relay, Submit, ReadText, ReadTarget, EndForm, Guard,
                    NextPeer, Hash, PeerTakes, PeerAnswers, Drop
    <2>. QED  BY <1>0, <1>1, <2>1
<1>. QED  BY <1>2, <1>4, <1>5, <1>6

LEMMA InitHandlers == Init => HandlersOK
<1>. SUFFICES ASSUME Init PROVE HandlersOK
    OBVIOUS
<1>1. run = 1 /\ run \in Nat
    BY DEF Init
<1>2. \A r \in Requests : handler[r] = Idle /\ HandlerOK(handler[r], r)
    BY <1>1, IdleOK DEF Init
<1>3. handler \in [Requests -> Handlers]
    BY <1>2 DEF Init, HandlerOK
<1>4. TypeOK
    BY <1>1, <1>3, InitESTypeOK DEF Init, TypeOK
<1>5. \A p \in Pages : token[p] <= run
    BY <1>1 DEF Init
<1>. QED  BY <1>2, <1>4, <1>5 DEF HandlersOK

LEMMA NextHandlers == HandlersOK /\ [Next]_vars => HandlersOK'
<1>. SUFFICES ASSUME HandlersOK, [Next]_vars PROVE HandlersOK'
    OBVIOUS
<1>0. /\ TypeOK /\ ESTypeOK' /\ run \in Nat /\ token \in [Pages -> Nat]
      /\ handler \in [Requests -> Handlers]
    BY RelayStreams, NextESTypeOK DEF HandlersOK, TypeOK
<1>1. ASSUME UNCHANGED <<run, handler, spool, due, late>>, token' \in [Pages -> Nat],
             \A p \in Pages : token'[p] <= run
      PROVE  HandlersOK'
    BY <1>0, <1>1 DEF HandlersOK, TypeOK, HandlerOK, Allowed
<1>2. ASSUME NEW p \in Pages, LoadPage(p) PROVE HandlersOK'
    BY <1>0, <1>1, <1>2 DEF LoadPage, HandlersOK
<1>3. ASSUME UNCHANGED relayvars PROVE HandlersOK'
    BY <1>0, <1>1, <1>3 DEF relayvars, HandlersOK
<1>4. ASSUME NEW r \in Requests, Handle(r) PROVE HandlersOK'
    <2>1. PICK l : HandlerOK(l, r) /\ Set(r, l)
        BY <1>4, HandleOK
    <2>2. /\ handler' \in [Requests -> Handlers] /\ handler'[r] = l
          /\ \A q \in Requests : q # r => handler'[q] = handler[q]
        BY <1>0, <2>1, HandlerSet DEF HandlerOK
    <2>3. run' = run /\ token' = token
        BY <1>4, HandleFrame
    <2>4. \A q \in Requests : HandlerOK(handler'[q], q)
        BY <2>1, <2>2 DEF HandlersOK
    <2>5. \A q \in Requests : HandlerOK(handler[q], q)'
        BY <2>3, <2>4 DEF HandlerOK, Allowed
    <2>. QED  BY <1>0, <1>4, <2>2, <2>3, <2>5, HandleFrame DEF HandlersOK, TypeOK
<1>5. ASSUME NEW r \in Requests, NEW e \in Entries, PeerTakesLate(r, e) PROVE HandlersOK'
    BY <1>0, <1>5 DEF PeerTakesLate, HandlersOK, TypeOK, HandlerOK, Allowed
<1>6. ASSUME NEW s \in Spools, Settle(s) PROVE HandlersOK'
    <2>1. s[1] \in Requests
        BY <1>6 DEF Spools
    <2>2. spool' \in [Spools -> Messages \cup {NoFile}] /\ due' \subseteq Spools
        BY <1>0, <1>6, <2>1, Bodies DEF Settle, TypeOK
    <2>. QED  BY <1>0, <1>6, <2>2 DEF Settle, HandlersOK, TypeOK, HandlerOK, Allowed
<1>7. CASE Restart
    <2>1. run' = run + 1 /\ token' = token /\ spool' = spool /\ due' = {} /\ late' = late
        BY <1>7 DEF Restart
    <2>2. ASSUME NEW q \in Requests PROVE HandlerOK(handler[q], q)'
        <3>. DEFINE h == handler[q]
        <3>1. h \in Handlers /\ Placed(h) /\ Allowed(h, q) /\ h.carried \in Nat
            BY <1>0 DEF HandlersOK, HandlerOK, Handlers
        <3>2. CASE Working(q) /\ h.pc # "guard"
            <4>1. handler'[q] = Dropped(h)
                BY <1>7, <3>2 DEF Restart
            <4>. QED  BY <1>0, <2>1, <3>1, <4>1, DroppedIs DEF HandlerOK, Placed, Allowed, Sending
        <3>3. CASE ~(Working(q) /\ h.pc # "guard")
            <4>1. handler'[q] = h
                BY <1>7, <3>3 DEF Restart
            <4>2. h.pc \in {"idle", "dropped", "guard"} \cup Answers
                BY <3>3 DEF Working
            <4>3. Allowed(handler[q], q)'
                BY <1>0, <2>1, <3>1, <4>1, <4>2 DEF Allowed
            <4>. QED  BY <3>1, <4>1, <4>3 DEF HandlerOK, Placed
        <3>. QED  BY <3>2, <3>3
    <2>3. handler' \in [Requests -> Handlers]
        BY <1>7, <2>2 DEF Restart, HandlerOK
    <2>. QED  BY <1>0, <2>1, <2>2, <2>3 DEF HandlersOK, TypeOK
<1>8. CASE UNCHANGED vars
    BY <1>3, <1>8 DEF vars
<1>. QED  BY <1>2, <1>3, <1>4, <1>5, <1>6, <1>7, <1>8, RelayConstants DEF Next, Handle, Stream

(* The variables of the relay have their types.                              *)
THEOREM RelayTyped == Spec => []TypeOK
<1>1. HandlersOK => TypeOK
    BY DEF HandlersOK
<1>. QED  BY <1>1, InitHandlers, NextHandlers, PTL DEF Spec

(* A remote request is worked on only in the run whose token it carries.     *)
THEOREM GuardsTheorem == Spec => []GuardsApart
<1>1. HandlersOK => GuardsApart
    <2>. SUFFICES ASSUME HandlersOK, NEW r \in Requests
                  PROVE  LET h == handler[r]
                         IN  /\ Working(r) /\ h.pc # "guard" /\ From[r] \notin Local =>
                                   h.carried = run /\ From[r] \in SameOrigin
                             /\ h.pc = "forbidden" /\ From[r] \in SameOrigin => h.carried < run
        BY DEF GuardsApart
    <2>. QED  BY DEF HandlersOK, HandlerOK, Allowed, Working
<1>. QED  BY <1>1, InitHandlers, NextHandlers, PTL DEF Spec

(* The relay's part of the stream implements it, so that what is proved of   *)
(* the stream holds of the pages while requests are relayed.                 *)
THEOREM RelayImplementsStream == Spec => ESSpec
<1>1. Init => ESInit
    BY DEF Init
<1>. QED  BY <1>1, InitHandlers, NextHandlers, RelayStreams, PTL DEF Spec, ESSpec

(* Pages get the events a relay causes in order, at most once, and miss none *)
(* the channel could hold, whatever restarts and broken connections there are. *)
THEOREM RelayStreamTheorem == Spec => []StreamFaithful
<1>. QED  BY RelayImplementsStream, StreamTheorem, PTL

----------------------------------------------------------------------------
(* The spool.  The ways a handler's step changes its place and its spool.    *)

Early == {"idle", "guard", "form", "resolve"}
Late == {"loop", "hash", "send", "got"}
Same(r) == handler'[r].saved = handler[r].saved
Removes(r) ==
    \/ spool' = IF handler[r].saved = 0 THEN spool ELSE [spool EXCEPT ![Saved(r)] = NoFile]
    \/ handler'[r].kept /\ UNCHANGED spool

Begins(r) ==
    /\ handler[r].pc \in Early /\ handler'[r].pc \in Early \cup {"forbidden", "bad"}
    /\ Same(r) /\ UNCHANGED spool

SavesOne(r) ==
    LET k == handler[r].fields + 1
    IN  /\ handler[r].pc = "form" /\ k \in 1..MaxFields
        /\ \/ /\ handler'[r].pc = "form" /\ handler'[r].saved = k
              /\ spool' = [spool EXCEPT ![<<r, k>>] = Part(r)]
           \/ /\ handler'[r].pc = "bad" /\ handler'[r].saved = handler[r].saved
              /\ UNCHANGED spool \/ spool' = [spool EXCEPT ![<<r, k>>] = Part(r)]

Looks(r) ==
    /\ handler[r].pc = "resolve" /\ Same(r)
    /\ \/ handler'[r].pc = "loop" /\ handler'[r].kind = handler[r].kind /\ UNCHANGED spool
       \/ handler'[r].pc = "unknown" /\ Removes(r)

Sends(r) ==
    /\ handler[r].pc \in Late /\ handler'[r].pc \in Late
    /\ handler'[r].kind = handler[r].kind /\ Same(r) /\ UNCHANGED spool

Ends(r) ==
    /\ handler[r].pc = "loop" /\ handler'[r].pc \in {"none", "ok"} /\ Same(r) /\ Removes(r)

Leaves(r) == handler'[r].pc = "dropped" /\ UNCHANGED spool

LEMMA RemoveSpoolIs ==
    ASSUME handler \in [Requests -> Handlers], NEW r \in Requests, NEW l \in Handlers,
           l.saved = handler[r].saved, RemoveSpool(r, l)
    PROVE  handler'[r].pc = l.pc /\ Same(r) /\ Removes(r)
<1>1. CASE Set(r, l) /\ spool' = IF l.saved = 0 THEN spool ELSE [spool EXCEPT ![Saved(r)] = NoFile]
    <2>1. handler'[r] = l
        BY <1>1 DEF Set
    <2>. QED  BY <1>1, <2>1 DEF Same, Removes
<1>2. CASE Set(r, [l EXCEPT !.kept = TRUE]) /\ UNCHANGED spool
    <2>1. handler'[r] = [l EXCEPT !.kept = TRUE]
        BY <1>2 DEF Set
    <2>2. handler'[r].kept /\ handler'[r].pc = l.pc /\ handler'[r].saved = l.saved
        BY <2>1 DEF Handlers
    <2>. QED  BY <1>2, <2>2 DEF Same, Removes
<1>. QED  BY <1>1, <1>2 DEF RemoveSpool

LEMMA Moves ==
    ASSUME HandlersOK, NEW r \in Requests, Handle(r)
    PROVE  /\ Begins(r) \/ SavesOne(r) \/ Looks(r) \/ Sends(r) \/ Ends(r) \/ Leaves(r)
           /\ ~PeerTakes(r) => log' = log
<1>. DEFINE h == handler[r]
<1>0. h \in Handlers /\ Placed(h) /\ handler \in [Requests -> Handlers]
    BY DEF HandlersOK, HandlerOK, TypeOK
<1>1. ASSUME NEW l, Set(r, l) PROVE handler'[r] = l
    BY <1>0, <1>1 DEF Set
<1>2. ~PeerTakes(r) => log' = log
    BY DEF Handle, Read, Relay, Submit, ReadText, ReadTarget, SaveFile, EndForm, Guard,
           Resolve, NextPeer, Hash, PeerAnswers, PeerFails, Finish, Drop, esvars
<1>3. CASE Submit(r)
    <2>1. PICK k \in {"text", "file"} :
             handler'[r] = [h EXCEPT !.kind = k, !.pc = "guard", !.carried = token[From[r]]]
        BY <1>1, <1>3 DEF Submit
    <2>2. handler'[r].pc = "guard" /\ Same(r)
        BY <1>0, <2>1 DEF Same, Handlers
    <2>. QED  BY <1>2, <1>3, <2>2 DEF Submit, Begins, Early
<1>4. CASE Guard(r) \/ EndForm(r)
    <2>1. PICK label \in {"form", "forbidden", "resolve", "bad"} : handler'[r] = [h EXCEPT !.pc = label]
        BY <1>1, <1>4 DEF Guard, EndForm, Goto
    <2>2. handler'[r].pc = label /\ Same(r)
        BY <1>0, <2>1 DEF Same, Handlers
    <2>. QED  BY <1>2, <1>4, <2>1, <2>2 DEF Guard, EndForm, Goto, Begins, Early
<1>5. CASE ReadText(r)
    <2>1. \/ \E t \in {"one", "all"} : handler'[r] = [h EXCEPT !.pc = "resolve", !.target = t]
          \/ handler'[r] = [h EXCEPT !.pc = "bad"]
        BY <1>1, <1>5 DEF ReadText
    <2>2. handler'[r].pc \in {"resolve", "bad"} /\ Same(r)
        BY <1>0, <2>1 DEF Same, Handlers
    <2>. QED  BY <1>2, <1>5, <2>2 DEF ReadText, Begins, Early
<1>6. CASE ReadTarget(r)
    <2>1. PICK t \in {"one", h.target} : handler'[r] = [h EXCEPT !.fields = @ + 1, !.target = t]
        BY <1>1, <1>6 DEF ReadTarget
    <2>2. handler'[r].pc = h.pc /\ Same(r)
        BY <1>0, <2>1 DEF Same, Handlers
    <2>. QED  BY <1>2, <1>6, <2>2 DEF ReadTarget, Begins, Early
<1>7. CASE SaveFile(r)
    <2>. DEFINE k == h.fields + 1
    <2>1. k \in 1..MaxFields /\ h.pc = "form"
        BY <1>0, <1>7, RelayConstants DEF SaveFile, Handlers
    <2>2. \/ /\ handler'[r] = [h EXCEPT !.fields = k, !.saved = k]
             /\ spool' = [spool EXCEPT ![<<r, k>>] = Part(r)]
          \/ /\ handler'[r] = [h EXCEPT !.fields = k, !.pc = "bad"]
             /\ UNCHANGED spool \/ spool' = [spool EXCEPT ![<<r, k>>] = Part(r)]
        BY <1>1, <1>7 DEF SaveFile
    <2>3. [h EXCEPT !.fields = k, !.saved = k].pc = h.pc /\ [h EXCEPT !.fields = k, !.saved = k].saved = k
        BY <1>0 DEF Handlers
    <2>4. [h EXCEPT !.fields = k, !.pc = "bad"].pc = "bad" /\ [h EXCEPT !.fields = k, !.pc = "bad"].saved = h.saved
        BY <1>0 DEF Handlers
    <2>5. SavesOne(r)
        BY <2>1, <2>2, <2>3, <2>4 DEF SavesOne
    <2>. QED  BY <1>2, <1>7, <2>1, <2>5 DEF SaveFile, PeerTakes, Goto
<1>8. CASE Resolve(r)
    <2>1. h.pc = "resolve"
        BY <1>8 DEF Resolve
    <2>2. CASE \E es \in SUBSET Entries :
                  /\ Set(r, [h EXCEPT !.pc = "loop", !.targets = es, !.todo = es])
                  /\ UNCHANGED <<spool, due>>
        <3>1. PICK es \in SUBSET Entries :
                 handler'[r] = [h EXCEPT !.pc = "loop", !.targets = es, !.todo = es]
            BY <1>1, <2>2
        <3>2. handler'[r].pc = "loop" /\ handler'[r].saved = h.saved /\ handler'[r].kind = h.kind
            BY <1>0, <3>1 DEF Handlers
        <3>. QED  BY <1>2, <2>1, <2>2, <3>2 DEF Looks, Same, PeerTakes, Goto
    <2>3. CASE RemoveSpool(r, [h EXCEPT !.pc = "unknown"])
        <3>1. [h EXCEPT !.pc = "unknown"] \in Handlers /\ [h EXCEPT !.pc = "unknown"].pc = "unknown"
                 /\ [h EXCEPT !.pc = "unknown"].saved = h.saved
            BY <1>0 DEF Handlers
        <3>2. handler'[r].pc = "unknown" /\ Same(r) /\ Removes(r)
            BY <1>0, <2>3, <3>1, RemoveSpoolIs
        <3>. QED  BY <1>2, <2>1, <3>2 DEF Looks, PeerTakes, Goto
    <2>. QED  BY <1>8, <2>2, <2>3 DEF Resolve
<1>9. CASE NextPeer(r)
    <2>1. h.pc = "loop" /\ spool' = spool
        BY <1>9 DEF NextPeer
    <2>2. PICK e \in h.todo :
             \/ handler'[r] = [h EXCEPT !.pc = IF IsFile(r) THEN "hash" ELSE "send", !.peer = e,
                                        !.todo = @ \ {e}, !.tries = 0]
             \/ handler'[r] = [h EXCEPT !.todo = @ \ {e}, !.failed = TRUE]
        BY <1>1, <1>9 DEF NextPeer
    <2>3. handler'[r].pc \in Late /\ handler'[r].kind = h.kind /\ Same(r)
        BY <1>0, <2>1, <2>2 DEF Same, Handlers, Late
    <2>. QED  BY <1>2, <2>1, <2>3 DEF Sends, Late, PeerTakes, Goto
<1>10. CASE Hash(r)
    <2>1. \/ handler'[r] = [h EXCEPT !.pc = "send", !.hashed = spool[Saved(r)]]
          \/ handler'[r] = [h EXCEPT !.pc = "loop", !.peer = NoEntry, !.failed = TRUE]
        BY <1>1, <1>10 DEF Hash
    <2>2. handler'[r].pc \in Late /\ handler'[r].kind = h.kind /\ Same(r)
        BY <1>0, <2>1 DEF Same, Handlers, Late
    <2>. QED  BY <1>2, <1>10, <2>2 DEF Hash, Sends, Late, PeerTakes, Goto
<1>11. CASE PeerTakes(r)
    <2>1. handler'[r] = [h EXCEPT !.pc = "got"]
        BY <1>1, <1>11 DEF PeerTakes, Goto
    <2>2. handler'[r].pc \in Late /\ handler'[r].kind = h.kind /\ Same(r)
        BY <1>0, <2>1 DEF Same, Handlers, Late
    <2>. QED  BY <1>2, <1>11, <2>2 DEF Sends, Late, PeerTakes, Goto
<1>12. CASE PeerAnswers(r)
    <2>1. handler'[r] = [h EXCEPT !.pc = "loop", !.peer = NoEntry, !.hashed = NoFile, !.delivered = @ + 1]
        BY <1>1, <1>12 DEF PeerAnswers
    <2>2. handler'[r].pc \in Late /\ handler'[r].kind = h.kind /\ Same(r)
        BY <1>0, <2>1 DEF Same, Handlers, Late
    <2>. QED  BY <1>2, <1>12, <2>2 DEF PeerAnswers, Sends, Late, PeerTakes, Goto
<1>13. CASE PeerFails(r)
    <2>1. \/ handler'[r] = [h EXCEPT !.pc = "send", !.tries = @ + 1]
          \/ handler'[r] = [h EXCEPT !.pc = "loop", !.peer = NoEntry, !.hashed = NoFile, !.failed = TRUE]
        BY <1>1, <1>13 DEF PeerFails
    <2>2. handler'[r].pc \in Late /\ handler'[r].kind = h.kind /\ Same(r)
        BY <1>0, <2>1 DEF Same, Handlers, Late
    <2>3. h.pc \in Late /\ spool' = spool
        BY <1>13 DEF PeerFails, Late
    <2>4. log' = log
        BY <1>13 DEF PeerFails, esvars
    <2>. QED  BY <2>2, <2>3, <2>4 DEF Sends
<1>14. CASE Finish(r)
    <2>1. PICK label \in {"none", "ok"} : RemoveSpool(r, [h EXCEPT !.pc = label])
        BY <1>14 DEF Finish
    <2>2. [h EXCEPT !.pc = label] \in Handlers /\ [h EXCEPT !.pc = label].pc = label
             /\ [h EXCEPT !.pc = label].saved = h.saved
        BY <1>0 DEF Handlers
    <2>3. handler'[r].pc = label /\ Same(r) /\ Removes(r)
        BY <1>0, <2>1, <2>2, RemoveSpoolIs
    <2>. QED  BY <1>2, <1>14, <2>1, <2>3 DEF Finish, Goto, Ends, PeerTakes
<1>15. CASE Drop(r)
    <2>1. handler'[r] = Dropped(h) /\ spool' = spool /\ log' = log
        BY <1>1, <1>15 DEF Drop, esvars
    <2>. QED  BY <1>0, <2>1, DroppedIs DEF Leaves
<1>. QED  BY <1>3, <1>4, <1>5, <1>6, <1>7, <1>8, <1>9, <1>10, <1>11, <1>12, <1>13, <1>14, <1>15
          DEF Handle, Read, Relay

(* A request's spools hold its own bytes; up to the last peer the one saved  *)
(* last is there, and none after it; it is gone when the page is answered,   *)
(* unless its removal failed.                                                *)
SpoolOK(r) ==
    /\ \A k \in 1..MaxFields : spool[<<r, k>>] \in {NoFile, Part(r), Whole(r)}
    /\ handler[r].pc \in Early \cup Late =>
          /\ handler[r].saved > 0 => spool[<<r, handler[r].saved>>] # NoFile
          /\ \A k \in 1..MaxFields : spool[<<r, k>>] # NoFile => k <= handler[r].saved
    /\ handler[r].pc \in {"unknown", "none", "ok"} /\ ~handler[r].kept =>
          \A k \in 1..MaxFields : spool[<<r, k>>] # NoFile => k < handler[r].saved

SpoolsOK == HandlersOK /\ \A r \in Requests : SpoolOK(r)

LEMMA InitSpools == Init => SpoolsOK
<1>. SUFFICES ASSUME Init, NEW r \in Requests PROVE SpoolOK(r)
    BY InitHandlers DEF SpoolsOK
<1>1. handler[r].pc = "idle" /\ handler[r].saved = 0
    BY DEF Init, Idle
<1>2. \A k \in 1..MaxFields : spool[<<r, k>>] = NoFile
    BY DEF Init, Spools
<1>. QED  BY <1>1, <1>2 DEF SpoolOK

(* Where a handler's locals allow its spool to be.                           *)
LEMMA SpoolPlaces ==
    ASSUME HandlersOK, NEW r \in Requests
    PROVE  /\ handler[r].saved \in 0..MaxFields /\ handler[r].fields \in 0..MaxFields
           /\ handler[r].saved <= handler[r].fields
           /\ handler[r].saved \in Nat /\ handler[r].fields \in Nat
           /\ \A k \in 1..MaxFields : <<r, k>> \in Spools /\ k \in Nat
           /\ spool \in [Spools -> Messages \cup {NoFile}]
BY RelayConstants DEF HandlersOK, HandlerOK, Placed, Handlers, Spools, TypeOK

LEMMA Removed ==
    ASSUME HandlersOK, NEW r \in Requests, SpoolOK(r), handler[r].pc \in Early \cup Late, Removes(r)
    PROVE  \A k \in 1..MaxFields :
              /\ spool'[<<r, k>>] \in {NoFile, Part(r), Whole(r)}
              /\ spool'[<<r, k>>] # NoFile => k < handler[r].saved \/ handler'[r].kept
<1>. SUFFICES ASSUME NEW k \in 1..MaxFields
              PROVE  /\ spool'[<<r, k>>] \in {NoFile, Part(r), Whole(r)}
                     /\ spool'[<<r, k>>] # NoFile => k < handler[r].saved \/ handler'[r].kept
    OBVIOUS
<1>1. /\ spool[<<r, k>>] \in {NoFile, Part(r), Whole(r)}
      /\ spool[<<r, k>>] # NoFile => k <= handler[r].saved
    BY DEF SpoolOK
<1>2. k \in Nat /\ k > 0 /\ handler[r].saved \in Nat /\ <<r, k>> \in Spools
         /\ spool \in [Spools -> Messages \cup {NoFile}]
    BY SpoolPlaces, RelayConstants
<1>3. CASE handler[r].saved = 0
    BY <1>1, <1>2, <1>3 DEF Removes
<1>4. CASE handler'[r].kept /\ UNCHANGED spool
    BY <1>1, <1>4
<1>5. CASE handler[r].saved # 0 /\ ~(handler'[r].kept /\ UNCHANGED spool)
    <2>1. spool' = [spool EXCEPT ![<<r, handler[r].saved>>] = NoFile]
        BY <1>5 DEF Removes, Saved
    <2>2. k = handler[r].saved => spool'[<<r, k>>] = NoFile
        BY <1>2, <2>1
    <2>3. k # handler[r].saved => spool'[<<r, k>>] = spool[<<r, k>>]
        BY <1>2, <2>1
    <2>. QED  BY <1>1, <1>2, <2>2, <2>3
<1>. QED  BY <1>3, <1>4, <1>5

LEMMA HandleSpool ==
    ASSUME SpoolsOK, NEW r \in Requests, Handle(r)
    PROVE  SpoolOK(r)'
<1>0. HandlersOK /\ SpoolOK(r)
    BY DEF SpoolsOK
<1>. USE DEF Early, Late
<1>1. CASE Begins(r)
    BY <1>0, <1>1 DEF Begins, Same, SpoolOK
<1>2. CASE SavesOne(r)
    <2>. DEFINE k == handler[r].fields + 1
    <2>1. k \in 1..MaxFields /\ handler[r].pc = "form"
        BY <1>2 DEF SavesOne
    <2>2. \A i \in 1..MaxFields : spool[<<r, i>>] # NoFile => i <= handler[r].fields
        BY <1>0, <2>1, SpoolPlaces DEF SpoolOK
    <2>3. CASE UNCHANGED spool /\ handler'[r].pc = "bad"
        BY <1>0, <2>3 DEF SpoolOK
    <2>4. CASE spool' = [spool EXCEPT ![<<r, k>>] = Part(r)]
        <3>1. \A i \in 1..MaxFields : spool'[<<r, i>>] = IF i = k THEN Part(r) ELSE spool[<<r, i>>]
            BY <1>0, <2>4, SpoolPlaces
        <3>2. \A i \in 1..MaxFields : spool'[<<r, i>>] \in {NoFile, Part(r), Whole(r)}
            BY <1>0, <3>1 DEF SpoolOK
        <3>3. \A i \in 1..MaxFields : spool'[<<r, i>>] # NoFile => i <= k
            BY <1>0, <2>2, <3>1, SpoolPlaces
        <3>4. spool'[<<r, k>>] # NoFile
            BY <2>1, <3>1, Bodies
        <3>5. (handler'[r].pc = "form" /\ handler'[r].saved = k) \/ handler'[r].pc = "bad"
            BY <1>2 DEF SavesOne
        <3>. QED  BY <3>2, <3>3, <3>4, <3>5 DEF SpoolOK
    <2>. QED  BY <1>2, <2>3, <2>4 DEF SavesOne
<1>3. CASE Looks(r)
    <2>1. CASE handler'[r].pc = "loop" /\ UNCHANGED spool
        BY <1>0, <1>3, <2>1 DEF Looks, Same, SpoolOK
    <2>2. CASE handler'[r].pc = "unknown" /\ Removes(r)
        <3>1. handler[r].pc = "resolve" /\ handler'[r].saved = handler[r].saved
            BY <1>3 DEF Looks, Same
        <3>. QED  BY <1>0, <2>2, <3>1, Removed DEF SpoolOK
    <2>. QED  BY <1>3, <2>1, <2>2 DEF Looks
<1>4. CASE Sends(r)
    BY <1>0, <1>4 DEF Sends, Same, SpoolOK
<1>5. CASE Ends(r)
    <2>1. handler[r].pc = "loop" /\ handler'[r].saved = handler[r].saved /\ Removes(r)
              /\ handler'[r].pc \in {"none", "ok"}
        BY <1>5 DEF Ends, Same
    <2>. QED  BY <1>0, <2>1, Removed DEF SpoolOK
<1>6. CASE Leaves(r)
    BY <1>0, <1>6 DEF Leaves, SpoolOK
<1>. QED  BY <1>0, <1>1, <1>2, <1>3, <1>4, <1>5, <1>6, Moves

(* What the steps of other actors are to a request's handler and its spools. *)
LEMMA SettleIs ==
    ASSUME HandlersOK, NEW s \in Spools, Settle(s), NEW r \in Requests, NEW k \in 1..MaxFields
    PROVE  /\ handler' = handler /\ log' = log
           /\ spool'[<<r, k>>] = spool[<<r, k>>] \/ (spool[<<r, k>>] # NoFile /\ spool'[<<r, k>>] = Whole(r))
<1>1. <<r, k>> \in Spools /\ spool \in [Spools -> Messages \cup {NoFile}]
    BY SpoolPlaces
<1>2. CASE spool' = spool
    BY <1>2 DEF Settle, esvars
<1>3. CASE spool' = [spool EXCEPT ![s] = IF @ = NoFile THEN NoFile ELSE Whole(s[1])]
    <2>1. CASE s = <<r, k>>
        BY <1>1, <1>3, <2>1 DEF Settle, esvars
    <2>2. CASE s # <<r, k>>
        BY <1>1, <1>3, <2>2 DEF Settle, esvars
    <2>. QED  BY <2>1, <2>2
<1>. QED  BY <1>2, <1>3 DEF Settle

LEMMA RestartIs ==
    ASSUME HandlersOK, Restart, NEW r \in Requests
    PROVE  /\ spool' = spool /\ log' = log
           /\ handler'[r] = handler[r] \/ handler'[r].pc = "dropped"
<1>1. handler[r] \in Handlers
    BY DEF HandlersOK, TypeOK
<1>2. handler'[r] = handler[r] \/ handler'[r] = Dropped(handler[r])
    BY DEF Restart
<1>. QED  BY <1>1, <1>2, DroppedIs DEF Restart

LEMMA NextSpools == SpoolsOK /\ [Next]_vars => SpoolsOK'
<1>. SUFFICES ASSUME SpoolsOK, [Next]_vars, NEW q \in Requests PROVE SpoolOK(q)'
    BY NextHandlers DEF SpoolsOK
<1>0. HandlersOK /\ SpoolOK(q)
    BY DEF SpoolsOK
<1>1. ASSUME handler' = handler, spool' = spool PROVE SpoolOK(q)'
    BY <1>0, <1>1 DEF SpoolOK
<1>2. ASSUME NEW r \in Requests, Handle(r) PROVE SpoolOK(q)'
    <2>1. CASE q = r
        BY <1>2, <2>1, HandleSpool
    <2>2. CASE q # r
        <3>1. \A k \in 1..MaxFields : spool'[<<q, k>>] = spool[<<q, k>>]
            BY <1>0, <1>2, <2>2, HandleFrame, SpoolPlaces
        <3>2. handler'[q] = handler[q]
            <4>1. PICK l : HandlerOK(l, r) /\ Set(r, l)
                BY <1>0, <1>2, HandleOK
            <4>. QED  BY <1>0, <2>2, <4>1, HandlerSet DEF HandlerOK, HandlersOK, TypeOK
        <3>3. handler[q].saved > 0 => handler[q].saved \in 1..MaxFields
            BY <1>0, SpoolPlaces
        <3>. QED  BY <1>0, <3>1, <3>2, <3>3 DEF SpoolOK
    <2>. QED  BY <2>1, <2>2
<1>3. ASSUME NEW s \in Spools, Settle(s) PROVE SpoolOK(q)'
    <2>1. handler' = handler
        BY <1>3 DEF Settle
    <2>2. \A k \in 1..MaxFields :
             \/ spool'[<<q, k>>] = spool[<<q, k>>]
             \/ spool[<<q, k>>] # NoFile /\ spool'[<<q, k>>] = Whole(q)
        BY <1>0, <1>3, SettleIs
    <2>3. handler[q].saved > 0 => handler[q].saved \in 1..MaxFields
        BY <1>0, SpoolPlaces
    <2>. QED  BY <1>0, <2>1, <2>2, <2>3, Bodies DEF SpoolOK
<1>4. CASE Restart
    BY <1>0, <1>4, RestartIs DEF SpoolOK, Early, Late
<1>5. CASE UNCHANGED vars
    BY <1>1, <1>5 DEF vars, relayvars
<1>6. ASSUME NEW p \in Pages, LoadPage(p) \/ Stream(p) PROVE SpoolOK(q)'
    BY <1>1, <1>6 DEF LoadPage, Stream, relayvars
<1>7. ASSUME NEW r \in Requests, NEW e \in Entries, PeerTakesLate(r, e) PROVE SpoolOK(q)'
    BY <1>1, <1>7 DEF PeerTakesLate
<1>. QED  BY <1>2, <1>3, <1>4, <1>5, <1>6, <1>7, RelayConstants DEF Next, Handle

(* The spool is there while peers are sent to, and gone on every answer but  *)
(* that the form is bad, unless its removal failed.                          *)
THEOREM SpoolTheorem == Spec => []SpoolLifetime
<1>1. SpoolsOK => SpoolLifetime
    <2>. SUFFICES ASSUME SpoolsOK, NEW r \in Requests, IsFile(r)
                  PROVE  /\ handler[r].pc \in Sending => spool[Saved(r)] \in {Part(r), Whole(r)}
                         /\ handler[r].pc \in {"unknown", "none", "ok"} /\ ~handler[r].kept =>
                               \A k \in 1..MaxFields : spool[<<r, k>>] # NoFile => k < handler[r].saved
        BY DEF SpoolLifetime, Sending
    <2>1. SpoolOK(r) /\ HandlersOK
        BY DEF SpoolsOK
    <2>2. ASSUME handler[r].pc \in Sending PROVE spool[Saved(r)] \in {Part(r), Whole(r)}
        <3>1. Saved(r) = <<r, handler[r].saved>> /\ handler[r].saved \in 1..MaxFields
            BY <2>1, <2>2, SavedIs
        <3>2. handler[r].pc \in Early \cup Late /\ handler[r].saved > 0
            BY <2>2, <3>1, RelayConstants DEF Sending, Early, Late
        <3>. QED  BY <2>1, <3>1, <3>2 DEF SpoolOK
    <2>. QED  BY <2>1, <2>2 DEF SpoolOK
<1>. QED  BY <1>1, InitSpools, NextSpools, PTL DEF Spec

----------------------------------------------------------------------------
(* What the page is told, and how many copies a peer is given.  Both are      *)
(* counts over the entries that were tried: `delivered` counts some of those  *)
(* whose node has the request's events, and every event of a node, or text    *)
(* still being read there, was paid for by an attempt at one of its entries.  *)
(* The definitions take the state they speak of as arguments.                 *)
Busy(h) == h.pc \in {"hash", "send", "got"}
Tried(h) == h.targets \ (h.todo \cup (IF Busy(h) THEN {h.peer} ELSE {}))

(* The events of a node's log that say this request; the entries behind which *)
(* there are any; the texts still being read on a node; a node's entries.     *)
Copies(lg, n, r) == {i \in 1..Len(lg[n]) : lg[n][i].of = r}
Reached(es, lg, r) == {e \in es : Copies(lg, Host[e], r) # {}}
Owed(lt, n, r) == {e \in Entries : <<r, e>> \in lt /\ Host[e] = n}
Behind(es, n) == {e \in es : Host[e] = n}

LEMMA EntriesFinite ==
    ASSUME NEW es \in SUBSET Entries
    PROVE  IsFiniteSet(es) /\ Cardinality(es) \in Nat /\ (Cardinality(es) = 0 <=> es = {})
<1>1. IsFiniteSet(es)
    BY FS_Subset, WebRelayAssumption
<1>. QED  BY <1>1, FS_CardinalityType, FS_EmptySet

LEMMA ReachedMore ==
    ASSUME NEW es \in SUBSET Entries, NEW e \in Entries, e \notin es, NEW lg, NEW r
    PROVE  /\ Cardinality(Reached(es, lg, r)) \in Nat
           /\ Cardinality(es \cup {e}) = Cardinality(es) + 1
           /\ Cardinality(Reached(es \cup {e}, lg, r)) =
                 IF Copies(lg, Host[e], r) # {} THEN Cardinality(Reached(es, lg, r)) + 1
                                                ELSE Cardinality(Reached(es, lg, r))
<1>1. Reached(es, lg, r) \in SUBSET Entries /\ e \notin Reached(es, lg, r)
    BY DEF Reached
<1>2. IsFiniteSet(es) /\ IsFiniteSet(Reached(es, lg, r)) /\ Cardinality(Reached(es, lg, r)) \in Nat
    BY <1>1, EntriesFinite
<1>3. Cardinality(es \cup {e}) = Cardinality(es) + 1
    BY <1>2, FS_AddElement
<1>4. Cardinality(Reached(es, lg, r) \cup {e}) = Cardinality(Reached(es, lg, r)) + 1
    BY <1>1, <1>2, FS_AddElement
<1>5. Reached(es \cup {e}, lg, r) = IF Copies(lg, Host[e], r) # {} THEN Reached(es, lg, r) \cup {e}
                                                                 ELSE Reached(es, lg, r)
    BY DEF Reached
<1>. QED  BY <1>2, <1>3, <1>4, <1>5

LEMMA BehindMore ==
    ASSUME NEW es \in SUBSET Entries, NEW e \in Entries, e \notin es, NEW n
    PROVE  /\ Cardinality(Behind(es, n)) \in Nat
           /\ Cardinality(Behind(es \cup {e}, n)) =
                 IF Host[e] = n THEN Cardinality(Behind(es, n)) + 1 ELSE Cardinality(Behind(es, n))
<1>1. Behind(es, n) \in SUBSET Entries /\ e \notin Behind(es, n)
    BY DEF Behind
<1>2. IsFiniteSet(Behind(es, n)) /\ Cardinality(Behind(es, n)) \in Nat
    BY <1>1, EntriesFinite
<1>3. Cardinality(Behind(es, n) \cup {e}) = Cardinality(Behind(es, n)) + 1
    BY <1>1, <1>2, FS_AddElement
<1>4. Behind(es \cup {e}, n) = IF Host[e] = n THEN Behind(es, n) \cup {e} ELSE Behind(es, n)
    BY DEF Behind
<1>. QED  BY <1>2, <1>3, <1>4

LEMMA CopiesFinite ==
    ASSUME NEW lg \in [Nodes -> Seq(Messages)], NEW n \in Nodes, NEW r
    PROVE  IsFiniteSet(Copies(lg, n, r)) /\ Cardinality(Copies(lg, n, r)) \in Nat
<1>1. Len(lg[n]) \in Nat /\ IsFiniteSet(1..Len(lg[n]))
    BY FS_Interval
<1>2. Copies(lg, n, r) \in SUBSET (1..Len(lg[n]))
    BY DEF Copies
<1>3. IsFiniteSet(Copies(lg, n, r))
    BY <1>1, <1>2, FS_Subset
<1>. QED  BY <1>3, FS_CardinalityType

(* A published event is one copy more of its request, on its node.           *)
Extended(lg, n, m) == [lg EXCEPT ![n] = Append(@, m)]

LEMMA CopiesMore ==
    ASSUME NEW lg \in [Nodes -> Seq(Messages)], NEW n \in Nodes, NEW m \in Messages,
           NEW k \in Nodes, NEW r
    PROVE  LET lg2 == Extended(lg, n, m)
           IN  /\ k # n \/ m.of # r => Copies(lg2, k, r) = Copies(lg, k, r)
               /\ k = n /\ m.of = r =>
                     /\ Cardinality(Copies(lg2, k, r)) = Cardinality(Copies(lg, k, r)) + 1
                     /\ Copies(lg2, k, r) # {}
               /\ Copies(lg, k, r) # {} => Copies(lg2, k, r) # {}
<1>. DEFINE lg2 == Extended(lg, n, m)
<1>. SUFFICES /\ k # n \/ m.of # r => Copies(lg2, k, r) = Copies(lg, k, r)
              /\ k = n /\ m.of = r =>
                    /\ Cardinality(Copies(lg2, k, r)) = Cardinality(Copies(lg, k, r)) + 1
                    /\ Copies(lg2, k, r) # {}
              /\ Copies(lg, k, r) # {} => Copies(lg2, k, r) # {}
    OBVIOUS
<1>1. lg2[k] = IF k = n THEN Append(lg[k], m) ELSE lg[k]
    BY DEF Extended
<1>. HIDE DEF lg2
<1>2. /\ lg[k] \in Seq(Messages) /\ Len(lg[k]) \in Nat
      /\ Len(Append(lg[k], m)) = Len(lg[k]) + 1 /\ Append(lg[k], m)[Len(lg[k]) + 1] = m
      /\ \A j \in 1..Len(lg[k]) : Append(lg[k], m)[j] = lg[k][j]
    OBVIOUS
<1>3. CASE k # n
    BY <1>1, <1>3 DEF Copies
<1>4. CASE k = n
    <2>1. Len(lg2[k]) = Len(lg[k]) + 1 /\ lg2[k][Len(lg[k]) + 1] = m
             /\ \A j \in 1..Len(lg[k]) : lg2[k][j] = lg[k][j]
        BY <1>1, <1>2, <1>4
    <2>2. Copies(lg2, k, r) = IF m.of = r THEN Copies(lg, k, r) \cup {Len(lg[k]) + 1} ELSE Copies(lg, k, r)
        <3>1. 1..(Len(lg[k]) + 1) = (1..Len(lg[k])) \cup {Len(lg[k]) + 1}
            BY <1>2
        <3>2. Copies(lg2, k, r) = {i \in (1..Len(lg[k])) \cup {Len(lg[k]) + 1} : lg2[k][i].of = r}
            BY <2>1, <3>1 DEF Copies
        <3>. QED  BY <2>1, <3>2 DEF Copies
    <2>3. Len(lg[k]) + 1 \notin Copies(lg, k, r)
        BY <1>2 DEF Copies
    <2>4. IsFiniteSet(Copies(lg, k, r)) /\ Cardinality(Copies(lg, k, r)) \in Nat
        BY CopiesFinite
    <2>5. Cardinality(Copies(lg, k, r) \cup {Len(lg[k]) + 1}) = Cardinality(Copies(lg, k, r)) + 1
        BY <2>3, <2>4, FS_AddElement
    <2>. QED  BY <1>4, <2>2, <2>5
<1>. QED  BY <1>3, <1>4

LEMMA CopyAdded ==
    ASSUME NEW lg \in [Nodes -> Seq(Messages)], NEW n \in Nodes, NEW m \in Messages
    PROVE  /\ Cardinality(Copies(Extended(lg, n, m), n, m.of)) = Cardinality(Copies(lg, n, m.of)) + 1
           /\ Copies(Extended(lg, n, m), n, m.of) # {}
BY CopiesMore

LEMMA GotCopies ==
    ASSUME NEW n \in Nodes, NEW r
    PROVE  Got(n, r) <=> Copies(log, n, r) # {}
BY DEF Got, Copies, Last

----------------------------------------------------------------------------
(* A handler's steps, as what they do to the locals the counts are made of:   *)
(* it gets ready, lists the peers, asks one or skips it, hashes, gives it up, *)
(* sees it take the request, has its answer or tries again, and stops; or it  *)
(* quits.                                                                     *)
Keeps(h, l) == l.targets = h.targets /\ l.kind = h.kind
Counts(h, l) == Keeps(h, l) /\ l.delivered = h.delivered /\ l.failed = h.failed
Stays(h, l) == Counts(h, l) /\ l.todo = h.todo /\ l.peer = h.peer

Unsent == Early \cup {"forbidden", "bad", "unknown"}

Prepares(h, l) ==
    /\ h.pc \in Early /\ l.pc \in Unsent /\ l.delivered = h.delivered
    /\ h.pc # "idle" => l.kind = h.kind
Lists(h, l) ==
    /\ h.pc = "resolve" /\ l.pc = "loop" /\ l.kind = h.kind
    /\ l.targets # {} /\ l.todo = l.targets /\ l.delivered = h.delivered
Asks(h, l) ==
    /\ h.pc = "loop" /\ l.pc \in {"hash", "send"} /\ Counts(h, l)
    /\ l.peer \in h.todo /\ l.todo = h.todo \ {l.peer} /\ l.tries = 0
Skips(h, l) ==
    /\ h.pc = "loop" /\ l.pc = "loop" /\ Keeps(h, l) /\ l.delivered = h.delivered /\ l.failed
    /\ \E e \in h.todo : l.todo = h.todo \ {e}
Hashes(h, l) == h.pc = "hash" /\ l.pc = "send" /\ Stays(h, l) /\ l.tries = h.tries
GivesUp(h, l) ==
    /\ Busy(h) /\ l.pc = "loop" /\ Keeps(h, l) /\ l.delivered = h.delivered /\ l.failed
    /\ l.todo = h.todo
Takes(h, l) == h.pc = "send" /\ l.pc = "got" /\ Stays(h, l) /\ l.tries = h.tries
Answered(h, l) ==
    /\ h.pc = "got" /\ l.pc = "loop" /\ Keeps(h, l) /\ l.todo = h.todo
    /\ l.delivered = h.delivered + 1 /\ l.failed = h.failed
Again(h, l) ==
    /\ h.pc \in {"send", "got"} /\ l.pc = "send" /\ h.kind = "file" /\ Stays(h, l)
    /\ l.tries = h.tries + 1 /\ h.tries < Retries
Stops(h, l) ==
    /\ h.pc = "loop" /\ h.todo = {} /\ Counts(h, l)
    /\ l.pc = IF h.delivered = 0 THEN "none" ELSE "ok"
Quits(h, l) == l.pc = "dropped" /\ Keeps(h, l)

Quiet(h, l) ==
    \/ Prepares(h, l) \/ Lists(h, l) \/ Asks(h, l) \/ Skips(h, l) \/ Hashes(h, l)
    \/ Answered(h, l) \/ Again(h, l) \/ Stops(h, l) \/ Quits(h, l)

LEMMA QuitsIs ==
    ASSUME NEW h \in Handlers
    PROVE  Quits(h, Dropped(h))
<1>1. Dropped(h) = [Idle EXCEPT !.pc = "dropped", !.kind = h.kind, !.targets = h.targets]
    BY DEF Dropped
<1>2. Idle \in Handlers
    BY RelayConstants DEF Idle, Handlers
<1>3. Dropped(h).pc = "dropped" /\ Dropped(h).targets = h.targets /\ Dropped(h).kind = h.kind
    BY <1>1, <1>2 DEF Handlers
<1>. QED  BY <1>3 DEF Quits, Keeps

LEMMA HandlerMoves ==
    ASSUME HandlersOK, NEW r \in Requests, Handle(r), NEW h, h = handler[r], NEW l, l = handler'[r]
    PROVE  \/ log' = log /\ late' = late /\ Quiet(h, l)
           \/ /\ log' = log /\ GivesUp(h, l)
              /\ \/ late' = late
                 \/ h.kind = "text" /\ h.pc = "send" /\ late' = late \cup {<<r, h.peer>>}
           \/ PeerTakes(r) /\ late' = late /\ Takes(h, l)
<1>0. h \in Handlers /\ Placed(h) /\ handler \in [Requests -> Handlers] /\ h.targets \subseteq Entries
    BY DEF HandlersOK, HandlerOK, TypeOK, Handlers
<1>1. ASSUME NEW x, Set(r, x) PROVE l = x
    BY <1>0, <1>1 DEF Set
<1>. USE DEF Keeps, Counts, Stays, Unsent, Early, Busy
<1>2. CASE Submit(r)
    <2>1. PICK k \in {"text", "file"} :
             l = [h EXCEPT !.kind = k, !.pc = "guard", !.carried = token[From[r]]]
        BY <1>1, <1>2 DEF Submit
    <2>2. l.pc = "guard" /\ l.delivered = h.delivered
        BY <1>0, <2>1 DEF Handlers
    <2>3. log' = log /\ late' = late /\ h.pc = "idle"
        BY <1>2 DEF Submit, esvars
    <2>. QED  BY <2>2, <2>3 DEF Quiet, Prepares
<1>3. CASE Guard(r) \/ EndForm(r)
    <2>1. PICK label \in {"form", "forbidden", "resolve", "bad"} : l = [h EXCEPT !.pc = label]
        BY <1>1, <1>3 DEF Guard, EndForm, Goto
    <2>2. l.pc = label /\ l.delivered = h.delivered /\ l.kind = h.kind
        BY <1>0, <2>1 DEF Handlers
    <2>3. log' = log /\ late' = late /\ h.pc \in {"guard", "form"}
        BY <1>3 DEF Guard, EndForm, Goto, esvars
    <2>. QED  BY <2>1, <2>2, <2>3 DEF Quiet, Prepares
<1>4. CASE ReadText(r)
    <2>1. \/ \E t \in {"one", "all"} : l = [h EXCEPT !.pc = "resolve", !.target = t]
          \/ l = [h EXCEPT !.pc = "bad"]
        BY <1>1, <1>4 DEF ReadText
    <2>2. l.pc \in {"resolve", "bad"} /\ l.delivered = h.delivered /\ l.kind = h.kind
        BY <1>0, <2>1 DEF Handlers
    <2>3. log' = log /\ late' = late /\ h.pc = "form"
        BY <1>4 DEF ReadText, esvars
    <2>. QED  BY <2>2, <2>3 DEF Quiet, Prepares
<1>5. CASE ReadTarget(r)
    <2>1. PICK t \in {"one", h.target} : l = [h EXCEPT !.fields = @ + 1, !.target = t]
        BY <1>1, <1>5 DEF ReadTarget
    <2>2. l.pc = h.pc /\ l.delivered = h.delivered /\ l.kind = h.kind
        BY <1>0, <2>1 DEF Handlers
    <2>3. log' = log /\ late' = late /\ h.pc = "form"
        BY <1>5 DEF ReadTarget, esvars
    <2>. QED  BY <2>2, <2>3 DEF Quiet, Prepares
<1>6. CASE SaveFile(r)
    <2>1. \/ l = [h EXCEPT !.fields = h.fields + 1, !.saved = h.fields + 1]
          \/ l = [h EXCEPT !.fields = h.fields + 1, !.pc = "bad"]
        BY <1>1, <1>6 DEF SaveFile
    <2>2. l.pc \in {h.pc, "bad"} /\ l.delivered = h.delivered /\ l.kind = h.kind
        BY <1>0, <2>1 DEF Handlers
    <2>3. log' = log /\ late' = late /\ h.pc = "form"
        BY <1>6 DEF SaveFile, esvars
    <2>. QED  BY <2>2, <2>3 DEF Quiet, Prepares
<1>7. CASE Resolve(r)
    <2>1. log' = log /\ late' = late /\ h.pc = "resolve"
        BY <1>7 DEF Resolve, esvars
    <2>2. \/ \E es \in SUBSET Entries :
                 es # {} /\ l = [h EXCEPT !.pc = "loop", !.targets = es, !.todo = es]
          \/ l \in {[h EXCEPT !.pc = "unknown"], [[h EXCEPT !.pc = "unknown"] EXCEPT !.kept = TRUE]}
        BY <1>1, <1>7 DEF Resolve, RemoveSpool
    <2>3. CASE l \in {[h EXCEPT !.pc = "unknown"], [[h EXCEPT !.pc = "unknown"] EXCEPT !.kept = TRUE]}
        <3>1. l.pc = "unknown" /\ l.delivered = h.delivered /\ l.kind = h.kind
            BY <1>0, <2>3 DEF Handlers
        <3>. QED  BY <2>1, <3>1 DEF Quiet, Prepares
    <2>4. ASSUME NEW es \in SUBSET Entries, es # {},
                 l = [h EXCEPT !.pc = "loop", !.targets = es, !.todo = es]
          PROVE  Quiet(h, l)
        <3>1. /\ l.pc = "loop" /\ l.delivered = h.delivered /\ l.kind = h.kind
              /\ l.targets = es /\ l.todo = es
            BY <1>0, <2>4 DEF Handlers
        <3>. QED  BY <2>1, <2>4, <3>1 DEF Quiet, Lists
    <2>. QED  BY <2>1, <2>2, <2>3, <2>4
<1>8. CASE NextPeer(r)
    <2>1. log' = log /\ late' = late /\ h.pc = "loop"
        BY <1>8 DEF NextPeer, esvars
    <2>2. PICK e \in h.todo :
             \/ l = [h EXCEPT !.pc = IF IsFile(r) THEN "hash" ELSE "send", !.peer = e,
                              !.todo = @ \ {e}, !.tries = 0]
             \/ l = [h EXCEPT !.todo = @ \ {e}, !.failed = TRUE]
        BY <1>1, <1>8 DEF NextPeer
    <2>3. CASE l = [h EXCEPT !.pc = IF IsFile(r) THEN "hash" ELSE "send", !.peer = e,
                             !.todo = @ \ {e}, !.tries = 0]
        <3>1. /\ l.pc \in {"hash", "send"} /\ l.peer = e /\ l.todo = h.todo \ {e} /\ l.tries = 0
              /\ Counts(h, l)
            BY <1>0, <2>3 DEF Handlers
        <3>. QED  BY <2>1, <3>1 DEF Quiet, Asks
    <2>4. CASE l = [h EXCEPT !.todo = @ \ {e}, !.failed = TRUE]
        <3>1. l.pc = h.pc /\ l.todo = h.todo \ {e} /\ l.failed /\ Keeps(h, l) /\ l.delivered = h.delivered
            BY <1>0, <2>4 DEF Handlers
        <3>. QED  BY <2>1, <3>1 DEF Quiet, Skips
    <2>. QED  BY <2>2, <2>3, <2>4
<1>9. CASE Hash(r)
    <2>1. log' = log /\ late' = late /\ h.pc = "hash"
        BY <1>9 DEF Hash, esvars
    <2>2. \/ l = [h EXCEPT !.pc = "send", !.hashed = spool[Saved(r)]]
          \/ l = [h EXCEPT !.pc = "loop", !.peer = NoEntry, !.failed = TRUE]
        BY <1>1, <1>9 DEF Hash
    <2>3. CASE l = [h EXCEPT !.pc = "send", !.hashed = spool[Saved(r)]]
        <3>1. l.pc = "send" /\ Stays(h, l) /\ l.tries = h.tries
            BY <1>0, <2>3 DEF Handlers
        <3>. QED  BY <2>1, <3>1 DEF Quiet, Hashes
    <2>4. CASE l = [h EXCEPT !.pc = "loop", !.peer = NoEntry, !.failed = TRUE]
        <3>1. l.pc = "loop" /\ Keeps(h, l) /\ l.delivered = h.delivered /\ l.failed /\ l.todo = h.todo
            BY <1>0, <2>4 DEF Handlers
        <3>. QED  BY <2>1, <3>1 DEF GivesUp
    <2>. QED  BY <2>2, <2>3, <2>4
<1>10. CASE PeerTakes(r)
    <2>1. l = [h EXCEPT !.pc = "got"] /\ h.pc = "send" /\ late' = late
        BY <1>1, <1>10 DEF PeerTakes, Goto
    <2>2. l.pc = "got" /\ Stays(h, l) /\ l.tries = h.tries
        BY <1>0, <2>1 DEF Handlers
    <2>. QED  BY <1>10, <2>1, <2>2 DEF Takes
<1>11. CASE PeerAnswers(r)
    <2>1. l = [h EXCEPT !.pc = "loop", !.peer = NoEntry, !.hashed = NoFile, !.delivered = @ + 1]
             /\ log' = log /\ late' = late /\ h.pc = "got"
        BY <1>1, <1>11 DEF PeerAnswers, esvars
    <2>2. /\ l.pc = "loop" /\ Keeps(h, l) /\ l.todo = h.todo
          /\ l.delivered = h.delivered + 1 /\ l.failed = h.failed
        BY <1>0, <2>1 DEF Handlers
    <2>. QED  BY <2>1, <2>2 DEF Quiet, Answered
<1>12. CASE PeerFails(r)
    <2>1. h.pc \in {"send", "got"} /\ log' = log /\ (IsFile(r) <=> h.kind = "file")
        BY <1>12 DEF PeerFails, esvars, IsFile
    <2>2. late' = late \/ (~IsFile(r) /\ h.pc = "send" /\ late' = late \cup {<<r, h.peer>>})
        BY <1>12 DEF PeerFails
    <2>3. CASE IsFile(r) /\ h.tries < Retries
        <3>1. l = [h EXCEPT !.pc = "send", !.tries = @ + 1]
            BY <1>1, <1>12, <2>3 DEF PeerFails
        <3>2. l.pc = "send" /\ Stays(h, l) /\ l.tries = h.tries + 1
            BY <1>0, <3>1 DEF Handlers
        <3>. QED  BY <2>1, <2>2, <2>3, <3>2 DEF Quiet, Again
    <2>4. CASE ~(IsFile(r) /\ h.tries < Retries)
        <3>1. l = [h EXCEPT !.pc = "loop", !.peer = NoEntry, !.hashed = NoFile, !.failed = TRUE]
            BY <1>1, <1>12, <2>4 DEF PeerFails
        <3>2. l.pc = "loop" /\ Keeps(h, l) /\ l.delivered = h.delivered /\ l.failed /\ l.todo = h.todo
            BY <1>0, <3>1 DEF Handlers
        <3>3. h.kind = "text" \/ IsFile(r)
            BY <1>0, <2>1 DEF Handlers
        <3>. QED  BY <2>1, <2>2, <3>2, <3>3 DEF GivesUp
    <2>. QED  BY <2>3, <2>4
<1>13. CASE Finish(r)
    <2>. DEFINE x == [h EXCEPT !.pc = IF h.delivered = 0 THEN "none" ELSE "ok"]
    <2>1. l \in {x, [x EXCEPT !.kept = TRUE]} /\ log' = log /\ late' = late /\ h.pc = "loop" /\ h.todo = {}
        BY <1>1, <1>13 DEF Finish, RemoveSpool, esvars
    <2>2. Counts(h, l) /\ l.pc = IF h.delivered = 0 THEN "none" ELSE "ok"
        BY <1>0, <2>1 DEF Handlers
    <2>. QED  BY <2>1, <2>2 DEF Quiet, Stops
<1>14. CASE Drop(r)
    <2>1. l = Dropped(h) /\ log' = log /\ late' = late
        BY <1>1, <1>14 DEF Drop, esvars
    <2>. QED  BY <1>0, <2>1, QuitsIs DEF Quiet
<1>. QED  BY <1>2, <1>3, <1>4, <1>5, <1>6, <1>7, <1>8, <1>9, <1>10, <1>11, <1>12, <1>13, <1>14
          DEF Handle, Read, Relay

----------------------------------------------------------------------------
(* What the page is told.                                                     *)
Listed(h) ==
    /\ h \in Handlers
    /\ h.pc \in Early => h.delivered = 0
    /\ h.pc \in Late => h.targets # {} /\ h.todo \subseteq h.targets
    /\ Busy(h) => h.peer \in h.targets \ h.todo
    /\ h.kind = "text" /\ Busy(h) => h.tries = 0

Untold(lg, lt, r) ==
    /\ \A n \in Nodes : Copies(lg, n, r) = {}
    /\ \A e \in Entries : <<r, e>> \notin lt

Tally(h, lg, lt, r) ==
    /\ h.pc \in Unsent => Untold(lg, lt, r)
    /\ h.pc \in Late => /\ h.delivered <= Cardinality(Reached(Tried(h), lg, r))
                        /\ ~h.failed => h.delivered = Cardinality(Tried(h))
    /\ h.pc = "got" => Copies(lg, Host[h.peer], r) # {}
    /\ h.pc = "ok" => /\ h.delivered \in 1..Cardinality(Reached(h.targets, lg, r))
                      /\ ~h.failed => h.delivered = Cardinality(h.targets)
    /\ h.pc = "none" => h.failed

(* What was tried, before and after a step of the handler.                   *)
LEMMA TriedMoves ==
    ASSUME NEW h, Listed(h), NEW l
    PROVE  /\ h.pc \in Late => Tried(h) \in SUBSET Entries
           /\ Lists(h, l) => Tried(l) = {}
           /\ Asks(h, l) \/ Hashes(h, l) \/ Takes(h, l) \/ Again(h, l) => Tried(l) = Tried(h)
           /\ Skips(h, l) => \E e \in Entries : e \notin Tried(h) /\ Tried(l) = Tried(h) \cup {e}
           /\ GivesUp(h, l) \/ Answered(h, l) => /\ h.peer \in Entries /\ h.peer \notin Tried(h)
                                                 /\ Tried(l) = Tried(h) \cup {h.peer}
           /\ Stops(h, l) => Tried(h) = h.targets
<1>0. h \in Handlers /\ h.targets \in SUBSET Entries
    BY DEF Listed, Handlers
<1>. USE DEF Tried, Busy, Late, Keeps, Counts, Stays
<1>1. h.pc \in Late => Tried(h) \in SUBSET Entries
    BY <1>0
<1>2. Lists(h, l) => Tried(l) = {}
    BY DEF Lists
<1>3. Asks(h, l) => Tried(l) = Tried(h)
    BY DEF Asks
<1>4. Hashes(h, l) \/ Takes(h, l) \/ Again(h, l) => Tried(l) = Tried(h)
    BY DEF Hashes, Takes, Again
<1>5. ASSUME Skips(h, l)
      PROVE  \E e \in Entries : e \notin Tried(h) /\ Tried(l) = Tried(h) \cup {e}
    <2>1. PICK e \in h.todo : l.todo = h.todo \ {e}
        BY <1>5 DEF Skips
    <2>2. h.pc = "loop" /\ l.pc = "loop" /\ l.targets = h.targets /\ h.todo \subseteq h.targets
        BY <1>5 DEF Skips, Listed
    <2>3. e \notin Tried(h) /\ Tried(l) = Tried(h) \cup {e}
        BY <2>1, <2>2
    <2>. QED  BY <1>0, <2>1, <2>2, <2>3
<1>6. GivesUp(h, l) \/ Answered(h, l) => /\ h.peer \in Entries /\ h.peer \notin Tried(h)
                                         /\ Tried(l) = Tried(h) \cup {h.peer}
    BY <1>0 DEF GivesUp, Answered, Listed
<1>7. Stops(h, l) => Tried(h) = h.targets
    BY DEF Stops
<1>. QED  BY <1>1, <1>2, <1>3, <1>4, <1>5, <1>6, <1>7

LEMMA ListedMoves ==
    ASSUME NEW h, Listed(h), NEW l \in Handlers, Quiet(h, l) \/ GivesUp(h, l) \/ Takes(h, l)
    PROVE  Listed(l)
<1>. USE DEF Listed, Busy, Early, Late, Keeps, Counts, Stays, Unsent
<1>1. CASE Prepares(h, l)
    BY <1>1 DEF Prepares
<1>2. CASE Lists(h, l)
    BY <1>2 DEF Lists
<1>3. CASE Asks(h, l)
    BY <1>3 DEF Asks
<1>4. CASE Skips(h, l)
    BY <1>4 DEF Skips
<1>5. CASE Hashes(h, l) \/ GivesUp(h, l) \/ Takes(h, l) \/ Answered(h, l)
    BY <1>5 DEF Hashes, GivesUp, Takes, Answered
<1>6. CASE Again(h, l)
    BY <1>6 DEF Again
<1>7. CASE Stops(h, l) \/ Quits(h, l)
    BY <1>7 DEF Stops, Quits
<1>. QED  BY <1>1, <1>2, <1>3, <1>4, <1>5, <1>6, <1>7 DEF Quiet

(* A step that gives nobody anything.                                        *)
LEMMA TallyMoves ==
    ASSUME NEW h, Listed(h), NEW l \in Handlers, NEW lg, NEW lt, NEW lt2, NEW r, Tally(h, lg, lt, r),
           (Quiet(h, l) /\ lt2 = lt) \/ GivesUp(h, l)
    PROVE  Tally(l, lg, lt2, r)
<1>0. h \in Handlers /\ h.targets \in SUBSET Entries /\ h.delivered \in Nat
    BY DEF Listed, Handlers
<1>. USE DEF Unsent, Early, Late, Keeps, Counts, Stays
<1>1. CASE Prepares(h, l) /\ lt2 = lt
    BY <1>1 DEF Prepares, Tally
<1>2. CASE Lists(h, l) /\ lt2 = lt
    <2>1. Tried(l) = {} /\ l.pc = "loop" /\ l.delivered = 0
        BY <1>2, TriedMoves DEF Lists, Listed
    <2>2. Reached({}, lg, r) = {} /\ Cardinality({}) = 0
        BY FS_EmptySet DEF Reached
    <2>. QED  BY <2>1, <2>2 DEF Tally
<1>3. CASE Asks(h, l) \/ Hashes(h, l) \/ Again(h, l)
    <2>1. Tried(l) = Tried(h) /\ l.delivered = h.delivered /\ l.failed = h.failed
        BY <1>3, TriedMoves DEF Asks, Hashes, Again
    <2>2. l.pc \in {"hash", "send"} /\ h.pc \in Late
        BY <1>3 DEF Asks, Hashes, Again
    <2>. QED  BY <2>1, <2>2 DEF Tally
<1>4. ASSUME NEW e \in Entries, e \notin Tried(h), Tried(l) = Tried(h) \cup {e}, h.pc \in Late
      PROVE  /\ Cardinality(Tried(l)) = Cardinality(Tried(h)) + 1
             /\ Cardinality(Tried(h)) \in Nat /\ Cardinality(Reached(Tried(h), lg, r)) \in Nat
             /\ Cardinality(Reached(Tried(l), lg, r)) =
                   IF Copies(lg, Host[e], r) # {} THEN Cardinality(Reached(Tried(h), lg, r)) + 1
                                                  ELSE Cardinality(Reached(Tried(h), lg, r))
    <2>1. Tried(h) \in SUBSET Entries
        BY <1>4, TriedMoves
    <2>2. Cardinality(Tried(h)) \in Nat
        BY <2>1, EntriesFinite
    <2>3. /\ Cardinality(Reached(Tried(h), lg, r)) \in Nat
          /\ Cardinality(Tried(h) \cup {e}) = Cardinality(Tried(h)) + 1
          /\ Cardinality(Reached(Tried(h) \cup {e}, lg, r)) =
                IF Copies(lg, Host[e], r) # {} THEN Cardinality(Reached(Tried(h), lg, r)) + 1
                                               ELSE Cardinality(Reached(Tried(h), lg, r))
        BY <1>4, <2>1, ReachedMore
    <2>. QED  BY <1>4, <2>2, <2>3
<1>5. CASE Skips(h, l)
    <2>1. PICK e \in Entries : e \notin Tried(h) /\ Tried(l) = Tried(h) \cup {e}
        BY <1>5, TriedMoves
    <2>2. h.pc = "loop" /\ l.pc = "loop" /\ l.delivered = h.delivered /\ l.failed
        BY <1>5 DEF Skips
    <2>. QED  BY <1>0, <1>4, <2>1, <2>2 DEF Tally
<1>6. CASE GivesUp(h, l)
    <2>1. h.peer \in Entries /\ h.peer \notin Tried(h) /\ Tried(l) = Tried(h) \cup {h.peer}
        BY <1>6, TriedMoves
    <2>2. h.pc \in Late /\ l.pc = "loop" /\ l.delivered = h.delivered /\ l.failed
        BY <1>6 DEF GivesUp, Busy
    <2>. QED  BY <1>0, <1>4, <2>1, <2>2 DEF Tally
<1>7. CASE Answered(h, l)
    <2>1. h.peer \in Entries /\ h.peer \notin Tried(h) /\ Tried(l) = Tried(h) \cup {h.peer}
        BY <1>7, TriedMoves
    <2>2. h.pc = "got" /\ l.pc = "loop" /\ l.delivered = h.delivered + 1 /\ l.failed = h.failed
        BY <1>7 DEF Answered
    <2>. QED  BY <1>0, <1>4, <2>1, <2>2 DEF Tally
<1>8. CASE Stops(h, l)
    <2>1. Tried(h) = h.targets /\ h.targets # {} /\ h.pc = "loop"
        BY <1>8, TriedMoves DEF Stops, Listed
    <2>2. /\ l.targets = h.targets /\ l.delivered = h.delivered /\ l.failed = h.failed
          /\ l.pc = IF h.delivered = 0 THEN "none" ELSE "ok"
        BY <1>8 DEF Stops
    <2>3. Cardinality(h.targets) \in Nat /\ Cardinality(h.targets) # 0
        BY <1>0, <2>1, EntriesFinite
    <2>4. Cardinality(Reached(h.targets, lg, r)) \in Nat
        <3>1. Reached(h.targets, lg, r) \in SUBSET Entries
            BY <1>0 DEF Reached
        <3>. QED  BY <3>1, EntriesFinite
    <2>. QED  BY <1>0, <2>1, <2>2, <2>3, <2>4 DEF Tally
<1>9. CASE Quits(h, l)
    BY <1>9 DEF Quits, Tally
<1>. QED  BY <1>1, <1>2, <1>3, <1>5, <1>6, <1>7, <1>8, <1>9 DEF Quiet

(* Logs that say the request where they said it, and more.                   *)
LEMMA TallyGrows ==
    ASSUME NEW h, Listed(h), h.pc \notin Unsent, NEW lg, NEW lg2, NEW lt, NEW lt2, NEW r, Tally(h, lg, lt, r),
           \A n \in Nodes : Copies(lg, n, r) # {} => Copies(lg2, n, r) # {}
    PROVE  Tally(h, lg2, lt2, r)
<1>0. h \in Handlers /\ h.targets \in SUBSET Entries /\ h.delivered \in Nat
    BY DEF Listed, Handlers
<1>1. ASSUME NEW es \in SUBSET Entries
      PROVE  /\ Cardinality(Reached(es, lg, r)) <= Cardinality(Reached(es, lg2, r))
             /\ Cardinality(Reached(es, lg, r)) \in Nat /\ Cardinality(Reached(es, lg2, r)) \in Nat
    <2>1. Reached(es, lg, r) \in SUBSET Reached(es, lg2, r) /\ Reached(es, lg2, r) \in SUBSET Entries
        BY RelayConstants DEF Reached
    <2>2. IsFiniteSet(Reached(es, lg2, r)) /\ Cardinality(Reached(es, lg2, r)) \in Nat
        BY <2>1, EntriesFinite
    <2>. QED  BY <2>1, <2>2, FS_Subset, EntriesFinite
<1>2. h.pc \in Late => Tried(h) \in SUBSET Entries
    BY TriedMoves
<1>3. h.pc = "got" => Host[h.peer] \in Nodes
    BY <1>0, RelayConstants DEF Listed, Busy
<1>. QED  BY <1>0, <1>1, <1>2, <1>3 DEF Tally, Late

(* The peer being sent to takes the request.                                 *)
LEMMA TallyTakes ==
    ASSUME NEW h, Listed(h), NEW l, Takes(h, l), NEW lg, NEW lg2, NEW lt, NEW r, Tally(h, lg, lt, r),
           \A n \in Nodes : Copies(lg, n, r) # {} => Copies(lg2, n, r) # {},
           Copies(lg2, Host[h.peer], r) # {}
    PROVE  Tally(l, lg2, lt, r)
<1>1. h.pc = "send" /\ h.pc \notin Unsent
    BY DEF Takes, Unsent, Early
<1>2. Tally(h, lg2, lt, r)
    BY <1>1, TallyGrows
<1>3. Tried(l) = Tried(h)
    BY TriedMoves
<1>. QED  BY <1>1, <1>2, <1>3 DEF Takes, Stays, Counts, Tally, Late, Unsent, Early

(* What any step is to one request: nothing; a step of its handler that       *)
(* gives nobody anything; a peer given up, which may still read a text; a     *)
(* peer that takes it, in time or late.                                       *)
SameCopies(q) == \A n \in Nodes : Copies(log', n, q) = Copies(log, n, q)
SameOwed(q) == \A e \in Entries : <<q, e>> \in late' <=> <<q, e>> \in late
Gives(q, e) == \E m \in Messages : m.of = q /\ log' = Extended(log, Host[e], m)

Given(q) ==
    LET h == handler[q]
        l == handler'[q]
    IN  \/ l = h /\ SameCopies(q) /\ SameOwed(q)
        \/ Quiet(h, l) /\ log' = log /\ late' = late
        \/ /\ GivesUp(h, l) /\ log' = log
           /\ \/ late' = late
              \/ h.kind = "text" /\ h.pc = "send" /\ late' = late \cup {<<q, h.peer>>}
        \/ Takes(h, l) /\ late' = late /\ h.peer \in Entries /\ Gives(q, h.peer)
        \/ \E e \in Entries : l = h /\ <<q, e>> \in late /\ late' = late \ {<<q, e>>} /\ Gives(q, e)

LEMMA StepGives ==
    ASSUME SpoolsOK, [Next]_vars, NEW q \in Requests
    PROVE  Given(q)
<1>0. HandlersOK /\ log \in [Nodes -> Seq(Messages)] /\ handler \in [Requests -> Handlers]
    BY DEF SpoolsOK, HandlersOK, TypeOK, ESTypeOK
<1>1. ASSUME handler'[q] = handler[q], log' = log, late' = late PROVE Given(q)
    BY <1>1 DEF Given, SameCopies, SameOwed
<1>2. ASSUME NEW m \in Messages, m.of # q, NEW n \in Nodes, log' = Extended(log, n, m)
      PROVE  SameCopies(q)
    BY <1>0, <1>2, CopiesMore DEF SameCopies
<1>3. ASSUME NEW r \in Requests, Handle(r), r # q PROVE Given(q)
    <2>1. PICK l : HandlerOK(l, r) /\ Set(r, l)
        BY <1>0, <1>3, HandleOK
    <2>2. handler'[q] = handler[q]
        BY <1>0, <1>3, <2>1, HandlerSet DEF HandlerOK
    <2>3. SameOwed(q)
        <3>1. late' = late \/ late' = late \cup {<<r, handler[r].peer>>}
            BY <1>0, <1>3, HandlerMoves
        <3>. QED  BY <1>3, <3>1 DEF SameOwed
    <2>4. SameCopies(q)
        <3>1. CASE PeerTakes(r)
            <4>1. PICK body : body \in Messages /\ body.of = r /\ Host[handler[r].peer] \in Nodes
                               /\ Publish(Host[handler[r].peer], body)
                <5>. DEFINE body == IF IsFile(r) THEN spool[Saved(r)] ELSE Whole(r)
                <5>1. /\ handler[r].pc = "send" /\ Host[handler[r].peer] \in Nodes /\ body \in Messages
                      /\ body # NoFile /\ Publish(Host[handler[r].peer], body)
                    BY <1>0, <3>1, Taken
                <5>2. IsFile(r) => Saved(r) = <<r, handler[r].saved>> /\ handler[r].saved \in 1..MaxFields
                    BY <1>0, <5>1, SavedIs DEF Sending
                <5>3. body \in {Part(r), Whole(r)}
                    BY <5>1, <5>2 DEF SpoolsOK, SpoolOK
                <5>4. body.of = r
                    BY <5>3, Bodies
                <5>. HIDE DEF body
                <5>. QED  BY <5>1, <5>4
            <4>. QED  BY <1>2, <1>3, <4>1 DEF Publish, Extended
        <3>2. CASE ~PeerTakes(r)
            BY <1>0, <1>3, <3>2, Moves DEF SameCopies
        <3>. QED  BY <3>1, <3>2
    <2>. QED  BY <2>2, <2>3, <2>4 DEF Given
<1>4. ASSUME Handle(q) PROVE Given(q)
    <2>1. CASE PeerTakes(q)
        <3>. DEFINE body == IF IsFile(q) THEN spool[Saved(q)] ELSE Whole(q)
        <3>1. /\ handler[q].pc = "send" /\ Host[handler[q].peer] \in Nodes /\ body \in Messages
              /\ body # NoFile /\ Publish(Host[handler[q].peer], body)
            BY <1>0, <2>1, Taken
        <3>2. IsFile(q) => Saved(q) = <<q, handler[q].saved>> /\ handler[q].saved \in 1..MaxFields
            BY <1>0, <3>1, SavedIs DEF Sending
        <3>3. body \in {Part(q), Whole(q)}
            BY <3>1, <3>2 DEF SpoolsOK, SpoolOK
        <3>4. body.of = q
            BY <3>3, Bodies
        <3>. HIDE DEF body
        <3>5. Gives(q, handler[q].peer)
            BY <3>1, <3>4 DEF Gives, Publish, Extended
        <3>6. handler[q].peer \in Entries
            BY <1>0, <3>1 DEF HandlersOK, HandlerOK, Placed
        <3>7. Takes(handler[q], handler'[q]) /\ late' = late
            <4>1. handler'[q] = [handler[q] EXCEPT !.pc = "got"] /\ late' = late
                BY <1>0, <2>1 DEF PeerTakes, Goto, Set
            <4>2. handler[q] \in Handlers
                BY <1>0
            <4>. QED  BY <3>1, <4>1, <4>2 DEF Takes, Stays, Counts, Keeps, Handlers
        <3>. QED  BY <3>5, <3>6, <3>7 DEF Given
    <2>2. CASE ~PeerTakes(q)
        BY <1>0, <1>4, <2>2, HandlerMoves DEF Given
    <2>. QED  BY <2>1, <2>2
<1>5. ASSUME NEW r \in Requests, NEW e \in Entries, PeerTakesLate(r, e) PROVE Given(q)
    <2>1. /\ <<r, e>> \in late /\ late' = late \ {<<r, e>>} /\ handler' = handler
          /\ log' = Extended(log, Host[e], Whole(r))
          /\ Whole(r) \in Messages /\ Whole(r).of = r /\ Host[e] \in Nodes
        BY <1>5, Bodies, RelayConstants DEF PeerTakesLate, Publish, Extended
    <2>2. CASE r = q
        BY <2>1, <2>2 DEF Given, Gives
    <2>3. CASE r # q
        BY <1>2, <2>1, <2>3 DEF Given, SameOwed
    <2>. QED  BY <2>2, <2>3
<1>6. ASSUME NEW s \in Spools, Settle(s) PROVE Given(q)
    BY <1>1, <1>6 DEF Settle, esvars
<1>7. CASE Restart
    <2>1. log' = log /\ late' = late /\ (handler'[q] = handler[q] \/ handler'[q] = Dropped(handler[q]))
        BY <1>7 DEF Restart
    <2>2. CASE handler'[q] = Dropped(handler[q])
        BY <1>0, <2>1, <2>2, QuitsIs DEF Given, Quiet
    <2>. QED  BY <1>1, <2>1, <2>2
<1>8. ASSUME NEW p \in Pages, LoadPage(p) \/ Stream(p) PROVE Given(q)
    BY <1>1, <1>8 DEF LoadPage, Stream, relayvars, esvars, Subscribe, Recv
<1>9. CASE UNCHANGED vars
    BY <1>1, <1>9 DEF vars, relayvars, esvars
<1>. QED  BY <1>3, <1>4, <1>5, <1>6, <1>7, <1>8, <1>9, RelayConstants DEF Next, Handle

ToldInv ==
    /\ SpoolsOK
    /\ \A r \in Requests : Listed(handler[r]) /\ Tally(handler[r], log, late, r)

LEMMA InitTold == Init => ToldInv
<1>. SUFFICES ASSUME Init, NEW r \in Requests
              PROVE  Listed(handler[r]) /\ Tally(handler[r], log, late, r)
    BY InitSpools DEF ToldInv
<1>1. handler[r] = Idle /\ Idle \in Handlers /\ Idle.pc = "idle" /\ Idle.delivered = 0
    BY RelayConstants DEF Init, Idle, Handlers
<1>2. Untold(log, late, r)
    BY DEF Init, ESInit, Untold, Copies
<1>. QED  BY <1>1, <1>2 DEF Listed, Tally, Busy, Late, Unsent, Early

LEMMA NextTold == ToldInv /\ [Next]_vars => ToldInv'
<1>. SUFFICES ASSUME ToldInv, [Next]_vars, NEW q \in Requests
              PROVE  Listed(handler'[q]) /\ Tally(handler'[q], log', late', q)
    BY NextSpools DEF ToldInv
<1>. DEFINE h == handler[q]
            l == handler'[q]
<1>0. /\ Listed(h) /\ Tally(h, log, late, q) /\ l \in Handlers /\ Given(q)
      /\ log \in [Nodes -> Seq(Messages)] /\ SpoolsOK
    BY NextSpools, StepGives DEF ToldInv, SpoolsOK, HandlersOK, TypeOK, ESTypeOK
<1>1. ASSUME NEW e \in Entries, Gives(q, e)
      PROVE  /\ \A n \in Nodes : Copies(log, n, q) # {} => Copies(log', n, q) # {}
             /\ Copies(log', Host[e], q) # {}
    <2>1. PICK m \in Messages : m.of = q /\ log' = Extended(log, Host[e], m)
        BY <1>1 DEF Gives
    <2>2. Host[e] \in Nodes
        BY RelayConstants
    <2>3. ASSUME NEW n \in Nodes PROVE Copies(log, n, q) # {} => Copies(log', n, q) # {}
        BY <1>0, <2>1, <2>2, CopiesMore
    <2>4. Copies(log', Host[e], q) # {}
        BY <1>0, <2>1, <2>2, CopyAdded
    <2>. QED  BY <2>3, <2>4
<1>2. CASE l = h /\ SameCopies(q) /\ SameOwed(q)
    <2>1. h.pc \in Unsent => Untold(log', late', q)
        BY <1>0, <1>2 DEF Tally, Untold, SameCopies, SameOwed
    <2>2. CASE h.pc \in Unsent
        BY <1>0, <1>2, <2>1, <2>2 DEF Tally, Unsent, Early, Late
    <2>3. CASE h.pc \notin Unsent
        BY <1>0, <1>2, <2>3, TallyGrows DEF SameCopies
    <2>. QED  BY <1>0, <1>2, <2>2, <2>3
<1>3. CASE Quiet(h, l) /\ log' = log /\ late' = late
    BY <1>0, <1>3, ListedMoves, TallyMoves
<1>4. CASE GivesUp(h, l) /\ log' = log
    BY <1>0, <1>4, ListedMoves, TallyMoves
<1>5. CASE Takes(h, l) /\ late' = late /\ h.peer \in Entries /\ Gives(q, h.peer)
    BY <1>0, <1>1, <1>5, ListedMoves, TallyTakes
<1>6. ASSUME NEW e \in Entries, l = h, <<q, e>> \in late, Gives(q, e)
      PROVE  Listed(l) /\ Tally(l, log', late', q)
    <2>1. h.pc \notin Unsent
        BY <1>0, <1>6 DEF Tally, Untold
    <2>. QED  BY <1>0, <1>1, <1>6, <2>1, TallyGrows
<1>. QED  BY <1>0, <1>2, <1>3, <1>4, <1>5, <1>6 DEF Given

(* What the page is told is so: refused, nobody got anything; at most as many *)
(* peers took it as got it, at least one, and all of them unless a message    *)
(* says otherwise; and an error for all comes with a message.                *)
THEOREM AnswerTheorem == Spec => []AnswerHonest
<1>1. ToldInv => AnswerHonest
    <2>. SUFFICES ASSUME ToldInv, NEW r \in Requests
                  PROVE  LET h == handler[r]
                             got == {e \in h.targets : Got(Host[e], r)}
                         IN  /\ h.pc \in {"forbidden", "bad", "unknown"} => \A n \in Nodes : ~Got(n, r)
                             /\ h.pc = "ok" => /\ h.delivered \in 1..Cardinality(got)
                                               /\ ~h.failed => h.delivered = Cardinality(h.targets)
                             /\ h.pc = "none" => h.failed
        BY DEF AnswerHonest
    <2>1. handler[r].targets \subseteq Entries /\ Tally(handler[r], log, late, r)
        BY DEF ToldInv, Listed, Handlers
    <2>2. {e \in handler[r].targets : Got(Host[e], r)} = Reached(handler[r].targets, log, r)
        BY <2>1, RelayConstants, GotCopies DEF Reached
    <2>3. handler[r].pc \in {"forbidden", "bad", "unknown"} => \A n \in Nodes : ~Got(n, r)
        BY <2>1, GotCopies DEF Tally, Unsent, Untold
    <2>. QED  BY <2>1, <2>2, <2>3 DEF Tally
<1>. QED  BY <1>1, InitTold, NextTold, PTL DEF Spec

----------------------------------------------------------------------------
(* How many copies a node is given.  An entry pays for one copy of a text and *)
(* Retries + 1 of a file; of the peer being sent to, the attempts so far.     *)
Share(h) == IF h.kind = "file" THEN Retries + 1 ELSE 1
Spent(h, n) ==
    Cardinality(Behind(Tried(h), n)) * Share(h)
      + (IF Busy(h) /\ Host[h.peer] = n THEN IF h.pc = "got" THEN h.tries + 1 ELSE h.tries ELSE 0)

Paid(h, lg, lt, r, n) ==
    /\ Cardinality(Copies(lg, n, r)) + Cardinality(Owed(lt, n, r)) <=
          IF h.pc \in Late THEN Spent(h, n) ELSE Cardinality(Behind(h.targets, n)) * Share(h)
    /\ h.kind = "file" => Owed(lt, n, r) = {}

LEMMA Times ==
    ASSUME NEW a \in Nat, NEW b \in Nat, NEW s \in Nat
    PROVE  a * s \in Nat /\ (a + 1) * s = a * s + s /\ 0 * s = 0 /\ (a <= b => a * s <= b * s)
<1>1. a * s \in Nat /\ (a + 1) * s = a * s + s /\ 0 * s = 0
    OBVIOUS
<1>2. ASSUME a <= b PROVE a * s <= b * s
    <2>1. PICK d \in Nat : b = a + d
        BY <1>2
    <2>2. b * s = a * s + d * s /\ d * s \in Nat
        BY <2>1
    <2>. QED  BY <1>1, <2>2
<1>. QED  BY <1>1, <1>2

LEMMA ShareIs ==
    ASSUME NEW h, Listed(h)
    PROVE  /\ Share(h) \in Nat /\ Share(h) >= 1 /\ h.tries \in Nat
           /\ Busy(h) => h.tries + 1 <= Share(h)
BY RelayConstants DEF Listed, Handlers, Share

LEMMA OwedFinite ==
    ASSUME NEW lt, NEW n, NEW r
    PROVE  IsFiniteSet(Owed(lt, n, r)) /\ Cardinality(Owed(lt, n, r)) \in Nat
<1>1. Owed(lt, n, r) \in SUBSET Entries
    BY DEF Owed
<1>. QED  BY <1>1, EntriesFinite

LEMMA OwedMore ==
    ASSUME NEW lt, NEW n, NEW r, NEW e \in Entries
    PROVE  Cardinality(Owed(lt \cup {<<r, e>>}, n, r)) <=
              Cardinality(Owed(lt, n, r)) + (IF Host[e] = n THEN 1 ELSE 0)
<1>. DEFINE o == Owed(lt, n, r)
            o2 == Owed(lt \cup {<<r, e>>}, n, r)
<1>1. o2 = IF Host[e] = n THEN o \cup {e} ELSE o
    BY DEF Owed
<1>2. IsFiniteSet(o) /\ Cardinality(o) \in Nat
    BY OwedFinite
<1>. HIDE DEF o, o2
<1>3. Cardinality(o \cup {e}) \in {Cardinality(o), Cardinality(o) + 1}
    BY <1>2, FS_AddElement
<1>4. Cardinality(o2) <= Cardinality(o) + (IF Host[e] = n THEN 1 ELSE 0)
    BY <1>1, <1>2, <1>3
<1>. QED  BY <1>4 DEF o, o2

LEMMA BehindFinite ==
    ASSUME NEW es \in SUBSET Entries, NEW n
    PROVE  Cardinality(Behind(es, n)) \in Nat
<1>1. Behind(es, n) \in SUBSET Entries
    BY DEF Behind
<1>. QED  BY <1>1, EntriesFinite

LEMMA BehindMonotone ==
    ASSUME NEW es \in SUBSET Entries, NEW fs \in SUBSET es, NEW n
    PROVE  Cardinality(Behind(fs, n)) <= Cardinality(Behind(es, n))
<1>1. Behind(fs, n) \in SUBSET Behind(es, n) /\ Behind(es, n) \in SUBSET Entries
    BY DEF Behind
<1>. QED  BY <1>1, EntriesFinite, FS_Subset

(* What was spent is never more than the entries listed pay for; giving up a *)
(* peer, or its answer, closes its account.                                  *)
LEMMA SpentBound ==
    ASSUME NEW h, Listed(h), h.pc \in Late, NEW n
    PROVE  Spent(h, n) \in Nat /\ Spent(h, n) <= Cardinality(Behind(h.targets, n)) * Share(h)
<1>. DEFINE a == Cardinality(Behind(Tried(h), n))
            b == Cardinality(Behind(h.targets, n))
<1>1. /\ h.targets \in SUBSET Entries /\ Tried(h) \in SUBSET Entries /\ Tried(h) \in SUBSET h.targets
      /\ Busy(h) => h.peer \in h.targets /\ h.peer \in Entries /\ h.peer \notin Tried(h)
    BY DEF Listed, Handlers, Tried, Busy
<1>2. a \in Nat /\ b \in Nat /\ a <= b
    BY <1>1, BehindFinite, BehindMonotone
<1>3. Share(h) \in Nat /\ h.tries \in Nat /\ (Busy(h) => h.tries + 1 <= Share(h))
    BY ShareIs
<1>4. a * Share(h) \in Nat /\ a * Share(h) <= b * Share(h)
    BY <1>2, <1>3, Times
<1>5. CASE ~(Busy(h) /\ Host[h.peer] = n)
    BY <1>4, <1>5 DEF Spent
<1>6. CASE Busy(h) /\ Host[h.peer] = n
    <2>1. Cardinality(Behind(Tried(h) \cup {h.peer}, n)) = a + 1
        BY <1>1, <1>6, BehindMore
    <2>2. Cardinality(Behind(Tried(h) \cup {h.peer}, n)) <= b
        <3>1. Tried(h) \cup {h.peer} \in SUBSET h.targets
            BY <1>1, <1>6
        <3>. QED  BY <1>1, <3>1, BehindMonotone
    <2>3. (a + 1) * Share(h) <= b * Share(h) /\ (a + 1) * Share(h) = a * Share(h) + Share(h)
        <3>1. a + 1 \in Nat /\ a + 1 <= b
            BY <1>2, <2>1, <2>2
        <3>. QED  BY <1>2, <1>3, <3>1, Times
    <2>4. b * Share(h) \in Nat
        BY <1>2, <1>3, Times
    <2>5. Spent(h, n) = a * Share(h) + (IF h.pc = "got" THEN h.tries + 1 ELSE h.tries)
        BY <1>6 DEF Spent
    <2>. DEFINE x == a * Share(h)
                y == b * Share(h)
                t == IF h.pc = "got" THEN h.tries + 1 ELSE h.tries
    <2>6. x \in Nat /\ y \in Nat /\ x + Share(h) <= y /\ t \in Nat /\ t <= Share(h) /\ Spent(h, n) = x + t
        BY <1>3, <1>4, <1>6, <2>3, <2>4, <2>5
    <2>7. Spent(h, n) \in Nat /\ Spent(h, n) <= y
        <3>. HIDE DEF x, y, t
        <3>. QED  BY <1>3, <2>6
    <2>. QED  BY <2>7
<1>. QED  BY <1>5, <1>6

LEMMA SpentMoves ==
    ASSUME NEW h, Listed(h), NEW l, Listed(l), NEW n
    PROVE  /\ Asks(h, l) \/ Skips(h, l) \/ Hashes(h, l) \/ Again(h, l) \/ Answered(h, l) \/ GivesUp(h, l) =>
                 Spent(h, n) <= Spent(l, n)
           /\ Takes(h, l) \/ (GivesUp(h, l) /\ h.kind = "text" /\ h.pc = "send") =>
                 IF Host[h.peer] = n THEN Spent(l, n) = Spent(h, n) + 1 ELSE Spent(l, n) = Spent(h, n)
<1>. DEFINE a == Cardinality(Behind(Tried(h), n))
            c == Cardinality(Behind(Tried(l), n))
<1>1. Share(h) \in Nat /\ h.tries \in Nat /\ (Busy(h) => h.tries + 1 <= Share(h)) /\ l.tries \in Nat
    BY ShareIs
<1>2. h.pc \in Late => Tried(h) \in SUBSET Entries /\ a \in Nat /\ a * Share(h) \in Nat
    BY <1>1, TriedMoves, BehindFinite, Times
<1>3. ASSUME Keeps(h, l) PROVE Share(l) = Share(h)
    BY <1>3 DEF Keeps, Share
<1>4. CASE Asks(h, l)
    <2>1. Tried(l) = Tried(h) /\ Share(l) = Share(h)
        BY <1>3, <1>4, TriedMoves DEF Asks, Counts
    <2>2. ~Busy(h) /\ h.pc = "loop" /\ l.tries = 0 /\ l.pc # "got"
        BY <1>4 DEF Asks, Busy
    <2>3. Spent(h, n) = a * Share(h) /\ Spent(l, n) = a * Share(h)
        BY <1>2, <2>1, <2>2 DEF Spent, Late
    <2>. QED  BY <1>2, <1>4, <2>2, <2>3 DEF Asks, Takes, GivesUp, Busy, Late
<1>5. CASE Hashes(h, l) \/ Again(h, l) \/ Takes(h, l)
    <2>1. Tried(l) = Tried(h) /\ Share(l) = Share(h) /\ l.peer = h.peer
        BY <1>3, <1>5, TriedMoves DEF Hashes, Again, Takes, Stays, Counts
    <2>2. /\ Busy(h) /\ Busy(l) /\ h.pc \in Late
          /\ (Hashes(h, l) => h.pc # "got" /\ l.pc # "got" /\ l.tries = h.tries)
          /\ (Again(h, l) => l.pc # "got" /\ l.tries = h.tries + 1)
          /\ (Takes(h, l) => h.pc # "got" /\ l.pc = "got" /\ l.tries = h.tries)
        BY <1>5 DEF Hashes, Again, Takes, Busy, Late
    <2>. DEFINE x == a * Share(h)
    <2>3. /\ Host[h.peer] # n => Spent(h, n) = x /\ Spent(l, n) = x
          /\ Host[h.peer] = n =>
                /\ Spent(h, n) = x + (IF h.pc = "got" THEN h.tries + 1 ELSE h.tries)
                /\ Spent(l, n) = x + (IF l.pc = "got" THEN l.tries + 1 ELSE l.tries)
        BY <1>2, <2>1, <2>2 DEF Spent
    <2>4. Takes(h, l) => ~(Asks(h, l) \/ Skips(h, l) \/ Hashes(h, l) \/ Again(h, l) \/ Answered(h, l) \/ GivesUp(h, l))
        BY DEF Takes, Asks, Skips, Hashes, Again, Answered, GivesUp
    <2>5. Hashes(h, l) \/ Again(h, l) => ~Takes(h, l) /\ ~GivesUp(h, l)
        BY DEF Hashes, Again, Takes, GivesUp
    <2>6. x \in Nat
        BY <1>2, <2>2
    <2>7. Hashes(h, l) \/ Again(h, l) => Spent(h, n) <= Spent(l, n)
        <3>. HIDE DEF x
        <3>. QED  BY <1>1, <2>2, <2>3, <2>6
    <2>8. Takes(h, l) => IF Host[h.peer] = n THEN Spent(l, n) = Spent(h, n) + 1 ELSE Spent(l, n) = Spent(h, n)
        <3>. HIDE DEF x
        <3>. QED  BY <1>1, <2>2, <2>3, <2>6
    <2>. QED  BY <1>5, <2>4, <2>5, <2>7, <2>8
<1>6. CASE Skips(h, l)
    <2>1. PICK e \in Entries : e \notin Tried(h) /\ Tried(l) = Tried(h) \cup {e}
        BY <1>6, TriedMoves
    <2>2. ~Busy(h) /\ ~Busy(l) /\ h.pc \in Late /\ Share(l) = Share(h)
        BY <1>3, <1>6 DEF Skips, Busy, Late
    <2>3. c \in {a, a + 1}
        BY <1>2, <2>1, <2>2, BehindMore
    <2>4. a * Share(h) <= c * Share(h) /\ a * Share(h) \in Nat /\ c * Share(h) \in Nat
        <3>1. c \in Nat /\ a <= c
            BY <1>2, <2>2, <2>3
        <3>. QED  BY <1>1, <1>2, <2>2, <3>1, Times
    <2>5. Spent(h, n) = a * Share(h) /\ Spent(l, n) = c * Share(h)
        BY <2>2, <2>4 DEF Spent
    <2>6. ~Takes(h, l) /\ ~GivesUp(h, l)
        BY <1>6, <2>2 DEF Skips, Takes, GivesUp
    <2>. QED  BY <2>4, <2>5, <2>6
<1>7. CASE Answered(h, l) \/ GivesUp(h, l)
    <2>1. h.peer \in Entries /\ h.peer \notin Tried(h) /\ Tried(l) = Tried(h) \cup {h.peer}
        BY <1>7, TriedMoves
    <2>2. Busy(h) /\ ~Busy(l) /\ h.pc \in Late /\ Share(l) = Share(h)
        BY <1>3, <1>7 DEF Answered, GivesUp, Busy, Late
    <2>3. c = IF Host[h.peer] = n THEN a + 1 ELSE a
        BY <1>2, <2>1, <2>2, BehindMore
    <2>4. (a + 1) * Share(h) = a * Share(h) + Share(h) /\ a * Share(h) \in Nat
        BY <1>1, <1>2, <2>2, Times
    <2>5. Spent(l, n) = c * Share(h)
        <3>1. c * Share(h) \in Nat
            BY <1>1, <2>3, <2>4
        <3>. QED  BY <2>2, <3>1 DEF Spent
    <2>6. Spent(h, n) = a * Share(h) + (IF Host[h.peer] = n THEN IF h.pc = "got" THEN h.tries + 1 ELSE h.tries
                                                              ELSE 0)
        BY <2>2, <2>4 DEF Spent
    <2>7. h.kind = "text" => Share(h) = 1 /\ h.tries = 0
        BY <2>2 DEF Share, Listed
    <2>8. ~Takes(h, l)
        BY <2>2 DEF Takes, Busy
    <2>. DEFINE x == a * Share(h)
    <2>9. x \in Nat /\ Spent(l, n) = IF Host[h.peer] = n THEN x + Share(h) ELSE x
        BY <2>3, <2>4, <2>5
    <2>. HIDE DEF a, c, x
    <2>. QED  BY <1>1, <1>7, <2>2, <2>6, <2>7, <2>8, <2>9 DEF x
<1>8. CASE ~(Asks(h, l) \/ Skips(h, l) \/ Hashes(h, l) \/ Again(h, l) \/ Answered(h, l) \/ GivesUp(h, l) \/ Takes(h, l))
    BY <1>8
<1>. QED  BY <1>4, <1>5, <1>6, <1>7, <1>8

LEMMA PaidMoves ==
    ASSUME NEW h, Listed(h), NEW l, Listed(l), NEW lg \in [Nodes -> Seq(Messages)], NEW lt, NEW lt2, NEW r,
           NEW n \in Nodes, Tally(h, lg, lt, r), Paid(h, lg, lt, r, n),
           \/ lt2 = lt /\ (Quiet(h, l) \/ GivesUp(h, l))
           \/ GivesUp(h, l) /\ h.kind = "text" /\ h.pc = "send" /\ lt2 = lt \cup {<<r, h.peer>>}
    PROVE  Paid(l, lg, lt2, r, n)
<1>. DEFINE x == Cardinality(Copies(lg, n, r)) + Cardinality(Owed(lt, n, r))
            y == Cardinality(Behind(h.targets, n)) * Share(h)
<1>0. x \in Nat
    BY CopiesFinite, OwedFinite
<1>1. h.targets \in SUBSET Entries /\ l.targets \in SUBSET Entries
    BY DEF Listed, Handlers
<1>2. /\ h.pc \in Late => Spent(h, n) \in Nat /\ Spent(h, n) <= y
      /\ l.pc \in Late => Spent(l, n) \in Nat
    BY SpentBound
<1>3. x <= IF h.pc \in Late THEN Spent(h, n) ELSE y
    BY DEF Paid
<1>4. Keeps(h, l) => Share(l) = Share(h) /\ (l.kind = "file" => Owed(lt, n, r) = {})
    BY DEF Keeps, Share, Paid
<1>5. CASE Prepares(h, l) \/ Lists(h, l)
    <2>1. lt2 = lt /\ Copies(lg, n, r) = {} /\ Owed(lt, n, r) = {}
        BY <1>5 DEF Prepares, Lists, Tally, Untold, Unsent, Early, GivesUp, Busy, Owed
    <2>2. x = 0
        BY <2>1, FS_EmptySet
    <2>3. Cardinality(Behind(l.targets, n)) * Share(l) \in Nat
        BY <1>1, BehindFinite, ShareIs, Times
    <2>. QED  BY <1>2, <2>1, <2>2, <2>3 DEF Paid
<1>6. CASE lt2 = lt /\ (Asks(h, l) \/ Skips(h, l) \/ Hashes(h, l) \/ Again(h, l) \/ Answered(h, l) \/ GivesUp(h, l))
    <2>1. h.pc \in Late /\ l.pc \in Late /\ Keeps(h, l)
        BY <1>6 DEF Asks, Skips, Hashes, Again, Answered, GivesUp, Late, Busy, Stays, Counts
    <2>2. Spent(h, n) <= Spent(l, n)
        BY <1>6, SpentMoves
    <2>. QED  BY <1>0, <1>2, <1>3, <1>4, <1>6, <2>1, <2>2 DEF Paid
<1>7. CASE lt2 = lt /\ (Stops(h, l) \/ Quits(h, l))
    <2>1. l.pc \notin Late /\ Keeps(h, l) /\ l.targets = h.targets
        BY <1>7 DEF Stops, Quits, Keeps, Counts, Late
    <2>2. y \in Nat
        BY <1>1, BehindFinite, ShareIs, Times
    <2>3. x <= y
        <3>. HIDE DEF x, y
        <3>. QED  BY <1>0, <1>2, <1>3, <2>2
    <2>. QED  BY <1>4, <1>7, <2>1, <2>3 DEF Paid
<1>8. CASE GivesUp(h, l) /\ h.kind = "text" /\ h.pc = "send" /\ lt2 = lt \cup {<<r, h.peer>>}
    <2>1. h.pc \in Late /\ l.pc \in Late /\ l.kind = "text"
        BY <1>8 DEF GivesUp, Late, Keeps
    <2>2. IF Host[h.peer] = n THEN Spent(l, n) = Spent(h, n) + 1 ELSE Spent(l, n) = Spent(h, n)
        BY <1>8, SpentMoves
    <2>3. Cardinality(Owed(lt2, n, r)) <= Cardinality(Owed(lt, n, r)) + (IF Host[h.peer] = n THEN 1 ELSE 0)
        <3>1. h.peer \in Entries
            BY <1>1, <1>8 DEF Listed, Busy
        <3>. QED  BY <1>8, <3>1, OwedMore
    <2>4. Cardinality(Owed(lt2, n, r)) \in Nat /\ Cardinality(Owed(lt, n, r)) \in Nat
             /\ Cardinality(Copies(lg, n, r)) \in Nat
        BY OwedFinite, CopiesFinite
    <2>5. Cardinality(Copies(lg, n, r)) + Cardinality(Owed(lt2, n, r)) <= Spent(l, n)
        BY <1>2, <1>3, <2>1, <2>2, <2>3, <2>4
    <2>. QED  BY <2>1, <2>5 DEF Paid
<1>. QED  BY <1>5, <1>6, <1>7, <1>8 DEF Quiet

(* An event of the request more on one node, paid for by the peer being sent *)
(* to or by a text that was still being read there.                          *)
LEMMA PaidGiven ==
    ASSUME NEW h, Listed(h), NEW l, Listed(l), NEW lg \in [Nodes -> Seq(Messages)], NEW lt, NEW lt2,
           NEW r \in Requests, NEW e \in Entries, NEW m \in Messages, m.of = r,
           NEW n \in Nodes, Paid(h, lg, lt, r, n),
           \/ Takes(h, l) /\ lt2 = lt /\ e = h.peer
           \/ l = h /\ <<r, e>> \in lt /\ lt2 = lt \ {<<r, e>>}
    PROVE  Paid(l, Extended(lg, Host[e], m), lt2, r, n)
<1>. DEFINE lg2 == Extended(lg, Host[e], m)
            c == Cardinality(Copies(lg, n, r))
            c2 == Cardinality(Copies(lg2, n, r))
            o == Cardinality(Owed(lt, n, r))
            o2 == Cardinality(Owed(lt2, n, r))
<1>1. c \in Nat /\ o \in Nat /\ o2 \in Nat /\ Host[e] \in Nodes
    BY CopiesFinite, OwedFinite, RelayConstants
<1>2. c2 = IF Host[e] = n THEN c + 1 ELSE c
    BY <1>1, CopiesMore, CopyAdded
<1>3. h.pc \in Late => Spent(h, n) \in Nat
    BY SpentBound
<1>4. CASE Takes(h, l) /\ lt2 = lt /\ e = h.peer
    <2>1. h.pc \in Late /\ l.pc \in Late /\ l.kind = h.kind
        BY <1>4 DEF Takes, Late, Stays, Counts, Keeps
    <2>2. IF Host[e] = n THEN Spent(l, n) = Spent(h, n) + 1 ELSE Spent(l, n) = Spent(h, n)
        BY <1>4, SpentMoves
    <2>3. c + o <= Spent(h, n) /\ (h.kind = "file" => Owed(lt, n, r) = {})
        BY <2>1 DEF Paid
    <2>4. c2 + o2 <= Spent(l, n)
        <3>1. o2 = o
            BY <1>4
        <3>. HIDE DEF c, c2, o, o2
        <3>. QED  BY <1>1, <1>2, <1>3, <2>1, <2>2, <2>3, <3>1
    <2>. QED  BY <1>4, <2>1, <2>3, <2>4 DEF Paid
<1>5. CASE l = h /\ <<r, e>> \in lt /\ lt2 = lt \ {<<r, e>>}
    <2>1. o2 = IF Host[e] = n THEN o - 1 ELSE o
        <3>1. Host[e] # n => Owed(lt2, n, r) = Owed(lt, n, r)
            BY <1>5 DEF Owed
        <3>2. Host[e] = n => Owed(lt2, n, r) = Owed(lt, n, r) \ {e} /\ e \in Owed(lt, n, r)
            BY <1>5 DEF Owed
        <3>3. IsFiniteSet(Owed(lt, n, r))
            BY OwedFinite
        <3>4. e \in Owed(lt, n, r) => Cardinality(Owed(lt, n, r) \ {e}) = o - 1
            BY <3>3, FS_RemoveElement
        <3>. QED  BY <3>1, <3>2, <3>4
    <2>2. c2 + o2 = c + o
        <3>. HIDE DEF c, c2, o, o2
        <3>. QED  BY <1>1, <1>2, <2>1
    <2>3. Owed(lt2, n, r) \subseteq Owed(lt, n, r)
        BY <1>5 DEF Owed
    <2>. QED  BY <1>5, <2>2, <2>3 DEF Paid
<1>. QED  BY <1>4, <1>5

PaidInv == ToldInv /\ \A r \in Requests, n \in Nodes : Paid(handler[r], log, late, r, n)

LEMMA InitPaid == Init => PaidInv
<1>. SUFFICES ASSUME Init, NEW r \in Requests, NEW n \in Nodes
              PROVE  Paid(handler[r], log, late, r, n)
    BY InitTold DEF PaidInv
<1>1. Listed(handler[r]) /\ handler[r] = Idle /\ Idle.pc = "idle"
    BY InitTold DEF ToldInv, Init, Idle
<1>2. Copies(log, n, r) = {} /\ Owed(late, n, r) = {}
    BY DEF Init, ESInit, Copies, Owed
<1>3. Cardinality(Behind(handler[r].targets, n)) * Share(handler[r]) \in Nat
    <2>1. handler[r].targets \in SUBSET Entries
        BY <1>1 DEF Listed, Handlers
    <2>. QED  BY <1>1, <2>1, BehindFinite, ShareIs, Times
<1>. QED  BY <1>1, <1>2, <1>3, FS_EmptySet DEF Paid, Late

LEMMA NextPaid == PaidInv /\ [Next]_vars => PaidInv'
<1>. SUFFICES ASSUME PaidInv, [Next]_vars, NEW q \in Requests, NEW n \in Nodes
              PROVE  Paid(handler'[q], log', late', q, n)
    BY NextTold DEF PaidInv
<1>. DEFINE h == handler[q]
            l == handler'[q]
<1>0. /\ Listed(h) /\ Tally(h, log, late, q) /\ Listed(l) /\ Paid(h, log, late, q, n) /\ Given(q)
      /\ log \in [Nodes -> Seq(Messages)]
    BY NextTold, StepGives DEF PaidInv, ToldInv, SpoolsOK, HandlersOK, TypeOK, ESTypeOK
<1>1. CASE l = h /\ SameCopies(q) /\ SameOwed(q)
    <2>1. Copies(log', n, q) = Copies(log, n, q) /\ Owed(late', n, q) = Owed(late, n, q)
        BY <1>1 DEF SameCopies, SameOwed, Owed
    <2>. QED  BY <1>0, <1>1, <2>1 DEF Paid
<1>2. CASE Quiet(h, l) /\ log' = log /\ late' = late
    BY <1>0, <1>2, PaidMoves
<1>3. CASE /\ GivesUp(h, l) /\ log' = log
           /\ \/ late' = late
              \/ h.kind = "text" /\ h.pc = "send" /\ late' = late \cup {<<q, h.peer>>}
    BY <1>0, <1>3, PaidMoves
<1>4. ASSUME NEW e \in Entries, Gives(q, e),
             \/ Takes(h, l) /\ late' = late /\ e = h.peer
             \/ l = h /\ <<q, e>> \in late /\ late' = late \ {<<q, e>>}
      PROVE  Paid(l, log', late', q, n)
    <2>1. PICK m \in Messages : m.of = q /\ log' = Extended(log, Host[e], m)
        BY <1>4 DEF Gives
    <2>2. Paid(l, Extended(log, Host[e], m), late', q, n)
        BY <1>0, <1>4, <2>1, PaidGiven
    <2>. QED  BY <2>1, <2>2
<1>5. CASE Takes(h, l) /\ late' = late /\ h.peer \in Entries /\ Gives(q, h.peer)
    BY <1>4, <1>5
<1>. QED  BY <1>0, <1>1, <1>2, <1>3, <1>4, <1>5 DEF Given

(* A text reaches a node at most once per entry listed for it, a file at most *)
(* once per entry and attempt, with whatever is lost, late or restarted.     *)
THEOREM CopiesTheorem == Spec => []CopiesBounded
<1>1. PaidInv => CopiesBounded
    <2>. SUFFICES ASSUME PaidInv, NEW n \in Nodes, NEW r \in Requests
                  PROVE  Cardinality({i \in 1..Last(n) : log[n][i].of = r}) <=
                            Cardinality({e \in handler[r].targets : Host[e] = n})
                               * (IF IsFile(r) THEN Retries + 1 ELSE 1)
        BY DEF CopiesBounded
    <2>. DEFINE h == handler[r]
                y == Cardinality(Behind(h.targets, n)) * Share(h)
    <2>1. Listed(h) /\ Paid(h, log, late, r, n) /\ log \in [Nodes -> Seq(Messages)]
             /\ h.targets \in SUBSET Entries
        BY DEF PaidInv, ToldInv, SpoolsOK, HandlersOK, TypeOK, ESTypeOK, Listed, Handlers
    <2>2. Cardinality(Copies(log, n, r)) \in Nat /\ Cardinality(Owed(late, n, r)) \in Nat
        BY <2>1, CopiesFinite, OwedFinite
    <2>3. y \in Nat /\ (h.pc \in Late => Spent(h, n) \in Nat /\ Spent(h, n) <= y)
        BY <2>1, BehindFinite, ShareIs, Times, SpentBound
    <2>4. Cardinality(Copies(log, n, r)) + Cardinality(Owed(late, n, r)) <=
             IF h.pc \in Late THEN Spent(h, n) ELSE y
        BY <2>1 DEF Paid
    <2>5. Cardinality(Copies(log, n, r)) <= y
        <3>. HIDE DEF y
        <3>. QED  BY <2>2, <2>3, <2>4
    <2>6. Cardinality({i \in 1..Last(n) : log[n][i].of = r}) <=
             Cardinality({e \in handler[r].targets : Host[e] = n}) * Share(h)
        BY <2>5 DEF Copies, Behind, Last
    <2>. QED  BY <2>6 DEF Share, IsFile
<1>. QED  BY <1>1, InitPaid, NextPaid, PTL DEF Spec
=============================================================================
