------------------------- MODULE ChunkedSenderProofs -------------------------
(* Proofs about the sender of a chunked upload: what an answered request      *)
(* leaves at the receiver, what a reported success stands for, and that the   *)
(* progress shown never passes the size of the file.  The last one needs      *)
(* facts about sums over a set of chunks; those come first.                   *)
EXTENDS ChunkedSender, FiniteSetTheorems, TLAPS

----------------------------------------------------------------------------
(* Sums over finite sets.  A sum is a fold, that is, a recursive function on  *)
(* the subsets of its set; what it computes is proved by induction on the     *)
(* subsets: a set of sets that holds s whenever it holds every smaller one    *)
(* holds all of them.                                                         *)

Some(s) == CHOOSE x \in s : TRUE
Sum(f, S) == SumFunctionOnSet(f, S)

(* it is the function the sum over S is read from.                            *)
Sums(f, S, it) ==
    it = [s \in SUBSET S |-> IF s = {} THEN 0 ELSE f[Some(s)] + it[s \ {Some(s)}]]

(* A set P of subsets of the finite set S has them all, if it has each one of *)
(* which it has every strictly smaller one.                                   *)
LEMMA SubsetInduction ==
    ASSUME NEW S, IsFiniteSet(S), NEW P,
           \A s \in SUBSET S :
               (\A u \in SUBSET s : u # s => u \in P) => s \in P
    PROVE  SUBSET S \subseteq P
<1> DEFINE Bad == (SUBSET S) \ P
           R == StrictSubsetOrdering(S)
<1> SUFFICES ASSUME Bad # {} PROVE FALSE OBVIOUS
<1>1. IsWellFoundedOn(R, SUBSET S)
  <2>1. IsWellFoundedOn(R, FiniteSubsetsOf(S))
    BY FS_StrictSubsetOrderingWellFounded
  <2>2. FiniteSubsetsOf(S) = SUBSET S BY FS_FiniteSubsetsOfFinite
  <2> HIDE DEF R
  <2> QED BY <2>1, <2>2
<1>2. Bad \subseteq SUBSET S OBVIOUS
<1> HIDE DEF R, Bad
<1>3. PICK s \in Bad : \A u \in Bad : <<u, s>> \notin R
  BY <1>1, <1>2, WFMin
<1>4. ASSUME NEW u \in SUBSET s, u # s PROVE u \in P
  <2>1. u \in SUBSET S BY <1>2
  <2>2. <<u, s>> \in R BY <2>1, <1>2, <1>4 DEF R, StrictSubsetOrdering
  <2> QED BY <2>1, <2>2, <1>3 DEF Bad
<1>5. s \in SUBSET S /\ s \notin P BY DEF Bad
<1> QED BY <1>4, <1>5

LEMMA SumIsFold ==
    ASSUME NEW f, NEW S
    PROVE  Sum(f, S) = (CHOOSE it : Sums(f, S, it))[S]
BY DEF Sum, Sums, Some, SumFunctionOnSet, FoldFunctionOnSet, MapThenFoldSet

(* Two such functions are the same.                                           *)
LEMMA SumsUnique ==
    ASSUME NEW f, NEW S, IsFiniteSet(S), NEW a, NEW b,
           Sums(f, S, a), Sums(f, S, b)
    PROVE  a[S] = b[S]
<1> DEFINE P == {s \in SUBSET S : a[s] = b[s]}
<1>1. ASSUME NEW s \in SUBSET S, \A u \in SUBSET s : u # s => u \in P
      PROVE  s \in P
  <2>1. CASE s = {} BY <2>1 DEF Sums
  <2>2. CASE s # {}
    <3>1. Some(s) \in s BY <2>2 DEF Some
    <3>2. a[s \ {Some(s)}] = b[s \ {Some(s)}] BY <3>1, <1>1
    <3>3. /\ a[s] = f[Some(s)] + a[s \ {Some(s)}]
          /\ b[s] = f[Some(s)] + b[s \ {Some(s)}]
      BY <2>2 DEF Sums
    <3> QED BY <3>2, <3>3
  <2> QED BY <2>1, <2>2
<1> HIDE DEF P
<1>2. SUBSET S \subseteq P BY <1>1, SubsetInduction
<1> QED BY <1>2 DEF P

(* A sum is a chosen element's value and the sum of the rest.                 *)
LEMMA SumEquation ==
    ASSUME NEW f, NEW S, IsFiniteSet(S)
    PROVE  /\ S = {} => Sum(f, S) = 0
           /\ S # {} => Sum(f, S) = f[Some(S)] + Sum(f, S \ {Some(S)})
<1> DEFINE Eq(s) == Sum(f, s) = IF s = {} THEN 0
                                ELSE f[Some(s)] + Sum(f, s \ {Some(s)})
           P == {s \in SUBSET S : Eq(s)}
<1>1. ASSUME NEW s \in SUBSET S, \A u \in SUBSET s : u # s => u \in P
      PROVE  s \in P
  <2> DEFINE val(u) == IF u = {} THEN 0 ELSE f[Some(u)] + Sum(f, u \ {Some(u)})
             it == [u \in SUBSET s |-> val(u)]
  <2>1. \A u \in SUBSET s : u # s => Sum(f, u) = val(u) BY <1>1
  <2>2. \A u \in SUBSET s : u # {} => Some(u) \in u BY DEF Some
  <2>3. ASSUME NEW u \in SUBSET s
        PROVE  it[u] = IF u = {} THEN 0 ELSE f[Some(u)] + it[u \ {Some(u)}]
    <3>1. CASE u = {} BY <3>1
    <3>2. CASE u # {}
      <4>1. u \ {Some(u)} \in SUBSET s /\ u \ {Some(u)} # s BY <3>2, <2>2
      <4>2. it[u \ {Some(u)}] = val(u \ {Some(u)}) BY <4>1
      <4>3. it[u \ {Some(u)}] = Sum(f, u \ {Some(u)}) BY <4>1, <4>2, <2>1
      <4> HIDE DEF it
      <4>4. it[u] = val(u) BY DEF it
      <4> QED BY <3>2, <4>3, <4>4
    <3> QED BY <3>1, <3>2
  <2> HIDE DEF it
  <2>4. Sums(f, s, it)
    <3>1. it = [u \in SUBSET s |-> it[u]] BY DEF it
    <3> QED BY <3>1, <2>3 DEF Sums
  <2>5. Sums(f, s, CHOOSE x : Sums(f, s, x)) BY <2>4
  <2>6. IsFiniteSet(s) BY FS_Subset
  <2>7. Sum(f, s) = it[s] BY <2>4, <2>5, <2>6, SumIsFold, SumsUnique
  <2>8. it[s] = val(s) BY DEF it
  <2> QED BY <2>7, <2>8
<1> HIDE DEF P
<1>2. SUBSET S \subseteq P BY <1>1, SubsetInduction
<1> QED BY <1>2 DEF P

(* In a sum of naturals every element can be the one that is taken out.       *)
LEMMA SumTakeOut ==
    ASSUME NEW f, NEW S, IsFiniteSet(S), \A i \in S : f[i] \in Nat
    PROVE  /\ Sum(f, S) \in Nat
           /\ \A x \in S : Sum(f, S) = f[x] + Sum(f, S \ {x})
<1> DEFINE P == {s \in SUBSET S :
                    /\ Sum(f, s) \in Nat
                    /\ \A x \in s : Sum(f, s) = f[x] + Sum(f, s \ {x})}
<1>1. ASSUME NEW s \in SUBSET S, \A u \in SUBSET s : u # s => u \in P
      PROVE  s \in P
  <2>1. IsFiniteSet(s) BY FS_Subset
  <2>2. CASE s = {}
    <3>1. Sum(f, s) = 0 BY <2>1, <2>2, SumEquation
    <3> QED BY <2>2, <3>1
  <2>3. CASE s # {}
    <3> DEFINE y == Some(s)
               r == s \ {y}
    <3>1. y \in s BY <2>3 DEF Some
    <3>2. Sum(f, s) = f[y] + Sum(f, r) BY <2>1, <2>3, SumEquation
    <3>3. r \in P BY <3>1, <1>1
    <3>4. f[y] \in Nat /\ Sum(f, r) \in Nat BY <3>1, <3>3
    <3>5. ASSUME NEW x \in s, x # y PROVE Sum(f, s) = f[x] + Sum(f, s \ {x})
      <4> DEFINE q == s \ {x}
      <4>1. q \in P /\ y \in q BY <3>1, <3>5, <1>1
      <4>2. Sum(f, q) = f[y] + Sum(f, q \ {y}) BY <4>1
      <4>3. Sum(f, r) = f[x] + Sum(f, r \ {x}) BY <3>3, <3>5
      <4>4. q \ {y} = r \ {x} /\ r \ {x} \in P BY <3>1, <1>1
      <4>5. Sum(f, r \ {x}) \in Nat BY <4>4
      <4>6. f[x] \in Nat BY <3>5
      <4> HIDE DEF q, r, y, P
      <4>7. Sum(f, q) = f[y] + Sum(f, r \ {x}) BY <4>2, <4>4
      <4>8. f[y] + (f[x] + Sum(f, r \ {x})) = f[x] + (f[y] + Sum(f, r \ {x}))
        BY <4>5, <4>6, <3>4
      <4>9. Sum(f, s) = f[x] + Sum(f, q) BY <3>2, <4>3, <4>7, <4>8
      <4> QED BY <4>9 DEF q
    <3>6. Sum(f, s) \in Nat BY <3>2, <3>4
    <3>7. \A x \in s : Sum(f, s) = f[x] + Sum(f, s \ {x}) BY <3>2, <3>5
    <3> QED BY <3>6, <3>7
  <2> QED BY <2>2, <2>3
<1> HIDE DEF P
<1>2. SUBSET S \subseteq P BY <1>1, SubsetInduction
<1> QED BY <1>2 DEF P

(* What is counted under f for the elements of G, and under g for the others, *)
(* is at most the sum of f, if g stays below f.                               *)
LEMMA SumsDisjoint ==
    ASSUME NEW f, NEW g, NEW S, NEW G, IsFiniteSet(S), G \subseteq S,
           \A i \in S : /\ f[i] \in Nat /\ g[i] \in Nat /\ g[i] <= f[i]
                        /\ i \in G => g[i] = 0
    PROVE  Sum(f, G) + Sum(g, S) <= Sum(f, S)
<1> DEFINE P == {s \in SUBSET S : Sum(f, G \cap s) + Sum(g, s) <= Sum(f, s)}
<1>1. ASSUME NEW s \in SUBSET S, \A u \in SUBSET s : u # s => u \in P
      PROVE  s \in P
  <2>1. IsFiniteSet(s) /\ IsFiniteSet(G \cap s) BY FS_Subset
  <2>2. CASE s = {}
    <3>1. G \cap s = {} BY <2>2
    <3>2. /\ Sum(f, G \cap s) = 0 /\ Sum(g, s) = 0 /\ Sum(f, s) = 0
      BY <2>1, <2>2, <3>1, SumEquation
    <3> QED BY <3>2
  <2>3. CASE s # {}
    <3>1. PICK x \in s : TRUE BY <2>3
    <3> DEFINE r == s \ {x}
    <3>2. r \in P BY <3>1, <1>1
    <3>3. IsFiniteSet(r) /\ IsFiniteSet(G \cap r) BY <2>1, FS_Subset
    <3>4. /\ Sum(f, s) = f[x] + Sum(f, r) /\ Sum(g, s) = g[x] + Sum(g, r)
          /\ Sum(f, r) \in Nat /\ Sum(g, r) \in Nat /\ Sum(f, G \cap r) \in Nat
      BY <2>1, <3>1, <3>3, SumTakeOut
    <3>5. /\ f[x] \in Nat /\ g[x] \in Nat /\ g[x] <= f[x]
          /\ x \in G => g[x] = 0
      BY <3>1
    <3>6. CASE x \in G
      <4>1. x \in G \cap s /\ (G \cap s) \ {x} = G \cap r BY <3>1, <3>6
      <4>2. Sum(f, G \cap s) = f[x] + Sum(f, (G \cap s) \ {x})
        BY <4>1, <2>1, SumTakeOut
      <4>3. Sum(f, G \cap s) = f[x] + Sum(f, G \cap r) BY <4>1, <4>2
      <4> HIDE DEF r
      <4> QED BY <4>3, <3>2, <3>4, <3>5, <3>6
    <3>7. CASE x \notin G
      <4>1. G \cap s = G \cap r BY <3>1, <3>7
      <4> HIDE DEF r
      <4> QED BY <4>1, <3>2, <3>4, <3>5
    <3> QED BY <3>6, <3>7
  <2> QED BY <2>2, <2>3
<1> HIDE DEF P
<1>2. SUBSET S \subseteq P BY <1>1, SubsetInduction
<1>3. S \in P /\ G \cap S = G BY <1>2
<1> QED BY <1>3 DEF P

----------------------------------------------------------------------------
(* The inductive invariant *)

(* Outside the chunk phase no chunk is in line or on its way for the sender.  *)
Quiet ==
    /\ phase # "chunks" => pending = {} /\ active = {}
    /\ phase # "idle" => run >= 1
    /\ pending \cap active = {}

Requested ==
    \A q \in net : q.run \in 1..run /\ (q.kind = "chunk" => q.idx \in Idx)

OneInit == \A p, q \in net : p.kind = "init" /\ q.kind = "init" => p = q

(* The init of a run comes before anything else of it.                        *)
InitFirst ==
    /\ phase = "init" => \A q \in net : q.run = run => q.kind = "init"
    /\ phase \in {"chunks", "complete", "done"} => \A q \in net : q.kind # "init"

(* A chunk in line has not been requested in this run; a chunk that sleeps    *)
(* has only requests of earlier attempts.                                     *)
Attempts ==
    phase = "chunks" =>
        \A q \in net : q.kind = "chunk" /\ q.run = run =>
            /\ q.idx \notin pending
            /\ q.try <= tries[q.idx]
            /\ q.idx \in sleeping => q.try < tries[q.idx]

(* What an answer says of the session is still so when it is read, unless the *)
(* session is gone.                                                           *)
HonestAnswer(q) ==
    /\ q.kind = "init" /\ recorded # NoSession => q.got \subseteq recorded
    /\ q.kind = "chunk" /\ Awaited(q) /\ recorded # NoSession => q.idx \in recorded
    /\ q.kind = "complete" => q.run \in stored
Honest == \A q \in net : q.at = "ok" => HonestAnswer(q)

(* No cancel of a run that has not failed.                                    *)
NotCanceled ==
    phase # "failed" => \A q \in net : q.kind = "cancel" => q.run # run

(* The chunks counted by the receiver's answer (G) are not shown again.       *)
CountedApart(G) ==
    /\ initial = Units(G)
    /\ \A i \in Idx : shown[i] <= ChunkLen[i]
    /\ \A i \in G : shown[i] = 0 /\ i \notin pending \cup active
Counted == \E G \in SUBSET Idx : CountedApart(G)

SenderInv ==
    /\ TypeOK /\ Quiet /\ Requested /\ OneInit /\ InitFirst /\ Attempts
    /\ Honest /\ NotCanceled /\ Counted /\ AnsweredIsRecorded /\ DoneIsStored

LEMMA BoundsNat == Runs \in Nat /\ Retries \in Nat /\ Window \in Nat \ {0}
BY SenderAssumption

LEMMA ChunkLenNat ==
    Idx = 1..Len(ChunkLen) /\ IsFiniteSet(Idx) /\ \A i \in Idx : ChunkLen[i] \in Nat
<1>1. ChunkLen \in Seq(Nat \ {0}) BY SenderAssumption
<1>2. Idx = 1..Len(ChunkLen) /\ Len(ChunkLen) \in Nat BY <1>1 DEF Idx
<1>3. IsFiniteSet(Idx) BY <1>2, FS_Interval
<1>4. \A i \in Idx : ChunkLen[i] \in Nat BY <1>1, <1>2
<1> QED BY <1>2, <1>3, <1>4

----------------------------------------------------------------------------
(* Steps of the receiver *)

(* p stands for the same request as q.                                        *)
Same(p, q) ==
    p.kind = q.kind /\ p.run = q.run /\ p.idx = q.idx /\ p.try = q.try

control == <<phase, run, pending, active, sleeping, tries>>

(* Only requests that were there already: what is said of them still holds.   *)
LEMMA Follow ==
    ASSUME SenderInv, UNCHANGED control,
           \A p \in net' : \E q \in net : Same(p, q)
    PROVE  Quiet' /\ Requested' /\ InitFirst' /\ Attempts' /\ NotCanceled'
<1> USE DEF SenderInv, control, Same
<1>1. Quiet' BY DEF Quiet
<1>2. Requested' BY DEF Requested
<1>3. InitFirst' BY DEF InitFirst
<1>4. Attempts' BY DEF Attempts
<1>5. NotCanceled' BY DEF NotCanceled
<1> QED BY <1>1, <1>2, <1>3, <1>4, <1>5

(* One request is handled a step further or goes away.                        *)
LEMMA Handled ==
    ASSUME SenderInv, UNCHANGED control, NEW q \in net, NEW p \in Requests,
           Same(p, q), net' \subseteq (net \ {q}) \cup {p}
    PROVE  /\ net' \subseteq Requests /\ OneInit'
           /\ Quiet' /\ Requested' /\ InitFirst' /\ Attempts' /\ NotCanceled'
<1>1. net' \subseteq Requests BY DEF SenderInv, TypeOK
<1>2. OneInit' BY DEF SenderInv, OneInit, Same
<1>3. \A r \in net' : \E s \in net : Same(r, s) BY DEF Same
<1> QED BY <1>1, <1>2, <1>3, Follow

(* A step of the receiver: a session that stays loses no chunk, and only an   *)
(* init makes one.                                                            *)
LEMMA ReceiverStep ==
    ASSUME SenderInv, UNCHANGED sender, NEW q \in net, NEW p \in Requests,
           Same(p, q), net' \subseteq (net \ {q}) \cup {p},
           recorded' \in (SUBSET Idx) \cup {NoSession}, disk' \subseteq Idx,
           short' \subseteq disk', removing' \in BOOLEAN, dir' \in BOOLEAN,
           stored \subseteq stored', stored' \subseteq 1..Runs,
           recorded # NoSession /\ recorded' # NoSession => recorded \subseteq recorded',
           recorded = NoSession /\ recorded' # NoSession => q.kind = "init",
           p \in net' /\ p.at = "ok" => HonestAnswer(p)'
    PROVE  SenderInv'
<1>1. UNCHANGED control BY DEF sender, control
<1>2. /\ net' \subseteq Requests /\ OneInit'
      /\ Quiet' /\ Requested' /\ InitFirst' /\ Attempts' /\ NotCanceled'
  BY <1>1, Handled
<1>3. TypeOK' BY <1>2 DEF SenderInv, TypeOK, sender
<1>4. Counted' BY DEF SenderInv, Counted, CountedApart, sender
<1>5. phase \in {"chunks", "complete"} /\ recorded' # NoSession
      => recorded # NoSession
  BY DEF SenderInv, InitFirst
<1>6. AnsweredIsRecorded' BY <1>5 DEF SenderInv, AnsweredIsRecorded, sender
<1>7. DoneIsStored' BY <1>2 DEF SenderInv, DoneIsStored, NotCanceled, sender
<1>8. ASSUME NEW r \in net', r.at = "ok" PROVE HonestAnswer(r)'
  <2>1. CASE r = p BY <1>8, <2>1
  <2>2. CASE r \in net \ {q}
    <3>1. HonestAnswer(r) BY <1>8, <2>2 DEF SenderInv, Honest
    <3>2. Awaited(r)' <=> Awaited(r) BY DEF Awaited, sender
    <3>3. r.kind = "chunk" /\ Awaited(r) => phase = "chunks" BY DEF Awaited
    <3>4. q.kind = "init" => r.kind # "init" BY <2>2 DEF SenderInv, OneInit
    <3> QED BY <3>1, <3>2, <3>3, <3>4, <1>5 DEF HonestAnswer
  <2> QED BY <2>1, <2>2
<1>9. Honest' BY <1>8 DEF Honest
<1> QED BY <1>2, <1>3, <1>4, <1>6, <1>7, <1>9 DEF SenderInv

Moved(q, label) == [q EXCEPT !.at = label]

LEMMA ProgressMoves ==
    ASSUME NEW q \in Requests, NEW label \in {"open", "saved", "ok", "error"},
           Progress(q, label)
    PROVE  /\ Moved(q, label) \in Requests /\ Same(Moved(q, label), q)
           /\ Moved(q, label).at = label
           /\ net' \subseteq (net \ {q}) \cup {Moved(q, label)}
BY DEF Requests, Moved, Same, Progress, Replace

(* An answered chunk is recorded, an answered complete has stored the file.   *)
LEMMA MovedHonest ==
    ASSUME NEW q \in Requests, NEW label,
           q.kind \in {"chunk", "complete"},
           q.kind = "chunk" /\ recorded' # NoSession => q.idx \in recorded',
           q.kind = "complete" => q.run \in stored'
    PROVE  HonestAnswer(Moved(q, label))'
BY DEF HonestAnswer, Moved, Requests

LEMMA ReceiveInitStep ==
    ASSUME SenderInv, NEW q \in net, ReceiveInit(q)
    PROVE  SenderInv'
<1>p. PICK p : p = [q EXCEPT !.at = "ok", !.got = recorded'] OBVIOUS
<1>1. q \in Requests /\ disk \subseteq Idx /\ recorded \in (SUBSET Idx) \cup {NoSession}
  BY DEF SenderInv, TypeOK
<1>2. /\ recorded' \in SUBSET Idx /\ q.kind = "init" /\ dir' \in BOOLEAN
      /\ UNCHANGED <<sender, removing, disk, short, stored>>
  BY <1>1 DEF ReceiveInit
<1>3. p \in Requests /\ Same(p, q) BY <1>p, <1>1, <1>2 DEF Requests, Same
<1>4. net' \subseteq (net \ {q}) \cup {p} BY <1>p DEF ReceiveInit, Replace
<1>5. HonestAnswer(p)'
  <2>1. p.kind = "init" /\ p.got = recorded' BY <1>p, <1>1, <1>2 DEF Requests
  <2> QED BY <2>1 DEF HonestAnswer
<1>6. recorded # NoSession => recorded' = recorded BY DEF ReceiveInit
<1>7. /\ stored' = stored /\ disk' \subseteq Idx /\ stored \subseteq 1..Runs
      /\ short' \subseteq disk' /\ removing' \in BOOLEAN
  BY <1>1, <1>2 DEF SenderInv, TypeOK
<1> QED BY <1>2, <1>3, <1>4, <1>5, <1>6, <1>7, ReceiverStep

LEMMA OpenChunkStep ==
    ASSUME SenderInv, NEW q \in net, OpenChunk(q)
    PROVE  SenderInv'
<1>1. /\ q \in Requests /\ recorded \in (SUBSET Idx) \cup {NoSession}
      /\ short \subseteq disk /\ removing \in BOOLEAN /\ dir \in BOOLEAN
      /\ disk \subseteq Idx /\ stored \subseteq 1..Runs /\ q.idx \in Idx
  BY DEF SenderInv, TypeOK, Requested, OpenChunk
<1>2. /\ UNCHANGED <<sender, removing, dir, disk, short, stored>>
      /\ recorded # NoSession /\ q.kind = "chunk"
  BY DEF OpenChunk, directory
<1>3. CASE q.idx \in disk
  <2>1. Progress(q, "ok") /\ recorded' = recorded \cup {q.idx}
    BY <1>3 DEF OpenChunk
  <2>2. recorded' \in SUBSET Idx BY <1>1, <1>2, <2>1
  <2>3. HonestAnswer(Moved(q, "ok"))' BY <1>1, <1>2, <2>1, MovedHonest
  <2> QED BY <1>1, <1>2, <2>1, <2>2, <2>3, ProgressMoves, ReceiverStep
<1>4. CASE q.idx \notin disk
  <2>1. Progress(q, "open") /\ recorded' = recorded BY <1>4 DEF OpenChunk
  <2>2. Moved(q, "open").at # "ok" BY <1>1, <2>1, ProgressMoves
  <2> QED BY <1>1, <1>2, <2>1, <2>2, ProgressMoves, ReceiverStep
<1> QED BY <1>3, <1>4

LEMMA SaveChunkStep ==
    ASSUME SenderInv, NEW q \in net, SaveChunk(q)
    PROVE  SenderInv'
<1>1. /\ q \in Requests /\ recorded \in (SUBSET Idx) \cup {NoSession}
      /\ short \subseteq disk /\ removing \in BOOLEAN /\ dir \in BOOLEAN
      /\ disk \subseteq Idx /\ stored \subseteq 1..Runs /\ q.idx \in Idx
  BY DEF SenderInv, TypeOK, Requested, SaveChunk
<1>2. /\ UNCHANGED <<sender, recorded, removing, dir, stored>>
      /\ disk' = disk \cup {q.idx} /\ short' = short \cup {q.idx}
      /\ Progress(q, "saved")
  BY DEF SaveChunk
<1>3. Moved(q, "saved").at # "ok" BY <1>1, <1>2, ProgressMoves
<1>4. disk' \subseteq Idx /\ short' \subseteq disk' BY <1>1, <1>2
<1> QED BY <1>1, <1>2, <1>3, <1>4, ProgressMoves, ReceiverStep

LEMMA RecordChunkStep ==
    ASSUME SenderInv, NEW q \in net, RecordChunk(q)
    PROVE  SenderInv'
<1>1. /\ q \in Requests /\ recorded \in (SUBSET Idx) \cup {NoSession}
      /\ short \subseteq disk /\ removing \in BOOLEAN /\ dir \in BOOLEAN
      /\ disk \subseteq Idx /\ stored \subseteq 1..Runs /\ q.idx \in Idx
  BY DEF SenderInv, TypeOK, Requested, RecordChunk
<1>2. /\ UNCHANGED <<sender, removing, dir, disk, short, stored>>
      /\ Progress(q, "ok") /\ q.kind = "chunk"
      /\ recorded' = IF recorded = NoSession THEN NoSession
                     ELSE recorded \cup {q.idx}
  BY DEF RecordChunk, directory
<1>3. recorded' \in (SUBSET Idx) \cup {NoSession} BY <1>1, <1>2
<1>4. /\ recorded = NoSession => recorded' = NoSession
      /\ recorded # NoSession => recorded \subseteq recorded' /\ q.idx \in recorded'
  BY <1>2
<1>5. HonestAnswer(Moved(q, "ok"))' BY <1>1, <1>2, <1>4, MovedHonest
<1>6. disk' \subseteq Idx /\ stored' = stored BY <1>1, <1>2
<1> QED BY <1>1, <1>2, <1>3, <1>4, <1>5, <1>6, ProgressMoves, ReceiverStep

LEMMA OpenCompleteStep ==
    ASSUME SenderInv, NEW q \in net, OpenComplete(q) \/ MergeChunks(q)
    PROVE  SenderInv'
<1>1. /\ q \in Requests /\ recorded \in (SUBSET Idx) \cup {NoSession}
      /\ short \subseteq disk /\ removing \in BOOLEAN /\ dir \in BOOLEAN
      /\ disk \subseteq Idx /\ stored \subseteq 1..Runs
  BY DEF SenderInv, TypeOK
<1>2. PICK label \in {"open", "saved", "error"} : Progress(q, label)
  BY DEF OpenComplete, MergeChunks
<1>3. UNCHANGED <<sender, receiver>> BY DEF OpenComplete, MergeChunks
<1>4. /\ recorded' = recorded /\ disk' = disk /\ stored' = stored
      /\ short' = short /\ removing' = removing /\ dir' = dir
  BY <1>3 DEF receiver, directory
<1>5. Moved(q, label).at # "ok" BY <1>1, <1>2, ProgressMoves
<1> QED BY <1>1, <1>2, <1>3, <1>4, <1>5, ProgressMoves, ReceiverStep

LEMMA StoreFileStep ==
    ASSUME SenderInv, NEW q \in net, StoreFile(q)
    PROVE  SenderInv'
<1>1. /\ q \in Requests /\ stored \subseteq 1..Runs /\ q.run \in 1..run /\ run \in 0..Runs
      /\ removing \in BOOLEAN
  BY DEF SenderInv, TypeOK, Requested
<1>2. /\ UNCHANGED <<sender, removing>> /\ Progress(q, "ok") /\ q.kind = "complete"
      /\ recorded' = NoSession /\ stored' = stored \cup {q.run}
      /\ dir' = FALSE /\ disk' = {} /\ short' = {}
  BY DEF StoreFile, NoDirectory
<1>3. HonestAnswer(Moved(q, "ok"))' BY <1>1, <1>2, MovedHonest
<1>4. stored' \subseteq 1..Runs
  <2>1. q.run \in 1..Runs BY <1>1, BoundsNat
  <2> QED BY <1>1, <1>2, <2>1
<1> QED BY <1>1, <1>2, <1>3, <1>4, ProgressMoves, ReceiverStep

(* A request that goes away, and a cancel that is carried out.                *)
LEMMA CancelStep ==
    ASSUME SenderInv, NEW q \in net, Vanish(q) \/ ReceiveCancel(q) \/ ClearCanceled(q)
    PROVE  SenderInv'
<1>1. /\ q \in Requests /\ recorded \in (SUBSET Idx) \cup {NoSession}
      /\ short \subseteq disk /\ removing \in BOOLEAN /\ dir \in BOOLEAN
      /\ disk \subseteq Idx /\ stored \subseteq 1..Runs
  BY DEF SenderInv, TypeOK
<1>2. PICK p : p = [q EXCEPT !.at = "open"] OBVIOUS
<1>3. p \in Requests /\ Same(p, q) /\ p.at # "ok"
  BY <1>1, <1>2 DEF Requests, Same
<1>4. /\ UNCHANGED <<sender, removing, stored>>
      /\ net' \subseteq (net \ {q}) \cup {p}
      /\ recorded' \in {recorded, NoSession}
      /\ \/ UNCHANGED <<dir, disk, short>>
         \/ dir' = FALSE /\ disk' = {} /\ short' = {}
  BY <1>2 DEF Vanish, ReceiveCancel, ClearCanceled, Replace, NoDirectory, receiver, directory
<1>5. recorded' \in (SUBSET Idx) \cup {NoSession} /\ disk' \subseteq Idx
      /\ short' \subseteq disk' /\ dir' \in BOOLEAN
  BY <1>1, <1>4
<1>6. /\ recorded # NoSession /\ recorded' # NoSession => recorded \subseteq recorded'
      /\ recorded = NoSession => recorded' = NoSession
  BY <1>4
<1> QED BY <1>1, <1>3, <1>4, <1>5, <1>6, ReceiverStep

LEMMA RefuseStep ==
    ASSUME SenderInv, NEW q \in net, Refuse(q)
    PROVE  SenderInv'
<1>1. /\ q \in Requests /\ recorded \in (SUBSET Idx) \cup {NoSession}
      /\ short \subseteq disk /\ removing \in BOOLEAN /\ dir \in BOOLEAN
      /\ disk \subseteq Idx /\ stored \subseteq 1..Runs
  BY DEF SenderInv, TypeOK
<1>2. Progress(q, "error") /\ UNCHANGED <<sender, receiver>> BY DEF Refuse
<1>3. /\ recorded' = recorded /\ disk' = disk /\ stored' = stored
      /\ short' = short /\ removing' = removing /\ dir' = dir
  BY <1>2 DEF receiver, directory
<1>4. Moved(q, "error").at # "ok" BY <1>1, <1>2, ProgressMoves
<1> QED BY <1>1, <1>2, <1>3, <1>4, ProgressMoves, ReceiverStep

(* The session is forgotten; the requests are the ones that were there.       *)
LEMMA ForgetStep ==
    ASSUME SenderInv, UNCHANGED <<sender, stored>>, recorded' = NoSession,
           disk' \subseteq Idx, short' \subseteq disk', removing' \in BOOLEAN,
           dir' \in BOOLEAN, OneInit', net' \subseteq Requests,
           \A p \in net' : \E q \in net : Same(p, q) /\ (p.at = "ok" => q.at = "ok")
    PROVE  SenderInv'
<1>1. UNCHANGED control BY DEF sender, control
<1>2. Quiet' /\ Requested' /\ InitFirst' /\ Attempts' /\ NotCanceled'
  BY <1>1, Follow
<1>3. TypeOK' BY DEF SenderInv, TypeOK, sender
<1>4. Counted' BY DEF SenderInv, Counted, CountedApart, sender
<1>5. AnsweredIsRecorded' BY DEF AnsweredIsRecorded
<1>6. DoneIsStored' BY <1>2 DEF SenderInv, DoneIsStored, NotCanceled, sender
<1>7. Honest' BY DEF SenderInv, Honest, HonestAnswer, Same
<1> QED BY <1>2, <1>3, <1>4, <1>5, <1>6, <1>7 DEF SenderInv

LEMMA ExpireStep == ASSUME SenderInv, Expire PROVE SenderInv'
<1>1. /\ UNCHANGED <<sender, stored>> /\ recorded' = NoSession /\ disk' \subseteq Idx
      /\ short' \subseteq disk' /\ removing' \in BOOLEAN /\ dir' \in BOOLEAN
  BY DEF Expire, directory, SenderInv, TypeOK
<1>2. net' = net BY DEF Expire
<1>3. OneInit' BY <1>2 DEF SenderInv, OneInit
<1>4. net' \subseteq Requests BY <1>2 DEF SenderInv, TypeOK
<1>5. \A p \in net' : Same(p, p) BY DEF Same
<1> QED BY <1>1, <1>2, <1>3, <1>4, <1>5, ForgetStep

(* Steps that touch neither the sender, nor the requests, nor the session.    *)
LEMMA DiskStep == ASSUME SenderInv, ExpireEnd \/ \E i \in Idx : Settle(i) PROVE SenderInv'
<1>1. /\ UNCHANGED <<sender, net, recorded, stored>>
      /\ disk' \subseteq Idx /\ short' \subseteq disk'
      /\ removing' \in BOOLEAN /\ dir' \in BOOLEAN
  BY DEF ExpireEnd, Settle, NoDirectory, SenderInv, TypeOK
<1> USE <1>1 DEF sender, SenderInv
<1>2. TypeOK' /\ Quiet' /\ Requested' BY DEF TypeOK, Quiet, Requested
<1>3. OneInit' /\ InitFirst' /\ Attempts' BY DEF OneInit, InitFirst, Attempts
<1>4. Honest' BY DEF Honest, HonestAnswer, Awaited
<1>5. NotCanceled' /\ AnsweredIsRecorded' /\ DoneIsStored'
  BY DEF NotCanceled, AnsweredIsRecorded, DoneIsStored
<1>6. Counted' BY DEF Counted, CountedApart
<1> QED BY <1>2, <1>3, <1>4, <1>5, <1>6

LEMMA RestartReceiverStep == ASSUME SenderInv, RestartReceiver PROVE SenderInv'
<1> DEFINE f(q) == [q EXCEPT !.at = IF @ \in {"open", "saved"} THEN "error" ELSE @]
<1>1. /\ UNCHANGED <<sender, stored>> /\ recorded' = NoSession /\ disk' \subseteq Idx
      /\ short' \subseteq disk' /\ removing' \in BOOLEAN /\ dir' \in BOOLEAN
      /\ net \subseteq Requests
  BY DEF RestartReceiver, directory, SenderInv, TypeOK
<1>2. ASSUME NEW q \in net
      PROVE  f(q) \in Requests /\ Same(f(q), q) /\ (f(q).at = "ok" => q.at = "ok")
  <2>1. q \in Requests BY <1>1
  <2> QED BY <2>1 DEF Requests, Same
<1>3. \A p \in net' : \E q \in net : p = f(q)
  <2>1. net' = {f(q) : q \in {p \in net : Awaited(p) \/ p.at = "sent"}}
    BY DEF RestartReceiver
  <2> HIDE DEF f
  <2> QED BY <2>1
<1> HIDE DEF f
<1>4. OneInit' BY <1>2, <1>3 DEF SenderInv, OneInit, Same
<1>5. /\ net' \subseteq Requests
      /\ \A p \in net' : \E q \in net : Same(p, q) /\ (p.at = "ok" => q.at = "ok")
  BY <1>2, <1>3
<1> QED BY <1>1, <1>4, <1>5, ForgetStep

----------------------------------------------------------------------------
(* Steps of the sender *)

LEMMA RequestType ==
    ASSUME NEW kind \in {"init", "chunk", "complete", "cancel"},
           NEW r \in Nat, NEW i \in Nat, NEW t \in Nat
    PROVE  LET q == Request(kind, r, i, t)
           IN  /\ q \in Requests /\ q.kind = kind /\ q.run = r /\ q.idx = i
               /\ q.try = t /\ q.at = "sent"
BY DEF Request, Requests

LEMMA StartStep == ASSUME SenderInv, Start PROVE SenderInv'
<1>1. PICK new : new = Request("init", run + 1, 0, 0) OBVIOUS
<1>2. /\ run \in Nat /\ run + 1 \in 1..Runs /\ Runs \in Nat
      /\ phase \in {"idle", "failed"} /\ phase' = "init" /\ run' = run + 1
      /\ net' = net \cup {new} /\ \A q \in net : q.kind # "init"
      /\ UNCHANGED <<pending, active, sleeping, tries, initial, shown>>
      /\ UNCHANGED <<recorded, removing, dir, disk, short, stored>>
  BY <1>1, BoundsNat DEF Start, SenderInv, TypeOK, receiver, directory
<1>3. /\ new \in Requests /\ new.kind = "init" /\ new.run = run + 1
      /\ new.at = "sent"
  BY <1>1, <1>2, RequestType
<1>4. \A q \in net : q.run \in 1..run BY DEF SenderInv, Requested
<1>5. TypeOK' BY <1>2, <1>3 DEF SenderInv, TypeOK
<1>6. Quiet' BY <1>2 DEF SenderInv, Quiet
<1>7. Requested'
  <2>1. \A q \in net : q.run \in 1..(run + 1) BY <1>2, <1>4
  <2> QED BY <1>2, <1>3, <2>1 DEF SenderInv, Requested
<1>8. OneInit' BY <1>2, <1>3 DEF OneInit
<1>9. \A q \in net : q.run # run + 1 BY <1>2, <1>4
<1>10. InitFirst' BY <1>2, <1>3, <1>9 DEF InitFirst
<1>11. Attempts' BY <1>2 DEF Attempts
<1>12. Honest' BY <1>2, <1>3 DEF SenderInv, Honest, HonestAnswer, Awaited
<1>13. NotCanceled' BY <1>2, <1>3, <1>9 DEF NotCanceled
<1>14. Counted' BY <1>2 DEF SenderInv, Counted, CountedApart
<1>15. AnsweredIsRecorded' /\ DoneIsStored'
  BY <1>2 DEF AnsweredIsRecorded, DoneIsStored
<1> QED BY <1>5, <1>6, <1>7, <1>8, <1>10, <1>11, <1>12, <1>13, <1>14, <1>15
        DEF SenderInv

LEMMA NoUnitsType ==
    /\ NoUnits \in [Idx -> 0..Retries] /\ NoUnits \in [Idx -> Nat]
    /\ \A i \in Idx : NoUnits[i] = 0
BY BoundsNat DEF NoUnits

LEMMA UnitsNat ==
    ASSUME NEW S \in SUBSET Idx
    PROVE  Units(S) \in Nat /\ (S = {} => Units(S) = 0)
<1>1. IsFiniteSet(S) BY ChunkLenNat, FS_Subset
<1> QED BY <1>1, ChunkLenNat, SumTakeOut, SumEquation DEF Units, Sum

LEMMA FailStep ==
    ASSUME SenderInv, NEW left \in SUBSET net, Fail(left),
           phase \in {"init", "chunks", "complete"}
    PROVE  SenderInv'
<1>1. /\ phase' = "failed" /\ active' = {} /\ sleeping' = {} /\ pending' = {}
      /\ tries' = NoUnits /\ initial' = 0 /\ shown' = NoUnits
      /\ UNCHANGED <<run, recorded, removing, dir, disk, short, stored>>
      /\ net' \subseteq Unanswered(left) \cup {Cancel}
  BY DEF Fail, receiver, directory
<1>2. run \in Nat /\ run >= 1 BY DEF SenderInv, TypeOK, Quiet
<1>3. /\ Cancel \in Requests /\ Cancel.kind = "cancel" /\ Cancel.run = run
      /\ Cancel.at = "sent"
  BY <1>2, RequestType DEF Cancel
<1>4. \A p \in net' : \/ p \in net /\ p.at # "ok"
                      \/ p = Cancel
  BY <1>1 DEF Unanswered
<1>5. TypeOK' BY <1>1, <1>3, <1>4, NoUnitsType DEF SenderInv, TypeOK
<1>6. Quiet' BY <1>1, <1>2 DEF Quiet
<1>7. Requested' BY <1>1, <1>2, <1>3, <1>4 DEF SenderInv, Requested
<1>8. OneInit' BY <1>3, <1>4 DEF SenderInv, OneInit
<1>9. InitFirst' /\ Attempts' /\ NotCanceled' /\ AnsweredIsRecorded' /\ DoneIsStored'
  BY <1>1 DEF InitFirst, Attempts, NotCanceled, AnsweredIsRecorded, DoneIsStored
<1>10. Honest' BY <1>3, <1>4 DEF Honest
<1>11. Counted'
  <2>1. /\ initial' = Units({}) /\ {} \in SUBSET Idx
        /\ \A i \in Idx : shown'[i] <= ChunkLen[i]
    BY <1>1, UnitsNat, NoUnitsType, ChunkLenNat
  <2>2. CountedApart({})' BY <2>1 DEF CountedApart, Units
  <2> QED BY <2>2 DEF Counted
<1> QED BY <1>5, <1>6, <1>7, <1>8, <1>9, <1>10, <1>11 DEF SenderInv

LEMMA FirstOfFacts ==
    ASSUME NEW S \in SUBSET Idx, NEW k \in Nat \ {0}
    PROVE  FirstOf(S, k) \subseteq S /\ (FirstOf(S, k) = {} => S = {})
<1>1. FirstOf(S, k) \subseteq S BY DEF FirstOf
<1>2. ASSUME S # {} PROVE FirstOf(S, k) # {}
  <2>1. S \subseteq Nat BY ChunkLenNat
  <2>2. IsWellFoundedOn(OpToRel(<, Nat), Nat) BY NatLessThanWellFounded
  <2>3. PICK x \in S : \A y \in S : <<y, x>> \notin OpToRel(<, Nat)
    BY <1>2, <2>1, <2>2, WFMin
  <2>4. {y \in S : y < x} = {} BY <2>1, <2>3 DEF OpToRel
  <2>5. Cardinality({y \in S : y < x}) = 0 BY <2>4, FS_EmptySet
  <2>6. x \in FirstOf(S, k) BY <2>5 DEF FirstOf
  <2> QED BY <2>6
<1> QED BY <1>1, <1>2

LEMMA ChunkRequestType ==
    ASSUME SenderInv, NEW i \in Idx, NEW t \in Nat
    PROVE  /\ ChunkRequest(i, t) \in Requests
           /\ ChunkRequest(i, t).kind = "chunk" /\ ChunkRequest(i, t).run = run
           /\ ChunkRequest(i, t).idx = i /\ ChunkRequest(i, t).try = t
           /\ ChunkRequest(i, t).at = "sent"
<1>1. run \in Nat /\ i \in Nat BY ChunkLenNat DEF SenderInv, TypeOK
<1> QED BY <1>1, RequestType DEF ChunkRequest

LEMMA InitAnsweredStep ==
    ASSUME SenderInv, NEW q \in net, InitAnswered(q)
    PROVE  SenderInv'
<1> DEFINE todo == Idx \ q.got
           first == FirstOf(todo, Window)
           chunks == {ChunkRequest(i, 0) : i \in first}
<1>1. PICK complete : complete = Request("complete", run, 0, 0) OBVIOUS
<1>2. /\ phase = "init" /\ q.run = run /\ q.kind = "init" /\ q.at = "ok"
      /\ q \in Requests /\ q.got \subseteq Idx /\ run \in Nat /\ run >= 1
  BY DEF SenderInv, TypeOK, Quiet, Requests, InitAnswered, Awaited
<1>3. /\ active' = first /\ pending' = todo \ first /\ sleeping' = {}
      /\ tries' = NoUnits /\ initial' = Units(q.got) /\ shown' = NoUnits
      /\ UNCHANGED <<run, recorded, removing, dir, disk, short, stored>>
  BY DEF InitAnswered, receiver, directory
<1>4. \/ /\ first = {} /\ phase' = "complete"
         /\ net' = (net \ {q}) \cup {complete}
      \/ /\ first # {} /\ phase' = "chunks"
         /\ net' = (net \ {q}) \cup chunks
  BY <1>1 DEF InitAnswered, Replace
<1>5. first \subseteq todo /\ (first = {} => todo = {})
  BY BoundsNat, FirstOfFacts
<1>6. /\ complete \in Requests /\ complete.kind = "complete"
      /\ complete.run = run /\ complete.at = "sent"
  BY <1>1, <1>2, RequestType
<1>7. \A p \in chunks : \E i \in first :
          /\ p \in Requests /\ p.kind = "chunk" /\ p.run = run /\ p.idx = i
          /\ p.try = 0 /\ p.at = "sent"
  <2>1. first \subseteq Idx BY <1>5
  <2> HIDE DEF first, todo
  <2>2. \A i \in first : i \in Idx /\ 0 \in Nat BY <2>1
  <2> QED BY <2>2, ChunkRequestType
<1> HIDE DEF todo, first, chunks
<1>8. \A p \in net \ {q} : p.kind # "init" /\ p.run # run
  BY <1>2 DEF SenderInv, OneInit, InitFirst
<1>9. \A p \in net' : \/ p \in net \ {q}
                      \/ p = complete /\ phase' = "complete"
                      \/ p \in chunks /\ phase' = "chunks"
  BY <1>4
<1>10. TypeOK'
  <2>1. net' \subseteq Requests BY <1>6, <1>7, <1>9 DEF SenderInv, TypeOK
  <2>2. phase' \in {"chunks", "complete"} BY <1>4
  <2>3. initial' \in Nat BY <1>2, <1>3, UnitsNat
  <2>4. tries' \in [Idx -> 0..Retries] /\ shown' \in [Idx -> Nat]
    BY <1>3, NoUnitsType
  <2>5. pending' \subseteq Idx /\ active' \subseteq Idx /\ sleeping' \subseteq active'
    BY <1>3, <1>5 DEF todo
  <2> QED BY <1>3, <2>1, <2>2, <2>3, <2>4, <2>5 DEF SenderInv, TypeOK
<1>11. Quiet' BY <1>2, <1>3, <1>4, <1>5 DEF Quiet
<1>12. Requested'
  <2>1. first \subseteq Idx BY <1>5 DEF todo
  <2> QED BY <1>2, <1>3, <1>6, <1>7, <1>9, <2>1 DEF SenderInv, Requested
<1>13. \A p \in net' : p.kind \in {"chunk", "complete"} \/ p \in net \ {q}
  BY <1>6, <1>7, <1>9
<1>14. OneInit' BY <1>8, <1>13 DEF OneInit
<1>15. InitFirst' BY <1>4, <1>8, <1>13 DEF InitFirst
<1>16. Attempts'
  <2>1. ASSUME NEW p \in net', phase' = "chunks", p.kind = "chunk", p.run = run
        PROVE  p.idx \in first /\ p.try = 0
    BY <1>6, <1>7, <1>8, <1>9, <2>1
  <2>2. \A i \in first : tries'[i] = 0 BY <1>3, <1>5, NoUnitsType DEF todo
  <2> QED BY <1>3, <2>1, <2>2 DEF Attempts
<1>17. Honest'
  <2>1. ASSUME NEW p \in net', p.at = "ok" PROVE HonestAnswer(p)'
    <3>1. p \in net \ {q} BY <1>6, <1>7, <1>9, <2>1
    <3>2. HonestAnswer(p) BY <2>1, <3>1 DEF SenderInv, Honest
    <3> QED BY <1>3, <1>8, <3>1, <3>2 DEF HonestAnswer, Awaited
  <2> QED BY <2>1 DEF Honest
<1>18. NotCanceled'
  <2>1. \A p \in net' : p.kind = "cancel" => p \in net \ {q} BY <1>13
  <2> QED BY <1>3, <1>8, <2>1 DEF NotCanceled
<1>19. AnsweredIsRecorded'
  <2>1. recorded # NoSession => q.got \subseteq recorded
    BY <1>2 DEF SenderInv, Honest, HonestAnswer
  <2>2. Idx \ (pending' \cup active') \subseteq q.got BY <1>3 DEF todo
  <2> QED BY <1>3, <2>1, <2>2 DEF AnsweredIsRecorded
<1>20. DoneIsStored' BY <1>4 DEF DoneIsStored
<1>21. Counted'
  <2>1. /\ initial' = Units(q.got) /\ q.got \in SUBSET Idx
        /\ \A i \in Idx : shown'[i] <= ChunkLen[i] /\ shown'[i] = 0
    BY <1>2, <1>3, NoUnitsType, ChunkLenNat
  <2>2. \A i \in q.got : i \notin pending' \cup active' BY <1>3, <1>5 DEF todo
  <2>3. CountedApart(q.got)' BY <2>1, <2>2 DEF CountedApart, Units
  <2> QED BY <2>1, <2>3 DEF Counted
<1> QED BY <1>10, <1>11, <1>12, <1>14, <1>15, <1>16, <1>17, <1>18, <1>19, <1>20, <1>21
        DEF SenderInv

LEMMA ChunkAnsweredStep ==
    ASSUME SenderInv, NEW q \in net, ChunkAnswered(q)
    PROVE  SenderInv'
<1> DEFINE next == FirstOf(pending, 1)
           left == (active \ {q.idx}) \cup next
           chunks == {ChunkRequest(i, 0) : i \in next}
<1>1. PICK complete : complete = Request("complete", run, 0, 0) OBVIOUS
<1>2. /\ phase = "chunks" /\ q.run = run /\ q.kind = "chunk" /\ q.at = "ok"
      /\ q.idx \in active \ sleeping /\ q.try = tries[q.idx] /\ Awaited(q)
      /\ q \in Requests /\ run \in Nat /\ run >= 1 /\ pending \subseteq Idx
      /\ active \subseteq Idx /\ sleeping \subseteq active /\ pending \cap active = {}
  BY DEF SenderInv, TypeOK, Quiet, ChunkAnswered, Awaited
<1>3. /\ active' = left /\ pending' = pending \ next
      /\ UNCHANGED <<run, sleeping, tries, initial, shown, recorded, removing, dir, disk,
                     short, stored>>
  BY DEF ChunkAnswered, receiver, directory
<1>4. \/ /\ left = {} /\ phase' = "complete"
         /\ net' = (net \ {q}) \cup {complete}
      \/ /\ left # {} /\ phase' = "chunks"
         /\ net' = (net \ {q}) \cup chunks
  BY <1>1, <1>2 DEF ChunkAnswered, Replace
<1>5. next \subseteq pending /\ (next = {} => pending = {})
  BY <1>2, FirstOfFacts
<1>6. /\ complete \in Requests /\ complete.kind = "complete"
      /\ complete.run = run /\ complete.at = "sent"
  BY <1>1, <1>2, RequestType
<1>7. \A p \in chunks : \E i \in next :
          /\ p \in Requests /\ p.kind = "chunk" /\ p.run = run /\ p.idx = i
          /\ p.try = 0 /\ p.at = "sent"
  <2>1. next \subseteq Idx BY <1>2, <1>5
  <2> HIDE DEF next
  <2>2. \A i \in next : i \in Idx /\ 0 \in Nat BY <2>1
  <2> QED BY <2>2, ChunkRequestType
<1> HIDE DEF next, chunks
<1>8. \A p \in net : p.kind # "init" BY <1>2 DEF SenderInv, InitFirst
<1>9. \A p \in net' : \/ p \in net \ {q}
                      \/ p = complete /\ phase' = "complete"
                      \/ p \in chunks /\ phase' = "chunks"
  BY <1>4
<1>10. TypeOK'
  <2>1. net' \subseteq Requests BY <1>6, <1>7, <1>9 DEF SenderInv, TypeOK
  <2>2. phase' \in {"chunks", "complete"} BY <1>4
  <2>3. pending' \subseteq Idx /\ active' \subseteq Idx /\ sleeping' \subseteq active'
    BY <1>2, <1>3, <1>5
  <2> QED BY <1>3, <2>1, <2>2, <2>3 DEF SenderInv, TypeOK
<1>11. Quiet' BY <1>2, <1>3, <1>4, <1>5 DEF Quiet
<1>12. Requested'
  <2>1. next \subseteq Idx BY <1>2, <1>5
  <2> QED BY <1>2, <1>3, <1>6, <1>7, <1>9, <2>1 DEF SenderInv, Requested
<1>13. \A p \in net' : p.kind \in {"chunk", "complete"} \/ p \in net \ {q}
  BY <1>6, <1>7, <1>9
<1>14. OneInit' /\ InitFirst' BY <1>4, <1>8, <1>13 DEF OneInit, InitFirst
<1>15. Attempts'
  <2>1. ASSUME NEW p \in net', phase' = "chunks", p.kind = "chunk", p.run = run
        PROVE  /\ p.idx \notin pending' /\ p.try <= tries[p.idx]
               /\ p.idx \in sleeping => p.try < tries[p.idx]
    <3>1. CASE p \in net \ {q} BY <1>2, <1>3, <2>1, <3>1 DEF SenderInv, Attempts
    <3>2. CASE p \in chunks
      <4>1. p.idx \in next /\ p.try = 0 BY <1>7, <3>2
      <4>2. p.idx \in Idx /\ p.idx \notin active BY <1>2, <1>5, <4>1
      <4>3. tries[p.idx] \in Nat BY <4>2 DEF SenderInv, TypeOK
      <4> QED BY <1>2, <1>3, <4>1, <4>2, <4>3
    <3> QED BY <1>9, <2>1, <3>1, <3>2
  <2> QED BY <1>3, <2>1 DEF Attempts
<1>16. Honest'
  <2>1. ASSUME NEW p \in net', p.at = "ok" PROVE HonestAnswer(p)'
    <3>1. p \in net \ {q} BY <1>6, <1>7, <1>9, <2>1
    <3>2. HonestAnswer(p) BY <2>1, <3>1 DEF SenderInv, Honest
    <3>3. p.kind = "chunk" /\ Awaited(p)' => Awaited(p)
      <4>1. p.kind = "chunk" /\ p.run = run => p.idx \notin pending
        BY <1>2, <3>1 DEF SenderInv, Attempts
      <4> QED BY <1>2, <1>3, <1>5, <4>1 DEF Awaited
    <3> QED BY <1>3, <3>2, <3>3 DEF HonestAnswer
  <2> QED BY <2>1 DEF Honest
<1>17. NotCanceled'
  <2>1. \A p \in net' : p.kind = "cancel" => p \in net \ {q} BY <1>13
  <2> QED BY <1>2, <1>3, <2>1 DEF SenderInv, NotCanceled
<1>18. AnsweredIsRecorded'
  <2>1. recorded # NoSession =>
          q.idx \in recorded /\ Idx \ (pending \cup active) \subseteq recorded
    BY <1>2 DEF SenderInv, Honest, HonestAnswer, AnsweredIsRecorded
  <2> QED BY <1>3, <1>5, <2>1 DEF AnsweredIsRecorded
<1>19. DoneIsStored' BY <1>4 DEF DoneIsStored
<1>20. Counted'
  <2>1. PICK G \in SUBSET Idx : CountedApart(G) BY DEF SenderInv, Counted
  <2>2. pending' \cup active' \subseteq pending \cup active BY <1>3, <1>5
  <2>3. CountedApart(G)' BY <1>3, <2>1, <2>2 DEF CountedApart
  <2> QED BY <2>3 DEF Counted
<1> QED BY <1>10, <1>11, <1>12, <1>14, <1>15, <1>16, <1>17, <1>18, <1>19, <1>20
        DEF SenderInv

LEMMA CompleteAnsweredStep ==
    ASSUME SenderInv, NEW q \in net, CompleteAnswered(q)
    PROVE  SenderInv'
<1>1. /\ phase = "complete" /\ q.run = run /\ q.kind = "complete" /\ q.at = "ok"
      /\ phase' = "done" /\ net' = net \ {q}
      /\ UNCHANGED <<run, pending, active, sleeping, tries, initial, shown>>
      /\ UNCHANGED <<recorded, removing, dir, disk, short, stored>>
  BY DEF CompleteAnswered, Awaited, receiver, directory
<1> USE <1>1 DEF SenderInv
<1>2. TypeOK' BY DEF TypeOK
<1>3. Quiet' /\ Requested' /\ OneInit' /\ InitFirst' /\ Attempts'
  BY DEF Quiet, Requested, OneInit, InitFirst, Attempts
<1>4. Honest' BY DEF Honest, HonestAnswer, Awaited
<1>5. NotCanceled' BY DEF NotCanceled
<1>6. Counted' BY DEF Counted, CountedApart
<1>7. AnsweredIsRecorded' BY DEF AnsweredIsRecorded
<1>8. run \in stored BY DEF Honest, HonestAnswer
<1>9. DoneIsStored' BY <1>5, <1>8 DEF DoneIsStored, NotCanceled
<1> QED BY <1>2, <1>3, <1>4, <1>5, <1>6, <1>7, <1>9

LEMMA ReadBodyStep ==
    ASSUME SenderInv, NEW q \in net, ReadBody(q)
    PROVE  SenderInv'
<1>1. PICK p : p = [q EXCEPT !.sent = @ + 1] OBVIOUS
<1>2. /\ phase = "chunks" /\ q.idx \in active /\ q.idx \in Idx /\ q \in Requests
      /\ q.at \in {"sent", "open"} /\ q.sent < ChunkLen[q.idx] /\ q.sent \in Nat
      /\ net' = (net \ {q}) \cup {p}
      /\ shown' = [shown EXCEPT ![q.idx] = q.sent + 1] /\ UNCHANGED control
      /\ UNCHANGED <<initial, recorded, removing, dir, disk, short, stored>>
      /\ shown \in [Idx -> Nat]
  BY <1>1 DEF SenderInv, TypeOK, Requests, ReadBody, Awaited, Replace, control, receiver, directory
<1>3. p \in Requests /\ Same(p, q) /\ p.at = q.at
  BY <1>1, <1>2 DEF Requests, Same
<1>4. /\ net' \subseteq Requests /\ OneInit'
      /\ Quiet' /\ Requested' /\ InitFirst' /\ Attempts' /\ NotCanceled'
  BY <1>2, <1>3, Handled
<1>5. TypeOK' BY <1>2, <1>4 DEF SenderInv, TypeOK, control
<1>6. Honest'
  <2>1. ASSUME NEW r \in net', r.at = "ok" PROVE HonestAnswer(r)'
    <3>1. r \in net BY <1>2, <1>3, <2>1
    <3>2. HonestAnswer(r) BY <2>1, <3>1 DEF SenderInv, Honest
    <3> QED BY <1>2, <3>2 DEF HonestAnswer, Awaited, control
  <2> QED BY <2>1 DEF Honest
<1>7. Counted'
  <2>1. PICK G \in SUBSET Idx : CountedApart(G) BY DEF SenderInv, Counted
  <2>2. q.idx \notin G BY <1>2, <2>1 DEF CountedApart
  <2>3. q.sent + 1 <= ChunkLen[q.idx] BY <1>2, ChunkLenNat
  <2>4. CountedApart(G)' BY <1>2, <2>1, <2>2, <2>3 DEF CountedApart, control
  <2> QED BY <2>4 DEF Counted
<1>8. AnsweredIsRecorded' BY <1>2 DEF SenderInv, AnsweredIsRecorded, control
<1>9. DoneIsStored' BY <1>2 DEF DoneIsStored, control
<1> QED BY <1>4, <1>5, <1>6, <1>7, <1>8, <1>9 DEF SenderInv

(* A failed chunk waits for its next attempt.                                 *)
LEMMA RetryStep ==
    ASSUME SenderInv, NEW q \in net, NEW left \in SUBSET net, Awaited(q),
           q.kind = "chunk", tries[q.idx] < Retries, net' = left,
           sleeping' = sleeping \cup {q.idx},
           tries' = [tries EXCEPT ![q.idx] = @ + 1],
           UNCHANGED <<phase, run, pending, active, initial, shown, receiver>>
    PROVE  SenderInv'
<1>1. /\ phase = "chunks" /\ q.run = run /\ q.idx \in active /\ q.idx \in Idx
      /\ tries \in [Idx -> 0..Retries] /\ tries[q.idx] \in Nat
      /\ active \subseteq Idx /\ net \subseteq Requests
      /\ UNCHANGED <<recorded, removing, dir, disk, short, stored>>
  BY DEF Awaited, SenderInv, TypeOK, receiver, directory
<1>2. /\ tries' \in [Idx -> 0..Retries]
      /\ tries'[q.idx] = tries[q.idx] + 1
      /\ \A i \in Idx \ {q.idx} : tries'[i] = tries[i]
  BY <1>1, BoundsNat
<1>3. TypeOK' BY <1>1, <1>2 DEF SenderInv, TypeOK
<1>4. Quiet' /\ Requested' /\ OneInit' /\ InitFirst' /\ NotCanceled'
  BY DEF SenderInv, Quiet, Requested, OneInit, InitFirst, NotCanceled
<1>5. Attempts'
  <2>1. ASSUME NEW p \in net', p.kind = "chunk", p.run = run
        PROVE  /\ p.idx \notin pending /\ p.try <= tries'[p.idx]
               /\ p.idx \in sleeping' => p.try < tries'[p.idx]
    <3>1. /\ p.idx \notin pending /\ p.try <= tries[p.idx] /\ p.try \in Nat
          /\ p.idx \in sleeping => p.try < tries[p.idx]
          /\ p.idx \in Idx
      BY <1>1, <2>1 DEF SenderInv, Attempts, Requested, Requests
    <3>2. CASE p.idx = q.idx BY <1>1, <1>2, <3>1, <3>2
    <3>3. CASE p.idx # q.idx BY <1>2, <3>1, <3>3
    <3> QED BY <3>2, <3>3
  <2> QED BY <2>1 DEF Attempts
<1>6. Honest'
  <2>1. ASSUME NEW p \in net', p.at = "ok" PROVE HonestAnswer(p)'
    <3>1. HonestAnswer(p) /\ (p.kind = "chunk" => p.idx \in Idx)
      BY <2>1 DEF SenderInv, Honest, Requested
    <3>2. p.kind = "chunk" /\ Awaited(p)' => Awaited(p)
      BY <1>1, <1>2, <3>1 DEF Awaited
    <3> QED BY <1>1, <3>1, <3>2 DEF HonestAnswer
  <2> QED BY <2>1 DEF Honest
<1>7. Counted' BY DEF SenderInv, Counted, CountedApart
<1>8. AnsweredIsRecorded' BY <1>1 DEF SenderInv, AnsweredIsRecorded
<1>9. DoneIsStored' BY <1>1 DEF DoneIsStored
<1> QED BY <1>3, <1>4, <1>5, <1>6, <1>7, <1>8, <1>9 DEF SenderInv

LEMMA RequestFailedStep ==
    ASSUME SenderInv, NEW q \in net, NEW left \in SUBSET net,
           RequestFailed(q, left)
    PROVE  SenderInv'
<1>1. CASE q.kind = "chunk" /\ tries[q.idx] < Retries
  BY <1>1, RetryStep DEF RequestFailed
<1>2. CASE ~(q.kind = "chunk" /\ tries[q.idx] < Retries)
  <2>1. phase \in {"init", "chunks", "complete"} BY DEF RequestFailed, Awaited
  <2> QED BY <1>2, <2>1, FailStep DEF RequestFailed
<1> QED BY <1>1, <1>2

(* The next attempt of a chunk: its earlier ones have lower numbers.          *)
LEMMA WakeStep ==
    ASSUME SenderInv, NEW i \in Idx, Wake(i)
    PROVE  SenderInv'
<1>1. PICK new : new = ChunkRequest(i, tries[i]) OBVIOUS
<1>2. /\ i \in sleeping /\ i \in active /\ phase = "chunks" /\ i \notin pending
      /\ tries[i] \in Nat /\ run \in Nat /\ run >= 1
      /\ sleeping' = sleeping \ {i} /\ net' = net \cup {new}
      /\ UNCHANGED <<phase, run, pending, active, tries, initial, shown>>
      /\ UNCHANGED <<recorded, removing, dir, disk, short, stored>>
  BY <1>1 DEF SenderInv, TypeOK, Quiet, Wake, receiver, directory
<1>3. /\ new \in Requests /\ new.kind = "chunk" /\ new.run = run
      /\ new.idx = i /\ new.try = tries[i] /\ new.at = "sent"
  BY <1>1, <1>2, ChunkRequestType
<1>4. TypeOK' BY <1>2, <1>3 DEF SenderInv, TypeOK
<1>5. Quiet' BY <1>2 DEF SenderInv, Quiet
<1>6. Requested' BY <1>2, <1>3 DEF SenderInv, Requested
<1>7. OneInit' /\ InitFirst' BY <1>2, <1>3 DEF SenderInv, OneInit, InitFirst
<1>8. Attempts' BY <1>2, <1>3 DEF SenderInv, Attempts
<1>9. Honest'
  <2>1. ASSUME NEW p \in net', p.at = "ok" PROVE HonestAnswer(p)'
    <3>1. p \in net BY <1>2, <1>3, <2>1
    <3>2. HonestAnswer(p) BY <2>1, <3>1 DEF SenderInv, Honest
    <3>3. p.kind = "chunk" /\ Awaited(p)' => Awaited(p)
      <4>1. p.kind = "chunk" /\ p.run = run /\ p.idx = i => p.try < tries[i]
        BY <1>2, <3>1 DEF SenderInv, Attempts
      <4>2. p.try \in Nat BY <3>1 DEF SenderInv, TypeOK, Requests
      <4>3. p.kind = "chunk" /\ p.run = run /\ p.idx = i => p.try # tries[i]
        BY <1>2, <4>1, <4>2
      <4> QED BY <1>2, <4>3 DEF Awaited
    <3> QED BY <1>2, <3>2, <3>3 DEF HonestAnswer
  <2> QED BY <2>1 DEF Honest
<1>10. NotCanceled' BY <1>2, <1>3 DEF SenderInv, NotCanceled
<1>11. Counted' BY <1>2 DEF SenderInv, Counted, CountedApart
<1>12. AnsweredIsRecorded' BY <1>2 DEF SenderInv, AnsweredIsRecorded
<1>13. DoneIsStored' BY <1>2 DEF DoneIsStored
<1> QED BY <1>4, <1>5, <1>6, <1>7, <1>8, <1>9, <1>10, <1>11, <1>12, <1>13
        DEF SenderInv

----------------------------------------------------------------------------
(* Theorems *)

LEMMA InitInv == Init => SenderInv
<1> SUFFICES ASSUME Init PROVE SenderInv OBVIOUS
<1>1. /\ phase = "idle" /\ run = 0 /\ pending = {} /\ active = {} /\ sleeping = {}
      /\ tries = NoUnits /\ initial = 0 /\ shown = NoUnits /\ net = {}
      /\ disk \subseteq Idx /\ recorded \in (SUBSET Idx) \cup {NoSession}
      /\ short \subseteq disk /\ removing \in BOOLEAN /\ dir \in BOOLEAN
      /\ stored = {}
  BY DEF Init
<1>2. TypeOK BY <1>1, NoUnitsType, BoundsNat DEF TypeOK
<1>3. /\ Quiet /\ Requested /\ OneInit /\ InitFirst /\ Attempts /\ Honest
      /\ NotCanceled /\ AnsweredIsRecorded /\ DoneIsStored
  BY <1>1 DEF Quiet, Requested, OneInit, InitFirst, Attempts, Honest, NotCanceled,
              AnsweredIsRecorded, DoneIsStored
<1>4. CountedApart({})
  <2>1. initial = Units({}) BY <1>1, UnitsNat
  <2>2. \A i \in Idx : shown[i] <= ChunkLen[i]
    BY <1>1, NoUnitsType, ChunkLenNat
  <2> QED BY <2>1, <2>2 DEF CountedApart
<1> QED BY <1>2, <1>3, <1>4 DEF SenderInv, Counted

LEMMA NextInv == SenderInv /\ [Next]_vars => SenderInv'
<1> SUFFICES ASSUME SenderInv, [Next]_vars PROVE SenderInv' OBVIOUS
<1>1. CASE Start BY <1>1, StartStep
<1>2. CASE Abort
  <2>1. net \in SUBSET net OBVIOUS
  <2> QED BY <1>2, <2>1, FailStep DEF Abort
<1>3. CASE Expire \/ ExpireEnd \/ \E i \in Idx : Settle(i)
  BY <1>3, ExpireStep, DiskStep
<1>4. CASE RestartReceiver BY <1>4, RestartReceiverStep
<1>5. ASSUME NEW i \in Idx, Wake(i) PROVE SenderInv' BY <1>5, WakeStep
<1>6. ASSUME NEW q \in net, Answered(q) \/ ReadBody(q) PROVE SenderInv'
  <2>1. CASE InitAnswered(q) BY <2>1, InitAnsweredStep
  <2>2. CASE ChunkAnswered(q) BY <2>2, ChunkAnsweredStep
  <2>3. CASE CompleteAnswered(q) BY <2>3, CompleteAnsweredStep
  <2>4. CASE ErrorAnswered(q)
    <3>1. net \ {q} \in SUBSET net OBVIOUS
    <3> QED BY <2>4, <3>1, RequestFailedStep DEF ErrorAnswered
  <2>5. CASE ReadBody(q) BY <2>5, ReadBodyStep
  <2> QED BY <1>6, <2>1, <2>2, <2>3, <2>4, <2>5 DEF Answered
<1>7. ASSUME NEW q \in net, Handle(q) PROVE SenderInv'
  <2>1. CASE ReceiveInit(q) BY <2>1, ReceiveInitStep
  <2>2. CASE OpenChunk(q) BY <2>2, OpenChunkStep
  <2>3. CASE SaveChunk(q) BY <2>3, SaveChunkStep
  <2>4. CASE RecordChunk(q) BY <2>4, RecordChunkStep
  <2>5. CASE OpenComplete(q) \/ MergeChunks(q) BY <2>5, OpenCompleteStep
  <2>6. CASE StoreFile(q) BY <2>6, StoreFileStep
  <2>7. CASE ReceiveCancel(q) \/ ClearCanceled(q) BY <2>7, CancelStep
  <2>8. CASE Refuse(q) BY <2>8, RefuseStep
  <2> QED BY <1>7, <2>1, <2>2, <2>3, <2>4, <2>5, <2>6, <2>7, <2>8 DEF Handle
<1>8. ASSUME NEW q \in net, Break(q) PROVE SenderInv'
  <2>1. PICK rest \in {{}, Unanswered({q})} :
            RequestFailed(q, (net \ {q}) \cup rest)
    BY <1>8 DEF Break
  <2>2. (net \ {q}) \cup rest \in SUBSET net BY DEF Unanswered
  <2> QED BY <2>1, <2>2, RequestFailedStep
<1>9. ASSUME NEW q \in net, Vanish(q) PROVE SenderInv' BY <1>9, CancelStep
<1>10. CASE UNCHANGED vars
  <2> USE <1>10 DEF vars, sender, receiver, directory, SenderInv
  <2>1. TypeOK' /\ Quiet' /\ Requested' BY DEF TypeOK, Quiet, Requested
  <2>2. OneInit' /\ InitFirst' /\ Attempts' BY DEF OneInit, InitFirst, Attempts
  <2>3. Honest' BY DEF Honest, HonestAnswer, Awaited
  <2>4. NotCanceled' /\ AnsweredIsRecorded' /\ DoneIsStored'
    BY DEF NotCanceled, AnsweredIsRecorded, DoneIsStored
  <2>5. Counted' BY DEF Counted, CountedApart
  <2> QED BY <2>1, <2>2, <2>3, <2>4, <2>5
<1> QED BY <1>1, <1>2, <1>3, <1>4, <1>5, <1>6, <1>7, <1>8, <1>9, <1>10 DEF Next

(* Every variable keeps its type, every request is one of the current or an   *)
(* earlier run, and the rest of the inductive invariant holds.                *)
THEOREM Invariance == Spec => []SenderInv
BY InitInv, NextInv, PTL DEF Spec

THEOREM Typing == Spec => []TypeOK
<1>1. SenderInv => TypeOK BY DEF SenderInv
<1> QED BY <1>1, Invariance, PTL

(* Every chunk the sender no longer cares for is recorded in the session, as  *)
(* long as there is one.                                                      *)
THEOREM RecordedTheorem == Spec => []AnsweredIsRecorded
<1>1. SenderInv => AnsweredIsRecorded BY DEF SenderInv
<1> QED BY <1>1, Invariance, PTL

(* A success that is reported is that of this very run, and is not canceled.  *)
THEOREM StoredTheorem == Spec => []DoneIsStored
<1>1. SenderInv => DoneIsStored BY DEF SenderInv
<1> QED BY <1>1, Invariance, PTL

(* The progress shown never passes the length of the file: the chunks that    *)
(* the receiver had and those that are sent are never counted twice.          *)
THEOREM ProgressTheorem == Spec => []NeverPastTotal
<1>1. SenderInv => NeverPastTotal
  <2> SUFFICES ASSUME SenderInv PROVE NeverPastTotal OBVIOUS
  <2>1. PICK G \in SUBSET Idx : CountedApart(G) BY DEF SenderInv, Counted
  <2>2. shown \in [Idx -> Nat] BY DEF SenderInv, TypeOK
  <2>3. \A i \in Idx : /\ ChunkLen[i] \in Nat /\ shown[i] \in Nat
                       /\ shown[i] <= ChunkLen[i] /\ (i \in G => shown[i] = 0)
    BY <2>1, <2>2, ChunkLenNat DEF CountedApart
  <2>4. Sum(ChunkLen, G) + Sum(shown, Idx) <= Sum(ChunkLen, Idx)
    BY <2>3, ChunkLenNat, SumsDisjoint
  <2>5. initial = Sum(ChunkLen, G) BY <2>1 DEF CountedApart, Units, Sum
  <2>6. SumFunction(shown) = Sum(shown, Idx) BY <2>2 DEF SumFunction, Sum
  <2>7. Total = Sum(ChunkLen, Idx) BY DEF Total, Units, Sum
  <2> QED BY <2>4, <2>5, <2>6, <2>7 DEF NeverPastTotal, TotalSent
<1> QED BY <1>1, Invariance, PTL

(* No late request brings back the session of a failed upload, unless an init *)
(* is still on its way.                                                       *)
THEOREM NotRevivedTheorem == Spec => NotRevived
<1>1. ASSUME [Next]_vars, phase = "failed", recorded = NoSession,
             ~\E q \in net : q.kind = "init"
      PROVE  recorded' = NoSession
  <2>1. CASE \/ Start \/ Abort \/ Expire \/ ExpireEnd \/ RestartReceiver
             \/ \E i \in Idx : Wake(i) \/ Settle(i)
    BY <1>1, <2>1 DEF Start, Abort, Fail, Expire, ExpireEnd, RestartReceiver, Wake,
                      Settle, receiver, directory
  <2>2. ASSUME NEW q \in net, Answered(q) \/ ReadBody(q) PROVE recorded' = NoSession
    BY <1>1, <2>2 DEF Answered, InitAnswered, ChunkAnswered, CompleteAnswered,
                      ErrorAnswered, RequestFailed, Fail, ReadBody, receiver, directory
  <2>3. ASSUME NEW q \in net, Handle(q) PROVE recorded' = NoSession
    BY <1>1, <2>3 DEF Handle, ReceiveInit, OpenChunk, SaveChunk, RecordChunk,
                      OpenComplete, MergeChunks, StoreFile, ReceiveCancel, ClearCanceled, Refuse,
                      receiver, directory
  <2>4. ASSUME NEW q \in net, Break(q) \/ Vanish(q) PROVE recorded' = NoSession
    BY <1>1, <2>4 DEF Break, Vanish, RequestFailed, Fail, receiver, directory
  <2>5. CASE UNCHANGED vars BY <1>1, <2>5 DEF vars, receiver
  <2> QED BY <1>1, <2>1, <2>2, <2>3, <2>4, <2>5 DEF Next
<1> QED BY <1>1, PTL DEF Spec, NotRevived
=============================================================================
