-------------------------- MODULE HandleFileProofs --------------------------
(* Theorems about HandleFile for every set of uploads, names, contents and    *)
(* failures.  HFInv is inductive: the typing of try and path makes the steps  *)
(* of Reserve well defined, OwnPlaceholder says what Rename and               *)
(* RemovePlaceholder overwrite, OkIsStored what they must not touch.          *)
EXTENDS HandleFile, TLAPS

HFInv == HFTypeOK /\ OwnPlaceholder /\ OkIsStored

(* The directory, the handlers and their counters keep their types.          *)
LEMMA HFTyping == ASSUME HFTypeOK, HFNext PROVE HFTypeOK'
<1> USE HandleFileAssumption DEF HFTypeOK
<1> SUFFICES ASSUME NEW u \in Uploads, Arrive(u) \/ Handle(u) \/ Drop(u)
             PROVE  HFTypeOK'
  BY DEF HFNext
<1>1. CASE Arrive(u)
  BY <1>1 DEF Arrive, Step, directory
<1>2. CASE Reserve(u)
  <2> DEFINE k == try[u] + 1
             c == Candidates[u]
  <2>1. c \in Seq(Paths) /\ k \in Nat /\ Len(c) \in Nat /\ DOMAIN c = 1..Len(c)
    OBVIOUS
  <2>2. CASE /\ k \in DOMAIN c /\ files[c[k]] = Absent
             /\ Step(u, "reserve", "open")
             /\ path' = [path EXCEPT ![u] = c[k]]
             /\ files' = [files EXCEPT ![c[k]] = Empty]
             /\ UNCHANGED <<try, parts>>
    <3>1. c[k] \in Paths
      BY <2>1, <2>2
    <3> QED BY <2>2, <3>1 DEF Step
  <2>3. CASE /\ k \in DOMAIN c /\ Step(u, "reserve", "reserve")
             /\ try' = [try EXCEPT ![u] = k]
             /\ UNCHANGED <<files, path, parts>>
    <3>1. k <= Len(c)
      BY <2>1, <2>3
    <3> QED BY <2>1, <2>3, <3>1 DEF Step
  <2>4. CASE Step(u, "reserve", "error") /\ UNCHANGED <<files, try, path, parts>>
    BY <2>4 DEF Step
  <2> QED BY <1>2, <2>2, <2>3, <2>4 DEF Reserve
<1>3. CASE OpenPart(u)
  BY <1>3 DEF OpenPart, Step
<1>4. CASE ReceiveBody(u)
  BY <1>4 DEF ReceiveBody, Step, directory
<1>5. CASE Rename(u)
  BY <1>5 DEF Rename, Step, directory
<1>6. CASE ReadRest(u)
  BY <1>6 DEF ReadRest, Step, directory
<1>7. CASE RemovePart(u)
  BY <1>7 DEF RemovePart, Step
<1>8. CASE RemovePlaceholder(u)
  BY <1>8 DEF RemovePlaceholder, Step
<1>9. CASE Drop(u)
  BY <1>9 DEF Drop, directory
<1> QED BY <1>1, <1>2, <1>3, <1>4, <1>5, <1>6, <1>7, <1>8, <1>9 DEF Handle

(* A handler that changes neither the files nor its path, and reserves and   *)
(* stores no more than before, disturbs no other.                            *)
LEMMA Quiet ==
    ASSUME HFInv, NEW u \in Uploads, UNCHANGED <<files, path>>,
           \A v \in Uploads \ {u} : pc'[v] = pc[v],
           Reserved(u)' => Reserved(u),
           Stored(u)' => Stored(u)
    PROVE  OwnPlaceholder' /\ OkIsStored'
  BY DEF HFInv, OwnPlaceholder, OkIsStored, Reserved, Stored

(* Each step keeps placeholders apart and received files in place.           *)
LEMMA HFStep == ASSUME HFInv, HFNext PROVE OwnPlaceholder' /\ OkIsStored'
<1> USE HandleFileAssumption
<1> SUFFICES ASSUME NEW u \in Uploads, Arrive(u) \/ Handle(u) \/ Drop(u)
             PROVE  OwnPlaceholder' /\ OkIsStored'
  BY DEF HFNext
<1>t. HFTypeOK /\ OwnPlaceholder /\ OkIsStored
  BY DEF HFInv
<1>1. CASE Arrive(u)
  BY <1>1, <1>t, Quiet DEF Arrive, Step, directory, Reserved, Stored, HFTypeOK
<1>2. CASE Reserve(u)
  <2> DEFINE k == try[u] + 1
             c == Candidates[u]
  <2>1. CASE /\ k \in DOMAIN c /\ files[c[k]] = Absent
             /\ Step(u, "reserve", "open")
             /\ path' = [path EXCEPT ![u] = c[k]]
             /\ files' = [files EXCEPT ![c[k]] = Empty]
    <3>1. c[k] \in Paths
      BY <2>1 DEF HFTypeOK
    <3>2. \A v \in Uploads \ {u} : Reserved(v) \/ Stored(v) => path[v] # c[k]
      BY <1>t, <2>1 DEF OwnPlaceholder, OkIsStored, HFTypeOK
    <3>3. /\ pc'[u] = "open" /\ path'[u] = c[k]
          /\ \A v \in Uploads \ {u} : pc'[v] = pc[v] /\ path'[v] = path[v]
      BY <1>t, <2>1 DEF Step, HFTypeOK
    <3>4. files'[c[k]] = Empty /\ \A p \in Paths \ {c[k]} : files'[p] = files[p]
      BY <1>t, <2>1, <3>1 DEF HFTypeOK
    <3>5. \A v \in Uploads : path[v] \in Paths
      BY <1>t DEF HFTypeOK
    <3> HIDE DEF k, c
    <3>6. OkIsStored'
      BY <1>t, <3>2, <3>3, <3>4, <3>5 DEF OkIsStored, Stored
    <3>7. OwnPlaceholder'
      <4> SUFFICES ASSUME NEW w \in Uploads, Reserved(w)'
                   PROVE  /\ files'[path'[w]] = Empty
                          /\ \A v \in Uploads \ {w} :
                                Reserved(v)' \/ Stored(v)' => path'[v] # path'[w]
        BY DEF OwnPlaceholder
      <4>1. CASE w = u
        BY <4>1, <3>2, <3>3, <3>4 DEF Reserved, Stored
      <4>2. CASE w # u
        <5>1. Reserved(w) /\ path[w] # c[k] /\ path'[w] = path[w]
          BY <4>2, <3>2, <3>3 DEF Reserved
        <5>2. files'[path'[w]] = Empty
          BY <5>1, <1>t, <3>4, <3>5 DEF OwnPlaceholder
        <5>3. ASSUME NEW v \in Uploads \ {w}, Reserved(v)' \/ Stored(v)'
              PROVE  path'[v] # path'[w]
          BY <5>1, <5>3, <1>t, <3>3 DEF OwnPlaceholder, Reserved, Stored
        <5> QED BY <5>2, <5>3
      <4> QED BY <4>1, <4>2
    <3> QED BY <3>6, <3>7
  <2>2. CASE \/ Step(u, "reserve", "reserve") /\ UNCHANGED <<files, path>>
             \/ Step(u, "reserve", "error") /\ UNCHANGED <<files, path>>
    BY <2>2, <1>t, Quiet DEF Step, Reserved, Stored, HFTypeOK
  <2> QED BY <1>2, <2>1, <2>2 DEF Reserve
<1>3. CASE OpenPart(u)
  BY <1>3, <1>t, Quiet DEF OpenPart, Step, Reserved, Stored, HFTypeOK
<1>4. CASE ReceiveBody(u)
  BY <1>4, <1>t, Quiet DEF ReceiveBody, Step, directory, Reserved, Stored, HFTypeOK
<1>5. CASE Rename(u)
  <2>1. CASE Step(u, "rename", "unpart") /\ UNCHANGED <<files, path>>
    BY <2>1, <1>t, Quiet DEF Step, Reserved, Stored, HFTypeOK
  <2>2. CASE /\ Step(u, "rename", "rest") /\ UNCHANGED path
             /\ files' = [files EXCEPT ![path[u]] = Content[u]]
    <3>1. /\ pc[u] = "rename" /\ pc'[u] = "rest"
          /\ \A v \in Uploads \ {u} : pc'[v] = pc[v]
      BY <1>t, <2>2 DEF Step, HFTypeOK
    <3>2. \A v \in Uploads \ {u} : Reserved(v) \/ Stored(v) => path[v] # path[u]
      BY <1>t, <3>1 DEF OwnPlaceholder, Reserved
    <3>3. /\ files'[path[u]] = Content[u]
          /\ \A p \in Paths \ {path[u]} : files'[p] = files[p]
          /\ \A v \in Uploads : path[v] \in Paths
      BY <1>t, <2>2 DEF HFTypeOK
    <3> QED BY <1>t, <2>2, <3>1, <3>2, <3>3 DEF OwnPlaceholder, OkIsStored, Reserved, Stored
  <2> QED BY <1>5, <2>1, <2>2 DEF Rename, directory
<1>6. CASE ReadRest(u)
  BY <1>6, <1>t, Quiet DEF ReadRest, Step, directory, Reserved, Stored, HFTypeOK
<1>7. CASE RemovePart(u)
  BY <1>7, <1>t, Quiet DEF RemovePart, Step, Reserved, Stored, HFTypeOK
<1>8. CASE RemovePlaceholder(u)
  <2>1. CASE UNCHANGED files
    BY <1>8, <2>1, <1>t, Quiet DEF RemovePlaceholder, Step, Reserved, Stored, HFTypeOK
  <2>2. CASE files' = [files EXCEPT ![path[u]] = Absent]
    <3>1. /\ pc[u] \in {"unplace", "stuck"} /\ pc'[u] \in {"error", "left"} /\ path' = path
          /\ \A v \in Uploads \ {u} : pc'[v] = pc[v]
      BY <1>8, <1>t DEF RemovePlaceholder, Step, HFTypeOK
    <3>2. \A v \in Uploads \ {u} : Reserved(v) \/ Stored(v) => path[v] # path[u]
      BY <1>t, <3>1 DEF OwnPlaceholder, Reserved
    <3>3. /\ \A p \in Paths \ {path[u]} : files'[p] = files[p]
          /\ \A v \in Uploads : path[v] \in Paths
      BY <1>t, <2>2 DEF HFTypeOK
    <3> QED BY <1>t, <3>1, <3>2, <3>3 DEF OwnPlaceholder, OkIsStored, Reserved, Stored
  <2> QED BY <1>8, <2>1, <2>2 DEF RemovePlaceholder
<1>9. CASE Drop(u)
  BY <1>9, <1>t, Quiet DEF Drop, Refused, directory, Reserved, Stored, HFTypeOK
<1> QED BY <1>1, <1>2, <1>3, <1>4, <1>5, <1>6, <1>7, <1>8, <1>9 DEF Handle

(* A step leaves a part file or a placeholder only to a handler that will    *)
(* deal with it, was dropped, or failed to remove it.                        *)
LEMMA LitterStep == ASSUME HFInv, NoLitter, HFNext PROVE NoLitter'
<1> USE HandleFileAssumption DEF HFTypeOK
<1> SUFFICES ASSUME NEW u \in Uploads, Arrive(u) \/ Handle(u) \/ Drop(u)
             PROVE  NoLitter'
  BY DEF HFNext
<1> DEFINE PartKept(v) == pc[v] \in {"body", "rename", "unpart", "stuck", "left", "dropped"}
           Kept(v) == Reserved(v) \/ pc[v] \in {"left", "dropped"}
<1>t. HFTypeOK /\ OwnPlaceholder /\ parts \subseteq Uploads
  BY DEF HFInv
<1>l. /\ \A v \in parts : PartKept(v)
      /\ \A p \in Paths : files[p] = Empty => \E v \in Uploads : path[v] = p /\ Kept(v)
  BY DEF NoLitter
<1>s. \A v \in Uploads \ {u} : pc'[v] = pc[v] /\ path'[v] = path[v]
  BY <1>t DEF Arrive, Handle, Reserve, OpenPart, ReceiveBody, Rename, ReadRest, RemovePart,
     RemovePlaceholder, Drop, Step
<1>q. SUFFICES /\ \A v \in parts' : PartKept(v)'
               /\ \A p \in Paths : files'[p] = Empty =>
                     \E v \in Uploads : path'[v] = p /\ Kept(v)'
  BY DEF NoLitter
<1>1. \A v \in parts' : PartKept(v)'
  <2>1. \A v \in parts' \ {u} : v \in parts
    BY <1>t DEF Arrive, Handle, Reserve, OpenPart, ReceiveBody, Rename, ReadRest, RemovePart,
       RemovePlaceholder, Drop, directory
  <2>2. u \in parts' => PartKept(u)'
    BY <1>t, <1>l DEF Arrive, Handle, Reserve, OpenPart, ReceiveBody, Rename, ReadRest, RemovePart,
       RemovePlaceholder, Drop, Step, directory
  <2>3. ASSUME NEW v \in parts', v # u PROVE PartKept(v)'
    <3>1. v \in parts /\ pc'[v] = pc[v] /\ PartKept(v)
      BY <2>1, <2>3, <1>s, <1>t, <1>l
    <3> QED BY <3>1
  <2> QED BY <2>2, <2>3
<1>2. ASSUME NEW p \in Paths, files'[p] = Empty
      PROVE  \E v \in Uploads : path'[v] = p /\ Kept(v)'
  <2>1. CASE files[p] = Empty
    <3>1. PICK v \in Uploads : path[v] = p /\ Kept(v)
      BY <2>1, <1>l
    <3>2. CASE v # u
      BY <3>1, <3>2, <1>s DEF Reserved
    <3>3. CASE v = u
      <4>1. path'[u] = path[u] \/ pc[u] = "reserve"
        BY <1>t DEF Arrive, Handle, Reserve, OpenPart, ReceiveBody, Rename, ReadRest, RemovePart,
           RemovePlaceholder, Drop, Step
      <4>2. path'[u] = p
        BY <4>1, <3>1, <3>3 DEF Reserved
      <4>3. CASE Rename(u) /\ Step(u, "rename", "rest")
        BY <4>3, <3>1, <3>3, <1>t, <1>2 DEF Rename, Step
      <4>4. CASE RemovePlaceholder(u) /\ files' # files
        BY <4>4, <3>1, <3>3, <1>t, <1>2 DEF RemovePlaceholder
      <4>5. CASE ~(Rename(u) /\ Step(u, "rename", "rest")) /\ ~(RemovePlaceholder(u) /\ files' # files)
        <5>1. Kept(u)
          BY <3>1, <3>3
        <5>2. pc'[u] \in {"open", "body", "rename", "unpart", "unplace", "stuck", "left", "dropped"}
          BY <5>1, <4>5, <1>t, <1>2, <3>1, <3>3 DEF Reserved, Arrive, Handle, Reserve, OpenPart,
             ReceiveBody, Rename, ReadRest, RemovePart, RemovePlaceholder, Drop, Step, Refused
        <5>3. Kept(u)'
          BY <5>2 DEF Reserved
        <5> QED BY <5>3, <4>2
      <4> QED BY <4>3, <4>4, <4>5
    <3> QED BY <3>2, <3>3
  <2>2. CASE files[p] # Empty
    <3>1. /\ Reserve(u) /\ Step(u, "reserve", "open") /\ path'[u] = p
      BY <2>2, <1>2, <1>t DEF Arrive, Handle, Reserve, OpenPart, ReceiveBody, Rename, ReadRest,
         RemovePart, RemovePlaceholder, Drop, Step, directory
    <3> QED BY <3>1, <1>t DEF Step, Reserved
  <2> QED BY <2>1, <2>2
<1> QED BY <1>1, <1>2

LEMMA HFInvInit == HFInit => HFInv
  BY HandleFileAssumption DEF HFInit, HFInv, HFTypeOK, OwnPlaceholder, OkIsStored, Reserved, Stored

LEMMA HFInvNext == HFInv /\ [HFNext]_hfvars => HFInv'
<1> SUFFICES ASSUME HFInv, [HFNext]_hfvars PROVE HFInv'
  OBVIOUS
<1>1. CASE HFNext
  BY <1>1, HFTyping, HFStep DEF HFInv
<1>2. CASE UNCHANGED hfvars
  BY <1>2 DEF hfvars, directory, handlers, HFInv, HFTypeOK, OwnPlaceholder, OkIsStored,
              Reserved, Stored
<1> QED BY <1>1, <1>2

LEMMA HFInvariant == HFSpec => []HFInv
  BY HFInvInit, HFInvNext, PTL DEF HFSpec

(* The variables keep their types, and the search for a free path stays      *)
(* within the candidates.                                                    *)
THEOREM HandleFileTyping == HFSpec => []HFTypeOK
<1>1. HFInv => HFTypeOK
  BY DEF HFInv
<1> QED BY <1>1, HFInvariant, PTL

(* What an upload reserved stays its own until it stores or gives it back.   *)
THEOREM PlaceholderTheorem == HFSpec => []OwnPlaceholder
<1>1. HFInv => OwnPlaceholder
  BY DEF HFInv
<1> QED BY <1>1, HFInvariant, PTL

(* A file reported as received is in the directory, for good.                *)
THEOREM StoredTheorem == HFSpec => []OkIsStored
<1>1. HFInv => OkIsStored
  BY DEF HFInv
<1> QED BY <1>1, HFInvariant, PTL

(* No error path of a one-shot upload leaves anything behind.                *)
THEOREM NoLitterTheorem == HFSpec => []NoLitter
<1>1. HFInit => NoLitter
  BY HandleFileAssumption DEF HFInit, NoLitter
<1>2. HFInv /\ NoLitter /\ [HFNext]_hfvars => NoLitter'
  <2>1. CASE HFInv /\ NoLitter /\ HFNext
    BY <2>1, LitterStep
  <2>2. CASE NoLitter /\ UNCHANGED hfvars
    BY <2>2 DEF hfvars, directory, handlers, NoLitter, Reserved
  <2> QED BY <2>1, <2>2
<1> QED BY <1>1, <1>2, HFInvariant, PTL DEF HFSpec

(* A step writes only where nothing was, or a placeholder.                   *)
LEMMA NoReplacement ==
    ASSUME HFInv, HFNext
    PROVE  \A p \in Paths : files[p] \in Contents => files'[p] = files[p]
<1> USE HandleFileAssumption
<1> SUFFICES ASSUME NEW p \in Paths, files[p] \in Contents,
                    NEW u \in Uploads, Arrive(u) \/ Handle(u) \/ Drop(u)
             PROVE  files'[p] = files[p]
  BY DEF HFNext
<1>t. HFTypeOK /\ OwnPlaceholder
  BY DEF HFInv
<1>1. CASE Reserve(u)
  BY <1>1, <1>t DEF Reserve, HFTypeOK
<1>2. CASE Rename(u)
  BY <1>2, <1>t DEF Rename, Step, Reserved, OwnPlaceholder, HFTypeOK, directory
<1>3. CASE RemovePlaceholder(u)
  BY <1>3, <1>t DEF RemovePlaceholder, Step, Reserved, OwnPlaceholder, HFTypeOK
<1>4. CASE Arrive(u) \/ OpenPart(u) \/ ReceiveBody(u) \/ ReadRest(u) \/ RemovePart(u) \/ Drop(u)
  BY <1>4 DEF Arrive, OpenPart, ReceiveBody, ReadRest, RemovePart, Drop, directory
<1> QED BY <1>1, <1>2, <1>3, <1>4 DEF Handle

(* No upload, whatever fails, replaces or removes a received file.           *)
THEOREM NothingReplacedTheorem == HFSpec => NothingReplaced
<1>1. HFInv /\ [HFNext]_hfvars =>
        [\A p \in Paths : files[p] \in Contents => files'[p] = files[p]]_hfvars
  BY NoReplacement
<1> QED BY <1>1, HFInvariant, PTL DEF HFSpec, NothingReplaced

(* Every file in the directory was put there by an upload that still knows   *)
(* it, or by one that was dropped once it was stored.                        *)
Sourced ==
    \A p \in Paths : files[p] \in Contents =>
        \E u \in Uploads : /\ path[u] = p /\ files[p] = Content[u]
                           /\ Stored(u) \/ pc[u] = "dropped"

LEMMA SourcedStep == ASSUME HFInv, Sourced, HFNext PROVE Sourced'
<1> USE HandleFileAssumption
<1> SUFFICES ASSUME NEW u \in Uploads, Arrive(u) \/ Handle(u) \/ Drop(u),
                    NEW p \in Paths, files'[p] \in Contents
             PROVE  \E v \in Uploads : /\ path'[v] = p /\ files'[p] = Content[v]
                                       /\ pc'[v] \in {"rest", "ok", "late", "dropped"}
  BY DEF HFNext, Sourced, Stored
<1>t. HFTypeOK
  BY DEF HFInv
<1>1. ASSUME files'[p] = files[p]
      PROVE  \E v \in Uploads : /\ path'[v] = p /\ files'[p] = Content[v]
                                /\ pc'[v] \in {"rest", "ok", "late", "dropped"}
  <2>1. PICK v \in Uploads : /\ path[v] = p /\ files[p] = Content[v]
                             /\ pc[v] \in {"rest", "ok", "late", "dropped"}
    BY <1>1 DEF Sourced, Stored
  <2>2. path'[v] = path[v] /\ pc'[v] \in {"rest", "ok", "late", "dropped"}
    BY <2>1, <1>t DEF Arrive, Handle, Drop, Reserve, OpenPart, ReceiveBody, Rename, ReadRest,
       RemovePart, RemovePlaceholder, Step, Refused, HFTypeOK
  <2> QED BY <1>1, <2>1, <2>2
<1>2. CASE Rename(u) /\ Step(u, "rename", "rest") /\ path[u] = p
  <2>1. pc'[u] = "rest" /\ path' = path /\ files'[p] = Content[u]
    BY <1>2, <1>t DEF Rename, Step, HFTypeOK
  <2> QED BY <1>2, <2>1
<1>3. CASE ~(Rename(u) /\ Step(u, "rename", "rest") /\ path[u] = p)
  <2>1. files'[p] \in {files[p], Absent, Empty}
    <3>1. CASE Reserve(u)
      BY <3>1, <1>t DEF Reserve, HFTypeOK
    <3>2. CASE Rename(u)
      BY <1>3, <3>2, <1>t DEF Rename, HFTypeOK, directory, Step
    <3>3. CASE RemovePlaceholder(u)
      BY <3>3, <1>t DEF RemovePlaceholder, HFTypeOK
    <3>4. CASE Arrive(u) \/ OpenPart(u) \/ ReceiveBody(u) \/ ReadRest(u) \/ RemovePart(u) \/ Drop(u)
      BY <3>4 DEF Arrive, OpenPart, ReceiveBody, ReadRest, RemovePart, Drop, directory
    <3> QED BY <3>1, <3>2, <3>3, <3>4 DEF Handle
  <2> QED BY <1>1, <2>1
<1> QED BY <1>2, <1>3

(* Nothing but uploads puts a file into the directory.                       *)
THEOREM SourcedTheorem == HFSpec => []Sourced
<1>1. HFInit => Sourced
  BY HandleFileAssumption DEF HFInit, Sourced
<1>2. HFInv /\ Sourced /\ [HFNext]_hfvars => Sourced'
  <2>1. CASE HFInv /\ Sourced /\ HFNext
    BY <2>1, SourcedStep
  <2>2. CASE Sourced /\ UNCHANGED hfvars
    BY <2>2 DEF hfvars, directory, handlers, Sourced, Stored
  <2> QED BY <2>1, <2>2
<1> QED BY <1>1, <1>2, HFInvariant, PTL DEF HFSpec

(* The paths that are reserved, as DownloadDirectory sees them.              *)
OwnPaths == {path[u] : u \in {v \in Uploads : Reserved(v)}}

(* A step of one upload changes what is owned by its own path at most.       *)
LEMMA OwnedAfter ==
    ASSUME HFInv, NEW u \in Uploads, HFTypeOK', OwnPlaceholder',
           \A v \in Uploads \ {u} : pc'[v] = pc[v] /\ path'[v] = path[v]
    PROVE  /\ Reserved(u) /\ Reserved(u)' /\ path'[u] = path[u] => OwnPaths' = OwnPaths
           /\ Reserved(u) /\ ~Reserved(u)' => OwnPaths' = OwnPaths \ {path[u]}
           /\ ~Reserved(u) /\ Reserved(u)' => OwnPaths' = OwnPaths \cup {path'[u]}
           /\ ~Reserved(u) /\ ~Reserved(u)' => OwnPaths' = OwnPaths
<1>1. \A v \in Uploads \ {u} : Reserved(v)' = Reserved(v) /\ path'[v] = path[v]
  BY DEF Reserved
<1>2. Reserved(u) => \A v \in Uploads \ {u} : Reserved(v) => path[v] # path[u]
  BY DEF HFInv, OwnPlaceholder
<1>3. \A p : p \in OwnPaths <=> \E v \in Uploads : Reserved(v) /\ path[v] = p
  BY DEF OwnPaths
<1>4. \A p : p \in OwnPaths' <=> \E v \in Uploads : Reserved(v)' /\ path'[v] = p
  BY DEF OwnPaths
<1>5. CASE Reserved(u) /\ Reserved(u)' /\ path'[u] = path[u]
  BY <1>1, <1>3, <1>4, <1>5
<1>6. CASE Reserved(u) /\ ~Reserved(u)'
  BY <1>1, <1>2, <1>3, <1>4, <1>6
<1>7. CASE ~Reserved(u) /\ Reserved(u)'
  BY <1>1, <1>3, <1>4, <1>7
<1>8. CASE ~Reserved(u) /\ ~Reserved(u)'
  BY <1>1, <1>3, <1>4, <1>8
<1> QED BY <1>5, <1>6, <1>7, <1>8

(* Every step reserves, publishes, gives back or leaves a path, or does      *)
(* nothing to the directory.                                                 *)
LEMMA DirectoryStep ==
    ASSUME HFInv, HFNext
    PROVE  [Directory!DDNext]_(Directory!ddvars)
<1> USE HandleFileAssumption
<1> SUFFICES ASSUME NEW u \in Uploads, Arrive(u) \/ Handle(u) \/ Drop(u)
             PROVE  \/ \E p \in Paths : \/ Directory!Reserve(p) \/ Directory!Publish(p)
                                        \/ Directory!Release(p)
                    \/ \E ps \in SUBSET OwnPaths : Directory!Leave(ps)
                    \/ OwnPaths' = OwnPaths /\ UNCHANGED files
  BY DEF HFNext, Directory!DDNext, Directory!ddvars, OwnPaths
<1>t. HFTypeOK /\ OwnPlaceholder /\ HFTypeOK' /\ OwnPlaceholder'
  BY HFTyping, HFStep, Zenon DEF HFInv, HFNext
<1>s. \A v \in Uploads \ {u} : pc'[v] = pc[v] /\ path'[v] = path[v]
  BY <1>t DEF HFTypeOK, Arrive, Handle, Reserve, OpenPart, ReceiveBody, Rename, ReadRest,
     RemovePart, RemovePlaceholder, Drop, Step
<1>o. /\ Reserved(u) /\ Reserved(u)' /\ path'[u] = path[u] => OwnPaths' = OwnPaths
      /\ Reserved(u) /\ ~Reserved(u)' => OwnPaths' = OwnPaths \ {path[u]}
      /\ ~Reserved(u) /\ Reserved(u)' => OwnPaths' = OwnPaths \cup {path'[u]}
      /\ ~Reserved(u) /\ ~Reserved(u)' => OwnPaths' = OwnPaths
  BY <1>t, <1>s, OwnedAfter
<1>p. path[u] \in Paths /\ (Reserved(u) => path[u] \in OwnPaths /\ files[path[u]] = Empty)
  BY <1>t DEF HFTypeOK, OwnPlaceholder, OwnPaths
<1>q. CASE UNCHANGED <<files, path>> /\ (Reserved(u)' => Reserved(u))
  <2>1. CASE OwnPaths' = OwnPaths
    BY <1>q, <2>1
  <2>2. CASE OwnPaths' = OwnPaths \ {path[u]} /\ path[u] \in OwnPaths
    BY <1>q, <2>2 DEF Directory!Leave, OwnPaths
  <2> QED BY <1>q, <1>o, <1>p, <2>1, <2>2
<1>1. CASE Arrive(u) \/ OpenPart(u) \/ ReceiveBody(u) \/ ReadRest(u) \/ RemovePart(u) \/ Drop(u)
  <2>1. UNCHANGED <<files, path>> /\ (Reserved(u)' => Reserved(u))
    BY <1>1, <1>t DEF HFTypeOK, Arrive, OpenPart, ReceiveBody, ReadRest, RemovePart, Drop, Refused,
       Step, Reserved, directory
  <2> QED BY <2>1, <1>q
<1>2. CASE Reserve(u)
  <2>1. CASE UNCHANGED <<files, path>>
    <3>1. Reserved(u)' => Reserved(u)
      BY <1>2, <2>1, <1>t DEF HFTypeOK, Reserve, Step, Reserved
    <3> QED BY <2>1, <3>1, <1>q
  <2>2. CASE \E p \in Paths : /\ files[p] = Absent /\ files' = [files EXCEPT ![p] = Empty]
                              /\ path'[u] = p /\ pc[u] = "reserve" /\ pc'[u] = "open"
    <3>1. PICK p \in Paths : /\ files[p] = Absent /\ files' = [files EXCEPT ![p] = Empty]
                             /\ path'[u] = p /\ pc[u] = "reserve" /\ pc'[u] = "open"
      BY <2>2
    <3>2. p \notin OwnPaths
      BY <3>1, <1>t DEF OwnPaths, OwnPlaceholder
    <3>3. OwnPaths' = OwnPaths \cup {p}
      BY <3>1, <1>o DEF Reserved
    <3>4. Directory!Reserve(p)
      BY <3>1, <3>2, <3>3 DEF Directory!Reserve, OwnPaths
    <3> QED BY <3>4
  <2>3. (UNCHANGED <<files, path>>) \/ \E p \in Paths :
           /\ files[p] = Absent /\ files' = [files EXCEPT ![p] = Empty]
           /\ path'[u] = p /\ pc[u] = "reserve" /\ pc'[u] = "open"
    <3> DEFINE k == try[u] + 1
               c == Candidates[u]
    <3>1. CASE /\ k \in DOMAIN c /\ files[c[k]] = Absent
               /\ Step(u, "reserve", "open")
               /\ path' = [path EXCEPT ![u] = c[k]]
               /\ files' = [files EXCEPT ![c[k]] = Empty]
      <4>1. c[k] \in Paths
        BY <3>1, <1>t DEF HFTypeOK
      <4>2. path'[u] = c[k] /\ pc[u] = "reserve" /\ pc'[u] = "open"
        BY <3>1, <1>t DEF HFTypeOK, Step
      <4> QED BY <3>1, <4>1, <4>2
    <3>2. CASE UNCHANGED <<files, path>>
      BY <3>2
    <3> QED BY <1>2, <3>1, <3>2 DEF Reserve
  <2> QED BY <2>1, <2>2, <2>3
<1>3. CASE Rename(u)
  <2>1. CASE Step(u, "rename", "rest") /\ UNCHANGED path
             /\ files' = [files EXCEPT ![path[u]] = Content[u]]
    <3>1. Reserved(u) /\ ~Reserved(u)'
      BY <2>1, <1>t DEF Step, Reserved, HFTypeOK
    <3>2. PICK p \in Paths : p = path[u]
      BY <1>p
    <3>3. Content[u] \in Contents
      OBVIOUS
    <3>4. Directory!Publish(p)
      BY <2>1, <3>1, <3>2, <3>3, <1>o, <1>p DEF Directory!Publish, OwnPaths
    <3> QED BY <3>4
  <2>2. CASE Step(u, "rename", "unpart") /\ UNCHANGED <<files, path>>
    <3>1. Reserved(u)' => Reserved(u)
      BY <2>2, <1>t DEF Step, Reserved, HFTypeOK
    <3> QED BY <2>2, <3>1, <1>q
  <2> QED BY <1>3, <2>1, <2>2 DEF Rename, directory
<1>4. CASE RemovePlaceholder(u)
  <2>1. Reserved(u) /\ ~Reserved(u)' /\ UNCHANGED path
    BY <1>4, <1>t DEF RemovePlaceholder, Step, Reserved, HFTypeOK
  <2>2. CASE UNCHANGED files
    BY <2>1, <2>2, <1>q
  <2>3. CASE files' = [files EXCEPT ![path[u]] = Absent]
    <3>1. PICK p \in Paths : p = path[u]
      BY <1>p
    <3>2. Directory!Release(p)
      BY <2>1, <2>3, <3>1, <1>o, <1>p DEF Directory!Release, OwnPaths
    <3> QED BY <3>2
  <2> QED BY <1>4, <2>2, <2>3 DEF RemovePlaceholder
<1> QED BY <1>1, <1>2, <1>3, <1>4 DEF Handle

(* The one-shot receiver implements the promise about the directory.         *)
THEOREM HandleImplementsDirectory == HFSpec => DirectoryKept
<1>1. HFInit => Directory!DDInit
  BY DEF HFInit, Directory!DDInit, Reserved
<1>2. HFInv /\ [HFNext]_hfvars => [Directory!DDNext]_(Directory!ddvars)
  <2>1. CASE UNCHANGED hfvars
    BY <2>1 DEF hfvars, directory, handlers, Directory!ddvars, Reserved
  <2> QED BY <2>1, DirectoryStep
<1> QED BY <1>1, <1>2, HFInvariant, PTL DEF HFSpec, DirectoryKept, Directory!DDSpec
=============================================================================
