------------------------ MODULE UploadSessionsProofs ------------------------
(* Proofs about UploadSessions, for any number of handlers, ids, names,      *)
(* contents, paths and restarts.                                             *)
EXTENDS UploadSessions, TLAPS

(* The locals of an idle slot, of a new init request and of a handler that   *)
(* cloned a session are well typed.                                          *)
LEMMA NoOpType == NoOp \in Locals
  <1>1. (CHOOSE x \in Ids : TRUE) \in Ids
    BY ConstantsAssumption
  <1>2. (CHOOSE x \in Names : TRUE) \in Names
    BY ConstantsAssumption
  <1>3. (CHOOSE x \in Files : TRUE) \in Files
    BY ConstantsAssumption
  <1>4. (CHOOSE x \in Paths : TRUE) \in Paths
    BY ConstantsAssumption
  <1>. QED
    BY <1>1, <1>2, <1>3, <1>4 DEF NoOp, Locals

LEMMA RequestType ==
  ASSUME NEW id \in Ids, NEW n \in Names, NEW f \in Files
  PROVE  Requested(id, n, f) \in Locals
  BY NoOpType DEF Requested, Locals

LEMMA ActiveType ==
  ASSUME TypeOK, NEW id \in Ids, Active(id)
  PROVE  sessions[id] \in ActiveSession
  BY DEF TypeOK, Active, NoSession, Tombstone

LEMMA ClonedType ==
  ASSUME TypeOK, NEW id \in Ids, Active(id)
  PROVE  /\ Cloned(id) \in Locals
         /\ Cloned(id).id = id
         /\ Cloned(id).path = sessions[id].path
  <1>1. sessions[id] \in ActiveSession
    BY ActiveType
  <1>2. NoOp \in Locals
    BY NoOpType
  <1>. QED
    BY <1>1, <1>2 DEF Cloned, Locals, ActiveSession

LEMMA ChunkIndexes ==
  ASSUME NEW f \in Files
  PROVE  Chunks(f) \subseteq Idx /\ Chunks(f) \subseteq Nat
  BY ConstantsAssumption DEF Chunks, Idx

LEMMA IdxNat == Idx \subseteq Nat
  BY ConstantsAssumption DEF Idx

(* What remove_dir_all and remove_file leave has the type of the disk.       *)
LEMMA RemoveDirType ==
  ASSUME TypeOK, NEW d \in Dirs, RemoveDir(d)
  PROVE  dirs' \in [Dirs -> {NoDir} \cup [Idx -> Stored \cup {Hole}]]
  BY DEF TypeOK, RemoveDir, EmptyDir

LEMMA RemoveFileType ==
  ASSUME TypeOK, NEW p \in Paths, RemoveFile(p)
  PROVE  files' \in [Paths -> {Absent, Empty, Mixed} \cup Files]
  BY DEF TypeOK, RemoveFile

LEMMA DirType ==
  ASSUME TypeOK, NEW r \in Req
  PROVE  Dir(r) \in Dirs
  BY DEF TypeOK, Dir, Dirs, Locals

-----------------------------------------------------------------------------
(* Type correctness                                                          *)

(* Every handler and the cleanup keep the types of the map, the disk, and    *)
(* their locals.                                                             *)
LEMMA TypingStep ==
  ASSUME TypeOK, [Next]_vars
  PROVE  TypeOK'
  <1>. USE DEF At, GoTo, SetOp, Free, Active, Removing, InitPCs, ChunkPCs,
               CompletePCs, CancelPCs
  <1>1. ASSUME NEW r \in Req, NEW o \in Locals, InitLookup(r, o)
        PROVE  TypeOK'
    <2>1. o.id \in Ids
      BY DEF Locals
    <2>2. CASE Active(o.id)
      <3>1. sessions[o.id] \in ActiveSession
        BY <2>1, <2>2, ActiveType
      <3>2. Touched(sessions[o.id]) \in ActiveSession
        BY <3>1 DEF Touched, ActiveSession
      <3>3. Return(r)
        BY <1>1, <2>2 DEF InitLookup
      <3>4. sessions' \in [Ids -> {NoSession, Tombstone} \cup ActiveSession]
        BY <1>1, <2>1, <2>2, <3>2 DEF InitLookup, TypeOK
      <3>. QED
        BY <1>1, <3>3, <3>4, NoOpType DEF InitLookup, TypeOK, Return
    <2>3. CASE ~Active(o.id)
      BY <1>1, <2>3 DEF InitLookup, TypeOK
    <2>. QED
      BY <2>2, <2>3
  <1>2. ASSUME NEW r \in Req, InitWait(r)
        PROVE  TypeOK'
    BY <1>2 DEF InitWait, TypeOK
  <1>3. ASSUME NEW r \in Req, InitReserve(r)
        PROVE  TypeOK'
    <2>. DEFINE o == op[r]
                k == o.try + 1
                c == Candidates[o.name]
    <2>1. o \in Locals /\ k \in Nat /\ c \in Seq(Paths)
      BY ConstantsAssumption DEF TypeOK, Locals
    <2>2. k \in DOMAIN c => c[k] \in Paths
      BY <2>1
    <2>3. [o EXCEPT !.try = k] \in Locals
      BY <2>1 DEF Locals
    <2>4. k \in DOMAIN c => [o EXCEPT !.path = c[k], !.try = 0] \in Locals
      BY <2>1, <2>2 DEF Locals
    <2>. HIDE DEF o, k, c
    <2>5. \/ /\ k \in DOMAIN c
             /\ files' = [files EXCEPT ![c[k]] = Empty]
             /\ pc' = [pc EXCEPT ![r] = "mkdir"]
             /\ op' = [op EXCEPT ![r] = [o EXCEPT !.path = c[k], !.try = 0]]
          \/ /\ op' = [op EXCEPT ![r] = [o EXCEPT !.try = k]]
             /\ UNCHANGED <<files, pc>>
          \/ Return(r) /\ UNCHANGED files
      BY <1>3 DEF InitReserve, o, k, c
    <2>6. UNCHANGED <<sessions, dirs, sweep, crashes, spoilt>> /\ pc[r] = "reserve"
      BY <1>3 DEF InitReserve
    <2>. QED
      BY <2>2, <2>3, <2>4, <2>5, <2>6, NoOpType DEF TypeOK, Return
  <1>4. ASSUME NEW r \in Req, InitMkdir(r)
        PROVE  TypeOK'
    BY <1>4, DirType DEF InitMkdir, TypeOK, EmptyDir
  <1>5. ASSUME NEW r \in Req, InitScan(r)
        PROVE  TypeOK'
    <2>1. op[r] \in Locals
      BY DEF TypeOK
    <2>2. OnDisk(Dir(r), op[r].file) \subseteq Idx
      BY <2>1, ChunkIndexes DEF OnDisk, Locals
    <2>3. [op[r] EXCEPT !.got = OnDisk(Dir(r), op[r].file)] \in Locals
      BY <2>1, <2>2 DEF Locals
    <2>. QED
      BY <1>5, <2>3 DEF InitScan, TypeOK
  <1>6. ASSUME NEW r \in Req, InitInstall(r)
        PROVE  TypeOK'
    <2>1. op[r] \in Locals /\ op[r].id \in Ids
      BY DEF TypeOK, Locals
    <2>2. NewSession(op[r]) \in ActiveSession
      BY <2>1 DEF NewSession, ActiveSession, Locals
    <2>3. Active(op[r].id) => Touched(sessions[op[r].id]) \in ActiveSession
      BY <2>1, ActiveType DEF Touched, ActiveSession
    <2>4. sessions' \in [Ids -> {NoSession, Tombstone} \cup ActiveSession]
      BY <1>6, <2>1, <2>2, <2>3 DEF InitInstall, TypeOK
    <2>. QED
      BY <1>6, <2>4, NoOpType DEF InitInstall, TypeOK, Return
  <1>7. ASSUME NEW r \in Req, InitUndo(r)
        PROVE  TypeOK'
    <2>1. op[r].path \in Paths
      BY DEF TypeOK, Locals
    <2>2. files' \in [Paths -> {Absent, Empty, Mixed} \cup Files]
      BY <1>7, <2>1, RemoveFileType DEF InitUndo
    <2>. QED
      BY <1>7, <2>2, NoOpType DEF InitUndo, TypeOK, Return
  <1>8. ASSUME NEW r \in Req, NEW id \in Ids, NEW i \in Idx, NEW f \in Files,
               ChunkStart(r, id, i, f)
        PROVE  TypeOK'
    <2>1. Cloned(id) \in Locals
      BY <1>8, ClonedType DEF ChunkStart
    <2>2. [Cloned(id) EXCEPT !.idx = i, !.body = f] \in Locals
      BY <2>1, IdxNat DEF Locals
    <2>3. [Cloned(id) EXCEPT !.idx = i, !.body = f].idx = i
      BY <2>1 DEF Locals
    <2>. QED
      BY <1>8, <2>2, <2>3 DEF ChunkStart, TypeOK
  <1>9. ASSUME NEW r \in Req, ChunkExists(r)
        PROVE  TypeOK'
    BY <1>9 DEF ChunkExists, TypeOK
  <1>10. ASSUME NEW r \in Req, ChunkSave(r)
         PROVE  TypeOK'
    <2>1. Dir(r) \in Dirs /\ op[r].idx \in Idx /\ op[r].body \in Files
      BY <1>10, DirType DEF ChunkSave, TypeOK, Locals
    <2>2. /\ dirs[Dir(r)] # NoDir => dirs[Dir(r)] \in [Idx -> Stored \cup {Hole}]
          /\ [body |-> op[r].body, whole |-> FALSE] \in Stored
      BY <2>1 DEF TypeOK, Stored
    <2>3. dirs' \in [Dirs -> {NoDir} \cup [Idx -> Stored \cup {Hole}]]
      BY <1>10, <2>1, <2>2 DEF ChunkSave, TypeOK
    <2>. QED
      BY <1>10, <2>3, NoOpType DEF ChunkSave, TypeOK, Return
  <1>11. ASSUME NEW r \in Req, ChunkRecord(r)
         PROVE  TypeOK'
    <2>1. op[r].id \in Ids /\ op[r].idx \in Idx
      BY <1>11 DEF ChunkRecord, TypeOK, Locals
    <2>2. Active(op[r].id) => Credited(sessions[op[r].id], op[r].idx) \in ActiveSession
      <3>1. SUFFICES ASSUME Active(op[r].id)
                     PROVE  Credited(sessions[op[r].id], op[r].idx) \in ActiveSession
        OBVIOUS
      <3>2. sessions[op[r].id] \in ActiveSession
        BY <2>1, <3>1, ActiveType
      <3>. QED
        BY <2>1, <3>2 DEF ActiveSession, Credited
    <2>3. sessions' \in [Ids -> {NoSession, Tombstone} \cup ActiveSession]
      BY <1>11, <2>1, <2>2 DEF ChunkRecord, TypeOK
    <2>. QED
      BY <1>11, <2>3, NoOpType DEF ChunkRecord, TypeOK, Return
  <1>12. ASSUME NEW r \in Req, NEW id \in Ids, CompleteStart(r, id)
         PROVE  TypeOK'
    <2>1. Cloned(id) \in Locals
      BY <1>12, ClonedType DEF CompleteStart
    <2>2. [Cloned(id) EXCEPT !.idx = 1] \in Locals
      BY <2>1 DEF Locals
    <2>. QED
      BY <1>12, <2>2 DEF CompleteStart, TypeOK
  <1>13. ASSUME NEW r \in Req, CompleteMerge(r)
         PROVE  TypeOK'
    <2>. DEFINE o == op[r]
    <2>1. o \in Locals
      BY DEF TypeOK
    <2>2. [o EXCEPT !.idx = @ + 1,
                    !.pure = @ /\ Genuine(Dir(r), o.idx, o.file)] \in Locals
      <3>1. ASSUME NEW b \in BOOLEAN, NEW n \in Nat
            PROVE  [o EXCEPT !.idx = n, !.pure = b] \in Locals
        BY <2>1 DEF Locals
      <3>2. (o.pure /\ Genuine(Dir(r), o.idx, o.file)) \in BOOLEAN
        OBVIOUS
      <3>3. o.idx + 1 \in Nat
        BY <2>1 DEF Locals
      <3>. QED
        BY <3>1, <3>2, <3>3
    <2>. QED
      BY <1>13, <2>2, NoOpType DEF CompleteMerge, TypeOK, Return
  <1>14. ASSUME NEW r \in Req, CompleteRename(r)
         PROVE  TypeOK'
    BY <1>14 DEF CompleteRename, TypeOK, Locals
  <1>15. ASSUME NEW r \in Req, CompleteUnlist(r)
         PROVE  TypeOK'
    BY <1>15 DEF CompleteUnlist, TypeOK
  <1>16. ASSUME NEW r \in Req, CompleteClear(r)
         PROVE  TypeOK'
    BY <1>16, DirType, RemoveDirType, NoOpType DEF CompleteClear, TypeOK, Return
  <1>17. ASSUME NEW r \in Req, NEW id \in Ids, CancelStart(r, id)
         PROVE  TypeOK'
    BY <1>17, ClonedType DEF CancelStart, TypeOK
  <1>18. ASSUME NEW r \in Req, CancelDir(r)
         PROVE  TypeOK'
    BY <1>18, DirType, RemoveDirType DEF CancelDir, TypeOK
  <1>19. ASSUME NEW r \in Req, CancelFile(r)
         PROVE  TypeOK'
    <2>1. op[r].path \in Paths
      BY DEF TypeOK, Locals
    <2>2. files' \in [Paths -> {Absent, Empty, Mixed} \cup Files]
      BY <1>19, <2>1, RemoveFileType DEF CancelFile
    <2>. QED
      BY <1>19, <2>2, NoOpType DEF CancelFile, TypeOK, Return
  <1>20. ASSUME NEW id \in Ids, Age(id)
         PROVE  TypeOK'
    <2>1. [sessions[id] EXCEPT !.stale = TRUE] \in ActiveSession
      BY <1>20, ActiveType DEF Age, ActiveSession
    <2>. QED
      BY <1>20, <2>1 DEF Age, TypeOK
  <1>21. ASSUME SweepTake
         PROVE  TypeOK'
    <2>1. ASSUME NEW id \in Stale
          PROVE  [stage |-> "queued", name |-> sessions[id].name,
                  path |-> sessions[id].path] \in SweepWork
      BY <2>1, ActiveType DEF Stale, SweepWork, ActiveSession
    <2>. QED
      BY <1>21, <2>1 DEF SweepTake, TypeOK
  <1>22. ASSUME NEW id \in Ids, NEW stage \in {"dirGone", "emptySeen", "filesGone"},
                Advance(id, stage), sweep[id].stage # "none"
         PROVE  sweep' \in [Ids -> {NotSwept} \cup SweepWork]
    <2>1. sweep[id] \in SweepWork
      BY <1>22 DEF TypeOK, NotSwept
    <2>2. [sweep[id] EXCEPT !.stage = stage] \in SweepWork
      BY <2>1 DEF SweepWork
    <2>. QED
      BY <1>22, <2>2 DEF Advance, TypeOK
  <1>23. ASSUME NEW id \in Ids, sweep[id].stage # "none"
         PROVE  sweep[id].path \in Paths /\ <<sweep[id].name, id>> \in Dirs
    BY <1>23 DEF TypeOK, NotSwept, SweepWork, Dirs
  <1>24. ASSUME NEW id \in Ids, SweepDir(id)
         PROVE  TypeOK'
    BY <1>22, <1>23, <1>24, RemoveDirType DEF SweepDir, TypeOK
  <1>25. ASSUME NEW id \in Ids, SweepLook(id)
         PROVE  TypeOK'
    BY <1>22, <1>25 DEF SweepLook, TypeOK
  <1>26. ASSUME NEW id \in Ids, SweepFile(id)
         PROVE  TypeOK'
    BY <1>22, <1>23, <1>26, RemoveFileType DEF SweepFile, TypeOK
  <1>27. ASSUME NEW id \in Ids, SweepFinish(id)
         PROVE  TypeOK'
    <2>1. \A r \in Req : [op[r] EXCEPT !.fired = TRUE] \in Locals
                         /\ [op[r] EXCEPT !.fired = TRUE].idx = op[r].idx
      BY DEF TypeOK, Locals
    <2>2. op' \in [Req -> Locals] /\ \A r \in Req : op'[r].idx = op[r].idx
      BY <1>27, <2>1 DEF SweepFinish, TypeOK
    <2>3. pc' \in [Req -> {"idle"} \cup InitPCs \cup ChunkPCs \cup CompletePCs \cup CancelPCs]
          /\ \A r \in Req : pc'[r] \in {"exists", "save", "record"} => pc'[r] = pc[r]
      BY <1>27 DEF SweepFinish, TypeOK
    <2>4. sessions' \in [Ids -> {NoSession, Tombstone} \cup ActiveSession]
      BY <1>27 DEF SweepFinish, TypeOK
    <2>. QED
      BY <1>27, <2>2, <2>3, <2>4 DEF SweepFinish, TypeOK
  <1>28. ASSUME NEW r \in Req, Drop(r)
         PROVE  TypeOK'
    BY <1>28, NoOpType DEF Drop, TypeOK, Return
  <1>29. CASE Crash
    BY <1>29, NoOpType, ConstantsAssumption DEF Crash, TypeOK
  <1>30. CASE UNCHANGED vars
    BY <1>30 DEF vars, TypeOK
  <1>32. ASSUME NEW d \in Dirs, NEW i \in Idx, Settle(d, i)
         PROVE  TypeOK'
    <2>1. dirs[d] \in [Idx -> Stored \cup {Hole}] /\ dirs[d][i] \in Stored
      BY <1>32 DEF Settle, HasChunk, TypeOK
    <2>2. [dirs[d][i] EXCEPT !.whole = TRUE] \in Stored
      BY <2>1 DEF Stored
    <2>3. [dirs[d] EXCEPT ![i] = [dirs[d][i] EXCEPT !.whole = TRUE]]
            \in [Idx -> Stored \cup {Hole}]
      BY <2>1, <2>2
    <2>. QED
      BY <1>32, <2>3 DEF Settle, TypeOK
  <1>31. \A r \in Req : op[r] \in Locals
    BY DEF TypeOK
  <1>. QED
    BY <1>1, <1>2, <1>3, <1>4, <1>5, <1>6, <1>7, <1>8, <1>9, <1>10, <1>11,
       <1>12, <1>13, <1>14, <1>15, <1>16, <1>17, <1>18, <1>19, <1>20, <1>21,
       <1>24, <1>25, <1>26, <1>27, <1>28, <1>29, <1>30, <1>31, <1>32, RequestType
    DEF Next, Arrive, Work, Sweep

(* The session map, the disk, the handlers' locals and the cleanup's work    *)
(* list stay well typed whatever the handlers, the cleanup, clients that go  *)
(* away and restarts do.                                                     *)
THEOREM Typing == Spec => []TypeOK
  <1>1. Init => TypeOK
    BY NoOpType, ConstantsAssumption DEF Init, TypeOK
  <1>. QED
    BY <1>1, TypingStep, PTL DEF Spec

-----------------------------------------------------------------------------
(* The tombstone                                                             *)

(* A locked section of a handler neither lifts nor replaces a tombstone, and *)
(* the cleanup sets and lifts it together with its work on the id.           *)
LEMMA TombstoneStep ==
  ASSUME TypeOK, TombstoneHeld, [Next]_vars
  PROVE  TombstoneHeld'
  <1>. USE DEF TombstoneHeld, Free, Active, Removing
  <1>1. ASSUME UNCHANGED sweep,
               \A id \in Ids : Removing(id)' <=> Removing(id)
        PROVE  TombstoneHeld'
    BY <1>1
  <1>2. ASSUME NEW id \in Ids, NEW s \in {NoSession} \cup ActiveSession,
               ~Removing(id), UNCHANGED sweep,
               sessions' = [sessions EXCEPT ![id] = s]
        PROVE  TombstoneHeld'
    <2>1. s.tag # "removing"
      BY DEF NoSession, ActiveSession
    <2>2. ~Removing(id)'
      BY <1>2, <2>1 DEF TypeOK
    <2>3. \A x \in Ids : x # id => sessions'[x] = sessions[x]
      BY <1>2 DEF TypeOK
    <2>. QED
      BY <1>1, <1>2, <2>2, <2>3
  <1>3. ASSUME NEW id \in Ids, Active(id)
        PROVE  /\ Touched(sessions[id]) \in ActiveSession
               /\ [sessions[id] EXCEPT !.stale = TRUE] \in ActiveSession
               /\ \A i \in Idx : Credited(sessions[id], i) \in ActiveSession
    BY <1>3, ActiveType DEF Touched, Credited, ActiveSession
  <1>4. ASSUME NEW r \in Req, NEW o \in Locals, InitLookup(r, o)
        PROVE  TombstoneHeld'
    <2>1. o.id \in Ids
      BY DEF Locals
    <2>. QED
      BY <1>1, <1>2, <1>3, <1>4, <2>1 DEF InitLookup
  <1>5. ASSUME NEW r \in Req, InitInstall(r)
        PROVE  TombstoneHeld'
    <2>1. op[r].id \in Ids
      BY DEF TypeOK, Locals
    <2>2. NewSession(op[r]) \in ActiveSession
      BY DEF TypeOK, NewSession, ActiveSession, Locals
    <2>. QED
      BY <1>1, <1>2, <1>3, <1>5, <2>1, <2>2 DEF InitInstall
  <1>6. ASSUME NEW r \in Req, ChunkRecord(r)
        PROVE  TombstoneHeld'
    <2>1. op[r].id \in Ids /\ op[r].idx \in Idx
      BY <1>6 DEF ChunkRecord, At, TypeOK, Locals
    <2>. QED
      BY <1>1, <1>2, <1>3, <1>6, <2>1 DEF ChunkRecord
  <1>7. ASSUME NEW r \in Req, CompleteUnlist(r)
        PROVE  TombstoneHeld'
    <2>1. op[r].id \in Ids
      BY DEF TypeOK, Locals
    <2>. QED
      BY <1>1, <1>2, <1>7, <2>1 DEF CompleteUnlist
  <1>8. ASSUME NEW r \in Req, NEW id \in Ids, CancelStart(r, id)
        PROVE  TombstoneHeld'
    BY <1>2, <1>8 DEF CancelStart
  <1>9. ASSUME NEW id \in Ids, Age(id)
        PROVE  TombstoneHeld'
    <2>1. sessions' = [sessions EXCEPT ![id] = [sessions[id] EXCEPT !.stale = TRUE]]
      BY <1>9 DEF Age
    <2>. QED
      BY <1>2, <1>3, <1>9, <2>1 DEF Age
  <1>10. CASE SweepTake
    <2>1. ASSUME NEW id \in Ids
          PROVE  Removing(id)' <=> sweep'[id].stage # "none"
      <3>1. CASE id \in Stale
        BY <1>10, <3>1 DEF SweepTake, Tombstone
      <3>2. CASE id \notin Stale
        BY <1>10, <3>2 DEF SweepTake, NotSwept
      <3>. QED
        BY <3>1, <3>2
    <2>. QED
      BY <2>1
  <1>11. ASSUME NEW id \in Ids, NEW stage \in {"dirGone", "emptySeen", "filesGone"},
                Advance(id, stage), sweep[id].stage # "none", UNCHANGED sessions
         PROVE  TombstoneHeld'
    <2>1. sweep[id] \in SweepWork
      BY <1>11 DEF TypeOK, NotSwept
    <2>2. sweep'[id].stage = stage /\ \A x \in Ids : x # id => sweep'[x] = sweep[x]
      BY <1>11, <2>1 DEF Advance, TypeOK, SweepWork
    <2>. QED
      BY <1>11, <2>2
  <1>12. ASSUME NEW id \in Ids, SweepDir(id) \/ SweepLook(id) \/ SweepFile(id)
         PROVE  TombstoneHeld'
    BY <1>11, <1>12 DEF SweepDir, SweepLook, SweepFile
  <1>13. ASSUME NEW id \in Ids, SweepFinish(id)
         PROVE  TombstoneHeld'
    <2>1. Removing(id)
      BY <1>13 DEF SweepFinish
    <2>2. /\ sweep' = [sweep EXCEPT ![id] = NotSwept]
          /\ sessions' = [sessions EXCEPT ![id] = NoSession]
      BY <1>13, <2>1 DEF SweepFinish
    <2>. QED
      BY <2>2 DEF TypeOK, NotSwept, NoSession
  <1>14. CASE Crash
    BY <1>14 DEF Crash, NotSwept, NoSession
  <1>15. ASSUME UNCHANGED <<sessions, sweep>>
         PROVE  TombstoneHeld'
    BY <1>15
  <1>16. \A r \in Req : op[r] \in Locals
    BY DEF TypeOK
  <1>17. ASSUME NEW r \in Req,
                \/ InitWait(r) \/ InitReserve(r) \/ InitMkdir(r) \/ InitScan(r)
                \/ InitUndo(r) \/ ChunkExists(r) \/ ChunkSave(r)
                \/ CompleteMerge(r) \/ CompleteRename(r) \/ CompleteClear(r)
                \/ CancelDir(r) \/ CancelFile(r) \/ Drop(r)
         PROVE  UNCHANGED <<sessions, sweep>>
    BY <1>17 DEF InitWait, InitReserve, InitMkdir, InitScan, InitUndo,
                 ChunkExists, ChunkSave, CompleteMerge, CompleteRename,
                 CompleteClear, CancelDir, CancelFile, Drop
  <1>18. ASSUME NEW r \in Req, Arrive(r)
         PROVE  TombstoneHeld'
    <2>1. ASSUME NEW id \in Ids, NEW i \in Idx, NEW f \in Files, ChunkStart(r, id, i, f)
          PROVE  TombstoneHeld'
      BY <1>15, <2>1 DEF ChunkStart
    <2>2. ASSUME NEW id \in Ids, CompleteStart(r, id)
          PROVE  TombstoneHeld'
      BY <1>15, <2>2 DEF CompleteStart
    <2>. QED
      BY <1>4, <1>8, <1>18, <2>1, <2>2, RequestType DEF Arrive
  <1>19. ASSUME NEW r \in Req, Work(r)
         PROVE  TombstoneHeld'
    BY <1>4, <1>5, <1>6, <1>7, <1>15, <1>16, <1>17, <1>19 DEF Work
  <1>20. ASSUME NEW d \in Dirs, NEW i \in Idx, Settle(d, i)
         PROVE  TombstoneHeld'
    BY <1>15, <1>20 DEF Settle
  <1>. QED
    BY <1>9, <1>10, <1>12, <1>13, <1>14, <1>15, <1>17, <1>18, <1>19, <1>20
    DEF Next, Sweep, vars

(* While the cleanup works on an id its tombstone stands: no init can        *)
(* install a session whose directory or target is about to be deleted.       *)
THEOREM TombstoneTheorem == Spec => []TombstoneHeld
  <1>1. Init => TombstoneHeld
    BY DEF Init, TombstoneHeld, Removing, NoSession, NotSwept
  <1>. QED
    BY <1>1, TombstoneStep, Typing, PTL DEF Spec
-----------------------------------------------------------------------------
(* Reserved paths                                                            *)

(* A step that gives nobody a path, and removes none that is still owned,    *)
(* keeps the reservations exclusive.                                         *)
LEMMA NoNewOwner ==
  ASSUME ReservationExclusive,
         \A p \in Paths : \A r \in Req : SlotHolds(r, p)' => SlotHolds(r, p),
         \A p \in Paths : \A id \in Ids : SessionHolds(id, p)' => SessionHolds(id, p),
         \A p \in Paths : \A id \in Ids : SweepHolds(id, p)' => SweepHolds(id, p),
         \A p \in Paths : Owned(p)' => files'[p] # Absent
  PROVE  ReservationExclusive'
  BY DEF ReservationExclusive, Owned

(* The same for a step that leaves the files alone or only fills paths.      *)
LEMMA NoNewOwnerNoLoss ==
  ASSUME ReservationExclusive,
         \A p \in Paths : \A r \in Req : SlotHolds(r, p)' => SlotHolds(r, p),
         \A p \in Paths : \A id \in Ids : SessionHolds(id, p)' => SessionHolds(id, p),
         \A p \in Paths : \A id \in Ids : SweepHolds(id, p)' => SweepHolds(id, p),
         \A p \in Paths : files[p] # Absent => files'[p] # Absent
  PROVE  ReservationExclusive'
  <1>1. ASSUME NEW p \in Paths, Owned(p)'
        PROVE  files'[p] # Absent
    <2>1. Owned(p)
      BY <1>1 DEF Owned
    <2>. QED
      BY <2>1 DEF Owned, ReservationExclusive
  <1>. QED
    BY <1>1, NoNewOwner

(* Sessions whose tag and path stay, or that end, are no new owners.         *)
LEMMA SessionsKept ==
  ASSUME TypeOK, NEW id \in Ids, NEW s,
         sessions' = [sessions EXCEPT ![id] = s],
         s.tag = "active" => Active(id) /\ s.path = sessions[id].path
  PROVE  \A p \in Paths : \A x \in Ids : SessionHolds(x, p)' => SessionHolds(x, p)
  BY DEF TypeOK, SessionHolds, Active

(* A locked section that only refreshes or credits the session of an id.     *)
LEMMA RefreshKept ==
  ASSUME TypeOK, NEW id \in Ids, Active(id)
  PROVE  /\ Touched(sessions[id]).path = sessions[id].path
         /\ [sessions[id] EXCEPT !.stale = TRUE].path = sessions[id].path
         /\ \A i \in Idx : Credited(sessions[id], i).path = sessions[id].path
  BY ActiveType DEF Touched, Credited, ActiveSession

(* A handler that returns, or goes on with its path and no new role, is no   *)
(* new owner.                                                                *)
LEMMA SlotKept ==
  ASSUME TypeOK, NEW r \in Req, NEW l, NEW o,
         pc' = [pc EXCEPT ![r] = l], op' = [op EXCEPT ![r] = o],
         l \in Reserving \cup CancelPCs =>
             pc[r] \in Reserving \cup CancelPCs /\ o.path = op[r].path
  PROVE  \A p \in Paths : \A q \in Req : SlotHolds(q, p)' => SlotHolds(q, p)
  BY DEF TypeOK, SlotHolds

LEMMA ReturnKept ==
  ASSUME TypeOK, NEW r \in Req, Return(r)
  PROVE  \A p \in Paths : \A q \in Req : SlotHolds(q, p)' => SlotHolds(q, p)
  BY SlotKept DEF Return, GoTo, Reserving, CancelPCs

LEMMA GoToKept ==
  ASSUME TypeOK, NEW r \in Req, NEW l, GoTo(r, l), UNCHANGED op,
         l \in Reserving \cup CancelPCs => pc[r] \in Reserving \cup CancelPCs
  PROVE  \A p \in Paths : \A q \in Req : SlotHolds(q, p)' => SlotHolds(q, p)
  BY DEF TypeOK, GoTo, SlotHolds

LEMMA SlotsSame ==
  ASSUME UNCHANGED <<pc, op>>
  PROVE  \A p \in Paths : \A q \in Req : SlotHolds(q, p)' => SlotHolds(q, p)
  BY DEF SlotHolds

LEMMA SessionsSame ==
  ASSUME UNCHANGED sessions
  PROVE  \A p \in Paths : \A x \in Ids : SessionHolds(x, p)' => SessionHolds(x, p)
  BY DEF SessionHolds, Active

LEMMA SweepsSame ==
  ASSUME UNCHANGED sweep
  PROVE  \A p \in Paths : \A x \in Ids : SweepHolds(x, p)' => SweepHolds(x, p)
  BY DEF SweepHolds

(* The handlers of init, one lemma for the whole loop.                       *)
LEMMA InitExclusive ==
  ASSUME TypeOK, ReservationExclusive, NEW r \in Req
  PROVE  /\ \A o \in Locals : InitLookup(r, o) => ReservationExclusive'
         /\ InitWait(r) \/ InitMkdir(r) \/ InitScan(r) => ReservationExclusive'
         /\ InitReserve(r) => ReservationExclusive'
         /\ InitInstall(r) => ReservationExclusive'
         /\ InitUndo(r) => ReservationExclusive'
  <1>. USE DEF At
  <1>1. ASSUME NEW o \in Locals, InitLookup(r, o)
        PROVE  ReservationExclusive'
    <2>1. o.id \in Ids
      BY DEF Locals
    <2>2. UNCHANGED <<files, sweep>>
      BY <1>1 DEF InitLookup
    <2>3. CASE Active(o.id)
      <3>1. Return(r)
        BY <1>1, <2>3 DEF InitLookup, Free, Active, Removing
      <3>2. \/ sessions' = [sessions EXCEPT ![o.id] = Touched(sessions[o.id])]
            \/ UNCHANGED sessions
        BY <1>1, <2>3 DEF InitLookup, Free, Active, Removing
      <3>3. \A p \in Paths : \A x \in Ids : SessionHolds(x, p)' => SessionHolds(x, p)
        BY <2>1, <2>3, <3>2, RefreshKept, SessionsKept, SessionsSame
      <3>. QED
        BY <2>2, <3>1, <3>3, ReturnKept, SweepsSame, NoNewOwnerNoLoss
    <2>4. CASE ~Active(o.id)
      <3>1. /\ UNCHANGED sessions
            /\ SetOp(r, o)
            /\ GoTo(r, "toWait") \/ GoTo(r, "reserve")
        BY <1>1, <2>4 DEF InitLookup
      <3>2. \A p \in Paths : \A q \in Req : SlotHolds(q, p)' => SlotHolds(q, p)
        BY <3>1, SlotKept DEF SetOp, GoTo, Reserving, CancelPCs
      <3>. QED
        BY <2>2, <3>1, <3>2, SessionsSame, SweepsSame, NoNewOwnerNoLoss
    <2>. QED
      BY <2>3, <2>4
  <1>2. ASSUME InitWait(r) \/ InitMkdir(r) \/ InitScan(r)
        PROVE  ReservationExclusive'
    <2>1. UNCHANGED <<files, sessions, sweep>>
      BY <1>2 DEF InitWait, InitMkdir, InitScan
    <2>2. \/ UNCHANGED op
          \/ op' = [op EXCEPT ![r] = [op[r] EXCEPT !.got = OnDisk(Dir(r), op[r].file)]]
      BY <1>2 DEF InitWait, InitMkdir, InitScan, SetOp
    <2>3. [op[r] EXCEPT !.got = OnDisk(Dir(r), op[r].file)].path = op[r].path
      BY DEF TypeOK, Locals
    <2>4. \/ /\ pc' = [pc EXCEPT ![r] = "waiting"]
          \/ /\ pc[r] \in Reserving
             /\ \E l \in Reserving : pc' = [pc EXCEPT ![r] = l]
      BY <1>2 DEF InitWait, InitMkdir, InitScan, GoTo, Reserving
    <2>5. \A p \in Paths : \A q \in Req : SlotHolds(q, p)' => SlotHolds(q, p)
      BY <2>2, <2>3, <2>4 DEF TypeOK, SlotHolds, Reserving, CancelPCs
    <2>. QED
      BY <2>1, <2>5, SessionsSame, SweepsSame, NoNewOwnerNoLoss
  <1>3. ASSUME InitReserve(r)
        PROVE  ReservationExclusive'
    <2>. DEFINE k == op[r].try + 1
                c == Candidates[op[r].name]
    <2>1. UNCHANGED <<sessions, sweep>> /\ pc[r] = "reserve"
      BY <1>3 DEF InitReserve
    <2>2. CASE UNCHANGED files
      <3>1. [op[r] EXCEPT !.try = k].path = op[r].path
        BY DEF TypeOK, Locals
      <3>2. Return(r) \/ (UNCHANGED pc /\ op' = [op EXCEPT ![r] = [op[r] EXCEPT !.try = k]])
            \/ (k \in DOMAIN c /\ files[c[k]] = Absent /\ files' = [files EXCEPT ![c[k]] = Empty])
        BY <1>3 DEF InitReserve, SetOp
      <3>3. ~(k \in DOMAIN c /\ files[c[k]] = Absent /\ files' = [files EXCEPT ![c[k]] = Empty])
        <4>1. c \in Seq(Paths)
          BY ConstantsAssumption DEF TypeOK, Locals
        <4>2. k \in DOMAIN c => c[k] \in Paths
          BY <4>1
        <4>. QED
          BY <2>2, <4>2, ConstantsAssumption DEF TypeOK
      <3>4. ASSUME UNCHANGED pc, op' = [op EXCEPT ![r] = [op[r] EXCEPT !.try = k]]
            PROVE  \A p \in Paths : \A q \in Req : SlotHolds(q, p)' => SlotHolds(q, p)
        BY <3>1, <3>4 DEF TypeOK, SlotHolds
      <3>. QED
        BY <2>1, <2>2, <3>2, <3>3, <3>4, ReturnKept, SessionsSame, SweepsSame,
           NoNewOwnerNoLoss
    <2>3. CASE ~UNCHANGED files
      <3>1. /\ k \in DOMAIN c /\ files[c[k]] = Absent
            /\ files' = [files EXCEPT ![c[k]] = Empty]
            /\ pc' = [pc EXCEPT ![r] = "mkdir"]
            /\ op' = [op EXCEPT ![r] = [op[r] EXCEPT !.path = c[k], !.try = 0]]
        BY <1>3, <2>3 DEF InitReserve, SetOp, GoTo
      <3>2. PICK new \in Paths : new = c[k]
        <4>1. c \in Seq(Paths)
          BY ConstantsAssumption DEF TypeOK, Locals
        <4>. QED
          BY <3>1, <4>1
      <3>3. [op[r] EXCEPT !.path = c[k], !.try = 0].path = new
        BY <3>2 DEF TypeOK, Locals
      <3>4. \A p \in Paths : \A q \in Req :
               SlotHolds(q, p)' => SlotHolds(q, p) \/ (q = r /\ p = new)
        BY <3>1, <3>3 DEF TypeOK, SlotHolds
      <3>5. /\ \A q \in Req : ~SlotHolds(q, new)
            /\ \A id \in Ids : ~SessionHolds(id, new) /\ ~SweepHolds(id, new)
        BY <3>1, <3>2 DEF ReservationExclusive
      <3>6. \A p \in Paths : \A id \in Ids : SessionHolds(id, p)' => SessionHolds(id, p)
        BY <2>1, SessionsSame
      <3>7. \A p \in Paths : \A id \in Ids : SweepHolds(id, p)' => SweepHolds(id, p)
        BY <2>1, SweepsSame
      <3>8. \A p \in Paths : p = new \/ files[p] # Absent => files'[p] # Absent
        BY <3>1, <3>2, ConstantsAssumption DEF TypeOK
      <3>. QED
        BY <3>4, <3>5, <3>6, <3>7, <3>8 DEF ReservationExclusive
    <2>. QED
      BY <2>2, <2>3
  <1>4. ASSUME InitInstall(r)
        PROVE  ReservationExclusive'
    <2>. DEFINE id == op[r].id
    <2>1. id \in Ids
      BY DEF TypeOK, Locals
    <2>2. UNCHANGED <<files, sweep>> /\ pc[r] = "install"
      BY <1>4 DEF InitInstall
    <2>3. CASE Free(id)
      <3>1. /\ sessions' = [sessions EXCEPT ![id] = NewSession(op[r])]
            /\ Return(r)
        BY <1>4, <2>3 DEF InitInstall, Free, Active, Removing
      <3>2. \A p \in Paths : SlotHolds(r, p) <=> op[r].path = p
        BY <2>2 DEF SlotHolds, Reserving
      <3>3. \A p \in Paths : ~SlotHolds(r, p)'
        BY <3>1 DEF Return, GoTo, TypeOK, SlotHolds, Reserving, CancelPCs
      <3>4. \A p \in Paths : \A q \in Req : SlotHolds(q, p)' => SlotHolds(q, p)
        BY <3>1, ReturnKept
      <3>5. \A p \in Paths : \A x \in Ids :
               SessionHolds(x, p)' => SessionHolds(x, p) \/ (x = id /\ SlotHolds(r, p))
        BY <3>1, <3>2 DEF TypeOK, SessionHolds, Active, NewSession
      <3>6. \A p \in Paths : \A x \in Ids : SweepHolds(x, p)' => SweepHolds(x, p)
        BY <2>2, SweepsSame
      <3>. QED
        BY <2>2, <3>3, <3>4, <3>5, <3>6 DEF ReservationExclusive
    <2>4. CASE ~Free(id)
      <3>1. /\ UNCHANGED op
            /\ GoTo(r, "undo") \/ GoTo(r, "undoWait")
            /\ \/ UNCHANGED sessions
               \/ Active(id) /\ sessions' = [sessions EXCEPT ![id] = Touched(sessions[id])]
        BY <1>4, <2>4 DEF InitInstall
      <3>2. \A p \in Paths : \A q \in Req : SlotHolds(q, p)' => SlotHolds(q, p)
        BY <2>2, <3>1, GoToKept DEF Reserving
      <3>3. \A p \in Paths : \A x \in Ids : SessionHolds(x, p)' => SessionHolds(x, p)
        BY <2>1, <3>1, RefreshKept, SessionsKept, SessionsSame
      <3>. QED
        BY <2>2, <3>2, <3>3, SweepsSame, NoNewOwnerNoLoss
    <2>. QED
      BY <2>3, <2>4
  <1>5. ASSUME InitUndo(r)
        PROVE  ReservationExclusive'
    <2>1. /\ pc[r] \in {"undo", "undoWait"}
          /\ UNCHANGED <<sessions, sweep>>
          /\ RemoveFile(op[r].path)
          /\ Return(r) \/ (GoTo(r, "toWait") /\ UNCHANGED op)
      BY <1>5 DEF InitUndo
    <2>2. \A p \in Paths : \A q \in Req : SlotHolds(q, p)' => SlotHolds(q, p)
      BY <2>1, ReturnKept, GoToKept DEF Reserving, CancelPCs
    <2>3. \A p \in Paths : ~SlotHolds(r, p)'
      BY <2>1 DEF Return, GoTo, TypeOK, SlotHolds, Reserving, CancelPCs
    <2>4. \A p \in Paths : SlotHolds(r, p) <=> op[r].path = p
      BY <2>1 DEF SlotHolds, Reserving
    <2>5. \A p \in Paths : files'[p] = files[p] \/ op[r].path = p
      BY <2>1 DEF RemoveFile, TypeOK
    <2>6. \A p \in Paths : Owned(p)' => files'[p] # Absent
      BY <2>1, <2>2, <2>3, <2>4, <2>5, SessionsSame, SweepsSame
      DEF Owned, ReservationExclusive
    <2>. QED
      BY <2>1, <2>2, <2>6, SessionsSame, SweepsSame, NoNewOwner
  <1>. QED
    BY <1>1, <1>2, <1>3, <1>4, <1>5

(* The handlers of chunk and complete never own a path.                      *)
LEMMA ChunkCompleteExclusive ==
  ASSUME TypeOK, ReservationExclusive, NEW r \in Req
  PROVE  /\ \A id \in Ids, i \in Idx, f \in Files :
               ChunkStart(r, id, i, f) => ReservationExclusive'
         /\ \A id \in Ids : CompleteStart(r, id) => ReservationExclusive'
         /\ ChunkExists(r) \/ ChunkSave(r) \/ CompleteMerge(r) => ReservationExclusive'
         /\ ChunkRecord(r) => ReservationExclusive'
         /\ CompleteRename(r) => ReservationExclusive'
         /\ CompleteUnlist(r) => ReservationExclusive'
         /\ CompleteClear(r) => ReservationExclusive'
  <1>. USE DEF At
  <1>1. ASSUME UNCHANGED <<files, sessions, sweep>>,
               NEW l \in {"exists", "save", "record", "merge", "rename"}, NEW o,
               pc' = [pc EXCEPT ![r] = l], op' = [op EXCEPT ![r] = o]
        PROVE  ReservationExclusive'
    <2>1. \A p \in Paths : \A q \in Req : SlotHolds(q, p)' => SlotHolds(q, p)
      BY <1>1, SlotKept DEF Reserving, CancelPCs
    <2>. QED
      BY <1>1, <2>1, SessionsSame, SweepsSame, NoNewOwnerNoLoss
  <1>2. ASSUME NEW id \in Ids, NEW i \in Idx, NEW f \in Files, ChunkStart(r, id, i, f)
        PROVE  ReservationExclusive'
    BY <1>1, <1>2 DEF ChunkStart, GoTo, SetOp
  <1>3. ASSUME NEW id \in Ids, CompleteStart(r, id)
        PROVE  ReservationExclusive'
    BY <1>1, <1>3 DEF CompleteStart, GoTo, SetOp
  <1>4. ASSUME ChunkExists(r) \/ ChunkSave(r) \/ CompleteMerge(r)
        PROVE  ReservationExclusive'
    <2>1. UNCHANGED <<files, sessions, sweep>>
      BY <1>4 DEF ChunkExists, ChunkSave, CompleteMerge
    <2>2. \/ Return(r)
          \/ /\ UNCHANGED op
             /\ \E l \in {"save", "record", "rename"} : GoTo(r, l)
          \/ /\ UNCHANGED pc /\ pc[r] = "merge"
             /\ \E o : op' = [op EXCEPT ![r] = o]
      BY <1>4 DEF ChunkExists, ChunkSave, CompleteMerge, SetOp
    <2>3. ASSUME UNCHANGED pc, pc[r] = "merge", NEW o, op' = [op EXCEPT ![r] = o]
          PROVE  \A p \in Paths : \A q \in Req : SlotHolds(q, p)' => SlotHolds(q, p)
      BY <2>3 DEF TypeOK, SlotHolds, Reserving, CancelPCs
    <2>4. \A p \in Paths : \A q \in Req : SlotHolds(q, p)' => SlotHolds(q, p)
      BY <2>2, <2>3, ReturnKept, GoToKept DEF Reserving, CancelPCs
    <2>. QED
      BY <2>1, <2>4, SessionsSame, SweepsSame, NoNewOwnerNoLoss
  <1>5. ASSUME ChunkRecord(r)
        PROVE  ReservationExclusive'
    <2>1. op[r].id \in Ids /\ op[r].idx \in Idx
      BY <1>5 DEF ChunkRecord, TypeOK, Locals
    <2>2. /\ UNCHANGED <<files, sweep>> /\ Return(r)
          /\ \/ UNCHANGED sessions
             \/ /\ Active(op[r].id)
                /\ sessions' = [sessions EXCEPT ![op[r].id] =
                                   Credited(sessions[op[r].id], op[r].idx)]
      BY <1>5 DEF ChunkRecord
    <2>3. \A p \in Paths : \A x \in Ids : SessionHolds(x, p)' => SessionHolds(x, p)
      BY <2>1, <2>2, RefreshKept, SessionsKept, SessionsSame
    <2>. QED
      BY <2>2, <2>3, ReturnKept, SweepsSame, NoNewOwnerNoLoss
  <1>6. ASSUME CompleteRename(r)
        PROVE  ReservationExclusive'
    <2>1. UNCHANGED <<sessions, sweep, op>> /\ GoTo(r, "unlist")
      BY <1>6 DEF CompleteRename
    <2>2. \A p \in Paths : \A q \in Req : SlotHolds(q, p)' => SlotHolds(q, p)
      BY <2>1, GoToKept DEF Reserving, CancelPCs
    <2>3. op[r].file \in Files
      BY DEF TypeOK, Locals
    <2>4. \A p \in Paths : files[p] # Absent => files'[p] # Absent
      BY <1>6, <2>3, ConstantsAssumption DEF CompleteRename, TypeOK
    <2>. QED
      BY <2>1, <2>2, <2>4, SessionsSame, SweepsSame, NoNewOwnerNoLoss
  <1>7. ASSUME CompleteUnlist(r)
        PROVE  ReservationExclusive'
    <2>1. op[r].id \in Ids
      BY DEF TypeOK, Locals
    <2>2. /\ UNCHANGED <<files, sweep, op>> /\ GoTo(r, "clear")
          /\ \/ UNCHANGED sessions
             \/ sessions' = [sessions EXCEPT ![op[r].id] = NoSession]
      BY <1>7 DEF CompleteUnlist
    <2>3. \A p \in Paths : \A q \in Req : SlotHolds(q, p)' => SlotHolds(q, p)
      BY <2>2, GoToKept DEF Reserving, CancelPCs
    <2>4. \A p \in Paths : \A x \in Ids : SessionHolds(x, p)' => SessionHolds(x, p)
      BY <2>1, <2>2, SessionsKept, SessionsSame DEF NoSession
    <2>. QED
      BY <2>2, <2>3, <2>4, SweepsSame, NoNewOwnerNoLoss
  <1>8. ASSUME CompleteClear(r)
        PROVE  ReservationExclusive'
    <2>1. UNCHANGED <<files, sessions, sweep>> /\ Return(r)
      BY <1>8 DEF CompleteClear
    <2>. QED
      BY <2>1, ReturnKept, SessionsSame, SweepsSame, NoNewOwnerNoLoss
  <1>. QED
    BY <1>2, <1>3, <1>4, <1>5, <1>6, <1>7, <1>8

(* Cancel takes the path over from the session, then gives it back.          *)
LEMMA CancelExclusive ==
  ASSUME TypeOK, ReservationExclusive, NEW r \in Req
  PROVE  /\ \A id \in Ids : CancelStart(r, id) => ReservationExclusive'
         /\ CancelDir(r) => ReservationExclusive'
         /\ CancelFile(r) => ReservationExclusive'
  <1>. USE DEF At
  <1>1. ASSUME NEW id \in Ids, CancelStart(r, id)
        PROVE  ReservationExclusive'
    <2>1. /\ Active(id) /\ pc[r] = "idle"
          /\ sessions' = [sessions EXCEPT ![id] = NoSession]
          /\ pc' = [pc EXCEPT ![r] = "cancelDir"]
          /\ op' = [op EXCEPT ![r] = Cloned(id)]
          /\ UNCHANGED <<files, sweep>>
      BY <1>1 DEF CancelStart, GoTo, SetOp
    <2>2. Cloned(id).path = sessions[id].path
      BY <2>1, ClonedType
    <2>3. \A p \in Paths : SessionHolds(id, p) <=> sessions[id].path = p
      BY <2>1 DEF SessionHolds
    <2>4. \A p \in Paths : \A q \in Req :
             SlotHolds(q, p)' => SlotHolds(q, p) \/ (q = r /\ SessionHolds(id, p))
      BY <2>1, <2>2, <2>3 DEF TypeOK, SlotHolds
    <2>5. \A p \in Paths : \A x \in Ids : SessionHolds(x, p)' => SessionHolds(x, p)
      BY <2>1, SessionsKept DEF NoSession
    <2>6. \A p \in Paths : ~SessionHolds(id, p)'
      BY <2>1 DEF TypeOK, SessionHolds, Active, NoSession
    <2>7. \A p \in Paths : \A x \in Ids : SweepHolds(x, p)' => SweepHolds(x, p)
      BY <2>1, SweepsSame
    <2>. QED
      BY <2>1, <2>4, <2>5, <2>6, <2>7 DEF ReservationExclusive
  <1>2. ASSUME CancelDir(r)
        PROVE  ReservationExclusive'
    <2>1. /\ UNCHANGED <<files, sessions, sweep, op>>
          /\ GoTo(r, "cancelFile") /\ pc[r] = "cancelDir"
      BY <1>2 DEF CancelDir
    <2>2. \A p \in Paths : \A q \in Req : SlotHolds(q, p)' => SlotHolds(q, p)
      BY <2>1, GoToKept DEF CancelPCs
    <2>. QED
      BY <2>1, <2>2, SessionsSame, SweepsSame, NoNewOwnerNoLoss
  <1>3. ASSUME CancelFile(r)
        PROVE  ReservationExclusive'
    <2>1. /\ pc[r] = "cancelFile" /\ UNCHANGED <<sessions, sweep>>
          /\ RemoveFile(op[r].path) /\ Return(r)
      BY <1>3 DEF CancelFile
    <2>2. \A p \in Paths : \A q \in Req : SlotHolds(q, p)' => SlotHolds(q, p)
      BY <2>1, ReturnKept
    <2>3. \A p \in Paths : ~SlotHolds(r, p)'
      BY <2>1 DEF Return, GoTo, TypeOK, SlotHolds, Reserving, CancelPCs
    <2>4. \A p \in Paths : SlotHolds(r, p) <=> op[r].path = p
      BY <2>1 DEF SlotHolds, CancelPCs
    <2>5. \A p \in Paths : files'[p] = files[p] \/ op[r].path = p
      BY <2>1 DEF RemoveFile, TypeOK
    <2>6. \A p \in Paths : Owned(p)' => files'[p] # Absent
      BY <2>1, <2>2, <2>3, <2>4, <2>5, SessionsSame, SweepsSame
      DEF Owned, ReservationExclusive
    <2>. QED
      BY <2>1, <2>2, <2>6, SessionsSame, SweepsSame, NoNewOwner
  <1>. QED
    BY <1>1, <1>2, <1>3

(* The cleanup takes the paths of the stale sessions over in one step.       *)
LEMMA SweepExclusive ==
  ASSUME TypeOK, ReservationExclusive
  PROVE  /\ SweepTake => ReservationExclusive'
         /\ \A id \in Ids : Sweep(id) \/ Age(id) => ReservationExclusive'
  <1>1. ASSUME SweepTake
        PROVE  ReservationExclusive'
    <2>1. UNCHANGED <<files, pc, op>>
      BY <1>1 DEF SweepTake
    <2>2. \A p \in Paths : \A x \in Ids :
             SweepHolds(x, p)' => SessionHolds(x, p) /\ ~SessionHolds(x, p)'
      BY <1>1 DEF SweepTake, SweepHolds, SessionHolds, Active, Stale, NotSwept, Tombstone
    <2>3. \A p \in Paths : \A x \in Ids : SessionHolds(x, p)' => SessionHolds(x, p)
      BY <1>1 DEF SweepTake, SessionHolds, Active, Tombstone
    <2>4. \A p \in Paths : \A q \in Req : SlotHolds(q, p)' => SlotHolds(q, p)
      BY <2>1, SlotsSame
    <2>. QED
      BY <2>1, <2>2, <2>3, <2>4 DEF ReservationExclusive
  <1>2. ASSUME NEW id \in Ids, Age(id)
        PROVE  ReservationExclusive'
    <2>1. /\ UNCHANGED <<files, pc, op, sweep>> /\ Active(id)
          /\ sessions' = [sessions EXCEPT ![id] = [sessions[id] EXCEPT !.stale = TRUE]]
      BY <1>2 DEF Age
    <2>2. \A p \in Paths : \A x \in Ids : SessionHolds(x, p)' => SessionHolds(x, p)
      BY <2>1, RefreshKept, SessionsKept
    <2>. QED
      BY <2>1, <2>2, SlotsSame, SweepsSame, NoNewOwnerNoLoss
  <1>3. ASSUME NEW id \in Ids, NEW stage, Advance(id, stage),
               sweep[id].stage \in {"queued", "dirGone", "emptySeen"}
        PROVE  /\ \A p \in Paths : \A x \in Ids : SweepHolds(x, p)' => SweepHolds(x, p)
               /\ stage = "filesGone" => \A p \in Paths : ~SweepHolds(id, p)'
    <2>1. sweep[id] \in SweepWork
      BY <1>3 DEF TypeOK, NotSwept
    <2>2. sweep'[id].path = sweep[id].path /\ sweep'[id].stage = stage
      BY <1>3, <2>1 DEF Advance, TypeOK, SweepWork
    <2>3. \A x \in Ids : x # id => sweep'[x] = sweep[x]
      BY <1>3 DEF Advance, TypeOK
    <2>. QED
      BY <1>3, <2>2, <2>3 DEF SweepHolds
  <1>4. ASSUME NEW id \in Ids, SweepDir(id) \/ SweepLook(id)
        PROVE  ReservationExclusive'
    <2>1. /\ UNCHANGED <<files, sessions, pc, op>>
          /\ sweep[id].stage \in {"queued", "dirGone", "emptySeen"}
          /\ \E stage : Advance(id, stage)
      BY <1>4 DEF SweepDir, SweepLook
    <2>. QED
      BY <1>3, <2>1, SlotsSame, SessionsSame, NoNewOwnerNoLoss
  <1>5. ASSUME NEW id \in Ids, SweepFile(id)
        PROVE  ReservationExclusive'
    <2>1. /\ sweep[id].stage = "emptySeen" /\ UNCHANGED <<sessions, pc, op>>
          /\ RemoveFile(sweep[id].path) /\ Advance(id, "filesGone")
      BY <1>5 DEF SweepFile
    <2>2. \A p \in Paths : SweepHolds(id, p) <=> sweep[id].path = p
      BY <2>1 DEF SweepHolds
    <2>3. \A p \in Paths : files'[p] = files[p] \/ sweep[id].path = p
      BY <2>1 DEF RemoveFile, TypeOK
    <2>4. /\ \A p \in Paths : \A x \in Ids : SweepHolds(x, p)' => SweepHolds(x, p)
          /\ \A p \in Paths : ~SweepHolds(id, p)'
      BY <1>3, <2>1
    <2>5. \A p \in Paths : Owned(p)' => files'[p] # Absent
      BY <2>1, <2>2, <2>3, <2>4, SlotsSame, SessionsSame
      DEF Owned, ReservationExclusive
    <2>. QED
      BY <2>1, <2>4, <2>5, SlotsSame, SessionsSame, NoNewOwner
  <1>6. ASSUME NEW id \in Ids, SweepFinish(id)
        PROVE  ReservationExclusive'
    <2>1. /\ UNCHANGED files
          /\ \/ UNCHANGED sessions
             \/ sessions' = [sessions EXCEPT ![id] = NoSession]
          /\ sweep' = [sweep EXCEPT ![id] = NotSwept]
      BY <1>6 DEF SweepFinish
    <2>2. \A q \in Req : /\ pc'[q] \in Reserving \cup CancelPCs => pc'[q] = pc[q]
                         /\ op'[q].path = op[q].path
      BY <1>6 DEF SweepFinish, TypeOK, Locals, Reserving, CancelPCs
    <2>3. \A p \in Paths : \A q \in Req : SlotHolds(q, p)' => SlotHolds(q, p)
      BY <2>2 DEF SlotHolds
    <2>4. \A p \in Paths : \A x \in Ids : SweepHolds(x, p)' => SweepHolds(x, p)
      BY <2>1 DEF TypeOK, SweepHolds, NotSwept
    <2>5. \A p \in Paths : \A x \in Ids : SessionHolds(x, p)' => SessionHolds(x, p)
      BY <2>1, SessionsKept, SessionsSame DEF NoSession
    <2>. QED
      BY <2>1, <2>3, <2>4, <2>5, NoNewOwnerNoLoss
  <1>. QED
    BY <1>1, <1>2, <1>4, <1>5, <1>6 DEF Sweep

(* Every step keeps the reservations exclusive.                              *)
LEMMA ExclusiveStep ==
  ASSUME TypeOK, ReservationExclusive, [Next]_vars
  PROVE  ReservationExclusive'
  <1>1. \A r \in Req : op[r] \in Locals
    BY DEF TypeOK
  <1>2. ASSUME NEW r \in Req, Arrive(r)
        PROVE  ReservationExclusive'
    BY <1>2, InitExclusive, ChunkCompleteExclusive, CancelExclusive, RequestType
    DEF Arrive
  <1>3. ASSUME NEW r \in Req, Work(r) \/ ChunkSave(r)
        PROVE  ReservationExclusive'
    BY <1>1, <1>3, InitExclusive, ChunkCompleteExclusive, CancelExclusive DEF Work
  <1>4. ASSUME NEW r \in Req, Drop(r)
        PROVE  ReservationExclusive'
    <2>1. UNCHANGED <<files, sessions, sweep>> /\ Return(r)
      BY <1>4 DEF Drop
    <2>. QED
      BY <2>1, ReturnKept, SessionsSame, SweepsSame, NoNewOwnerNoLoss
  <1>5. CASE Crash
    <2>1. /\ \A p \in Paths : \A r \in Req : ~SlotHolds(r, p)'
          /\ \A p \in Paths : \A id \in Ids : ~SessionHolds(id, p)' /\ ~SweepHolds(id, p)'
      BY <1>5 DEF Crash, SlotHolds, SessionHolds, SweepHolds, Active, NoSession,
                  NotSwept, Reserving, CancelPCs
    <2>. QED
      BY <2>1 DEF ReservationExclusive
  <1>6. CASE UNCHANGED vars
    BY <1>6, SlotsSame, SessionsSame, SweepsSame, NoNewOwnerNoLoss DEF vars
  <1>7. ASSUME NEW d \in Dirs, NEW i \in Idx, Settle(d, i)
        PROVE  ReservationExclusive'
    BY <1>7, SlotsSame, SessionsSame, SweepsSame, NoNewOwnerNoLoss DEF Settle
  <1>. QED
    BY <1>2, <1>3, <1>4, <1>5, <1>6, <1>7, SweepExclusive DEF Next

(* A reserved path has one owner at a time and exists as long as it has one, *)
(* for any number of uploads of the same name, senders that go away at any   *)
(* await, restarts and failing file system calls.                            *)
THEOREM ExclusiveTheorem == Spec => []ReservationExclusive
  <1>1. Init => ReservationExclusive
    BY DEF Init, ReservationExclusive, SlotHolds, SessionHolds, SweepHolds, Active,
           NoSession, NotSwept, Reserving, CancelPCs
  <1>. QED
    BY <1>1, ExclusiveStep, Typing, PTL DEF Spec

-----------------------------------------------------------------------------
(* What follows from the two invariants                                      *)

(* A cleanup step spares every session that is live before and after it.     *)
LEMMA SparesStep ==
  ASSUME TypeOK, TombstoneHeld, ReservationExclusive, Next, sweep' # sweep,
         NEW x \in Ids, Active(x), Active(x)'
  PROVE  /\ dirs'[<<sessions[x].name, x>>] = dirs[<<sessions[x].name, x>>]
         /\ files'[sessions[x].path] = files[sessions[x].path]
  <1>1. sessions[x].name \in Names /\ sessions[x].path \in Paths
    BY ActiveType DEF ActiveSession
  <1>2. /\ ~Crash
        /\ \A r \in Req : ~Arrive(r) /\ ~Work(r) /\ ~ChunkSave(r) /\ ~Drop(r)
        /\ \A d \in Dirs, i \in Idx : ~Settle(d, i)
        /\ \A id \in Ids : ~Age(id)
    <2>1. ~Crash
      BY DEF Crash, Active, NoSession
    <2>2. ASSUME NEW r \in Req PROVE ~Arrive(r) /\ ~Drop(r)
      BY DEF Arrive, InitLookup, ChunkStart, CompleteStart, CancelStart, Drop
    <2>3. ASSUME NEW r \in Req PROVE ~Work(r) /\ ~ChunkSave(r)
      BY DEF Work, InitLookup, InitWait, InitReserve, InitMkdir, InitScan, InitInstall,
             InitUndo, ChunkExists, ChunkSave, ChunkRecord, CompleteMerge,
             CompleteRename, CompleteUnlist, CompleteClear, CancelDir, CancelFile
    <2>. QED
      BY <2>1, <2>2, <2>3 DEF Age, Settle
  <1>3. CASE SweepTake
    BY <1>3 DEF SweepTake
  <1>4. ASSUME NEW id \in Ids, Sweep(id)
        PROVE  /\ dirs'[<<sessions[x].name, x>>] = dirs[<<sessions[x].name, x>>]
               /\ files'[sessions[x].path] = files[sessions[x].path]
    <2>1. CASE SweepDir(id)
      <3>1. RemoveDir(<<sweep[id].name, id>>) /\ UNCHANGED files /\ sweep[id].stage # "none"
        BY <2>1 DEF SweepDir
      <3>2. x # id
        BY <3>1 DEF TombstoneHeld, Removing, Active
      <3>. QED
        BY <1>1, <3>1, <3>2 DEF RemoveDir, TypeOK, Dirs
    <2>2. CASE SweepFile(id)
      <3>1. /\ RemoveFile(sweep[id].path) /\ UNCHANGED dirs
            /\ SweepHolds(id, sweep[id].path) /\ SessionHolds(x, sessions[x].path)
        BY <2>2 DEF SweepFile, SweepHolds, SessionHolds
      <3>2. sweep[id].path # sessions[x].path
        BY <1>1, <3>1 DEF ReservationExclusive
      <3>. QED
        BY <1>1, <3>1, <3>2 DEF RemoveFile, TypeOK
    <2>3. CASE SweepLook(id) \/ SweepFinish(id)
      BY <2>3 DEF SweepLook, SweepFinish
    <2>. QED
      BY <1>4, <2>1, <2>2, <2>3 DEF Sweep
  <1>. QED
    BY <1>2, <1>3, <1>4 DEF Next

(* The cleanup never deletes the chunk directory or the target of a session  *)
(* that is live, although it works outside the lock with what it read there. *)
THEOREM SparesTheorem == Spec => CleanupSparesLive
  <1>1. TypeOK /\ TombstoneHeld /\ ReservationExclusive /\ [Next]_vars
        => [sweep' # sweep =>
              \A id \in Ids : Active(id) /\ Active(id)' =>
                LET d == <<sessions[id].name, id>>
                    p == sessions[id].path
                IN  dirs'[d] = dirs[d] /\ files'[p] = files[p]]_vars
    BY SparesStep DEF vars
  <1>. QED
    BY <1>1, Typing, TombstoneTheorem, ExclusiveTheorem, PTL DEF Spec, CleanupSparesLive

(* Only a merge whose digest matched is renamed: together with the absence   *)
(* of foreign bytes this is inductive.                                       *)
Verified == /\ OnlyVerifiedContent
            /\ \A r \in Req : At(r, "rename") => op[r].pure

LEMMA VerifiedStep ==
  ASSUME TypeOK, Verified, [Next]_vars
  PROVE  Verified'
  <1>. USE DEF Verified, OnlyVerifiedContent, At
  <1>1. ASSUME NEW r \in Req, CompleteRename(r)
        PROVE  Verified'
    <2>1. op[r].pure /\ op[r].file \in Files
      BY <1>1 DEF CompleteRename, TypeOK, Locals
    <2>. QED
      BY <1>1, <2>1, ConstantsAssumption DEF CompleteRename, GoTo, TypeOK
  <1>2. ASSUME UNCHANGED files \/ \E p \in Paths : RemoveFile(p),
               \A r \in Req : pc'[r] = "rename" => op'[r].pure
        PROVE  Verified'
    BY <1>2, ConstantsAssumption DEF RemoveFile, TypeOK
  <1>3. ASSUME NEW r \in Req, NEW l, NEW o, l # "rename",
               pc' = [pc EXCEPT ![r] = l], op' = [op EXCEPT ![r] = o]
        PROVE  \A q \in Req : pc'[q] = "rename" => op'[q].pure
    BY <1>3 DEF TypeOK
  <1>4. ASSUME NEW r \in Req, NEW l, l # "rename", GoTo(r, l), UNCHANGED op
        PROVE  \A q \in Req : pc'[q] = "rename" => op'[q].pure
    BY <1>4 DEF TypeOK, GoTo
  <1>5. ASSUME NEW r \in Req, Return(r)
        PROVE  \A q \in Req : pc'[q] = "rename" => op'[q].pure
    BY <1>3, <1>5 DEF Return, GoTo
  <1>6. ASSUME NEW r \in Req, NEW o, InitLookup(r, o)
        PROVE  Verified'
    <2>1. /\ UNCHANGED files
          /\ \/ Return(r)
             \/ SetOp(r, o) /\ (GoTo(r, "toWait") \/ GoTo(r, "reserve"))
      BY <1>6 DEF InitLookup
    <2>. QED
      BY <1>2, <1>3, <1>5, <2>1 DEF SetOp, GoTo
  <1>7. ASSUME NEW r \in Req, InitReserve(r)
        PROVE  Verified'
    <2>1. pc[r] = "reserve"
      BY <1>7 DEF InitReserve
    <2>2. \A q \in Req : pc'[q] = "rename" => op'[q].pure
      BY <1>7, <1>5, <2>1 DEF InitReserve, SetOp, GoTo, TypeOK
    <2>3. \A p \in Paths : files'[p] # Mixed
      BY <1>7, ConstantsAssumption DEF InitReserve, TypeOK
    <2>. QED
      BY <2>2, <2>3
  <1>8. ASSUME NEW r \in Req, CompleteMerge(r)
        PROVE  Verified'
    <2>1. UNCHANGED files /\ pc[r] = "merge"
      BY <1>8 DEF CompleteMerge
    <2>2. \/ Return(r)
          \/ UNCHANGED pc /\ \E o : op' = [op EXCEPT ![r] = o]
          \/ op[r].pure /\ GoTo(r, "rename") /\ UNCHANGED op
      BY <1>8 DEF CompleteMerge, SetOp
    <2>3. \A q \in Req : pc'[q] = "rename" => op'[q].pure
      BY <1>5, <2>1, <2>2 DEF GoTo, TypeOK
    <2>. QED
      BY <1>2, <2>1, <2>3
  <1>9. ASSUME NEW r \in Req,
               \/ InitWait(r) \/ InitMkdir(r) \/ InitScan(r) \/ InitInstall(r)
               \/ ChunkExists(r) \/ ChunkSave(r) \/ ChunkRecord(r)
               \/ CompleteUnlist(r) \/ CompleteClear(r) \/ CancelDir(r) \/ Drop(r)
        PROVE  Verified'
    <2>1. UNCHANGED files
      BY <1>9 DEF InitWait, InitMkdir, InitScan, InitInstall, ChunkExists, ChunkSave,
                  ChunkRecord, CompleteUnlist, CompleteClear, CancelDir, Drop
    <2>2. \/ Return(r)
          \/ \E l : l # "rename" /\ GoTo(r, l) /\ UNCHANGED op
          \/ \E o : GoTo(r, "install") /\ op' = [op EXCEPT ![r] = o]
      BY <1>9 DEF InitWait, InitMkdir, InitScan, InitInstall, ChunkExists, ChunkSave,
                  ChunkRecord, CompleteUnlist, CompleteClear, CancelDir, Drop, SetOp
    <2>. QED
      BY <1>2, <1>3, <1>4, <1>5, <2>1, <2>2 DEF GoTo
  <1>10. ASSUME NEW r \in Req, InitUndo(r) \/ CancelFile(r)
         PROVE  Verified'
    <2>1. op[r].path \in Paths
      BY DEF TypeOK, Locals
    <2>2. RemoveFile(op[r].path)
      BY <1>10 DEF InitUndo, CancelFile
    <2>3. \A q \in Req : pc'[q] = "rename" => op'[q].pure
      BY <1>4, <1>5, <1>10 DEF InitUndo, CancelFile
    <2>. QED
      BY <1>2, <2>1, <2>2, <2>3
  <1>11. ASSUME NEW r \in Req, NEW id \in Ids,
                \/ \E i \in Idx, f \in Files : ChunkStart(r, id, i, f)
                \/ CompleteStart(r, id) \/ CancelStart(r, id)
         PROVE  Verified'
    <2>1. /\ UNCHANGED files
          /\ \E l, o : /\ l # "rename"
                       /\ pc' = [pc EXCEPT ![r] = l] /\ op' = [op EXCEPT ![r] = o]
      BY <1>11 DEF ChunkStart, CompleteStart, CancelStart, GoTo, SetOp
    <2>. QED
      BY <1>2, <1>3, <2>1
  <1>12. ASSUME SweepTake \/ \E id \in Ids : Age(id) \/ SweepDir(id) \/ SweepLook(id)
         PROVE  Verified'
    BY <1>12 DEF SweepTake, Age, SweepDir, SweepLook
  <1>13. ASSUME NEW id \in Ids, SweepFile(id)
         PROVE  Verified'
    <2>1. sweep[id].path \in Paths
      BY <1>13 DEF SweepFile, TypeOK, SweepWork, NotSwept
    <2>. QED
      BY <1>2, <1>13, <2>1 DEF SweepFile
  <1>14. ASSUME NEW id \in Ids, SweepFinish(id)
         PROVE  Verified'
    <2>1. \A r \in Req : /\ pc'[r] = "rename" => pc[r] = "rename"
                         /\ op'[r].pure = op[r].pure
      BY <1>14 DEF SweepFinish, TypeOK, Locals
    <2>. QED
      BY <1>2, <1>14, <2>1 DEF SweepFinish
  <1>15. CASE Crash \/ UNCHANGED vars \/ \E d \in Dirs, i \in Idx : Settle(d, i)
    BY <1>15 DEF Crash, vars, Settle
  <1>. QED
    BY <1>1, <1>6, <1>7, <1>8, <1>9, <1>10, <1>11, <1>12, <1>13, <1>14, <1>15
    DEF Next, Arrive, Work, Sweep

(* Nothing but one verified upload's bytes ever appears under its name, even *)
(* when chunks that other sessions left under the same id are merged.        *)
THEOREM VerifiedTheorem == Spec => []OnlyVerifiedContent
  <1>1. Init => Verified
    BY ConstantsAssumption DEF Init, Verified, OnlyVerifiedContent, At
  <1>2. Verified => OnlyVerifiedContent
    BY DEF Verified
  <1>. QED
    BY <1>1, <1>2, VerifiedStep, Typing, PTL DEF Spec

-----------------------------------------------------------------------------
(* Chunks that count as received: an init that comes when no earlier request *)
(* for its id is handled any more.                                           *)

(* What the receiver may count of the content f in the directory d.  A chunk *)
(* that is there is answered without a look at its length.                   *)
Countable(d, f) == {i \in Chunks(f) : HasChunk(d, i)}

(* An init is alone with its id, which has no session.                       *)
InitAlone(r) ==
  pc[r] \in InitPCs =>
      /\ ~Active(op[r].id)
      /\ \A q \in Req : Serves(q, op[r].id) => q = r
      /\ pc[r] \in {"reserve", "mkdir", "scan", "install"} => Free(op[r].id)
      /\ At(r, "install") => op[r].got \subseteq Countable(Dir(r), op[r].file)

(* The other handlers of an id with a session are that session's own.        *)
InSession(r) ==
  pc[r] # "idle" /\ Active(op[r].id) =>
      /\ pc[r] \in ChunkPCs \cup {"merge", "rename", "unlist"}
      /\ op[r].name = sessions[op[r].id].name
      /\ op[r].file = sessions[op[r].id].file
      /\ At(r, "record") => op[r].idx \in Countable(Dir(r), op[r].file)

ChunkFits(r) == pc[r] \in {"exists", "save"} => op[r].idx \in Chunks(op[r].file)

HandlerFresh(r) == InitAlone(r) /\ InSession(r) /\ ChunkFits(r)

ReceivedCountable ==
  \A id \in Ids : Active(id) =>
      sessions[id].got \subseteq Countable(<<sessions[id].name, id>>, sessions[id].file)

FreshInv ==
  /\ TypeOK /\ TombstoneHeld
  /\ \A r \in Req : HandlerFresh(r)
  /\ ReceivedCountable

(* How a session, a chunk directory and the set of an id's handlers change   *)
(* in a step.                                                                *)
Installs(r, x) ==
  /\ At(r, "install") /\ op[r].id = x /\ pc'[r] = "idle"
  /\ sessions'[x] = NewSession(op[r]) /\ UNCHANGED dirs

SessionStep(x) ==
  /\ Active(x) /\ Active(x)' =>
      /\ sessions'[x].name = sessions[x].name
      /\ sessions'[x].file = sessions[x].file
      /\ \A i \in sessions'[x].got :
            i \in sessions[x].got \/ \E r \in Req : At(r, "record") /\ op[r].id = x
                                                    /\ op[r].idx = i
  /\ Free(x) => Free(x)' \/ \E r \in Req : Installs(r, x)
  /\ Removing(x) => ~Active(x)'

DirRemover(n, x) ==
  \/ \E r \in Req : pc[r] \in {"clear", "cancelDir"} /\ Dir(r) = <<n, x>>
  \/ sweep[x].stage = "queued"

DirStep(n, x) ==
  LET d == <<n, x>>
  IN  \/ dirs'[d] = dirs[d]
      \/ dirs[d] = NoDir /\ dirs'[d] = EmptyDir
      \/ /\ DirRemover(n, x)
         /\ dirs'[d] \in {NoDir, EmptyDir}
      \/ /\ dirs[d] # NoDir
         /\ \E i \in Idx, c \in Stored : dirs'[d] = [dirs[d] EXCEPT ![i] = c]

(* Nobody begins to serve an id without a session that is served already.    *)
ServerStep(r, x) ==
  Serves(r, x)' => Serves(r, x) \/ Active(x) \/ \A q \in Req : ~Serves(q, x)

LEMMA SessionSteps ==
  ASSUME TypeOK, [Next]_vars, NEW x \in Ids
  PROVE  SessionStep(x)
  <1>. USE DEF SessionStep, Free, Active, Removing
  <1>1. ASSUME UNCHANGED sessions
        PROVE  SessionStep(x)
    BY <1>1
  <1>2. ASSUME NEW id \in Ids, Active(id), NEW s \in ActiveSession,
               s.name = sessions[id].name, s.file = sessions[id].file,
               s.got = sessions[id].got,
               sessions' = [sessions EXCEPT ![id] = s]
        PROVE  SessionStep(x)
    BY <1>2 DEF TypeOK, ActiveSession
  <1>3. ASSUME NEW id \in Ids, sessions' = [sessions EXCEPT ![id] = NoSession]
        PROVE  SessionStep(x)
    BY <1>3 DEF TypeOK, NoSession
  <1>4. ASSUME NEW id \in Ids, Active(id)
        PROVE  LET s == Touched(sessions[id])
               IN  /\ s \in ActiveSession /\ s.name = sessions[id].name
                   /\ s.file = sessions[id].file /\ s.got = sessions[id].got
    BY <1>4, ActiveType DEF Touched, ActiveSession
  <1>5. ASSUME NEW id \in Ids, Active(id)
        PROVE  LET s == [sessions[id] EXCEPT !.stale = TRUE]
               IN  /\ s \in ActiveSession /\ s.name = sessions[id].name
                   /\ s.file = sessions[id].file /\ s.got = sessions[id].got
    BY <1>5, ActiveType DEF ActiveSession
  <1>6. ASSUME NEW r \in Req, NEW o \in Locals, InitLookup(r, o)
        PROVE  SessionStep(x)
    <2>1. o.id \in Ids
      BY DEF Locals
    <2>. QED
      BY <1>1, <1>2, <1>4, <1>6, <2>1 DEF InitLookup
  <1>7. ASSUME NEW r \in Req, InitInstall(r)
        PROVE  SessionStep(x)
    <2>1. op[r].id \in Ids
      BY DEF TypeOK, Locals
    <2>2. CASE Free(op[r].id)
      <3>1. /\ At(r, "install") /\ UNCHANGED dirs /\ pc'[r] = "idle"
            /\ sessions' = [sessions EXCEPT ![op[r].id] = NewSession(op[r])]
        BY <1>7, <2>2 DEF InitInstall, Return, GoTo, TypeOK
      <3>2. CASE x = op[r].id
        <4>1. Installs(r, x)
          BY <2>1, <3>1, <3>2 DEF TypeOK, Installs
        <4>. QED
          BY <2>2, <3>2, <4>1
      <3>3. CASE x # op[r].id
        BY <3>1, <3>3 DEF TypeOK
      <3>. QED
        BY <3>2, <3>3
    <2>3. CASE ~Free(op[r].id)
      BY <1>1, <1>2, <1>4, <1>7, <2>1, <2>3 DEF InitInstall
    <2>. QED
      BY <2>2, <2>3
  <1>8. ASSUME NEW r \in Req, ChunkRecord(r)
        PROVE  SessionStep(x)
    <2>1. op[r].id \in Ids /\ At(r, "record")
      BY <1>8 DEF TypeOK, Locals, ChunkRecord
    <2>2. CASE ~Active(op[r].id)
      BY <1>1, <1>8, <2>2 DEF ChunkRecord
    <2>3. CASE Active(op[r].id)
      <3>. DEFINE s == Credited(sessions[op[r].id], op[r].idx)
      <3>1. sessions[op[r].id] \in ActiveSession
        BY <2>1, <2>3, ActiveType
      <3>2. /\ s.tag = "active" /\ s.name = sessions[op[r].id].name
            /\ s.file = sessions[op[r].id].file
            /\ s.got = sessions[op[r].id].got \cup {op[r].idx}
        BY <3>1 DEF Credited, ActiveSession
      <3>3. sessions' = [sessions EXCEPT ![op[r].id] = s]
        BY <1>8, <2>3 DEF ChunkRecord
      <3>. HIDE DEF s
      <3>4. CASE x = op[r].id
        <4>1. sessions'[x] = s
          BY <3>3, <3>4 DEF TypeOK
        <4>. QED
          BY <2>1, <2>3, <3>2, <3>4, <4>1
      <3>5. CASE x # op[r].id
        BY <3>3, <3>5 DEF TypeOK
      <3>. QED
        BY <3>4, <3>5
    <2>. QED
      BY <2>2, <2>3
  <1>9. ASSUME NEW r \in Req, CompleteUnlist(r)
        PROVE  SessionStep(x)
    <2>1. op[r].id \in Ids
      BY DEF TypeOK, Locals
    <2>. QED
      BY <1>1, <1>3, <1>9, <2>1 DEF CompleteUnlist
  <1>10. ASSUME NEW r \in Req,
                \/ InitWait(r) \/ InitReserve(r) \/ InitMkdir(r) \/ InitScan(r)
                \/ InitUndo(r) \/ ChunkExists(r) \/ ChunkSave(r)
                \/ CompleteMerge(r) \/ CompleteRename(r) \/ CompleteClear(r)
                \/ CancelDir(r) \/ CancelFile(r) \/ Drop(r)
         PROVE  SessionStep(x)
    BY <1>1, <1>10 DEF InitWait, InitReserve, InitMkdir, InitScan, InitUndo, ChunkExists,
       ChunkSave, CompleteMerge, CompleteRename, CompleteClear, CancelDir, CancelFile, Drop
  <1>11. ASSUME NEW r \in Req, NEW id \in Ids,
                \/ \E i \in Idx, f \in Files : ChunkStart(r, id, i, f)
                \/ CompleteStart(r, id) \/ CancelStart(r, id)
         PROVE  SessionStep(x)
    BY <1>1, <1>3, <1>11 DEF ChunkStart, CompleteStart, CancelStart
  <1>12. ASSUME NEW id \in Ids, Age(id)
         PROVE  SessionStep(x)
    <2>1. sessions' = [sessions EXCEPT ![id] = [sessions[id] EXCEPT !.stale = TRUE]]
      BY <1>12 DEF Age, TypeOK
    <2>2. Active(id)
      BY <1>12 DEF Age
    <2>. QED
      BY <1>2, <1>5, <2>1, <2>2
  <1>13. CASE SweepTake
    BY <1>13 DEF SweepTake, Tombstone, Stale
  <1>14. ASSUME NEW id \in Ids, Sweep(id)
         PROVE  SessionStep(x)
    BY <1>1, <1>3, <1>14 DEF Sweep, SweepDir, SweepLook, SweepFile, SweepFinish
  <1>15. CASE Crash
    BY <1>15 DEF Crash, NoSession
  <1>16. CASE UNCHANGED vars \/ \E d \in Dirs, i \in Idx : Settle(d, i)
    BY <1>1, <1>16 DEF vars, Settle
  <1>17. \A r \in Req : op[r] \in Locals
    BY DEF TypeOK
  <1>. QED
    BY <1>6, <1>7, <1>8, <1>9, <1>10, <1>11, <1>12, <1>13, <1>14, <1>15, <1>16, <1>17,
       RequestType
    DEF Next, Arrive, Work

LEMMA DirSteps ==
  ASSUME TypeOK, [Next]_vars, NEW n \in Names, NEW x \in Ids
  PROVE  DirStep(n, x)
  <1>. DEFINE d == <<n, x>>
  <1>1. d \in Dirs
    BY DEF Dirs
  <1>. HIDE DEF d
  <1>2. ASSUME UNCHANGED dirs
        PROVE  DirStep(n, x)
    BY <1>2 DEF DirStep
  <1>3. ASSUME NEW e \in Dirs, e # d,
               RemoveDir(e) \/ \E v : dirs' = [dirs EXCEPT ![e] = v]
        PROVE  DirStep(n, x)
    BY <1>1, <1>3 DEF DirStep, RemoveDir, TypeOK, d
  <1>4. ASSUME RemoveDir(d), DirRemover(n, x)
        PROVE  DirStep(n, x)
    BY <1>1, <1>4 DEF DirStep, RemoveDir, TypeOK, d
  <1>5. ASSUME NEW r \in Req, CompleteClear(r) \/ CancelDir(r)
        PROVE  DirStep(n, x)
    <2>1. RemoveDir(Dir(r)) /\ pc[r] \in {"clear", "cancelDir"} /\ Dir(r) \in Dirs
      BY <1>5, DirType DEF CompleteClear, CancelDir, At
    <2>2. Dir(r) = d => DirRemover(n, x)
      BY <2>1 DEF DirRemover, d
    <2>. QED
      BY <1>3, <1>4, <2>1, <2>2
  <1>6. ASSUME NEW r \in Req, InitMkdir(r)
        PROVE  DirStep(n, x)
    <2>1. CASE Dir(r) = d
      BY <1>1, <1>6, <2>1 DEF InitMkdir, DirStep, TypeOK, d
    <2>2. CASE Dir(r) # d
      BY <1>2, <1>3, <1>6, <2>2, DirType DEF InitMkdir
    <2>. QED
      BY <2>1, <2>2
  <1>12. ASSUME NEW e \in Dirs, NEW i \in Idx, NEW c \in Stored, dirs[e] # NoDir,
                dirs' = [dirs EXCEPT ![e] = [dirs[e] EXCEPT ![i] = c]]
         PROVE  DirStep(n, x)
    <2>1. CASE e = d
      <3>1. dirs'[d] = [dirs[d] EXCEPT ![i] = c]
        BY <1>1, <1>12, <2>1 DEF TypeOK
      <3>. QED
        BY <1>12, <2>1, <3>1 DEF DirStep, d
    <2>2. CASE e # d
      BY <1>3, <1>12, <2>2
    <2>. QED
      BY <2>1, <2>2
  <1>7. ASSUME NEW r \in Req, ChunkSave(r)
        PROVE  DirStep(n, x)
    <2>1. CASE UNCHANGED dirs
      BY <1>2, <2>1
    <2>2. CASE ~UNCHANGED dirs
      <3>. DEFINE c == [body |-> op[r].body, whole |-> FALSE]
      <3>1. op[r].idx \in Idx /\ c \in Stored /\ Dir(r) \in Dirs
        BY <1>7, DirType DEF ChunkSave, At, TypeOK, Locals, Stored
      <3>2. /\ dirs[Dir(r)] # NoDir
            /\ dirs' = [dirs EXCEPT ![Dir(r)] = [dirs[Dir(r)] EXCEPT ![op[r].idx] = c]]
        BY <1>7, <2>2 DEF ChunkSave
      <3>. HIDE DEF c
      <3>. QED
        BY <1>12, <3>1, <3>2
    <2>. QED
      BY <2>1, <2>2
  <1>8. ASSUME NEW id \in Ids, SweepDir(id)
        PROVE  DirStep(n, x)
    <2>1. RemoveDir(<<sweep[id].name, id>>) /\ sweep[id].stage = "queued"
      BY <1>8 DEF SweepDir
    <2>2. <<sweep[id].name, id>> \in Dirs
      BY <2>1 DEF TypeOK, NotSwept, SweepWork, Dirs
    <2>3. <<sweep[id].name, id>> = d => DirRemover(n, x)
      BY <2>1 DEF DirRemover, d
    <2>. QED
      BY <1>3, <1>4, <2>1, <2>2, <2>3
  <1>9. ASSUME NEW r \in Req,
               \/ \E o : InitLookup(r, o)
               \/ InitWait(r) \/ InitReserve(r) \/ InitScan(r) \/ InitInstall(r)
               \/ InitUndo(r) \/ ChunkExists(r) \/ ChunkRecord(r)
               \/ CompleteMerge(r) \/ CompleteRename(r) \/ CompleteUnlist(r)
               \/ CancelFile(r) \/ Drop(r)
        PROVE  DirStep(n, x)
    BY <1>2, <1>9 DEF InitLookup, InitWait, InitReserve, InitScan, InitInstall, InitUndo,
       ChunkExists, ChunkRecord, CompleteMerge, CompleteRename, CompleteUnlist, CancelFile,
       Drop
  <1>10. ASSUME NEW r \in Req, NEW id \in Ids,
                \/ \E i \in Idx, f \in Files : ChunkStart(r, id, i, f)
                \/ CompleteStart(r, id) \/ CancelStart(r, id)
         PROVE  DirStep(n, x)
    BY <1>2, <1>10 DEF ChunkStart, CompleteStart, CancelStart
  <1>11. ASSUME \/ SweepTake \/ Crash \/ UNCHANGED vars
                \/ \E id \in Ids : Age(id) \/ SweepLook(id) \/ SweepFile(id)
                                   \/ SweepFinish(id)
         PROVE  DirStep(n, x)
    BY <1>2, <1>11 DEF SweepTake, Crash, vars, Age, SweepLook, SweepFile, SweepFinish
  <1>13. ASSUME NEW e \in Dirs, NEW i \in Idx, Settle(e, i)
         PROVE  DirStep(n, x)
    <2>1. dirs[e] # NoDir /\ dirs[e] \in [Idx -> Stored \cup {Hole}] /\ dirs[e][i] \in Stored
      BY <1>13 DEF Settle, HasChunk, TypeOK
    <2>2. [dirs[e][i] EXCEPT !.whole = TRUE] \in Stored
      BY <2>1 DEF Stored
    <2>3. dirs' = [dirs EXCEPT ![e] = [dirs[e] EXCEPT ![i] =
                                          [dirs[e][i] EXCEPT !.whole = TRUE]]]
      BY <1>13 DEF Settle
    <2>. QED
      BY <1>12, <2>1, <2>2, <2>3
  <1>. QED
    BY <1>5, <1>6, <1>7, <1>8, <1>9, <1>10, <1>11, <1>13 DEF Next, Arrive, Work, Sweep

LEMMA ServerSteps ==
  ASSUME TypeOK, FreshInit, [Next]_vars, NEW r \in Req, NEW x \in Ids
  PROVE  ServerStep(r, x)
  <1>. USE DEF ServerStep, Serves
  <1>1. ASSUME NEW q \in Req, Return(q)
        PROVE  ServerStep(r, x)
    BY <1>1 DEF Return, GoTo, TypeOK
  <1>2. ASSUME NEW q \in Req, pc[q] # "idle",
               UNCHANGED op \/ \E o : SetOp(q, o) /\ o.id = op[q].id,
               \A p \in Req : p # q => pc'[p] = pc[p]
        PROVE  ServerStep(r, x)
    BY <1>2 DEF SetOp, TypeOK
  <1>3. ASSUME NEW q \in Req, pc[q] # "idle",
               UNCHANGED op \/ \E o : SetOp(q, o) /\ o.id = op[q].id,
               \E l : GoTo(q, l)
        PROVE  ServerStep(r, x)
    BY <1>2, <1>3 DEF GoTo, TypeOK
  <1>4. ASSUME NEW q \in Req, NEW id \in Ids, NEW l, NEW o,
               o.id = id, GoTo(q, l), SetOp(q, o),
               Active(id) \/ \A p \in Req : ~Serves(p, id)
        PROVE  ServerStep(r, x)
    BY <1>4 DEF GoTo, SetOp, TypeOK
  <1>5. ASSUME NEW q \in Req, Arrive(q)
        PROVE  ServerStep(r, x)
    <2>1. ASSUME NEW id \in Ids, NEW n \in Names, NEW f \in Files,
                 MayInit(id), InitLookup(q, Requested(id, n, f))
          PROVE  ServerStep(r, x)
      <3>1. \A p \in Req : ~Serves(p, id)
        BY <2>1 DEF MayInit
      <3>2. Requested(id, n, f).id = id
        BY NoOpType DEF Requested, Locals
      <3>. QED
        BY <1>1, <1>4, <2>1, <3>1, <3>2 DEF InitLookup
    <2>2. ASSUME NEW id \in Ids, NEW i \in Idx, NEW f \in Files, ChunkStart(q, id, i, f)
          PROVE  ServerStep(r, x)
      <3>1. Active(id) /\ [Cloned(id) EXCEPT !.idx = i, !.body = f].id = id
        BY <2>2, ClonedType DEF ChunkStart, Locals
      <3>. QED
        BY <1>4, <2>2, <3>1 DEF ChunkStart
    <2>3. ASSUME NEW id \in Ids, CompleteStart(q, id)
          PROVE  ServerStep(r, x)
      <3>1. Active(id) /\ [Cloned(id) EXCEPT !.idx = 1].id = id
        BY <2>3, ClonedType DEF CompleteStart, Locals
      <3>. QED
        BY <1>4, <2>3, <3>1 DEF CompleteStart
    <2>4. ASSUME NEW id \in Ids, CancelStart(q, id)
          PROVE  ServerStep(r, x)
      <3>1. Active(id) /\ Cloned(id).id = id
        BY <2>4, ClonedType DEF CancelStart
      <3>. QED
        BY <1>4, <2>4, <3>1 DEF CancelStart
    <2>. QED
      BY <1>5, <2>1, <2>2, <2>3, <2>4 DEF Arrive
  <1>6. ASSUME NEW q \in Req, At(q, "lookup"), InitLookup(q, op[q])
        PROVE  ServerStep(r, x)
    <2>1. pc[q] # "idle"
      BY <1>6 DEF At
    <2>. QED
      BY <1>1, <1>3, <1>6, <2>1 DEF InitLookup
  <1>7. ASSUME NEW q \in Req, InitReserve(q)
        PROVE  ServerStep(r, x)
    <2>1. pc[q] # "idle" /\ op[q] \in Locals
      BY <1>7 DEF InitReserve, At, TypeOK
    <2>2. \/ Return(q)
          \/ UNCHANGED pc /\ \E k : SetOp(q, [op[q] EXCEPT !.try = k])
          \/ GoTo(q, "mkdir") /\ \E p : SetOp(q, [op[q] EXCEPT !.path = p, !.try = 0])
      BY <1>7 DEF InitReserve
    <2>3. \A k, p : /\ [op[q] EXCEPT !.try = k].id = op[q].id
                    /\ [op[q] EXCEPT !.path = p, !.try = 0].id = op[q].id
      BY <2>1 DEF Locals
    <2>. QED
      BY <1>1, <1>2, <1>3, <2>1, <2>2, <2>3
  <1>8. ASSUME NEW q \in Req, InitScan(q)
        PROVE  ServerStep(r, x)
    <2>1. pc[q] # "idle" /\ op[q] \in Locals
      BY <1>8 DEF InitScan, At, TypeOK
    <2>2. \A g : [op[q] EXCEPT !.got = g].id = op[q].id
      BY <2>1 DEF Locals
    <2>. QED
      BY <1>3, <1>8, <2>1, <2>2 DEF InitScan
  <1>9. ASSUME NEW q \in Req, CompleteMerge(q)
        PROVE  ServerStep(r, x)
    <2>1. pc[q] # "idle" /\ op[q] \in Locals
      BY <1>9 DEF CompleteMerge, At, TypeOK
    <2>2. \/ Return(q)
          \/ GoTo(q, "rename") /\ UNCHANGED op
          \/ UNCHANGED pc /\ \E n, b : SetOp(q, [op[q] EXCEPT !.idx = n, !.pure = b])
      BY <1>9, <2>1 DEF CompleteMerge
    <2>3. \A n, b : [op[q] EXCEPT !.idx = n, !.pure = b].id = op[q].id
      BY <2>1 DEF Locals
    <2>. QED
      BY <1>1, <1>2, <1>3, <2>1, <2>2, <2>3
  <1>10. ASSUME NEW q \in Req,
                \/ InitWait(q) \/ InitMkdir(q) \/ InitInstall(q) \/ InitUndo(q)
                \/ ChunkExists(q) \/ ChunkSave(q) \/ ChunkRecord(q)
                \/ CompleteRename(q) \/ CompleteUnlist(q) \/ CompleteClear(q)
                \/ CancelDir(q) \/ CancelFile(q) \/ Drop(q)
         PROVE  ServerStep(r, x)
    <2>1. Return(q) \/ (pc[q] # "idle" /\ UNCHANGED op /\ \E l : GoTo(q, l))
      BY <1>10 DEF InitWait, InitMkdir, InitInstall, InitUndo, ChunkExists, ChunkSave,
         ChunkRecord, CompleteRename, CompleteUnlist, CompleteClear, CancelDir, CancelFile,
         Drop, At
    <2>. QED
      BY <1>1, <1>3, <2>1
  <1>11. ASSUME \/ SweepTake \/ UNCHANGED vars
                \/ \E d \in Dirs, i \in Idx : Settle(d, i)
                \/ \E id \in Ids : Age(id) \/ SweepDir(id) \/ SweepLook(id) \/ SweepFile(id)
         PROVE  ServerStep(r, x)
    BY <1>11 DEF SweepTake, vars, Settle, Age, SweepDir, SweepLook, SweepFile
  <1>12. ASSUME NEW id \in Ids, SweepFinish(id)
         PROVE  ServerStep(r, x)
    <2>1. op'[r].id = op[r].id /\ (pc'[r] # "idle" => pc[r] # "idle")
      BY <1>12 DEF SweepFinish, At, TypeOK, Locals
    <2>. QED
      BY <2>1
  <1>13. CASE Crash
    BY <1>13 DEF Crash
  <1>. QED
    BY <1>5, <1>6, <1>7, <1>8, <1>9, <1>10, <1>11, <1>12, <1>13 DEF Next, Work, Sweep

-----------------------------------------------------------------------------
(* A chunk stays countable as long as nobody is about to remove its          *)
(* directory.                                                                *)
LEMMA CountableKept ==
  ASSUME TypeOK, [Next]_vars,
         NEW n \in Names, NEW x \in Ids, ~DirRemover(n, x), NEW f \in Files
  PROVE  Countable(<<n, x>>, f) \subseteq Countable(<<n, x>>, f)'
  <1>. DEFINE d == <<n, x>>
  <1>1. d \in Dirs
    BY DEF Dirs
  <1>2. dirs[d] \in {NoDir} \cup [Idx -> Stored \cup {Hole}]
    BY <1>1 DEF TypeOK
  <1>3. DirStep(n, x)
    BY DirSteps
  <1>. HIDE DEF d
  <1>4. ASSUME dirs'[d] = dirs[d] \/ dirs[d] = NoDir
        PROVE  Countable(d, f) \subseteq Countable(d, f)'
    BY <1>4 DEF Countable, HasChunk
  <1>5. ASSUME NEW i \in Idx, NEW c \in Stored, dirs[d] # NoDir,
               dirs'[d] = [dirs[d] EXCEPT ![i] = c]
        PROVE  Countable(d, f) \subseteq Countable(d, f)'
    <2>1. /\ dirs'[d] # NoDir /\ dirs'[d][i] = c
          /\ \A j \in Idx : j # i => dirs'[d][j] = dirs[d][j]
      BY <1>2, <1>5, ConstantsAssumption
    <2>2. c # Hole /\ Chunks(f) \subseteq Idx
      BY ConstantsAssumption, ChunkIndexes
    <2>. QED
      BY <1>5, <2>1, <2>2 DEF Countable, HasChunk
  <1>. QED
    BY <1>3, <1>4, <1>5 DEF DirStep, d

-----------------------------------------------------------------------------
(* What an init relies on while it works, and what the handlers of a session *)
(* rely on.                                                                  *)
LEMMA ServedId ==
  ASSUME TypeOK, NEW r \in Req
  PROVE  \E x \in Ids, n \in Names, f \in Files :
            /\ op[r].id = x /\ op[r].name = n /\ op[r].file = f
            /\ Dir(r) = <<n, x>>
  BY DEF TypeOK, Locals, Dir

LEMMA ThreeTags ==
  ASSUME TypeOK, NEW x \in Ids
  PROVE  Free(x) \/ Active(x) \/ Removing(x)
  BY DEF TypeOK, Free, Active, Removing, NoSession, Tombstone, ActiveSession

LEMMA FreeKept ==
  ASSUME FreshInv, NEW n \in Names, NEW x \in Ids,
         ~Removing(x), \A r \in Req : Serves(r, x) => pc[r] \notin {"clear", "cancelDir"}
  PROVE  ~DirRemover(n, x)
  BY DEF FreshInv, DirRemover, Dir, Serves, TombstoneHeld

LEMMA AloneKept ==
  ASSUME FreshInit, FreshInv, [Next]_vars,
         NEW r \in Req, pc[r] \in InitPCs, pc'[r] # "idle",
         NEW x \in Ids, NEW n \in Names, NEW f \in Files,
         op[r].id = x, op[r].name = n, op[r].file = f
  PROVE  /\ ~Active(x)'
         /\ \A q \in Req : Serves(q, x)' => q = r
         /\ Free(x) => /\ Free(x)'
                       /\ Countable(<<n, x>>, f) \subseteq Countable(<<n, x>>, f)'
  <1>1. TypeOK /\ Serves(r, x)
    BY DEF FreshInv, InitPCs, Serves
  <1>2. ~Active(x) /\ \A q \in Req : Serves(q, x) => q = r
    BY DEF FreshInv, HandlerFresh, InitAlone
  <1>3. SessionStep(x)
    BY <1>1, SessionSteps
  <1>4. \A q \in Req : ~Installs(q, x)
    BY <1>2 DEF Installs, At, Serves
  <1>5. ~Active(x)' /\ (Free(x) => Free(x)')
    BY <1>1, <1>2, <1>3, <1>4, ThreeTags DEF SessionStep, Free, Active
  <1>6. \A q \in Req : Serves(q, x)' => q = r
    BY <1>1, <1>2, ServerSteps DEF ServerStep
  <1>7. ASSUME Free(x)
        PROVE  Countable(<<n, x>>, f) \subseteq Countable(<<n, x>>, f)'
    <2>1. ~DirRemover(n, x)
      BY <1>1, <1>2, <1>7, FreeKept DEF InitPCs, Free, Removing
    <2>. QED
      BY <1>1, <2>1, CountableKept DEF FreshInv, HandlerFresh
  <1>. QED
    BY <1>5, <1>6, <1>7

LEMMA StillActive ==
  ASSUME FreshInit, FreshInv, [Next]_vars, NEW x \in Ids, Active(x)',
         NEW r \in Req, Serves(r, x), pc'[r] # "idle"
  PROVE  /\ Active(x)
         /\ sessions'[x].name = sessions[x].name
         /\ sessions'[x].file = sessions[x].file
  <1>1. TypeOK /\ SessionStep(x)
    BY SessionSteps DEF FreshInv
  <1>2. ASSUME NEW q \in Req, Installs(q, x)
        PROVE  FALSE
    <2>1. Serves(q, x) /\ pc[q] \in InitPCs
      BY <1>2 DEF Installs, At, Serves, InitPCs
    <2>2. r = q
      BY <2>1 DEF FreshInv, HandlerFresh, InitAlone, Serves
    <2>. QED
      BY <1>2, <2>2 DEF Installs
  <1>. QED
    BY <1>1, <1>2, ThreeTags DEF SessionStep, Free, Active

(* An active session's directory only gains chunks.                          *)
LEMMA ActiveKept ==
  ASSUME FreshInv, [Next]_vars, NEW x \in Ids, Active(x),
         NEW n \in Names, NEW f \in Files
  PROVE  Countable(<<n, x>>, f) \subseteq Countable(<<n, x>>, f)'
  <1>1. ~Removing(x)
    BY DEF Active, Removing
  <1>2. \A r \in Req : Serves(r, x) => pc[r] \notin {"clear", "cancelDir"}
    BY DEF FreshInv, HandlerFresh, InSession, Serves, ChunkPCs
  <1>. QED
    BY <1>1, <1>2, FreeKept, CountableKept DEF FreshInv, HandlerFresh

-----------------------------------------------------------------------------
(* One lemma for the steps of an init, one for those of the other handlers.  *)
LEMMA InitMoves ==
  ASSUME FreshInit, FreshInv, [Next]_vars,
         NEW r \in Req, pc[r] \in InitPCs, pc'[r] \in InitPCs,
         NEW x \in Ids, NEW n \in Names, NEW f \in Files,
         op[r].id = x, op[r].name = n, op[r].file = f,
         op'[r].id = x, op'[r].name = n, op'[r].file = f,
         pc'[r] \in {"reserve", "mkdir", "scan", "install"} => Free(x),
         pc'[r] = "install" => op'[r].got \subseteq Countable(<<n, x>>, f)
  PROVE  HandlerFresh(r)'
  <1>1. /\ ~Active(x)'
        /\ \A q \in Req : Serves(q, x)' => q = r
        /\ Free(x) => /\ Free(x)'
                      /\ Countable(<<n, x>>, f) \subseteq Countable(<<n, x>>, f)'
    BY AloneKept DEF InitPCs
  <1>2. Dir(r)' = <<n, x>>
    BY DEF Dir
  <1>3. InitAlone(r)'
    BY <1>1, <1>2 DEF InitAlone, At
  <1>4. InSession(r)' /\ ChunkFits(r)'
    BY <1>1 DEF InSession, ChunkFits, InitPCs
  <1>. QED
    BY <1>3, <1>4 DEF HandlerFresh

LEMMA SessionMoves ==
  ASSUME FreshInit, FreshInv, [Next]_vars,
         NEW r \in Req, pc[r] # "idle", pc[r] \notin InitPCs,
         pc'[r] # "idle", pc'[r] \notin InitPCs,
         NEW x \in Ids, NEW n \in Names, NEW f \in Files,
         op[r].id = x, op[r].name = n, op[r].file = f,
         op'[r].id = x, op'[r].name = n, op'[r].file = f,
         Active(x) /\ Active(x)' => pc'[r] \in ChunkPCs \cup {"merge", "rename", "unlist"},
         pc'[r] = "record" => \/ op'[r].idx \in Countable(<<n, x>>, f)'
                              \/ pc[r] = "record" /\ op'[r].idx = op[r].idx,
         pc'[r] \in {"exists", "save"} =>
            /\ pc[r] \in {"exists", "save"}
            /\ op'[r].idx = op[r].idx /\ op'[r].body = op[r].body
  PROVE  HandlerFresh(r)'
  <1>1. InSession(r) /\ ChunkFits(r) /\ Serves(r, x)
    BY DEF FreshInv, HandlerFresh, Serves
  <1>2. Dir(r)' = <<n, x>> /\ Dir(r) = <<n, x>>
    BY DEF Dir
  <1>3. InitAlone(r)' /\ ChunkFits(r)'
    BY <1>1 DEF InitAlone, ChunkFits
  <1>4. ASSUME Active(x)'
        PROVE  InSession(r)'
    <2>1. /\ Active(x)
          /\ sessions'[x].name = sessions[x].name
          /\ sessions'[x].file = sessions[x].file
      BY <1>1, <1>4, StillActive
    <2>2. Countable(<<n, x>>, f) \subseteq Countable(<<n, x>>, f)'
      BY <2>1, ActiveKept
    <2>3. pc'[r] = "record" => op'[r].idx \in Countable(<<n, x>>, f)'
      BY <1>1, <1>2, <2>1, <2>2 DEF InSession, At
    <2>. QED
      BY <1>1, <1>2, <1>4, <2>1, <2>3 DEF InSession, At
  <1>. QED
    BY <1>3, <1>4 DEF HandlerFresh, InSession

(* A handler that the step does not concern, but that may be woken by it.    *)
Kept(r) ==
  /\ pc'[r] = pc[r] \/ (pc[r] = "waiting" /\ pc'[r] = "lookup")
  /\ op'[r].id = op[r].id /\ op'[r].name = op[r].name /\ op'[r].file = op[r].file
  /\ op'[r].got = op[r].got /\ op'[r].idx = op[r].idx /\ op'[r].body = op[r].body

LEMMA KeptFresh ==
  ASSUME FreshInit, FreshInv, [Next]_vars, NEW r \in Req, Kept(r)
  PROVE  HandlerFresh(r)'
  <1>1. PICK x \in Ids, n \in Names, f \in Files :
            op[r].id = x /\ op[r].name = n /\ op[r].file = f /\ Dir(r) = <<n, x>>
    BY ServedId DEF FreshInv
  <1>2. HandlerFresh(r)
    BY DEF FreshInv
  <1>3. CASE pc[r] = "idle"
    BY <1>3 DEF Kept, HandlerFresh, InitAlone, InSession, ChunkFits, InitPCs
  <1>4. CASE pc[r] \in InitPCs
    <2>1. pc'[r] \in {"reserve", "mkdir", "scan", "install"} => Free(x) /\ pc'[r] = pc[r]
      BY <1>1, <1>2, <1>4 DEF Kept, HandlerFresh, InitAlone
    <2>2. pc'[r] = "install" => op'[r].got \subseteq Countable(<<n, x>>, f)
      BY <1>1, <1>2, <1>4, <2>1 DEF Kept, HandlerFresh, InitAlone, At
    <2>3. pc'[r] \in InitPCs
      BY <1>4 DEF Kept, InitPCs
    <2>. QED
      BY <1>1, <1>4, <2>1, <2>2, <2>3, InitMoves DEF Kept
  <1>5. CASE pc[r] # "idle" /\ pc[r] \notin InitPCs
    <2>1. pc'[r] = pc[r]
      BY <1>5 DEF Kept, InitPCs
    <2>2. Active(x) => pc'[r] \in ChunkPCs \cup {"merge", "rename", "unlist"}
      BY <1>1, <1>2, <1>5, <2>1 DEF HandlerFresh, InSession
    <2>. QED
      BY <1>1, <1>5, <2>1, <2>2, SessionMoves DEF Kept
  <1>. QED
    BY <1>3, <1>4, <1>5

LEMMA IdleFresh ==
  ASSUME NEW r \in Req, pc'[r] = "idle"
  PROVE  HandlerFresh(r)'
  BY DEF HandlerFresh, InitAlone, InSession, ChunkFits, InitPCs

LEMMA OthersFresh ==
  ASSUME FreshInit, FreshInv, [Next]_vars, NEW r \in Req, HandlerFresh(r)',
         \A q \in Req : q # r => pc'[q] = pc[q] /\ op'[q] = op[q]
  PROVE  \A q \in Req : HandlerFresh(q)'
  BY KeptFresh DEF Kept

(* Whatever the step, every handler still finds what it relies on.           *)
LEMMA HandlersStep ==
  ASSUME FreshInit, FreshInv, [Next]_vars
  PROVE  \A r \in Req : HandlerFresh(r)'
  <1>. USE DEF At
  <1>1. TypeOK
    BY DEF FreshInv
  <1>2. ASSUME NEW r \in Req, Return(r)
        PROVE  \A q \in Req : HandlerFresh(q)'
    <2>1. pc'[r] = "idle" /\ \A q \in Req : q # r => pc'[q] = pc[q] /\ op'[q] = op[q]
      BY <1>1, <1>2 DEF Return, GoTo, TypeOK
    <2>. QED
      BY <2>1, IdleFresh, OthersFresh
  <1>3. ASSUME NEW r \in Req, \A q \in Req : Kept(q)
        PROVE  \A q \in Req : HandlerFresh(q)'
    BY <1>3, KeptFresh
  <1>4. ASSUME NEW r \in Req,
               (\E l : GoTo(r, l)) \/ UNCHANGED pc,
               (\E o : SetOp(r, o)) \/ UNCHANGED op
        PROVE  \A q \in Req : q # r => pc'[q] = pc[q] /\ op'[q] = op[q]
    BY <1>1, <1>4 DEF GoTo, SetOp, TypeOK
  <1>5. ASSUME NEW r \in Req, NEW l, GoTo(r, l)
        PROVE  pc'[r] = l
    BY <1>1, <1>5 DEF GoTo, TypeOK
  <1>6. ASSUME NEW r \in Req, NEW o, SetOp(r, o)
        PROVE  op'[r] = o
    BY <1>1, <1>6 DEF SetOp, TypeOK
  (* The steps of an init *)
  <1>10. ASSUME NEW r \in Req, NEW l \in InitPCs, pc[r] \in InitPCs, GoTo(r, l),
                UNCHANGED op \/ \E o : /\ SetOp(r, o) /\ o.id = op[r].id
                                       /\ o.name = op[r].name /\ o.file = op[r].file,
                l \in {"reserve", "mkdir", "scan", "install"} => Free(op[r].id),
                l = "install" => op'[r].got \subseteq Countable(Dir(r), op[r].file)
         PROVE  \A q \in Req : HandlerFresh(q)'
    <2>1. PICK x \in Ids, n \in Names, f \in Files :
              op[r].id = x /\ op[r].name = n /\ op[r].file = f /\ Dir(r) = <<n, x>>
      BY <1>1, ServedId
    <2>2. pc'[r] = l /\ op'[r].id = x /\ op'[r].name = n /\ op'[r].file = f
      BY <1>5, <1>6, <1>10, <2>1
    <2>3. HandlerFresh(r)'
      BY <1>10, <2>1, <2>2, InitMoves
    <2>. QED
      BY <1>4, <1>10, <2>3, OthersFresh
  <1>11. ASSUME NEW r \in Req, At(r, "lookup"), InitLookup(r, op[r])
         PROVE  \A q \in Req : HandlerFresh(q)'
    <2>1. CASE Return(r)
      BY <1>2, <2>1
    <2>2. CASE SetOp(r, op[r]) /\ (GoTo(r, "toWait") \/ (Free(op[r].id) /\ GoTo(r, "reserve")))
      BY <1>10, <1>11, <2>2 DEF InitPCs
    <2>. QED
      BY <1>11, <2>1, <2>2 DEF InitLookup
  <1>12. ASSUME NEW r \in Req, InitWait(r)
         PROVE  \A q \in Req : HandlerFresh(q)'
    BY <1>10, <1>12 DEF InitWait, InitPCs
  <1>13. ASSUME NEW r \in Req, pc[r] \in {"reserve", "mkdir", "scan", "install"}
         PROVE  Free(op[r].id)
    BY <1>13 DEF FreshInv, HandlerFresh, InitAlone, InitPCs
  <1>14. ASSUME NEW r \in Req, InitReserve(r)
         PROVE  \A q \in Req : HandlerFresh(q)'
    <2>1. op[r] \in Locals /\ pc[r] = "reserve" /\ Free(op[r].id)
      BY <1>1, <1>13, <1>14 DEF TypeOK, InitReserve
    <2>2. CASE Return(r)
      BY <1>2, <2>2
    <2>3. ASSUME NEW k, SetOp(r, [op[r] EXCEPT !.try = k]), UNCHANGED pc
          PROVE  \A q \in Req : HandlerFresh(q)'
      <3>1. GoTo(r, "reserve")
        BY <1>1, <2>1, <2>3 DEF GoTo, TypeOK
      <3>2. LET o == [op[r] EXCEPT !.try = k]
            IN  o.id = op[r].id /\ o.name = op[r].name /\ o.file = op[r].file
        BY <2>1 DEF Locals
      <3>. QED
        BY <1>10, <2>1, <2>3, <3>1, <3>2 DEF InitPCs
    <2>4. ASSUME NEW p, SetOp(r, [op[r] EXCEPT !.path = p, !.try = 0]), GoTo(r, "mkdir")
          PROVE  \A q \in Req : HandlerFresh(q)'
      <3>1. LET o == [op[r] EXCEPT !.path = p, !.try = 0]
            IN  o.id = op[r].id /\ o.name = op[r].name /\ o.file = op[r].file
        BY <2>1 DEF Locals
      <3>. QED
        BY <1>10, <2>1, <2>4, <3>1 DEF InitPCs
    <2>. QED
      BY <1>14, <2>2, <2>3, <2>4 DEF InitReserve
  <1>15. ASSUME NEW r \in Req, InitMkdir(r)
         PROVE  \A q \in Req : HandlerFresh(q)'
    <2>1. pc[r] = "mkdir" /\ Free(op[r].id)
      BY <1>13, <1>15 DEF InitMkdir
    <2>. QED
      BY <1>10, <1>15, <2>1 DEF InitMkdir, InitPCs
  <1>16. ASSUME NEW r \in Req, InitScan(r)
         PROVE  \A q \in Req : HandlerFresh(q)'
    <2>1. op[r] \in Locals /\ pc[r] = "scan" /\ Free(op[r].id)
      BY <1>1, <1>13, <1>16 DEF TypeOK, InitScan
    <2>2. CASE GoTo(r, "undo") /\ UNCHANGED op
      BY <1>10, <2>1, <2>2 DEF InitPCs
    <2>3. CASE GoTo(r, "install")
               /\ SetOp(r, [op[r] EXCEPT !.got = OnDisk(Dir(r), op[r].file)])
      <3>1. LET o == [op[r] EXCEPT !.got = OnDisk(Dir(r), op[r].file)]
            IN  /\ o.id = op[r].id /\ o.name = op[r].name /\ o.file = op[r].file
                /\ o.got = OnDisk(Dir(r), op[r].file)
        BY <2>1 DEF Locals
      <3>2. OnDisk(Dir(r), op[r].file) \subseteq Countable(Dir(r), op[r].file)
        BY DEF OnDisk, WholeChunk, Countable
      <3>3. op'[r].got \subseteq Countable(Dir(r), op[r].file)
        BY <1>6, <2>3, <3>1, <3>2
      <3>. QED
        BY <1>10, <2>1, <2>3, <3>1, <3>3 DEF InitPCs
    <2>. QED
      BY <1>16, <2>2, <2>3 DEF InitScan
  <1>17. ASSUME NEW r \in Req, InitInstall(r)
         PROVE  \A q \in Req : HandlerFresh(q)'
    <2>1. Free(op[r].id)
      BY <1>13, <1>17 DEF InitInstall
    <2>2. Return(r)
      BY <1>17, <2>1 DEF InitInstall, Free, Active, Removing
    <2>. QED
      BY <1>2, <2>2
  <1>18. ASSUME NEW r \in Req, InitUndo(r)
         PROVE  \A q \in Req : HandlerFresh(q)'
    <2>1. CASE Return(r)
      BY <1>2, <2>1
    <2>2. CASE pc[r] = "undoWait" /\ GoTo(r, "toWait") /\ UNCHANGED op
      BY <1>10, <2>2 DEF InitPCs
    <2>. QED
      BY <1>18, <2>1, <2>2 DEF InitUndo
  (* The steps of the other handlers *)
  <1>20. ASSUME NEW r \in Req, NEW l, pc[r] # "idle", pc[r] \notin InitPCs,
                l # "idle", l \notin InitPCs, pc'[r] = l,
                op'[r].id = op[r].id, op'[r].name = op[r].name, op'[r].file = op[r].file,
                \A q \in Req : q # r => pc'[q] = pc[q] /\ op'[q] = op[q],
                \A x \in Ids : x = op[r].id /\ Active(x) /\ Active(x)' =>
                                  l \in ChunkPCs \cup {"merge", "rename", "unlist"},
                \A x \in Ids, n \in Names, f \in Files :
                   l = "record" /\ op[r].id = x /\ op[r].name = n /\ op[r].file = f =>
                      op'[r].idx \in Countable(<<n, x>>, f)',
                l \in {"exists", "save"} =>
                   pc[r] \in {"exists", "save"} /\ op'[r] = op[r]
         PROVE  \A q \in Req : HandlerFresh(q)'
    <2>1. PICK x \in Ids, n \in Names, f \in Files :
              op[r].id = x /\ op[r].name = n /\ op[r].file = f /\ Dir(r) = <<n, x>>
      BY <1>1, ServedId
    <2>2. HandlerFresh(r)'
      BY <1>20, <2>1, SessionMoves
    <2>. QED
      BY <1>20, <2>2, OthersFresh
  <1>21. ASSUME NEW r \in Req, ChunkExists(r)
         PROVE  \A q \in Req : HandlerFresh(q)'
    <2>1. pc[r] = "exists" /\ UNCHANGED <<dirs, op>>
      BY <1>21 DEF ChunkExists
    <2>2. /\ pc'[r] \in {"record", "save"}
          /\ pc'[r] = "record" => HasChunk(Dir(r), op[r].idx)
      BY <1>5, <1>21 DEF ChunkExists
    <2>3. ASSUME NEW x \in Ids, NEW n \in Names, NEW f \in Files,
                 pc'[r] = "record", op[r].id = x, op[r].name = n, op[r].file = f
          PROVE  op'[r].idx \in Countable(<<n, x>>, f)'
      <3>1. Dir(r) = <<n, x>> /\ <<n, x>> \in Dirs
        BY <2>3 DEF Dir, Dirs
      <3>2. op[r].idx \in Chunks(f)
        BY <2>1, <2>3 DEF FreshInv, HandlerFresh, ChunkFits
      <3>3. op[r].idx \in Countable(<<n, x>>, f)
        BY <2>2, <2>3, <3>1, <3>2 DEF Countable
      <3>4. Countable(<<n, x>>, f)' = Countable(<<n, x>>, f)
        BY <2>1 DEF Countable, HasChunk
      <3>. QED
        BY <2>1, <3>3, <3>4
    <2>4. \A q \in Req : q # r => pc'[q] = pc[q] /\ op'[q] = op[q]
      BY <1>4, <1>21 DEF ChunkExists
    <2>. QED
      BY <1>20, <2>1, <2>2, <2>3, <2>4 DEF InitPCs, ChunkPCs
  <1>22. ASSUME NEW r \in Req, ChunkSave(r)
         PROVE  \A q \in Req : HandlerFresh(q)'
    <2>1. CASE Return(r)
      BY <1>2, <2>1
    <2>. DEFINE c == [body |-> op[r].body, whole |-> FALSE]
    <2>2. CASE /\ dirs[Dir(r)] # NoDir
               /\ dirs' = [dirs EXCEPT ![Dir(r)][op[r].idx] = c]
               /\ GoTo(r, "record") /\ UNCHANGED op
      <3>1. pc[r] = "save" /\ pc'[r] = "record"
        BY <1>5, <1>22, <2>2 DEF ChunkSave
      <3>2. ASSUME NEW x \in Ids, NEW n \in Names, NEW f \in Files,
                   op[r].id = x, op[r].name = n, op[r].file = f
            PROVE  op'[r].idx \in Countable(<<n, x>>, f)'
        <4>1. Dir(r) = <<n, x>> /\ <<n, x>> \in Dirs
          BY <3>2 DEF Dir, Dirs
        <4>2. op[r].idx \in Chunks(f) /\ op[r].idx \in Idx /\ c \in Stored
          BY <1>1, <3>1, <3>2 DEF FreshInv, HandlerFresh, ChunkFits, TypeOK, Locals, Stored
        <4>3. dirs[<<n, x>>] \in [Idx -> Stored \cup {Hole}]
          BY <1>1, <2>2, <4>1 DEF TypeOK
        <4>4. dirs'[<<n, x>>] = [dirs[<<n, x>>] EXCEPT ![op[r].idx] = c]
          BY <1>1, <2>2, <4>1 DEF TypeOK
        <4>. HIDE DEF c
        <4>5. dirs'[<<n, x>>][op[r].idx] = c /\ dirs'[<<n, x>>] # NoDir
          BY <4>2, <4>3, <4>4, ConstantsAssumption
        <4>6. c # Hole
          BY <4>2, ConstantsAssumption
        <4>. QED
          BY <2>2, <4>2, <4>5, <4>6 DEF Countable, HasChunk
      <3>3. \A q \in Req : q # r => pc'[q] = pc[q] /\ op'[q] = op[q]
        BY <1>4, <2>2
      <3>. QED
        BY <1>20, <2>2, <3>1, <3>2, <3>3 DEF InitPCs, ChunkPCs
    <2>. QED
      BY <1>22, <2>1, <2>2 DEF ChunkSave, c
  <1>23. ASSUME NEW r \in Req, ChunkRecord(r) \/ CompleteClear(r) \/ CancelFile(r) \/ Drop(r)
         PROVE  \A q \in Req : HandlerFresh(q)'
    BY <1>2, <1>23 DEF ChunkRecord, CompleteClear, CancelFile, Drop
  <1>24. ASSUME NEW r \in Req, CompleteMerge(r)
         PROVE  \A q \in Req : HandlerFresh(q)'
    <2>1. op[r] \in Locals /\ pc[r] = "merge"
      BY <1>1, <1>24 DEF TypeOK, CompleteMerge
    <2>2. CASE Return(r)
      BY <1>2, <2>2
    <2>3. CASE GoTo(r, "rename") /\ UNCHANGED op
      <3>1. pc'[r] = "rename"
        BY <1>5, <2>3
      <3>. QED
        BY <1>4, <1>20, <2>1, <2>3, <3>1 DEF InitPCs, ChunkPCs
    <2>4. ASSUME NEW n, NEW b, SetOp(r, [op[r] EXCEPT !.idx = n, !.pure = b]), UNCHANGED pc
          PROVE  \A q \in Req : HandlerFresh(q)'
      <3>1. LET o == [op[r] EXCEPT !.idx = n, !.pure = b]
            IN  o.id = op[r].id /\ o.name = op[r].name /\ o.file = op[r].file
        BY <2>1 DEF Locals
      <3>2. pc'[r] = "merge"
        BY <2>1, <2>4
      <3>. QED
        BY <1>4, <1>6, <1>20, <2>1, <2>4, <3>1, <3>2 DEF InitPCs, ChunkPCs
    <2>. QED
      BY <1>24, <2>2, <2>3, <2>4 DEF CompleteMerge
  <1>25. ASSUME NEW r \in Req, CompleteRename(r)
         PROVE  \A q \in Req : HandlerFresh(q)'
    <2>1. pc[r] = "rename" /\ pc'[r] = "unlist" /\ UNCHANGED op
      BY <1>5, <1>25 DEF CompleteRename
    <2>. QED
      BY <1>4, <1>20, <1>25, <2>1 DEF CompleteRename, InitPCs, ChunkPCs
  <1>26. ASSUME NEW r \in Req, CompleteUnlist(r)
         PROVE  \A q \in Req : HandlerFresh(q)'
    <2>1. pc[r] = "unlist" /\ pc'[r] = "clear" /\ UNCHANGED op
      BY <1>5, <1>26 DEF CompleteUnlist
    <2>2. ASSUME NEW x \in Ids, x = op[r].id
          PROVE  ~Active(x)'
      BY <1>1, <1>26, <2>2 DEF CompleteUnlist, Active, TypeOK, NoSession
    <2>. QED
      BY <1>4, <1>20, <1>26, <2>1, <2>2 DEF CompleteUnlist, InitPCs, ChunkPCs
  <1>27. ASSUME NEW r \in Req, CancelDir(r)
         PROVE  \A q \in Req : HandlerFresh(q)'
    <2>1. pc[r] = "cancelDir" /\ pc'[r] = "cancelFile" /\ UNCHANGED op
      BY <1>5, <1>27 DEF CancelDir
    <2>2. ~Active(op[r].id)
      BY <2>1 DEF FreshInv, HandlerFresh, InSession, ChunkPCs
    <2>. QED
      BY <1>4, <1>20, <1>27, <2>1, <2>2 DEF CancelDir, InitPCs, ChunkPCs
  (* A request arrives *)
  <1>30. ASSUME NEW r \in Req, NEW x \in Ids, NEW n \in Names, NEW f \in Files,
                MayInit(x), At(r, "idle"), InitLookup(r, Requested(x, n, f))
         PROVE  \A q \in Req : HandlerFresh(q)'
    <2>. DEFINE o == Requested(x, n, f)
    <2>1. o.id = x
      BY NoOpType DEF Requested, Locals
    <2>2. \A q \in Req : ~Serves(q, x)
      BY <1>30 DEF MayInit
    <2>. HIDE DEF o
    <2>3. CASE Return(r)
      BY <1>2, <2>3
    <2>4. CASE /\ SetOp(r, o) /\ UNCHANGED sessions /\ ~Active(x)
               /\ GoTo(r, "toWait") \/ (Free(x) /\ GoTo(r, "reserve"))
      <3>1. /\ op'[r] = o /\ pc'[r] \in {"toWait", "reserve"}
            /\ pc'[r] = "reserve" => Free(x)
        BY <1>5, <1>6, <2>4
      <3>2. \A q \in Req : q # r => pc'[q] = pc[q] /\ op'[q] = op[q]
        BY <1>4, <2>4
      <3>3. \A q \in Req : Serves(q, x)' => q = r
        BY <2>2, <3>2 DEF Serves
      <3>4. InitAlone(r)'
        BY <2>1, <2>4, <3>1, <3>3 DEF InitAlone, Active, Free
      <3>5. InSession(r)' /\ ChunkFits(r)'
        BY <2>1, <2>4, <3>1 DEF InSession, ChunkFits, Active
      <3>. QED
        BY <3>2, <3>4, <3>5, OthersFresh DEF HandlerFresh
    <2>5. Return(r) \/ ( /\ SetOp(r, o) /\ UNCHANGED sessions /\ ~Active(x)
                         /\ GoTo(r, "toWait") \/ (Free(x) /\ GoTo(r, "reserve")))
      BY <1>30, <2>1 DEF InitLookup, Active, Free, Removing, o
    <2>. QED
      BY <2>3, <2>4, <2>5
  <1>31. ASSUME NEW x \in Ids, Active(x)
         PROVE  /\ Cloned(x) \in Locals /\ Cloned(x).id = x
                /\ Cloned(x).name = sessions[x].name /\ Cloned(x).file = sessions[x].file
    BY <1>1, <1>31, NoOpType, ActiveType DEF Cloned, Locals, ActiveSession
  <1>32. ASSUME NEW r \in Req, NEW x \in Ids, NEW i \in Idx, NEW f \in Files,
                ChunkStart(r, x, i, f)
         PROVE  \A q \in Req : HandlerFresh(q)'
    <2>. DEFINE o == [Cloned(x) EXCEPT !.idx = i, !.body = f]
    <2>1. /\ Active(x) /\ i \in Chunks(sessions[x].file) /\ LenMatches(sessions[x].file, i, f)
          /\ GoTo(r, "exists") /\ SetOp(r, o) /\ UNCHANGED <<sessions, dirs>>
      BY <1>32 DEF ChunkStart
    <2>2. /\ o.id = x /\ o.name = sessions[x].name /\ o.file = sessions[x].file
          /\ o.idx = i /\ o.body = f
      BY <1>31, <2>1 DEF Locals
    <2>. HIDE DEF o
    <2>3. op'[r] = o /\ pc'[r] = "exists"
      BY <1>5, <1>6, <2>1
    <2>4. HandlerFresh(r)'
      BY <2>1, <2>2, <2>3
      DEF HandlerFresh, InitAlone, InSession, ChunkFits, InitPCs, ChunkPCs
    <2>. QED
      BY <1>4, <2>1, <2>4, OthersFresh
  <1>33. ASSUME NEW r \in Req, NEW x \in Ids, CompleteStart(r, x)
         PROVE  \A q \in Req : HandlerFresh(q)'
    <2>. DEFINE o == [Cloned(x) EXCEPT !.idx = 1]
    <2>1. Active(x) /\ GoTo(r, "merge") /\ SetOp(r, o) /\ UNCHANGED <<sessions, dirs>>
      BY <1>33 DEF CompleteStart
    <2>2. o.id = x /\ o.name = sessions[x].name /\ o.file = sessions[x].file
      BY <1>31, <2>1 DEF Locals
    <2>. HIDE DEF o
    <2>3. op'[r] = o /\ pc'[r] = "merge"
      BY <1>5, <1>6, <2>1
    <2>4. HandlerFresh(r)'
      BY <2>1, <2>2, <2>3
      DEF HandlerFresh, InitAlone, InSession, ChunkFits, InitPCs
    <2>. QED
      BY <1>4, <2>1, <2>4, OthersFresh
  <1>34. ASSUME NEW r \in Req, NEW x \in Ids, CancelStart(r, x)
         PROVE  \A q \in Req : HandlerFresh(q)'
    <2>1. /\ GoTo(r, "cancelDir") /\ SetOp(r, Cloned(x)) /\ Cloned(x).id = x
          /\ sessions' = [sessions EXCEPT ![x] = NoSession]
      BY <1>31, <1>34 DEF CancelStart
    <2>2. op'[r].id = x /\ pc'[r] = "cancelDir"
      BY <1>5, <1>6, <2>1
    <2>3. ~Active(x)'
      BY <1>1, <2>1 DEF Active, TypeOK, NoSession
    <2>4. HandlerFresh(r)'
      BY <2>2, <2>3 DEF HandlerFresh, InitAlone, InSession, ChunkFits, InitPCs, Active
    <2>. QED
      BY <1>4, <2>1, <2>4, OthersFresh
  (* The cleanup, a restart *)
  <1>40. ASSUME \/ SweepTake \/ UNCHANGED vars
                \/ \E d \in Dirs, i \in Idx : Settle(d, i)
                \/ \E id \in Ids : Age(id) \/ SweepDir(id) \/ SweepLook(id) \/ SweepFile(id)
         PROVE  \A q \in Req : HandlerFresh(q)'
    <2>1. UNCHANGED <<pc, op>>
      BY <1>40 DEF SweepTake, vars, Settle, Age, SweepDir, SweepLook, SweepFile
    <2>. QED
      BY <2>1, KeptFresh DEF Kept
  <1>41. ASSUME NEW id \in Ids, SweepFinish(id)
         PROVE  \A q \in Req : HandlerFresh(q)'
    <2>1. ASSUME NEW q \in Req
          PROVE  Kept(q)
      <3>1. pc'[q] = pc[q] \/ (pc[q] = "waiting" /\ pc'[q] = "lookup")
        BY <1>41 DEF SweepFinish
      <3>2. op'[q] = op[q] \/ op'[q] = [op[q] EXCEPT !.fired = TRUE]
        BY <1>41 DEF SweepFinish
      <3>3. op[q] \in Locals
        BY <1>1 DEF TypeOK
      <3>. QED
        BY <3>1, <3>2, <3>3 DEF Kept, Locals
    <2>. QED
      BY <2>1, KeptFresh
  <1>42. CASE Crash
    BY <1>42, IdleFresh DEF Crash
  <1>50. ASSUME NEW r \in Req, Arrive(r)
         PROVE  \A q \in Req : HandlerFresh(q)'
    BY <1>30, <1>32, <1>33, <1>34, <1>50 DEF Arrive
  <1>51. ASSUME NEW r \in Req, Work(r) \/ ChunkSave(r) \/ Drop(r)
         PROVE  \A q \in Req : HandlerFresh(q)'
    BY <1>11, <1>12, <1>14, <1>15, <1>16, <1>17, <1>18, <1>21, <1>22, <1>23, <1>24, <1>25,
       <1>26, <1>27, <1>51 DEF Work
  <1>. QED
    BY <1>40, <1>41, <1>42, <1>50, <1>51 DEF Next, Sweep

LEMMA ReceivedStep ==
  ASSUME FreshInit, FreshInv, [Next]_vars
  PROVE  ReceivedCountable'
  <1>. SUFFICES ASSUME NEW x \in Ids, Active(x)'
                PROVE  (sessions[x].got
                          \subseteq Countable(<<sessions[x].name, x>>, sessions[x].file))'
    BY DEF ReceivedCountable
  <1>1. TypeOK /\ SessionStep(x)
    BY SessionSteps DEF FreshInv
  <1>2. CASE Active(x)
    <2>1. PICK n \in Names, f \in Files : sessions[x].name = n /\ sessions[x].file = f
      BY <1>1, <1>2, ActiveType DEF ActiveSession
    <2>2. Countable(<<n, x>>, f) \subseteq Countable(<<n, x>>, f)'
      BY <1>2, ActiveKept
    <2>3. sessions[x].got \subseteq Countable(<<n, x>>, f)
      BY <1>2, <2>1 DEF FreshInv, ReceivedCountable
    <2>4. ASSUME NEW r \in Req, At(r, "record"), op[r].id = x
          PROVE  op[r].idx \in Countable(<<n, x>>, f)
      BY <1>2, <2>1, <2>4 DEF FreshInv, HandlerFresh, InSession, At, Dir
    <2>5. sessions'[x].name = n /\ sessions'[x].file = f
      BY <1>1, <1>2, <2>1 DEF SessionStep
    <2>6. sessions'[x].got \subseteq Countable(<<n, x>>, f)'
      BY <1>1, <1>2, <2>2, <2>3, <2>4 DEF SessionStep
    <2>. QED
      BY <2>5, <2>6
  <1>3. ASSUME NEW r \in Req, Installs(r, x)
        PROVE  (sessions[x].got
                  \subseteq Countable(<<sessions[x].name, x>>, sessions[x].file))'
    <2>1. PICK n \in Names, f \in Files :
              op[r].name = n /\ op[r].file = f /\ Dir(r) = <<n, x>>
      BY <1>1, <1>3, ServedId DEF Installs
    <2>2. op[r].got \subseteq Countable(<<n, x>>, f)
      BY <1>3, <2>1 DEF FreshInv, HandlerFresh, InitAlone, Installs, At, InitPCs
    <2>3. /\ sessions'[x].got = op[r].got /\ sessions'[x].name = n /\ sessions'[x].file = f
      BY <1>3, <2>1 DEF Installs, NewSession
    <2>4. Countable(<<n, x>>, f)' = Countable(<<n, x>>, f)
      BY <1>3 DEF Installs, Countable, HasChunk
    <2>. QED
      BY <2>2, <2>3, <2>4
  <1>. QED
    BY <1>1, <1>2, <1>3, ThreeTags DEF SessionStep, Free, Active

LEMMA FreshStep ==
  ASSUME FreshInit, FreshInv, [Next]_vars
  PROVE  FreshInv'
  BY TypingStep, TombstoneStep, HandlersStep, ReceivedStep
  DEF FreshInv, HandlerFresh

THEOREM FreshInvariance == FreshInit => (Spec => []FreshInv)
  <1>. SUFFICES ASSUME FreshInit
                PROVE  Spec => []FreshInv
    OBVIOUS
  <1>1. Init => FreshInv
    <2>1. Init => TypeOK
      BY NoOpType, ConstantsAssumption DEF Init, TypeOK
    <2>2. Init => TombstoneHeld
      BY DEF Init, TombstoneHeld, Removing, NoSession, NotSwept
    <2>. QED
      BY <2>1, <2>2
      DEF Init, FreshInv, HandlerFresh, InitAlone, InSession, ChunkFits, InitPCs,
          ReceivedCountable, Active, NoSession
  <1>2. FreshInv /\ [Next]_vars => FreshInv'
    BY FreshStep
  <1>. QED
    BY <1>1, <1>2, PTL DEF Spec

(* When an init comes only after every earlier request for its id has been   *)
(* handled, whatever the receiver recorded for a live session is on disk:    *)
(* the session can be resumed, whoever goes away, whatever fails and however *)
(* often the process restarts.                                               *)
THEOREM ThereTheorem == FreshInit => (Spec => []ReceivedThere)
  <1>1. FreshInv => ReceivedThere
    BY DEF FreshInv, ReceivedCountable, ReceivedThere, Countable
  <1>. QED
    BY <1>1, FreshInvariance, PTL

-----------------------------------------------------------------------------
(* The directory's promise, at every path that got no file of a complete     *)
(* whose session was gone                                                    *)

AllOwned == {p \in Paths \ spoilt : Owned(p)}
Mask == [p \in Paths |-> IF p \in spoilt THEN Absent ELSE files[p]]

(* An init whose placeholder is still that: no session has the path yet.     *)
Early(r, p) == pc[r] \in {"mkdir", "scan", "install"} /\ op[r].path = p

(* While a path is an init's it has the placeholder, and while it is a       *)
(* session's the placeholder or the session's own file.                      *)
PathsKept ==
  \A p \in Paths \ spoilt :
    /\ \A r \in Req : Early(r, p) => files[p] = Empty
    /\ \A x \in Ids : SessionHolds(x, p) => files[p] \in {Empty, sessions[x].file}

DirInv == TypeOK /\ ReservationExclusive /\ Verified /\ PathsKept

(* Seen from the paths: a reservation, a publication, a release, or owners   *)
(* that end.                                                                 *)
PathStep ==
  \/ UNCHANGED Mask /\ AllOwned' \subseteq AllOwned
  \/ \E p \in Paths : /\ Mask[p] = Absent /\ p \notin AllOwned
                      /\ Mask' = [Mask EXCEPT ![p] = Empty]
                      /\ AllOwned' = AllOwned \cup {p}
  \/ \E p \in AllOwned : /\ Mask[p] = Empty
                         /\ \E c \in Files : Mask' = [Mask EXCEPT ![p] = c]
                         /\ AllOwned' \in {AllOwned, AllOwned \ {p}}
  \/ \E p \in AllOwned : /\ Mask' = [Mask EXCEPT ![p] = Absent]
                         /\ AllOwned' = AllOwned \ {p}

LEMMA PathStepIsDirectoryStep ==
  ASSUME PathStep
  PROVE  Directory!DDNext
  <1>2. ASSUME UNCHANGED Mask, AllOwned' \subseteq AllOwned
        PROVE  Directory!DDNext
    <2>1. AllOwned \ AllOwned' \in SUBSET AllOwned /\ AllOwned' = AllOwned \ (AllOwned \ AllOwned')
      BY <1>2
    <2>2. PICK ps \in SUBSET AllOwned : AllOwned' = AllOwned \ ps
      BY <2>1
    <2>3. Directory!Leave(ps)
      BY <1>2, <2>2 DEF Directory!Leave, AllOwned, Mask
    <2>. QED
      BY <2>3 DEF Directory!DDNext, AllOwned
  <1>3. ASSUME NEW p \in Paths, Mask[p] = Absent, p \notin AllOwned,
               Mask' = [Mask EXCEPT ![p] = Empty], AllOwned' = AllOwned \cup {p}
        PROVE  Directory!DDNext
    <2>1. Directory!Reserve(p)
      BY <1>3 DEF Directory!Reserve, AllOwned, Mask
    <2>. QED
      BY <2>1 DEF Directory!DDNext
  <1>4. AllOwned \subseteq Paths
    BY DEF AllOwned
  <1>5. ASSUME NEW p \in AllOwned, Mask[p] = Empty,
               \E c \in Files : Mask' = [Mask EXCEPT ![p] = c],
               AllOwned' \in {AllOwned, AllOwned \ {p}}
        PROVE  Directory!DDNext
    <2>1. Directory!Publish(p)
      BY <1>5 DEF Directory!Publish, AllOwned, Mask
    <2>. QED
      BY <1>4, <2>1 DEF Directory!DDNext
  <1>6. ASSUME NEW p \in AllOwned,
               Mask' = [Mask EXCEPT ![p] = Absent], AllOwned' = AllOwned \ {p}
        PROVE  Directory!DDNext
    <2>1. Directory!Release(p)
      BY <1>6 DEF Directory!Release, AllOwned, Mask
    <2>. QED
      BY <1>4, <2>1 DEF Directory!DDNext
  <1>. QED
    BY <1>2, <1>3, <1>5, <1>6 DEF PathStep

(* A file that changes changes the directory, unless its path is spoilt.     *)
LEMMA MaskAt ==
  ASSUME TypeOK, UNCHANGED spoilt, NEW p \in Paths, NEW c,
         files' = [files EXCEPT ![p] = c]
  PROVE  /\ p \in spoilt => Mask' = Mask
         /\ p \notin spoilt => Mask' = [Mask EXCEPT ![p] = c] /\ Mask[p] = files[p]
  <1>1. files'[p] = c /\ \A z \in Paths : z # p => files'[z] = files[z]
    BY DEF TypeOK
  <1>. QED
    BY <1>1 DEF Mask

(* Roles that only end.                                                      *)
SlotsFade ==
  \A p \in Paths : \A q \in Req :
    /\ SlotHolds(q, p)' => SlotHolds(q, p)
    /\ Early(q, p)' => Early(q, p)

SessionsFade ==
  \A p \in Paths : \A x \in Ids :
    SessionHolds(x, p)' => SessionHolds(x, p) /\ sessions'[x].file = sessions[x].file

SweepsFade ==
  \A p \in Paths : \A x \in Ids : SweepHolds(x, p)' => SweepHolds(x, p)

LEMMA FadePaths ==
  ASSUME DirInv, SlotsFade, SessionsFade, NEW p \in Paths \ spoilt,
         files'[p] = files[p]
  PROVE  /\ \A r \in Req : Early(r, p)' => files'[p] = Empty
         /\ \A x \in Ids : SessionHolds(x, p)' => files'[p] \in {Empty, sessions'[x].file}
  BY DEF DirInv, PathsKept, SlotsFade, SessionsFade

LEMMA OwnersFade ==
  ASSUME SlotsFade, SessionsFade, SweepsFade, UNCHANGED spoilt
  PROVE  AllOwned' \subseteq AllOwned
  BY DEF AllOwned, Owned, SlotsFade, SessionsFade, SweepsFade

LEMMA FadeStep ==
  ASSUME DirInv, UNCHANGED <<files, spoilt>>, SlotsFade, SessionsFade, SweepsFade
  PROVE  PathsKept' /\ PathStep
  BY FadePaths, OwnersFade DEF PathsKept, PathStep, Mask

(* An owner that ends and gives its path back.                               *)
LEMMA ReleaseStep ==
  ASSUME DirInv, SlotsFade, SessionsFade, SweepsFade, UNCHANGED spoilt,
         NEW p \in Paths, RemoveFile(p), ~Owned(p)',
         Owned(p), \A z \in Paths : z # p /\ Owned(z) => Owned(z)'
  PROVE  PathsKept' /\ PathStep
  <1>0. TypeOK
    BY DEF DirInv
  <1>1. CASE UNCHANGED files
    BY <1>1, FadeStep
  <1>2. CASE files' = [files EXCEPT ![p] = Absent]
    <2>1. AllOwned' = AllOwned \ {p}
      BY OwnersFade DEF AllOwned
    <2>2. \A x \in Paths : x # p => files'[x] = files[x]
      BY <1>0, <1>2 DEF TypeOK
    <2>3. /\ \A r \in Req : ~SlotHolds(r, p)'
          /\ \A x \in Ids : ~SessionHolds(x, p)'
      BY DEF Owned
    <2>4. \A r \in Req : ~Early(r, p)'
      BY <2>3 DEF Early, SlotHolds, Reserving
    <2>5. PathsKept'
      BY <2>2, <2>3, <2>4, FadePaths DEF PathsKept
    <2>6. CASE p \in spoilt
      BY <1>0, <1>2, <2>1, <2>5, <2>6, MaskAt DEF PathStep
    <2>7. CASE p \notin spoilt
      <3>1. p \in AllOwned
        BY <2>7 DEF AllOwned
      <3>2. Mask' = [Mask EXCEPT ![p] = Absent]
        BY <1>0, <1>2, <2>7, MaskAt
      <3>. QED
        BY <2>1, <2>5, <3>1, <3>2 DEF PathStep
    <2>. QED
      BY <2>6, <2>7
  <1>. QED
    BY <1>1, <1>2 DEF RemoveFile

-----------------------------------------------------------------------------
(* Slots, sessions and the cleanup's work that only end                      *)

LEMMA SlotFades ==
  ASSUME TypeOK, NEW r \in Req, NEW l, NEW o,
         pc' = [pc EXCEPT ![r] = l], op' = [op EXCEPT ![r] = o],
         l \in Reserving \cup CancelPCs =>
             pc[r] \in Reserving \cup CancelPCs /\ o.path = op[r].path,
         l \in {"mkdir", "scan", "install"} => pc[r] \in {"mkdir", "scan", "install"}
  PROVE  SlotsFade
  BY DEF TypeOK, SlotsFade, SlotHolds, Early, Reserving

LEMMA ReturnFades ==
  ASSUME TypeOK, NEW r \in Req, Return(r)
  PROVE  SlotsFade
  BY SlotFades DEF Return, GoTo, Reserving, CancelPCs

LEMMA GoToFades ==
  ASSUME TypeOK, NEW r \in Req, NEW l, GoTo(r, l), UNCHANGED op,
         l \in Reserving \cup CancelPCs => pc[r] \in Reserving \cup CancelPCs,
         l \in {"mkdir", "scan", "install"} => pc[r] \in {"mkdir", "scan", "install"}
  PROVE  SlotsFade
  BY DEF TypeOK, GoTo, SlotsFade, SlotHolds, Early, Reserving

LEMMA SlotsStay ==
  ASSUME UNCHANGED <<pc, op>>
  PROVE  SlotsFade
  BY DEF SlotsFade, SlotHolds, Early

LEMMA SessionFades ==
  ASSUME TypeOK, NEW x \in Ids, NEW s,
         sessions' = [sessions EXCEPT ![x] = s],
         s.tag = "active" =>
             Active(x) /\ s.path = sessions[x].path /\ s.file = sessions[x].file
  PROVE  SessionsFade
  BY DEF TypeOK, SessionsFade, SessionHolds, Active

LEMMA SessionsStay ==
  ASSUME UNCHANGED sessions
  PROVE  SessionsFade
  BY DEF SessionsFade, SessionHolds, Active

LEMMA SweepsStay ==
  ASSUME UNCHANGED sweep
  PROVE  SweepsFade
  BY DEF SweepsFade, SweepHolds

LEMMA RefreshFades ==
  ASSUME TypeOK, NEW x \in Ids, Active(x), NEW s,
         sessions' = [sessions EXCEPT ![x] = s],
         \/ s = Touched(sessions[x])
         \/ \E i \in Idx : s = Credited(sessions[x], i)
  PROVE  SessionsFade
  <1>1. sessions[x] \in ActiveSession
    BY ActiveType
  <1>2. s.path = sessions[x].path /\ s.file = sessions[x].file
    BY <1>1 DEF Touched, Credited, ActiveSession
  <1>. QED
    BY <1>2, SessionFades

(* A handler's slot that gives its path back.                                *)
LEMMA SlotReleases ==
  ASSUME DirInv, NEW r \in Req, RemoveFile(op[r].path), SlotHolds(r, op[r].path),
         UNCHANGED <<sessions, sweep, spoilt>>, SlotsFade,
         \A p \in Paths : ~SlotHolds(r, p)',
         \A q \in Req : q # r => pc'[q] = pc[q] /\ op'[q] = op[q]
  PROVE  PathsKept' /\ PathStep
  <1>1. PICK p \in Paths : p = op[r].path
    BY DEF DirInv, TypeOK, Locals
  <1>2. SlotHolds(r, p)
    BY <1>1
  <1>3. /\ \A q \in Req : SlotHolds(q, p) => q = r
        /\ \A x \in Ids : ~SessionHolds(x, p) /\ ~SweepHolds(x, p)
    BY <1>2 DEF DirInv, ReservationExclusive
  <1>4. SessionsFade /\ SweepsFade
    BY SessionsStay, SweepsStay
  <1>5. Owned(p) /\ ~Owned(p)'
    BY <1>2, <1>3, <1>4 DEF Owned, SlotsFade, SessionsFade, SweepsFade
  <1>6. ASSUME NEW z \in Paths, z # p, Owned(z)
        PROVE  Owned(z)'
    <2>1. ~SlotHolds(r, z)
      BY <1>1, <1>6 DEF SlotHolds
    <2>2. \A q \in Req : q # r => (SlotHolds(q, z)' <=> SlotHolds(q, z))
      BY DEF SlotHolds
    <2>3. \A x \in Ids : (SessionHolds(x, z)' <=> SessionHolds(x, z))
                         /\ (SweepHolds(x, z)' <=> SweepHolds(x, z))
      BY DEF SessionHolds, SweepHolds, Active
    <2>. QED
      BY <1>6, <2>1, <2>2, <2>3 DEF Owned
  <1>7. RemoveFile(p)
    BY <1>1
  <1>. QED
    BY <1>4, <1>5, <1>6, <1>7, ReleaseStep

-----------------------------------------------------------------------------
(* The steps of the handlers and of the cleanup                              *)

LEMMA InitPaths ==
  ASSUME DirInv, NEW r \in Req
  PROVE  /\ \A o \in Locals : InitLookup(r, o) => PathsKept' /\ PathStep
         /\ InitWait(r) \/ InitMkdir(r) \/ InitScan(r) => PathsKept' /\ PathStep
         /\ InitReserve(r) => PathsKept' /\ PathStep
         /\ InitInstall(r) => PathsKept' /\ PathStep
         /\ InitUndo(r) => PathsKept' /\ PathStep
  <1>. USE DEF At
  <1>0. TypeOK
    BY DEF DirInv
  <1>1. ASSUME NEW o \in Locals, InitLookup(r, o)
        PROVE  PathsKept' /\ PathStep
    <2>1. o.id \in Ids
      BY DEF Locals
    <2>2. UNCHANGED <<files, sweep, spoilt>>
      BY <1>1 DEF InitLookup
    <2>3. CASE Active(o.id)
      <3>1. Return(r)
        BY <1>1, <2>3 DEF InitLookup, Free, Active, Removing
      <3>2. \/ sessions' = [sessions EXCEPT ![o.id] = Touched(sessions[o.id])]
            \/ UNCHANGED sessions
        BY <1>1, <2>3 DEF InitLookup, Free, Active, Removing
      <3>3. SessionsFade
        BY <1>0, <2>1, <2>3, <3>2, RefreshFades, SessionsStay
      <3>. QED
        BY <1>0, <2>2, <3>1, <3>3, ReturnFades, SweepsStay, FadeStep
    <2>4. CASE ~Active(o.id)
      <3>1. /\ UNCHANGED sessions
            /\ SetOp(r, o)
            /\ GoTo(r, "toWait") \/ GoTo(r, "reserve")
        BY <1>1, <2>4 DEF InitLookup
      <3>2. SlotsFade
        BY <1>0, <3>1, SlotFades DEF SetOp, GoTo, Reserving, CancelPCs
      <3>. QED
        BY <2>2, <3>1, <3>2, SessionsStay, SweepsStay, FadeStep
    <2>. QED
      BY <2>3, <2>4
  <1>2. ASSUME InitWait(r) \/ InitMkdir(r) \/ InitScan(r)
        PROVE  PathsKept' /\ PathStep
    <2>1. UNCHANGED <<files, sessions, sweep, spoilt>>
      BY <1>2 DEF InitWait, InitMkdir, InitScan
    <2>2. \E o : /\ op' = [op EXCEPT ![r] = o] /\ o.path = op[r].path
      <3>1. UNCHANGED op => op' = [op EXCEPT ![r] = op[r]]
        BY <1>0 DEF TypeOK
      <3>2. [op[r] EXCEPT !.got = OnDisk(Dir(r), op[r].file)].path = op[r].path
        BY <1>0 DEF TypeOK, Locals
      <3>. QED
        BY <1>2, <3>1, <3>2 DEF InitWait, InitMkdir, InitScan, SetOp
    <2>3. \/ pc' = [pc EXCEPT ![r] = "waiting"]
          \/ /\ pc[r] \in {"mkdir", "scan"}
             /\ \E l \in {"scan", "install", "undo"} : pc' = [pc EXCEPT ![r] = l]
      BY <1>2 DEF InitWait, InitMkdir, InitScan, GoTo
    <2>4. SlotsFade
      BY <1>0, <2>2, <2>3, SlotFades DEF Reserving, CancelPCs
    <2>. QED
      BY <2>1, <2>4, SessionsStay, SweepsStay, FadeStep
  <1>3. ASSUME InitReserve(r)
        PROVE  PathsKept' /\ PathStep
    <2>. DEFINE k == op[r].try + 1
                c == Candidates[op[r].name]
    <2>1. UNCHANGED <<sessions, sweep, spoilt>> /\ pc[r] = "reserve"
      BY <1>3 DEF InitReserve
    <2>2. CASE UNCHANGED files /\ Return(r)
      BY <1>0, <2>1, <2>2, ReturnFades, SessionsStay, SweepsStay, FadeStep
    <2>3. CASE UNCHANGED <<files, pc>> /\ SetOp(r, [op[r] EXCEPT !.try = k])
      <3>1. SlotsFade
        BY <1>0, <2>1, <2>3
        DEF TypeOK, SetOp, SlotsFade, SlotHolds, Early, Reserving, CancelPCs
      <3>. QED
        BY <2>1, <2>3, <3>1, SessionsStay, SweepsStay, FadeStep
    <2>4. CASE /\ k \in DOMAIN c /\ files[c[k]] = Absent
               /\ files' = [files EXCEPT ![c[k]] = Empty]
               /\ GoTo(r, "mkdir") /\ SetOp(r, [op[r] EXCEPT !.path = c[k], !.try = 0])
      <3>1. PICK new \in Paths : new = c[k]
        <4>1. c \in Seq(Paths)
          BY <1>0, ConstantsAssumption DEF TypeOK, Locals
        <4>. QED
          BY <2>4, <4>1
      <3>2. [op[r] EXCEPT !.path = c[k], !.try = 0].path = new
        BY <1>0, <3>1 DEF TypeOK, Locals
      <3>3. PICK o : o.path = new /\ op' = [op EXCEPT ![r] = o]
        BY <2>4, <3>2 DEF SetOp
      <3>4. pc' = [pc EXCEPT ![r] = "mkdir"] /\ files[new] = Absent
            /\ files' = [files EXCEPT ![new] = Empty]
        BY <2>4, <3>1 DEF GoTo
      <3>. HIDE DEF k, c
      <3>5. /\ \A q \in Req : ~SlotHolds(q, new)
            /\ \A x \in Ids : ~SessionHolds(x, new) /\ ~SweepHolds(x, new)
        BY <3>4 DEF DirInv, ReservationExclusive
      <3>6. \A q \in Req, p \in Paths :
               /\ SlotHolds(q, p)' <=> SlotHolds(q, p) \/ (q = r /\ p = new)
               /\ Early(q, p)' => Early(q, p) \/ (q = r /\ p = new)
        BY <1>0, <2>1, <3>3, <3>4
        DEF TypeOK, SlotHolds, Early, Reserving, CancelPCs
      <3>7. \A x \in Ids, p \in Paths :
               /\ SessionHolds(x, p)' <=> SessionHolds(x, p)
               /\ SweepHolds(x, p)' <=> SweepHolds(x, p)
        BY <2>1 DEF SessionHolds, SweepHolds, Active
      <3>8. \A p \in Paths : Owned(p)' <=> Owned(p) \/ p = new
        BY <3>6, <3>7 DEF Owned
      <3>9. files'[new] = Empty /\ \A p \in Paths : p # new => files'[p] = files[p]
        BY <1>0, <3>4 DEF TypeOK
      <3>10. ASSUME NEW p \in Paths \ spoilt, NEW q \in Req, Early(q, p)'
             PROVE  files'[p] = Empty
        BY <3>6, <3>9, <3>10 DEF DirInv, PathsKept
      <3>11. ASSUME NEW p \in Paths \ spoilt, NEW x \in Ids, SessionHolds(x, p)'
             PROVE  files'[p] \in {Empty, sessions'[x].file}
        BY <2>1, <3>5, <3>7, <3>9, <3>11 DEF DirInv, PathsKept
      <3>12. PathsKept'
        BY <2>1, <3>10, <3>11 DEF PathsKept
      <3>13. ~Owned(new)
        BY <3>5 DEF Owned
      <3>14. CASE new \in spoilt
        <4>1. UNCHANGED Mask
          BY <1>0, <2>1, <3>4, <3>14, MaskAt
        <4>2. AllOwned' = AllOwned
          BY <2>1, <3>8, <3>14 DEF AllOwned
        <4>. QED
          BY <3>12, <4>1, <4>2 DEF PathStep
      <3>15. CASE new \notin spoilt
        <4>1. Mask' = [Mask EXCEPT ![new] = Empty] /\ Mask[new] = Absent
          BY <1>0, <2>1, <3>4, <3>15, MaskAt
        <4>2. AllOwned' = AllOwned \cup {new} /\ new \notin AllOwned
          BY <2>1, <3>8, <3>13, <3>15 DEF AllOwned
        <4>. QED
          BY <3>12, <4>1, <4>2 DEF PathStep
      <3>. QED
        BY <3>14, <3>15
    <2>. QED
      BY <1>3, <2>2, <2>3, <2>4 DEF InitReserve
  <1>4. ASSUME InitInstall(r)
        PROVE  PathsKept' /\ PathStep
    <2>1. UNCHANGED <<files, sweep, spoilt>> /\ pc[r] = "install"
      BY <1>4 DEF InitInstall
    <2>2. PICK x \in Ids : x = op[r].id
      BY <1>0 DEF TypeOK, Locals
    <2>3. CASE ~Free(x)
      <3>1. /\ UNCHANGED op
            /\ GoTo(r, "undo") \/ GoTo(r, "undoWait")
            /\ \/ UNCHANGED sessions
               \/ Active(x) /\ sessions' = [sessions EXCEPT ![x] = Touched(sessions[x])]
        BY <1>4, <2>2, <2>3 DEF InitInstall
      <3>2. SlotsFade
        BY <1>0, <2>1, <3>1, GoToFades DEF Reserving, CancelPCs
      <3>3. SessionsFade
        BY <1>0, <3>1, RefreshFades, SessionsStay
      <3>. QED
        BY <2>1, <3>2, <3>3, SweepsStay, FadeStep
    <2>4. CASE Free(x)
      <3>1. PICK p0 \in Paths, f0 \in Files : p0 = op[r].path /\ f0 = op[r].file
        BY <1>0 DEF TypeOK, Locals
      <3>2. /\ sessions' = [sessions EXCEPT ![x] = NewSession(op[r])]
            /\ Return(r)
        BY <1>4, <2>2, <2>4 DEF InitInstall, Free, Active, Removing
      <3>3. SlotsFade /\ SweepsFade
        BY <1>0, <2>1, <3>2, ReturnFades, SweepsStay
      <3>4. /\ sessions'[x].path = p0 /\ sessions'[x].file = f0
            /\ \A y \in Ids : y # x => sessions'[y] = sessions[y]
        BY <1>0, <3>1, <3>2 DEF TypeOK, NewSession
      <3>5. SlotHolds(r, p0) /\ Early(r, p0)
        BY <2>1, <3>1 DEF SlotHolds, Early, Reserving
      <3>6. p0 \notin spoilt => files[p0] = Empty
        BY <3>5 DEF DirInv, PathsKept
      <3>7. \A y \in Ids, p \in Paths :
               SessionHolds(y, p)' => (SessionHolds(y, p) /\ y # x) \/ (y = x /\ p = p0)
        BY <3>4 DEF SessionHolds, Active
      <3>8. AllOwned' \subseteq AllOwned
        BY <2>1, <3>3, <3>5, <3>7 DEF AllOwned, Owned, SlotsFade, SweepsFade
      <3>9. ASSUME NEW p \in Paths \ spoilt, NEW q \in Req
            PROVE  Early(q, p)' => files'[p] = Empty
        BY <2>1, <3>3 DEF SlotsFade, DirInv, PathsKept
      <3>10. ASSUME NEW p \in Paths \ spoilt, NEW y \in Ids, SessionHolds(y, p)'
             PROVE  files'[p] \in {Empty, sessions'[y].file}
        BY <2>1, <3>4, <3>6, <3>7, <3>10 DEF DirInv, PathsKept
      <3>. QED
        BY <2>1, <3>8, <3>9, <3>10 DEF PathsKept, PathStep, Mask
    <2>. QED
      BY <2>3, <2>4
  <1>5. ASSUME InitUndo(r)
        PROVE  PathsKept' /\ PathStep
    <2>1. /\ pc[r] \in {"undo", "undoWait"}
          /\ UNCHANGED <<sessions, sweep, spoilt>>
          /\ RemoveFile(op[r].path)
          /\ Return(r) \/ (GoTo(r, "toWait") /\ UNCHANGED op)
      BY <1>5 DEF InitUndo
    <2>2. SlotsFade
      BY <1>0, <2>1, ReturnFades, GoToFades DEF Reserving, CancelPCs
    <2>3. SlotHolds(r, op[r].path) /\ \A p \in Paths : ~SlotHolds(r, p)'
      BY <1>0, <2>1
      DEF Return, GoTo, TypeOK, SlotHolds, Reserving, CancelPCs
    <2>4. \A q \in Req : q # r => pc'[q] = pc[q] /\ op'[q] = op[q]
      BY <1>0, <2>1 DEF Return, GoTo, TypeOK
    <2>. QED
      BY <2>1, <2>2, <2>3, <2>4, SlotReleases
  <1>. QED
    BY <1>1, <1>2, <1>3, <1>4, <1>5

LEMMA ChunkPaths ==
  ASSUME DirInv, NEW r \in Req
  PROVE  /\ \A id \in Ids, i \in Idx, f \in Files :
               ChunkStart(r, id, i, f) => PathsKept' /\ PathStep
         /\ ChunkExists(r) \/ ChunkSave(r) => PathsKept' /\ PathStep
         /\ ChunkRecord(r) => PathsKept' /\ PathStep
  <1>. USE DEF At
  <1>0. TypeOK
    BY DEF DirInv
  <1>1. ASSUME NEW id \in Ids, NEW i \in Idx, NEW f \in Files, ChunkStart(r, id, i, f)
        PROVE  PathsKept' /\ PathStep
    <2>1. /\ UNCHANGED <<files, sessions, sweep, spoilt>>
          /\ pc' = [pc EXCEPT ![r] = "exists"] /\ \E o : op' = [op EXCEPT ![r] = o]
      BY <1>1 DEF ChunkStart, GoTo, SetOp
    <2>2. SlotsFade
      BY <1>0, <2>1, SlotFades DEF Reserving, CancelPCs
    <2>. QED
      BY <2>1, <2>2, SessionsStay, SweepsStay, FadeStep
  <1>2. ASSUME ChunkExists(r) \/ ChunkSave(r)
        PROVE  PathsKept' /\ PathStep
    <2>1. /\ UNCHANGED <<files, sessions, sweep, spoilt>>
          /\ Return(r) \/ (UNCHANGED op /\ (GoTo(r, "record") \/ GoTo(r, "save")))
      BY <1>2 DEF ChunkExists, ChunkSave
    <2>2. SlotsFade
      BY <1>0, <2>1, ReturnFades, GoToFades DEF Reserving, CancelPCs
    <2>. QED
      BY <2>1, <2>2, SessionsStay, SweepsStay, FadeStep
  <1>3. ASSUME ChunkRecord(r)
        PROVE  PathsKept' /\ PathStep
    <2>1. op[r].id \in Ids /\ op[r].idx \in Idx
      BY <1>0, <1>3 DEF ChunkRecord, TypeOK, Locals
    <2>2. /\ UNCHANGED <<files, sweep, spoilt>> /\ Return(r)
          /\ \/ UNCHANGED sessions
             \/ /\ Active(op[r].id)
                /\ sessions' = [sessions EXCEPT ![op[r].id] =
                                   Credited(sessions[op[r].id], op[r].idx)]
      BY <1>3 DEF ChunkRecord
    <2>3. SessionsFade
      BY <1>0, <2>1, <2>2, RefreshFades, SessionsStay
    <2>. QED
      BY <1>0, <2>2, <2>3, ReturnFades, SweepsStay, FadeStep
  <1>. QED
    BY <1>1, <1>2, <1>3

(* A complete owns nothing by itself: it publishes for its session, or, if   *)
(* that is gone, at a path that is spoilt from then on.                      *)
LEMMA CompletePaths ==
  ASSUME DirInv, NEW r \in Req
  PROVE  /\ \A x \in Ids : CompleteStart(r, x) => PathsKept' /\ PathStep
         /\ CompleteMerge(r) => PathsKept' /\ PathStep
         /\ CompleteRename(r) => PathsKept' /\ (spoilt' = spoilt => PathStep)
         /\ CompleteUnlist(r) => PathsKept' /\ PathStep
         /\ CompleteClear(r) => PathsKept' /\ PathStep
  <1>. USE DEF At
  <1>0. TypeOK
    BY DEF DirInv
  <1>1. ASSUME NEW x \in Ids, CompleteStart(r, x)
        PROVE  PathsKept' /\ PathStep
    <2>1. /\ UNCHANGED <<files, sessions, sweep, spoilt>>
          /\ pc' = [pc EXCEPT ![r] = "merge"] /\ \E o : op' = [op EXCEPT ![r] = o]
      BY <1>1 DEF CompleteStart, GoTo, SetOp
    <2>2. SlotsFade
      BY <1>0, <2>1, SlotFades DEF Reserving, CancelPCs
    <2>. QED
      BY <2>1, <2>2, SessionsStay, SweepsStay, FadeStep
  <1>2. ASSUME CompleteMerge(r)
        PROVE  PathsKept' /\ PathStep
    <2>1. UNCHANGED <<files, sessions, sweep, spoilt>> /\ pc[r] = "merge"
      BY <1>2 DEF CompleteMerge
    <2>2. CASE Return(r)
      BY <1>0, <2>1, <2>2, ReturnFades, SessionsStay, SweepsStay, FadeStep
    <2>3. CASE GoTo(r, "rename") /\ UNCHANGED op
      BY <1>0, <2>1, <2>3, GoToFades, SessionsStay, SweepsStay, FadeStep
      DEF Reserving, CancelPCs
    <2>4. ASSUME NEW o, SetOp(r, o), UNCHANGED pc
          PROVE  PathsKept' /\ PathStep
      <3>1. pc' = [pc EXCEPT ![r] = "merge"]
        BY <1>0, <2>1, <2>4 DEF TypeOK
      <3>2. SlotsFade
        BY <1>0, <2>1, <2>4, <3>1, SlotFades DEF SetOp, Reserving, CancelPCs
      <3>. QED
        BY <2>1, <3>2, SessionsStay, SweepsStay, FadeStep
    <2>. QED
      BY <1>2, <2>2, <2>3, <2>4 DEF CompleteMerge
  <1>3. ASSUME CompleteRename(r)
        PROVE  PathsKept' /\ (spoilt' = spoilt => PathStep)
    <2>1. PICK p0 \in Paths, f0 \in Files, x0 \in Ids :
             p0 = op[r].path /\ f0 = op[r].file /\ x0 = op[r].id
      BY <1>0 DEF TypeOK, Locals
    <2>2. /\ pc[r] = "rename" /\ op[r].pure /\ GoTo(r, "unlist")
          /\ UNCHANGED <<sessions, sweep, op>>
          /\ files' = [files EXCEPT ![p0] = f0]
          /\ spoilt' = IF Outlived(r) /\ files[p0] # f0 THEN spoilt \cup {p0} ELSE spoilt
      BY <1>3, <2>1 DEF CompleteRename, DirInv, Verified
    <2>3. SlotsFade /\ SessionsFade /\ SweepsFade
      BY <1>0, <2>2, GoToFades, SessionsStay, SweepsStay DEF Reserving, CancelPCs
    <2>4. CASE files[p0] = f0
      <3>1. UNCHANGED <<files, spoilt>>
        BY <1>0, <2>2, <2>4 DEF TypeOK
      <3>. QED
        BY <2>3, <3>1, FadeStep
    <2>5. files'[p0] = f0 /\ \A p \in Paths : p # p0 => files'[p] = files[p]
      BY <1>0, <2>2 DEF TypeOK
    <2>6. CASE files[p0] # f0 /\ Outlived(r)
      <3>1. spoilt' = spoilt \cup {p0}
        BY <2>2, <2>6
      <3>2. PathsKept'
        BY <2>3, <2>5, <3>1, FadePaths DEF PathsKept
      <3>3. CASE p0 \notin spoilt
        BY <3>1, <3>2, <3>3
      <3>4. CASE p0 \in spoilt
        <4>1. UNCHANGED spoilt
          BY <3>1, <3>4
        <4>2. UNCHANGED Mask /\ AllOwned' \subseteq AllOwned
          BY <1>0, <2>2, <2>3, <3>4, <4>1, MaskAt, OwnersFade
        <4>. QED
          BY <3>2, <4>2 DEF PathStep
      <3>. QED
        BY <3>3, <3>4
    <2>7. CASE files[p0] # f0 /\ ~Outlived(r)
      <3>1. SessionHolds(x0, p0) /\ sessions[x0].file = f0 /\ UNCHANGED spoilt
        BY <2>1, <2>2, <2>7 DEF Outlived, SessionHolds
      <3>2. \A x \in Ids : SessionHolds(x, p0) => x = x0
        BY <3>1 DEF DirInv, ReservationExclusive
      <3>3. \A q \in Req : ~SlotHolds(q, p0)
        BY <3>1 DEF DirInv, ReservationExclusive
      <3>4. \A q \in Req : ~Early(q, p0)'
        BY <2>3, <3>3 DEF SlotsFade, Early, SlotHolds, Reserving
      <3>5. \A x \in Ids : SessionHolds(x, p0)' => sessions'[x].file = f0
        BY <2>3, <3>1, <3>2 DEF SessionsFade
      <3>6. PathsKept'
        BY <2>3, <2>5, <3>1, <3>4, <3>5, FadePaths DEF PathsKept
      <3>7. CASE p0 \in spoilt
        <4>1. UNCHANGED Mask /\ AllOwned' \subseteq AllOwned
          BY <1>0, <2>2, <2>3, <3>1, <3>7, MaskAt, OwnersFade
        <4>. QED
          BY <3>6, <4>1 DEF PathStep
      <3>8. CASE p0 \notin spoilt
        <4>1. p0 \in AllOwned
          BY <3>1, <3>8 DEF AllOwned, Owned
        <4>2. files[p0] = Empty
          BY <2>7, <3>1, <3>8 DEF DirInv, PathsKept
        <4>3. Mask' = [Mask EXCEPT ![p0] = f0] /\ Mask[p0] = Empty
          BY <1>0, <2>2, <3>1, <3>8, <4>2, MaskAt
        <4>4. ASSUME NEW z \in Paths, Owned(z)
              PROVE  Owned(z)'
          <5>1. \A q \in Req : SlotHolds(q, z) => SlotHolds(q, z)'
            BY <1>0, <2>2 DEF GoTo, TypeOK, SlotHolds, Reserving, CancelPCs
          <5>2. \A x \in Ids : (SessionHolds(x, z)' <=> SessionHolds(x, z))
                               /\ (SweepHolds(x, z)' <=> SweepHolds(x, z))
            BY <2>2 DEF SessionHolds, SweepHolds, Active
          <5>. QED
            BY <4>4, <5>1, <5>2 DEF Owned
        <4>5. AllOwned' = AllOwned
          BY <2>3, <3>1, <4>4, OwnersFade DEF AllOwned
        <4>. QED
          BY <3>6, <4>1, <4>3, <4>5 DEF PathStep
      <3>. QED
        BY <3>7, <3>8
    <2>. QED
      BY <2>4, <2>6, <2>7
  <1>4. ASSUME CompleteUnlist(r)
        PROVE  PathsKept' /\ PathStep
    <2>1. op[r].id \in Ids
      BY <1>0 DEF TypeOK, Locals
    <2>2. /\ UNCHANGED <<files, sweep, op, spoilt>> /\ GoTo(r, "clear")
          /\ \/ UNCHANGED sessions
             \/ sessions' = [sessions EXCEPT ![op[r].id] = NoSession]
      BY <1>4 DEF CompleteUnlist
    <2>3. SlotsFade
      BY <1>0, <2>2, GoToFades DEF Reserving, CancelPCs
    <2>4. SessionsFade
      BY <1>0, <2>1, <2>2, SessionFades, SessionsStay DEF NoSession
    <2>. QED
      BY <2>2, <2>3, <2>4, SweepsStay, FadeStep
  <1>5. ASSUME CompleteClear(r)
        PROVE  PathsKept' /\ PathStep
    <2>1. UNCHANGED <<files, sessions, sweep, spoilt>> /\ Return(r)
      BY <1>5 DEF CompleteClear
    <2>. QED
      BY <1>0, <2>1, ReturnFades, SessionsStay, SweepsStay, FadeStep
  <1>. QED
    BY <1>1, <1>2, <1>3, <1>4, <1>5

(* A cancel takes the path over from the session.                            *)
LEMMA CancelPaths ==
  ASSUME DirInv, NEW r \in Req
  PROVE  /\ \A x \in Ids : CancelStart(r, x) => PathsKept' /\ PathStep
         /\ CancelDir(r) => PathsKept' /\ PathStep
         /\ CancelFile(r) => PathsKept' /\ PathStep
  <1>. USE DEF At
  <1>0. TypeOK
    BY DEF DirInv
  <1>1. ASSUME NEW x \in Ids, CancelStart(r, x)
        PROVE  PathsKept' /\ PathStep
    <2>1. /\ Active(x) /\ pc[r] = "idle"
          /\ sessions' = [sessions EXCEPT ![x] = NoSession]
          /\ pc' = [pc EXCEPT ![r] = "cancelDir"]
          /\ op' = [op EXCEPT ![r] = Cloned(x)]
          /\ UNCHANGED <<files, sweep, spoilt>>
      BY <1>1 DEF CancelStart, GoTo, SetOp
    <2>2. PICK p0 \in Paths : p0 = sessions[x].path /\ Cloned(x).path = p0
      BY <1>0, <2>1, ActiveType, ClonedType DEF ActiveSession
    <2>3. SessionHolds(x, p0)
      BY <2>1, <2>2 DEF SessionHolds
    <2>4. \A q \in Req, p \in Paths :
             /\ SlotHolds(q, p)' => SlotHolds(q, p) \/ (q = r /\ p = p0)
             /\ Early(q, p)' => Early(q, p)
      BY <1>0, <2>1, <2>2 DEF TypeOK, SlotHolds, Early
    <2>5. SessionsFade /\ SweepsFade
      BY <1>0, <2>1, SessionFades, SweepsStay DEF NoSession
    <2>6. AllOwned' \subseteq AllOwned
      BY <2>1, <2>3, <2>4, <2>5 DEF AllOwned, Owned, SessionsFade, SweepsFade
    <2>7. PathsKept'
      BY <2>1, <2>4, <2>5 DEF DirInv, PathsKept, SessionsFade
    <2>. QED
      BY <2>1, <2>6, <2>7 DEF PathStep, Mask
  <1>2. ASSUME CancelDir(r)
        PROVE  PathsKept' /\ PathStep
    <2>1. /\ UNCHANGED <<files, sessions, sweep, op, spoilt>>
          /\ GoTo(r, "cancelFile") /\ pc[r] = "cancelDir"
      BY <1>2 DEF CancelDir
    <2>2. SlotsFade
      BY <1>0, <2>1, GoToFades DEF CancelPCs
    <2>. QED
      BY <2>1, <2>2, SessionsStay, SweepsStay, FadeStep
  <1>3. ASSUME CancelFile(r)
        PROVE  PathsKept' /\ PathStep
    <2>1. /\ pc[r] = "cancelFile" /\ UNCHANGED <<sessions, sweep, spoilt>>
          /\ RemoveFile(op[r].path) /\ Return(r)
      BY <1>3 DEF CancelFile
    <2>2. SlotsFade
      BY <1>0, <2>1, ReturnFades
    <2>3. SlotHolds(r, op[r].path) /\ \A p \in Paths : ~SlotHolds(r, p)'
      BY <1>0, <2>1
      DEF Return, GoTo, TypeOK, SlotHolds, Reserving, CancelPCs
    <2>4. \A q \in Req : q # r => pc'[q] = pc[q] /\ op'[q] = op[q]
      BY <1>0, <2>1 DEF Return, GoTo, TypeOK
    <2>. QED
      BY <2>1, <2>2, <2>3, <2>4, SlotReleases
  <1>. QED
    BY <1>1, <1>2, <1>3

(* The cleanup takes the path over from the session.                         *)
LEMMA SweepPaths ==
  ASSUME DirInv
  PROVE  /\ SweepTake => PathsKept' /\ PathStep
         /\ \A x \in Ids : Sweep(x) => PathsKept' /\ PathStep
         /\ \A x \in Ids : Age(x) => PathsKept' /\ PathStep
  <1>0. TypeOK
    BY DEF DirInv
  <1>1. ASSUME SweepTake
        PROVE  PathsKept' /\ PathStep
    <2>1. UNCHANGED <<files, pc, op, spoilt>>
      BY <1>1 DEF SweepTake
    <2>2. \A x \in Ids, p \in Paths : SweepHolds(x, p)' => SessionHolds(x, p)
      BY <1>1 DEF SweepTake, SweepHolds, SessionHolds, Active, Stale, NotSwept
    <2>3. SessionsFade
      BY <1>1 DEF SweepTake, SessionsFade, SessionHolds, Active, Tombstone
    <2>4. SlotsFade
      BY <2>1, SlotsStay
    <2>5. AllOwned' \subseteq AllOwned
      BY <2>1, <2>2, <2>3, <2>4 DEF AllOwned, Owned, SlotsFade, SessionsFade
    <2>6. PathsKept'
      BY <2>1, <2>3, <2>4 DEF DirInv, PathsKept, SessionsFade, SlotsFade
    <2>. QED
      BY <2>1, <2>5, <2>6 DEF PathStep, Mask
  <1>2. ASSUME NEW x \in Ids, Age(x)
        PROVE  PathsKept' /\ PathStep
    <2>1. /\ UNCHANGED <<files, pc, op, sweep, spoilt>> /\ Active(x)
          /\ sessions' = [sessions EXCEPT ![x] = [sessions[x] EXCEPT !.stale = TRUE]]
      BY <1>2 DEF Age
    <2>2. LET s == [sessions[x] EXCEPT !.stale = TRUE]
          IN  s.path = sessions[x].path /\ s.file = sessions[x].file
      BY <1>0, <2>1, ActiveType DEF ActiveSession
    <2>3. SessionsFade
      BY <1>0, <1>2, <2>1, <2>2, SessionFades
    <2>. QED
      BY <2>1, <2>3, SlotsStay, SweepsStay, FadeStep
  <1>3. ASSUME NEW x \in Ids, NEW stage, Advance(x, stage),
               sweep[x].stage \in {"queued", "dirGone", "emptySeen"}
        PROVE  /\ SweepsFade
               /\ stage = "filesGone" => \A p \in Paths : ~SweepHolds(x, p)'
               /\ \A y \in Ids : y # x => sweep'[y] = sweep[y]
    <2>1. sweep[x] \in SweepWork
      BY <1>0, <1>3 DEF TypeOK, NotSwept
    <2>2. sweep'[x].path = sweep[x].path /\ sweep'[x].stage = stage
      BY <1>0, <1>3, <2>1 DEF Advance, TypeOK, SweepWork
    <2>3. \A y \in Ids : y # x => sweep'[y] = sweep[y]
      BY <1>0, <1>3 DEF Advance, TypeOK
    <2>. QED
      BY <1>3, <2>2, <2>3 DEF SweepsFade, SweepHolds
  <1>4. ASSUME NEW x \in Ids, SweepDir(x) \/ SweepLook(x)
        PROVE  PathsKept' /\ PathStep
    <2>1. /\ UNCHANGED <<files, sessions, pc, op, spoilt>>
          /\ sweep[x].stage \in {"queued", "dirGone", "emptySeen"}
          /\ \E stage : Advance(x, stage)
      BY <1>4 DEF SweepDir, SweepLook
    <2>. QED
      BY <1>3, <2>1, SlotsStay, SessionsStay, FadeStep
  <1>5. ASSUME NEW x \in Ids, SweepFile(x)
        PROVE  PathsKept' /\ PathStep
    <2>1. /\ sweep[x].stage = "emptySeen" /\ UNCHANGED <<sessions, pc, op, spoilt>>
          /\ RemoveFile(sweep[x].path) /\ Advance(x, "filesGone")
      BY <1>5 DEF SweepFile
    <2>2. PICK p \in Paths : p = sweep[x].path
      BY <1>0, <2>1 DEF TypeOK, SweepWork, NotSwept
    <2>3. SweepHolds(x, p)
      BY <2>1, <2>2 DEF SweepHolds
    <2>4. SweepsFade /\ SlotsFade /\ SessionsFade
      BY <1>3, <2>1, SlotsStay, SessionsStay
    <2>5. /\ \A q \in Req : ~SlotHolds(q, p)
          /\ \A y \in Ids : ~SessionHolds(y, p) /\ (SweepHolds(y, p) => y = x)
      BY <2>3 DEF DirInv, ReservationExclusive
    <2>6. /\ \A z \in Paths : ~SweepHolds(x, z)'
          /\ \A y \in Ids : y # x => sweep'[y] = sweep[y]
      BY <1>3, <2>1
    <2>7. Owned(p) /\ ~Owned(p)'
      BY <2>3, <2>4, <2>5, <2>6
      DEF Owned, SlotsFade, SessionsFade, SweepsFade
    <2>8. ASSUME NEW z \in Paths, z # p, Owned(z)
          PROVE  Owned(z)'
      <3>1. ~SweepHolds(x, z)
        BY <2>2, <2>8 DEF SweepHolds
      <3>2. \A q \in Req : SlotHolds(q, z)' <=> SlotHolds(q, z)
        BY <2>1 DEF SlotHolds
      <3>3. \A y \in Ids : /\ SessionHolds(y, z)' <=> SessionHolds(y, z)
                           /\ y # x => (SweepHolds(y, z)' <=> SweepHolds(y, z))
        BY <2>1, <2>6 DEF SessionHolds, SweepHolds, Active
      <3>. QED
        BY <2>8, <3>1, <3>2, <3>3 DEF Owned
    <2>9. RemoveFile(p)
      BY <2>1, <2>2
    <2>. QED
      BY <2>1, <2>4, <2>7, <2>8, <2>9, ReleaseStep
  <1>6. ASSUME NEW x \in Ids, SweepFinish(x)
        PROVE  PathsKept' /\ PathStep
    <2>1. /\ UNCHANGED <<files, spoilt>>
          /\ \/ UNCHANGED sessions
             \/ sessions' = [sessions EXCEPT ![x] = NoSession]
          /\ sweep' = [sweep EXCEPT ![x] = NotSwept]
      BY <1>6 DEF SweepFinish
    <2>2. \A q \in Req : /\ pc'[q] \in Reserving \cup CancelPCs => pc'[q] = pc[q]
                         /\ op'[q].path = op[q].path
      BY <1>0, <1>6 DEF SweepFinish, TypeOK, Locals, Reserving, CancelPCs
    <2>3. SlotsFade
      BY <2>2 DEF SlotsFade, SlotHolds, Early, Reserving
    <2>4. SweepsFade
      BY <1>0, <2>1 DEF TypeOK, SweepsFade, SweepHolds, NotSwept
    <2>5. SessionsFade
      BY <1>0, <2>1, SessionFades, SessionsStay DEF NoSession
    <2>. QED
      BY <2>1, <2>3, <2>4, <2>5, FadeStep
  <1>. QED
    BY <1>1, <1>2, <1>4, <1>5, <1>6 DEF Sweep

-----------------------------------------------------------------------------

LEMMA DirectoryStep ==
  ASSUME DirInv, [Next]_vars
  PROVE  DirInv' /\ (spoilt' = spoilt => PathStep)
  <1>. DEFINE Goal == PathsKept' /\ (spoilt' = spoilt => PathStep)
  <1>0. TypeOK /\ \A r \in Req : op[r] \in Locals
    BY DEF DirInv, TypeOK
  <1>1. ASSUME NEW r \in Req, Arrive(r)
        PROVE  Goal
    <2>1. ASSUME NEW id \in Ids, NEW n \in Names, NEW f \in Files,
                 InitLookup(r, Requested(id, n, f))
          PROVE  Goal
      BY <2>1, RequestType, InitPaths
    <2>2. ASSUME NEW id \in Ids, NEW i \in Idx, NEW f \in Files, ChunkStart(r, id, i, f)
          PROVE  Goal
      BY <2>2, ChunkPaths
    <2>3. ASSUME NEW id \in Ids, CompleteStart(r, id)
          PROVE  Goal
      BY <2>3, CompletePaths
    <2>4. ASSUME NEW id \in Ids, CancelStart(r, id)
          PROVE  Goal
      BY <2>4, CancelPaths
    <2>. QED
      BY <1>1, <2>1, <2>2, <2>3, <2>4 DEF Arrive
  <1>2. ASSUME NEW r \in Req, Work(r) \/ ChunkSave(r)
        PROVE  Goal
    BY <1>0, <1>2, InitPaths, ChunkPaths, CompletePaths, CancelPaths DEF Work
  <1>3. ASSUME NEW r \in Req, Drop(r)
        PROVE  Goal
    <2>1. UNCHANGED <<files, sessions, sweep, spoilt>> /\ Return(r)
      BY <1>3 DEF Drop
    <2>. QED
      BY <1>0, <2>1, ReturnFades, SessionsStay, SweepsStay, FadeStep
  <1>4. ASSUME NEW x \in Ids, Age(x) \/ Sweep(x)
        PROVE  Goal
    BY <1>4, SweepPaths
  <1>5. ASSUME SweepTake
        PROVE  Goal
    BY <1>5, SweepPaths
  <1>6. ASSUME Crash
        PROVE  Goal
    <2>1. UNCHANGED <<files, spoilt>>
      BY <1>6 DEF Crash
    <2>2. SlotsFade /\ SessionsFade /\ SweepsFade
      BY <1>6 DEF Crash, SlotsFade, SessionsFade, SweepsFade, SlotHolds, Early,
         SessionHolds, SweepHolds, Active, NoSession, NotSwept, Reserving, CancelPCs
    <2>. QED
      BY <2>1, <2>2, FadeStep
  <1>7. ASSUME NEW d \in Dirs, NEW i \in Idx, Settle(d, i)
        PROVE  Goal
    BY <1>7, SlotsStay, SessionsStay, SweepsStay, FadeStep DEF Settle
  <1>8. ASSUME UNCHANGED vars
        PROVE  Goal
    BY <1>8, SlotsStay, SessionsStay, SweepsStay, FadeStep DEF vars
  <1>9. Goal
    BY <1>1, <1>2, <1>3, <1>4, <1>5, <1>6, <1>7, <1>8 DEF Next
  <1>. QED
    BY <1>9, TypingStep, ExclusiveStep, VerifiedStep DEF DirInv

(* The initial states own nothing.                                            *)
LEMMA InitDirectory == Init => DirInv /\ Directory!DDInit
  <1>1. Init => TypeOK
    BY NoOpType, ConstantsAssumption DEF Init, TypeOK
  <1>2. Init => /\ \A p \in Paths, r \in Req : ~SlotHolds(r, p) /\ ~Early(r, p)
                /\ \A p \in Paths, x \in Ids : ~SessionHolds(x, p) /\ ~SweepHolds(x, p)
    BY DEF Init, SlotHolds, Early, SessionHolds, SweepHolds, Active,
       NoSession, NotSwept, Reserving, CancelPCs
  <1>3. Init => Verified
    BY ConstantsAssumption DEF Init, Verified, OnlyVerifiedContent, At
  <1>4. Init => Directory!DDInit
    BY <1>2 DEF Init, Directory!DDInit, Owned
  <1>. QED
    BY <1>1, <1>2, <1>3, <1>4 DEF DirInv, ReservationExclusive, PathsKept

LEMMA DirInvariance == Spec => []DirInv
  <1>1. DirInv /\ [Next]_vars => DirInv'
    BY DirectoryStep
  <1>. QED
    BY <1>1, InitDirectory, PTL DEF Spec

(* The chunked uploads implement the directory, however the handlers of      *)
(* several ids and the cleanup interleave, whoever goes away and whatever    *)
(* fails, at every path but those where a complete renamed its file after    *)
(* its session was gone: reservations are made where nothing was, and only   *)
(* an owner publishes, once, or gives its path back.                         *)
THEOREM SessionsImplementDirectory == Spec => DirectoryKept
  <1>1. DirInv /\ [Next]_vars =>
           [spoilt' = spoilt => Directory!DDNext]_(Directory!ddvars)
    BY DirectoryStep, PathStepIsDirectoryStep
  <1>. QED
    BY <1>1, InitDirectory, DirInvariance, PTL DEF Spec, DirectoryKept

(* Spoilt paths stay so, and a step that spoils a path changes only that one. *)
LEMMA SpoiltGrows ==
  ASSUME TypeOK, [Next]_vars
  PROVE  /\ spoilt \subseteq spoilt'
         /\ spoilt' # spoilt => \A p \in Paths \ spoilt' : files'[p] = files[p]
  <1>1. ASSUME NEW r \in Req, CompleteRename(r)
        PROVE  /\ spoilt \subseteq spoilt'
               /\ spoilt' # spoilt => \A p \in Paths \ spoilt' : files'[p] = files[p]
    BY <1>1 DEF CompleteRename, TypeOK, Locals
  <1>2. ASSUME NEW r \in Req, Arrive(r) \/ (Work(r) /\ ~CompleteRename(r)) \/ ChunkSave(r) \/ Drop(r)
        PROVE  spoilt' = spoilt
    BY <1>2 DEF Arrive, Work, Drop, InitLookup, InitWait, InitReserve, InitMkdir, InitScan,
       InitInstall, InitUndo, ChunkStart, ChunkExists, ChunkSave, ChunkRecord, CompleteStart,
       CompleteMerge, CompleteUnlist, CompleteClear, CancelStart, CancelDir, CancelFile
  <1>3. ASSUME NEW x \in Ids, Age(x) \/ Sweep(x)
        PROVE  spoilt' = spoilt
    BY <1>3 DEF Age, Sweep, SweepDir, SweepLook, SweepFile, SweepFinish
  <1>4. ASSUME SweepTake \/ Crash \/ (\E d \in Dirs, i \in Idx : Settle(d, i)) \/ UNCHANGED vars
        PROVE  spoilt' = spoilt
    BY <1>4 DEF SweepTake, Crash, Settle, vars
  <1>. QED
    BY <1>1, <1>2, <1>3, <1>4 DEF Next

(* What a step of the directory does to received files: none is replaced, and *)
(* one whose owners are gone stays for good.                                  *)
LEMMA DirectoryFinal ==
  ASSUME TypeOK, PathStep, UNCHANGED spoilt, NEW p \in Paths \ spoilt, files[p] \in Files
  PROVE  /\ files'[p] \in Files => files'[p] = files[p]
         /\ ~Owned(p) => files'[p] = files[p]
  <1>0. Absent \notin Files /\ Empty \notin Files
    BY ConstantsAssumption
  <1>1. /\ Mask[p] = files[p] /\ Mask'[p] = files'[p]
        /\ Mask \in [Paths -> {Mask[z] : z \in Paths}]
    BY DEF Mask
  <1>2. ASSUME NEW z \in Paths, Mask[z] \notin Files, NEW c, Mask' = [Mask EXCEPT ![z] = c]
        PROVE  files'[p] = files[p]
    BY <1>1, <1>2
  <1>3. ASSUME NEW z \in AllOwned, Mask' = [Mask EXCEPT ![z] = Absent]
        PROVE  /\ z # p => files'[p] = files[p]
               /\ z = p => files'[p] \notin Files /\ Owned(p)
    BY <1>0, <1>1, <1>3 DEF AllOwned
  <1>4. AllOwned \subseteq Paths
    BY DEF AllOwned
  <1>. QED
    BY <1>0, <1>1, <1>2, <1>3, <1>4 DEF PathStep

(* The only step that replaces a received file by another is the rename of a *)
(* complete whose session was gone, or one at a path where that happened     *)
(* before; the run `overwrite` shows such a step.                            *)
OnlyLateOverwrites ==
  [][\A p \in Paths :
        files[p] \in Files /\ files'[p] \in Files /\ files'[p] # files[p] =>
            p \in spoilt']_vars

THEOREM OverwriteTheorem == Spec => OnlyLateOverwrites
  <1>1. ASSUME DirInv, [Next]_vars, NEW p \in Paths, files[p] \in Files,
               files'[p] \in Files, files'[p] # files[p]
        PROVE  p \in spoilt'
    <2>1. CASE p \in spoilt
      BY <1>1, <2>1, SpoiltGrows DEF DirInv
    <2>2. CASE p \notin spoilt
      <3>1. CASE UNCHANGED spoilt
        BY <1>1, <2>2, <3>1, DirectoryStep, DirectoryFinal DEF DirInv
      <3>2. CASE spoilt' # spoilt
        BY <1>1, <2>2, <3>2, SpoiltGrows DEF DirInv, TypeOK
      <3>. QED
        BY <3>1, <3>2
    <2>. QED
      BY <2>1, <2>2
  <1>2. DirInv /\ [Next]_vars =>
          [\A p \in Paths :
              files[p] \in Files /\ files'[p] \in Files /\ files'[p] # files[p] =>
                  p \in spoilt']_vars
    BY <1>1
  <1>. QED
    BY <1>2, DirInvariance, PTL DEF Spec, OnlyLateOverwrites

(* A received file that no session, cleanup or handler holds any more stays   *)
(* as it is, unless a complete whose session was gone comes in at its path.   *)
FinalStays ==
  [][\A p \in Paths :
        files[p] \in Files /\ ~Owned(p) /\ p \notin spoilt' => files'[p] = files[p]]_vars

THEOREM FinalTheorem == Spec => FinalStays
  <1>1. ASSUME DirInv, [Next]_vars, NEW p \in Paths, files[p] \in Files,
               ~Owned(p), p \notin spoilt'
        PROVE  files'[p] = files[p]
    <2>1. p \notin spoilt
      BY <1>1, SpoiltGrows DEF DirInv
    <2>2. CASE UNCHANGED spoilt
      BY <1>1, <2>1, <2>2, DirectoryStep, DirectoryFinal DEF DirInv
    <2>3. CASE spoilt' # spoilt
      BY <1>1, <2>3, SpoiltGrows DEF DirInv, TypeOK
    <2>. QED
      BY <2>2, <2>3
  <1>2. DirInv /\ [Next]_vars =>
          [\A p \in Paths :
              files[p] \in Files /\ ~Owned(p) /\ p \notin spoilt' => files'[p] = files[p]]_vars
    BY <1>1
  <1>. QED
    BY <1>2, DirInvariance, PTL DEF Spec, FinalStays
=============================================================================
