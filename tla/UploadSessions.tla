--------------------------- MODULE UploadSessions ---------------------------
(* The chunked uploads of the receiver (src/src/server.rs): the four handlers *)
(* init, chunk, complete and cancel, which axum runs concurrently, and the    *)
(* periodic cleanup of stale sessions, over the map `upload_sessions` and the *)
(* download directory.                                                        *)
(*                                                                            *)
(* The map is behind a tokio Mutex that is never held across an await, so one *)
(* locked section is one action.  A file system call is one await: whatever   *)
(* runs between two of them is an interleaving.  A handler lives in a slot    *)
(* r \in Req, which stands for one request in flight and is reused.           *)
EXTENDS Naturals, Sequences, FiniteSets

CONSTANTS
    Req,         \* request slots: how many handlers run at once
    Ids,         \* upload ids (chosen by the sender)
    Names,       \* base names of uploaded files
    Paths,       \* paths in the download directory
    Files,       \* contents a sender may upload
    Candidates,  \* name -> the paths tried for it: name, name_1, name_2 ...
    ChunkLens,   \* content -> the length of each of its chunks
    MaxCrashes,  \* bound: how often the process restarts
    IoErrors,    \* whether a file system call may fail without a cause here
    FreshInit,   \* whether an init for an id comes only when no earlier request
                 \* for that id is still being handled
    Absent, Empty, Mixed,  \* at a path: nothing, a placeholder, other bytes
    NoDir, Hole            \* no chunk directory, no such chunk in it

Idx == UNION {DOMAIN ChunkLens[f] : f \in Files}
Dirs == Names \X Ids

(* A chunk on disk: the content it was cut from, and whether its last write  *)
(* has reached the file.                                                     *)
Stored == [body : Files, whole : BOOLEAN]

ASSUME ConstantsAssumption ==
    /\ Ids # {} /\ Names # {} /\ Paths # {} /\ Files # {}
    /\ Candidates \in [Names -> Seq(Paths)]
    /\ ChunkLens \in [Files -> Seq(Nat)]
    /\ MaxCrashes \in Nat
    /\ {IoErrors, FreshInit} \subseteq BOOLEAN
    /\ {Absent, Empty, Mixed} \cap Files = {}
    /\ Absent # Empty /\ Absent # Mixed /\ Empty # Mixed
    /\ Hole \notin Stored
    /\ NoDir \notin [Idx -> Stored \cup {Hole}]

VARIABLES
    sessions,  \* the map upload_sessions
    files,     \* what is at each path
    dirs,      \* the chunk directories .<name>.chunks-<id>
    pc,        \* where the handler in each slot is
    op,        \* its local variables
    sweep,     \* the cleanup's work on each id (its StaleUploadCleanup)
    crashes,   \* restarts so far
    spoilt     \* history, not in the code: the paths that got the file of a
               \* complete whose session was gone by then

vars == <<sessions, files, dirs, pc, op, sweep, crashes, spoilt>>

----------------------------------------------------------------------------
(* Data *)

NoSession == [tag |-> "none"]
Tombstone == [tag |-> "removing"]

(* `stale` stands for last_active lying more than the timeout in the past.   *)
(* file_size, chunk_size and checksum are one value, the content.            *)
ActiveSession == [tag : {"active"}, name : Names, path : Paths, file : Files,
                  got : SUBSET Idx, stale : BOOLEAN]

Free(id) == sessions[id].tag = "none"
Active(id) == sessions[id].tag = "active"
Removing(id) == sessions[id].tag = "removing"
Touched(s) == [s EXCEPT !.stale = FALSE]
Credited(s, i) == [s EXCEPT !.got = @ \cup {i}, !.stale = FALSE]

EmptyDir == [i \in Idx |-> Hole]
Chunks(f) == DOMAIN ChunkLens[f]
ZeroLength(c) == c = Empty \/ (c \in Files /\ \A i \in Chunks(c) : ChunkLens[c][i] = 0)

(* A handler's locals.  try: candidates already refused; path: the reserved  *)
(* or the session's path; idx: chunk index; body: the content chunk idx of   *)
(* the request was cut from; pure: the merged bytes are those of `file`;     *)
(* fired: the Notify this handler holds was fired before it waited on it.    *)
Locals == [id : Ids, name : Names, file : Files, try : Nat, path : Paths,
           got : SUBSET Idx, idx : Nat, body : Files, pure : BOOLEAN,
           fired : BOOLEAN]

InitPCs == {"lookup", "toWait", "waiting", "reserve", "mkdir", "scan",
            "install", "undo", "undoWait"}
ChunkPCs == {"exists", "save", "record"}
CompletePCs == {"merge", "rename", "unlist", "clear"}
CancelPCs == {"cancelDir", "cancelFile"}

NoOp == [id |-> CHOOSE x \in Ids : TRUE, name |-> CHOOSE x \in Names : TRUE,
         file |-> CHOOSE x \in Files : TRUE, try |-> 0,
         path |-> CHOOSE x \in Paths : TRUE, got |-> {}, idx |-> 0,
         body |-> CHOOSE x \in Files : TRUE, pure |-> TRUE, fired |-> FALSE]

(* The locals a handler takes from the session it cloned under the lock.     *)
Cloned(id) == [NoOp EXCEPT !.id = id, !.name = sessions[id].name,
                           !.file = sessions[id].file, !.path = sessions[id].path,
                           !.got = sessions[id].got]

NotSwept == [stage |-> "none"]
SweepWork == [stage : {"queued", "dirGone", "emptySeen", "filesGone"},
              name : Names, path : Paths]

Dir(r) == <<op[r].name, op[r].id>>
LenMatches(f, i, c) == i \in Chunks(c) /\ ChunkLens[c][i] = ChunkLens[f][i]
HasChunk(d, i) == dirs[d] # NoDir /\ dirs[d][i] # Hole
WholeChunk(d, i) == HasChunk(d, i) /\ dirs[d][i].whole
OnDisk(d, f) == {i \in Chunks(f) : WholeChunk(d, i) /\ LenMatches(f, i, dirs[d][i].body)}

----------------------------------------------------------------------------
(* Control of a handler *)

At(r, label) == pc[r] = label
GoTo(r, label) == pc' = [pc EXCEPT ![r] = label]
Serves(r, id) == pc[r] # "idle" /\ op[r].id = id
Return(r) == GoTo(r, "idle") /\ op' = [op EXCEPT ![r] = NoOp]
SetOp(r, o) == op' = [op EXCEPT ![r] = o]

(* remove_dir_all, its result ignored.  A chunk being saved may create its   *)
(* part file after the listing was read: the directory then stays, emptied.  *)
RemoveDir(d) ==
    \/ dirs' = [dirs EXCEPT ![d] = NoDir]
    \/ /\ dirs[d] # NoDir
       /\ \E q \in Req : At(q, "save") /\ Dir(q) = d
       /\ dirs' = [dirs EXCEPT ![d] = EmptyDir]
    \/ IoErrors /\ UNCHANGED dirs

(* remove_file, its result ignored.                                          *)
RemoveFile(p) ==
    \/ files' = [files EXCEPT ![p] = Absent]
    \/ IoErrors /\ UNCHANGED files

----------------------------------------------------------------------------
(* handle_file_init *)

(* First locked section of the loop: resume, refuse, wait or go on.  A new   *)
(* request reaches it with nothing done but stateless checks.                *)
InitLookup(r, o) ==
    /\ \/ At(r, "idle")
       \/ At(r, "lookup") /\ o = op[r]
    /\ \/ /\ Active(o.id)
          /\ sessions' = IF sessions[o.id].file = o.file
                         THEN [sessions EXCEPT ![o.id] = Touched(@)] ELSE sessions
          /\ Return(r)
       \/ /\ Removing(o.id)
          /\ GoTo(r, "toWait") /\ SetOp(r, o)
          /\ UNCHANGED sessions
       \/ /\ Free(o.id)
          /\ GoTo(r, "reserve") /\ SetOp(r, o)
          /\ UNCHANGED sessions
    /\ UNCHANGED <<files, dirs, sweep, crashes, spoilt>>

(* notify.notified(): the handler is a waiter from here on.  Between reading *)
(* the tombstone under the lock and this step it is not one yet.             *)
InitWait(r) ==
    /\ At(r, "toWait")
    /\ GoTo(r, "waiting")
    /\ UNCHANGED <<sessions, files, dirs, op, sweep, crashes, spoilt>>

(* Mutant: the placeholder is opened with create instead of create_new.      *)
InitReserveTruncating(r) ==
    /\ At(r, "reserve")
    /\ files' = [files EXCEPT ![Candidates[op[r].name][1]] = Empty]
    /\ GoTo(r, "mkdir") /\ SetOp(r, [op[r] EXCEPT !.path = Candidates[op[r].name][1]])
    /\ UNCHANGED <<sessions, dirs, sweep, crashes, spoilt>>

(* One round of reserve_download_path: create_new on the next candidate.     *)
(* Past the last candidate of the bounded model, open fails otherwise (500). *)
InitReserve(r) ==
    /\ At(r, "reserve")
    /\ LET o == op[r]
           k == o.try + 1
           c == Candidates[o.name]
       IN  \/ /\ k \in DOMAIN c /\ files[c[k]] = Absent
              /\ files' = [files EXCEPT ![c[k]] = Empty]
              /\ GoTo(r, "mkdir") /\ SetOp(r, [o EXCEPT !.path = c[k], !.try = 0])
           \/ /\ k \in DOMAIN c /\ files[c[k]] # Absent
              /\ SetOp(r, [o EXCEPT !.try = k])
              /\ UNCHANGED <<files, pc>>
           \/ /\ k \notin DOMAIN c \/ IoErrors
              /\ Return(r)
              /\ UNCHANGED files
    /\ UNCHANGED <<sessions, dirs, sweep, crashes, spoilt>>

InitMkdir(r) ==
    /\ At(r, "mkdir")
    /\ \/ /\ dirs' = [dirs EXCEPT ![Dir(r)] = IF @ = NoDir THEN EmptyDir ELSE @]
          /\ GoTo(r, "scan")
       \/ IoErrors /\ GoTo(r, "undo") /\ UNCHANGED dirs
    /\ UNCHANGED <<sessions, files, op, sweep, crashes, spoilt>>

(* scan_received_chunks: a chunk left by an earlier session counts when its  *)
(* length is the expected one; its bytes are not looked at.                  *)
InitScan(r) ==
    /\ At(r, "scan")
    /\ \/ /\ dirs[Dir(r)] # NoDir
          /\ SetOp(r, [op[r] EXCEPT !.got = OnDisk(Dir(r), op[r].file)])
          /\ GoTo(r, "install")
       \/ /\ dirs[Dir(r)] = NoDir \/ IoErrors
          /\ GoTo(r, "undo") /\ UNCHANGED op
    /\ UNCHANGED <<sessions, files, dirs, sweep, crashes, spoilt>>

NewSession(o) == [tag |-> "active", name |-> o.name, path |-> o.path,
                  file |-> o.file, got |-> o.got, stale |-> FALSE]

(* Second locked section: what was looked up may have changed since.         *)
InitInstall(r) ==
    /\ At(r, "install")
    /\ LET o == op[r]
       IN  \/ /\ Free(o.id)
              /\ sessions' = [sessions EXCEPT ![o.id] = NewSession(o)]
              /\ Return(r)
           \/ /\ Active(o.id)
              /\ sessions' = IF sessions[o.id].file = o.file
                             THEN [sessions EXCEPT ![o.id] = Touched(@)] ELSE sessions
              /\ GoTo(r, "undo") /\ UNCHANGED op
           \/ /\ Removing(o.id)
              /\ GoTo(r, "undoWait") /\ UNCHANGED <<sessions, op>>
    /\ UNCHANGED <<files, dirs, sweep, crashes, spoilt>>

(* The placeholder is given back; the handler answers, or waits as above.    *)
InitUndo(r) ==
    /\ \/ At(r, "undo") /\ Return(r)
       \/ At(r, "undoWait") /\ GoTo(r, "toWait") /\ UNCHANGED op
    /\ RemoveFile(op[r].path)
    /\ UNCHANGED <<sessions, dirs, sweep, crashes, spoilt>>

----------------------------------------------------------------------------
(* handle_file_chunk *)

(* Mutant: the index is counted from one more than the scan does.            *)
ChunkStartOffByOne(r, id, i, f) ==
    /\ At(r, "idle") /\ Active(id)
    /\ i \in Chunks(sessions[id].file) /\ LenMatches(sessions[id].file, i, f)
    /\ GoTo(r, "exists")
    /\ SetOp(r, [Cloned(id) EXCEPT !.idx = i + 1, !.body = f])
    /\ UNCHANGED <<sessions, files, dirs, sweep, crashes, spoilt>>

(* The session is cloned under the lock and used after it.  A request with   *)
(* no live session or an index out of range is refused without a trace.      *)
ChunkStart(r, id, i, f) ==
    /\ At(r, "idle") /\ Active(id)
    /\ i \in Chunks(sessions[id].file) /\ LenMatches(sessions[id].file, i, f)
    /\ GoTo(r, "exists")
    /\ SetOp(r, [Cloned(id) EXCEPT !.idx = i, !.body = f])
    /\ UNCHANGED <<sessions, files, dirs, sweep, crashes, spoilt>>

ChunkExists(r) ==
    /\ At(r, "exists")
    /\ GoTo(r, IF HasChunk(Dir(r), op[r].idx) THEN "record" ELSE "save")
    /\ UNCHANGED <<sessions, files, dirs, op, sweep, crashes, spoilt>>

(* save_chunk: the part file is renamed to chunk_<idx> once the body is      *)
(* complete.  The file is dropped without a flush: its last write may still  *)
(* be under way on the blocking pool, or fail there unnoticed.  Saving may   *)
(* fail at any point: body cut off or of another length, directory gone      *)
(* (404), I/O error.                                                         *)
ChunkSave(r) ==
    /\ At(r, "save")
    /\ \/ /\ dirs[Dir(r)] # NoDir
          /\ dirs' = [dirs EXCEPT ![Dir(r)][op[r].idx] =
                                      [body |-> op[r].body, whole |-> FALSE]]
          /\ GoTo(r, "record") /\ UNCHANGED op
       \/ Return(r) /\ UNCHANGED dirs
    /\ UNCHANGED <<sessions, files, sweep, crashes, spoilt>>

(* External: the last write of a renamed chunk reaches the file.  One that   *)
(* fails, or is lost with a restart, is a write that never gets here.        *)
Settle(d, i) ==
    /\ HasChunk(d, i) /\ ~dirs[d][i].whole
    /\ dirs' = [dirs EXCEPT ![d][i].whole = TRUE]
    /\ UNCHANGED <<sessions, files, pc, op, sweep, crashes, spoilt>>

(* Whatever session is under the id by now is credited with the chunk.       *)
ChunkRecord(r) ==
    /\ At(r, "record")
    /\ LET o == op[r]
       IN  sessions' = IF Active(o.id)
                       THEN [sessions EXCEPT ![o.id] = Credited(@, o.idx)]
                       ELSE sessions
    /\ Return(r)
    /\ UNCHANGED <<files, dirs, sweep, crashes, spoilt>>

----------------------------------------------------------------------------
(* handle_file_complete *)

CompleteStart(r, id) ==
    /\ At(r, "idle") /\ Active(id)
    /\ Cardinality(sessions[id].got) = Cardinality(Chunks(sessions[id].file))
    /\ GoTo(r, "merge")
    /\ SetOp(r, [Cloned(id) EXCEPT !.idx = 1])
    /\ UNCHANGED <<sessions, files, dirs, sweep, crashes, spoilt>>

(* The bytes read are those of the file: the chunk is whole and cut from it. *)
Genuine(d, i, f) == WholeChunk(d, i) /\ dirs[d][i].body = f

(* Mutant: the digest of the merged bytes is not compared.                   *)
CompleteMergeUnverified(r) ==
    /\ At(r, "merge")
    /\ LET o == op[r]
       IN  \/ /\ o.idx \in Chunks(o.file) /\ HasChunk(Dir(r), o.idx)
              /\ SetOp(r, [o EXCEPT !.idx = @ + 1,
                                    !.pure = @ /\ Genuine(Dir(r), o.idx, o.file)])
              /\ UNCHANGED pc
           \/ /\ o.idx \in Chunks(o.file) /\ ~HasChunk(Dir(r), o.idx)
              /\ Return(r)
           \/ /\ o.idx \notin Chunks(o.file)
              /\ GoTo(r, "rename") /\ UNCHANGED op
    /\ UNCHANGED <<sessions, files, dirs, sweep, crashes, spoilt>>

(* complete_chunked_upload_inner: the chunks are appended one by one; then   *)
(* the digest decides.  A chunk that is gone is an I/O error: the merge file *)
(* is removed and the session stays.                                         *)
CompleteMerge(r) ==
    /\ At(r, "merge")
    /\ LET o == op[r]
       IN  \/ /\ o.idx \in Chunks(o.file) /\ HasChunk(Dir(r), o.idx)
              /\ SetOp(r, [o EXCEPT !.idx = @ + 1,
                                    !.pure = @ /\ Genuine(Dir(r), o.idx, o.file)])
              /\ UNCHANGED pc
           \/ /\ IoErrors \/ (o.idx \in Chunks(o.file) /\ ~HasChunk(Dir(r), o.idx))
              /\ Return(r)
           \/ /\ o.idx \notin Chunks(o.file) /\ o.pure
              /\ GoTo(r, "rename") /\ UNCHANGED op
           \/ /\ o.idx \notin Chunks(o.file) /\ ~o.pure
              /\ Return(r)
    /\ UNCHANGED <<sessions, files, dirs, sweep, crashes, spoilt>>

(* The complete works on a clone: its session may have been canceled, swept  *)
(* or completed by another request in the meantime.                          *)
Outlived(r) == LET s == sessions[op[r].id]
               IN  ~(Active(op[r].id) /\ s.path = op[r].path /\ s.file = op[r].file)

(* rename replaces what is at the path, whatever it is.                      *)
CompleteRename(r) ==
    /\ At(r, "rename")
    /\ LET p == op[r].path
           merged == IF op[r].pure THEN op[r].file ELSE Mixed
       IN  /\ files' = [files EXCEPT ![p] = merged]
           /\ spoilt' = IF Outlived(r) /\ files[p] # merged THEN spoilt \cup {p} ELSE spoilt
    /\ GoTo(r, "unlist")
    /\ UNCHANGED <<sessions, dirs, op, sweep, crashes>>

(* The entry is removed if it is active, not if it is this session.          *)
CompleteUnlist(r) ==
    /\ At(r, "unlist")
    /\ sessions' = IF Active(op[r].id)
                   THEN [sessions EXCEPT ![op[r].id] = NoSession] ELSE sessions
    /\ GoTo(r, "clear")
    /\ UNCHANGED <<files, dirs, op, sweep, crashes, spoilt>>

CompleteClear(r) ==
    /\ At(r, "clear")
    /\ RemoveDir(Dir(r))
    /\ Return(r)
    /\ UNCHANGED <<sessions, files, sweep, crashes, spoilt>>

----------------------------------------------------------------------------
(* handle_file_cancel *)

(* Mutant: the entry is looked up, and not taken out of the map.             *)
CancelStartKeeping(r, id) ==
    /\ At(r, "idle") /\ Active(id)
    /\ GoTo(r, "cancelDir") /\ SetOp(r, Cloned(id))
    /\ UNCHANGED <<sessions, files, dirs, sweep, crashes, spoilt>>

CancelStart(r, id) ==
    /\ At(r, "idle") /\ Active(id)
    /\ sessions' = [sessions EXCEPT ![id] = NoSession]
    /\ GoTo(r, "cancelDir") /\ SetOp(r, Cloned(id))
    /\ UNCHANGED <<files, dirs, sweep, crashes, spoilt>>

CancelDir(r) ==
    /\ At(r, "cancelDir")
    /\ RemoveDir(Dir(r))
    /\ GoTo(r, "cancelFile")
    /\ UNCHANGED <<sessions, files, op, sweep, crashes, spoilt>>

CancelFile(r) ==
    /\ At(r, "cancelFile")
    /\ RemoveFile(op[r].path)
    /\ Return(r)
    /\ UNCHANGED <<sessions, dirs, sweep, crashes, spoilt>>

----------------------------------------------------------------------------
(* cleanup_stale_upload_sessions *)

(* External: an hour passes in which last_active was not set: no init, and   *)
(* no chunk taken.  A chunk that is still coming in, a merge or a complete   *)
(* that takes long does not count as activity.                               *)
Age(id) ==
    /\ Active(id) /\ ~sessions[id].stale
    /\ sessions' = [sessions EXCEPT ![id].stale = TRUE]
    /\ UNCHANGED <<files, dirs, pc, op, sweep, crashes, spoilt>>

(* take_stale_upload_sessions: every stale session becomes a tombstone in    *)
(* one locked section.  The task sleeps until its last sweep is over.        *)
Stale == {id \in Ids : Active(id) /\ sessions[id].stale}

(* Mutant: the entries are removed without leaving a tombstone.              *)
SweepTakeNoTombstone ==
    /\ Stale # {}
    /\ \A id \in Ids : sweep[id].stage = "none"
    /\ sweep' = [id \in Ids |->
                    IF id \in Stale
                    THEN [stage |-> "queued", name |-> sessions[id].name,
                          path |-> sessions[id].path]
                    ELSE NotSwept]
    /\ sessions' = [id \in Ids |-> IF id \in Stale THEN NoSession ELSE sessions[id]]
    /\ UNCHANGED <<files, dirs, pc, op, crashes, spoilt>>

SweepTake ==
    /\ Stale # {}
    /\ \A id \in Ids : sweep[id].stage = "none"
    /\ sweep' = [id \in Ids |->
                    IF id \in Stale
                    THEN [stage |-> "queued", name |-> sessions[id].name,
                          path |-> sessions[id].path]
                    ELSE NotSwept]
    /\ sessions' = [id \in Ids |-> IF id \in Stale THEN Tombstone ELSE sessions[id]]
    /\ UNCHANGED <<files, dirs, pc, op, crashes, spoilt>>

(* The taken sessions are worked off one after the other.                    *)
OthersQueued(id) == \A x \in Ids \ {id} : sweep[x].stage \in {"none", "queued"}
Advance(id, stage) == sweep' = [sweep EXCEPT ![id].stage = stage]

SweepDir(id) ==
    /\ sweep[id].stage = "queued" /\ OthersQueued(id)
    /\ RemoveDir(<<sweep[id].name, id>>)
    /\ Advance(id, "dirGone")
    /\ UNCHANGED <<sessions, files, pc, op, crashes, spoilt>>

(* try_exists and metadata: only an empty placeholder is to be removed.      *)
SweepLook(id) ==
    /\ sweep[id].stage = "dirGone"
    /\ Advance(id, IF ZeroLength(files[sweep[id].path]) THEN "emptySeen" ELSE "filesGone")
    /\ UNCHANGED <<sessions, files, dirs, pc, op, crashes, spoilt>>

SweepFile(id) ==
    /\ sweep[id].stage = "emptySeen"
    /\ RemoveFile(sweep[id].path)
    /\ Advance(id, "filesGone")
    /\ UNCHANGED <<sessions, dirs, pc, op, crashes, spoilt>>

(* Mutants: notify_waiters is not called; the tombstone is left behind.      *)
SweepFinishSilent(id) ==
    /\ sweep[id].stage = "filesGone"
    /\ sessions' = [sessions EXCEPT ![id] = NoSession]
    /\ sweep' = [sweep EXCEPT ![id] = NotSwept]
    /\ UNCHANGED <<files, dirs, pc, op, crashes, spoilt>>

SweepFinishLeaving(id) ==
    /\ sweep[id].stage = "filesGone"
    /\ sweep' = [sweep EXCEPT ![id] = NotSwept]
    /\ UNCHANGED <<sessions, files, dirs, pc, op, crashes, spoilt>>

(* finish_stale_upload_cleanup: the tombstone goes and notify_waiters wakes  *)
(* the registered waiters of this Notify; a handler that holds it but is not *)
(* registered yet has missed it.                                             *)
SweepFinish(id) ==
    /\ sweep[id].stage = "filesGone"
    /\ sessions' = IF Removing(id)
                   THEN [sessions EXCEPT ![id] = NoSession] ELSE sessions
    /\ sweep' = [sweep EXCEPT ![id] = NotSwept]
    /\ LET Woken(r) == At(r, "waiting") /\ op[r].id = id /\ ~op[r].fired
           Missed(r) == pc[r] \in {"toWait", "undoWait"} /\ op[r].id = id
       IN  /\ pc' = [r \in Req |-> IF Woken(r) THEN "lookup" ELSE pc[r]]
           /\ op' = [r \in Req |-> IF Missed(r) THEN [op[r] EXCEPT !.fired = TRUE] ELSE op[r]]
    /\ UNCHANGED <<files, dirs, crashes, spoilt>>

----------------------------------------------------------------------------
(* The environment *)

(* The client goes away: its handler is dropped at the await it is at.       *)
Drop(r) ==
    /\ ~At(r, "idle")
    /\ Return(r)
    /\ UNCHANGED <<sessions, files, dirs, sweep, crashes, spoilt>>

(* The process restarts: memory is lost, the disk stays.                     *)
Crash ==
    /\ crashes < MaxCrashes
    /\ crashes' = crashes + 1
    /\ sessions' = [id \in Ids |-> NoSession]
    /\ sweep' = [id \in Ids |-> NotSwept]
    /\ pc' = [r \in Req |-> "idle"]
    /\ op' = [r \in Req |-> NoOp]
    /\ UNCHANGED <<files, dirs, spoilt>>

----------------------------------------------------------------------------

Requested(id, n, f) == [NoOp EXCEPT !.id = id, !.name = n, !.file = f]

MayInit(id) == FreshInit => \A r \in Req : ~Serves(r, id)

(* A request arrives.  Nothing orders the requests of a sender: chunks are   *)
(* sent in parallel, and its cancel guard sends a cancel when the upload is  *)
(* dropped, whatever is still on its way.                                    *)
Arrive(r) ==
    \/ \E id \in Ids, n \in Names, f \in Files :
          MayInit(id) /\ At(r, "idle") /\ InitLookup(r, Requested(id, n, f))
    \/ \E id \in Ids : \/ \E i \in Idx, f \in Files : ChunkStart(r, id, i, f)
                      \/ CompleteStart(r, id)
                      \/ CancelStart(r, id)

(* What a handler does without its client; only saving a chunk waits for it, *)
(* for the rest of the body, and that without a timeout.                     *)
Work(r) ==
    \/ At(r, "lookup") /\ InitLookup(r, op[r])
    \/ InitWait(r) \/ InitReserve(r) \/ InitMkdir(r) \/ InitScan(r)
    \/ InitInstall(r) \/ InitUndo(r)
    \/ ChunkExists(r) \/ ChunkRecord(r)
    \/ CompleteMerge(r) \/ CompleteRename(r) \/ CompleteUnlist(r) \/ CompleteClear(r)
    \/ CancelDir(r) \/ CancelFile(r)

Sweep(id) == SweepDir(id) \/ SweepLook(id) \/ SweepFile(id) \/ SweepFinish(id)

Init ==
    /\ sessions = [id \in Ids |-> NoSession]
    /\ files = [p \in Paths |-> Absent]
    /\ dirs = [d \in Dirs |-> NoDir]
    /\ pc = [r \in Req |-> "idle"]
    /\ op = [r \in Req |-> NoOp]
    /\ sweep = [id \in Ids |-> NotSwept]
    /\ crashes = 0
    /\ spoilt = {}

Next ==
    \/ \E r \in Req : Arrive(r) \/ Work(r) \/ ChunkSave(r) \/ Drop(r)
    \/ \E d \in Dirs, i \in Idx : Settle(d, i)
    \/ \E id \in Ids : Age(id) \/ Sweep(id)
    \/ SweepTake
    \/ Crash

Spec == Init /\ [][Next]_vars

(* The runtime polls every ready handler and the cleanup task; nothing makes *)
(* a client send, go on with its body, leave or stay silent.                 *)
FairSpec ==
    /\ Spec
    /\ \A r \in Req : WF_vars(Work(r))
    /\ WF_vars(SweepTake)
    /\ \A id \in Ids : WF_vars(Sweep(id))

----------------------------------------------------------------------------
(* Properties *)

(* The session map, the disk and the handlers' locals have their types.      *)
TypeOK ==
    /\ sessions \in [Ids -> {NoSession, Tombstone} \cup ActiveSession]
    /\ files \in [Paths -> {Absent, Empty, Mixed} \cup Files]
    /\ dirs \in [Dirs -> {NoDir} \cup [Idx -> Stored \cup {Hole}]]
    /\ pc \in [Req -> {"idle"} \cup InitPCs \cup ChunkPCs \cup CompletePCs \cup CancelPCs]
    /\ op \in [Req -> Locals]
    /\ \A r \in Req : pc[r] \in {"exists", "save", "record"} => op[r].idx \in Idx
    /\ sweep \in [Ids -> {NotSwept} \cup SweepWork]
    /\ crashes \in 0 .. MaxCrashes
    /\ spoilt \subseteq Paths

(* An id is tombstoned exactly as long as the cleanup works on it: no        *)
(* handler lifts or replaces a tombstone, whatever it saw before.            *)
TombstoneHeld ==
    \A id \in Ids : Removing(id) <=> sweep[id].stage # "none"

(* Who answers for a reserved path: the init that created the placeholder,   *)
(* then the session, then the cancel or the cleanup that removes it.         *)
Reserving == {"mkdir", "scan", "install", "undo", "undoWait"}
SlotHolds(r, p) == pc[r] \in Reserving \cup CancelPCs /\ op[r].path = p
SessionHolds(id, p) == Active(id) /\ sessions[id].path = p
SweepHolds(id, p) == sweep[id].stage \in {"queued", "dirGone", "emptySeen"}
                     /\ sweep[id].path = p

(* A path has at most one owner at a time, and what is owned exists: two     *)
(* uploads of the same name never share a target, and a cancel or a cleanup  *)
(* never deletes the file of another upload that is under way.               *)
ReservationExclusive ==
    \A p \in Paths :
        /\ \A r \in Req : SlotHolds(r, p) => files[p] # Absent
        /\ \A id \in Ids : SessionHolds(id, p) \/ SweepHolds(id, p) => files[p] # Absent
        /\ \A r, q \in Req : SlotHolds(r, p) /\ SlotHolds(q, p) => r = q
        /\ \A r \in Req, id \in Ids :
                ~(SlotHolds(r, p) /\ (SessionHolds(id, p) \/ SweepHolds(id, p)))
        /\ \A x, y \in Ids : SessionHolds(x, p) /\ SessionHolds(y, p) => x = y
        /\ \A x, y \in Ids : SweepHolds(x, p) /\ SweepHolds(y, p) => x = y
        /\ \A x, y \in Ids : ~(SessionHolds(x, p) /\ SweepHolds(y, p))

(* No file in the download directory has bytes that are not those of one     *)
(* upload: chunks that several sessions under one id left are never merged.  *)
OnlyVerifiedContent == \A p \in Paths : files[p] # Mixed

(* A chunk the receiver told the sender to skip, or took from it, is one of  *)
(* the file's and is on disk: otherwise the upload can neither be resumed    *)
(* nor completed.                                                            *)
ReceivedThere ==
    \A id \in Ids : Active(id) =>
        \A i \in sessions[id].got :
            /\ i \in Chunks(sessions[id].file)
            /\ HasChunk(<<sessions[id].name, id>>, i)

(* The cleanup never touches what a live session needs: while it works, the  *)
(* chunk directory and the target of every active session stay as they are.  *)
CleanupSparesLive ==
    [][sweep' # sweep =>
        \A id \in Ids : Active(id) /\ Active(id)' =>
            LET d == <<sessions[id].name, id>>
                p == sessions[id].path
            IN  dirs'[d] = dirs[d] /\ files'[p] = files[p]]_vars

Owned(p) == \/ \E r \in Req : SlotHolds(r, p)
            \/ \E id \in Ids : SessionHolds(id, p) \/ SweepHolds(id, p)

(* The directory keeps the promise of DownloadDirectory, a received file     *)
(* nobody owns any more is final, at every path but those a complete reaches *)
(* after its session was canceled, swept or completed: that rename is the    *)
(* only step of the handlers and of the cleanup which breaks the promise.    *)
Directory == INSTANCE DownloadDirectory
           WITH Contents <- Files,
                files <- [p \in Paths |-> IF p \in spoilt THEN Absent ELSE files[p]],
                owned <- {p \in Paths \ spoilt : Owned(p)}
DirectoryKept == /\ Directory!DDInit
                 /\ [][spoilt' = spoilt => Directory!DDNext]_(Directory!ddvars)

(* What was received is never replaced by another upload.                    *)
NeverOverwritten ==
    [][\A p \in Paths : files[p] \in Files /\ files'[p] \in Files => files'[p] = files[p]]_vars

(* A session nobody touches any more is given up by the cleanup, although it *)
(* works off its sessions one after the other, and its tombstone is lifted.  *)
StaleReclaimed == \A id \in Ids : id \in Stale ~> Free(id) \/ (Active(id) /\ id \notin Stale)

(* A handler comes to an end, waits for a tombstone or for the body of its   *)
(* chunk, however the others and the cleanup interfere with it; a registered *)
(* waiter is woken.                                                          *)
RequestServed ==
    \A r \in Req :
        /\ ~At(r, "idle") ~> pc[r] \in {"idle", "waiting", "save"}
        /\ At(r, "waiting") /\ ~op[r].fired ~> ~At(r, "waiting")

(* An init that found a tombstone goes on once the cleanup is done.          *)
InitResumes ==
    \A r \in Req : pc[r] \in {"toWait", "waiting"} ~> pc[r] \notin {"toWait", "waiting"}
=============================================================================
