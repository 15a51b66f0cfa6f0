---------------------------- MODULE ChunkedSender ----------------------------
(* The sender of a chunked upload (src/src/client.rs, send_file_chunked): the *)
(* window of chunk requests, their retries, the cancel guard and the progress *)
(* display, over connections that break, against the receiver as one sender   *)
(* sees it: one session, the chunks it has recorded, the chunks on its disk.  *)
(* UploadSessions models that receiver with all its interleavings; here its   *)
(* handlers are cut where a cancel, the cleanup or a restart may come between.*)
EXTENDS Naturals, Sequences, FiniteSets, Functions

CONSTANTS
    ChunkLen,  \* chunk index -> its length, in units of progress
    Window,    \* chunk_concurrency
    Retries,   \* retry_attempts
    Runs,      \* bound: how often the user sends the file under this upload id
    Expires,   \* whether the session may be cleaned up as stale
    NoSession  \* no entry under the upload id

Idx == DOMAIN ChunkLen

ASSUME SenderAssumption ==
    /\ ChunkLen \in Seq(Nat \ {0})
    /\ Window \in Nat \ {0}
    /\ {Retries, Runs} \subseteq Nat
    /\ Expires \in BOOLEAN
    /\ \A S \in SUBSET Idx : S # NoSession

VARIABLES
    phase,     \* idle, init, chunks, complete, done, failed
    run,       \* which sending of the file this is
    pending,   \* chunks not handed to the window yet (pending_chunks)
    active,    \* chunks in the window (uploads)
    sleeping,  \* those of them that wait for their next attempt
    tries,     \* failed attempts of each chunk (attempt)
    initial,   \* received_bytes of the init answer (initial_bytes)
    shown,     \* bytes read of each chunk, in its last attempt (chunk_progress)
    net,       \* requests sent, being handled or answered
    recorded,  \* the session's received_chunks, or NoSession
    removing,  \* whether the cleanup's tombstone is under the id
    dir,       \* whether the chunk directory is there
    disk,      \* the chunks in it
    short,     \* those of them whose last write has not reached the file
    stored     \* the runs whose file was renamed to its final path

sender == <<phase, run, pending, active, sleeping, tries, initial, shown>>
directory == <<dir, disk, short>>
receiver == <<recorded, removing, directory, stored>>
vars == <<sender, net, receiver>>

----------------------------------------------------------------------------
(* Requests.  at: sent, open (its handler has looked up the session, or a    *)
(* cancel has removed it), saved (the chunk, or the merged file, is written), *)
(* ok or error (answered).                                                   *)
(* sent: units of the body read so far; got: received_chunks of the answer.  *)

Request(kind, r, i, t) == [kind |-> kind, run |-> r, idx |-> i, try |-> t,
                           sent |-> 0, got |-> {}, at |-> "sent"]
Requests == [kind : {"init", "chunk", "complete", "cancel"}, run : Nat,
             idx : Nat, try : Nat, sent : Nat, got : SUBSET Idx,
             at : {"sent", "open", "saved", "ok", "error"}]

ChunkRequest(i, t) == Request("chunk", run, i, t)
Cancel == Request("cancel", run, 0, 0)

(* Whether the sender still waits for the answer to q.                       *)
Awaited(q) ==
    /\ q.run = run
    /\ \/ q.kind = "init" /\ phase = "init"
       \/ q.kind = "complete" /\ phase = "complete"
       \/ /\ q.kind = "chunk" /\ phase = "chunks"
          /\ q.idx \in active \ sleeping /\ q.try = tries[q.idx]

Replace(q, p) == net' = (net \ {q}) \cup {p}
Progress(q, label) ==
    IF label \in {"ok", "error"} /\ ~Awaited(q)
    THEN net' = net \ {q}  \* an answer without a reader
    ELSE Replace(q, [q EXCEPT !.at = label])
Unanswered(S) == {q \in S : q.at \notin {"ok", "error"}}

(* The window is filled in the order of the indices.                         *)
FirstOf(S, k) == {i \in S : Cardinality({j \in S : j < i}) < k}

NoUnits == [i \in Idx |-> 0]
Units(S) == SumFunctionOnSet(ChunkLen, S)
Total == Units(Idx)

(* What report_chunk sums up, before it caps it with the length of the file. *)
TotalSent == initial + SumFunction(shown)

----------------------------------------------------------------------------
(* The sender *)

(* An earlier sending under this upload id, whose process died, may have     *)
(* left chunks, with their session or (after a restart) without it.          *)
Init ==
    /\ phase = "idle" /\ run = 0
    /\ pending = {} /\ active = {} /\ sleeping = {}
    /\ tries = NoUnits /\ initial = 0 /\ shown = NoUnits
    /\ net = {}
    /\ dir \in BOOLEAN
    /\ disk \in IF dir THEN SUBSET Idx ELSE {{}}
    /\ short \in SUBSET disk
    /\ recorded \in IF dir THEN {NoSession, disk} ELSE {NoSession}
    /\ removing = FALSE
    /\ stored = {}

(* A first sending, or another one with --resume-upload-id, which the user    *)
(* starts when no earlier init is on its way any more.                       *)
Start ==
    /\ phase \in {"idle", "failed"} /\ run < Runs
    /\ ~\E q \in net : q.kind = "init"
    /\ phase' = "init" /\ run' = run + 1
    /\ net' = net \cup {Request("init", run + 1, 0, 0)}
    /\ UNCHANGED <<pending, active, sleeping, tries, initial, shown, receiver>>

(* The future ends without success: the requests in flight are dropped, and  *)
(* once the init answer has come, the guard spawns the cancel request.       *)
Fail(left) ==
    /\ phase' = "failed"
    /\ active' = {} /\ sleeping' = {} /\ pending' = {}
    /\ tries' = NoUnits /\ initial' = 0 /\ shown' = NoUnits
    /\ net' = Unanswered(left) \cup (IF phase = "init" THEN {} ELSE {Cancel})
    /\ UNCHANGED <<run, receiver>>

(* Mutant: the chunks the receiver has are sent again.                       *)
InitAnsweredAll(q) ==
    /\ Awaited(q) /\ q.kind = "init" /\ q.at = "ok"
    /\ phase' = "chunks"
    /\ active' = FirstOf(Idx, Window) /\ pending' = Idx \ active' /\ sleeping' = {}
    /\ tries' = NoUnits
    /\ initial' = Units(q.got) /\ shown' = NoUnits
    /\ net' = (net \ {q}) \cup {ChunkRequest(i, 0) : i \in active'}
    /\ UNCHANGED <<run, receiver>>

(* The chunks the receiver has not are put in line, the first ones are sent; *)
(* with nothing to send, complete follows at once.                           *)
InitAnswered(q) ==
    /\ Awaited(q) /\ q.kind = "init" /\ q.at = "ok"
    /\ LET todo == Idx \ q.got
           first == FirstOf(todo, Window)
       IN  /\ active' = first /\ pending' = todo \ first /\ sleeping' = {}
           /\ IF first = {}
              THEN phase' = "complete" /\ Replace(q, Request("complete", run, 0, 0))
              ELSE /\ phase' = "chunks"
                   /\ net' = (net \ {q}) \cup {ChunkRequest(i, 0) : i \in first}
    /\ tries' = NoUnits
    /\ initial' = Units(q.got) /\ shown' = NoUnits
    /\ UNCHANGED <<run, receiver>>

(* ProgressReader::poll_read: the next unit of the body is read and reported *)
(* under the chunk's index.                                                  *)
ReadBody(q) ==
    /\ Awaited(q) /\ q.kind = "chunk" /\ q.at \in {"sent", "open"}
    /\ q.sent < ChunkLen[q.idx]
    /\ Replace(q, [q EXCEPT !.sent = @ + 1])
    /\ shown' = [shown EXCEPT ![q.idx] = q.sent + 1]
    /\ UNCHANGED <<phase, run, pending, active, sleeping, tries, initial, receiver>>

(* uploads.next() returned a success: the next pending chunk takes the place *)
(* in the window; when the window is empty, complete is sent.                *)
ChunkAnswered(q) ==
    /\ Awaited(q) /\ q.kind = "chunk" /\ q.at = "ok"
    /\ LET next == FirstOf(pending, 1)
           left == (active \ {q.idx}) \cup next
       IN  /\ active' = left /\ pending' = pending \ next
           /\ IF left = {}
              THEN phase' = "complete" /\ Replace(q, Request("complete", run, 0, 0))
              ELSE /\ phase' = phase
                   /\ net' = (net \ {q}) \cup {ChunkRequest(i, 0) : i \in next}
    /\ UNCHANGED <<run, sleeping, tries, initial, shown, receiver>>

(* Mutant: the status of the answer is not looked at.                        *)
CompleteAnsweredAnyhow(q) ==
    /\ Awaited(q) /\ q.kind = "complete" /\ q.at \in {"ok", "error"}
    /\ phase' = "done" /\ net' = net \ {q}
    /\ UNCHANGED <<run, pending, active, sleeping, tries, initial, shown, receiver>>

(* The guard is told (complete()), so that its drop sends no cancel.         *)
CompleteAnswered(q) ==
    /\ Awaited(q) /\ q.kind = "complete" /\ q.at = "ok"
    /\ phase' = "done" /\ net' = net \ {q}
    /\ UNCHANGED <<run, pending, active, sleeping, tries, initial, shown, receiver>>

(* Mutants: the failed attempts of a chunk are not counted; one too many.    *)
RequestFailedUncounted(q, left) ==
    /\ Awaited(q)
    /\ IF q.kind = "chunk"
       THEN /\ sleeping' = sleeping \cup {q.idx}
            /\ net' = left
            /\ UNCHANGED <<phase, run, pending, active, tries, initial, shown, receiver>>
       ELSE Fail(left)

RequestFailedOnceMore(q, left) ==
    /\ Awaited(q)
    /\ IF q.kind = "chunk" /\ tries[q.idx] <= Retries
       THEN /\ sleeping' = sleeping \cup {q.idx}
            /\ tries' = [tries EXCEPT ![q.idx] = @ + 1]
            /\ net' = left
            /\ UNCHANGED <<phase, run, pending, active, initial, shown, receiver>>
       ELSE Fail(left)

(* A chunk has further attempts; the failure of anything else, and of the    *)
(* last attempt, ends the upload.  (The attempt is counted here, before the  *)
(* back-off.)                                                                *)
RequestFailed(q, left) ==
    /\ Awaited(q)
    /\ IF q.kind = "chunk" /\ tries[q.idx] < Retries
       THEN /\ sleeping' = sleeping \cup {q.idx}
            /\ tries' = [tries EXCEPT ![q.idx] = @ + 1]
            /\ net' = left
            /\ UNCHANGED <<phase, run, pending, active, initial, shown, receiver>>
       ELSE Fail(left)

ErrorAnswered(q) == q.at = "error" /\ RequestFailed(q, net \ {q})

(* The connection breaks: the receiver may go on with the request or not.    *)
Break(q) ==
    \E rest \in {{}, Unanswered({q})} : RequestFailed(q, (net \ {q}) \cup rest)

(* The back-off of a chunk is over.                                          *)
Wake(i) ==
    /\ i \in sleeping
    /\ sleeping' = sleeping \ {i}
    /\ net' = net \cup {ChunkRequest(i, tries[i])}
    /\ UNCHANGED <<phase, run, pending, active, tries, initial, shown, receiver>>

(* The future is dropped: Ctrl-C, or abort_all of send_files.                *)
Abort == phase \in {"init", "chunks", "complete"} /\ Fail(net)

(* A request nobody waits for goes away: its handler is dropped, it is never *)
(* delivered, or its answer finds no reader.  A cancel is lost when the      *)
(* process exits before it is sent (std::process::exit in main).             *)
Vanish(q) ==
    /\ q \in net /\ ~Awaited(q)
    /\ net' = net \ {q}
    /\ UNCHANGED <<sender, receiver>>

----------------------------------------------------------------------------
(* The receiver *)

(* Any handler may answer with an error before it has had an effect.         *)
Refuse(q) ==
    /\ q.at \in {"sent", "open"}
    /\ Progress(q, "error")
    /\ UNCHANGED <<sender, receiver>>

(* The session under the id, or a new one over the chunks found on disk with *)
(* their full length.  A tombstone makes the init wait, for ever if it       *)
(* misses the notification that it is gone (run wakeup).                     *)
ReceiveInit(q) ==
    /\ q.kind = "init" /\ q.at = "sent" /\ ~removing
    /\ recorded' = IF recorded = NoSession THEN disk \ short ELSE recorded
    /\ dir' = TRUE
    /\ IF Awaited(q) THEN Replace(q, [q EXCEPT !.at = "ok", !.got = recorded'])
       ELSE net' = net \ {q}
    /\ UNCHANGED <<sender, removing, disk, short, stored>>

(* A chunk that is on disk is answered without reading the body, nor what is *)
(* there.                                                                    *)
OpenChunk(q) ==
    /\ q.kind = "chunk" /\ q.at = "sent" /\ recorded # NoSession
    /\ IF q.idx \in disk
       THEN Progress(q, "ok") /\ recorded' = recorded \cup {q.idx}
       ELSE Progress(q, "open") /\ UNCHANGED recorded
    /\ UNCHANGED <<sender, removing, directory, stored>>

(* The whole body has arrived and the directory is there, whatever became of *)
(* the session.  The chunk's file is dropped without a flush and renamed.    *)
SaveChunk(q) ==
    /\ q.kind = "chunk" /\ q.at = "open"
    /\ q.sent = ChunkLen[q.idx] /\ dir
    /\ disk' = disk \cup {q.idx} /\ short' = short \cup {q.idx}
    /\ Progress(q, "saved")
    /\ UNCHANGED <<sender, recorded, removing, dir, stored>>

(* External: the last write of a chunk reaches its file.                     *)
Settle(i) ==
    /\ i \in short
    /\ short' = short \ {i}
    /\ UNCHANGED <<sender, net, recorded, removing, dir, disk, stored>>

(* Mutants: the saved chunk is not recorded; it creates the session anew.    *)
RecordChunkNot(q) ==
    /\ q.kind = "chunk" /\ q.at = "saved"
    /\ Progress(q, "ok")
    /\ UNCHANGED <<sender, receiver>>

RecordChunkReviving(q) ==
    /\ q.kind = "chunk" /\ q.at = "saved"
    /\ recorded' = (IF recorded = NoSession THEN {} ELSE recorded) \cup {q.idx}
    /\ Progress(q, "ok")
    /\ UNCHANGED <<sender, removing, directory, stored>>

(* The chunk is recorded if a session is there; success is answered anyhow.  *)
RecordChunk(q) ==
    /\ q.kind = "chunk" /\ q.at = "saved"
    /\ recorded' = IF recorded = NoSession THEN NoSession ELSE recorded \cup {q.idx}
    /\ Progress(q, "ok")
    /\ UNCHANGED <<sender, removing, directory, stored>>

OpenComplete(q) ==
    /\ q.kind = "complete" /\ q.at = "sent"
    /\ Progress(q, IF recorded = Idx THEN "open" ELSE "error")
    /\ UNCHANGED <<sender, receiver>>

(* A chunk that is missing, or short, fails the merge or the digest.         *)
MergeChunks(q) ==
    /\ q.kind = "complete" /\ q.at = "open"
    /\ Progress(q, IF disk = Idx /\ short = {} THEN "saved" ELSE "error")
    /\ UNCHANGED <<sender, receiver>>

NoDirectory == dir' = FALSE /\ disk' = {} /\ short' = {}

(* The merged file is renamed; the session, if still there, and its          *)
(* directory go.                                                             *)
StoreFile(q) ==
    /\ q.kind = "complete" /\ q.at = "saved"
    /\ stored' = stored \cup {q.run}
    /\ recorded' = NoSession /\ NoDirectory
    /\ Progress(q, "ok")
    /\ UNCHANGED <<sender, removing>>

(* The session is removed at once, and its directory after that.             *)
ReceiveCancel(q) ==
    /\ q.kind = "cancel" /\ q.at = "sent" /\ recorded # NoSession
    /\ recorded' = NoSession
    /\ Replace(q, [q EXCEPT !.at = "open"])
    /\ UNCHANGED <<sender, removing, directory, stored>>

ClearCanceled(q) ==
    /\ q.kind = "cancel" /\ q.at = "open"
    /\ NoDirectory
    /\ net' = net \ {q}
    /\ UNCHANGED <<sender, recorded, removing, stored>>

(* The cleanup of stale sessions: the tombstone, then the directory.         *)
Expire ==
    /\ Expires /\ recorded # NoSession
    /\ recorded' = NoSession /\ removing' = TRUE
    /\ UNCHANGED <<sender, net, directory, stored>>

ExpireEnd ==
    /\ removing
    /\ removing' = FALSE /\ NoDirectory
    /\ UNCHANGED <<sender, net, recorded, stored>>

(* The process is restarted: the session is forgotten, the chunks stay.      *)
RestartReceiver ==
    /\ recorded' = NoSession /\ removing' = FALSE
    /\ net' = {[q EXCEPT !.at = IF @ \in {"open", "saved"} THEN "error" ELSE @] :
                   q \in {p \in net : Awaited(p) \/ p.at = "sent"}}
    /\ UNCHANGED <<sender, directory, stored>>

----------------------------------------------------------------------------

Answered(q) == \/ InitAnswered(q) \/ ChunkAnswered(q) \/ CompleteAnswered(q)
               \/ ErrorAnswered(q)
Handle(q) == \/ ReceiveInit(q) \/ OpenChunk(q) \/ SaveChunk(q) \/ RecordChunk(q)
             \/ OpenComplete(q) \/ MergeChunks(q) \/ StoreFile(q) \/ ReceiveCancel(q)
             \/ ClearCanceled(q) \/ Refuse(q)

Next ==
    \/ Start \/ Abort \/ Expire \/ ExpireEnd \/ RestartReceiver
    \/ \E i \in Idx : Wake(i) \/ Settle(i)
    \/ \E q \in net : Answered(q) \/ ReadBody(q) \/ Handle(q) \/ Break(q) \/ Vanish(q)

Spec == Init /\ [][Next]_vars

(* tokio polls the sender's future: a back-off ends and an answer is read.   *)
(* Nothing obliges the user, the network, the receiver or its cleanup to do  *)
(* anything: the client of uploads has no request timeout, so that a request *)
(* may stay unanswered on a connection that does not break.                  *)
Fairness ==
    /\ WF_vars(\E i \in Idx : Wake(i))
    /\ WF_vars(\E q \in net : Answered(q))

FairSpec == Spec /\ Fairness

----------------------------------------------------------------------------
(* Properties *)

TypeOK ==
    /\ phase \in {"idle", "init", "chunks", "complete", "done", "failed"}
    /\ run \in 0..Runs
    /\ pending \subseteq Idx /\ active \subseteq Idx /\ sleeping \subseteq active
    /\ tries \in [Idx -> 0..Retries]
    /\ initial \in Nat /\ shown \in [Idx -> Nat]
    /\ net \subseteq Requests
    /\ recorded \in (SUBSET Idx) \cup {NoSession} /\ removing \in BOOLEAN
    /\ dir \in BOOLEAN /\ disk \subseteq Idx /\ short \subseteq disk
    /\ stored \subseteq 1..Runs

(* As long as its session exists, every chunk the sender no longer cares for *)
(* is recorded there: when complete arrives at a live session, nothing is    *)
(* missing.                                                                  *)
AnsweredIsRecorded ==
    phase \in {"chunks", "complete"} /\ recorded # NoSession =>
        Idx \ (pending \cup active) \subseteq recorded

(* A reported success means that this very run stored the file, and no       *)
(* cancel of it is on its way (the guard was told).                          *)
DoneIsStored ==
    phase = "done" =>
        /\ run \in stored
        /\ \A q \in net : q.kind = "cancel" => q.run # run

(* The chunks counted by the receiver and those sent never overlap, and a    *)
(* retried chunk replaces its earlier attempt: the sum that is reported is   *)
(* never cut to the length of the file, though report_chunk would do so.     *)
NeverPastTotal == TotalSent <= Total

(* Once a canceled upload has left no session, no late request brings one    *)
(* back - except an init whose answer the sender did not wait for.           *)
NotRevived ==
    [][/\ phase = "failed" /\ recorded = NoSession
       /\ ~\E q \in net : q.kind = "init"
       => recorded' = NoSession]_vars

(* An upload ends, whatever breaks and however often chunks are retried, or  *)
(* it waits for ever for the answer to one of its requests, a chunk or (0)   *)
(* the init or the complete.                                                 *)
WaitsFor(i) == \E q \in Unanswered(net) : Awaited(q) /\ q.idx = i
SenderEnds == \/ []<>(phase \in {"idle", "done", "failed"})
              \/ \E i \in Idx \cup {0} : <>[]WaitsFor(i)

(* README: after an interrupted transfer the upload id can be used to resume *)
(* it, so what the receiver has of it stays.                                 *)
InterruptedKeepsChunks ==
    [][phase = "failed" /\ stored' = stored => disk \subseteq disk']_vars
=============================================================================
