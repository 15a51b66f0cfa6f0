------------------------------ MODULE SendFiles ------------------------------
(* The sender of several files (src/src/client.rs, send_files) and of one     *)
(* file in one request (send_file_with_options), against the handlers of      *)
(* HandleFile.  The n-th attempt for file i is the request <<i, n>>.          *)
EXTENDS HandleFile

CONSTANTS
    Tasks,        \* the files to send are 1..Tasks, in this order
    Concurrency,  \* files sent at a time
    Retries,      \* retry_attempts
    Lossy         \* whether connections break

File == 1..Tasks

ASSUME SendFilesAssumption ==
    /\ Tasks \in Nat /\ Concurrency \in Nat \ {0} /\ Retries \in Nat
    /\ Lossy \in BOOLEAN
    /\ Uploads = File \X (0..Retries)

VARIABLES
    task,     \* pending, sending, sleeping, sent, joined, failed or aborted
    attempt,  \* the attempt each file is at
    result    \* running, aborting (abort_remaining_uploads), ok, failed or interrupted

sfvars == <<task, attempt, result>>
vars == <<sfvars, hfvars>>

----------------------------------------------------------------------------

Current(i) == <<i, attempt[i]>>
Running(i) == task[i] \in {"sending", "sleeping"}
SetTask(i, from, label) == task[i] = from /\ task' = [task EXCEPT ![i] = label]

Init ==
    /\ HFInit
    /\ task = [i \in File |-> IF i <= Concurrency THEN "sending" ELSE "pending"]
    /\ attempt = [i \in File |-> 0]
    /\ result = "running"

(* send_file_once: the request reaches the receiver.                         *)
SendOnce(i) ==
    /\ task[i] = "sending"
    /\ Arrive(Current(i))
    /\ UNCHANGED sfvars

(* Mutant: any answer counts as success.                                     *)
AnsweredAnyhow(i) ==
    /\ pc[Current(i)] = "ok" \/ Refused(Current(i))
    /\ SetTask(i, "sending", "sent")
    /\ UNCHANGED <<attempt, result, hfvars>>

Answered(i) ==
    /\ pc[Current(i)] = "ok"
    /\ SetTask(i, "sending", "sent")
    /\ UNCHANGED <<attempt, result, hfvars>>

(* Mutant: one attempt too many.                                             *)
AttemptFailedOnceMore(i) ==
    /\ \/ Refused(Current(i))
       \/ Lossy
    /\ SetTask(i, "sending", IF attempt[i] <= Retries THEN "sleeping" ELSE "failed")
    /\ UNCHANGED <<attempt, result, hfvars>>

(* An error answer, or a broken connection - before the request arrived, in  *)
(* the middle of it, or after it was handled: the sender cannot tell.        *)
AttemptFailed(i) ==
    /\ \/ Refused(Current(i))
       \/ Lossy
    /\ SetTask(i, "sending", IF attempt[i] < Retries THEN "sleeping" ELSE "failed")
    /\ UNCHANGED <<attempt, result, hfvars>>

(* The metadata or the digest of the file cannot be read before its first    *)
(* request: it fails at once, without a retry.                               *)
Unreadable(i) ==
    /\ attempt[i] = 0 /\ pc[Current(i)] = "idle"
    /\ SetTask(i, "sending", "failed")
    /\ UNCHANGED <<attempt, result, hfvars>>

(* Mutant: the attempts are not counted.                                     *)
RetryUncounted(i) ==
    /\ SetTask(i, "sleeping", "sending")
    /\ UNCHANGED <<attempt, result, hfvars>>

(* The back-off is over.                                                     *)
Retry(i) ==
    /\ SetTask(i, "sleeping", "sending")
    /\ attempt' = [attempt EXCEPT ![i] = @ + 1]
    /\ UNCHANGED <<result, hfvars>>

(* join_next returned a success: the next file takes its place; after the    *)
(* last one send_files returns.                                              *)
JoinSent(i) ==
    /\ result = "running" /\ task[i] = "sent"
    /\ LET next == {j \in File : task[j] = "pending" /\ \A k \in 1..(j-1) : task[k] # "pending"}
       IN  task' = [j \in File |-> IF j = i THEN "joined"
                                   ELSE IF j \in next THEN "sending" ELSE task[j]]
    /\ result' = IF \A j \in File : task'[j] = "joined" THEN "ok" ELSE result
    /\ UNCHANGED <<attempt, hfvars>>

(* join_next returned an error: all other files are aborted.                 *)
JoinFailed(i) ==
    /\ result = "running" /\ task[i] = "failed"
    /\ result' = "aborting"
    /\ UNCHANGED <<task, attempt, hfvars>>

(* Ctrl-C: select! drops the future of send_files, and with it the JoinSet,  *)
(* which aborts the tasks; nobody joins them.                                *)
Interrupt ==
    /\ result \in {"running", "aborting"}
    /\ result' = "interrupted"
    /\ UNCHANGED <<task, attempt, hfvars>>

(* An aborted task is dropped at an await, if it does not end before.        *)
AbortTask(i) ==
    /\ result \in {"aborting", "interrupted"} /\ Running(i)
    /\ task' = [task EXCEPT ![i] = "aborted"]
    /\ UNCHANGED <<attempt, result, hfvars>>

Aborted ==
    /\ result = "aborting" /\ \A i \in File : ~Running(i)
    /\ result' = "failed"
    /\ UNCHANGED <<task, attempt, hfvars>>

(* A handler drops only when its sender is gone or the connection broke.     *)
Receive(u) ==
    /\ \/ Handle(u)
       \/ Drop(u) /\ ~(task[u[1]] = "sending" /\ u = Current(u[1]))
    /\ UNCHANGED sfvars

Send(i) == SendOnce(i) \/ Answered(i) \/ AttemptFailed(i) \/ Unreadable(i) \/ Retry(i)
Join == (\E i \in File : JoinSent(i) \/ JoinFailed(i) \/ AbortTask(i)) \/ Aborted

Next ==
    \/ Interrupt \/ Join
    \/ \E i \in File : Send(i)
    \/ \E u \in Uploads : Receive(u)

Spec == Init /\ [][Next]_vars

(* tokio polls the loop of joins and wakes a sleeping task.  Nothing is      *)
(* assumed of the receiver, of the network or of the end of a request, which *)
(* has a timeout for the connection only.                                    *)
FairSpec ==
    /\ Spec
    /\ WF_vars(Join)
    /\ \A i \in File : WF_vars(Retry(i))

----------------------------------------------------------------------------
(* Properties *)

TypeOK ==
    /\ HFTypeOK
    /\ task \in [File -> {"pending", "sending", "sleeping", "sent", "joined", "failed", "aborted"}]
    /\ attempt \in [File -> 0..Retries]
    /\ result \in {"running", "aborting", "ok", "failed", "interrupted"}

(* When send_files succeeds, every file lies in the download directory, each *)
(* under a path of its own, files of one name included.                      *)
AllSentAllStored ==
    result = "ok" =>
        \A i \in File :
            /\ files[path[Current(i)]] = Content[Current(i)]
            /\ \A j \in File \ {i} : path[Current(j)] # path[Current(i)]

(* send_files returns, whatever fails, or one and the same request of it     *)
(* waits for its answer for ever: a lost answer or a failed file never       *)
(* leaves the loop of joins waiting, nor the retries going round.            *)
SendEnds ==
    \/ <>(result \in {"ok", "failed", "interrupted"})
    \/ \E i \in File : <>[](result = "running" /\ task[i] = "sending")
=============================================================================
