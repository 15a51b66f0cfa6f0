--------------------------- MODULE SendFilesProofs ---------------------------
(* Theorems about SendFiles for any number of files, any concurrency, any     *)
(* number of retries, and whatever fails.  A step of SendFiles is a step of   *)
(* HandleFile or leaves its variables alone, so the theorems of               *)
(* HandleFileProofs carry over; SFInv adds what the sender knows.             *)
EXTENDS SendFiles, HandleFileProofs

(* Two files never have the same path.                                       *)
StoredApart ==
    \A u \in Uploads : \A v \in Uploads \ {u} :
        Stored(u) /\ Stored(v) => path[u] # path[v]

TaskType ==
    /\ task \in [File -> {"pending", "sending", "sleeping", "sent", "joined", "failed", "aborted"}]
    /\ attempt \in [File -> 0..Retries]
    /\ result \in {"running", "aborting", "ok", "failed", "interrupted"}
    /\ \A i \in File : task[i] = "sleeping" => attempt[i] < Retries

(* A file counts as sent when the answer to its current attempt was a        *)
(* success; the whole as sent when every file was joined.                    *)
SentIsAnswered ==
    /\ \A i \in File : task[i] \in {"sent", "joined"} => pc[Current(i)] = "ok"
    /\ result = "ok" => \A i \in File : task[i] = "joined"

SFInv == HFInv /\ StoredApart /\ TaskType /\ SentIsAnswered

(* Every step is a step of the receiver or invisible to it.                  *)
LEMMA StepMaps == ASSUME TaskType, [Next]_vars PROVE [HFNext]_hfvars
<1> USE SendFilesAssumption
<1>1. CASE Interrupt
  BY <1>1 DEF Interrupt
<1>2. CASE Join
  BY <1>2 DEF Join, JoinSent, JoinFailed, AbortTask, Aborted
<1>3. ASSUME NEW i \in File, Send(i) PROVE [HFNext]_hfvars
  <2>1. CASE SendOnce(i)
    <3>1. Current(i) \in Uploads
      BY DEF TaskType, Current
    <3> QED BY <2>1, <3>1 DEF SendOnce, HFNext
  <2>2. CASE Answered(i) \/ AttemptFailed(i) \/ Unreadable(i) \/ Retry(i)
    BY <2>2 DEF Answered, AttemptFailed, Unreadable, Retry
  <2> QED BY <1>3, <2>1, <2>2 DEF Send
<1>4. ASSUME NEW u \in Uploads, Receive(u) PROVE [HFNext]_hfvars
  BY <1>4 DEF Receive, HFNext
<1>5. CASE UNCHANGED vars
  BY <1>5 DEF vars
<1> QED BY <1>1, <1>2, <1>3, <1>4, <1>5 DEF Next

(* A new file takes a path that no other file has.                           *)
LEMMA ApartStep == ASSUME HFInv, StoredApart, [HFNext]_hfvars PROVE StoredApart'
<1>t. HFTypeOK /\ OwnPlaceholder
  BY DEF HFInv
<1>1. CASE UNCHANGED hfvars
  BY <1>1 DEF hfvars, handlers, StoredApart, Stored
<1>2. ASSUME NEW u \in Uploads, Arrive(u) \/ Handle(u) \/ Drop(u)
      PROVE  StoredApart'
  <2>1. CASE Rename(u) /\ Step(u, "rename", "rest")
    <3>1. /\ pc[u] = "rename" /\ pc'[u] = "rest" /\ path' = path
          /\ \A v \in Uploads \ {u} : pc'[v] = pc[v]
      BY <2>1, <1>t DEF Rename, Step, HFTypeOK
    <3>2. \A v \in Uploads \ {u} : Stored(v) => path[v] # path[u]
      BY <1>t, <3>1 DEF OwnPlaceholder, Reserved
    <3> QED BY <3>1, <3>2 DEF StoredApart, Stored
  <2>2. CASE Reserve(u)
    <3>1. /\ pc[u] = "reserve" /\ pc'[u] \in {"open", "reserve", "error"}
          /\ \A v \in Uploads \ {u} : pc'[v] = pc[v] /\ path'[v] = path[v]
      BY <2>2, <1>t DEF Reserve, Step, HFTypeOK
    <3> QED BY <3>1 DEF StoredApart, Stored
  <2>3. CASE ~Reserve(u) /\ ~(Rename(u) /\ Step(u, "rename", "rest"))
    <3>1. /\ path' = path /\ (pc'[u] \in {"rest", "ok", "late"} => pc[u] \in {"rest", "ok", "late"})
          /\ \A v \in Uploads \ {u} : pc'[v] = pc[v]
      BY <1>2, <2>3, <1>t DEF Arrive, Handle, Drop, OpenPart, ReceiveBody, Rename, ReadRest,
         RemovePart, RemovePlaceholder, Step, Refused, HFTypeOK
    <3> QED BY <3>1 DEF StoredApart, Stored
  <2> QED BY <2>1, <2>2, <2>3
<1> QED BY <1>1, <1>2 DEF HFNext

(* An answered handler stays answered.                                       *)
LEMMA AnsweredStays ==
    ASSUME HFInv, [HFNext]_hfvars, NEW u \in Uploads, pc[u] = "ok" PROVE pc'[u] = "ok"
<1>t. HFTypeOK
  BY DEF HFInv
<1>1. CASE UNCHANGED hfvars
  BY <1>1 DEF hfvars, handlers
<1>2. ASSUME NEW v \in Uploads, Arrive(v) \/ Handle(v) \/ Drop(v)
      PROVE  pc'[u] = "ok"
  BY <1>2, <1>t DEF Arrive, Handle, Drop, Reserve, OpenPart, ReceiveBody, Rename, ReadRest,
     RemovePart, RemovePlaceholder, Step, Refused, HFTypeOK
<1> QED BY <1>1, <1>2 DEF HFNext

(* What the sender believes stays true in every step.                        *)
LEMMA SenderStep == ASSUME SFInv, [Next]_vars PROVE TaskType' /\ SentIsAnswered'
<1> USE SendFilesAssumption DEF TaskType
<1>t. HFInv /\ TaskType /\ SentIsAnswered
  BY DEF SFInv
<1>m. [HFNext]_hfvars
  BY <1>t, StepMaps
<1>ok. \A u \in Uploads : pc[u] = "ok" => pc'[u] = "ok"
  BY <1>t, <1>m, AnsweredStays
<1>c. \A i \in File : Current(i) \in Uploads
  BY <1>t DEF Current
<1>1. CASE UNCHANGED sfvars
  BY <1>1, <1>t, <1>ok, <1>c DEF sfvars, SentIsAnswered, Current
<1>2. ASSUME NEW i \in File, Answered(i)
      PROVE  TaskType' /\ SentIsAnswered'
  BY <1>2, <1>t DEF Answered, SetTask, SentIsAnswered, Current, hfvars, handlers
<1>3. ASSUME NEW i \in File, AttemptFailed(i) \/ Unreadable(i)
      PROVE  TaskType' /\ SentIsAnswered'
  BY <1>3, <1>t DEF AttemptFailed, Unreadable, SetTask, SentIsAnswered, Current, hfvars, handlers
<1>4. ASSUME NEW i \in File, Retry(i)
      PROVE  TaskType' /\ SentIsAnswered'
  <2>1. attempt' = [attempt EXCEPT ![i] = @ + 1] /\ attempt[i] + 1 \in 0..Retries
    BY <1>4, <1>t DEF Retry, SetTask
  <2>2. task[i] = "sleeping" /\ task' = [task EXCEPT ![i] = "sending"] /\ result' = result /\ pc' = pc
    BY <1>4 DEF Retry, SetTask, hfvars, handlers
  <2>3. TaskType'
    BY <2>1, <2>2, <1>t
  <2>4. \A j \in File : task'[j] \in {"sent", "joined"} =>
            j # i /\ task[j] = task'[j] /\ attempt'[j] = attempt[j]
    BY <2>1, <2>2, <1>t
  <2> QED BY <2>2, <2>3, <2>4, <1>t DEF SentIsAnswered, Current
<1>5. ASSUME NEW i \in File, JoinSent(i)
      PROVE  TaskType' /\ SentIsAnswered'
  <2>1. /\ result = "running" /\ task[i] = "sent" /\ attempt' = attempt /\ pc' = pc
        /\ task' \in [File -> {"pending", "sending", "sleeping", "sent", "joined", "failed", "aborted"}]
        /\ \A j \in File : task'[j] \in {"sent", "joined"} => task[j] \in {"sent", "joined"}
        /\ \A j \in File : task'[j] = "sleeping" => task[j] = "sleeping"
        /\ result' \in {"running", "ok"}
        /\ result' = "ok" => \A j \in File : task'[j] = "joined"
    BY <1>5, <1>t DEF JoinSent, hfvars, handlers
  <2> QED BY <2>1, <1>t DEF SentIsAnswered, Current
<1>6. ASSUME NEW i \in File, JoinFailed(i) \/ AbortTask(i)
      PROVE  TaskType' /\ SentIsAnswered'
  BY <1>6, <1>t DEF JoinFailed, AbortTask, Running, SentIsAnswered, Current, hfvars, handlers
<1>7. CASE Interrupt \/ Aborted
  BY <1>7, <1>t DEF Interrupt, Aborted, SentIsAnswered, Current, hfvars, handlers
<1>8. ASSUME NEW i \in File, SendOnce(i) PROVE UNCHANGED sfvars
  BY <1>8 DEF SendOnce
<1>9. ASSUME NEW u \in Uploads, Receive(u) PROVE UNCHANGED sfvars
  BY <1>9 DEF Receive
<1>10. CASE UNCHANGED vars
  BY <1>10, <1>1 DEF vars
<1> QED BY <1>1, <1>2, <1>3, <1>4, <1>5, <1>6, <1>7, <1>8, <1>9, <1>10 DEF Next, Send, Join

LEMMA SFInvInit == Init => SFInv
<1> SUFFICES ASSUME Init PROVE SFInv
  OBVIOUS
<1>1. HFInv
  BY HFInvInit DEF Init
<1>2. StoredApart
  BY DEF Init, HFInit, StoredApart, Stored
<1>3. TaskType /\ SentIsAnswered
  BY SendFilesAssumption DEF Init, TaskType, SentIsAnswered
<1> QED BY <1>1, <1>2, <1>3 DEF SFInv

LEMMA SFInvNext == SFInv /\ [Next]_vars => SFInv'
<1> SUFFICES ASSUME SFInv, [Next]_vars PROVE SFInv'
  OBVIOUS
<1>1. [HFNext]_hfvars
  BY StepMaps DEF SFInv
<1> QED BY <1>1, HFInvNext, ApartStep, SenderStep DEF SFInv

LEMMA SFInvariant == Spec => []SFInv
  BY SFInvInit, SFInvNext, PTL DEF Spec

(* The sender with its receiver implements the receiver alone: everything    *)
(* proved of HFSpec holds of the uploads of send_files.                      *)
THEOREM SendImplementsHandle == Spec => HFSpec
<1>1. Init => HFInit
  BY DEF Init
<1>2. SFInv /\ [Next]_vars => [HFNext]_hfvars
  BY StepMaps DEF SFInv
<1> QED BY <1>1, <1>2, SFInvariant, PTL DEF Spec, HFSpec

(* The sender's states keep their types; no file has more attempts than      *)
(* retry_attempts allows.                                                    *)
THEOREM SendFilesTyping == Spec => []TypeOK
<1>1. SFInv => TypeOK
  BY DEF SFInv, HFInv, TaskType, TypeOK
<1> QED BY <1>1, SFInvariant, PTL

(* When send_files returns Ok, every file is in the download directory under *)
(* a path of its own.                                                        *)
THEOREM AllSentTheorem == Spec => []AllSentAllStored
<1>1. SFInv => AllSentAllStored
  <2> SUFFICES ASSUME SFInv, result = "ok", NEW i \in File
               PROVE  /\ files[path[Current(i)]] = Content[Current(i)]
                      /\ \A j \in File \ {i} : path[Current(j)] # path[Current(i)]
    BY DEF AllSentAllStored
  <2>1. \A j \in File : Current(j) \in Uploads /\ Stored(Current(j))
    BY SendFilesAssumption DEF SFInv, TaskType, SentIsAnswered, Current, Stored
  <2>2. \A j \in File \ {i} : Current(j) # Current(i)
    BY DEF Current
  <2>3. OkIsStored /\ StoredApart
    BY DEF SFInv, HFInv
  <2>4. files[path[Current(i)]] = Content[Current(i)]
    BY <2>1, <2>3 DEF OkIsStored
  <2>5. \A j \in File \ {i} : path[Current(j)] # path[Current(i)]
    BY <2>1, <2>2, <2>3 DEF StoredApart
  <2> QED BY <2>4, <2>5
<1> QED BY <1>1, SFInvariant, PTL

(* Whatever senders do, what they send is stored as DownloadDirectory says.  *)
THEOREM SendKeepsDirectory == Spec => DirectoryKept
  BY SendImplementsHandle, HandleImplementsDirectory
=============================================================================
