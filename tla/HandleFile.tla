----------------------------- MODULE HandleFile -----------------------------
(* One-shot uploads at the receiver (src/src/server.rs, handle_file): a form  *)
(* with one file is stored under a reserved path, through a hidden part file, *)
(* once its digest has matched.  Each upload is one request with a handler of *)
(* its own; all of them share the download directory.                         *)
EXTENDS Naturals, Sequences, FiniteSets

CONSTANTS
    Uploads,     \* requests
    Paths,       \* paths in the download directory
    Contents,    \* the bytes of a file
    Candidates,  \* upload -> the paths tried for its name: name, name_1 ...
    Content,     \* upload -> the bytes its digest was computed of
    Fails,       \* what may fail: see Failures
    Absent, Empty  \* at a path: nothing, the placeholder of a reservation

(* reserve, open, body, rename, remove: that file system call (or the body,  *)
(* cut off or with another digest); form: what follows the file in the form; *)
(* drop: the handler, when its connection closes.                            *)
Failures == {"reserve", "open", "body", "rename", "remove", "form", "drop"}

ASSUME HandleFileAssumption ==
    /\ Candidates \in [Uploads -> Seq(Paths)]
    /\ Content \in [Uploads -> Contents]
    /\ Fails \subseteq Failures
    /\ Absent \notin Contents /\ Empty \notin Contents /\ Absent # Empty
    /\ Paths # {}

VARIABLES
    files,  \* what is at each path
    parts,  \* the uploads whose part file exists
    pc,     \* where the handler of each upload is
    try,    \* candidates it was refused
    path    \* the path it reserved

directory == <<files, parts>>
handlers == <<pc, try, path>>
hfvars == <<directory, handlers>>

----------------------------------------------------------------------------

(* The handler goes on to `label`.                                           *)
Step(u, from, label) == pc[u] = from /\ pc' = [pc EXCEPT ![u] = label]
MayFail(what) == what \in Fails

HFInit ==
    /\ files = [p \in Paths |-> Absent] /\ parts = {}
    /\ pc = [u \in Uploads |-> "idle"]
    /\ try = [u \in Uploads |-> 0]
    /\ path = [u \in Uploads |-> CHOOSE p \in Paths : TRUE]

(* The fields before the file; a form without them is refused (no trace).    *)
Arrive(u) ==
    /\ Step(u, "idle", "reserve")
    /\ UNCHANGED <<directory, try, path>>

(* Mutant: the placeholder is not created exclusively.                       *)
ReserveAny(u) ==
    /\ Step(u, "reserve", "open")
    /\ path' = [path EXCEPT ![u] = Candidates[u][1]]
    /\ files' = [files EXCEPT ![Candidates[u][1]] = Empty]
    /\ UNCHANGED <<parts, try>>

(* One round of reserve_download_path.                                       *)
Reserve(u) ==
    /\ LET k == try[u] + 1
           c == Candidates[u]
       IN  \/ /\ k \in DOMAIN c /\ files[c[k]] = Absent
              /\ Step(u, "reserve", "open")
              /\ path' = [path EXCEPT ![u] = c[k]]
              /\ files' = [files EXCEPT ![c[k]] = Empty]
              /\ UNCHANGED try
           \/ /\ k \in DOMAIN c /\ files[c[k]] # Absent
              /\ Step(u, "reserve", "reserve")
              /\ try' = [try EXCEPT ![u] = k]
              /\ UNCHANGED <<files, path>>
           \/ /\ k \notin DOMAIN c \/ MayFail("reserve")
              /\ Step(u, "reserve", "error")
              /\ UNCHANGED <<files, try, path>>
    /\ UNCHANGED parts

(* save_upload_field_inner: the part file, the body with its digest, the     *)
(* rename.  What fails is undone by RemovePart and RemovePlaceholder.        *)
OpenPart(u) ==
    /\ \/ Step(u, "open", "body") /\ parts' = parts \cup {u}
       \/ MayFail("open") /\ Step(u, "open", "unpart") /\ UNCHANGED parts
    /\ UNCHANGED <<files, try, path>>

ReceiveBody(u) ==
    /\ \/ Step(u, "body", "rename")
       \/ MayFail("body") /\ Step(u, "body", "unpart")
    /\ UNCHANGED <<directory, try, path>>

Rename(u) ==
    /\ \/ /\ Step(u, "rename", "rest")
          /\ files' = [files EXCEPT ![path[u]] = Content[u]]
          /\ parts' = parts \ {u}
       \/ /\ MayFail("rename") /\ Step(u, "rename", "unpart")
          /\ UNCHANGED directory
    /\ UNCHANGED <<try, path>>

(* The rest of the form is read and the answer sent.  When the rest is bad,  *)
(* the request is refused although its file is stored: "late".               *)
ReadRest(u) ==
    /\ \/ Step(u, "rest", "ok")
       \/ MayFail("form") /\ Step(u, "rest", "late")
    /\ UNCHANGED <<directory, try, path>>

(* Mutant: the part file is not removed after an error.                      *)
RemovePartNot(u) ==
    /\ Step(u, "unpart", "unplace")
    /\ UNCHANGED <<directory, try, path>>

(* A removal that fails is ignored; the labels "stuck" and "left" remember it. *)
RemovePart(u) ==
    /\ \/ Step(u, "unpart", "unplace") /\ parts' = parts \ {u}
       \/ MayFail("remove") /\ Step(u, "unpart", "stuck") /\ UNCHANGED parts
    /\ UNCHANGED <<files, try, path>>

RemovePlaceholder(u) ==
    /\ \/ /\ Step(u, "unplace", "error") \/ Step(u, "stuck", "left")
          /\ files' = [files EXCEPT ![path[u]] = Absent]
       \/ /\ MayFail("remove")
          /\ Step(u, "unplace", "left") \/ Step(u, "stuck", "left")
          /\ UNCHANGED files
    /\ UNCHANGED <<parts, try, path>>

(* The ways a request ends with an error answer.                             *)
Refused(u) == pc[u] \in {"error", "late", "left"}

(* The connection closes and the handler is dropped at an await.             *)
Drop(u) ==
    /\ MayFail("drop")
    /\ pc[u] \notin {"idle", "ok", "dropped"} /\ ~Refused(u)
    /\ pc' = [pc EXCEPT ![u] = "dropped"]
    /\ UNCHANGED <<directory, try, path>>

Handle(u) ==
    \/ Reserve(u) \/ OpenPart(u) \/ ReceiveBody(u) \/ Rename(u) \/ ReadRest(u)
    \/ RemovePart(u) \/ RemovePlaceholder(u)

HFNext == \E u \in Uploads : Arrive(u) \/ Handle(u) \/ Drop(u)

HFSpec == HFInit /\ [][HFNext]_hfvars

----------------------------------------------------------------------------
(* Properties *)

HFTypeOK ==
    /\ files \in [Paths -> Contents \cup {Absent, Empty}]
    /\ parts \subseteq Uploads
    /\ pc \in [Uploads -> {"idle", "reserve", "open", "body", "rename", "rest", "unpart", "unplace",
                           "stuck", "ok", "error", "late", "left", "dropped"}]
    /\ try \in [Uploads -> Nat] /\ \A u \in Uploads : try[u] <= Len(Candidates[u])
    /\ path \in [Uploads -> Paths]

Reserved(u) == pc[u] \in {"open", "body", "rename", "unpart", "unplace", "stuck"}
Stored(u) == pc[u] \in {"rest", "ok", "late"}

(* What a handler reserved is there, and nobody else's, until the handler    *)
(* replaces it by the file or gives it back.                                 *)
OwnPlaceholder ==
    \A u \in Uploads : Reserved(u) =>
        /\ files[path[u]] = Empty
        /\ \A v \in Uploads \ {u} : Reserved(v) \/ Stored(v) => path[v] # path[u]

(* A file that was renamed into place, answered with a success or not, stays. *)
OkIsStored == \A u \in Uploads : Stored(u) => files[path[u]] = Content[u]

(* The directory keeps the promise of DownloadDirectory.  A path is owned    *)
(* from its reservation until the file is stored or the placeholder removed, *)
(* unless that fails or the handler is dropped.                              *)
Directory == INSTANCE DownloadDirectory WITH owned <- {path[u] : u \in {v \in Uploads : Reserved(v)}}
DirectoryKept == Directory!DDSpec

(* No upload replaces or removes a file that was received.                   *)
NothingReplaced == [][\A p \in Paths : files[p] \in Contents => files'[p] = files[p]]_hfvars

(* Every error path cleans up after itself: a part file or a placeholder has *)
(* a handler that will still deal with it, or one that was dropped, or whose *)
(* removal failed.                                                           *)
NoLitter ==
    /\ \A u \in parts : pc[u] \in {"body", "rename", "unpart", "stuck", "left", "dropped"}
    /\ \A p \in Paths : files[p] = Empty =>
          \E u \in Uploads : path[u] = p /\ (Reserved(u) \/ pc[u] \in {"left", "dropped"})
=============================================================================
