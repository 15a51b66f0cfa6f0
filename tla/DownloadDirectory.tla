-------------------------- MODULE DownloadDirectory --------------------------
(* What both receivers of uploads (src/src/server.rs, handle_file and the     *)
(* handlers of chunked uploads) promise about the download directory: a path  *)
(* is reserved by a placeholder where nothing was, gets at most one content,  *)
(* and is touched only by who owns it.  HandleFile and UploadSessions are     *)
(* shown to implement it.                                                     *)
CONSTANTS
    Paths,         \* in the download directory
    Contents,      \* the bytes of a file
    Absent, Empty  \* at a path: nothing, a placeholder

VARIABLES
    files,  \* what is at each path
    owned   \* the paths somebody is going to store a file at, or to give back

ddvars == <<files, owned>>

DDInit ==
    /\ files = [p \in Paths |-> Absent]
    /\ owned = {}

(* create_new: whoever makes the placeholder owns the path.                  *)
Reserve(p) ==
    /\ files[p] = Absent /\ p \notin owned
    /\ files' = [files EXCEPT ![p] = Empty]
    /\ owned' = owned \cup {p}

(* A verified file replaces the placeholder; its owner may go on or not.     *)
Publish(p) ==
    /\ p \in owned /\ files[p] = Empty
    /\ \E c \in Contents : files' = [files EXCEPT ![p] = c]
    /\ owned' \in {owned, owned \ {p}}

(* The owner gives the path back.                                            *)
Release(p) ==
    /\ p \in owned
    /\ files' = [files EXCEPT ![p] = Absent]
    /\ owned' = owned \ {p}

(* Owners end, or forget, with what is there: their file, or a placeholder   *)
(* that stays for good.                                                      *)
Leave(ps) ==
    /\ owned' = owned \ ps
    /\ UNCHANGED files

DDNext ==
    \/ \E p \in Paths : Reserve(p) \/ Publish(p) \/ Release(p)
    \/ \E ps \in SUBSET owned : Leave(ps)

DDSpec == DDInit /\ [][DDNext]_ddvars
=============================================================================
