------------------------------- MODULE WebRelay -------------------------------
(* The web page's way of sending (src/src/server.rs, handle_web_message and   *)
(* handle_web_file): the node Here passes a text or a file of a page on to    *)
(* the peers its registry lists, one after the other, and answers how many    *)
(* took it.  Peers publish what they get to their own pages (EventStream).    *)
(* Where a file goes through the disk, the spool is written and read back     *)
(* with no flush in between.                                                  *)
EXTENDS EventStream, FiniteSets

CONSTANTS
    Here,         \* the node whose web page sends
    Requests,     \* requests of pages, each with a text or a file
    From,         \* request -> the page that makes it
    Local,        \* the pages in a browser on Here itself
    SameOrigin,   \* the pages whose requests carry this node's origin
    Watched,      \* bound: the pages whose event streams are followed
    Entries,      \* what the registry may list: one per uuid
    Host,         \* entry -> the node behind it; two for a restarted node
    Retries,      \* retry_attempts, for files
    MaxRuns, MaxFields,  \* bounds: runs of Here; fields of a form
    NoFile, NoEntry      \* no spool; no peer is being sent to

ASSUME WebRelayAssumption ==
    /\ Here \in Nodes
    /\ From \in [Requests -> Pages] /\ \A r \in Requests : Home[From[r]] = Here
    /\ Local \subseteq Pages /\ SameOrigin \subseteq Pages /\ Watched \subseteq Pages
    /\ Host \in [Entries -> Nodes] /\ IsFiniteSet(Entries)
    /\ Messages = [of : Requests, whole : BOOLEAN]
    /\ Retries \in Nat /\ MaxRuns \in Nat /\ MaxFields \in Nat
    /\ NoFile \notin Messages /\ NoEntry \notin Entries

VARIABLES
    run,      \* how often Here was started; the token is new in each run
    token,    \* page -> the run that served it, 0 for none
    handler,  \* request -> its handler: see Handlers
    spool,    \* temporary file -> its content or NoFile
    due,      \* temporary files whose last write is under way
    late      \* texts given up that a peer may still read: <<request, entry>>

relayvars == <<run, token, handler, spool, due, late>>
vars == <<relayvars, esvars>>

Spools == Requests \X (1..MaxFields)

(* pc: where the handler is.  carried: the token of the request.  fields:    *)
(* fields read; target: "one" when one names a peer; saved: the last file    *)
(* field, 0 for none.  todo of the targets: still to be sent to; peer: being *)
(* sent to.  hashed: what the digest was computed of.  tries: attempts for   *)
(* this peer.  failed: last_error is set.  kept: the spool could not be      *)
(* removed (no variable of the code).                                        *)
Handlers ==
    [kind : {"text", "file"},
     pc : {"idle", "guard", "form", "resolve", "loop", "hash", "send", "got", "forbidden", "bad",
           "unknown", "none", "ok", "dropped"},
     carried : Nat, fields : 0..MaxFields, target : {"one", "all"}, saved : 0..MaxFields,
     targets : SUBSET Entries, todo : SUBSET Entries, peer : Entries \cup {NoEntry},
     hashed : Messages \cup {NoFile}, tries : 0..Retries, delivered : Nat, failed : BOOLEAN,
     kept : BOOLEAN]

Idle == [kind |-> "text", pc |-> "idle", carried |-> 0, fields |-> 0, target |-> "all", saved |-> 0,
         targets |-> {}, todo |-> {}, peer |-> NoEntry,
         hashed |-> NoFile, tries |-> 0, delivered |-> 0, failed |-> FALSE,
         kept |-> FALSE]

Answers == {"forbidden", "bad", "unknown", "none", "ok"}
Working(r) == handler[r].pc \notin {"idle", "dropped"} \cup Answers

----------------------------------------------------------------------------

Whole(r) == [of |-> r, whole |-> TRUE]
Part(r) == [of |-> r, whole |-> FALSE]

IsFile(r) == handler[r].kind = "file"
Saved(r) == <<r, handler[r].saved>>

(* The handler goes on to `label` with these locals.                         *)
Set(r, locals) == handler' = [handler EXCEPT ![r] = locals]
Goto(r, from, label) == handler[r].pc = from /\ Set(r, [handler[r] EXCEPT !.pc = label])

Init ==
    /\ ESInit
    /\ run = 1
    /\ token = [p \in Pages |-> 0]
    /\ handler = [r \in Requests |-> Idle]
    /\ spool = [s \in Spools |-> NoFile]
    /\ due = {} /\ late = {}

(* handle_index: the page is served with the token of this run.              *)
LoadPage(p) ==
    /\ Home[p] = Here /\ token[p] < run
    /\ token' = [token EXCEPT ![p] = run]
    /\ UNCHANGED <<run, handler, spool, due, late, esvars>>

(* The page makes a request; it may be on its way when Here restarts.        *)
Submit(r) ==
    /\ handler[r].pc = "idle" /\ token[From[r]] > 0
    /\ \E k \in {"text", "file"} :
          Set(r, [handler[r] EXCEPT !.kind = k, !.pc = "guard", !.carried = token[From[r]]])
    /\ UNCHANGED <<run, token, spool, due, late, esvars>>

(* request_has_valid_web_token; the origin is a property of the page.        *)
ValidToken(r) == handler[r].carried = run
Admitted(r) == From[r] \in Local \/ (ValidToken(r) /\ From[r] \in SameOrigin)

(* Mutant: the token or the origin is enough.                                *)
GuardEither(r) ==
    /\ LET admitted == From[r] \in Local \/ ValidToken(r) \/ From[r] \in SameOrigin
       IN  Goto(r, "guard", IF admitted THEN "form" ELSE "forbidden")
    /\ UNCHANGED <<run, token, spool, due, late, esvars>>

(* require_web_ui_request.                                                   *)
Guard(r) ==
    /\ Goto(r, "guard", IF Admitted(r) THEN "form" ELSE "forbidden")
    /\ UNCHANGED <<run, token, spool, due, late, esvars>>

(* The body of a message: a text and perhaps a target, or nothing of use.    *)
ReadText(r) ==
    /\ ~IsFile(r) /\ handler[r].pc = "form"
    /\ \/ \E t \in {"one", "all"} : Set(r, [handler[r] EXCEPT !.pc = "resolve", !.target = t])
       \/ Set(r, [handler[r] EXCEPT !.pc = "bad"])
    /\ UNCHANGED <<run, token, spool, due, late, esvars>>

(* A field "target"; one that cannot be read is ignored, as other fields.    *)
ReadTarget(r) ==
    LET h == handler[r]
    IN  /\ IsFile(r) /\ h.pc = "form" /\ h.fields < MaxFields
        /\ \E t \in {"one", h.target} : Set(r, [h EXCEPT !.fields = @ + 1, !.target = t])
        /\ UNCHANGED <<run, token, spool, due, late, esvars>>

(* save_web_file_field.  tokio's write_all returns when a write is handed to *)
(* a thread: the last one may be under way when the file is closed.  An      *)
(* upload that breaks off leaves its spool, and so does a second file field. *)
SaveFile(r) ==
    LET h == handler[r]
        k == h.fields + 1
        s == <<r, k>>
    IN  /\ IsFile(r) /\ h.pc = "form" /\ h.fields < MaxFields
        /\ \/ /\ Set(r, [h EXCEPT !.fields = k, !.saved = k])
              /\ spool' = [spool EXCEPT ![s] = Part(r)] /\ due' = due \cup {s}
           \/ /\ Set(r, [h EXCEPT !.fields = k, !.pc = "bad"])
              /\ spool' = [spool EXCEPT ![s] = Part(r)] /\ UNCHANGED due
           \/ /\ Set(r, [h EXCEPT !.fields = k, !.pc = "bad"])
              /\ UNCHANGED <<spool, due>>
        /\ UNCHANGED <<run, token, late, esvars>>

(* The form ends, or breaks off between two fields.                          *)
EndForm(r) ==
    /\ IsFile(r)
    /\ \/ handler[r].saved > 0 /\ Goto(r, "form", "resolve")
       \/ Goto(r, "form", "bad")
    /\ UNCHANGED <<run, token, spool, due, late, esvars>>

(* The last write of a spool ends.  When it fails, nobody is told.           *)
Settle(s) ==
    /\ s \in due /\ due' = due \ {s}
    /\ \/ spool' = [spool EXCEPT ![s] = IF @ = NoFile THEN NoFile ELSE Whole(s[1])]
       \/ UNCHANGED spool
    /\ UNCHANGED <<run, token, handler, late, esvars>>

(* The handler goes on with these locals once the spool of a file is         *)
(* removed, or cannot be removed, which is ignored.                          *)
RemoveSpool(r, locals) ==
    /\ \/ Set(r, locals) /\ spool' = IF locals.saved = 0 THEN spool
                                      ELSE [spool EXCEPT ![Saved(r)] = NoFile]
       \/ locals.saved > 0 /\ Set(r, [locals EXCEPT !.kept = TRUE]) /\ UNCHANGED spool
    /\ UNCHANGED due

(* Mutant: a form whose target is unknown keeps its spool.                   *)
ResolveKeeping(r) ==
    LET h == handler[r]
    IN  /\ h.pc = "resolve"
        /\ \/ \E es \in SUBSET Entries :
                 /\ es # {} /\ (h.target = "one" => Cardinality(es) = 1)
                 /\ Set(r, [h EXCEPT !.pc = "loop", !.targets = es, !.todo = es])
           \/ Set(r, [h EXCEPT !.pc = "unknown"])
        /\ UNCHANGED <<run, token, spool, due, late, esvars>>

(* resolve_web_targets: the peers listed at that moment, the one the target  *)
(* names, or none.                                                           *)
Resolve(r) ==
    LET h == handler[r]
    IN  /\ h.pc = "resolve"
        /\ \/ \E es \in SUBSET Entries :
                 /\ es # {} /\ (h.target = "one" => Cardinality(es) = 1)
                 /\ Set(r, [h EXCEPT !.pc = "loop", !.targets = es, !.todo = es])
                 /\ UNCHANGED <<spool, due>>
           \/ RemoveSpool(r, [h EXCEPT !.pc = "unknown"])
        /\ UNCHANGED <<run, token, late, esvars>>

(* Mutant: a peer that fails is asked again.                                 *)
NextPeerAgain(r) ==
    LET h == handler[r]
    IN  /\ h.pc = "loop"
        /\ \E e \in h.todo : Set(r, [h EXCEPT !.pc = IF IsFile(r) THEN "hash" ELSE "send",
                                              !.peer = e, !.tries = 0])
        /\ UNCHANGED <<run, token, spool, due, late, esvars>>

(* The next peer, in the order of the map, unless it has no address.         *)
NextPeer(r) ==
    LET h == handler[r]
    IN  /\ h.pc = "loop"
        /\ \E e \in h.todo :
              \/ Set(r, [h EXCEPT !.pc = IF IsFile(r) THEN "hash" ELSE "send", !.peer = e,
                                  !.todo = @ \ {e}, !.tries = 0])
              \/ Set(r, [h EXCEPT !.todo = @ \ {e}, !.failed = TRUE])
        /\ UNCHANGED <<run, token, spool, due, late, esvars>>

(* The digest, of what the spool holds by now, unless it cannot be read.     *)
Hash(r) ==
    /\ handler[r].pc = "hash"
    /\ \/ Set(r, [handler[r] EXCEPT !.pc = "send", !.hashed = spool[Saved(r)]])
       \/ Set(r, [handler[r] EXCEPT !.pc = "loop", !.peer = NoEntry, !.failed = TRUE])
    /\ UNCHANGED <<run, token, spool, due, late, esvars>>

(* The peer takes it: a file only if the body has the digest.                *)
PeerTakes(r) ==
    LET h == handler[r]
        body == IF IsFile(r) THEN spool[Saved(r)] ELSE Whole(r)
    IN  /\ Goto(r, "send", "got")
        /\ IsFile(r) => body = h.hashed /\ body # NoFile
        /\ Publish(Host[h.peer], body)
        /\ UNCHANGED <<run, token, spool, due, late, cursor, since, shown>>

(* The peer still reads a text whose sender has given up waiting (30 s).     *)
PeerTakesLate(r, e) ==
    /\ <<r, e>> \in late /\ late' = late \ {<<r, e>>}
    /\ Publish(Host[e], Whole(r))
    /\ UNCHANGED <<run, token, handler, spool, due, cursor, since, shown>>

(* The peer's success arrives.                                               *)
PeerAnswers(r) ==
    /\ handler[r].pc = "got"
    /\ Set(r, [handler[r] EXCEPT !.pc = "loop", !.peer = NoEntry, !.hashed = NoFile,
                                  !.delivered = @ + 1])
    /\ UNCHANGED <<run, token, spool, due, late, esvars>>

(* Mutant: one attempt too many.                                             *)
PeerFailsOnceMore(r) ==
    LET h == handler[r]
    IN  /\ h.pc \in {"send", "got"}
        /\ IF IsFile(r) /\ h.tries <= Retries
           THEN Set(r, [h EXCEPT !.pc = "send", !.tries = @ + 1])
           ELSE Set(r, [h EXCEPT !.pc = "loop", !.peer = NoEntry, !.failed = TRUE])
        /\ UNCHANGED <<run, token, spool, due, late, esvars>>

(* The peer cannot be reached, refuses, or its answer is lost or late.  A    *)
(* file is tried again.                                                      *)
PeerFails(r) ==
    LET h == handler[r]
    IN  /\ h.pc \in {"send", "got"}
        /\ IF IsFile(r) /\ h.tries < Retries
           THEN Set(r, [h EXCEPT !.pc = "send", !.tries = @ + 1])
           ELSE Set(r, [h EXCEPT !.pc = "loop", !.peer = NoEntry, !.hashed = NoFile,
                                 !.failed = TRUE])
        /\ \/ UNCHANGED late
           \/ ~IsFile(r) /\ h.pc = "send" /\ late' = late \cup {<<r, h.peer>>}
        /\ UNCHANGED <<run, token, spool, due, esvars>>

(* Mutant: the answer counts the peers tried.                                *)
FinishTried(r) ==
    LET h == handler[r]
    IN  /\ h.pc = "loop" /\ h.todo = {}
        /\ RemoveSpool(r, [h EXCEPT !.pc = "ok", !.delivered = Cardinality(h.targets)])
        /\ UNCHANGED <<run, token, late, esvars>>

(* Every target was tried: the spool is removed and the page answered.       *)
Finish(r) ==
    LET h == handler[r]
    IN  /\ h.pc = "loop" /\ h.todo = {}
        /\ RemoveSpool(r, [h EXCEPT !.pc = IF h.delivered = 0 THEN "none" ELSE "ok"])
        /\ UNCHANGED <<run, token, late, esvars>>

(* A dropped handler loses its locals; what the properties speak of is kept. *)
Dropped(h) == [Idle EXCEPT !.pc = "dropped", !.kind = h.kind, !.targets = h.targets]

(* The page goes away: its handler is dropped at an await.                   *)
Drop(r) ==
    /\ Working(r)
    /\ Set(r, Dropped(handler[r]))
    /\ UNCHANGED <<run, token, spool, due, late, esvars>>

(* Here is killed and started again: handlers, connections and a write under *)
(* way are gone, a request on its way meets the new run.                     *)
Restart ==
    /\ run < MaxRuns
    /\ run' = run + 1
    /\ handler' = [r \in Requests |-> IF Working(r) /\ handler[r].pc # "guard"
                                      THEN Dropped(handler[r]) ELSE handler[r]]
    /\ due' = {}
    /\ Disconnect({p \in Pages : Home[p] = Here})
    /\ UNCHANGED <<token, spool, late, log, since, shown>>

(* A page's event stream, and its connection breaking.                       *)
Stream(p) ==
    /\ Subscribe(p) \/ Recv(p) \/ (Disconnect({p}) /\ Open(p) /\ UNCHANGED <<log, since, shown>>)
    /\ UNCHANGED relayvars

Read(r) == ReadText(r) \/ ReadTarget(r) \/ SaveFile(r) \/ EndForm(r)
Relay(r) ==
    \/ Guard(r) \/ Resolve(r) \/ NextPeer(r) \/ Hash(r)
    \/ PeerTakes(r) \/ PeerAnswers(r) \/ PeerFails(r) \/ Finish(r)

Next ==
    \/ \E p \in Pages : LoadPage(p)
    \/ \E p \in Watched : Stream(p)
    \/ \E r \in Requests : Submit(r) \/ Read(r) \/ Relay(r) \/ Drop(r)
    \/ \E r \in Requests, e \in Entries : PeerTakesLate(r, e)
    \/ \E s \in Spools : Settle(s)
    \/ Restart

Spec == Init /\ [][Next]_vars

(* tokio polls every stream.  Nothing makes a page load or send, or a peer   *)
(* answer: a file is sent to a peer without a request timeout.               *)
FairSpec ==
    /\ Spec
    /\ \A p \in Watched : WF_vars(Recv(p) /\ UNCHANGED relayvars)

----------------------------------------------------------------------------
(* Properties *)

TypeOK ==
    /\ ESTypeOK
    /\ run \in Nat /\ token \in [Pages -> Nat]
    /\ handler \in [Requests -> Handlers]
    /\ spool \in [Spools -> Messages \cup {NoFile}]
    /\ due \subseteq Spools /\ late \subseteq Requests \X Entries

Got(n, r) == \E i \in 1..Last(n) : log[n][i].of = r

(* A remote request is worked on only in the run whose token it carries; a   *)
(* page of this node is refused only when it is older than the run.          *)
GuardsApart ==
    \A r \in Requests :
        LET h == handler[r]
        IN  /\ Working(r) /\ h.pc # "guard" /\ From[r] \notin Local =>
                  h.carried = run /\ From[r] \in SameOrigin
            /\ h.pc = "forbidden" /\ From[r] \in SameOrigin => h.carried < run

(* What the page is told is so: refused, nobody got anything; `delivered` is *)
(* at least one and no more than got it; every target, if no message says    *)
(* otherwise; and an error for all comes with a message.                     *)
AnswerHonest ==
    \A r \in Requests :
        LET h == handler[r]
            got == {e \in h.targets : Got(Host[e], r)}
        IN  /\ h.pc \in {"forbidden", "bad", "unknown"} => \A n \in Nodes : ~Got(n, r)
            /\ h.pc = "ok" => /\ h.delivered \in 1..Cardinality(got)
                              /\ ~h.failed => h.delivered = Cardinality(h.targets)
            /\ h.pc = "none" => h.failed

(* A text reaches a node once per entry the registry had for it - twice if   *)
(* it was restarted and its former uuid is still listed -, a file at most    *)
(* once per attempt.                                                         *)
CopiesBounded ==
    \A n \in Nodes, r \in Requests :
        Cardinality({i \in 1..Last(n) : log[n][i].of = r}) <=
            Cardinality({e \in handler[r].targets : Host[e] = n})
                * (IF IsFile(r) THEN Retries + 1 ELSE 1)

(* The spool is there, with this request's bytes, until the last peer was    *)
(* tried, and gone when the page is answered, unless its removal failed or   *)
(* the answer is that the form is bad; what else is left then is a file      *)
(* field before the last one.                                                *)
SpoolLifetime ==
    \A r \in Requests : IsFile(r) =>
        LET h == handler[r]
        IN  /\ h.pc \in {"resolve", "loop", "hash", "send", "got"} =>
                  spool[Saved(r)] \in {Part(r), Whole(r)}
            /\ h.pc \in {"unknown", "none", "ok"} /\ ~h.kept =>
                  \A k \in 1..MaxFields : spool[<<r, k>>] # NoFile => k < h.saved
=============================================================================
