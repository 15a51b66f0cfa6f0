------------------------------- MODULE Startup -------------------------------
(* How `serve` and `web` start (src/src/main.rs, main; src/src/lib.rs,        *)
(* find_available_port): they load the configuration file, which a page of a  *)
(* running program may be rewriting, choose the port to begin with, and look  *)
(* for a free one upwards.                                                    *)
EXTENDS ConfigFile

CONSTANTS
    Serves, Webs,  \* programs of either kind
    MinPort, MaxPort,  \* the least port but 0; u16::MAX
    Contested,     \* the ports that programs of other kinds take and leave
    Free, Other,   \* owners of a port: none, a program of another kind
    Invalid        \* of an environment variable: it does not parse

Programs == Serves \cup Webs
Ports == MinPort..MaxPort

ASSUME StartupAssumption ==
    /\ "port" \in Fields /\ Values["port"] \subseteq {0} \cup Ports
    /\ Default["port"] \in Values["port"]
    /\ Serves \cap Webs = {} /\ MinPort \in Nat \ {0} /\ MaxPort \in Nat
    /\ Contested \subseteq Ports
    /\ Free # Other /\ Free \notin Programs /\ Other \notin Programs
    /\ Invalid \notin Optional("port")

VARIABLES
    prog,   \* program -> see Starts
    owner   \* port -> who listens on it

vars == <<configvars, prog, owner>>

(* pc: off, bind, up, exited.  over: the port that command line or           *)
(* environment gave, the first of them.  ip: ok, foreign, or insisted: a     *)
(* foreign one on the command line.  start: the port to begin with; try: the *)
(* one to bind next; port: the one its heartbeats carry.  why: what ended it. *)
Starts == [pc : {"off", "bind", "up", "exited"}, over : Optional("port"),
           ip : {"ok", "foreign", "insisted"},
           start : 0..MaxPort, try : 0..MaxPort, port : 0..MaxPort,
           why : {"", "settings", "address", "ports", "denied"}]

Off == [pc |-> "off", over |-> Unset, ip |-> "ok", start |-> 0, try |-> 0, port |-> 0, why |-> ""]

----------------------------------------------------------------------------

Set(p, fields) == prog' = [prog EXCEPT ![p] = fields]
Exit(p, why) == Set(p, [prog[p] EXCEPT !.pc = "exited", !.why = why, !.over = Unset, !.start = 0])

Init ==
    /\ CInit
    /\ prog = [p \in Programs |-> Off]
    /\ owner = [n \in Ports |-> Free]

(* Mutant: the file goes before the environment.                             *)
PrecedenceFile(cli, env, s) ==
    IF cli # Unset THEN cli ELSE IF s["port"] # Unset THEN s["port"]
    ELSE IF env # Unset THEN env ELSE Default["port"]

(* resolve_serve_settings: command line, environment, file, default.         *)
Precedence(cli, env, s) ==
    IF cli # Unset THEN cli ELSE IF env # Unset THEN env ELSE Effective(s)["port"]

(* Somebody starts the program: AppConfig::load, EnvConfig::from_env, and    *)
(* the settings of them; a file or a variable that does not parse ends it.   *)
Launch(p) ==
    /\ prog[p].pc = "off"
    /\ \E cli \in Optional("port"), env \in Optional("port") \cup {Invalid}, ip \in {"ok", "foreign", "insisted"} :
          IF file = Broken \/ env = Invalid THEN Exit(p, "settings")
          ELSE LET n == Precedence(cli, env, Parsed(file))
               IN  Set(p, [Off EXCEPT !.pc = "bind", !.start = n, !.try = n, !.ip = ip,
                                      !.over = IF cli # Unset THEN cli ELSE env])
    /\ UNCHANGED <<configvars, owner>>

(* A foreign address cannot be bound at any port.  `web` then takes all      *)
(* addresses, if it was not the command line that asked for it.              *)
BindForeign(p) ==
    /\ prog[p].pc = "bind" /\ prog[p].ip # "ok"
    /\ IF p \in Webs /\ prog[p].ip = "foreign"
       THEN Set(p, [prog[p] EXCEPT !.ip = "ok", !.try = prog[p].start])
       ELSE Exit(p, "address")
    /\ UNCHANGED <<configvars, owner>>

Listen(p, n) ==
    /\ owner[n] = Free
    /\ owner' = [owner EXCEPT ![n] = p]
    /\ Set(p, [Off EXCEPT !.pc = "up", !.start = prog[p].start, !.port = n])

(* Mutants: the port after the last is tried; the first is; the last is not. *)
BindPast(p) ==
    LET n == prog[p].try
    IN  /\ prog[p].pc = "bind" /\ prog[p].ip = "ok" /\ n # 0
        /\ \/ Listen(p, n)
           \/ owner[n] # Free /\ Set(p, [prog[p] EXCEPT !.try = n + 1]) /\ UNCHANGED owner
        /\ UNCHANGED configvars

BindWrapping(p) ==
    LET n == prog[p].try
    IN  /\ prog[p].pc = "bind" /\ prog[p].ip = "ok" /\ n # 0
        /\ \/ Listen(p, n)
           \/ /\ owner[n] # Free
              /\ Set(p, [prog[p] EXCEPT !.try = IF n = MaxPort THEN MinPort ELSE n + 1])
              /\ UNCHANGED owner
        /\ UNCHANGED configvars

BindShort(p) ==
    LET n == prog[p].try
    IN  /\ prog[p].pc = "bind" /\ prog[p].ip = "ok" /\ n # 0
        /\ \/ Listen(p, n)
           \/ /\ owner[n] # Free
              /\ IF n + 1 >= MaxPort THEN Exit(p, "ports")
                 ELSE Set(p, [prog[p] EXCEPT !.try = n + 1])
              /\ UNCHANGED owner
        /\ UNCHANGED configvars

(* One round of find_available_port: the port, or the next one while it is   *)
(* in use; any other error, as of a port the system denies, ends the search. *)
Bind(p) ==
    LET n == prog[p].try
    IN  /\ prog[p].pc = "bind" /\ prog[p].ip = "ok" /\ n # 0
        /\ \/ Listen(p, n)
           \/ /\ owner[n] # Free
              /\ IF n = MaxPort THEN Exit(p, "ports")
                 ELSE Set(p, [prog[p] EXCEPT !.try = n + 1])
              /\ UNCHANGED owner
           \/ Exit(p, "denied") /\ UNCHANGED owner
        /\ UNCHANGED configvars

(* Port 0: the system gives a free one, if there is any and no other error.  *)
BindAny(p) ==
    /\ prog[p].pc = "bind" /\ prog[p].ip = "ok" /\ prog[p].try = 0
    /\ \/ \E n \in Ports : Listen(p, n)
       \/ (\A n \in Ports : owner[n] # Free) /\ Exit(p, "ports") /\ UNCHANGED owner
       \/ Exit(p, "denied") /\ UNCHANGED owner
    /\ UNCHANGED configvars

(* The program ends or is killed; its port is free again.                    *)
Stop(p) ==
    /\ prog[p].pc \in {"up", "exited"}
    /\ Set(p, Off)
    /\ owner' = [n \in Ports |-> IF owner[n] = p THEN Free ELSE owner[n]]
    /\ UNCHANGED configvars

(* Programs of other kinds take ports and leave them.                        *)
Others(n) ==
    /\ owner[n] \in {Free, Other}
    /\ owner' = [owner EXCEPT ![n] = IF @ = Free THEN Other ELSE Free]
    /\ UNCHANGED <<configvars, prog>>

Start(p) == BindForeign(p) \/ Bind(p) \/ BindAny(p)

Next ==
    \/ CNext /\ UNCHANGED <<prog, owner>>
    \/ \E p \in Programs : Launch(p) \/ Start(p) \/ Stop(p)
    \/ \E n \in Contested : Others(n)

Spec == Init /\ [][Next]_vars

(* A program that was started goes on.                                       *)
FairSpec == Spec /\ \A p \in Programs : WF_vars(Start(p))

----------------------------------------------------------------------------
(* Properties *)

TypeOK ==
    /\ CTypeOK
    /\ prog \in [Programs -> Starts]
    /\ owner \in [Ports -> Programs \cup {Free, Other}]

(* The port in a node's heartbeats is the one it listens on, and no other    *)
(* node's; it is not below the one it was given.                             *)
PortIsMine ==
    \A p \in Programs : prog[p].pc = "up" =>
        /\ prog[p].port \in Ports /\ owner[prog[p].port] = p
        /\ prog[p].port >= prog[p].start
        /\ \A q \in Programs \ {p} : prog[q].pc = "up" => prog[q].port # prog[p].port

(* A program that gives up for want of a port or for its address does so for *)
(* a reason: the last port was in use, or, asked for any port, all were; the *)
(* address is foreign and not to be replaced.                                *)
ExitJustified ==
    \A p \in Programs : prog[p].pc = "exited" =>
        /\ prog[p].why = "ports" => prog[p].try \in {0, MaxPort}
        /\ prog[p].why = "address" => prog[p].ip = "insisted" \/ (p \in Serves /\ prog[p].ip = "foreign")

(* A setting the page was told is saved is what a program starts with, while *)
(* no other save begins and nothing of higher precedence is given.           *)
SavedApplies ==
    [][\A p \in Programs, t \in Tabs :
          /\ prog[p].pc = "off" /\ prog'[p].pc = "bind"
          /\ tab[t].sound /\ tab[t].pc = "open"
          => prog'[p].start = IF prog'[p].over # Unset THEN prog'[p].over
                              ELSE Effective(tab[t].read)["port"]]_vars

(* A start ends: the program listens or gives up, even if other programs     *)
(* keep taking the ports it comes to.                                        *)
StartEnds ==
    \A p \in Programs : (prog[p].pc = "bind") ~> (prog[p].pc \in {"up", "exited"})
=============================================================================
