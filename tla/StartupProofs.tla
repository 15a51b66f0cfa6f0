---------------------------- MODULE StartupProofs ----------------------------
(* Proofs about ConfigFile and Startup: a page that nobody interferes with    *)
(* knows what the file says, a program starts with what such a page saved,    *)
(* and the port in its heartbeats is its own.                                 *)
EXTENDS Startup, TLAPS

----------------------------------------------------------------------------
(* Settings *)

LEMMA ASetting ==
    ASSUME NEW s, s = [f \in Fields |-> s[f]], \A f \in Fields : s[f] \in Optional(f)
    PROVE  s \in Settings
  BY DEF Settings

LEMMA OfSettings ==
    ASSUME NEW s \in Settings
    PROVE  /\ s = [f \in Fields |-> s[f]]
           /\ \A f \in Fields : s[f] \in Optional(f)
           /\ s # Missing /\ s # Broken
  BY FileAssumption DEF Settings

LEMMA NothingOK == Nothing \in Settings
  <1>1. Nothing = [f \in Fields |-> Nothing[f]] /\ \A f \in Fields : Nothing[f] \in Optional(f)
    BY DEF Nothing, Optional
  <1> QED
    BY <1>1, ASetting

LEMMA ParsedOK ==
    ASSUME NEW c \in {Missing, Broken} \cup Settings
    PROVE  Parsed(c) \in Settings
  BY NothingOK DEF Parsed

LEMMA EffectiveOK ==
    ASSUME NEW s \in Settings
    PROVE  Effective(s) \in Settings
  <1>1. Effective(s) = [f \in Fields |-> Effective(s)[f]]
    BY DEF Effective
  <1>2. \A f \in Fields : Effective(s)[f] \in Optional(f)
    BY OfSettings, ConfigAssumption DEF Effective, Optional
  <1> QED
    BY <1>1, <1>2, ASetting

LEMMA FilledOK ==
    ASSUME NEW s \in Settings
    PROVE  Filled(s) \in Settings
  <1>1. Filled(s) = [f \in Fields |-> Filled(s)[f]]
    BY DEF Filled
  <1>2. \A f \in Fields : Filled(s)[f] \in Optional(f)
    BY OfSettings, EffectiveOK DEF Filled, Optional
  <1> QED
    BY <1>1, <1>2, ASetting

LEMMA PayloadOK ==
    ASSUME CTypeOK, NEW t \in Tabs
    PROVE  Payload(t) \in Settings
  <1>1. tab[t].form \in Settings /\ tab[t].read \in Settings
    BY DEF CTypeOK, Dialogs
  <1>2. Payload(t) = [f \in Fields |-> Payload(t)[f]]
    BY DEF Payload
  <1>3. \A f \in Fields : Payload(t)[f] \in Optional(f)
    BY <1>1, OfSettings DEF Payload
  <1> QED
    BY <1>2, <1>3, ASetting

LEMMA WrittenOK ==
    ASSUME NEW mine \in Settings, NEW there \in {Missing, Broken} \cup Settings
    PROVE  Written(mine, there) \subseteq {Missing, Broken} \cup Settings
  <1> DEFINE over == [f \in Fields |-> IF mine[f] = Unset THEN Parsed(there)[f] ELSE mine[f]]
  <1>1. over = [f \in Fields |-> over[f]]
    OBVIOUS
  <1>2. \A f \in Fields : over[f] \in Optional(f)
    BY ParsedOK, OfSettings
  <1>3. over \in Settings
    BY <1>1, <1>2, ASetting
  <1> QED
    BY <1>3 DEF Written

(* The running program's values, as the form's late answer shows them.       *)
LEMMA RunningOK ==
    Filled([f \in Fields |-> IF f \in Form THEN Running[f] ELSE Unset]) \in Settings
  <1> DEFINE s == [f \in Fields |-> IF f \in Form THEN Running[f] ELSE Unset]
  <1>1. s = [f \in Fields |-> s[f]] /\ \A f \in Fields : s[f] \in Optional(f)
    BY ConfigAssumption DEF Optional
  <1>2. s \in Settings
    BY <1>1, ASetting
  <1> QED
    BY <1>2, FilledOK

LEMMA EditOK ==
    ASSUME NEW s \in Settings, NEW g \in Fields, NEW v \in Optional(g)
    PROVE  [s EXCEPT ![g] = v] \in Settings
  <1> DEFINE e == [s EXCEPT ![g] = v]
  <1>1. s = [f \in Fields |-> s[f]] /\ \A f \in Fields : s[f] \in Optional(f)
    BY OfSettings
  <1>2. e = [f \in Fields |-> e[f]] /\ \A f \in Fields : e[f] \in Optional(f)
    BY <1>1
  <1> QED
    BY <1>2, ASetting

----------------------------------------------------------------------------
(* The file and the dialogs *)

(* While a page is sound nobody else is in the middle of a save; its own     *)
(* save finds the file as its truncation left it.                            *)
Quiet ==
    \A t \in Tabs : tab[t].sound =>
        /\ saves = {} /\ \A u \in Tabs \ {t} : tab[u].pc # "saving"
        /\ tab[t].pc = "saving" => file = Nothing

ConfigInv == CTypeOK /\ Quiet /\ ReadIsCurrent

LEMMA ConfigStart == CInit => ConfigInv
  BY NothingOK DEF CInit, ConfigInv, CTypeOK, Dialogs, Quiet, ReadIsCurrent

LEMMA OpenKeeps ==
    ASSUME ConfigInv, NEW t \in Tabs, OpenConfig(t)
    PROVE  ConfigInv'
  <1> USE DEF ConfigInv
  <1>1. Parsed(file) \in Settings /\ Filled(Parsed(file)) \in Settings
    BY ParsedOK, FilledOK DEF CTypeOK
  <1>2. CTypeOK'
    BY <1>1 DEF CTypeOK, OpenConfig, Dialogs
  <1>3. \A u \in Tabs : u # t => tab'[u] = tab[u]
    BY DEF CTypeOK, OpenConfig
  <1>4. /\ tab'[t].pc = "open" /\ tab'[t].read = Parsed(file)
        /\ tab'[t].sound => file # Broken /\ ~Saving
    BY DEF CTypeOK, OpenConfig
  <1>5. file' = file /\ saves' = saves /\ tab[t].pc # "saving"
    BY DEF OpenConfig
  <1>6. Quiet'
    BY <1>3, <1>4, <1>5 DEF Quiet, Saving
  <1>7. ReadIsCurrent'
    BY <1>3, <1>4, <1>5 DEF ReadIsCurrent, Parsed
  <1> QED
    BY <1>2, <1>6, <1>7

LEMMA RuntimeKeeps ==
    ASSUME ConfigInv, NEW t \in Tabs, RuntimeArrives(t)
    PROVE  ConfigInv'
  <1> USE DEF ConfigInv
  <1>1. CTypeOK'
    BY RunningOK DEF CTypeOK, RuntimeArrives, Dialogs
  <1>2. \A u \in Tabs : u # t => tab'[u] = tab[u]
    BY DEF CTypeOK, RuntimeArrives
  <1>3. ~tab'[t].sound /\ tab'[t].pc # "saving" /\ file' = file /\ saves' = saves
    BY DEF CTypeOK, RuntimeArrives, Dialogs
  <1> QED
    BY <1>1, <1>2, <1>3 DEF Quiet, ReadIsCurrent, Parsed

LEMMA EditKeeps ==
    ASSUME ConfigInv, NEW t \in Tabs, NEW f \in Form, NEW v \in Optional(f), Edit(t, f, v)
    PROVE  ConfigInv'
  <1> USE DEF ConfigInv
  <1>1. [tab[t].form EXCEPT ![f] = v] \in Settings
    BY EditOK, ConfigAssumption DEF CTypeOK, Dialogs
  <1>2. tab' = [tab EXCEPT ![t] = [tab[t] EXCEPT !.form = [tab[t].form EXCEPT ![f] = v]]]
    BY DEF Edit, CTypeOK, Dialogs
  <1>3. CTypeOK'
    BY <1>1, <1>2 DEF CTypeOK, Edit, Dialogs
  <1>4. \A u \in Tabs : /\ tab'[u].pc = tab[u].pc /\ tab'[u].read = tab[u].read
                        /\ tab'[u].sound = tab[u].sound
    BY <1>2 DEF CTypeOK, Dialogs
  <1> QED
    BY <1>3, <1>4 DEF Edit, Quiet, ReadIsCurrent, Parsed

LEMMA TruncateIs ==
    ASSUME CTypeOK, NEW t \in Tabs, Truncate(t)
    PROVE  tab' = [u \in Tabs |-> IF u = t
                                  THEN [tab[t] EXCEPT !.pc = "saving",
                                                      !.sound = tab[t].sound /\ ~Saving]
                                  ELSE [tab[u] EXCEPT !.sound = FALSE]]
  BY DEF Truncate, Unsound, CTypeOK, Dialogs

LEMMA TruncateKeeps ==
    ASSUME ConfigInv, NEW t \in Tabs, Truncate(t)
    PROVE  ConfigInv'
  <1> USE DEF ConfigInv
  <1>1. /\ tab' = [u \in Tabs |-> IF u = t
                                  THEN [tab[t] EXCEPT !.pc = "saving",
                                                      !.sound = tab[t].sound /\ ~Saving]
                                  ELSE [tab[u] EXCEPT !.sound = FALSE]]
        /\ file' = Nothing /\ saves' = saves
    BY TruncateIs DEF Truncate
  <1>2. CTypeOK'
    BY <1>1, NothingOK DEF CTypeOK, Dialogs
  <1>3. /\ tab'[t].pc = "saving"
        /\ tab'[t].sound => ~Saving
        /\ \A u \in Tabs \ {t} : ~tab'[u].sound /\ tab'[u].pc = tab[u].pc
    BY <1>1 DEF CTypeOK, Dialogs
  <1>4. Quiet'
    BY <1>1, <1>3 DEF Quiet, Saving
  <1>5. ReadIsCurrent'
    BY <1>1, <1>3 DEF ReadIsCurrent
  <1> QED
    BY <1>2, <1>4, <1>5

LEMMA WriteKeeps ==
    ASSUME ConfigInv, NEW t \in Tabs, Write(t)
    PROVE  ConfigInv'
  <1> USE DEF ConfigInv
  <1>1. saves' = saves /\ tab[t].pc = "saving" /\ Payload(t) \in Settings
    BY PayloadOK DEF Write
  <1>2. \A u \in Tabs \ {t} : ~tab[u].sound
    BY <1>1 DEF Quiet
  <1>3. /\ \A u \in Tabs \ {t} : tab'[u] = tab[u]
        /\ tab'[t].pc = "open"
    BY DEF Write, Saved, Failed, CTypeOK, Dialogs
  <1>4. Quiet'
    BY <1>1, <1>2, <1>3 DEF Quiet, Write, Saved, Failed, CTypeOK, Dialogs
  <1>5. CASE file' \in Written(Payload(t), file) /\ tab' = Saved(t)
    <2>1. CTypeOK'
      BY <1>1, <1>5, WrittenOK DEF CTypeOK, Saved, Dialogs
    <2>2. tab'[t].sound = tab[t].sound /\ tab'[t].read = Payload(t)
      BY <1>5 DEF Saved, CTypeOK, Dialogs
    <2>3. tab[t].sound => file' = Payload(t)
      BY <1>1, <1>5 DEF Quiet, Written
    <2>4. ReadIsCurrent'
      BY <1>1, <1>2, <1>3, <2>2, <2>3, OfSettings DEF ReadIsCurrent, Parsed
    <2> QED
      BY <1>4, <2>1, <2>4
  <1>6. CASE file' \in {file, Broken} /\ tab' = Failed(t)
    <2>1. CTypeOK'
      BY <1>1, <1>6 DEF CTypeOK, Failed, Dialogs
    <2>2. ~tab'[t].sound
      BY <1>6 DEF Failed, CTypeOK, Dialogs
    <2> QED
      BY <1>2, <1>3, <1>4, <2>1, <2>2 DEF ReadIsCurrent
  <1> QED
    BY <1>5, <1>6 DEF Write

LEMMA OthersKeep ==
    ASSUME ConfigInv, NEW w \in Writers, TruncateOther(w) \/ WriteOther(w)
    PROVE  ConfigInv'
  <1> USE DEF ConfigInv
  <1>1. CASE TruncateOther(w)
    <2>1. CTypeOK'
      BY <1>1, NothingOK DEF CTypeOK, TruncateOther, Dialogs
    <2>2. \A t \in Tabs : ~tab'[t].sound
      BY <1>1 DEF TruncateOther, CTypeOK, Dialogs
    <2> QED
      BY <2>1, <2>2 DEF Quiet, ReadIsCurrent
  <1>2. CASE WriteOther(w)
    <2>1. CTypeOK'
      BY <1>2, WrittenOK DEF CTypeOK, WriteOther
    <2>2. \A t \in Tabs : ~tab'[t].sound
      BY <1>2 DEF WriteOther, Quiet
    <2> QED
      BY <2>1, <2>2 DEF Quiet, ReadIsCurrent
  <1> QED
    BY <1>1, <1>2

LEMMA ConfigStep ==
    ASSUME ConfigInv, CNext \/ UNCHANGED configvars
    PROVE  ConfigInv'
  <1>1. CASE CNext
    BY <1>1, OpenKeeps, RuntimeKeeps, EditKeeps, TruncateKeeps, WriteKeeps, OthersKeep DEF CNext
  <1>2. CASE UNCHANGED configvars
    BY <1>2 DEF configvars, ConfigInv, CTypeOK, Quiet, ReadIsCurrent, Parsed
  <1> QED
    BY <1>1, <1>2

(* A page as ReadIsCurrent wants it knows what the file says, in every        *)
(* interleaving of dialogs, other savers, failing writes and kills between a  *)
(* truncation and its write.                                                  *)
THEOREM ReadIsCurrentTheorem == Spec => []ReadIsCurrent
  <1>1. Init => ConfigInv
    BY ConfigStart DEF Init
  <1>2. ConfigInv /\ [Next]_vars => ConfigInv'
    <2>1. [Next]_vars => CNext \/ UNCHANGED configvars
      BY DEF Next, vars, Launch, Start, BindForeign, Bind, BindAny, Stop, Others
    <2> QED
      BY <2>1, ConfigStep
  <1>3. ConfigInv => ReadIsCurrent
    BY DEF ConfigInv
  <1> QED
    BY <1>1, <1>2, <1>3, PTL DEF Spec

(* What a save of such a page writes is the form with the rest of the file.   *)
LEMMA SaveStep ==
    ASSUME ConfigInv, CNext \/ UNCHANGED configvars, NEW t \in Tabs,
           tab[t].pc = "saving", tab'[t].pc = "open", tab'[t].sound, NEW f \in Fields
    PROVE  Effective(Parsed(file'))[f] =
               IF f \in Form THEN Effective(tab[t].form)[f] ELSE Effective(tab[t].read)[f]
  <1>1. \A u \in Tabs : u # t => ~OpenConfig(u) /\ ~RuntimeArrives(u) /\ ~Truncate(u) /\ ~Write(u)
    <2> USE DEF ConfigInv, CTypeOK, Dialogs
    <2>1. \A u \in Tabs : u # t /\ (OpenConfig(u) \/ RuntimeArrives(u)) => tab'[t] = tab[t]
      BY DEF OpenConfig, RuntimeArrives
    <2>2. ASSUME NEW u \in Tabs, u # t, Truncate(u)
          PROVE  ~tab'[t].sound
      <3>1. tab'[t] = [tab[t] EXCEPT !.sound = FALSE]
        BY <2>2, TruncateIs
      <3> QED
        BY <3>1
    <2>3. \A u \in Tabs : u # t /\ Write(u) => tab'[t] = tab[t]
      BY DEF Write, Saved, Failed
    <2> QED
      BY <2>1, <2>2, <2>3
  <1>2. ~OpenConfig(t) /\ ~RuntimeArrives(t) /\ ~Truncate(t)
    BY DEF OpenConfig, RuntimeArrives, Truncate
  <1>3. \A u \in Tabs, g \in Form : \A v \in Optional(g) : ~Edit(u, g, v)
    BY DEF Edit, ConfigInv, CTypeOK, Dialogs
  <1>4. \A w \in Writers : ~TruncateOther(w) /\ ~WriteOther(w)
    BY DEF TruncateOther, WriteOther, ConfigInv, CTypeOK, Dialogs
  <1>5. Write(t)
    BY <1>1, <1>2, <1>3, <1>4 DEF CNext, configvars
  <1>6. file' \in Written(Payload(t), file) /\ tab[t].sound
    BY <1>5 DEF Write, Saved, Failed, ConfigInv, CTypeOK, Dialogs
  <1>7. file' = Payload(t) /\ Payload(t) \in Settings
    BY <1>6, PayloadOK DEF ConfigInv, Quiet, Written
  <1>8. Parsed(file') = Payload(t)
    BY <1>7, OfSettings DEF Parsed
  <1> QED
    BY <1>8 DEF Effective, Payload

(* A save from such a page gives every program what the form shows, and       *)
(* leaves the settings without a field as they were.                          *)
THEOREM SaveTheorem == Spec => SaveChangesForm
  <1>1. Init => ConfigInv
    BY ConfigStart DEF Init
  <1>2. [Next]_vars => CNext \/ UNCHANGED configvars
    BY DEF Next, vars, Launch, Start, BindForeign, Bind, BindAny, Stop, Others
  <1>3. ConfigInv /\ [Next]_vars => ConfigInv'
    BY <1>2, ConfigStep
  <1>4. ConfigInv /\ [Next]_vars =>
            [\A t \in Tabs : tab[t].pc = "saving" /\ tab'[t].pc = "open" /\ tab'[t].sound =>
                \A f \in Fields : Effective(Parsed(file'))[f] =
                    IF f \in Form THEN Effective(tab[t].form)[f]
                    ELSE Effective(tab[t].read)[f]]_configvars
    BY <1>2, SaveStep
  <1> QED
    BY <1>1, <1>3, <1>4, PTL DEF Spec, SaveChangesForm

----------------------------------------------------------------------------
(* The programs and their ports *)

(* The search goes upwards from its start and stays within the ports.        *)
Searching ==
    \A p \in Programs : prog[p].pc = "bind" =>
        /\ prog[p].start \in {0} \cup Ports
        /\ prog[p].start = 0 => prog[p].try = 0
        /\ prog[p].start # 0 => prog[p].try \in Ports /\ prog[p].try >= prog[p].start

(* A program that is up owns the port it told the others.                    *)
Owning ==
    \A p \in Programs : prog[p].pc = "up" =>
        /\ prog[p].port \in Ports /\ owner[prog[p].port] = p
        /\ prog[p].port >= prog[p].start

StartInv == ConfigInv /\ TypeOK /\ Searching /\ Owning /\ ExitJustified

LEMMA OffOK == Off \in Starts
  BY StartupAssumption DEF Off, Starts, Optional

LEMMA StartupStart == Init => StartInv
  <1>1. Init => TypeOK
    <2>1. Init => CTypeOK
      BY ConfigStart DEF Init, ConfigInv
    <2> QED
      BY <2>1, OffOK DEF Init, TypeOK
  <1>2. Init => \A p \in Programs : prog[p].pc = "off"
    <2>1. Off.pc = "off"
      BY DEF Off
    <2>2. ASSUME Init, NEW p \in Programs PROVE prog[p] = Off
      BY <2>2 DEF Init
    <2> QED
      BY <2>1, <2>2
  <1>3. Init => Searching /\ Owning /\ ExitJustified
    BY <1>2 DEF Searching, Owning, ExitJustified
  <1>4. Init => ConfigInv
    BY ConfigStart DEF Init
  <1> QED
    BY <1>1, <1>3, <1>4 DEF StartInv

(* A step of one program that leaves the ports keeps the invariant if its    *)
(* own record does.                                                          *)
LEMMA OneProgram ==
    ASSUME StartInv, UNCHANGED <<configvars, owner>>,
           NEW p \in Programs, NEW s \in Starts, Set(p, s), s.pc # "up",
           s.pc = "bind" => /\ s.start \in {0} \cup Ports
                            /\ s.start = 0 => s.try = 0
                            /\ s.start # 0 => s.try \in Ports /\ s.try >= s.start,
           s.pc = "exited" =>
               /\ s.why = "ports" => s.try \in {0, MaxPort}
               /\ s.why = "address" => s.ip = "insisted" \/ (p \in Serves /\ s.ip = "foreign")
    PROVE  StartInv'
  <1> USE DEF StartInv
  <1>1. ConfigInv'
    BY ConfigStep
  <1>2. prog' = [q \in Programs |-> IF q = p THEN s ELSE prog[q]] /\ owner' = owner
    BY DEF Set, TypeOK
  <1>3. TypeOK'
    BY <1>1, <1>2 DEF TypeOK, ConfigInv
  <1>4. Searching'
    BY <1>2 DEF Searching
  <1>5. Owning'
    BY <1>2 DEF Owning
  <1>6. ExitJustified'
    BY <1>2 DEF ExitJustified
  <1> QED
    BY <1>1, <1>3, <1>4, <1>5, <1>6

LEMMA ExitIs ==
    ASSUME TypeOK, NEW p \in Programs, NEW why \in {"settings", "address", "ports", "denied"}, Exit(p, why)
    PROVE  \E s \in Starts : /\ Set(p, s) /\ s.pc = "exited" /\ s.why = why
                             /\ s.try = prog[p].try /\ s.ip = prog[p].ip
  <1> DEFINE s == [prog[p] EXCEPT !.pc = "exited", !.why = why, !.over = Unset, !.start = 0]
  <1>1. prog[p] \in Starts /\ 0 \in 0..MaxPort /\ Unset \in Optional("port")
    BY StartupAssumption DEF TypeOK, Optional
  <1>2. /\ s \in Starts /\ s.pc = "exited" /\ s.why = why
        /\ s.try = prog[p].try /\ s.ip = prog[p].ip
    BY <1>1 DEF Starts
  <1> QED
    BY <1>2 DEF Exit

(* The port a program begins with is 0 or one that needs no privilege.       *)
LEMMA PrecedenceOK ==
    ASSUME NEW cli \in Optional("port"), NEW env \in Optional("port"), NEW s \in Settings
    PROVE  Precedence(cli, env, s) \in {0} \cup Ports
  <1>1. Effective(s)["port"] \in Values["port"]
    BY OfSettings, StartupAssumption DEF Effective, Optional
  <1> QED
    BY <1>1, StartupAssumption DEF Precedence, Optional

LEMMA LaunchIs ==
    ASSUME StartInv, NEW p \in Programs, Launch(p)
    PROVE  \/ Exit(p, "settings")
           \/ \E cli \in Optional("port"), env \in Optional("port"), ip \in {"ok", "foreign", "insisted"} :
                 LET n == Precedence(cli, env, Parsed(file))
                 IN  /\ file # Broken
                     /\ Set(p, [Off EXCEPT !.pc = "bind", !.start = n, !.try = n, !.ip = ip,
                                           !.over = IF cli # Unset THEN cli ELSE env])
  BY DEF Launch

LEMMA LaunchKeeps ==
    ASSUME StartInv, NEW p \in Programs, Launch(p)
    PROVE  StartInv'
  <1>1. UNCHANGED <<configvars, owner>> /\ prog[p].pc = "off"
    BY DEF Launch
  <1>2. CASE Exit(p, "settings")
    <2>1. PICK s \in Starts : Set(p, s) /\ s.pc = "exited" /\ s.why = "settings"
      BY <1>2, ExitIs DEF StartInv
    <2> QED
      BY <1>1, <2>1, OneProgram
  <1>3. CASE \E cli \in Optional("port"), env \in Optional("port"), ip \in {"ok", "foreign", "insisted"} :
                 LET n == Precedence(cli, env, Parsed(file))
                 IN  /\ file # Broken
                     /\ Set(p, [Off EXCEPT !.pc = "bind", !.start = n, !.try = n, !.ip = ip,
                                           !.over = IF cli # Unset THEN cli ELSE env])
    <2>1. PICK cli \in Optional("port"), env \in Optional("port"), ip \in {"ok", "foreign", "insisted"} :
              Set(p, [Off EXCEPT !.pc = "bind", !.start = Precedence(cli, env, Parsed(file)),
                                 !.try = Precedence(cli, env, Parsed(file)), !.ip = ip,
                                 !.over = IF cli # Unset THEN cli ELSE env])
      BY <1>3
    <2> DEFINE n == Precedence(cli, env, Parsed(file))
               over == IF cli # Unset THEN cli ELSE env
               s == [Off EXCEPT !.pc = "bind", !.start = n, !.try = n, !.ip = ip, !.over = over]
    <2>2. n \in {0} \cup Ports
      BY PrecedenceOK, ParsedOK DEF StartInv, TypeOK, CTypeOK
    <2>3. n \in 0..MaxPort /\ n >= n /\ (n # 0 => n \in Ports)
      BY <2>2, StartupAssumption DEF Ports
    <2>4. over \in Optional("port")
      OBVIOUS
    <2> HIDE DEF n, over
    <2>5. s \in Starts /\ s.pc = "bind" /\ s.start = n /\ s.try = n
      BY <2>3, <2>4, OffOK DEF Starts, Off
    <2>6. Set(p, s)
      BY <2>1 DEF n, over
    <2> HIDE DEF s
    <2> QED
      BY <1>1, <2>2, <2>3, <2>5, <2>6, OneProgram
  <1> QED
    BY <1>2, <1>3, LaunchIs

LEMMA BindForeignKeeps ==
    ASSUME StartInv, NEW p \in Programs, BindForeign(p)
    PROVE  StartInv'
  <1>1. /\ UNCHANGED <<configvars, owner>> /\ prog[p].pc = "bind" /\ prog[p].ip # "ok"
        /\ prog[p] \in Starts
    BY DEF BindForeign, StartInv, TypeOK
  <1>2. CASE p \in Webs /\ prog[p].ip = "foreign"
    <2> DEFINE s == [prog[p] EXCEPT !.ip = "ok", !.try = prog[p].start]
    <2>1. Set(p, s)
      BY <1>2 DEF BindForeign
    <2>2. s \in Starts /\ s.pc = "bind" /\ s.start = prog[p].start /\ s.try = prog[p].start
      BY <1>1 DEF Starts
    <2>3. prog[p].start \in {0} \cup Ports /\ (prog[p].start # 0 => prog[p].start \in Ports)
      BY <1>1 DEF StartInv, Searching
    <2>4. prog[p].start >= prog[p].start
      <3>1. prog[p].start \in 0..MaxPort
        BY <1>1 DEF Starts
      <3> QED
        BY <3>1
    <2> HIDE DEF s
    <2> QED
      BY <1>1, <2>1, <2>2, <2>3, <2>4, OneProgram
  <1>3. CASE ~(p \in Webs /\ prog[p].ip = "foreign")
    <2>1. Exit(p, "address")
      BY <1>3 DEF BindForeign
    <2>2. PICK s \in Starts : /\ Set(p, s) /\ s.pc = "exited" /\ s.why = "address"
                              /\ s.ip = prog[p].ip
      BY <2>1, ExitIs DEF StartInv
    <2>3. s.ip = "insisted" \/ (p \in Serves /\ s.ip = "foreign")
      BY <1>1, <1>3, <2>2 DEF Starts, Programs
    <2> QED
      BY <1>1, <2>2, <2>3, OneProgram
  <1> QED
    BY <1>2, <1>3

(* Taking a free port that is not below the one to begin with.               *)
LEMMA ListenKeeps ==
    ASSUME StartInv, NEW p \in Programs, NEW n \in Ports, Listen(p, n), UNCHANGED configvars,
           prog[p].pc = "bind", n >= prog[p].start
    PROVE  StartInv'
  <1> DEFINE s == [Off EXCEPT !.pc = "up", !.start = prog[p].start, !.port = n]
  <1> USE DEF StartInv
  <1>1. ConfigInv'
    BY ConfigStep
  <1>2. /\ owner[n] = Free /\ owner' = [m \in Ports |-> IF m = n THEN p ELSE owner[m]]
        /\ prog' = [q \in Programs |-> IF q = p THEN s ELSE prog[q]]
    BY DEF Listen, Set, TypeOK
  <1>3. n \in 0..MaxPort
    BY StartupAssumption DEF Ports
  <1>4. s \in Starts /\ s.pc = "up" /\ s.start = prog[p].start /\ s.port = n
    BY <1>3, OffOK DEF TypeOK, Starts, Off
  <1> HIDE DEF s
  <1>5. TypeOK'
    BY <1>1, <1>2, <1>4 DEF TypeOK, ConfigInv
  <1>6. Searching' /\ ExitJustified'
    BY <1>2, <1>4 DEF Searching, ExitJustified
  <1>7. ASSUME NEW q \in Programs, prog'[q].pc = "up"
        PROVE  /\ prog'[q].port \in Ports /\ owner'[prog'[q].port] = q
               /\ prog'[q].port >= prog'[q].start
    <2>1. CASE q = p
      BY <1>2, <1>4, <2>1
    <2>2. CASE q # p
      <3>1. prog'[q] = prog[q]
        BY <1>2, <2>2
      <3>2. owner[prog[q].port] = q /\ q # Free
        BY <1>7, <3>1, StartupAssumption DEF Owning
      <3> QED
        BY <1>2, <1>7, <3>1, <3>2 DEF Owning
    <2> QED
      BY <2>1, <2>2
  <1> QED
    BY <1>1, <1>5, <1>6, <1>7 DEF Owning

(* Any other error of the system ends the search.                           *)
LEMMA DeniedKeeps ==
    ASSUME StartInv, NEW p \in Programs, prog[p].pc = "bind", Exit(p, "denied"),
           UNCHANGED <<configvars, owner>>
    PROVE  StartInv'
  <1>1. PICK s \in Starts : Set(p, s) /\ s.pc = "exited" /\ s.why = "denied"
    BY ExitIs DEF StartInv
  <1> QED
    BY <1>1, OneProgram

LEMMA BindKeeps ==
    ASSUME StartInv, NEW p \in Programs, Bind(p)
    PROVE  StartInv'
  <1> DEFINE n == prog[p].try
  <1>1. /\ prog[p].pc = "bind" /\ n # 0 /\ UNCHANGED configvars
        /\ prog[p] \in Starts
    BY DEF Bind, StartInv, TypeOK
  <1>2. /\ prog[p].start \in Ports /\ n \in Ports /\ n >= prog[p].start
    BY <1>1 DEF StartInv, Searching
  <1>3. CASE Listen(p, n)
    BY <1>1, <1>2, <1>3, ListenKeeps
  <1>4. CASE n = MaxPort /\ Exit(p, "ports") /\ UNCHANGED owner
    <2>1. PICK s \in Starts : Set(p, s) /\ s.pc = "exited" /\ s.why = "ports" /\ s.try = MaxPort
      BY <1>4, ExitIs DEF StartInv
    <2> QED
      BY <1>1, <1>4, <2>1, OneProgram
  <1>5. CASE n # MaxPort /\ Set(p, [prog[p] EXCEPT !.try = n + 1]) /\ UNCHANGED owner
    <2> DEFINE s == [prog[p] EXCEPT !.try = n + 1]
    <2>1. n + 1 \in Ports /\ n + 1 \in 0..MaxPort /\ n + 1 >= prog[p].start
      BY <1>2, <1>5, StartupAssumption DEF Ports
    <2>2. s \in Starts /\ s.pc = "bind" /\ s.start = prog[p].start /\ s.try = n + 1
      BY <1>1, <2>1 DEF Starts
    <2>3. prog[p].start # 0
      BY <1>2, StartupAssumption DEF Ports
    <2>4. Set(p, s)
      BY <1>5
    <2> HIDE DEF s
    <2> QED
      BY <1>1, <1>2, <1>5, <2>1, <2>2, <2>3, <2>4, OneProgram
  <1>6. CASE Exit(p, "denied") /\ UNCHANGED owner
    BY <1>1, <1>6, DeniedKeeps
  <1> QED
    BY <1>3, <1>4, <1>5, <1>6 DEF Bind

LEMMA BindAnyKeeps ==
    ASSUME StartInv, NEW p \in Programs, BindAny(p)
    PROVE  StartInv'
  <1>1. prog[p].pc = "bind" /\ prog[p].try = 0 /\ UNCHANGED configvars
    BY DEF BindAny
  <1>2. prog[p].start = 0
    BY <1>1, StartupAssumption DEF StartInv, Searching, Ports
  <1>3. CASE \E n \in Ports : Listen(p, n)
    <2>1. \A n \in Ports : n >= prog[p].start
      BY <1>2, StartupAssumption DEF Ports
    <2> QED
      BY <1>1, <1>3, <2>1, ListenKeeps
  <1>4. CASE Exit(p, "ports") /\ UNCHANGED owner
    <2>1. PICK s \in Starts : Set(p, s) /\ s.pc = "exited" /\ s.why = "ports" /\ s.try = 0
      BY <1>1, <1>4, ExitIs DEF StartInv
    <2> QED
      BY <1>1, <1>4, <2>1, OneProgram
  <1>5. CASE Exit(p, "denied") /\ UNCHANGED owner
    BY <1>1, <1>5, DeniedKeeps
  <1> QED
    BY <1>3, <1>4, <1>5 DEF BindAny

LEMMA StopKeeps ==
    ASSUME StartInv, NEW p \in Programs, Stop(p)
    PROVE  StartInv'
  <1> USE DEF StartInv
  <1>1. ConfigInv'
    BY ConfigStep DEF Stop
  <1>2. /\ prog' = [q \in Programs |-> IF q = p THEN Off ELSE prog[q]]
        /\ owner' = [n \in Ports |-> IF owner[n] = p THEN Free ELSE owner[n]]
    BY DEF Stop, Set, TypeOK
  <1>3. Off \in Starts /\ Off.pc = "off"
    BY OffOK DEF Off
  <1>4. TypeOK'
    BY <1>1, <1>2, <1>3 DEF TypeOK, ConfigInv
  <1>5. Searching' /\ ExitJustified'
    BY <1>2, <1>3 DEF Searching, ExitJustified
  <1>6. Owning'
    BY <1>2, <1>3 DEF Owning
  <1> QED
    BY <1>1, <1>4, <1>5, <1>6

LEMMA OthersKeeps ==
    ASSUME StartInv, NEW n \in Contested, Others(n)
    PROVE  StartInv'
  <1> USE DEF StartInv
  <1>1. ConfigInv' /\ prog' = prog
    BY ConfigStep DEF Others
  <1>2. /\ owner[n] \in {Free, Other} /\ n \in Ports
        /\ owner' = [m \in Ports |-> IF m = n THEN IF owner[n] = Free THEN Other ELSE Free
                                     ELSE owner[m]]
    BY StartupAssumption DEF Others, TypeOK
  <1>3. TypeOK'
    BY <1>1, <1>2 DEF TypeOK, ConfigInv
  <1>4. Searching' /\ ExitJustified'
    BY <1>1 DEF Searching, ExitJustified
  <1>5. \A p \in Programs : p # Free /\ p # Other
    BY StartupAssumption
  <1>6. Owning'
    BY <1>1, <1>2, <1>5 DEF Owning
  <1> QED
    BY <1>1, <1>3, <1>4, <1>6

LEMMA StartupStep ==
    ASSUME StartInv, [Next]_vars
    PROVE  StartInv'
  <1>1. CASE CNext /\ UNCHANGED <<prog, owner>>
    <2>1. ConfigInv'
      BY <1>1, ConfigStep DEF StartInv
    <2> QED
      BY <1>1, <2>1 DEF StartInv, TypeOK, ConfigInv, Searching, Owning, ExitJustified
  <1>2. CASE \E p \in Programs : Launch(p) \/ Start(p) \/ Stop(p)
    BY <1>2, LaunchKeeps, BindForeignKeeps, BindKeeps, BindAnyKeeps, StopKeeps DEF Start
  <1>3. CASE \E n \in Contested : Others(n)
    BY <1>3, OthersKeeps
  <1>4. CASE UNCHANGED vars
    <2>1. UNCHANGED configvars /\ UNCHANGED <<prog, owner>>
      BY <1>4 DEF vars
    <2>2. ConfigInv'
      BY <2>1, ConfigStep DEF StartInv
    <2> QED
      BY <2>1, <2>2 DEF StartInv, TypeOK, ConfigInv, Searching, Owning, ExitJustified
  <1> QED
    BY <1>1, <1>2, <1>3, <1>4 DEF Next

(* The file, the dialogs, the programs and the ports stay what they may be:   *)
(* the counter of the search never leaves the u16 range.                      *)
THEOREM StartupTyped == Spec => []TypeOK
  <1>1. StartInv /\ [Next]_vars => StartInv'
    BY StartupStep
  <1>2. StartInv => TypeOK
    BY DEF StartInv
  <1> QED
    BY StartupStart, <1>1, <1>2, PTL DEF Spec

(* A program that gives up has a reason, for any range of ports and any       *)
(* other programs that take and leave them.                                   *)
THEOREM ExitTheorem == Spec => []ExitJustified
  <1>1. StartInv /\ [Next]_vars => StartInv'
    BY StartupStep
  <1>2. StartInv => ExitJustified
    BY DEF StartInv
  <1> QED
    BY StartupStart, <1>1, <1>2, PTL DEF Spec

(* The port in a node's heartbeats is its own: no two programs that are up    *)
(* have one port, and what one stops frees is its own.                        *)
THEOREM PortTheorem == Spec => []PortIsMine
  <1>1. StartInv /\ [Next]_vars => StartInv'
    BY StartupStep
  <1>2. StartInv => PortIsMine
    BY DEF StartInv, Owning, PortIsMine
  <1> QED
    BY StartupStart, <1>1, <1>2, PTL DEF Spec

(* A launch takes what the file says when nothing is given that precedes it.  *)
LEMMA LaunchTakes ==
    ASSUME StartInv, [Next]_vars, NEW p \in Programs, prog[p].pc = "off", prog'[p].pc = "bind"
    PROVE  /\ file # Broken
           /\ prog'[p].start = IF prog'[p].over # Unset THEN prog'[p].over
                               ELSE Effective(Parsed(file))["port"]
  <1> USE DEF StartInv
  <1>1. prog' # prog
    OBVIOUS
  <1>2. \A q \in Programs : ~Stop(q)
    <2>1. ASSUME NEW q \in Programs, Stop(q) PROVE prog'[p].pc = "off"
      BY <2>1 DEF Stop, Set, TypeOK, Off
    <2> QED
      BY <2>1
  <1>3. \A q \in Programs : ~Start(q)
    <2>1. ASSUME NEW q \in Programs, Start(q) PROVE prog[q].pc = "bind" /\ prog'[p].pc = "off"
      <3>1. prog[q].pc = "bind"
        BY <2>1 DEF Start, BindForeign, Bind, BindAny
      <3>2. \E s : Set(q, s)
        BY <2>1 DEF Start, BindForeign, Bind, BindAny, Listen, Exit
      <3> QED
        BY <3>1, <3>2 DEF Set, TypeOK
    <2> QED
      BY <2>1
  <1>4. \A q \in Programs : q # p => ~Launch(q)
    <2>1. ASSUME NEW q \in Programs, q # p, Launch(q) PROVE prog'[p] = prog[p]
      <3>1. \E s : Set(q, s)
        BY <2>1, LaunchIs DEF Exit
      <3> QED
        BY <2>1, <3>1 DEF Set, TypeOK
    <2> QED
      BY <2>1
  <1>5. Launch(p)
    BY <1>1, <1>2, <1>3, <1>4 DEF Next, vars, Others
  <1>6. ~Exit(p, "settings")
    <2>1. Exit(p, "settings") => prog'[p].pc = "exited"
      BY DEF Exit, Set, TypeOK, Starts
    <2> QED
      BY <2>1
  <1>7. PICK cli \in Optional("port"), env \in Optional("port"), ip \in {"ok", "foreign", "insisted"} :
            /\ file # Broken
            /\ Set(p, [Off EXCEPT !.pc = "bind", !.start = Precedence(cli, env, Parsed(file)),
                                  !.try = Precedence(cli, env, Parsed(file)), !.ip = ip,
                                  !.over = IF cli # Unset THEN cli ELSE env])
    BY <1>5, <1>6, LaunchIs
  <1>8. /\ prog'[p].start = Precedence(cli, env, Parsed(file))
        /\ prog'[p].over = IF cli # Unset THEN cli ELSE env
    BY <1>7 DEF Set, TypeOK, Off
  <1> QED
    BY <1>7, <1>8 DEF Precedence

(* A setting the page was told is saved is what a program starts with.        *)
THEOREM SavedTheorem == Spec => SavedApplies
  <1>1. StartInv /\ [Next]_vars => StartInv'
    BY StartupStep
  <1>2. StartInv /\ [Next]_vars =>
            [\A p \in Programs, t \in Tabs :
                /\ prog[p].pc = "off" /\ prog'[p].pc = "bind"
                /\ tab[t].sound /\ tab[t].pc = "open"
                => prog'[p].start = IF prog'[p].over # Unset THEN prog'[p].over
                                    ELSE Effective(tab[t].read)["port"]]_vars
    <2>1. ASSUME StartInv, [Next]_vars, NEW p \in Programs, NEW t \in Tabs,
                 prog[p].pc = "off", prog'[p].pc = "bind", tab[t].sound, tab[t].pc = "open"
          PROVE  prog'[p].start = IF prog'[p].over # Unset THEN prog'[p].over
                                  ELSE Effective(tab[t].read)["port"]
      <3>1. Parsed(file) = tab[t].read
        BY <2>1 DEF StartInv, ConfigInv, ReadIsCurrent
      <3> QED
        BY <2>1, <3>1, LaunchTakes
    <2> QED
      BY <2>1
  <1> QED
    BY StartupStart, <1>1, <1>2, PTL DEF Spec, SavedApplies

=============================================================================
