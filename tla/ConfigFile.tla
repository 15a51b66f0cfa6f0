------------------------------ MODULE ConfigFile ------------------------------
(* The configuration file and the settings dialog that rewrites it            *)
(* (src/src/server.rs, handle_get_config and handle_save_config;              *)
(* src/src/config.rs, AppConfig; the dialog of src/web/index.html).  The file *)
(* is written in place, with no lock: std::fs::write truncates it and then    *)
(* writes, while another tab, or another program of the user, does the same.  *)
EXTENDS Naturals

CONSTANTS
    Fields,   \* the settings, ConfigDefaults
    Form,     \* those the dialog has a field for
    Values,   \* setting -> its values
    Default,  \* setting -> what the program and the dialog take when it is unset
    Running,  \* setting of the form -> its value in the program that serves the page
    Tabs,     \* settings dialogs that are followed
    Writers,  \* others, of this program or another one
    Unset,    \* of a setting: not in the file
    Missing, Broken  \* of the file: there is none, it does not parse

ASSUME ConfigAssumption ==
    /\ Form \subseteq Fields
    /\ \A f \in Fields : Default[f] \in Values[f] \cup {Unset}
    /\ \A f \in Form : Running[f] \in Values[f] \cup {Unset}

Optional(f) == Values[f] \cup {Unset}
Settings == {s \in [Fields -> UNION {Optional(f) : f \in Fields}] : \A f \in Fields : s[f] \in Optional(f)}

ASSUME FileAssumption == Missing \notin Settings /\ Broken \notin Settings

VARIABLES
    file,  \* Missing, Broken or what it says
    tab,   \* tab -> see Dialogs
    saves  \* the other dialogs whose save has truncated the file

configvars == <<file, tab, saves>>

(* pc: closed, open, or saving (the file is truncated).  read: the page's    *)
(* state.configDefaults; form: its fields, what the user changed included.   *)
(* sound: nothing but this tab touched the file, and nothing but its user    *)
(* the form, since the file was read (no variable of the code).              *)
Dialogs == [pc : {"closed", "open", "saving"}, read : Settings, form : Settings, sound : BOOLEAN]

----------------------------------------------------------------------------

Nothing == [f \in Fields |-> Unset]

(* toml::from_str; an empty or missing file sets nothing, and neither does a *)
(* broken one for the dialog (unwrap_or_default).                            *)
Parsed(c) == IF c \in {Missing, Broken} THEN Nothing ELSE c

(* What a program takes from it: unwrap_or at each setting.                  *)
Effective(s) == [f \in Fields |-> IF s[f] = Unset THEN Default[f] ELSE s[f]]

(* What ends up in the file when `mine` is written over `there`: another     *)
(* save's longer content sticks out behind it.                               *)
Written(mine, there) ==
    IF there = Nothing THEN {mine}
    ELSE {mine, Broken, [f \in Fields |-> IF mine[f] = Unset THEN Parsed(there)[f] ELSE mine[f]]}

Saving == saves # {} \/ \E t \in Tabs : tab[t].pc = "saving"

CInit ==
    /\ file \in {Missing, Broken} \cup Settings
    /\ tab = [t \in Tabs |-> [pc |-> "closed", read |-> Nothing, form |-> Nothing, sound |-> FALSE]]
    /\ saves = {}

(* applyConfigValues: the defaults where nothing is set.                     *)
Filled(s) == [f \in Fields |-> IF f \in Form THEN Effective(s)[f] ELSE Unset]

(* loadConfig: GET /api/config answers what it could read.                   *)
OpenConfig(t) ==
    /\ tab[t].pc # "saving"
    /\ LET s == Parsed(file)
       IN  tab' = [tab EXCEPT ![t] = [pc |-> "open", read |-> s, form |-> Filled(s),
                                      sound |-> file # Broken /\ ~Saving]]
    /\ UNCHANGED <<file, saves>>

(* The answer to the loadRuntime of the page's start comes only now: it      *)
(* fills the same form with what the program runs with.                      *)
RuntimeArrives(t) ==
    /\ tab[t].pc = "open"
    /\ tab' = [tab EXCEPT ![t].sound = FALSE,
                          ![t].form = Filled([f \in Fields |-> IF f \in Form THEN Running[f]
                                                                ELSE Unset])]
    /\ UNCHANGED <<file, saves>>

Edit(t, f, v) ==
    /\ tab[t].pc = "open"
    /\ tab' = [tab EXCEPT ![t].form[f] = v]
    /\ UNCHANGED <<file, saves>>

(* Mutant: only the form is sent.                                            *)
PayloadFormOnly(t) == tab[t].form

(* saveConfig: what was read, with the form's fields over it; empty fields   *)
(* are left out.                                                             *)
Payload(t) == [f \in Fields |-> IF f \in Form THEN tab[t].form[f] ELSE tab[t].read[f]]

(* Whoever begins a save, nobody else's page is sound any more.              *)
Unsound(t) == [u \in Tabs |-> IF u = t THEN tab[u] ELSE [tab[u] EXCEPT !.sound = FALSE]]

(* handle_save_config: the directory is created and the file opened, which   *)
(* truncates it.  When either fails, the page is told and nothing happened.  *)
Truncate(t) ==
    /\ tab[t].pc = "open"
    /\ file' = Nothing
    /\ tab' = [Unsound(t) EXCEPT ![t].pc = "saving", ![t].sound = @ /\ ~Saving]
    /\ UNCHANGED saves

(* The page learns whether its settings are saved.                           *)
Saved(t) == [tab EXCEPT ![t].pc = "open", ![t].read = Payload(t)]
Failed(t) == [tab EXCEPT ![t].pc = "open", ![t].sound = FALSE]

(* The content is written and the page answered.  A write that fails leaves  *)
(* what it got to, and so does a program that is killed before it.           *)
Write(t) ==
    /\ tab[t].pc = "saving"
    /\ \/ file' \in Written(Payload(t), file) /\ tab' = Saved(t)
       \/ file' \in {file, Broken} /\ tab' = Failed(t)
    /\ UNCHANGED saves

(* Another dialog's save, of any settings, in the same two steps.            *)
TruncateOther(w) ==
    /\ w \notin saves
    /\ saves' = saves \cup {w}
    /\ file' = Nothing
    /\ tab' = [t \in Tabs |-> [tab[t] EXCEPT !.sound = FALSE]]

WriteOther(w) ==
    /\ w \in saves
    /\ saves' = saves \ {w}
    /\ \/ \E s \in Settings : file' \in Written(s, file)
       \/ file' \in {file, Broken}
    /\ UNCHANGED tab

CNext ==
    \/ \E t \in Tabs :
          \/ OpenConfig(t) \/ RuntimeArrives(t) \/ Truncate(t) \/ Write(t)
          \/ \E f \in Form : \E v \in Optional(f) : Edit(t, f, v)
    \/ \E w \in Writers : TruncateOther(w) \/ WriteOther(w)

----------------------------------------------------------------------------
(* Properties *)

CTypeOK ==
    /\ file \in {Missing, Broken} \cup Settings
    /\ tab \in [Tabs -> Dialogs]
    /\ saves \subseteq Writers

(* As long as no other save begins, the page knows what the file says: what  *)
(* it read, and after a save it was told succeeded, what it saved.           *)
ReadIsCurrent ==
    \A t \in Tabs : tab[t].sound /\ tab[t].pc = "open" =>
        file # Broken /\ Parsed(file) = tab[t].read

(* A save from such a page gives every program what the form shows, and      *)
(* leaves the settings that have no field in the dialog as they were.        *)
SaveChangesForm ==
    [][\A t \in Tabs : tab[t].pc = "saving" /\ tab'[t].pc = "open" /\ tab'[t].sound =>
          \A f \in Fields : Effective(Parsed(file'))[f] =
              IF f \in Form THEN Effective(tab[t].form)[f] ELSE Effective(tab[t].read)[f]]_configvars
=============================================================================
