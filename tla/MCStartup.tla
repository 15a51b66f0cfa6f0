------------------------------- MODULE MCStartup -------------------------------
(* An instance of Startup: two settings, of which the dialog has one.         *)
EXTENDS Startup

CONSTANT on

MCValues == [f \in {"port", "progress"} |-> IF f = "port" THEN {0, 2} ELSE {on}]
MCDefault == [f \in {"port", "progress"} |-> IF f = "port" THEN 2 ELSE Unset]
MCRunning == [f \in {"port"} |-> 0]
=============================================================================
