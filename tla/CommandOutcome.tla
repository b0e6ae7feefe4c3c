---------------------------- MODULE CommandOutcome ----------------------------
(***************************************************************************)
(* What remote command execution promises a lead, whatever the two         *)
(* machines and the connection between them do: the exact approved command *)
(* runs at most once, and the outcome the lead is told is true when it is  *)
(* told and stays true.  docs/remote-command-execution-plan.md, "Once".    *)
(***************************************************************************)
CONSTANT Execs

VARIABLES
    fate,  \* what becomes of the command's process
    told   \* what the lead was told of it

vars == <<fate, told>>

Init == fate = [e \in Execs |-> "open"] /\ told = [e \in Execs |-> "nothing"]

\* The process starts only while its fate is open, and so at most once.
Runs(e) == fate[e] = "open" /\ fate'[e] = "running" /\ told'[e] = told[e]

\* All of its processes are gone.
Ends(e) == fate[e] = "running" /\ fate'[e] = "over" /\ told'[e] = told[e]

\* It is decided that the command never runs; the lead may learn it at once.
Forbidden(e) == /\ fate[e] = "open" /\ fate'[e] = "never"
                /\ told'[e] \in {told[e], "never"}

Tells(e) == /\ told[e] = "nothing" /\ fate[e] \in {"over", "never"}
            /\ fate'[e] = fate[e] /\ told'[e] = fate[e]

Rests(e) == fate'[e] = fate[e] /\ told'[e] = told[e]

\* One step of the system may settle several commands.
Next == \A e \in Execs : Runs(e) \/ Ends(e) \/ Forbidden(e) \/ Tells(e) \/ Rests(e)

Spec == Init /\ [][Next]_vars
=============================================================================
