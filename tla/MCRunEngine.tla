---------------------------- MODULE MCRunEngine -----------------------------
(***************************************************************************)
(* Plans of two steps on which RunEngine is model-checked.                 *)
(***************************************************************************)
EXTENDS RunEngine

OneStep == <<"a">>
NoneFirst == [s \in {"a"} |-> {}]
TwoSteps == <<"a", "b">>
Independent == [s \in {"a", "b"} |-> {}]
InTurn == [s \in {"a", "b"} |-> IF s = "b" THEN {"a"} ELSE {}]

\* What is owed to the lead decides nothing but whether it is woken: states
\* that differ in it alone are one state to every invariant of the safety run.
ButWhatIsOwed ==
    <<led, run.st, step, sess, memo, mail, link, down, up, agent,
      breaks, acts, asked, ended>>

=============================================================================
