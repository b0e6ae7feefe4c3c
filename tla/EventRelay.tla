----------------------------- MODULE EventRelay -----------------------------
(***************************************************************************)
(* What event delivery promises, whatever connections do.  Events are      *)
(* numbered as they are raised.  The Host's log is an in-order selection   *)
(* of them: gaps are possible, reordering and duplicates are not.  The     *)
(* Node retains an event it could not send until the Host has stored it or *)
(* refused it for good, or until its bounded buffer overflows.             *)
(***************************************************************************)
EXTENDS Naturals, Sequences

VARIABLES
    raised,    \* the number of the last event raised
    log,       \* the events the Host stored, in the order it stored them
    refused,   \* events the Host rejected permanently
    retained,  \* events the Node holds
    dropped    \* events the Node's buffer dropped for capacity

relayVars == <<raised, log, refused, retained, dropped>>

InLog(e) == \E i \in DOMAIN log : log[i] = e

Init ==
    /\ raised = 0 /\ log = <<>>
    /\ refused = {} /\ retained = {} /\ dropped = {}

\* An event is raised and sent at once; it may never arrive.
Send ==
    /\ raised' = raised + 1
    /\ UNCHANGED <<log, refused, retained, dropped>>

\* An event is raised and retained; the oldest ones may have to go.
Retain ==
    /\ raised' = raised + 1
    /\ \E gone \in {{}} \cup {{e} : e \in retained} :
          /\ retained' = (retained \ gone) \cup {raised + 1}
          /\ dropped' = dropped \cup gone
    /\ UNCHANGED <<log, refused>>

\* The Host stores an event newer than everything it has.
Store ==
    /\ \E e \in 1..raised :
          /\ \A i \in DOMAIN log : log[i] < e
          /\ log' = Append(log, e)
    /\ UNCHANGED <<raised, refused, retained, dropped>>

Refuse ==
    /\ \E e \in 1..raised : refused' = refused \cup {e}
    /\ UNCHANGED <<raised, log, retained, dropped>>

\* The Node lets go of events the Host has dealt with.
Release ==
    /\ \E done \in SUBSET retained :
          /\ \A e \in done : InLog(e) \/ e \in refused
          /\ retained' = retained \ done
    /\ UNCHANGED <<raised, log, refused, dropped>>

Next == Send \/ Retain \/ Store \/ Refuse \/ Release

Spec == Init /\ [][Next]_relayVars
=============================================================================
