--------------------------- MODULE SessionStates ----------------------------
(***************************************************************************)
(* The states of a session's row and the moves its table allows            *)
(* (packages/protocol/src/index.ts), shared by the modules about sessions. *)
(***************************************************************************)

Terminal == {"stopped", "failed", "completed"}
States == Terminal \cup {"queued", "starting", "running", "idle", "cancelling",
                         "offline"}

\* sessionTransitions; a session without a row is "none".
Transitions ==
    [queued |-> {"starting", "failed", "offline", "stopped"},
     starting |-> {"running", "idle", "failed", "offline", "stopped"},
     running |-> {"idle", "cancelling", "failed", "offline", "stopped",
                  "completed"},
     idle |-> {"running", "failed", "offline", "stopped", "completed"},
     cancelling |-> {"idle", "failed", "offline", "stopped"},
     offline |-> {"stopped", "failed", "idle", "starting", "running"},
     stopped |-> {"starting"}, failed |-> {"starting"},
     completed |-> {"starting"}, none |-> {"queued"}]

\* canTransition.
CanTransition(from, to) == from = to \/ to \in Transitions[from]

=============================================================================
