------------------------------ MODULE EventPaths ------------------------------
(***************************************************************************)
(* The two ways an event gets from a Node to the Host.  The router's event *)
(* callback (apps/node/src/main.ts) offers it to the console first, which  *)
(* captures the events of a session the Host granted into the session's    *)
(* journal; any other goes to the socket or, with none, to the outbox.     *)
(* A session's path does not change while it has a journal, and the two    *)
(* share nothing but the socket: here the watched session takes one or the *)
(* other.                                                                  *)
(***************************************************************************)
EXTENDS SessionConsole

CONSTANTS
    \* Those of OutboxDelivery.
    MaxEvents, MaxConns, Capacity, Orphans, StateEvents, StorageFails,
    CatalogSlow, LateReady

VARIABLES
    path,      \* "console" if the journal has the session, else "outbox"
    \* Those of OutboxDelivery, its two directions of the wire renamed.
    raised, alive, terminal, pending, batches, inFlight, reconcile, hold, conn,
    nodePhase, framesToHost, framesToNode, hostPhase, awaiting, flush, log,
    refused, sess, held, dropped

Outbox == INSTANCE OutboxDelivery WITH
    toHost <- framesToHost, toNode <- framesToNode

outboxVars == <<raised, alive, terminal, pending, batches, inFlight, reconcile,
                hold, conn, nodePhase, framesToHost, framesToNode, hostPhase,
                awaiting, flush, log, refused, sess, held, dropped>>
allVars == <<vars, path, outboxVars>>

\* The watched session's events are captured by its journal, or they are not.
BothInit ==
    /\ path \in {"console", "outbox"}
    /\ Init /\ (path = "outbox" => ~agent.busy)
    /\ Outbox!Init

Captured(A) == path = "console" /\ A /\ UNCHANGED <<path, outboxVars>>
NotCaptured(A) == path = "outbox" /\ A /\ UNCHANGED <<path, vars>>

BothNext ==
    \/ Captured(Emit) \/ Captured(TurnEnds) \/ Captured(AgentEnds)
    \/ Captured(LocalPrompt) \/ Captured(CancelQueued)
    \/ Captured(NodeStep) \/ Captured(HostStep) \/ Captured(HostWork)
    \/ Captured(Connect) \/ Captured(Break) \/ Captured(NodeCrash)
    \/ Captured(RequestTimesOut) \/ Captured(RequestResync)
    \/ NotCaptured(Outbox!Next)

BothSpec == BothInit /\ [][BothNext]_allVars

\* The fairness of each path, for the session that takes it.
BothFairSpec ==
    /\ BothSpec
    /\ WF_allVars(Captured(Flush)) /\ WF_allVars(Captured(Invoke))
    /\ WF_allVars(Captured(PumpLocal)) /\ WF_allVars(Captured(PumpLive))
    /\ WF_allVars(Captured(AckWrite)) /\ WF_allVars(Captured(Initialize))
    /\ WF_allVars(Captured(AdmitWork)) /\ WF_allVars(Captured(NodeReads))
    /\ WF_allVars(Captured(Connect)) /\ WF_allVars(Captured(HostStep))
    /\ WF_allVars(NotCaptured(Outbox!NodeStep))
    /\ WF_allVars(NotCaptured(Outbox!NodeNotices))
    /\ WF_allVars(NotCaptured(Outbox!HostReads))
    /\ WF_allVars(NotCaptured(Outbox!HostNotices))

-----------------------------------------------------------------------------

\* On the path without a journal, the Host's log is an in-order selection of
\* what the Node raised, and the Node lets go of an event only when the Host has
\* it (the outbox, its flushes and the Host's message handler).
OutboxRelays == Outbox!Relays

\* On that path, a session missing from the inventory is given up only after
\* the batch that explains it, and what an outage held back gets through.
OutboxSettles == Outbox!NewsArrives
===============================================================================
