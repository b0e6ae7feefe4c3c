--------------------------- MODULE OutboxDelivery ---------------------------
(***************************************************************************)
(* How a Node gets session events to the Host across connections that      *)
(* break: the Node's bounded outbox (apps/node/src/outbox.ts), the socket  *)
(* code that decides whether an event is sent or held and replays what was *)
(* held (apps/node/src/main.ts, socket.ts), and the Host's node socket     *)
(* (apps/host/src/gateway/node-socket.ts), which tracks a replayed batch,  *)
(* stores its events and reconciles sessions only once the batch is in.    *)
(*                                                                         *)
(* Events are numbered in the order the Node raises them.  One session is  *)
(* watched: the Node raises its terminal event at some point, and `sess`   *)
(* is what the Host believes of it.                                        *)
(***************************************************************************)
EXTENDS Naturals, Sequences, FiniteSets

CONSTANTS
    MaxEvents,   \* bound: events the Node raises
    MaxConns,    \* bound: connections the Node dials
    Capacity,    \* EventOutbox capacity
    Orphans,     \* events of a session the Host no longer has
    StateEvents, \* events in which a session reports a non-terminal state
    StorageFails, \* the Host's database may fail to take an event
    CatalogSlow, \* re-reading the agent catalog may outlast the handshake
    LateReady    \* an abandoned connection's `ready` may reach the Host after
                 \* it accepted a newer connection

ASSUME ConstantsAssumption ==
    /\ MaxEvents \in Nat /\ MaxConns \in Nat
    /\ Capacity \in Nat \ {0}
    /\ Orphans \subseteq 1..MaxEvents
    /\ StateEvents \subseteq 1..MaxEvents
    /\ StorageFails \in BOOLEAN /\ CatalogSlow \in BOOLEAN
    /\ LateReady \in BOOLEAN

VARIABLES
    raised,     \* the number of the last event raised
    alive,      \* the watched session is still in the Node's inventory
    terminal,   \* the number of its terminal event, 0 before it is raised
    pending,    \* EventOutbox.pending
    batches,    \* batches[f]: the events frozen under flush id f
    inFlight,   \* EventOutbox.inFlight: the flush id still held, or 0
    reconcile,  \* outboxReconciliationPending
    hold,       \* holdEventsForReconnectFlush
    conn,       \* the Node's latest connection, 0 before the first dial
    nodePhase,  \* how far the Node got on it
    toHost,     \* frames of each connection on their way to the Host
    toNode,     \* frames of each connection on their way to the Node
    hostPhase,  \* how far the Host got on each connection
    awaiting,   \* awaitingOutboxFlush of each connection
    flush,      \* the batch each connection is receiving, or NoFlush
    log,        \* the events the Host stored, in the order it stored them
    refused,    \* events the Host rejected permanently
    sess,       \* the watched session's state on the Host
    held,       \* history: events that ever went through the outbox
    dropped     \* history: events the outbox dropped for capacity

nodeVars == <<raised, alive, terminal, pending, batches, inFlight, reconcile,
              hold, conn, nodePhase, held, dropped>>
hostVars == <<hostPhase, awaiting, flush, log, refused, sess>>
vars == <<raised, alive, terminal, pending, batches, inFlight, reconcile, hold,
          conn, nodePhase, toHost, toNode, hostPhase, awaiting, flush, log,
          refused, sess, held, dropped>>

Events == 1..MaxEvents
Conns == 1..MaxConns
Elems(s) == {s[i] : i \in DOMAIN s}

NoFlush == [fid |-> 0, count |-> 0, next |-> 0]

(***************************************************************************)
(* Frames.  `fid`, `count` and `index` are the outboxFlush fields, 0 when  *)
(* absent; an index counts from 1.                                         *)
(***************************************************************************)
Frame(kind, ev, fid, count, index, up) ==
    [kind |-> kind, ev |-> ev, fid |-> fid, count |-> count, index |-> index,
     up |-> up]

LiveEvent(e) == Frame("event", e, 0, 0, 0, TRUE)

\* What flushReconnectOutbox sends: every event of the batch with its position,
\* then the inventory, read at the time of sending.
FlushFrames(f, content) ==
    [i \in 1..(Len(content) + 1) |->
        IF i <= Len(content)
        THEN Frame("event", content[i], f, Len(content), i, TRUE)
        ELSE Frame("flushed", 0, f, Len(content), 0, alive)]

Init ==
    /\ raised = 0 /\ alive = TRUE /\ terminal = 0
    /\ pending = <<>> /\ batches = <<>> /\ inFlight = 0
    /\ reconcile = FALSE /\ hold = FALSE
    /\ conn = 0 /\ nodePhase = "closed"
    /\ toHost = [c \in Conns |-> <<>>]
    /\ toNode = [c \in Conns |-> <<>>]
    /\ hostPhase = [c \in Conns |-> "none"]
    /\ awaiting = [c \in Conns |-> FALSE]
    /\ flush = [c \in Conns |-> NoFlush]
    /\ log = <<>> /\ refused = {} /\ sess = "offline"
    /\ held = {} /\ dropped = {}

-----------------------------------------------------------------------------
(* The Node                                                                *)

\* sendOn: the socket is open and, on a sealed connection, has its channel.
CanSend == nodePhase \in {"channel", "ready", "welcomed"}

\* Between opening the channel and sending `ready` the Node only waits for its
\* agent catalog: nothing else runs there if that was read already.
Running == nodePhase # "exited" /\ (nodePhase = "channel" => CatalogSlow)

\* Connections the Host has closed; the Node may not have noticed yet.
Gone(c) == hostPhase[c] \in {"closed", "superseded"}

\* Bytes written after the Host closed the connection go nowhere.
Transmit(frames) ==
    toHost' = IF Gone(conn) THEN toHost
              ELSE [toHost EXCEPT ![conn] = @ \o frames]

\* Variant: the bound is tested after it was exceeded.
AddLate(e) ==
    LET full == Len(pending) > Capacity
    IN  /\ pending' = Append(IF full THEN Tail(pending) ELSE pending, e)
        /\ dropped' = IF full THEN dropped \cup {Head(pending)} ELSE dropped
        /\ held' = held \cup {e}
        /\ reconcile' = TRUE

\* EventOutbox.add: append, then drop the oldest past the capacity.
Add(e) ==
    LET full == Len(pending) = Capacity
    IN  /\ pending' = Append(IF full THEN Tail(pending) ELSE pending, e)
        /\ dropped' = IF full THEN dropped \cup {Head(pending)} ELSE dropped
        /\ held' = held \cup {e}
        /\ reconcile' = TRUE

\* The router's event callback: sent if sendEvent can, held otherwise.
Emit(e) ==
    /\ raised' = e
    /\ \/ /\ ~hold /\ CanSend
          /\ Transmit(<<LiveEvent(e)>>)
          /\ UNCHANGED <<pending, dropped, held, reconcile>>
       \/ /\ hold \/ ~CanSend
          /\ Add(e)
          /\ UNCHANGED toHost
    /\ UNCHANGED <<batches, inFlight, hold, conn, nodePhase, toNode>>
    /\ UNCHANGED hostVars

RaiseEvent ==
    /\ raised < MaxEvents /\ Running
    /\ Emit(raised + 1)
    /\ UNCHANGED <<alive, terminal>>

\* The agent's terminal state event; the router drops its slot with it.
RaiseTerminal ==
    /\ raised < MaxEvents /\ Running
    /\ alive
    /\ raised + 1 \notin Orphans
    /\ alive' = FALSE
    /\ terminal' = raised + 1
    /\ Emit(raised + 1)

\* connect(): a new socket and client_hello.
Dial ==
    /\ nodePhase = "closed"
    /\ conn < MaxConns
    /\ conn' = conn + 1
    /\ nodePhase' = "dialing"
    /\ UNCHANGED <<raised, alive, terminal, pending, batches, inFlight,
                   reconcile, hold, held, dropped, toHost, toNode>>
    /\ UNCHANGED hostVars

\* The two handshake rounds: the Host proves itself, the Node opens its channel
\* and sends its proof; the Host now expects the inventory.
OpenChannel ==
    /\ nodePhase = "dialing"
    /\ hostPhase[conn] = "none"
    /\ nodePhase' = "channel"
    /\ hostPhase' = [hostPhase EXCEPT ![conn] = "inventory"]
    /\ UNCHANGED <<raised, alive, terminal, pending, batches, inFlight,
                   reconcile, hold, conn, held, dropped, toHost, toNode,
                   awaiting, flush, log, refused, sess>>

\* Variant: a batch still unacknowledged is overwritten by the next.
PrepareFlushAnew(includeEmpty) ==
    IF pending # <<>> \/ includeEmpty
    THEN /\ batches' = Append(batches, pending)
         /\ inFlight' = Len(batches) + 1
         /\ pending' = <<>>
    ELSE UNCHANGED <<batches, inFlight, pending>>

\* EventOutbox.prepareFlush(includeEmpty): freeze what is pending unless a
\* batch is already frozen.
PrepareFlush(includeEmpty) ==
    IF inFlight = 0 /\ (pending # <<>> \/ includeEmpty)
    THEN /\ batches' = Append(batches, pending)
         /\ inFlight' = Len(batches) + 1
         /\ pending' = <<>>
    ELSE UNCHANGED <<batches, inFlight, pending>>

\* `ready` with the inventory, sent once the agent catalog has been re-read.
SendReady ==
    /\ nodePhase = "channel"
    /\ LET pendingOutbox == reconcile \/ inFlight # 0 \/ pending # <<>>
       IN  /\ IF pendingOutbox THEN PrepareFlush(reconcile)
              ELSE UNCHANGED <<batches, inFlight, pending>>
           /\ hold' = pendingOutbox
           /\ Transmit(<<Frame("ready", 0, inFlight',
                               IF inFlight' = 0 THEN 0
                               ELSE Len(batches'[inFlight']),
                               0, alive)>>)
    /\ nodePhase' = "ready"
    /\ UNCHANGED <<raised, alive, terminal, reconcile, conn, held, dropped,
                   toNode>>
    /\ UNCHANGED hostVars

\* `welcome`: replay the frozen batch if events were being held.
HandleWelcome ==
    /\ nodePhase = "ready"
    /\ toNode[conn] # <<>> /\ Head(toNode[conn]).kind = "welcome"
    /\ nodePhase' = "welcomed"
    /\ toNode' = [toNode EXCEPT ![conn] = Tail(@)]
    /\ IF hold THEN Transmit(FlushFrames(inFlight, batches[inFlight]))
       ELSE UNCHANGED toHost
    /\ UNCHANGED <<raised, alive, terminal, pending, batches, inFlight,
                   reconcile, hold, conn, held, dropped>>
    /\ UNCHANGED hostVars

\* Variant: what piled up during the replay waits for the next connection.
HandleAckOnce ==
    /\ nodePhase = "welcomed"
    /\ toNode[conn] # <<>> /\ Head(toNode[conn]).kind = "ack"
    /\ hold /\ inFlight # 0 /\ Head(toNode[conn]).fid = inFlight
    /\ toNode' = [toNode EXCEPT ![conn] = Tail(@)]
    /\ inFlight' = 0 /\ reconcile' = FALSE /\ hold' = FALSE
    /\ UNCHANGED <<raised, alive, terminal, pending, batches, conn, nodePhase,
                   held, dropped, toHost>>
    /\ UNCHANGED hostVars

\* `outbox_flush_ack`: forget the batch; flush again if more piled up,
\* otherwise go live.
HandleAck ==
    /\ nodePhase = "welcomed"
    /\ toNode[conn] # <<>> /\ Head(toNode[conn]).kind = "ack"
    /\ hold /\ inFlight # 0 /\ Head(toNode[conn]).fid = inFlight
    /\ toNode' = [toNode EXCEPT ![conn] = Tail(@)]
    /\ \/ /\ pending # <<>>
          /\ batches' = Append(batches, pending)
          /\ inFlight' = Len(batches) + 1
          /\ pending' = <<>>
          /\ Transmit(FlushFrames(inFlight', pending))
          /\ UNCHANGED <<reconcile, hold>>
       \/ /\ pending = <<>>
          /\ inFlight' = 0
          /\ reconcile' = FALSE
          /\ hold' = FALSE
          /\ UNCHANGED <<batches, pending, toHost>>
    /\ UNCHANGED <<raised, alive, terminal, conn, nodePhase, held, dropped>>
    /\ UNCHANGED hostVars

\* The 5-second heartbeat; one outstanding at a time bounds the wire.
Heartbeat ==
    /\ Running /\ CanSend
    /\ ~Gone(conn)
    /\ \A i \in DOMAIN toHost[conn] : toHost[conn][i].kind # "heartbeat"
    /\ Transmit(<<Frame("heartbeat", 0, 0, 0, 0, alive)>>)
    /\ UNCHANGED <<toNode>> /\ UNCHANGED nodeVars /\ UNCHANGED hostVars

\* The Node's socket closes: the network broke, or the Host hung up.
NodeClose ==
    /\ nodePhase \notin {"closed", "exited"}
    /\ conn < MaxConns \/ Gone(conn) \/ hostPhase[conn] = "closing"
    /\ nodePhase' = "closed"
    /\ toNode' = [toNode EXCEPT ![conn] = <<>>]
    /\ UNCHANGED <<raised, alive, terminal, pending, batches, inFlight,
                   reconcile, hold, conn, held, dropped, toHost>>
    /\ UNCHANGED hostVars

\* The close code says another link took over: the Node process shuts down and
\* its outbox goes with it.
NodeExit ==
    /\ nodePhase \notin {"closed", "exited"}
    /\ hostPhase[conn] = "superseded"
    /\ nodePhase' = "exited"
    /\ toNode' = [toNode EXCEPT ![conn] = <<>>]
    /\ pending' = <<>> /\ inFlight' = 0
    /\ UNCHANGED <<raised, alive, terminal, batches, reconcile, hold, conn,
                   held, dropped, toHost>>
    /\ UNCHANGED hostVars

-----------------------------------------------------------------------------
(* The Host                                                                *)

\* The link the fleet service holds.  A link on which the Host called close()
\* stays it, and its frames are still read, until the socket reports the close.
Current(c) == hostPhase[c] \in {"accepted", "closing"}

\* Frames are read in order, from a connection the Host has not closed.
Receives(c, kind) ==
    /\ hostPhase[c] = "inventory" \/ Current(c)
    /\ toHost[c] # <<>>
    /\ Head(toHost[c]).kind = kind

Consume(c) == toHost' = [toHost EXCEPT ![c] = Tail(@)]

\* A frame for a Node that already left the connection is lost, and none is
\* sent on a socket that is closing.
Tell(c, frame) ==
    toNode' = IF /\ conn = c /\ nodePhase \notin {"closed", "exited"}
                 /\ hostPhase[c] # "closing"
              THEN [toNode EXCEPT ![c] = Append(@, frame)] ELSE toNode

\* markNodeSessionsOffline: a settled session keeps its state.
Offline(s) == IF s = "live" THEN "offline" ELSE s

\* reconcileOfflineSessions for the watched session.
Reconciled(s, up) ==
    IF s # "offline" THEN s ELSE IF up THEN "live" ELSE "failed"

\* The Host closes connection c; if it was the Node's link, disconnectNode.
CloseLink(c) ==
    /\ hostPhase' = [hostPhase EXCEPT ![c] = "closed"]
    /\ toHost' = [toHost EXCEPT ![c] = <<>>]
    /\ awaiting' = [awaiting EXCEPT ![c] = FALSE]
    /\ flush' = [flush EXCEPT ![c] = NoFlush]
    /\ sess' = IF Current(c) THEN Offline(sess) ELSE sess

\* acceptNode: supersede the previous link, welcome, and reconcile at once only
\* if the Node holds no events back.
HostReady(c) ==
    /\ hostPhase[c] = "inventory"
    /\ Receives(c, "ready")
    /\ LateReady \/ \A d \in Conns : d > c => hostPhase[d] \in {"none", "inventory"}
    /\ LET frame == Head(toHost[c])
           offline == IF \E d \in Conns : Current(d) THEN Offline(sess)
                      ELSE sess
       IN  /\ hostPhase' = [d \in Conns |->
                              IF d = c THEN "accepted"
                              ELSE IF hostPhase[d] = "accepted" THEN "superseded"
                              ELSE IF hostPhase[d] = "closing" THEN "closed"
                              ELSE hostPhase[d]]
           /\ toHost' = [d \in Conns |->
                           IF d = c THEN Tail(toHost[d])
                           ELSE IF Current(d) THEN <<>> ELSE toHost[d]]
           /\ awaiting' = [d \in Conns |-> d = c /\ frame.fid # 0]
           /\ flush' = [d \in Conns |->
                          IF d = c /\ frame.fid # 0
                          THEN [fid |-> frame.fid, count |-> frame.count,
                                next |-> 0]
                          ELSE NoFlush]
           /\ sess' = IF frame.fid # 0 THEN offline
                      ELSE Reconciled(offline, frame.up)
           /\ Tell(c, Frame("welcome", 0, 0, 0, 0, TRUE))
    /\ UNCHANGED <<log, refused>>
    /\ UNCHANGED nodeVars

\* appendEvent: an event already stored is accepted and not stored again.
Stored(e) == e \in Elems(log)

\* A state report of the watched session that is not its terminal one.
WatchedState(e) == e \in StateEvents \ Orphans /\ (terminal = 0 \/ e < terminal)

\* Variant: a resent event is stored again.
AcceptAgain(e) ==
    /\ log' = Append(log, e)
    /\ sess' = IF e = terminal /\ sess \in {"live", "offline"} THEN "ended"
               ELSE sess

\* handleEventResult on an event it stores: append, then the transition.
\* A settled session takes no further transition.
Accept(e) ==
    IF Stored(e) THEN UNCHANGED <<log, sess>>
    ELSE /\ log' = Append(log, e)
         /\ sess' = CASE e = terminal /\ sess \in {"live", "offline"} -> "ended"
                      [] WatchedState(e) /\ sess = "offline" -> "live"
                      [] OTHER -> sess

\* The batch connection c is receiving once `frame` has arrived: the one the
\* inventory or an earlier event announced, or a new one starting at its first.
Tracked(c, frame) ==
    IF flush[c] # NoFlush THEN flush[c]
    ELSE [fid |-> frame.fid, count |-> frame.count, next |-> 0]

InPosition(c, frame) ==
    /\ Tracked(c, frame).fid = frame.fid
    /\ Tracked(c, frame).count = frame.count
    /\ frame.index = Tracked(c, frame).next + 1

\* A batch event in its position: stored, or skipped if it can never be.
HostBatchEvent(c) ==
    /\ Current(c)
    /\ Receives(c, "event")
    /\ LET frame == Head(toHost[c])
           e == frame.ev
       IN  /\ frame.fid # 0
           /\ InPosition(c, frame)
           /\ flush' = [flush EXCEPT ![c] =
                          [fid |-> frame.fid, count |-> frame.count,
                           next |-> frame.index]]
           /\ awaiting' = [awaiting EXCEPT ![c] = TRUE]
           /\ \/ /\ e \in Orphans
                 /\ refused' = refused \cup {e}
                 /\ UNCHANGED <<log, sess>>
              \/ /\ e \notin Orphans
                 /\ Accept(e)
                 /\ UNCHANGED refused
    /\ Consume(c)
    /\ UNCHANGED <<toNode, hostPhase>>
    /\ UNCHANGED nodeVars

\* A live event; the result of storing it is ignored, so a storage failure
\* loses it without a word.
HostLiveEvent(c) ==
    /\ Current(c)
    /\ Receives(c, "event")
    /\ LET frame == Head(toHost[c])
           e == frame.ev
       IN  /\ frame.fid = 0
           /\ flush[c] = NoFlush
           /\ e \notin Orphans
           /\ \/ Accept(e)
              \/ (StorageFails /\ UNCHANGED <<log, sess>>)
    /\ Consume(c)
    /\ UNCHANGED <<toNode, hostPhase, awaiting, flush, refused>>
    /\ UNCHANGED nodeVars

\* Variant: the finished batch stays tracked.
HostFlushedTracking(c) ==
    /\ Current(c)
    /\ Receives(c, "flushed")
    /\ LET frame == Head(toHost[c])
       IN  /\ awaiting[c]
           /\ flush[c] = [fid |-> frame.fid, count |-> frame.count,
                          next |-> frame.count]
           /\ sess' = Reconciled(sess, frame.up)
           /\ awaiting' = [awaiting EXCEPT ![c] = FALSE]
           /\ Tell(c, Frame("ack", 0, frame.fid, 0, 0, TRUE))
    /\ Consume(c)
    /\ UNCHANGED <<flush, hostPhase, log, refused>>
    /\ UNCHANGED nodeVars

\* `outbox_flushed` after the whole batch: reconcile, then acknowledge.
HostFlushed(c) ==
    /\ Current(c)
    /\ Receives(c, "flushed")
    /\ LET frame == Head(toHost[c])
       IN  /\ awaiting[c]
           /\ flush[c] = [fid |-> frame.fid, count |-> frame.count,
                          next |-> frame.count]
           /\ sess' = Reconciled(sess, frame.up)
           /\ flush' = [flush EXCEPT ![c] = NoFlush]
           /\ awaiting' = [awaiting EXCEPT ![c] = FALSE]
           /\ Tell(c, Frame("ack", 0, frame.fid, 0, 0, TRUE))
    /\ Consume(c)
    /\ UNCHANGED <<hostPhase, log, refused>>
    /\ UNCHANGED nodeVars

\* recordPresence: a heartbeat reconciles unless a batch is outstanding.
HostHeartbeat(c) ==
    /\ Current(c)
    /\ Receives(c, "heartbeat")
    /\ sess' = IF awaiting[c] THEN sess
               ELSE Reconciled(sess, Head(toHost[c]).up)
    /\ Consume(c)
    /\ UNCHANGED <<toNode, hostPhase, awaiting, flush, log, refused>>
    /\ UNCHANGED nodeVars

\* Every frame the Host hangs up on once a Node is accepted: an untagged event
\* inside a batch, a live event of a session it does not have, a batch event out
\* of position or one that storage failed on (code 1011, so that the Node
\* retries it), and a completion of anything but the whole batch.
Refused(c, frame) ==
    \/ frame.kind = "event" /\ frame.fid = 0
       /\ (flush[c] # NoFlush \/ frame.ev \in Orphans)
    \/ frame.kind = "event" /\ frame.fid # 0
       /\ (~InPosition(c, frame) \/ (StorageFails /\ c < MaxConns))
    \/ frame.kind = "flushed"
       /\ (~awaiting[c] \/ flush[c] # [fid |-> frame.fid, count |-> frame.count,
                                      next |-> frame.count])

\* Such a frame starts the closing of the connection.
HostRefuse(c) ==
    /\ Current(c) /\ toHost[c] # <<>> /\ Refused(c, Head(toHost[c]))
    /\ hostPhase' = [hostPhase EXCEPT ![c] = "closing"]
    /\ Consume(c)
    /\ UNCHANGED <<toNode, awaiting, flush, log, refused, sess>>
    /\ UNCHANGED nodeVars

\* Before the inventory any other frame ends the connection, and nothing behind
\* it is read.
HostRefuseEarly(c) ==
    /\ hostPhase[c] = "inventory"
    /\ toHost[c] # <<>> /\ Head(toHost[c]).kind # "ready"
    /\ CloseLink(c)
    /\ UNCHANGED <<toNode, log, refused>>
    /\ UNCHANGED nodeVars

\* The socket reports its close: the network broke, the Host gave it up for
\* missed heartbeats, or it finished closing.
HostDropLink(c) ==
    /\ hostPhase[c] = "inventory" \/ Current(c)
    /\ c < MaxConns \/ nodePhase \in {"closed", "exited"} \/ hostPhase[c] = "closing"
    /\ CloseLink(c)
    /\ UNCHANGED <<toNode, log, refused>>
    /\ UNCHANGED nodeVars

\* The Host process restarts: every connection is gone, what is in SQLite
\* stays, and resetConnectivity marks live sessions offline.
HostRestart ==
    /\ conn < MaxConns
    /\ hostPhase' = [c \in Conns |-> IF hostPhase[c] = "inventory" \/ Current(c)
                                     THEN "closed" ELSE hostPhase[c]]
    /\ toHost' = [c \in Conns |-> <<>>]
    /\ awaiting' = [c \in Conns |-> FALSE]
    /\ flush' = [c \in Conns |-> NoFlush]
    /\ sess' = Offline(sess)
    /\ UNCHANGED <<toNode, log, refused>>
    /\ UNCHANGED nodeVars

-----------------------------------------------------------------------------

NodeStep == Dial \/ OpenChannel \/ SendReady \/ HandleWelcome \/ HandleAck

HostStep(c) ==
    \/ HostReady(c) \/ HostBatchEvent(c) \/ HostLiveEvent(c)
    \/ HostFlushed(c) \/ HostHeartbeat(c) \/ HostRefuse(c) \/ HostRefuseEarly(c)

Next ==
    \/ RaiseEvent \/ RaiseTerminal
    \/ NodeStep \/ Heartbeat \/ NodeClose \/ NodeExit
    \/ \E c \in Conns : HostStep(c) \/ HostDropLink(c)
    \/ HostRestart

Spec == Init /\ [][Next]_vars

\* The Node's reconnect timer and message loop run, the Host reads what
\* arrives, and a watchdog at either end notices a dead connection.
NodeNotices == NodeClose /\ Gone(conn)
HostReads == \E c \in Conns : HostStep(c)
HostNotices == \E c \in Conns : hostPhase[c] = "closing" /\ HostDropLink(c)

Fairness ==
    /\ WF_vars(NodeStep) /\ WF_vars(NodeNotices)
    /\ WF_vars(HostReads) /\ WF_vars(HostNotices)

FairSpec == Spec /\ Fairness

-----------------------------------------------------------------------------
(* Properties                                                              *)

Kinds == {"ready", "event", "flushed", "heartbeat", "welcome", "ack"}

FrameType ==
    {f \in [kind: Kinds, ev: 0..MaxEvents, fid: Nat, count: Nat, index: Nat,
            up: BOOLEAN] : f.kind = "event" => f.ev \in Events}

NodeType ==
    /\ raised \in 0..MaxEvents /\ alive \in BOOLEAN /\ terminal \in 0..MaxEvents
    /\ pending \in Seq(Events) /\ Len(pending) <= Capacity
    /\ batches \in Seq(Seq(Events)) /\ inFlight \in 0..Len(batches)
    /\ reconcile \in BOOLEAN /\ hold \in BOOLEAN
    /\ conn \in 0..MaxConns
    /\ nodePhase \in {"closed", "dialing", "channel", "ready", "welcomed",
                     "exited"}
    /\ conn = 0 => nodePhase = "closed"
    /\ held \subseteq Events /\ dropped \subseteq Events

WireType ==
    /\ toHost \in [Conns -> Seq(FrameType)]
    /\ toNode \in [Conns -> Seq(FrameType)]

HostType ==
    /\ hostPhase \in [Conns -> {"none", "inventory", "accepted", "closing",
                              "closed", "superseded"}]
    /\ awaiting \in [Conns -> BOOLEAN]
    /\ flush \in [Conns -> [fid: Nat, count: Nat, next: Nat]]
    /\ log \in Seq(Events) /\ refused \subseteq Events
    /\ sess \in {"live", "offline", "ended", "failed"}

\* Every variable has its type; no connection is open before the first dial
\* and the outbox never exceeds its capacity.
TypeOK == NodeType /\ WireType /\ HostType

\* What the outbox still holds.
Retained ==
    Elems(pending) \cup (IF inFlight = 0 THEN {} ELSE Elems(batches[inFlight]))

Settled(e) == e \in Elems(log) \cup refused

\* An event that went into the outbox stays there until the Host has stored it
\* or refused it for good, whatever breaks in between; only the capacity bound
\* drops one.
NothingHeldIsLost ==
    nodePhase # "exited" => \A e \in held : e \in dropped \/ Settled(e) \/ e \in Retained

\* The Node's `outbox_flush_ack` handler never hits its two 1008 closes: an
\* acknowledgment it reads is expected and names the batch it holds.
AckExpected ==
    nodePhase \notin {"closed", "exited"} =>
        \A i \in DOMAIN toNode[conn] :
            toNode[conn][i].kind = "ack" =>
                hold /\ inFlight # 0 /\ toNode[conn][i].fid = inFlight

\* The Host never calls rejectOutbox on this Node: a batch event it reads is in
\* position and a completion matches the batch received, across lost
\* acknowledgments, resent batches and second batches on one connection.
BatchesAgree ==
    \A c \in Conns : hostPhase[c] = "accepted" /\ toHost[c] # <<>> =>
        LET frame == Head(toHost[c])
        IN  /\ frame.kind = "event" =>
                 IF frame.fid = 0 THEN flush[c] = NoFlush
                 ELSE InPosition(c, frame)
            /\ frame.kind = "flushed" =>
                 awaiting[c] /\ flush[c] = [fid |-> frame.fid,
                                            count |-> frame.count,
                                            next |-> frame.count]

\* Both ends mean the same batch, whatever was lost, resent or added meanwhile.
SameBatch == AckExpected /\ BatchesAgree

\* The Host gives a session up as missing only once it has dealt with every
\* event of the batch advertised on the connection the inventory came from.
SettledAfterBatch ==
    [][sess = "offline" /\ sess' = "failed" =>
          \A c \in Conns :
              /\ flush[c] # NoFlush =>
                   \A e \in Elems(batches[flush[c].fid]) : Settled(e)
              /\ flush'[c] # NoFlush =>
                   \A e \in Elems(batches'[flush'[c].fid]) : Settled(e)']_vars

\* The Host's transcript is an in-order selection of what the Node raised, and
\* the Node lets go of an event only when the Host has it.
Relay == INSTANCE EventRelay WITH retained <- Retained
Relays == Relay!Spec

\* The last connection of the bound is gone: nothing can be delivered any more.
Exhausted == conn = MaxConns /\ nodePhase = "closed"

\* What was held is at the Host, was refused, or fell to the capacity bound.
HeldIsDelivered == \A e \in held : Settled(e) \/ e \in dropped

\* The Host has noticed that the session ended on the Node, even during an
\* outage and even if the event saying so was lost with a connection.
EndIsNoticed == ~alive => sess \in {"ended", "failed"}

\* What an outage held back, and what it kept from being said, gets through as
\* soon as some connection lasts; and a missing session is not given up before.
NewsArrives ==
    /\ []<>(Exhausted \/ (HeldIsDelivered /\ EndIsNoticed))
    /\ SettledAfterBatch

\* A session whose terminal event the Node still holds for replay is not
\* settled as missing.  socket.ts withholds the final inventory so that "a
\* partial flush cannot falsely settle the session".
NoFalseSettlement == sess = "failed" => terminal \notin Retained

\* A Node that is told its connection was superseded exits, "superseded by
\* another node instance": its own earlier connection never does that to it.
NeverSupersededByItself == nodePhase # "exited"

\* Events raised before `ready` are in the batch `ready` advertises, so no
\* event travels ahead of it: main.ts says agents that finish "during mutual
\* authentication, after the socket opens but before `ready`" are included.
NothingBeforeReady ==
    \A c \in Conns : hostPhase[c] = "inventory" /\ toHost[c] # <<>> =>
        Head(toHost[c]).kind # "event"
=============================================================================
