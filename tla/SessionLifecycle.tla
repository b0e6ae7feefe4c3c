-------------------------- MODULE SessionLifecycle --------------------------
(***************************************************************************)
(* One operator session from launch to settlement, as its two owners see   *)
(* it: the Host's row and transition table (apps/host/src/fleet-service.ts,*)
(* store.ts, routes/sessions.ts, packages/protocol/src/index.ts), the      *)
(* operator's message queue (session-messages.ts), and the Node's slot and *)
(* agent (apps/node/src/router.ts, agents.ts).  Commands go down and       *)
(* events, results and inventories come up one link that breaks, under the *)
(* outbox protocol whose details are OutboxDelivery's.                     *)
(*                                                                         *)
(* The session is one an outbox serves: its connection has no session      *)
(* console, so router.route answers its commands.  Commands that launch or *)
(* prompt are numbered, and a turn is named by the command that began it.  *)
(***************************************************************************)
EXTENDS SessionStates, Naturals, SequencesExt, FiniteSets

CONSTANTS
    MaxCmds,     \* bound: launches and prompts the Host dispatches
    MaxBreaks,   \* bound: breaks of the link and restarts
    MaxMsgs,     \* bound: messages the operator submits
    MaxOwn,      \* bound: turns the agent starts unprompted
    AutoResume,  \* the Host's setting to resume sessions a reconnect lost
    Hazards      \* rare happenings that may occur, of HazardKinds

\* The Host closes the socket on the Node over something else it sent; an agent
\* exits by itself with status 0; a launch is refused after its slot was made;
\* an operator resumes a session before everything of its ended process arrived;
\* an inventory is taken while a launch is on its way to the Node.
HazardKinds == {"hang-up", "clean exit", "late refusal", "early resume",
                "stale beat"}

ASSUME LifecycleAssumption ==
    /\ MaxCmds \in Nat \ {0} /\ MaxBreaks \in Nat /\ MaxMsgs \in Nat
    /\ MaxOwn \in Nat
    /\ AutoResume \in BOOLEAN /\ Hazards \subseteq HazardKinds

VARIABLES
    row,       \* the Host's session row
    log,       \* the events the Host stored, as <<sequence, incarnation>>
    queue,     \* the operator's queued messages, in the order they are taken
    cmds,      \* the last command number given out
    hostLink,  \* the Host's socket to the Node
    awaiting,  \* awaitingOutboxFlush
    batchSeqs, \* sequences seen in the batch being received
    slot,      \* the Node's slot of the session
    inbox,     \* commands the router accepted and has not carried out
    nodeLink,  \* how far the Node got on its connection
    hold,      \* holdEventsForReconnectFlush
    pending,   \* EventOutbox.pending
    batch,     \* the frozen batch
    inFlight,  \* a frozen batch is unacknowledged
    reconcile, \* outboxReconciliationPending
    toHost,    \* frames on their way to the Host
    toNode,    \* frames on their way to the Node
    breaks,    \* breaks so far
    own,       \* unprompted turns so far
    notices,   \* history: the turns whose completion was notified
    silenced,  \* history: turns the agent was told to cancel
    taken,     \* history: messages the agent was prompted with
    fate       \* history: what became of each submitted message

hostVars == <<row, log, queue, cmds, notices, fate, hostLink, awaiting,
              batchSeqs>>
outboxVars == <<hold, pending, batch, inFlight, reconcile>>
nodeVars == <<slot, inbox, own, taken, silenced, nodeLink, hold, pending,
              batch, inFlight, reconcile>>
vars == <<row, log, queue, cmds, hostLink, awaiting, batchSeqs, slot, inbox,
          nodeLink, hold, pending, batch, inFlight, reconcile, toHost, toNode,
          breaks, own, notices, silenced, taken, fate>>

Messages == 1..MaxMsgs

NoRow == [st |-> "none", stop |-> FALSE, intent |-> "none", done |-> 0,
          cmd |-> 0, agent |-> FALSE]
NoSlot == [phase |-> "none", inc |-> 0, seq |-> 0, stopping |-> FALSE,
           turn |-> 0, cmd |-> 0, type |-> "none"]

Init ==
    /\ row = NoRow /\ log = {} /\ queue = <<>> /\ cmds = 0
    /\ hostLink = "open" /\ awaiting = FALSE /\ batchSeqs = {}
    /\ slot = NoSlot /\ inbox = <<>> /\ nodeLink = "up"
    /\ hold = FALSE /\ pending = <<>> /\ batch = <<>> /\ inFlight = FALSE
    /\ reconcile = FALSE
    /\ toHost = <<>> /\ toNode = <<>>
    /\ breaks = 0 /\ own = 0
    /\ notices = <<>> /\ silenced = {} /\ taken = <<>>
    /\ fate = [m \in Messages |-> "new"]

-----------------------------------------------------------------------------
(* What one Host handler does: `h` is the part of the Host's state it works *)
(* on, and `out` the commands it sends.                                     *)

Host == [row |-> row, queue |-> queue, cmds |-> cmds, notices |-> notices,
         fate |-> fate, link |-> hostLink, out |-> <<>>]

Becomes(h) ==
    /\ row' = h.row /\ queue' = h.queue /\ cmds' = h.cmds
    /\ notices' = h.notices /\ fate' = h.fate
    /\ toNode' = toNode \o h.out

Command(type, id, offset, msg) ==
    [kind |-> "command", type |-> type, id |-> id, offset |-> offset,
     msg |-> msg]

\* maxEventSequence.
LastSeq == IF log = {} THEN 0
           ELSE CHOOSE n \in {p[1] : p \in log} : \A p \in log : p[1] <= n

\* transitionSession: the completion notice is due when a turn whose end the
\* Host holds a receipt for leaves the session idle, unless commanded.
Move(h, to, notifies) ==
    [h EXCEPT !.row.st = to,
              !.notices = IF /\ notifies /\ h.row.st # to
                             /\ to \in {"idle", "completed"}
                             /\ h.row.intent = "none" /\ h.row.done # 0
                          THEN Append(@, h.row.done) ELSE @]

\* dispatch of a stop or cancel on an open socket: the intent is recorded and
\* the receipt cleared before the command leaves.
Order(h, type) ==
    IF h.link = "open"
    THEN [h EXCEPT !.row.intent = type, !.row.done = 0,
                   !.out = Append(@, Command(type, 0, 0, 0))]
    ELSE h

\* dispatch of a launch or prompt on an open socket: a new attempt inherits
\* neither intent nor receipt.
Begin(h, type, offset, msg) ==
    [h EXCEPT !.row.intent = "none", !.row.done = 0,
              !.row.cmd = h.cmds + 1, !.cmds = @ + 1,
              !.out = Append(@, Command(type, h.cmds + 1, offset, msg))]

\* dispatch's fallback on a socket that is not open.
Fallback(h, commanded) ==
    LET f == Move(h, "failed", FALSE)
    IN  [f EXCEPT !.row.done = 0,
                  !.row.intent = IF commanded THEN "none" ELSE @]

\* The message that is being delivered: one at most is.
Sending(h) == {m \in ToSet(h.queue) : m.state = "sending"}

Place(q, id) == CHOOSE i \in DOMAIN q : q[i].id = id
Without(q, id) ==
    IF \E i \in DOMAIN q : q[i].id = id THEN RemoveAt(q, Place(q, id)) ELSE q
Mark(q, id, state, after) ==
    [i \in DOMAIN q |-> IF q[i].id = id
                        THEN [q[i] EXCEPT !.state = state, !.after = after]
                        ELSE q[i]]

\* A delivery that cannot be confirmed any more has failed.
Undelivered(q) ==
    [i \in DOMAIN q |-> IF q[i].state = "sending"
                        THEN [q[i] EXCEPT !.state = "failed", !.after = 0]
                        ELSE q[i]]

\* SessionMessages.retire.
Retire(h, id, how) ==
    [h EXCEPT !.queue = Without(@, id), !.fate[id] = how]

\* Variant: the head is sent whatever is already being delivered.
PumpEagerly(h) ==
    IF /\ h.queue # <<>> /\ Head(h.queue).state = "pending"
       /\ h.row.st \in {"idle", "running"} /\ ~h.row.stop /\ h.link = "open"
    THEN LET m == Head(h.queue)
         IN  Move(Begin([h EXCEPT !.queue = Mark(@, m.id, "sending", LastSeq)],
                        "prompt", 0, m.id), "running", FALSE)
    ELSE h

\* SessionMessages.pump: one message at a time, the first one only, and only
\* to an idle session; a delivery the session did not survive is failed.
Pump(h) ==
    LET m == Head(h.queue)
    IN  IF Sending(h) # {}
        THEN IF h.row.st \in Terminal \cup {"offline"}
             THEN [h EXCEPT !.queue = Undelivered(@)] ELSE h
        ELSE IF \/ h.queue = <<>> \/ h.row.st # "idle" \/ h.row.stop
                \/ h.link = "down" \/ m.state # "pending"
             THEN h
        ELSE IF h.link = "open"
             THEN Move(Begin([h EXCEPT !.queue =
                                         Mark(@, m.id, "sending", LastSeq)],
                             "prompt", 0, m.id), "running", FALSE)
        ELSE [Fallback(h, FALSE) EXCEPT !.queue = Mark(@, m.id, "failed", 0)]

\* SessionMessages.handleEvent on an event past the delivery's start.
Settles(h, e) ==
    IF /\ e.kind \in {"running", "turn"}
       /\ \E m \in Sending(h) : e.seq > m.after
    THEN Retire(h, (CHOOSE m \in Sending(h) : TRUE).id, "delivered") ELSE h

\* A stop request lasts until the session has ended.
StillStopping(stop, s) == stop /\ s \notin Terminal

\* Variant: the Node is told to stop once.
Unreminded(h) == h

\* A session that goes on although it was asked to stop is told so again.
Reminded(h) == IF h.row.stop THEN Order(h, "stop") ELSE h

\* handleEventResult on a state report of a session without a workflow step:
\* dropped if the transition is forbidden, otherwise it consumes the intent a
\* settled state answers.
StateReport(h, e) ==
    LET s == e.kind
        moved == Move(h, s, TRUE)
        settled == [moved EXCEPT
                      !.row.stop = StillStopping(@, s),
                      !.row.intent = IF s \in Terminal \cup {"idle"}
                                     THEN "none" ELSE @,
                      !.row.done = 0]
    IN  IF CanTransition(h.row.st, s) THEN Reminded(Settles(settled, e))
        ELSE h

\* handleEventResult on an event just stored.
Applied(h, e) ==
    CASE e.kind = "agent" -> [h EXCEPT !.row.agent = TRUE]
      [] e.kind = "turn" ->
           Settles([h EXCEPT !.row.done = IF h.row.intent = "none"
                                          THEN e.turn ELSE @], e)
      [] OTHER -> StateReport(h, e)

\* failFromCommandResult, whichever command the result is of.
FailedByResult(h) ==
    IF h.row.st \in Terminal \cup {"none"} THEN h
    ELSE [Move(h, "failed", FALSE) EXCEPT !.row.stop = FALSE,
                                          !.row.intent = "none",
                                          !.row.done = 0]

\* Variant: a Node that does not say which sessions are busy.
LandsIdle(busy) == "idle"

\* Where a session the Node still has lands.
LandsOn(busy) == IF busy THEN "running" ELSE "idle"

\* reconcileOfflineSessions: what an inventory makes of the row.
Settlement(r, up, busy) ==
    CASE r.stop /\ r.st \in Terminal -> r.st
      [] up /\ r.st = "offline" -> LandsOn(busy)
      [] ~up /\ r.stop /\ r.st \notin Terminal \cup {"queued"} -> "stopped"
      [] ~up /\ ~r.stop /\ r.st = "offline" -> "failed"
      [] OTHER -> "unconcerned"

\* reconcile: settle or revive the row, repeat a stop, and resume a session
\* that was lost if the Host is set to.
Reconciled(h, up, busy) ==
    LET s == Settlement(h.row, up, busy)
        moved == [Move(h, s, TRUE) EXCEPT
                    !.row.stop = StillStopping(@, s),
                    !.row.intent = IF s \in Terminal \cup {"idle"}
                                   THEN "none" ELSE @,
                    !.row.done = 0]
    IN  IF s = "unconcerned" THEN h
        ELSE IF /\ AutoResume /\ s = "failed" /\ moved.row.agent
                /\ h.link = "open" /\ h.cmds < MaxCmds
        THEN Move(Begin(moved, "resume", LastSeq, 0), "starting", FALSE)
        ELSE Reminded(moved)

-----------------------------------------------------------------------------
(* The operator and the Host's own ticks                                    *)

Room == cmds < MaxCmds

\* Nothing of the session is on its way either way.
Arrived ==
    ~hold /\ pending = <<>> /\ toHost = <<>> /\ toNode = <<>> /\ inbox = <<>>

\* createAndStartSession.
Launch ==
    /\ row.st = "none" /\ hostLink # "down" /\ Room
    /\ LET created == Move(Host, "queued", FALSE)
       IN  Becomes(IF hostLink = "open" THEN Begin(created, "start", 0, 0)
                   ELSE Fallback(created, FALSE))
    /\ UNCHANGED <<log, hostLink, awaiting, batchSeqs, toHost, breaks>>
    /\ UNCHANGED nodeVars

\* resumeSession.
Resume ==
    /\ row.st \in Terminal \cup {"offline"} /\ row.agent /\ ~row.stop
    /\ hostLink # "down" /\ Room
    /\ "early resume" \in Hazards \/ Arrived
    /\ LET resumed == Move(Host, "starting", FALSE)
       IN  Becomes(IF hostLink = "open" THEN Begin(resumed, "resume", LastSeq, 0)
                   ELSE Fallback(resumed, FALSE))
    /\ UNCHANGED <<log, hostLink, awaiting, batchSeqs, toHost, breaks>>
    /\ UNCHANGED nodeVars

\* SessionMessages.submit: queued, and taken at once if the session is free.
Submit(m) ==
    /\ fate[m] = "new" /\ \A k \in Messages : k < m => fate[k] # "new"
    /\ row.st \in {"idle", "running", "starting", "cancelling"} /\ ~row.stop
    /\ hostLink = "open" /\ Room
    /\ Becomes(Pump([Host EXCEPT
                       !.queue = Append(@, [id |-> m, state |-> "pending",
                                            after |-> 0]),
                       !.fate[m] = "queued"]))
    /\ UNCHANGED <<log, hostLink, awaiting, batchSeqs, toHost, breaks>>
    /\ UNCHANGED nodeVars

\* SessionMessages.tick.
Tick ==
    /\ Room \/ row.st # "idle"
    /\ Becomes(Pump(Host))
    /\ queue' # queue
    /\ UNCHANGED <<log, hostLink, awaiting, batchSeqs, toHost, breaks>>
    /\ UNCHANGED nodeVars

\* POST /cancel: the row first, then the command.
Cancel ==
    /\ row.st = "running"
    /\ LET moved == Move(Host, "cancelling", FALSE)
       IN  Becomes(IF hostLink = "open" THEN Order(moved, "cancel")
                   ELSE Fallback(moved, TRUE))
    /\ UNCHANGED <<log, hostLink, awaiting, batchSeqs, toHost, breaks>>
    /\ UNCHANGED nodeVars

\* SessionMessages.act, cancel.
CancelMessage(m) ==
    /\ \E i \in DOMAIN queue : queue[i].id = m /\ queue[i].state # "sending"
    /\ Becomes(Retire(Host, m, "cancelled"))
    /\ UNCHANGED <<log, hostLink, awaiting, batchSeqs, toHost, breaks>>
    /\ UNCHANGED nodeVars

\* SessionMessages.act, send-now: to the front of the queue, interrupting the
\* turn in progress; without a fallback if the command cannot leave.
SendNow(m) ==
    /\ \E i \in DOMAIN queue : queue[i].id = m /\ queue[i].state # "sending"
    /\ row.st \in {"idle", "running"} /\ ~row.stop
    /\ hostLink # "down" /\ Room
    /\ LET first == [Host EXCEPT
                       !.queue = <<[id |-> m, state |-> "pending",
                                    after |-> 0]>> \o Without(@, m)]
       IN  Becomes(IF row.st = "running"
                   THEN Order(Move(first, "cancelling", FALSE), "cancel")
                   ELSE Pump(first))
    /\ UNCHANGED <<log, hostLink, awaiting, batchSeqs, toHost, breaks>>
    /\ UNCHANGED nodeVars

\* POST /stop: durable first; without a link the reconciliation repeats it.
Stop ==
    /\ row.st \notin Terminal \cup {"none"} /\ ~row.stop
    /\ Becomes(Order([Host EXCEPT !.row.stop = TRUE], "stop"))
    /\ UNCHANGED <<log, hostLink, awaiting, batchSeqs, toHost, breaks>>
    /\ UNCHANGED nodeVars

-----------------------------------------------------------------------------
(* The Host reads a frame; one it closed the socket on still has its frames *)
(* read until the close comes through.                                      *)

Receives(kind) ==
    /\ hostLink # "down" \/ kind = "ready"
    /\ toHost # <<>> /\ Head(toHost).kind = kind

\* acceptNode: attach the link, welcome the Node, and reconcile at once if it
\* holds no events back.
HostReady ==
    /\ Receives("ready") /\ hostLink = "down"
    /\ LET frame == Head(toHost)
           attached == [Host EXCEPT !.link = "open", !.out = <<[kind |-> "welcome"]>>]
       IN  /\ awaiting' = frame.batch
           /\ Becomes(IF frame.batch THEN attached
                      ELSE Reconciled(attached, frame.up, frame.busy))
    /\ hostLink' = "open" /\ batchSeqs' = {}
    /\ toHost' = Tail(toHost)
    /\ UNCHANGED <<log, breaks>>
    /\ UNCHANGED nodeVars

\* Variant: a replayed event is stored again.
NeverKnown(e) == FALSE

\* The Host holds an event of this number.
Known(e) == \E p \in log : p[1] = e.seq

\* appendEvent refuses a number already taken; handleEventResult applies what
\* was stored.
Stores(e) ==
    IF Known(e) THEN UNCHANGED <<row, queue, cmds, notices, fate, log, toNode>>
    ELSE /\ log' = log \cup {<<e.seq, e.inc>>}
         /\ Becomes(Applied(Host, e))

HostEvent ==
    /\ Receives("event")
    /\ LET frame == Head(toHost)
       IN  /\ frame.tagged = awaiting
           /\ ~(awaiting /\ frame.ev.seq \in batchSeqs)
           /\ batchSeqs' = IF awaiting THEN batchSeqs \cup {frame.ev.seq}
                           ELSE batchSeqs
           /\ awaiting' = awaiting
           /\ Stores(frame.ev)
    /\ toHost' = Tail(toHost)
    /\ UNCHANGED <<hostLink, breaks>>
    /\ UNCHANGED nodeVars

\* The first event of a further batch on the same connection.
HostNextBatch ==
    /\ Receives("event")
    /\ LET frame == Head(toHost)
       IN  /\ frame.tagged /\ ~awaiting
           /\ batchSeqs' = {frame.ev.seq}
           /\ Stores(frame.ev)
    /\ awaiting' = TRUE
    /\ toHost' = Tail(toHost)
    /\ UNCHANGED <<hostLink, breaks>>
    /\ UNCHANGED nodeVars

\* rejectOutbox: a batch names one sequence twice.
HostRejects ==
    /\ Receives("event") /\ hostLink = "open"
    /\ awaiting /\ Head(toHost).ev.seq \in batchSeqs
    /\ hostLink' = "closing"
    /\ toHost' = Tail(toHost)
    /\ UNCHANGED <<row, log, queue, cmds, awaiting, batchSeqs, toNode, breaks,
                   notices, fate>>
    /\ UNCHANGED nodeVars

\* `outbox_flushed`: reconcile with the inventory it carries, acknowledge.
HostFlushed ==
    /\ Receives("flushed") /\ awaiting
    /\ LET frame == Head(toHost)
           h == Reconciled(Host, frame.up, frame.busy)
       IN  Becomes([h EXCEPT !.out = IF hostLink = "open"
                                     THEN Append(@, [kind |-> "ack"]) ELSE @])
    /\ awaiting' = FALSE /\ batchSeqs' = {}
    /\ toHost' = Tail(toHost)
    /\ UNCHANGED <<log, hostLink, breaks>>
    /\ UNCHANGED nodeVars

\* recordPresence: no reconciliation while a batch is outstanding.
HostBeat ==
    /\ Receives("beat")
    /\ LET frame == Head(toHost)
       IN  Becomes(IF awaiting THEN Host
                   ELSE Reconciled(Host, frame.up, frame.busy))
    /\ toHost' = Tail(toHost)
    /\ UNCHANGED <<log, hostLink, awaiting, batchSeqs, breaks>>
    /\ UNCHANGED nodeVars

\* command_result: a fatal one fails the session, a refusal only the launch it
\* answers.
ResultOf(frame) ==
    IF \/ frame.fatal
       \/ row.st \in {"queued", "starting"} /\ row.cmd = frame.id
    THEN FailedByResult(Host) ELSE Host

HostResult ==
    /\ Receives("result")
    /\ Becomes(ResultOf(Head(toHost)))
    /\ toHost' = Tail(toHost)
    /\ UNCHANGED <<log, hostLink, awaiting, batchSeqs, breaks>>
    /\ UNCHANGED nodeVars

\* The Host closes the socket over something else this Node sent.
HostHangsUp ==
    /\ "hang-up" \in Hazards /\ hostLink = "open" /\ breaks < MaxBreaks
    /\ hostLink' = "closing" /\ breaks' = breaks + 1
    /\ UNCHANGED <<row, log, queue, cmds, awaiting, batchSeqs, toHost, toNode,
                   notices, fate>>
    /\ UNCHANGED nodeVars

\* markNodeSessionsOffline, resetConnectivity.
GoesOffline ==
    row' = IF row.st \in Terminal \cup {"none"} THEN row
           ELSE [row EXCEPT !.st = "offline"]

LinkGone ==
    /\ hostLink' = "down" /\ awaiting' = FALSE /\ batchSeqs' = {}
    /\ nodeLink' = "down"
    /\ toHost' = <<>> /\ toNode' = <<>>
    /\ UNCHANGED <<log, cmds, notices, own, taken, silenced>>

\* The link breaks, or a close comes through: disconnectNode at the Host, the
\* close handler at the Node, and what was on its way is lost.
Break ==
    /\ nodeLink # "down" \/ hostLink # "down"
    /\ hostLink = "closing" \/ breaks < MaxBreaks
    /\ breaks' = IF hostLink = "closing" THEN breaks ELSE breaks + 1
    /\ GoesOffline /\ LinkGone
    /\ UNCHANGED <<queue, fate, slot, inbox>> /\ UNCHANGED outboxVars

\* The Host restarts: a message it was delivering cannot be confirmed.
HostRestart ==
    /\ breaks < MaxBreaks /\ breaks' = breaks + 1
    /\ GoesOffline /\ LinkGone
    /\ queue' = Undelivered(queue)
    /\ UNCHANGED <<fate, slot, inbox>> /\ UNCHANGED outboxVars

\* The Node restarts: slots, accepted commands and the outbox are gone.
NodeRestart ==
    /\ breaks < MaxBreaks /\ breaks' = breaks + 1
    /\ GoesOffline /\ LinkGone
    /\ slot' = [NoSlot EXCEPT !.inc = slot.inc] /\ inbox' = <<>>
    /\ hold' = FALSE /\ pending' = <<>> /\ batch' = <<>>
    /\ inFlight' = FALSE /\ reconcile' = FALSE
    /\ UNCHANGED <<queue, fate>>

-----------------------------------------------------------------------------
(* The Node                                                                 *)

EventFrame(e, tagged) == [kind |-> "event", ev |-> e, tagged |-> tagged]
Result(cmd, fatal) == [kind |-> "result", id |-> cmd.id, fatal |-> fatal]

Up == slot.phase # "none"
Initializing == slot.phase \in {"new", "booting"}
Busy == slot.phase \in {"busy", "own"}
Inventory(kind) == [kind |-> kind, up |-> Up, busy |-> Busy]

\* Variant: numbering starts at the offset itself.
NumberedFromOffset(kinds, turn) ==
    [i \in DOMAIN kinds |-> [seq |-> slot.seq + i - 1, inc |-> slot.inc,
                             kind |-> kinds[i], turn |-> turn]]

\* SequencedAgent.emit numbers a session's events from the slot's offset.
Numbered(kinds, turn) ==
    [i \in DOMAIN kinds |-> [seq |-> slot.seq + i, inc |-> slot.inc,
                             kind |-> kinds[i], turn |-> turn]]

\* Events leave at once or are held; a result without a socket is lost.
Report(events, results) ==
    /\ IF nodeLink = "down" \/ hold
       THEN /\ pending' = pending \o events
            /\ reconcile' = (reconcile \/ events # <<>>)
       ELSE UNCHANGED <<pending, reconcile>>
    /\ toHost' = IF nodeLink = "down" THEN toHost
                 ELSE IF hold THEN toHost \o results
                 ELSE toHost \o [i \in DOMAIN events |->
                                   EventFrame(events[i], FALSE)] \o results
    /\ UNCHANGED <<batch, inFlight, hold, nodeLink, breaks>>
    /\ UNCHANGED hostVars

\* The slot after it raised n events.
After(phase, n) == [slot EXCEPT !.phase = phase, !.seq = @ + n, !.turn = 0]
Gone == [NoSlot EXCEPT !.inc = slot.inc]

\* connect() up to `ready`: freeze what is held and hold the rest back.
Connect ==
    /\ nodeLink = "down" /\ hostLink = "down" /\ toHost = <<>>
    /\ LET owed == reconcile \/ inFlight \/ pending # <<>>
           frozen == owed /\ ~inFlight /\ (pending # <<>> \/ reconcile)
       IN  /\ hold' = owed
           /\ batch' = IF frozen THEN pending ELSE batch
           /\ pending' = IF frozen THEN <<>> ELSE pending
           /\ inFlight' = (inFlight \/ frozen)
           /\ toHost' = <<[kind |-> "ready", up |-> Up, busy |-> Busy,
                           batch |-> owed]>>
    /\ nodeLink' = "ready"
    /\ UNCHANGED <<slot, inbox, own, taken, silenced, reconcile, toNode, breaks>>
    /\ UNCHANGED hostVars

FlushFrames(events) ==
    [i \in DOMAIN events |-> EventFrame(events[i], TRUE)]
        \o <<Inventory("flushed")>>

\* `welcome`: replay the frozen batch, then the inventory.
HandleWelcome ==
    /\ toNode # <<>> /\ Head(toNode).kind = "welcome"
    /\ nodeLink' = "up"
    /\ toNode' = Tail(toNode)
    /\ toHost' = IF hold THEN toHost \o FlushFrames(batch) ELSE toHost
    /\ UNCHANGED <<slot, inbox, own, taken, silenced, breaks>> /\ UNCHANGED outboxVars
    /\ UNCHANGED hostVars

\* `outbox_flush_ack`: flush what piled up meanwhile, or go live.
HandleAck ==
    /\ toNode # <<>> /\ Head(toNode).kind = "ack"
    /\ toNode' = Tail(toNode)
    /\ IF pending # <<>>
       THEN /\ batch' = pending /\ pending' = <<>>
            /\ toHost' = toHost \o FlushFrames(pending)
            /\ UNCHANGED <<hold, inFlight, reconcile>>
       ELSE /\ batch' = <<>> /\ inFlight' = FALSE /\ hold' = FALSE
            /\ reconcile' = FALSE
            /\ UNCHANGED <<pending, toHost>>
    /\ UNCHANGED <<slot, inbox, own, taken, silenced, nodeLink, breaks>>
    /\ UNCHANGED hostVars

LaunchOnItsWay ==
    \E i \in DOMAIN toNode : /\ toNode[i].kind = "command"
                             /\ toNode[i].type \in {"start", "resume"}

\* The heartbeat timer; one outstanding inventory bounds the wire.
Heartbeat ==
    /\ nodeLink = "up"
    /\ \A i \in DOMAIN toHost : toHost[i].kind # "beat"
    /\ "stale beat" \in Hazards \/ ~LaunchOnItsWay
    /\ toHost' = Append(toHost, Inventory("beat"))
    /\ UNCHANGED <<toNode, breaks>> /\ UNCHANGED nodeVars /\ UNCHANGED hostVars

Arrives(types) ==
    /\ toNode # <<>> /\ Head(toNode).kind = "command"
    /\ Head(toNode).type \in types
    /\ toNode' = Tail(toNode)

Accepts == inbox' = Append(inbox, [cmd |-> Head(toNode), inc |-> slot.inc])

\* startSession: a slot of its own, unless the session has one.
ReceiveLaunch ==
    /\ Arrives({"start", "resume"})
    /\ LET c == Head(toNode)
       IN  \/ /\ ~Up
              /\ slot' = [NoSlot EXCEPT !.phase = "new", !.inc = slot.inc + 1,
                            !.seq = c.offset, !.cmd = c.id, !.type = c.type]
              /\ UNCHANGED inbox /\ Report(<<>>, <<>>)
           \/ /\ Up /\ ~slot.stopping
              /\ Accepts /\ UNCHANGED slot /\ Report(<<>>, <<>>)
           \/ /\ Up /\ slot.stopping
              /\ Report(<<>>, <<Result(c, FALSE)>>)
              /\ UNCHANGED <<slot, inbox>>
    /\ UNCHANGED <<own, taken, silenced>>

\* execute, stop: the slot refuses everything else from here on.
ReceiveStop ==
    /\ Arrives({"stop"})
    /\ IF Up THEN /\ slot' = [slot EXCEPT !.stopping = TRUE]
                  /\ Accepts /\ Report(<<>>, <<>>)
       ELSE /\ Report(<<>>, <<Result(Head(toNode), TRUE)>>)
            /\ UNCHANGED <<slot, inbox>>
    /\ UNCHANGED <<own, taken, silenced>>

\* execute, prompt: admission looks at the checkout before the agent is asked.
ReceivePrompt ==
    /\ Arrives({"prompt"})
    /\ LET c == Head(toNode)
       IN  IF Up /\ ~slot.stopping
           THEN Accepts /\ Report(<<>>, <<>>)
           ELSE Report(<<>>, <<Result(c, ~Up)>>) /\ UNCHANGED inbox
    /\ UNCHANGED <<slot, own, taken, silenced>>

\* SequencedAgent.cancel: a cancelled turn still ends by itself (TurnEnds); an
\* unprompted one is over.
CancelsTurn ==
    IF slot.phase = "own"
    THEN /\ slot' = After("idle", 1)
         /\ Report(Numbered(<<"idle">>, 0), <<>>)
         /\ UNCHANGED silenced
    ELSE /\ silenced' = silenced \cup ({slot.turn} \ {0})
         /\ UNCHANGED slot /\ Report(<<>>, <<>>)

\* execute, cancel: at once, unless the session is still starting.
ReceiveCancel ==
    /\ Arrives({"cancel"})
    /\ LET c == Head(toNode)
       IN  \/ /\ ~Up \/ slot.stopping
              /\ Report(<<>>, <<Result(c, ~Up)>>)
              /\ UNCHANGED <<slot, inbox, silenced>>
           \/ /\ Up /\ ~slot.stopping /\ Initializing
              /\ Accepts /\ Report(<<>>, <<>>)
              /\ UNCHANGED <<slot, silenced>>
           \/ /\ Up /\ ~slot.stopping /\ ~Initializing
              /\ CancelsTurn /\ UNCHANGED inbox
    /\ UNCHANGED <<own, taken>>

\* initializeSession got as far as the agent process.
Boot ==
    /\ slot.phase = "new"
    /\ slot' = After("booting", 1)
    /\ Report(Numbered(<<"starting">>, 0), <<>>)
    /\ UNCHANGED <<inbox, own, taken, silenced, toNode>>

\* The agent has its conversation: a resumed one waits, a new one begins the
\* turn it was launched for.
Booted ==
    /\ slot.phase = "booting"
    /\ IF slot.type = "resume"
       THEN /\ slot' = After("idle", 2)
            /\ Report(Numbered(<<"agent", "idle">>, 0), <<>>)
       ELSE /\ slot' = [After("busy", 2) EXCEPT !.turn = slot.cmd]
            /\ Report(Numbered(<<"agent", "running">>, slot.cmd), <<>>)
    /\ UNCHANGED <<inbox, own, taken, silenced, toNode>>

\* A failed start takes the commands that waited for it along.
BootFails ==
    /\ slot.phase \in {"new", "booting"}
    /\ \A i \in DOMAIN inbox : inbox[i].inc = slot.inc
    /\ slot' = Gone /\ inbox' = <<>>
    /\ \E fatal \in BOOLEAN :
         /\ slot.phase = "booting" \/ "late refusal" \notin Hazards => fatal
         /\ Report(IF slot.phase = "booting" THEN Numbered(<<"failed">>, 0)
                   ELSE <<>>,
                   <<[kind |-> "result", id |-> slot.cmd, fatal |-> fatal]>>
                     \o [i \in DOMAIN inbox |-> Result(inbox[i].cmd, fatal)])
    /\ UNCHANGED <<own, taken, silenced, toNode>>

\* The accepted commands of these types that can go ahead: those of a starting
\* slot wait for it, and a stop overtakes what is still being admitted.
Ready(types) ==
    {i \in DOMAIN inbox :
       /\ inbox[i].cmd.type \in types
       /\ ~(Initializing /\ slot.inc = inbox[i].inc)
       /\ i = 1 \/ (/\ inbox[i].cmd.type = "stop"
                   /\ \A j \in 1..(i - 1) : inbox[j].cmd.type # "stop")}

Carries(i) ==
    /\ inbox' = RemoveAt(inbox, i)
    /\ UNCHANGED <<own, toNode>>

Lost(i) == ~Up \/ slot.inc # inbox[i].inc

\* A launch onto a live slot only revalidates it.
CarryLaunch ==
    \E i \in Ready({"start", "resume"}) :
      /\ Carries(i)
      /\ Report(<<>>, IF Lost(i) THEN <<Result(inbox[i].cmd, FALSE)>> ELSE <<>>)
      /\ UNCHANGED <<slot, taken, silenced>>

\* quiesce: the agent reports `stopped`, or `failed` if closing its connection
\* broke the turn first.
CarryStop ==
    \E i \in Ready({"stop"}) :
      /\ Carries(i)
      /\ IF Lost(i) THEN UNCHANGED slot /\ Report(<<>>, <<>>)
         ELSE /\ slot' = Gone
              /\ \E kind \in {"stopped", "failed"} :
                   /\ kind = "failed" => slot.phase = "busy"
                   /\ Report(Numbered(<<kind>>, 0), <<>>)
      /\ UNCHANGED <<taken, silenced>>

\* A prompt begins a turn; a busy agent restates where it is and refuses.
CarryPrompt ==
    \E i \in Ready({"prompt"}) :
      LET c == inbox[i].cmd
      IN  /\ Carries(i) /\ UNCHANGED silenced
          /\ \/ /\ Lost(i)
                /\ Report(<<>>, <<Result(c, FALSE)>>)
                /\ UNCHANGED <<slot, taken>>
             \/ /\ ~Lost(i) /\ Busy
                /\ slot' = [slot EXCEPT !.seq = @ + 1]
                /\ Report(Numbered(<<"running">>, 0), <<Result(c, FALSE)>>)
                /\ UNCHANGED taken
             \/ /\ ~Lost(i) /\ ~Busy
                /\ slot' = [After("busy", 1) EXCEPT !.turn = c.id]
                /\ taken' = Append(taken, c.msg)
                /\ Report(Numbered(<<"running">>, c.id), <<>>)

\* A cancel that waited for the session to start.
CarryCancel ==
    \E i \in Ready({"cancel"}) :
      /\ Carries(i) /\ UNCHANGED taken
      /\ IF Lost(i) THEN /\ Report(<<>>, <<Result(inbox[i].cmd, TRUE)>>)
                         /\ UNCHANGED <<slot, silenced>>
         ELSE CancelsTurn

TurnEnds ==
    /\ slot.phase = "busy"
    /\ slot' = After("idle", 2)
    /\ Report(Numbered(<<"turn", "idle">>, slot.turn), <<>>)
    /\ UNCHANGED <<inbox, own, taken, silenced, toNode>>

\* The agent picks up work nobody prompted, and goes quiet again.
OwnTurnBegins ==
    /\ slot.phase = "idle" /\ own < MaxOwn
    /\ own' = own + 1
    /\ slot' = After("own", 1)
    /\ Report(Numbered(<<"running">>, 0), <<>>)
    /\ UNCHANGED <<inbox, taken, silenced, toNode>>

OwnTurnEnds ==
    /\ slot.phase = "own"
    /\ slot' = After("idle", 1)
    /\ Report(Numbered(<<"idle">>, 0), <<>>)
    /\ UNCHANGED <<inbox, own, taken, silenced, toNode>>

\* The process exits, or its turn fails.
AgentEnds ==
    /\ slot.phase \in {"idle", "busy", "own"}
    /\ \E kind \in {"failed"} \cup (IF "clean exit" \in Hazards THEN {"completed"} ELSE {}) :
         Report(Numbered(<<kind>>, 0), <<>>)
    /\ slot' = Gone
    /\ UNCHANGED <<inbox, own, taken, silenced, toNode>>

-----------------------------------------------------------------------------

HostReads == HostReady \/ HostEvent \/ HostNextBatch \/ HostRejects
             \/ HostFlushed \/ HostBeat \/ HostResult

NodeReads == HandleWelcome \/ HandleAck \/ ReceiveLaunch \/ ReceiveStop
             \/ ReceivePrompt \/ ReceiveCancel

NodeCarries == CarryLaunch \/ CarryStop \/ CarryPrompt \/ CarryCancel

Boots == Boot \/ Booted \/ BootFails

Operates ==
    \/ Launch \/ Resume \/ Cancel \/ Stop
    \/ \E m \in Messages : Submit(m) \/ CancelMessage(m) \/ SendNow(m)

Next ==
    \/ Operates \/ Tick
    \/ HostReads \/ HostHangsUp
    \/ Break \/ HostRestart \/ NodeRestart
    \/ Connect \/ NodeReads \/ Heartbeat
    \/ Boots \/ NodeCarries
    \/ TurnEnds \/ OwnTurnBegins \/ OwnTurnEnds \/ AgentEnds

Spec == Init /\ [][Next]_vars

\* The reconnect timer, both message loops, the heartbeat and queue timers, and
\* the router's startup and command promises all make progress; an agent owes
\* nothing, and links break or last as they like.
Fairness ==
    /\ WF_vars(HostReads) /\ WF_vars(NodeReads)
    /\ WF_vars(Connect) /\ WF_vars(Heartbeat) /\ WF_vars(Tick)
    /\ WF_vars(Boots) /\ WF_vars(NodeCarries)
    /\ WF_vars(hostLink = "closing" /\ Break)

FairSpec == Spec /\ Fairness

-----------------------------------------------------------------------------
(* Properties                                                               *)

Kinds == Terminal \cup {"starting", "agent", "running", "turn", "idle"}
EventType == [seq: Nat \ {0}, inc: Nat, kind: Kinds, turn: 0..MaxCmds]
CommandType == [kind: {"command"}, id: 0..MaxCmds, offset: Nat,
                type: {"start", "resume", "stop", "cancel", "prompt"},
                msg: 0..MaxMsgs]
InventoryType == [kind: {"flushed", "beat"}, up: BOOLEAN, busy: BOOLEAN]
HostFrames == [kind: {"event"}, ev: EventType, tagged: BOOLEAN]
              \cup [kind: {"ready"}, up: BOOLEAN, busy: BOOLEAN, batch: BOOLEAN]
              \cup InventoryType
              \cup [kind: {"result"}, id: 0..MaxCmds, fatal: BOOLEAN]
NodeFrames == [kind: {"welcome", "ack"}] \cup CommandType

\* Every variable has its type: events are numbered from 1, turns by commands.
TypeOK ==
    /\ row \in [st: States \cup {"none"}, stop: BOOLEAN, agent: BOOLEAN,
                intent: {"none", "stop", "cancel"}, done: 0..MaxCmds,
                cmd: 0..MaxCmds]
    /\ log \subseteq (Nat \ {0}) \X Nat
    /\ queue \in Seq([id: Messages, state: {"pending", "sending", "failed"},
                      after: Nat])
    /\ cmds \in 0..MaxCmds /\ breaks \in 0..MaxBreaks /\ own \in 0..MaxOwn
    /\ hostLink \in {"open", "closing", "down"} /\ awaiting \in BOOLEAN
    /\ batchSeqs \subseteq Nat \ {0}
    /\ slot \in [phase: {"none", "new", "booting", "idle", "busy", "own"},
                 inc: Nat, seq: Nat, stopping: BOOLEAN, turn: 0..MaxCmds,
                 cmd: 0..MaxCmds, type: {"none", "start", "resume"}]
    /\ inbox \in Seq([cmd: CommandType, inc: Nat])
    /\ nodeLink \in {"down", "ready", "up"}
    /\ hold \in BOOLEAN /\ inFlight \in BOOLEAN /\ reconcile \in BOOLEAN
    /\ pending \in Seq(EventType) /\ batch \in Seq(EventType)
    /\ toHost \in Seq(HostFrames) /\ toNode \in Seq(NodeFrames)
    /\ notices \in Seq(1..MaxCmds)
    /\ silenced \subseteq 0..MaxCmds /\ taken \in Seq(Messages)
    /\ fate \in [Messages -> {"new", "queued", "delivered", "cancelled"}]

\* Nothing is on its way and nothing is being carried out.
Quiet ==
    /\ hostLink = "open" /\ nodeLink = "up" /\ ~hold
    /\ toHost = <<>> /\ toNode = <<>> /\ inbox = <<>>
    /\ ~Initializing

\* Once everything sent has arrived, the row says what the Node's agent does:
\* across breaks, replays, restarts, refusals and crossing commands.
Agree ==
    Quiet => CASE slot.phase = "none" -> row.st \in Terminal \cup {"none"}
               [] slot.phase = "idle" -> row.st = "idle"
               [] OTHER -> row.st \in {"running", "cancelling"}

Count(s, x) == Cardinality({i \in DOMAIN s : s[i] = x})

\* A turn's completion is notified once at most, however its end is replayed.
NotifiedOnce == \A t \in 1..MaxCmds : Count(notices, t) <= 1

\* While every turn was prompted, one whose agent was told to cancel it is not
\* announced as a completion.  (A turn the agent begins by itself reports
\* `running`, which takes the row out of cancelling.)
CalledOffIsSilent ==
    own = 0 => \A i \in DOMAIN notices : notices[i] \notin silenced

\* A message the Host took off the queue as delivered was put to the agent.
DeliveredWasTaken ==
    \A m \in Messages : fate[m] = "delivered" => Count(taken, m) >= 1

\* It was, while every turn was prompted.
DeliveredIfPrompted == own = 0 => DeliveredWasTaken

\* As long as turns begin by prompts, what the Host says of them is so.
TurnsAreTold == CalledOffIsSilent /\ DeliveredIfPrompted

\* A stop request stays until the session has settled.
StopStays == [][row.stop /\ ~row'.stop => row'.st \in Terminal]_vars

\* A session asked to stop settles, whatever broke on the way.
StopSettles == row.stop ~> ~row.stop

\* A launch is answered: the session does not stay `starting`.
LaunchSettles == row.st = "starting" ~> row.st # "starting"

\* What was asked of a session's agent stands until it is answered, and is
\* answered, through lost commands.
RequestsSettle == StopStays /\ StopSettles /\ LaunchSettles

=============================================================================
