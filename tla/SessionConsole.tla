---------------------------- MODULE SessionConsole ----------------------------
(***************************************************************************)
(* The second path of a session's events: a session the Host has granted   *)
(* for continuation is journalled on the Node, may be prompted there while *)
(* the Host is away, and is synchronized when they meet again.             *)
(*                                                                         *)
(* One granted session.  apps/node: NodeSessionConsole and SessionJournal; *)
(* apps/host: SessionConsoleService and its store.  The Node numbers what  *)
(* it journals; local prompts ("operations") each take a control epoch.    *)
(* Synchronization is a coroutine that makes one request at a time; what   *)
(* it will need when the answer comes is carried here in the request, which*)
(* the answer returns.                                                     *)
(***************************************************************************)
EXTENDS Integers, FiniteSets, Sequences, SequencesExt, FiniteSetsExt

CONSTANTS
    MaxOutput,     \* events the session raises
    MaxLocal,      \* prompts given at the Node
    MaxWork,       \* commands the Host sends
    MaxTroubles,   \* breaks of the connection, deaths of the Node's process,
                   \* failed imports, timeouts and resyncs asked for, in all
    BatchEvents,   \* events of a batch (512 in the code)
    BatchControls, \* operations of a batch (100)
    Window,        \* live batches in flight (128)
    Rebound,       \* each resumption rotates the session's checkout lease
    Overlapping    \* a resync may be asked for while a synchronization runs

ASSUME ConsoleBounds ==
    /\ {MaxOutput, MaxLocal, MaxWork, MaxTroubles} \subseteq Nat
    /\ {BatchEvents, BatchControls, Window} \subseteq Nat \ {0}
    /\ Rebound \in BOOLEAN /\ Overlapping \in BOOLEAN

VARIABLES
    journal,   \* disk: the ids of the committed events; the place is the sequence
    acked,     \* disk: acknowledgedSequence
    epoch,     \* disk: controlEpoch
    ackedEpoch,\* disk: acknowledgedControlEpoch
    ops,       \* disk: the local operations
    buffered,  \* events appended and not yet committed
    agent,     \* the agent: whether it lives, and whether it is in a turn
    invoking,  \* the operation a holder of the session's lock is routing, or 0
    admitting, \* Host commands that wait for the session's lock
    console,   \* the console: its status and generation, the grant, what the
               \* Host was told, and whether pumpLocal is asked for
    live,      \* the live pump: what it has sent on this connection, the
               \* batches in flight, the acknowledgments not yet written
    up,        \* the connection is open
    toHost, toNode,
    stored,    \* Host disk: the events stored
    hostEpoch, \* Host disk: the grant's control epoch
    hostOps,   \* Host disk: the operations it was told of
    receipts,  \* Host disk: the operations it has accepted as control
    peer,      \* Host memory: what it holds for the connection
    used       \* counters of the bounds, and how often each prompt was given

journalVars == <<journal, acked, epoch, ackedEpoch, ops>>
nodeVars == <<buffered, agent, invoking, admitting>>
hostVars == <<stored, hostEpoch, hostOps, receipts, peer>>
vars == <<journalVars, nodeVars, console, live, up, toHost, toNode, hostVars, used>>

Ops == 1..MaxLocal
Water == Len(journal)
NoOp == [state |-> "none", epoch |-> 0, after |-> 0]
NoAck == [through |-> -1, epoch |-> 0]

\* resetLive: what the pump knew of a connection is forgotten.
NoLive ==
    [wanted |-> FALSE, dirty |-> FALSE, sent |-> -1,
     states |-> [o \in Ops |-> NoOp], inFlight |-> 0, acks |-> NoAck]

Init ==
    /\ journal = <<>> /\ acked = 0 /\ epoch = 0 /\ ackedEpoch = 0
    /\ ops = [o \in Ops |-> NoOp]
    /\ buffered = <<>> /\ agent \in [alive: {TRUE}, busy: BOOLEAN]
    /\ invoking = 0 /\ admitting = <<>>
    /\ console = [status |-> "offline", fenced |-> FALSE, gen |-> 0,
                  expired |-> 0, joining |-> FALSE, granted |-> FALSE,
                  hostEpoch |-> 0, told |-> [o \in Ops |-> NoOp],
                  pump |-> FALSE]
    /\ live = NoLive
    /\ up = FALSE /\ toHost = <<>> /\ toNode = <<>>
    /\ stored = {} /\ hostEpoch = 0 /\ hostOps = [o \in Ops |-> NoOp]
    /\ receipts = {} /\ peer = [syncing |-> FALSE, failed |-> FALSE,
                               observed |-> FALSE]
    /\ used = [raised |-> 0, work |-> 0, troubles |-> 0,
               invoked |-> [o \in Ops |-> 0]]

-----------------------------------------------------------------------------
(* The journal                                                             *)

\* `flush` and the observer it calls: buffered events and `more` become
\* durable, and the live pump is asked to send them.
Commit(more) ==
    /\ journal' = journal \o buffered \o more
    /\ buffered' = <<>>

FlushedWater == Water + Len(buffered)

\* Variant: the pump is woken, but not told that operations changed.
MarkedWanted(l) == [l EXCEPT !.wanted = TRUE]

\* markOperationsDirty.
Marked(l) == [l EXCEPT !.dirty = TRUE, !.wanted = TRUE]

\* One more of what may go wrong.
Trouble ==
    /\ used.troubles < MaxTroubles
    /\ used' = [used EXCEPT !.troubles = @ + 1]

\* Variant: only what the synchronization sends is sent.
WantsNothing(l, news) == l

\* What `committed` does to the pump: pendingSessions has the session.
Wants(l, news) == IF news THEN [l EXCEPT !.wanted = TRUE] ELSE l

\* An agent's text is buffered; the writer's timer or the burst's microtask
\* commits it later.
Emit ==
    /\ agent.alive /\ agent.busy /\ used.raised < MaxOutput
    /\ used' = [used EXCEPT !.raised = @ + 1]
    /\ buffered' = Append(buffered, used.raised + 1)
    /\ UNCHANGED <<journalVars, agent, invoking, admitting, console, live, up,
                   toHost, toNode, hostVars>>

Flush ==
    /\ buffered # <<>>
    /\ Commit(<<>>)
    /\ live' = Wants(live, TRUE)
    /\ UNCHANGED <<acked, epoch, ackedEpoch, ops, agent, invoking, admitting,
                   console, up, toHost, toNode, hostVars, used>>

\* The operations of state `from` that an event of sequence `at` decides.
Decided(from, at, to) ==
    [o \in Ops |-> IF ops[o].state = from /\ ops[o].after < at
                   THEN [ops[o] EXCEPT !.state = to] ELSE ops[o]]

\* pumpLocal is asked for: a console in doubt does not take the request.
InDoubt(c) == c.status \in {"syncing", "conflict"}
PumpAsked(c) == [c EXCEPT !.pump = @ \/ ~InDoubt(c)]

\* A turn ends: `turn_complete` settles the accepted prompt, and an agent that
\* becomes idle without one leaves its outcome uncertain.  Both events are
\* committed at once.  The queue is pumped when the session is idle.
TurnEnds ==
    /\ agent.alive /\ agent.busy /\ used.raised < MaxOutput
    /\ \E end \in {"settled", "uncertain"} :
          ops' = Decided("accepted", FlushedWater + 1, end)
    /\ used' = [used EXCEPT !.raised = @ + 1]
    /\ Commit(<<used.raised + 1>>)
    /\ agent' = [agent EXCEPT !.busy = FALSE]
    /\ console' = PumpAsked(console)
    /\ live' = IF ops' # ops THEN Marked(live) ELSE Wants(live, TRUE)
    /\ UNCHANGED <<acked, epoch, ackedEpoch, invoking, admitting, up, toHost,
                   toNode, hostVars>>

\* The agent stops or fails: what was accepted is uncertain, what was queued
\* is not sent.
AgentEnds ==
    /\ agent.alive /\ used.raised < MaxOutput
    /\ used' = [used EXCEPT !.raised = @ + 1]
    /\ Commit(<<used.raised + 1>>)
    /\ ops' = [o \in Ops |->
                 CASE ops[o].state = "accepted" -> [ops[o] EXCEPT !.state = "uncertain"]
                   [] ops[o].state = "queued" -> [ops[o] EXCEPT !.state = "rejected"]
                   [] OTHER -> ops[o]]
    /\ agent' = [alive |-> FALSE, busy |-> FALSE]
    /\ live' = IF ops' # ops THEN Marked(live) ELSE Wants(live, TRUE)
    /\ UNCHANGED <<acked, epoch, ackedEpoch, invoking, admitting, console, up,
                   toHost, toNode, hostVars>>

-----------------------------------------------------------------------------
(* Prompts given at the Node                                               *)

\* acceptOperation and beginOperation: the operation takes the next epoch, and
\* the events journalled so far are before it.
Recorded(o, state) ==
    /\ epoch' = epoch + 1
    /\ ops' = [ops EXCEPT ![o] = [state |-> state, epoch |-> epoch + 1,
                                  after |-> FlushedWater]]

\* A prompt is taken while the Host is away: sent at once, or queued behind the
\* turn the agent is in.
LocalPrompt ==
    /\ console.status = "offline" /\ agent.alive /\ invoking = 0
    /\ admitting = <<>>
    /\ \E o \in Ops :
          /\ ops[o] = NoOp /\ \A p \in 1..(o - 1) : ops[p] # NoOp
          /\ Recorded(o, IF agent.busy THEN "queued" ELSE "accepted")
          /\ invoking' = IF agent.busy THEN 0 ELSE o
    /\ Commit(<<>>)
    /\ live' = Marked(live)
    /\ UNCHANGED <<acked, ackedEpoch, agent, admitting, console, up, toHost,
                   toNode, hostVars, used>>

\* invokeLocal: the router takes the prompt, or refuses it.
Invoke ==
    /\ invoking # 0
    /\ invoking' = 0
    /\ \/ /\ agent.alive
          /\ agent' = [agent EXCEPT !.busy = TRUE]
          /\ used' = [used EXCEPT !.invoked[invoking] = @ + 1]
          /\ UNCHANGED <<ops, live>>
       \/ /\ ops' = [ops EXCEPT ![invoking].state = "rejected"]
          /\ live' = Marked(live)
          /\ UNCHANGED <<agent, used>>
    /\ UNCHANGED <<journal, acked, epoch, ackedEpoch, buffered, admitting,
                   console, up, toHost, toNode, hostVars>>

\* queueAction: a queued prompt is taken back, at the Node or from the Host.
CancelQueued ==
    /\ ~InDoubt(console)
    /\ invoking = 0
    /\ \E o \in Ops : /\ ops[o].state = "queued"
                      /\ ops' = [ops EXCEPT ![o].state = "rejected"]
    /\ Commit(<<>>)
    /\ live' = Marked(live)
    /\ UNCHANGED <<acked, epoch, ackedEpoch, agent, invoking, admitting,
                   console, up, toHost, toNode, hostVars, used>>

Queued == {o \in Ops : ops[o].state = "queued"}

Pumpable == ~InDoubt(console) /\ ~agent.busy /\ Queued # {}

\* pumpLocal, asked for when a turn ends and when the Node is synchronized: the
\* next queued prompt begins.
PumpLocal ==
    /\ console.pump /\ invoking = 0
    /\ console' = [console EXCEPT !.pump = FALSE]
    /\ IF Pumpable
       THEN /\ \E o \in Queued : Recorded(o, "accepted") /\ invoking' = o
            /\ Commit(<<>>)
            /\ live' = Marked(live)
       ELSE UNCHANGED <<epoch, ops, invoking, journal, buffered, live>>
    /\ UNCHANGED <<acked, ackedEpoch, agent, admitting, up, toHost, toNode,
                   hostVars, used>>

-----------------------------------------------------------------------------
(* What is sent                                                            *)

\* An operation as it is on the wire.
Wire(o) == [id |-> o, op |-> ops[o]]

Earlier(a, b) ==
    \/ a.op.after < b.op.after
    \/ a.op.after = b.op.after /\ a.op.epoch < b.op.epoch

Wires(S) == {Wire(o) : o \in S}

\* Of these operations, the first `n` in the order they are sent.
Foremost(n, controls) ==
    {c \in controls : Cardinality({d \in controls : Earlier(d, c)}) < n}

\* A batch of the events of `history` after `after`, up to `limit`, and of the
\* `pending` operations that govern them.  It ends where an operation had no room.
Batch(history, after, limit, pending) ==
    LET last == IF after + BatchEvents < limit THEN after + BatchEvents ELSE limit
        due == {c \in pending : c.op.after <= last}
        fit == Foremost(BatchControls, due)
        through == Max({after, Min({last} \cup {c.op.after : c \in due \ fit})})
    IN  [from |-> after, through |-> through,
         ids |-> SubSeq(history, after + 1, through), controls |-> fit]

EmptyBatch(b) == b.ids = <<>> /\ b.controls = {}

Nothing == [from |-> 0, through |-> 0, ids |-> <<>>, controls |-> {}]

\* A request, with what its maker will need for the answer: the flow that waits
\* for it, the generation it belongs to, and for a synchronization the
\* operations and the watermark still to be sent.
Ask(kind, flow, batch, rest, limit) ==
    [kind |-> kind, flow |-> flow, gen |-> console.gen, batch |-> batch,
     rest |-> rest, limit |-> limit, owed |-> FALSE, epoch |-> 0]

\* liveControls: the operations whose latest state was not sent yet.
Unsent ==
    IF live.dirty
    THEN Wires({o \in Ops : ops[o] # NoOp /\ live.states[o] # ops[o]})
    ELSE {}

\* What the pump has sent: sentThrough, or the acknowledged prefix.
SentThrough == IF live.sent = -1 THEN acked ELSE live.sent

\* One round of pumpLive: the next batch goes out without waiting for the
\* answers to those before it.
PumpLive ==
    /\ console.status = "online" /\ live.wanted /\ live.inFlight < Window
    /\ LET batch == Batch(journal, SentThrough, Water, Unsent)
           sent == batch.controls
       IN  IF ~console.granted
           THEN /\ live' = [live EXCEPT !.wanted = FALSE]
                /\ UNCHANGED toHost
           ELSE IF EmptyBatch(batch)
           THEN /\ live' = [live EXCEPT !.wanted = FALSE, !.dirty = FALSE]
                /\ UNCHANGED toHost
           ELSE /\ toHost' = Append(toHost, Ask("replay", "live", batch, {}, 0))
                /\ live' = [live EXCEPT
                     !.inFlight = @ + 1, !.sent = batch.through,
                     !.wanted = batch.through < Water \/ sent # {},
                     !.states = [o \in Ops |->
                        IF \E c \in sent : c.id = o THEN ops[o] ELSE @[o]]]
    /\ UNCHANGED <<journalVars, nodeVars, console, up, toNode, hostVars, used>>

\* The immediate that writes the acknowledgments gathered: acknowledgeBatch.
AckWrite ==
    /\ live.acks # NoAck
    /\ acked' = Max({acked, live.acks.through})
    /\ ackedEpoch' = Max({ackedEpoch, live.acks.epoch})
    /\ live' = [live EXCEPT !.acks = NoAck]
    /\ UNCHANGED <<journal, epoch, ops, nodeVars, console, up, toHost, toNode,
                   hostVars, used>>

-----------------------------------------------------------------------------
(* Synchronization, on the Node                                            *)

\* `connected` begins a new generation; it waits for the session's lock.
Begun(c) ==
    [c EXCEPT !.gen = @ + 1, !.status = "syncing", !.joining = TRUE,
              !.granted = FALSE, !.told = [o \in Ops |-> NoOp]]

\* `fail` and `unavailable`: the generation ends, the console is in conflict
\* until a synchronization succeeds.
Fenced(c) ==
    IF c.status = "offline" THEN c
    ELSE [c EXCEPT !.gen = @ + 1, !.status = "conflict", !.fenced = TRUE,
                   !.joining = FALSE]

FencedLive == IF console.status = "offline" THEN live ELSE NoLive

\* Nobody holds or waits for the session's lock any more: the Node tells the
\* Host what it runs and what it owes.
Initialize ==
    /\ console.joining /\ invoking = 0 /\ admitting = <<>>
    /\ Commit(<<>>)
    /\ live' = Wants(live, buffered # <<>>)
    /\ console' = [console EXCEPT !.joining = FALSE]
    /\ toHost' = Append(toHost,
         [Ask("initialize", "sync", Nothing, {}, 0) EXCEPT
            !.owed = agent.alive \/ FlushedWater > acked \/ epoch > ackedEpoch])
    /\ UNCHANGED <<acked, epoch, ackedEpoch, ops, agent, invoking, admitting, up,
                   toNode, hostVars, used>>

\* The rest of flushToHost and of `connected`, for a synchronization `s` that
\* has come to the event s.after: the next batch, or the request that ends it.
\* A coroutine of an earlier generation sends its batches but does not end.
NextBatch(history, s) == Batch(history, s.after, s.limit, s.rest)

Ends(history, s, c) == EmptyBatch(NextBatch(history, s)) /\ s.gen = c.gen

NextRequest(history, s, c, acknowledged) ==
    LET batch == NextBatch(history, s)
    IN  IF Ends(history, s, c)
        THEN <<[Ask("synchronized", "sync", Nothing, {}, acknowledged) EXCEPT
                  !.owed = s.owed, !.epoch = c.hostEpoch]>>
        ELSE IF EmptyBatch(batch) \/ c.status \notin {"syncing", "online"}
        THEN <<>>
        ELSE <<[Ask("replay", "sync", batch, s.rest, s.limit) EXCEPT
                  !.gen = s.gen, !.owed = s.owed]>>

\* What the live pump goes on from: the acknowledged event, and the operations
\* the synchronization told the Host of.
HandedOver(l, c, acknowledged) ==
    [l EXCEPT !.sent = acknowledged,
              !.states = [o \in Ops |-> IF c.told[o] # NoOp THEN c.told[o] ELSE @[o]]]

\* The answer at the head of the queue; one to a request that timed out finds
\* nobody waiting.
Answered(kind, flow) ==
    /\ toNode # <<>> /\ Head(toNode).kind = "answer"
    /\ Head(toNode).request.kind = kind /\ Head(toNode).request.flow = flow
    /\ Head(toNode).request.gen > console.expired
    /\ toNode' = Tail(toNode)

IgnoreAnswer ==
    /\ toNode # <<>> /\ Head(toNode).kind = "answer"
    /\ Head(toNode).request.gen <= console.expired
    /\ toNode' = Tail(toNode)
    /\ UNCHANGED <<journalVars, nodeVars, console, live, up, toHost, hostVars, used>>

\* grant: the journal takes the Host's epoch if it is ahead, and the session
\* is one the pump sends from now on.
Granted(theirs) ==
    /\ epoch' = Max({epoch, theirs})
    /\ ackedEpoch' = Max({ackedEpoch, Min({theirs, epoch})})
    /\ console' = [console EXCEPT !.granted = TRUE, !.hostEpoch = theirs]

HandleGrant ==
    /\ toNode # <<>> /\ Head(toNode).kind = "grant"
    /\ toNode' = Tail(toNode)
    /\ Granted(Head(toNode).epoch)
    /\ Commit(<<>>)
    /\ live' = Marked(live)
    /\ UNCHANGED <<acked, ops, agent, invoking, admitting, up, toHost, hostVars,
                   used>>

\* initialize is answered: what the Node holds of a granted session is sent
\* from the acknowledged event on.
HandleGrants ==
    LET request == Head(toNode).request
        history == journal \o buffered
        granted == console.granted \/ request.owed
        untold == {o \in Ops : ops[o] # NoOp /\ console.told[o] # ops[o]}
        s == [gen |-> request.gen, after |-> acked, owed |-> request.owed,
              limit |-> IF granted THEN Len(history) ELSE acked,
              rest |-> IF granted THEN Wires(untold) ELSE {}]
    IN  /\ Answered("initialize", "sync")
        /\ IF request.gen # console.gen
           THEN UNCHANGED <<journal, buffered, epoch, ackedEpoch, console, live,
                            toHost>>
           ELSE /\ Commit(<<>>)
                /\ IF request.owed THEN Granted(Head(toNode).epoch)
                   ELSE UNCHANGED <<epoch, ackedEpoch, console>>
                /\ toHost' = toHost \o NextRequest(history, s, console', acked)
                /\ LET l == IF request.owed THEN Marked(live)
                            ELSE Wants(live, buffered # <<>>)
                   IN  live' = IF Ends(history, s, console')
                               THEN HandedOver(l, console', acked) ELSE l
        /\ UNCHANGED <<acked, ops, agent, invoking, admitting, up, hostVars, used>>

Epochs(controls) == {c.op.epoch : c \in controls}
Named(controls) == {c.id : c \in controls}

\* What is remembered as told to the Host once a batch is acknowledged.
Remembered(told, batch) ==
    [o \in Ops |-> IF o \in Named(batch.controls) THEN ops[o] ELSE told[o]]

\* A batch of the synchronization is acknowledged, whichever generation's it is.
HandleReplayed ==
    LET request == Head(toNode).request
        batch == request.batch
        s == [gen |-> request.gen, after |-> batch.through, limit |-> request.limit,
              owed |-> request.owed,
              rest |-> {c \in request.rest : c.id \notin Named(batch.controls)}]
    IN  /\ Answered("replay", "sync")
        /\ Head(toNode).ok
        /\ acked' = Max({acked, batch.through})
        /\ ackedEpoch' = Max({ackedEpoch} \cup Epochs(batch.controls))
        /\ console' = [console EXCEPT
             !.hostEpoch = Max({@} \cup Epochs(batch.controls)),
             !.told = Remembered(@, batch)]
        /\ toHost' = toHost \o NextRequest(journal, s, console', acked')
        /\ IF Ends(journal, s, console')
           THEN /\ Commit(<<>>)
                /\ live' = HandedOver(Wants(live, buffered # <<>>), console', acked')
           ELSE UNCHANGED <<journal, buffered, live>>
        /\ UNCHANGED <<epoch, ops, agent, invoking, admitting, up, hostVars, used>>

\* The Host confirms the boundary.  The answer itself makes the console online,
\* whichever generation asked.
HandleSynchronized ==
    /\ Answered("synchronized", "sync")
    /\ Head(toNode).ok
    /\ console' = [console EXCEPT
         !.status = "online", !.fenced = FALSE,
         !.pump = \/ @
                  \/ /\ Head(toNode).request.owed
                     /\ Head(toNode).request.gen = console.gen]
    /\ UNCHANGED <<journalVars, nodeVars, live, up, toHost, hostVars, used>>

\* A live batch is acknowledged; the acknowledgment is written a little later.
HandleLive ==
    LET batch == Head(toNode).request.batch
    IN  /\ Answered("replay", "live")
        /\ Head(toNode).ok
        /\ IF Head(toNode).request.gen # console.gen
           THEN UNCHANGED <<console, live>>
           ELSE /\ live' = [live EXCEPT
                     !.inFlight = @ - 1,
                     !.acks = [through |-> Max({@.through, batch.through}),
                               epoch |-> Max({@.epoch} \cup Epochs(batch.controls))]]
                /\ console' = [console EXCEPT
                     !.hostEpoch = Max({@} \cup Epochs(batch.controls))]
        /\ UNCHANGED <<journalVars, nodeVars, up, toHost, hostVars, used>>

\* A request the Host refused ends the generation that made it.
HandleRefusal ==
    /\ \E kind \in {"replay", "synchronized"}, flow \in {"sync", "live"} :
          Answered(kind, flow)
    /\ ~Head(toNode).ok
    /\ IF Head(toNode).request.gen = console.gen
       THEN console' = Fenced(console) /\ live' = FencedLive
       ELSE UNCHANGED <<console, live>>
    /\ UNCHANGED <<journalVars, nodeVars, up, toHost, hostVars, used>>

\* Thirty seconds without an answer: the requests of this generation fail.
RequestTimesOut ==
    /\ Trouble
    /\ \/ \E r \in ToSet(toHost) : r.gen = console.gen
       \/ \E m \in ToSet(toNode) : m.kind = "answer" /\ m.request.gen = console.gen
    /\ console' = [Fenced(console) EXCEPT !.expired = console.gen]
    /\ live' = FencedLive
    /\ UNCHANGED <<journalVars, nodeVars, up, toHost, toNode, hostVars>>

-----------------------------------------------------------------------------
(* Host work on the Node                                                   *)

\* A command is handed to the session's lock.
ReceiveWork ==
    /\ toNode # <<>> /\ Head(toNode).kind = "work"
    /\ admitting' = Append(admitting, Head(toNode))
    /\ toNode' = Tail(toNode)
    /\ UNCHANGED <<journalVars, buffered, agent, invoking, console, live, up,
                   toHost, hostVars, used>>

\* hostWorkBlocker: no new work while the console is not online, nor while the
\* Node has taken control that the Host, when it sent the command, had not seen.
Admissible(command) ==
    /\ console.status = "online"
    /\ epoch <= command.epoch

\* hostCommand, with the lock: the agent is prompted or resumed, or the
\* command is refused.
AdmitWork ==
    /\ admitting # <<>> /\ invoking = 0
    /\ admitting' = Tail(admitting)
    /\ LET command == Head(admitting)
           resumed == /\ Admissible(command) /\ command.task = "resume"
                      /\ ~agent.alive
           prompted == /\ Admissible(command) /\ command.task = "prompt"
                       /\ agent.alive /\ ~agent.busy
       IN  /\ agent' = IF resumed THEN [alive |-> TRUE, busy |-> FALSE]
                       ELSE IF prompted THEN [agent EXCEPT !.busy = TRUE]
                       ELSE agent
           /\ console' = IF resumed THEN PumpAsked(console) ELSE console
    /\ UNCHANGED <<journalVars, buffered, invoking, live, up, toHost, toNode,
                   hostVars, used>>

-----------------------------------------------------------------------------
(* The connection                                                          *)

\* The Host attaches the Node as one that synchronizes, and the Node, welcomed,
\* begins.
Connect ==
    /\ ~up
    /\ up' = TRUE /\ toHost' = <<>> /\ toNode' = <<>>
    /\ peer' = [syncing |-> TRUE, failed |-> FALSE, observed |-> FALSE]
    /\ console' = Begun(console)
    /\ live' = NoLive
    /\ UNCHANGED <<journalVars, nodeVars, stored, hostEpoch, hostOps, receipts,
                   used>>

\* `disconnected`.  The Host reads on what it has, but answers nobody.
Break ==
    /\ up /\ Trouble
    /\ up' = FALSE /\ toNode' = <<>>
    /\ console' = [console EXCEPT
         !.gen = @ + 1, !.joining = FALSE,
         !.status = IF console.fenced THEN "conflict" ELSE "offline"]
    /\ live' = NoLive
    /\ UNCHANGED <<journalVars, nodeVars, toHost, hostVars>>

\* Variant: what was accepted is tried again.
ReopenedQueued(op) == IF op.state = "accepted" THEN [op EXCEPT !.state = "queued"] ELSE op

\* An operation when the journal is opened.
Reopened(op) == IF op.state = "accepted" THEN [op EXCEPT !.state = "uncertain"] ELSE op

\* The process dies and starts again: what was buffered is lost, an operation
\* that was accepted has an unknown outcome.
NodeCrash ==
    /\ Trouble
    /\ buffered' = <<>> /\ invoking' = 0 /\ admitting' = <<>>
    /\ agent' = [alive |-> FALSE, busy |-> FALSE]
    /\ ops' = [o \in Ops |-> Reopened(ops[o])]
    /\ up' = FALSE /\ toNode' = <<>>
    /\ console' = [console EXCEPT
         !.gen = @ + 1, !.status = "offline", !.fenced = FALSE,
         !.joining = FALSE, !.granted = FALSE, !.pump = FALSE]
    /\ live' = NoLive
    /\ UNCHANGED <<journal, acked, epoch, ackedEpoch, toHost, hostVars>>

-----------------------------------------------------------------------------
(* The Host                                                                *)

\* Messages to a Node that is there.
Told(messages) == toNode' = IF up THEN toNode \o messages ELSE toNode

Answer(request, ok) ==
    [kind |-> "answer", request |-> request, ok |-> ok, epoch |-> hostEpoch]

\* observe: a connection is told the session's grant when the session is first
\* published on it.
GrantOf(at) == [kind |-> "grant", epoch |-> at]

Receives(kind) == toHost # <<>> /\ Head(toHost).kind = kind
Consumed == toHost' = Tail(toHost)

HostInitialize ==
    /\ Receives("initialize")
    /\ Consumed
    /\ peer' = [peer EXCEPT !.syncing = TRUE, !.failed = FALSE]
    /\ Told(<<Answer(Head(toHost), TRUE)>>)
    /\ UNCHANGED <<journalVars, nodeVars, console, live, up, stored, hostEpoch,
                   hostOps, receipts, used>>

\* localOperation: what the Host has of an operation when it is told of `op`.
Over(old, op) ==
    IF \/ old.epoch > op.epoch
       \/ old.state \in {"settled", "rejected"} /\ op.state \notin {"settled", "rejected"}
    THEN old ELSE op

\* applyOperation for the operations of `controls`: each is recorded, one that
\* has begun leaves a receipt, and the grant's epoch follows.
Imported(controls) ==
    /\ hostOps' = [o \in Ops |->
         IF o \in Named(controls)
         THEN Over(hostOps[o], (CHOOSE c \in controls : c.id = o).op)
         ELSE hostOps[o]]
    /\ receipts' = receipts \cup Named({c \in controls : c.op.state # "queued"})
    /\ hostEpoch' = Max({hostEpoch} \cup Epochs(controls))

Events(batch) == {[seq |-> batch.from + i, id |-> batch.ids[i]] : i \in DOMAIN batch.ids}

\* The event is one the Host has, or one it can add.
Agrees(event) == \A e \in stored : e.seq = event.seq <=> e.id = event.id

\* What of a batch is in before an event that cannot be stored: the events
\* ahead of it and the operations that govern it.
Ahead(batch, event) ==
    [events |-> {e \in Events(batch) : e.seq < event.seq},
     controls |-> {c \in batch.controls : c.op.after < event.seq}]

Whole(batch) == [events |-> Events(batch), controls |-> batch.controls]

\* The grant goes out with the first event the connection stores, at the epoch
\* the operations before that event have brought.
FirstGrant(part) ==
    LET new == {e.seq : e \in part.events \ stored}
        before == {c \in part.controls : c.op.after < Min(new)}
    IN  IF peer.observed \/ new = {} THEN <<>>
        ELSE <<GrantOf(Max({hostEpoch} \cup Epochs(before)))>>

\* Variant: the next batch is taken after one that failed.
PeerForgiving(part, ok) ==
    [syncing |-> peer.syncing \/ ~ok, failed |-> FALSE,
     observed |-> peer.observed \/ FirstGrant(part) # <<>>]

\* What the Host holds for the connection once a batch is in, or part of it.
PeerAfter(part, ok) ==
    [syncing |-> peer.syncing \/ ~ok, failed |-> ~ok,
     observed |-> peer.observed \/ FirstGrant(part) # <<>>]

\* A batch is taken in whole, or up to an event that conflicts or that storage
\* fails on: nothing of the connection is taken after that.
HostReplay ==
    /\ Receives("replay")
    /\ Consumed
    /\ LET request == Head(toHost)
           batch == request.batch
           bad == {e \in Events(batch) : ~Agrees(e)}
           Take(part, ok) ==
              /\ stored' = stored \cup part.events
              /\ Imported(part.controls)
              /\ peer' = PeerAfter(part, ok)
              /\ Told(Append(FirstGrant(part), Answer(request, ok)))
       IN  \/ /\ peer.failed
              /\ Told(<<Answer(request, FALSE)>>)
              /\ UNCHANGED <<hostVars, used>>
           \/ /\ ~peer.failed /\ bad = {}
              /\ Take(Whole(batch), TRUE)
              /\ UNCHANGED used
           \/ /\ ~peer.failed
              /\ \E e \in Events(batch) :
                    /\ \A b \in bad : e.seq <= b.seq
                    /\ IF e \in bad THEN UNCHANGED used ELSE Trouble
                    /\ Take(Ahead(batch, e), FALSE)
    /\ UNCHANGED <<journalVars, nodeVars, console, live, up>>

\* synchronized: the Host has the events and the epoch the Node names, and
\* gives the Node work again.
HostSynchronized ==
    /\ Receives("synchronized")
    /\ Consumed
    /\ LET request == Head(toHost)
           complete == /\ \A n \in 1..request.limit : \E e \in stored : e.seq >= n
                       /\ hostEpoch = request.epoch
           ok == request.owed => complete
       IN  /\ Told(<<Answer(request, ok)>>)
           /\ peer' = IF ok /\ up THEN [peer EXCEPT !.syncing = FALSE] ELSE peer
    /\ UNCHANGED <<journalVars, nodeVars, console, live, up, stored, hostEpoch,
                   hostOps, receipts, used>>

\* Variant: a prompt that waits at the Node reserves nothing.
ReservedOnceBegun == \E o \in Ops : hostOps[o].state = "accepted"

\* reserved: a local prompt is under way or waits; no prompt is sent besides it.
Reserved == \E o \in Ops : hostOps[o].state \in {"queued", "accepted"}

\* dispatch: a command with the epoch of the grant, after the grant itself if
\* the connection has not had it as it now is.
HostWork ==
    /\ up /\ ~peer.syncing /\ used.work < MaxWork
    /\ used' = [used EXCEPT !.work = @ + 1]
    /\ \E task \in {"prompt", "resume"} :
          /\ task = "prompt" => ~Reserved
          /\ LET regranted == ~peer.observed \/ (task = "resume" /\ Rebound)
             IN  Told((IF regranted THEN <<GrantOf(hostEpoch)>> ELSE <<>>)
                      \o <<[kind |-> "work", task |-> task, epoch |-> hostEpoch]>>)
    /\ peer' = [peer EXCEPT !.observed = TRUE]
    /\ UNCHANGED <<journalVars, nodeVars, console, live, up, toHost, stored,
                   hostEpoch, hostOps, receipts>>

\* A synchronization has begun and its last answer is not in.
Synchronizing ==
    \/ console.joining
    \/ \E r \in ToSet(toHost) : r.flow = "sync"
    \/ \E m \in ToSet(toNode) : m.kind = "answer" /\ m.request.flow = "sync"

\* An operator asks the Node to synchronize anew, on the connection it has.
RequestResync ==
    /\ up /\ Trouble
    /\ Overlapping \/ ~Synchronizing
    /\ Told(<<[kind |-> "resync"]>>)
    /\ UNCHANGED <<journalVars, nodeVars, console, live, up, toHost, hostVars>>

HandleResync ==
    /\ toNode # <<>> /\ Head(toNode).kind = "resync"
    /\ toNode' = Tail(toNode)
    /\ console' = Begun(console)
    /\ live' = NoLive
    /\ UNCHANGED <<journalVars, nodeVars, up, toHost, hostVars, used>>

-----------------------------------------------------------------------------

\* The Node's message handler.
NodeReads ==
    \/ IgnoreAnswer \/ HandleGrant \/ HandleGrants \/ HandleReplayed
    \/ HandleSynchronized \/ HandleLive \/ HandleRefusal \/ HandleResync
    \/ ReceiveWork

\* What the Node's timers, locks and messages do by themselves.
NodeStep ==
    \/ Flush \/ Invoke \/ PumpLocal \/ PumpLive \/ AckWrite
    \/ Initialize \/ NodeReads \/ AdmitWork

HostStep == HostInitialize \/ HostReplay \/ HostSynchronized

Next ==
    \/ Emit \/ TurnEnds \/ AgentEnds \/ LocalPrompt \/ CancelQueued
    \/ NodeStep \/ RequestTimesOut \/ Connect \/ Break \/ NodeCrash
    \/ HostStep \/ HostWork \/ RequestResync

Spec == Init /\ [][Next]_vars

\* The event loops of both processes run, and the Node dials until it is
\* connected.
Fairness ==
    /\ WF_vars(Flush) /\ WF_vars(Invoke) /\ WF_vars(PumpLocal)
    /\ WF_vars(PumpLive) /\ WF_vars(AckWrite) /\ WF_vars(Initialize)
    /\ WF_vars(AdmitWork)
    /\ WF_vars(NodeReads)
    /\ WF_vars(Connect)
    /\ WF_vars(HostStep)

FairSpec == Spec /\ Fairness

-----------------------------------------------------------------------------
(* Properties                                                              *)

\* The Host's history of the session is a prefix of the journal, with nothing
\* missing and nothing out of place, and the Node takes no more for
\* acknowledged than the Host has: of the batches pumpLive sends ahead of their
\* acknowledgments, one that fails takes those behind it along (replayFailed).
HistoryIsPrefix ==
    /\ stored = {[seq |-> n, id |-> journal[n]] : n \in 1..Cardinality(stored)}
    /\ acked <= Cardinality(stored)

Begins(op) == op.state \in {"accepted", "settled", "uncertain"}

\* The Host never has output raised after a local prompt began without having
\* the receipt of that prompt, be it replayed or sent live ("local-control
\* receipts before the events they govern", docs/node-session-console.md): it
\* would take the answer for its own prompt's.
ControlFirst ==
    \A o \in Ops : Begins(ops[o]) /\ o \notin receipts =>
        \A e \in stored : e.seq <= ops[o].after

\* A prompt the Host sends is begun on the Node only when no local prompt is
\* under way or waits there, and the Host has the receipt of each that began.
\* The Host decides it by what it was told (`reserved`) and the Node by the epoch
\* the Host had then (`hostWorkBlocker`), while the Node's queue moves on.
HostWaitsItsTurn ==
    [][admitting' # admitting /\ agent'.busy /\ ~agent.busy =>
          \A o \in Ops :
             /\ ops[o].state \notin {"queued", "accepted"}
             /\ Begins(ops[o]) => o \in receipts]_vars

\* A local prompt is given to the agent at most once, whatever the Node's process
\* and the connection do; one that was taken back or refused never; and the Host
\* believes one settled only if it is (beginOperation, settleOperation, and the
\* recovery when the journal is opened).
LocalOnce ==
    \A o \in Ops :
        /\ used.invoked[o] <= 1
        /\ ops[o].state \in {"queued", "rejected"} => used.invoked[o] = 0
        /\ hostOps[o].state \in {"settled", "rejected"} =>
              ops[o].state = hostOps[o].state

\* Nothing stays behind for ever: again and again, unless the console is in
\* conflict, the Host has every event that was committed, and no queued local
\* prompt waits on an idle agent (connected, pumpLive, pumpLocal).
ConsoleSettles ==
    []<>(\/ console.status = "conflict"
         \/ /\ Cardinality(stored) = Water
            /\ Queued # {} => ~agent.alive \/ agent.busy)

\* The Host hears how every local prompt ended; flushToHost notes an operation as
\* told in the state it has when the answer comes, so this does not hold.
OutcomesAreTold == []<>(console.status = "conflict" \/ hostOps = ops)
=============================================================================
