# Copilot Fleet: a TLA+ verification project

Copilot Fleet runs coding-agent sessions on many machines. A **Host** (one
process, one SQLite database) keeps the rows of sessions, runs and nodes and
serves the browser; a **Node** on each machine starts agent processes and talks
to the Host over one outbound WebSocket. The link breaks, either side restarts,
and agents act on their own; the interesting question everywhere is whether the
Host's rows still say what the machines do, and whether work is done once.

This directory models that part of the code in TLA+. Every definition is
translated from the source: `PROJECT.json` names, for each one, the file and
the lines it stands for. Paths below are relative to the repository's root.

- [How to run](#how-to-run)
- [Inventory](#inventory)
- [Modules](#modules)
- [Runs](#runs)
- [Proofs](#proofs)
- [Known divergences](#known-divergences)
- [Hazards](#hazards)
- [Plan](#plan)
- [What is not modelled](#what-is-not-modelled)

## How to run

    tlasany OutboxDelivery.tla                                    # parse
    tlc -workers 2 -config OutboxDelivery_safety.cfg OutboxDelivery  # check
    tlapm OutboxDelivery_proofs.tla                               # prove

Each run of `PROJECT.json` is one `.cfg`, named after its module; RunEngine's are
checked on `MCRunEngine`, which gives it its plans. Each mutant is an
operator in the module, just before the definition it replaces, marked
*Variant:* and unused otherwise: it is the definition with a plausible mistake,
and the property it is paired with fails under it.

## Inventory

### The two ends of the link

| Component | Source | State | Operations |
|---|---|---|---|
| Event delivery | `apps/node/src/{outbox,socket,main}.ts`, `apps/host/src/gateway/node-socket.ts` | Node: `outbox` (pending, frozen batch, in-flight mark), `holdEventsForReconnectFlush`, `outboxReconciliationPending`, the channel. Host: `connections`, `awaitingOutboxFlush`, tracked batches, the event log | raise, hold, dial, handshake, `ready`, replay a batch, acknowledge, heartbeat, supersede, close, restart |
| Session lifecycle | `apps/host/src/{fleet-service,store}.ts`, `routes/sessions.ts`, transition tables in `packages/protocol/src/index.ts` | session rows: state, `stopRequested`, command intent, stored completion, dispatch attempt; event log | launch, prompt, cancel, stop, resume, apply an event, apply a command result, go offline, reconcile an inventory, resume automatically |
| Command router | `apps/node/src/router.ts` | slots (agent, phase, generation), admission queues, recent command ids | route, start, resume, prompt, stop, cancel, quiesce, delete |
| Queued messages | `apps/host/src/session-messages.ts` | queue rows: queued, delivering, failed | submit, edit, withdraw, send now, pump, settle on `running`, retry |
| Agents | `apps/node/src/agents.ts` | an external process, its turn, an event sequence | start, prompt, cancel, stop; raises events |

### Work on top of sessions

| Component | Source | State | Operations |
|---|---|---|---|
| Orchestration engine | `apps/host/src/orchestrator/{engine,schedule,lifecycle,deadlines,resume-now,tools}.ts` | runs, steps (attempts, session, dependency, settlement), pending prompt, wake counters; in memory `turnComplete`, `remindedThisTick`, `promptedThisTick` | tick, start, resume or prompt a step, settle, fail, stop a session, deliver a prompt, wake the lead, finish; the lead's tools; approve, cancel, archive, reopen, accept, send back |
| Durable lead prompts | `apps/node/src/{lead-prompt-delivery,router}.ts`, `apps/host/src/command-execution-{service,store}.ts` | Host: a row per prompt (pending, reserved, accepted, settled, rejected, uncertain, orphaned) and the last receipt heard. Node: a journal of receipts, the reservation of the session, receipts still owed | enqueue, reserve and offer, accept and journal, prompt the agent, settle with its turn, doubt, repeat, withdraw, orphan |
| Remote command execution | `apps/host/src/command-execution-{service,store}.ts`, `apps/node/src/command-{execution-manager,journal,supervisor,supervisor-posix-runner}.ts`, `checkout-locks.ts` | execution rows and the task's fence; a journal and lock files on the Node; a supervisor with its gate, its process and the files it leaves | request, prepare, approve, deny, start, supervise, cancel, expire, acknowledge, recover after the death of the Node or the supervisor |
| PR maintenance | `apps/host/src/pr-maintenance-store.ts`, `packages/protocol/src/pr-maintenance.ts` | items with a state, revision and lease | claim, renew, transition, release, expire |
| Managed worktrees, checkout locks | `apps/host/src/managed-worktree-service.ts`, `apps/node/src/{managed-worktrees,checkout-locks,repository-participation,router}.ts` | Host: a copy of the workspace, the task's binding, pending operations, timers. Node: a versioned record, recorded answers, the pin, branch and checkout in git, lock files and participants | prepare, reserve, create, observe, retain, clean up, reconcile, resend, time out; a session that works there |
| Session retention | `apps/host/src/session-retention.ts`, `apps/node/src/{router,copilot-sessions,session-console}.ts` | the row's lock and the request in flight; per session, a lane of commands, its last activity, the conversation on the disk | expire, lock, ask, repeat, check that it is at rest, list, stop the agent, delete, answer, unlock |
| Session console | `apps/node/src/{session-console,session-journal}.ts`, `apps/host/src/session-console-service.ts`, `store.ts` | Node: a journal per session (events, control epoch, local operations), the console's status and generation, the live pump and its acknowledgments. Host: the grant and its epoch, the operations it was told of, a queue per connection | capture, prompt at the Node, queue, begin, cancel, synchronize, pump, acknowledge, resync, admit or refuse the Host's work |
| Native session sync | `apps/node/src/native-session-sync.ts` | cursors over external conversations | import, follow |
| Notifications | `apps/host/src/notifications/service.ts` | deliveries per channel | enqueue, send, retry |
| Authentication, claiming | `apps/host/src/auth/` | claim code, users, grants | claim, exchange, revoke |
| Self-update, admission | `apps/host/src/self-update.ts`, `apps/node/src/{node-admission,update-quarantine}.ts` | staged version, quarantine marks | stage, swap, boot, roll back |
| Heartbeats, endpoints | `packages/protocol/src/heartbeat-schedule.ts`, `apps/node/src/host-endpoints.ts` | a schedule; a candidate list | next beat; next endpoint |
| Local agent, Host MCP | `apps/host/src/{local-agent-*,host-mcp*}.ts` | pending requests | forward, answer, time out |
| Tunnels | `apps/host/src/{tunnel*,corp-direct}.ts`, `apps/node/src/devtunnel.ts` | an external process | supervise |
| Browser UI, skill CLI | `apps/host/ui/`, `packages/prm-skill/` | — | — |

### How they interact

- **Messages.** The Node sends `ready`, `event`, `outbox_flushed`, `heartbeat`
  and `command_result`; the Host sends `welcome`, `outbox_flush_ack` and
  `command`. Command execution, lead prompts, managed worktrees and deletions
  have frames of their own, each with an answer that is repeated until it is
  acknowledged or asked for again. The console makes requests to the Host
  (initialize, replay, synchronized), which answers each, and grants it sessions. One WebSocket delivers in order until it breaks, and then loses
  what was on its way. Frames of an abandoned connection may still be read by
  the Host after the Node has dialled again.
- **Shared state.** Everything on the Host runs in one thread over one
  database; a handler is atomic between its awaits. On the Node, the router
  admits a session's prompts one after the other, and every `await` (an agent
  starting, a turn, a process dying) is a point where other commands come in.
- **Callbacks.** Storing an event calls, in this order, the row's transition,
  the message queue, the orchestration engine and the notifications
  (`fleet-service.ts`, `handleEventResult` and its subscribers).

### What is hard

| Kind | Where |
|---|---|
| A link that breaks inside a protocol exchange | event replay and its acknowledgment; commands that were sent and never arrived |
| A restart between two steps | the Host's connections, flush tracking and `turnComplete` are memory; rows and log are not. The Node's slots are memory; the Host's rows of them are not |
| Two owners of one fact | who may prompt a granted session, the Host or a person at its Node; the Host's row and the Node's agent move separately, each on reports of the other that are late |
| State read before an await | the inventory read after the batch was frozen; a prompt admitted before a stop; a session found at rest while its conversation is listed; a checkout verified before its lock is taken |
| What must eventually happen | a held event arrives; a stop request settles; a launch does not stay `starting`; a lead is woken |
| At most once | a completion notice; a prompt given at the Node while the Host is away; a queued message; the prompt of a step; a lead's prompt; an approved command |
| A process that dies between an effect and its record | a supervised command; `git worktree add`; the deletion of a conversation |

### What makes each part correct

- *Event delivery.* What the Host stores is an in-order selection of what the
  Node raised, without repetitions, and what the Node held is not lost unless
  its buffer overflowed. Sessions missing from an inventory are not settled
  before the events that explain them.
- *Session lifecycle.* Once everything on its way has arrived, the row says
  what the agent does. A stop request lasts until the session ended. A launch
  is settled. A turn's end is announced once, and not when it was called off.
- *Queued messages.* A message that left the queue as delivered was put to the
  agent.
- *Orchestration.* A step succeeds only when its attempt finished a turn, no
  attempt is prompted twice, and a run does not stop making progress while it
  has work and machines.
- *Lead prompts.* However often an offer is repeated, the agent is given a
  prompt once; a reservation does not outlive its turn; the Host calls a prompt
  settled only if its turn was completed, and learns what became of each.
- *Command execution.* An approved command runs at most once and never after
  it was reported not to have started; the outcome the lead is told is true and
  final; the checkout and the task stay closed to others while a process may
  exist; a cancellation and an outcome get through.
- *Managed worktrees.* No session works in a checkout that is gone; the Host
  shows what the Node last did; nothing unlocks a workspace the Node is at work
  on; an operation is settled in the end.
- *Session console.* The Host's history of a session is a prefix of the Node's
  journal. A prompt given at the Node is given to the agent once; the Host learns
  of it before it gets the output it caused, and does not prompt beside it. What
  was journalled gets through.
- *Retention.* No conversation that was used since the cutoff is deleted; row,
  agent and conversation go together; a locked row is removed or unlocked.
- *The other parts*: one line each under [Plan](#plan).

## Modules

    EventRelay      <--refines--  OutboxDelivery    <--EXTENDS--  OutboxDelivery_proofs
    SessionStates   <--EXTENDS--  SessionLifecycle  <--EXTENDS--  SessionLifecycle_proofs
                    <--EXTENDS--  RunEngine         (sessions, coarser still)
                                      <--EXTENDS--  MCRunEngine (plans of two steps)
                                      <--EXTENDS--  RunEngine_proofs
    CommandOutcome  <--refines--  CommandExecution  <--EXTENDS--  CommandExecution_proofs
                                  LeadPrompts       <--EXTENDS--  LeadPrompts_proofs
                                  SessionRetention  <--EXTENDS--  SessionRetention_proofs
                                  ManagedWorktrees  <--EXTENDS--  ManagedWorktrees_proofs
    SessionConsole  <--EXTENDS--  EventPaths
    OutboxDelivery  <--INSTANCE--     "

### OutboxDelivery

One Node, its outbox and a watched session; the Host; a queue of frames in each
direction for each connection. `raised`, `pending`, `batches`, `inFlight`,
`hold`, `reconcile` are the Node's variables of the same names (or
`EventOutbox`'s fields), `awaiting` and `flush` what the Host keeps for each
connection, `log` the `events` table, `sess` the watched session's row. `held`
and `dropped` are history.

| Action | Code |
|---|---|
| `RaiseEvent`, `RaiseTerminal` | `main.ts` `sendEvent`: sent if the channel is ready and nothing is held, put into the outbox otherwise |
| `Dial`, `OpenChannel`, `SendReady` | `connect`; the `host_challenge` handler, where `CatalogSlow` decides whether the agent catalog's re-read outlasts it; `inventory` |
| `HandleWelcome`, `HandleAck` | freezing and replaying a batch; releasing it and starting the next one, or going live |
| `Heartbeat`, `NodeClose`, `NodeExit` | the inventory heartbeat; the close handler; exit on supersession |
| `HostReady` | `acceptNode`: supersede, register, welcome, reconcile at once when nothing is to be flushed |
| `HostBatchEvent`, `HostLiveEvent`, `HostFlushed`, `HostHeartbeat` | the message handler's branches, storage failure included |
| `HostRefuse`, `HostRefuseEarly`, `HostDropLink`, `HostRestart` | hanging up on a frame that does not fit; on one before `ready`; the close handler and the watchdogs; a restart |

`EventRelay` is what delivery promises, whatever connections do: five actions
over what was raised, stored, refused, retained and dropped. The property
`Relays` says that OutboxDelivery implements it, with the Node's outbox
(pending and frozen batch) as what is retained; the run checks it through
`EventPaths`, as `OutboxRelays`.

The Host stores the events of a *granted, non-lead* session on a sealed
connection from the session journal instead (`main.ts:835`,
`session-console.ts` `capture`), see `SessionConsole`; the outbox serves leads, sessions without a
grant, and older Nodes.

### SessionLifecycle

One session, its row on the Host (`row`: state, `stop` = `stopRequested`,
`intent` = the command intent, `done` = the stored completion, `cmd` = the
dispatch attempt, `agent` = `agentSessionId` known), the message queue, the
Node's slot and router inbox, the agent's turn, and the link with the outbox
protocol reduced to one frozen batch and one pending queue. Commands that
launch or prompt are numbered; a turn is named by the command that began it.

A Host handler runs several functions one after the other (store, move,
settle, pump the queue, send), so the module writes each as an operator from a
record `Host` to a record: `Move`, `Order`, `Begin`, `Fallback`, `Pump`,
`StateReport`, `Applied`, `Reconciled`. An action takes the record through the
handler's calls in the code's order and assigns what is left
(`Becomes`). The node's half is actions alone: `Receive*` is what the router
does when a command arrives, `Carry*` what it does when it gets to it, `Boot`,
`Booted`, `BootFails` the startup's three awaits, `TurnEnds`, `OwnTurnBegins`,
`OwnTurnEnds`, `AgentEnds` what the agent does.

`Hazards` switches five rare happenings on (the Host hanging up over something
else, a clean exit, a launch refused late, an early resume, a stale
inventory), so that each run says which of them its properties survive.

`SessionStates` holds what both session modules share: the states of a
session, which of them are terminal, and the transition table.

### RunEngine

One run of the orchestrator and its worker sessions on one Node, all writing
one checkout; a run with a lead and one without (`led`, the run's wake policy).
`run`, `step` and `sess` are the rows; a step's row has the attempt, whether a
session is bound to it, whether the dispatch went out (`dispatchedAt`), and
whether the worker has said anything since (`text`). `memo` is the engine's
`turnComplete`, the only memory a Host restart loses. A step has one worker, so
a worker is named by its step. `down` and `up` are the wires; `agent` is what
runs on the Node. `asked` and `ended` are history: how often an attempt's
prompt was put to an agent, and whose turn has ended.

The planner is a pure function in the code (`planNextActions`), and here:
`Plan` builds the same list of actions in the same order from the same
judgements, each with an operator of its own (`Acknowledged`, `AtRest`,
`Ended`, `Doomed`, `Waiting`, `Occupied`, `ToStart` ...), collected in `Verdict` (the
steps that are out) and `FullPlan` (all of it; `Replaying` is what is left of it while
the Node's history is replayed). Time is the argument `due`: which deadline, if
any, has passed by now.

Carrying a plan out is not atomic: each action commits once or more, sends, and
commits again, and the Host may die anywhere in between. So `Execute` and the
handlers yield a *trail*, the Host after each of its commits (`Carried` goes through
a plan's four phases, the actions of each in the order of the steps), and `Commits`
either takes the last state of the trail or lets the Host die in an earlier
one, whatever it had sent by then on the wire or lost.

| Action | Code |
|---|---|
| `Sweep` | `startRunDeadlineMonitor`: `tick` when a deadline has passed or work was left undone |
| `Receive` | `handleEventResult` with `isStaleAttemptEvent`, the row's transition, the engine's own handler and the `tick` it ends in; a fatal command result |
| `Synchronized`, `Beat` | reconciliation of an inventory, automatic resume, the pass that follows |
| `StartWork`, `FollowUp`, `Submit`, `Escalate` | the lead's tools |
| `Accept`, `SendBack`, `Archive`, `PersonCancels`, `PersonStops`, `PersonWrites` | the review, reopen, archive and cancel routes; the session's own routes |
| `TakeLaunch`, `TakePrompt`, `TakeStop`, `TakeCancel` | the command router, with its refusals |
| `Boot`, `Speak`, `TurnEnds`, `AgentDies`, `OwnTurn` | the agent |
| `Break`, `HostRestart`, `NodeRestart`, `HangsUp`, `Reconnect` | the link and the processes |

A worker's events go through the Node's journal, so they are kept across
breaks and arrive in order; commands and command results are lost. `Hazards`
switches rare happenings on, as in SessionLifecycle. `"early lead"` and `"late
answer"` say how soon a lead may follow up: of an idle worker, or of one whose row
has ended, while the Node has yet to say something of it. Not in the module: managed
worktrees and aggregation, placement and node capacity, the `retry` and
`continue` failure policies, PR-maintenance and command-execution holds, the
states before a run is approved.

### CommandExecution

The commands of one managed task, each with the Host's row (`host`), the Node's
journal record (`rec`), how far the Node's start handler is (`run`), and its
supervisor with the files it leaves (`sup`). `fence` is the task's fence on the
Host, `lock` the checkout's lock file, which a session of the Node may hold as
well (`Shared`). The three processes fail apart from each other: journal, locks
and the supervisor's receipts survive. `ran` is history: how often the gate of a
command was opened.

| Action | Code |
|---|---|
| `Request`, `Approve`, `Deny`, `Cancel` | `request`, `decide`, `cancel` of the service |
| `PreparationTimesOut`, `Expire`, `RecheckFails`, `Dispatch`, `Observe` | `tick`'s branches; `observe` |
| `HearPrepared`, `HearReceipt`, `HangUp` | `prepared`; `receiveReceipt`, whose checks are `News` and `Repeats`, whose update is `AfterNews` and `FenceAfter`; the connection closed on a receipt it refuses |
| `PrepareArrives`, `Prepare`, `StartArrives`, `CancelArrives`, `AckArrives`, `ReconcileArrives`, `Welcome` | the manager's handlers up to their first await |
| `Acquire`, `Launch`, `Supervise`, `Commit`, `Release`, `Settle` | `start`, one action per await: leases, launch intent, supervisor, release arbitration, release, settling; `AdmissionFails`, `SuperviseFails` and `Abandon` are its ways out |
| `RecoverBegin`, `RecoverEnd`, `Flush`, `Boot` | `recoverAll` and `recover`, which read the supervisor's files; the heartbeat's repetition of receipts; a new process |
| `OpenGate`, `SupervisorEnds`, `SupervisorDies`, `Lapse` | `runSupervisor`: the gate, the reasons to end, the receipt; a kill; `expiresAt` |
| `Break`, `HostRestart`, `NodeCrash`, `Reconnect` | the close handler, `quarantine`, `reconnect` |
| `SessionTakes`, `SessionLeaves` | `CheckoutLocks` for a session |

`CommandOutcome` is what a lead is promised: a command runs at most once, and
what is told of it is true when it is told and stays true. `RunsOnceAndTruly` is
its specification under a refinement mapping: `Fate` reads the supervisors, the
journal and the retired rows, `Told` the Host's settled rows.

### LeadPrompts

One lead, the prompts the Host owes it (`row`), the Node's journal of receipts
(`journal`), the agent, and the connection. A record's `heard` is the receipt
the Host last believed; `owed` are receipts that found no room in the socket;
`waiting` the handlers that wait for the session to be ready.

| Action | Code |
|---|---|
| `Enqueue`, `Pump`, `Withdraw`, `Orphan`, `Stop` | `queueLeadPrompt`; `pumpLead`; the queue's cancel; `tick`; `revokeLead` |
| `HearReceipt`, `HearEvent`, `HearInventory`, `HangUp` | `promptReceipt`, with what it refuses (`RefusedFrom`) and what it does (`Heard`); the log and the row's transition; the inventory |
| `DeliverArrives`, `Admit` | `deliverLeadPrompt` up to its await; `LeadPromptJournal.accept`, whose answer to an unknown, a busy and a repeated offer is `Answer` and `AnswerAgain`, and the agent's prompt |
| `TurnEnds`, `TurnBreaksOff`, `OwnTurnBegins`, `AgentExits`, `StopArrives`, `ResumeArrives` | what the agent does, and `settle` or `uncertain` with it |
| `Flush`, `Welcome` | repetition of receipts at a heartbeat and a reconnect |
| `Break`, `Close`, `Reconnect`, `NodeRestart` | the link; the journal's constructor, which doubts what was open |

### SessionRetention

Sessions of one Node, their rows, the conversations on the Node's disk and the
clock, in retention periods. A deletion goes through four steps of the Node
(`stage`), each an await at which a turn, an end, or a user outside of Fleet may
come between; commands of one session are handled one after the other (`lane`).

| Action | Code |
|---|---|
| `Sweep` | the monitor: `eligible`, the lock, the request, one in flight per Node, and the repetition of an overdue one |
| `SendPrompt`, `Resume` | `dispatch`, `resumeSession`, refused while the row is locked |
| `HostReads` | reports, inventories (`Reconcile`, with automatic resume), answers of a deletion (`HearCleaned`) and refusals |
| `NodeReads`, `TakePrompt`, `TakeLoad` | the console's per-session tail; the router's activity bracket |
| `Deletes` | `deleteSession` and `deleteInactiveSession`: `DeleteBegins`, `Listed`, `Stopped`, `Removed`, any of which may fail |
| `OwnTurn`, `TurnEnds`, `AgentEnds`, `UsedOutside`, `PeriodPasses` | the agent; the Copilot CLI used without Fleet; time |
| `Connect`, `Break`, `NodeRestart` | the link and the Node's process. A Host restart is a `Break` |

### ManagedWorktrees

One task's workspace on one Node. The Host's copy (`row`), the task's `binding`
and the operation it recorded (`op`) face the Node's record (`tree`), its
recorded answers (`receipts`), what is in the repository (`git`) and the lock
files and participants (`locks`). One operation is carried out at a time
(`queue`, `stage`), in the code's order of checks, locks, git commands and
records, with an action for every point at which the process may die. `slot`
is the task's session.

| Action | Code |
|---|---|
| `Prepare`, `EnsureReady`, `Operate`, `Sweep`, `Finish`, `StartSession` | preparation of a run; the readiness check before a dispatch; the operator's routes; the monitor's cleanup; the end of the run; `validateSession` |
| `Timeout`, `HostReads` | `send`'s timer; `handleResult` with its version check (`Fits`) |
| `Break`, `HostRestarts`, `Connect` | `nodeLost`; `shutdown`; replay of pending operations after reconciliation |
| `NodeReads`, `Begin`, `Enter` | `execute`: a recorded answer, an operation in flight, or a new one; `runOperation` and `perform` up to the repository's lock; participation |
| `Reserve`, `Pin`, `Create`, `Add`, `AddVerified`, `Look`, `Reconcile`, `Cleanup`, `Remove`, `RemoveVerified`, `Commit` | the kinds of operation and git's steps; the transaction with the answer |
| `Join`, `Reenter`, `Edit`, `End`, `Quiesce` | `startSession` (verification, then locks), `revalidate`, the agent's edits, `release` and what follows when its processes' end is in doubt |
| `Crash` | the process dies anywhere; git may have finished on its own, or half |

### SessionConsole

One session the Host has granted for continuation, already in the Node's journal.
On the disk of the Node: `journal` (the committed events; an event's place is
its sequence), `acked`, `epoch`, `ackedEpoch` and `ops` (the local operations).
In its memory: events appended and not yet committed (`buffered`), the agent, the
operation a holder of the session's lock is routing (`invoking`), the Host's
commands that wait for that lock (`admitting`), `console` (the fields of
`NodeSessionConsole`: status, generation, the grant, what the Host was told) and
`live` (the pump: what it has sent, what is in flight, the acknowledgments to
be written). On the Host: `stored`, `hostEpoch`, `hostOps`, `receipts`, and `peer`,
what it holds for the connection. `used` counts for the bounds, and how often
each local prompt was given to the agent.

| Action | Code |
|---|---|
| `Emit`, `Flush`, `TurnEnds`, `AgentEnds` | `capture` and `SessionJournal.append`: text is buffered, a turn's end and a session's are committed at once and settle the operations; the writer's timer |
| `LocalPrompt`, `Invoke`, `CancelQueued`, `PumpLocal` | `submit` with `acceptOperation`, `beginOperation`; `invokeLocal` and what the router answers; `queueAction`; `pumpLocal` |
| `PumpLive`, `HandleLive`, `AckWrite` | `pumpLive`, its answers, and the immediate that writes `acknowledgeBatch` |
| `Initialize`, `HandleGrants`, `HandleReplayed`, `HandleSynchronized` | `connected` and `flushToHost`: a coroutine cut at its awaits; `NextRequest` is what it asks next |
| `HandleGrant`, `HandleRefusal`, `RequestTimesOut`, `IgnoreAnswer` | `grant`; `response`, `fail`; the thirty-second timer; an answer nobody waits for |
| `ReceiveWork`, `AdmitWork` | `hostCommand`, `hostWorkBlocker` |
| `Connect`, `Break`, `NodeCrash` | `connected`, `disconnected`; the journal's opening, which doubts what was accepted (`Reopened`) |
| `HostInitialize`, `HostReplay`, `HostSynchronized` | the service's branches of a console request; a batch is taken whole, or up to an event that conflicts or cannot be stored |
| `HostWork`, `RequestResync`, `HandleResync` | `dispatch` with the grant ahead of the command and `reserved`; the operator's resync |

The coroutine of `connected` is carried by its requests: each has the generation
that made it and what is still to be sent, and the answer returns it. So several
synchronizations may be on their way, as in the code, where a newer generation
does not stop an older one's awaits. `RequestResync` comes, unless `Overlapping`,
when no synchronization is running; `Rebound` says that a resumption rotates the
session's checkout lease, so that its grant is sent anew. What is coarser than
the code: `AdmitWork` is one step; the Host's replay queue is first-in-first-out
with its other requests; `Initialize` waits for every admitted command.

### EventPaths

The router's event callback offers an event to the console, and gives to the
socket or the outbox what the console does not capture. The watched session
takes one `path` or the other: EventPaths is SessionConsole and an instance of
OutboxDelivery side by side, `path` chosen at the start, with the fairness and
the properties of both.

## Runs

| Run | Instance | States | Shows |
|---|---|---|---|
| `outbox_safety` | 3 events, 3 connections, capacity 2, one orphan event, storage failures, slow catalog, late `ready` | 1,120,210 | `TypeOK`, `NothingHeldIsLost`, `SameBatch` |
| `event_paths` | the same for the outbox, without the three; for the console 2 events, 1 local prompt, 1 command of the Host, 1 trouble; fair | 570,275 | `HistoryIsPrefix`, `ControlFirst`, `LocalOnce`, `HostWaitsItsTurn`, `ConsoleSettles`, `OutboxRelays`, `OutboxSettles` |
| `session_agree` | 2 commands, 2 breaks, fair | 430,656 | `TypeOK`, `Agree`, `RequestsSettle` |
| `session_messages` | 3 commands, 2 messages, 1 own turn, no breaks | 5,736,779 | `TurnsAreTold` |
| `session_rare` | 2 commands, 1 break, automatic resume, all hazards | 2,317,156 | `NotifiedOnce` |
| `engine_safety` | 2 steps in turn, 2 attempts, 1 break, 1 intervention, a lead that is early | 1,147,329 | `TypeOK`, `JudgedByItsTurn`, `DispatchedOnce`, `OneWriter`, `PlanIsKept` |
| `engine_live` | 1 step, 1 attempt, 1 break, 1 intervention, every hazard, automatic resume, fair | 97,861 | `WorkSettles` |
| `command_safety` | 2 overlapping commands, a session that wants the checkout, no faults | 2,009,327 | `TypeOK`, `FenceCovers`, `OutcomeAgrees` |
| `command_faults` | 1 command, 1 break or Host restart, 1 death of the Node or the supervisor, fair | 225,394 | `CheckoutHeld`, `RunsOnceAndTruly`, `CommandSettles` |
| `leads` | 2 prompts, 2 offers, 1 break or restart, room for 1 receipt, fair | 339,931 | `TypeOK`, `PromptedOnce`, `TakenIsWorkedOn`, `SettledIsDone`, `AnswerIsTold` |
| `retention` | 2 sessions, 2 periods, 2 requests, 1 use, 1 break, fair | 119,249 | `TypeOK`, `GoneTogether`, `UsedIsKept`, `LockIsReleased` |
| `worktrees` | 3 operations, 1 session, 2 faults, fair | 227,610 | `TypeOK`, `SessionInPlace`, `RecordIsTrue`, `OperationSettles` |

No run reports deadlocks: every instance has a last connection, break, command,
operation or event, after which nothing remains to happen.

Some properties are conjunctions of two that the same mistake rarely breaks:
`SameBatch` (the acknowledgment is for the batch in flight; both ends have the
same batch), `OutboxSettles` (a session missing from the inventory is settled
after the batch; held events arrive; ends are noticed),
`TurnsAreTold` (no notice of a turn called off; a delivered message was
prompted), `RequestsSettle` (a stop stays until the session ended; stops and
launches settle), `WorkSettles` (steps, plans and cancellations end, and the lead
is told), `RecordIsTrue` (the Host shows what the Node did; nothing unlocks a
workspace under the Node), `JudgedByItsTurn`, `DispatchedOnce`, `PlanIsKept`,
`CommandSettles`. Their parts have names and comments of their own in the modules.

### Bounds, and why they are enough

- *Three events, capacity two.* A batch of two, a third event raised while it
  is replayed, an event dropped for capacity while another is frozen: all the
  cases of `EventOutbox`. A second batch on one connection needs two events.
- *Three connections.* A batch half stored, resent on the next connection and
  resent again; an old connection's frames read after a newer one was
  accepted; the connection that succeeds.
- *Two commands, two breaks.* A launch and a resume (or a launch and a prompt)
  each of whose results and events may be lost; a break in the replay that
  follows a break. Three commands with messages: a launch and two prompts.
- *One unprompted turn.* What the queue takes for its confirmation.
- *Two steps, two attempts.* A step and one that depends on it compete for the
  checkout; a follow-up goes to a worker that is idle, offline or ended. One
  break: a crash of the Host after any commit of any handler, with any part of
  what it had sent arriving. One intervention of a person, or one unprompted
  turn. The liveness run has one step, where a step's fate cannot hide behind
  another's; two steps were explored without hazards (275,591 states).
  `engine_safety` uses a view (`ButWhatIsOwed`): whether a settlement is still owed
  to the lead decides only whether the lead is woken, so states that differ in
  it alone count once. Without the view the run finds the same (2,183,580
  states).
- *Two commands, or one with faults.* Fence, checkout and the Host's order of
  starts are what commands share; a second one is enough to move a fence under
  the first. Faults concern one attempt: the Node or the supervisor may die
  between any two records of the handler, and the connection before or after it.
  No direction ever carries more than six frames under `MaxFrames = 9`.
- *Two prompts, two offers.* An offer refused as busy and offered again, a
  repeated answer that meets the next offer, or one prompt blocking the other.
  Room for one receipt in the socket makes the second one owed.
- *Two sessions, two periods.* One deletion in flight holds back the other; a
  session becomes eligible, is used, and becomes eligible again. One use: at
  each of the four stages of the deletion.
- *Three operations.* A creation, a cleanup or retention, and what reconciles
  after a fault; `MaxFaults` is one budget for lost connections, Host restarts,
  deaths of the Node, failing git commands, refused and repeated requests, and
  two of any of them may come together.

- *Two events, one local prompt, one command, one trouble.* Output before and
  after a prompt given at the Node, and a command of the Host that races it.
  `BatchEvents = BatchControls = 1` makes every batch meet its limit, so an
  operation that has no room cuts the batch; a window of two lets one batch fail
  in front of another. The trouble is a lost connection, a death of the Node, an
  event that cannot be stored, a timeout, or a resync asked for, at any point.

`Capacity` is the code's own (500 in `outbox.ts`), as are `BatchEvents` (512),
`BatchControls` (100) and `Window` (128). Every constant named `Max...`,
and `Overlap`, is a bound of the model. `Orphans`, `StateEvents`, `StorageFails`,
`CatalogSlow`, `LateReady`, `AutoResume`, `Hazards`, `Shared`, `Rebound`,
`Overlapping` choose what may happen; `Registry` is how `main.ts` configures the Node.

Larger instances were explored once, and hold:

| Module | Instance | Distinct states |
|---|---|---|
| OutboxDelivery | `Relays`, `SettledAfterBatch`, held events arrive, with storage failures and slow catalog, fair | 910,072 |
| SessionConsole, safety, from an idle agent | 3 events, 2 local prompts, 1 command, 1 trouble | 7.0 million |
| | 2 events, 2 local prompts, 2 commands, 1 trouble | 2.2 million |
| | 3 events, 1 local prompt, 1 command, 2 troubles | 1.3 million |
| SessionLifecycle (`Agree`) | two breaks and an own turn | 8.4 million |
| | one message, one break | 889,000 |
| CommandExecution, safety | 2 overlapping commands, a crash, no break | 9.1 million |
| | 2 commands one after the other, a break and a crash | 8.2 million |
| LeadPrompts, safety | 3 offers, 2 breaks | 6.7 million |
| SessionRetention, safety | 1 session, 3 periods, 3 requests, 2 sends, 3 uses, 2 breaks | 3.0 million |
| | 2 sessions, 2 periods, 3 requests, 1 use, 2 breaks | 2.8 million |
| SessionRetention, fair | 2 sessions, 2 requests, 2 uses, 1 break | 1.0 million |
| RunEngine, the invariant behind `OneWriter` | 2 steps in turn, 2 attempts, 1 break, 1 intervention, `Hazards = {"own turn", "escalate"}` | 2.6 million |
| | the same, 2 steps that do not depend on each other | 6.4 million |
| ManagedWorktrees, fair | 4 operations | 1.4 million |
| ManagedWorktrees, safety | without the participation registry | 225,156 |

### Fairness

- `OutboxDelivery`: weak fairness of the Node's steps (the reconnect timer, its
  message handler, the heartbeat timer), of the Host's message loop, and of
  noticing a connection that is gone (`NodeClose /\ Gone`, the close event; a
  `closing` socket on the Host). Breaking a connection is never fair, so
  every liveness property has the escape `Exhausted`: the last connection of
  the bound broke too.
- `SessionLifecycle`: weak fairness of both message loops, of `Connect`,
  `Heartbeat` and the queue's `Tick` (timers), of startup and of carrying out
  accepted commands (promises that settle, `router.ts` races each with a
  timeout). An agent owes nothing: no fairness makes a turn end, and links
  break or last as they like.
- `RunEngine`: weak fairness of the periodic tick (`setInterval`, so however the
  deadlines fall, a pass that would change something runs), of both message
  loops, of `Reconnect`, of a closing socket's close event, of the inventory's
  heartbeat, and of a worker's own progress: a command that arrived is taken,
  an agent starts, and a prompted turn ends, by itself or because the agent
  dies. The last is the code's own assumption: a step that exceeds its time
  budget is stopped. Nothing makes a person or a lead do anything. The
  conditions are spelled out (`[]<>~ready \/ []<><<A>>_vars`), which is what
  `WF_vars(A)` says when `ready` is the action's guard; TLC evaluates it faster.
- `CommandExecution`: weak fairness of both read loops, of the heartbeat's
  `Flush`, of reconnecting and booting (the service restarts the Node), of the
  start handler's next await, of the expiry timer, of a session's leaving the
  checkout and of the supervisor, which ends its process by the command's
  timeout at the latest. Strong fairness only of reading the supervisor's files
  (`RecoverBegin`, `RecoverEnd`): heartbeats repeat it for ever, and a
  connection that comes and goes disables it in between.
- `LeadPrompts`: weak fairness of the read loops, of closing and reconnecting,
  of the pump and of admission, and that a turn ends some way. Strong fairness
  of `Flush`: at some heartbeat the socket has room, however often turns fill
  it in between.
- `SessionRetention`: weak fairness of the monitor, the frames, the reconnect
  timer and of what the Node waits for, which answers or times out. The uses of
  a session and its turns' ends are nobody's duty.
- `SessionConsole`, `EventPaths`: weak fairness of what both processes' event
  loops do with what came in, of the journal's writer, of whoever holds the
  session's lock, of the pumps and of dialling. Agents, people, the operator's
  resync, timeouts, breaks and crashes are nobody's duty. The escape of
  `ConsoleSettles` is the console's own: in *conflict* it waits for the next
  synchronization, which the bound may not leave.
- `ManagedWorktrees`: weak fairness of the Host's timer, of frames, of dialling
  and of the Node's promises; none of operators, sessions, faults or the
  monitor.

## Proofs

`OutboxDelivery_proofs` proves, for every number of events and connections, every
capacity and every choice of the switches, from `ConstantsAssumption` alone:

- `TypeCorrect`: `Spec => []TypeOK`. Not only types: `pending` never exceeds
  `Capacity`, and `inFlight` names a batch that exists.
- `HeldIsSafe`: `Spec => []NothingHeldIsLost`;
- `SameBatchAlways`: `Spec => []SameBatch`.

`NothingHeldIsLost` is not inductive. The Node releases a batch when an
acknowledgment comes, and what makes that safe is on the Host and on the wire:
the Host sends the acknowledgment only after the completion, reads the
completion only after the batch's events, and counts those events by position.
The inductive invariant `IInv` says so, one conjunct per stage:

- `FramesAgree`: a batch event on the wire at position *i* of flush *f* is
  `batches[f][i]`, and a completion states the batch's length;
- `FlushStored`: the first `next` events of a flush being received are stored or
  refused;
- `AckStored`: an acknowledgment on the wire names a batch all of which is
  stored or refused;
- `HoldHasBatch`: how `inFlight`, `hold` and the frozen batches go together;
- `NothingHeldIsLost` itself.

`IInvInit` and one lemma per conjunct (`HoldNext`, `FramesNext`, `FlushNext`,
`AckNext`, `HeldNext`), with a step per action, prove it inductive relative to
`TypeOK`; a `PTL` step concludes. `IInv` was model-checked before it was proved.

`SameBatch` is about position, so its invariant (`BatchInv`) follows a batch
frame by frame. `Lines` is said of every connection, whether the Node has moved on
or not: on one the Host has accepted, the frames of a batch stand in order, the
first one where the Host's counter expects it, with nothing but heartbeats around
them (`InOrder`); behind an inventory that announces a batch come only heartbeats
(`Announced`); one not dialled yet is empty. `InStep` is said of the Node's
latest connection while it is open, and is what the two handshakes amount to:
from the announcement to the welcome the Host waits for the announced batch's
first frame (`Expecting`), during the replay no acknowledgment is on its way
(`Replaying`), events are held back as long as the Host counts (`Holding`), and
behind the batch comes one acknowledgment and nothing else that is counted
(`Acknowledging`). So no live event can come between the frames of a replay, nor
a second batch start before the first is acknowledged. The sequence lemmas
(`OrderRead`, `OrderBeat`, `OrderLive`, `OrderBatch`, `OrderReady`) say how `InOrder`
survives reading from the front and appending at the end; the lemmas `Batch...`
treat one action each.

`LeadPrompts_proofs` proves, for every set of prompts and all bounds, from
`PromptsAssumption` alone:

- `OncePrompted`: `Spec => []PromptedOnce`;
- `OpenIsWorkedOn`: `Spec => []TakenIsWorkedOn`;
- `SettledIsSound`: `Spec => []SettledIsDone`;
- `OneInHandAlways`: `Spec => []TypeOK`, whose last part is what the unique index
  of the Host's table demands: one prompt in hand at most.

The first two are about the Node alone. What makes a repeated offer harmless
is the order in `deliverLeadPrompt`: the journal is written before the agent is
prompted, and never forgets. `NodeInv` says it in four parts: the types of what
the Node keeps; `GivenIsKnown`, a prompt that was given is in the journal, with
an answer that only a given prompt gets; `OpenIsCurrent`, an open reservation is
the agent's and the session's current prompt; `SettledWasDone`. It is inductive,
one lemma per action (`NodeStep`), since nothing the Host or the connection do
changes it. `SettledIsDone` is about the Host, which believes receipts, so the
invariant has to speak of what is on the wire: `HostInv` adds that a receipt
under way that says *settled* names a prompt whose turn was completed
(`Truthful`), through appends, lost connections and repetitions from the
journal. `IInv` is `NodeInv`, `HostInv` and the type of what is owed.
`OneInHand` has an invariant of its own, `HandInv`: what is offered was asked for
(`OnlyAsked`), and a row moves only on a receipt, a retry or the end of its lead,
none of which takes a second prompt in hand.

`CommandExecution_proofs` proves, for every set of commands and all bounds:

- `RunsOnce`: `Spec => RunsOnceAndTruly`, that is, `CommandExecution` implements
  `CommandOutcome` under the refinement mapping: initial states map to initial
  states and every step to a step of the promise or a stutter;
- `CheckoutStaysHeld`, `FenceStaysUp`, `OutcomesAgree`, `TypeCorrect`: `[]CheckoutHeld`,
  `[]FenceCovers`, `[]OutcomeAgrees`, `[]TypeOK`.

They rest on one inductive invariant (`Invariance`). Beside the types it has three
parts for every command *e*. `Job(e)` is the Node's side, a table of what may be
true together in the three places that survive each other's death: how often the
gate opened against the supervisor's phase and files (`Gate`), the journal record
against those (`Recording`), how far the start handler is against the record
(`Handling`), and the lock against both (`Locking`). `Agreed(e)` ties the Host
to it across the wire: a `prepare` or `start` frame is on its way once and only
before the Node acted on it, and an outcome on its way is the recorded one.
`Guarded(e)` ties the fence to the rows. Every step lemma proves the invariant
again together with `Final`: an outcome that the journal has recorded stays. The
simulation (`PromiseStep`) then needs three facts about any step: a gate opens at most once
and only if the command was not retired (`Processes`), what is gone stays gone,
and the Host's row becomes settled only with the recorded fate (`Truthful`,
`ToldIsFate`).

`SessionRetention_proofs` proves, for every set of sessions and all bounds:

- `RowsGoWithTheirSessions`: `Spec => []GoneTogether`;
- `UsedStays`: `Spec => UsedIsKept`, an action property;
- `TypeCorrect`: `Spec => []TypeOK`.

An answer that a conversation is deleted is believed whenever it arrives, so the
invariant says what such an answer on its way stands for (`OnlyDoneIsTold`), what the
Node's mark stands for (`DeletedIsGone`), and, stage by stage of a deletion,
what is known of the session then: it is watched while its agent is stopped
(`StoppingIsWatched`) and at rest, unused since the check, when its files are
removed (`RemovingIsAtRest`). The last is what makes `UsedIsKept` hold of the one
step that deletes.

`ManagedWorktrees_proofs` proves, for every number of operations, sessions and
faults, with the repository's registry or without:

- `SessionsStayInPlace`: `Spec => []SessionInPlace`;
- `RecordStaysTrue`: `Spec => []RecordIsTrue`;
- `TypeCorrect`: `Spec => []TypeOK`.

`SessionInPlace` needs that a working session is the holder of the checkout's
lock and finds it usable (`LeaseTells`), and that an operation that is done with
git is about to record what git then has (`DoneIsUsable`). `RecordIsTrue` needs five
facts about versions and operations on their way: an answer on its way is the
Node's record or older than it (`SaidIsRecorded`), a closed operation was
answered (`ClosedIsAnswered`), the Node works only on what is pending
(`WorkIsFresh`), a request asks for the row's version (`AskedForRow`), and the Node's
version is ahead of the Host's only if it has recorded why (`KnowsBefore`).

The proof corrected the model. `TypeOK` had said that the Host never records a
workspace as *removing*; no inductive invariant implied it, and a run with larger
bounds (`MaxOps = 4`, `MaxFaults = 3`) shows why in 37 states: a removal fails,
the Node dies before it records that, the repeated cleanup is refused, and the
operator's *observe* answers with the record as it stands
(`managed-worktrees.ts:583`). The code's schema has the state
(`packages/protocol/src/managed-worktrees.ts:276`), and now so does `TypeOK`.

`SessionConsole_proofs` proves, for any number of events, prompts, commands and
troubles and any size of batches and window, from the module's named assumption:

- `TypeCorrect`: `Spec => []TypeOK`;
- `GivenAtMostOnce`: `Spec => []LocalOnce`;
- `HistoryStaysPrefix`: `~Overlapping => (Spec => []HistoryIsPrefix)`;
- `ControlComesFirst`: `~Overlapping => (Spec => []ControlFirst)`;
- `PromptsWaitTheirTurn`: `~Overlapping => (Spec => HostWaitsItsTurn)`.

The first two need no hypothesis about resyncs. A prompt is given only by
the holder of the session's lock, so the invariant says how often each was given
against what the disk, the lock's holder and the agent say of it (`GivenOnce`), and
what on the wires and at the Host follows from the Node's records (`WiresFine`,
`Committed`, `HostIsRight`, `EndsStay`): an ended operation stays as it ended, so a
copy of it is right however late it comes.

`HistoryIsPrefix` is about the Host, which stores the events of any batch it is
sent: that there is no gap depends on every batch that is still under way.
`HistoryInv` says of each that it starts at or before a place that will be
*reached* when it is read (`Reached`, `NoGap`): the Host has it, an earlier batch on
the same connection brings it, or one ahead of it failed, and then the Host's
`replayFailed` refuses everything behind it until the next `initialize`. The Node's
pointers are no further than that (`AcksHold`, `StoredIsPrefix`, `Settling`). What
clears `replayFailed` is `initialize`, so the rest of the invariant says that nothing
sent before an `initialize` of the current connection can be read behind it, nor sent
on behind a failure: a synchronization joins alone (`JoinsAlone`, `OneAtATime`), a
resync is read before the synchronization it causes (`ResyncComesFirst`), answers of
older generations change nothing (`GenerationsPass`). The hypothesis is used in one
place, the step `RequestResync` of `ResyncComesFirst`, and it is needed: with
`Overlapping` there is a counterexample, listed under the known divergences. The
invariant was model-checked before it was proved (three events and troubles, no
local prompt).

`ControlFirst` speaks of the Host's events and receipts, but what brings them is a
batch that was cut from the journal and from the operations not sent yet, perhaps
while earlier ones were in flight. The inductive invariant, `ConsoleInv`, adds two
parts to those above. `AloneInv` says that while a synchronization is under way what
it asks is the only message of its generation, so nobody changes what it has
still to say behind its back. `ControlInv` follows what the Host knows of an operation to
where the Node takes it for known:

- `Copies`: what a message or the Host's row says of an operation is a state
  the operation has or had (`Faithful`), never one ahead of it;
- `OpsInOrder`: operations took control in the order of the events between them, so
  what `Foremost` leaves out of a batch governs only events that are left out too;
- `Governed`: a request that brings an event behind the beginning of an operation, or
  an operation as late, is read when that operation is `Covered`: heard of, carried
  by this request or one before it, or behind a failure;
- `Shown`, `ToldIsHeard`, `AnsweredIsHeard`, `RestIsLeft`, `PumpKnows`: the same for what
  the pump, the console, an answer under way and a synchronization's remainder hold
  for said. A pump whose `dirty` flag is down has said everything;
- `HeardFirst`: an operation the Host has not heard of began behind every event it
  stores and above the grant's epoch. This gives `ControlFirst` at once;
- `PromptsAreFree`: with each prompt of the Host on its way, every local operation up
  to its epoch is done and has its receipt.

For `HostWaitsItsTurn` the last is what is needed: the Host's `reserved` is about what it
was told, and by `HeardFirst` it was told of everything up to the epoch it stamps on the
command (`WorkIsFree`); the Node refuses a command with an older epoch than its own
(`AdmittedIsFree`). A batch that is taken in only up to an event that fails is the
delicate step (`TakenControl`): the operations ahead of that event are a
prefix in both orders. `ControlInv` was model-checked on three instances before it was
proved.

`SessionLifecycle_proofs` proves, for every number of commands, messages, breaks
and own turns, whatever rare happenings are allowed:

- `TypeCorrect`: `Spec => []TypeOK`;
- `NotifiedOnceAlways`: `Spec => []NotifiedOnce`;
- `RequestEndsWithSession`: a stop request is taken back only by the step that ends
  the session or, with automatic resume, after the session has ended;
- `StopRequestStays`: `~AutoResume => (Spec => StopStays)`, the action property that
  is a part of `RequestsSettle`.

A turn's completion is announced for the stored receipt `row.done`, when the row
comes to rest; the receipt is taken from any event that was not stored yet. So
that a turn is announced once depends on the event log's key, incarnation and
sequence, and on what may still be on its way. `Inv` has, beside the types:

- `CommandsFine`, `Once`: a command's number stands in one place only, on the wire,
  in the router's inbox, in the slot or in the turn that runs;
- `Over`: a turn whose end was reported, received or announced has no command
  waiting anywhere, so it never begins again;
- `OneEnd`: the copies of a turn's end, in the outbox, a frozen batch and on the
  wire, carry one number;
- `Heard`: the end of a turn that the row's receipt names, or that was announced, is
  an event the Host knows (`Known`), so that no copy of it is taken for news;
- `Distinct`: the receipt held and the announcements name different turns.

It was model-checked before it was proved, over all states of the constants of
`rare.cfg` and of `messages.cfg`. `RequestEndsWithSession` needs of it only
the types: each operator of a Host handler keeps a request or ends the session
(the lemmas from `Asked` to `StepKept`). Its hypothesis-free form has
the exception of automatic resume because the code has it: the inventory that
clears the request of a terminal row hands the row on to be resumed, see the
known divergences. Without that setting the exception is empty, and the theorem is
`StopStays`.

The proof corrected the model here, too: two of the arms of `Settlement` overlapped,
so for a row that is offline with a stop pending TLA+ left open which was meant;
`reconcileOfflineSessions` looks at the stop request first.

`RunEngine_proofs` proves, for every plan of any number of steps that does not
depend on itself, with a lead or without, and any number of attempts, breaks,
crashes and interventions; all but the last for every setting and hazard, too:

- `TypeCorrect`: `Spec => []TypeOK`;
- `EachAttemptOnce`: `Spec => []DispatchedOnce`;
- `RunFinishesRight`: `Spec => []FinishedRight`, the second half of `PlanIsKept`;
- `CheckoutHasOneWriter`: `OneAtATime /\ Spec => []OneWriter`.

The Host may die after any commit of a handler, and a handler's commits are the
result of a plan that was made once, on the state the pass began with. An
invariant would have to be carried through every prefix of every trail. The proof
does that once, for all invariants: `HandlerReaches` says that a set of Host states
which has everything a handler may begin with (`Begins`) and is closed under
`Moves` has every state in which a handler ends or is cut short. A move is one
commit with what the code may rely on when it makes it: a step is settled as
succeeded only while it is out and its turn is over (`MayWin`), dispatched only while
it is pending with the checkout to itself and its dependencies succeeded
(`Dispatches`), skipped only behind a failure, and the run ended only with every
step settled (`MayEnd`). That each commit of a pass is such a move is the long part:
`PlanRight` says what a plan means in the state it was made of, and `Along` how much
of that is still so when it is the turn of a step in a phase, since a phase only
touches the steps the plan names in it (`WalkKeeps`, `PursuedKeeps`). This is where the
order of the planner's actions matters: a dispatch is planned on dependencies
that the same pass is only about to settle.

With that, each invariant needs one lemma per move and one per beginning.
`DispatchedOnce` follows from `AllAccounted`: a prompt that is on its way or has
arrived is of an attempt the step has on record as out, once (`Accounted`), and an
agent works on nothing that it was not given (`GivenOnce`). Every commit sends at
most one command of an attempt, and only while the step is pending (`MovesSend`);
a break loses commands and repeats none (`SeveredAccounted`). `FinishedRight` follows
from `ByPlan`: what is settled stays so without a lead, a step is skipped only behind
one that failed, was cancelled or skipped, and the run ends only as `MayEnd` allows
or by being cancelled. The planner's outcome looks at failed and cancelled steps
only, so that a completed run skipped nothing needs one more argument: among
skipped steps one is first in the plan's order of dependence, and it has nothing to
be skipped for (`NoneSkipped`). This is the one place where the plan must not
depend on itself, and the reason why `EngineAssumption` says so; `findCycle` and the
lead's tools see to it. The invariants were model-checked before they were proved,
with every hazard and automatic resume.

`OneWriter` is about processes, and the planner, which is to keep it, sees rows. It
admits a worker when no other step's row is live (`Occupied`), so the invariant,
`Exclusive`, says first that one row at most is live (`OneLive`), and then what makes
a row right about its process. That depends on all that is still on its way, and
`Told` says it of each worker: a row is live as long as a process is there or
will be; a launch is the first thing its process is told, but for what called off
the one before; the end of a process is the last thing it tells, but for
refusals; a row at rest has only refusals left to hear; and once the next attempt
is to go out, nothing of an earlier prompt is left, neither the prompt nor
a refusal of it. The last part is what keeps an old refusal from ending the row of a
worker that has just been resumed. Each move of the Host keeps it
(`MovesExclusive`; `DispatchExclusive` is where a row becomes live), wherever the Host
dies; so do the beginnings of its handlers (`BeginsExclusive`), a break that loses
commands and refusals (`SeveredExclusive`), and all that the Node does, be it told out
of date (`NodeTold`). What the sequences on their way may be is left general: no bound
on their length, no order but what `Told` says.

The hypothesis `OneAtATime` is that the Host dispatches on what it has heard: no
automatic resume, and none of the hazards by which something overtakes a launch or
survives one: a message of a person's, a socket that the Host closes, an inventory
taken while a launch is under way, a refused stop that is heard, and a deadline or a
follow-up before all is heard of the dispatch. With the refused stop there
is a counterexample (see the known divergences); the others let a launch or an old refusal
reach a row that is not what it was when it was sent, so that `Told` is not kept, and
whether `OneWriter` still holds with them is open. They leave in: turns that
an agent begins by itself, a lead that hands over, every break and restart, and
the Host's death between any two commits. The invariant was model-checked before it
was proved, on two plans, with the bounds of the run.

Assumptions: each module's named `ASSUME` about its constants, which TLC
evaluates on every run: bounds are natural numbers, switches are Boolean, the sets of
commands and sessions are finite and have no member in common with the words
the variables use beside them (`None`, `"session"`), and a run's plan does not depend on itself. Nothing is assumed
of how large any of them is.

Only model-checked: `SettledAfterBatch` and the refinement `OutboxRelays` of
OutboxDelivery, which hold only where no `ready` of an abandoned connection comes
late (`LateReady = FALSE`) and would need its events followed in order across
connections; `Agree` and
`TurnsAreTold` of SessionLifecycle, each of which holds under bounds on breaks and
hazards that an inductive invariant would have to use; `JudgedByItsTurn` and
the first half of `PlanIsKept` (`DependenciesFirst`, which rests on
`JudgedByItsTurn`) of RunEngine, which fail with some of the hazards, as the known
divergences say, and without them need an account of everything a worker still has
to say; and all liveness (the prover has no rules for fairness).


## Known divergences

Where the model, faithful to the code, does not do what a comment, a document
or common sense promises. The runs are instantiated around these; each can be
seen by changing the constants as said.

### Found on the way: change the constants to reproduce

**Event delivery.** `OutboxDelivery_safety.cfg` with `MaxConns = 2` and the
switches as given, `CatalogSlow`, `LateReady` and `StorageFails` `FALSE` otherwise.

- *A session that ends during a flush is settled as failed*
  (`NoFalseSettlement`, no switch). `socket.ts:110` withholds the final inventory
  so that a partial flush "cannot falsely settle the session". But the inventory
  sent with `outbox_flushed` is read then, the batch was frozen before, and a
  terminal event raised in between waits in `pending`: the Host finds the
  session missing, settles it as failed, and gets the true end later.
- `CatalogSlow = TRUE`: `NothingBeforeReady` fails. While the catalog is re-read
  after the channel opened, nothing is held, so an event is sent before `ready`
  and the Host closes the connection on it. Under `FairSpec`, `EndIsNoticed`
  fails as well: the end of a session sent that way is lost, and a replayed
  older event has revived the row.
- `LateReady = TRUE`: `NeverSupersededByItself` fails: an abandoned connection's
  `ready` supersedes the newer connection of the same process, which exits
  "superseded by another node instance". `Relays`, `SettledAfterBatch` and
  `NewsArrives` do not hold there either, because events of the older connection
  follow those of the newer one.

**Session console.** `SessionConsole` with the constants of `EventPaths_live.cfg`,
except:

- *The Host is not told how a local prompt ended* (`OutcomesAreTold` under
  `FairSpec`; `MaxOutput = 1`, `MaxWork = 0`, `MaxTroubles = 0`). When a batch is
  acknowledged, `flushToHost` (`session-console.ts:776`) notes its operations as
  told in the state they have by then. One that ended while the request was on
  its way is not sent again, neither by the rest of the synchronization nor by
  the live pump that goes on from it. The Host keeps it as accepted, and
  `reserved()` holds back the Host's prompts until the next synchronization.
- *A synchronization that was superseded makes the console online*
  (`ControlFirst`; `Overlapping = TRUE`, `MaxTroubles = 2`). `main.ts:1743` says
  that "`connected` supersedes any run already in progress"; but `response`
  (`session-console.ts:132`) takes any accepted answer to a `synchronized` request
  for the current one's, and the live pump then sends output before the newer
  synchronization has sent the operations that govern it.
- *The Host's history gets a gap* (`HistoryIsPrefix`; `Overlapping = TRUE`,
  `MaxOutput = 3`, `MaxTroubles = 3`, `MaxLocal = 0`). The same, and worse: the batch
  the live pump sends early fails, the newer synchronization's `initialize` then
  resets the Host's `replayFailed`, and a live batch sent behind the failed one is
  stored without it.
- *Events stay behind after a resync* (`ConsoleSettles`; `Rebound = FALSE`,
  `MaxLocal = 0`). A resync on the same connection forgets the grants on the Node,
  while the Host counts them as sent on this connection (`sentGrants`): a session
  that is resumed then, and whose lease does not change, is not granted again,
  and its events stay in the journal until the next connection.

**Sessions.** `SessionLifecycle`, with the constants of `SessionLifecycle_agree.cfg`
except:

- *A stop is undone by automatic resume* (`StopStays`; `MaxBreaks = 1`,
  `AutoResume = TRUE`, `Hazards = {"hang-up"}`). A cancel whose socket is closing
  fails the row while its stop is unacknowledged (`routes/sessions.ts:345`); the
  next inventory clears the request of a terminal row and returns the row among
  those it settled (`store.ts:6323`), and automatic resume starts it again.
  `docs/orchestration-lifecycle.md:7`: "`stopRequested` records an unacknowledged
  Stop across disconnects and restarts".
- *A message is delivered to nobody* (`DeliveredWasTaken`; `MaxBreaks = 0`,
  `MaxMsgs = 1`, `MaxOwn = 1`). The queue takes the next `running` report for the
  confirmation of its delivery (`session-messages.ts:365`); when that is a turn
  the agent began by itself, the message is retired and the Node refuses the
  prompt as busy. `docs/guide/using-fleet.md:188`: "Delivery errors remain
  visible".
- `AutoResume = TRUE` with two breaks: `Agree` fails; the resumed attempt's
  events are taken for the ended one's.
- `Hazards = {"late refusal"}`, `{"stale beat"}` or `{"clean exit"}`: `Agree` fails.
  A launch refused after a reconnect moved the row out of `starting`; an
  inventory taken before the launch arrived and read after a stop that follows
  it; an exit with status 0 while a cancellation is pending, for which the table
  has no transition.
- `Hazards = {"hang-up"}`: `LaunchSettles` fails; the launch's result is lost with
  the connection the Host closed.
- After two breaks a refused prompt may fail a row through
  `settleRefusedLaunch`; the completion of a turn cancelled late is announced
  when a reconnect showed its launching session idle (`CalledOffIsSilent` is
  checked on an unbroken link for this reason); the `running` report of an own
  turn takes the row out of `cancelling` (its guard `own = 0`).

**Orchestration.** `MCRunEngine`, with the constants of `RunEngine_safety.cfg`
except:

- *A step succeeds without a turn* (`SucceededRan`; `MaxTries = 1`, `MaxActs = 0`,
  `AutoResume = TRUE`). `ARCHITECTURE.md:224`: "A step succeeds only on
  `turn_complete` and then `idle`". A Node that restarts in the middle of a
  worker's turn loses it; automatic resume loads the conversation, the row is
  idle, and the output the broken turn had produced satisfies the engine's rule
  for a turn whose end was missed (`engine.ts:350`). The step is settled as
  succeeded.
- Two attempts, `Hazards = {"own turn"}` or `{"late answer"}`: `SucceededRan` fails.
  The Node refuses the follow-up's prompt as busy, and the turn the agent began
  by itself is taken for the follow-up's; a dispatch is given up, followed up,
  and answered.
- Two attempts, `Hazards = {"refusal"}`, one break and one intervention:
  `OneWriter` fails. The Node answers a stop for a worker that had ended with
  "Session is not active on this node" (`router.ts:408`); by then the worker has
  been resumed, `failFromCommandResult` fails the row while its agent starts, and
  the next step's worker is launched on the same checkout, where
  `schedule.ts:1075` wants "only one writer at a time".
- Two attempts, `Hazards = {"early lead"}`, one break and two interventions:
  `SucceededRan` and `FollowUpAsked` fail. The Host dies while it archives a run; a
  person reopens the run, and the reconnect shows the worker, which is only being
  started, as idle. The lead follows up, and the report of the first attempt is taken
  for the follow-up's.
- Two attempts, `Hazards = {"stale beat"}`: `CancelledStops` fails; a stop lost with
  its connection is not repeated to a worker an old inventory did not name.
- `CancelledStops` without `AllAsked`: `archiveRun` and the cancel route commit the
  run before they ask its workers to stop (`lifecycle.ts:86`, which "stops every
  worker"); a Host that dies in between leaves workers nobody asks again.

**Commands.** `CommandExecution_faults.cfg` with `MaxCrashes = 0`, `Shared = FALSE`:

- *A retired request keeps its place on the Node* (`RetiredIsReleased`).
  `command-execution-service.ts:999`: "A revocation sent while the Node was
  offline is lost; repeat it so a request retired early … stops holding a Node
  slot." When the connection drops before `prepared` is heard, the row fails
  without its descriptor; the repeated revocation is answered with a cancelled
  receipt, whose digest is compared with the descriptor that is missing (`:1009`),
  refused, and the Host closes the connection (`node-socket.ts:386`). The next
  connection does the same.
- The Host also hangs up on two truthful receipts: one that says *starting* while
  the row is cancelling or waits for reconciliation, and a stale copy a
  reconciliation repeats when it joined a heartbeat's recovery. A start that was
  lost stays `reconciliation_required` until the Node next expires its
  preparations. Each of them ends by itself, as `CommandSettles` shows.

**Lead prompts.** `LeadPrompts_prompts.cfg`:

- *An old refusal is taken for the answer to the next offer* (`RefusedIsUntaken`,
  one prompt). A busy refusal that was lost is repeated, and meets the row after
  the prompt was offered again: the row says `rejected_busy` while the agent works
  on it. The true answer is then one the Host does not believe
  (`command-execution-service.ts:1596`), and it closes every connection that
  brings it (`node-socket.ts:386`) until the turn ends.
- A prompt refused as busy waits for news of the lead, and waits for good when
  the event that the lead is idle is lost; an uncertain prompt holds back all
  later ones, as intended; after a restart of the Node the repeated offer
  finds no session and is rejected, although automatic resume loads the lead
  right after.

**Retention.** `SessionRetention_retention.cfg` with one session, `MaxSends = 2`,
`MaxRequests = 1`, `MaxBreaks = 0`:

- *A conversation is deleted after its row was unlocked* (`DeletedUnderLock`,
  12 states). `session-retention.ts:23`: "Keep the Fleet row locked until that
  Node confirms". An overdue request is repeated; the first is refused and
  unlocks the row; the second finds the session at rest and deletes it. Row
  and agent still go together (`GoneTogether`), and nothing used since the
  cutoff is lost (`UsedIsKept`).
- Read in the code: a Stop from the Node's console marks a locked row and only
  then throws; a prompt refused because its conversation was deleted leaves the
  row `running` until the next reconnect.

**Managed worktrees.** `ManagedWorktrees_operations.cfg`:

- *A workspace locked for good* (`OperationSettles` without `"overtaken"`). A
  session whose end is in doubt makes the Node raise the workspace's version
  (`managed-worktrees.ts:215`) while an operation is between its version check
  and the repository's registry. The registry refuses it, and the failure's
  answer carries a version two above the expected one, which the Host does not
  take (`managed-worktree-service.ts:2328`). The Node repeats the recorded answer
  to every repetition, and the pending operation refuses every other.
- *A lost frame is not sent again* (without `"missed"`). Pending operations are
  repeated when the Node reconnects, but not those the same Host process still
  waits 30 seconds for; when that time is over nothing repeats them until the
  next reconnect. (`docs/managed-worktree-isolation.md:298` promises the replay for
  a restart of the Host only, and there it happens.)
- *A repetition refused for want of history* (`HostKnows` without `"refused"`). The
  Node answers an operation that was carried out before with
  `session_sync_pending`, and the Host records a failure: its copy is that of
  before the operation, until someone reconciles.
- *A dead Node's participation stays* (`Registry = TRUE`). A process that dies
  with an operation or a session leaves its entry in the registry; only
  commands ever remove those of a dead process. Every later operation, the
  reconciliation included, is refused as `repository_busy`, and the entry of a dead
  operation keeps sessions out of the repository, too.
  `docs/managed-worktree-isolation.md` has such leases reconciled once the
  recorded processes are no longer alive, and the recovery tests construct the
  Node without the registry `main.ts:822` gives it. `OperationSettles` holds: the
  operations are answered.
- Observing or retaining a workspace that is only reserved records it as
  missing, after which it cannot be created; preparing a run while the
  reservation is pending or the Node is away blocks the run; a checkout cannot
  be created while any session works in the repository.

### Read in the code, outside the bounds

- A run escalated with work in flight and then accepted is closed and never
  ticked again, so those steps stay `running`; `startStep` says a dispatch that
  never went out "comes back to `pending`" (`engine.ts:499`), while after a crash it
  ends in `failed` by its starting deadline; `schedule.ts:865` guards against a
  third empty wake, but nothing increments `emptyWakeCount`; and a Host that just
  restarted "may not settle a step, finish a Run, or wake anything until Nodes
  report in" (`ARCHITECTURE.md:222`), while its first tick settles a step whose
  worker had ended, and finishes the run if that was the last one.
- A row dismissed while its agent lives is one the Host no longer knows: the
  Node's inventory names it and is refused on every connection (`store.ts:6283`).

## Hazards

`PROJECT.json` lists what is hard to test in this code, each at its line, with
the properties that would catch it. A hazard without a property names why: the
source fails there as it is (the constants that show it are above), or the
part that would show it is not modelled.

## Plan

The modules, most important behaviour first. Each line names what the module
has to get right.

| # | Module | What has to hold | State |
|---|---|---|---|
| 1 | OutboxDelivery, EventRelay | every event reaches the Host once and in order, or stays retained; nothing is shown `ready` early | done, safety proved but for the refinement |
| 2 | SessionLifecycle | the row agrees with the machine; a prompt is acted on once; a notification per turn; stops finish | done, `NotifiedOnce` and `StopStays` proved |
| 3 | RunEngine | a succeeded step's own prompt was really answered; an attempt is dispatched once; one writer per checkout; a finished run has nothing running | done; types, `DispatchedOnce`, `OneWriter` and `FinishedRight` proved |
| 4 | CommandExecution, CommandOutcome | a command is run once though every hop may repeat it; a crash between journal and effect is reported, not retried | done, safety and refinement proved |
| 5 | LeadPrompts | a prompt is given once, and its answer is found out | done, safety proved |
| 6 | ManagedWorktrees | a worktree is removed only when nothing uses it; operations end; what the Host shows is true | operations of one workspace done; safety proved; composition and publication planned |
| 7 | SessionRetention | nothing in use is deleted; a deletion cut short resumes | done, safety proved |
| 8 | SessionConsole, EventPaths | the sealed stream: what the Node's journal captured is what the Host stores; a prompt given at the Node runs once and is not crossed by the Host's | one granted session done, safety proved; trimming and several sessions planned |
| 9 | CommandRouter | repeated commands are answered from the receipt, MCP recovery and quiescence never run twice at once, deletion waits for both | in parts of 2, 3, 5 and 7 |
| 10 | PrMaintenance | a lease is held by one worker; a revision that moved invalidates what was decided on the old one | planned |
| 11 | NativeSessionSync | imported and live sessions never become two rows for one agent session | planned |
| 12 | Notifications | one notification per attempt key, across retries and restarts | planned |
| 13 | HostClaim, EnrollmentGrants | a claim code and a grant are each redeemed once | planned |
| 14 | SelfUpdate, NodeAdmission | an update drains before it restarts, a bad build is quarantined and not retried | planned |
| 15 | HostEndpoints, HeartbeatSchedule | pure algorithms: against a reference definition over bounded inputs | planned |
| 16 | LocalAgent, HostMcp | every forwarded request is answered once, or fails with its connection | planned |

Composition: RunEngine uses SessionLifecycle's row transitions as a coarser
alphabet (no cancellation of a launch, one turn at a time). CommandExecution and
ManagedWorktrees share the checkout's lock; what else holds it is, in both, a
session of the Node. LeadPrompts and CommandExecution meet in the Host's rows
only: the outcome of a command enters LeadPrompts as a prompt. EventPaths
puts SessionConsole beside OutboxDelivery: a session's events take one of the two
ways. They differ in what they promise (the journal may hold events back for as
long as the console is in conflict, and never drops one), so SessionConsole is
not a second refinement of EventRelay.

Theorems to prove next, in order: `TurnsAreTold` of SessionLifecycle for a link
that does not break (`MaxBreaks = 0`), and `Agree` without the listed hazards;
`JudgedByItsTurn` of RunEngine without the hazards it fails with; `OneWriter` with
fewer of the hypotheses of `OneAtATime`; the
step simulation behind `OutboxRelays`.

## What is not modelled

- **Event delivery.** The older, unacknowledged event flush (`main.ts`, for Hosts
  before the replay protocol); the cryptography of the sealed channel; the
  choice of the endpoint to dial.
- **Sessions and messages.** Attachments and editing of queued messages;
  configuration changes and dismissal; a worker's and a lead's extra rows.
- **Orchestration.** Managed worktrees and aggregation as the engine sees them,
  placement and node capacity, the `retry` and `continue` failure policies, the
  states before a run is approved.
- **Command execution.** Streamed output, its sequence numbers and gaps;
  permissions and grants; pruning of the journal and its restoration under
  another identity; observations of PR maintenance; the Windows supervisor; the
  quarantine flag of admission; repeated `prepare` and `start` frames;
  verification of a step by fence revision.
- **Lead prompts.** A full journal and its quarantine; the `delivery` field of
  executions; priorities; retired payloads; storage pressure.
- **Session console.** How a session is granted, moved, retired and deleted; more
  than one session, and the lanes between them; trimming of the journal, a full
  journal and unavailable sessions; prompts given at the Node while it is online
  (they go through the Host), send-now, and the commands that are admitted for
  safety's sake (stop, cancel); attachments.
- **Retention.** Stops, dismissals and favourites; viewing as activity; the rows
  that PR maintenance, runs and shared conversations keep from expiring; the
  Hermes provider; older Nodes; imported backups.
- **Managed worktrees.** Quiescence across Nodes, composition, materialization,
  results, integration and publication; abandonment, quotas, derived workspaces,
  backup quarantine, artifacts; changes to the files from outside; synchronizing
  as a state of its own; a draining Node.
- **Tunnels and direct connectivity.** Supervision of external processes. All
  the system sees is a connection that breaks, which every module has.
- **Agents.** External programs behind adapters; the modules have the events
  they raise, in every order an adapter may raise them.
- **Browser UI.** Renders the Host's rows; no protocol of its own.
- **PR maintenance skill CLI.** A client that an agent runs against external
  services.
- **Database migrations, backups.** Pure I/O.
- Everything in the plan above marked *planned*.
