----------------------------- MODULE RunEngine ------------------------------
(***************************************************************************)
(* One run and the engine that advances it (apps/host/src/orchestrator/    *)
(* engine.ts, schedule.ts, lifecycle.ts, tools.ts; the handlers it calls   *)
(* in fleet-service.ts and store.ts): steps are dispatched to worker       *)
(* sessions on one Node, all writing one checkout, and settled from what   *)
(* the workers report.  A pass plans on what the store says, carries the   *)
(* plan out commit by commit, and may be cut short by a crash of the Host  *)
(* after any commit.                                                       *)
(*                                                                         *)
(* A worker's events come through its Node's journal, so none is lost and  *)
(* they arrive in order; commands are lost with their connection.  A step  *)
(* has one worker, so a worker's row is named by its step.  The attempt a  *)
(* dispatch is made for is the step's attempt number, or Session for a     *)
(* prompt that is not the step's.                                          *)
(***************************************************************************)
EXTENDS SessionStates, Naturals, SequencesExt, FiniteSets

CONSTANTS
    Order,       \* the steps, in the order of their position
    DependsOn,   \* the steps each step depends on
    AutoResume,  \* the Host's setting to resume sessions a reconnect lost
    Hazards,     \* happenings that may occur, of HazardKinds
    MaxTries,    \* bound: attempts of one step
    MaxBreaks,   \* bound: breaks of the link and restarts
    MaxActs      \* bound: interventions of a person, and unprompted turns

\* An agent goes on by itself; a person queues a message for a worker; the lead
\* hands a run to a person with work still going on; the Host closes the socket
\* on the Node; an inventory is taken while a launch is on its way; a Node's
\* refusal to stop what it no longer runs is heard; the Host gives up on a
\* dispatch, or the lead follows one up, before all is heard of it; the lead
\* follows up an idle worker before all is heard of that.
HazardKinds == {"own turn", "message", "escalate", "hang-up", "stale beat",
                "refusal", "late answer", "early lead"}

Steps == ToSet(Order)
Session == MaxTries + 1

\* No plan depends on itself: findCycle for one that is given whole, and a lead
\* can only depend on what it has recorded before.
ASSUME EngineAssumption ==
    /\ Order \in Seq(Steps) /\ IsInjective(Order)
    /\ DependsOn \in [Steps -> SUBSET Steps]
    /\ \E rank \in [Steps -> DOMAIN Order] :
         \A s \in Steps : \A d \in DependsOn[s] : rank[d] < rank[s]
    /\ AutoResume \in BOOLEAN /\ Hazards \subseteq HazardKinds
    /\ MaxTries \in Nat \ {0} /\ MaxBreaks \in Nat /\ MaxActs \in Nat

VARIABLES
    led,     \* wakePolicy is on_any_settle: a lead works on the run
    run,     \* the run's row
    step,    \* the steps' rows
    sess,    \* the worker sessions' rows
    memo,    \* OrchestrationEngine.turnComplete
    mail,    \* steps whose worker has a queued message
    link,    \* the Host's connection to the Node
    down,    \* commands on their way to each worker
    up,      \* events on their way from each worker
    agent,   \* the workers' processes
    breaks,  \* breaks so far
    acts,    \* interventions so far
    asked,   \* history: how often each attempt's prompt was put to an agent
    ended    \* history: the attempts whose turn has ended

hostVars == <<led, run, step, sess, memo, mail, link>>
nodeVars == <<agent, asked, ended>>
vars == <<led, run, step, sess, memo, mail, link, down, up, agent,
          breaks, acts, asked, ended>>

Closed == {"completed", "failed", "cancelled"}
Settled == {"succeeded", "failed", "skipped", "cancelled"}
InFlight == {"starting", "running"}

\* runTransitions and runStepTransitions, on the states in use here.
RunTransitions ==
    [running |-> {"awaiting_lead", "awaiting_human"} \cup Closed,
     awaiting_lead |-> {"running", "awaiting_human"} \cup Closed,
     awaiting_human |-> {"running"} \cup Closed,
     completed |-> {"running"}, failed |-> {"running"},
     cancelled |-> {"running"}]
StepTransitions ==
    [pending |-> {"starting", "failed", "skipped", "cancelled"},
     starting |-> {"running", "pending", "failed", "cancelled"},
     running |-> {"succeeded", "failed", "cancelled"}]
CanRun(from, to) == from = to \/ to \in RunTransitions[from]
CanStep(from, to) ==
    \/ from = to
    \/ from \in DOMAIN StepTransitions /\ to \in StepTransitions[from]

NoStep == [st |-> "none", try |-> 0, bound |-> FALSE, sent |-> FALSE,
           text |-> FALSE]
NewStep == [NoStep EXCEPT !.st = "pending", !.try = 1]
NoRow == [st |-> "none", agent |-> FALSE, stop |-> FALSE, intent |-> "none",
          done |-> 0, by |-> 0]
NoAgent == [proc |-> "none", job |-> 0, spoke |-> FALSE]

\* `owed` is settleSeq > wakeSeq: a settlement the lead has not been told of.
\* A run without a lead is given its whole plan before it is approved.
Init ==
    /\ led \in BOOLEAN
    /\ run = [st |-> "running", owed |-> FALSE]
    /\ step = [s \in Steps |-> IF led THEN NoStep ELSE NewStep]
    /\ sess = [s \in Steps |-> NoRow]
    /\ memo = [s \in Steps |-> 0] /\ mail = {} /\ link = "up"
    /\ down = [s \in Steps |-> <<>>] /\ up = [s \in Steps |-> <<>>]
    /\ agent = [s \in Steps |-> NoAgent]
    /\ breaks = 0 /\ acts = 0
    /\ asked = [s \in Steps |-> [t \in 1..MaxTries |-> 0]]
    /\ ended = {}

-----------------------------------------------------------------------------
(* The part of the state a Host handler works on, with what it sends.       *)
(* What a handler does is a trail: the Host after each of its commits.      *)

Host == [run |-> run, step |-> step, sess |-> sess, memo |-> memo,
         mail |-> mail, link |-> link, up |-> up, down |-> down]

Live(h, s) == h.sess[s].st \notin Terminal \cup {"none"}
Open(h) == h.link \in {"up", "syncing"}
Command(type, job) == [type |-> type, job |-> job]
Send(h, s, type, job) ==
    [h EXCEPT !.down[s] = Append(@, Command(type, job))]

\* The receipt of a dispatch, for an attempt or for an intent to stop or cancel.
Receipt(row, by) == [row EXCEPT !.intent = "none", !.done = 0, !.by = by]
CalledOff(row, type) == [row EXCEPT !.intent = type, !.done = 0]

\* dispatchAttemptKey.
AttemptKey(h, s) ==
    IF h.step[s].bound /\ h.step[s].st \notin Settled THEN h.step[s].try
    ELSE Session

\* dispatch of a launch or prompt: the receipt, then the command.
Dispatch(h, s, by, type, job) ==
    Send([h EXCEPT !.sess[s] = Receipt(@, by)], s, type, job)

\* dispatch of a stop or cancel.
CallOff(h, s, type) ==
    IF Open(h)
    THEN Send([h EXCEPT !.sess[s] = CalledOff(@, type)], s, type, 0) ELSE h

\* stopSessions: the request is durable before the command leaves.
StopSession(h, s) ==
    IF Live(h, s) /\ ~h.sess[s].stop
    THEN LET flagged == [h EXCEPT !.sess[s].stop = TRUE]
         IN  <<flagged, CallOff(flagged, s, "stop")>>
    ELSE <<>>

-----------------------------------------------------------------------------
(* planNextActions.  `due` says which deadline has passed, if any.          *)

\* Variant: a worker that stays idle has finished, output or not.
TurnsEndedIdle(h, due) ==
    {s \in Steps :
       /\ h.step[s].bound
       /\ \/ h.step[s].try \in {h.sess[s].done, h.memo[s]}
          \/ due = "idle" /\ h.sess[s].st = "idle"}

\* The sessions whose current turn has ended (tickRun, completedTurns).
TurnsEnded(h, due) ==
    {s \in Steps :
       /\ h.step[s].bound
       /\ \/ h.sess[s].done = h.step[s].try
          \/ h.memo[s] = h.step[s].try
          \/ due = "idle" /\ h.sess[s].st = "idle" /\ h.step[s].text}

\* The worker's row shows that it took the dispatch.
Acknowledged(h, turned, s) ==
    LET st == h.sess[s].st
    IN  /\ h.step[s].bound
        /\ IF h.step[s].try > 1
           THEN \/ st \in {"running"} \cup Terminal
                \/ h.step[s].sent /\ st = "idle" /\ s \in turned
           ELSE st \notin {"queued", "offline"}

Starting(h) == {s \in Steps : h.step[s].st = "starting"}
Running(h) == {s \in Steps : h.step[s].st = "running"}

\* Variant: only a worker that failed ends its step.
EndedBadly(h, steps) ==
    {s \in steps : h.step[s].bound /\ h.sess[s].st = "failed"}

\* The workers of these steps have ended, if there are any.
Ended(h, steps) ==
    {s \in steps : h.step[s].bound => h.sess[s].st \in Terminal}

\* A turn that has ended and a worker at rest are success, nothing else is.
AtRest(h, steps) ==
    {s \in steps : h.step[s].bound /\ h.sess[s].st \in {"idle", "completed"}}

Unanswered(h, due) ==
    {s \in Starting(h) : /\ h.step[s].sent /\ due = "starting"
                         /\ h.link # "down"}

Doomed(eff) ==
    {s \in Steps : /\ eff[s] = "pending"
                   /\ \E d \in DependsOn[s] :
                        eff[d] \in {"failed", "skipped", "cancelled"}}

\* Variant: a dependency that is out of the way is enough.
WaitingForAny(h, eff) ==
    {s \in Steps : /\ h.link \notin {"syncing", "down"} /\ eff[s] = "pending"
                   /\ \A d \in DependsOn[s] : eff[d] \in Settled}

\* Nothing is dispatched while the Node is away or its history is replayed.
Waiting(h, eff) ==
    {s \in Steps : /\ h.link \notin {"syncing", "down"} /\ eff[s] = "pending"
                   /\ \A d \in DependsOn[s] : eff[d] = "succeeded"}

\* Settled workers that keep the checkout from a step that waits for it.
Parked(h, eff, waiting) ==
    {o \in Steps : /\ waiting # {} /\ h.run.st # "awaiting_human"
                   /\ h.sess[o].st = "idle" /\ ~h.sess[o].stop
                   /\ eff[o] \in Settled}

\* Variant: only work in flight holds the checkout.
OccupiedByWork(h, eff) == \E s \in Steps : eff[s] \in InFlight

\* A live worker holds the checkout (holdsCheckout), or a step in flight.
Occupied(h, eff) ==
    \E s \in Steps : Live(h, s) \/ eff[s] \in InFlight

\* The waiting steps that have a worker, and the checkout to themselves.
Alone(h, waiting) ==
    {s \in waiting : /\ h.step[s].bound /\ ~h.sess[s].stop
                     /\ \A o \in Steps \ {s} : ~Live(h, o)}

\* A follow-up whose worker ended while it was being resumed.
Unresumed(h, alone) ==
    {s \in alone : h.step[s].sent /\ h.sess[s].st \in Terminal}

ToStart(h, eff, waiting) ==
    {s \in waiting : ~h.step[s].bound /\ ~Occupied(h, eff)}

\* A step that has a worker goes on with it: prompted while it is idle, resumed
\* first if it has ended.
ToPrompt(h, alone) == {s \in alone : h.sess[s].st = "idle"}

ToResume(h, eff, alone) ==
    {s \in alone : /\ h.sess[s].st \in Terminal /\ ~h.step[s].sent
                   /\ ~Occupied(h, eff)}

\* A run without a lead is over when no step of it can go on.
Over(eff, doomed) == \A s \in Steps : eff[s] \in Settled \/ s \in doomed

\* The lead is told of settlements unless the run is a person's now.
IsTold(h) == h.run.owed /\ h.run.st # "awaiting_human"

\* One writer to a checkout: the first that can go ahead does.
Position(s) == CHOOSE i \in DOMAIN Order : Order[i] = s
First(steps) == {s \in steps : \A o \in steps : Position(s) <= Position(o)}

Advances(h, turned) == {s \in Starting(h) : Acknowledged(h, turned, s)}

\* What becomes of the steps that are out.
Verdict(h, due, turned, advances) ==
    LET runs == Running(h) \cup advances
        won == AtRest(h, runs) \cap turned
        lost == (Ended(h, runs) \ won) \cup (Unanswered(h, due) \ advances)
        Late(s) == due = "step" /\ h.sess[s].st # "offline"
    IN  [advances |-> advances, won |-> won, lost |-> lost,
         late |-> {s \in runs \ (won \cup lost) : Late(s)}]

\* effectiveState, before anything is skipped or dispatched.
Effective(h, v) ==
    [s \in Steps |-> IF s \in v.won THEN "succeeded"
                     ELSE IF s \in v.lost THEN "failed"
                     ELSE IF s \in v.advances THEN "running"
                     ELSE h.step[s].st]

\* Of the steps that can go out, at most one does.
Going(h, eff, waiting, alone) ==
    IF h.run.st = "awaiting_human" THEN {}
    ELSE First(ToStart(h, eff, waiting) \cup ToPrompt(h, alone)
               \cup ToResume(h, eff, alone))

\* What may still be recorded of them while the Node's history is replayed.
Recorded(h, turned) ==
    {s \in Steps : \/ h.sess[s].st \in Terminal
                   \/ h.sess[s].st = "idle" /\ s \in turned}

\* The plan of a Node that is there.
FullPlan(h, due, v, eff, waiting, alone) ==
    LET goes == Going(h, eff, waiting, alone)
        doomed == Doomed(eff)
        unresumed == Unresumed(h, alone)
        failed == \E s \in Steps : \/ eff[s] \in {"failed", "cancelled"}
                                   \/ s \in unresumed
    IN  [snap |-> h.run.st, advances |-> v.advances, won |-> v.won,
         lost |-> v.lost, late |-> v.late, doomed |-> doomed,
         parked |-> Parked(h, eff, waiting), unresumed |-> unresumed,
         starts |-> goes \cap ToStart(h, eff, waiting),
         prompts |-> goes \cap ToPrompt(h, alone),
         resumes |-> goes \cap ToResume(h, eff, alone),
         wakes |-> led /\ due = "lead" /\ IsTold(h),
         over |-> ~led /\ Over(eff, doomed),
         fate |-> IF failed THEN "failed" ELSE "completed"]

\* What is left of it while the Node's history is replayed.
Replaying(plan, recorded) ==
    [plan EXCEPT !.won = @ \cap recorded, !.lost = @ \cap recorded,
                 !.late = {}, !.doomed = {}, !.parked = {}, !.unresumed = {},
                 !.starts = {}, !.prompts = {}, !.resumes = {},
                 !.wakes = FALSE, !.over = FALSE]

PlanFrom(h, due, turned, v, eff, waiting) ==
    LET plan == FullPlan(h, due, v, eff, waiting, Alone(h, waiting))
    IN  IF h.link = "syncing" THEN Replaying(plan, Recorded(h, turned)) ELSE plan

Plan(h, due) ==
    LET turned == TurnsEnded(h, due)
        v == Verdict(h, due, turned, Advances(h, turned))
        eff == Effective(h, v)
    IN  PlanFrom(h, due, turned, v, eff, Waiting(h, eff))

-----------------------------------------------------------------------------
(* execute: each action of a plan is a trail.  `snap` is the state of the   *)
(* run as the pass first read it.                                           *)

\* settleOrchestrationStep, one transaction, and the memo with it.
Settle(h, s, to) ==
    IF CanStep(h.step[s].st, to)
    THEN <<[h EXCEPT !.step[s].st = to, !.run.owed = TRUE,
                     !.run.st = IF led /\ @ = "running" THEN "awaiting_lead"
                                ELSE @,
                     !.sess[s].done = 0, !.memo[s] = 0]>>
    ELSE <<>>

\* Work that goes out while the lead is awaited sets the run going again.
GoesOn(h, snap) ==
    IF snap = "awaiting_lead" THEN <<[h EXCEPT !.run.st = "running"]>> ELSE <<>>

\* A command about to go out: what the worker still has on its way is older.
Older(events) == [i \in DOMAIN events |-> [events[i] EXCEPT !.late = TRUE]]
Stamped(h, s) == [h EXCEPT !.step[s].sent = TRUE, !.up[s] = Older(@)]

\* startStep: the step, the session bound to it, the receipt and the command;
\* a command that cannot leave puts the step back.
StartStep(h, s, snap) ==
    LET marked == [Stamped(h, s) EXCEPT !.step[s].st = "starting"]
        bound == [marked EXCEPT !.step[s] = [@ EXCEPT !.bound = TRUE, !.text = FALSE],
                                !.sess[s].st = "queued"]
        left == Dispatch(bound, s, h.step[s].try, "start", h.step[s].try)
        fallen == [bound EXCEPT !.sess[s].st = "failed"]
        back == [fallen EXCEPT !.step[s] = [@ EXCEPT !.st = "pending", !.sent = FALSE,
                                                     !.bound = FALSE],
                               !.sess[s] = NoRow]
    IN  IF Open(h) THEN <<marked, bound, left>> \o GoesOn(left, snap)
        ELSE <<marked, bound, fallen, back>>

\* resumeStep and resumeSession: the prompt follows once the worker is idle.
ResumeStep(h, s) ==
    LET marked == [Stamped(h, s) EXCEPT !.memo[s] = 0]
        row == [marked EXCEPT !.sess[s].st = "starting"]
        fallen == [row EXCEPT !.sess[s] = [@ EXCEPT !.st = "failed", !.done = 0]]
    IN  IF Open(h)
        THEN <<marked, row, Dispatch(row, s, AttemptKey(row, s), "resume", 0)>>
        ELSE <<marked, row, fallen>>
               \o Settle([fallen EXCEPT !.step[s].sent = FALSE], s, "failed")

\* Variant: the prompt leaves before the step is marked.
PromptStepSendsFirst(h, s, snap) ==
    LET left == Dispatch(h, s, h.step[s].try, "prompt", h.step[s].try)
        marked == [left EXCEPT !.step[s] = [@ EXCEPT !.st = "starting", !.sent = TRUE],
                               !.memo[s] = 0]
    IN  <<left, marked>> \o GoesOn(marked, snap)

\* promptStep: as startStep, into a worker that is there.
PromptStep(h, s, snap) ==
    LET marked == [Stamped(h, s) EXCEPT !.step[s] = [@ EXCEPT !.st = "starting",
                                                              !.text = FALSE],
                                        !.memo[s] = 0]
        left == Dispatch(marked, s, h.step[s].try, "prompt", h.step[s].try)
        back == [marked EXCEPT !.step[s] = [@ EXCEPT !.st = "pending", !.sent = FALSE]]
    IN  IF Open(h) THEN <<marked, left>> \o GoesOn(left, snap)
        ELSE <<marked, back>>

\* What the plan says of one step, in the order the planner pushes its actions:
\* first all that is out is judged, then all that is doomed is skipped, the
\* settled workers in the way are stopped, and what can go out does.
Judge(h, p, s) ==
    LET went == IF s \in p.advances THEN <<[h EXCEPT !.step[s].st = "running"]>>
                ELSE <<>>
        at == IF s \in p.advances THEN went[1] ELSE h
    IN  CASE s \in p.won -> went \o Settle(at, s, "succeeded")
          [] s \in p.lost -> went \o Settle(at, s, "failed")
          [] s \in p.late -> went \o StopSession(at, s)
          [] OTHER -> went

Skip(h, p, s) ==
    IF s \in p.doomed THEN <<[h EXCEPT !.step[s].st = "skipped"]>> ELSE <<>>

Park(h, p, s) == IF s \in p.parked THEN StopSession(h, s) ELSE <<>>

Go(h, p, s) ==
    CASE s \in p.unresumed -> Settle(h, s, "failed")
      [] s \in p.starts -> StartStep(h, s, p.snap)
      [] s \in p.prompts -> PromptStep(h, s, p.snap)
      [] s \in p.resumes -> ResumeStep(h, s)
      [] OTHER -> <<>>

Execute(h, p, phase, s) ==
    CASE phase = "judge" -> Judge(h, p, s)
      [] phase = "skip" -> Skip(h, p, s)
      [] phase = "park" -> Park(h, p, s)
      [] phase = "go" -> Go(h, p, s)

\* One phase of the plan, step by step in their order, after a trail.
Walk(p, phase, trail) ==
    LET past[i \in 0..Len(Order)] ==
          IF i = 0 THEN trail
          ELSE LET before == past[i - 1]
               IN  before \o Execute(Last(before), p, phase, Order[i])
    IN  past[Len(Order)]

\* What becomes of the run, once its steps have been seen to.
Conclude(h, p) ==
    CASE p.wakes -> <<[h EXCEPT !.run.owed = FALSE]>>
      [] p.over /\ CanRun(p.snap, p.fate) -> <<[h EXCEPT !.run.st = p.fate]>>
      [] OTHER -> <<>>

Carried(p, trail) ==
    Walk(p, "go", Walk(p, "park", Walk(p, "skip", Walk(p, "judge", trail))))

\* tickRun.
Concluded(p, trail) == trail \o Conclude(Last(trail), p)
Pursued(h, p) == Concluded(p, Carried(p, <<h>>))
Pass(h, due) ==
    IF h.run.st \in Closed THEN <<h>> ELSE Pursued(h, Plan(h, due))

\* SessionMessages.tick, for the first messages of these workers.
Pumpable(h, steps) ==
    {s \in steps \cap h.mail : /\ h.link = "up" /\ h.sess[s].st = "idle"
                               /\ ~h.sess[s].stop}
Pumped(h, steps) ==
    LET now == Pumpable(h, steps)
        Row(s) == [Receipt(h.sess[s], AttemptKey(h, s)) EXCEPT !.st = "running"]
    IN  [h EXCEPT !.mail = @ \ now,
                  !.sess = [s \in Steps |-> IF s \in now THEN Row(s) ELSE @[s]],
                  !.down = [s \in Steps |->
                              IF s \in now
                              THEN Append(@[s], Command("prompt", Session))
                              ELSE @[s]]]

\* OrchestrationEngine.tick: the run first, then the queued messages.
AllPumped(trail, sent) ==
    IF sent = Last(trail) THEN trail ELSE Append(trail, sent)
ThenPumped(trail) == AllPumped(trail, Pumped(Last(trail), Steps))

Tick(h, due) == ThenPumped(Pass(h, due))

-----------------------------------------------------------------------------
(* handleEventResult, on an event [type, late] of the worker of s.          *)

\* notificationAttemptContext: the row still works for the step's attempt.
Concerns(h, s) == h.step[s].bound /\ h.sess[s].by \in {0, h.step[s].try}

AnswersIntent(h, s, e) ==
    \/ h.sess[s].intent = "stop" /\ e.type \in {"stopped", "failed"}
    \/ h.sess[s].intent = "cancel" /\ e.type \in {"idle", "stopped", "failed"}

\* isStaleAttemptEvent: of a settled step, only what answers a stop or cancel
\* counts; of one that is being dispatched, nothing older than its dispatch.
Stale(h, s, e) ==
    /\ Concerns(h, s)
    /\ IF h.step[s].st \in Settled THEN ~AnswersIntent(h, s, e)
       ELSE /\ e.late /\ h.step[s].sent /\ h.step[s].st # "running"
            /\ e.type # "running"
            /\ ~(/\ h.step[s].st = "pending" /\ h.sess[s].st = "starting"
                 /\ e.type = "idle")

Settling == {"idle", "completed", "failed", "stopped"}

\* clearConsumedTurnCompletion: a step that is not settled keeps the receipt.
Keeps(h, s, to) ==
    /\ h.sess[s].intent = "none" /\ Concerns(h, s)
    /\ h.step[s].st \notin Settled /\ to \in Settling

\* The row takes a reported or inferred state.
Taken(h, s, to) ==
    [h.sess[s] EXCEPT !.st = to, !.stop = @ /\ to \notin Terminal,
                      !.intent = IF to \in Settling THEN "none" ELSE @,
                      !.done = IF Keeps(h, s, to) THEN @ ELSE 0]
Takes(h, s, to) == [h EXCEPT !.sess[s] = Taken(h, s, to)]

\* redispatchStop, at the end of the handler.
Reminded(trail, s, stopping) ==
    IF stopping THEN Append(trail, CallOff(Last(trail), s, "stop")) ELSE trail

\* A state report: then the engine forgets the turn a new one replaces, and
\* ticks; a worker that goes on although it was asked to stop is told again.
StateReport(h, s, e) ==
    LET begun == [h EXCEPT !.step[s].text =
                              @ /\ ~(e.type = "running" /\ Concerns(h, s))]
        moved == [Takes(begun, s, e.type) EXCEPT
                    !.memo[s] = IF e.type \in {"starting", "running"} THEN 0
                                ELSE @]
    IN  IF CanTransition(h.sess[s].st, e.type)
        THEN Reminded(Tick(moved, "nothing"), s, moved.sess[s].stop) ELSE <<h>>

\* The end of a prompted turn: the receipt, unless the turn was called off,
\* and what the engine remembers of it in any case.
TurnReport(h, s) ==
    Tick([h EXCEPT !.sess[s].done = IF h.sess[s].intent = "none"
                                    THEN h.sess[s].by ELSE @,
                   !.memo[s] = h.sess[s].by], "nothing")

\* failFromCommandResult.
Fatal(h, s) ==
    IF Live(h, s) THEN <<Takes([h EXCEPT !.sess[s].intent = "none"], s, "failed")>>
    ELSE <<h>>

\* The agent names its conversation before it reports itself ready.
Handle(h, s, e) ==
    LET known == [h EXCEPT !.sess[s].agent = @ \/ e.type \in {"running", "idle"}]
    IN  CASE e.type = "text" ->
               <<[h EXCEPT !.step[s].text = h.step[s].bound]>>
          [] e.type = "fatal" -> Fatal(h, s)
          [] e.type \notin {"text", "fatal"} /\ Stale(known, s, e) -> <<known>>
          [] e.type = "turn" /\ ~Stale(known, s, e) -> TurnReport(known, s)
          [] OTHER -> StateReport(known, s, e)

-----------------------------------------------------------------------------
(* The Host                                                                 *)

Becomes(h) ==
    /\ run' = h.run /\ step' = h.step /\ sess' = h.sess /\ memo' = h.memo
    /\ mail' = h.mail /\ link' = h.link /\ up' = h.up /\ down' = h.down

\* Results are not in the Node's journal.
Journal(events) ==
    LET kept[i \in 0..Len(events)] ==
          IF i = 0 THEN <<>>
          ELSE IF events[i].type = "fatal" THEN kept[i - 1]
          ELSE Append(kept[i - 1], events[i])
    IN  kept[Len(events)]

\* Sockets closed: markNodeSessionsOffline or resetConnectivity.  The Node has
\* received the commands for `kept`.
Severed(h, kept) ==
    /\ run' = h.run /\ step' = h.step /\ mail' = h.mail
    /\ sess' = [s \in Steps |-> IF Live(h, s)
                                THEN [h.sess[s] EXCEPT !.st = "offline"]
                                ELSE h.sess[s]]
    /\ link' = "down"
    /\ up' = [s \in Steps |-> Journal(h.up[s])]
    /\ down' = [s \in Steps |-> IF s \in kept THEN h.down[s] ELSE <<>>]

\* The Host dies in the state h: the memo is gone.
Dies(h) ==
    /\ breaks < MaxBreaks /\ breaks' = breaks + 1
    /\ \E kept \in SUBSET {s \in Steps : h.down[s] # <<>>} : Severed(h, kept)
    /\ memo' = [s \in Steps |-> 0]

\* A handler runs through, or the Host dies after one of its commits.
Commits(trail) ==
    \/ Becomes(Last(trail)) /\ UNCHANGED breaks
    \/ \E i \in 1..(Len(trail) - 1) : Dies(trail[i])

HostOnly == UNCHANGED <<led, acts>> /\ UNCHANGED nodeVars

Deadlines == {"nothing", "starting", "step", "idle", "lead"}

\* A worker has something to take or to say before it is where it will stay.
Astir(s) ==
    down[s] # <<>> \/ up[s] # <<>> \/ agent[s].proc \in {"booting", "turn"}

\* The deadlines that may have passed by now.
Passed(due) ==
    CASE due = "nothing" -> TRUE
      [] due = "starting" ->
           /\ Starting(Host) # {}
           /\ "late answer" \in Hazards \/ \A s \in Starting(Host) : ~Astir(s)
      [] due = "step" -> Starting(Host) \cup Running(Host) # {}
      [] due = "idle" -> \E s \in Steps : sess[s].st = "idle"
      [] due = "lead" -> led /\ run.owed

Ticks(due) == run.st \notin Closed /\ Passed(due)

Changes(trail) == Last(trail) # Host /\ Commits(trail)

\* The periodic tick.
Sweep(due) ==
    /\ HostOnly /\ Ticks(due)
    /\ Changes(Tick(Host, due))

Receives(s) == link # "down" /\ up[s] # <<>>

Receive(s) ==
    /\ HostOnly /\ Receives(s)
    /\ Commits(Handle([Host EXCEPT !.up[s] = Tail(@)], s, Head(up[s])))

\* Variant: the row is given the inventory's own word.
SettlementVerbatim(h, s) ==
    IF agent[s].proc = "turn" THEN "busy" ELSE "idle"

\* reconcileOfflineSessions: what the inventory makes of a row.
Settlement(h, s) ==
    CASE agent[s].proc = "none" /\ h.sess[s].stop -> "stopped"
      [] agent[s].proc = "none" /\ ~h.sess[s].stop -> "failed"
      [] agent[s].proc = "turn" -> "running"
      [] OTHER -> "idle"

\* The rows reconcile settles: those that are offline or being stopped.
Unsettled(h, steps) ==
    {s \in steps : /\ Live(h, s)
                   /\ \/ h.sess[s].st = "offline"
                      \/ /\ h.sess[s].stop /\ h.sess[s].st # "queued"
                         /\ agent[s].proc = "none"}

\* reconcile, of these sessions: a stop is repeated to a worker still there.
Reconciled(h, steps) ==
    LET found == Unsettled(h, steps)
        Now(s) == Taken(h, s, Settlement(h, s))
        Row(s) == IF Now(s).stop /\ Open(h) THEN CalledOff(Now(s), "stop")
                  ELSE Now(s)
    IN  [h EXCEPT !.sess = [s \in Steps |-> IF s \in found THEN Row(s) ELSE @[s]],
                  !.down = [s \in Steps |->
                              IF s \in found /\ Now(s).stop /\ Open(h)
                              THEN Append(@[s], Command("stop", 0)) ELSE @[s]]]

\* autoResume of the sessions this reconnect found missing.
Missing(h) ==
    {s \in Steps : /\ AutoResume /\ Live(Host, s)
                   /\ h.sess[s].st = "failed" /\ h.sess[s].agent}
Revived(h) ==
    LET Row(s) == [Receipt(h.sess[s], AttemptKey(h, s)) EXCEPT !.st = "starting"]
    IN  [h EXCEPT !.sess = [s \in Steps |-> IF s \in Missing(h) THEN Row(s)
                                            ELSE @[s]],
                  !.down = [s \in Steps |->
                              IF s \in Missing(h)
                              THEN Append(@[s], Command("resume", 0)) ELSE @[s]]]

Launching(s) ==
    \E i \in DOMAIN down[s] : down[s][i].type \in {"start", "resume"}

\* A Node is through with what it was sent before it is back.
Reconnect ==
    /\ link = "down" /\ link' = "syncing"
    /\ "late answer" \notin Hazards =>
         \A s \in Steps : down[s] # <<>> => agent[s].proc = "booting"
    /\ UNCHANGED <<led, run, step, sess, memo, mail, down, up, breaks, acts>>
    /\ UNCHANGED nodeVars

Replayed ==
    link = "syncing" /\ \A s \in Steps : up[s] = <<>> /\ ~Launching(s)

\* The Node's history is complete: a row it has no process for goes offline,
\* then all are reconciled and the run is looked at again.
Synchronized ==
    /\ HostOnly /\ Replayed
    /\ LET bare == [Host EXCEPT
                      !.link = "up",
                      !.sess = [s \in Steps |->
                                  IF Live(Host, s) /\ agent[s].proc = "none"
                                  THEN [@[s] EXCEPT !.st = "offline"] ELSE @[s]]]
           reconciled == Reconciled(bare, Steps)
       IN  Commits(<<reconciled>> \o Pass(Revived(reconciled), "nothing"))

Beats(s) ==
    /\ link = "up" /\ up[s] = <<>> /\ sess[s].stop
    /\ "stale beat" \in Hazards \/ ~Launching(s)
    /\ Reconciled(Host, {s}) # Host

\* A heartbeat's inventory, where it matters while the link is up: a session
\* asked to stop that the Node does not know of has stopped.
Beat(s) ==
    HostOnly /\ Beats(s) /\ Commits(<<Reconciled(Host, {s})>>)

Break ==
    /\ link # "down" /\ (link = "closing" \/ breaks < MaxBreaks)
    /\ breaks' = IF link = "closing" THEN breaks ELSE breaks + 1
    /\ \E kept \in SUBSET {s \in Steps : down[s] # <<>>} : Severed(Host, kept)
    /\ UNCHANGED <<led, memo, acts>> /\ UNCHANGED nodeVars

HostRestart == HostOnly /\ Dies(Host)

\* The workers' processes and the commands for them go; the journal stays.
NodeRestart ==
    /\ breaks < MaxBreaks /\ breaks' = breaks + 1
    /\ Severed(Host, {}) /\ agent' = [s \in Steps |-> NoAgent]
    /\ UNCHANGED <<led, memo, acts, asked, ended>>

HangsUp ==
    /\ "hang-up" \in Hazards /\ link \in {"up", "syncing"}
    /\ breaks < MaxBreaks /\ breaks' = breaks + 1
    /\ link' = "closing"
    /\ UNCHANGED <<led, run, step, sess, memo, mail, down, up, acts>>
    /\ UNCHANGED nodeVars

-----------------------------------------------------------------------------
(* The lead and the person                                                  *)

Does(trail) == HostOnly /\ Commits(trail)
Interferes(trail) ==
    /\ UNCHANGED <<led>> /\ UNCHANGED nodeVars
    /\ acts < MaxActs /\ acts' = acts + 1
    /\ Commits(trail)

Untold == run.st \notin Closed \cup {"awaiting_human"}
RunIs(st) == [Host EXCEPT !.run.st = st]

\* startWork: the step is recorded, then the engine takes it from there.
StartWork(s) ==
    /\ led /\ Untold /\ step[s].st = "none"
    /\ \A d \in DependsOn[s] : step[d].st # "none"
    /\ Does(Pass([Host EXCEPT !.step[s] = NewStep], "nothing"))

\* followUp: another attempt of a settled step, with the worker it had.
FollowUp(s) ==
    /\ led /\ Untold /\ step[s].bound /\ step[s].st \in Settled
    /\ step[s].try < MaxTries /\ ~sess[s].stop
    /\ Astir(s) => \/ "late answer" \in Hazards
                   \/ "early lead" \in Hazards /\ sess[s].st = "idle"
    /\ \/ sess[s].st = "idle"
       \/ sess[s].st \in Terminal \cup {"offline"} /\ sess[s].agent
    /\ Does(Pass([Host EXCEPT !.step[s] = [NewStep EXCEPT !.try = step[s].try + 1,
                                                          !.bound = TRUE]],
                  "nothing"))

\* submitTask: nothing may be unfinished.
Submit ==
    /\ led /\ Untold
    /\ \A s \in Steps : step[s].st \in Settled \cup {"none"}
    /\ \E s \in Steps : step[s].st # "none"
    /\ Does(<<RunIs("awaiting_human")>>)

\* The lead puts a decision to the person, whatever is going on.
Escalate ==
    /\ "escalate" \in Hazards /\ led /\ Untold
    /\ Interferes(<<RunIs("awaiting_human")>>)

\* POST /review, and POST /reopen: accepted, or back to work.
Accept ==
    /\ run.st = "awaiting_human"
    /\ Interferes(Tick(RunIs("completed"), "nothing"))

SendBack ==
    /\ led /\ run.st \in Closed \cup {"awaiting_human"}
    /\ Interferes(Tick(RunIs("running"), "nothing"))

\* archiveRun, and cancelling: the run and its steps in one commit, then a
\* stop for every worker.
Archive ==
    LET called == [RunIs("cancelled") EXCEPT
                     !.step = [s \in Steps |->
                                 IF step[s].st \in Settled \cup {"none"} THEN @[s]
                                 ELSE [@[s] EXCEPT !.st = "cancelled"]]]
    IN  Interferes(Walk([parked |-> Steps], "park",
                        <<IF run.st \in Closed THEN Host ELSE called>>))

\* POST /cancel of a worker's turn; a command that cannot leave fails the row.
PersonCancels(s) ==
    /\ sess[s].st = "running"
    /\ LET moved == [Host EXCEPT !.sess[s].st = "cancelling"]
       IN  Interferes(<<moved, IF Open(Host) THEN CallOff(moved, s, "cancel")
                               ELSE Takes(moved, s, "failed")>>)

PersonStops(s) ==
    /\ StopSession(Host, s) # <<>>
    /\ Interferes(StopSession(Host, s))

PersonWrites(s) ==
    /\ "message" \in Hazards /\ s \notin mail /\ Open(Host)
    /\ sess[s].st \in {"idle", "running", "starting"} /\ ~sess[s].stop
    /\ Interferes(<<Pumped([Host EXCEPT !.mail = @ \cup {s}], {s})>>)

-----------------------------------------------------------------------------
(* The Node: one process per worker; commands wait while it starts.         *)

\* A fatal refusal is a result: it is lost without a link.
Reports(s, types) ==
    LET sent == IF link = "down" /\ types = <<"fatal">> THEN <<>> ELSE types
    IN  /\ up' = [up EXCEPT ![s] = @ \o [i \in DOMAIN sent |->
                                      [type |-> sent[i], late |-> FALSE]]]
        /\ UNCHANGED hostVars /\ UNCHANGED <<breaks>>

Becoming(s, proc, job) ==
    agent' = [agent EXCEPT ![s] = [proc |-> proc, job |-> job, spoke |-> FALSE]]

\* A prompt is put to the agent: of an attempt, or somebody else's.
Asked(s, job) ==
    asked' = IF job \in 1..MaxTries THEN [asked EXCEPT ![s][job] = @ + 1]
             ELSE asked

Pops(s, types) ==
    /\ agent[s].proc # "booting"
    /\ down[s] # <<>> /\ Head(down[s]).type \in types
    /\ down' = [down EXCEPT ![s] = Tail(@)]
    /\ UNCHANGED <<ended, acts>>

TakeLaunch(s) ==
    /\ Pops(s, {"start", "resume"})
    /\ IF agent[s].proc = "none"
       THEN Becoming(s, "booting", Head(down[s]).job) /\ Reports(s, <<"starting">>)
       ELSE UNCHANGED agent /\ Reports(s, <<>>)
    /\ UNCHANGED asked

\* A busy agent restates where it is and refuses.
TakePrompt(s) ==
    /\ Pops(s, {"prompt"})
    /\ LET job == Head(down[s]).job
       IN  CASE agent[s].proc = "none" ->
                  Reports(s, <<"fatal">>) /\ UNCHANGED <<agent, asked>>
             [] agent[s].proc = "turn" ->
                  Reports(s, <<"running">>) /\ UNCHANGED <<agent, asked>>
             [] OTHER -> /\ Reports(s, <<"running">>) /\ Asked(s, job)
                         /\ Becoming(s, "turn", job)

Refusal == IF "refusal" \in Hazards THEN <<"fatal">> ELSE <<>>

\* Stopping a turn may look like its failure.
TakeStop(s) ==
    /\ Pops(s, {"stop"})
    /\ IF agent[s].proc = "none"
       THEN Reports(s, Refusal) /\ UNCHANGED agent
       ELSE /\ agent' = [agent EXCEPT ![s] = NoAgent]
            /\ \/ Reports(s, <<"stopped">>)
               \/ agent[s].proc = "turn" /\ Reports(s, <<"failed">>)
    /\ UNCHANGED asked

\* A prompted turn that is cancelled still ends by itself (TurnEnds).
TakeCancel(s) ==
    /\ Pops(s, {"cancel"})
    /\ IF agent[s].proc = "turn" /\ agent[s].job = 0
       THEN Becoming(s, "idle", 0) /\ Reports(s, <<"idle">>)
       ELSE /\ UNCHANGED agent
            /\ Reports(s, IF agent[s].proc = "none" THEN Refusal ELSE <<>>)
    /\ UNCHANGED asked

\* A new conversation begins with the turn it was launched for, one that is
\* loaded waits.
Boot(s) ==
    /\ agent[s].proc = "booting"
    /\ LET job == agent[s].job
       IN  /\ Becoming(s, IF job = 0 THEN "idle" ELSE "turn", job)
           /\ Reports(s, IF job = 0 THEN <<"idle">> ELSE <<"running">>)
           /\ Asked(s, job)
    /\ UNCHANGED <<down, ended, acts>>

Speak(s) ==
    /\ agent[s].proc = "turn" /\ ~agent[s].spoke
    /\ agent' = [agent EXCEPT ![s].spoke = TRUE]
    /\ Reports(s, <<"text">>)
    /\ UNCHANGED <<down, asked, ended, acts>>

TurnEnds(s) ==
    /\ agent[s].proc = "turn"
    /\ LET job == agent[s].job
       IN  /\ Reports(s, IF job = 0 THEN <<"idle">> ELSE <<"turn", "idle">>)
           /\ ended' = IF job \in 1..MaxTries THEN ended \cup {<<s, job>>}
                       ELSE ended
    /\ Becoming(s, "idle", 0)
    /\ UNCHANGED <<down, asked, acts>>

\* The process exits, its turn fails, or it never got going.
AgentDies(s) ==
    /\ agent[s].proc # "none"
    /\ agent' = [agent EXCEPT ![s] = NoAgent]
    /\ Reports(s, <<"failed">>)
    /\ UNCHANGED <<down, asked, ended, acts>>

OwnTurn(s) ==
    /\ "own turn" \in Hazards /\ agent[s].proc = "idle"
    /\ acts < MaxActs /\ acts' = acts + 1
    /\ Becoming(s, "turn", 0) /\ Reports(s, <<"running">>)
    /\ UNCHANGED <<down, asked, ended>>

-----------------------------------------------------------------------------

Plans ==
    \/ \E s \in Steps : StartWork(s) \/ FollowUp(s)
    \/ Submit \/ Escalate \/ Accept \/ SendBack \/ Archive
    \/ \E s \in Steps : PersonCancels(s) \/ PersonStops(s) \/ PersonWrites(s)

NodeTakes(s) == TakeLaunch(s) \/ TakePrompt(s) \/ TakeStop(s) \/ TakeCancel(s)

Next ==
    \/ \E due \in Deadlines : Sweep(due)
    \/ \E s \in Steps : Receive(s) \/ Beat(s)
    \/ Reconnect \/ Synchronized
    \/ Break \/ HostRestart \/ NodeRestart \/ HangsUp
    \/ Plans
    \/ \E s \in Steps : \/ NodeTakes(s) \/ Boot(s) \/ Speak(s) \/ TurnEnds(s)
                       \/ AgentDies(s) \/ OwnTurn(s)

Spec == Init /\ [][Next]_vars

\* The timers fire, frames are read, the Node reconnects, and an agent gets
\* through its turns; nobody has to intervene and nothing has to break.  Weak
\* fairness, with the condition for the action spelled out where it is long.
Sweeps(due) == Ticks(due) /\ Last(Tick(Host, due)) # Host
Works(s) == NodeTakes(s) \/ Boot(s) \/ TurnEnds(s)
Fairness ==
    /\ \/ []<>~(\E due \in Deadlines : Sweeps(due))
       \/ []<><<\E due \in Deadlines : Sweep(due)>>_vars
    /\ WF_vars(Reconnect) /\ WF_vars(link = "closing" /\ Break)
    /\ []<>~Replayed \/ []<><<Synchronized>>_vars
    /\ \A s \in Steps : /\ []<>~Receives(s) \/ []<><<Receive(s)>>_vars
                        /\ []<>~Beats(s) \/ []<><<Beat(s)>>_vars
                        /\ WF_vars(Works(s))

FairSpec == Spec /\ Fairness

-----------------------------------------------------------------------------
(* Properties                                                               *)

CommandTypes == {"start", "resume", "prompt", "stop", "cancel"}
EventTypes == States \cup {"text", "turn", "fatal"}

\* The shape of every part of the state.
TypeOK ==
    /\ led \in BOOLEAN
    /\ run \in [st : {"running", "awaiting_lead", "awaiting_human"} \cup Closed,
                owed : BOOLEAN]
    /\ step \in [Steps -> [st : Settled \cup InFlight \cup {"none", "pending"},
                           try : 0..MaxTries, bound : BOOLEAN,
                           sent : BOOLEAN, text : BOOLEAN]]
    /\ sess \in [Steps -> [st : States \cup {"none"}, agent : BOOLEAN,
                           stop : BOOLEAN, intent : {"none", "stop", "cancel"},
                           done : 0..Session, by : 0..Session]]
    /\ memo \in [Steps -> 0..Session] /\ mail \subseteq Steps
    /\ link \in {"up", "syncing", "closing", "down"}
    /\ down \in [Steps -> Seq([type : CommandTypes, job : 0..Session])]
    /\ up \in [Steps -> Seq([type : EventTypes, late : BOOLEAN])]
    /\ agent \in [Steps -> [proc : {"none", "booting", "idle", "turn"},
                            job : 0..Session, spoke : BOOLEAN]]
    /\ breaks \in 0..MaxBreaks /\ acts \in 0..MaxActs
    /\ asked \in [Steps -> [1..MaxTries -> Nat]]
    /\ ended \subseteq Steps \X (1..MaxTries)

Attempts == 1..MaxTries
WorksOn(s, t) == agent[s].proc = "turn" /\ agent[s].job = t

\* The planner settles a step as succeeded only if a turn of that very attempt
\* came to its end.
SucceededRan ==
    \A s \in Steps : step[s].st = "succeeded" => <<s, step[s].try>> \in ended

\* However startStep and promptStep are cut short, and whatever reconciliation
\* and the starting deadline make of it, no attempt's prompt is put to an agent
\* twice.
RunsOnce == \A s \in Steps, t \in Attempts : asked[s][t] <= 1

\* A prompt for an attempt is on its way, or an agent works on it, only when
\* the step has recorded that this attempt went out to this worker.
KnownWork ==
    \A s \in Steps, t \in Attempts :
      \/ WorksOn(s, t)
      \/ \E i \in DOMAIN down[s] : down[s][i].job = t
      => step[s].bound /\ (t < step[s].try \/ step[s].st # "pending")

\* Recording a dispatch and sending it are two commits with a crash between.
DispatchedOnce == RunsOnce /\ KnownWork

\* A follow-up of a worker that has not ended is taken to be running only once
\* its prompt reached the agent.
FollowUpAsked ==
    \A s \in Steps :
      /\ step[s].st = "running" /\ step[s].try > 1
      /\ sess[s].st \notin Terminal
      => asked[s][step[s].try] > 0

\* Neither the end of another attempt nor a refused follow-up is its success.
JudgedByItsTurn == SucceededRan /\ FollowUpAsked

\* The planner's checkout admission: only one worker process at a time has the
\* checkout.
OneWriter == Cardinality({s \in Steps : agent[s].proc # "none"}) <= 1

\* The planner dispatches in dependency order: no step is worked on before some
\* turn of each step it depends on ended.
DependenciesFirst ==
    \A s \in Steps, t \in Attempts :
      asked[s][t] > 0 => \A d \in DependsOn[s] : \E u \in Attempts : <<d, u>> \in ended

\* A run without a lead is completed with every step's work done, and failed
\* with nothing still being worked on as part of it.
FinishedRight ==
    ~led => /\ run.st = "completed" => \A s \in Steps : step[s].st = "succeeded"
            /\ run.st \in {"completed", "failed"} =>
                 \A s \in Steps : step[s].st \in Settled

\* The plan's order holds from the first dispatch to the outcome of the run.
PlanIsKept == DependenciesFirst /\ FinishedRight

\* A step that went out does not stay out: it is settled by its worker's
\* reports, an inventory or a deadline, or put back.
StepsSettle ==
    \A s \in Steps : step[s].st \in InFlight ~> step[s].st \notin InFlight

\* A plan without a lead is carried out, or found not to be possible.
PlanEnds == ~led ~> run.st \in Closed

\* Once its live workers have been asked to stop, a cancelled run is rid of
\* them, unless it is taken up again.
AllAsked == \A s \in Steps : sess[s].st \in Terminal \cup {"none"} \/ sess[s].stop
CancelledStops ==
    run.st = "cancelled" /\ AllAsked ~>
      run.st # "cancelled" \/ \A s \in Steps : agent[s].proc = "none"

\* A lead hears of every settlement, unless the run has closed or is a person's.
SettlementIsTold ==
    led /\ run.owed ~>
      ~run.owed \/ run.st \in Closed \cup {"awaiting_human"}

\* Neither a step nor a plan waits for ever on a worker, a worker on the end of
\* its run, or a lead on news of it.
WorkSettles == StepsSettle /\ PlanEnds /\ CancelledStops /\ SettlementIsTold

=============================================================================
