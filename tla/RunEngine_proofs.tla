--------------------------- MODULE RunEngine_proofs ----------------------------
(***************************************************************************)
(* Type correctness of RunEngine, that no attempt of a step is put to an   *)
(* agent twice or behind the step's back, and that a run without a lead    *)
(* ends as its steps did: for every acyclic plan, whatever may happen, and *)
(* any number of attempts, breaks, crashes and interventions.  And, if the *)
(* Host dispatches on what it has heard (OneAtATime), that one worker at a *)
(* time has the checkout.                                                  *)
(*                                                                         *)
(* A handler of the Host is a trail of commits, and the Host may die after *)
(* any of them.  So that an invariant need not be proved along every trail *)
(* of every handler, it is shown once (HandlerReaches) that all a handler  *)
(* does is begin somewhere (Begins: what it makes of the Host before the   *)
(* engine looks at the run) and then make moves, each a single commit with *)
(* what is known when it is made (Moves).  A set of Host states that has   *)
(* the beginnings and is closed under the moves has every state in which a *)
(* handler can end or die.  For the passes this rests on                   *)
(*   - what a plan says of the Host it was made of (PlanRight), and        *)
(*   - what is still true of that when the plan is carried out, phase by   *)
(*     phase and step by step in their order (Along).                      *)
(*                                                                         *)
(* DispatchedOnce is not inductive: that a prompt may go out needs to know *)
(* that the attempt is neither on its way nor has arrived, and that what   *)
(* is of it the step has on record (Accounted, GivenOnce).  That a         *)
(* completed run has succeeded at every step rests on why steps are        *)
(* skipped (RunsByPlan) and on a plan that does not depend on itself.  The *)
(* planner admits a worker when no other row is live, so the rows have to  *)
(* be right about the processes: Exclusive says what a row, its process,   *)
(* and the events and commands between them tell of each other.            *)
(***************************************************************************)
EXTENDS RunEngine, FiniteSetTheorems, SequenceTheorems, WellFoundedInduction,
        TLAPS

RunStates == {"running", "awaiting_lead", "awaiting_human"} \cup Closed
RunType == [st : RunStates, owed : BOOLEAN]
StepType ==
    [st : Settled \cup InFlight \cup {"none", "pending"}, try : 0..MaxTries,
     bound : BOOLEAN, sent : BOOLEAN, text : BOOLEAN]
RowType ==
    [st : States \cup {"none"}, agent : BOOLEAN, stop : BOOLEAN,
     intent : {"none", "stop", "cancel"}, done : 0..Session, by : 0..Session]
CommandType == [type : CommandTypes, job : 0..Session]
EventType == [type : EventTypes, late : BOOLEAN]
HostType ==
    [run : RunType, step : [Steps -> StepType], sess : [Steps -> RowType],
     memo : [Steps -> 0..Session], mail : SUBSET Steps,
     link : {"up", "syncing", "closing", "down"},
     up : [Steps -> Seq(EventType)], down : [Steps -> Seq(CommandType)]]

-----------------------------------------------------------------------------
(* Induction and sequences                                                 *)

LEMMA LeastExists ==
    ASSUME NEW S \in SUBSET Nat, S # {}
    PROVE  \E x \in S : \A y \in S : x <= y
<1>1. PICK x \in S : \A y \in S : ~(<<y, x>> \in OpToRel(<, Nat))
  BY WFMin, NatLessThanWellFounded
<1>2. \A y \in S : y < x => <<y, x>> \in OpToRel(<, Nat)
  BY DEF OpToRel
<1>3. \A y \in S : ~(y < x) /\ y \in Nat /\ x \in Nat
  BY <1>1, <1>2
<1> QED
  BY <1>3

\* A set of numbers that has 0 and what follows each of its members up to n.
LEMMA UpTo ==
    ASSUME NEW n \in Nat, NEW S, 0 \in S, \A i \in 1..n : i - 1 \in S => i \in S
    PROVE  0..n \subseteq S
<1> DEFINE Out == {i \in 0..n : i \notin S}
<1> SUFFICES ASSUME Out # {} PROVE FALSE
  OBVIOUS
<1>0. Out \in SUBSET Nat
  OBVIOUS
<1>1. PICK x \in Out : \A y \in Out : x <= y
  <2> HIDE DEF Out
  <2> QED
    BY <1>0, LeastExists
<1>2. x \in 1..n /\ x \notin S
  BY <1>1
<1>3. x - 1 \in 0..n /\ ~(x <= x - 1)
  BY <1>2
<1>4. x - 1 \in S
  BY <1>1, <1>3
<1> QED
  BY <1>2, <1>4

Builds(f, k, base, g) ==
    f[0] = base /\ \A i \in 1..k : f[i] = g[<<f[i - 1], i>>]

\* A function that gives every value from the one before exists.
LEMMA Recursion ==
    ASSUME NEW n \in Nat, NEW V, NEW base \in V, NEW g \in [V \X (1..n) -> V]
    PROVE  \E f \in [0..n -> V] : Builds(f, n, base, g)
<1> DEFINE S == {k \in 0..n : \E f \in [0..k -> V] : Builds(f, k, base, g)}
<1>1. 0 \in S
  <2> DEFINE f == [i \in 0..0 |-> base]
  <2>1. f \in [0..0 -> V] /\ f[0] = base /\ 1..0 = {} /\ 0 \in 0..n
    OBVIOUS
  <2> HIDE DEF f
  <2>2. Builds(f, 0, base, g)
    BY <2>1 DEF Builds
  <2> QED
    BY <2>1, <2>2
<1>2. ASSUME NEW k \in 1..n, k - 1 \in S PROVE k \in S
  <2>1. PICK f \in [0..(k - 1) -> V] : Builds(f, k - 1, base, g)
    BY <1>2
  <2> DEFINE next == [i \in 0..k |-> IF i = k THEN g[<<f[k - 1], k>>] ELSE f[i]]
  <2>2. f[k - 1] \in V /\ k \in 1..n /\ g[<<f[k - 1], k>>] \in V
    BY <2>1
  <2>3. next \in [0..k -> V] /\ next[0] = f[0]
    BY <2>1, <2>2
  <2>4. \A i \in 0..k : next[i] = IF i = k THEN g[<<f[k - 1], k>>] ELSE f[i]
    OBVIOUS
  <2> HIDE DEF next
  <2>5. ASSUME NEW i \in 1..k PROVE next[i] = g[<<next[i - 1], i>>]
    <3>1. i - 1 # k /\ i - 1 \in 0..k /\ i \in 0..k
      OBVIOUS
    <3>2. CASE i = k
      BY <2>4, <3>1, <3>2
    <3>3. CASE i # k
      <4>1. i \in 1..(k - 1)
        BY <3>3
      <4> QED
        BY <2>1, <2>4, <3>1, <3>3, <4>1 DEF Builds
    <3> QED
      BY <3>2, <3>3
  <2>6. Builds(next, k, base, g)
    BY <2>1, <2>3, <2>5 DEF Builds
  <2> QED
    BY <2>3, <2>6
<1>3. n \in S
  <2> HIDE DEF S
  <2>1. 0..n \subseteq S
    BY <1>1, <1>2, UpTo
  <2> QED
    BY <2>1
<1> QED
  BY <1>3

LEMMA OrderTyped ==
    ASSUME EngineAssumption
    PROVE  /\ Len(Order) \in Nat /\ DOMAIN Order = 1..Len(Order)
           /\ \A i \in 1..Len(Order) : Order[i] \in Steps
           /\ \A i, j \in 1..Len(Order) : Order[i] = Order[j] => i = j
           /\ \A s \in Steps : \E i \in 1..Len(Order) : Order[i] = s
BY DEF EngineAssumption, Steps, ToSet, IsInjective

LEMMA JoinedSeqs ==
    ASSUME NEW S, NEW a \in Seq(S), NEW b \in Seq(S)
    PROVE  /\ a \o b \in Seq(S) /\ Len(a \o b) = Len(a) + Len(b)
           /\ b = <<>> => a \o b = a
           /\ b # <<>> => a \o b # <<>> /\ Last(a \o b) = Last(b)
           /\ a # <<>> => a \o b # <<>>
<1>1. /\ a \o b \in Seq(S) /\ Len(a \o b) = Len(a) + Len(b)
      /\ Len(a) \in Nat /\ Len(b) \in Nat
      /\ \A i \in 1..(Len(a) + Len(b)) :
            (a \o b)[i] = IF i <= Len(a) THEN a[i] ELSE b[i - Len(a)]
  BY ConcatProperties
<1>2. b # <<>> => Len(b) > 0
  BY <1>1
<1>3. a # <<>> => Len(a) > 0
  BY <1>1
<1>4. ASSUME b # <<>> PROVE Last(a \o b) = Last(b)
  <2>1. /\ Len(a) + Len(b) \in 1..(Len(a) + Len(b)) /\ ~(Len(a) + Len(b) <= Len(a))
        /\ Len(a) + Len(b) - Len(a) = Len(b)
    BY <1>1, <1>2, <1>4
  <2> QED
    BY <1>1, <2>1 DEF Last
<1>5. b = <<>> => a \o b = a
  OBVIOUS
<1>6. (a # <<>> \/ b # <<>>) => a \o b # <<>>
  BY <1>1, <1>2, <1>3
<1> QED
  BY <1>1, <1>4, <1>5, <1>6

LEMMA LastOf ==
    ASSUME NEW S, NEW a \in Seq(S), a # <<>>
    PROVE  Last(a) \in S /\ Len(a) \in 1..Len(a)
BY DEF Last

-----------------------------------------------------------------------------
(* The types of what a handler makes of the Host                           *)

\* h with some parts of it replaced is a Host if the parts have their types.
LEMMA HostParts ==
    ASSUME NEW h \in HostType
    PROVE  /\ h.run \in RunType /\ h.step \in [Steps -> StepType]
           /\ h.sess \in [Steps -> RowType] /\ h.memo \in [Steps -> 0..Session]
           /\ h.mail \in SUBSET Steps /\ h.link \in {"up", "syncing", "closing", "down"}
           /\ h.up \in [Steps -> Seq(EventType)]
           /\ h.down \in [Steps -> Seq(CommandType)]
BY DEF HostType

LEMMA HostAt ==
    ASSUME NEW h \in HostType, NEW s \in Steps
    PROVE  /\ h.step[s] \in StepType /\ h.sess[s] \in RowType
           /\ h.memo[s] \in 0..Session
           /\ h.up[s] \in Seq(EventType) /\ h.down[s] \in Seq(CommandType)
BY HostParts

LEMMA StepSet ==
    ASSUME NEW h \in HostType, NEW s \in Steps, NEW r \in StepType
    PROVE  [h EXCEPT !.step[s] = r] \in HostType
BY DEF HostType

LEMMA RowSet ==
    ASSUME NEW h \in HostType, NEW s \in Steps, NEW r \in RowType
    PROVE  [h EXCEPT !.sess[s] = r] \in HostType
BY DEF HostType

LEMMA Numbers ==
    ASSUME EngineAssumption
    PROVE  /\ MaxTries \in Nat /\ Session \in Nat /\ 0 \in 0..Session /\ Session \in 0..Session
           /\ 0..MaxTries \subseteq 0..Session /\ 1 \in 0..MaxTries
           /\ Session \notin 1..MaxTries /\ 0 \notin 1..MaxTries
BY DEF EngineAssumption, Session

LEMMA ReceiptTyped ==
    ASSUME EngineAssumption, NEW row \in RowType
    PROVE  /\ \A by \in 0..Session : Receipt(row, by) \in RowType
           /\ \A type \in {"stop", "cancel"} : CalledOff(row, type) \in RowType
BY Numbers DEF RowType, Receipt, CalledOff

LEMMA SendTyped ==
    ASSUME EngineAssumption, NEW h \in HostType, NEW s \in Steps,
           NEW type \in CommandTypes, NEW job \in 0..Session
    PROVE  Send(h, s, type, job) \in HostType
<1>1. Command(type, job) \in CommandType
  BY DEF Command, CommandType
<1>2. Append(h.down[s], Command(type, job)) \in Seq(CommandType)
  BY <1>1, HostParts
<1> QED
  BY <1>2 DEF HostType, Send

LEMMA DispatchTyped ==
    ASSUME EngineAssumption, NEW h \in HostType, NEW s \in Steps,
           NEW by \in 0..Session, NEW type \in CommandTypes, NEW job \in 0..Session
    PROVE  Dispatch(h, s, by, type, job) \in HostType
<1>1. Receipt(h.sess[s], by) \in RowType
  BY ReceiptTyped, HostParts
<1>2. [h EXCEPT !.sess[s] = Receipt(@, by)] \in HostType
  BY <1>1, RowSet
<1> QED
  BY <1>2, SendTyped DEF Dispatch

LEMMA CallOffTyped ==
    ASSUME EngineAssumption, NEW h \in HostType, NEW s \in Steps,
           NEW type \in {"stop", "cancel"}
    PROVE  CallOff(h, s, type) \in HostType
<1>1. [h EXCEPT !.sess[s] = CalledOff(@, type)] \in HostType
  BY RowSet, ReceiptTyped, HostParts
<1> QED
  BY <1>1, SendTyped, Numbers DEF CallOff, CommandTypes

LEMMA StopSessionTyped ==
    ASSUME EngineAssumption, NEW h \in HostType, NEW s \in Steps
    PROVE  StopSession(h, s) \in Seq(HostType)
<1> DEFINE flagged == [h EXCEPT !.sess[s].stop = TRUE]
<1>1. flagged \in HostType
  <2>1. [h.sess[s] EXCEPT !.stop = TRUE] \in RowType
    <3>1. h.sess[s] \in RowType
      BY HostAt
    <3> QED
      BY <3>1 DEF RowType
  <2>2. flagged = [h EXCEPT !.sess[s] = [h.sess[s] EXCEPT !.stop = TRUE]]
    BY DEF HostType
  <2> QED
    BY <2>1, <2>2, RowSet
<1>2. CallOff(flagged, s, "stop") \in HostType
  BY <1>1, CallOffTyped
<1> QED
  BY <1>1, <1>2 DEF StopSession

LEMMA SettleTyped ==
    ASSUME EngineAssumption, NEW h \in HostType, NEW s \in Steps,
           NEW to \in {"succeeded", "failed"}
    PROVE  Settle(h, s, to) \in Seq(HostType)
<1> DEFINE settled == [h EXCEPT !.step[s].st = to, !.run.owed = TRUE,
                         !.run.st = IF led /\ @ = "running" THEN "awaiting_lead"
                                    ELSE @,
                         !.sess[s].done = 0, !.memo[s] = 0]
<1>1. settled \in HostType
  <2>1. /\ h.step[s] \in StepType /\ h.sess[s] \in RowType /\ h.run \in RunType
        /\ 0 \in 0..Session
    BY HostAt, HostParts, Numbers
  <2>2. [h.step[s] EXCEPT !.st = to] \in StepType
    BY <2>1 DEF StepType, Settled
  <2>3. [h.sess[s] EXCEPT !.done = 0] \in RowType
    BY <2>1 DEF RowType
  <2> DEFINE now == IF led /\ h.run.st = "running" THEN "awaiting_lead" ELSE h.run.st
  <2>4. [h.run EXCEPT !.owed = TRUE, !.st = now] \in RunType
    BY <2>1 DEF RunType, RunStates
  <2>5. settled = [h EXCEPT !.step[s] = [h.step[s] EXCEPT !.st = to],
                            !.run = [h.run EXCEPT !.owed = TRUE, !.st = now],
                            !.sess[s] = [h.sess[s] EXCEPT !.done = 0],
                            !.memo[s] = 0]
    BY DEF HostType, RunType
  <2> HIDE DEF settled, now
  <2> QED
    BY <2>1, <2>2, <2>3, <2>4, <2>5 DEF HostType
<1> QED
  BY <1>1 DEF Settle

LEMMA GoesOnTyped ==
    ASSUME NEW h \in HostType, NEW snap
    PROVE  GoesOn(h, snap) \in Seq(HostType)
<1>1. [h EXCEPT !.run.st = "running"] \in HostType
  BY DEF HostType, RunType, RunStates
<1> QED
  BY <1>1 DEF GoesOn

LEMMA OlderTyped ==
    ASSUME NEW events \in Seq(EventType)
    PROVE  /\ Older(events) \in Seq(EventType) /\ Len(Older(events)) = Len(events)
           /\ \A i \in 1..Len(events) :
                 Older(events)[i] = [events[i] EXCEPT !.late = TRUE]
<1>1. /\ Len(events) \in Nat /\ DOMAIN events = 1..Len(events)
      /\ \A i \in 1..Len(events) : events[i] \in EventType
  OBVIOUS
<1>2. \A e \in EventType : [e EXCEPT !.late = TRUE] \in EventType
  BY DEF EventType
<1>3. Older(events) \in [1..Len(events) -> EventType]
  BY <1>1, <1>2 DEF Older
<1>4. \A i \in 1..Len(events) : Older(events)[i] = [events[i] EXCEPT !.late = TRUE]
  BY <1>1 DEF Older
<1> QED
  BY <1>1, <1>3, <1>4

LEMMA StampedTyped ==
    ASSUME NEW h \in HostType, NEW s \in Steps
    PROVE  /\ Stamped(h, s) \in HostType
           /\ Stamped(h, s) = [h EXCEPT !.step[s] = [h.step[s] EXCEPT !.sent = TRUE],
                                        !.up[s] = Older(h.up[s])]
<1>1. Older(h.up[s]) \in Seq(EventType)
  BY OlderTyped, HostAt
<1>2. [h.step[s] EXCEPT !.sent = TRUE] \in StepType
  <2>1. h.step[s] \in StepType
    BY HostAt
  <2> QED
    BY <2>1 DEF StepType
<1>3. Stamped(h, s) = [h EXCEPT !.step[s] = [h.step[s] EXCEPT !.sent = TRUE],
                                !.up[s] = Older(h.up[s])]
  BY DEF HostType, Stamped
<1> DEFINE row == [h.step[s] EXCEPT !.sent = TRUE]
           late == Older(h.up[s])
<1> HIDE DEF row, late
<1>4. [h EXCEPT !.step[s] = row, !.up[s] = late] \in HostType
  BY <1>1, <1>2 DEF HostType, row, late
<1> QED
  BY <1>3, <1>4 DEF row, late

\* The commits of startStep.
StartMarked(h, s) == [Stamped(h, s) EXCEPT !.step[s].st = "starting"]
StartBound(h, s) ==
    [StartMarked(h, s) EXCEPT !.step[s] = [@ EXCEPT !.bound = TRUE, !.text = FALSE],
                              !.sess[s].st = "queued"]
StartLeft(h, s) ==
    Dispatch(StartBound(h, s), s, h.step[s].try, "start", h.step[s].try)
StartFallen(h, s) == [StartBound(h, s) EXCEPT !.sess[s].st = "failed"]
StartBack(h, s) ==
    [StartFallen(h, s) EXCEPT !.step[s] = [@ EXCEPT !.st = "pending", !.sent = FALSE,
                                                    !.bound = FALSE],
                              !.sess[s] = NoRow]

LEMMA StartStepTyped ==
    ASSUME EngineAssumption, NEW h \in HostType, NEW s \in Steps, NEW snap
    PROVE  /\ StartStep(h, s, snap) \in Seq(HostType) \ {<<>>}
           /\ StartStep(h, s, snap) =
                IF Open(h) THEN <<StartMarked(h, s), StartBound(h, s), StartLeft(h, s)>>
                                  \o GoesOn(StartLeft(h, s), snap)
                ELSE <<StartMarked(h, s), StartBound(h, s), StartFallen(h, s),
                       StartBack(h, s)>>
           /\ StartMarked(h, s) \in HostType /\ StartBound(h, s) \in HostType
           /\ StartLeft(h, s) \in HostType
           /\ StartFallen(h, s) \in HostType /\ StartBack(h, s) \in HostType
<1> DEFINE marked == StartMarked(h, s)
           bound == StartBound(h, s)
           left == StartLeft(h, s)
           fallen == StartFallen(h, s)
           back == StartBack(h, s)
<1>1. marked \in HostType
  <2> DEFINE x == Stamped(h, s)
  <2>1. x \in HostType
    BY StampedTyped
  <2>2. marked = [x EXCEPT !.step[s] = [x.step[s] EXCEPT !.st = "starting"]]
    BY <2>1 DEF HostType, StartMarked
  <2> HIDE DEF x, marked
  <2>3. x.step[s] \in StepType
    BY <2>1, HostAt
  <2>4. [x.step[s] EXCEPT !.st = "starting"] \in StepType
    BY <2>3 DEF StepType, InFlight
  <2> QED
    BY <2>1, <2>2, <2>4, StepSet
<1>2. bound \in HostType
  <2>1. bound = [marked EXCEPT !.step[s] = [marked.step[s] EXCEPT !.bound = TRUE,
                                                                !.text = FALSE],
                               !.sess[s] = [marked.sess[s] EXCEPT !.st = "queued"]]
    BY <1>1 DEF HostType, StartBound
  <2> HIDE DEF marked, bound
  <2>2. marked.step[s] \in StepType /\ marked.sess[s] \in RowType
    BY <1>1, HostAt
  <2>3. [marked.step[s] EXCEPT !.bound = TRUE, !.text = FALSE] \in StepType
    BY <2>2 DEF StepType
  <2>4. [marked.sess[s] EXCEPT !.st = "queued"] \in RowType
    BY <2>2 DEF RowType, States
  <2> QED
    BY <1>1, <2>1, <2>3, <2>4 DEF HostType
<1>3. h.step[s].try \in 0..Session
  BY HostParts, Numbers DEF StepType
<1>4. left \in HostType
  <2> HIDE DEF bound
  <2> QED
    BY <1>2, <1>3, DispatchTyped DEF CommandTypes, bound, StartLeft
<1>5. fallen \in HostType
  <2>1. fallen = [bound EXCEPT !.sess[s] = [bound.sess[s] EXCEPT !.st = "failed"]]
    BY <1>2 DEF HostType, StartFallen
  <2> HIDE DEF bound, fallen
  <2>2. bound.sess[s] \in RowType
    BY <1>2, HostAt
  <2>3. [bound.sess[s] EXCEPT !.st = "failed"] \in RowType
    BY <2>2 DEF RowType, States, Terminal
  <2> QED
    BY <1>2, <2>1, <2>3, RowSet
<1>6. back \in HostType
  <2>1. NoRow \in RowType
    BY Numbers DEF NoRow, RowType
  <2>2. back = [fallen EXCEPT !.step[s] = [fallen.step[s] EXCEPT !.st = "pending",
                                             !.sent = FALSE, !.bound = FALSE],
                              !.sess[s] = NoRow]
    BY <1>5 DEF HostType, StartBack
  <2> HIDE DEF fallen, back
  <2>3. fallen.step[s] \in StepType
    BY <1>5, HostAt
  <2>4. [fallen.step[s] EXCEPT !.st = "pending", !.sent = FALSE, !.bound = FALSE]
          \in StepType
    BY <2>3 DEF StepType
  <2> QED
    BY <1>5, <2>1, <2>2, <2>4 DEF HostType
<1>7. StartStep(h, s, snap) = IF Open(h) THEN <<marked, bound, left>> \o GoesOn(left, snap)
                              ELSE <<marked, bound, fallen, back>>
  BY DEF StartStep, StartMarked, StartBound, StartLeft, StartFallen, StartBack
<1> HIDE DEF marked, bound, left, fallen, back
<1>8. <<marked, bound, left>> \in Seq(HostType) /\ <<marked, bound, left>> # <<>>
      /\ <<marked, bound, fallen, back>> \in Seq(HostType)
      /\ <<marked, bound, fallen, back>> # <<>>
  BY <1>1, <1>2, <1>4, <1>5, <1>6
<1>9. GoesOn(left, snap) \in Seq(HostType)
  BY <1>4, GoesOnTyped
<1>10. StartStep(h, s, snap) \in Seq(HostType) /\ StartStep(h, s, snap) # <<>>
  BY <1>7, <1>8, <1>9, JoinedSeqs
<1> QED
  BY <1>1, <1>2, <1>4, <1>5, <1>6, <1>7, <1>10 DEF marked, bound, left, fallen, back

\* The commits of resumeStep.
ResumeMarked(h, s) == [Stamped(h, s) EXCEPT !.memo[s] = 0]
ResumeRow(h, s) == [ResumeMarked(h, s) EXCEPT !.sess[s].st = "starting"]
ResumeLeft(h, s) ==
    Dispatch(ResumeRow(h, s), s, AttemptKey(ResumeRow(h, s), s), "resume", 0)
ResumeFallen(h, s) ==
    [ResumeRow(h, s) EXCEPT !.sess[s] = [@ EXCEPT !.st = "failed", !.done = 0]]
ResumeUnsent(h, s) == [ResumeFallen(h, s) EXCEPT !.step[s].sent = FALSE]

LEMMA ResumeStepTyped ==
    ASSUME EngineAssumption, NEW h \in HostType, NEW s \in Steps
    PROVE  /\ ResumeStep(h, s) \in Seq(HostType) \ {<<>>}
           /\ ResumeStep(h, s) =
                IF Open(h) THEN <<ResumeMarked(h, s), ResumeRow(h, s), ResumeLeft(h, s)>>
                ELSE <<ResumeMarked(h, s), ResumeRow(h, s), ResumeFallen(h, s)>>
                       \o Settle(ResumeUnsent(h, s), s, "failed")
           /\ ResumeMarked(h, s) \in HostType /\ ResumeRow(h, s) \in HostType
           /\ ResumeLeft(h, s) \in HostType
           /\ ResumeFallen(h, s) \in HostType /\ ResumeUnsent(h, s) \in HostType
<1> DEFINE marked == ResumeMarked(h, s)
           row == ResumeRow(h, s)
           fallen == ResumeFallen(h, s)
           unsent == ResumeUnsent(h, s)
           key == AttemptKey(row, s)
           gone == ResumeLeft(h, s)
<1>1. marked \in HostType
  <2>1. Stamped(h, s) \in HostType /\ 0 \in 0..Session
    BY StampedTyped, Numbers
  <2> QED
    BY <2>1 DEF HostType, ResumeMarked
<1>2. row \in HostType
  <2>1. row = [marked EXCEPT !.sess[s] = [marked.sess[s] EXCEPT !.st = "starting"]]
    BY <1>1 DEF HostType, ResumeRow
  <2> HIDE DEF marked, row
  <2>2. marked.sess[s] \in RowType
    BY <1>1, HostAt
  <2>3. [marked.sess[s] EXCEPT !.st = "starting"] \in RowType
    BY <2>2 DEF RowType, States
  <2> QED
    BY <1>1, <2>1, <2>3, RowSet
<1>3. key \in 0..Session
  <2> HIDE DEF row
  <2>1. row.step[s] \in StepType
    BY <1>2, HostAt
  <2> QED
    BY <2>1, Numbers DEF StepType, AttemptKey
<1>4. gone \in HostType
  <2> HIDE DEF row, key
  <2> QED
    BY <1>2, <1>3, DispatchTyped, Numbers DEF CommandTypes, row, key, ResumeLeft
<1>5. fallen \in HostType
  <2> HIDE DEF row
  <2>1. row.sess[s] \in RowType /\ 0 \in 0..Session
    BY <1>2, HostAt, Numbers
  <2>2. [row.sess[s] EXCEPT !.st = "failed", !.done = 0] \in RowType
    BY <2>1 DEF RowType, States, Terminal
  <2> QED
    BY <1>2, <2>2, RowSet DEF row, ResumeFallen
<1>6. unsent \in HostType
  <2>1. unsent = [fallen EXCEPT !.step[s] = [fallen.step[s] EXCEPT !.sent = FALSE]]
    BY <1>5 DEF HostType, ResumeUnsent
  <2> HIDE DEF fallen, unsent
  <2>2. fallen.step[s] \in StepType
    BY <1>5, HostAt
  <2>3. [fallen.step[s] EXCEPT !.sent = FALSE] \in StepType
    BY <2>2 DEF StepType
  <2> QED
    BY <1>5, <2>1, <2>3, StepSet
<1>7. ResumeStep(h, s) = IF Open(h) THEN <<marked, row, gone>>
                         ELSE <<marked, row, fallen>> \o Settle(unsent, s, "failed")
  BY DEF ResumeStep, ResumeMarked, ResumeRow, ResumeLeft, ResumeFallen, ResumeUnsent
<1> HIDE DEF marked, row, fallen, unsent, key, gone
<1>8. /\ <<marked, row, gone>> \in Seq(HostType) /\ <<marked, row, gone>> # <<>>
      /\ <<marked, row, fallen>> \in Seq(HostType) /\ <<marked, row, fallen>> # <<>>
  BY <1>1, <1>2, <1>4, <1>5
<1>9. Settle(unsent, s, "failed") \in Seq(HostType)
  BY <1>6, SettleTyped
<1>10. ResumeStep(h, s) \in Seq(HostType) /\ ResumeStep(h, s) # <<>>
  BY <1>7, <1>8, <1>9, JoinedSeqs
<1> QED
  BY <1>1, <1>2, <1>4, <1>5, <1>6, <1>7, <1>10 DEF marked, row, gone, fallen, unsent

\* The commits of promptStep.
PromptMarked(h, s) ==
    [Stamped(h, s) EXCEPT !.step[s] = [@ EXCEPT !.st = "starting", !.text = FALSE],
                          !.memo[s] = 0]
PromptLeft(h, s) ==
    Dispatch(PromptMarked(h, s), s, h.step[s].try, "prompt", h.step[s].try)
PromptBack(h, s) ==
    [PromptMarked(h, s) EXCEPT !.step[s] = [@ EXCEPT !.st = "pending", !.sent = FALSE]]

LEMMA PromptStepTyped ==
    ASSUME EngineAssumption, NEW h \in HostType, NEW s \in Steps, NEW snap
    PROVE  /\ PromptStep(h, s, snap) \in Seq(HostType) \ {<<>>}
           /\ PromptStep(h, s, snap) =
                IF Open(h) THEN <<PromptMarked(h, s), PromptLeft(h, s)>>
                                  \o GoesOn(PromptLeft(h, s), snap)
                ELSE <<PromptMarked(h, s), PromptBack(h, s)>>
           /\ PromptMarked(h, s) \in HostType /\ PromptLeft(h, s) \in HostType
           /\ PromptBack(h, s) \in HostType
<1> DEFINE stamped == Stamped(h, s)
           marked == PromptMarked(h, s)
           left == PromptLeft(h, s)
           back == PromptBack(h, s)
<1>1. marked \in HostType
  <2>1. stamped \in HostType /\ 0 \in 0..Session
    BY StampedTyped, Numbers
  <2> HIDE DEF stamped
  <2>2. stamped.step[s] \in StepType
    BY <2>1, HostAt
  <2>3. [stamped.step[s] EXCEPT !.st = "starting", !.text = FALSE] \in StepType
    BY <2>2 DEF StepType, InFlight
  <2> QED
    BY <2>1, <2>3 DEF HostType, stamped, PromptMarked
<1>2. h.step[s].try \in 0..Session
  <2>1. h.step[s] \in StepType
    BY HostAt
  <2> QED
    BY <2>1, Numbers DEF StepType
<1>3. PromptStep(h, s, snap) = IF Open(h) THEN <<marked, left>> \o GoesOn(left, snap)
                               ELSE <<marked, back>>
  BY DEF PromptStep, PromptMarked, PromptLeft, PromptBack
<1>4. left \in HostType
  <2> HIDE DEF marked
  <2> QED
    BY <1>1, <1>2, DispatchTyped DEF CommandTypes, marked, PromptLeft
<1>5. back \in HostType
  <2> HIDE DEF marked
  <2>1. marked.step[s] \in StepType
    BY <1>1, HostAt
  <2>2. [marked.step[s] EXCEPT !.st = "pending", !.sent = FALSE] \in StepType
    BY <2>1 DEF StepType
  <2> QED
    BY <1>1, <2>2, StepSet DEF marked, PromptBack
<1> HIDE DEF stamped, marked, left, back
<1>6. /\ <<marked, left>> \in Seq(HostType) /\ <<marked, left>> # <<>>
      /\ <<marked, back>> \in Seq(HostType) /\ <<marked, back>> # <<>>
  BY <1>1, <1>4, <1>5
<1>7. GoesOn(left, snap) \in Seq(HostType)
  BY <1>4, GoesOnTyped
<1>8. PromptStep(h, s, snap) \in Seq(HostType) /\ PromptStep(h, s, snap) # <<>>
  BY <1>3, <1>6, <1>7, JoinedSeqs
<1> QED
  BY <1>1, <1>3, <1>4, <1>5, <1>8 DEF marked, left, back

-----------------------------------------------------------------------------
(* A phase of a plan                                                       *)

Phases == {"judge", "skip", "park", "go"}

LEMMA SetStTyped ==
    ASSUME NEW h \in HostType, NEW s \in Steps,
           NEW st \in Settled \cup InFlight \cup {"none", "pending"}
    PROVE  [h EXCEPT !.step[s].st = st] \in HostType
<1>1. [h EXCEPT !.step[s].st = st] = [h EXCEPT !.step[s] = [h.step[s] EXCEPT !.st = st]]
  BY DEF HostType
<1>2. h.step[s] \in StepType
  BY HostAt
<1>3. [h.step[s] EXCEPT !.st = st] \in StepType
  BY <1>2 DEF StepType
<1> QED
  BY <1>1, <1>3, StepSet

LEMMA JudgeTyped ==
    ASSUME EngineAssumption, NEW h \in HostType, NEW p, NEW s \in Steps
    PROVE  Judge(h, p, s) \in Seq(HostType)
<1> DEFINE advanced == [h EXCEPT !.step[s].st = "running"]
           went == IF s \in p.advances THEN <<advanced>> ELSE <<>>
           at == IF s \in p.advances THEN went[1] ELSE h
<1>1. advanced \in HostType
  BY SetStTyped DEF InFlight
<1>2. went \in Seq(HostType) /\ at \in HostType
  <2> HIDE DEF advanced
  <2> QED
    BY <1>1
<1>3. Judge(h, p, s) = CASE s \in p.won -> went \o Settle(at, s, "succeeded")
                         [] s \in p.lost -> went \o Settle(at, s, "failed")
                         [] s \in p.late -> went \o StopSession(at, s)
                         [] OTHER -> went
  BY DEF Judge
<1> HIDE DEF went, at
<1>4. /\ Settle(at, s, "succeeded") \in Seq(HostType)
      /\ Settle(at, s, "failed") \in Seq(HostType)
      /\ StopSession(at, s) \in Seq(HostType)
  BY <1>2, SettleTyped, StopSessionTyped
<1>5. /\ went \o Settle(at, s, "succeeded") \in Seq(HostType)
      /\ went \o Settle(at, s, "failed") \in Seq(HostType)
      /\ went \o StopSession(at, s) \in Seq(HostType)
  BY <1>2, <1>4, ConcatProperties
<1> QED
  BY <1>2, <1>3, <1>5

LEMMA GoTyped ==
    ASSUME EngineAssumption, NEW h \in HostType, NEW p, NEW s \in Steps
    PROVE  Go(h, p, s) \in Seq(HostType)
<1>1. Settle(h, s, "failed") \in Seq(HostType) /\ <<>> \in Seq(HostType)
  BY SettleTyped
<1>2. StartStep(h, s, p.snap) \in Seq(HostType)
  BY StartStepTyped
<1>3. PromptStep(h, s, p.snap) \in Seq(HostType)
  BY PromptStepTyped
<1>4. ResumeStep(h, s) \in Seq(HostType)
  BY ResumeStepTyped
<1> QED
  BY <1>1, <1>2, <1>3, <1>4 DEF Go

LEMMA ExecuteTyped ==
    ASSUME EngineAssumption, NEW h \in HostType, NEW p, NEW phase \in Phases,
           NEW s \in Steps
    PROVE  Execute(h, p, phase, s) \in Seq(HostType)
<1>1. Judge(h, p, s) \in Seq(HostType) /\ Go(h, p, s) \in Seq(HostType)
  BY JudgeTyped, GoTyped
<1>2. Skip(h, p, s) \in Seq(HostType)
  <2>1. [h EXCEPT !.step[s].st = "skipped"] \in HostType
    BY SetStTyped DEF Settled
  <2> QED
    BY <2>1 DEF Skip
<1>3. Park(h, p, s) \in Seq(HostType)
  BY StopSessionTyped DEF Park
<1> QED
  BY <1>1, <1>2, <1>3 DEF Execute, Phases

Trails == Seq(HostType) \ {<<>>}

\* The trail of a phase exists, each part of it after the one before.
LEMMA WalkExists ==
    ASSUME EngineAssumption, NEW p, NEW phase \in Phases, NEW trail \in Trails
    PROVE  \E f \in [0..Len(Order) -> Trails] :
              /\ f[0] = trail /\ Walk(p, phase, trail) = f[Len(Order)]
              /\ \A i \in 1..Len(Order) :
                    f[i] = f[i - 1] \o Execute(Last(f[i - 1]), p, phase, Order[i])
<1> DEFINE n == Len(Order)
           After(t, i) == t \o Execute(Last(t), p, phase, Order[i])
           g == [x \in Trails \X (1..n) |-> After(x[1], x[2])]
           Is(f) == f = [i \in 0..n |-> IF i = 0 THEN trail ELSE After(f[i - 1], i)]
<1>1. n \in Nat /\ \A i \in 1..n : Order[i] \in Steps
  BY OrderTyped
<1>2. ASSUME NEW t \in Trails, NEW i \in 1..n PROVE After(t, i) \in Trails
  <2>1. Last(t) \in HostType
    BY LastOf DEF Trails
  <2>2. Execute(Last(t), p, phase, Order[i]) \in Seq(HostType)
    BY <1>1, <2>1, ExecuteTyped
  <2> QED
    BY <2>2, JoinedSeqs DEF Trails
<1>3. g \in [Trails \X (1..n) -> Trails]
  <2> HIDE DEF After
  <2> QED
    BY <1>2
<1>4. PICK f \in [0..n -> Trails] : Builds(f, n, trail, g)
  <2>1. n \in Nat
    BY <1>1
  <2> HIDE DEF n, g
  <2> QED
    BY <1>3, <2>1, Recursion
<1>5. \A i \in 0..n : f[i] = IF i = 0 THEN trail ELSE After(f[i - 1], i)
  <2> TAKE i \in 0..n
  <2>1. CASE i = 0
    BY <1>4, <2>1 DEF Builds
  <2>2. CASE i # 0
    <3>1. i - 1 \in 0..n /\ i \in 1..n
      BY <1>1, <2>2
    <3>2. f[i] = g[<<f[i - 1], i>>] /\ <<f[i - 1], i>> \in Trails \X (1..n)
      <4> HIDE DEF g
      <4> QED
        BY <1>4, <2>2, <3>1 DEF Builds
    <3> HIDE DEF After
    <3> QED
      BY <2>2, <3>2
  <2> QED
    BY <2>1, <2>2
<1>6. Is(f)
  <2> HIDE DEF After
  <2> QED
    BY <1>5, <1>4
<1> DEFINE past == CHOOSE x : Is(x)
<1>7. Is(past)
  BY <1>6
<1>8. Walk(p, phase, trail) = past[n]
  BY DEF Walk
<1>9. /\ past[0] = trail
      /\ \A i \in 1..n : past[i] = After(past[i - 1], i)
  <2>1. \A i \in 0..n : past[i] = IF i = 0 THEN trail ELSE After(past[i - 1], i)
    <3> HIDE DEF past, After
    <3> QED
      BY <1>7
  <2>2. 0 \in 0..n /\ \A i \in 1..n : i \in 0..n /\ i # 0
    BY <1>1
  <2> HIDE DEF past, After
  <2> QED
    BY <2>1, <2>2
<1>10. past \in [0..n -> Trails]
  <2> DEFINE S == {i \in 0..n : past[i] \in Trails}
  <2>1. 0 \in S
    <3> HIDE DEF past
    <3> QED
      BY <1>1, <1>9
  <2>2. ASSUME NEW i \in 1..n, i - 1 \in S PROVE i \in S
    <3> HIDE DEF past, After
    <3>1. past[i] \in Trails
      BY <1>2, <1>9, <2>2
    <3> QED
      BY <1>1, <3>1
  <2> HIDE DEF S
  <2>3. 0..n \subseteq S
    BY <1>1, <2>1, <2>2, UpTo
  <2>4. \A i \in 0..n : past[i] \in Trails
    BY <2>3 DEF S
  <2> HIDE DEF past, After
  <2>5. past = [i \in 0..n |-> past[i]]
    BY <1>7
  <2> QED
    BY <2>4, <2>5
<1> HIDE DEF past
<1> QED
  BY <1>8, <1>9, <1>10

Stays(p, phase, K, At) ==
    \A i \in 1..Len(Order) : \A h \in At[i - 1] :
       LET does == Execute(h, p, phase, Order[i])
       IN  /\ does \in Seq(K)
           /\ (does = <<>> => h \in At[i]) /\ (does # <<>> => Last(does) \in At[i])

\* Along a phase the Host stays in K, and what At says of it after each step of
\* the plan holds after that step.
LEMMA WalkKeeps ==
    ASSUME EngineAssumption, NEW p, NEW phase \in Phases, NEW K \in SUBSET HostType,
           NEW At \in [0..Len(Order) -> SUBSET K],
           NEW trail \in Seq(K), trail # <<>>, Last(trail) \in At[0],
           Stays(p, phase, K, At)
    PROVE  /\ Walk(p, phase, trail) \in Seq(K) /\ Walk(p, phase, trail) # <<>>
           /\ Last(Walk(p, phase, trail)) \in At[Len(Order)]
<1> DEFINE n == Len(Order)
<1>1. n \in Nat
  BY OrderTyped
<1>2. trail \in Trails
  BY DEF Trails
<1>3. PICK f \in [0..n -> Trails] :
         /\ f[0] = trail /\ Walk(p, phase, trail) = f[n]
         /\ \A i \in 1..n :
               f[i] = f[i - 1] \o Execute(Last(f[i - 1]), p, phase, Order[i])
  BY <1>2, WalkExists
<1> DEFINE S == {i \in 0..n : f[i] \in Seq(K) /\ f[i] # <<>> /\ Last(f[i]) \in At[i]}
<1>4. 0 \in S
  BY <1>1, <1>3
<1>5. ASSUME NEW i \in 1..n, i - 1 \in S PROVE i \in S
  <2> DEFINE t == f[i - 1]
             h == Last(t)
             e == Execute(h, p, phase, Order[i])
  <2>1. t \in Seq(K) /\ t # <<>> /\ h \in At[i - 1] /\ i \in 0..n
    BY <1>1, <1>5
  <2>5. f[i] = t \o e
    BY <1>3
  <2>2. e \in Seq(K) /\ (e = <<>> => h \in At[i]) /\ (e # <<>> => Last(e) \in At[i])
    BY <2>1 DEF Stays
  <2> HIDE DEF t, h, e
  <2>3. /\ t \o e \in Seq(K) /\ t \o e # <<>> /\ (e = <<>> => t \o e = t)
        /\ (e # <<>> => Last(t \o e) = Last(e))
    <3>1. t \in Seq(K) /\ e \in Seq(K) /\ t # <<>>
      BY <2>1, <2>2
    <3>2. t \o e \in Seq(K) /\ t \o e # <<>>
      BY <3>1, JoinedSeqs
    <3>3. e = <<>> => t \o e = t
      BY <3>1, JoinedSeqs
    <3>4. e # <<>> => Last(t \o e) = Last(e)
      BY <3>1, JoinedSeqs
    <3> QED
      BY <3>2, <3>3, <3>4
  <2>4. Last(t \o e) \in At[i]
    BY <2>2, <2>3 DEF h
  <2> QED
    BY <2>1, <2>3, <2>4, <2>5
<1> HIDE DEF S
<1>6. n \in S
  <2>1. 0..n \subseteq S
    BY <1>1, <1>4, <1>5, UpTo
  <2> QED
    BY <1>1, <2>1
<1> QED
  BY <1>3, <1>6 DEF S

-----------------------------------------------------------------------------
(* The moves of which a handler's trail is made                            *)

\* What shows that the turn of the step's attempt is over.
Turned(h, s) ==
    /\ h.step[s].bound
    /\ \/ h.sess[s].done = h.step[s].try
       \/ h.memo[s] = h.step[s].try
       \/ h.sess[s].st = "idle" /\ h.step[s].text

\* What shows that the dispatch of the step's attempt has arrived.
Answered(h, s) ==
    /\ h.step[s].bound
    /\ IF h.step[s].try > 1
       THEN \/ h.sess[s].st \in {"running"} \cup Terminal
            \/ h.step[s].sent /\ h.sess[s].st = "idle" /\ Turned(h, s)
       ELSE h.sess[s].st \notin {"queued", "offline"}

\* Nothing is on its way to or from the worker, if a dispatch is not given up
\* before all is heard of it.
Quiet(h, s) ==
    "late answer" \in Hazards
    \/ /\ h.down[s] = <<>> /\ h.up[s] = <<>>
       /\ agent[s].proc \notin {"booting", "turn"}

MayAdvance(h, s) == h.step[s].st = "starting" /\ Answered(h, s)

MayWin(h, s) ==
    /\ h.step[s].st = "running" /\ h.sess[s].st \in {"idle", "completed"}
    /\ Turned(h, s)

MayLose(h, s) ==
    \/ /\ h.step[s].st = "running"
       /\ h.step[s].bound => h.sess[s].st \in Terminal
    \/ h.step[s].st = "starting" /\ h.link # "down" /\ Quiet(h, s)
    \/ /\ h.step[s].st = "pending" /\ h.step[s].bound /\ h.step[s].sent
       /\ h.sess[s].st \in Terminal

MaySkip(h, s) ==
    /\ h.step[s].st = "pending"
    /\ \E d \in DependsOn[s] : h.step[d].st \in {"failed", "skipped", "cancelled"}

\* The checkout is the step's to use, and its turn has come.
MayGo(h, s) ==
    /\ h.link \in {"up", "closing"} /\ h.step[s].st = "pending"
    /\ h.run.st \notin Closed \cup {"awaiting_human"}
    /\ \A d \in DependsOn[s] : h.step[d].st = "succeeded"
    /\ \A o \in Steps \ {s} : ~Live(h, o)

MayStart(h, s) == MayGo(h, s) /\ ~h.step[s].bound /\ ~Live(h, s)
MayPrompt(h, s) ==
    MayGo(h, s) /\ h.step[s].bound /\ ~h.sess[s].stop /\ h.sess[s].st = "idle"
MayResume(h, s) ==
    /\ MayGo(h, s) /\ h.step[s].bound /\ ~h.sess[s].stop /\ ~h.step[s].sent
    /\ h.sess[s].st \in Terminal

\* The run is as the pass read it, or as a settlement left it.
Fits(h, snap) ==
    /\ snap \in RunStates \ Closed
    /\ \/ h.run.st = snap
       \/ led /\ snap = "running" /\ h.run.st = "awaiting_lead"

MayEnd(h, fate) ==
    /\ ~led /\ h.run.st \notin Closed /\ fate \in {"completed", "failed"}
    /\ \A s \in Steps : h.step[s].st \in Settled
    /\ fate = "completed" => \A s \in Steps : h.step[s].st \notin {"failed", "cancelled"}

Dispatches(h, s, g) ==
    \E snap \in RunStates :
       /\ Fits(h, snap)
       /\ \/ MayStart(h, s) /\ g \in ToSet(StartStep(h, s, snap))
          \/ MayPrompt(h, s) /\ g \in ToSet(PromptStep(h, s, snap))
          \/ MayResume(h, s) /\ g \in ToSet(ResumeStep(h, s))

\* What one commit of a pass, of the message pump or of a repeated stop can do.
Moves(h, g) ==
    \/ \E s \in Steps :
          \/ MayAdvance(h, s) /\ g = [h EXCEPT !.step[s].st = "running"]
          \/ MayWin(h, s) /\ g \in ToSet(Settle(h, s, "succeeded"))
          \/ MayLose(h, s) /\ g \in ToSet(Settle(h, s, "failed"))
          \/ MaySkip(h, s) /\ g = [h EXCEPT !.step[s].st = "skipped"]
          \/ g \in ToSet(StopSession(h, s))
          \/ Dispatches(h, s, g)
          \/ \E type \in {"stop", "cancel"} : g = CallOff(h, s, type)
    \/ g = [h EXCEPT !.run.owed = FALSE]
    \/ \E fate \in Closed : MayEnd(h, fate) /\ g = [h EXCEPT !.run.st = fate]
    \/ g = Pumped(h, Steps)

\* K is closed under the moves of the Host.
ClosedUnderMoves(K) == \A h \in K, g \in HostType : Moves(h, g) => g \in K

LEMMA TrailIn ==
    ASSUME NEW K, NEW t \in Seq(HostType), \A g \in ToSet(t) : g \in K
    PROVE  t \in Seq(K)
<1>1. Len(t) \in Nat /\ DOMAIN t = 1..Len(t) /\ t = [i \in 1..Len(t) |-> t[i]]
  OBVIOUS
<1>2. \A i \in 1..Len(t) : t[i] \in K
  BY <1>1 DEF ToSet
<1> QED
  BY <1>1, <1>2

-----------------------------------------------------------------------------
(* What a plan says                                                        *)

Outgoing(h, p, s) == h.step[s].st = "running" \/ s \in p.advances

JudgesRight(h, p) ==
    \A s \in Steps :
       /\ s \in p.advances => MayAdvance(h, s)
       /\ s \in p.won => /\ s \notin p.lost /\ Outgoing(h, p, s) /\ Turned(h, s)
                         /\ h.sess[s].st \in {"idle", "completed"}
       /\ s \in p.lost =>
            \/ Outgoing(h, p, s) /\ (h.step[s].bound => h.sess[s].st \in Terminal)
            \/ /\ s \notin p.advances /\ h.step[s].st = "starting"
               /\ h.link # "down" /\ Quiet(h, s)
       /\ s \in p.late => Outgoing(h, p, s) /\ s \notin p.won \cup p.lost

Goes(p) == p.starts \cup p.prompts \cup p.resumes

\* The checkout is free for s, and what it depends on is done.
MayFollow(h, eff, s) ==
    /\ h.link \in {"up", "closing"} /\ eff[s] = "pending"
    /\ \A d \in DependsOn[s] : eff[d] = "succeeded"
    /\ h.step[s].bound => ~h.sess[s].stop
    /\ \A o \in Steps \ {s} : ~Live(h, o)

GoesRight(h, p, eff) ==
    /\ \A s \in Steps :
          /\ s \in p.doomed =>
               /\ eff[s] = "pending"
               /\ \E d \in DependsOn[s] : eff[d] \in {"failed", "skipped", "cancelled"}
          /\ s \in p.parked => eff[s] \in Settled
          /\ s \in Goes(p) \cup p.unresumed => MayFollow(h, eff, s)
          /\ s \in p.unresumed => /\ h.step[s].bound /\ h.step[s].sent
                                  /\ h.sess[s].st \in Terminal
          /\ s \in p.starts => ~h.step[s].bound /\ ~Live(h, s)
          /\ s \in p.prompts => h.step[s].bound /\ h.sess[s].st = "idle"
          /\ s \in p.resumes => /\ h.step[s].bound /\ ~h.step[s].sent
                                /\ h.sess[s].st \in Terminal
    /\ \A s, o \in Goes(p) : s = o
    /\ Goes(p) # {} => p.snap # "awaiting_human"

EndsRight(p, eff) ==
    p.over => /\ ~led /\ p.fate \in {"completed", "failed"}
              /\ \A s \in Steps : eff[s] \in Settled \/ s \in p.doomed
              /\ p.fate = "completed" =>
                   \A s \in Steps : eff[s] \notin {"failed", "cancelled"}

\* Nothing but the end of turns and workers is recorded during a replay.
Replays(p) ==
    /\ p.late = {} /\ p.doomed = {} /\ p.parked = {} /\ p.unresumed = {}
    /\ p.starts = {} /\ p.prompts = {} /\ p.resumes = {} /\ ~p.wakes /\ ~p.over

EffectiveOf(h, p) ==
    [s \in Steps |-> IF s \in p.won THEN "succeeded"
                     ELSE IF s \in p.lost THEN "failed"
                     ELSE IF s \in p.advances THEN "running"
                     ELSE h.step[s].st]

PlanRight(h, p) ==
    /\ p.snap = h.run.st /\ JudgesRight(h, p)
    /\ IF h.link = "syncing" THEN Replays(p)
       ELSE GoesRight(h, p, EffectiveOf(h, p)) /\ EndsRight(p, EffectiveOf(h, p))

\* A dispatch is given up only when it is quiet about it.
DueFits(h, due) == due = "starting" => \A s \in Starting(h) : Quiet(h, s)

LEMMA FirstSingle ==
    ASSUME EngineAssumption, NEW T \in SUBSET Steps
    PROVE  First(T) \subseteq T /\ \A s, o \in First(T) : s = o
<1>1. \A s \in Steps : Position(s) \in 1..Len(Order) /\ Order[Position(s)] = s
  BY OrderTyped DEF Position
<1>2. ASSUME NEW s \in First(T), NEW o \in First(T) PROVE s = o
  <2>1. /\ Position(s) <= Position(o) /\ Position(o) <= Position(s)
        /\ s \in Steps /\ o \in Steps
    BY <1>2 DEF First
  <2>2. Position(s) = Position(o)
    <3>1. Position(s) \in Int /\ Position(o) \in Int
      BY <1>1, <2>1
    <3> QED
      BY <2>1, <3>1
  <2> QED
    BY <1>1, <2>1, <2>2
<1> QED
  BY <1>2 DEF First

LEMMA VerdictRight ==
    ASSUME EngineAssumption, NEW h \in HostType, NEW due \in Deadlines, DueFits(h, due),
           NEW turned, turned = TurnsEnded(h, due),
           NEW v, v = Verdict(h, due, turned, Advances(h, turned))
    PROVE  JudgesRight(h, v) /\ Effective(h, v) = EffectiveOf(h, v)
<1>1. \A s \in turned : s \in Steps /\ Turned(h, s)
  BY DEF TurnsEnded, Turned
<1>2. \A s \in v.advances : MayAdvance(h, s)
  <2>1. v.advances = Advances(h, turned)
    BY DEF Verdict
  <2> QED
    BY <1>1, <2>1 DEF Advances, Starting, Acknowledged, MayAdvance, Answered
<1> DEFINE runs == Running(h) \cup v.advances
<1>3. /\ v.won = AtRest(h, runs) \cap turned
      /\ v.lost = (Ended(h, runs) \ v.won) \cup (Unanswered(h, due) \ v.advances)
      /\ v.late \subseteq runs \ (v.won \cup v.lost)
  BY DEF Verdict
<1>4. \A s \in runs : Outgoing(h, v, s)
  BY DEF Running, Outgoing
<1>5. ASSUME NEW s \in v.won
      PROVE  /\ Outgoing(h, v, s) /\ Turned(h, s) /\ s \notin v.lost
             /\ h.sess[s].st \in {"idle", "completed"}
  <2>1. s \in runs /\ s \in turned /\ h.sess[s].st \in {"idle", "completed"}
    BY <1>3, <1>5 DEF AtRest
  <2>2. s \notin Unanswered(h, due) \ v.advances
    BY <2>1 DEF Running, Unanswered, Starting
  <2> QED
    BY <1>1, <1>3, <1>4, <1>5, <2>1, <2>2
<1>6. ASSUME NEW s \in v.lost, s \in Steps
      PROVE  \/ Outgoing(h, v, s) /\ (h.step[s].bound => h.sess[s].st \in Terminal)
             \/ /\ s \notin v.advances /\ h.step[s].st = "starting"
                /\ h.link # "down" /\ Quiet(h, s)
  <2>1. CASE s \in Ended(h, runs)
    BY <1>4, <2>1 DEF Ended
  <2>2. CASE s \in Unanswered(h, due) \ v.advances
    BY <2>2 DEF Unanswered, Starting, DueFits
  <2> QED
    BY <1>3, <1>6, <2>1, <2>2
<1> HIDE DEF runs
<1>7. JudgesRight(h, v)
  BY <1>2, <1>3, <1>4, <1>5, <1>6 DEF JudgesRight
<1>8. Effective(h, v) = EffectiveOf(h, v)
  BY DEF Effective, EffectiveOf
<1> QED
  BY <1>7, <1>8

LEMMA FullPlanRight ==
    ASSUME EngineAssumption, NEW h \in HostType, NEW due \in Deadlines, NEW v,
           JudgesRight(h, v), NEW eff, eff = EffectiveOf(h, v),
           NEW waiting, waiting = Waiting(h, eff),
           NEW p, p = FullPlan(h, due, v, eff, waiting, Alone(h, waiting))
    PROVE  /\ p.snap = h.run.st /\ JudgesRight(h, p) /\ EffectiveOf(h, p) = eff
           /\ h.link # "syncing" => GoesRight(h, p, eff)
           /\ EndsRight(p, eff)
<1> DEFINE alone == Alone(h, waiting)
           outs == ToStart(h, eff, waiting) \cup ToPrompt(h, alone)
                     \cup ToResume(h, eff, alone)
           goes == Going(h, eff, waiting, alone)
<1>1. /\ p.snap = h.run.st /\ p.advances = v.advances /\ p.won = v.won
      /\ p.lost = v.lost /\ p.late = v.late
  BY DEF FullPlan
<1>2. JudgesRight(h, p) /\ EffectiveOf(h, p) = eff
  BY <1>1 DEF JudgesRight, Outgoing, EffectiveOf
<1>3. /\ p.doomed = Doomed(eff) /\ p.parked = Parked(h, eff, waiting)
      /\ p.unresumed = Unresumed(h, alone) /\ p.starts = goes \cap ToStart(h, eff, waiting)
      /\ p.prompts = goes \cap ToPrompt(h, alone)
      /\ p.resumes = goes \cap ToResume(h, eff, alone)
      /\ p.over = (~led /\ Over(eff, p.doomed))
      /\ p.fate \in {"completed", "failed"}
      /\ p.fate = "completed" => \A s \in Steps : eff[s] \notin {"failed", "cancelled"}
  BY DEF FullPlan
<1>4. ASSUME NEW s \in waiting
      PROVE  /\ s \in Steps /\ h.link \in {"up", "closing"} /\ eff[s] = "pending"
             /\ \A d \in DependsOn[s] : eff[d] = "succeeded"
  BY <1>4, HostParts DEF Waiting
<1>5. ASSUME NEW s \in alone
      PROVE  /\ s \in waiting /\ MayFollow(h, eff, s) /\ h.step[s].bound
  BY <1>4, <1>5 DEF Alone, MayFollow
<1>6. ASSUME NEW s \in ToStart(h, eff, waiting)
      PROVE  MayFollow(h, eff, s) /\ ~h.step[s].bound /\ ~Live(h, s)
  BY <1>4, <1>6 DEF ToStart, Occupied, MayFollow
<1>7. outs \in SUBSET Steps
  BY <1>4 DEF Alone, ToStart, ToPrompt, ToResume
<1>8. Goes(p) \subseteq goes
  BY <1>3 DEF Goes
<1>9. \A s, o \in goes : s = o
  BY <1>7, FirstSingle DEF Going
<1>10. goes # {} => h.run.st # "awaiting_human"
  BY DEF Going
<1>11. GoesRight(h, p, eff)
  <2>1. ASSUME NEW s \in Steps
        PROVE  /\ s \in p.doomed =>
                    /\ eff[s] = "pending"
                    /\ \E d \in DependsOn[s] : eff[d] \in {"failed", "skipped", "cancelled"}
               /\ s \in p.parked => eff[s] \in Settled
    BY <1>3 DEF Doomed, Parked
  <2>2. ASSUME NEW s \in p.unresumed
        PROVE  /\ MayFollow(h, eff, s) /\ h.step[s].bound /\ h.step[s].sent
               /\ h.sess[s].st \in Terminal
    BY <1>3, <1>5, <2>2 DEF Unresumed
  <2>3. ASSUME NEW s \in p.starts
        PROVE  MayFollow(h, eff, s) /\ ~h.step[s].bound /\ ~Live(h, s)
    BY <1>3, <1>6, <2>3
  <2>4. ASSUME NEW s \in p.prompts
        PROVE  MayFollow(h, eff, s) /\ h.step[s].bound /\ h.sess[s].st = "idle"
    BY <1>3, <1>5, <2>4 DEF ToPrompt
  <2>5. ASSUME NEW s \in p.resumes
        PROVE  /\ MayFollow(h, eff, s) /\ h.step[s].bound /\ ~h.step[s].sent
               /\ h.sess[s].st \in Terminal
    BY <1>3, <1>5, <2>5 DEF ToResume
  <2>6. \A s, o \in Goes(p) : s = o
    BY <1>8, <1>9
  <2>7. Goes(p) # {} => p.snap # "awaiting_human"
    BY <1>1, <1>8, <1>10
  <2> HIDE DEF goes, alone, outs
  <2> QED
    BY <2>1, <2>2, <2>3, <2>4, <2>5, <2>6, <2>7 DEF GoesRight, Goes
<1>12. EndsRight(p, eff)
  BY <1>3 DEF EndsRight, Over
<1> QED
  BY <1>1, <1>2, <1>11, <1>12

LEMMA PlanIsRight ==
    ASSUME EngineAssumption, NEW h \in HostType, NEW due \in Deadlines, DueFits(h, due)
    PROVE  PlanRight(h, Plan(h, due))
<1> DEFINE turned == TurnsEnded(h, due)
           v == Verdict(h, due, turned, Advances(h, turned))
           eff == Effective(h, v)
           waiting == Waiting(h, eff)
           plan == FullPlan(h, due, v, eff, waiting, Alone(h, waiting))
           recorded == Recorded(h, turned)
           p == IF h.link = "syncing" THEN Replaying(plan, recorded) ELSE plan
<1>1. Plan(h, due) = p
  BY DEF Plan, PlanFrom
<1>2. JudgesRight(h, v) /\ eff = EffectiveOf(h, v)
  BY VerdictRight
<1>3. /\ plan.snap = h.run.st /\ JudgesRight(h, plan) /\ EffectiveOf(h, plan) = eff
      /\ h.link # "syncing" => GoesRight(h, plan, eff)
      /\ EndsRight(plan, eff)
  <2> HIDE DEF v, eff, waiting, plan
  <2> QED
    BY <1>2, FullPlanRight DEF plan, waiting
<1>4. CASE h.link = "syncing"
  <2> DEFINE r == Replaying(plan, recorded)
  <2>1. DOMAIN plan = {"snap", "advances", "won", "lost", "late", "doomed", "parked",
                       "unresumed", "starts", "prompts", "resumes", "wakes", "over", "fate"}
    BY DEF FullPlan
  <2> HIDE DEF plan, recorded
  <2>2. /\ r.snap = plan.snap /\ r.advances = plan.advances
        /\ r.won = plan.won \cap recorded /\ r.lost = plan.lost \cap recorded
        /\ Replays(r)
    BY <2>1 DEF Replaying, Replays
  <2> HIDE DEF r
  <2>3. JudgesRight(h, r)
    BY <1>3, <2>2 DEF JudgesRight, Outgoing, Replays
  <2> QED
    BY <1>1, <1>3, <1>4, <2>2, <2>3 DEF PlanRight, r
<1>5. CASE h.link # "syncing"
  <2> HIDE DEF plan, eff
  <2> QED
    BY <1>1, <1>3, <1>5 DEF PlanRight
<1> QED
  BY <1>4, <1>5

-----------------------------------------------------------------------------
(* What the parts of a trail leave alone                                   *)

End(h, trail) == IF trail = <<>> THEN h ELSE Last(trail)

SameAt(h, g, s) ==
    /\ g.step[s] = h.step[s] /\ g.sess[s] = h.sess[s] /\ g.memo[s] = h.memo[s]
    /\ g.up[s] = h.up[s] /\ g.down[s] = h.down[s]

\* Only the step s and its worker are touched.
Only(h, g, s) == g.link = h.link /\ \A o \in Steps \ {s} : SameAt(h, g, o)

\* The workers are in the states they were in, and so is the run unless
\* something was settled.
Steady(h, g) ==
    /\ g.link = h.link /\ \A s \in Steps : g.sess[s].st = h.sess[s].st
    /\ \/ g.run.st = h.run.st
       \/ led /\ h.run.st = "running" /\ g.run.st = "awaiting_lead"

LEMMA OnlyTransitive ==
    ASSUME NEW h, NEW g, NEW k, NEW s, Only(h, g, s), Only(g, k, s)
    PROVE  Only(h, k, s)
BY DEF Only, SameAt

LEMMA SteadyTransitive ==
    ASSUME NEW h, NEW g, NEW k, Steady(h, g), Steady(g, k)
    PROVE  Steady(h, k)
BY DEF Steady

LEMMA SetStLeaves ==
    ASSUME NEW h \in HostType, NEW s \in Steps, NEW st
    PROVE  LET g == [h EXCEPT !.step[s].st = st]
           IN  /\ Only(h, g, s) /\ Steady(h, g) /\ g.step[s] = [h.step[s] EXCEPT !.st = st]
               /\ g.sess = h.sess /\ g.memo = h.memo /\ g.up = h.up /\ g.down = h.down
               /\ g.run = h.run /\ g.mail = h.mail
               /\ g.step = [h.step EXCEPT ![s] = [h.step[s] EXCEPT !.st = st]]
BY DEF HostType, Only, Steady, SameAt

LEMMA RowReplaced ==
    ASSUME NEW f \in [Steps -> RowType], NEW s \in Steps, NEW r, r.st = f[s].st
    PROVE  \A o \in Steps : [f EXCEPT ![s] = r][o].st = f[o].st
OBVIOUS

LEMMA SettleLeaves ==
    ASSUME EngineAssumption, NEW h \in HostType, NEW s \in Steps,
           NEW to \in {"succeeded", "failed"}, NEW g \in ToSet(Settle(h, s, to))
    PROVE  /\ Only(h, g, s) /\ Steady(h, g) /\ CanStep(h.step[s].st, to)
           /\ g.step = [h.step EXCEPT ![s] = [h.step[s] EXCEPT !.st = to]]
           /\ g.run.owed /\ g.mail = h.mail /\ g.up = h.up /\ g.down = h.down
           /\ g.sess = [h.sess EXCEPT ![s] = [h.sess[s] EXCEPT !.done = 0]]
           /\ g.memo = [h.memo EXCEPT ![s] = 0]
<1>1. /\ CanStep(h.step[s].st, to)
      /\ g = [h EXCEPT !.step[s].st = to, !.run.owed = TRUE,
                       !.run.st = IF led /\ @ = "running" THEN "awaiting_lead" ELSE @,
                       !.sess[s].done = 0, !.memo[s] = 0]
  BY DEF Settle, ToSet
<1>2. h.run \in [st : RunStates, owed : BOOLEAN] /\ h.sess \in [Steps -> RowType]
  BY HostParts DEF RunType
<1>3. /\ g.link = h.link /\ g.mail = h.mail /\ g.up = h.up /\ g.down = h.down
      /\ g.step = [h.step EXCEPT ![s] = [h.step[s] EXCEPT !.st = to]]
      /\ g.sess = [h.sess EXCEPT ![s] = [h.sess[s] EXCEPT !.done = 0]]
      /\ g.memo = [h.memo EXCEPT ![s] = 0]
      /\ g.run.st = IF led /\ h.run.st = "running" THEN "awaiting_lead" ELSE h.run.st
      /\ g.run.owed
  BY <1>1, <1>2 DEF HostType
<1>4. \A o \in Steps \ {s} : SameAt(h, g, o)
  BY <1>3 DEF SameAt, HostType
<1>5. \A o \in Steps : g.sess[o].st = h.sess[o].st
  <2>1. h.sess[s] \in RowType
    BY HostAt
  <2>2. [h.sess[s] EXCEPT !.done = 0].st = h.sess[s].st
    BY <2>1 DEF RowType
  <2> QED
    BY <1>2, <1>3, <2>2, RowReplaced
<1> QED
  BY <1>1, <1>3, <1>4, <1>5 DEF Only, Steady

LEMMA SettleEnd ==
    ASSUME EngineAssumption, NEW h \in HostType, NEW s \in Steps,
           NEW to \in {"succeeded", "failed"}, CanStep(h.step[s].st, to)
    PROVE  /\ Settle(h, s, to) # <<>> /\ Last(Settle(h, s, to)) \in ToSet(Settle(h, s, to))
BY DEF Settle, Last, ToSet

LeftByCallOff(h, s, type, g) ==
    /\ Only(h, g, s) /\ Steady(h, g) /\ g.step = h.step /\ g.run = h.run
    /\ g.mail = h.mail /\ g.up = h.up /\ g.memo = h.memo
    /\ \/ g.down = h.down /\ g.sess = h.sess
       \/ /\ g.down = [h.down EXCEPT ![s] = Append(h.down[s], Command(type, 0))]
          /\ g.sess = [h.sess EXCEPT ![s] = CalledOff(h.sess[s], type)]

LEMMA CallOffLeaves ==
    ASSUME EngineAssumption, NEW h \in HostType, NEW s \in Steps,
           NEW type \in {"stop", "cancel"}
    PROVE  LeftByCallOff(h, s, type, CallOff(h, s, type))
<1> DEFINE g == CallOff(h, s, type)
<1> USE DEF LeftByCallOff
<1>1. CASE ~Open(h)
  BY <1>1 DEF CallOff, Only, Steady, SameAt
<1>2. CASE Open(h)
  <2>1. h.sess \in [Steps -> RowType]
    BY HostParts
  <2>2. /\ g.step = h.step /\ g.run = h.run /\ g.mail = h.mail /\ g.up = h.up
        /\ g.memo = h.memo /\ g.link = h.link
        /\ g.down = [h.down EXCEPT ![s] = Append(h.down[s], Command(type, 0))]
        /\ g.sess = [h.sess EXCEPT ![s] = CalledOff(h.sess[s], type)]
    BY <1>2 DEF CallOff, Send, HostType
  <2>3. \A o \in Steps \ {s} : SameAt(h, g, o)
    BY <2>2 DEF SameAt, HostType
  <2>5. h.sess[s] \in RowType
    BY HostAt
  <2>6. CalledOff(h.sess[s], type).st = h.sess[s].st
    BY <2>5 DEF RowType, CalledOff
  <2>4. \A o \in Steps : g.sess[o].st = h.sess[o].st
    BY <2>1, <2>2, <2>6, RowReplaced
  <2> QED
    BY <2>2, <2>3, <2>4 DEF Only, Steady
<1> QED
  BY <1>1, <1>2

LEMMA StopLeaves ==
    ASSUME EngineAssumption, NEW h \in HostType, NEW s \in Steps,
           NEW g \in ToSet(StopSession(h, s))
    PROVE  /\ Only(h, g, s) /\ Steady(h, g) /\ g.step = h.step /\ g.run = h.run
           /\ g.mail = h.mail /\ g.up = h.up /\ g.memo = h.memo
           /\ \/ /\ g.down = h.down
                 /\ g.sess = [h.sess EXCEPT ![s] = [h.sess[s] EXCEPT !.stop = TRUE]]
              \/ /\ g.down = [h.down EXCEPT ![s] = Append(h.down[s], Command("stop", 0))]
                 /\ g.sess = [h.sess EXCEPT ![s] =
                                CalledOff([h.sess[s] EXCEPT !.stop = TRUE], "stop")]
<1> DEFINE flagged == [h EXCEPT !.sess[s].stop = TRUE]
<1>1. g = flagged \/ g = CallOff(flagged, s, "stop")
  <2> DEFINE off == CallOff(flagged, s, "stop")
  <2>1. StopSession(h, s) = <<flagged, off>> \/ StopSession(h, s) = <<>>
    BY DEF StopSession
  <2> HIDE DEF flagged, off
  <2>2. ToSet(<<flagged, off>>) = {flagged, off} /\ ToSet(<<>>) = {}
    BY DEF ToSet
  <2> QED
    BY <2>1, <2>2 DEF off
<1>2. h.sess \in [Steps -> RowType]
  BY HostParts
<1>3. /\ flagged.link = h.link /\ flagged.step = h.step /\ flagged.run = h.run
      /\ flagged.mail = h.mail /\ flagged.up = h.up /\ flagged.memo = h.memo
      /\ flagged.down = h.down
      /\ flagged.sess = [h.sess EXCEPT ![s] = [h.sess[s] EXCEPT !.stop = TRUE]]
  BY DEF HostType
<1>4. flagged \in HostType
  <2>1. h.sess[s] \in RowType
    BY HostAt
  <2>2. [h.sess[s] EXCEPT !.stop = TRUE] \in RowType
    BY <2>1 DEF RowType
  <2>3. flagged = [h EXCEPT !.sess[s] = [h.sess[s] EXCEPT !.stop = TRUE]]
    BY DEF HostType
  <2> QED
    BY <2>2, <2>3, RowSet
<1> HIDE DEF flagged
<1>5. Only(h, flagged, s) /\ Steady(h, flagged)
  BY <1>2, <1>3 DEF Only, Steady, SameAt, HostType, RowType
<1>6. CASE g = flagged
  BY <1>3, <1>5, <1>6
<1>7. CASE g = CallOff(flagged, s, "stop")
  <2>1. LeftByCallOff(flagged, s, "stop", g)
    BY <1>4, <1>7, CallOffLeaves
  <2>2. Only(h, g, s) /\ Steady(h, g)
    BY <1>5, <2>1, OnlyTransitive, SteadyTransitive DEF LeftByCallOff
  <2>3. flagged.sess[s] = [h.sess[s] EXCEPT !.stop = TRUE]
    BY <1>2, <1>3
  <2>4. \A r : [flagged.sess EXCEPT ![s] = r] = [h.sess EXCEPT ![s] = r]
    BY <1>2, <1>3
  <2> QED
    BY <1>3, <2>1, <2>2, <2>3, <2>4 DEF LeftByCallOff
<1> QED
  BY <1>1, <1>6, <1>7

LEMMA LastIn ==
    ASSUME NEW S, NEW t \in Seq(S), t # <<>>
    PROVE  Last(t) \in ToSet(t)
BY DEF Last, ToSet
LEMMA ToSet2 ==
    ASSUME NEW a, NEW b
    PROVE  ToSet(<<a, b>>) = {a, b}
BY DEF ToSet

LEMMA ToSet3 ==
    ASSUME NEW a, NEW b, NEW c
    PROVE  ToSet(<<a, b, c>>) = {a, b, c}
BY DEF ToSet

LEMMA ToSet4 ==
    ASSUME NEW a, NEW b, NEW c, NEW d
    PROVE  ToSet(<<a, b, c, d>>) = {a, b, c, d}
BY DEF ToSet

LEMMA ToSetJoined ==
    ASSUME NEW S, NEW a \in Seq(S), NEW b \in Seq(S)
    PROVE  ToSet(a \o b) = ToSet(a) \cup ToSet(b)
<1>0. /\ Len(a) \in Nat /\ Len(b) \in Nat /\ Len(a \o b) = Len(a) + Len(b)
      /\ DOMAIN a = 1..Len(a) /\ DOMAIN b = 1..Len(b)
      /\ DOMAIN (a \o b) = 1..(Len(a) + Len(b))
      /\ \A i \in 1..(Len(a) + Len(b)) :
            (a \o b)[i] = IF i <= Len(a) THEN a[i] ELSE b[i - Len(a)]
  BY ConcatProperties
<1>1. ASSUME NEW i \in DOMAIN (a \o b) PROVE (a \o b)[i] \in ToSet(a) \cup ToSet(b)
  <2>1. CASE i <= Len(a)
    BY <1>0, <2>1 DEF ToSet
  <2>2. CASE i > Len(a)
    <3>1. i - Len(a) \in DOMAIN b
      BY <1>0, <2>2
    <3> QED
      BY <1>0, <2>2, <3>1 DEF ToSet
  <2> QED
    BY <1>0, <2>1, <2>2
<1>2. ASSUME NEW i \in DOMAIN a PROVE a[i] \in ToSet(a \o b)
  <2>1. i \in DOMAIN (a \o b) /\ (a \o b)[i] = a[i]
    BY <1>0
  <2> QED
    BY <2>1 DEF ToSet
<1>3. ASSUME NEW i \in DOMAIN b PROVE b[i] \in ToSet(a \o b)
  <2>1. i + Len(a) \in DOMAIN (a \o b) /\ (a \o b)[i + Len(a)] = b[i]
    BY <1>0
  <2> QED
    BY <2>1 DEF ToSet
<1> QED
  BY <1>1, <1>2, <1>3 DEF ToSet

LEMMA GoesOnSet ==
    ASSUME NEW h \in HostType, NEW snap, NEW g \in ToSet(GoesOn(h, snap))
    PROVE  snap = "awaiting_lead" /\ g = [h EXCEPT !.run.st = "running"]
BY DEF GoesOn, ToSet

\* g is h with the run's row r and, of s, the rows a and b, the memo m and the
\* events u and commands d on their way.
Has(h, g, s, r, a, b, m, u, d) ==
    /\ g.run = r /\ g.mail = h.mail /\ g.link = h.link
    /\ g.step = [h.step EXCEPT ![s] = a] /\ g.sess = [h.sess EXCEPT ![s] = b]
    /\ g.memo = [h.memo EXCEPT ![s] = m] /\ g.up = [h.up EXCEPT ![s] = u]
    /\ g.down = [h.down EXCEPT ![s] = d]

LEMMA HasSelf ==
    ASSUME NEW h \in HostType, NEW s \in Steps
    PROVE  Has(h, h, s, h.run, h.step[s], h.sess[s], h.memo[s], h.up[s], h.down[s])
BY DEF Has, HostType

LEMMA HasRows ==
    ASSUME NEW h \in HostType, NEW g, NEW s \in Steps,
           NEW r, NEW a, NEW b, NEW m, NEW u, NEW d, Has(h, g, s, r, a, b, m, u, d)
    PROVE  /\ g.step[s] = a /\ g.sess[s] = b /\ g.memo[s] = m /\ g.up[s] = u
           /\ g.down[s] = d /\ g.run = r /\ g.mail = h.mail /\ g.link = h.link
           /\ Only(h, g, s)
BY DEF Has, HostType, Only, SameAt

LEMMA HasStep ==
    ASSUME NEW h \in HostType, NEW x \in HostType, NEW s \in Steps,
           NEW r, NEW a, NEW b, NEW m, NEW u, NEW d, Has(h, x, s, r, a, b, m, u, d),
           NEW v
    PROVE  Has(h, [x EXCEPT !.step[s] = v], s, r, v, b, m, u, d)
BY DEF Has, HostType

LEMMA HasSess ==
    ASSUME NEW h \in HostType, NEW x \in HostType, NEW s \in Steps,
           NEW r, NEW a, NEW b, NEW m, NEW u, NEW d, Has(h, x, s, r, a, b, m, u, d),
           NEW v
    PROVE  Has(h, [x EXCEPT !.sess[s] = v], s, r, a, v, m, u, d)
BY DEF Has, HostType

LEMMA HasMemo ==
    ASSUME NEW h \in HostType, NEW x \in HostType, NEW s \in Steps,
           NEW r, NEW a, NEW b, NEW m, NEW u, NEW d, Has(h, x, s, r, a, b, m, u, d),
           NEW v
    PROVE  Has(h, [x EXCEPT !.memo[s] = v], s, r, a, b, v, u, d)
BY DEF Has, HostType

LEMMA HasStepUp ==
    ASSUME NEW h \in HostType, NEW x \in HostType, NEW s \in Steps,
           NEW r, NEW a, NEW b, NEW m, NEW u, NEW d, Has(h, x, s, r, a, b, m, u, d),
           NEW v, NEW w
    PROVE  Has(h, [x EXCEPT !.step[s] = v, !.up[s] = w], s, r, v, b, m, w, d)
BY DEF Has, HostType

LEMMA HasStepSess ==
    ASSUME NEW h \in HostType, NEW x \in HostType, NEW s \in Steps,
           NEW r, NEW a, NEW b, NEW m, NEW u, NEW d, Has(h, x, s, r, a, b, m, u, d),
           NEW v, NEW w
    PROVE  Has(h, [x EXCEPT !.step[s] = v, !.sess[s] = w], s, r, v, w, m, u, d)
BY DEF Has, HostType

LEMMA HasStepMemo ==
    ASSUME NEW h \in HostType, NEW x \in HostType, NEW s \in Steps,
           NEW r, NEW a, NEW b, NEW m, NEW u, NEW d, Has(h, x, s, r, a, b, m, u, d),
           NEW v, NEW w
    PROVE  Has(h, [x EXCEPT !.step[s] = v, !.memo[s] = w], s, r, v, b, w, u, d)
BY DEF Has, HostType

LEMMA HasRun ==
    ASSUME NEW h \in HostType, NEW x \in HostType, NEW s \in Steps,
           NEW r, NEW a, NEW b, NEW m, NEW u, NEW d, Has(h, x, s, r, a, b, m, u, d),
           NEW st
    PROVE  Has(h, [x EXCEPT !.run.st = st], s, [r EXCEPT !.st = st], a, b, m, u, d)
BY DEF Has, HostType

LEMMA HasDispatch ==
    ASSUME NEW h \in HostType, NEW x \in HostType, NEW s \in Steps,
           NEW r, NEW a, NEW b, NEW m, NEW u, NEW d, Has(h, x, s, r, a, b, m, u, d),
           NEW by, NEW type, NEW job
    PROVE  Has(h, Dispatch(x, s, by, type, job), s, r, a, Receipt(b, by), m, u,
               Append(d, Command(type, job)))
<1>1. x.sess[s] = b /\ x.down[s] = d
  BY HasRows
<1>2. Dispatch(x, s, by, type, job)
        = [x EXCEPT !.sess[s] = Receipt(x.sess[s], by),
                    !.down[s] = Append(x.down[s], Command(type, job))]
  BY DEF Dispatch, Send, HostType
<1> DEFINE v == Receipt(b, by)
           w == Append(d, Command(type, job))
<1> HIDE DEF v, w
<1>3. Dispatch(x, s, by, type, job) = [x EXCEPT !.sess[s] = v, !.down[s] = w]
  BY <1>1, <1>2 DEF v, w
<1>4. Has(h, [x EXCEPT !.sess[s] = v, !.down[s] = w], s, r, a, v, m, u, w)
  BY DEF Has, HostType
<1> QED
  BY <1>3, <1>4 DEF v, w

LEMMA HasStamped ==
    ASSUME NEW h \in HostType, NEW s \in Steps
    PROVE  Has(h, Stamped(h, s), s, h.run, [h.step[s] EXCEPT !.sent = TRUE], h.sess[s],
               h.memo[s], Older(h.up[s]), h.down[s])
<1> DEFINE v == [h.step[s] EXCEPT !.sent = TRUE]
           w == Older(h.up[s])
<1>1. Stamped(h, s) = [h EXCEPT !.step[s] = v, !.up[s] = w]
  BY StampedTyped
<1> HIDE DEF v, w
<1>2. Has(h, h, s, h.run, h.step[s], h.sess[s], h.memo[s], h.up[s], h.down[s])
  BY HasSelf
<1>3. Has(h, [h EXCEPT !.step[s] = v, !.up[s] = w], s, h.run, v, h.sess[s], h.memo[s], w,
          h.down[s])
  BY <1>2, HasStepUp
<1> QED
  BY <1>1, <1>3 DEF v, w

\* The step's row as each commit of a dispatch leaves it.
SentRow(a) == [a EXCEPT !.st = "starting", !.sent = TRUE]
BoundRow(a) == [SentRow(a) EXCEPT !.bound = TRUE, !.text = FALSE]
UndoneRow(a) == [a EXCEPT !.st = "pending", !.sent = FALSE, !.bound = FALSE]
PromptedRow(a) == [SentRow(a) EXCEPT !.text = FALSE]

\* What startStep leaves after each of its commits.
LeftByStart(h, s, snap, g) ==
    LET a == h.step[s]
        b == h.sess[s]
        m == h.memo[s]
        u == Older(h.up[s])
        d == h.down[s]
        queued == [b EXCEPT !.st = "queued"]
        sent == Append(d, Command("start", a.try))
    IN  \/ Has(h, g, s, h.run, SentRow(a), b, m, u, d)
        \/ Has(h, g, s, h.run, BoundRow(a), queued, m, u, d)
        \/ /\ Open(h)
           /\ \E r \in {h.run} \cup (IF snap = "awaiting_lead"
                                     THEN {[h.run EXCEPT !.st = "running"]} ELSE {}) :
                 Has(h, g, s, r, BoundRow(a), Receipt(queued, a.try), m, u, sent)
        \/ ~Open(h) /\ Has(h, g, s, h.run, BoundRow(a), [queued EXCEPT !.st = "failed"], m, u, d)
        \/ ~Open(h) /\ Has(h, g, s, h.run, UndoneRow(BoundRow(a)), NoRow, m, u, d)

LEMMA StartStepLeaves ==
    ASSUME EngineAssumption, NEW h \in HostType, NEW s \in Steps, NEW snap,
           NEW g \in ToSet(StartStep(h, s, snap))
    PROVE  LeftByStart(h, s, snap, g)
<1> DEFINE stamped == Stamped(h, s)
           marked == StartMarked(h, s)
           bound == StartBound(h, s)
           left == StartLeft(h, s)
           fallen == StartFallen(h, s)
           back == StartBack(h, s)
           a == h.step[s]
           b == h.sess[s]
           m == h.memo[s]
           u == Older(h.up[s])
           d == h.down[s]
           queued == [b EXCEPT !.st = "queued"]
           sent == Append(d, Command("start", a.try))
<1>1. /\ a \in StepType /\ b \in RowType /\ stamped \in HostType /\ marked \in HostType
      /\ bound \in HostType /\ left \in HostType /\ fallen \in HostType
      /\ back \in HostType
      /\ StartStep(h, s, snap) = IF Open(h) THEN <<marked, bound, left>> \o GoesOn(left, snap)
                                 ELSE <<marked, bound, fallen, back>>
  BY HostAt, StampedTyped, StartStepTyped
<1>2. Has(h, stamped, s, h.run, [a EXCEPT !.sent = TRUE], b, m, u, d)
  BY HasStamped
<1> HIDE DEF stamped, marked, bound, left, fallen, back, a, b, m, u, d, queued, sent
<1>3. Has(h, marked, s, h.run, SentRow(a), b, m, u, d)
  <2>1. marked = [stamped EXCEPT !.step[s] = [stamped.step[s] EXCEPT !.st = "starting"]]
    BY <1>1 DEF StartMarked, marked, stamped, HostType
  <2>2. stamped.step[s] = [a EXCEPT !.sent = TRUE]
    BY <1>2, HasRows
  <2>3. [[a EXCEPT !.sent = TRUE] EXCEPT !.st = "starting"] = SentRow(a)
    BY <1>1 DEF StepType, SentRow
  <2>4. marked = [stamped EXCEPT !.step[s] = SentRow(a)]
    BY <2>1, <2>2, <2>3
  <2> QED
    BY <1>1, <1>2, <2>4, HasStep
<1>4. Has(h, bound, s, h.run, BoundRow(a), queued, m, u, d)
  <2>1. bound = [marked EXCEPT !.step[s] = [marked.step[s] EXCEPT !.bound = TRUE,
                                                                !.text = FALSE],
                               !.sess[s] = [marked.sess[s] EXCEPT !.st = "queued"]]
    BY <1>1 DEF StartBound, marked, bound, HostType
  <2>2. marked.step[s] = SentRow(a) /\ marked.sess[s] = b
    BY <1>3, HasRows
  <2>3. bound = [marked EXCEPT !.step[s] = BoundRow(a), !.sess[s] = queued]
    BY <2>1, <2>2 DEF BoundRow, queued
  <2> QED
    BY <1>1, <1>3, <2>3, HasStepSess
<1>5. Has(h, left, s, h.run, BoundRow(a), Receipt(queued, a.try), m, u, sent)
  <2>1. left = Dispatch(bound, s, a.try, "start", a.try)
    BY DEF StartLeft, left, bound, a
  <2>2. Has(h, Dispatch(bound, s, a.try, "start", a.try), s, h.run, BoundRow(a),
            Receipt(queued, a.try), m, u, Append(d, Command("start", a.try)))
    BY <1>1, <1>4, HasDispatch
  <2> QED
    BY <2>1, <2>2 DEF sent
<1>6. Has(h, fallen, s, h.run, BoundRow(a), [queued EXCEPT !.st = "failed"], m, u, d)
  <2>1. fallen = [bound EXCEPT !.sess[s] = [bound.sess[s] EXCEPT !.st = "failed"]]
    BY <1>1 DEF StartFallen, bound, fallen, HostType
  <2>2. bound.sess[s] = queued
    BY <1>4, HasRows
  <2> DEFINE v == [queued EXCEPT !.st = "failed"]
  <2> HIDE DEF v
  <2>3. fallen = [bound EXCEPT !.sess[s] = v]
    BY <2>1, <2>2 DEF v
  <2>4. Has(h, fallen, s, h.run, BoundRow(a), v, m, u, d)
    BY <1>1, <1>4, <2>3, HasSess
  <2> QED
    BY <2>4 DEF v
<1>7. Has(h, back, s, h.run, UndoneRow(BoundRow(a)), NoRow, m, u, d)
  <2>1. back = [fallen EXCEPT !.step[s] = UndoneRow(fallen.step[s]), !.sess[s] = NoRow]
    BY <1>1 DEF StartBack, back, fallen, HostType, UndoneRow
  <2>2. fallen.step[s] = BoundRow(a)
    BY <1>6, HasRows
  <2> QED
    BY <1>1, <1>6, <2>1, <2>2, HasStepSess
<1>8. ASSUME g = left \/ g \in ToSet(GoesOn(left, snap))
      PROVE  \E r \in {h.run} \cup (IF snap = "awaiting_lead"
                                    THEN {[h.run EXCEPT !.st = "running"]} ELSE {}) :
                 Has(h, g, s, r, BoundRow(a), Receipt(queued, a.try), m, u, sent)
  <2>1. CASE g = left
    BY <1>5, <2>1
  <2>2. CASE g \in ToSet(GoesOn(left, snap))
    <3>1. snap = "awaiting_lead" /\ g = [left EXCEPT !.run.st = "running"]
      BY <1>1, <2>2, GoesOnSet
    <3>2. Has(h, g, s, [h.run EXCEPT !.st = "running"], BoundRow(a),
              Receipt(queued, a.try), m, u, sent)
      BY <1>1, <1>5, <3>1, HasRun
    <3> QED
      BY <3>1, <3>2
  <2> QED
    BY <1>8, <2>1, <2>2
<1>9. CASE Open(h)
  <2>1. ToSet(StartStep(h, s, snap)) = {marked, bound, left} \cup ToSet(GoesOn(left, snap))
    <3>1. <<marked, bound, left>> \in Seq(HostType) /\ GoesOn(left, snap) \in Seq(HostType)
      BY <1>1, GoesOnTyped
    <3>2. ToSet(<<marked, bound, left>>) = {marked, bound, left}
      BY ToSet3
    <3> DEFINE first == <<marked, bound, left>>
               then == GoesOn(left, snap)
    <3> HIDE DEF first, then
    <3>4. first \in Seq(HostType) /\ then \in Seq(HostType)
      BY <3>1 DEF first, then
    <3>5. ToSet(first \o then) = ToSet(first) \cup ToSet(then)
      BY <3>4, ToSetJoined
    <3>3. ToSet(<<marked, bound, left>> \o GoesOn(left, snap))
             = ToSet(<<marked, bound, left>>) \cup ToSet(GoesOn(left, snap))
      BY <3>5 DEF first, then
    <3> QED
      BY <1>1, <1>9, <3>2, <3>3
  <2> QED
    BY <1>3, <1>4, <1>8, <1>9, <2>1 DEF LeftByStart, a, b, m, u, d, queued, sent
<1>10. CASE ~Open(h)
  <2>1. ToSet(StartStep(h, s, snap)) = {marked, bound, fallen, back}
    <3>1. ToSet(<<marked, bound, fallen, back>>) = {marked, bound, fallen, back}
      BY ToSet4
    <3> QED
      BY <1>1, <1>10, <3>1
  <2> QED
    BY <1>3, <1>4, <1>6, <1>7, <1>10, <2>1 DEF LeftByStart, a, b, m, u, d, queued
<1> QED
  BY <1>9, <1>10

\* What promptStep leaves after each of its commits.
LeftByPrompt(h, s, snap, g) ==
    LET a == h.step[s]
        b == h.sess[s]
        u == Older(h.up[s])
        d == h.down[s]
        sent == Append(d, Command("prompt", a.try))
    IN  \/ Has(h, g, s, h.run, PromptedRow(a), b, 0, u, d)
        \/ /\ Open(h)
           /\ \E r \in {h.run} \cup (IF snap = "awaiting_lead"
                                     THEN {[h.run EXCEPT !.st = "running"]} ELSE {}) :
                 Has(h, g, s, r, PromptedRow(a), Receipt(b, a.try), 0, u, sent)
        \/ /\ ~Open(h)
           /\ Has(h, g, s, h.run, [PromptedRow(a) EXCEPT !.st = "pending", !.sent = FALSE],
                  b, 0, u, d)

LEMMA PromptStepLeaves ==
    ASSUME EngineAssumption, NEW h \in HostType, NEW s \in Steps, NEW snap,
           NEW g \in ToSet(PromptStep(h, s, snap))
    PROVE  LeftByPrompt(h, s, snap, g)
<1> DEFINE stamped == Stamped(h, s)
           marked == PromptMarked(h, s)
           left == PromptLeft(h, s)
           back == PromptBack(h, s)
           a == h.step[s]
           b == h.sess[s]
           u == Older(h.up[s])
           d == h.down[s]
           sent == Append(d, Command("prompt", a.try))
<1>1. /\ a \in StepType /\ b \in RowType /\ stamped \in HostType /\ marked \in HostType
      /\ left \in HostType /\ back \in HostType
      /\ PromptStep(h, s, snap) = IF Open(h) THEN <<marked, left>> \o GoesOn(left, snap)
                                  ELSE <<marked, back>>
  BY HostAt, StampedTyped, PromptStepTyped
<1>2. Has(h, stamped, s, h.run, [a EXCEPT !.sent = TRUE], b, h.memo[s], u, d)
  BY HasStamped
<1> HIDE DEF stamped, marked, left, back, a, b, u, d, sent
<1>3. Has(h, marked, s, h.run, PromptedRow(a), b, 0, u, d)
  <2>1. marked = [stamped EXCEPT !.step[s] = [stamped.step[s] EXCEPT !.st = "starting",
                                                                  !.text = FALSE],
                                 !.memo[s] = 0]
    BY <1>1 DEF PromptMarked, marked, stamped, HostType
  <2>2. stamped.step[s] = [a EXCEPT !.sent = TRUE]
    BY <1>2, HasRows
  <2>3. [[a EXCEPT !.sent = TRUE] EXCEPT !.st = "starting", !.text = FALSE]
           = PromptedRow(a)
    BY <1>1 DEF StepType, SentRow, PromptedRow
  <2>4. marked = [stamped EXCEPT !.step[s] = PromptedRow(a), !.memo[s] = 0]
    BY <2>1, <2>2, <2>3
  <2> QED
    BY <1>1, <1>2, <2>4, HasStepMemo
<1>4. Has(h, left, s, h.run, PromptedRow(a), Receipt(b, a.try), 0, u, sent)
  <2>1. left = Dispatch(marked, s, a.try, "prompt", a.try)
    BY DEF PromptLeft, left, marked, a
  <2>2. Has(h, Dispatch(marked, s, a.try, "prompt", a.try), s, h.run, PromptedRow(a),
            Receipt(b, a.try), 0, u, Append(d, Command("prompt", a.try)))
    BY <1>1, <1>3, HasDispatch
  <2> QED
    BY <2>1, <2>2 DEF sent
<1>5. Has(h, back, s, h.run, [PromptedRow(a) EXCEPT !.st = "pending", !.sent = FALSE],
          b, 0, u, d)
  <2>1. back = [marked EXCEPT !.step[s] = [marked.step[s] EXCEPT !.st = "pending",
                                                              !.sent = FALSE]]
    BY <1>1 DEF PromptBack, back, marked, HostType
  <2>2. marked.step[s] = PromptedRow(a)
    BY <1>3, HasRows
  <2> DEFINE v == [PromptedRow(a) EXCEPT !.st = "pending", !.sent = FALSE]
  <2> HIDE DEF v
  <2>3. back = [marked EXCEPT !.step[s] = v]
    BY <2>1, <2>2 DEF v
  <2>4. Has(h, back, s, h.run, v, b, 0, u, d)
    BY <1>1, <1>3, <2>3, HasStep
  <2> QED
    BY <2>4 DEF v
<1>6. ASSUME g = left \/ g \in ToSet(GoesOn(left, snap))
      PROVE  \E r \in {h.run} \cup (IF snap = "awaiting_lead"
                                    THEN {[h.run EXCEPT !.st = "running"]} ELSE {}) :
                 Has(h, g, s, r, PromptedRow(a), Receipt(b, a.try), 0, u, sent)
  <2>1. CASE g = left
    BY <1>4, <2>1
  <2>2. CASE g \in ToSet(GoesOn(left, snap))
    <3>1. snap = "awaiting_lead" /\ g = [left EXCEPT !.run.st = "running"]
      BY <1>1, <2>2, GoesOnSet
    <3>2. Has(h, g, s, [h.run EXCEPT !.st = "running"], PromptedRow(a),
              Receipt(b, a.try), 0, u, sent)
      BY <1>1, <1>4, <3>1, HasRun
    <3> QED
      BY <3>1, <3>2
  <2> QED
    BY <1>6, <2>1, <2>2
<1>7. CASE Open(h)
  <2>1. ToSet(PromptStep(h, s, snap)) = {marked, left} \cup ToSet(GoesOn(left, snap))
    <3>1. <<marked, left>> \in Seq(HostType) /\ GoesOn(left, snap) \in Seq(HostType)
      BY <1>1, GoesOnTyped
    <3>2. ToSet(<<marked, left>>) = {marked, left}
      BY ToSet2
    <3> DEFINE first == <<marked, left>>
               then == GoesOn(left, snap)
    <3> HIDE DEF first, then
    <3>3. first \in Seq(HostType) /\ then \in Seq(HostType)
      BY <3>1 DEF first, then
    <3>4. ToSet(first \o then) = ToSet(first) \cup ToSet(then)
      BY <3>3, ToSetJoined
    <3> QED
      BY <1>1, <1>7, <3>2, <3>4 DEF first, then
  <2> QED
    BY <1>3, <1>6, <1>7, <2>1 DEF LeftByPrompt, a, b, u, d, sent
<1>8. CASE ~Open(h)
  <2>1. ToSet(PromptStep(h, s, snap)) = {marked, back}
    BY <1>1, <1>8, ToSet2
  <2> QED
    BY <1>3, <1>5, <1>8, <2>1 DEF LeftByPrompt, a, b, u, d
<1> QED
  BY <1>7, <1>8

\* What resumeStep leaves after each of its commits.
ResentRow(a) == [a EXCEPT !.sent = TRUE]
FallenRow(b) == [b EXCEPT !.st = "failed", !.done = 0]
LeftByResume(h, s, g) ==
    LET a == h.step[s]
        b == [h.sess[s] EXCEPT !.st = "starting"]
        u == Older(h.up[s])
        d == h.down[s]
    IN  \/ Has(h, g, s, h.run, ResentRow(a), h.sess[s], 0, u, d)
        \/ Has(h, g, s, h.run, ResentRow(a), b, 0, u, d)
        \/ \E by \in 0..Session :
              Has(h, g, s, h.run, ResentRow(a), Receipt(b, by), 0, u,
                  Append(d, Command("resume", 0)))
        \/ ~Open(h) /\ Has(h, g, s, h.run, ResentRow(a), FallenRow(b), 0, u, d)
        \/ ~Open(h) /\ \E x \in HostType :
              /\ Has(h, x, s, h.run, [a EXCEPT !.sent = FALSE], FallenRow(b), 0, u, d)
              /\ g \in ToSet(Settle(x, s, "failed"))

LEMMA ResumeStepLeaves ==
    ASSUME EngineAssumption, NEW h \in HostType, NEW s \in Steps,
           NEW g \in ToSet(ResumeStep(h, s))
    PROVE  LeftByResume(h, s, g)
<1> DEFINE stamped == Stamped(h, s)
           marked == ResumeMarked(h, s)
           row == ResumeRow(h, s)
           gone == ResumeLeft(h, s)
           fallen == ResumeFallen(h, s)
           unsent == ResumeUnsent(h, s)
           key == AttemptKey(row, s)
           a == h.step[s]
           b == [h.sess[s] EXCEPT !.st = "starting"]
           u == Older(h.up[s])
           d == h.down[s]
<1>1. /\ a \in StepType /\ h.sess[s] \in RowType /\ stamped \in HostType
      /\ marked \in HostType /\ row \in HostType
      /\ gone \in HostType /\ fallen \in HostType /\ unsent \in HostType
      /\ ResumeStep(h, s) = IF Open(h) THEN <<marked, row, gone>>
                            ELSE <<marked, row, fallen>> \o Settle(unsent, s, "failed")
  BY HostAt, StampedTyped, ResumeStepTyped
<1>2. Has(h, stamped, s, h.run, ResentRow(a), h.sess[s], h.memo[s], u, d)
  BY HasStamped DEF ResentRow
<1> HIDE DEF stamped, marked, row, gone, fallen, unsent, key, a, b, u, d
<1>3. Has(h, marked, s, h.run, ResentRow(a), h.sess[s], 0, u, d)
  <2>1. marked = [stamped EXCEPT !.memo[s] = 0]
    BY DEF ResumeMarked, marked, stamped
  <2> QED
    BY <1>1, <1>2, <2>1, HasMemo
<1>4. Has(h, row, s, h.run, ResentRow(a), b, 0, u, d)
  <2>1. row = [marked EXCEPT !.sess[s] = [marked.sess[s] EXCEPT !.st = "starting"]]
    BY <1>1 DEF ResumeRow, marked, row, HostType
  <2>2. marked.sess[s] = h.sess[s]
    BY <1>3, HasRows
  <2>3. row = [marked EXCEPT !.sess[s] = b]
    BY <2>1, <2>2 DEF b
  <2> QED
    BY <1>1, <1>3, <2>3, HasSess
<1>5. key \in 0..Session
  <2>1. row.step[s] \in StepType
    BY <1>1, HostAt
  <2> QED
    BY <2>1, Numbers DEF StepType, AttemptKey, key
<1>6. Has(h, gone, s, h.run, ResentRow(a), Receipt(b, key), 0, u,
          Append(d, Command("resume", 0)))
  <2>1. gone = Dispatch(row, s, key, "resume", 0)
    BY DEF ResumeLeft, gone, row, key
  <2> QED
    BY <1>1, <1>4, <2>1, HasDispatch
<1>7. Has(h, fallen, s, h.run, ResentRow(a), FallenRow(b), 0, u, d)
  <2>1. fallen = [row EXCEPT !.sess[s] = FallenRow(row.sess[s])]
    BY <1>1 DEF ResumeFallen, row, fallen, HostType, FallenRow
  <2>2. row.sess[s] = b
    BY <1>4, HasRows
  <2> QED
    BY <1>1, <1>4, <2>1, <2>2, HasSess
<1>8. Has(h, unsent, s, h.run, [a EXCEPT !.sent = FALSE], FallenRow(b), 0, u, d)
  <2>1. unsent = [fallen EXCEPT !.step[s] = [fallen.step[s] EXCEPT !.sent = FALSE]]
    BY <1>1 DEF ResumeUnsent, unsent, fallen, HostType
  <2>2. fallen.step[s] = ResentRow(a)
    BY <1>7, HasRows
  <2>3. [ResentRow(a) EXCEPT !.sent = FALSE] = [a EXCEPT !.sent = FALSE]
    BY <1>1 DEF StepType, ResentRow
  <2> DEFINE v == [a EXCEPT !.sent = FALSE]
  <2> HIDE DEF v
  <2>4. unsent = [fallen EXCEPT !.step[s] = v]
    BY <2>1, <2>2, <2>3 DEF v
  <2>5. Has(h, unsent, s, h.run, v, FallenRow(b), 0, u, d)
    BY <1>1, <1>7, <2>4, HasStep
  <2> QED
    BY <2>5 DEF v
<1>9. CASE Open(h)
  <2>1. ToSet(ResumeStep(h, s)) = {marked, row, gone}
    BY <1>1, <1>9, ToSet3
  <2> QED
    BY <1>3, <1>4, <1>5, <1>6, <2>1 DEF LeftByResume, a, b, u, d
<1>10. CASE ~Open(h)
  <2> DEFINE first == <<marked, row, fallen>>
             then == Settle(unsent, s, "failed")
  <2>1. first \in Seq(HostType) /\ then \in Seq(HostType)
    BY <1>1, SettleTyped
  <2>2. ToSet(first) = {marked, row, fallen}
    BY ToSet3
  <2>3. ResumeStep(h, s) = first \o then
    BY <1>1, <1>10
  <2> HIDE DEF first, then
  <2>4. g \in {marked, row, fallen} \cup ToSet(then)
    BY <2>1, <2>2, <2>3, ToSetJoined
  <2>5. CASE g \in ToSet(then)
    BY <1>1, <1>8, <1>10, <2>5 DEF LeftByResume, a, b, u, d, then
  <2> QED
    BY <1>3, <1>4, <1>7, <1>10, <2>4, <2>5 DEF LeftByResume, a, b, u, d
<1> QED
  BY <1>9, <1>10

\* Whatever a dispatch is of, it is of one step.
LEMMA DispatchesLeave ==
    ASSUME EngineAssumption, NEW h \in HostType, NEW s \in Steps, NEW g,
           Dispatches(h, s, g)
    PROVE  Only(h, g, s)
<1>1. PICK snap \in RunStates :
         \/ g \in ToSet(StartStep(h, s, snap)) \/ g \in ToSet(PromptStep(h, s, snap))
         \/ g \in ToSet(ResumeStep(h, s))
  BY DEF Dispatches
<1>2. CASE g \in ToSet(StartStep(h, s, snap))
  <2>1. LeftByStart(h, s, snap, g)
    BY <1>2, StartStepLeaves
  <2> QED
    BY <2>1, HasRows DEF LeftByStart
<1>3. CASE g \in ToSet(PromptStep(h, s, snap))
  <2>1. LeftByPrompt(h, s, snap, g)
    BY <1>3, PromptStepLeaves
  <2> QED
    BY <2>1, HasRows DEF LeftByPrompt
<1>4. CASE g \in ToSet(ResumeStep(h, s))
  <2>1. LeftByResume(h, s, g)
    BY <1>4, ResumeStepLeaves
  <2>2. ASSUME NEW x \in HostType, NEW a, NEW b, NEW u, NEW d,
               Has(h, x, s, h.run, a, b, 0, u, d),
               g \in ToSet(Settle(x, s, "failed"))
        PROVE  Only(h, g, s)
    <3>1. Only(h, x, s)
      BY <2>2, HasRows
    <3>2. Only(x, g, s)
      BY <2>2, SettleLeaves
    <3> QED
      BY <3>1, <3>2, OnlyTransitive
  <2> QED
    BY <2>1, <2>2, HasRows DEF LeftByResume
<1> QED
  BY <1>1, <1>2, <1>3, <1>4

-----------------------------------------------------------------------------
(* Carrying out a plan: every commit is a move                             *)

Judged(p) == p.advances \cup p.won \cup p.lost \cup p.late
Out(p) == Goes(p) \cup p.unresumed

\* The state the plan p, made of h0, gives the step s once the steps J have been
\* judged and the steps S skipped.
Expected(h0, p, J, S, s) ==
    IF s \in S \cap p.doomed THEN "skipped"
    ELSE IF s \in J THEN EffectiveOf(h0, p)[s] ELSE h0.step[s].st

Touched(p, J, S, P, G) ==
    (J \cap Judged(p)) \cup (S \cap p.doomed) \cup (P \cap p.parked) \cup (G \cap Out(p))

\* What is known of h when the plan p, made of h0, has been carried out for the
\* steps J, S, P and G in its four phases.
Along(h0, p, J, S, P, G, h) ==
    /\ h.link = h0.link
    /\ \A s \in Steps \ (G \cap Out(p)) : h.step[s].st = Expected(h0, p, J, S, s)
    /\ \A s \in Steps \ Touched(p, J, S, P, G) : SameAt(h0, h, s)
    /\ G \cap Goes(p) = {} => Steady(h0, h)

Planned(h0, p, K) ==
    /\ K \subseteq HostType /\ h0 \in K /\ ClosedUnderMoves(K)
    /\ PlanRight(h0, p) /\ h0.run.st \notin Closed

LEMMA AlongOn ==
    ASSUME NEW h0, NEW p, NEW J, NEW S, NEW P, NEW G, NEW h, Along(h0, p, J, S, P, G, h),
           NEW s \in Steps, NEW g, Only(h, g, s),
           NEW J2, NEW S2, NEW P2, NEW G2,
           J2 \in {J, J \cup {s}}, S2 \in {S, S \cup {s}}, P2 \in {P, P \cup {s}},
           G2 \in {G, G \cup {s}},
           s \in G2 \cap Out(p) \/ g.step[s].st = Expected(h0, p, J2, S2, s),
           s \in Touched(p, J2, S2, P2, G2) \/ SameAt(h0, g, s),
           G2 \cap Goes(p) = {} => Steady(h, g)
    PROVE  Along(h0, p, J2, S2, P2, G2, g)
<1>1. g.link = h0.link
  BY DEF Along, Only
<1>2. ASSUME NEW o \in Steps \ (G2 \cap Out(p))
      PROVE  g.step[o].st = Expected(h0, p, J2, S2, o)
  <2>1. CASE o = s
    BY <1>2, <2>1
  <2>2. CASE o # s
    <3>1. o \in Steps \ (G \cap Out(p)) /\ g.step[o] = h.step[o]
      BY <1>2, <2>2 DEF Only, SameAt
    <3>2. h.step[o].st = Expected(h0, p, J, S, o)
      BY <3>1 DEF Along
    <3>3. Expected(h0, p, J2, S2, o) = Expected(h0, p, J, S, o)
      BY <2>2 DEF Expected
    <3> QED
      BY <3>1, <3>2, <3>3
  <2> QED
    BY <2>1, <2>2
<1>3. ASSUME NEW o \in Steps \ Touched(p, J2, S2, P2, G2) PROVE SameAt(h0, g, o)
  <2>1. CASE o = s
    BY <1>3, <2>1
  <2>2. CASE o # s
    <3>1. o \in Steps \ Touched(p, J, S, P, G)
      BY <1>3, <2>2 DEF Touched
    <3>2. SameAt(h0, h, o) /\ SameAt(h, g, o)
      BY <2>2, <3>1 DEF Along, Only
    <3> QED
      BY <3>2 DEF SameAt
  <2> QED
    BY <2>1, <2>2
<1>4. ASSUME G2 \cap Goes(p) = {} PROVE Steady(h0, g)
  <2>1. G \cap Goes(p) = {}
    BY <1>4
  <2>2. Steady(h0, h)
    BY <2>1 DEF Along
  <2> QED
    BY <1>4, <2>2, SteadyTransitive
<1> QED
  BY <1>1, <1>2, <1>3, <1>4 DEF Along

LEMMA OnlySelf ==
    ASSUME NEW h, NEW s
    PROVE  Only(h, h, s) /\ Steady(h, h) /\ SameAt(h, h, s)
BY DEF Only, Steady, SameAt

LEMMA AllMoves ==
    ASSUME NEW K \in SUBSET HostType, ClosedUnderMoves(K), NEW h \in K,
           NEW t \in Seq(HostType), \A g \in ToSet(t) : Moves(h, g)
    PROVE  t \in Seq(K)
<1>1. \A g \in ToSet(t) : g \in HostType
  <2>1. \A i \in DOMAIN t : t[i] \in HostType
    OBVIOUS
  <2> QED
    BY <2>1 DEF ToSet
<1>2. \A g \in ToSet(t) : g \in K
  BY <1>1 DEF ClosedUnderMoves
<1> QED
  BY <1>2, TrailIn

\* Judging a step first sets it running, if its dispatch is answered.
Advanced(h, p, s) == IF s \in p.advances THEN [h EXCEPT !.step[s].st = "running"] ELSE h
Went(h, p, s) ==
    IF s \in p.advances THEN <<[h EXCEPT !.step[s].st = "running"]>> ELSE <<>>

LEMMA JudgeSpelled ==
    ASSUME NEW h, NEW p, NEW s
    PROVE  Judge(h, p, s) =
             CASE s \in p.won -> Went(h, p, s) \o Settle(Advanced(h, p, s), s, "succeeded")
               [] s \in p.lost -> Went(h, p, s) \o Settle(Advanced(h, p, s), s, "failed")
               [] s \in p.late -> Went(h, p, s) \o StopSession(Advanced(h, p, s), s)
               [] OTHER -> Went(h, p, s)
BY DEF Judge, Went, Advanced

WithSt(h, s, st) == [h EXCEPT !.step[s].st = st]

LEMMA SetStGives ==
    ASSUME NEW h \in HostType, NEW s \in Steps, NEW st, NEW g, g = WithSt(h, s, st)
    PROVE  /\ Only(h, g, s) /\ Steady(h, g) /\ g.run = h.run /\ g.mail = h.mail
           /\ g.sess = h.sess /\ g.memo = h.memo /\ g.up = h.up /\ g.down = h.down
           /\ g.step[s].st = st /\ g.step[s].bound = h.step[s].bound
           /\ g.step[s].try = h.step[s].try /\ g.step[s].text = h.step[s].text
           /\ g.step[s].sent = h.step[s].sent
<1>1. /\ Only(h, g, s) /\ Steady(h, g) /\ g.step[s] = [h.step[s] EXCEPT !.st = st]
      /\ g.run = h.run /\ g.mail = h.mail
      /\ g.sess = h.sess /\ g.memo = h.memo /\ g.up = h.up /\ g.down = h.down
  BY SetStLeaves DEF WithSt
<1>2. h.step[s] \in StepType
  BY HostAt
<1> QED
  BY <1>1, <1>2 DEF StepType

LEMMA WithStTyped ==
    ASSUME NEW h \in HostType, NEW s \in Steps,
           NEW st \in Settled \cup InFlight \cup {"none", "pending"}
    PROVE  WithSt(h, s, st) \in HostType
BY SetStTyped DEF WithSt

LEMMA AdvanceKeeps ==
    ASSUME EngineAssumption, NEW K, NEW h0, NEW p, Planned(h0, p, K), NEW J, NEW h \in K,
           Along(h0, p, J, {}, {}, {}, h), NEW s \in Steps, s \notin J
    PROVE  LET at == Advanced(h, p, s)
           IN  /\ at \in K /\ Went(h, p, s) \in Seq(K)
               /\ Went(h, p, s) = IF s \in p.advances THEN <<at>> ELSE <<>>
               /\ Only(h, at, s) /\ Steady(h, at) /\ at.link = h0.link
               /\ at.step[s].st = (IF s \in p.advances THEN "running" ELSE h0.step[s].st)
               /\ at.step[s].bound = h0.step[s].bound /\ at.sess[s] = h0.sess[s]
               /\ Turned(at, s) = Turned(h0, s) /\ (Quiet(h0, s) => Quiet(at, s))
               /\ (s \notin p.advances => SameAt(h0, at, s))
<1> DEFINE at == Advanced(h, p, s)
<1>1. /\ K \in SUBSET HostType /\ h \in HostType /\ h0 \in HostType /\ h.link = h0.link
      /\ SameAt(h0, h, s) /\ ClosedUnderMoves(K)
  BY DEF Planned, Along, Touched
<1>2. CASE s \notin p.advances
  <2>1. at = h /\ Went(h, p, s) = <<>>
    BY <1>2 DEF Advanced, Went
  <2>2. Only(h, h, s) /\ Steady(h, h)
    BY OnlySelf
  <2>3. Turned(h, s) = Turned(h0, s) /\ (Quiet(h0, s) => Quiet(h, s))
    BY <1>1 DEF SameAt, Turned, Quiet
  <2>4. h.step[s] = h0.step[s] /\ h.sess[s] = h0.sess[s] /\ <<>> \in Seq(K)
    BY <1>1 DEF SameAt
  <2> QED
    BY <1>1, <1>2, <2>1, <2>2, <2>3, <2>4
<1>3. CASE s \in p.advances
  <2>1. at = [h EXCEPT !.step[s].st = "running"] /\ Went(h, p, s) = <<at>>
    BY <1>3 DEF Advanced, Went
  <2>2. MayAdvance(h, s)
    <3>1. MayAdvance(h0, s)
      BY <1>3 DEF Planned, PlanRight, JudgesRight
    <3> QED
      <4>1. /\ h.step[s] = h0.step[s] /\ h.sess[s] = h0.sess[s] /\ h.memo[s] = h0.memo[s]
        BY <1>1 DEF SameAt
      <4> QED
        BY <3>1, <4>1 DEF MayAdvance, Answered, Turned
  <2>3. at \in HostType
    <3>1. at = WithSt(h, s, "running") /\ "running" \in InFlight
      BY <2>1 DEF WithSt, InFlight
    <3> QED
      BY <1>1, <3>1, WithStTyped
  <2>4. at \in K
    <3>1. Moves(h, at)
      BY <2>1, <2>2 DEF Moves
    <3> QED
      BY <1>1, <2>3, <3>1 DEF ClosedUnderMoves
  <2> HIDE DEF at
  <2>5. /\ Only(h, at, s) /\ Steady(h, at) /\ at.sess = h.sess /\ at.memo = h.memo
        /\ at.up = h.up /\ at.down = h.down
        /\ at.step[s].st = "running" /\ at.step[s].bound = h.step[s].bound
        /\ at.step[s].try = h.step[s].try /\ at.step[s].text = h.step[s].text
    <3>1. at = WithSt(h, s, "running")
      BY <2>1 DEF WithSt
    <3>2. h \in HostType
      BY <1>1
    <3>3. Only(h, at, s) /\ Steady(h, at)
      BY <3>1, <3>2, SetStGives
    <3>4. /\ at.sess = h.sess /\ at.memo = h.memo /\ at.up = h.up /\ at.down = h.down
      BY <3>1, <3>2, SetStGives
    <3> QED
      BY <3>1, <3>2, <3>3, <3>4, SetStGives
  <2> HIDE DEF at
  <2>7. Turned(at, s) = Turned(h0, s) /\ (Quiet(h0, s) => Quiet(at, s))
    <3>1. /\ h.step[s] = h0.step[s] /\ h.sess[s] = h0.sess[s] /\ h.memo[s] = h0.memo[s]
          /\ h.up[s] = h0.up[s] /\ h.down[s] = h0.down[s]
      BY <1>1 DEF SameAt
    <3>2. Turned(at, s) = Turned(h0, s)
      BY <2>5, <3>1 DEF Turned
    <3>3. Quiet(h0, s) => Quiet(at, s)
      BY <2>5, <3>1 DEF Quiet
    <3> QED
      BY <3>2, <3>3
  <2>8. <<at>> \in Seq(K)
    BY <2>4
  <2> QED
    BY <1>1, <1>3, <2>1, <2>4, <2>5, <2>7, <2>8 DEF at, SameAt, Only
<1> QED
  BY <1>2, <1>3

\* The trail t from h touches only the step s, lets the workers be as they are
\* and ends in g.
Leads(K, h, t, g, s) ==
    t \in Seq(K) /\ End(h, t) = g /\ Only(h, g, s) /\ Steady(h, g)

MaySettle(h, s, to) ==
    \/ to = "succeeded" /\ MayWin(h, s)
    \/ to = "failed" /\ MayLose(h, s)

LEMMA SettleRow ==
    ASSUME EngineAssumption, NEW h \in HostType, NEW s \in Steps,
           NEW to \in {"succeeded", "failed"}, NEW g \in ToSet(Settle(h, s, to))
    PROVE  /\ g.step[s].st = to /\ g.step[s].bound = h.step[s].bound
           /\ g.step[s].try = h.step[s].try /\ g.step[s].sent = h.step[s].sent
           /\ g.sess[s].st = h.sess[s].st /\ g.sess[s].stop = h.sess[s].stop
           /\ g.sess[s].agent = h.sess[s].agent /\ g.sess[s].intent = h.sess[s].intent
           /\ g.sess[s].done = 0 /\ g.memo[s] = 0 /\ g.sess[s].by = h.sess[s].by
           /\ g.run.st = (IF led /\ h.run.st = "running" THEN "awaiting_lead" ELSE h.run.st)
           /\ g.up = h.up /\ g.down = h.down /\ g.mail = h.mail /\ g.link = h.link
<1>1. g = [h EXCEPT !.step[s].st = to, !.run.owed = TRUE,
                    !.run.st = IF led /\ @ = "running" THEN "awaiting_lead" ELSE @,
                    !.sess[s].done = 0, !.memo[s] = 0]
  BY DEF Settle, ToSet
<1>2. /\ h.run \in RunType /\ h.sess \in [Steps -> RowType]
      /\ h.step \in [Steps -> StepType] /\ h.memo \in [Steps -> 0..Session]
      /\ h.step[s] \in StepType /\ h.sess[s] \in RowType
  BY HostParts, HostAt
<1>3. /\ g.link = h.link /\ g.mail = h.mail /\ g.up = h.up /\ g.down = h.down
      /\ g.step = [h.step EXCEPT ![s] = [h.step[s] EXCEPT !.st = to]]
      /\ g.sess = [h.sess EXCEPT ![s] = [h.sess[s] EXCEPT !.done = 0]]
      /\ g.memo = [h.memo EXCEPT ![s] = 0]
      /\ g.run.st = (IF led /\ h.run.st = "running" THEN "awaiting_lead" ELSE h.run.st)
  BY <1>1, <1>2 DEF HostType, RunType
<1>4. /\ g.step[s] = [h.step[s] EXCEPT !.st = to]
      /\ g.sess[s] = [h.sess[s] EXCEPT !.done = 0] /\ g.memo[s] = 0
  BY <1>2, <1>3
<1>5. /\ g.step[s].st = to /\ g.step[s].bound = h.step[s].bound
      /\ g.step[s].try = h.step[s].try /\ g.step[s].sent = h.step[s].sent
  BY <1>2, <1>4 DEF StepType
<1>6. /\ g.sess[s].st = h.sess[s].st /\ g.sess[s].stop = h.sess[s].stop
      /\ g.sess[s].agent = h.sess[s].agent /\ g.sess[s].intent = h.sess[s].intent
      /\ g.sess[s].done = 0 /\ g.sess[s].by = h.sess[s].by
  BY <1>2, <1>4 DEF RowType
<1> QED
  BY <1>3, <1>4, <1>5, <1>6

LEMMA SettleMoves ==
    ASSUME EngineAssumption, NEW K \in SUBSET HostType, ClosedUnderMoves(K), NEW h \in K,
           NEW s \in Steps, NEW to \in {"succeeded", "failed"}, MaySettle(h, s, to)
    PROVE  LET t == Settle(h, s, to)
           IN  /\ Leads(K, h, t, End(h, t), s) /\ t # <<>> /\ End(h, t).step[s].st = to
<1> DEFINE t == Settle(h, s, to)
<1>1. h \in HostType /\ t \in Seq(HostType)
  BY SettleTyped
<1>2. \A g \in ToSet(t) : Moves(h, g)
  BY DEF Moves, MaySettle
<1>3. t \in Seq(K)
  <2> HIDE DEF t
  <2> QED
    BY <1>1, <1>2, AllMoves
<1>4. CanStep(h.step[s].st, to)
  BY DEF MaySettle, MayWin, MayLose, CanStep, StepTransitions
<1>5. t # <<>> /\ Last(t) \in ToSet(t)
  BY <1>1, <1>4, SettleEnd
<1> DEFINE g == Last(t)
<1>6. Only(h, g, s) /\ Steady(h, g)
  <2>1. g \in ToSet(Settle(h, s, to))
    BY <1>5
  <2> HIDE DEF g, t
  <2> QED
    BY <1>1, <2>1, SettleLeaves
<1>7. g.step[s].st = to
  <2>1. g \in ToSet(Settle(h, s, to))
    BY <1>5
  <2> HIDE DEF g, t
  <2> QED
    BY <1>1, <2>1, SettleRow
<1>8. End(h, t) = g
  BY <1>5 DEF End
<1> HIDE DEF g, t
<1> QED
  BY <1>3, <1>5, <1>6, <1>7, <1>8 DEF Leads, t

LEMMA StopMoves ==
    ASSUME EngineAssumption, NEW K \in SUBSET HostType, ClosedUnderMoves(K), NEW h \in K,
           NEW s \in Steps
    PROVE  LET t == StopSession(h, s)
           IN  /\ Leads(K, h, t, End(h, t), s)
               /\ End(h, t).step[s].st = h.step[s].st
<1> DEFINE t == StopSession(h, s)
<1>1. h \in HostType /\ t \in Seq(HostType)
  BY StopSessionTyped
<1>2. \A g \in ToSet(t) : Moves(h, g)
  BY DEF Moves
<1>3. t \in Seq(K)
  <2> HIDE DEF t
  <2> QED
    BY <1>1, <1>2, AllMoves
<1> DEFINE g == End(h, t)
<1>4. CASE t = <<>>
  <2>1. g = h
    BY <1>4 DEF End
  <2>2. Only(h, h, s) /\ Steady(h, h)
    BY OnlySelf
  <2> QED
    BY <1>3, <1>4, <2>1, <2>2 DEF Leads
<1>5. CASE t # <<>>
  <2>1. g \in ToSet(t)
    <3> HIDE DEF t
    <3> QED
      BY <1>1, <1>5, LastIn DEF End
  <2> HIDE DEF g
  <2>2. Only(h, g, s) /\ Steady(h, g) /\ g.step = h.step
    BY <1>1, <2>1, StopLeaves
  <2> QED
    BY <1>3, <2>2 DEF g, Leads
<1> QED
  BY <1>4, <1>5

LEMMA LeadsNone ==
    ASSUME NEW K, NEW h \in K, NEW s
    PROVE  Leads(K, h, <<>>, h, s)
BY OnlySelf DEF Leads, End

LEMMA LeadsThen ==
    ASSUME NEW K, NEW h \in K, NEW s, NEW t, NEW at, NEW u, NEW g,
           Leads(K, h, t, at, s), Leads(K, at, u, g, s)
    PROVE  Leads(K, h, t \o u, g, s)
<1>1. t \in Seq(K) /\ u \in Seq(K) /\ at = End(h, t) /\ g = End(at, u)
  BY DEF Leads
<1>2. t \o u \in Seq(K)
  BY <1>1, JoinedSeqs
<1>3. End(h, t \o u) = g
  <2>1. CASE u = <<>>
    <3>1. t \o u = t
      BY <1>1, <2>1, JoinedSeqs
    <3> QED
      BY <1>1, <2>1, <3>1 DEF End
  <2>2. CASE u # <<>>
    <3>1. t \o u # <<>>
      BY <1>1, <2>2, JoinedSeqs
    <3>2. Last(t \o u) = Last(u)
      BY <1>1, <2>2, JoinedSeqs
    <3> QED
      BY <1>1, <2>2, <3>1, <3>2 DEF End
  <2> QED
    BY <2>1, <2>2
<1>4. Only(h, g, s) /\ Steady(h, g)
  BY OnlyTransitive, SteadyTransitive DEF Leads
<1> QED
  BY <1>2, <1>3, <1>4 DEF Leads

LEMMA JudgeStep ==
    ASSUME EngineAssumption, NEW K, NEW h0, NEW p, Planned(h0, p, K), NEW J, NEW h \in K,
           Along(h0, p, J, {}, {}, {}, h), NEW s \in Steps, s \notin J
    PROVE  /\ Judge(h, p, s) \in Seq(K)
           /\ Along(h0, p, J \cup {s}, {}, {}, {}, End(h, Judge(h, p, s)))
<1> DEFINE at == Advanced(h, p, s)
           went == Went(h, p, s)
           eff == EffectiveOf(h0, p)
<1>1. /\ at \in K /\ went \in Seq(K)
      /\ went = IF s \in p.advances THEN <<at>> ELSE <<>>
      /\ Only(h, at, s) /\ Steady(h, at) /\ at.link = h0.link
      /\ at.step[s].st = (IF s \in p.advances THEN "running" ELSE h0.step[s].st)
      /\ at.step[s].bound = h0.step[s].bound /\ at.sess[s] = h0.sess[s]
      /\ Turned(at, s) = Turned(h0, s) /\ (Quiet(h0, s) => Quiet(at, s))
      /\ (s \notin p.advances => SameAt(h0, at, s))
  BY AdvanceKeeps
<1>2. s \notin p.advances => at = h
  BY DEF Advanced
<1>3. /\ K \in SUBSET HostType /\ ClosedUnderMoves(K) /\ JudgesRight(h0, p)
  BY DEF Planned, PlanRight
<1>4. Judge(h, p, s) = CASE s \in p.won -> went \o Settle(at, s, "succeeded")
                         [] s \in p.lost -> went \o Settle(at, s, "failed")
                         [] s \in p.late -> went \o StopSession(at, s)
                         [] OTHER -> went
  BY JudgeSpelled
<1> HIDE DEF at, went
<1>11. Leads(K, h, went, at, s)
  <2>1. End(h, went) = at
    <3>1. Last(<<at>>) = at /\ <<at>> # <<>>
      BY DEF Last
    <3> QED
      BY <1>1, <1>2, <3>1 DEF End
  <2> QED
    BY <1>1, <2>1 DEF Leads
<1>5. ASSUME NEW t, Judge(h, p, s) = went \o t, NEW g, Leads(K, at, t, g, s),
             g.step[s].st = eff[s], s \in Judged(p) \/ g = at
      PROVE  /\ Judge(h, p, s) \in Seq(K)
             /\ Along(h0, p, J \cup {s}, {}, {}, {}, End(h, Judge(h, p, s)))
  <2>1. Leads(K, h, went \o t, g, s)
    BY <1>5, <1>11, LeadsThen
  <2>2. g.step[s].st = Expected(h0, p, J \cup {s}, {}, s)
    BY <1>5 DEF Expected
  <2>3. s \in Touched(p, J \cup {s}, {}, {}, {}) \/ SameAt(h0, g, s)
    <3>1. CASE s \in Judged(p)
      BY <3>1 DEF Touched
    <3>2. CASE s \notin Judged(p)
      BY <1>1, <1>5, <3>2 DEF Judged
    <3> QED
      BY <3>1, <3>2
  <2>4. Only(h, g, s) /\ Steady(h, g)
    BY <2>1 DEF Leads
  <2>5. Along(h0, p, J \cup {s}, {}, {}, {}, g)
    <3>1. /\ J \cup {s} \in {J, J \cup {s}} /\ {} \in {{}, {} \cup {s}}
      OBVIOUS
    <3>2. {} \cap Goes(p) = {} => Steady(h, g)
      BY <2>4
    <3>3. s \in {} \cap Out(p) \/ g.step[s].st = Expected(h0, p, J \cup {s}, {}, s)
      BY <2>2
    <3> QED
      BY <2>3, <2>4, <3>1, <3>2, <3>3, AlongOn
  <2> QED
    BY <1>5, <2>1, <2>5 DEF Leads
<1>6. eff[s] = IF s \in p.won THEN "succeeded" ELSE IF s \in p.lost THEN "failed"
               ELSE IF s \in p.advances THEN "running" ELSE h0.step[s].st
  BY DEF EffectiveOf
<1>7. CASE s \in p.won
  <2> DEFINE t == Settle(at, s, "succeeded")
  <2>1. MaySettle(at, s, "succeeded")
    <3>1. Outgoing(h0, p, s) /\ Turned(h0, s) /\ h0.sess[s].st \in {"idle", "completed"}
      BY <1>3, <1>7 DEF JudgesRight
    <3> QED
      BY <1>1, <3>1 DEF MaySettle, MayWin, Outgoing
  <2>2. Leads(K, at, t, End(at, t), s) /\ End(at, t).step[s].st = "succeeded"
    BY <1>1, <1>3, <2>1, SettleMoves
  <2>3. Judge(h, p, s) = went \o t /\ s \in Judged(p)
    BY <1>3, <1>4, <1>7 DEF JudgesRight, Judged
  <2> HIDE DEF t
  <2> QED
    BY <1>5, <1>6, <1>7, <2>2, <2>3
<1>8. CASE s \in p.lost
  <2> DEFINE t == Settle(at, s, "failed")
  <2>0. s \notin p.won /\ s \notin p.late
    BY <1>3, <1>8 DEF JudgesRight
  <2>1. MaySettle(at, s, "failed")
    <3>1. \/ Outgoing(h0, p, s) /\ (h0.step[s].bound => h0.sess[s].st \in Terminal)
          \/ /\ s \notin p.advances /\ h0.step[s].st = "starting"
             /\ h0.link # "down" /\ Quiet(h0, s)
      BY <1>3, <1>8 DEF JudgesRight
    <3> QED
      BY <1>1, <3>1 DEF MaySettle, MayLose, Outgoing
  <2>2. Leads(K, at, t, End(at, t), s) /\ End(at, t).step[s].st = "failed"
    BY <1>1, <1>3, <2>1, SettleMoves
  <2>3. Judge(h, p, s) = went \o t /\ s \in Judged(p)
    BY <1>4, <1>8, <2>0 DEF Judged
  <2> HIDE DEF t
  <2> QED
    BY <1>5, <1>6, <1>8, <2>0, <2>2, <2>3
<1>9. CASE s \in p.late
  <2> DEFINE t == StopSession(at, s)
  <2>1. s \notin p.won /\ s \notin p.lost
    BY <1>3, <1>9 DEF JudgesRight
  <2>2. Leads(K, at, t, End(at, t), s) /\ End(at, t).step[s].st = at.step[s].st
    BY <1>1, <1>3, StopMoves
  <2>3. Judge(h, p, s) = went \o t /\ s \in Judged(p)
    BY <1>4, <1>9, <2>1 DEF Judged
  <2>4. at.step[s].st = eff[s]
    BY <1>1, <1>6, <2>1
  <2> HIDE DEF t
  <2> QED
    BY <1>5, <2>2, <2>3, <2>4
<1>10. CASE s \notin p.won \cup p.lost \cup p.late
  <2>1. Judge(h, p, s) = went /\ went \o <<>> = went
    BY <1>1, <1>4, <1>10
  <2>2. at.step[s].st = eff[s]
    BY <1>1, <1>6, <1>10
  <2>3. Leads(K, at, <<>>, at, s)
    BY <1>1, LeadsNone
  <2> QED
    BY <1>5, <2>1, <2>2, <2>3
<1> QED
  BY <1>7, <1>8, <1>9, <1>10

LEMMA SkipStep ==
    ASSUME EngineAssumption, NEW K, NEW h0, NEW p, Planned(h0, p, K), NEW S, NEW h \in K,
           Along(h0, p, Steps, S, {}, {}, h), NEW s \in Steps, s \notin S
    PROVE  /\ Skip(h, p, s) \in Seq(K)
           /\ Along(h0, p, Steps, S \cup {s}, {}, {}, End(h, Skip(h, p, s)))
<1> DEFINE eff == EffectiveOf(h0, p)
<1>1. K \in SUBSET HostType /\ ClosedUnderMoves(K) /\ PlanRight(h0, p) /\ h \in HostType
  BY DEF Planned
<1>2. ASSUME NEW g, Only(h, g, s), Steady(h, g),
             g.step[s].st = Expected(h0, p, Steps, S \cup {s}, s),
             s \in p.doomed \/ g = h
      PROVE  Along(h0, p, Steps, S \cup {s}, {}, {}, g)
  <2>1. s \in Touched(p, Steps, S \cup {s}, {}, {}) \/ SameAt(h0, g, s)
    BY <1>2 DEF Along, Touched
  <2>2. /\ Steps \in {Steps, Steps \cup {s}} /\ {} \in {{}, {} \cup {s}}
        /\ S \cup {s} \in {S, S \cup {s}}
    OBVIOUS
  <2>3. {} \cap Goes(p) = {} => Steady(h, g)
    BY <1>2
  <2>4. s \in {} \cap Out(p) \/ g.step[s].st = Expected(h0, p, Steps, S \cup {s}, s)
    BY <1>2
  <2> QED
    BY <1>2, <2>1, <2>2, <2>3, <2>4, AlongOn
<1>3. \A d \in Steps : h.step[d].st = IF d \in S \cap p.doomed THEN "skipped" ELSE eff[d]
  BY DEF Along, Expected
<1>4. CASE s \notin p.doomed
  <2>1. Skip(h, p, s) = <<>> /\ End(h, <<>>) = h /\ <<>> \in Seq(K)
    BY <1>4 DEF Skip, End
  <2>2. Only(h, h, s) /\ Steady(h, h)
    BY OnlySelf
  <2>3. h.step[s].st = Expected(h0, p, Steps, S \cup {s}, s)
    BY <1>3, <1>4 DEF Expected
  <2>4. Along(h0, p, Steps, S \cup {s}, {}, {}, h)
    BY <1>2, <2>2, <2>3
  <2> QED
    BY <2>1, <2>4
<1>5. CASE s \in p.doomed
  <2> DEFINE g == WithSt(h, s, "skipped")
  <2>1. Skip(h, p, s) = <<g>>
    BY <1>5 DEF Skip, WithSt
  <2>2. GoesRight(h0, p, eff)
    BY <1>1, <1>5 DEF PlanRight, Replays
  <2>3. MaySkip(h, s)
    <3>1. /\ eff[s] = "pending"
          /\ \E d \in DependsOn[s] : eff[d] \in {"failed", "skipped", "cancelled"}
      BY <1>5, <2>2 DEF GoesRight
    <3>2. DependsOn[s] \subseteq Steps
      BY DEF EngineAssumption
    <3>3. h.step[s].st = "pending"
      BY <1>3, <3>1
    <3>4. \E d \in DependsOn[s] : h.step[d].st \in {"failed", "skipped", "cancelled"}
      BY <1>3, <3>1, <3>2
    <3> QED
      BY <3>3, <3>4 DEF MaySkip
  <2>4. g \in K
    <3>1. Moves(h, g)
      BY <2>3 DEF Moves, WithSt
    <3>2. g \in HostType
      <4>1. "skipped" \in Settled
        BY DEF Settled
      <4> QED
        BY <1>1, <4>1, WithStTyped
    <3> QED
      BY <1>1, <3>1, <3>2 DEF ClosedUnderMoves
  <2>5. Only(h, g, s) /\ Steady(h, g)
    BY <1>1, SetStGives
  <2>6. g.step[s].st = "skipped"
    BY <1>1, SetStGives
  <2> HIDE DEF g
  <2>7. <<g>> \in Seq(K) /\ End(h, <<g>>) = g
    BY <2>4 DEF End, Last
  <2>8. Along(h0, p, Steps, S \cup {s}, {}, {}, g)
    <3>1. g.step[s].st = Expected(h0, p, Steps, S \cup {s}, s)
      BY <1>5, <2>6 DEF Expected
    <3> QED
      BY <1>2, <1>5, <2>5, <3>1
  <2> QED
    BY <2>1, <2>7, <2>8
<1> QED
  BY <1>4, <1>5

LEMMA ParkStep ==
    ASSUME EngineAssumption, NEW K, NEW h0, NEW p, Planned(h0, p, K), NEW P, NEW h \in K,
           Along(h0, p, Steps, Steps, P, {}, h), NEW s \in Steps, s \notin P
    PROVE  /\ Park(h, p, s) \in Seq(K)
           /\ Along(h0, p, Steps, Steps, P \cup {s}, {}, End(h, Park(h, p, s)))
<1>1. K \in SUBSET HostType /\ ClosedUnderMoves(K) /\ h \in HostType
  BY DEF Planned
<1> DEFINE t == Park(h, p, s)
           g == End(h, t)
<1>2. Leads(K, h, t, g, s) /\ g.step[s].st = h.step[s].st /\ (s \in p.parked \/ g = h)
  <2>1. CASE s \in p.parked
    <3>1. t = StopSession(h, s)
      BY <2>1 DEF Park
    <3> HIDE DEF t
    <3> QED
      BY <1>1, <2>1, <3>1, StopMoves
  <2>2. CASE s \notin p.parked
    <3>1. t = <<>> /\ g = h
      BY <2>2 DEF Park, End
    <3> HIDE DEF t, g
    <3> QED
      BY <2>2, <3>1, LeadsNone
  <2> QED
    BY <2>1, <2>2
<1> HIDE DEF t, g
<1>3. t \in Seq(K) /\ End(h, t) = g /\ Only(h, g, s) /\ Steady(h, g)
  BY <1>2 DEF Leads
<1>4. Along(h0, p, Steps, Steps, P \cup {s}, {}, g)
  <2>1. s \in Touched(p, Steps, Steps, P \cup {s}, {}) \/ SameAt(h0, g, s)
    BY <1>2 DEF Along, Touched
  <2>2. /\ Steps \in {Steps, Steps \cup {s}} /\ {} \in {{}, {} \cup {s}}
        /\ P \cup {s} \in {P, P \cup {s}}
    OBVIOUS
  <2>3. {} \cap Goes(p) = {} => Steady(h, g)
    BY <1>3
  <2>4. s \in {} \cap Out(p) \/ g.step[s].st = Expected(h0, p, Steps, Steps, s)
    BY <1>2 DEF Along
  <2> QED
    BY <1>3, <2>1, <2>2, <2>3, <2>4, AlongOn
<1> QED
  BY <1>3, <1>4 DEF t

\* A step that goes out is as the plan found it, and so is all it waits for.
LEMMA OutIsWaiting ==
    ASSUME EngineAssumption, NEW K, NEW h0, NEW p, Planned(h0, p, K), NEW G, NEW h \in K,
           Along(h0, p, Steps, Steps, Steps, G, h), NEW s \in Steps, s \notin G,
           s \in Out(p)
    PROVE  /\ SameAt(h0, h, s) /\ h.step[s].st = "pending" /\ h.link \in {"up", "closing"}
           /\ GoesRight(h0, p, EffectiveOf(h0, p)) /\ h.link = h0.link
           /\ \A d \in DependsOn[s] : h.step[d].st = "succeeded"
<1> DEFINE eff == EffectiveOf(h0, p)
<1>1. GoesRight(h0, p, eff) /\ JudgesRight(h0, p)
  BY DEF Planned, PlanRight, Replays, Out, Goes
<1>2. \A o \in Steps \cap Out(p) : MayFollow(h0, eff, o)
  BY <1>1 DEF GoesRight, Out
<1>3. ASSUME NEW o \in Steps, o \in Out(p)
      PROVE  eff[o] = "pending" /\ \A d \in DependsOn[o] : eff[d] = "succeeded"
  BY <1>2, <1>3 DEF MayFollow
<1>4. DependsOn[s] \subseteq Steps
  BY DEF EngineAssumption
<1>5. ASSUME NEW o \in Steps, o \in p.doomed
      PROVE  /\ eff[o] = "pending"
             /\ \E d \in DependsOn[o] : eff[d] \in {"failed", "skipped", "cancelled"}
  BY <1>1, <1>5 DEF GoesRight
<1>6. s \notin p.doomed
  BY <1>3, <1>5
<1>7. s \notin p.parked
  <2>1. "pending" \notin Settled
    BY DEF Settled
  <2>2. s \in p.parked => eff[s] \in Settled
    BY <1>1 DEF GoesRight
  <2> QED
    BY <1>3, <2>1, <2>2
<1>8. eff[s] = IF s \in p.won THEN "succeeded" ELSE IF s \in p.lost THEN "failed"
               ELSE IF s \in p.advances THEN "running" ELSE h0.step[s].st
  BY DEF EffectiveOf
<1>9. s \notin p.won \cup p.lost \cup p.advances /\ h0.step[s].st = "pending"
  BY <1>3, <1>8
<1>10. s \notin p.late
  BY <1>1, <1>9 DEF JudgesRight, Outgoing
<1>11. SameAt(h0, h, s)
  BY <1>6, <1>7, <1>9, <1>10 DEF Along, Touched, Judged
<1>12. h.step[s].st = "pending"
  BY <1>9, <1>11 DEF SameAt
<1>13. h.link \in {"up", "closing"} /\ h.link = h0.link
  BY <1>2 DEF MayFollow, Along
<1>14. ASSUME NEW d \in DependsOn[s] PROVE h.step[d].st = "succeeded"
  <2>1. d \in Steps /\ eff[d] = "succeeded"
    BY <1>3, <1>4
  <2>2. d \notin Out(p) /\ d \notin p.doomed
    BY <1>3, <1>5, <2>1
  <2> QED
    BY <2>1, <2>2 DEF Along, Expected
<1> QED
  BY <1>1, <1>11, <1>12, <1>13, <1>14

LEMMA DispatchMoves ==
    ASSUME EngineAssumption, NEW K \in SUBSET HostType, ClosedUnderMoves(K), NEW h \in K,
           NEW s \in Steps, NEW t \in Seq(HostType), t # <<>>,
           \A g \in ToSet(t) : Dispatches(h, s, g)
    PROVE  t \in Seq(K) /\ Only(h, End(h, t), s)
<1>1. \A g \in ToSet(t) : Moves(h, g)
  BY DEF Moves
<1>2. t \in Seq(K)
  BY <1>1, AllMoves
<1>3. End(h, t) \in ToSet(t)
  BY LastIn DEF End
<1>4. Only(h, End(h, t), s)
  <2>1. h \in HostType
    OBVIOUS
  <2> QED
    BY <1>3, <2>1, DispatchesLeave
<1> QED
  BY <1>2, <1>4

LEMMA GoDispatches ==
    ASSUME EngineAssumption, NEW K, NEW h0, NEW p, Planned(h0, p, K), NEW G, NEW h \in K,
           Along(h0, p, Steps, Steps, Steps, G, h), NEW s \in Steps, s \notin G,
           s \in Goes(p)
    PROVE  /\ Go(h, p, s) \in Trails /\ \A g \in ToSet(Go(h, p, s)) : Dispatches(h, s, g)
<1>0. K \in SUBSET HostType /\ h \in HostType /\ h0 \in HostType /\ p.snap = h0.run.st
      /\ h0.run.st \notin Closed
  BY DEF Planned, PlanRight
<1>1. /\ SameAt(h0, h, s) /\ h.step[s].st = "pending" /\ h.link \in {"up", "closing"}
      /\ GoesRight(h0, p, EffectiveOf(h0, p)) /\ h.link = h0.link
      /\ \A d \in DependsOn[s] : h.step[d].st = "succeeded"
  <2>1. s \in Out(p)
    BY DEF Out
  <2> QED
    BY <2>1, OutIsWaiting
<1>2. Steady(h0, h)
  <2>1. \A o \in Goes(p) : o = s
    BY <1>1 DEF GoesRight
  <2>2. G \cap Goes(p) = {}
    BY <2>1
  <2> QED
    BY <2>2 DEF Along
<1>3. p.snap # "awaiting_human"
  BY <1>1 DEF GoesRight
<1>4. h0.run \in RunType
  BY <1>0, HostParts
<1>5. h0.run.st \in RunStates
  BY <1>4 DEF RunType
<1>6. Fits(h, p.snap) /\ p.snap \in RunStates
  BY <1>0, <1>2, <1>5 DEF Fits, Steady
<1>7. h.run.st \notin Closed \cup {"awaiting_human"}
  BY <1>0, <1>2, <1>3 DEF Steady, Closed
<1>8. /\ h.step[s] = h0.step[s] /\ h.sess[s] = h0.sess[s]
  BY <1>1 DEF SameAt
<1>9. MayFollow(h0, EffectiveOf(h0, p), s)
  BY <1>1 DEF GoesRight
<1>10. MayGo(h, s)
  <2>1. \A o \in Steps \ {s} : ~Live(h, o)
    BY <1>2, <1>9 DEF MayFollow, Live, Steady
  <2> QED
    BY <1>1, <1>7, <2>1 DEF MayGo
<1>11. h.step[s].bound => ~h.sess[s].stop
  BY <1>8, <1>9 DEF MayFollow
<1>12. s \in p.unresumed => /\ h.step[s].bound /\ h.step[s].sent
                            /\ h.sess[s].st \in Terminal
  BY <1>1, <1>8 DEF GoesRight
<1>13. s \in p.starts => ~h.step[s].bound /\ ~Live(h, s)
  BY <1>1, <1>8 DEF GoesRight, Live
<1>14. s \in p.prompts => h.step[s].bound /\ h.sess[s].st = "idle"
  BY <1>1, <1>8 DEF GoesRight
<1>15. s \in p.resumes => /\ h.step[s].bound /\ ~h.step[s].sent
                          /\ h.sess[s].st \in Terminal
  BY <1>1, <1>8 DEF GoesRight
<1>16. "idle" \notin Terminal
  BY DEF Terminal
<1>17. CASE s \in p.starts
  <2>1. Go(h, p, s) = StartStep(h, s, p.snap)
    BY <1>12, <1>13, <1>14, <1>15, <1>17 DEF Go
  <2>2. MayStart(h, s)
    BY <1>10, <1>13, <1>17 DEF MayStart
  <2>3. StartStep(h, s, p.snap) \in Trails
    BY <1>0, StartStepTyped DEF Trails
  <2> QED
    BY <1>6, <2>1, <2>2, <2>3 DEF Dispatches
<1>18. CASE s \in p.prompts
  <2>1. Go(h, p, s) = PromptStep(h, s, p.snap)
    BY <1>12, <1>13, <1>14, <1>15, <1>16, <1>18 DEF Go
  <2>2. MayPrompt(h, s)
    BY <1>10, <1>11, <1>14, <1>18 DEF MayPrompt
  <2>3. PromptStep(h, s, p.snap) \in Trails
    BY <1>0, PromptStepTyped DEF Trails
  <2> QED
    BY <1>6, <2>1, <2>2, <2>3 DEF Dispatches
<1>19. CASE s \in p.resumes
  <2>1. Go(h, p, s) = ResumeStep(h, s)
    BY <1>12, <1>13, <1>14, <1>15, <1>16, <1>19 DEF Go
  <2>2. MayResume(h, s)
    BY <1>10, <1>11, <1>15, <1>19 DEF MayResume
  <2>3. ResumeStep(h, s) \in Trails
    BY <1>0, ResumeStepTyped DEF Trails
  <2> QED
    BY <1>6, <2>1, <2>2, <2>3 DEF Dispatches
<1> QED
  BY <1>17, <1>18, <1>19 DEF Goes

LEMMA GoStep ==
    ASSUME EngineAssumption, NEW K, NEW h0, NEW p, Planned(h0, p, K), NEW G, NEW h \in K,
           Along(h0, p, Steps, Steps, Steps, G, h), NEW s \in Steps, s \notin G
    PROVE  /\ Go(h, p, s) \in Seq(K)
           /\ Along(h0, p, Steps, Steps, Steps, G \cup {s}, End(h, Go(h, p, s)))
<1> DEFINE t == Go(h, p, s)
           g == End(h, t)
<1>1. K \in SUBSET HostType /\ h \in HostType /\ ClosedUnderMoves(K)
  BY DEF Planned
<1>2. ASSUME t \in Seq(K), Only(h, g, s), s \in Out(p) \/ g = h,
             s \in Goes(p) \/ Steady(h, g)
      PROVE  Along(h0, p, Steps, Steps, Steps, G \cup {s}, g)
  <2> HIDE DEF t, g
  <2>1. s \in Touched(p, Steps, Steps, Steps, G \cup {s}) \/ SameAt(h0, g, s)
    BY <1>2 DEF Along, Touched
  <2>2. Steps \in {Steps, Steps \cup {s}} /\ G \cup {s} \in {G, G \cup {s}}
    OBVIOUS
  <2>3. (G \cup {s}) \cap Goes(p) = {} => Steady(h, g)
    BY <1>2
  <2>4. \/ s \in (G \cup {s}) \cap Out(p)
        \/ g.step[s].st = Expected(h0, p, Steps, Steps, s)
    BY <1>2 DEF Along
  <2> QED
    BY <1>2, <2>1, <2>2, <2>3, <2>4, AlongOn
<1>3. CASE s \notin Out(p)
  <2>1. t = <<>>
    BY <1>3 DEF Go, Out, Goes
  <2>2. g = h
    BY <2>1 DEF End
  <2>3. Only(h, h, s) /\ Steady(h, h)
    BY OnlySelf
  <2> HIDE DEF t, g
  <2> QED
    BY <1>2, <2>1, <2>2, <2>3 DEF t, g
<1>4. CASE s \in p.unresumed
  <2>1. /\ SameAt(h0, h, s) /\ h.step[s].st = "pending"
        /\ GoesRight(h0, p, EffectiveOf(h0, p))
    <3>1. s \in Out(p)
      BY <1>4 DEF Out
    <3> QED
      BY <3>1, OutIsWaiting
  <2>2. h.step[s] = h0.step[s] /\ h.sess[s] = h0.sess[s]
    BY <2>1 DEF SameAt
  <2>3. /\ h.step[s].bound /\ h.step[s].sent /\ h.sess[s].st \in Terminal
    BY <1>4, <2>1, <2>2 DEF GoesRight
  <2>4. s \notin Goes(p)
    <3>1. "idle" \notin Terminal
      BY DEF Terminal
    <3> QED
      BY <2>1, <2>2, <2>3, <3>1 DEF GoesRight, Goes
  <2>5. t = Settle(h, s, "failed")
    BY <1>4, <2>4 DEF Go, Goes
  <2>6. MaySettle(h, s, "failed")
    BY <2>1, <2>3 DEF MaySettle, MayLose
  <2> HIDE DEF t
  <2>7. Leads(K, h, t, g, s)
    BY <1>1, <2>5, <2>6, SettleMoves
  <2>8. t \in Seq(K) /\ Only(h, g, s) /\ Steady(h, g)
    BY <2>7 DEF Leads
  <2>9. Along(h0, p, Steps, Steps, Steps, G \cup {s}, g)
    BY <1>2, <1>4, <2>8 DEF Out
  <2> QED
    BY <2>8, <2>9 DEF t
<1>5. CASE s \in Goes(p)
  <2>1. t \in Trails /\ \A x \in ToSet(t) : Dispatches(h, s, x)
    BY <1>5, GoDispatches
  <2> HIDE DEF t
  <2>2. t \in Seq(HostType) /\ t # <<>>
    BY <2>1 DEF Trails
  <2>3. t \in Seq(K) /\ Only(h, End(h, t), s)
    BY <1>1, <2>1, <2>2, DispatchMoves
  <2>4. Along(h0, p, Steps, Steps, Steps, G \cup {s}, g)
    BY <1>2, <1>5, <2>3 DEF Out
  <2> QED
    BY <2>3, <2>4 DEF t
<1> QED
  BY <1>3, <1>4, <1>5 DEF Out

LEMMA ConcludeStep ==
    ASSUME EngineAssumption, NEW K, NEW h0, NEW p, Planned(h0, p, K), NEW h \in K,
           Along(h0, p, Steps, Steps, Steps, Steps, h)
    PROVE  Conclude(h, p) \in Seq(K)
<1>1. K \in SUBSET HostType /\ h \in HostType /\ ClosedUnderMoves(K)
  BY DEF Planned
<1> DEFINE owed == [h EXCEPT !.run.owed = FALSE]
           over == [h EXCEPT !.run.st = p.fate]
<1>2. Conclude(h, p) \in {<<>>, <<owed>>} \/ (p.over /\ Conclude(h, p) = <<over>>)
  BY DEF Conclude
<1>3. owed \in K
  <2>1. Moves(h, owed)
    BY DEF Moves
  <2>2. owed \in HostType
    BY <1>1 DEF HostType, RunType
  <2> QED
    BY <1>1, <2>1, <2>2 DEF ClosedUnderMoves
<1>4. ASSUME p.over PROVE over \in K
  <2> DEFINE eff == EffectiveOf(h0, p)
  <2>1. GoesRight(h0, p, eff) /\ EndsRight(p, eff)
    BY <1>4 DEF Planned, PlanRight, Replays
  <2>2. /\ ~led /\ p.fate \in {"completed", "failed"}
        /\ \A s \in Steps : eff[s] \in Settled \/ s \in p.doomed
        /\ p.fate = "completed" => \A s \in Steps : eff[s] \notin {"failed", "cancelled"}
    BY <1>4, <2>1 DEF EndsRight
  <2>3. \A s \in Steps : s \notin Out(p)
    <3> SUFFICES ASSUME NEW s \in Steps, s \in Out(p) PROVE FALSE
      OBVIOUS
    <3>1. MayFollow(h0, eff, s)
      BY <2>1 DEF GoesRight, Out
    <3>2. eff[s] = "pending" /\ \A d \in DependsOn[s] : eff[d] = "succeeded"
      BY <3>1 DEF MayFollow
    <3>3. s \in p.doomed
      BY <2>2, <3>2 DEF Settled
    <3>4. \E d \in DependsOn[s] : eff[d] \in {"failed", "skipped", "cancelled"}
      BY <2>1, <3>3 DEF GoesRight
    <3> QED
      BY <3>2, <3>4
  <2>4. Goes(p) \cap Steps = {}
    BY <2>3 DEF Out
  <2>5. Steady(h0, h)
    BY <2>4 DEF Along
  <2>6. h.run.st = h0.run.st /\ h0.run.st \notin Closed
    BY <2>2, <2>5 DEF Steady, Planned
  <2>7. \A s \in Steps : h.step[s].st = IF s \in p.doomed THEN "skipped" ELSE eff[s]
    BY <2>3 DEF Along, Expected
  <2>8. MayEnd(h, p.fate)
    <3>1. \A s \in Steps : h.step[s].st \in Settled
      BY <2>2, <2>7 DEF Settled
    <3>2. p.fate = "completed" => \A s \in Steps : h.step[s].st \notin {"failed", "cancelled"}
      BY <2>2, <2>7
    <3> QED
      BY <2>2, <2>6, <3>1, <3>2 DEF MayEnd
  <2>9. p.fate \in Closed
    BY <2>2 DEF Closed
  <2>10. Moves(h, over)
    BY <2>8, <2>9 DEF Moves
  <2>11. over \in HostType
    BY <1>1, <2>9 DEF HostType, RunType, RunStates
  <2> QED
    BY <1>1, <2>10, <2>11 DEF ClosedUnderMoves
<1> HIDE DEF owed, over
<1>5. <<>> \in Seq(K) /\ <<owed>> \in Seq(K)
  BY <1>3
<1>6. CASE p.over /\ Conclude(h, p) = <<over>>
  <2>1. over \in K
    BY <1>4, <1>6
  <2> QED
    BY <1>6, <2>1
<1> QED
  BY <1>2, <1>5, <1>6

-----------------------------------------------------------------------------
(* A pass, and a tick                                                      *)

\* The steps up to position i.
Seen(i) == {Order[j] : j \in 1..i}

LEMMA SeenOn ==
    ASSUME EngineAssumption
    PROVE  /\ Seen(0) = {} /\ Seen(Len(Order)) = Steps
           /\ \A i \in 1..Len(Order) :
                 /\ Order[i] \in Steps /\ Order[i] \notin Seen(i - 1)
                 /\ Seen(i) = Seen(i - 1) \cup {Order[i]}
<1>1. Seen(0) = {}
  BY DEF Seen
<1>2. Seen(Len(Order)) = Steps
  <2>1. Seen(Len(Order)) \subseteq Steps
    BY OrderTyped DEF Seen
  <2>2. ASSUME NEW s \in Steps PROVE s \in Seen(Len(Order))
    <3>1. PICK i \in 1..Len(Order) : Order[i] = s
      BY OrderTyped
    <3> QED
      BY <3>1 DEF Seen
  <2> QED
    BY <2>1, <2>2
<1>3. ASSUME NEW i \in 1..Len(Order)
      PROVE  /\ Order[i] \in Steps /\ Order[i] \notin Seen(i - 1)
             /\ Seen(i) = Seen(i - 1) \cup {Order[i]}
  <2>0. Len(Order) \in Nat
    BY OrderTyped
  <2>1. Order[i] \notin Seen(i - 1)
    <3> SUFFICES ASSUME NEW j \in 1..(i - 1), Order[j] = Order[i] PROVE FALSE
      BY DEF Seen
    <3>1. j \in 1..Len(Order) /\ j # i
      BY <2>0
    <3> QED
      BY <3>1, OrderTyped
  <2>2. 1..i = 1..(i - 1) \cup {i}
    BY <2>0
  <2>3. Seen(i) = Seen(i - 1) \cup {Order[i]}
    BY <2>2 DEF Seen
  <2> QED
    BY <2>1, <2>3, OrderTyped
<1> QED
  BY <1>1, <1>2, <1>3

\* What is known of the Host after i steps of each phase.
AlongPhase(h0, p, phase, i, h) ==
    CASE phase = "judge" -> Along(h0, p, Seen(i), {}, {}, {}, h)
      [] phase = "skip" -> Along(h0, p, Steps, Seen(i), {}, {}, h)
      [] phase = "park" -> Along(h0, p, Steps, Steps, Seen(i), {}, h)
      [] phase = "go" -> Along(h0, p, Steps, Steps, Steps, Seen(i), h)

LEMMA PhaseStep ==
    ASSUME EngineAssumption, NEW K, NEW h0, NEW p, Planned(h0, p, K), NEW phase \in Phases,
           NEW i \in 1..Len(Order), NEW h \in K, AlongPhase(h0, p, phase, i - 1, h)
    PROVE  LET does == Execute(h, p, phase, Order[i])
           IN  does \in Seq(K) /\ AlongPhase(h0, p, phase, i, End(h, does))
<1>1. /\ Order[i] \in Steps /\ Order[i] \notin Seen(i - 1)
      /\ Seen(i) = Seen(i - 1) \cup {Order[i]}
  BY SeenOn
<1>2. CASE phase = "judge"
  <2>1. /\ Along(h0, p, Seen(i - 1), {}, {}, {}, h)
        /\ Execute(h, p, phase, Order[i]) = Judge(h, p, Order[i])
    BY <1>2 DEF AlongPhase, Execute
  <2>2. /\ Judge(h, p, Order[i]) \in Seq(K)
        /\ Along(h0, p, Seen(i - 1) \cup {Order[i]}, {}, {}, {}, End(h, Judge(h, p, Order[i])))
    BY <1>1, <2>1, JudgeStep
  <2> QED
    BY <1>1, <1>2, <2>1, <2>2 DEF AlongPhase
<1>3. CASE phase = "skip"
  <2>1. /\ Along(h0, p, Steps, Seen(i - 1), {}, {}, h)
        /\ Execute(h, p, phase, Order[i]) = Skip(h, p, Order[i])
    BY <1>3 DEF AlongPhase, Execute
  <2>2. /\ Skip(h, p, Order[i]) \in Seq(K)
        /\ Along(h0, p, Steps, Seen(i - 1) \cup {Order[i]}, {}, {},
                 End(h, Skip(h, p, Order[i])))
    BY <1>1, <2>1, SkipStep
  <2> QED
    BY <1>1, <1>3, <2>1, <2>2 DEF AlongPhase
<1>4. CASE phase = "park"
  <2>1. /\ Along(h0, p, Steps, Steps, Seen(i - 1), {}, h)
        /\ Execute(h, p, phase, Order[i]) = Park(h, p, Order[i])
    BY <1>4 DEF AlongPhase, Execute
  <2>2. /\ Park(h, p, Order[i]) \in Seq(K)
        /\ Along(h0, p, Steps, Steps, Seen(i - 1) \cup {Order[i]}, {},
                 End(h, Park(h, p, Order[i])))
    BY <1>1, <2>1, ParkStep
  <2> QED
    BY <1>1, <1>4, <2>1, <2>2 DEF AlongPhase
<1>5. CASE phase = "go"
  <2>1. /\ Along(h0, p, Steps, Steps, Steps, Seen(i - 1), h)
        /\ Execute(h, p, phase, Order[i]) = Go(h, p, Order[i])
    BY <1>5 DEF AlongPhase, Execute
  <2>2. /\ Go(h, p, Order[i]) \in Seq(K)
        /\ Along(h0, p, Steps, Steps, Steps, Seen(i - 1) \cup {Order[i]},
                 End(h, Go(h, p, Order[i])))
    BY <1>1, <2>1, GoStep
  <2> QED
    BY <1>1, <1>5, <2>1, <2>2 DEF AlongPhase
<1> QED
  BY <1>2, <1>3, <1>4, <1>5 DEF Phases

LEMMA PhaseKeeps ==
    ASSUME EngineAssumption, NEW K, NEW h0, NEW p, Planned(h0, p, K), NEW phase \in Phases,
           NEW trail \in Seq(K), trail # <<>>, AlongPhase(h0, p, phase, 0, Last(trail))
    PROVE  LET after == Walk(p, phase, trail)
           IN  /\ after \in Seq(K) /\ after # <<>>
               /\ AlongPhase(h0, p, phase, Len(Order), Last(after))
<1> DEFINE At == [i \in 0..Len(Order) |-> {h \in K : AlongPhase(h0, p, phase, i, h)}]
<1>1. K \in SUBSET HostType /\ Len(Order) \in Nat
  BY OrderTyped DEF Planned
<1>2. At \in [0..Len(Order) -> SUBSET K]
  OBVIOUS
<1>3. Last(trail) \in At[0]
  <2>1. Last(trail) \in K
    BY LastOf
  <2> QED
    BY <1>1, <2>1
<1>4. \A i \in 0..Len(Order) : At[i] = {h \in K : AlongPhase(h0, p, phase, i, h)}
  OBVIOUS
<1> HIDE DEF At
<1>5. Stays(p, phase, K, At)
  <2> SUFFICES ASSUME NEW i \in 1..Len(Order), NEW h \in At[i - 1]
               PROVE  LET does == Execute(h, p, phase, Order[i])
                      IN  /\ does \in Seq(K)
                          /\ (does = <<>> => h \in At[i]) /\ (does # <<>> => Last(does) \in At[i])
    BY DEF Stays
  <2> DEFINE does == Execute(h, p, phase, Order[i])
  <2>1. i - 1 \in 0..Len(Order) /\ i \in 0..Len(Order)
    BY <1>1
  <2>2. h \in K /\ AlongPhase(h0, p, phase, i - 1, h)
    BY <1>4, <2>1
  <2>3. does \in Seq(K) /\ AlongPhase(h0, p, phase, i, End(h, does))
    BY <2>2, PhaseStep
  <2> HIDE DEF does
  <2>4. End(h, does) \in At[i]
    <3>1. End(h, does) \in K
      BY <2>2, <2>3, LastOf DEF End
    <3> QED
      BY <1>4, <2>1, <2>3, <3>1
  <2> QED
    BY <2>3, <2>4 DEF End, does
<1>6. /\ Walk(p, phase, trail) \in Seq(K) /\ Walk(p, phase, trail) # <<>>
      /\ Last(Walk(p, phase, trail)) \in At[Len(Order)]
  BY <1>1, <1>2, <1>3, <1>5, WalkKeeps
<1> QED
  BY <1>1, <1>4, <1>6

LEMMA PhaseJoin ==
    ASSUME EngineAssumption, NEW h0, NEW p, NEW h
    PROVE  /\ AlongPhase(h0, p, "judge", Len(Order), h) => AlongPhase(h0, p, "skip", 0, h)
           /\ AlongPhase(h0, p, "skip", Len(Order), h) => AlongPhase(h0, p, "park", 0, h)
           /\ AlongPhase(h0, p, "park", Len(Order), h) => AlongPhase(h0, p, "go", 0, h)
           /\ AlongPhase(h0, p, "go", Len(Order), h) =>
                 Along(h0, p, Steps, Steps, Steps, Steps, h)
           /\ AlongPhase(h0, p, "judge", 0, h0)
<1>1. Seen(0) = {} /\ Seen(Len(Order)) = Steps
  BY SeenOn
<1>2. Along(h0, p, {}, {}, {}, {}, h0)
  BY DEF Along, Expected, SameAt, Steady
<1> QED
  BY <1>1, <1>2 DEF AlongPhase

LEMMA PassKeeps ==
    ASSUME EngineAssumption, NEW K \in SUBSET HostType, ClosedUnderMoves(K), NEW h \in K,
           NEW due \in Deadlines, DueFits(h, due)
    PROVE  Pass(h, due) \in Seq(K) \ {<<>>}
<1>1. CASE h.run.st \in Closed
  <2>1. Pass(h, due) = <<h>>
    BY <1>1 DEF Pass
  <2> QED
    BY <2>1
<1>2. CASE h.run.st \notin Closed
  <2> DEFINE p == Plan(h, due)
             t0 == <<h>>
             t1 == Walk(p, "judge", t0)
             t2 == Walk(p, "skip", t1)
             t3 == Walk(p, "park", t2)
             t4 == Walk(p, "go", t3)
             t5 == Conclude(Last(t4), p)
  <2>1. Pass(h, due) = t4 \o t5
    BY <1>2 DEF Pass, Pursued, Concluded, Carried
  <2>2. Planned(h, p, K)
    BY <1>2, PlanIsRight DEF Planned
  <2> HIDE DEF p
  <2>3. t0 \in Seq(K) /\ t0 # <<>> /\ AlongPhase(h, p, "judge", 0, Last(t0))
    <3>1. <<h>> \in Seq(K) /\ <<h>> # <<>> /\ Last(<<h>>) = h
      BY DEF Last
    <3>2. AlongPhase(h, p, "judge", 0, h)
      BY PhaseJoin
    <3> QED
      BY <3>1, <3>2
  <2>4. "judge" \in Phases /\ "skip" \in Phases /\ "park" \in Phases /\ "go" \in Phases
    BY DEF Phases
  <2> HIDE DEF t0
  <2>5. t1 \in Seq(K) /\ t1 # <<>> /\ AlongPhase(h, p, "judge", Len(Order), Last(t1))
    BY <2>2, <2>3, <2>4, PhaseKeeps
  <2> HIDE DEF t1
  <2>6. AlongPhase(h, p, "skip", 0, Last(t1))
    BY <2>5, PhaseJoin
  <2>7. t2 \in Seq(K) /\ t2 # <<>> /\ AlongPhase(h, p, "skip", Len(Order), Last(t2))
    BY <2>2, <2>4, <2>5, <2>6, PhaseKeeps
  <2> HIDE DEF t2
  <2>8. AlongPhase(h, p, "park", 0, Last(t2))
    BY <2>7, PhaseJoin
  <2>9. t3 \in Seq(K) /\ t3 # <<>> /\ AlongPhase(h, p, "park", Len(Order), Last(t3))
    BY <2>2, <2>4, <2>7, <2>8, PhaseKeeps
  <2> HIDE DEF t3
  <2>10. AlongPhase(h, p, "go", 0, Last(t3))
    BY <2>9, PhaseJoin
  <2>11. t4 \in Seq(K) /\ t4 # <<>> /\ AlongPhase(h, p, "go", Len(Order), Last(t4))
    BY <2>2, <2>4, <2>9, <2>10, PhaseKeeps
  <2> HIDE DEF t4
  <2>12. Along(h, p, Steps, Steps, Steps, Steps, Last(t4)) /\ Last(t4) \in K
    BY <2>11, PhaseJoin, LastOf
  <2>13. t5 \in Seq(K)
    BY <2>2, <2>12, ConcludeStep
  <2> HIDE DEF t5
  <2>14. t4 \o t5 \in Seq(K) /\ t4 \o t5 # <<>>
    BY <2>11, <2>13, JoinedSeqs
  <2> QED
    BY <2>1, <2>14
<1> QED
  BY <1>1, <1>2

LEMMA AttemptKeyTyped ==
    ASSUME EngineAssumption, NEW h \in HostType, NEW s \in Steps
    PROVE  AttemptKey(h, s) \in 0..Session
<1>1. h.step[s] \in StepType
  BY HostAt
<1> QED
  BY <1>1, Numbers DEF StepType, AttemptKey

PumpedRow(h, s) == [Receipt(h.sess[s], AttemptKey(h, s)) EXCEPT !.st = "running"]

LEMMA PumpedTyped ==
    ASSUME EngineAssumption, NEW h \in HostType, NEW steps
    PROVE  Pumped(h, steps) \in HostType
<1> DEFINE now == Pumpable(h, steps)
           rows == [s \in Steps |-> IF s \in now THEN PumpedRow(h, s) ELSE h.sess[s]]
           sent == [s \in Steps |-> IF s \in now
                                    THEN Append(h.down[s], Command("prompt", Session))
                                    ELSE h.down[s]]
           rest == h.mail \ now
<1>1. Pumped(h, steps) = [h EXCEPT !.mail = rest, !.sess = rows, !.down = sent]
  BY DEF Pumped, PumpedRow
<1>2. ASSUME NEW s \in Steps PROVE PumpedRow(h, s) \in RowType /\ h.sess[s] \in RowType
  <2> DEFINE row == Receipt(h.sess[s], AttemptKey(h, s))
  <2>1. row \in RowType /\ h.sess[s] \in RowType
    BY HostAt, AttemptKeyTyped, ReceiptTyped
  <2> HIDE DEF row
  <2>2. [row EXCEPT !.st = "running"] \in RowType
    BY <2>1 DEF RowType, States
  <2> QED
    BY <2>1, <2>2 DEF PumpedRow, row
<1>3. rows \in [Steps -> RowType]
  <2> HIDE DEF now
  <2> QED
    BY <1>2
<1>4. sent \in [Steps -> Seq(CommandType)]
  <2>1. Command("prompt", Session) \in CommandType
    BY Numbers DEF Command, CommandType, CommandTypes
  <2>2. \A s \in Steps : h.down[s] \in Seq(CommandType)
    BY HostAt
  <2> HIDE DEF now
  <2> QED
    BY <2>1, <2>2
<1>5. rest \in SUBSET Steps
  BY HostParts
<1> HIDE DEF rows, sent, rest
<1> QED
  BY <1>1, <1>3, <1>4, <1>5 DEF HostType

LEMMA TickKeeps ==
    ASSUME EngineAssumption, NEW K \in SUBSET HostType, ClosedUnderMoves(K), NEW h \in K,
           NEW due \in Deadlines, DueFits(h, due)
    PROVE  Tick(h, due) \in Seq(K) \ {<<>>}
<1> DEFINE t == Pass(h, due)
           g == Pumped(Last(t), Steps)
<1>1. t \in Seq(K) \ {<<>>}
  BY PassKeeps
<1>2. Tick(h, due) = IF g = Last(t) THEN t ELSE Append(t, g)
  BY DEF Tick, ThenPumped, AllPumped
<1> HIDE DEF t
<1>3. Last(t) \in K
  BY <1>1, LastOf
<1>4. g \in HostType
  BY <1>3, PumpedTyped
<1>5. Moves(Last(t), g)
  BY DEF Moves
<1>6. g \in K
  BY <1>3, <1>4, <1>5 DEF ClosedUnderMoves
<1> HIDE DEF g
<1>7. Append(t, g) \in Seq(K) /\ Append(t, g) # <<>>
  <2>1. t \in Seq(K)
    BY <1>1
  <2> QED
    BY <1>6, <2>1, AppendProperties
<1> QED
  BY <1>1, <1>2, <1>7

-----------------------------------------------------------------------------
(* Where the Host's handlers begin                                         *)

\* What each event makes of the Host h before the engine looks at the run.
Texted(h, s) == [h EXCEPT !.step[s].text = h.step[s].bound]
Refused(h, s) == Takes([h EXCEPT !.sess[s].intent = "none"], s, "failed")
Known(h, s, e) ==
    [h EXCEPT !.sess[s].agent = @ \/ e.type \in {"running", "idle"}]
TurnOver(h, s) ==
    [h EXCEPT !.sess[s].done = IF h.sess[s].intent = "none" THEN h.sess[s].by ELSE @,
              !.memo[s] = h.sess[s].by]
Begun(h, s, e) ==
    [h EXCEPT !.step[s].text = @ /\ ~(e.type = "running" /\ Concerns(h, s))]
Moved(h, s, e) ==
    [Takes(Begun(h, s, e), s, e.type) EXCEPT
       !.memo[s] = IF e.type \in {"starting", "running"} THEN 0 ELSE @]

Heard(s) == [Host EXCEPT !.up[s] = Tail(@)]

\* g is what an event of the worker of s makes of the Host h.
Hears(h, s, e, g) ==
    \/ e.type = "text" /\ g = Texted(h, s)
    \/ e.type = "fatal" /\ Live(h, s) /\ g = Refused(h, s)
    \/ e.type = "fatal" /\ ~Live(h, s) /\ g = h
    \/ /\ e.type \in States \cup {"turn"}
       /\ LET known == Known(h, s, e)
          IN  \/ g = known
              \/ e.type = "turn" /\ ~Stale(known, s, e) /\ g = TurnOver(known, s)
              \/ /\ e.type \in States /\ ~Stale(known, s, e)
                 /\ CanTransition(known.sess[s].st, e.type) /\ g = Moved(known, s, e)

Bare ==
    [Host EXCEPT !.link = "up",
                 !.sess = [s \in Steps |->
                             IF Live(Host, s) /\ agent[s].proc = "none"
                             THEN [@[s] EXCEPT !.st = "offline"] ELSE @[s]]]
Found == Reconciled(Bare, Steps)

Called ==
    [RunIs("cancelled") EXCEPT
       !.step = [s \in Steps |-> IF step[s].st \in Settled \cup {"none"} THEN @[s]
                                 ELSE [@[s] EXCEPT !.st = "cancelled"]]]
Cancelling(s) == [Host EXCEPT !.sess[s].st = "cancelling"]

\* What the lead or a person makes of the Host.
WorkStarted(s) == [Host EXCEPT !.step[s] = NewStep]
Again(s) ==
    [Host EXCEPT !.step[s] = [NewStep EXCEPT !.try = step[s].try + 1, !.bound = TRUE]]
Written(s) == Pumped([Host EXCEPT !.mail = @ \cup {s}], {s})

Ordered(s, g) ==
    \/ /\ led /\ Untold /\ step[s].st = "none"
       /\ \A d \in DependsOn[s] : step[d].st # "none"
       /\ g = WorkStarted(s)
    \/ /\ led /\ Untold /\ step[s].bound /\ step[s].st \in Settled
       /\ step[s].try < MaxTries /\ ~sess[s].stop
       /\ Astir(s) => \/ "late answer" \in Hazards
                      \/ "early lead" \in Hazards /\ sess[s].st = "idle"
       /\ \/ sess[s].st = "idle"
          \/ sess[s].st \in Terminal \cup {"offline"} /\ sess[s].agent
       /\ g = Again(s)
    \/ sess[s].st = "running" /\ g = Cancelling(s)
    \/ sess[s].st = "running" /\ ~Open(Host) /\ g = Takes(Cancelling(s), s, "failed")
    \/ /\ "message" \in Hazards /\ s \notin mail /\ Open(Host)
       /\ sess[s].st \in {"idle", "running", "starting"} /\ ~sess[s].stop
       /\ g = Written(s)

Decided(g) ==
    \/ led /\ Untold /\ g = RunIs("awaiting_human")
    \/ run.st = "awaiting_human" /\ g = RunIs("completed")
    \/ led /\ run.st \in Closed \cup {"awaiting_human"} /\ g = RunIs("running")
    \/ run.st \notin Closed /\ g = Called

\* What a handler makes of the Host before anything that is a move.
Begins(g) ==
    \/ g = Host \/ Decided(g)
    \/ \E s \in Steps : Receives(s) /\ Hears(Heard(s), s, Head(up[s]), g)
    \/ \E s \in Steps : Beats(s) /\ g = Reconciled(Host, {s})
    \/ \E s \in Steps : Ordered(s, g)
    \/ Replayed /\ g \in {Found, Revived(Found)}

LEMMA HostTyped ==
    ASSUME TypeOK
    PROVE  Host \in HostType
BY DEF TypeOK, Host, HostType, RunType, RunStates, StepType, RowType, CommandType, EventType

LEMMA HostIs ==
    /\ Host.run = run /\ Host.step = step /\ Host.sess = sess /\ Host.memo = memo
    /\ Host.mail = mail /\ Host.link = link /\ Host.up = up /\ Host.down = down
BY DEF Host

LEMMA TakenTyped ==
    ASSUME EngineAssumption, NEW h \in HostType, NEW s \in Steps, NEW to \in States
    PROVE  Taken(h, s, to) \in RowType /\ Takes(h, s, to) \in HostType
<1>1. h.sess[s] \in RowType /\ 0 \in 0..Session
  BY HostAt, Numbers
<1>2. Taken(h, s, to) \in RowType
  BY <1>1 DEF RowType, Taken
<1>3. Takes(h, s, to) \in HostType
  BY <1>2, RowSet DEF Takes
<1> QED
  BY <1>2, <1>3

LEMMA StatesKnown ==
    /\ {"starting", "idle", "running", "failed", "stopped", "offline", "cancelling"}
         \subseteq States
    /\ Terminal \subseteq States /\ "none" \notin States
BY DEF States, Terminal

LEMMA MemoSet ==
    ASSUME NEW h \in HostType, NEW s \in Steps, NEW m \in 0..Session
    PROVE  [h EXCEPT !.memo[s] = m] \in HostType
BY DEF HostType

LEMMA UpSet ==
    ASSUME NEW h \in HostType, NEW s \in Steps, NEW u \in Seq(EventType)
    PROVE  [h EXCEPT !.up[s] = u] \in HostType
BY DEF HostType

LEMMA RowMemoSet ==
    ASSUME NEW h \in HostType, NEW s \in Steps, NEW r \in RowType, NEW m \in 0..Session
    PROVE  [h EXCEPT !.sess[s] = r, !.memo[s] = m] \in HostType
BY DEF HostType

LEMMA HearsTyped ==
    ASSUME EngineAssumption, NEW h \in HostType, NEW s \in Steps, NEW e \in EventType, NEW g,
           Hears(h, s, e, g)
    PROVE  g \in HostType
<1>1. h.step[s] \in StepType /\ h.sess[s] \in RowType /\ h.memo[s] \in 0..Session
  BY HostAt
<1>2. Texted(h, s) \in HostType
  <2>1. Texted(h, s) = [h EXCEPT !.step[s] = [h.step[s] EXCEPT !.text = h.step[s].bound]]
    BY DEF HostType, Texted
  <2>2. [h.step[s] EXCEPT !.text = h.step[s].bound] \in StepType
    BY <1>1 DEF StepType
  <2> QED
    BY <2>1, <2>2, StepSet
<1>3. Refused(h, s) \in HostType
  <2> DEFINE x == [h EXCEPT !.sess[s].intent = "none"]
  <2>1. x = [h EXCEPT !.sess[s] = [h.sess[s] EXCEPT !.intent = "none"]]
    BY DEF HostType
  <2>2. [h.sess[s] EXCEPT !.intent = "none"] \in RowType
    BY <1>1 DEF RowType
  <2>3. x \in HostType
    BY <2>1, <2>2, RowSet
  <2> HIDE DEF x
  <2> QED
    BY <2>3, TakenTyped, StatesKnown DEF Refused, x
<1> DEFINE known == Known(h, s, e)
<1>4. known \in HostType
  <2> DEFINE named == h.sess[s].agent \/ e.type \in {"running", "idle"}
  <2>1. known = [h EXCEPT !.sess[s] = [h.sess[s] EXCEPT !.agent = named]]
    BY DEF HostType, Known
  <2>2. [h.sess[s] EXCEPT !.agent = named] \in RowType
    <3>1. named \in BOOLEAN
      OBVIOUS
    <3> HIDE DEF named
    <3> QED
      BY <1>1, <3>1 DEF RowType
  <2> HIDE DEF named
  <2> QED
    BY <2>1, <2>2, RowSet
<1> HIDE DEF known
<1>5. known.step[s] \in StepType /\ known.sess[s] \in RowType /\ known.memo[s] \in 0..Session
  BY <1>4, HostAt
<1>6. TurnOver(known, s) \in HostType
  <2> DEFINE by == known.sess[s].by
             done == IF known.sess[s].intent = "none" THEN by ELSE known.sess[s].done
  <2>1. by \in 0..Session /\ done \in 0..Session
    BY <1>5 DEF RowType
  <2>2. TurnOver(known, s) = [known EXCEPT !.sess[s] = [known.sess[s] EXCEPT !.done = done],
                                           !.memo[s] = by]
    BY <1>4 DEF HostType, TurnOver
  <2> HIDE DEF done, by
  <2>3. [known.sess[s] EXCEPT !.done = done] \in RowType
    BY <1>5, <2>1 DEF RowType
  <2> DEFINE v == [known.sess[s] EXCEPT !.done = done]
  <2>4. v \in RowType
    BY <2>3
  <2>5. TurnOver(known, s) = [known EXCEPT !.sess[s] = v, !.memo[s] = by]
    BY <2>2
  <2> HIDE DEF v
  <2> QED
    <3>1. [known EXCEPT !.sess[s] = v, !.memo[s] = by] \in HostType
      BY <1>4, <2>1, <2>4, RowMemoSet
    <3> QED
      BY <2>5, <3>1
<1>7. e.type \in States => Moved(known, s, e) \in HostType
  <2> SUFFICES ASSUME e.type \in States PROVE Moved(known, s, e) \in HostType
    OBVIOUS
  <2> DEFINE text == known.step[s].text /\ ~(e.type = "running" /\ Concerns(known, s))
             begun == Begun(known, s, e)
             taken == Takes(begun, s, e.type)
  <2>1. begun \in HostType
    <3>1. begun = [known EXCEPT !.step[s] = [known.step[s] EXCEPT !.text = text]]
      BY <1>4 DEF HostType, Begun
    <3>2. text \in BOOLEAN
      BY <1>5 DEF StepType
    <3> HIDE DEF text
    <3>3. [known.step[s] EXCEPT !.text = text] \in StepType
      BY <1>5, <3>2 DEF StepType
    <3> HIDE DEF begun
    <3> QED
      BY <1>4, <3>1, <3>3, StepSet
  <2> HIDE DEF begun
  <2>2. taken \in HostType
    BY <2>1, TakenTyped
  <2> HIDE DEF taken
  <2>3. taken.memo[s] \in 0..Session /\ 0 \in 0..Session
    BY <2>2, HostAt, Numbers
  <2> DEFINE m == IF e.type \in {"starting", "running"} THEN 0 ELSE taken.memo[s]
  <2>4. Moved(known, s, e) = [taken EXCEPT !.memo[s] = m]
    BY <2>2 DEF Moved, taken, begun, HostType
  <2>5. m \in 0..Session
    BY <2>3
  <2> HIDE DEF m
  <2> QED
    BY <2>2, <2>4, <2>5, MemoSet
<1> QED
  BY <1>2, <1>3, <1>4, <1>6, <1>7 DEF Hears, known

\* The inventory's word on a row, of which the Node is told to stop what it runs.
FoundRow(h, s) ==
    LET now == Taken(h, s, Settlement(h, s))
    IN  IF now.stop /\ Open(h) THEN CalledOff(now, "stop") ELSE now

LEMMA ReconciledTyped ==
    ASSUME EngineAssumption, TypeOK, NEW h \in HostType, NEW steps
    PROVE  Reconciled(h, steps) \in HostType
<1> DEFINE found == Unsettled(h, steps)
           told(s) == s \in found /\ Taken(h, s, Settlement(h, s)).stop /\ Open(h)
           rows == [s \in Steps |-> IF s \in found THEN FoundRow(h, s) ELSE h.sess[s]]
           sent == [s \in Steps |-> IF told(s) THEN Append(h.down[s], Command("stop", 0))
                                    ELSE h.down[s]]
<1>1. Reconciled(h, steps) = [h EXCEPT !.sess = rows, !.down = sent]
  BY DEF Reconciled, FoundRow
<1>2. ASSUME NEW s \in Steps PROVE FoundRow(h, s) \in RowType /\ h.sess[s] \in RowType
  <2> DEFINE now == Taken(h, s, Settlement(h, s))
  <2>1. Settlement(h, s) \in States
    <3>1. agent[s].proc \in {"none", "booting", "idle", "turn"} /\ h.sess[s].stop \in BOOLEAN
      <4>1. h.sess[s] \in RowType
        BY HostAt
      <4> QED
        BY <4>1 DEF TypeOK, RowType
    <3> QED
      BY <3>1 DEF Settlement, States, Terminal
  <2>2. now \in RowType
    BY <2>1, TakenTyped
  <2> HIDE DEF now
  <2>3. CalledOff(now, "stop") \in RowType
    BY <2>2, ReceiptTyped
  <2> QED
    BY <2>2, <2>3, HostAt DEF FoundRow, now
<1>3. rows \in [Steps -> RowType]
  <2> HIDE DEF found
  <2> QED
    BY <1>2
<1>4. sent \in [Steps -> Seq(CommandType)]
  <2>1. Command("stop", 0) \in CommandType
    BY Numbers DEF Command, CommandType, CommandTypes
  <2>2. \A s \in Steps : h.down[s] \in Seq(CommandType)
    BY HostAt
  <2> HIDE DEF told
  <2> QED
    BY <2>1, <2>2
<1> HIDE DEF rows, sent
<1> QED
  BY <1>1, <1>3, <1>4 DEF HostType

RevivedRow(h, s) == [Receipt(h.sess[s], AttemptKey(h, s)) EXCEPT !.st = "starting"]

LEMMA RevivedTyped ==
    ASSUME EngineAssumption, NEW h \in HostType
    PROVE  Revived(h) \in HostType
<1> DEFINE now == Missing(h)
           rows == [s \in Steps |-> IF s \in now THEN RevivedRow(h, s) ELSE h.sess[s]]
           sent == [s \in Steps |-> IF s \in now
                                    THEN Append(h.down[s], Command("resume", 0))
                                    ELSE h.down[s]]
<1>1. Revived(h) = [h EXCEPT !.sess = rows, !.down = sent]
  BY DEF Revived, RevivedRow
<1>2. ASSUME NEW s \in Steps PROVE RevivedRow(h, s) \in RowType /\ h.sess[s] \in RowType
  <2> DEFINE row == Receipt(h.sess[s], AttemptKey(h, s))
  <2>1. row \in RowType /\ h.sess[s] \in RowType
    BY HostAt, AttemptKeyTyped, ReceiptTyped
  <2> HIDE DEF row
  <2>2. [row EXCEPT !.st = "starting"] \in RowType
    BY <2>1, StatesKnown DEF RowType
  <2> QED
    BY <2>1, <2>2 DEF RevivedRow, row
<1>3. rows \in [Steps -> RowType]
  <2> HIDE DEF now
  <2> QED
    BY <1>2
<1>4. sent \in [Steps -> Seq(CommandType)]
  <2>1. Command("resume", 0) \in CommandType
    BY Numbers DEF Command, CommandType, CommandTypes
  <2>2. \A s \in Steps : h.down[s] \in Seq(CommandType)
    BY HostAt
  <2> HIDE DEF now
  <2> QED
    BY <2>1, <2>2
<1> HIDE DEF rows, sent
<1> QED
  BY <1>1, <1>3, <1>4 DEF HostType

LEMMA BareTyped ==
    ASSUME TypeOK
    PROVE  Bare \in HostType
<1> DEFINE rows == [s \in Steps |-> IF Live(Host, s) /\ agent[s].proc = "none"
                                    THEN [Host.sess[s] EXCEPT !.st = "offline"]
                                    ELSE Host.sess[s]]
<1>1. Bare = [Host EXCEPT !.link = "up", !.sess = rows]
  BY DEF Bare, Host
<1>2. Host \in HostType
  BY HostTyped
<1>3. ASSUME NEW s \in Steps
      PROVE  [Host.sess[s] EXCEPT !.st = "offline"] \in RowType /\ Host.sess[s] \in RowType
  <2>1. Host.sess[s] \in RowType
    BY <1>2, HostAt
  <2> QED
    BY <2>1, StatesKnown DEF RowType
<1>4. rows \in [Steps -> RowType]
  BY <1>3
<1> HIDE DEF rows
<1> QED
  BY <1>1, <1>2, <1>4 DEF HostType

LEMMA RunIsTyped ==
    ASSUME TypeOK, NEW st \in RunStates
    PROVE  RunIs(st) \in HostType
BY HostTyped DEF RunIs, HostType, RunType

LEMMA CalledTyped ==
    ASSUME TypeOK
    PROVE  Called \in HostType
<1> DEFINE x == RunIs("cancelled")
           rows == [s \in Steps |-> IF step[s].st \in Settled \cup {"none"} THEN x.step[s]
                                    ELSE [x.step[s] EXCEPT !.st = "cancelled"]]
<1>1. Called = [x EXCEPT !.step = rows]
  BY DEF Called
<1>2. x \in HostType
  BY RunIsTyped DEF RunStates, Closed
<1> HIDE DEF x
<1>3. ASSUME NEW s \in Steps
      PROVE  [x.step[s] EXCEPT !.st = "cancelled"] \in StepType /\ x.step[s] \in StepType
  <2>1. x.step[s] \in StepType
    BY <1>2, HostAt
  <2> QED
    BY <2>1 DEF StepType, Settled
<1>4. rows \in [Steps -> StepType]
  BY <1>3
<1> HIDE DEF rows
<1> QED
  BY <1>1, <1>2, <1>4 DEF HostType

LEMMA OrderedTyped ==
    ASSUME EngineAssumption, TypeOK, NEW s \in Steps, NEW g, Ordered(s, g)
    PROVE  g \in HostType
<1>1. Host \in HostType /\ Host.step = step
  BY HostTyped DEF Host
<1>2. WorkStarted(s) \in HostType
  <2>1. NewStep \in StepType
    BY Numbers DEF NewStep, NoStep, StepType
  <2> QED
    BY <1>1, <2>1, StepSet DEF WorkStarted
<1>3. step[s].try < MaxTries => Again(s) \in HostType
  <2> SUFFICES ASSUME step[s].try < MaxTries PROVE Again(s) \in HostType
    OBVIOUS
  <2> DEFINE v == [NewStep EXCEPT !.try = step[s].try + 1, !.bound = TRUE]
  <2>1. step[s] \in StepType
    BY <1>1, HostAt
  <2>2. step[s].try + 1 \in 0..MaxTries
    BY <2>1, Numbers DEF StepType
  <2>3. v \in StepType
    BY <2>2 DEF NewStep, NoStep, StepType
  <2> HIDE DEF v
  <2>4. Again(s) = [Host EXCEPT !.step[s] = v]
    BY DEF Again, v
  <2> QED
    BY <1>1, <2>3, <2>4, StepSet
<1>4. Cancelling(s) \in HostType
  <2> DEFINE v == [Host.sess[s] EXCEPT !.st = "cancelling"]
  <2>1. Cancelling(s) = [Host EXCEPT !.sess[s] = v]
    BY <1>1 DEF Cancelling, HostType
  <2>2. Host.sess[s] \in RowType
    BY <1>1, HostAt
  <2>3. v \in RowType
    BY <2>2, StatesKnown DEF RowType
  <2> HIDE DEF v
  <2> QED
    BY <1>1, <2>1, <2>3, RowSet
<1>5. Takes(Cancelling(s), s, "failed") \in HostType
  BY <1>4, TakenTyped, StatesKnown
<1>6. Written(s) \in HostType
  <2> DEFINE x == [Host EXCEPT !.mail = @ \cup {s}]
  <2>1. x \in HostType
    BY <1>1 DEF HostType
  <2> HIDE DEF x
  <2>2. Pumped(x, {s}) \in HostType
    BY <2>1, PumpedTyped
  <2> QED
    BY <2>2 DEF x, Written
<1> QED
  BY <1>2, <1>3, <1>4, <1>5, <1>6 DEF Ordered

LEMMA HeardTyped ==
    ASSUME TypeOK, NEW s \in Steps, Receives(s)
    PROVE  /\ Heard(s) \in HostType /\ Head(up[s]) \in EventType
<1>1. Host \in HostType /\ Host.up = up
  BY HostTyped DEF Host
<1>2. up[s] \in Seq(EventType) /\ up[s] # <<>>
  BY <1>1, HostAt DEF Receives
<1>3. Head(up[s]) \in EventType /\ Tail(up[s]) \in Seq(EventType)
  BY <1>2
<1> DEFINE v == Tail(up[s])
<1>4. Heard(s) = [Host EXCEPT !.up[s] = v]
  BY <1>1 DEF Heard
<1> HIDE DEF v
<1>5. v \in Seq(EventType)
  BY <1>3 DEF v
<1> QED
  BY <1>1, <1>3, <1>4, <1>5, UpSet

LEMMA BeginsTyped ==
    ASSUME EngineAssumption, TypeOK, NEW g, Begins(g)
    PROVE  g \in HostType
<1>1. CASE g = Host
  BY <1>1, HostTyped
<1>2. CASE Decided(g)
  <2>1. {"awaiting_human", "completed", "running"} \subseteq RunStates
    BY DEF RunStates, Closed
  <2> QED
    BY <1>2, <2>1, RunIsTyped, CalledTyped DEF Decided
<1>3. ASSUME NEW s \in Steps, Receives(s), Hears(Heard(s), s, Head(up[s]), g)
      PROVE  g \in HostType
  BY <1>3, HeardTyped, HearsTyped
<1>4. ASSUME NEW s \in Steps, g = Reconciled(Host, {s}) PROVE g \in HostType
  BY <1>4, HostTyped, ReconciledTyped
<1>5. ASSUME NEW s \in Steps, Ordered(s, g) PROVE g \in HostType
  BY <1>5, OrderedTyped
<1>6. CASE g \in {Found, Revived(Found)}
  <2>1. Found \in HostType
    BY BareTyped, ReconciledTyped DEF Found
  <2> QED
    BY <1>6, <2>1, RevivedTyped
<1> QED
  BY <1>1, <1>2, <1>3, <1>4, <1>5, <1>6 DEF Begins

-----------------------------------------------------------------------------
(* What the Host's handlers do                                             *)

\* A handler ran through to the Host g, or the Host died in g.
Reaches(g) ==
    \/ Becomes(g) /\ UNCHANGED breaks
    \/ Dies(g)

LEMMA CommitsReach ==
    ASSUME NEW K, NEW trail \in Seq(K) \ {<<>>}, Commits(trail)
    PROVE  \E g \in K : Reaches(g)
<1>1. CASE Becomes(Last(trail)) /\ UNCHANGED breaks
  BY <1>1, LastOf DEF Reaches
<1>2. CASE \E i \in 1..(Len(trail) - 1) : Dies(trail[i])
  <2>1. PICK i \in 1..(Len(trail) - 1) : Dies(trail[i])
    BY <1>2
  <2>2. trail[i] \in K
    <3>1. Len(trail) \in Nat
      OBVIOUS
    <3>2. i \in 1..Len(trail)
      BY <3>1
    <3> QED
      BY <3>2
  <2> QED
    BY <2>1, <2>2 DEF Reaches
<1> QED
  BY <1>1, <1>2 DEF Commits

\* K holds whatever a handler may begin with, and is closed under the moves.
HoldsAll(K) ==
    /\ K \in SUBSET HostType /\ ClosedUnderMoves(K)
    /\ \A g \in HostType : Begins(g) => g \in K

LEMMA HandleKeeps ==
    ASSUME EngineAssumption, NEW K \in SUBSET HostType, ClosedUnderMoves(K),
           NEW h \in HostType, NEW s \in Steps, NEW e \in EventType,
           \A g \in HostType : Hears(h, s, e, g) => g \in K
    PROVE  Handle(h, s, e) \in Seq(K) \ {<<>>}
<1> DEFINE known == Known(h, s, e)
<1>0. \A g : Hears(h, s, e, g) => g \in K
  BY HearsTyped
<1>1. "nothing" \in Deadlines /\ \A x : DueFits(x, "nothing")
  BY DEF Deadlines, DueFits
<1>2. \A x \in K : Tick(x, "nothing") \in Seq(K) \ {<<>>}
  BY <1>1, TickKeeps
<1>3. \A x \in K : <<x>> \in Seq(K) /\ <<x>> # <<>>
  OBVIOUS
<1>4. ASSUME NEW t \in Seq(K) \ {<<>>}, NEW stopping
      PROVE  Reminded(t, s, stopping) \in Seq(K) \ {<<>>}
  <2> DEFINE g == CallOff(Last(t), s, "stop")
  <2>1. Last(t) \in K /\ t \in Seq(K)
    BY LastOf
  <2>2. g \in HostType
    BY <2>1, CallOffTyped
  <2>3. Moves(Last(t), g)
    BY DEF Moves
  <2>4. g \in K
    BY <2>1, <2>2, <2>3 DEF ClosedUnderMoves
  <2> HIDE DEF g
  <2>5. Append(t, g) \in Seq(K) /\ Append(t, g) # <<>>
    BY <2>1, <2>4, AppendProperties
  <2> QED
    BY <2>5 DEF Reminded, g
<1>5. CASE e.type = "text"
  <2>1. Handle(h, s, e) = <<Texted(h, s)>>
    BY <1>5 DEF Handle, Texted, Stale
  <2>2. Texted(h, s) \in K
    BY <1>0, <1>5 DEF Hears
  <2> QED
    BY <1>3, <2>1, <2>2
<1>6. CASE e.type = "fatal"
  <2>1. Handle(h, s, e) = Fatal(h, s)
    BY <1>6 DEF Handle
  <2>2. Live(h, s) => Refused(h, s) \in K
    BY <1>0, <1>6 DEF Hears
  <2>3. ~Live(h, s) => h \in K
    BY <1>0, <1>6 DEF Hears
  <2>4. Fatal(h, s) = IF Live(h, s) THEN <<Refused(h, s)>> ELSE <<h>>
    BY DEF Fatal, Refused
  <2> QED
    BY <1>3, <2>1, <2>2, <2>3, <2>4
<1>7. CASE e.type \notin {"text", "fatal"}
  <2>0. e.type \in States \cup {"turn"}
    BY <1>7 DEF EventType, EventTypes
  <2>1. known \in K
    BY <1>0, <2>0 DEF Hears
  <2>2. CASE Stale(known, s, e)
    <3>1. Handle(h, s, e) = <<known>>
      BY <1>7, <2>2 DEF Handle, Known
    <3> HIDE DEF known
    <3> QED
      BY <1>3, <2>1, <3>1
  <2>3. CASE ~Stale(known, s, e) /\ e.type = "turn"
    <3>1. Handle(h, s, e) = TurnReport(known, s)
      BY <1>7, <2>3 DEF Handle, Known
    <3>2. TurnReport(known, s) = Tick(TurnOver(known, s), "nothing")
      BY DEF TurnReport, TurnOver
    <3>3. TurnOver(known, s) \in K
      BY <1>0, <2>0, <2>3 DEF Hears
    <3> HIDE DEF known
    <3> QED
      BY <1>2, <3>1, <3>2, <3>3
  <2>4. CASE ~Stale(known, s, e) /\ e.type # "turn"
    <3>1. Handle(h, s, e) = StateReport(known, s, e)
      BY <1>7, <2>4 DEF Handle, Known
    <3> DEFINE moved == Moved(known, s, e)
    <3>2. StateReport(known, s, e)
            = IF CanTransition(known.sess[s].st, e.type)
              THEN Reminded(Tick(moved, "nothing"), s, moved.sess[s].stop) ELSE <<known>>
      BY DEF StateReport, Moved, Begun
    <3>3. CanTransition(known.sess[s].st, e.type) => moved \in K
      <4>1. e.type \in States
        BY <2>0, <2>4
      <4> QED
        BY <1>0, <2>0, <2>4, <4>1 DEF Hears
    <3> HIDE DEF known, moved
    <3>4. CASE CanTransition(known.sess[s].st, e.type)
      <4>1. Tick(moved, "nothing") \in Seq(K) \ {<<>>}
        BY <1>2, <3>3, <3>4
      <4>2. Reminded(Tick(moved, "nothing"), s, moved.sess[s].stop) \in Seq(K) \ {<<>>}
        BY <1>4, <4>1
      <4> QED
        BY <3>1, <3>2, <3>4, <4>2
    <3>5. CASE ~CanTransition(known.sess[s].st, e.type)
      BY <1>3, <2>1, <3>1, <3>2, <3>5
    <3> QED
      BY <3>4, <3>5
  <2> QED
    BY <2>2, <2>3, <2>4
<1> QED
  BY <1>5, <1>6, <1>7

\* The handlers of the Host.
Handler ==
    \/ \E due \in Deadlines : Sweep(due)
    \/ \E s \in Steps : Receive(s) \/ Beat(s)
    \/ Synchronized \/ Plans

LEMMA ArchiveKeeps ==
    ASSUME EngineAssumption, NEW K \in SUBSET HostType, ClosedUnderMoves(K), NEW h \in K
    PROVE  Walk([parked |-> Steps], "park", <<h>>) \in Seq(K) \ {<<>>}
<1> DEFINE p == [parked |-> Steps]
           At == [i \in 0..Len(Order) |-> K]
<1>1. \A i \in 0..Len(Order) : At[i] = K
  OBVIOUS
<1>2. At \in [0..Len(Order) -> SUBSET K] /\ Len(Order) \in Nat
  BY OrderTyped
<1>3. \A g, s : Execute(g, p, "park", s) = IF s \in Steps THEN StopSession(g, s) ELSE <<>>
  BY DEF Execute, Park
<1> HIDE DEF At, p
<1>4. Stays(p, "park", K, At)
  <2> SUFFICES ASSUME NEW i \in 1..Len(Order), NEW g \in At[i - 1]
               PROVE  LET does == Execute(g, p, "park", Order[i])
                      IN  /\ does \in Seq(K)
                          /\ (does = <<>> => g \in At[i]) /\ (does # <<>> => Last(does) \in At[i])
    BY DEF Stays
  <2>1. i - 1 \in 0..Len(Order) /\ i \in 0..Len(Order)
    BY <1>2
  <2>2. g \in K /\ At[i] = K /\ Order[i] \in Steps
    BY <1>1, <2>1, OrderTyped
  <2> DEFINE does == Execute(g, p, "park", Order[i])
  <2>3. does = StopSession(g, Order[i])
    BY <1>3, <2>2
  <2>4. Leads(K, g, StopSession(g, Order[i]), End(g, StopSession(g, Order[i])), Order[i])
    BY <2>2, StopMoves
  <2> HIDE DEF does
  <2>5. does \in Seq(K)
    BY <2>3, <2>4 DEF Leads
  <2> QED
    BY <2>2, <2>5, LastOf DEF does
<1>5. <<h>> \in Seq(K) /\ <<h>> # <<>> /\ Last(<<h>>) \in At[0]
  BY <1>1, <1>2 DEF Last
<1>6. "park" \in Phases
  BY DEF Phases
<1>7. /\ Walk(p, "park", <<h>>) \in Seq(K) /\ Walk(p, "park", <<h>>) # <<>>
  BY <1>2, <1>4, <1>5, <1>6, WalkKeeps
<1> QED
  BY <1>7 DEF p

LEMMA HandlerReaches ==
    ASSUME EngineAssumption, TypeOK, NEW K, HoldsAll(K), Handler
    PROVE  \E g \in K : Reaches(g)
<1>0. K \in SUBSET HostType /\ ClosedUnderMoves(K)
  BY DEF HoldsAll
<1>1. \A g : Begins(g) => g \in K
  BY BeginsTyped DEF HoldsAll
<1>2. "nothing" \in Deadlines /\ \A x : DueFits(x, "nothing")
  BY DEF Deadlines, DueFits
<1>3. \A x \in K : /\ Tick(x, "nothing") \in Seq(K) \ {<<>>}
                   /\ Pass(x, "nothing") \in Seq(K) \ {<<>>}
  BY <1>0, <1>2, TickKeeps, PassKeeps
<1>4. \A x \in K : <<x>> \in Seq(K) \ {<<>>}
  OBVIOUS
<1>5. \A t \in Seq(K) \ {<<>>} : Commits(t) => \E g \in K : Reaches(g)
  BY CommitsReach
<1>6. Host \in K
  BY <1>1 DEF Begins
<1>7. ASSUME NEW due \in Deadlines, Sweep(due) PROVE \E g \in K : Reaches(g)
  <2>1. Passed(due) /\ Commits(Tick(Host, due))
    BY <1>7 DEF Sweep, Ticks, Changes
  <2>2. DueFits(Host, due)
    <3> SUFFICES ASSUME due = "starting", NEW s \in Starting(Host) PROVE Quiet(Host, s)
      BY DEF DueFits
    <3>1. "late answer" \in Hazards \/ ~Astir(s)
      BY <2>1 DEF Passed
    <3> QED
      BY <3>1, HostIs DEF Astir, Quiet
  <2>3. Tick(Host, due) \in Seq(K) \ {<<>>}
    BY <1>0, <1>6, <2>2, TickKeeps
  <2> QED
    BY <1>5, <2>1, <2>3
<1>8. ASSUME NEW s \in Steps, Receive(s) PROVE \E g \in K : Reaches(g)
  <2>1. Receives(s) /\ Commits(Handle(Heard(s), s, Head(up[s])))
    BY <1>8 DEF Receive, Heard
  <2>2. \A g \in HostType : Hears(Heard(s), s, Head(up[s]), g) => g \in K
    BY <1>1, <2>1 DEF Begins
  <2>3. Heard(s) \in HostType /\ Head(up[s]) \in EventType
    BY <2>1, HeardTyped
  <2>4. Handle(Heard(s), s, Head(up[s])) \in Seq(K) \ {<<>>}
    BY <1>0, <2>2, <2>3, HandleKeeps
  <2> QED
    BY <1>5, <2>1, <2>4
<1>9. ASSUME NEW s \in Steps, Beat(s) PROVE \E g \in K : Reaches(g)
  <2>1. Beats(s) /\ Commits(<<Reconciled(Host, {s})>>)
    BY <1>9 DEF Beat
  <2>2. Reconciled(Host, {s}) \in K
    BY <1>1, <2>1 DEF Begins
  <2> QED
    BY <1>4, <1>5, <2>1, <2>2
<1>10. CASE Synchronized
  <2>1. Replayed /\ Commits(<<Found>> \o Pass(Revived(Found), "nothing"))
    BY <1>10 DEF Synchronized, Found, Bare
  <2>2. Found \in K /\ Revived(Found) \in K
    BY <1>1, <2>1 DEF Begins
  <2> DEFINE t == Pass(Revived(Found), "nothing")
  <2>3. t \in Seq(K) /\ <<Found>> \in Seq(K) /\ <<Found>> # <<>>
    BY <1>3, <2>2
  <2> HIDE DEF t
  <2>4. <<Found>> \o t \in Seq(K) /\ <<Found>> \o t # <<>>
    BY <2>3, JoinedSeqs
  <2> QED
    BY <1>5, <2>1, <2>4 DEF t
<1>11. ASSUME NEW s \in Steps,
              StartWork(s) \/ FollowUp(s) \/ PersonCancels(s) \/ PersonStops(s)
                \/ PersonWrites(s)
       PROVE  \E g \in K : Reaches(g)
  <2>0. \A g : Ordered(s, g) => g \in K
    BY <1>1 DEF Begins
  <2>1. CASE StartWork(s)
    <3>1. WorkStarted(s) \in K /\ Commits(Pass(WorkStarted(s), "nothing"))
      BY <2>0, <2>1 DEF StartWork, Ordered, WorkStarted, Does
    <3> QED
      BY <1>3, <1>5, <3>1
  <2>2. CASE FollowUp(s)
    <3>1. Ordered(s, Again(s))
      BY <2>2 DEF FollowUp, Ordered
    <3>2. Commits(Pass(Again(s), "nothing"))
      BY <2>2 DEF FollowUp, Again, Does
    <3> QED
      BY <1>3, <1>5, <2>0, <3>1, <3>2
  <2>3. CASE PersonCancels(s)
    <3> DEFINE x == Cancelling(s)
               y == IF Open(Host) THEN CallOff(x, s, "cancel") ELSE Takes(x, s, "failed")
    <3>1. Commits(<<x, y>>) /\ sess[s].st = "running"
      BY <2>3 DEF PersonCancels, Cancelling, Interferes
    <3>2. x \in K
      BY <2>0, <3>1 DEF Ordered
    <3>3. y \in K
      <4>1. CASE Open(Host)
        <5> HIDE DEF x
        <5>1. Moves(x, CallOff(x, s, "cancel"))
          BY DEF Moves
        <5>2. CallOff(x, s, "cancel") \in HostType
          BY <1>0, <3>2, CallOffTyped
        <5> QED
          BY <1>0, <3>2, <4>1, <5>1, <5>2 DEF ClosedUnderMoves
      <4>2. CASE ~Open(Host)
        BY <2>0, <3>1, <4>2 DEF Ordered
      <4> QED
        BY <4>1, <4>2
    <3> HIDE DEF x, y
    <3>4. <<x, y>> \in Seq(K) \ {<<>>}
      BY <3>2, <3>3
    <3> QED
      BY <1>5, <3>1, <3>4
  <2>4. CASE PersonStops(s)
    <3>1. StopSession(Host, s) # <<>> /\ Commits(StopSession(Host, s))
      BY <2>4 DEF PersonStops, Interferes
    <3>2. Leads(K, Host, StopSession(Host, s), End(Host, StopSession(Host, s)), s)
      BY <1>0, <1>6, StopMoves
    <3>3. StopSession(Host, s) \in Seq(K) \ {<<>>}
      BY <3>1, <3>2 DEF Leads
    <3> QED
      BY <1>5, <3>1, <3>3
  <2>5. CASE PersonWrites(s)
    <3>1. Ordered(s, Written(s)) /\ Commits(<<Written(s)>>)
      BY <2>5 DEF PersonWrites, Ordered, Written, Interferes
    <3> QED
      BY <1>4, <1>5, <2>0, <3>1
  <2> QED
    BY <1>11, <2>1, <2>2, <2>3, <2>4, <2>5
<1>12. ASSUME Submit \/ Escalate \/ Accept \/ SendBack PROVE \E g \in K : Reaches(g)
  <2>0. \A g : Decided(g) => g \in K
    BY <1>1 DEF Begins
  <2>1. CASE Submit \/ Escalate
    <3>1. Decided(RunIs("awaiting_human")) /\ Commits(<<RunIs("awaiting_human")>>)
      BY <2>1 DEF Submit, Escalate, Decided, Does, Interferes
    <3> QED
      BY <1>4, <1>5, <2>0, <3>1
  <2>2. CASE Accept
    <3>1. Decided(RunIs("completed")) /\ Commits(Tick(RunIs("completed"), "nothing"))
      BY <2>2 DEF Accept, Decided, Interferes
    <3> QED
      BY <1>3, <1>5, <2>0, <3>1
  <2>3. CASE SendBack
    <3>1. Decided(RunIs("running")) /\ Commits(Tick(RunIs("running"), "nothing"))
      BY <2>3 DEF SendBack, Decided, Interferes
    <3> QED
      BY <1>3, <1>5, <2>0, <3>1
  <2> QED
    BY <1>12, <2>1, <2>2, <2>3
<1>13. CASE Archive
  <2> DEFINE h == IF run.st \in Closed THEN Host ELSE Called
  <2>1. Commits(Walk([parked |-> Steps], "park", <<h>>))
    BY <1>13 DEF Archive, Called, Interferes
  <2>2. h \in K
    BY <1>1, <1>6 DEF Begins, Decided
  <2> HIDE DEF h
  <2>3. Walk([parked |-> Steps], "park", <<h>>) \in Seq(K) \ {<<>>}
    BY <1>0, <2>2, ArchiveKeeps
  <2> QED
    BY <1>5, <2>1, <2>3
<1> QED
  BY <1>7, <1>8, <1>9, <1>10, <1>11, <1>12, <1>13 DEF Handler, Plans

-----------------------------------------------------------------------------
(* Type correctness                                                        *)

\* The Node's part of the state, and the bounds.
NodeOK ==
    /\ led \in BOOLEAN
    /\ agent \in [Steps -> [proc : {"none", "booting", "idle", "turn"},
                            job : 0..Session, spoke : BOOLEAN]]
    /\ breaks \in 0..MaxBreaks /\ acts \in 0..MaxActs
    /\ asked \in [Steps -> [1..MaxTries -> Nat]]
    /\ ended \subseteq Steps \X (1..MaxTries)

LEMMA TypeIs == TypeOK <=> NodeOK /\ Host \in HostType
BY DEF TypeOK, NodeOK, Host, HostType, RunType, RunStates, StepType, RowType,
       CommandType, EventType

\* What a Journal keeps of events is a part of them, in their order.
LEMMA JournalIs ==
    ASSUME NEW events \in Seq(EventType)
    PROVE  \E f \in [0..Len(events) -> Seq(EventType)] :
              /\ f[0] = <<>> /\ Journal(events) = f[Len(events)]
              /\ \A i \in 1..Len(events) :
                    f[i] = IF events[i].type = "fatal" THEN f[i - 1]
                           ELSE Append(f[i - 1], events[i])
<1> DEFINE n == Len(events)
           After(t, i) == IF events[i].type = "fatal" THEN t ELSE Append(t, events[i])
           Is(x) == x = [i \in 0..n |-> IF i = 0 THEN <<>> ELSE After(x[i - 1], i)]
           g == [ti \in Seq(EventType) \X (1..n) |-> After(ti[1], ti[2])]
<1>1. n \in Nat /\ <<>> \in Seq(EventType) /\ \A i \in 1..n : events[i] \in EventType
  OBVIOUS
<1>2. \A t \in Seq(EventType), i \in 1..n : After(t, i) \in Seq(EventType)
  BY <1>1
<1>3. g \in [Seq(EventType) \X (1..n) -> Seq(EventType)]
  <2> HIDE DEF After
  <2> QED
    BY <1>2
<1>4. PICK f \in [0..n -> Seq(EventType)] : Builds(f, n, <<>>, g)
  <2> HIDE DEF g, n
  <2> QED
    BY <1>1, <1>3, Recursion
<1>5. \A i \in 0..n : f[i] = IF i = 0 THEN <<>> ELSE After(f[i - 1], i)
  <2> TAKE i \in 0..n
  <2>1. CASE i = 0
    BY <1>4, <2>1 DEF Builds
  <2>2. CASE i # 0
    <3>1. i - 1 \in 0..n /\ i \in 1..n
      BY <1>1, <2>2
    <3>2. f[i] = g[<<f[i - 1], i>>] /\ <<f[i - 1], i>> \in Seq(EventType) \X (1..n)
      <4> HIDE DEF g
      <4> QED
        BY <1>4, <2>2, <3>1 DEF Builds
    <3> HIDE DEF After
    <3> QED
      BY <2>2, <3>2
  <2> QED
    BY <2>1, <2>2
<1>6. Is(f)
  <2> HIDE DEF After
  <2> QED
    BY <1>5, <1>4
<1> DEFINE kept == CHOOSE x : Is(x)
<1>7. Is(kept)
  BY <1>6
<1>8. Journal(events) = kept[n]
  BY DEF Journal
<1>9. /\ kept[0] = <<>>
      /\ \A i \in 1..n : kept[i] = After(kept[i - 1], i)
  <2>1. \A i \in 0..n : kept[i] = IF i = 0 THEN <<>> ELSE After(kept[i - 1], i)
    <3> HIDE DEF kept, After
    <3> QED
      BY <1>7
  <2>2. 0 \in 0..n /\ \A i \in 1..n : i \in 0..n /\ i # 0
    BY <1>1
  <2> HIDE DEF kept, After
  <2> QED
    BY <2>1, <2>2
<1>10. kept \in [0..n -> Seq(EventType)]
  <2> DEFINE S == {i \in 0..n : kept[i] \in Seq(EventType)}
  <2>1. 0 \in S
    <3> HIDE DEF kept
    <3>1. kept[0] \in Seq(EventType) /\ 0 \in 0..n
      BY <1>1, <1>9
    <3> QED
      BY <3>1
  <2>2. ASSUME NEW i \in 1..n, i - 1 \in S PROVE i \in S
    <3> HIDE DEF kept, After
    <3>1. kept[i] \in Seq(EventType)
      BY <1>2, <1>9, <2>2
    <3> QED
      BY <1>1, <3>1
  <2> HIDE DEF S
  <2>3. 0..n \subseteq S
    BY <1>1, <2>1, <2>2, UpTo
  <2>4. \A i \in 0..n : kept[i] \in Seq(EventType)
    BY <2>3 DEF S
  <2> HIDE DEF kept, After
  <2>5. kept = [i \in 0..n |-> kept[i]]
    BY <1>7
  <2> QED
    BY <2>4, <2>5
<1> HIDE DEF kept
<1> QED
  BY <1>8, <1>9, <1>10

LEMMA JournalTyped ==
    ASSUME NEW events \in Seq(EventType)
    PROVE  Journal(events) \in Seq(EventType)
<1>1. PICK f \in [0..Len(events) -> Seq(EventType)] : Journal(events) = f[Len(events)]
  BY JournalIs
<1>2. Len(events) \in 0..Len(events)
  OBVIOUS
<1> QED
  BY <1>1, <1>2

LEMMA BecomesIs ==
    ASSUME NEW g \in HostType, Becomes(g)
    PROVE  Host' = g
BY DEF Becomes, Host, HostType

\* What is left of a worker's row, and of what is on its way, when the link goes.
LEMMA SeveredIs ==
    ASSUME NEW h \in HostType, NEW kept, Severed(h, kept), memo' \in [Steps -> 0..Session]
    PROVE  /\ Host' \in HostType /\ run' = h.run /\ step' = h.step /\ mail' = h.mail
           /\ link' = "down"
           /\ \A s \in Steps :
                /\ sess'[s] = IF Live(h, s) THEN [h.sess[s] EXCEPT !.st = "offline"]
                              ELSE h.sess[s]
                /\ up'[s] = Journal(h.up[s])
                /\ down'[s] = IF s \in kept THEN h.down[s] ELSE <<>>
<1>1. \A s \in Steps : /\ [h.sess[s] EXCEPT !.st = "offline"] \in RowType
                       /\ h.sess[s] \in RowType
  <2> TAKE s \in Steps
  <2>1. h.sess[s] \in RowType
    BY HostAt
  <2> QED
    BY <2>1, StatesKnown DEF RowType
<1>2. \A s \in Steps : Journal(h.up[s]) \in Seq(EventType)
  BY HostAt, JournalTyped
<1>3. \A s \in Steps : h.down[s] \in Seq(CommandType) /\ <<>> \in Seq(CommandType)
  BY HostAt
<1>4. sess' \in [Steps -> RowType]
  BY <1>1 DEF Severed
<1>5. up' \in [Steps -> Seq(EventType)]
  BY <1>2 DEF Severed
<1>6. down' \in [Steps -> Seq(CommandType)]
  BY <1>3 DEF Severed
<1>7. /\ run' \in RunType /\ step' \in [Steps -> StepType] /\ mail' \in SUBSET Steps
      /\ link' \in {"up", "syncing", "closing", "down"}
  BY HostParts DEF Severed
<1>8. Host' \in HostType
  BY <1>4, <1>5, <1>6, <1>7 DEF Host, HostType
<1> QED
  BY <1>8 DEF Severed

LEMMA NoMemo ==
    ASSUME EngineAssumption
    PROVE  [s \in Steps |-> 0] \in [Steps -> 0..Session]
BY Numbers

LEMMA ReachesTyped ==
    ASSUME EngineAssumption, NodeOK, NEW g \in HostType, Reaches(g)
    PROVE  Host' \in HostType /\ breaks' \in 0..MaxBreaks
<1>1. MaxBreaks \in Nat /\ breaks \in 0..MaxBreaks
  BY DEF EngineAssumption, NodeOK
<1>2. CASE Becomes(g) /\ UNCHANGED breaks
  BY <1>1, <1>2, BecomesIs
<1>3. CASE Dies(g)
  <2>1. PICK kept \in SUBSET {s \in Steps : g.down[s] # <<>>} : Severed(g, kept)
    BY <1>3 DEF Dies
  <2>2. memo' \in [Steps -> 0..Session]
    BY <1>3, NoMemo DEF Dies
  <2>3. Host' \in HostType
    BY <2>1, <2>2, SeveredIs
  <2>4. breaks < MaxBreaks /\ breaks' = breaks + 1
    BY <1>3 DEF Dies
  <2> QED
    BY <1>1, <2>3, <2>4
<1> QED
  BY <1>2, <1>3 DEF Reaches

LEMMA HandlerLeaves ==
    ASSUME EngineAssumption, NodeOK, Handler
    PROVE  led' = led /\ agent' = agent /\ asked' = asked /\ ended' = ended /\ acts' \in 0..MaxActs
<1>1. MaxActs \in Nat /\ acts \in 0..MaxActs
  BY DEF EngineAssumption, NodeOK
<1>2. HostOnly \/ \E trail : Interferes(trail)
  BY DEF Handler, Plans, Sweep, Receive, Beat, Synchronized, StartWork, FollowUp, Submit,
         Escalate, Accept, SendBack, Archive, PersonCancels, PersonStops, PersonWrites, Does
<1> QED
  BY <1>1, <1>2 DEF HostOnly, Interferes, nodeVars

\* What a worker's process does.
NodeActs(s) ==
    NodeTakes(s) \/ Boot(s) \/ Speak(s) \/ TurnEnds(s) \/ AgentDies(s) \/ OwnTurn(s)

LEMMA NextIs ==
    ASSUME Next
    PROVE  \/ Handler \/ Reconnect \/ Break \/ HostRestart \/ NodeRestart \/ HangsUp
           \/ \E s \in Steps : NodeActs(s)
BY DEF Next, Handler, NodeActs

\* What a worker tells joins what is on its way from it, nothing else changes.
LEMMA ReportsIs ==
    ASSUME TypeOK, NEW s \in Steps, NEW types \in Seq(EventTypes), Reports(s, types)
    PROVE  /\ up'[s] \in Seq(EventType) /\ up' = [up EXCEPT ![s] = up'[s]]
           /\ led' = led /\ run' = run /\ step' = step /\ sess' = sess /\ memo' = memo
           /\ mail' = mail /\ link' = link /\ breaks' = breaks
<1> DEFINE sent == IF link = "down" /\ types = <<"fatal">> THEN <<>> ELSE types
           said == [i \in DOMAIN sent |-> [type |-> sent[i], late |-> FALSE]]
<1>1. sent \in Seq(EventTypes)
  OBVIOUS
<1>2. up' = [up EXCEPT ![s] = @ \o said]
  BY DEF Reports
<1>3. said \in Seq(EventType)
  <2> HIDE DEF sent
  <2>1. DOMAIN sent = 1..Len(sent) /\ Len(sent) \in Nat
        /\ \A i \in 1..Len(sent) : sent[i] \in EventTypes
    BY <1>1
  <2>2. said \in [1..Len(sent) -> EventType]
    BY <2>1 DEF EventType
  <2> QED
    BY <2>1, <2>2
<1>4. up \in [Steps -> Seq(EventType)]
  BY DEF TypeOK, EventType
<1>5. up[s] \o said \in Seq(EventType)
  <2> HIDE DEF said
  <2> QED
    BY <1>3, <1>4
<1> HIDE DEF said
<1> QED
  BY <1>2, <1>4, <1>5 DEF Reports, hostVars

AgentType == [proc : {"none", "booting", "idle", "turn"}, job : 0..Session, spoke : BOOLEAN]

LEMMA NodeActsTyped ==
    ASSUME EngineAssumption, TypeOK, NEW s \in Steps, NodeActs(s)
    PROVE  TypeOK'
<1> DEFINE Says == /\ up' \in [Steps -> Seq(EventType)]
                   /\ led' = led /\ run' = run /\ step' = step /\ sess' = sess
                   /\ memo' = memo /\ mail' = mail /\ link' = link /\ breaks' = breaks
<1>1. /\ agent \in [Steps -> AgentType] /\ down \in [Steps -> Seq(CommandType)]
      /\ asked \in [Steps -> [1..MaxTries -> Nat]] /\ MaxActs \in Nat /\ acts \in 0..MaxActs
      /\ ended \subseteq Steps \X (1..MaxTries) /\ up \in [Steps -> Seq(EventType)]
  BY DEF TypeOK, AgentType, CommandType, EngineAssumption, EventType
<1>2. \A types \in Seq(EventTypes) : Reports(s, types) => Says
  BY <1>1, ReportsIs
<1>3. /\ {"starting", "fatal", "running", "stopped", "failed", "idle", "text", "turn"}
           \subseteq EventTypes
  BY StatesKnown DEF EventTypes
<1>4. /\ \A a \in EventTypes : <<a>> \in Seq(EventTypes)
      /\ <<>> \in Seq(EventTypes) /\ <<"turn", "idle">> \in Seq(EventTypes)
      /\ Refusal \in Seq(EventTypes)
  BY <1>3 DEF Refusal
<1> HIDE DEF Says
<1>5. \A proc \in {"none", "booting", "idle", "turn"}, job \in 0..Session :
         Becoming(s, proc, job) => agent' \in [Steps -> AgentType]
  BY <1>1 DEF Becoming, AgentType
<1>6. \A job \in 0..Session : Asked(s, job) => asked' \in [Steps -> [1..MaxTries -> Nat]]
  <2> SUFFICES ASSUME NEW job \in 0..Session, Asked(s, job)
               PROVE  asked' \in [Steps -> [1..MaxTries -> Nat]]
    OBVIOUS
  <2>1. CASE job \in 1..MaxTries
    <3> DEFINE v == [asked[s] EXCEPT ![job] = @ + 1]
    <3>1. asked[s] \in [1..MaxTries -> Nat]
      BY <1>1
    <3>4. asked[s][job] \in Nat
      BY <2>1, <3>1
    <3>5. asked[s][job] + 1 \in Nat
      BY <3>4
    <3>2. v \in [1..MaxTries -> Nat]
      BY <3>1, <3>5
    <3>3. asked' = [asked EXCEPT ![s] = v]
      BY <1>1, <2>1 DEF Asked
    <3> HIDE DEF v
    <3> QED
      BY <1>1, <3>2, <3>3
  <2>2. CASE job \notin 1..MaxTries
    BY <1>1, <2>2 DEF Asked
  <2> QED
    BY <2>1, <2>2
<1>7. agent' = [agent EXCEPT ![s] = NoAgent] => agent' \in [Steps -> AgentType]
  <2>1. NoAgent \in AgentType
    BY Numbers DEF NoAgent, AgentType
  <2> QED
    BY <1>1, <2>1
<1>8. agent[s].job \in 0..Session /\ 0 \in 0..Session
  BY <1>1, Numbers DEF AgentType
<1> DEFINE Kept == /\ agent' \in [Steps -> AgentType] /\ down' \in [Steps -> Seq(CommandType)]
                   /\ asked' \in [Steps -> [1..MaxTries -> Nat]] /\ acts' \in 0..MaxActs
                   /\ ended' \subseteq Steps \X (1..MaxTries)
<1>9. ASSUME NEW types, Pops(s, types)
      PROVE  /\ down' \in [Steps -> Seq(CommandType)] /\ ended' = ended /\ acts' = acts
             /\ Head(down[s]).job \in 0..Session
  <2>1. down[s] \in Seq(CommandType) /\ down[s] # <<>>
    BY <1>1, <1>9 DEF Pops
  <2>2. Tail(down[s]) \in Seq(CommandType) /\ Head(down[s]) \in CommandType
    BY <2>1
  <2> QED
    BY <1>1, <1>9, <2>2 DEF Pops, CommandType
<1>10. Says /\ Kept
  <2>1. CASE TakeLaunch(s)
    <3>0. Pops(s, {"start", "resume"}) /\ asked' = asked
      BY <2>1 DEF TakeLaunch
    <3>1. Reports(s, <<"starting">>) \/ Reports(s, <<>>)
      BY <2>1 DEF TakeLaunch
    <3>2. Becoming(s, "booting", Head(down[s]).job) \/ agent' = agent
      BY <2>1 DEF TakeLaunch
    <3>3. Says
      BY <1>2, <1>3, <1>4, <3>1
    <3>4. agent' \in [Steps -> AgentType]
      BY <1>1, <1>5, <1>9, <3>0, <3>2
    <3> QED
      BY <1>1, <1>9, <3>0, <3>3, <3>4
  <2>2. CASE TakePrompt(s)
    <3> DEFINE job == Head(down[s]).job
    <3>0. Pops(s, {"prompt"}) /\ job \in 0..Session
      BY <1>9, <2>2 DEF TakePrompt
    <3>1. \/ Reports(s, <<"fatal">>) /\ UNCHANGED <<agent, asked>>
          \/ Reports(s, <<"running">>) /\ UNCHANGED <<agent, asked>>
          \/ Reports(s, <<"running">>) /\ Asked(s, job) /\ Becoming(s, "turn", job)
      BY <2>2 DEF TakePrompt
    <3> HIDE DEF job
    <3>3. Says
      BY <1>2, <1>3, <1>4, <3>1
    <3>4. agent' \in [Steps -> AgentType]
      BY <1>1, <1>5, <3>0, <3>1
    <3>5. asked' \in [Steps -> [1..MaxTries -> Nat]]
      BY <1>1, <1>6, <3>0, <3>1
    <3> QED
      BY <1>1, <1>9, <3>0, <3>3, <3>4, <3>5
  <2>3. CASE TakeStop(s)
    <3>0. Pops(s, {"stop"}) /\ asked' = asked
      BY <2>3 DEF TakeStop
    <3>1. Reports(s, Refusal) \/ Reports(s, <<"stopped">>) \/ Reports(s, <<"failed">>)
      BY <2>3 DEF TakeStop
    <3>2. agent' = agent \/ agent' = [agent EXCEPT ![s] = NoAgent]
      BY <2>3 DEF TakeStop
    <3>3. Says
      BY <1>2, <1>3, <1>4, <3>1
    <3>4. agent' \in [Steps -> AgentType]
      BY <1>1, <1>7, <3>2
    <3> QED
      BY <1>1, <1>9, <3>0, <3>3, <3>4
  <2>4. CASE TakeCancel(s)
    <3>0. Pops(s, {"cancel"}) /\ asked' = asked
      BY <2>4 DEF TakeCancel
    <3>1. Reports(s, <<"idle">>) \/ Reports(s, Refusal) \/ Reports(s, <<>>)
      BY <2>4 DEF TakeCancel
    <3>2. agent' = agent \/ Becoming(s, "idle", 0)
      BY <2>4 DEF TakeCancel
    <3>3. Says
      BY <1>2, <1>3, <1>4, <3>1
    <3>4. agent' \in [Steps -> AgentType]
      BY <1>1, <1>5, <1>8, <3>2
    <3> QED
      BY <1>1, <1>9, <3>0, <3>3, <3>4
  <2>5. CASE Boot(s)
    <3>1. /\ Becoming(s, "idle", agent[s].job) \/ Becoming(s, "turn", agent[s].job)
          /\ Reports(s, <<"idle">>) \/ Reports(s, <<"running">>)
          /\ Asked(s, agent[s].job) /\ UNCHANGED <<down, ended, acts>>
      BY <2>5 DEF Boot
    <3>2. Says
      BY <1>2, <1>3, <1>4, <3>1
    <3>3. agent' \in [Steps -> AgentType]
      BY <1>5, <1>8, <3>1
    <3>4. asked' \in [Steps -> [1..MaxTries -> Nat]]
      BY <1>6, <1>8, <3>1
    <3> QED
      BY <1>1, <3>1, <3>2, <3>3, <3>4
  <2>6. CASE Speak(s)
    <3>1. Says
      BY <1>2, <1>3, <1>4, <2>6 DEF Speak
    <3>2. agent' \in [Steps -> AgentType]
      <4> DEFINE v == [agent[s] EXCEPT !.spoke = TRUE]
      <4>1. agent[s] \in AgentType
        BY <1>1
      <4>2. v \in AgentType
        BY <4>1 DEF AgentType
      <4>3. agent' = [agent EXCEPT ![s] = v]
        BY <2>6 DEF Speak
      <4> HIDE DEF v
      <4> QED
        BY <1>1, <4>2, <4>3
    <3> QED
      BY <1>1, <2>6, <3>1, <3>2 DEF Speak
  <2>7. CASE TurnEnds(s)
    <3>1. /\ Reports(s, <<"idle">>) \/ Reports(s, <<"turn", "idle">>)
          /\ Becoming(s, "idle", 0) /\ UNCHANGED <<down, asked, acts>>
          /\ ended' = IF agent[s].job \in 1..MaxTries THEN ended \cup {<<s, agent[s].job>>}
                      ELSE ended
      BY <2>7 DEF TurnEnds
    <3>2. Says
      BY <1>2, <1>3, <1>4, <3>1
    <3>3. agent' \in [Steps -> AgentType]
      BY <1>5, <1>8, <3>1
    <3>4. ended' \subseteq Steps \X (1..MaxTries)
      <4>1. agent[s].job \in 1..MaxTries => <<s, agent[s].job>> \in Steps \X (1..MaxTries)
        OBVIOUS
      <4> QED
        BY <1>1, <3>1, <4>1
    <3> QED
      BY <1>1, <3>1, <3>2, <3>3, <3>4
  <2>8. CASE AgentDies(s)
    <3>1. Says
      BY <1>2, <1>3, <1>4, <2>8 DEF AgentDies
    <3>2. agent' \in [Steps -> AgentType]
      BY <1>7, <2>8 DEF AgentDies
    <3> QED
      BY <1>1, <2>8, <3>1, <3>2 DEF AgentDies
  <2>9. CASE OwnTurn(s)
    <3>1. Says
      BY <1>2, <1>3, <1>4, <2>9 DEF OwnTurn
    <3>2. agent' \in [Steps -> AgentType]
      BY <1>5, <1>8, <2>9 DEF OwnTurn
    <3>0. acts < MaxActs /\ acts' = acts + 1
      BY <2>9 DEF OwnTurn
    <3>3. acts' \in 0..MaxActs
      BY <1>1, <3>0
    <3> QED
      BY <1>1, <2>9, <3>1, <3>2, <3>3 DEF OwnTurn
  <2> QED
    BY <2>1, <2>2, <2>3, <2>4, <2>5, <2>6, <2>7, <2>8, <2>9 DEF NodeActs, NodeTakes
<1> QED
  <2>1. NodeOK'
    <3>1. led' \in BOOLEAN /\ breaks' \in 0..MaxBreaks
      BY <1>10 DEF Says, TypeOK
    <3> QED
      BY <1>10, <3>1 DEF NodeOK, AgentType
  <2>2. Host \in HostType
    BY HostTyped
  <2>3. Host' \in HostType
    BY <1>10, <2>2 DEF Says, Host, HostType
  <2>4. (TypeOK <=> NodeOK /\ Host \in HostType)'
    BY DEF TypeOK, NodeOK, Host, HostType, RunType, RunStates, StepType, RowType,
           CommandType, EventType
  <2> QED
    BY <2>1, <2>3, <2>4

LEMMA InitTyped ==
    ASSUME EngineAssumption, Init
    PROVE  TypeOK
<1>1. /\ MaxTries \in Nat /\ MaxBreaks \in Nat /\ MaxActs \in Nat /\ 0 \in 0..Session
      /\ 0 \in 0..MaxTries /\ 1 \in 0..MaxTries /\ 0 \in 0..MaxBreaks /\ 0 \in 0..MaxActs
  BY Numbers DEF EngineAssumption
<1>2. NoStep \in StepType /\ NewStep \in StepType /\ NoRow \in RowType
      /\ NoAgent \in AgentType
  BY <1>1 DEF NoStep, NewStep, NoRow, NoAgent, StepType, RowType, AgentType
<1>3. /\ step \in [Steps -> StepType] /\ sess \in [Steps -> RowType]
      /\ agent \in [Steps -> AgentType] /\ memo \in [Steps -> 0..Session]
  BY <1>1, <1>2 DEF Init
<1>4. /\ led \in BOOLEAN /\ run \in RunType /\ mail \subseteq Steps
      /\ link \in {"up", "syncing", "closing", "down"}
      /\ down \in [Steps -> Seq(CommandType)] /\ up \in [Steps -> Seq(EventType)]
      /\ ended \subseteq Steps \X (1..MaxTries)
  BY DEF Init, RunType, RunStates
<1>5. asked \in [Steps -> [1..MaxTries -> Nat]]
  BY DEF Init
<1>6. breaks \in 0..MaxBreaks /\ acts \in 0..MaxActs
  BY <1>1 DEF Init
<1>7. NodeOK
  BY <1>3, <1>4, <1>5, <1>6 DEF NodeOK, AgentType
<1>8. Host \in HostType
  BY <1>3, <1>4 DEF Host, HostType
<1> QED
  BY <1>7, <1>8, TypeIs

\* What breaks and heals the link leaves of the workers' processes.
LEMMA LinkLeaves ==
    ASSUME EngineAssumption, TypeOK,
           Reconnect \/ Break \/ HostRestart \/ NodeRestart \/ HangsUp
    PROVE  /\ TypeOK' /\ led' = led /\ asked' = asked /\ ended' = ended
           /\ agent' = agent \/ agent' = [s \in Steps |-> NoAgent]
           /\ \/ /\ run' = run /\ step' = step /\ sess' = sess /\ mail' = mail
                 /\ memo' = memo /\ up' = up /\ down' = down
              \/ \E kept : Severed(Host, kept)
<1>0. NodeOK /\ Host \in HostType
  BY TypeIs
<1>1. MaxBreaks \in Nat /\ breaks \in 0..MaxBreaks /\ NoAgent \in AgentType
  BY <1>0, Numbers DEF EngineAssumption, NodeOK, NoAgent, AgentType
<1>2. CASE Reconnect \/ HangsUp
  <2>1. /\ run' = run /\ step' = step /\ sess' = sess /\ mail' = mail /\ led' = led
        /\ memo' = memo /\ up' = up /\ down' = down /\ agent' = agent /\ acts' = acts
        /\ asked' = asked /\ ended' = ended
        /\ link' \in {"up", "syncing", "closing", "down"}
        /\ breaks' = breaks \/ (breaks < MaxBreaks /\ breaks' = breaks + 1)
    BY <1>2 DEF Reconnect, HangsUp, nodeVars
  <2>2. breaks' \in 0..MaxBreaks
    BY <1>1, <2>1
  <2> QED
    BY <2>1, <2>2 DEF TypeOK
<1>3. CASE Break \/ HostRestart \/ NodeRestart
  <2>1. /\ led' = led /\ acts' = acts /\ asked' = asked /\ ended' = ended
        /\ agent' = agent \/ agent' = [s \in Steps |-> NoAgent]
        /\ memo' = memo \/ memo' = [s \in Steps |-> 0]
        /\ breaks' = breaks \/ (breaks < MaxBreaks /\ breaks' = breaks + 1)
        /\ \E kept : Severed(Host, kept)
    BY <1>3 DEF Break, HostRestart, NodeRestart, Dies, HostOnly, nodeVars
  <2>2. breaks' \in 0..MaxBreaks
    BY <1>1, <2>1
  <2>3. memo' \in [Steps -> 0..Session]
    BY <1>0, <2>1, HostIs, HostParts, NoMemo
  <2>4. Host' \in HostType
    BY <1>0, <2>1, <2>3, SeveredIs
  <2>5. agent' \in [Steps -> AgentType]
    BY <1>0, <1>1, <2>1 DEF NodeOK, AgentType
  <2>6. NodeOK'
    BY <1>0, <2>1, <2>2, <2>5 DEF NodeOK, AgentType
  <2>7. (TypeOK <=> NodeOK /\ Host \in HostType)'
    BY DEF TypeOK, NodeOK, Host, HostType, RunType, RunStates, StepType, RowType,
           CommandType, EventType
  <2> QED
    BY <2>1, <2>4, <2>6, <2>7
<1> QED
  BY <1>2, <1>3

\* A handler of the Host, or its death in the middle of one, ends with the Host
\* in a state of K, of which the crash leaves what is durable.
LEMMA HandlerTyped ==
    ASSUME EngineAssumption, TypeOK, Handler
    PROVE  TypeOK'
<1>1. HoldsAll(HostType)
  BY DEF HoldsAll, ClosedUnderMoves
<1>2. PICK g \in HostType : Reaches(g)
  BY <1>1, HandlerReaches
<1>3. NodeOK
  BY TypeIs
<1>4. Host' \in HostType /\ breaks' \in 0..MaxBreaks
  BY <1>2, <1>3, ReachesTyped
<1>5. NodeOK'
  BY <1>3, <1>4, HandlerLeaves DEF NodeOK
<1>6. (TypeOK <=> NodeOK /\ Host \in HostType)'
  BY DEF TypeOK, NodeOK, Host, HostType, RunType, RunStates, StepType, RowType,
         CommandType, EventType
<1> QED
  BY <1>4, <1>5, <1>6

\* Every part of the state keeps its shape, whatever the passes, the reports,
\* the reconciliation and the crashes make of it.
THEOREM TypeCorrect == Spec => []TypeOK
<1>1. EngineAssumption
  BY EngineAssumption
<1>2. Init => TypeOK
  BY <1>1, InitTyped
<1>3. TypeOK /\ [Next]_vars => TypeOK'
  <2> SUFFICES ASSUME TypeOK, [Next]_vars PROVE TypeOK'
    OBVIOUS
  <2>1. CASE Next
    BY <1>1, <2>1, NextIs, HandlerTyped, LinkLeaves, NodeActsTyped
  <2>2. CASE UNCHANGED vars
    BY <2>2 DEF TypeOK, vars
  <2> QED
    BY <2>1, <2>2
<1> QED
  BY <1>2, <1>3, PTL DEF Spec

-----------------------------------------------------------------------------
(* Each attempt goes out once                                              *)

\* A prompt for the attempt is on its way to the worker of s.
OnItsWay(h, s, t) == \E i \in DOMAIN h.down[s] : h.down[s][i].job = t

\* It has reached the Node.
Arrived(s, t) ==
    asked[s][t] > 0 \/ (agent[s].proc = "booting" /\ agent[s].job = t)

\* What went out to the worker of s is on the step's record, once.
Accounted(h, s) ==
    /\ h.step[s].st = "none" => ~h.step[s].bound
    /\ \A t \in Attempts :
         /\ OnItsWay(h, s, t) \/ Arrived(s, t) =>
              /\ h.step[s].bound /\ t <= h.step[s].try
              /\ t = h.step[s].try => h.step[s].st \notin {"pending", "none"}
         /\ \A i, j \in DOMAIN h.down[s] :
               h.down[s][i].job = t /\ h.down[s][j].job = t => i = j
         /\ ~(Arrived(s, t) /\ OnItsWay(h, s, t))

\* What the worker of s has been given.
GivenOnce(s) ==
    \A t \in Attempts :
      /\ asked[s][t] <= 1 /\ (WorksOn(s, t) => asked[s][t] > 0)
      /\ agent[s].proc = "booting" /\ agent[s].job = t => asked[s][t] = 0

AllAccounted == \A s \in Steps : Accounted(Host, s) /\ GivenOnce(s)

\* A commit that dispatches no attempt of s.
SendsNone(h, g, s) ==
    /\ g.step[s].bound = h.step[s].bound /\ g.step[s].try = h.step[s].try
    /\ g.step[s].st \in {"pending", "none"} => g.step[s].st = h.step[s].st
    /\ \/ g.down[s] \in {h.down[s], <<>>}
       \/ \E c \in CommandType : /\ c.job \notin Attempts
                                 /\ g.down[s] = Append(h.down[s], c)

\* A commit of a dispatch: the step is marked before the command leaves.
SendsOne(h, g, s) ==
    /\ h.step[s].st = "pending" /\ g.step[s].try = h.step[s].try
    /\ h.step[s].bound => g.step[s].bound
    /\ g.step[s].st # "none"
    /\ \/ g.down[s] = h.down[s]
       \/ \E c \in CommandType :
             /\ g.down[s] = Append(h.down[s], c)
             /\ \/ c.job \notin Attempts
                \/ /\ c.job = h.step[s].try /\ g.step[s].bound
                   /\ g.step[s].st # "pending"

LEMMA AppendIs ==
    ASSUME NEW S, NEW q \in Seq(S), NEW c \in S
    PROVE  /\ Len(q) \in Nat /\ DOMAIN q = 1..Len(q)
           /\ DOMAIN Append(q, c) = 1..(Len(q) + 1)
           /\ \A i \in 1..(Len(q) + 1) :
                 Append(q, c)[i] = IF i = Len(q) + 1 THEN c ELSE q[i]
<1>1. /\ Len(q) \in Nat /\ DOMAIN q = 1..Len(q) /\ Append(q, c) \in Seq(S)
      /\ Len(Append(q, c)) = Len(q) + 1
      /\ \A i \in 1..Len(q) : Append(q, c)[i] = q[i]
      /\ Append(q, c)[Len(q) + 1] = c
  BY AppendProperties
<1>2. DOMAIN Append(q, c) = 1..(Len(q) + 1)
  BY <1>1
<1>3. ASSUME NEW i \in 1..(Len(q) + 1), i # Len(q) + 1 PROVE i \in 1..Len(q)
  BY <1>1, <1>3
<1> QED
  BY <1>1, <1>2, <1>3

\* One more command in the queue of s.
LEMMA OneMore ==
    ASSUME NEW h \in HostType, NEW g, NEW s \in Steps, NEW c \in CommandType,
           g.down[s] = Append(h.down[s], c), NEW t
    PROVE  /\ OnItsWay(g, s, t) <=> OnItsWay(h, s, t) \/ c.job = t
           /\ (\A i, j \in DOMAIN h.down[s] :
                  h.down[s][i].job = t /\ h.down[s][j].job = t => i = j)
              /\ ~(c.job = t /\ OnItsWay(h, s, t))
              => \A i, j \in DOMAIN g.down[s] :
                    g.down[s][i].job = t /\ g.down[s][j].job = t => i = j
<1> DEFINE q == h.down[s]
           r == g.down[s]
           n == Len(q)
<1>1. /\ n \in Nat /\ DOMAIN q = 1..n /\ DOMAIN r = 1..(n + 1)
      /\ \A i \in 1..(n + 1) : r[i] = IF i = n + 1 THEN c ELSE q[i]
  BY HostAt, AppendIs
<1> HIDE DEF q, r, n
<1>2. n + 1 \in 1..(n + 1) /\ \A i \in 1..(n + 1) : i = n + 1 \/ i \in 1..n
  BY <1>1
<1>3. \A i \in 1..n : i \in 1..(n + 1) /\ i # n + 1
  BY <1>1
<1>4. (\E i \in DOMAIN r : r[i].job = t) <=> (\E i \in DOMAIN q : q[i].job = t) \/ c.job = t
  BY <1>1, <1>2, <1>3
<1>5. ASSUME \A i, j \in DOMAIN q : q[i].job = t /\ q[j].job = t => i = j,
             ~(c.job = t /\ \E i \in DOMAIN q : q[i].job = t),
             NEW i \in DOMAIN r, NEW j \in DOMAIN r, r[i].job = t, r[j].job = t
      PROVE  i = j
  BY <1>1, <1>2, <1>3, <1>5
<1> QED
  BY <1>4, <1>5 DEF OnItsWay, q, r

LEMMA AttemptsAre ==
    ASSUME EngineAssumption
    PROVE  Attempts \subseteq Nat /\ Session \notin Attempts /\ 0 \notin Attempts
BY Numbers DEF Attempts

LEMMA SendsNoneKeeps ==
    ASSUME NEW h \in HostType, NEW g, NEW s \in Steps, Accounted(h, s), SendsNone(h, g, s)
    PROVE  Accounted(g, s)
<1>1. \A t \in Attempts :
         /\ OnItsWay(g, s, t) => OnItsWay(h, s, t)
         /\ \A i, j \in DOMAIN g.down[s] :
               g.down[s][i].job = t /\ g.down[s][j].job = t => i = j
  <2>1. CASE g.down[s] = h.down[s]
    BY <2>1 DEF Accounted, OnItsWay
  <2>2. CASE g.down[s] = <<>>
    BY <2>2 DEF OnItsWay
  <2>3. ASSUME NEW c \in CommandType, c.job \notin Attempts, g.down[s] = Append(h.down[s], c)
        PROVE  \A t \in Attempts :
                 /\ OnItsWay(g, s, t) => OnItsWay(h, s, t)
                 /\ \A i, j \in DOMAIN g.down[s] :
                       g.down[s][i].job = t /\ g.down[s][j].job = t => i = j
    <3> TAKE t \in Attempts
    <3>1. c.job # t
      BY <2>3
    <3>2. OnItsWay(g, s, t) <=> OnItsWay(h, s, t) \/ c.job = t
      BY <2>3, OneMore
    <3>3. \A i, j \in DOMAIN h.down[s] :
             h.down[s][i].job = t /\ h.down[s][j].job = t => i = j
      BY DEF Accounted
    <3>4. \A i, j \in DOMAIN g.down[s] :
             g.down[s][i].job = t /\ g.down[s][j].job = t => i = j
      BY <2>3, <3>1, <3>3, OneMore
    <3> QED
      BY <3>1, <3>2, <3>4
  <2> QED
    BY <2>1, <2>2, <2>3 DEF SendsNone
<1>2. g.step[s].st = "none" => ~g.step[s].bound
  BY DEF SendsNone, Accounted
<1>3. \A t \in Attempts :
         h.step[s].bound /\ t <= h.step[s].try
           /\ (t = h.step[s].try => h.step[s].st \notin {"pending", "none"})
         => g.step[s].bound /\ t <= g.step[s].try
              /\ (t = g.step[s].try => g.step[s].st \notin {"pending", "none"})
  BY DEF SendsNone
<1> QED
  BY <1>1, <1>2, <1>3 DEF Accounted

LEMMA SendsOneKeeps ==
    ASSUME EngineAssumption, NEW h \in HostType, NEW g, NEW s \in Steps, Accounted(h, s),
           SendsOne(h, g, s)
    PROVE  Accounted(g, s)
<1> DEFINE try == h.step[s].try
           Unique(x, t) == \A i, j \in DOMAIN x.down[s] :
                              x.down[s][i].job = t /\ x.down[s][j].job = t => i = j
<1>0. try \in Nat /\ g.step[s].try = try /\ g.step[s].st # "none"
  <2>1. h.step[s] \in StepType
    BY HostAt
  <2> QED
    BY <2>1, Numbers DEF StepType, SendsOne
<1>1. \A t \in Attempts : /\ OnItsWay(h, s, t) \/ Arrived(s, t) =>
                               h.step[s].bound /\ t <= try /\ t # try
                          /\ Unique(h, t) /\ ~(Arrived(s, t) /\ OnItsWay(h, s, t))
  BY DEF Accounted, SendsOne
<1>2. \A t \in Attempts : OnItsWay(h, s, t) \/ Arrived(s, t) => g.step[s].bound
  BY <1>1 DEF SendsOne
<1>3. CASE g.down[s] = h.down[s]
  BY <1>0, <1>1, <1>2, <1>3 DEF Accounted, OnItsWay
<1>4. ASSUME NEW c \in CommandType, g.down[s] = Append(h.down[s], c),
             \/ c.job \notin Attempts
             \/ c.job = try /\ g.step[s].bound /\ g.step[s].st # "pending"
      PROVE  Accounted(g, s)
  <2>1. \A t : OnItsWay(g, s, t) <=> OnItsWay(h, s, t) \/ c.job = t
    BY <1>4, OneMore
  <2>2. \A t \in Attempts : Unique(h, t) /\ ~(c.job = t /\ OnItsWay(h, s, t)) => Unique(g, t)
    BY <1>4, OneMore
  <2>3. \A t \in Attempts : c.job = t => ~OnItsWay(h, s, t) /\ ~Arrived(s, t)
    BY <1>1, <1>4
  <2>4. \A t \in Attempts :
           OnItsWay(g, s, t) \/ Arrived(s, t) =>
             /\ g.step[s].bound /\ t <= g.step[s].try
             /\ t = g.step[s].try => g.step[s].st \notin {"pending", "none"}
    <3> SUFFICES ASSUME NEW t \in Attempts, OnItsWay(g, s, t) \/ Arrived(s, t)
                 PROVE  /\ g.step[s].bound /\ t <= g.step[s].try
                        /\ t = g.step[s].try => g.step[s].st \notin {"pending", "none"}
      OBVIOUS
    <3>1. CASE c.job = t
      BY <1>0, <1>4, <3>1
    <3>2. CASE c.job # t
      BY <1>0, <1>1, <1>2, <2>1, <3>2
    <3> QED
      BY <3>1, <3>2
  <2>5. \A t \in Attempts : Unique(g, t) /\ ~(Arrived(s, t) /\ OnItsWay(g, s, t))
    <3> HIDE DEF Unique
    <3> QED
      BY <1>1, <2>1, <2>2, <2>3
  <2> QED
    BY <1>0, <2>4, <2>5 DEF Accounted
<1> QED
  BY <1>3, <1>4 DEF SendsOne

LEMMA SameSendsNone ==
    ASSUME NEW h, NEW g, NEW s, g.step[s] = h.step[s], g.down[s] = h.down[s]
    PROVE  SendsNone(h, g, s)
BY DEF SendsNone

LEMMA OthersSendNone ==
    ASSUME NEW h, NEW g, NEW s \in Steps, Only(h, g, s)
    PROVE  \A o \in Steps \ {s} : SendsNone(h, g, o)
BY SameSendsNone DEF Only, SameAt

LEMMA StopSendsNone ==
    ASSUME EngineAssumption, NEW h, NEW g, NEW s \in Steps, g.step = h.step,
           NEW type \in CommandTypes,
           g.down[s] \in {h.down[s], Append(h.down[s], Command(type, 0))}
    PROVE  SendsNone(h, g, s)
<1>1. Command(type, 0) \in CommandType /\ Command(type, 0).job \notin Attempts
  BY Numbers, AttemptsAre DEF Command, CommandType
<1> QED
  BY <1>1 DEF SendsNone

LEMMA PumpedIs ==
    ASSUME EngineAssumption, NEW h \in HostType, NEW steps
    PROVE  /\ Pumped(h, steps).step = h.step /\ Pumped(h, steps).run = h.run
           /\ Pumped(h, steps).link = h.link /\ Pumped(h, steps).up = h.up
           /\ Pumped(h, steps).memo = h.memo
           /\ \A s \in Steps :
                /\ Pumped(h, steps).sess[s] = IF s \in Pumpable(h, steps) THEN PumpedRow(h, s)
                                              ELSE h.sess[s]
                /\ Pumped(h, steps).down[s] = IF s \in Pumpable(h, steps)
                                              THEN Append(h.down[s], Command("prompt", Session))
                                              ELSE h.down[s]
<1> DEFINE now == Pumpable(h, steps)
           rows == [s \in Steps |-> IF s \in now THEN PumpedRow(h, s) ELSE h.sess[s]]
           sent == [s \in Steps |-> IF s \in now
                                    THEN Append(h.down[s], Command("prompt", Session))
                                    ELSE h.down[s]]
           rest == h.mail \ now
<1>1. Pumped(h, steps) = [h EXCEPT !.mail = rest, !.sess = rows, !.down = sent]
  BY DEF Pumped, PumpedRow
<1>2. /\ \A s \in Steps : rows[s] = IF s \in now THEN PumpedRow(h, s) ELSE h.sess[s]
      /\ \A s \in Steps : sent[s] = IF s \in now
                                    THEN Append(h.down[s], Command("prompt", Session))
                                    ELSE h.down[s]
  OBVIOUS
<1> HIDE DEF rows, sent, rest, now
<1>3. LET g == [h EXCEPT !.mail = rest, !.sess = rows, !.down = sent]
      IN  /\ g.step = h.step /\ g.run = h.run /\ g.link = h.link /\ g.up = h.up
          /\ g.memo = h.memo /\ g.sess = rows /\ g.down = sent
  BY DEF HostType
<1> QED
  BY <1>1, <1>2, <1>3 DEF now

LEMMA PumpedSendsNone ==
    ASSUME EngineAssumption, NEW h \in HostType, NEW steps, NEW s \in Steps
    PROVE  SendsNone(h, Pumped(h, steps), s)
<1>1. Command("prompt", Session) \in CommandType /\ Command("prompt", Session).job \notin Attempts
  BY Numbers, AttemptsAre DEF Command, CommandType, CommandTypes
<1>2. Pumped(h, steps).down[s] = IF s \in Pumpable(h, steps)
                                 THEN Append(h.down[s], Command("prompt", Session))
                                 ELSE h.down[s]
  BY PumpedIs
<1>3. Pumped(h, steps).step = h.step
  BY PumpedIs
<1> QED
  BY <1>1, <1>2, <1>3 DEF SendsNone

LEMMA DispatchSends ==
    ASSUME EngineAssumption, NEW h \in HostType, NEW g \in HostType, NEW s \in Steps,
           Dispatches(h, s, g)
    PROVE  SendsOne(h, g, s) \/ SendsNone(h, g, s)
<1> DEFINE a == h.step[s]
           d == h.down[s]
<1>0. /\ a \in StepType /\ a.try \in Nat /\ a.try \in 0..Session /\ a.st = "pending"
      /\ \A type \in CommandTypes, job \in 0..Session :
            Command(type, job) \in CommandType /\ Command(type, job).job = job
  <2>1. a \in StepType
    BY HostAt
  <2>2. a.try \in Nat /\ a.try \in 0..Session
    BY <2>1, Numbers DEF StepType
  <2>3. a.st = "pending"
    BY DEF Dispatches, MayStart, MayPrompt, MayResume, MayGo
  <2>4. \A type \in CommandTypes, job \in 0..Session :
           Command(type, job) \in CommandType /\ Command(type, job).job = job
    BY DEF Command, CommandType
  <2> QED
    BY <2>1, <2>2, <2>3, <2>4
<1>00. {"start", "prompt", "resume"} \subseteq CommandTypes /\ 0 \in 0..Session
       /\ 0 \notin Attempts
  BY Numbers, AttemptsAre DEF CommandTypes
<1>1. PICK snap \in RunStates :
         \/ MayStart(h, s) /\ g \in ToSet(StartStep(h, s, snap))
         \/ MayPrompt(h, s) /\ g \in ToSet(PromptStep(h, s, snap))
         \/ MayResume(h, s) /\ g \in ToSet(ResumeStep(h, s))
  BY DEF Dispatches
<1>2. /\ SentRow(a).try = a.try /\ SentRow(a).st = "starting" /\ SentRow(a).bound = a.bound
      /\ BoundRow(a).try = a.try /\ BoundRow(a).st = "starting" /\ BoundRow(a).bound
      /\ UndoneRow(BoundRow(a)).try = a.try /\ UndoneRow(BoundRow(a)).st = "pending"
      /\ ~UndoneRow(BoundRow(a)).bound
      /\ PromptedRow(a).try = a.try /\ PromptedRow(a).st = "starting"
      /\ PromptedRow(a).bound = a.bound
      /\ [PromptedRow(a) EXCEPT !.st = "pending", !.sent = FALSE].try = a.try
      /\ [PromptedRow(a) EXCEPT !.st = "pending", !.sent = FALSE].st = "pending"
      /\ [PromptedRow(a) EXCEPT !.st = "pending", !.sent = FALSE].bound = a.bound
      /\ ResentRow(a).try = a.try /\ ResentRow(a).st = a.st /\ ResentRow(a).bound = a.bound
      /\ [a EXCEPT !.sent = FALSE].try = a.try /\ [a EXCEPT !.sent = FALSE].st = a.st
      /\ [a EXCEPT !.sent = FALSE].bound = a.bound
  BY <1>0 DEF StepType, SentRow, BoundRow, UndoneRow, PromptedRow, ResentRow
<1> HIDE DEF a, d
<1> DEFINE Rowed(x, row, sent) == x.step[s] = row /\ x.down[s] = sent
<1>3. ASSUME NEW row, NEW sent, Rowed(g, row, sent), row.try = a.try, a.bound => row.bound,
             row.st # "none",
             \/ sent = d
             \/ \E c \in CommandType :
                   /\ sent = Append(d, c)
                   /\ \/ c.job \notin Attempts
                      \/ c.job = a.try /\ row.bound /\ row.st # "pending"
      PROVE  SendsOne(h, g, s)
  BY <1>0, <1>3 DEF SendsOne, a, d
<1>03. \A x \in HostType : \A r, y, b, m, u, w : Has(h, x, s, r, y, b, m, u, w) => Rowed(x, y, w)
  BY HasRows
<1>4. CASE MayStart(h, s) /\ g \in ToSet(StartStep(h, s, snap))
  <2>1. LeftByStart(h, s, snap, g) /\ ~a.bound
    BY <1>4, StartStepLeaves DEF MayStart, a
  <2> DEFINE c == Command("start", a.try)
  <2> HIDE DEF Rowed
  <2>2. \/ Rowed(g, SentRow(a), d) \/ Rowed(g, BoundRow(a), d)
        \/ Rowed(g, UndoneRow(BoundRow(a)), d)
        \/ Rowed(g, BoundRow(a), Append(d, c))
    BY <1>03, <2>1 DEF LeftByStart, a, d
  <2>3. c \in CommandType /\ c.job = a.try
    BY <1>0, <1>00
  <2> HIDE DEF c, Rowed
  <2>4. CASE Rowed(g, SentRow(a), d)
    BY <1>2, <1>3, <2>4
  <2>5. CASE Rowed(g, BoundRow(a), d)
    BY <1>2, <1>3, <2>5
  <2>6. CASE Rowed(g, UndoneRow(BoundRow(a)), d)
    BY <1>2, <1>3, <2>1, <2>6
  <2>7. CASE Rowed(g, BoundRow(a), Append(d, c))
    BY <1>2, <1>3, <2>3, <2>7
  <2> QED
    BY <2>2, <2>4, <2>5, <2>6, <2>7
<1>5. CASE MayPrompt(h, s) /\ g \in ToSet(PromptStep(h, s, snap))
  <2>1. LeftByPrompt(h, s, snap, g) /\ a.bound
    BY <1>5, PromptStepLeaves DEF MayPrompt, a
  <2> DEFINE c == Command("prompt", a.try)
             undone == [PromptedRow(a) EXCEPT !.st = "pending", !.sent = FALSE]
  <2> HIDE DEF Rowed
  <2>2. \/ Rowed(g, PromptedRow(a), d) \/ Rowed(g, PromptedRow(a), Append(d, c))
        \/ Rowed(g, undone, d)
    BY <1>03, <2>1 DEF LeftByPrompt, a, d
  <2>3. c \in CommandType /\ c.job = a.try
    BY <1>0, <1>00
  <2>4. undone.try = a.try /\ undone.st = "pending" /\ undone.bound = a.bound
    BY <1>2
  <2> HIDE DEF c, Rowed, undone
  <2>5. CASE Rowed(g, PromptedRow(a), d)
    BY <1>2, <1>3, <2>5
  <2>6. CASE Rowed(g, PromptedRow(a), Append(d, c))
    BY <1>2, <1>3, <2>1, <2>3, <2>6
  <2>7. CASE Rowed(g, undone, d)
    BY <1>3, <2>4, <2>7
  <2> QED
    BY <2>2, <2>5, <2>6, <2>7
<1>6. CASE MayResume(h, s) /\ g \in ToSet(ResumeStep(h, s))
  <2>1. LeftByResume(h, s, g)
    BY <1>6, ResumeStepLeaves
  <2> DEFINE c == Command("resume", 0)
             unsent == [a EXCEPT !.sent = FALSE]
  <2> HIDE DEF Rowed
  <2>2. \/ Rowed(g, ResentRow(a), d) \/ Rowed(g, ResentRow(a), Append(d, c))
        \/ \E x \in HostType : Rowed(x, unsent, d) /\ g \in ToSet(Settle(x, s, "failed"))
    BY <1>03, <2>1 DEF LeftByResume, a, d
  <2>3. c \in CommandType /\ c.job \notin Attempts
    BY <1>0, <1>00
  <2>4. unsent.try = a.try /\ unsent.st = a.st /\ unsent.bound = a.bound
    BY <1>2
  <2>5. ASSUME NEW x \in HostType, Rowed(x, unsent, d), g \in ToSet(Settle(x, s, "failed"))
        PROVE  SendsNone(h, g, s)
    <3>1. g.step[s].st = "failed" /\ g.step[s].bound = x.step[s].bound
          /\ g.step[s].try = x.step[s].try /\ g.down = x.down
      <4>1. g \in ToSet(Settle(x, s, "failed"))
        BY <2>5
      <4> QED
        BY <4>1, SettleRow
    <3>2. g.step[s].bound = a.bound /\ g.step[s].try = a.try /\ g.down[s] = d
      BY <2>4, <2>5, <3>1 DEF Rowed
    <3> QED
      BY <3>1, <3>2 DEF SendsNone, a, d
  <2> HIDE DEF c, Rowed, unsent
  <2>6. CASE Rowed(g, ResentRow(a), d)
    BY <1>0, <1>2, <1>3, <2>6
  <2>7. CASE Rowed(g, ResentRow(a), Append(d, c))
    BY <1>0, <1>2, <1>3, <2>3, <2>7
  <2> QED
    BY <2>2, <2>5, <2>6, <2>7
<1> QED
  BY <1>1, <1>4, <1>5, <1>6

LEMMA StopSends ==
    ASSUME EngineAssumption, NEW h \in HostType, NEW s \in Steps,
           NEW g \in ToSet(StopSession(h, s))
    PROVE  g.down[s] \in {h.down[s], Append(h.down[s], Command("stop", 0))}
<1> DEFINE flagged == [h EXCEPT !.sess[s].stop = TRUE]
<1>1. g \in {flagged, CallOff(flagged, s, "stop")}
  <2> DEFINE off == CallOff(flagged, s, "stop")
  <2>1. StopSession(h, s) = <<flagged, off>> \/ StopSession(h, s) = <<>>
    BY DEF StopSession
  <2> HIDE DEF flagged, off
  <2>2. ToSet(<<flagged, off>>) = {flagged, off}
    BY ToSet2
  <2>3. ToSet(<<>>) = {}
    BY DEF ToSet
  <2> QED
    BY <2>1, <2>2, <2>3 DEF off
<1>2. flagged.down = h.down /\ flagged.sess = [h.sess EXCEPT ![s].stop = TRUE]
  BY DEF HostType
<1>3. flagged \in HostType
  <2>1. h.sess[s] \in RowType
    BY HostAt
  <2>2. [h.sess[s] EXCEPT !.stop = TRUE] \in RowType
    BY <2>1 DEF RowType
  <2>3. flagged = [h EXCEPT !.sess[s] = [h.sess[s] EXCEPT !.stop = TRUE]]
    BY DEF HostType
  <2> QED
    BY <2>2, <2>3, RowSet
<1> HIDE DEF flagged
<1>4. LET x == CallOff(flagged, s, "stop")
      IN  x.down[s] \in {flagged.down[s], Append(flagged.down[s], Command("stop", 0))}
  BY <1>3 DEF CallOff, Send, HostType
<1> QED
  BY <1>1, <1>2, <1>4

LEMMA MovesSend ==
    ASSUME EngineAssumption, NEW h \in HostType, NEW g \in HostType, Moves(h, g),
           NEW s \in Steps
    PROVE  SendsOne(h, g, s) \/ SendsNone(h, g, s)
<1>0. \A o \in Steps : Only(h, g, o) /\ o # s => SendsNone(h, g, s)
  BY OthersSendNone
<1>1. ASSUME NEW o \in Steps, NEW st, st \notin {"pending", "none"},
             g = [h EXCEPT !.step[o].st = st]
      PROVE  SendsNone(h, g, s)
  <2>0. g = WithSt(h, o, st)
    BY <1>1 DEF WithSt
  <2>1. /\ Only(h, g, o) /\ g.down = h.down
        /\ g.step[o].st = st /\ g.step[o].bound = h.step[o].bound
        /\ g.step[o].try = h.step[o].try
    BY <2>0, SetStGives
  <2> QED
    BY <1>0, <1>1, <2>1 DEF SendsNone
<1>2. ASSUME NEW o \in Steps, NEW to \in {"succeeded", "failed"}, g \in ToSet(Settle(h, o, to))
      PROVE  SendsNone(h, g, s)
  <2>1. Only(h, g, o)
    BY <1>2, SettleLeaves
  <2>2. /\ g.step[o].st = to /\ g.step[o].bound = h.step[o].bound
        /\ g.step[o].try = h.step[o].try /\ g.down = h.down
    BY <1>2, SettleRow
  <2> QED
    BY <1>0, <2>1, <2>2 DEF SendsNone
<1>3. ASSUME NEW o \in Steps, g \in ToSet(StopSession(h, o)) PROVE SendsNone(h, g, s)
  <2>1. Only(h, g, o) /\ g.step = h.step
    BY <1>3, StopLeaves
  <2>2. g.down[o] \in {h.down[o], Append(h.down[o], Command("stop", 0))}
    BY <1>3, StopSends
  <2>3. SendsNone(h, g, o)
    BY <2>1, <2>2, StopSendsNone DEF CommandTypes
  <2> QED
    BY <1>0, <2>1, <2>3
<1>4. ASSUME NEW o \in Steps, NEW type \in {"stop", "cancel"}, g = CallOff(h, o, type)
      PROVE  SendsNone(h, g, s)
  <2>5. LeftByCallOff(h, o, type, g)
    BY <1>4, CallOffLeaves
  <2>1. Only(h, g, o) /\ g.step = h.step
    BY <2>5 DEF LeftByCallOff
  <2>4. \/ g.down = h.down
        \/ g.down = [h.down EXCEPT ![o] = Append(h.down[o], Command(type, 0))]
    BY <2>5 DEF LeftByCallOff
  <2>2. g.down[o] \in {h.down[o], Append(h.down[o], Command(type, 0))}
    BY <2>4, HostParts
  <2>3. SendsNone(h, g, o)
    BY <2>1, <2>2, StopSendsNone DEF CommandTypes
  <2> QED
    BY <1>0, <2>1, <2>3
<1>5. ASSUME NEW o \in Steps, Dispatches(h, o, g) PROVE SendsOne(h, g, s) \/ SendsNone(h, g, s)
  <2>1. Only(h, g, o)
    BY <1>5, DispatchesLeave
  <2> QED
    BY <1>0, <1>5, <2>1, DispatchSends
<1>6. ASSUME NEW v, g = [h EXCEPT !.run.st = v] \/ g = [h EXCEPT !.run.owed = v]
      PROVE  SendsNone(h, g, s)
  <2>1. g.step = h.step /\ g.down = h.down
    BY <1>6 DEF HostType
  <2> QED
    BY <2>1, SameSendsNone
<1>7. ASSUME g = Pumped(h, Steps) PROVE SendsNone(h, g, s)
  BY <1>7, PumpedSendsNone
<1> QED
  <2>1. {"running", "skipped"} \cap {"pending", "none"} = {}
    OBVIOUS
  <2> QED
    BY <1>1, <1>2, <1>3, <1>4, <1>5, <1>6, <1>7, <2>1 DEF Moves

\* The plan stands, and nothing was sent.
Like(x, y) ==
    /\ y.down = x.down /\ y.run = x.run
    /\ \A u \in Steps : /\ y.step[u].st = x.step[u].st
                        /\ y.step[u].bound = x.step[u].bound
                        /\ y.step[u].try = x.step[u].try

LEMMA HearsLike ==
    ASSUME EngineAssumption, NEW h \in HostType, NEW s \in Steps, NEW e \in EventType, NEW g,
           Hears(h, s, e, g)
    PROVE  Like(h, g)
<1> USE DEF Like
<1>1. \A v : LET y == [h EXCEPT !.step[s].text = v] IN Like(h, y)
  <2> TAKE v
  <2> DEFINE row == [h.step[s] EXCEPT !.text = v]
             y == [h EXCEPT !.step[s] = row]
  <2>1. h.step[s] \in StepType
    BY HostAt
  <2>2. row.st = h.step[s].st /\ row.bound = h.step[s].bound /\ row.try = h.step[s].try
    BY <2>1 DEF StepType
  <2>3. y = [h EXCEPT !.step[s].text = v]
    BY DEF HostType
  <2> HIDE DEF row
  <2>4. y.down = h.down /\ y.run = h.run
        /\ \A u \in Steps : y.step[u] = IF u = s THEN row ELSE h.step[u]
    BY DEF HostType
  <2> HIDE DEF y
  <2>5. Like(h, y)
    BY <2>2, <2>4
  <2> QED
    BY <2>3, <2>5
<1>2. Like(h, g)
  <2> DEFINE known == Known(h, s, e)
  <2>1. known.step = h.step /\ known.down = h.down /\ known.run = h.run
    BY DEF Known, HostType
  <2>2. Like(h, Texted(h, s))
    <3> HIDE DEF Like
    <3> QED
      BY <1>1 DEF Texted
  <2>3. /\ Refused(h, s).step = h.step /\ Refused(h, s).down = h.down
        /\ Refused(h, s).run = h.run
    BY DEF Refused, Takes, HostType
  <2>4. known \in HostType
    <3>1. CASE e.type \in States \cup {"turn"}
      <4>1. Hears(h, s, e, known)
        BY <3>1 DEF Hears
      <4> QED
        BY <4>1, HearsTyped
    <3>2. CASE e.type \notin States \cup {"turn"}
      <4>2. h.sess[s] \in RowType
        BY HostAt
      <4>0. e.type \notin {"running", "idle"}
        BY <3>2, StatesKnown
      <4>4. (h.sess[s].agent \/ e.type \in {"running", "idle"}) = h.sess[s].agent
        BY <4>0, <4>2 DEF RowType
      <4>1. Known(h, s, e) = [h EXCEPT !.sess[s] =
                                [h.sess[s] EXCEPT !.agent = h.sess[s].agent]]
        <5>1. Known(h, s, e)
                = [h EXCEPT !.sess[s] =
                     [h.sess[s] EXCEPT !.agent = h.sess[s].agent \/ e.type \in {"running", "idle"}]]
          BY DEF Known, HostType
        <5> QED
          BY <4>4, <5>1
      <4>3. [h.sess[s] EXCEPT !.agent = h.sess[s].agent] \in RowType
        BY <4>2 DEF RowType
      <4> QED
        BY <4>1, <4>3, RowSet
    <3> QED
      BY <3>1, <3>2
  <2> HIDE DEF known
  <2>5. /\ TurnOver(known, s).step = known.step /\ TurnOver(known, s).down = known.down
        /\ TurnOver(known, s).run = known.run
    BY <2>4 DEF TurnOver, HostType
  <2>6. Moved(known, s, e).step = Begun(known, s, e).step
        /\ Moved(known, s, e).down = Begun(known, s, e).down
        /\ Moved(known, s, e).run = Begun(known, s, e).run
    BY <2>4 DEF Moved, Takes, Begun, HostType
  <2>7. Like(h, Begun(known, s, e))
    <3> DEFINE v == known.step[s].text /\ ~(e.type = "running" /\ Concerns(known, s))
               row == [known.step[s] EXCEPT !.text = v]
               y == Begun(known, s, e)
    <3>1. y = [known EXCEPT !.step[s] = row]
      BY <2>4 DEF Begun, HostType
    <3>2. known.step[s] \in StepType
      BY <2>4, HostAt
    <3> HIDE DEF v
    <3>3. /\ row.st = known.step[s].st /\ row.bound = known.step[s].bound
          /\ row.try = known.step[s].try
      BY <3>2 DEF StepType
    <3> HIDE DEF row, y
    <3>4. y.down = known.down /\ y.run = known.run
          /\ \A u \in Steps : y.step[u] = IF u = s THEN row ELSE known.step[u]
      BY <2>4, <3>1 DEF HostType
    <3>5. Like(h, y)
      BY <2>1, <3>3, <3>4
    <3> QED
      BY <3>5 DEF y
  <2>8. \/ g = Texted(h, s) \/ g = Refused(h, s) \/ g = h \/ g = known
        \/ g = TurnOver(known, s) \/ g = Moved(known, s, e)
    BY DEF Hears, known
  <2> QED
    BY <2>1, <2>2, <2>3, <2>5, <2>6, <2>7, <2>8
<1> QED
  BY <1>2

LEMMA HearsSendsNone ==
    ASSUME EngineAssumption, NEW h \in HostType, NEW s \in Steps, NEW e \in EventType, NEW g,
           Hears(h, s, e, g), NEW o \in Steps
    PROVE  SendsNone(h, g, o)
<1>1. Like(h, g)
  BY HearsLike
<1> QED
  BY <1>1 DEF Like, SendsNone

LEMMA ReconciledIs ==
    ASSUME EngineAssumption, NEW h \in HostType, NEW steps
    PROVE  /\ Reconciled(h, steps).step = h.step /\ Reconciled(h, steps).run = h.run
           /\ Reconciled(h, steps).link = h.link /\ Reconciled(h, steps).up = h.up
           /\ Reconciled(h, steps).memo = h.memo
           /\ \A s \in Steps :
                /\ Reconciled(h, steps).sess[s] =
                     IF s \in Unsettled(h, steps) THEN FoundRow(h, s) ELSE h.sess[s]
                /\ Reconciled(h, steps).down[s] \in
                     {h.down[s], Append(h.down[s], Command("stop", 0))}
<1> DEFINE found == Unsettled(h, steps)
           told(s) == s \in found /\ Taken(h, s, Settlement(h, s)).stop /\ Open(h)
           rows == [s \in Steps |-> IF s \in found THEN FoundRow(h, s) ELSE h.sess[s]]
           sent == [s \in Steps |-> IF told(s) THEN Append(h.down[s], Command("stop", 0))
                                    ELSE h.down[s]]
<1>1. Reconciled(h, steps) = [h EXCEPT !.sess = rows, !.down = sent]
  BY DEF Reconciled, FoundRow
<1>2. /\ \A s \in Steps : rows[s] = IF s \in found THEN FoundRow(h, s) ELSE h.sess[s]
      /\ \A s \in Steps : sent[s] = IF told(s) THEN Append(h.down[s], Command("stop", 0))
                                    ELSE h.down[s]
  OBVIOUS
<1> HIDE DEF rows, sent, found, told
<1>3. LET g == [h EXCEPT !.sess = rows, !.down = sent]
      IN  /\ g.step = h.step /\ g.run = h.run /\ g.link = h.link /\ g.up = h.up
          /\ g.memo = h.memo /\ g.sess = rows /\ g.down = sent
  BY DEF HostType
<1> QED
  BY <1>1, <1>2, <1>3 DEF found

LEMMA RevivedIs ==
    ASSUME EngineAssumption, NEW h \in HostType
    PROVE  /\ Revived(h).step = h.step /\ Revived(h).run = h.run
           /\ Revived(h).link = h.link /\ Revived(h).up = h.up /\ Revived(h).memo = h.memo
           /\ \A s \in Steps :
                /\ Revived(h).sess[s] = IF s \in Missing(h) THEN RevivedRow(h, s)
                                        ELSE h.sess[s]
                /\ Revived(h).down[s] = IF s \in Missing(h)
                                        THEN Append(h.down[s], Command("resume", 0))
                                        ELSE h.down[s]
<1> DEFINE now == Missing(h)
           rows == [s \in Steps |-> IF s \in now THEN RevivedRow(h, s) ELSE h.sess[s]]
           sent == [s \in Steps |-> IF s \in now
                                    THEN Append(h.down[s], Command("resume", 0))
                                    ELSE h.down[s]]
<1>1. Revived(h) = [h EXCEPT !.sess = rows, !.down = sent]
  BY DEF Revived, RevivedRow
<1>2. /\ \A s \in Steps : rows[s] = IF s \in now THEN RevivedRow(h, s) ELSE h.sess[s]
      /\ \A s \in Steps : sent[s] = IF s \in now
                                    THEN Append(h.down[s], Command("resume", 0))
                                    ELSE h.down[s]
  OBVIOUS
<1> HIDE DEF rows, sent, now
<1>3. LET g == [h EXCEPT !.sess = rows, !.down = sent]
      IN  /\ g.step = h.step /\ g.run = h.run /\ g.link = h.link /\ g.up = h.up
          /\ g.memo = h.memo /\ g.sess = rows /\ g.down = sent
  BY DEF HostType
<1> QED
  BY <1>1, <1>2, <1>3 DEF now

LEMMA RevivedSendsNone ==
    ASSUME EngineAssumption, NEW h \in HostType, NEW s \in Steps
    PROVE  SendsNone(h, Revived(h), s)
<1>1. Command("resume", 0) \in CommandType /\ Command("resume", 0).job \notin Attempts
  BY Numbers, AttemptsAre DEF Command, CommandType, CommandTypes
<1>2. Revived(h).down[s] = IF s \in Missing(h) THEN Append(h.down[s], Command("resume", 0))
                           ELSE h.down[s]
  BY RevivedIs
<1>3. Revived(h).step = h.step
  BY RevivedIs
<1> QED
  BY <1>1, <1>2, <1>3 DEF SendsNone

LEMMA ReconciledSendsNone ==
    ASSUME EngineAssumption, NEW h \in HostType, NEW steps, NEW s \in Steps
    PROVE  SendsNone(h, Reconciled(h, steps), s)
<1>1. Reconciled(h, steps).step = h.step
  BY ReconciledIs
<1>2. Reconciled(h, steps).down[s] \in {h.down[s], Append(h.down[s], Command("stop", 0))}
  BY ReconciledIs
<1> QED
  BY <1>1, <1>2, StopSendsNone DEF CommandTypes

\* Following a step up makes room for one more attempt; one that is only now
\* planned has had none.
LEMMA OrderedKeeps ==
    ASSUME EngineAssumption, TypeOK, NEW s \in Steps, NEW g \in HostType, Ordered(s, g),
           NEW o \in Steps, Accounted(Host, o)
    PROVE  Accounted(g, o)
<1>0. Host \in HostType
  BY HostTyped
<1>1. ASSUME NEW row, g = [Host EXCEPT !.step[s] = row]
      PROVE  /\ g.step[s] = row /\ g.down = Host.down
             /\ o # s => Accounted(g, o)
  <2>1. g.step = [Host.step EXCEPT ![s] = row] /\ g.down = Host.down
    BY <1>0, <1>1 DEF HostType
  <2>2. g.step[s] = row /\ (o # s => g.step[o] = Host.step[o])
    BY <1>0, <2>1, HostParts
  <2> QED
    BY <1>0, <2>1, <2>2, SameSendsNone, SendsNoneKeeps
<1>2. CASE step[s].st = "none" /\ g = WorkStarted(s)
  <2>1. g.step[s] = NewStep /\ g.down = Host.down /\ (o # s => Accounted(g, o))
    BY <1>1, <1>2 DEF WorkStarted
  <2>2. CASE o = s
    <3>1. ~Host.step[s].bound
      BY <1>2, <2>2, HostIs DEF Accounted
    <3>2. \A t \in Attempts : ~OnItsWay(Host, s, t) /\ ~Arrived(s, t)
      BY <2>2, <3>1 DEF Accounted
    <3>3. \A t \in Attempts : ~OnItsWay(g, s, t)
      BY <2>1, <3>2 DEF OnItsWay
    <3> QED
      BY <2>1, <2>2, <3>2, <3>3 DEF Accounted, NewStep, NoStep, OnItsWay
  <2> QED
    BY <2>1, <2>2
<1>3. CASE step[s].bound /\ g = Again(s)
  <2> DEFINE row == [NewStep EXCEPT !.try = step[s].try + 1, !.bound = TRUE]
  <2>1. row.try = step[s].try + 1 /\ row.bound /\ row.st = "pending"
    BY DEF NewStep, NoStep
  <2>2. g = [Host EXCEPT !.step[s] = row]
    BY <1>3 DEF Again
  <2> HIDE DEF row
  <2>3. g.step[s] = row /\ g.down = Host.down /\ (o # s => Accounted(g, o))
    BY <1>1, <2>2
  <2>4. step[s].try \in Nat
    <3>1. step[s] \in StepType
      BY <1>0, HostAt, HostIs
    <3> QED
      BY <3>1, Numbers DEF StepType
  <2>5. CASE o = s
    <3>1. \A t \in Attempts : OnItsWay(Host, s, t) \/ Arrived(s, t) => t <= step[s].try
      BY <2>5, HostIs DEF Accounted
    <3>2. ASSUME NEW t \in Attempts, t <= step[s].try PROVE t <= row.try /\ t # row.try
      <4>1. t \in Nat
        BY AttemptsAre
      <4> QED
        BY <2>1, <2>4, <3>2, <4>1
    <3> QED
      BY <2>1, <2>3, <2>5, <3>1, <3>2 DEF Accounted, OnItsWay
  <2> QED
    BY <2>3, <2>5
<1>4. CASE g = Cancelling(s) \/ g = Takes(Cancelling(s), s, "failed")
  <2>1. g.step = Host.step /\ g.down = Host.down
    BY <1>0, <1>4 DEF Cancelling, Takes, HostType
  <2> QED
    BY <1>0, <2>1, SameSendsNone, SendsNoneKeeps
<1>5. CASE g = Written(s)
  <2> DEFINE x == [Host EXCEPT !.mail = @ \cup {s}]
  <2>1. x \in HostType /\ x.step = Host.step /\ x.down = Host.down
    BY <1>0 DEF HostType
  <2> HIDE DEF x
  <2>2. SendsNone(x, Pumped(x, {s}), o)
    BY <2>1, PumpedSendsNone
  <2>3. SendsNone(Host, g, o)
    BY <1>5, <2>1, <2>2 DEF Written, x, SendsNone
  <2> QED
    BY <1>0, <2>3, SendsNoneKeeps
<1> QED
  BY <1>2, <1>3, <1>4, <1>5 DEF Ordered

AccountedHosts == {h \in HostType : \A s \in Steps : Accounted(h, s)}

LEMMA BeginsAccounted ==
    ASSUME EngineAssumption, TypeOK, Host \in AccountedHosts, NEW g \in HostType, Begins(g)
    PROVE  g \in AccountedHosts
<1>0. Host \in HostType /\ \A s \in Steps : Accounted(Host, s)
  BY DEF AccountedHosts
<1>1. \A h \in AccountedHosts, x \in HostType :
         (\A s \in Steps : SendsNone(h, x, s)) => x \in AccountedHosts
  BY SendsNoneKeeps DEF AccountedHosts
<1>2. CASE Decided(g)
  <2>1. ASSUME NEW st, g = RunIs(st) PROVE g \in AccountedHosts
    <3>1. g.step = Host.step /\ g.down = Host.down
      BY <1>0, <2>1 DEF RunIs, HostType
    <3> QED
      BY <1>1, <3>1, SameSendsNone
  <2>2. CASE g = Called
    <3>1. g.step = [s \in Steps |-> IF step[s].st \in Settled \cup {"none"}
                                    THEN Host.step[s]
                                    ELSE [Host.step[s] EXCEPT !.st = "cancelled"]]
          /\ g.down = Host.down
      BY <1>0, <2>2, HostIs DEF Called, RunIs, HostType
    <3>2. ASSUME NEW s \in Steps PROVE SendsNone(Host, g, s)
      <4>1. Host.step[s] \in StepType
        BY <1>0, HostAt
      <4> DEFINE row == [Host.step[s] EXCEPT !.st = "cancelled"]
      <4>2. row.st = "cancelled" /\ row.try = Host.step[s].try /\ row.bound = Host.step[s].bound
        BY <4>1 DEF StepType
      <4>3. g.step[s] = Host.step[s] \/ g.step[s] = row
        BY <3>1
      <4> HIDE DEF row
      <4> QED
        BY <3>1, <4>2, <4>3 DEF SendsNone
    <3> QED
      BY <1>1, <3>2
  <2> QED
    BY <1>2, <2>1, <2>2 DEF Decided
<1>3. ASSUME NEW s \in Steps, Receives(s), Hears(Heard(s), s, Head(up[s]), g)
      PROVE  g \in AccountedHosts
  <2>1. Heard(s) \in HostType /\ Head(up[s]) \in EventType
    BY <1>3, HeardTyped
  <2>2. Heard(s).step = Host.step /\ Heard(s).down = Host.down
    BY <1>0 DEF Heard, HostType
  <2>3. Heard(s) \in AccountedHosts
    BY <1>1, <2>1, <2>2, SameSendsNone
  <2>4. \A o \in Steps : SendsNone(Heard(s), g, o)
    BY <1>3, <2>1, HearsSendsNone
  <2> QED
    BY <1>1, <2>3, <2>4
<1>4. ASSUME NEW s \in Steps, g = Reconciled(Host, {s}) PROVE g \in AccountedHosts
  BY <1>0, <1>1, <1>4, ReconciledSendsNone
<1>5. ASSUME NEW s \in Steps, Ordered(s, g) PROVE g \in AccountedHosts
  BY <1>0, <1>5, OrderedKeeps DEF AccountedHosts
<1>6. CASE g \in {Found, Revived(Found)}
  <2>1. Bare \in HostType /\ Bare.step = Host.step /\ Bare.down = Host.down
    <3>1. Bare \in HostType
      BY BareTyped
    <3> QED
      BY <1>0, <3>1 DEF Bare, HostType
  <2>2. Bare \in AccountedHosts
    BY <1>1, <2>1, SameSendsNone
  <2>3. Found \in HostType
    BY <2>1, ReconciledTyped DEF Found
  <2>4. \A s \in Steps : SendsNone(Bare, Found, s)
    BY <2>1, ReconciledSendsNone DEF Found
  <2>5. Found \in AccountedHosts
    BY <1>1, <2>2, <2>3, <2>4
  <2>6. Revived(Found) \in HostType /\ \A s \in Steps : SendsNone(Found, Revived(Found), s)
    BY <2>3, RevivedTyped, RevivedSendsNone
  <2> QED
    BY <1>1, <1>6, <2>5, <2>6
<1> QED
  BY <1>2, <1>3, <1>4, <1>5, <1>6 DEF Begins

LEMMA AccountedHeld ==
    ASSUME EngineAssumption, TypeOK, Host \in AccountedHosts
    PROVE  HoldsAll(AccountedHosts)
<1>1. ASSUME NEW h \in AccountedHosts, NEW g \in HostType, Moves(h, g)
      PROVE  g \in AccountedHosts
  <2>1. h \in HostType /\ \A s \in Steps : Accounted(h, s)
    BY DEF AccountedHosts
  <2>2. \A s \in Steps : SendsOne(h, g, s) \/ SendsNone(h, g, s)
    BY <1>1, <2>1, MovesSend
  <2>3. \A s \in Steps : Accounted(g, s)
    BY <2>1, <2>2, SendsOneKeeps, SendsNoneKeeps
  <2> QED
    BY <2>3 DEF AccountedHosts
<1>2. AccountedHosts \in SUBSET HostType
  BY DEF AccountedHosts
<1> QED
  BY <1>1, <1>2, BeginsAccounted DEF HoldsAll, ClosedUnderMoves

\* What is on record survives the link and the Host: only commands are lost.
LEMMA SeveredAccounted ==
    ASSUME NEW h \in AccountedHosts, NEW kept, Severed(h, kept),
           memo' \in [Steps -> 0..Session]
    PROVE  Host' \in AccountedHosts
<1>1. h \in HostType /\ \A s \in Steps : Accounted(h, s)
  BY DEF AccountedHosts
<1>2. /\ Host' \in HostType /\ step' = h.step
      /\ \A s \in Steps : down'[s] = IF s \in kept THEN h.down[s] ELSE <<>>
  <2>1. Host' \in HostType
    BY <1>1, SeveredIs
  <2>2. step' = h.step /\ \A s \in Steps : down'[s] = IF s \in kept THEN h.down[s] ELSE <<>>
    BY DEF Severed
  <2> QED
    BY <2>1, <2>2
<1>3. (Host').step = step' /\ (Host').down = down'
  BY DEF Host
<1>4. \A s \in Steps : SendsNone(h, Host', s)
  BY <1>2, <1>3 DEF SendsNone
<1>5. \A s \in Steps : Accounted(Host', s)
  BY <1>1, <1>4, SendsNoneKeeps
<1> QED
  BY <1>2, <1>5 DEF AccountedHosts

\* The same, of what the Node's processes hold.
LEMMA HostAccounted ==
    ASSUME Host' \in AccountedHosts, asked' = asked,
           agent' = agent \/ agent' = [s \in Steps |-> NoAgent],
           \A s \in Steps : GivenOnce(s)
    PROVE  AllAccounted'
<1>1. \A s \in Steps : Accounted(Host', s)
  BY DEF AccountedHosts
<1>2. ASSUME NEW s \in Steps PROVE Accounted(Host, s)' /\ GivenOnce(s)'
  <2>1. CASE agent' = agent
    BY <1>1, <2>1 DEF Accounted, OnItsWay, Arrived, GivenOnce, WorksOn
  <2>2. CASE agent' = [o \in Steps |-> NoAgent]
    <3>1. agent'[s].proc = "none"
      BY <2>2 DEF NoAgent
    <3> QED
      BY <1>1, <3>1 DEF Accounted, OnItsWay, Arrived, GivenOnce, WorksOn
  <2> QED
    BY <2>1, <2>2
<1> QED
  BY <1>2 DEF AllAccounted

LEMMA HandlerAccounted ==
    ASSUME EngineAssumption, TypeOK, AllAccounted, Handler
    PROVE  AllAccounted'
<1>1. Host \in AccountedHosts /\ NodeOK
  BY HostTyped, TypeIs DEF AllAccounted, AccountedHosts
<1>2. PICK g \in AccountedHosts : Reaches(g)
  BY <1>1, AccountedHeld, HandlerReaches
<1>3. g \in HostType
  BY DEF AccountedHosts
<1>4. Host' \in AccountedHosts
  <2>1. CASE Becomes(g)
    BY <1>3, <2>1, BecomesIs
  <2>2. CASE Dies(g)
    <3>1. PICK kept \in SUBSET {s \in Steps : g.down[s] # <<>>} : Severed(g, kept)
      BY <2>2 DEF Dies
    <3>2. memo' \in [Steps -> 0..Session]
      BY <2>2, NoMemo DEF Dies
    <3> QED
      BY <3>1, <3>2, SeveredAccounted
  <2> QED
    BY <1>2, <2>1, <2>2 DEF Reaches
<1>5. agent' = agent /\ asked' = asked
  BY <1>1, HandlerLeaves
<1> QED
  BY <1>4, <1>5, HostAccounted DEF AllAccounted

LEMMA LinkAccounted ==
    ASSUME EngineAssumption, TypeOK, AllAccounted,
           Reconnect \/ Break \/ HostRestart \/ NodeRestart \/ HangsUp
    PROVE  AllAccounted'
<1>1. Host \in AccountedHosts
  BY HostTyped DEF AllAccounted, AccountedHosts
<1>2. TypeOK' /\ asked' = asked /\ (agent' = agent \/ agent' = [s \in Steps |-> NoAgent])
  BY LinkLeaves
<1>3. \/ step' = step /\ down' = down
      \/ \E kept : Severed(Host, kept)
  BY LinkLeaves
<1>4. Host' \in HostType
  <2>1. (TypeOK => Host \in HostType)'
    BY DEF TypeOK, Host, HostType, RunType, RunStates, StepType, RowType, CommandType, EventType
  <2> QED
    BY <1>2, <2>1
<1>5. Host' \in AccountedHosts
  <2>1. CASE step' = step /\ down' = down
    <3>1. (Host').step = Host.step /\ (Host').down = Host.down
      BY <2>1 DEF Host
    <3>2. \A s \in Steps : Accounted(Host', s)
      BY <3>1 DEF AllAccounted, Accounted, OnItsWay
    <3> QED
      BY <1>4, <3>2 DEF AccountedHosts
  <2>2. ASSUME NEW kept, Severed(Host, kept) PROVE Host' \in AccountedHosts
    <3>1. memo' \in [Steps -> 0..Session]
      BY <1>2 DEF TypeOK
    <3> QED
      BY <1>1, <2>2, <3>1, SeveredAccounted
  <2> QED
    BY <1>3, <2>1, <2>2
<1> QED
  BY <1>2, <1>5, HostAccounted DEF AllAccounted

\* The first command is taken: it was the only one for its attempt.
LEMMA TailIs ==
    ASSUME NEW S, NEW q \in Seq(S), q # <<>>, NEW t
    PROVE  /\ (\E i \in DOMAIN Tail(q) : Tail(q)[i].job = t) => \E i \in DOMAIN q : q[i].job = t
           /\ Head(q).job = t => \E i \in DOMAIN q : q[i].job = t
           /\ (\A i, j \in DOMAIN q : q[i].job = t /\ q[j].job = t => i = j) =>
                /\ \A i, j \in DOMAIN Tail(q) :
                      Tail(q)[i].job = t /\ Tail(q)[j].job = t => i = j
                /\ ~(Head(q).job = t /\ \E i \in DOMAIN Tail(q) : Tail(q)[i].job = t)
<1> DEFINE n == Len(q)
           r == Tail(q)
<1>1. /\ n \in Nat /\ n > 0 /\ DOMAIN q = 1..n /\ DOMAIN r = 1..(n - 1)
      /\ \A i \in 1..(n - 1) : r[i] = q[i + 1]
      /\ Head(q) = q[1]
  <2>1. n \in Nat /\ n # 0 /\ DOMAIN q = 1..n /\ Head(q) = q[1]
    OBVIOUS
  <2>2. r \in Seq(S) /\ Len(r) = n - 1
    OBVIOUS
  <2>3. \A i \in 1..(n - 1) : r[i] = q[i + 1]
    OBVIOUS
  <2>4. DOMAIN r = 1..(n - 1)
    BY <2>2
  <2> QED
    BY <2>1, <2>3, <2>4
<1> HIDE DEF n, r
<1>2. /\ 1 \in 1..n
      /\ \A i \in 1..(n - 1) : i + 1 \in 1..n /\ i + 1 # 1
      /\ \A i, j \in 1..(n - 1) : i + 1 = j + 1 => i = j
  BY <1>1
<1>3. (\E i \in DOMAIN r : r[i].job = t) => \E i \in DOMAIN q : q[i].job = t
  BY <1>1, <1>2
<1>4. Head(q).job = t => \E i \in DOMAIN q : q[i].job = t
  BY <1>1, <1>2
<1>5. ASSUME \A i, j \in DOMAIN q : q[i].job = t /\ q[j].job = t => i = j
      PROVE  /\ \A i, j \in DOMAIN r : r[i].job = t /\ r[j].job = t => i = j
             /\ ~(Head(q).job = t /\ \E i \in DOMAIN r : r[i].job = t)
  <2>1. ASSUME NEW i \in DOMAIN r, NEW j \in DOMAIN r, r[i].job = t, r[j].job = t PROVE i = j
    <3>1. q[i + 1].job = t /\ q[j + 1].job = t /\ i + 1 \in DOMAIN q /\ j + 1 \in DOMAIN q
      BY <1>1, <1>2, <2>1
    <3>2. i + 1 = j + 1
      BY <1>5, <3>1
    <3> QED
      BY <1>1, <1>2, <3>2
  <2>2. ASSUME Head(q).job = t, NEW i \in DOMAIN r, r[i].job = t PROVE FALSE
    <3>1. q[i + 1].job = t /\ q[1].job = t /\ i + 1 \in DOMAIN q /\ 1 \in DOMAIN q /\ i + 1 # 1
      BY <1>1, <1>2, <2>2
    <3> QED
      BY <1>5, <3>1
  <2> QED
    BY <2>1, <2>2
<1> QED
  BY <1>3, <1>4, <1>5 DEF r

\* What the Node makes of one attempt: it may pass from what is on its way to
\* what has arrived.
Delivers(s, t) ==
    /\ OnItsWay(Host, s, t)' => OnItsWay(Host, s, t)
    /\ (\A i, j \in DOMAIN down[s] : down[s][i].job = t /\ down[s][j].job = t => i = j)
         => \A i, j \in DOMAIN down'[s] : down'[s][i].job = t /\ down'[s][j].job = t => i = j
    /\ Arrived(s, t)' => Arrived(s, t) \/ OnItsWay(Host, s, t)
    /\ ~(Arrived(s, t)' /\ OnItsWay(Host, s, t)')
    /\ asked'[s][t] <= 1 /\ (WorksOn(s, t)' => asked'[s][t] > 0)
    /\ agent'[s].proc = "booting" /\ agent'[s].job = t => asked'[s][t] = 0

LEMMA DeliversKeeps ==
    ASSUME NEW s \in Steps, Accounted(Host, s), step' = step, \A t \in Attempts : Delivers(s, t)
    PROVE  Accounted(Host, s)' /\ GivenOnce(s)'
<1>1. Host.step = step /\ Host.down = down /\ (Host').step = step' /\ (Host').down = down'
  BY DEF Host
<1>2. GivenOnce(s)'
  BY DEF GivenOnce, Delivers, WorksOn
<1>3. \A t \in Attempts :
         OnItsWay(Host, s, t)' \/ Arrived(s, t)' =>
           /\ step[s].bound /\ t <= step[s].try
           /\ t = step[s].try => step[s].st \notin {"pending", "none"}
  BY <1>1 DEF Accounted, Delivers
<1>4. \A t \in Attempts :
         /\ \A i, j \in DOMAIN down'[s] : down'[s][i].job = t /\ down'[s][j].job = t => i = j
         /\ ~(Arrived(s, t)' /\ OnItsWay(Host, s, t)')
  BY <1>1 DEF Accounted, Delivers
<1>5. step'[s].st = "none" => ~step'[s].bound
  BY <1>1 DEF Accounted
<1>6. \A t : OnItsWay(Host, s, t)' <=> OnItsWay(Host', s, t)
  BY DEF OnItsWay
<1>7. \A t : Arrived(s, t)' <=> asked'[s][t] > 0 \/ (agent'[s].proc = "booting" /\ agent'[s].job = t)
  BY DEF Arrived
<1> QED
  BY <1>1, <1>2, <1>3, <1>4, <1>5 DEF Accounted

\* The queue of s is as it was, or without its first command.
Dequeues(s) ==
    down'[s] = down[s] \/ (down[s] # <<>> /\ down'[s] = Tail(down[s]))

LEMMA DequeueIs ==
    ASSUME TypeOK, NEW s \in Steps, Dequeues(s), NEW t,
           \A i, j \in DOMAIN down[s] : down[s][i].job = t /\ down[s][j].job = t => i = j
    PROVE  /\ OnItsWay(Host, s, t)' => OnItsWay(Host, s, t)
           /\ \A i, j \in DOMAIN down'[s] : down'[s][i].job = t /\ down'[s][j].job = t => i = j
           /\ down'[s] # down[s] =>
                /\ Head(down[s]).job = t => OnItsWay(Host, s, t)
                /\ ~(Head(down[s]).job = t /\ OnItsWay(Host, s, t)')
<1>1. Host.down = down /\ (Host').down = down'
  BY DEF Host
<1>2. CASE down'[s] = down[s]
  BY <1>1, <1>2 DEF OnItsWay
<1>3. CASE down[s] # <<>> /\ down'[s] = Tail(down[s])
  <2>1. down[s] \in Seq(CommandType)
    BY DEF TypeOK, CommandType
  <2> QED
    BY <1>1, <1>3, <2>1, TailIs DEF OnItsWay
<1> QED
  BY <1>2, <1>3 DEF Dequeues

\* The agent takes up nothing.
LEMMA StandsDelivers ==
    ASSUME TypeOK, NEW s \in Steps, Accounted(Host, s), GivenOnce(s), Dequeues(s),
           NEW t \in Attempts, asked'[s][t] = asked[s][t],
           WorksOn(s, t)' => WorksOn(s, t),
           agent'[s].proc = "booting" /\ agent'[s].job = t =>
              agent[s].proc = "booting" /\ agent[s].job = t
    PROVE  Delivers(s, t)
<1>1. \A i, j \in DOMAIN down[s] : down[s][i].job = t /\ down[s][j].job = t => i = j
  BY HostIs DEF Accounted
<1>2. ~(Arrived(s, t) /\ OnItsWay(Host, s, t))
  BY DEF Accounted
<1>3. OnItsWay(Host, s, t)' => OnItsWay(Host, s, t)
  BY <1>1, DequeueIs
<1>4. \A i, j \in DOMAIN down'[s] : down'[s][i].job = t /\ down'[s][j].job = t => i = j
  BY <1>1, DequeueIs
<1>5. Arrived(s, t)' => Arrived(s, t)
  BY DEF Arrived
<1>6. /\ asked'[s][t] <= 1 /\ (WorksOn(s, t)' => asked'[s][t] > 0)
      /\ agent'[s].proc = "booting" /\ agent'[s].job = t => asked'[s][t] = 0
  BY DEF GivenOnce
<1> QED
  BY <1>2, <1>3, <1>4, <1>5, <1>6 DEF Delivers

\* The agent takes up a command for the attempt: it starts for it, or is asked.
LEMMA TakesDelivers ==
    ASSUME TypeOK, NEW s \in Steps, Accounted(Host, s), GivenOnce(s), Dequeues(s),
           NEW t \in Attempts,
           \/ down'[s] # down[s] /\ Head(down[s]).job = t
           \/ agent[s].proc = "booting" /\ agent[s].job = t,
           \/ /\ agent'[s].proc = "booting" /\ asked'[s][t] = asked[s][t]
           \/ /\ agent'[s].proc # "booting" /\ asked'[s][t] = asked[s][t] + 1
    PROVE  Delivers(s, t)
<1>1. \A i, j \in DOMAIN down[s] : down[s][i].job = t /\ down[s][j].job = t => i = j
  BY HostIs DEF Accounted
<1>2. ~(Arrived(s, t) /\ OnItsWay(Host, s, t))
  BY DEF Accounted
<1>3. OnItsWay(Host, s, t)' => OnItsWay(Host, s, t)
  BY <1>1, DequeueIs
<1>4. \A i, j \in DOMAIN down'[s] : down'[s][i].job = t /\ down'[s][j].job = t => i = j
  BY <1>1, DequeueIs
<1>5. asked[s][t] = 0 /\ ~OnItsWay(Host, s, t)' /\ (Arrived(s, t) \/ OnItsWay(Host, s, t))
  <2>0. asked[s][t] \in Nat
    <3>1. asked[s] \in [1..MaxTries -> Nat]
      BY DEF TypeOK
    <3> QED
      BY <3>1 DEF Attempts
  <2>1. CASE down'[s] # down[s] /\ Head(down[s]).job = t
    <3>1. OnItsWay(Host, s, t) /\ ~OnItsWay(Host, s, t)'
      BY <1>1, <2>1, DequeueIs
    <3>2. ~(asked[s][t] > 0)
      BY <1>2, <3>1 DEF Arrived
    <3> QED
      BY <2>0, <3>1, <3>2
  <2>2. CASE agent[s].proc = "booting" /\ agent[s].job = t
    <3>1. asked[s][t] = 0 /\ Arrived(s, t)
      BY <2>2 DEF GivenOnce, Arrived
    <3> QED
      BY <1>2, <1>3, <3>1
  <2> QED
    BY <2>1, <2>2
<1>6. /\ asked'[s][t] <= 1 /\ (WorksOn(s, t)' => asked'[s][t] > 0)
      /\ agent'[s].proc = "booting" /\ agent'[s].job = t => asked'[s][t] = 0
  BY <1>5 DEF WorksOn
<1> QED
  BY <1>3, <1>4, <1>5, <1>6 DEF Delivers

\* What a worker's process does with its commands.
LEMMA NodeActsIs ==
    ASSUME EngineAssumption, TypeOK, NEW s \in Steps, NodeActs(s)
    PROVE  /\ step' = step /\ Dequeues(s)
           /\ \A o \in Steps \ {s} : /\ down'[o] = down[o] /\ agent'[o] = agent[o]
                                     /\ asked'[o] = asked[o]
           /\ \/ /\ asked' = asked
                 /\ \/ agent'[s].proc \in {"none", "idle"}
                    \/ agent'[s].proc = agent[s].proc /\ agent'[s].job = agent[s].job
                    \/ agent'[s].proc = "turn" /\ agent'[s].job = 0
              \/ /\ asked' = asked /\ down'[s] # down[s]
                 /\ agent'[s].proc = "booting" /\ agent'[s].job = Head(down[s]).job
              \/ \E job \in 0..Session :
                   /\ Asked(s, job) /\ agent'[s].proc # "booting"
                   /\ \/ down'[s] # down[s] /\ Head(down[s]).job = job
                      \/ agent[s].proc = "booting" /\ agent[s].job = job
                   /\ agent'[s].proc = "turn" => agent'[s].job = job
<1>1. /\ agent \in [Steps -> AgentType] /\ down \in [Steps -> Seq(CommandType)]
      /\ asked \in [Steps -> [1..MaxTries -> Nat]]
  BY DEF TypeOK, AgentType, CommandType
<1>2. \A q \in Seq(CommandType) : q # <<>> => Tail(q) # q /\ Head(q).job \in 0..Session
  <2> TAKE q \in Seq(CommandType)
  <2> SUFFICES ASSUME q # <<>> PROVE Tail(q) # q /\ Head(q).job \in 0..Session
    OBVIOUS
  <2>1. Len(Tail(q)) = Len(q) - 1 /\ Len(q) \in Nat /\ Head(q) \in CommandType
    OBVIOUS
  <2>3. \A n \in Nat : n - 1 # n
    OBVIOUS
  <2>2. Len(Tail(q)) # Len(q)
    BY <2>1, <2>3
  <2> QED
    BY <2>1, <2>2 DEF CommandType
<1>3. ASSUME NEW types, Pops(s, types)
      PROVE  /\ Dequeues(s) /\ down'[s] # down[s] /\ Head(down[s]).job \in 0..Session
             /\ \A o \in Steps \ {s} : down'[o] = down[o]
  <2>1. /\ down[s] \in Seq(CommandType) /\ down[s] # <<>>
        /\ down' = [down EXCEPT ![s] = Tail(down[s])]
    BY <1>1, <1>3 DEF Pops
  <2>2. down'[s] = Tail(down[s])
    BY <1>1, <2>1
  <2> QED
    BY <1>1, <1>2, <2>1, <2>2 DEF Dequeues
<1>4. \A proc, job : Becoming(s, proc, job) =>
         /\ agent'[s].proc = proc /\ agent'[s].job = job
         /\ \A o \in Steps \ {s} : agent'[o] = agent[o]
  BY <1>1 DEF Becoming
<1>5. \A job : Asked(s, job) => \A o \in Steps \ {s} : asked'[o] = asked[o]
  BY <1>1 DEF Asked
<1>6. agent' = [agent EXCEPT ![s] = NoAgent] =>
         agent'[s].proc = "none" /\ \A o \in Steps \ {s} : agent'[o] = agent[o]
  BY <1>1 DEF NoAgent
<1>7. \A types : Reports(s, types) => step' = step
  BY DEF Reports, hostVars
<1>8. down' = down => Dequeues(s) /\ \A o \in Steps \ {s} : down'[o] = down[o]
  BY DEF Dequeues
<1>9. CASE TakeLaunch(s)
  <2>1. Pops(s, {"start", "resume"}) /\ asked' = asked /\ step' = step
    BY <1>7, <1>9 DEF TakeLaunch
  <2>2. Becoming(s, "booting", Head(down[s]).job) \/ agent' = agent
    BY <1>9 DEF TakeLaunch
  <2> QED
    BY <1>3, <1>4, <2>1, <2>2
<1>10. CASE TakePrompt(s)
  <2>1. Pops(s, {"prompt"}) /\ step' = step
    BY <1>7, <1>10 DEF TakePrompt
  <2>2. \/ UNCHANGED <<agent, asked>>
        \/ Asked(s, Head(down[s]).job) /\ Becoming(s, "turn", Head(down[s]).job)
    BY <1>10 DEF TakePrompt
  <2> QED
    BY <1>3, <1>4, <1>5, <2>1, <2>2
<1>11. CASE TakeStop(s)
  <2>1. Pops(s, {"stop"}) /\ asked' = asked /\ step' = step
    BY <1>7, <1>11 DEF TakeStop
  <2>2. agent' = agent \/ agent' = [agent EXCEPT ![s] = NoAgent]
    BY <1>11 DEF TakeStop
  <2> QED
    BY <1>3, <1>6, <2>1, <2>2
<1>12. CASE TakeCancel(s)
  <2>1. Pops(s, {"cancel"}) /\ asked' = asked /\ step' = step
    BY <1>7, <1>12 DEF TakeCancel
  <2>2. agent' = agent \/ Becoming(s, "idle", 0)
    BY <1>12 DEF TakeCancel
  <2> QED
    BY <1>3, <1>4, <2>1, <2>2
<1>13. CASE Boot(s)
  <2>1. /\ agent[s].proc = "booting" /\ Asked(s, agent[s].job) /\ down' = down
        /\ Becoming(s, "idle", agent[s].job) \/ Becoming(s, "turn", agent[s].job)
        /\ step' = step
    BY <1>7, <1>13 DEF Boot
  <2>2. agent[s].job \in 0..Session
    BY <1>1 DEF AgentType
  <2>3. agent'[s].proc \in {"idle", "turn"} /\ agent'[s].job = agent[s].job
        /\ \A o \in Steps \ {s} : agent'[o] = agent[o]
    BY <1>4, <2>1
  <2>4. agent'[s].proc # "booting"
    BY <2>3
  <2> QED
    BY <1>5, <1>8, <2>1, <2>2, <2>3, <2>4
<1>14. CASE Speak(s)
  <2>1. /\ down' = down /\ asked' = asked /\ step' = step
        /\ agent' = [agent EXCEPT ![s].spoke = TRUE]
    BY <1>7, <1>14 DEF Speak
  <2>2. /\ agent'[s].proc = agent[s].proc /\ agent'[s].job = agent[s].job
        /\ \A o \in Steps \ {s} : agent'[o] = agent[o]
    BY <1>1, <2>1 DEF AgentType
  <2> QED
    BY <1>8, <2>1, <2>2
<1>15. CASE TurnEnds(s)
  <2>1. down' = down /\ asked' = asked /\ step' = step /\ Becoming(s, "idle", 0)
    BY <1>7, <1>15 DEF TurnEnds
  <2> QED
    BY <1>4, <1>8, <2>1
<1>16. CASE AgentDies(s)
  <2>1. down' = down /\ asked' = asked /\ step' = step
        /\ agent' = [agent EXCEPT ![s] = NoAgent]
    BY <1>7, <1>16 DEF AgentDies
  <2> QED
    BY <1>6, <1>8, <2>1
<1>17. CASE OwnTurn(s)
  <2>1. down' = down /\ asked' = asked /\ step' = step /\ Becoming(s, "turn", 0)
    BY <1>7, <1>17 DEF OwnTurn
  <2> QED
    BY <1>4, <1>8, <2>1
<1> QED
  BY <1>9, <1>10, <1>11, <1>12, <1>13, <1>14, <1>15, <1>16, <1>17 DEF NodeActs, NodeTakes

LEMMA NodeAccounted ==
    ASSUME EngineAssumption, TypeOK, AllAccounted, NEW s \in Steps, NodeActs(s)
    PROVE  AllAccounted'
<1>0. \A o \in Steps : Accounted(Host, o) /\ GivenOnce(o)
  BY DEF AllAccounted
<1>1. /\ step' = step /\ Dequeues(s)
      /\ \A o \in Steps \ {s} : /\ down'[o] = down[o] /\ agent'[o] = agent[o]
                                /\ asked'[o] = asked[o]
  BY NodeActsIs
<1>2. ASSUME NEW o \in Steps \ {s} PROVE \A t \in Attempts : Delivers(o, t)
  <2>1. Dequeues(o)
    BY <1>1 DEF Dequeues
  <2> QED
    BY <1>0, <1>1, <2>1, StandsDelivers DEF WorksOn
<1>3. ASSUME NEW t \in Attempts PROVE Delivers(s, t)
  <2>0. t # 0 /\ 0 \notin Attempts
    BY AttemptsAre
  <2>1. CASE /\ asked' = asked
             /\ \/ agent'[s].proc \in {"none", "idle"}
                \/ agent'[s].proc = agent[s].proc /\ agent'[s].job = agent[s].job
                \/ agent'[s].proc = "turn" /\ agent'[s].job = 0
    BY <1>0, <1>1, <2>0, <2>1, StandsDelivers DEF WorksOn
  <2>2. CASE /\ asked' = asked /\ down'[s] # down[s]
             /\ agent'[s].proc = "booting" /\ agent'[s].job = Head(down[s]).job
    <3>1. CASE Head(down[s]).job = t
      BY <1>0, <1>1, <2>2, <3>1, TakesDelivers
    <3>2. CASE Head(down[s]).job # t
      BY <1>0, <1>1, <2>2, <3>2, StandsDelivers DEF WorksOn
    <3> QED
      BY <3>1, <3>2
  <2>3. ASSUME NEW job \in 0..Session, Asked(s, job), agent'[s].proc # "booting",
               \/ down'[s] # down[s] /\ Head(down[s]).job = job
               \/ agent[s].proc = "booting" /\ agent[s].job = job,
               agent'[s].proc = "turn" => agent'[s].job = job
        PROVE  Delivers(s, t)
    <3>0. asked \in [Steps -> [1..MaxTries -> Nat]] /\ asked[s] \in [1..MaxTries -> Nat]
          /\ t \in 1..MaxTries
      BY DEF TypeOK, Attempts
    <3>1. CASE job = t
      <4>1. asked' = [asked EXCEPT ![s][t] = @ + 1]
        BY <2>3, <3>0, <3>1 DEF Asked
      <4>2. asked'[s] = [asked[s] EXCEPT ![t] = @ + 1]
        BY <3>0, <4>1
      <4>3. asked'[s][t] = asked[s][t] + 1
        BY <3>0, <4>2
      <4> QED
        BY <1>0, <1>1, <2>3, <3>1, <4>3, TakesDelivers
    <3>2. CASE job # t
      <4>1. asked'[s][t] = asked[s][t]
        <5>1. CASE job \in 1..MaxTries
          <6>1. asked' = [asked EXCEPT ![s][job] = @ + 1]
            BY <2>3, <5>1 DEF Asked
          <6>2. asked'[s] = [asked[s] EXCEPT ![job] = @ + 1]
            BY <3>0, <6>1
          <6> QED
            BY <3>0, <3>2, <6>2
        <5>2. CASE job \notin 1..MaxTries
          BY <2>3, <5>2 DEF Asked
        <5> QED
          BY <5>1, <5>2
      <4>2. ~(agent'[s].proc = "turn" /\ agent'[s].job = t)
        BY <2>3, <3>2
      <4> QED
        BY <1>0, <1>1, <2>3, <4>1, <4>2, StandsDelivers DEF WorksOn
    <3> QED
      BY <3>1, <3>2
  <2> QED
    BY <2>1, <2>2, <2>3, NodeActsIs
<1>4. \A o \in Steps : Accounted(Host, o)' /\ GivenOnce(o)'
  BY <1>0, <1>1, <1>2, <1>3, DeliversKeeps
<1> QED
  BY <1>4 DEF AllAccounted

LEMMA InitAccounted ==
    ASSUME EngineAssumption, Init
    PROVE  AllAccounted
<1> SUFFICES ASSUME NEW s \in Steps PROVE Accounted(Host, s) /\ GivenOnce(s)
  BY DEF AllAccounted
<1>1. /\ Host.down[s] = <<>> /\ agent[s].proc = "none" /\ ~Host.step[s].bound
      /\ \A t \in Attempts : asked[s][t] = 0
  BY HostIs DEF Init, NoAgent, NoStep, NewStep, Attempts
<1>2. \A t \in Attempts : ~OnItsWay(Host, s, t) /\ ~Arrived(s, t)
  BY <1>1 DEF OnItsWay, Arrived
<1> QED
  BY <1>1, <1>2 DEF Accounted, GivenOnce, WorksOn

\* What is accounted for is dispatched once.
LEMMA AccountedOnce ==
    ASSUME EngineAssumption, TypeOK, AllAccounted
    PROVE  DispatchedOnce
<1>1. RunsOnce
  BY DEF AllAccounted, GivenOnce, RunsOnce
<1>2. ASSUME NEW s \in Steps, NEW t \in Attempts,
             WorksOn(s, t) \/ \E i \in DOMAIN down[s] : down[s][i].job = t
      PROVE  step[s].bound /\ (t < step[s].try \/ step[s].st # "pending")
  <2>1. Accounted(Host, s) /\ GivenOnce(s)
    BY DEF AllAccounted
  <2>2. OnItsWay(Host, s, t) \/ Arrived(s, t)
    BY <1>2, <2>1, HostIs DEF OnItsWay, Arrived, GivenOnce
  <2>3. step[s].bound /\ t <= step[s].try /\ (t = step[s].try => step[s].st # "pending")
    BY <2>1, <2>2, HostIs DEF Accounted
  <2>4. t \in Nat /\ step[s].try \in Nat
    <3>1. step[s] \in StepType
      BY HostTyped, HostAt, HostIs
    <3> QED
      BY <3>1, AttemptsAre, Numbers DEF StepType
  <2> QED
    BY <2>3, <2>4
<1> QED
  BY <1>1, <1>2 DEF DispatchedOnce, KnownWork

\* However startStep, promptStep and resumeStep are cut short, and whatever the
\* reports, the reconciliation and the deadlines make of it, no attempt is put
\* to an agent twice or without the step's record of it.
THEOREM EachAttemptOnce == Spec => []DispatchedOnce
<1>1. EngineAssumption
  BY EngineAssumption
<1>2. Init => AllAccounted
  BY <1>1, InitAccounted
<1>3. TypeOK /\ AllAccounted /\ [Next]_vars => AllAccounted'
  <2> SUFFICES ASSUME TypeOK, AllAccounted, [Next]_vars PROVE AllAccounted'
    OBVIOUS
  <2>1. CASE Next
    BY <1>1, <2>1, NextIs, HandlerAccounted, LinkAccounted, NodeAccounted
  <2>2. CASE UNCHANGED vars
    <3>1. Host' = Host /\ agent' = agent /\ asked' = asked
      BY <2>2 DEF vars, Host
    <3> QED
      BY <3>1 DEF AllAccounted, Accounted, OnItsWay, Arrived, GivenOnce, WorksOn
  <2> QED
    BY <2>1, <2>2
<1>4. TypeOK /\ AllAccounted => DispatchedOnce
  BY <1>1, AccountedOnce
<1> QED
  BY <1>2, <1>3, <1>4, TypeCorrect, PTL DEF Spec

-----------------------------------------------------------------------------
(* A run without a lead ends right                                         *)

Barred(h, s) ==
    \E d \in DependsOn[s] : h.step[d].st \in {"failed", "skipped", "cancelled"}

\* The run is under way or over, the whole plan is on record, a step is skipped
\* for a reason, and the outcome fits the steps.
RunsByPlan(h) ==
    /\ h.run.st \in {"running"} \cup Closed
    /\ \A s \in Steps : /\ h.step[s].st # "none"
                        /\ h.step[s].st = "skipped" => Barred(h, s)
    /\ h.run.st \in {"completed", "failed"} => \A s \in Steps : h.step[s].st \in Settled
    /\ h.run.st = "completed" => \A s \in Steps : h.step[s].st \notin {"failed", "cancelled"}

\* What is settled stays, and the run ends only as MayEnd allows or by being
\* cancelled.
GoesForward(h, g) ==
    /\ \A s \in Steps : \/ g.step[s].st = h.step[s].st
                        \/ /\ h.step[s].st \notin Settled /\ g.step[s].st # "none"
                           /\ g.step[s].st = "skipped" => Barred(h, s)
    /\ \/ g.run.st \in {h.run.st, "cancelled"}
       \/ g.step = h.step /\ MayEnd(h, g.run.st)

LEMMA ForwardKeeps ==
    ASSUME EngineAssumption, NEW h, NEW g, RunsByPlan(h), GoesForward(h, g)
    PROVE  RunsByPlan(g)
<1>1. \A s \in Steps : h.step[s].st \in Settled => g.step[s].st = h.step[s].st
  BY DEF GoesForward
<1>2. \A s \in Steps : g.step[s].st # "none"
  BY DEF GoesForward, RunsByPlan
<1>3. \A s \in Steps : Barred(h, s) => Barred(g, s)
  <2>1. \A s \in Steps : DependsOn[s] \subseteq Steps
    BY DEF EngineAssumption
  <2>2. \A s \in Steps : \A d \in DependsOn[s] :
           h.step[d].st \in {"failed", "skipped", "cancelled"} => g.step[d].st = h.step[d].st
    BY <1>1, <2>1 DEF Settled
  <2> QED
    BY <2>2 DEF Barred
<1>4. \A s \in Steps : g.step[s].st = "skipped" => Barred(g, s)
  BY <1>3 DEF GoesForward, RunsByPlan
<1>5. CASE g.run.st = h.run.st /\ h.run.st \in {"completed", "failed"}
  BY <1>1, <1>2, <1>4, <1>5 DEF RunsByPlan
<1>6. CASE g.run.st = h.run.st /\ h.run.st \notin {"completed", "failed"}
  BY <1>2, <1>4, <1>6 DEF RunsByPlan
<1>7. CASE g.run.st = "cancelled"
  BY <1>2, <1>4, <1>7 DEF RunsByPlan, Closed
<1>8. CASE g.step = h.step /\ MayEnd(h, g.run.st)
  BY <1>2, <1>4, <1>8 DEF RunsByPlan, MayEnd, Closed
<1> QED
  BY <1>5, <1>6, <1>7, <1>8 DEF GoesForward

LEMMA OneForward ==
    ASSUME NEW h, NEW g, NEW s \in Steps, Only(h, g, s), g.run.st = h.run.st,
           \/ g.step[s].st = h.step[s].st
           \/ /\ h.step[s].st \notin Settled /\ g.step[s].st # "none"
              /\ g.step[s].st = "skipped" => Barred(h, s)
    PROVE  GoesForward(h, g)
BY DEF GoesForward, Only, SameAt

LEMMA SameForward ==
    ASSUME NEW h, NEW g, \A s \in Steps : g.step[s].st = h.step[s].st, g.run.st = h.run.st
    PROVE  GoesForward(h, g)
BY DEF GoesForward

\* Without a lead, no dispatch touches the run's state.
LEMMA DispatchForward ==
    ASSUME EngineAssumption, ~led, NEW h \in HostType, NEW g \in HostType, NEW s \in Steps,
           RunsByPlan(h), Dispatches(h, s, g)
    PROVE  GoesForward(h, g)
<1> DEFINE a == h.step[s]
<1>1. PICK snap \in RunStates :
         /\ Fits(h, snap)
         /\ \/ MayStart(h, s) /\ g \in ToSet(StartStep(h, s, snap))
            \/ MayPrompt(h, s) /\ g \in ToSet(PromptStep(h, s, snap))
            \/ MayResume(h, s) /\ g \in ToSet(ResumeStep(h, s))
  BY DEF Dispatches
<1>2. snap # "awaiting_lead"
  BY <1>1 DEF Fits, RunsByPlan, Closed
<1>3. a \in StepType /\ a.st = "pending"
  <2>1. a \in StepType
    BY HostAt
  <2> QED
    BY <1>1, <2>1 DEF MayStart, MayPrompt, MayResume, MayGo
<1>4. /\ SentRow(a).st = "starting" /\ BoundRow(a).st = "starting"
      /\ UndoneRow(BoundRow(a)).st = "pending" /\ PromptedRow(a).st = "starting"
      /\ [PromptedRow(a) EXCEPT !.st = "pending", !.sent = FALSE].st = "pending"
      /\ ResentRow(a).st = "pending" /\ [a EXCEPT !.sent = FALSE].st = "pending"
  BY <1>3 DEF StepType, SentRow, BoundRow, UndoneRow, PromptedRow, ResentRow
<1> DEFINE Rowed(x, row) == x.step[s] = row /\ x.run = h.run
<1>5. \A x \in HostType : \A y, b, m, u, w : Has(h, x, s, h.run, y, b, m, u, w) => Rowed(x, y)
  BY HasRows
<1>6. {h.run} \cup (IF snap = "awaiting_lead" THEN {[h.run EXCEPT !.st = "running"]} ELSE {})
        = {h.run}
  BY <1>2
<1>7. Only(h, g, s)
  BY DispatchesLeave
<1>8. a.st \notin Settled
  BY <1>3 DEF Settled
<1> HIDE DEF a, Rowed
<1>9. \A row : Rowed(g, row) /\ row.st \in {"pending", "starting"} => GoesForward(h, g)
  <2> SUFFICES ASSUME NEW row, Rowed(g, row), row.st \in {"pending", "starting"}
               PROVE  GoesForward(h, g)
    OBVIOUS
  <2>1. g.step[s].st \in {"pending", "starting"} /\ g.run.st = h.run.st
    BY DEF Rowed
  <2>2. g.step[s].st # "none" /\ g.step[s].st # "skipped"
    BY <2>1
  <2> QED
    BY <1>7, <1>8, <2>1, <2>2, OneForward DEF a
<1>10. CASE g \in ToSet(StartStep(h, s, snap))
  <2>1. LeftByStart(h, s, snap, g)
    BY <1>10, StartStepLeaves
  <2>2. Rowed(g, SentRow(a)) \/ Rowed(g, BoundRow(a)) \/ Rowed(g, UndoneRow(BoundRow(a)))
    BY <1>5, <1>6, <2>1 DEF LeftByStart, a
  <2> QED
    BY <1>4, <1>9, <2>2
<1>11. CASE g \in ToSet(PromptStep(h, s, snap))
  <2>1. LeftByPrompt(h, s, snap, g)
    BY <1>11, PromptStepLeaves
  <2>2. Rowed(g, PromptedRow(a))
        \/ Rowed(g, [PromptedRow(a) EXCEPT !.st = "pending", !.sent = FALSE])
    BY <1>5, <1>6, <2>1 DEF LeftByPrompt, a
  <2> QED
    BY <1>4, <1>9, <2>2
<1>12. CASE g \in ToSet(ResumeStep(h, s))
  <2>1. LeftByResume(h, s, g)
    BY <1>12, ResumeStepLeaves
  <2>2. \/ Rowed(g, ResentRow(a))
        \/ \E x \in HostType : Rowed(x, [a EXCEPT !.sent = FALSE])
                               /\ g \in ToSet(Settle(x, s, "failed"))
    BY <1>5, <2>1 DEF LeftByResume, a
  <2>3. ASSUME NEW x \in HostType, x.run = h.run, g \in ToSet(Settle(x, s, "failed"))
        PROVE  GoesForward(h, g)
    <3>1. /\ g.step[s].st = "failed"
          /\ g.run.st = (IF led /\ x.run.st = "running" THEN "awaiting_lead" ELSE x.run.st)
      BY <2>3, SettleRow
    <3>2. g.run.st = h.run.st
      BY <2>3, <3>1
    <3> QED
      BY <1>7, <1>8, <3>1, <3>2, OneForward DEF a
  <2> QED
    BY <1>4, <1>9, <2>2, <2>3 DEF Rowed
<1> QED
  BY <1>1, <1>10, <1>11, <1>12

\* Stopping a session touches neither the run nor its steps.
LEMMA StopKeeps ==
    ASSUME EngineAssumption, NEW h \in HostType, NEW s \in Steps,
           NEW g \in ToSet(StopSession(h, s))
    PROVE  g.step = h.step /\ g.run = h.run
<1> DEFINE flagged == [h EXCEPT !.sess[s].stop = TRUE]
<1>1. g \in {flagged, CallOff(flagged, s, "stop")}
  <2> DEFINE off == CallOff(flagged, s, "stop")
  <2>1. StopSession(h, s) = <<flagged, off>> \/ StopSession(h, s) = <<>>
    BY DEF StopSession
  <2> HIDE DEF flagged, off
  <2>2. ToSet(<<flagged, off>>) = {flagged, off}
    BY ToSet2
  <2>3. ToSet(<<>>) = {}
    BY DEF ToSet
  <2> QED
    BY <2>1, <2>2, <2>3 DEF off
<1>2. flagged.step = h.step /\ flagged.run = h.run
  BY DEF HostType
<1> HIDE DEF flagged
<1>3. LET x == CallOff(flagged, s, "stop") IN x.step = flagged.step /\ x.run = flagged.run
  BY DEF CallOff, Send
<1> QED
  BY <1>1, <1>2, <1>3

LEMMA MovesForward ==
    ASSUME EngineAssumption, ~led, NEW h \in HostType, NEW g \in HostType, RunsByPlan(h),
           Moves(h, g)
    PROVE  GoesForward(h, g)
<1>1. ASSUME NEW s \in Steps, NEW st, g = [h EXCEPT !.step[s].st = st],
             \/ MayAdvance(h, s) /\ st = "running"
             \/ MaySkip(h, s) /\ st = "skipped"
      PROVE  GoesForward(h, g)
  <2>0. g = WithSt(h, s, st)
    BY <1>1 DEF WithSt
  <2>1. Only(h, g, s) /\ g.run = h.run /\ g.step[s].st = st
    BY <2>0, SetStGives
  <2>2. h.step[s].st \notin Settled /\ st # "none" /\ (st = "skipped" => Barred(h, s))
    BY <1>1 DEF MayAdvance, MaySkip, Settled, Barred
  <2> QED
    BY <2>1, <2>2, OneForward
<1>2. ASSUME NEW s \in Steps, NEW to \in {"succeeded", "failed"}, g \in ToSet(Settle(h, s, to)),
             MaySettle(h, s, to)
      PROVE  GoesForward(h, g)
  <2>1. Only(h, g, s)
    BY <1>2, SettleLeaves
  <2>2. /\ g.step[s].st = to
        /\ g.run.st = (IF led /\ h.run.st = "running" THEN "awaiting_lead" ELSE h.run.st)
    BY <1>2, SettleRow
  <2>3. g.run.st = h.run.st /\ to # "none" /\ to # "skipped"
    BY <2>2
  <2>4. h.step[s].st \notin Settled
    BY <1>2 DEF MaySettle, MayWin, MayLose, Settled
  <2> QED
    BY <2>1, <2>2, <2>3, <2>4, OneForward
<1>3. ASSUME NEW s \in Steps, g \in ToSet(StopSession(h, s)) PROVE GoesForward(h, g)
  <2>1. g.step = h.step /\ g.run = h.run
    BY <1>3, StopKeeps
  <2> QED
    BY <2>1, SameForward
<1>4. ASSUME NEW s \in Steps, NEW type \in {"stop", "cancel"}, g = CallOff(h, s, type)
      PROVE  GoesForward(h, g)
  <2>1. LeftByCallOff(h, s, type, g)
    BY <1>4, CallOffLeaves
  <2>2. g.step = h.step /\ g.run = h.run
    BY <2>1 DEF LeftByCallOff
  <2> QED
    BY <2>2, SameForward
<1>5. ASSUME NEW s \in Steps, Dispatches(h, s, g) PROVE GoesForward(h, g)
  BY <1>5, DispatchForward
<1>6. CASE g = [h EXCEPT !.run.owed = FALSE]
  <2>1. g.step = h.step /\ g.run.st = h.run.st
    BY <1>6 DEF HostType, RunType
  <2> QED
    BY <2>1, SameForward
<1>7. ASSUME NEW fate, MayEnd(h, fate), g = [h EXCEPT !.run.st = fate]
      PROVE  GoesForward(h, g)
  <2>1. g.step = h.step /\ g.run.st = fate
    BY <1>7 DEF HostType, RunType
  <2> QED
    BY <1>7, <2>1 DEF GoesForward
<1>8. CASE g = Pumped(h, Steps)
  BY <1>8, PumpedIs, SameForward
<1> QED
  <2>1. ASSUME NEW s \in Steps, MayAdvance(h, s), g = [h EXCEPT !.step[s].st = "running"]
        PROVE  GoesForward(h, g)
    BY <1>1, <2>1
  <2>2. ASSUME NEW s \in Steps, MaySkip(h, s), g = [h EXCEPT !.step[s].st = "skipped"]
        PROVE  GoesForward(h, g)
    BY <1>1, <2>2
  <2>3. ASSUME NEW s \in Steps, MayWin(h, s), g \in ToSet(Settle(h, s, "succeeded"))
        PROVE  GoesForward(h, g)
    BY <1>2, <2>3 DEF MaySettle
  <2>4. ASSUME NEW s \in Steps, MayLose(h, s), g \in ToSet(Settle(h, s, "failed"))
        PROVE  GoesForward(h, g)
    BY <1>2, <2>4 DEF MaySettle
  <2> QED
    BY <1>3, <1>4, <1>5, <1>6, <1>7, <1>8, <2>1, <2>2, <2>3, <2>4 DEF Moves

ForwardHosts == {h \in HostType : RunsByPlan(h)}

LEMMA ForwardClosed ==
    ASSUME EngineAssumption, ~led, NEW h \in ForwardHosts, NEW g \in HostType, Moves(h, g)
    PROVE  g \in ForwardHosts
BY MovesForward, ForwardKeeps DEF ForwardHosts

\* Calling the run off settles what is not settled.
LEMMA CalledForward ==
    ASSUME TypeOK, RunsByPlan(Host)
    PROVE  GoesForward(Host, Called)
<1>1. Host \in HostType
  BY HostTyped
<1>2. /\ Called.run.st = "cancelled"
      /\ \A s \in Steps : Called.step[s] = IF Host.step[s].st \in Settled \cup {"none"}
                                           THEN Host.step[s]
                                           ELSE [Host.step[s] EXCEPT !.st = "cancelled"]
  BY <1>1, HostIs DEF Called, RunIs, HostType, RunType
<1>3. ASSUME NEW s \in Steps
      PROVE  \/ Called.step[s].st = Host.step[s].st
             \/ /\ Host.step[s].st \notin Settled /\ Called.step[s].st # "none"
                /\ Called.step[s].st # "skipped"
  <2>1. Host.step[s] \in StepType
    BY <1>1, HostAt
  <2>2. [Host.step[s] EXCEPT !.st = "cancelled"].st = "cancelled"
    BY <2>1 DEF StepType
  <2> DEFINE row == [Host.step[s] EXCEPT !.st = "cancelled"]
  <2>3. row.st = "cancelled"
    BY <2>2
  <2>4. IF Host.step[s].st \in Settled \cup {"none"} THEN Called.step[s] = Host.step[s]
        ELSE Called.step[s] = row
    BY <1>2
  <2> HIDE DEF row
  <2> QED
    BY <2>3, <2>4
<1> QED
  BY <1>2, <1>3 DEF GoesForward

LEMMA BeginsForward ==
    ASSUME EngineAssumption, TypeOK, ~led, Host \in ForwardHosts, NEW g \in HostType, Begins(g)
    PROVE  g \in ForwardHosts
<1>0. Host \in HostType /\ RunsByPlan(Host)
  BY DEF ForwardHosts
<1>1. \A h \in ForwardHosts, x \in HostType :
         (x.run = h.run /\ \A s \in Steps : x.step[s].st = h.step[s].st) => x \in ForwardHosts
  <2> TAKE h \in ForwardHosts, x \in HostType
  <2> HAVE x.run = h.run /\ \A s \in Steps : x.step[s].st = h.step[s].st
  <2>1. GoesForward(h, x)
    BY SameForward
  <2>2. RunsByPlan(h)
    BY DEF ForwardHosts
  <2>3. RunsByPlan(x)
    BY <2>1, <2>2, ForwardKeeps
  <2> QED
    BY <2>3 DEF ForwardHosts
<1>2. CASE Decided(g)
  <2>1. Host.run.st \in {"running"} \cup Closed
    BY <1>0 DEF RunsByPlan
  <2>2. g = Called
    BY <1>2, <2>1, HostIs DEF Decided, Closed
  <2> QED
    BY <1>0, <2>2, CalledForward, ForwardKeeps DEF ForwardHosts
<1>3. ASSUME NEW s \in Steps, Receives(s), Hears(Heard(s), s, Head(up[s]), g)
      PROVE  g \in ForwardHosts
  <2>1. Heard(s) \in HostType /\ Head(up[s]) \in EventType
    BY <1>3, HeardTyped
  <2>2. Heard(s).step = Host.step /\ Heard(s).run = Host.run
    BY <1>0 DEF Heard, HostType
  <2>3. Heard(s) \in ForwardHosts
    BY <1>1, <2>1, <2>2
  <2>4. Like(Heard(s), g)
    BY <1>3, <2>1, HearsLike
  <2> QED
    BY <1>1, <2>3, <2>4 DEF Like
<1>4. \A h \in ForwardHosts : \A steps : Reconciled(h, steps) \in HostType
                                         => Reconciled(h, steps) \in ForwardHosts
  <2> TAKE h \in ForwardHosts
  <2> TAKE steps
  <2>1. h \in HostType
    BY DEF ForwardHosts
  <2>2. Reconciled(h, steps).run = h.run /\ Reconciled(h, steps).step = h.step
    BY <2>1, ReconciledIs
  <2> QED
    BY <1>1, <2>2
<1>5. ASSUME NEW s \in Steps, Ordered(s, g) PROVE g \in ForwardHosts
  <2>1. CASE g = Cancelling(s) \/ g = Takes(Cancelling(s), s, "failed")
    <3>1. g.step = Host.step /\ g.run = Host.run
      BY <1>0, <2>1 DEF Cancelling, Takes, HostType
    <3> QED
      BY <1>1, <3>1
  <2>2. CASE g = Written(s)
    <3> DEFINE x == [Host EXCEPT !.mail = @ \cup {s}]
    <3>1. x \in HostType /\ x.step = Host.step /\ x.run = Host.run
      BY <1>0 DEF HostType
    <3> HIDE DEF x
    <3>2. Pumped(x, {s}).step = x.step /\ Pumped(x, {s}).run = x.run
      BY <3>1, PumpedIs
    <3>3. g.step = Host.step /\ g.run = Host.run
      BY <2>2, <3>1, <3>2 DEF Written, x
    <3> QED
      BY <1>1, <3>3
  <2> QED
    BY <1>5, <2>1, <2>2 DEF Ordered
<1>6. CASE g \in {Found, Revived(Found)}
  <2>1. Bare \in HostType /\ Bare.step = Host.step /\ Bare.run = Host.run
    <3>1. Bare \in HostType
      BY BareTyped
    <3> QED
      BY <1>0, <3>1 DEF Bare, HostType
  <2>2. Bare \in ForwardHosts
    BY <1>1, <2>1
  <2>3. Found \in HostType
    BY <2>1, ReconciledTyped DEF Found
  <2>4. Found \in ForwardHosts
    BY <1>4, <2>2, <2>3 DEF Found
  <2>5. Revived(Found).run = Found.run /\ Revived(Found).step = Found.step
    BY <2>3, RevivedIs
  <2>6. Revived(Found) \in HostType
    BY <2>3, RevivedTyped
  <2>7. Revived(Found) \in ForwardHosts
    BY <1>1, <2>4, <2>5, <2>6
  <2> QED
    BY <1>6, <2>4, <2>7
<1> QED
  BY <1>2, <1>3, <1>4, <1>5, <1>6 DEF Begins

\* What a run without a lead is, as long as the program has run.
ByPlan == led \/ RunsByPlan(Host)

LEMMA InitByPlan ==
    ASSUME Init
    PROVE  ByPlan
BY HostIs DEF Init, ByPlan, RunsByPlan, NewStep, NoStep, Closed

LEMMA SameByPlan ==
    ASSUME RunsByPlan(Host), run' = run, step' = step
    PROVE  RunsByPlan(Host)'
<1>1. (Host').run = Host.run /\ (Host').step = Host.step
  BY DEF Host
<1> QED
  BY <1>1 DEF RunsByPlan, Barred

LEMMA HandlerByPlan ==
    ASSUME EngineAssumption, TypeOK, ByPlan, Handler
    PROVE  ByPlan'
<1>1. led' = led
  BY TypeIs, HandlerLeaves
<1> SUFFICES ASSUME ~led PROVE RunsByPlan(Host)'
  BY <1>1 DEF ByPlan
<1>2. Host \in ForwardHosts
  BY HostTyped DEF ByPlan, ForwardHosts
<1>3. HoldsAll(ForwardHosts)
  BY <1>2, ForwardClosed, BeginsForward DEF HoldsAll, ClosedUnderMoves, ForwardHosts
<1>4. PICK g \in ForwardHosts : Reaches(g)
  BY <1>3, HandlerReaches
<1>5. run' = g.run /\ step' = g.step
  BY <1>4 DEF Reaches, Becomes, Dies, Severed
<1>6. (Host').run = run' /\ (Host').step = step'
  BY DEF Host
<1>7. RunsByPlan(g)
  BY DEF ForwardHosts
<1> QED
  BY <1>5, <1>6, <1>7 DEF RunsByPlan, Barred

LEMMA LinkByPlan ==
    ASSUME EngineAssumption, TypeOK, ByPlan,
           Reconnect \/ Break \/ HostRestart \/ NodeRestart \/ HangsUp
    PROVE  ByPlan'
<1>1. led' = led
  BY LinkLeaves
<1>2. run' = run /\ step' = step
  BY LinkLeaves, HostIs DEF Severed
<1> QED
  BY <1>1, <1>2, SameByPlan DEF ByPlan

LEMMA NodeByPlan ==
    ASSUME EngineAssumption, TypeOK, ByPlan, NEW s \in Steps, NodeActs(s)
    PROVE  ByPlan'
<1>1. led' = led /\ run' = run /\ step' = step
  BY DEF NodeActs, NodeTakes, TakeLaunch, TakePrompt, TakeStop, TakeCancel, Boot, Speak,
         TurnEnds, AgentDies, OwnTurn, Reports, hostVars
<1> QED
  BY <1>1, SameByPlan DEF ByPlan

\* A step skipped has a step before it that was: with no failure and no plan
\* that depends on itself, there is no first one.
LEMMA NoneSkipped ==
    ASSUME EngineAssumption, NEW h, \A s \in Steps : h.step[s].st = "skipped" => Barred(h, s),
           \A s \in Steps : h.step[s].st \notin {"failed", "cancelled"}
    PROVE  \A s \in Steps : h.step[s].st # "skipped"
<1>1. PICK rank \in [Steps -> DOMAIN Order] :
         \A s \in Steps : \A d \in DependsOn[s] : rank[d] < rank[s]
  BY DEF EngineAssumption
<1>2. \A s \in Steps : DependsOn[s] \subseteq Steps
  BY DEF EngineAssumption
<1>3. \A s \in Steps : rank[s] \in Nat
  <2>1. Len(Order) \in Nat /\ DOMAIN Order = 1..Len(Order)
    BY OrderTyped
  <2> QED
    BY <1>1, <2>1
<1> DEFINE skipped == {s \in Steps : h.step[s].st = "skipped"}
           ranks == {rank[s] : s \in skipped}
<1> SUFFICES ASSUME skipped # {} PROVE FALSE
  OBVIOUS
<1>4. ranks \in SUBSET Nat /\ ranks # {}
  BY <1>3
<1>5. PICK x \in ranks : \A y \in ranks : x <= y
  <2> HIDE DEF ranks
  <2> QED
    BY <1>4, LeastExists
<1>6. PICK s \in skipped : x = rank[s]
  OBVIOUS
<1>7. PICK d \in DependsOn[s] : h.step[d].st = "skipped"
  <2>1. Barred(h, s)
    BY <1>6
  <2>2. PICK d \in DependsOn[s] : h.step[d].st \in {"failed", "skipped", "cancelled"}
    BY <2>1 DEF Barred
  <2>3. d \in Steps
    BY <1>2, <1>6
  <2> QED
    BY <2>2, <2>3
<1>8. d \in skipped
  BY <1>2, <1>6, <1>7
<1>9. rank[d] < rank[s] /\ rank[s] <= rank[d]
  BY <1>1, <1>5, <1>6, <1>8
<1> QED
  BY <1>3, <1>6, <1>8, <1>9

LEMMA ByPlanRight ==
    ASSUME EngineAssumption, ByPlan
    PROVE  FinishedRight
<1> SUFFICES ASSUME ~led
             PROVE  /\ run.st = "completed" => \A s \in Steps : step[s].st = "succeeded"
                    /\ run.st \in {"completed", "failed"} =>
                         \A s \in Steps : step[s].st \in Settled
  BY DEF FinishedRight
<1>1. RunsByPlan(Host) /\ Host.run = run /\ Host.step = step
  BY HostIs DEF ByPlan
<1>2. run.st \in {"completed", "failed"} => \A s \in Steps : step[s].st \in Settled
  BY <1>1 DEF RunsByPlan
<1>3. ASSUME run.st = "completed" PROVE \A s \in Steps : step[s].st = "succeeded"
  <2>1. \A s \in Steps : Host.step[s].st \notin {"failed", "cancelled"}
    BY <1>1, <1>3 DEF RunsByPlan
  <2>2. \A s \in Steps : Host.step[s].st # "skipped"
    BY <1>1, <2>1, NoneSkipped DEF RunsByPlan
  <2> QED
    BY <1>1, <1>2, <1>3, <2>1, <2>2 DEF Settled
<1> QED
  BY <1>2, <1>3

\* The end of tickRun, with what leads up to it: whatever the reports, the
\* reconciliation, the persons and the crashes make of it, a run without a lead
\* is completed only with every step's work done, and neither completed nor
\* failed with work still going on as part of it.
THEOREM RunFinishesRight == Spec => []FinishedRight
<1>1. EngineAssumption
  BY EngineAssumption
<1>2. Init => ByPlan
  BY InitByPlan
<1>3. TypeOK /\ ByPlan /\ [Next]_vars => ByPlan'
  <2> SUFFICES ASSUME TypeOK, ByPlan, [Next]_vars PROVE ByPlan'
    OBVIOUS
  <2>1. CASE Next
    BY <1>1, <2>1, NextIs, HandlerByPlan, LinkByPlan, NodeByPlan
  <2>2. CASE UNCHANGED vars
    <3>1. led' = led /\ run' = run /\ step' = step
      BY <2>2 DEF vars
    <3> QED
      BY <3>1, SameByPlan DEF ByPlan
  <2> QED
    BY <2>1, <2>2
<1>4. ByPlan => FinishedRight
  BY <1>1, ByPlanRight
<1> QED
  BY <1>2, <1>3, <1>4, TypeCorrect, PTL DEF Spec

-----------------------------------------------------------------------------
(* One worker at a time has the checkout                                   *)

\* Nothing overtakes a dispatch or comes of an earlier one after it: no session
\* is resumed at a reconnect and no message of a person's is put to one, the Host
\* does not close the socket, no inventory is taken while a launch is on its way,
\* a refusal to stop is not heard, and a deadline or a follow-up waits until
\* all is heard of the dispatch before.
OneAtATime ==
    /\ ~AutoResume
    /\ Hazards \cap {"message", "hang-up", "stale beat", "refusal", "late answer",
                     "early lead"} = {}

AtWork(st) == st \notin Terminal \cup {"none"}
Launch(c) == c.type \in {"start", "resume"}
CallsOff(c) == c.type \in {"stop", "cancel"}
Finishes(e) == e.type \in Terminal \cup {"fatal"}

\* The step has no worker, or its attempt has not been given to the one it has.
Unsent(a) == ~a.bound \/ (a.st = "pending" /\ ~a.sent)

\* What a worker's process p, its row's state st, its step a, and the events u
\* and commands d on their way say of each other.  A row is live as long as a
\* process is there or will be; a launch is the first thing its process is
\* told; the end of a process is the last thing it tells, but for refusals;
\* and nothing is left of earlier prompts when the next attempt is to go out.
Told(p, st, a, u, d) ==
    /\ p # "none" => AtWork(st)
    /\ \A i \in DOMAIN d : Launch(d[i]) =>
          /\ AtWork(st) /\ p = "none"
          /\ \A j \in DOMAIN d : j < i => CallsOff(d[j])
    /\ \A i \in DOMAIN u : Finishes(u[i]) =>
          /\ p = "none" /\ \A j \in DOMAIN d : ~Launch(d[j])
          /\ \A j \in DOMAIN u : i < j => u[j].type = "fatal"
    /\ ~AtWork(st) => \A i \in DOMAIN u : u[i].type = "fatal"
    /\ Unsent(a) => /\ \A i \in DOMAIN d : d[i].type # "prompt"
                    /\ \A i \in DOMAIN u : u[i].type # "fatal"
    /\ a.st = "none" => ~a.bound

LEMMA CommandsAre ==
    ASSUME NEW d \in Seq(CommandType), NEW i \in DOMAIN d
    PROVE  d[i].type = "prompt" \/ Launch(d[i]) \/ CallsOff(d[i])
<1>1. d[i] \in CommandType
  OBVIOUS
<1> QED
  BY <1>1 DEF CommandType, CommandTypes, Launch, CallsOff

\* The rows change, but not whether the worker is live or the attempt out.
LEMMA ToldRows ==
    ASSUME NEW p, NEW st, NEW a, NEW u, NEW d, Told(p, st, a, u, d),
           NEW st1, NEW a1, AtWork(st1) <=> AtWork(st), Unsent(a1) => Unsent(a),
           a1.st = "none" => ~a1.bound
    PROVE  Told(p, st1, a1, u, d)
BY DEF Told

LEMMA OlderIs ==
    ASSUME NEW u \in Seq(EventType)
    PROVE  /\ DOMAIN Older(u) = DOMAIN u
           /\ \A i \in DOMAIN u : Older(u)[i].type = u[i].type
<1>1. \A i \in DOMAIN u : u[i] \in EventType
  OBVIOUS
<1> QED
  BY <1>1 DEF Older, EventType

LEMMA ToldOlder ==
    ASSUME NEW p, NEW st, NEW a, NEW u \in Seq(EventType), NEW d, Told(p, st, a, u, d)
    PROVE  Told(p, st, a, Older(u), d)
<1> DEFINE v == Older(u)
<1>1. DOMAIN v = DOMAIN u /\ \A i \in DOMAIN u : v[i].type = u[i].type
  BY OlderIs
<1> HIDE DEF v
<1>2. \A i \in DOMAIN u : Finishes(v[i]) <=> Finishes(u[i])
  BY <1>1 DEF Finishes
<1> QED
  BY <1>1, <1>2 DEF Told, v

LEMMA ToldCalledOff ==
    ASSUME NEW p, NEW st, NEW a, NEW u, NEW d \in Seq(CommandType), Told(p, st, a, u, d),
           NEW c \in CommandType, CallsOff(c)
    PROVE  Told(p, st, a, u, Append(d, c))
<1> DEFINE n == Len(d)
           e == Append(d, c)
<1>1. /\ n \in Nat /\ DOMAIN d = 1..n /\ DOMAIN e = 1..(n + 1)
      /\ \A i \in 1..(n + 1) : e[i] = IF i = n + 1 THEN c ELSE d[i]
  BY AppendIs
<1> HIDE DEF n, e
<1>2. ~Launch(c) /\ c.type # "prompt"
  BY DEF CallsOff, Launch
<1>3. \A i \in 1..(n + 1) : i # n + 1 => i \in DOMAIN d /\ e[i] = d[i]
  BY <1>1
<1>4. \A i \in DOMAIN e : Launch(e[i]) => i \in DOMAIN d /\ Launch(d[i])
  BY <1>1, <1>2, <1>3
<1>5. \A i \in DOMAIN e : e[i].type = "prompt" => i \in DOMAIN d /\ d[i].type = "prompt"
  BY <1>1, <1>2, <1>3
<1>6. \A i \in DOMAIN d, j \in DOMAIN e : j < i => j \in DOMAIN d /\ e[j] = d[j]
  BY <1>1
<1> QED
  BY <1>4, <1>5, <1>6 DEF Told, e

\* A prompt goes to a live worker.
LEMMA ToldPrompted ==
    ASSUME NEW p, NEW st, NEW a, NEW u, NEW d \in Seq(CommandType), Told(p, st, a, u, d),
           ~Unsent(a), NEW c \in CommandType, c.type = "prompt"
    PROVE  Told(p, st, a, u, Append(d, c))
<1> DEFINE n == Len(d)
           e == Append(d, c)
<1>1. /\ n \in Nat /\ DOMAIN d = 1..n /\ DOMAIN e = 1..(n + 1)
      /\ \A i \in 1..(n + 1) : e[i] = IF i = n + 1 THEN c ELSE d[i]
  BY AppendIs
<1> HIDE DEF n, e
<1>2. ~Launch(c)
  BY DEF Launch
<1>3. \A i \in 1..(n + 1) : i # n + 1 => i \in DOMAIN d /\ e[i] = d[i]
  BY <1>1
<1>4. \A i \in DOMAIN e : Launch(e[i]) => i \in DOMAIN d /\ Launch(d[i])
  BY <1>1, <1>2, <1>3
<1>6. \A i \in DOMAIN d, j \in DOMAIN e : j < i => j \in DOMAIN d /\ e[j] = d[j]
  BY <1>1
<1> QED
  BY <1>4, <1>6 DEF Told, e

\* A worker that is not live is taken up for an attempt that has not gone out.
LEMMA ToldTakenUp ==
    ASSUME NEW p, NEW st, NEW a, NEW u \in Seq(EventType), NEW d, Told(p, st, a, u, d),
           ~AtWork(st), Unsent(a), NEW st1, NEW a1, AtWork(st1), ~Unsent(a1),
           a1.st # "none"
    PROVE  Told(p, st1, a1, Older(u), d)
<1>1. \A i \in DOMAIN u : FALSE
  BY DEF Told
<1>2. DOMAIN Older(u) = DOMAIN u
  BY OlderIs
<1>3. p = "none" /\ \A i \in DOMAIN d : ~Launch(d[i])
  BY DEF Told
<1> QED
  BY <1>1, <1>2, <1>3 DEF Told

LEMMA ToldLaunched ==
    ASSUME NEW p, NEW st, NEW a, NEW u \in Seq(EventType), NEW d \in Seq(CommandType),
           Told(p, st, a, u, d), ~AtWork(st), Unsent(a),
           NEW st1, NEW a1, AtWork(st1), ~Unsent(a1), a1.st # "none",
           NEW c \in CommandType, Launch(c)
    PROVE  Told(p, st1, a1, Older(u), Append(d, c))
<1> DEFINE n == Len(d)
           e == Append(d, c)
<1>1. /\ n \in Nat /\ DOMAIN d = 1..n /\ DOMAIN e = 1..(n + 1)
      /\ \A i \in 1..(n + 1) : e[i] = IF i = n + 1 THEN c ELSE d[i]
  BY AppendIs
<1>2. \A i \in DOMAIN d : CallsOff(d[i])
  BY CommandsAre DEF Told
<1>3. \A i \in DOMAIN u : FALSE
  BY DEF Told
<1>4. DOMAIN Older(u) = DOMAIN u
  BY OlderIs
<1>5. p = "none"
  BY DEF Told
<1> HIDE DEF n, e
<1>6. \A i, j \in DOMAIN e : j < i => j \in DOMAIN d /\ e[j] = d[j]
  BY <1>1
<1> QED
  BY <1>2, <1>3, <1>4, <1>5, <1>6 DEF Told, e

LEMMA TailAt ==
    ASSUME NEW S, NEW q \in Seq(S), q # <<>>
    PROVE  /\ Head(q) = q[1] /\ 1 \in DOMAIN q /\ Tail(q) \in Seq(S)
           /\ \A i \in DOMAIN Tail(q) : /\ Tail(q)[i] = q[i + 1] /\ i + 1 \in DOMAIN q
                                        /\ 1 < i + 1
           /\ \A i, j \in DOMAIN Tail(q) : i < j <=> i + 1 < j + 1
<1> DEFINE n == Len(q)
           r == Tail(q)
<1>1. n \in Nat /\ n # 0 /\ DOMAIN q = 1..n /\ Head(q) = q[1]
  OBVIOUS
<1>2. r \in Seq(S) /\ Len(r) = n - 1 /\ DOMAIN r = 1..Len(r)
  OBVIOUS
<1>3. \A i \in 1..(n - 1) : r[i] = q[i + 1]
  OBVIOUS
<1> HIDE DEF n, r
<1> QED
  BY <1>1, <1>2, <1>3 DEF r

\* An event is heard; if it is the end of the process, the row may end.
LEMMA ToldHeard ==
    ASSUME NEW p, NEW st, NEW a, NEW u \in Seq(EventType), NEW d, Told(p, st, a, u, d),
           u # <<>>, NEW st1,
           \/ AtWork(st1) <=> AtWork(st)
           \/ ~AtWork(st1) /\ Finishes(Head(u))
    PROVE  Told(p, st1, a, Tail(u), d)
<1> DEFINE v == Tail(u)
<1>1. /\ Head(u) = u[1] /\ 1 \in DOMAIN u
      /\ \A i \in DOMAIN v : v[i] = u[i + 1] /\ i + 1 \in DOMAIN u /\ 1 < i + 1
      /\ \A i, j \in DOMAIN v : i < j <=> i + 1 < j + 1
  BY TailAt
<1> HIDE DEF v
<1>2. /\ \A i \in DOMAIN v : Finishes(v[i]) =>
            /\ p = "none" /\ \A j \in DOMAIN d : ~Launch(d[j])
            /\ \A j \in DOMAIN v : i < j => v[j].type = "fatal"
      /\ ~AtWork(st) => \A i \in DOMAIN v : v[i].type = "fatal"
      /\ Unsent(a) => \A i \in DOMAIN v : v[i].type # "fatal"
  BY <1>1 DEF Told
<1>3. CASE AtWork(st1) <=> AtWork(st)
  BY <1>2, <1>3 DEF Told, v
<1>4. CASE ~AtWork(st1) /\ Finishes(Head(u))
  <2>1. /\ p = "none" /\ \A j \in DOMAIN d : ~Launch(d[j])
        /\ \A i \in DOMAIN v : v[i].type = "fatal"
    BY <1>1, <1>4 DEF Told
  <2> QED
    BY <1>2, <1>4, <2>1 DEF Told, v
<1> QED
  BY <1>3, <1>4

\* Of its events the Node keeps all but the refusals, and less of its commands.
LEMMA JournalOrder ==
    ASSUME NEW u \in Seq(EventType)
    PROVE  LET v == Journal(u)
           IN  /\ \A i \in DOMAIN v : \E k \in DOMAIN u : v[i] = u[k] /\ u[k].type # "fatal"
               /\ \A i, j \in DOMAIN v : i < j =>
                     \E k, l \in DOMAIN u : k < l /\ v[i] = u[k] /\ v[j] = u[l]
<1> DEFINE n == Len(u)
<1>0. n \in Nat /\ DOMAIN u = 1..n /\ \A i \in 1..n : u[i] \in EventType
  OBVIOUS
<1>1. PICK f \in [0..n -> Seq(EventType)] :
         /\ f[0] = <<>> /\ Journal(u) = f[n]
         /\ \A i \in 1..n : f[i] = IF u[i].type = "fatal" THEN f[i - 1]
                                   ELSE Append(f[i - 1], u[i])
  BY JournalIs
<1> DEFINE Kept(v, D) ==
             /\ \A i \in DOMAIN v : \E k \in D : v[i] = u[k] /\ u[k].type # "fatal"
             /\ \A i, j \in DOMAIN v : i < j =>
                   \E k, l \in D : k < l /\ v[i] = u[k] /\ v[j] = u[l]
           S == {m \in 0..n : Kept(f[m], 1..m)}
<1> HIDE DEF n
<1>2. 0 \in S
  <2>1. DOMAIN <<>> = {}
    OBVIOUS
  <2>2. 0 \in 0..n
    BY <1>0
  <2> QED
    BY <1>1, <2>1, <2>2
<1>3. ASSUME NEW m \in 1..n, m - 1 \in S PROVE m \in S
  <2>1. /\ m - 1 \in 0..n /\ m \in 0..n /\ m \in Nat
        /\ \A k \in 1..(m - 1) : k \in 1..m /\ k < m
    BY <1>0
  <2> DEFINE w == f[m - 1]
             x == Append(w, u[m])
  <2>2. Kept(w, 1..(m - 1))
    BY <1>3
  <2>0. w \in Seq(EventType) /\ u[m] \in EventType
    BY <1>0, <2>1
  <2>3. CASE u[m].type = "fatal"
    <3>1. f[m] = w
      BY <1>1, <2>3
    <3> HIDE DEF w
    <3>2. Kept(w, 1..m)
      BY <2>1, <2>2, SMTT(60)
    <3> QED
      BY <2>1, <3>1, <3>2
  <2>4. CASE u[m].type # "fatal"
    <3>1. f[m] = x
      BY <1>1, <2>4
    <3> DEFINE q == Len(w)
    <3> HIDE DEF w
    <3>2. /\ q \in Nat /\ DOMAIN w = 1..q /\ DOMAIN x = 1..(q + 1)
          /\ \A i \in 1..(q + 1) : x[i] = IF i = q + 1 THEN u[m] ELSE w[i]
      BY <2>0, AppendIs
    <3> HIDE DEF q, x
    <3>3. \A i \in DOMAIN x : i # q + 1 => i \in DOMAIN w /\ x[i] = w[i]
      BY <3>2
    <3>3a. m \in 1..m
      BY <2>1
    <3>4. \A i \in DOMAIN x : \E k \in 1..m : x[i] = u[k] /\ u[k].type # "fatal"
      <4> TAKE i \in DOMAIN x
      <4>1. CASE i = q + 1
        <5>1. x[i] = u[m]
          BY <3>2, <4>1
        <5> QED
          BY <2>4, <3>3a, <5>1
      <4>2. CASE i # q + 1
        <5>1. i \in DOMAIN w /\ x[i] = w[i]
          BY <3>3, <4>2
        <5>2. PICK k \in 1..(m - 1) : w[i] = u[k] /\ u[k].type # "fatal"
          BY <2>2, <5>1
        <5> QED
          BY <2>1, <5>1, <5>2
      <4> QED
        BY <4>1, <4>2
    <3>5. ASSUME NEW i \in DOMAIN x, NEW j \in DOMAIN x, i < j
          PROVE  \E k, l \in 1..m : k < l /\ x[i] = u[k] /\ x[j] = u[l]
      <4>1. i # q + 1
        BY <3>2, <3>5
      <4>2. i \in DOMAIN w /\ x[i] = w[i]
        BY <3>3, <4>1
      <4>3. CASE j = q + 1
        <5>1. x[j] = u[m]
          BY <3>2, <4>3
        <5>2. PICK k \in 1..(m - 1) : w[i] = u[k]
          BY <2>2, <4>2
        <5> QED
          BY <2>1, <3>3a, <4>2, <5>1, <5>2
      <4>4. CASE j # q + 1
        <5>1. j \in DOMAIN w /\ x[j] = w[j]
          BY <3>3, <4>4
        <5>2. PICK k \in 1..(m - 1), l \in 1..(m - 1) : k < l /\ w[i] = u[k] /\ w[j] = u[l]
          BY <2>2, <3>5, <4>2, <5>1
        <5> QED
          BY <2>1, <4>2, <5>1, <5>2
      <4> QED
        BY <4>3, <4>4
    <3>6. Kept(x, 1..m)
      BY <3>4, <3>5
    <3> QED
      BY <2>1, <3>1, <3>6
  <2> QED
    BY <2>3, <2>4
<1> HIDE DEF S
<1>4. 0..n \subseteq S
  <2>1. S \subseteq 0..n
    BY DEF S
  <2> QED
    BY <1>0, <1>2, <1>3, <2>1, UpTo
<1>5. Kept(f[n], 1..n)
  BY <1>0, <1>4 DEF S
<1> HIDE DEF Kept
<1>6. Kept(Journal(u), DOMAIN u)
  BY <1>0, <1>1, <1>5
<1> QED
  BY <1>6 DEF Kept

LEMMA ToldSevered ==
    ASSUME NEW p, NEW st, NEW a, NEW u \in Seq(EventType), NEW d, Told(p, st, a, u, d),
           NEW st1, AtWork(st1) <=> AtWork(st), NEW e \in {d, <<>>}
    PROVE  Told(p, st1, a, Journal(u), e)
<1> DEFINE v == Journal(u)
<1>1. /\ \A i \in DOMAIN v : \E k \in DOMAIN u : v[i] = u[k] /\ u[k].type # "fatal"
      /\ \A i, j \in DOMAIN v : i < j =>
            \E k, l \in DOMAIN u : k < l /\ v[i] = u[k] /\ v[j] = u[l]
  BY JournalOrder
<1> HIDE DEF v
<1>2. DOMAIN <<>> = {}
  OBVIOUS
<1>3. \A j \in DOMAIN e : j \in DOMAIN d /\ e[j] = d[j]
  BY <1>2
<1>4. \A i \in DOMAIN v : Finishes(v[i]) =>
         /\ p = "none" /\ \A j \in DOMAIN d : ~Launch(d[j])
         /\ \A j \in DOMAIN v : i < j => v[j].type = "fatal"
  <2> SUFFICES ASSUME NEW i \in DOMAIN v, Finishes(v[i])
               PROVE  /\ p = "none" /\ \A j \in DOMAIN d : ~Launch(d[j])
                      /\ \A j \in DOMAIN v : i < j => v[j].type = "fatal"
    OBVIOUS
  <2>1. p = "none" /\ \A j \in DOMAIN d : ~Launch(d[j])
    BY <1>1 DEF Told
  <2>2. ASSUME NEW j \in DOMAIN v, i < j PROVE v[j].type = "fatal"
    <3>1. PICK k \in DOMAIN u, l \in DOMAIN u : k < l /\ v[i] = u[k] /\ v[j] = u[l]
      BY <1>1, <2>2
    <3> QED
      BY <3>1 DEF Told
  <2> QED
    BY <2>1, <2>2
<1>5. ~AtWork(st) => \A i \in DOMAIN v : v[i].type = "fatal"
  BY <1>1 DEF Told
<1>6. \A i \in DOMAIN v : v[i].type # "fatal"
  BY <1>1
<1>7. \A i \in DOMAIN e : Launch(e[i]) =>
         /\ AtWork(st) /\ p = "none"
         /\ \A j \in DOMAIN e : j < i => CallsOff(e[j])
  BY <1>3 DEF Told
<1>8. /\ p # "none" => AtWork(st)
      /\ Unsent(a) => \A i \in DOMAIN e : e[i].type # "prompt"
      /\ a.st = "none" => ~a.bound
  BY <1>3 DEF Told
<1> QED
  BY <1>3, <1>4, <1>5, <1>6, <1>7, <1>8 DEF Told, v

-----------------------------------------------------------------------------
(* What the Node makes of it                                               *)

\* What a process says, if it was there and is still: nothing of an end.
LEMMA SaysMore ==
    ASSUME NEW u \in Seq(EventType), NEW w \in Seq(EventType)
    PROVE  /\ \A i \in DOMAIN u : i \in DOMAIN (u \o w) /\ (u \o w)[i] = u[i]
           /\ \A i \in DOMAIN (u \o w) :
                 \/ i \in DOMAIN u /\ (u \o w)[i] = u[i]
                 \/ /\ \E k \in DOMAIN w : (u \o w)[i] = w[k]
                    /\ \A j \in DOMAIN u : j < i
           /\ Len(w) = 1 => \A i, j \in DOMAIN (u \o w) :
                 i < j => i \in DOMAIN u
<1> DEFINE n == Len(u)
           m == Len(w)
           x == u \o w
<1>1. /\ n \in Nat /\ m \in Nat /\ DOMAIN u = 1..n /\ DOMAIN w = 1..m
      /\ x \in Seq(EventType) /\ Len(x) = n + m
      /\ \A i \in 1..(n + m) : x[i] = IF i <= n THEN u[i] ELSE w[i - n]
  BY ConcatProperties
<1>2. DOMAIN x = 1..(n + m)
  BY <1>1
<1> HIDE DEF n, m, x
<1>3. \A i \in 1..(n + m) : i > n => i - n \in 1..m
  BY <1>1
<1>4. ASSUME NEW i \in DOMAIN x
      PROVE  \/ i \in DOMAIN u /\ x[i] = u[i]
             \/ (\E k \in DOMAIN w : x[i] = w[k]) /\ \A j \in DOMAIN u : j < i
  <2>1. CASE i <= n
    BY <1>1, <1>2, <2>1
  <2>2. CASE ~(i <= n)
    <3>1. i \in 1..(n + m) /\ i > n
      BY <1>1, <1>2, <2>2
    <3>2. x[i] = w[i - n] /\ i - n \in DOMAIN w
      BY <1>1, <1>3, <2>2, <3>1
    <3>3. \A j \in DOMAIN u : j < i
      BY <1>1, <3>1
    <3> QED
      BY <3>2, <3>3
  <2> QED
    BY <2>1, <2>2
<1>5. \A i \in DOMAIN u : i \in DOMAIN x /\ x[i] = u[i]
  BY <1>1, <1>2
<1>6. ASSUME m = 1, NEW i \in DOMAIN x, NEW j \in DOMAIN x, i < j PROVE i \in DOMAIN u
  BY <1>1, <1>2, <1>6
<1> QED
  BY <1>4, <1>5, <1>6 DEF x, m

LEMMA LessIs ==
    ASSUME NEW d \in Seq(CommandType), NEW e, e = d \/ (d # <<>> /\ e = Tail(d))
    PROVE  \A j \in DOMAIN e : \E i \in DOMAIN d : e[j] = d[i]
<1>1. CASE e = d
  BY <1>1
<1>2. CASE d # <<>> /\ e = Tail(d)
  <2>1. \A i \in DOMAIN Tail(d) : Tail(d)[i] = d[i + 1] /\ i + 1 \in DOMAIN d
    BY <1>2, TailAt
  <2> QED
    BY <1>2, <2>1
<1> QED
  BY <1>1, <1>2

\* The process goes on, and is through with a command or not.
LEMMA ToldGoesOn ==
    ASSUME NEW p, NEW st, NEW a, NEW u \in Seq(EventType), NEW d \in Seq(CommandType),
           Told(p, st, a, u, d), p # "none", NEW p1, p1 # "none",
           NEW w \in Seq(EventType), \A i \in DOMAIN w : ~Finishes(w[i]),
           NEW e, e = d \/ (d # <<>> /\ e = Tail(d))
    PROVE  Told(p1, st, a, u \o w, e)
<1>1. \A j \in DOMAIN e : \E i \in DOMAIN d : e[j] = d[i]
  BY LessIs
<1>2. \A i \in DOMAIN (u \o w) :
         (\E k \in DOMAIN u : (u \o w)[i] = u[k]) \/ (\E k \in DOMAIN w : (u \o w)[i] = w[k])
  BY SaysMore
<1>3. \A i \in DOMAIN (u \o w) : ~Finishes((u \o w)[i])
  BY <1>2 DEF Told
<1>4. \A x : ~Finishes(x) => x.type # "fatal"
  BY DEF Finishes
<1>5. \A i \in DOMAIN d : ~Launch(d[i])
  BY DEF Told
<1> QED
  BY <1>1, <1>3, <1>4, <1>5 DEF Told

\* The process ends.
LEMMA ToldEnds ==
    ASSUME NEW p, NEW st, NEW a, NEW u \in Seq(EventType), NEW d \in Seq(CommandType),
           Told(p, st, a, u, d), p # "none",
           NEW w \in Seq(EventType), Len(w) = 1, w[1].type # "fatal",
           NEW e, e = d \/ (d # <<>> /\ e = Tail(d))
    PROVE  Told("none", st, a, u \o w, e)
<1>1. \A j \in DOMAIN e : \E i \in DOMAIN d : e[j] = d[i]
  BY LessIs
<1>2. \A i, j \in DOMAIN (u \o w) : i < j => i \in DOMAIN u /\ (u \o w)[i] = u[i]
  BY SaysMore
<1>3. \A i \in DOMAIN u : ~Finishes(u[i])
  BY DEF Told
<1>4. \A i, j \in DOMAIN (u \o w) : Finishes((u \o w)[i]) => ~(i < j)
  BY <1>2, <1>3
<1>5. \A i \in DOMAIN d : ~Launch(d[i])
  BY DEF Told
<1>6. DOMAIN w = {1}
  OBVIOUS
<1>7. \A i \in DOMAIN (u \o w) :
         (\E k \in DOMAIN u : (u \o w)[i] = u[k]) \/ (u \o w)[i] = w[1]
  BY <1>6, SaysMore
<1>8. Unsent(a) => \A i \in DOMAIN (u \o w) : (u \o w)[i].type # "fatal"
  BY <1>7 DEF Told
<1>9. AtWork(st)
  BY DEF Told
<1> QED
  BY <1>1, <1>4, <1>5, <1>8, <1>9 DEF Told

\* There is no process, and what was sent to it is dropped.
LEMMA ToldDropped ==
    ASSUME NEW p, NEW st, NEW a, NEW u, NEW d \in Seq(CommandType), Told(p, st, a, u, d),
           d # <<>>
    PROVE  Told(p, st, a, u, Tail(d))
<1> DEFINE e == Tail(d)
<1>1. /\ \A i \in DOMAIN e : e[i] = d[i + 1] /\ i + 1 \in DOMAIN d
      /\ \A i, j \in DOMAIN e : i < j <=> i + 1 < j + 1
  BY TailAt
<1> HIDE DEF e
<1>2. \A i \in DOMAIN e : Launch(e[i]) =>
         AtWork(st) /\ p = "none" /\ \A j \in DOMAIN e : j < i => CallsOff(e[j])
  BY <1>1 DEF Told
<1>3. (\A j \in DOMAIN d : ~Launch(d[j])) => \A j \in DOMAIN e : ~Launch(e[j])
  BY <1>1
<1>4. Unsent(a) => \A i \in DOMAIN e : e[i].type # "prompt"
  BY <1>1 DEF Told
<1> QED
  BY <1>2, <1>3, <1>4 DEF Told, e

\* A prompt for which there is no process may be refused.
LEMMA ToldRefused ==
    ASSUME NEW st, NEW a, NEW u \in Seq(EventType), NEW d \in Seq(CommandType),
           Told("none", st, a, u, d), d # <<>>, Head(d).type = "prompt",
           NEW w \in Seq(EventType), Len(w) = 1, w[1].type = "fatal"
    PROVE  Told("none", st, a, u \o w, Tail(d))
<1> DEFINE x == u \o w
<1>1. Told("none", st, a, u, Tail(d))
  BY ToldDropped
<1>2. /\ Head(d) = d[1] /\ 1 \in DOMAIN d
      /\ \A i \in DOMAIN Tail(d) : Tail(d)[i] = d[i + 1] /\ i + 1 \in DOMAIN d /\ 1 < i + 1
  BY TailAt
<1>3. ~Unsent(a) /\ ~CallsOff(d[1])
  BY <1>2 DEF Told, CallsOff
<1>4. \A j \in DOMAIN Tail(d) : ~Launch(Tail(d)[j])
  BY <1>2, <1>3 DEF Told
<1>5. DOMAIN w = {1}
  OBVIOUS
<1>6. /\ \A i \in DOMAIN x : (i \in DOMAIN u /\ x[i] = u[i]) \/ x[i] = w[1]
      /\ \A i, j \in DOMAIN x : i < j => i \in DOMAIN u /\ x[i] = u[i]
  BY <1>5, SaysMore
<1> HIDE DEF x
<1>7. \A i \in DOMAIN x : Finishes(x[i]) => \A j \in DOMAIN x : i < j => x[j].type = "fatal"
  BY <1>6 DEF Told
<1>8. ~AtWork(st) => \A i \in DOMAIN x : x[i].type = "fatal"
  BY <1>6 DEF Told
<1> QED
  BY <1>1, <1>3, <1>4, <1>7, <1>8 DEF Told, x

\* A launch is taken: the process is there, and everything else is over.
LEMMA ToldBoots ==
    ASSUME NEW p, NEW st, NEW a, NEW u \in Seq(EventType), NEW d \in Seq(CommandType),
           Told(p, st, a, u, d), d # <<>>, Launch(Head(d)), NEW p1,
           NEW w \in Seq(EventType), \A i \in DOMAIN w : ~Finishes(w[i])
    PROVE  p = "none" /\ Told(p1, st, a, u \o w, Tail(d))
<1>2. /\ Head(d) = d[1] /\ 1 \in DOMAIN d
      /\ \A i \in DOMAIN Tail(d) : Tail(d)[i] = d[i + 1] /\ i + 1 \in DOMAIN d /\ 1 < i + 1
  BY TailAt
<1>3. p = "none" /\ AtWork(st) /\ \A i \in DOMAIN u : ~Finishes(u[i])
  BY <1>2 DEF Told
<1>4. ~CallsOff(d[1])
  BY <1>2 DEF CallsOff, Launch
<1>5. \A j \in DOMAIN Tail(d) : ~Launch(Tail(d)[j])
  BY <1>2, <1>4 DEF Told
<1>6. \A i \in DOMAIN (u \o w) :
         (\E k \in DOMAIN u : (u \o w)[i] = u[k]) \/ (\E k \in DOMAIN w : (u \o w)[i] = w[k])
  BY SaysMore
<1>7. \A i \in DOMAIN (u \o w) : ~Finishes((u \o w)[i])
  BY <1>3, <1>6
<1>8. \A x : ~Finishes(x) => x.type # "fatal"
  BY DEF Finishes
<1>9. Unsent(a) => \A i \in DOMAIN Tail(d) : Tail(d)[i].type # "prompt"
  BY <1>2 DEF Told
<1> QED
  BY <1>3, <1>5, <1>7, <1>8, <1>9 DEF Told

\* What the Host h and the Node say of the worker of s.
ToldOf(h, s) == Told(agent[s].proc, h.sess[s].st, h.step[s], h.up[s], h.down[s])

\* One worker is live, no message waits for it, and without a link no row says
\* what its worker does.
OneLive(h) ==
    /\ \A s, o \in Steps : Live(h, s) /\ Live(h, o) => s = o
    /\ h.mail = {} /\ h.link # "closing"
    /\ h.link = "down" => \A s \in Steps : Live(h, s) => h.sess[s].st = "offline"

Exclusive(h) == OneLive(h) /\ \A s \in Steps : ToldOf(h, s)

\* Of s there is nothing new but that it is called off, if anything.
Leaves(h, g, s) ==
    /\ Live(g, s) <=> Live(h, s)
    /\ Unsent(g.step[s]) => Unsent(h.step[s])
    /\ g.step[s].st = "none" => ~g.step[s].bound
    /\ g.up[s] = h.up[s]
    /\ g.down[s] \in {h.down[s], Append(h.down[s], Command("stop", 0)),
                      Append(h.down[s], Command("cancel", 0))}

LEMMA LiveIs == \A h, s : Live(h, s) <=> AtWork(h.sess[s].st)
BY DEF Live, AtWork

LEMMA LeavesTold ==
    ASSUME EngineAssumption, NEW h \in HostType, NEW g, NEW s \in Steps, ToldOf(h, s),
           Leaves(h, g, s)
    PROVE  ToldOf(g, s)
<1> DEFINE p == agent[s].proc
<1>1. h.down[s] \in Seq(CommandType)
  BY HostAt
<1>2. Told(p, g.sess[s].st, g.step[s], g.up[s], h.down[s])
  BY LiveIs, ToldRows DEF ToldOf, Leaves
<1>3. \A type \in {"stop", "cancel"} :
         Command(type, 0) \in CommandType /\ CallsOff(Command(type, 0))
  BY Numbers DEF Command, CommandType, CommandTypes, CallsOff
<1>4. \A type \in {"stop", "cancel"} :
         Told(p, g.sess[s].st, g.step[s], g.up[s], Append(h.down[s], Command(type, 0)))
  BY <1>1, <1>2, <1>3, ToldCalledOff
<1>5. \/ g.down[s] = h.down[s]
      \/ \E type \in {"stop", "cancel"} : g.down[s] = Append(h.down[s], Command(type, 0))
  BY DEF Leaves
<1> QED
  BY <1>2, <1>4, <1>5 DEF ToldOf

\* The link and the rows' states are as they were.
LEMMA SteadyOneLive ==
    ASSUME NEW h, NEW g, OneLive(h), g.link = h.link, g.mail = h.mail,
           \A s \in Steps : g.sess[s].st = h.sess[s].st
    PROVE  OneLive(g)
<1>1. \A s \in Steps : Live(g, s) <=> Live(h, s)
  BY DEF Live
<1> QED
  BY <1>1 DEF OneLive

\* A row that is live, with the link there, when all others are not.
LEMMA AloneOneLive ==
    ASSUME NEW h, NEW g, OneLive(h), NEW s \in Steps, Only(h, g, s), g.mail = h.mail,
           h.link # "down", \A o \in Steps \ {s} : ~Live(h, o)
    PROVE  OneLive(g)
<1>1. \A o \in Steps \ {s} : ~Live(g, o)
  BY DEF Only, SameAt, Live
<1> QED
  BY <1>1 DEF OneLive, Only

LEMMA SameLeaves ==
    ASSUME NEW h, NEW g, NEW s \in Steps, SameAt(h, g, s), ToldOf(h, s)
    PROVE  ToldOf(g, s)
BY DEF SameAt, ToldOf

LEMMA OnlyExclusive ==
    ASSUME NEW h, NEW g, Exclusive(h), NEW s \in Steps, Only(h, g, s), OneLive(g), ToldOf(g, s)
    PROVE  Exclusive(g)
<1>1. \A o \in Steps \ {s} : ToldOf(g, o)
  BY SameLeaves DEF Only, Exclusive
<1> QED
  BY <1>1 DEF Exclusive

LEMMA LeavesExclusive ==
    ASSUME EngineAssumption, NEW h \in HostType, NEW g, Exclusive(h), OneLive(g),
           \A s \in Steps : Leaves(h, g, s)
    PROVE  Exclusive(g)
BY LeavesTold DEF Exclusive

-----------------------------------------------------------------------------
(* The moves, where the handlers begin, and the steps                      *)

\* What is judged, skipped or stopped leaves the workers as they are.
LEMMA JudgedExclusive ==
    ASSUME EngineAssumption, NEW h \in HostType, NEW g, Exclusive(h), NEW s \in Steps,
           Only(h, g, s), g.mail = h.mail, g.sess[s].st = h.sess[s].st,
           g.up[s] = h.up[s], g.down[s] = h.down[s],
           g.step[s].bound = h.step[s].bound,
           g.step[s].st \notin {"pending", "none"}
    PROVE  Exclusive(g)
<1>1. OneLive(g)
  <2>1. \A o \in Steps : g.sess[o].st = h.sess[o].st
    BY DEF Only, SameAt
  <2> QED
    BY <2>1, SteadyOneLive DEF Only, Exclusive
<1>2. Leaves(h, g, s)
  BY DEF Leaves, Live, Unsent
<1> QED
  BY <1>1, <1>2, LeavesTold, OnlyExclusive DEF Exclusive

LEMMA StoppedExclusive ==
    ASSUME EngineAssumption, NEW h \in HostType, NEW g, Exclusive(h), NEW s \in Steps,
           Only(h, g, s), Steady(h, g), g.step = h.step, g.mail = h.mail, g.up = h.up,
           g.down[s] \in {h.down[s], Append(h.down[s], Command("stop", 0)),
                          Append(h.down[s], Command("cancel", 0))}
    PROVE  Exclusive(g)
<1>1. OneLive(g)
  BY SteadyOneLive DEF Steady, Exclusive
<1>2. h.step[s].st = "none" => ~h.step[s].bound
  BY DEF Exclusive, ToldOf, Told
<1>3. Leaves(h, g, s)
  BY <1>2 DEF Leaves, Live, Steady
<1> QED
  BY <1>1, <1>3, LeavesTold, OnlyExclusive DEF Exclusive

\* A dispatch is of the only worker that is live, or will be.
LEMMA DispatchExclusive ==
    ASSUME EngineAssumption, NEW h \in HostType, NEW g \in HostType, NEW s \in Steps,
           Exclusive(h), Dispatches(h, s, g)
    PROVE  Exclusive(g)
<1> DEFINE p == agent[s].proc
           a == h.step[s]
           b == h.sess[s]
           u == h.up[s]
           d == h.down[s]
<1>1. PICK snap \in RunStates :
         \/ MayStart(h, s) /\ g \in ToSet(StartStep(h, s, snap))
         \/ MayPrompt(h, s) /\ g \in ToSet(PromptStep(h, s, snap))
         \/ MayResume(h, s) /\ g \in ToSet(ResumeStep(h, s))
  BY DEF Dispatches
<1>2. MayGo(h, s)
  BY <1>1 DEF MayStart, MayPrompt, MayResume
<1>3. h.link = "up" /\ Open(h) /\ \A o \in Steps \ {s} : ~Live(h, o)
  BY <1>2 DEF MayGo, Exclusive, OneLive, Open
<1>4. Only(h, g, s)
  BY DispatchesLeave
<1>5. /\ a \in StepType /\ b \in RowType /\ u \in Seq(EventType) /\ d \in Seq(CommandType)
      /\ Told(p, b.st, a, u, d)
  BY HostAt DEF Exclusive, ToldOf
<1>6. ASSUME g.mail = h.mail, ToldOf(g, s) PROVE Exclusive(g)
  <2>1. OneLive(g)
    BY <1>3, <1>4, <1>6, AloneOneLive DEF Exclusive
  <2> QED
    BY <1>4, <1>6, <2>1, OnlyExclusive
<1>7. /\ ~Unsent(BoundRow(a)) /\ BoundRow(a).st # "none"
      /\ Unsent(SentRow(a)) => ~a.bound
      /\ SentRow(a).st # "none" /\ PromptedRow(a).st # "none"
      /\ a.bound => ~Unsent(PromptedRow(a)) /\ ~Unsent(ResentRow(a))
      /\ ResentRow(a).st = a.st /\ a.st = "pending"
  <2>1. a.st = "pending"
    BY <1>2 DEF MayGo
  <2> QED
    BY <1>5, <2>1 DEF StepType, SentRow, BoundRow, PromptedRow, ResentRow, Unsent
<1> DEFINE queued == [b EXCEPT !.st = "queued"]
           starting == [b EXCEPT !.st = "starting"]
<1>8. /\ queued.st = "queued" /\ starting.st = "starting"
      /\ \A by : /\ Receipt(queued, by).st = "queued" /\ Receipt(starting, by).st = "starting"
                 /\ Receipt(b, by).st = b.st
      /\ AtWork("queued") /\ AtWork("starting")
  BY <1>5 DEF RowType, Receipt, AtWork, Terminal
<1>9. a.try \in 0..Session /\ 0 \in 0..Session
  BY <1>5, Numbers DEF StepType
<1>10. ASSUME NEW r, NEW y, NEW z, NEW m, NEW v, NEW w, Has(h, g, s, r, y, z, m, v, w)
       PROVE  /\ g.step[s] = y /\ g.sess[s] = z /\ g.up[s] = v /\ g.down[s] = w
              /\ g.mail = h.mail
  BY <1>10, HasRows
<1> HIDE DEF p, a, b, u, d, queued, starting
<1> DEFINE Rowed(y, z, w) ==
             /\ g.step[s] = y /\ g.sess[s] = z /\ g.up[s] = Older(u) /\ g.down[s] = w
             /\ g.mail = h.mail
<1>11. \A r, y, z, m, w : Has(h, g, s, r, y, z, m, Older(u), w) => Rowed(y, z, w)
  BY <1>10
<1> HIDE DEF Rowed
<1>12. ASSUME NEW y, NEW z, NEW w, Rowed(y, z, w), Told(p, z.st, y, Older(u), w)
       PROVE  Exclusive(g)
  BY <1>6, <1>12 DEF Rowed, ToldOf, p
<1>13. Told(p, b.st, a, Older(u), d)
  BY <1>5, ToldOlder
<1>14. CASE MayStart(h, s) /\ g \in ToSet(StartStep(h, s, snap))
  <2>1. LeftByStart(h, s, snap, g) /\ ~a.bound /\ ~AtWork(b.st) /\ Unsent(a)
    BY <1>14, StartStepLeaves, LiveIs DEF MayStart, Unsent, a, b
  <2> DEFINE c == Command("start", a.try)
  <2>2. c \in CommandType /\ Launch(c)
    BY <1>9 DEF Command, CommandType, CommandTypes, Launch
  <2>3. \/ Rowed(SentRow(a), b, d) \/ Rowed(BoundRow(a), queued, d)
        \/ Rowed(BoundRow(a), Receipt(queued, a.try), Append(d, c))
    BY <1>3, <1>11, <2>1 DEF LeftByStart, a, b, u, d, queued
  <2> HIDE DEF c
  <2>4. CASE Rowed(SentRow(a), b, d)
    <3>1. Told(p, b.st, SentRow(a), Older(u), d)
      <4>1. Unsent(SentRow(a)) => Unsent(a)
        BY <2>1
      <4> QED
        BY <1>7, <1>13, <4>1, ToldRows
    <3> QED
      BY <1>12, <2>4, <3>1
  <2>5. CASE Rowed(BoundRow(a), queued, d)
    <3>1. Told(p, queued.st, BoundRow(a), Older(u), d)
      BY <1>5, <1>7, <1>8, <2>1, ToldTakenUp
    <3> QED
      BY <1>12, <2>5, <3>1
  <2>6. CASE Rowed(BoundRow(a), Receipt(queued, a.try), Append(d, c))
    <3>1. Told(p, Receipt(queued, a.try).st, BoundRow(a), Older(u), Append(d, c))
      BY <1>5, <1>7, <1>8, <2>1, <2>2, ToldLaunched
    <3> QED
      BY <1>12, <2>6, <3>1
  <2> QED
    BY <2>3, <2>4, <2>5, <2>6
<1>15. CASE MayPrompt(h, s) /\ g \in ToSet(PromptStep(h, s, snap))
  <2>1. LeftByPrompt(h, s, snap, g) /\ a.bound
    BY <1>15, PromptStepLeaves DEF MayPrompt, a
  <2> DEFINE c == Command("prompt", a.try)
  <2>2. c \in CommandType /\ c.type = "prompt"
    BY <1>9 DEF Command, CommandType, CommandTypes
  <2>3. \/ Rowed(PromptedRow(a), b, d)
        \/ Rowed(PromptedRow(a), Receipt(b, a.try), Append(d, c))
    BY <1>3, <1>11, <2>1 DEF LeftByPrompt, a, b, u, d
  <2> HIDE DEF c
  <2>4. ~Unsent(PromptedRow(a))
    BY <1>7, <2>1
  <2>5. Told(p, b.st, PromptedRow(a), Older(u), d)
    BY <1>7, <1>13, <2>4, ToldRows
  <2>6. Told(p, b.st, PromptedRow(a), Older(u), Append(d, c))
    BY <1>5, <2>2, <2>4, <2>5, ToldPrompted
  <2>7. Told(p, Receipt(b, a.try).st, PromptedRow(a), Older(u), Append(d, c))
    BY <1>8, <2>6
  <2> QED
    BY <1>12, <2>3, <2>5, <2>7
<1>16. CASE MayResume(h, s) /\ g \in ToSet(ResumeStep(h, s))
  <2>1. LeftByResume(h, s, g) /\ a.bound /\ ~AtWork(b.st) /\ Unsent(a)
    BY <1>7, <1>16, ResumeStepLeaves DEF MayResume, Unsent, AtWork, a, b
  <2> DEFINE c == Command("resume", 0)
  <2>2. c \in CommandType /\ Launch(c)
    BY <1>9 DEF Command, CommandType, CommandTypes, Launch
  <2>3. \/ Rowed(ResentRow(a), b, d) \/ Rowed(ResentRow(a), starting, d)
        \/ \E by \in 0..Session : Rowed(ResentRow(a), Receipt(starting, by), Append(d, c))
    BY <1>3, <1>11, <2>1 DEF LeftByResume, a, b, u, d, starting
  <2> HIDE DEF c
  <2>4. ~Unsent(ResentRow(a)) /\ ResentRow(a).st # "none"
    BY <1>7, <2>1
  <2>5. CASE Rowed(ResentRow(a), b, d)
    <3>1. Told(p, b.st, ResentRow(a), Older(u), d)
      BY <1>13, <2>4, ToldRows
    <3> QED
      BY <1>12, <2>5, <3>1
  <2>6. CASE Rowed(ResentRow(a), starting, d)
    <3>1. Told(p, starting.st, ResentRow(a), Older(u), d)
      BY <1>5, <1>8, <2>1, <2>4, ToldTakenUp
    <3> QED
      BY <1>12, <2>6, <3>1
  <2>7. ASSUME NEW by \in 0..Session, Rowed(ResentRow(a), Receipt(starting, by), Append(d, c))
        PROVE  Exclusive(g)
    <3>1. Told(p, Receipt(starting, by).st, ResentRow(a), Older(u), Append(d, c))
      BY <1>5, <1>8, <2>1, <2>2, <2>4, ToldLaunched
    <3> QED
      BY <1>12, <2>7, <3>1
  <2> QED
    BY <2>3, <2>5, <2>6, <2>7
<1> QED
  BY <1>1, <1>14, <1>15, <1>16

LEMMA MovesExclusive ==
    ASSUME EngineAssumption, NEW h \in HostType, NEW g \in HostType, Exclusive(h), Moves(h, g)
    PROVE  Exclusive(g)
<1>1. ASSUME NEW s \in Steps, NEW st \in {"running", "skipped"}, g = [h EXCEPT !.step[s].st = st]
      PROVE  Exclusive(g)
  <2>0. g = WithSt(h, s, st)
    BY <1>1 DEF WithSt
  <2>1. /\ Only(h, g, s) /\ g.mail = h.mail /\ g.sess = h.sess /\ g.up = h.up
        /\ g.down = h.down /\ g.step[s].st = st /\ g.step[s].bound = h.step[s].bound
    BY <2>0, SetStGives
  <2> QED
    BY <2>1, JudgedExclusive
<1>2. ASSUME NEW s \in Steps, NEW to \in {"succeeded", "failed"}, g \in ToSet(Settle(h, s, to))
      PROVE  Exclusive(g)
  <2>1. Only(h, g, s)
    BY <1>2, SettleLeaves
  <2>2. /\ g.step[s].st = to /\ g.step[s].bound = h.step[s].bound
        /\ g.sess[s].st = h.sess[s].st /\ g.up = h.up /\ g.down = h.down /\ g.mail = h.mail
    BY <1>2, SettleRow
  <2> QED
    BY <2>1, <2>2, JudgedExclusive
<1>3. ASSUME NEW s \in Steps, g \in ToSet(StopSession(h, s)) PROVE Exclusive(g)
  <2>1. /\ Only(h, g, s) /\ Steady(h, g) /\ g.step = h.step /\ g.mail = h.mail /\ g.up = h.up
    BY <1>3, StopLeaves
  <2>2. g.down[s] \in {h.down[s], Append(h.down[s], Command("stop", 0))}
    BY <1>3, StopSends
  <2> QED
    BY <2>1, <2>2, StoppedExclusive
<1>4. ASSUME NEW s \in Steps, NEW type \in {"stop", "cancel"}, g = CallOff(h, s, type)
      PROVE  Exclusive(g)
  <2>5. LeftByCallOff(h, s, type, g)
    BY <1>4, CallOffLeaves
  <2>1. /\ Only(h, g, s) /\ Steady(h, g) /\ g.step = h.step /\ g.mail = h.mail /\ g.up = h.up
        /\ \/ g.down = h.down
           \/ g.down = [h.down EXCEPT ![s] = Append(h.down[s], Command(type, 0))]
    BY <2>5 DEF LeftByCallOff
  <2>2. g.down[s] \in {h.down[s], Append(h.down[s], Command("stop", 0)),
                       Append(h.down[s], Command("cancel", 0))}
    BY <2>1, HostParts
  <2> QED
    BY <2>1, <2>2, StoppedExclusive
<1>5. ASSUME NEW s \in Steps, Dispatches(h, s, g) PROVE Exclusive(g)
  BY <1>5, DispatchExclusive
<1>6. ASSUME NEW v, g = [h EXCEPT !.run.st = v] \/ g = [h EXCEPT !.run.owed = v]
      PROVE  Exclusive(g)
  <2>1. /\ g.step = h.step /\ g.down = h.down /\ g.sess = h.sess /\ g.up = h.up
        /\ g.link = h.link /\ g.mail = h.mail
    BY <1>6 DEF HostType
  <2> QED
    BY <2>1 DEF Exclusive, OneLive, ToldOf, Live
<1>7. ASSUME g = Pumped(h, Steps) PROVE Exclusive(g)
  <2>1. Pumpable(h, Steps) = {} /\ h.mail = {}
    BY DEF Pumpable, Exclusive, OneLive
  <2>2. /\ g.step = h.step /\ g.link = h.link /\ g.up = h.up
        /\ \A s \in Steps : g.sess[s] = h.sess[s] /\ g.down[s] = h.down[s]
    BY <1>7, <2>1, PumpedIs
  <2>3. g.mail = h.mail
    <3>1. h.mail \ Pumpable(h, Steps) = h.mail
      BY <2>1
    <3> QED
      BY <1>7, <3>1 DEF Pumped, HostType
  <2> QED
    BY <2>2, <2>3 DEF Exclusive, OneLive, ToldOf, Live
<1> QED
  BY <1>1, <1>2, <1>3, <1>4, <1>5, <1>6, <1>7 DEF Moves

\* What an event makes of the row and the step of its worker.
LEMMA HearsRows ==
    ASSUME EngineAssumption, NEW h \in HostType, NEW s \in Steps, NEW e \in EventType, NEW g,
           Hears(h, s, e, g)
    PROVE  /\ g.up = h.up /\ g.down = h.down /\ g.mail = h.mail /\ g.link = h.link
           /\ \A o \in Steps : /\ o # s => g.sess[o] = h.sess[o] /\ g.step[o] = h.step[o]
                               /\ g.step[o].bound = h.step[o].bound
                               /\ g.step[o].st = h.step[o].st
                               /\ g.step[o].sent = h.step[o].sent
           /\ \/ g.sess[s].st = h.sess[s].st
              \/ e.type = "fatal" /\ g.sess[s].st = "failed"
              \/ e.type \in States /\ g.sess[s].st = e.type
<1> DEFINE Rest(x, y) == /\ y.up = x.up /\ y.down = x.down /\ y.mail = x.mail
                         /\ y.link = x.link
           Texts(x, y) == \A o \in Steps : /\ o # s => y.step[o] = x.step[o]
                                           /\ y.step[o].bound = x.step[o].bound
                                           /\ y.step[o].st = x.step[o].st
                                           /\ y.step[o].sent = x.step[o].sent
           Others(x, y) == \A o \in Steps : o # s => y.sess[o] = x.sess[o]
<1>1. ASSUME NEW x \in HostType, NEW v, NEW y, y = [x EXCEPT !.step[s].text = v]
      PROVE  Rest(x, y) /\ Texts(x, y) /\ y.sess = x.sess
  <2> DEFINE row == [x.step[s] EXCEPT !.text = v]
  <2>1. x.step[s] \in StepType
    BY HostAt
  <2>2. row.st = x.step[s].st /\ row.bound = x.step[s].bound /\ row.sent = x.step[s].sent
    BY <2>1 DEF StepType
  <2>3. y = [x EXCEPT !.step[s] = row]
    BY <1>1 DEF HostType
  <2> HIDE DEF row
  <2>4. /\ Rest(x, y) /\ y.sess = x.sess
        /\ \A o \in Steps : y.step[o] = IF o = s THEN row ELSE x.step[o]
    BY <2>3 DEF HostType
  <2> QED
    BY <2>2, <2>4
<1>2. ASSUME NEW x \in HostType, NEW row, NEW y, y = [x EXCEPT !.sess[s] = row]
      PROVE  Rest(x, y) /\ y.step = x.step /\ Others(x, y) /\ y.sess[s] = row
  BY <1>2 DEF HostType
<1> DEFINE known == Known(h, s, e)
<1>3. h.sess[s] \in RowType
  BY HostAt
<1>4. /\ Rest(h, known) /\ known.step = h.step /\ Others(h, known)
      /\ known.sess[s].st = h.sess[s].st
  <2> DEFINE row == [h.sess[s] EXCEPT !.agent = h.sess[s].agent \/ e.type \in {"running", "idle"}]
  <2>1. row.st = h.sess[s].st
    BY <1>3 DEF RowType
  <2>2. known = [h EXCEPT !.sess[s] = row]
    BY DEF HostType, Known
  <2> HIDE DEF row
  <2> QED
    BY <1>2, <2>1, <2>2
<1>5. e.type \in States \cup {"turn"} => known \in HostType
  <2>1. e.type \in States \cup {"turn"} => Hears(h, s, e, known)
    BY DEF Hears
  <2> QED
    BY <2>1, HearsTyped
<1>6. Texted(h, s) = [h EXCEPT !.step[s].text = h.step[s].bound]
  BY DEF Texted
<1> HIDE DEF known
<1>7. CASE e.type = "text" /\ g = Texted(h, s)
  BY <1>1, <1>6, <1>7
<1>8. CASE e.type = "fatal" /\ g = Refused(h, s)
  <2> DEFINE x == [h EXCEPT !.sess[s].intent = "none"]
             b == [h.sess[s] EXCEPT !.intent = "none"]
  <2>1. x = [h EXCEPT !.sess[s] = b]
    BY DEF HostType
  <2>2. b \in RowType
    BY <1>3 DEF RowType
  <2>3. x \in HostType
    BY <2>1, <2>2, RowSet
  <2> HIDE DEF b
  <2>4. Rest(h, x) /\ x.step = h.step /\ Others(h, x) /\ x.sess[s] = b
    BY <2>1 DEF HostType
  <2> HIDE DEF x
  <2> DEFINE row == Taken(x, s, "failed")
  <2>5. g = [x EXCEPT !.sess[s] = row]
    BY <1>8 DEF Refused, Takes, x
  <2>6. row.st = "failed"
    BY <2>2, <2>4 DEF Taken, RowType
  <2> HIDE DEF row
  <2>7. Rest(x, g) /\ g.step = x.step /\ Others(x, g) /\ g.sess[s] = row
    BY <2>3, <2>5 DEF HostType
  <2> QED
    BY <1>8, <2>4, <2>6, <2>7
<1>9. CASE g = h
  BY <1>9
<1>10. CASE g = known
  BY <1>4, <1>10
<1>11. CASE e.type = "turn" /\ g = TurnOver(known, s)
  <2>1. known \in HostType /\ known.sess[s] \in RowType
    BY <1>5, <1>11, HostAt
  <2>2. PICK v, m : g = [known EXCEPT !.sess[s].done = v, !.memo[s] = m]
    BY <1>11 DEF TurnOver
  <2> DEFINE b == [known.sess[s] EXCEPT !.done = v]
  <2>3. g = [known EXCEPT !.sess[s] = b, !.memo[s] = m]
    BY <2>1, <2>2 DEF HostType
  <2>4. b.st = known.sess[s].st
    BY <2>1 DEF RowType
  <2> HIDE DEF b
  <2>5. Rest(known, g) /\ g.step = known.step /\ Others(known, g) /\ g.sess[s] = b
    BY <2>1, <2>3 DEF HostType
  <2> QED
    BY <1>4, <2>4, <2>5
<1>12. CASE e.type \in States /\ g = Moved(known, s, e)
  <2>1. known \in HostType /\ known.sess[s] \in RowType /\ known.step[s] \in StepType
    BY <1>5, <1>12, HostAt
  <2> DEFINE text == known.step[s].text /\ ~(e.type = "running" /\ Concerns(known, s))
             x == [known EXCEPT !.step[s].text = text]
             row == Taken(x, s, e.type)
             m == IF e.type \in {"starting", "running"} THEN 0 ELSE x.memo[s]
  <2>2. x \in HostType
    <3> DEFINE v == [known.step[s] EXCEPT !.text = text]
    <3>1. text \in BOOLEAN
      BY <2>1 DEF StepType
    <3>2. x = [known EXCEPT !.step[s] = v]
      BY <2>1 DEF HostType
    <3> HIDE DEF text, x
    <3>3. v \in StepType
      BY <2>1, <3>1 DEF StepType
    <3> HIDE DEF v
    <3> QED
      BY <2>1, <3>2, <3>3, StepSet
  <2>3. x = Begun(known, s, e)
    BY DEF Begun
  <2>4. Rest(known, x) /\ Texts(known, x) /\ x.sess = known.sess
    <3> HIDE DEF text, Rest, Texts
    <3> QED
      BY <1>1, <2>1
  <2> HIDE DEF x
  <2>5. x.sess[s] \in RowType
    BY <2>2, HostAt
  <2>6. row.st = e.type
    BY <2>5 DEF Taken, RowType
  <2>7. g = [[x EXCEPT !.sess[s] = row] EXCEPT !.memo[s] = m]
    BY <1>12, <2>2, <2>3 DEF Moved, Takes, HostType
  <2> HIDE DEF row, m, text
  <2>8. Rest(x, g) /\ g.step = x.step /\ Others(x, g) /\ g.sess[s] = row
    BY <2>2, <2>7 DEF HostType
  <2> QED
    BY <1>4, <1>12, <2>4, <2>6, <2>8
<1> QED
  BY <1>7, <1>8, <1>9, <1>10, <1>11, <1>12 DEF Hears, known

\* An event is heard: it leaves the worker live, or was the end of it.
LEMMA HearsExclusive ==
    ASSUME EngineAssumption, TypeOK, NEW s \in Steps, Receives(s), NEW g,
           Hears(Heard(s), s, Head(up[s]), g), Exclusive(Host)
    PROVE  Exclusive(g)
<1> DEFINE e == Head(up[s])
           x == Heard(s)
<1>1. Host \in HostType /\ x \in HostType /\ e \in EventType /\ up[s] # <<>> /\ link # "down"
  BY HostTyped, HeardTyped DEF Receives
<1>2. /\ x.step = Host.step /\ x.sess = Host.sess /\ x.down = Host.down /\ x.mail = Host.mail
      /\ x.link = Host.link /\ x.up[s] = Tail(Host.up[s])
      /\ \A o \in Steps : o # s => x.up[o] = Host.up[o]
  BY <1>1, HostIs DEF Heard, HostType
<1>3. Host.up[s] \in Seq(EventType) /\ Host.up[s] # <<>> /\ Head(Host.up[s]) = e
  BY <1>1, HostAt, HostIs
<1> HIDE DEF e, x
<1>4. /\ g.up = x.up /\ g.down = x.down /\ g.mail = x.mail /\ g.link = x.link
      /\ \A o \in Steps : /\ o # s => g.sess[o] = x.sess[o] /\ g.step[o] = x.step[o]
                          /\ g.step[o].bound = x.step[o].bound
                          /\ g.step[o].st = x.step[o].st
                          /\ g.step[o].sent = x.step[o].sent
      /\ \/ g.sess[s].st = x.sess[s].st
         \/ e.type = "fatal" /\ g.sess[s].st = "failed"
         \/ e.type \in States /\ g.sess[s].st = e.type
  BY <1>1, HearsRows DEF e, x
<1> DEFINE st == Host.sess[s].st
           to == g.sess[s].st
           a == Host.step[s]
           u == Host.up[s]
           d == Host.down[s]
           p == agent[s].proc
<1>5. Told(p, st, a, u, d)
  BY DEF Exclusive, ToldOf
<1>6. \/ AtWork(to) <=> AtWork(st)
      \/ ~AtWork(to) /\ Finishes(Head(u))
  <2>1. CASE to = st
    BY <2>1
  <2>2. CASE e.type = "fatal" /\ to = "failed"
    BY <1>3, <2>2 DEF AtWork, Terminal, Finishes
  <2>3. CASE e.type \in States /\ to = e.type
    <3>1. CASE to \in Terminal
      BY <1>3, <2>3, <3>1 DEF AtWork, Finishes
    <3>2. CASE to \notin Terminal
      <4>1. AtWork(to)
        BY <2>3, <3>2, StatesKnown DEF AtWork
      <4>2. AtWork(st)
        <5>1. Head(u) = u[1] /\ 1 \in DOMAIN u
          BY <1>3, TailAt
        <5>2. e.type # "fatal"
          BY <2>3 DEF States, Terminal
        <5> QED
          BY <1>3, <1>5, <5>1, <5>2 DEF Told
      <4> QED
        BY <4>1, <4>2
    <3> QED
      BY <3>1, <3>2
  <2> QED
    BY <1>2, <1>4, <2>1, <2>2, <2>3
<1> HIDE DEF st, to, a, u, d, p
<1>7. Told(p, to, a, Tail(u), d)
  BY <1>3, <1>5, <1>6, ToldHeard DEF u
<1>8. Told(p, to, g.step[s], Tail(u), d)
  <2>1. Unsent(g.step[s]) => Unsent(a)
    BY <1>2, <1>4 DEF Unsent, a
  <2>2. g.step[s].st = "none" => ~g.step[s].bound
    BY <1>2, <1>4, <1>5 DEF Told, a
  <2> QED
    BY <1>7, <2>1, <2>2, ToldRows
<1>9. ToldOf(g, s)
  BY <1>2, <1>4, <1>8 DEF ToldOf, p, to, u, d
<1>10. \A o \in Steps \ {s} : ToldOf(g, o)
  BY <1>2, <1>4 DEF Exclusive, ToldOf
<1>11. \A o \in Steps : Live(g, o) => Live(Host, o)
  <2>1. AtWork(to) => AtWork(st)
    BY <1>6
  <2>2. Live(g, s) => Live(Host, s)
    BY <2>1, LiveIs DEF to, st
  <2> QED
    BY <1>2, <1>4, <2>2 DEF Live
<1>12. OneLive(g)
  <2>1. g.link # "down" /\ g.link = Host.link /\ g.mail = Host.mail
    BY <1>1, <1>2, <1>4, HostIs
  <2> QED
    BY <1>11, <2>1 DEF OneLive, Exclusive
<1> QED
  BY <1>9, <1>10, <1>12 DEF Exclusive

\* The inventory is the word on a worker of which nothing is on its way.
LEMMA ToldSettled ==
    ASSUME NEW p, NEW st, NEW a, NEW u, NEW d, Told(p, st, a, u, d), u = <<>>,
           \A i \in DOMAIN d : ~Launch(d[i]), NEW st1, p # "none" => AtWork(st1)
    PROVE  Told(p, st1, a, u, d)
<1>1. DOMAIN u = {}
  OBVIOUS
<1> QED
  BY <1>1 DEF Told

LEMMA ReconciledExclusive ==
    ASSUME EngineAssumption, NEW h \in HostType, Exclusive(h), h.link = "up", NEW steps,
           \A s \in Unsettled(h, steps) :
              h.up[s] = <<>> /\ \A i \in DOMAIN h.down[s] : ~Launch(h.down[s][i])
    PROVE  Exclusive(Reconciled(h, steps))
<1> DEFINE g == Reconciled(h, steps)
           found == Unsettled(h, steps)
<1>1. /\ g.step = h.step /\ g.link = h.link /\ g.up = h.up
      /\ \A s \in Steps :
            /\ g.sess[s] = IF s \in found THEN FoundRow(h, s) ELSE h.sess[s]
            /\ g.down[s] \in {h.down[s], Append(h.down[s], Command("stop", 0))}
  BY ReconciledIs
<1>2. g.mail = h.mail
  BY DEF Reconciled, HostType
<1>3. \A s \in found : s \in Steps => Live(h, s)
  BY DEF Unsettled
<1>4. ASSUME NEW s \in Steps PROVE FoundRow(h, s).st = Settlement(h, s)
  <2>1. h.sess[s] \in RowType
    BY HostAt
  <2>2. Taken(h, s, Settlement(h, s)).st = Settlement(h, s)
    BY <2>1 DEF Taken, RowType
  <2> QED
    BY <2>2 DEF FoundRow, CalledOff, Taken
<1>5. \A s \in Steps : agent[s].proc # "none" => AtWork(Settlement(h, s))
  BY DEF Settlement, AtWork, Terminal
<1>6. \A s \in Steps : Live(g, s) => Live(h, s)
  BY <1>1, <1>3 DEF Live
<1> HIDE DEF g, found
<1>7. OneLive(g)
  BY <1>1, <1>2, <1>6 DEF OneLive, Exclusive
<1>8. ASSUME NEW s \in Steps PROVE ToldOf(g, s)
  <2> DEFINE d == h.down[s]
             p == agent[s].proc
             st == g.sess[s].st
  <2>1. Told(p, h.sess[s].st, h.step[s], h.up[s], d) /\ d \in Seq(CommandType)
    BY HostAt DEF Exclusive, ToldOf
  <2> HIDE DEF d, p, st
  <2>2. Told(p, st, h.step[s], h.up[s], d)
    <3>1. CASE s \in found
      <4>1. h.up[s] = <<>> /\ \A i \in DOMAIN d : ~Launch(d[i])
        BY <3>1 DEF found, d
      <4>2. p # "none" => AtWork(st)
        BY <1>1, <1>4, <1>5, <3>1 DEF p, st
      <4> QED
        BY <2>1, <4>1, <4>2, ToldSettled
    <3>2. CASE s \notin found
      BY <1>1, <2>1, <3>2 DEF st
    <3> QED
      BY <3>1, <3>2
  <2> DEFINE c == Command("stop", 0)
  <2>3. c \in CommandType /\ CallsOff(c)
    BY Numbers DEF Command, CommandType, CommandTypes, CallsOff
  <2>4. Told(p, st, h.step[s], h.up[s], Append(d, c))
    BY <2>1, <2>2, <2>3, ToldCalledOff
  <2>5. g.down[s] = d \/ g.down[s] = Append(d, c)
    BY <1>1 DEF d
  <2> QED
    BY <1>1, <2>2, <2>4, <2>5 DEF ToldOf, p, st
<1> QED
  BY <1>7, <1>8 DEF Exclusive, g

LEMMA BeatsExclusive ==
    ASSUME EngineAssumption, OneAtATime, TypeOK, Exclusive(Host), NEW s \in Steps, Beats(s)
    PROVE  Exclusive(Reconciled(Host, {s}))
<1>1. Host \in HostType
  BY HostTyped
<1>2. Host.link = "up" /\ Host.up[s] = <<>> /\ ~Launching(s)
  BY HostIs DEF Beats, OneAtATime
<1>3. \A i \in DOMAIN Host.down[s] : ~Launch(Host.down[s][i])
  BY <1>2, HostIs DEF Launching, Launch
<1>4. \A o \in Unsettled(Host, {s}) : o = s
  BY DEF Unsettled
<1> QED
  BY <1>1, <1>2, <1>3, <1>4, ReconciledExclusive

LEMMA FoundExclusive ==
    ASSUME EngineAssumption, OneAtATime, TypeOK, Exclusive(Host), Replayed
    PROVE  Exclusive(Found) /\ Exclusive(Revived(Found))
<1>1. Host \in HostType /\ Bare \in HostType /\ Found \in HostType
  BY HostTyped, BareTyped, ReconciledTyped DEF Found
<1>2. /\ Bare.step = Host.step /\ Bare.up = Host.up /\ Bare.down = Host.down
      /\ Bare.mail = Host.mail /\ Bare.link = "up"
      /\ \A s \in Steps : Bare.sess[s] = IF Live(Host, s) /\ agent[s].proc = "none"
                                         THEN [Host.sess[s] EXCEPT !.st = "offline"]
                                         ELSE Host.sess[s]
  BY <1>1 DEF Bare, HostType
<1>3. ASSUME NEW s \in Steps PROVE AtWork(Bare.sess[s].st) <=> AtWork(Host.sess[s].st)
  <2>1. Host.sess[s] \in RowType
    BY <1>1, HostAt
  <2>2. [Host.sess[s] EXCEPT !.st = "offline"].st = "offline"
    BY <2>1 DEF RowType
  <2>3. AtWork("offline")
    BY DEF AtWork, Terminal
  <2> QED
    BY <1>2, <2>2, <2>3, LiveIs
<1>4. \A s \in Steps : ToldOf(Bare, s)
  <2> TAKE s \in Steps
  <2>1. Told(agent[s].proc, Host.sess[s].st, Host.step[s], Host.up[s], Host.down[s])
    BY DEF Exclusive, ToldOf
  <2>2. Host.step[s].st = "none" => ~Host.step[s].bound
    BY <2>1 DEF Told
  <2>3. Told(agent[s].proc, Bare.sess[s].st, Host.step[s], Host.up[s], Host.down[s])
    BY <1>3, <2>1, <2>2, ToldRows
  <2> QED
    BY <1>2, <2>3 DEF ToldOf
<1>5. OneLive(Bare)
  BY <1>2, <1>3, LiveIs DEF OneLive, Exclusive
<1>6. \A s \in Steps : Bare.up[s] = <<>> /\ \A i \in DOMAIN Bare.down[s] : ~Launch(Bare.down[s][i])
  BY <1>2, HostIs DEF Replayed, Launching, Launch
<1>7. Unsettled(Bare, Steps) \subseteq Steps
  BY DEF Unsettled
<1>8. Exclusive(Found)
  BY <1>1, <1>2, <1>4, <1>5, <1>6, <1>7, ReconciledExclusive DEF Found, Exclusive
<1>9. Missing(Found) = {}
  BY DEF Missing, OneAtATime
<1>10. LET g == Revived(Found)
       IN  /\ g.step = Found.step /\ g.link = Found.link /\ g.up = Found.up
           /\ \A s \in Steps : g.sess[s] = Found.sess[s] /\ g.down[s] = Found.down[s]
  BY <1>1, <1>9, RevivedIs
<1>11. Revived(Found).mail = Found.mail
  <2> HIDE DEF Found
  <2> QED
    BY <1>1 DEF Revived, HostType
<1> QED
  BY <1>8, <1>10, <1>11 DEF Exclusive, OneLive, ToldOf, Live

LEMMA DecidedExclusive ==
    ASSUME EngineAssumption, TypeOK, Exclusive(Host), NEW g, Decided(g)
    PROVE  Exclusive(g)
<1>0. Host \in HostType
  BY HostTyped
<1>1. ASSUME NEW st, g = RunIs(st) PROVE Exclusive(g)
  <2>1. /\ g.step = Host.step /\ g.down = Host.down /\ g.sess = Host.sess /\ g.up = Host.up
        /\ g.link = Host.link /\ g.mail = Host.mail
    BY <1>0, <1>1 DEF RunIs, HostType
  <2> QED
    BY <2>1 DEF Exclusive, OneLive, ToldOf, Live
<1>2. CASE g = Called
  <2>1. /\ g.step = [s \in Steps |-> IF step[s].st \in Settled \cup {"none"}
                                     THEN Host.step[s]
                                     ELSE [Host.step[s] EXCEPT !.st = "cancelled"]]
        /\ g.down = Host.down /\ g.sess = Host.sess /\ g.up = Host.up
        /\ g.link = Host.link /\ g.mail = Host.mail
    BY <1>0, <1>2, HostIs DEF Called, RunIs, HostType
  <2>2. OneLive(g)
    BY <2>1, SteadyOneLive DEF Exclusive
  <2>3. ASSUME NEW s \in Steps PROVE Leaves(Host, g, s)
    <3> DEFINE a == Host.step[s]
               row == [a EXCEPT !.st = "cancelled"]
    <3>1. a \in StepType
      BY <1>0, HostAt
    <3>2. row.st = "cancelled" /\ row.sent = a.sent /\ row.bound = a.bound
      BY <3>1 DEF StepType
    <3>3. g.step[s] = a \/ g.step[s] = row
      BY <2>1
    <3>4. a.st = "none" => ~a.bound
      BY DEF Exclusive, ToldOf, Told
    <3> HIDE DEF row, a
    <3>5. Unsent(g.step[s]) => Unsent(a)
      BY <3>2, <3>3 DEF Unsent
    <3> QED
      BY <2>1, <3>2, <3>3, <3>4, <3>5 DEF Leaves, Live, a
  <2> QED
    BY <1>0, <2>2, <2>3, LeavesExclusive
<1> QED
  BY <1>1, <1>2 DEF Decided

LEMMA OrderedExclusive ==
    ASSUME EngineAssumption, OneAtATime, TypeOK, Exclusive(Host), NEW s \in Steps, NEW g,
           Ordered(s, g)
    PROVE  Exclusive(g)
<1>0. Host \in HostType
  BY HostTyped
<1>1. ASSUME NEW row, g = [Host EXCEPT !.step[s] = row],
             Told(agent[s].proc, Host.sess[s].st, row, Host.up[s], Host.down[s])
      PROVE  Exclusive(g)
  <2>1. /\ g.sess = Host.sess /\ g.down = Host.down /\ g.up = Host.up /\ g.mail = Host.mail
        /\ g.link = Host.link /\ g.step[s] = row
        /\ \A o \in Steps \ {s} : g.step[o] = Host.step[o]
    BY <1>0, <1>1 DEF HostType
  <2>2. OneLive(g)
    BY <2>1, SteadyOneLive DEF Exclusive
  <2> QED
    BY <1>1, <2>1, <2>2 DEF Exclusive, ToldOf
<1>2. Told(agent[s].proc, Host.sess[s].st, Host.step[s], Host.up[s], Host.down[s])
  BY DEF Exclusive, ToldOf
<1>3. CASE step[s].st = "none" /\ g = WorkStarted(s)
  <2>1. Unsent(Host.step[s])
    BY <1>2, <1>3, HostIs DEF Told, Unsent
  <2>2. NewStep.st # "none"
    BY DEF NewStep, NoStep
  <2>3. Told(agent[s].proc, Host.sess[s].st, NewStep, Host.up[s], Host.down[s])
    BY <1>2, <2>1, <2>2, ToldRows
  <2> QED
    BY <1>1, <1>3, <2>3 DEF WorkStarted
<1>4. CASE ~Astir(s) /\ g = Again(s)
  <2> DEFINE row == [NewStep EXCEPT !.try = step[s].try + 1, !.bound = TRUE]
  <2>1. row.st = "pending"
    BY DEF NewStep, NoStep
  <2>2. Host.up[s] = <<>> /\ Host.down[s] = <<>>
    BY <1>4, HostIs DEF Astir
  <2>3. DOMAIN <<>> = {}
    OBVIOUS
  <2>4. g = [Host EXCEPT !.step[s] = row]
    BY <1>4 DEF Again
  <2> HIDE DEF row
  <2>5. Told(agent[s].proc, Host.sess[s].st, row, Host.up[s], Host.down[s])
    BY <1>2, <2>1, <2>2, <2>3 DEF Told
  <2> QED
    BY <1>1, <2>4, <2>5
<1>5. CASE sess[s].st = "running" /\ g = Cancelling(s)
  <2> DEFINE row == [Host.sess[s] EXCEPT !.st = "cancelling"]
  <2>1. Host.sess[s] \in RowType
    BY <1>0, HostAt
  <2>2. row.st = "cancelling"
    BY <2>1 DEF RowType
  <2>3. g = [Host EXCEPT !.sess[s] = row]
    BY <1>0, <1>5 DEF Cancelling, HostType
  <2> HIDE DEF row
  <2>4. /\ g.step = Host.step /\ g.down = Host.down /\ g.up = Host.up /\ g.mail = Host.mail
        /\ g.link = Host.link /\ g.sess[s] = row
        /\ \A o \in Steps \ {s} : g.sess[o] = Host.sess[o]
    BY <1>0, <2>3 DEF HostType
  <2>5. Live(Host, s) /\ Live(g, s)
    BY <1>5, <2>2, <2>4, HostIs DEF Live, Terminal
  <2>6. Host.link # "down"
    BY <1>5, <2>5, HostIs DEF Exclusive, OneLive
  <2>7. \A o \in Steps : Live(g, o) <=> Live(Host, o)
    BY <2>4, <2>5 DEF Live
  <2>8. OneLive(g)
    BY <2>4, <2>6, <2>7 DEF OneLive, Exclusive
  <2>9. AtWork(row.st) /\ AtWork(Host.sess[s].st)
    BY <2>4, <2>5, LiveIs
  <2>10. Host.step[s].st = "none" => ~Host.step[s].bound
    BY <1>2 DEF Told
  <2>11. Told(agent[s].proc, row.st, Host.step[s], Host.up[s], Host.down[s])
    BY <1>2, <2>9, <2>10, ToldRows
  <2> QED
    BY <2>4, <2>8, <2>11 DEF Exclusive, ToldOf
<1>6. ~(sess[s].st = "running" /\ ~Open(Host))
  <2> SUFFICES ASSUME sess[s].st = "running", ~Open(Host) PROVE FALSE
    OBVIOUS
  <2>1. Live(Host, s) /\ Host.sess[s].st # "offline"
    BY HostIs DEF Live, Terminal
  <2>2. Host.link \in {"up", "syncing", "closing", "down"}
    BY <1>0, HostParts
  <2> QED
    BY <2>1, <2>2 DEF Exclusive, OneLive, Open
<1>7. "message" \notin Hazards /\ "late answer" \notin Hazards /\ "early lead" \notin Hazards
  BY DEF OneAtATime
<1> QED
  BY <1>3, <1>4, <1>5, <1>6, <1>7 DEF Ordered

LEMMA BeginsExclusive ==
    ASSUME EngineAssumption, OneAtATime, TypeOK, Exclusive(Host), NEW g, Begins(g)
    PROVE  Exclusive(g)
BY HearsExclusive, BeatsExclusive, FoundExclusive, DecidedExclusive, OrderedExclusive
   DEF Begins

ExclusiveHosts == {h \in HostType : Exclusive(h)}

LEMMA ExclusiveHeld ==
    ASSUME EngineAssumption, OneAtATime, TypeOK, Exclusive(Host)
    PROVE  HoldsAll(ExclusiveHosts)
<1>1. \A h \in ExclusiveHosts, g \in HostType : Moves(h, g) => g \in ExclusiveHosts
  BY MovesExclusive DEF ExclusiveHosts
<1>2. \A g \in HostType : Begins(g) => g \in ExclusiveHosts
  BY BeginsExclusive DEF ExclusiveHosts
<1>3. ExclusiveHosts \in SUBSET HostType
  BY DEF ExclusiveHosts
<1> QED
  BY <1>1, <1>2, <1>3 DEF HoldsAll, ClosedUnderMoves

\* The Host that is left when the link goes, with the processes or without.
LEMMA SeveredExclusive ==
    ASSUME EngineAssumption, NEW h \in HostType, Exclusive(h), NEW kept, Severed(h, kept),
           memo' \in [Steps -> 0..Session],
           agent' = agent \/ agent' = [s \in Steps |-> NoAgent]
    PROVE  Exclusive(Host)'
<1>1. /\ step' = h.step /\ mail' = h.mail /\ link' = "down"
      /\ \A s \in Steps :
            /\ sess'[s] = IF Live(h, s) THEN [h.sess[s] EXCEPT !.st = "offline"]
                          ELSE h.sess[s]
            /\ up'[s] = Journal(h.up[s])
            /\ down'[s] = IF s \in kept THEN h.down[s] ELSE <<>>
  BY SeveredIs
<1>2. ASSUME NEW s \in Steps
      PROVE  /\ AtWork(sess'[s].st) <=> AtWork(h.sess[s].st)
             /\ AtWork(sess'[s].st) => sess'[s].st = "offline"
  <2>1. h.sess[s] \in RowType
    BY HostAt
  <2>2. [h.sess[s] EXCEPT !.st = "offline"].st = "offline"
    BY <2>1 DEF RowType
  <2>3. AtWork("offline")
    BY DEF AtWork, Terminal
  <2> QED
    BY <1>1, <2>2, <2>3, LiveIs
<1>3. /\ (Host').step = step' /\ (Host').sess = sess' /\ (Host').mail = mail'
      /\ (Host').link = link' /\ (Host').up = up' /\ (Host').down = down'
  BY DEF Host
<1>4. ASSUME NEW s \in Steps
      PROVE  Told(agent'[s].proc, sess'[s].st, step'[s], up'[s], down'[s])
  <2> DEFINE p == agent[s].proc
             st == h.sess[s].st
             a == h.step[s]
             u == h.up[s]
             d == h.down[s]
             e == down'[s]
             st1 == sess'[s].st
             p1 == agent'[s].proc
  <2>1. Told(p, st, a, u, d) /\ u \in Seq(EventType)
    BY HostAt DEF Exclusive, ToldOf
  <2>2. (AtWork(st1) <=> AtWork(st)) /\ e \in {d, <<>>}
    BY <1>1, <1>2
  <2>3. step'[s] = a /\ up'[s] = Journal(u)
    BY <1>1
  <2>4. p1 = p \/ p1 = "none"
    BY DEF NoAgent
  <2> HIDE DEF p, st, a, u, d, e, st1, p1
  <2>5. Told(p, st1, a, Journal(u), e)
    BY <2>1, <2>2, ToldSevered
  <2>6. Told(p1, st1, a, Journal(u), e)
    BY <2>4, <2>5 DEF Told
  <2> QED
    BY <2>3, <2>6 DEF p1, st1, e
<1>5. (\A s \in Steps : ToldOf(Host, s))'
  BY <1>3, <1>4 DEF ToldOf
<1>6. \A s \in Steps : AtWork((Host').sess[s].st) <=> Live(h, s)
  BY <1>2, <1>3, LiveIs
<1>7. OneLive(Host)'
  <2>1. \A s \in Steps : Live(Host', s) <=> Live(h, s)
    BY <1>6, LiveIs
  <2>2. \A s \in Steps : Live(Host', s) => (Host').sess[s].st = "offline"
    BY <1>2, <1>3, LiveIs
  <2>3. OneLive(Host')
    BY <1>1, <1>3, <2>1, <2>2 DEF OneLive, Exclusive
  <2> QED
    BY <2>3
<1> QED
  BY <1>5, <1>7 DEF Exclusive

LEMMA HandlerExclusive ==
    ASSUME EngineAssumption, OneAtATime, TypeOK, Exclusive(Host), Handler
    PROVE  Exclusive(Host)'
<1>1. NodeOK
  BY TypeIs
<1>2. PICK g \in ExclusiveHosts : Reaches(g)
  BY ExclusiveHeld, HandlerReaches
<1>3. g \in HostType /\ Exclusive(g)
  BY DEF ExclusiveHosts
<1>4. agent' = agent
  BY <1>1, HandlerLeaves
<1>5. CASE Becomes(g)
  <2>1. Host' = g
    BY <1>3, <1>5, BecomesIs
  <2> QED
    BY <1>3, <1>4, <2>1 DEF Exclusive, OneLive, ToldOf, Live
<1>6. CASE Dies(g)
  <2>1. PICK kept \in SUBSET {s \in Steps : g.down[s] # <<>>} : Severed(g, kept)
    BY <1>6 DEF Dies
  <2>2. memo' \in [Steps -> 0..Session]
    BY <1>6, NoMemo DEF Dies
  <2> QED
    BY <1>3, <1>4, <2>1, <2>2, SeveredExclusive
<1> QED
  BY <1>2, <1>5, <1>6 DEF Reaches

LEMMA LinkExclusive ==
    ASSUME EngineAssumption, OneAtATime, TypeOK, Exclusive(Host),
           Reconnect \/ Break \/ HostRestart \/ NodeRestart \/ HangsUp
    PROVE  Exclusive(Host)'
<1>0. Host \in HostType
  BY HostTyped
<1>1. ~HangsUp
  BY DEF HangsUp, OneAtATime
<1>2. CASE Reconnect
  <2>1. /\ step' = step /\ sess' = sess /\ up' = up /\ down' = down /\ mail' = mail
        /\ agent' = agent /\ link' = "syncing"
    BY <1>2 DEF Reconnect, nodeVars
  <2>2. /\ (Host').step = Host.step /\ (Host').sess = Host.sess /\ (Host').mail = Host.mail
        /\ (Host').link = "syncing" /\ (Host').up = Host.up /\ (Host').down = Host.down
    BY <2>1 DEF Host
  <2>3. (\A s \in Steps : ToldOf(Host, s))'
    BY <2>1, <2>2 DEF Exclusive, ToldOf
  <2>4. OneLive(Host')
    BY <2>2 DEF Exclusive, OneLive, Live
  <2> QED
    BY <2>3, <2>4 DEF Exclusive
<1>3. CASE Break \/ HostRestart \/ NodeRestart
  <2>1. /\ \E kept : Severed(Host, kept)
        /\ agent' = agent \/ agent' = [s \in Steps |-> NoAgent]
    BY <1>3 DEF Break, HostRestart, NodeRestart, Dies, HostOnly, nodeVars
  <2>2. memo' \in [Steps -> 0..Session]
    <3>1. TypeOK'
      BY <1>3, LinkLeaves
    <3> QED
      BY <3>1 DEF TypeOK
  <2> QED
    BY <1>0, <2>1, <2>2, SeveredExclusive
<1> QED
  BY <1>1, <1>2, <1>3

\* What a worker tells, spelled out.
LEMMA SaysIs ==
    ASSUME TypeOK, NEW s \in Steps, NEW types \in Seq(EventTypes), Reports(s, types)
    PROVE  \E w \in Seq(EventType) :
              /\ up'[s] = up[s] \o w /\ \A o \in Steps \ {s} : up'[o] = up[o]
              /\ \/ Len(w) = Len(types) /\ \A i \in DOMAIN w : w[i].type = types[i]
                 \/ types = <<"fatal">> /\ w = <<>>
<1> DEFINE sent == IF link = "down" /\ types = <<"fatal">> THEN <<>> ELSE types
           said == [i \in DOMAIN sent |-> [type |-> sent[i], late |-> FALSE]]
<1>1. sent \in Seq(EventTypes)
  OBVIOUS
<1>2. up' = [up EXCEPT ![s] = @ \o said]
  BY DEF Reports
<1>0. sent = types \/ (types = <<"fatal">> /\ sent = <<>>)
  OBVIOUS
<1> HIDE DEF sent
<1>3. /\ said \in Seq(EventType) /\ Len(said) = Len(sent)
      /\ \A i \in DOMAIN said : said[i].type = sent[i]
  <2>1. DOMAIN sent = 1..Len(sent) /\ Len(sent) \in Nat
        /\ \A i \in 1..Len(sent) : sent[i] \in EventTypes
    BY <1>1
  <2>2. said \in [1..Len(sent) -> EventType]
    BY <2>1 DEF EventType
  <2> QED
    BY <2>1, <2>2
<1>4. up \in [Steps -> Seq(EventType)]
  BY DEF TypeOK, EventType
<1> HIDE DEF said
<1>5. up'[s] = up[s] \o said /\ \A o \in Steps \ {s} : up'[o] = up[o]
  BY <1>2, <1>4
<1>6. sent = <<>> => said = <<>>
  BY <1>3
<1> QED
  BY <1>0, <1>3, <1>5, <1>6

\* The Node's part of the state of a worker.
ToldNow(s) == Told(agent[s].proc, sess[s].st, step[s], up[s], down[s])

LEMMA NodeTold ==
    ASSUME EngineAssumption, OneAtATime, TypeOK, NEW s \in Steps, NodeActs(s), ToldNow(s)
    PROVE  /\ \A o \in Steps \ {s} : up'[o] = up[o]
           /\ Told(agent'[s].proc, sess[s].st, step[s], up'[s], down'[s])
<1> DEFINE p == agent[s].proc
           p1 == agent'[s].proc
           st == sess[s].st
           a == step[s]
           u == up[s]
           v == up'[s]
           d == down[s]
           e == down'[s]
           Others == \A o \in Steps \ {s} : up'[o] = up[o]
           Fine == Others /\ Told(p1, st, a, v, e)
<1>0. /\ u \in Seq(EventType) /\ d \in Seq(CommandType) /\ Told(p, st, a, u, d)
      /\ p \in {"none", "booting", "idle", "turn"}
      /\ agent \in [Steps -> AgentType] /\ down \in [Steps -> Seq(CommandType)]
  BY DEF TypeOK, EventType, CommandType, AgentType, ToldNow
<1>1. ASSUME NEW types, Pops(s, types)
      PROVE  d # <<>> /\ e = Tail(d) /\ Head(d).type \in types /\ p # "booting"
  BY <1>0, <1>1 DEF Pops
<1>2. \A proc, job : Becoming(s, proc, job) => p1 = proc
  BY <1>0 DEF Becoming
<1>3. agent' = [agent EXCEPT ![s] = NoAgent] => p1 = "none"
  BY <1>0 DEF NoAgent
<1>4. agent' = agent => p1 = p
  OBVIOUS
<1>5. down' = down => e = d
  OBVIOUS
<1>6. {"starting", "running", "idle", "turn", "text", "stopped", "failed", "fatal"}
         \subseteq EventTypes
  BY DEF EventTypes, States, Terminal
<1>7. \A types \in Seq(EventTypes) : Reports(s, types) =>
         \E w \in Seq(EventType) :
              /\ v = u \o w /\ Others
              /\ \/ Len(w) = Len(types) /\ \A i \in DOMAIN w : w[i].type = types[i]
                 \/ types = <<"fatal">> /\ w = <<>>
  BY SaysIs
<1>8. Refusal = <<>> /\ <<>> \in Seq(EventTypes) /\ u \o <<>> = u
  <2>1. Refusal = <<>>
    BY DEF Refusal, OneAtATime
  <2>2. \A x \in Seq(EventType) : x \o <<>> = x
    OBVIOUS
  <2>3. u \o <<>> = u
    BY <1>0, <2>2
  <2> QED
    BY <2>1, <2>3
<1>9. \A x \in {"starting", "running", "idle", "turn", "text"} :
         \A y : y.type = x => ~Finishes(y)
  BY DEF Finishes, Terminal
<1> SUFFICES Fine
  OBVIOUS
<1> HIDE DEF p, p1, st, a, u, v, d, e, Others
\* It says nothing, one thing that is not its end, or its end.
<1>10. ASSUME Reports(s, <<>>) PROVE v = u /\ Others
  <2>1. PICK w \in Seq(EventType) : v = u \o w /\ Others /\ Len(w) = 0
    <3>1. PICK w \in Seq(EventType) :
              /\ v = u \o w /\ Others
              /\ \/ Len(w) = Len(<<>>) /\ \A i \in DOMAIN w : w[i].type = <<>>[i]
                 \/ <<>> = <<"fatal">> /\ w = <<>>
      BY <1>7, <1>8, <1>10
    <3> QED
      BY <3>1
  <2>2. w = <<>>
    BY <2>1
  <2> QED
    BY <1>8, <2>1, <2>2
<1>11. ASSUME NEW x \in {"starting", "running", "idle", "text"}, Reports(s, <<x>>)
       PROVE  \E w \in Seq(EventType) : v = u \o w /\ Others /\ \A i \in DOMAIN w : ~Finishes(w[i])
  <2>1. <<x>> \in Seq(EventTypes) /\ <<x>> # <<"fatal">> /\ Len(<<x>>) = 1
    BY <1>6
  <2>2. PICK w \in Seq(EventType) :
           v = u \o w /\ Others /\ Len(w) = 1 /\ \A i \in DOMAIN w : w[i].type = <<x>>[i]
    BY <1>7, <1>11, <2>1
  <2>3. \A i \in DOMAIN w : w[i].type = x
    <3>1. DOMAIN w = {1}
      BY <2>2
    <3> QED
      BY <2>2, <3>1
  <2> QED
    BY <1>9, <2>2, <2>3
<1>12. ASSUME Reports(s, <<"turn", "idle">>)
       PROVE  \E w \in Seq(EventType) : v = u \o w /\ Others /\ \A i \in DOMAIN w : ~Finishes(w[i])
  <2> DEFINE types == <<"turn", "idle">>
  <2>1. types \in Seq(EventTypes) /\ Len(types) = 2 /\ types[1] = "turn" /\ types[2] = "idle"
    BY <1>6
  <2>0. Reports(s, types) /\ types # <<"fatal">>
    BY <1>12
  <2> HIDE DEF types
  <2>2. PICK w \in Seq(EventType) :
           v = u \o w /\ Others /\ Len(w) = 2 /\ \A i \in DOMAIN w : w[i].type = types[i]
    BY <1>7, <2>0, <2>1
  <2>3. DOMAIN w = {1, 2}
    BY <2>2
  <2> QED
    BY <1>9, <2>1, <2>2, <2>3
<1>13. ASSUME NEW x \in {"stopped", "failed"}, Reports(s, <<x>>)
       PROVE  \E w \in Seq(EventType) :
                 v = u \o w /\ Others /\ Len(w) = 1 /\ w[1].type # "fatal"
  <2>1. <<x>> \in Seq(EventTypes) /\ <<x>> # <<"fatal">> /\ Len(<<x>>) = 1
    BY <1>6
  <2>2. PICK w \in Seq(EventType) :
           v = u \o w /\ Others /\ Len(w) = 1 /\ \A i \in DOMAIN w : w[i].type = <<x>>[i]
    BY <1>7, <1>13, <2>1
  <2>3. DOMAIN w = {1}
    BY <2>2
  <2>4. w[1].type = x
    BY <2>2, <2>3
  <2> QED
    BY <2>2, <2>4
<1>14. ASSUME p # "none", p1 # "none",
              \E w \in Seq(EventType) :
                 v = u \o w /\ Others /\ \A i \in DOMAIN w : ~Finishes(w[i]),
              e = d \/ (d # <<>> /\ e = Tail(d))
       PROVE  Fine
  <2>1. PICK w \in Seq(EventType) : v = u \o w /\ Others /\ \A i \in DOMAIN w : ~Finishes(w[i])
    BY <1>14
  <2> QED
    BY <1>0, <1>14, <2>1, ToldGoesOn
<1>15. ASSUME p # "none", p1 = "none",
              \E w \in Seq(EventType) :
                 v = u \o w /\ Others /\ Len(w) = 1 /\ w[1].type # "fatal",
              e = d \/ (d # <<>> /\ e = Tail(d))
       PROVE  Fine
  <2>1. PICK w \in Seq(EventType) : v = u \o w /\ Others /\ Len(w) = 1 /\ w[1].type # "fatal"
    BY <1>15
  <2>2. Told("none", st, a, u \o w, e)
    BY <1>0, <1>15, <2>1, ToldEnds
  <2> QED
    BY <1>15, <2>1, <2>2
<1>16. ASSUME d # <<>>, e = Tail(d), p1 = p, v = u, Others PROVE Fine
  BY <1>0, <1>16, ToldDropped
<1>17. CASE TakeLaunch(s)
  <2>1. d # <<>> /\ e = Tail(d) /\ Launch(Head(d))
    BY <1>1, <1>17 DEF TakeLaunch, Launch
  <2>2. p = "none"
    <3>1. <<>> \in Seq(EventType) /\ DOMAIN <<>> = {}
      OBVIOUS
    <3>2. \A i \in DOMAIN <<>> : ~Finishes(<<>>[i])
      BY <3>1
    <3> QED
      BY <1>0, <2>1, <3>1, <3>2, ToldBoots
  <2>3. Reports(s, <<"starting">>)
    BY <1>17, <2>2 DEF TakeLaunch, p
  <2>4. PICK w \in Seq(EventType) : v = u \o w /\ Others /\ \A i \in DOMAIN w : ~Finishes(w[i])
    BY <1>11, <2>3
  <2> QED
    BY <1>0, <2>1, <2>4, ToldBoots
<1>18. CASE TakePrompt(s)
  <2>1. d # <<>> /\ e = Tail(d) /\ Head(d).type = "prompt"
    BY <1>1, <1>18 DEF TakePrompt
  <2>2. CASE p = "none"
    <3>1. Reports(s, <<"fatal">>) /\ p1 = "none"
      BY <1>4, <1>18, <2>2 DEF TakePrompt, p
    <3>2. PICK w \in Seq(EventType) :
              /\ v = u \o w /\ Others
              /\ \/ Len(w) = Len(<<"fatal">>) /\ \A i \in DOMAIN w : w[i].type = <<"fatal">>[i]
                 \/ <<"fatal">> = <<"fatal">> /\ w = <<>>
      <4>1. <<"fatal">> \in Seq(EventTypes)
        BY <1>6
      <4> QED
        BY <1>7, <3>1, <4>1
    <3>3. CASE w = <<>>
      BY <1>8, <1>16, <2>1, <2>2, <3>1, <3>2, <3>3
    <3>4. CASE Len(w) = Len(<<"fatal">>) /\ \A i \in DOMAIN w : w[i].type = <<"fatal">>[i]
      <4>1. Len(w) = 1 /\ DOMAIN w = {1}
        BY <3>4
      <4>2. w[1].type = "fatal"
        BY <3>4, <4>1
      <4> QED
        BY <1>0, <2>1, <2>2, <3>1, <3>2, <4>1, <4>2, ToldRefused
    <3> QED
      BY <3>2, <3>3, <3>4
  <2>3. CASE p # "none"
    <3>1. Reports(s, <<"running">>) /\ (p1 = p \/ p1 = "turn")
      BY <1>2, <1>4, <1>18, <2>3 DEF TakePrompt, p
    <3> QED
      BY <1>11, <1>14, <2>1, <2>3, <3>1
  <2> QED
    BY <2>2, <2>3
<1>19. CASE TakeStop(s)
  <2>1. d # <<>> /\ e = Tail(d)
    BY <1>1, <1>19 DEF TakeStop
  <2>2. CASE p = "none"
    <3>1. Reports(s, <<>>) /\ p1 = p
      BY <1>4, <1>8, <1>19, <2>2 DEF TakeStop, p
    <3> QED
      BY <1>10, <1>16, <2>1, <3>1
  <2>3. CASE p # "none"
    <3>1. (Reports(s, <<"stopped">>) \/ Reports(s, <<"failed">>)) /\ p1 = "none"
      BY <1>3, <1>19, <2>3 DEF TakeStop, p
    <3> QED
      BY <1>13, <1>15, <2>1, <2>3, <3>1
  <2> QED
    BY <2>2, <2>3
<1>20. CASE TakeCancel(s)
  <2>1. d # <<>> /\ e = Tail(d)
    BY <1>1, <1>20 DEF TakeCancel
  <2>2. \/ p # "none" /\ p1 # "none" /\ Reports(s, <<"idle">>)
        \/ p1 = p /\ Reports(s, <<>>)
    BY <1>2, <1>4, <1>8, <1>20 DEF TakeCancel, p
  <2>3. CASE p1 = p /\ Reports(s, <<>>)
    BY <1>10, <1>16, <2>1, <2>3
  <2> QED
    BY <1>11, <1>14, <2>1, <2>2, <2>3
<1>21. CASE Boot(s)
  <2>1. p # "none" /\ p1 # "none" /\ e = d
    BY <1>2, <1>5, <1>21 DEF Boot, p
  <2>2. Reports(s, <<"idle">>) \/ Reports(s, <<"running">>)
    BY <1>21 DEF Boot
  <2> QED
    BY <1>11, <1>14, <2>1, <2>2
<1>22. CASE Speak(s)
  <2>1. p # "none" /\ p1 = p /\ e = d /\ Reports(s, <<"text">>)
    BY <1>0, <1>5, <1>22 DEF Speak, p, p1, AgentType
  <2> QED
    BY <1>11, <1>14, <2>1
<1>23. CASE TurnEnds(s)
  <2>1. p # "none" /\ p1 # "none" /\ e = d
    BY <1>2, <1>5, <1>23 DEF TurnEnds, p
  <2>2. Reports(s, <<"idle">>) \/ Reports(s, <<"turn", "idle">>)
    BY <1>23 DEF TurnEnds
  <2> QED
    BY <1>11, <1>12, <1>14, <2>1, <2>2
<1>24. CASE AgentDies(s)
  <2>1. p # "none" /\ p1 = "none" /\ e = d /\ Reports(s, <<"failed">>)
    BY <1>3, <1>5, <1>24 DEF AgentDies, p
  <2> QED
    BY <1>13, <1>15, <2>1
<1>25. CASE OwnTurn(s)
  <2>1. p # "none" /\ p1 # "none" /\ e = d /\ Reports(s, <<"running">>)
    BY <1>2, <1>5, <1>25 DEF OwnTurn, p
  <2> QED
    BY <1>11, <1>14, <2>1
<1> HIDE DEF Fine
<1> QED
  BY <1>17, <1>18, <1>19, <1>20, <1>21, <1>22, <1>23, <1>24, <1>25 DEF NodeActs, NodeTakes

LEMMA NodeExclusive ==
    ASSUME EngineAssumption, OneAtATime, TypeOK, Exclusive(Host), NEW s \in Steps, NodeActs(s)
    PROVE  Exclusive(Host)'
<1>1. /\ step' = step
      /\ \A o \in Steps \ {s} : down'[o] = down[o] /\ agent'[o] = agent[o]
  BY NodeActsIs
<1>2. sess' = sess /\ mail' = mail /\ link' = link
  BY DEF NodeActs, NodeTakes, TakeLaunch, TakePrompt, TakeStop, TakeCancel, Boot, Speak,
         TurnEnds, AgentDies, OwnTurn, Reports, hostVars
<1>3. \A o \in Steps : ToldNow(o)
  BY HostIs DEF Exclusive, ToldOf, ToldNow
<1>4. /\ \A o \in Steps \ {s} : up'[o] = up[o]
      /\ Told(agent'[s].proc, sess[s].st, step[s], up'[s], down'[s])
  BY <1>3, NodeTold
<1>5. \A o \in Steps : Told(agent'[o].proc, sess'[o].st, step'[o], up'[o], down'[o])
  BY <1>1, <1>2, <1>3, <1>4 DEF ToldNow
<1>6. /\ (Host').step = step' /\ (Host').sess = sess' /\ (Host').mail = mail'
      /\ (Host').link = link' /\ (Host').up = up' /\ (Host').down = down'
  BY DEF Host
<1>7. (\A o \in Steps : ToldOf(Host, o))'
  BY <1>5, <1>6 DEF ToldOf
<1>8. OneLive(Host')
  BY <1>2, <1>6, HostIs DEF Exclusive, OneLive, Live
<1> QED
  BY <1>7, <1>8 DEF Exclusive

LEMMA InitExclusive ==
    ASSUME EngineAssumption, Init
    PROVE  Exclusive(Host)
<1>1. ASSUME NEW s \in Steps PROVE ToldOf(Host, s) /\ ~Live(Host, s)
  <2>1. /\ agent[s].proc = "none" /\ Host.sess[s].st = "none" /\ ~Host.step[s].bound
        /\ Host.up[s] = <<>> /\ Host.down[s] = <<>>
    BY HostIs DEF Init, NoAgent, NoStep, NewStep, NoRow
  <2>2. DOMAIN <<>> = {}
    OBVIOUS
  <2> QED
    BY <2>1, <2>2 DEF ToldOf, Told, Live
<1>2. Host.mail = {} /\ Host.link = "up"
  BY HostIs DEF Init
<1> QED
  BY <1>1, <1>2 DEF Exclusive, OneLive

\* A process is there only for a live row, and there is one of those.
LEMMA ExclusiveOne ==
    ASSUME EngineAssumption, Exclusive(Host)
    PROVE  OneWriter
<1> DEFINE S == {s \in Steps : agent[s].proc # "none"}
<1>1. \A s, o \in S : s = o
  <2> SUFFICES ASSUME NEW s \in S, NEW o \in S PROVE s = o
    OBVIOUS
  <2>1. Live(Host, s) /\ Live(Host, o)
    BY LiveIs DEF Exclusive, ToldOf, Told
  <2> QED
    BY <2>1 DEF Exclusive, OneLive
<1> HIDE DEF S
<1>2. CASE S = {}
  <2>1. Cardinality(S) = 0
    BY <1>2, FS_EmptySet
  <2> QED
    BY <2>1 DEF OneWriter, S
<1>3. CASE S # {}
  <2>1. PICK s \in S : TRUE
    BY <1>3
  <2>2. S = {s}
    BY <1>1, <2>1
  <2>3. Cardinality(S) = 1
    BY <2>2, FS_Singleton
  <2> QED
    BY <2>3 DEF OneWriter, S
<1> QED
  BY <1>2, <1>3

\* However the dispatches are cut short, the connection breaks, and the Node and
\* the Host restart, only one worker process at a time has the checkout, if the
\* Host dispatches on what it has heard.
THEOREM CheckoutHasOneWriter == OneAtATime /\ Spec => []OneWriter
<1> SUFFICES ASSUME OneAtATime PROVE Spec => []OneWriter
  OBVIOUS
<1>1. EngineAssumption
  BY EngineAssumption
<1>2. Init => Exclusive(Host)
  BY <1>1, InitExclusive
<1>3. TypeOK /\ Exclusive(Host) /\ [Next]_vars => Exclusive(Host)'
  <2> SUFFICES ASSUME TypeOK, Exclusive(Host), [Next]_vars PROVE Exclusive(Host)'
    OBVIOUS
  <2>1. CASE Next
    BY <1>1, <2>1, NextIs, HandlerExclusive, LinkExclusive, NodeExclusive
  <2>2. CASE UNCHANGED vars
    <3>1. Host' = Host /\ agent' = agent
      BY <2>2 DEF vars, Host
    <3> QED
      BY <3>1 DEF Exclusive, OneLive, ToldOf, Live
  <2> QED
    BY <2>1, <2>2
<1>4. Exclusive(Host) => OneWriter
  BY <1>1, ExclusiveOne
<1> QED
  BY <1>2, <1>3, <1>4, TypeCorrect, PTL DEF Spec

=============================================================================
