------------------------- MODULE LeadPrompts_proofs -------------------------
(***************************************************************************)
(* However often prompts are offered and whatever restarts, the agent is   *)
(* given each prompt at most once, the journal's open reservation is the   *)
(* prompt the agent works on, a row is settled only when the turn of its   *)
(* prompt was completed, and the Host has one prompt in hand at most: for  *)
(* every set of prompts and every bound.                                   *)
(***************************************************************************)
EXTENDS LeadPrompts, FiniteSetTheorems, SequenceTheorems, TLAPS

Answered == [st : Answers \cup {None}, at : Nat]

\* What the Node keeps has its type.
Journalled == journal \in [Prompts -> Answered]
Counted == given \in [Prompts -> Nat] /\ waiting \in [Prompts -> Nat]
Occupied ==
    /\ agent \in {"gone", "idle", "own turn"} \cup Prompts
    /\ current \in Prompts \cup {None}
NodeTyped == Journalled /\ Counted /\ Occupied

\* A prompt that was given is in the journal for good.
GivenIsKnown ==
    \A p \in Prompts : given[p] = 0 \/ (given[p] = 1 /\ journal[p].st \in Native)

\* The open reservation is the prompt of the agent and of the session.
OpenIsCurrent ==
    \A p \in Prompts : journal[p].st = "accepted" => agent = p /\ current = p

SettledWasDone == \A p \in Prompts : journal[p].st = "settled" => p \in done

NodeInv == NodeTyped /\ GivenIsKnown /\ OpenIsCurrent /\ SettledWasDone

\* The Host's steps, and what else leaves the Node's state alone.
NodeIdle == UNCHANGED <<journal, waiting, agent, current, given, done>>

-----------------------------------------------------------------------------
(* The Node.                                                                *)

LEMMA NodeInit == Init => NodeInv
<1> SUFFICES ASSUME Init PROVE NodeInv
  OBVIOUS
<1>1. Journalled
  BY DEF Init, Journalled, Answered, Nothing, None, Answers, Native
<1>2. Counted /\ Occupied
  BY DEF Init, Counted, Occupied
<1>3. GivenIsKnown /\ OpenIsCurrent /\ SettledWasDone
  BY DEF Init, GivenIsKnown, OpenIsCurrent, SettledWasDone, Nothing, None
<1> QED
  BY <1>1, <1>2, <1>3 DEF NodeInv, NodeTyped

LEMMA IdleKeeps ==
    ASSUME NodeInv, NodeIdle
    PROVE  NodeInv'
BY DEF NodeInv, NodeTyped, Journalled, Counted, Occupied, GivenIsKnown, OpenIsCurrent,
       SettledWasDone, NodeIdle

\* Writing p's record changes what the journal says of p alone.
LEMMA Written ==
    ASSUME Journalled, NEW p \in Prompts, NEW st \in Answers, Write(p, st)
    PROVE  /\ Journalled'
           /\ journal'[p].st = st
           /\ \A q \in Prompts : q # p => journal'[q] = journal[q]
<1>1. journal' = [journal EXCEPT ![p] = [st |-> st, at |-> journal[p].at + 1]]
  BY DEF Write
<1>2. [st |-> st, at |-> journal[p].at + 1] \in Answered
  BY DEF Journalled, Answered
<1> QED
  BY <1>1, <1>2 DEF Journalled

\* An answer reserves the agent only if it was idle and nothing was reserved.
LEMMA AdmitKeeps ==
    ASSUME NodeInv, NEW p \in Prompts, Admit(p)
    PROVE  NodeInv'
<1>1. done' = done /\ waiting' \in [Prompts -> Nat]
  BY DEF Admit, NodeInv, NodeTyped, Counted
<1>2. CASE UNCHANGED <<journal, agent, current, given>>
  BY <1>1, <1>2 DEF NodeInv, NodeTyped, Journalled, Counted, Occupied, GivenIsKnown,
                    OpenIsCurrent, SettledWasDone
<1>3. CASE ~Known(p) /\ Answer(p)
  <2>1. PICK st \in Verdict : /\ Write(p, st)
                              /\ IF st = "accepted"
                                 THEN /\ agent' = p /\ current' = p
                                      /\ given' = [given EXCEPT ![p] = @ + 1]
                                 ELSE UNCHANGED <<agent, current, given>>
    BY <1>3 DEF Answer
  <2>2. st \in {"rejected", "rejected_busy", "accepted"}
    BY DEF Verdict
  <2>3. st = "accepted" => Taken = {}
    BY DEF Verdict
  <2>4. /\ Journalled' /\ journal'[p].st = st
        /\ \A q \in Prompts : q # p => journal'[q] = journal[q]
    BY <2>1, <2>2, Written DEF NodeInv, NodeTyped, Answers, Native
  <2>5. given[p] = 0
    BY <1>3 DEF Known, NodeInv, GivenIsKnown, Native, None
  <2>6. given' = IF st = "accepted" THEN [given EXCEPT ![p] = @ + 1] ELSE given
    BY <2>1
  <2>7. GivenIsKnown'
    BY <2>2, <2>4, <2>5, <2>6 DEF NodeInv, NodeTyped, Counted, GivenIsKnown, Native
  <2>8. OpenIsCurrent'
    BY <2>1, <2>3, <2>4 DEF NodeInv, OpenIsCurrent, Taken
  <2>9. SettledWasDone'
    BY <1>1, <2>2, <2>4 DEF NodeInv, SettledWasDone
  <2>10. Counted'
    BY <1>1, <2>6 DEF NodeInv, NodeTyped, Counted
  <2>11. Occupied'
    BY <2>1 DEF NodeInv, NodeTyped, Occupied
  <2> QED
    BY <2>4, <2>7, <2>8, <2>9, <2>10, <2>11 DEF NodeInv, NodeTyped
<1> QED
  BY <1>2, <1>3 DEF Admit, AnswerAgain, NoAnswer

\* The open reservation is closed: its prompt was worked on to the end, or
\* nobody can tell.
LEMMA ClosingKeeps ==
    ASSUME NodeInv, NEW p, NEW st \in {"settled", "uncertain"},
           \A q \in Prompts : journal[q].st = "accepted" => q = p,
           IF p \in Taken THEN Write(p, st) ELSE UNCHANGED journal,
           UNCHANGED <<given, waiting>>, Occupied', done \subseteq done',
           st = "settled" /\ p \in Taken => p \in done'
    PROVE  NodeInv'
<1>1. CASE p \in Taken
  <2>1. p \in Prompts /\ journal[p].st = "accepted"
    BY <1>1 DEF Taken
  <2>2. /\ Journalled' /\ journal'[p].st = st
        /\ \A q \in Prompts : q # p => journal'[q] = journal[q]
    BY <1>1, <2>1, Written DEF NodeInv, NodeTyped, Answers, Native
  <2>3. GivenIsKnown'
    BY <2>1, <2>2 DEF NodeInv, GivenIsKnown, Native
  <2>4. OpenIsCurrent'
    BY <2>2 DEF OpenIsCurrent
  <2>5. SettledWasDone'
    BY <1>1, <2>2 DEF NodeInv, SettledWasDone
  <2> QED
    BY <2>2, <2>3, <2>4, <2>5 DEF NodeInv, NodeTyped, Counted
<1>2. CASE p \notin Taken
  <2>1. journal' = journal /\ Taken = {}
    BY <1>2 DEF Taken
  <2> QED
    BY <2>1 DEF NodeInv, NodeTyped, Journalled, Counted, GivenIsKnown, OpenIsCurrent,
                SettledWasDone, Taken
<1> QED
  BY <1>1, <1>2

LEMMA TurnEndsKeeps ==
    ASSUME NodeInv, TurnEnds
    PROVE  NodeInv'
<1>1. \A q \in Prompts : journal[q].st = "accepted" => q = current
  BY DEF NodeInv, OpenIsCurrent
<1>2. Occupied' /\ UNCHANGED <<given, waiting>>
  BY DEF TurnEnds, Occupied
<1>3. done \subseteq done' /\ (current \in Taken => current \in done')
  BY DEF TurnEnds, Taken, NodeInv, OpenIsCurrent
<1>4. IF current \in Taken THEN Write(current, "settled") ELSE UNCHANGED journal
  BY DEF TurnEnds
<1> QED
  BY <1>1, <1>2, <1>3, <1>4, ClosingKeeps

LEMMA TurnBreaksOffKeeps ==
    ASSUME NodeInv, TurnBreaksOff
    PROVE  NodeInv'
<1>1. \A q \in Prompts : journal[q].st = "accepted" => q = agent
  BY DEF NodeInv, OpenIsCurrent
<1>2. Occupied' /\ UNCHANGED <<given, waiting, done>>
  BY DEF TurnBreaksOff, Occupied, NodeInv, NodeTyped
<1>3. IF agent \in Taken THEN Write(agent, "uncertain") ELSE UNCHANGED journal
  BY DEF TurnBreaksOff, Doubt
<1> QED
  BY <1>1, <1>2, <1>3, ClosingKeeps

LEMMA EndsKeeps ==
    ASSUME NodeInv, Ends
    PROVE  NodeInv'
<1>1. \A q \in Prompts : journal[q].st = "accepted" => q = current
  BY DEF NodeInv, OpenIsCurrent
<1>2. Occupied' /\ UNCHANGED <<given, waiting, done>>
  BY DEF Ends, Occupied
<1>3. IF current \in Taken THEN Write(current, "uncertain") ELSE UNCHANGED journal
  BY DEF Ends, Doubt
<1> QED
  BY <1>1, <1>2, <1>3, ClosingKeeps

\* An agent that had no prompt begins something else.
LEMMA TurnsKeeps ==
    ASSUME NodeInv, agent \in {"idle", "gone"}, agent' \in {"idle", "own turn"},
           UNCHANGED <<journal, waiting, current, given, done>>
    PROVE  NodeInv'
<1>1. \A p \in Prompts : journal[p].st # "accepted"
  BY PromptsAssumption DEF NodeInv, OpenIsCurrent
<1>2. OpenIsCurrent'
  BY <1>1 DEF OpenIsCurrent
<1>3. NodeTyped'
  BY DEF NodeInv, NodeTyped, Journalled, Counted, Occupied
<1> QED
  BY <1>2, <1>3 DEF NodeInv, GivenIsKnown, SettledWasDone

LEMMA RestartKeeps ==
    ASSUME NodeInv, NodeRestart
    PROVE  NodeInv'
<1>1. journal' = [p \in Prompts |-> IF p \in Taken
                                    THEN [st |-> "uncertain", at |-> journal[p].at + 1]
                                    ELSE journal[p]]
  BY DEF NodeRestart
<1>2. \A p \in Taken : [st |-> "uncertain", at |-> journal[p].at + 1] \in Answered
  BY DEF NodeInv, NodeTyped, Journalled, Answered, Taken, Answers, Native
<1>3. Journalled'
  BY <1>1, <1>2 DEF NodeInv, NodeTyped, Journalled
<1>4. \A p \in Prompts : /\ journal'[p].st # "accepted"
                         /\ p \notin Taken => journal'[p] = journal[p]
                         /\ p \in Taken => journal'[p].st = "uncertain"
  BY <1>1 DEF Taken
<1>5. UNCHANGED <<given, done>> /\ waiting' = [p \in Prompts |-> 0]
  BY DEF NodeRestart
<1>6. Counted' /\ Occupied'
  <2>1. Counted'
    BY <1>5 DEF NodeInv, NodeTyped, Counted
  <2>2. Occupied'
    BY DEF NodeRestart, Occupied
  <2> QED
    BY <2>1, <2>2
<1>7. GivenIsKnown'
  BY <1>4, <1>5 DEF NodeInv, GivenIsKnown, Native, Taken
<1>8. OpenIsCurrent' /\ SettledWasDone'
  BY <1>4, <1>5 DEF NodeInv, OpenIsCurrent, SettledWasDone
<1> QED
  BY <1>3, <1>6, <1>7, <1>8 DEF NodeInv, NodeTyped

LEMMA DeliverKeeps ==
    ASSUME NodeInv, DeliverArrives
    PROVE  NodeInv'
<1>1. UNCHANGED <<journal, agent, current, given, done>>
  BY DEF DeliverArrives
<1>2. PICK p : waiting' = [waiting EXCEPT ![p] = @ + 1]
  BY DEF DeliverArrives
<1>3. waiting' \in [Prompts -> Nat]
  <2>1. waiting \in [Prompts -> Nat]
    BY DEF NodeInv, NodeTyped, Counted
  <2>2. \A q \in Prompts : waiting'[q] = IF q = p THEN waiting[q] + 1 ELSE waiting[q]
    BY <1>2, <2>1
  <2>3. DOMAIN waiting' = Prompts /\ waiting' = [q \in Prompts |-> waiting'[q]]
    BY <1>2, <2>1
  <2> QED
    BY <2>1, <2>2, <2>3
<1> QED
  BY <1>1, <1>3 DEF NodeInv, NodeTyped, Journalled, Counted, Occupied, GivenIsKnown,
              OpenIsCurrent, SettledWasDone

LEMMA NodeStep ==
    ASSUME NodeInv, [Next]_vars
    PROVE  NodeInv'
<1>1. CASE \E p \in Prompts : Enqueue(p) \/ Pump(p) \/ Withdraw(p)
  BY <1>1, IdleKeeps DEF Enqueue, Pump, Withdraw, HostOnly, nodeVars, NodeIdle
<1>2. CASE \E p \in Prompts : Admit(p)
  BY <1>2, AdmitKeeps
<1>3. CASE Orphan \/ Stop \/ HostHears
  BY <1>3, IdleKeeps DEF Orphan, Stop, HostHears, HearReceipt, HearEvent, HearInventory, HangUp,
                         HostOnly, HostHeard, nodeVars, NodeIdle
<1>4. CASE Break \/ Close \/ Reconnect \/ Flush \/ Welcome
  BY <1>4, IdleKeeps DEF Break, Close, Reconnect, Flush, Welcome, nodeVars, NodeIdle
<1>5. CASE DeliverArrives
  BY <1>5, DeliverKeeps
<1>6. CASE StopArrives
  BY <1>6, EndsKeeps, IdleKeeps DEF StopArrives, NodeIdle
<1>7. CASE ResumeArrives \/ OwnTurnBegins
  BY <1>7, TurnsKeeps DEF ResumeArrives, OwnTurnBegins
<1>8. CASE TurnEnds
  BY <1>8, TurnEndsKeeps
<1>9. CASE TurnBreaksOff
  BY <1>9, TurnBreaksOffKeeps
<1>10. CASE AgentExits
  BY <1>10, EndsKeeps DEF AgentExits
<1>11. CASE NodeRestart
  BY <1>11, RestartKeeps
<1>12. CASE UNCHANGED vars
  BY <1>12, IdleKeeps DEF vars, nodeVars, NodeIdle
<1> QED
  BY <1>1, <1>2, <1>3, <1>4, <1>5, <1>6, <1>7, <1>8, <1>9, <1>10, <1>11, <1>12
     DEF Next, NodeHears

\* However often an offer is repeated, delayed or retried, and whatever
\* restarts, the agent is given a prompt at most once (accept,
\* deliverLeadPrompt), for every set of prompts.
THEOREM OncePrompted == Spec => []PromptedOnce
<1>1. NodeInv => PromptedOnce
  BY DEF NodeInv, NodeTyped, Counted, GivenIsKnown, PromptedOnce
<1> QED
  BY <1>1, NodeInit, NodeStep, PTL DEF Spec

\* A prompt the journal holds as taken is the one the agent works on (settle,
\* uncertain), for every set of prompts.
THEOREM OpenIsWorkedOn == Spec => []TakenIsWorkedOn
<1>1. NodeInv => TakenIsWorkedOn
  BY DEF NodeInv, OpenIsCurrent, TakenIsWorkedOn
<1> QED
  BY <1>1, NodeInit, NodeStep, PTL DEF Spec

-----------------------------------------------------------------------------
(* What the Host believes.                                                  *)

Frames ==
    [k : {"receipt"}, p : Prompts, r : Answered]
        \cup [k : {"event"}, st : {"idle", "running", "ended"}]
        \cup [k : {"inventory"}, st : {"idle", "running", "gone"}]

\* Frames that say a prompt is settled only if it is in D.
Truthful(D) == {m \in Frames : m.k = "receipt" /\ m.r.st = "settled" => m.p \in D}

Rows == [st : Answers \cup {None, "pending", "reserved", "orphaned"},
         heard : Answered, newer : BOOLEAN]

HostInv == up \in Seq(Truthful(done)) /\ row \in [Prompts -> Rows] /\ SettledIsDone

LEMMA EmptyTold == \A D : <<>> \in Seq(Truthful(D))
OBVIOUS

LEMMA PairTold ==
    ASSUME NEW S, NEW a \in S, NEW b \in S
    PROVE  <<a, b>> \in Seq(S)
OBVIOUS

LEMMA EventTold ==
    \A D : \A st \in {"idle", "running", "ended"} :
        Event(st) \in Truthful(D) /\ <<Event(st)>> \in Seq(Truthful(D))
BY DEF Event, Truthful, Frames

\* SetToSeq lists the members of a finite set.
LEMMA Listed ==
    ASSUME NEW S, IsFiniteSet(S)
    PROVE  SetToSeq(S) \in Seq(S)
<1>1. Cardinality(S) \in Nat /\ ExistsBijection(1..Cardinality(S), S)
  BY FS_CardinalityType
<1>2. \E f \in [1..Cardinality(S) -> S] : IsInjective(f)
  BY <1>1 DEF ExistsBijection, Bijection, Injection, IsInjective
<1>3. SetToSeq(S) \in [1..Cardinality(S) -> S]
  BY <1>2 DEF SetToSeq
<1> QED
  BY <1>1, <1>3

\* Receipts of prompts, in a sequence.
LEMMA ReceiptsTold ==
    ASSUME NEW D, NEW sent, sent \subseteq Prompts, NEW receipts,
           \A p \in sent : /\ receipts[p] \in Answered
                           /\ receipts[p].st = "settled" => p \in D
    PROVE  SetToSeq({Receipt(p, receipts[p]) : p \in sent}) \in Seq(Truthful(D))
<1> DEFINE R == {Receipt(p, receipts[p]) : p \in sent}
           f == [p \in sent |-> Receipt(p, receipts[p])]
<1>1. IsFiniteSet(sent)
  BY PromptsAssumption, FS_Subset DEF PromptsAssumption
<1>2. f \in Surjection(sent, R)
  BY DEF Surjection
<1>3. IsFiniteSet(R)
  BY <1>1, <1>2, FS_Surjection
<1>4. R \subseteq Truthful(D)
  BY DEF Receipt, Truthful, Frames
<1>5. SetToSeq(R) \in Seq(R)
  BY <1>3, Listed
<1> QED
  BY <1>4, <1>5

\* What the Node tells is true if its receipts are.
LEMMA TellsTrue ==
    ASSUME NEW D, up \in Seq(Truthful(D)), NEW receipts, DOMAIN receipts \subseteq Prompts,
           \A p \in DOMAIN receipts : /\ receipts[p] \in Answered
                                      /\ receipts[p].st = "settled" => p \in D,
           NEW events \in Seq(Truthful(D)), Tells(receipts, events)
    PROVE  up' \in Seq(Truthful(D))
<1>1. PICK sent \in IF link = "ready" THEN Fitting(DOMAIN receipts) ELSE {{}} :
        up' = up \o SetToSeq({Receipt(p, receipts[p]) : p \in sent})
                 \o IF link = "ready" \/ (link = "open" /\ ~held) THEN events ELSE <<>>
  BY DEF Tells
<1>2. sent \subseteq DOMAIN receipts
  BY DEF Fitting
<1>3. SetToSeq({Receipt(p, receipts[p]) : p \in sent}) \in Seq(Truthful(D))
  BY <1>2, ReceiptsTold
<1> QED
  BY <1>1, <1>3

\* Rows that become settled only when told.
LEMMA RowsKeep ==
    ASSUME SettledIsDone, row' \in [Prompts -> Rows], done \subseteq done',
           \A p \in Prompts : row'[p].st = "settled" => row[p].st = "settled" \/ p \in done
    PROVE  SettledIsDone'
BY DEF SettledIsDone

LEMMA HostInit == Init => HostInv
BY EmptyTold DEF Init, HostInv, Rows, NewRow, Nothing, None, Answered, SettledIsDone

LEMMA RowSet ==
    ASSUME HostInv, NEW p \in Prompts, NEW r \in Rows, r.st # "settled",
           row' = [row EXCEPT ![p] = r], UNCHANGED <<up, done>>
    PROVE  HostInv'
<1>1. row' \in [Prompts -> Rows]
  BY DEF HostInv
<1>2. \A q \in Prompts : row'[q].st = "settled" => row[q].st = "settled"
  BY DEF HostInv
<1> QED
  BY <1>1, <1>2, RowsKeep DEF HostInv

LEMMA EnqueueKeeps ==
    ASSUME HostInv, NEW p \in Prompts, Enqueue(p)
    PROVE  HostInv'
<1> DEFINE r == [row[p] EXCEPT !.st = "pending"]
<1>1. UNCHANGED <<up, done>> /\ row' = [row EXCEPT ![p] = r]
  BY DEF Enqueue, HostOnly, nodeVars
<1>2. r \in Rows /\ r.st # "settled"
  BY DEF HostInv, Rows
<1> QED
  BY <1>1, <1>2, RowSet

LEMMA PumpKeeps ==
    ASSUME HostInv, NEW p \in Prompts, Pump(p)
    PROVE  HostInv'
<1> DEFINE r == [row[p] EXCEPT !.st = "reserved", !.newer = FALSE]
<1>1. UNCHANGED <<up, done>>
  BY DEF Pump, HostOnly, nodeVars
<1>2. r \in Rows /\ r.st # "settled"
  BY DEF HostInv, Rows
<1>3. row' = [row EXCEPT ![p] = r]
  BY DEF Pump, HostInv
<1> QED
  BY <1>1, <1>2, <1>3, RowSet

LEMMA RetireKeeps ==
    ASSUME HostInv, NEW S, Retire(S), UNCHANGED <<up, done>>
    PROVE  HostInv'
<1>1. row' = [p \in Prompts |-> IF p \in S THEN [row[p] EXCEPT !.st = "orphaned", !.newer = FALSE]
                               ELSE row[p]]
  BY DEF Retire
<1>2. \A p \in Prompts : row[p] \in Rows
  BY DEF HostInv
<1>3. /\ row' \in [Prompts -> Rows]
      /\ \A p \in Prompts : row'[p].st = "settled" => row[p].st = "settled"
  BY <1>1, <1>2 DEF Rows
<1> QED
  BY <1>1, <1>3, RowsKeep DEF HostInv

LEMMA HearReceiptKeeps ==
    ASSUME HostInv, HearReceipt
    PROVE  HostInv'
<1>1. up # <<>> /\ Head(up) \in Truthful(done) /\ Head(up).k = "receipt" /\ up' = Tail(up)
  BY DEF HostInv, HearReceipt, Hears, HostHeard
<1> DEFINE m == Head(up)
<1>2. /\ m.p \in Prompts /\ m.r \in Answered
      /\ m.r.st = "settled" => m.p \in done
  BY <1>1 DEF Truthful, Frames
<1>3. done' = done /\ (row' = row \/ row' = [row EXCEPT ![m.p] = Heard(@, m.r)])
  BY DEF HearReceipt, HostHeard, nodeVars
<1>4. Heard(row[m.p], m.r) \in Rows
  <2>1. row[m.p] \in Rows
    BY <1>2 DEF HostInv
  <2> QED
    BY <1>2, <2>1 DEF Heard, Rows, Answered
<1>5. row' \in [Prompts -> Rows]
  BY <1>2, <1>3, <1>4 DEF HostInv
<1>6. \A p \in Prompts : row'[p].st = "settled" => row[p].st = "settled" \/ p \in done
  <2>1. CASE row' = row
    BY <2>1
  <2>2. CASE row' = [row EXCEPT ![m.p] = Heard(@, m.r)]
    <3>1. row[m.p] \in Rows
      BY <1>2 DEF HostInv
    <3>2. Heard(row[m.p], m.r).st = "settled" => row[m.p].st = "settled" \/ m.r.st = "settled"
      BY <3>1 DEF Heard, Rows
    <3> QED
      BY <1>2, <2>2, <3>2 DEF HostInv
  <2> QED
    BY <1>3, <2>1, <2>2
<1>7. up' \in Seq(Truthful(done'))
  BY <1>1, <1>3 DEF HostInv
<1> QED
  BY <1>3, <1>5, <1>6, <1>7, RowsKeep DEF HostInv

LEMMA HearEventKeeps ==
    ASSUME HostInv, HearEvent
    PROVE  HostInv'
<1>1. row' = [p \in Prompts |-> [row[p] EXCEPT !.newer = row[p].st = "rejected_busy"]]
  BY DEF HearEvent
<1>2. \A p \in Prompts : row[p] \in Rows
  BY DEF HostInv
<1>3. row' \in [Prompts -> Rows] /\ \A p \in Prompts : row'[p].st = row[p].st
  BY <1>1, <1>2 DEF Rows
<1>4. done' = done /\ up' \in Seq(Truthful(done'))
  BY DEF HearEvent, Hears, HostHeard, nodeVars, HostInv
<1> QED
  BY <1>3, <1>4, RowsKeep DEF HostInv

LEMMA HangUpKeeps ==
    ASSUME HostInv, HangUp
    PROVE  HostInv'
BY DEF HangUp, Hears, hostVars, nodeVars, HostInv, SettledIsDone

LEMMA HearInventoryKeeps ==
    ASSUME HostInv, HearInventory
    PROVE  HostInv'
BY DEF HearInventory, Hears, HostHeard, nodeVars, HostInv, SettledIsDone

\* The connection is lost: nothing is on its way any more.
LEMMA DropKeeps ==
    ASSUME HostInv, Drop, done' = done
    PROVE  HostInv'
<1>1. row' = [p \in Prompts |-> Disconnected(row[p])] /\ up' = <<>>
  BY DEF Drop
<1>2. \A p \in Prompts : row[p] \in Rows
  BY DEF HostInv
<1>3. /\ row' \in [Prompts -> Rows]
      /\ \A p \in Prompts : row'[p].st = "settled" => row[p].st = "settled"
  BY <1>1, <1>2 DEF Rows, Disconnected, Answers, Native
<1> QED
  BY <1>1, <1>3, EmptyTold, RowsKeep DEF HostInv

\* The Node tells receipts that agree with its journal.
LEMMA TellingKeeps ==
    ASSUME HostInv, row' = row, done \subseteq done', up' \in Seq(Truthful(done'))
    PROVE  HostInv'
BY DEF HostInv, SettledIsDone

LEMMA JournalTrue ==
    ASSUME NodeInv
    PROVE  \A p \in Prompts : /\ journal[p] \in Answered
                              /\ journal[p].st = "settled" => p \in done
BY DEF NodeInv, NodeTyped, Journalled, SettledWasDone

LEMMA AdmitTells ==
    ASSUME HostInv, NodeInv, NodeInv', NEW p \in Prompts, Admit(p)
    PROVE  HostInv'
<1>1. row' = row /\ done' = done
  BY DEF Admit, NodeOnly, hostVars
<1>2. CASE AnswerAgain(p)
  <2> DEFINE r == [q \in {p} |-> journal[q]]
  <2>1. Tells(r, <<>>)
    BY <1>2 DEF AnswerAgain
  <2>2. up' \in Seq(Truthful(done))
    BY <2>1, JournalTrue, EmptyTold, TellsTrue DEF HostInv
  <2> QED
    BY <1>1, <2>2, TellingKeeps
<1>3. CASE Answer(p)
  <2>1. PICK st : Tells(Of(p), IF st = "accepted" THEN <<Event("running")>> ELSE <<>>)
    BY <1>3 DEF Answer
  <2>2. /\ DOMAIN Of(p) \subseteq Prompts
        /\ \A q \in DOMAIN Of(p) : /\ Of(p)[q] \in Answered
                                   /\ Of(p)[q].st = "settled" => q \in done
    BY <1>1, JournalTrue DEF Of, NodeInv, NodeTyped, Journalled, SettledWasDone
  <2>3. (IF st = "accepted" THEN <<Event("running")>> ELSE <<>>) \in Seq(Truthful(done))
    BY EmptyTold, EventTold
  <2>4. up' \in Seq(Truthful(done))
    BY <2>1, <2>2, <2>3, TellsTrue DEF HostInv
  <2> QED
    BY <1>1, <2>4, TellingKeeps
<1>4. CASE NoAnswer
  BY <1>1, <1>4, TellingKeeps DEF NoAnswer, Silent, HostInv
<1> QED
  BY <1>2, <1>3, <1>4 DEF Admit

\* Closing a reservation tells of the prompt that was open, and of the turn.
LEMMA ClosingTells ==
    ASSUME HostInv, NodeInv', NEW p, NEW st \in {"idle", "ended"},
           Tells(Receipts(p), <<Event(st)>>), row' = row, done \subseteq done'
    PROVE  HostInv'
<1>1. /\ DOMAIN Receipts(p) \subseteq Prompts
      /\ \A q \in DOMAIN Receipts(p) : /\ Receipts(p)[q] \in Answered
                                       /\ Receipts(p)[q].st = "settled" => q \in done'
  BY DEF Receipts, Of, NoReceipts, Taken, NodeInv, NodeTyped, Journalled, SettledWasDone
<1>2. up \in Seq(Truthful(done'))
  <2>1. Truthful(done) \subseteq Truthful(done')
    BY DEF Truthful
  <2> QED
    BY <2>1 DEF HostInv
<1>3. <<Event(st)>> \in Seq(Truthful(done'))
  BY EventTold
<1>4. up' \in Seq(Truthful(done'))
  BY <1>1, <1>2, <1>3, TellsTrue
<1> QED
  BY <1>4, TellingKeeps

\* Events without a receipt.
LEMMA EventTells ==
    ASSUME HostInv, NEW st \in {"idle", "running", "ended"},
           Tells(NoReceipts, <<Event(st)>>), UNCHANGED <<row, done>>
    PROVE  HostInv'
<1>1. DOMAIN NoReceipts = {}
  BY DEF NoReceipts
<1>2. up' \in Seq(Truthful(done))
  BY <1>1, EventTold, TellsTrue DEF HostInv
<1> QED
  BY <1>2, TellingKeeps

LEMMA EndsTells ==
    ASSUME HostInv, NodeInv', Ends, row' = row
    PROVE  HostInv'
<1>1. Tells(Receipts(current), <<Event("ended")>>) /\ done' = done
  BY DEF Ends
<1> QED
  BY <1>1, ClosingTells

\* What is repeated on a new connection and with the heartbeat.
LEMMA RepeatTells ==
    ASSUME HostInv, NodeInv, Welcome \/ Flush, owed \subseteq Prompts
    PROVE  HostInv'
<1>1. PICK sent, rest :
        /\ sent \subseteq Prompts
        /\ up' = up \o SetToSeq({Receipt(p, journal[p]) : p \in sent}) \o rest
        /\ rest \in {<<>>, <<Event(LastNews), [k |-> "inventory", st |-> State]>>}
  <2>1. CASE Welcome
    BY <2>1 DEF Welcome, Fitting
  <2>2. CASE Flush
    <3>1. PICK sent \in Fitting(owed) :
            up' = up \o SetToSeq({Receipt(p, journal[p]) : p \in sent})
      BY <2>2 DEF Flush
    <3>2. sent \subseteq Prompts
      BY DEF Fitting
    <3>3. SetToSeq({Receipt(p, journal[p]) : p \in sent}) \in Seq(Truthful(done))
      BY <3>2, JournalTrue, ReceiptsTold
    <3>4. up' = up \o SetToSeq({Receipt(p, journal[p]) : p \in sent}) \o <<>>
      BY <3>1, <3>3 DEF HostInv
    <3> QED
      BY <3>2, <3>4
  <2> QED
    BY <2>1, <2>2
<1>2. SetToSeq({Receipt(p, journal[p]) : p \in sent}) \in Seq(Truthful(done))
  BY <1>1, JournalTrue, ReceiptsTold
<1>3. rest \in Seq(Truthful(done))
  <2>1. LastNews \in {"idle", "running", "ended"} /\ State \in {"idle", "running", "gone"}
    BY DEF LastNews, State
  <2>2. Event(LastNews) \in Truthful(done)
    BY <2>1, EventTold
  <2>3. [k |-> "inventory", st |-> State] \in Truthful(done)
    BY <2>1 DEF Truthful, Frames
  <2> QED
    BY <1>1, <2>2, <2>3, EmptyTold, PairTold
<1>4. UNCHANGED <<row, done>>
  BY DEF Welcome, Flush, NodeOnly, hostVars
<1>5. up' \in Seq(Truthful(done'))
  BY <1>1, <1>2, <1>3, <1>4 DEF HostInv
<1> QED
  BY <1>4, <1>5, TellingKeeps

OwedTyped == owed \subseteq Prompts

LEMMA TellsOwed ==
    ASSUME OwedTyped, NEW receipts, NEW events, Tells(receipts, events),
           DOMAIN receipts \subseteq Prompts
    PROVE  OwedTyped'
BY DEF OwedTyped, Tells

LEMMA OwedStep ==
    ASSUME OwedTyped, [Next]_vars
    PROVE  OwedTyped'
<1> USE DEF OwedTyped
<1>1. \A p : DOMAIN Receipts(p) \subseteq Prompts
  BY DEF Receipts, Of, NoReceipts, Taken
<1>2. DOMAIN NoReceipts \subseteq Prompts
  BY DEF NoReceipts
<1>3. CASE \E p \in Prompts : Enqueue(p) \/ Pump(p) \/ Withdraw(p)
  BY <1>3 DEF Enqueue, Pump, Withdraw, HostOnly, nodeVars
<1>4. ASSUME NEW p \in Prompts, Admit(p) PROVE OwedTyped'
  <2>1. CASE AnswerAgain(p)
    <3>1. DOMAIN [q \in {p} |-> journal[p]] \subseteq Prompts
      OBVIOUS
    <3> QED
      BY <2>1, <3>1, TellsOwed DEF AnswerAgain
  <2>2. CASE Answer(p)
    <3>1. DOMAIN Of(p) \subseteq Prompts
      BY DEF Of
    <3> QED
      BY <2>2, <3>1, TellsOwed DEF Answer
  <2>3. CASE NoAnswer
    BY <2>3 DEF NoAnswer, Silent
  <2> QED
    BY <1>4, <2>1, <2>2, <2>3 DEF Admit
<1>5. CASE Orphan \/ Stop \/ HostHears \/ Break \/ Close \/ Reconnect \/ NodeRestart
  BY <1>5 DEF Orphan, Stop, HostHears, HearReceipt, HearEvent, HearInventory, HangUp,
              HostOnly, HostHeard, nodeVars, Break, Close, Reconnect, NodeRestart
<1>6. CASE Welcome \/ Flush \/ DeliverArrives
  BY <1>6 DEF Welcome, Flush, DeliverArrives, Silent
<1>7. CASE StopArrives \/ AgentExits
  <2>1. Ends => OwedTyped'
    BY <1>1, TellsOwed DEF Ends
  <2> QED
    BY <1>7, <2>1 DEF StopArrives, AgentExits, Silent
<1>8. CASE ResumeArrives \/ OwnTurnBegins
  BY <1>2, <1>8, TellsOwed DEF ResumeArrives, OwnTurnBegins
<1>9. CASE TurnEnds \/ TurnBreaksOff
  BY <1>1, <1>9, TellsOwed DEF TurnEnds, TurnBreaksOff
<1>10. CASE UNCHANGED vars
  BY <1>10 DEF vars, nodeVars
<1> QED
  BY <1>3, <1>4, <1>5, <1>6, <1>7, <1>8, <1>9, <1>10 DEF Next, NodeHears

IInv == NodeInv /\ HostInv /\ OwedTyped

LEMMA HostStep ==
    ASSUME IInv, NodeInv', [Next]_vars
    PROVE  HostInv'
<1> USE DEF IInv
<1>1. CASE \E p \in Prompts : Enqueue(p) \/ Pump(p)
  BY <1>1, EnqueueKeeps, PumpKeeps
<1>2. CASE \E p \in Prompts : Withdraw(p)
  BY <1>2, RetireKeeps DEF Withdraw, HostOnly, nodeVars
<1>3. CASE \E p \in Prompts : Admit(p)
  BY <1>3, AdmitTells
<1>4. CASE Orphan \/ Stop
  BY <1>4, RetireKeeps DEF Orphan, Stop, HostOnly, nodeVars
<1>5. CASE HearReceipt \/ HearEvent \/ HearInventory \/ HangUp
  BY <1>5, HearReceiptKeeps, HearEventKeeps, HearInventoryKeeps, HangUpKeeps
<1>6. CASE Close \/ Break \/ NodeRestart
  BY <1>6, DropKeeps DEF Close, Break, NodeRestart, nodeVars
<1>7. CASE Reconnect
  BY <1>7, EmptyTold, TellingKeeps DEF Reconnect, nodeVars
<1>8. CASE Welcome \/ Flush
  BY <1>8, RepeatTells DEF OwedTyped
<1>9. CASE DeliverArrives
  BY <1>9, TellingKeeps DEF DeliverArrives, Silent, NodeOnly, hostVars, HostInv
<1>10. CASE StopArrives \/ AgentExits
  <2>1. row' = row
    BY <1>10 DEF StopArrives, AgentExits, NodeOnly, hostVars
  <2>2. CASE Ends
    BY <2>1, <2>2, EndsTells
  <2>3. CASE UNCHANGED <<up, done>>
    BY <2>1, <2>3, TellingKeeps DEF HostInv
  <2> QED
    BY <1>10, <2>2, <2>3 DEF StopArrives, AgentExits, Silent
<1>11. CASE ResumeArrives \/ OwnTurnBegins
  BY <1>11, EventTells DEF ResumeArrives, OwnTurnBegins, NodeOnly, hostVars
<1>12. CASE TurnEnds \/ TurnBreaksOff
  BY <1>12, ClosingTells DEF TurnEnds, TurnBreaksOff, NodeOnly, hostVars
<1>13. CASE UNCHANGED vars
  BY <1>13 DEF vars, nodeVars, hostVars, wire, HostInv, SettledIsDone
<1> QED
  BY <1>1, <1>2, <1>3, <1>4, <1>5, <1>6, <1>7, <1>8, <1>9, <1>10, <1>11, <1>12, <1>13
     DEF Next, HostHears, NodeHears

\* A prompt the Host holds as settled was worked on to the end of a turn of
\* its own (promptReceipt, handle), for every set of prompts.
THEOREM SettledIsSound == Spec => []SettledIsDone
<1>1. Init => IInv
  BY NodeInit, HostInit DEF IInv, Init, OwedTyped
<1>2. IInv /\ [Next]_vars => IInv'
  BY NodeStep, HostStep, OwedStep DEF IInv
<1>3. IInv => SettledIsDone
  BY DEF IInv, HostInv
<1> QED
  BY <1>1, <1>2, <1>3, PTL DEF Spec

-----------------------------------------------------------------------------
(* What the Host has in hand.  The Node answers for a prompt only when it   *)
(* was offered it, so that no answer takes in hand what the Host did not.   *)

AskedFor == {p \in Prompts : row[p].st # None}
PromptFrames(A) == [k : {"deliver"}, p : A] \cup [k : {"welcome", "resume", "stop"}]
AnswersOf(A) == {m \in Frames : m.k = "receipt" => m.p \in A /\ m.r.st # None}
Recorded == {p \in Prompts : journal[p].st # None}

LeadTyped == lead \in {"idle", "running", "offline", "starting", "ended"} /\ held \in BOOLEAN
OnlyAsked ==
    /\ down \in Seq(PromptFrames(AskedFor)) /\ up \in Seq(AnswersOf(AskedFor))
    /\ \A p \in Prompts : waiting[p] # 0 => p \in AskedFor
    /\ owed \subseteq Recorded /\ Recorded \subseteq AskedFor
OneInHand == \A p, q \in InHand : p = q

HandInv == LeadTyped /\ OnlyAsked /\ OneInHand

LEMMA AskedGrow ==
    ASSUME NEW A, NEW B, A \subseteq B
    PROVE  PromptFrames(A) \subseteq PromptFrames(B) /\ AnswersOf(A) \subseteq AnswersOf(B)
BY DEF PromptFrames, AnswersOf

\* Steps of the Host: rows once asked for stay so.
LEMMA HostHand ==
    ASSUME HandInv, AskedFor \subseteq AskedFor', LeadTyped', OneInHand',
           UNCHANGED <<waiting, journal, owed>>,
           down' \in Seq(PromptFrames(AskedFor')),
           up' = up \/ up' = <<>> \/ (up # <<>> /\ up' = Tail(up))
    PROVE  HandInv'
<1>1. up \in Seq(AnswersOf(AskedFor'))
  BY AskedGrow, SeqMonotonic DEF HandInv, OnlyAsked
<1>2. up' \in Seq(AnswersOf(AskedFor'))
  BY <1>1, HeadTailProperties, EmptySeq
<1> QED
  BY <1>2 DEF HandInv, OnlyAsked, Recorded

\* Steps of the Node.
LEMMA NodeHand ==
    ASSUME HandInv, UNCHANGED hostVars, held' \in BOOLEAN,
           owed' \subseteq Recorded', Recorded' \subseteq AskedFor,
           down' = down \/ (down # <<>> /\ down' = Tail(down)),
           up' \in Seq(AnswersOf(AskedFor)),
           \A p \in Prompts : waiting'[p] # 0 => p \in AskedFor
    PROVE  HandInv'
<1>1. AskedFor' = AskedFor /\ InHand' = InHand /\ lead' = lead
  BY DEF AskedFor, InHand, hostVars
<1>2. down' \in Seq(PromptFrames(AskedFor))
  BY HeadTailProperties DEF HandInv, OnlyAsked
<1>3. OnlyAsked'
  BY <1>1, <1>2 DEF OnlyAsked
<1>4. LeadTyped' /\ OneInHand'
  BY <1>1 DEF HandInv, LeadTyped, OneInHand
<1> QED
  BY <1>3, <1>4 DEF HandInv

\* Rows that leave the hand, or stay in it.
LEMMA StayInHand ==
    ASSUME HandInv, InHand' \subseteq InHand
    PROVE  OneInHand'
BY DEF HandInv, OneInHand

LEMMA DownGrows ==
    ASSUME HandInv, AskedFor \subseteq AskedFor'
    PROVE  /\ down \in Seq(PromptFrames(AskedFor'))
           /\ \A m \in PromptFrames(AskedFor') : Append(down, m) \in Seq(PromptFrames(AskedFor'))
<1>1. down \in Seq(PromptFrames(AskedFor'))
  BY AskedGrow, SeqMonotonic DEF HandInv, OnlyAsked
<1> QED
  BY <1>1, AppendProperties

LEMMA EnqueueHand == ASSUME IInv, HandInv, NEW p \in Prompts, Enqueue(p) PROVE HandInv'
<1> USE DEF IInv, HostInv, HandInv
<1>1. /\ row' = [row EXCEPT ![p].st = "pending"] /\ row \in [Prompts -> Rows]
      /\ UNCHANGED <<lead, down, up, waiting, journal, owed, held>>
  BY DEF Enqueue, HostOnly, nodeVars
<1>2. \A q \in Prompts : row'[q].st = IF q = p THEN "pending" ELSE row[q].st
  BY <1>1 DEF Rows
<1>3. AskedFor \subseteq AskedFor' /\ InHand' \subseteq InHand
  BY <1>2 DEF AskedFor, InHand, None, Reserved
<1> QED
  BY <1>1, <1>3, StayInHand, DownGrows, HostHand DEF LeadTyped

LEMMA PumpHand == ASSUME IInv, HandInv, NEW p \in Prompts, Pump(p) PROVE HandInv'
<1> USE DEF IInv, HostInv, HandInv
<1>1. /\ row' = [row EXCEPT ![p].st = "reserved", ![p].newer = FALSE] /\ row \in [Prompts -> Rows]
      /\ InHand = {} /\ down' = Append(down, Offer(p))
      /\ UNCHANGED <<lead, up, waiting, journal, owed, held>>
  BY DEF Pump, HostOnly, nodeVars
<1>2. \A q \in Prompts : row'[q].st = IF q = p THEN "reserved" ELSE row[q].st
  BY <1>1 DEF Rows
<1>3. AskedFor \subseteq AskedFor' /\ p \in AskedFor' /\ OneInHand'
  BY <1>1, <1>2 DEF AskedFor, InHand, None, OneInHand
<1>4. Offer(p) \in PromptFrames(AskedFor')
  BY <1>3 DEF Offer, PromptFrames
<1> QED
  BY <1>1, <1>3, <1>4, DownGrows, HostHand DEF LeadTyped

\* Prompts that are withdrawn or orphaned are in hand no more.
LEMMA RetireHand ==
    ASSUME IInv, HandInv, NEW S, Retire(S), S \cap {p \in Prompts : row[p].st = None} = {},
           lead' \in {lead, "ended"}, UNCHANGED <<up, waiting, journal, owed, held>>,
           down' = down \/ down' = Append(down, [k |-> "stop"])
    PROVE  HandInv'
<1> USE DEF IInv, HostInv, HandInv
<1>1. row' = [p \in Prompts |-> IF p \in S THEN [row[p] EXCEPT !.st = "orphaned", !.newer = FALSE]
                               ELSE row[p]]
  BY DEF Retire
<1>2. \A q \in Prompts : row'[q].st = IF q \in S THEN "orphaned" ELSE row[q].st
  BY <1>1 DEF Rows
<1>3. AskedFor \subseteq AskedFor' /\ InHand' \subseteq InHand
  BY <1>2 DEF AskedFor, InHand, None, Reserved
<1>4. [k |-> "stop"] \in PromptFrames(AskedFor')
  BY DEF PromptFrames
<1>5. down' \in Seq(PromptFrames(AskedFor'))
  BY <1>3, <1>4, DownGrows
<1>6. LeadTyped'
  BY DEF LeadTyped
<1> QED
  BY <1>3, <1>5, <1>6, StayInHand, HostHand

\* What a receipt says never takes a prompt in hand that was not.
LEMMA HeardHand ==
    ASSUME NEW h \in Rows, NEW r \in Answered, ~RefusedFrom(h, r), h.st # None, r.st # None
    PROVE  /\ Heard(h, r).st # None
           /\ Heard(h, r).st \in Reserved => h.st \in Reserved
BY DEF Rows, Answered, RefusedFrom, Heard, Reserved, Answers, Native, None

LEMMA HearReceiptHand == ASSUME IInv, HandInv, HearReceipt PROVE HandInv'
<1> USE DEF IInv, HostInv, HandInv
<1> DEFINE m == Head(up)
<1>1. /\ up # <<>> /\ up' = Tail(up) /\ m \in Truthful(done) /\ m \in AnswersOf(AskedFor)
      /\ m.k = "receipt" /\ UNCHANGED <<lead, down, waiting, journal, owed, held>>
      /\ \/ ~RefusedFrom(row[m.p], m.r) /\ row' = [row EXCEPT ![m.p] = Heard(@, m.r)]
         \/ row' = row
  BY HeadTailProperties DEF HearReceipt, Hears, HostHeard, nodeVars, OnlyAsked
<1>2. /\ m.p \in AskedFor /\ m.p \in Prompts /\ m.r \in Answered /\ m.r.st # None
      /\ row[m.p] \in Rows
  BY <1>1 DEF AnswersOf, Truthful, Frames, AskedFor
<1> HIDE DEF m
<1>3. AskedFor \subseteq AskedFor' /\ InHand' \subseteq InHand
  <2>1. CASE row' = row
    BY <2>1 DEF AskedFor, InHand
  <2>2. CASE ~RefusedFrom(row[m.p], m.r) /\ row' = [row EXCEPT ![m.p] = Heard(@, m.r)]
    <3>1. row'[m.p] = Heard(row[m.p], m.r) /\ \A q \in Prompts : q # m.p => row'[q] = row[q]
      BY <1>2, <2>2
    <3>2. Heard(row[m.p], m.r).st \in Reserved => row[m.p].st \in Reserved
      BY <1>2, <2>2, HeardHand DEF AskedFor
    <3>3. Heard(row[m.p], m.r).st # None
      BY <1>2, <2>2, HeardHand DEF AskedFor
    <3> QED
      BY <3>1, <3>2, <3>3 DEF AskedFor, InHand
  <2> QED
    BY <1>1, <2>1, <2>2
<1> QED
  BY <1>1, <1>3, StayInHand, DownGrows, HostHand DEF LeadTyped


LEMMA HearEventHand == ASSUME IInv, HandInv, HearEvent PROVE HandInv'
<1> USE DEF IInv, HostInv, HandInv
<1>1. /\ up # <<>> /\ up' = Tail(up) /\ Head(up) \in AnswersOf(AskedFor) /\ Head(up).k = "event"
      /\ lead' = IF lead = "ended" THEN lead ELSE Head(up).st
      /\ row' = [p \in Prompts |-> [row[p] EXCEPT !.newer = row[p].st = "rejected_busy"]]
      /\ UNCHANGED <<down, waiting, journal, owed, held>>
  BY HeadTailProperties DEF HearEvent, Hears, HostHeard, nodeVars, OnlyAsked
<1>2. \A q \in Prompts : row'[q].st = row[q].st
  BY <1>1 DEF Rows
<1>3. AskedFor \subseteq AskedFor' /\ InHand' \subseteq InHand
  BY <1>2 DEF AskedFor, InHand
<1>4. LeadTyped'
  BY <1>1 DEF LeadTyped, AnswersOf, Frames
<1> QED
  BY <1>1, <1>3, <1>4, StayInHand, DownGrows, HostHand

\* Where a lead that was away is found, and what is sent for it.
LEMMA LandedKeeps ==
    ASSUME LeadTyped, NEW A, NEW st \in {"idle", "running", "gone"},
           NEW frames \in Seq(PromptFrames(A)), Landed(st, frames), held' = held
    PROVE  LeadTyped' /\ down' \in Seq(PromptFrames(A))
<1>1. [k |-> "resume"] \in PromptFrames(A)
  BY DEF PromptFrames
<1>2. Append(frames, [k |-> "resume"]) \in Seq(PromptFrames(A))
  BY <1>1, AppendProperties
<1> QED
  BY <1>2 DEF Landed, LeadTyped

LEMMA SameRows ==
    ASSUME HandInv, row' = row
    PROVE  AskedFor' = AskedFor /\ OneInHand'
BY DEF AskedFor, HandInv, OneInHand, InHand

LEMMA HearInventoryHand == ASSUME IInv, HandInv, HearInventory PROVE HandInv'
<1> USE DEF IInv, HostInv, HandInv
<1>1. /\ up # <<>> /\ up' = Tail(up) /\ Head(up) \in AnswersOf(AskedFor)
      /\ Head(up).k = "inventory" /\ Landed(Head(up).st, down) /\ row' = row
      /\ UNCHANGED <<waiting, journal, owed, held>>
  BY HeadTailProperties DEF HearInventory, Hears, HostHeard, nodeVars, OnlyAsked
<1>2. Head(up).st \in {"idle", "running", "gone"}
  BY <1>1 DEF AnswersOf, Frames
<1>3. LeadTyped' /\ down' \in Seq(PromptFrames(AskedFor))
  BY <1>1, <1>2, LandedKeeps DEF OnlyAsked
<1> QED
  BY <1>1, <1>3, SameRows, HostHand

LEMMA HangUpHand == ASSUME IInv, HandInv, HangUp PROVE HandInv'
<1> USE DEF IInv, HostInv, HandInv
<1>1. /\ up # <<>> /\ up' = Tail(up) /\ row' = row
      /\ UNCHANGED <<lead, down, waiting, journal, owed, held>>
  BY DEF HangUp, Hears, hostVars, nodeVars
<1> QED
  BY <1>1, SameRows, HostHand DEF OnlyAsked, LeadTyped

\* The connection is lost: what is in hand stays so, uncertain.
LEMMA DropRows ==
    ASSUME IInv, HandInv, Drop
    PROVE  /\ AskedFor \subseteq AskedFor' /\ OneInHand' /\ lead' \in {lead, "offline"}
           /\ down' \in Seq(PromptFrames(AskedFor')) /\ up' = <<>>
<1> USE DEF IInv, HostInv, HandInv
<1>1. row' = [p \in Prompts |-> Disconnected(row[p])] /\ row \in [Prompts -> Rows]
  BY DEF Drop
<1>2. \A q \in Prompts : /\ row'[q].st # None <=> row[q].st # None
                         /\ row'[q].st \in Reserved <=> row[q].st \in Reserved
  BY <1>1 DEF Disconnected, Rows, None, Reserved
<1>3. AskedFor \subseteq AskedFor' /\ InHand' \subseteq InHand
  BY <1>2 DEF AskedFor, InHand
<1> QED
  BY <1>3, StayInHand, EmptySeq DEF Drop

LEMMA CutHand == ASSUME IInv, HandInv, Close \/ Break PROVE HandInv'
<1>1. Drop /\ UNCHANGED <<waiting, journal, owed, held>>
  BY DEF Close, Break, nodeVars
<1> QED
  BY <1>1, DropRows, HostHand DEF HandInv, LeadTyped

LEMMA RestartHand == ASSUME IInv, HandInv, NodeRestart PROVE HandInv'
<1> USE DEF IInv, HandInv
<1>1. /\ Drop /\ owed' = {} /\ held' = FALSE /\ waiting' = [p \in Prompts |-> 0]
      /\ journal' = [p \in Prompts |-> IF p \in Taken
                                       THEN [st |-> "uncertain", at |-> journal[p].at + 1]
                                       ELSE journal[p]]
  BY DEF NodeRestart
<1>2. Recorded' \subseteq Recorded
  BY <1>1 DEF Recorded, Taken, None
<1>3. up' \in Seq(AnswersOf(AskedFor'))
  BY <1>1, DropRows, EmptySeq
<1> QED
  BY <1>1, <1>2, <1>3, DropRows DEF OnlyAsked, LeadTyped

\* Offers of what may have been lost follow the welcome.
LEMMA ReconnectHand == ASSUME IInv, HandInv, Reconnect PROVE HandInv'
<1> USE DEF IInv, HandInv
<1> DEFINE offered == {Offer(p) : p \in InHand}
           f == [p \in InHand |-> Offer(p)]
           frames == <<[k |-> "welcome"]>> \o SetToSeq(offered)
<1>1. IsFiniteSet(InHand)
  BY PromptsAssumption, FS_Subset DEF PromptsAssumption, InHand
<1>2. f \in Surjection(InHand, offered)
  BY DEF Surjection
<1>3. IsFiniteSet(offered)
  BY <1>1, <1>2, FS_Surjection
<1>4. offered \subseteq PromptFrames(AskedFor)
  BY DEF PromptFrames, Offer, AskedFor, InHand, Reserved, None
<1>5. SetToSeq(offered) \in Seq(PromptFrames(AskedFor))
  BY <1>3, <1>4, Listed, SeqMonotonic
<1>6. <<[k |-> "welcome"]>> \in Seq(PromptFrames(AskedFor))
  BY DEF PromptFrames
<1>7. frames \in Seq(PromptFrames(AskedFor))
  BY <1>5, <1>6, ConcatProperties
<1>8. /\ row' = row /\ up' = <<>> /\ UNCHANGED <<waiting, journal, owed, held>>
      /\ IF held THEN lead' = lead /\ down' = frames ELSE Landed(State, frames)
  BY DEF Reconnect, nodeVars
<1> HIDE DEF frames, offered
<1>9. State \in {"idle", "running", "gone"}
  BY DEF State
<1>10. LeadTyped' /\ down' \in Seq(PromptFrames(AskedFor))
  <2>1. CASE held
    BY <1>7, <1>8, <2>1 DEF LeadTyped
  <2>2. CASE ~held
    BY <1>7, <1>8, <1>9, <2>2, LandedKeeps
  <2> QED
    BY <2>1, <2>2
<1> QED
  BY <1>8, <1>10, SameRows, HostHand


\* Receipts of prompts asked for, in a sequence.
LEMMA ReceiptsAsked ==
    ASSUME NEW A, NEW sent, sent \subseteq A \cap Prompts, NEW receipts,
           \A p \in sent : receipts[p] \in Answered /\ receipts[p].st # None
    PROVE  SetToSeq({Receipt(p, receipts[p]) : p \in sent}) \in Seq(AnswersOf(A))
<1> DEFINE R == {Receipt(p, receipts[p]) : p \in sent}
           f == [p \in sent |-> Receipt(p, receipts[p])]
<1>1. IsFiniteSet(sent)
  BY PromptsAssumption, FS_Subset DEF PromptsAssumption
<1>2. f \in Surjection(sent, R)
  BY DEF Surjection
<1>3. IsFiniteSet(R)
  BY <1>1, <1>2, FS_Surjection
<1>4. R \subseteq AnswersOf(A)
  BY DEF Receipt, AnswersOf, Frames
<1>5. SetToSeq(R) \in Seq(R)
  BY <1>3, Listed
<1> QED
  BY <1>4, <1>5, SeqMonotonic

\* The Node tells of prompts it was asked for, and owes what it did not tell.
LEMMA TellsAsked ==
    ASSUME NEW A, up \in Seq(AnswersOf(A)), NEW receipts,
           DOMAIN receipts \subseteq A \cap Prompts, held \in BOOLEAN,
           \A p \in DOMAIN receipts : receipts[p] \in Answered /\ receipts[p].st # None,
           NEW events \in Seq(AnswersOf(A)), Tells(receipts, events)
    PROVE  /\ up' \in Seq(AnswersOf(A)) /\ held' \in BOOLEAN
           /\ owed' \subseteq owed \cup DOMAIN receipts
<1>1. PICK sent \in IF link = "ready" THEN Fitting(DOMAIN receipts) ELSE {{}} :
        /\ owed' = (owed \cup DOMAIN receipts) \ sent
        /\ LET live == link = "ready" \/ (link = "open" /\ ~held)
           IN  /\ held' = (held \/ (events # <<>> /\ ~live))
               /\ up' = up \o SetToSeq({Receipt(p, receipts[p]) : p \in sent})
                           \o IF live THEN events ELSE <<>>
  BY DEF Tells
<1>2. sent \subseteq DOMAIN receipts
  BY DEF Fitting
<1>3. SetToSeq({Receipt(p, receipts[p]) : p \in sent}) \in Seq(AnswersOf(A))
  BY <1>2, ReceiptsAsked
<1>4. up' \in Seq(AnswersOf(A))
  BY <1>1, <1>3, ConcatProperties, EmptySeq
<1> QED
  BY <1>1, <1>4

LEMMA EventsAsked ==
    ASSUME NEW A
    PROVE  /\ <<>> \in Seq(AnswersOf(A))
           /\ \A st \in {"idle", "running", "ended"} :
                 Event(st) \in AnswersOf(A) /\ <<Event(st)>> \in Seq(AnswersOf(A))
<1>1. \A st \in {"idle", "running", "ended"} : Event(st) \in AnswersOf(A)
  BY DEF Event, AnswersOf, Frames
<1> QED
  BY <1>1

\* A step of the Node that tells of a part of what it has on record.
LEMMA TellingHand ==
    ASSUME IInv, HandInv, NodeInv', UNCHANGED hostVars, NEW receipts,
           down' = down \/ (down # <<>> /\ down' = Tail(down)),
           Recorded \subseteq Recorded', Recorded' \subseteq AskedFor,
           DOMAIN receipts \subseteq Recorded',
           \A p \in DOMAIN receipts : receipts[p] = journal'[p],
           NEW events \in Seq(AnswersOf(AskedFor)), Tells(receipts, events),
           \A p \in Prompts : waiting'[p] # 0 => p \in AskedFor
    PROVE  HandInv'
<1> USE DEF IInv, HandInv, OnlyAsked
<1>1. \A p \in Recorded' : journal'[p] \in Answered /\ journal'[p].st # None
  BY DEF Recorded, NodeInv, NodeTyped, Journalled
<1>2. /\ up' \in Seq(AnswersOf(AskedFor)) /\ held' \in BOOLEAN
      /\ owed' \subseteq owed \cup DOMAIN receipts
  <2>1. DOMAIN receipts \subseteq AskedFor \cap Prompts
    BY DEF Recorded
  <2> QED
    BY <1>1, <2>1, TellsAsked DEF LeadTyped
<1>3. owed' \subseteq Recorded'
  BY <1>2
<1> QED
  BY <1>2, <1>3, NodeHand

\* What a written record adds to the journal.
LEMMA WriteRecords ==
    ASSUME IInv, NEW p \in Prompts, NEW st \in Answers, Write(p, st)
    PROVE  Recorded' = Recorded \cup {p}
<1>1. /\ journal'[p].st = st
      /\ \A q \in Prompts : q # p => journal'[q] = journal[q]
  BY Written DEF IInv, NodeInv, NodeTyped
<1>2. st # None
  BY DEF Answers, Native, None
<1> QED
  BY <1>1, <1>2 DEF Recorded

LEMMA AdmitHand == ASSUME IInv, HandInv, NodeInv', NEW p \in Prompts, Admit(p) PROVE HandInv'
<1> USE DEF IInv, HandInv, OnlyAsked
<1>1. /\ waiting[p] > 0 /\ UNCHANGED <<hostVars, down>>
      /\ waiting' = [waiting EXCEPT ![p] = @ - 1]
  BY DEF Admit, NodeOnly
<1>2. waiting \in [Prompts -> Nat]
  BY DEF NodeInv, NodeTyped, Counted
<1>3. p \in AskedFor /\ \A q \in Prompts : waiting'[q] # 0 => q \in AskedFor
  BY <1>1, <1>2
<1>4. CASE Known(p) /\ AnswerAgain(p)
  <2> DEFINE r == [q \in {p} |-> journal[q]]
  <2>1. Tells(r, <<>>) /\ journal' = journal
    BY <1>4 DEF AnswerAgain
  <2>2. p \in Recorded /\ Recorded' = Recorded
    BY <1>4, <2>1 DEF Known, Recorded
  <2> QED
    BY <1>1, <1>3, <2>1, <2>2, EventsAsked, TellingHand
<1>5. CASE Answer(p)
  <2>1. PICK st \in Verdict :
          /\ Write(p, st)
          /\ Tells(Of(p), IF st = "accepted" THEN <<Event("running")>> ELSE <<>>)
    BY <1>5 DEF Answer
  <2>2. st \in Answers
    BY DEF Verdict, Answers, Native
  <2>3. Recorded' = Recorded \cup {p}
    BY <2>1, <2>2, WriteRecords
  <2>4. DOMAIN Of(p) = {p} /\ \A q \in DOMAIN Of(p) : Of(p)[q] = journal'[q]
    BY DEF Of
  <2>5. (IF st = "accepted" THEN <<Event("running")>> ELSE <<>>) \in Seq(AnswersOf(AskedFor))
    BY EventsAsked
  <2> QED
    BY <1>1, <1>3, <2>1, <2>3, <2>4, <2>5, TellingHand
<1>6. CASE NoAnswer
  BY <1>1, <1>3, <1>6, NodeHand DEF NoAnswer, Silent, Recorded, LeadTyped
<1> QED
  BY <1>4, <1>5, <1>6 DEF Admit

\* What is told when a turn or the session ends.
LEMMA ClosingRecords ==
    ASSUME IInv, NEW p, NEW st \in {"settled", "uncertain"},
           IF p \in Taken THEN Write(p, st) ELSE UNCHANGED journal
    PROVE  /\ Recorded' = Recorded /\ DOMAIN Receipts(p) \subseteq Recorded'
           /\ \A q \in DOMAIN Receipts(p) : Receipts(p)[q] = journal'[q]
<1>1. CASE p \in Taken
  <2>1. p \in Prompts /\ p \in Recorded /\ st \in Answers
    BY <1>1 DEF Taken, Recorded, Answers, Native, None
  <2>2. Recorded' = Recorded
    BY <1>1, <2>1, WriteRecords
  <2>3. Receipts(p) = [q \in {p} |-> journal'[q]]
    BY <1>1 DEF Receipts, Of
  <2> QED
    BY <2>1, <2>2, <2>3
<1>2. CASE p \notin Taken
  <2>1. journal' = journal
    BY <1>2
  <2>2. Receipts(p) = [q \in {} |-> Nothing]
    BY <1>2 DEF Receipts, NoReceipts
  <2> QED
    BY <2>1, <2>2 DEF Recorded
<1> QED
  BY <1>1, <1>2

LEMMA ClosingHand ==
    ASSUME IInv, HandInv, NodeInv', UNCHANGED <<hostVars, waiting>>,
           down' = down \/ (down # <<>> /\ down' = Tail(down)),
           NEW p, NEW st \in {"settled", "uncertain"},
           IF p \in Taken THEN Write(p, st) ELSE UNCHANGED journal,
           NEW ev \in {"idle", "running", "ended"}, Tells(Receipts(p), <<Event(ev)>>)
    PROVE  HandInv'
<1>1. /\ Recorded' = Recorded /\ DOMAIN Receipts(p) \subseteq Recorded'
      /\ \A q \in DOMAIN Receipts(p) : Receipts(p)[q] = journal'[q]
  BY ClosingRecords
<1>2. Recorded \subseteq AskedFor /\ \A q \in Prompts : waiting'[q] # 0 => q \in AskedFor
  BY DEF HandInv, OnlyAsked
<1> QED
  BY <1>1, <1>2, EventsAsked, TellingHand

LEMMA EndsHand ==
    ASSUME IInv, HandInv, NodeInv', Ends, UNCHANGED hostVars,
           down' = down \/ (down # <<>> /\ down' = Tail(down))
    PROVE  HandInv'
BY ClosingHand DEF Ends, Doubt

LEMMA TurnsHand == ASSUME IInv, HandInv, NodeInv', TurnEnds \/ TurnBreaksOff PROVE HandInv'
<1>1. UNCHANGED <<hostVars, waiting, down>>
  BY DEF TurnEnds, TurnBreaksOff, NodeOnly
<1> QED
  BY <1>1, ClosingHand DEF TurnEnds, TurnBreaksOff, Doubt

\* A step of the Node that tells only of the lead, or nothing.
LEMMA EventHand ==
    ASSUME IInv, HandInv, NodeInv', UNCHANGED <<hostVars, waiting, journal>>,
           down' = down \/ (down # <<>> /\ down' = Tail(down)),
           NEW ev \in {"idle", "running", "ended"}, Tells(NoReceipts, <<Event(ev)>>)
    PROVE  HandInv'
<1>1. DOMAIN NoReceipts = {} /\ Recorded' = Recorded
  BY DEF NoReceipts, Recorded
<1>2. Recorded \subseteq AskedFor /\ \A q \in Prompts : waiting'[q] # 0 => q \in AskedFor
  BY DEF HandInv, OnlyAsked
<1> QED
  BY <1>1, <1>2, EventsAsked, TellingHand

LEMMA SilentHand ==
    ASSUME IInv, HandInv, UNCHANGED <<hostVars, journal>>, Silent,
           down' = down \/ (down # <<>> /\ down' = Tail(down)),
           \A p \in Prompts : waiting'[p] # 0 => p \in AskedFor
    PROVE  HandInv'
BY NodeHand DEF HandInv, OnlyAsked, LeadTyped, Silent, Recorded

LEMMA DeliverHand == ASSUME IInv, HandInv, DeliverArrives PROVE HandInv'
<1> USE DEF HandInv, OnlyAsked
<1>1. /\ down # <<>> /\ down' = Tail(down) /\ Head(down).k = "deliver"
      /\ waiting' = [waiting EXCEPT ![Head(down).p] = @ + 1]
      /\ UNCHANGED <<hostVars, journal>> /\ Silent
  BY DEF DeliverArrives, Arrives, NodeOnly
<1>2. Head(down) \in PromptFrames(AskedFor)
  BY <1>1, HeadTailProperties
<1>3. Head(down).p \in AskedFor
  BY <1>1, <1>2 DEF PromptFrames
<1>4. \A p \in Prompts : waiting'[p] # 0 => p \in AskedFor
  BY <1>1, <1>3 DEF IInv, NodeInv, NodeTyped, Counted
<1> QED
  BY <1>1, <1>4, SilentHand

\* What is repeated on a new connection and with the heartbeat.
LEMMA RepeatHand == ASSUME IInv, HandInv, Welcome \/ Flush PROVE HandInv'
<1> USE DEF IInv, HandInv, OnlyAsked
<1>1. /\ UNCHANGED <<hostVars, journal, waiting>> /\ held' \in BOOLEAN
      /\ down' = down \/ (down # <<>> /\ down' = Tail(down))
  BY DEF Welcome, Flush, Arrives, NodeOnly, LeadTyped
<1>2. \A sent : sent \subseteq Recorded =>
        SetToSeq({Receipt(p, journal[p]) : p \in sent}) \in Seq(AnswersOf(AskedFor))
  <2>1. \A p \in Recorded : journal[p] \in Answered /\ journal[p].st # None
    BY DEF Recorded, NodeInv, NodeTyped, Journalled
  <2>2. Recorded \subseteq AskedFor \cap Prompts
    BY DEF Recorded
  <2> QED
    BY <2>1, <2>2, ReceiptsAsked
<1>3. CASE Welcome
  <2>1. PICK sent \in Fitting(Recorded) :
          /\ up' = up \o SetToSeq({Receipt(p, journal[p]) : p \in sent})
                      \o IF held THEN <<Event(LastNews), [k |-> "inventory", st |-> State]>>
                         ELSE <<>>
          /\ owed' = Recorded \ sent
    BY <1>3 DEF Welcome, Recorded
  <2>2. sent \subseteq Recorded
    BY DEF Fitting
  <2>3. LastNews \in {"idle", "running", "ended"} /\ State \in {"idle", "running", "gone"}
    BY DEF LastNews, State
  <2>4. Event(LastNews) \in AnswersOf(AskedFor)
        /\ [k |-> "inventory", st |-> State] \in AnswersOf(AskedFor)
    BY <2>3, EventsAsked DEF AnswersOf, Frames
  <2>5. <<Event(LastNews), [k |-> "inventory", st |-> State]>> \in Seq(AnswersOf(AskedFor))
    BY <2>4, PairTold
  <2>6. up' \in Seq(AnswersOf(AskedFor))
    BY <1>2, <2>1, <2>2, <2>5, ConcatProperties, EmptySeq
  <2> QED
    BY <1>1, <2>1, <2>6, NodeHand DEF Recorded
<1>4. CASE Flush
  <2>1. PICK sent \in Fitting(owed) :
          /\ owed' = owed \ sent
          /\ up' = up \o SetToSeq({Receipt(p, journal[p]) : p \in sent})
    BY <1>4 DEF Flush
  <2>2. sent \subseteq Recorded
    BY DEF Fitting
  <2>3. up' \in Seq(AnswersOf(AskedFor))
    BY <1>2, <2>1, <2>2, ConcatProperties
  <2> QED
    BY <1>1, <2>1, <2>3, NodeHand DEF Recorded
<1> QED
  BY <1>3, <1>4

LEMMA HandInit == Init => HandInv
<1> SUFFICES ASSUME Init PROVE HandInv
  OBVIOUS
<1>1. OnlyAsked
  BY EmptySeq DEF Init, OnlyAsked, Recorded, Nothing, None
<1>2. LeadTyped /\ OneInHand
  BY DEF Init, LeadTyped, OneInHand, InHand, NewRow, Reserved, None
<1> QED
  BY <1>1, <1>2 DEF HandInv

LEMMA HandStep == ASSUME IInv, HandInv, NodeInv', [Next]_vars PROVE HandInv'
<1>1. CASE \E p \in Prompts : Enqueue(p) \/ Pump(p)
  BY <1>1, EnqueueHand, PumpHand
<1>2. CASE \E p \in Prompts : Withdraw(p)
  <2>1. PICK p \in Prompts : Withdraw(p)
    BY <1>2
  <2>2. {p} \cap {q \in Prompts : row[q].st = None} = {}
    BY <2>1 DEF Withdraw, None
  <2> QED
    BY <2>1, <2>2, RetireHand DEF Withdraw, HostOnly, nodeVars
<1>3. CASE \E p \in Prompts : Admit(p)
  BY <1>3, AdmitHand
<1>4. CASE Orphan \/ Stop
  <2>1. Unsettled \cap {q \in Prompts : row[q].st = None} = {}
    BY DEF Unsettled
  <2>2. /\ Retire(Unsettled) /\ lead' \in {lead, "ended"}
        /\ UNCHANGED <<up, waiting, journal, owed, held>>
        /\ down' = down \/ down' = Append(down, [k |-> "stop"])
    BY <1>4 DEF Orphan, Stop, HostOnly, nodeVars
  <2> QED
    BY <2>1, <2>2, RetireHand
<1>5. CASE HearReceipt \/ HearEvent \/ HearInventory \/ HangUp
  BY <1>5, HearReceiptHand, HearEventHand, HearInventoryHand, HangUpHand
<1>6. CASE Close \/ Break \/ NodeRestart \/ Reconnect
  BY <1>6, CutHand, RestartHand, ReconnectHand
<1>7. CASE Welcome \/ Flush \/ DeliverArrives
  BY <1>7, RepeatHand, DeliverHand
<1>8. CASE StopArrives \/ AgentExits
  <2>1. UNCHANGED hostVars /\ (down' = down \/ (down # <<>> /\ down' = Tail(down)))
    BY <1>8 DEF StopArrives, AgentExits, NodeOnly, Arrives
  <2>2. CASE Ends
    BY <2>1, <2>2, EndsHand
  <2>3. CASE Silent /\ UNCHANGED <<journal, waiting>>
    BY <2>1, <2>3, SilentHand DEF HandInv, OnlyAsked
  <2> QED
    BY <1>8, <2>2, <2>3 DEF StopArrives, AgentExits
<1>9. CASE ResumeArrives \/ OwnTurnBegins
  <2>1. UNCHANGED <<hostVars, waiting, journal>>
        /\ (down' = down \/ (down # <<>> /\ down' = Tail(down)))
    BY <1>9 DEF ResumeArrives, OwnTurnBegins, NodeOnly, Arrives
  <2> QED
    BY <1>9, <2>1, EventHand DEF ResumeArrives, OwnTurnBegins
<1>10. CASE TurnEnds \/ TurnBreaksOff
  BY <1>10, TurnsHand
<1>11. CASE UNCHANGED vars
  <2>1. UNCHANGED <<hostVars, waiting, journal, down>> /\ Silent
    BY <1>11 DEF vars, nodeVars, wire, Silent
  <2> QED
    BY <2>1, SilentHand DEF HandInv, OnlyAsked
<1> QED
  BY <1>1, <1>2, <1>3, <1>4, <1>5, <1>6, <1>7, <1>8, <1>9, <1>10, <1>11
     DEF Next, HostHears, NodeHears

LEMMA AtMostOne ==
    ASSUME OneInHand
    PROVE  Cardinality(InHand) <= 1
<1>1. CASE InHand = {}
  BY <1>1, FS_EmptySet
<1>2. CASE InHand # {}
  <2>1. PICK p : p \in InHand
    BY <1>2
  <2>2. InHand = {p}
    BY <2>1 DEF OneInHand
  <2>3. Cardinality({p}) = 1
    BY FS_Singleton
  <2> QED
    BY <2>2, <2>3
<1> QED
  BY <1>1, <1>2

\* Whatever is offered, refused, lost or repeated, the Host has at most one
\* prompt of the lead in hand, as the unique index of lead_prompt_deliveries
\* (lead_prompt_reservation) demands of every update, and rows and journal hold
\* what their schemas allow: for every set of prompts.
THEOREM OneInHandAlways == Spec => []TypeOK
<1>1. Init => IInv /\ HandInv
  BY NodeInit, HostInit, HandInit DEF IInv, Init, OwedTyped
<1>2. IInv /\ HandInv /\ [Next]_vars => (IInv /\ HandInv)'
  BY NodeStep, HostStep, OwedStep, HandStep DEF IInv
<1>3. IInv /\ HandInv => TypeOK
  BY AtMostOne DEF IInv, HandInv, TypeOK, HostInv, NodeInv, NodeTyped, Journalled, Occupied,
                   OwedTyped, LeadTyped, Rows, Answered
<1> QED
  BY <1>1, <1>2, <1>3, PTL DEF Spec

=============================================================================
