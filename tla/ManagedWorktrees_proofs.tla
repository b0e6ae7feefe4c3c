----------------------- MODULE ManagedWorktrees_proofs -----------------------
(***************************************************************************)
(* A session works only in a checkout that is there and usable, and what   *)
(* the Host has on record of the workspace is what the Node made of it,    *)
(* with or without the participation registry: for every number of         *)
(* operations, sessions and faults.                                        *)
(*                                                                         *)
(* RecordIsTrue is not inductive: that a result may be stored follows from *)
(* where it comes from (SaidIsRecorded) and from the version it was asked  *)
(* for (AskedForRow); that the Node is at work only on what is pending,    *)
(* from the answers it recorded (ClosedIsAnswered, WorkIsFresh).           *)
(* SessionInPlace rests on who holds the checkout's lock (LeaseTells) and  *)
(* on what an operation that is done is about to record (DoneIsUsable).    *)
(***************************************************************************)
EXTENDS ManagedWorktrees, SequenceTheorems, TLAPS

Trees == [state : States, version : Nat, clean : BOOLEAN]
Rows == [state : States \cup {"unavailable"}, version : Nat, clean : BOOLEAN]
AllKinds == Kinds \cup {"reserve"}

\* Operations asked for while the Host had counted n of them.
Asks(n) == [k : {"operation"}, id : 1 .. n, kind : AllKinds, expected : Nat]
DownFrames(n) == Asks(n) \cup [k : {"start"}]
Results(n) == [k : {"result"}, id : 1 .. n, ok : BOOLEAN, tree : Trees]
UpFrames(n) == Results(n) \cup [k : {"ended"}]

Ops == [id : 0 .. MaxOps, kind : AllKinds \cup {"none"}, expected : Nat, pending : BOOLEAN]
Holding == {"inside", "pinning", "adding", "added", "removing", "removed"}
Stages == [at : {"idle", "begun", "done"} \cup Holding, ok : BOOLEAN, tree : Trees]
Gits == [pin : BOOLEAN, branch : BOOLEAN, checkout : {"none", "clean", "dirty"}]
Leases == {"free", "session", "unsure session", "dead session", "cleanup", "dead cleanup"}
Names == {"operation", "session", "dead operation", "dead session"}
Locks == [admin : {"free", "held", "dead"}, lease : Leases, parts : SUBSET Names]

HostTyped ==
    /\ row \in Rows /\ binding \in {"pending", "reserved", "ready", "blocked"}
    /\ op \in Ops /\ (op.pending => op.id # 0 /\ op.kind # "none")
    /\ waiting \in BOOLEAN /\ over \in BOOLEAN /\ session \in BOOLEAN
WireTyped ==
    /\ link \in {"up", "down"} /\ (link = "down" => up = <<>> /\ down = <<>>)
    /\ down \in Seq(DownFrames(op.id)) /\ up \in Seq(UpFrames(op.id))
    /\ excused \subseteq {"missed", "refused", "overtaken"}
ReceiptsTyped ==
    /\ DOMAIN receipts \subseteq 1 .. op.id
    /\ \A i \in DOMAIN receipts : receipts[i] \in Results(op.id) /\ receipts[i].id = i
WorkTyped ==
    /\ queue \in Seq(Asks(op.id))
    /\ stage \in Stages
    /\ stage.at # "idle" => queue # <<>>
    /\ (locks.admin = "held") <=> (stage.at \in Holding)
NodeTyped ==
    /\ slot \in {"none", "checked", "joined", "working", "unsure"} /\ tree \in Trees
    /\ git \in Gits /\ (git.checkout # "none" => git.branch)
    /\ locks \in Locks

Typed == HostTyped /\ WireTyped /\ ReceiptsTyped /\ WorkTyped /\ NodeTyped

\* The checkout's lock is the session's while it is in, and the operation's
\* while it removes the checkout.
LeaseTells ==
    /\ slot \in {"joined", "working"} => locks.lease = "session"
    /\ slot = "unsure" => locks.lease = "unsure session"
    /\ stage.at \in {"removing", "removed"} => locks.lease = "cleanup"
    /\ stage.at = "removed" => git.checkout = "none"

\* What an operation is about to record of a usable checkout leaves it usable.
DoneIsUsable ==
    stage.at = "done" /\ tree.state \in Usable /\ git.checkout # "none" =>
        stage.tree = None \/ stage.tree.state \in Usable

SessionSafe == LeaseTells /\ DoneIsUsable /\ SessionInPlace

Synchronized == "refused" \notin excused

\* An answer says what the Node recorded.
Said(n, R) == {m \in UpFrames(n) : m.k = "result" => m.id \in DOMAIN R /\ m = R[m.id]}
SaidIsRecorded == Synchronized => up \in Seq(Said(op.id, receipts))

\* An operation is closed only by its answer, and carried out only before it.
ClosedIsAnswered ==
    Synchronized => \A i \in 1 .. op.id : i \in DOMAIN receipts \/ (i = op.id /\ op.pending)
WorkIsFresh == stage.at # "idle" => request.id \notin DOMAIN receipts

\* What is pending was asked for the version the Host has.
AskedForRow == op.pending => op.expected = row.version

\* The Host knows the last of the answers, but for the one it waits for.
Heard == DOMAIN receipts \ (IF op.pending THEN {op.id} ELSE {})
Before == {receipts[i].tree : i \in Heard} \ {None}
KnowsBefore ==
    Synchronized =>
        \/ Before = {} /\ row = None
        \/ \E t \in Before : /\ \A u \in Before : u.version <= t.version
                             /\ \/ row = t
                                \/ row = [t EXCEPT !.state = "unavailable"]

RecordSafe == SaidIsRecorded /\ ClosedIsAnswered /\ WorkIsFresh /\ AskedForRow /\ KnowsBefore

IInv == Typed /\ SessionSafe /\ RecordSafe

-----------------------------------------------------------------------------
(* Frames, and what the counting of operations changes of them.             *)

LEMMA NoneTyped == None \in Trees /\ None \in Rows
BY DEF None, Trees, Rows, States

\* More operations, more frames.
LEMMA FramesGrow ==
    ASSUME NEW m \in Nat, NEW n \in Nat, m <= n
    PROVE  /\ Asks(m) \subseteq Asks(n) /\ DownFrames(m) \subseteq DownFrames(n)
           /\ Results(m) \subseteq Results(n) /\ UpFrames(m) \subseteq UpFrames(n)
           /\ \A R : Said(m, R) \subseteq Said(n, R)
<1>1. 1 .. m \subseteq 1 .. n
  OBVIOUS
<1>2. Asks(m) \subseteq Asks(n) /\ DownFrames(m) \subseteq DownFrames(n)
  BY <1>1 DEF Asks, DownFrames
<1>3. Results(m) \subseteq Results(n) /\ UpFrames(m) \subseteq UpFrames(n)
  BY <1>1 DEF Results, UpFrames
<1> QED
  BY <1>2, <1>3 DEF Said

\* A frame from the Host, by its kind.
LEMMA DownFields ==
    ASSUME NEW n, NEW m \in DownFrames(n)
    PROVE  m.k \in {"operation", "start"} /\ (m.k = "operation" => m \in Asks(n))
BY DEF DownFrames, Asks

\* A result says what became of the workspace, or nothing of it.
LEMMA UpFields ==
    ASSUME NEW n, NEW m \in UpFrames(n)
    PROVE  /\ m.k \in {"result", "ended"}
           /\ m.k = "result" => m \in Results(n) /\ m.tree \in Trees /\ m.ok \in BOOLEAN
BY DEF UpFrames, Results

\* The states of the Host that leave what the Node recorded alone.
LEMMA HostKeeps ==
    ASSUME IInv, UNCHANGED <<process, disk>>, op.id <= op'.id, HostTyped', WireTyped',
           SaidIsRecorded', ClosedIsAnswered', AskedForRow', KnowsBefore'
    PROVE  IInv'
<1> USE DEF IInv, Typed, process, disk
<1>1. op.id \in Nat /\ op'.id \in Nat
  BY DEF HostTyped, Ops
<1>2. Asks(op.id) \subseteq Asks(op'.id) /\ Results(op.id) \subseteq Results(op'.id)
      /\ 1 .. op.id \subseteq 1 .. op'.id
  BY <1>1, FramesGrow
<1>3. ReceiptsTyped'
  BY <1>2 DEF ReceiptsTyped
<1>4. queue' \in Seq(Asks(op'.id))
  BY <1>2, SeqMonotonic DEF WorkTyped
<1>5. WorkTyped' /\ NodeTyped'
  BY <1>4 DEF WorkTyped, NodeTyped
<1>6. SessionSafe'
  BY DEF SessionSafe, LeaseTells, DoneIsUsable, SessionInPlace
<1>7. WorkIsFresh'
  BY DEF RecordSafe, WorkIsFresh, request
<1> QED
  BY <1>3, <1>5, <1>6, <1>7 DEF RecordSafe

\* The Host's row, as it was or unavailable, says the same of the answers.
LEMMA SameRow ==
    ASSUME HostTyped, AskedForRow, KnowsBefore, row' = row \/ row' = Lost(row),
           UNCHANGED <<op, receipts>>, Synchronized' => Synchronized
    PROVE  row' \in Rows /\ AskedForRow' /\ KnowsBefore'
<1>1. row' \in Rows /\ row'.version = row.version
  BY DEF HostTyped, Rows, Lost
<1>2. AskedForRow'
  BY <1>1 DEF AskedForRow
<1>3. Before' = Before
  BY DEF Before, Heard
<1>4. KnowsBefore'
  <2>1. CASE ~Synchronized
    BY <2>1 DEF KnowsBefore
  <2>2. CASE Before = {} /\ row = None
    BY <1>3, <2>2 DEF KnowsBefore, Lost, None
  <2>3. ASSUME NEW t \in Before, \A u \in Before : u.version <= t.version,
               row = t \/ row = [t EXCEPT !.state = "unavailable"]
        PROVE  row' = t \/ row' = [t EXCEPT !.state = "unavailable"]
    BY <2>3 DEF Lost, HostTyped, Rows
  <2> QED
    BY <1>3, <2>1, <2>2, <2>3 DEF KnowsBefore
<1> QED
  BY <1>1, <1>2, <1>4

\* A step of the Host or of the connection with no new operation and no answer.
LEMMA SameOperation ==
    ASSUME IInv, UNCHANGED <<process, disk, op>>,
           row' = row \/ row' = Lost(row),
           link' \in {"up", "down"}, link' = "down" => up' = <<>> /\ down' = <<>>,
           down' \in Seq(DownFrames(op.id)), up' \in Seq(UpFrames(op.id)),
           up \in Seq(Said(op.id, receipts)) => up' \in Seq(Said(op.id, receipts)),
           excused \subseteq excused', excused' \subseteq {"missed", "refused", "overtaken"},
           binding' \in {"pending", "reserved", "ready", "blocked"},
           waiting' \in BOOLEAN, over' \in BOOLEAN, session' \in BOOLEAN
    PROVE  IInv'
<1> USE DEF IInv, Typed, RecordSafe
<1>1. UNCHANGED <<process, disk, op, receipts>>
  BY DEF disk
<1>2. Synchronized' => Synchronized
  BY DEF Synchronized
<1>3. row' \in Rows /\ AskedForRow' /\ KnowsBefore'
  BY <1>1, <1>2, SameRow
<1>4. HostTyped' /\ WireTyped'
  BY <1>1, <1>3 DEF HostTyped, WireTyped
<1>5. SaidIsRecorded' /\ ClosedIsAnswered'
  BY <1>1, <1>2 DEF SaidIsRecorded, ClosedIsAnswered
<1>6. op.id <= op'.id
  BY <1>1 DEF HostTyped, Ops
<1> QED
  BY <1>1, <1>3, <1>4, <1>5, <1>6, HostKeeps

\* A new operation is pending, for the version of the row, and not answered.
LEMMA NewOperation ==
    ASSUME IInv, ~op.pending, op.id < MaxOps, NEW kind \in AllKinds, op' = NewOp(kind),
           waiting' = TRUE, down' = Append(down, Asked(NewOp(kind))), link' = "up",
           UNCHANGED <<row, binding, over, up, process, disk>>,
           excused \subseteq excused', excused' \subseteq {"missed", "refused", "overtaken"},
           session' \in BOOLEAN
    PROVE  IInv'
<1> USE DEF IInv, Typed, RecordSafe
<1>1. /\ op'.id = op.id + 1 /\ op'.pending /\ op'.kind # "none" /\ op'.expected = row.version /\ op' \in Ops
      /\ op.id \in Nat /\ op'.id \in Nat /\ op.id <= op'.id
  BY WorktreesAssumption DEF NewOp, HostTyped, Ops, Rows, AllKinds, Kinds
<1>2. Asked(NewOp(kind)) \in DownFrames(op'.id)
  BY <1>1 DEF Asked, NewOp, DownFrames, Asks, HostTyped, Rows
<1>3. down \in Seq(DownFrames(op'.id)) /\ up \in Seq(UpFrames(op'.id))
  BY <1>1, FramesGrow, SeqMonotonic DEF WireTyped
<1>4. down' \in Seq(DownFrames(op'.id))
  BY <1>2, <1>3, AppendProperties
<1>5. HostTyped' /\ WireTyped'
  BY <1>1, <1>3, <1>4 DEF HostTyped, WireTyped
<1>6. receipts' = receipts /\ (Synchronized' => Synchronized)
  BY DEF disk, Synchronized
<1>7. SaidIsRecorded'
  <2>1. Said(op.id, receipts) \subseteq Said(op'.id, receipts)
    BY <1>1, FramesGrow
  <2>2. Synchronized => up \in Seq(Said(op'.id, receipts))
    BY <2>1, SeqMonotonic DEF SaidIsRecorded
  <2> QED
    BY <1>6, <2>2 DEF SaidIsRecorded
<1>8. ClosedIsAnswered'
  BY <1>1, <1>6 DEF ClosedIsAnswered
<1>9. Heard' = Heard
  BY <1>1, <1>6 DEF Heard, ReceiptsTyped
<1>10. KnowsBefore'
  BY SMTT(30), <1>6, <1>9 DEF KnowsBefore, Before
<1>11. AskedForRow'
  BY <1>1 DEF AskedForRow
<1> QED
  BY <1>1, <1>5, <1>7, <1>8, <1>10, <1>11, HostKeeps

-----------------------------------------------------------------------------
(* The Host.                                                                *)

LEMMA RequestKeeps ==
    ASSUME IInv, NEW kind \in AllKinds, Request(kind),
           UNCHANGED <<row, binding, over, session, link, up, process, disk, excused>>
    PROVE  IInv'
<1> USE DEF IInv, Typed
<1>1. /\ ~op.pending /\ op.id < MaxOps /\ op' = NewOp(kind) /\ waiting' = TRUE
      /\ down' = Append(down, Asked(NewOp(kind))) /\ link' = "up"
  BY DEF Request, Up
<1>2. session' \in BOOLEAN /\ excused' \subseteq {"missed", "refused", "overtaken"}
  BY DEF HostTyped, WireTyped
<1> QED
  BY <1>1, <1>2, NewOperation

\* What an operation that is pending asks for, repeated or not.
LEMMA SendsTyped ==
    ASSUME HostTyped, WireTyped, op.pending
    PROVE  Sends(op, waiting, down) \in Seq(DownFrames(op.id))
<1>1. Asked(op) \in DownFrames(op.id)
  BY DEF HostTyped, Ops, Asked, DownFrames, Asks
<1>2. Append(down, Asked(op)) \in Seq(DownFrames(op.id))
  BY <1>1, AppendProperties DEF WireTyped
<1> QED
  BY <1>2 DEF Sends, WireTyped

LEMMA PrepareStep == ASSUME IInv, Prepare \/ EnsureReady PROVE IInv'
<1> USE DEF IInv, Typed
<1>1. UNCHANGED <<row, over, session, link, up, process, disk, bounds, excused>>
  BY DEF Prepare, EnsureReady
<1>2. CASE /\ binding' = binding
           /\ Request("reserve") \/ Request("create")
  BY <1>1, <1>2, RequestKeeps DEF AllKinds, Kinds
<1>3. CASE binding' = "blocked" /\ UNCHANGED <<op, waiting, down>>
  BY <1>1, <1>3, SameOperation DEF HostTyped, WireTyped
<1> QED
  BY <1>2, <1>3 DEF Prepare, EnsureReady

LEMMA OperateStep == ASSUME IInv, NEW kind \in Kinds, Operate(kind) PROVE IInv'
<1> USE DEF IInv, Typed
<1>1. UNCHANGED <<row, binding, over, session, link, up, process, disk, excused>>
  BY DEF Operate
<1>2. CASE Request(IF kind = "create" /\ row = None THEN "reserve" ELSE kind)
  BY <1>1, <1>2, RequestKeeps DEF AllKinds
<1>3. CASE Up /\ op.pending /\ down' = Sends(op, waiting, down) /\ waiting' = TRUE /\ UNCHANGED op
  BY <1>1, <1>3, SendsTyped, SameOperation DEF HostTyped, WireTyped, Up
<1> QED
  BY <1>2, <1>3 DEF Operate

LEMMA SweepStep == ASSUME IInv, Sweep PROVE IInv'
<1>1. UNCHANGED <<row, binding, over, session, link, up, process, disk, excused>>
      /\ (Request("retain") \/ Request("cleanup"))
  BY DEF Sweep
<1> QED
  BY <1>1, RequestKeeps DEF AllKinds, Kinds

LEMMA HostMovesStep == ASSUME IInv, Finish \/ Timeout \/ StartSession PROVE IInv'
<1> USE DEF IInv, Typed
<1>1. /\ UNCHANGED <<row, binding, op, link, up, process, disk, excused>>
      /\ over' \in BOOLEAN /\ waiting' \in BOOLEAN /\ session' \in BOOLEAN
  BY DEF Finish, Timeout, StartSession, wire, HostTyped
<1>2. [k |-> "start"] \in DownFrames(op.id)
  BY DEF DownFrames
<1>3. down' = down \/ (link = "up" /\ down' = Append(down, [k |-> "start"]))
  BY DEF Finish, Timeout, StartSession, wire, Up
<1>4. down' \in Seq(DownFrames(op.id))
  BY <1>2, <1>3, AppendProperties DEF WireTyped
<1> QED
  BY <1>1, <1>3, <1>4, SameOperation DEF HostTyped, WireTyped

LEMMA CutsStep == ASSUME IInv, Break \/ HostRestarts PROVE IInv'
<1> USE DEF IInv, Typed
<1>1. /\ link' = "down" /\ down' = <<>> /\ up' = <<>> /\ (row' = row \/ row' = Lost(row))
      /\ UNCHANGED <<binding, op, over, session, process, disk, excused>> /\ waiting' \in BOOLEAN
  BY DEF Break, HostRestarts, Cut, HostTyped
<1>2. /\ down' \in Seq(DownFrames(op.id)) /\ up' \in Seq(UpFrames(op.id))
      /\ up' \in Seq(Said(op.id, receipts))
  BY <1>1, EmptySeq
<1> QED
  BY <1>1, <1>2, SameOperation DEF HostTyped, WireTyped

LEMMA ConnectStep == ASSUME IInv, Connect PROVE IInv'
<1> USE DEF IInv, Typed
<1>1. /\ link' = "up" /\ session' \in BOOLEAN /\ excused \subseteq excused'
      /\ UNCHANGED <<row, binding, over, up, process, disk>>
      /\ excused' \subseteq {"missed", "refused", "overtaken"}
  BY DEF Connect, WireTyped
<1>2. CASE op.pending /\ down' = Sends(op, waiting, down) /\ waiting' = TRUE /\ UNCHANGED op
  BY <1>1, <1>2, SendsTyped, SameOperation DEF HostTyped, WireTyped
<1>3. CASE ~op.pending /\ UNCHANGED <<op, waiting, down>>
  BY <1>1, <1>3, SameOperation DEF HostTyped, WireTyped
<1>4. CASE /\ ~op.pending /\ op.id < MaxOps /\ op' = NewOp("reconcile") /\ waiting' = TRUE
           /\ down' = Append(down, Asked(NewOp("reconcile")))
  BY <1>1, <1>4, NewOperation DEF AllKinds, Kinds
<1> QED
  BY <1>2, <1>3, <1>4 DEF Connect

\* An answer that fits what is pending is the last of the answers.
LEMMA ResultKeeps ==
    ASSUME IInv, NEW m \in UpFrames(op.id), m.k = "result",
           Synchronized => m.id \in DOMAIN receipts /\ m = receipts[m.id],
           m.id = op.id, op.pending, Fits(m),
           row' = IF m.tree = None THEN row ELSE m.tree, binding' = Bound(m),
           op' = [op EXCEPT !.pending = FALSE], waiting' = FALSE,
           UNCHANGED <<session, over, link, down, process, disk, excused>>,
           up \in Seq(Said(op.id, receipts)) => up' \in Seq(Said(op.id, receipts)),
           up' \in Seq(UpFrames(op.id)), link = "up"
    PROVE  IInv'
<1> USE DEF IInv, Typed, RecordSafe
<1>1. m.tree \in Trees /\ m.tree \in Rows /\ m.ok \in BOOLEAN
  BY UpFields DEF Trees, Rows
<1>2. /\ op'.id = op.id /\ op'.expected = op.expected /\ ~op'.pending /\ op' \in Ops
      /\ op.id \in Nat /\ op.id <= op'.id
  <2>1. op \in Ops
    BY DEF HostTyped
  <2>2. op' \in Ops /\ op'.id = op.id /\ op'.expected = op.expected /\ ~op'.pending
    BY <2>1 DEF Ops
  <2> QED
    BY <2>1, <2>2 DEF Ops
<1>3. HostTyped' /\ WireTyped'
  BY <1>1, <1>2 DEF HostTyped, WireTyped, Bound
<1>4. receipts' = receipts /\ (Synchronized' <=> Synchronized)
  BY DEF disk, Synchronized
<1>5. SaidIsRecorded' /\ AskedForRow'
  BY <1>2, <1>4 DEF SaidIsRecorded, AskedForRow
<1>6. ClosedIsAnswered'
  BY <1>2, <1>4 DEF ClosedIsAnswered
<1>7. KnowsBefore'
  <2> SUFFICES ASSUME Synchronized
               PROVE  \/ Before' = {} /\ row' = None
                      \/ \E t \in Before' : /\ \A u \in Before' : u.version <= t.version
                                            /\ row' = t \/ row' = [t EXCEPT !.state = "unavailable"]
    BY <1>4 DEF KnowsBefore
  <2>1. Heard' = Heard \cup {op.id} /\ receipts[op.id] = m
    BY <1>2, <1>4 DEF Heard
  <2>2. Before' = (Before \cup {m.tree}) \ {None}
    BY <1>4, <2>1 DEF Before
  <2>3. CASE m.tree = None
    <3>1. Before' = Before /\ row' = row
      BY <2>2, <2>3 DEF Before
    <3> QED
      BY <3>1 DEF KnowsBefore
  <2>4. CASE m.tree # None
    <3>1. m.tree \in Before' /\ row' = m.tree
      BY <2>2, <2>4
    <3>2. m.tree.version > row.version
      BY <1>1, <2>4 DEF Fits, AskedForRow, HostTyped, Ops, Rows, Trees
    <3>3. \A u \in Before : u \in Trees
      BY DEF Before, Heard, ReceiptsTyped, Results
    <3>4. \A u \in Before : u.version <= row.version
      <4>1. ASSUME NEW t \in Before, \A u \in Before : u.version <= t.version,
                   row = t \/ row = [t EXCEPT !.state = "unavailable"]
            PROVE  row.version = t.version
        BY <3>3, <4>1 DEF Trees
      <4> QED
        BY <4>1 DEF KnowsBefore
    <3>5. \A u \in Before' : u.version <= m.tree.version
      BY <1>1, <2>2, <3>2, <3>3, <3>4 DEF Trees, HostTyped, Rows
    <3> QED
      BY <3>1, <3>5
  <2> QED
    BY <2>3, <2>4
<1> QED
  BY <1>2, <1>3, <1>5, <1>6, <1>7, HostKeeps

LEMMA HostReadsStep == ASSUME IInv, HostReads PROVE IInv'
<1> USE DEF IInv, Typed
<1> DEFINE m == Head(up)
<1>1. /\ up # <<>> /\ up' = Tail(up) /\ link = "up"
      /\ UNCHANGED <<over, link, down, process, disk, bounds, excused>>
  BY DEF HostReads, WireTyped
<1>2. m \in UpFrames(op.id) /\ up' \in Seq(UpFrames(op.id))
  BY <1>1, HeadTailProperties DEF WireTyped
<1>3. up \in Seq(Said(op.id, receipts)) =>
          m \in Said(op.id, receipts) /\ up' \in Seq(Said(op.id, receipts))
  BY <1>1, HeadTailProperties
<1>4. \/ m.k = "result" /\ HearResult(m)
      \/ m.k = "ended" /\ session' = FALSE /\ UNCHANGED <<row, binding, op, waiting>>
  BY DEF HostReads
<1> HIDE DEF m
<1>5. CASE m.k = "result" /\ m.id = op.id /\ op.pending /\ Fits(m)
  <2>1. /\ row' = IF m.tree = None THEN row ELSE m.tree
        /\ binding' = Bound(m) /\ op' = [op EXCEPT !.pending = FALSE] /\ waiting' = FALSE
        /\ session' = session
    BY <1>4, <1>5 DEF HearResult
  <2>2. Synchronized => m.id \in DOMAIN receipts /\ m = receipts[m.id]
    BY <1>3, <1>5 DEF RecordSafe, SaidIsRecorded, Said
  <2> QED
    BY <1>1, <1>2, <1>3, <1>5, <2>1, <2>2, ResultKeeps
<1>6. CASE UNCHANGED <<row, binding, op, waiting>> /\ session' \in BOOLEAN
  BY <1>1, <1>2, <1>3, <1>6, SameOperation DEF HostTyped, WireTyped
<1> QED
  BY <1>4, <1>5, <1>6 DEF HearResult, HostTyped

-----------------------------------------------------------------------------
(* The Node.                                                                *)

\* What the Node says goes after what is under way.
LEMMA TellKeeps ==
    ASSUME HostTyped, WireTyped, NEW m \in UpFrames(op.id), Tell(m)
    PROVE  /\ up' \in Seq(UpFrames(op.id)) /\ (link = "down" => up' = up)
           /\ \A R : m \in Said(op.id, R) /\ up \in Seq(Said(op.id, R))
                        => up' \in Seq(Said(op.id, R))
BY AppendProperties DEF Tell, Up, WireTyped

LEMMA EndedTyped ==
    ASSUME NEW n, NEW R
    PROVE  [k |-> "ended"] \in UpFrames(n) /\ [k |-> "ended"] \in Said(n, R)
BY DEF UpFrames, Said

\* A step of the Node records no answer.
LEMMA NodeKeeps ==
    ASSUME IInv, UNCHANGED <<host, link, receipts>>, WireTyped', WorkTyped', NodeTyped',
           SessionSafe', WorkIsFresh', Synchronized' => Synchronized, SaidIsRecorded'
    PROVE  IInv'
<1> USE DEF IInv, Typed, RecordSafe, host
<1>1. HostTyped' /\ ReceiptsTyped'
  BY DEF HostTyped, ReceiptsTyped
<1>2. ClosedIsAnswered' /\ AskedForRow'
  BY DEF ClosedIsAnswered, AskedForRow
<1>3. KnowsBefore'
  BY DEF KnowsBefore, Before, Heard
<1> QED
  BY <1>1, <1>2, <1>3

\* A step of an operation that is being carried out.
LEMMA CarriedKeeps ==
    ASSUME IInv, stage.at # "idle", UNCHANGED <<host, wire, queue, slot, receipts, excused>>,
           stage' \in Stages, stage'.at # "idle", NodeTyped',
           (locks'.admin = "held") <=> (stage'.at \in Holding), SessionSafe'
    PROVE  IInv'
<1> USE DEF IInv, Typed, RecordSafe, host, wire
<1>1. WireTyped' /\ WorkTyped'
  BY DEF WireTyped, WorkTyped
<1>2. WorkIsFresh' /\ (Synchronized' => Synchronized) /\ SaidIsRecorded'
  BY DEF WorkIsFresh, request, Synchronized, SaidIsRecorded
<1> QED
  BY <1>1, <1>2, NodeKeeps

\* What the operations need to know of a tree they end with: it is one, and
\* usable if t was.
LEMMA FailedTyped ==
    ASSUME NEW t \in Trees
    PROVE  Failed(t) \in Trees /\ (t.state \in Usable => Failed(t).state = t.state)
           /\ (t = None => Failed(t) = None)
<1>1. Failed(t) \in Trees
  BY DEF Failed, Trees, States
<1>2. t.state \in Usable => Failed(t).state = t.state
  BY DEF Failed, Trees, Usable
<1>3. t = None => Failed(t) = None
  BY DEF Failed, None
<1> QED
  BY <1>1, <1>2, <1>3

\* An operation that is over gives its locks up, and a reconciliation the lock
\* of an interrupted removal; no other.
Reclaimed == [Released EXCEPT !.lease = IF @ = "dead cleanup" THEN "free" ELSE @]

LEMMA ReleasedKeeps ==
    ASSUME NodeTyped, NEW l \in {Released, Reclaimed}
    PROVE  /\ l \in Locks /\ l.admin # "held"
           /\ locks.lease \in {"session", "unsure session"} => l.lease = locks.lease
<1>1. /\ Released \in Locks /\ Released.admin # "held"
      /\ locks.lease \in {"session", "unsure session"} => Released.lease = locks.lease
  BY DEF NodeTyped, Released, Locks, Leases
<1>2. /\ Reclaimed \in Locks /\ Reclaimed.admin = Released.admin
      /\ Released.lease # "dead cleanup" => Reclaimed.lease = Released.lease
  BY <1>1 DEF Reclaimed, Locks, Leases
<1> QED
  BY <1>1, <1>2

\* An operation is over, or has failed: what it ends with is usable if the
\* checkout is there and its workspace is.
LEMMA EndsKeeps ==
    ASSUME IInv, stage.at # "idle", NEW t \in Trees,
           \/ stage' = [at |-> "done", ok |-> TRUE, tree |-> t]
           \/ stage' = [at |-> "done", ok |-> FALSE, tree |-> Failed(t)],
           locks' \in {Released, Reclaimed},
           UNCHANGED <<host, wire, queue, slot, receipts, excused>>,
           tree' \in Trees, git' \in Gits, git'.checkout # "none" => git'.branch,
           slot = "working" => git'.checkout # "none" /\ tree'.state \in Usable,
           tree'.state \in Usable /\ git'.checkout # "none" => t = None \/ t.state \in Usable
    PROVE  IInv'
<1> USE DEF IInv, Typed
<1>1. /\ stage' \in Stages /\ stage'.at = "done"
      /\ t = None => stage'.tree = None
      /\ t.state \in Usable => stage'.tree.state \in Usable
  <2>1. CASE stage' = [at |-> "done", ok |-> TRUE, tree |-> t]
    BY <2>1 DEF Stages
  <2>2. CASE stage' = [at |-> "done", ok |-> FALSE, tree |-> Failed(t)]
    BY <2>2, FailedTyped DEF Stages
  <2> QED
    BY <2>1, <2>2
<1>2. NodeTyped' /\ locks'.admin # "held"
  BY ReleasedKeeps DEF NodeTyped
<1>3. LeaseTells'
  BY <1>1, ReleasedKeeps DEF SessionSafe, LeaseTells
<1>4. DoneIsUsable' /\ SessionInPlace'
  BY <1>1 DEF DoneIsUsable, SessionInPlace
<1> QED
  BY <1>1, <1>2, <1>3, <1>4, CarriedKeeps DEF SessionSafe, Holding

LEMMA OverKeeps ==
    ASSUME IInv, stage.at # "idle", NEW t \in Trees, Done(t) \/ Fails(t),
           UNCHANGED <<host, wire, queue, slot, receipts, excused>>,
           tree' \in Trees, git' \in Gits, git'.checkout # "none" => git'.branch,
           slot = "working" => git'.checkout # "none" /\ tree'.state \in Usable,
           tree'.state \in Usable /\ git'.checkout # "none" => t = None \/ t.state \in Usable
    PROVE  IInv'
BY EndsKeeps DEF Done, Fails

\* An operation that goes on, inside.
LEMMA GoesKeeps ==
    ASSUME IInv, stage.at \in Holding, NEW at \in Holding, Goes(at),
           UNCHANGED <<host, wire, queue, slot, receipts, excused>>,
           tree' \in Trees, git' \in Gits, git'.checkout # "none" => git'.branch,
           locks' \in Locks, locks'.admin = "held",
           slot \in {"joined", "working", "unsure"} => locks'.lease = locks.lease,
           at \in {"removing", "removed"} => locks'.lease = "cleanup",
           at = "removed" => git'.checkout = "none",
           slot = "working" => git'.checkout # "none" /\ tree'.state \in Usable
    PROVE  IInv'
<1> USE DEF IInv, Typed
<1>1. stage' \in Stages /\ stage'.at = at
  BY DEF Goes, WorkTyped, Stages
<1>2. NodeTyped'
  BY DEF NodeTyped
<1>3. LeaseTells'
  BY <1>1 DEF SessionSafe, LeaseTells
<1>4. DoneIsUsable' /\ SessionInPlace'
  BY <1>1 DEF DoneIsUsable, SessionInPlace, Holding
<1> QED
  BY <1>1, <1>2, <1>3, <1>4, CarriedKeeps DEF SessionSafe, Holding

LEMMA NodeReadsStep == ASSUME IInv, NodeReads PROVE IInv'
<1> USE DEF IInv, Typed, RecordSafe
<1> DEFINE m == Head(down)
<1>1. /\ down # <<>> /\ down' = Tail(down) /\ UNCHANGED <<host, link, stage, disk>>
      /\ link = "up" /\ op' = op
  BY DEF NodeReads, WireTyped, host
<1>2. m \in DownFrames(op.id) /\ down' \in Seq(DownFrames(op.id))
  BY <1>1, HeadTailProperties DEF WireTyped
<1>3. \/ m.k = "operation" /\ HearOperation(m)
      \/ m.k = "start" /\ HearStart
  BY DEF NodeReads
<1> HIDE DEF m
<1>4. NodeTyped' /\ SessionSafe'
  <2>1. UNCHANGED <<tree, receipts, git, locks>>
    BY <1>1 DEF disk
  <2>2. slot' = slot \/ (slot = "none" /\ slot' = "checked")
    BY <1>3 DEF HearOperation, HearStart
  <2> QED
    BY <1>1, <2>1, <2>2 DEF NodeTyped, SessionSafe, LeaseTells, DoneIsUsable, SessionInPlace
<1>5. CASE m.k = "operation" /\ queue' = queue /\ excused' = excused \cup {"refused"}
           /\ Tell(Result(m.id, FALSE, None))
  <2>1. m \in Asks(op.id)
    BY <1>2, <1>5, DownFields
  <2>2. Result(m.id, FALSE, None) \in UpFrames(op.id)
    BY <2>1, NoneTyped DEF Result, UpFrames, Results, Asks
  <2>3. up' \in Seq(UpFrames(op.id))
    BY <1>5, <2>2, TellKeeps
  <2>4. WireTyped' /\ WorkTyped'
    BY <1>1, <1>2, <1>5, <2>3 DEF WireTyped, WorkTyped, disk
  <2>5. ~Synchronized' /\ WorkIsFresh'
    BY <1>1, <1>5 DEF Synchronized, WorkIsFresh, request, disk
  <2> QED
    BY <1>1, <1>4, <2>4, <2>5, NodeKeeps DEF SaidIsRecorded, disk
<1>6. CASE m.k = "operation" /\ UNCHANGED <<up, excused>> /\ queue' \in {queue, Append(queue, m)}
  <2>1. m \in Asks(op.id)
    BY <1>2, <1>6, DownFields
  <2>2. queue' \in Seq(Asks(op.id))
    BY <1>6, <2>1, AppendProperties DEF WorkTyped
  <2>3. queue # <<>> => queue' # <<>> /\ Head(queue') = Head(queue)
    BY <1>6, <2>1, AppendProperties, HeadTailAppend DEF WorkTyped
  <2>4. WireTyped' /\ WorkTyped'
    BY <1>1, <1>2, <1>6, <2>2, <2>3 DEF WireTyped, WorkTyped, disk
  <2>5. WorkIsFresh' /\ (Synchronized' => Synchronized) /\ SaidIsRecorded'
    BY <1>1, <1>6, <2>3 DEF WorkTyped, WorkIsFresh, request, Synchronized, SaidIsRecorded, disk
  <2> QED
    BY <1>1, <1>4, <2>4, <2>5, NodeKeeps DEF disk
<1>7. CASE m.k = "start" /\ UNCHANGED <<queue, excused>>
           /\ (up' = up \/ Tell([k |-> "ended"]))
  <2>1. /\ up' \in Seq(UpFrames(op.id))
        /\ up \in Seq(Said(op.id, receipts)) => up' \in Seq(Said(op.id, receipts))
    BY <1>7, EndedTyped, TellKeeps DEF WireTyped
  <2>2. WireTyped' /\ WorkTyped'
    BY <1>1, <1>2, <1>7, <2>1 DEF WireTyped, WorkTyped, disk
  <2>3. WorkIsFresh' /\ (Synchronized' => Synchronized) /\ SaidIsRecorded'
    BY <1>1, <1>7, <2>1 DEF WorkIsFresh, request, Synchronized, SaidIsRecorded, disk
  <2> QED
    BY <1>1, <1>4, <2>2, <2>3, NodeKeeps DEF disk
<1> QED
  BY <1>3, <1>5, <1>6, <1>7 DEF HearOperation, HearStart

\* The first of the queue, and the others.
LEMMA FirstTyped ==
    ASSUME WorkTyped, queue # <<>>
    PROVE  request \in Asks(op.id) /\ Tail(queue) \in Seq(Asks(op.id))
BY HeadTailProperties DEF WorkTyped, request

\* An answer that was recorded is given again; else the work begins.
LEMMA BeginStep == ASSUME IInv, Begin PROVE IInv'
<1> USE DEF IInv, Typed, RecordSafe
<1>1. /\ queue # <<>> /\ stage.at = "idle"
      /\ UNCHANGED <<host, link, down, slot, tree, receipts, git, bounds, excused>> /\ op' = op
  BY DEF Begin, host
<1>2. CASE /\ request.id \in DOMAIN receipts
           /\ Tell(receipts[request.id]) /\ queue' = Tail(queue) /\ UNCHANGED <<stage, locks>>
  <2>1. receipts[request.id] \in UpFrames(op.id) /\ receipts[request.id].id = request.id
    BY <1>2 DEF ReceiptsTyped, UpFrames
  <2>2. receipts[request.id] \in Said(op.id, receipts)
    BY <1>2, <2>1 DEF Said
  <2>3. /\ up' \in Seq(UpFrames(op.id)) /\ (link = "down" => up' = up)
        /\ up \in Seq(Said(op.id, receipts)) => up' \in Seq(Said(op.id, receipts))
    BY <1>2, <2>1, <2>2, TellKeeps
  <2>4. queue' \in Seq(Asks(op.id))
    BY <1>1, <1>2, FirstTyped
  <2>5. WireTyped' /\ WorkTyped' /\ NodeTyped'
    BY <1>1, <1>2, <2>3, <2>4 DEF WireTyped, WorkTyped, NodeTyped
  <2>6. SessionSafe'
    BY <1>1, <1>2 DEF SessionSafe, LeaseTells, DoneIsUsable, SessionInPlace
  <2>7. WorkIsFresh' /\ (Synchronized' => Synchronized) /\ SaidIsRecorded'
    BY <1>1, <1>2, <2>3 DEF WorkIsFresh, Synchronized, SaidIsRecorded
  <2> QED
    BY <1>1, <2>5, <2>6, <2>7, NodeKeeps
<1>3. CASE /\ request.id \notin DOMAIN receipts /\ UNCHANGED <<queue, up>>
           /\ \/ stage' = [Idle EXCEPT !.at = "done"] /\ UNCHANGED locks
              \/ Goes("begun") /\ locks' = [locks EXCEPT !.admin =
                                     IF request.kind = "reconcile" /\ @ = "dead" THEN "free" ELSE @]
  <2>1. stage' \in Stages /\ (stage'.at = "begun" \/ (stage'.at = "done" /\ stage'.tree = None))
    BY <1>3, NoneTyped DEF Goes, Idle, Stages, WorkTyped
  <2>2. locks' \in Locks /\ locks'.lease = locks.lease /\ locks'.admin # "held"
    BY <1>1, <1>3 DEF NodeTyped, Locks, WorkTyped, Holding
  <2>3. WireTyped' /\ WorkTyped' /\ NodeTyped'
    BY <1>1, <1>3, <2>1, <2>2 DEF WireTyped, WorkTyped, NodeTyped, Holding
  <2>4. SessionSafe'
    BY <1>1, <2>1, <2>2 DEF SessionSafe, LeaseTells, DoneIsUsable, SessionInPlace
  <2>5. WorkIsFresh' /\ (Synchronized' => Synchronized) /\ SaidIsRecorded'
    BY <1>1, <1>3 DEF WorkIsFresh, request, Synchronized, SaidIsRecorded
  <2> QED
    BY <1>1, <2>3, <2>4, <2>5, NodeKeeps
<1> QED
  BY <1>2, <1>3 DEF Begin

LEMMA EnterStep == ASSUME IInv, Enter PROVE IInv'
<1> USE DEF IInv, Typed
<1>1. /\ stage.at = "begun" /\ UNCHANGED <<tree, git>>
      /\ UNCHANGED <<host, wire, queue, slot, receipts, excused>>
  BY DEF Enter, Working, Untouched
<1>2. CASE Fails(tree) \/ Fails(None)
  BY <1>1, <1>2, NoneTyped, OverKeeps DEF NodeTyped, SessionSafe, SessionInPlace
<1>3. CASE /\ Goes("inside")
           /\ locks' = [locks EXCEPT !.admin = "held",
                                     !.parts = IF Registry THEN @ \cup {"operation"} ELSE @]
  <2>1. stage' \in Stages /\ stage'.at = "inside"
    BY <1>3 DEF Goes, WorkTyped, Stages, Holding
  <2>2. locks' \in Locks /\ locks'.admin = "held" /\ locks'.lease = locks.lease
    BY <1>3 DEF NodeTyped, Locks, Names
  <2>3. NodeTyped'
    BY <1>1, <2>2 DEF NodeTyped
  <2>4. SessionSafe'
    BY <1>1, <2>1, <2>2 DEF SessionSafe, LeaseTells, DoneIsUsable, SessionInPlace
  <2> QED
    BY <1>1, <2>1, <2>2, <2>3, <2>4, CarriedKeeps DEF Holding
<1> QED
  BY <1>2, <1>3 DEF Enter

\* The parts of an operation's state that its steps start from.
LEMMA AtWork ==
    ASSUME IInv, stage.at \in Holding
    PROVE  /\ tree \in Trees /\ git \in Gits /\ (git.checkout # "none" => git.branch)
           /\ locks \in Locks /\ locks.admin = "held"
           /\ slot = "working" => git.checkout # "none" /\ tree.state \in Usable
           /\ \A st \in States : [tree EXCEPT !.state = st] \in Trees
           /\ \A st \in States, c \in BOOLEAN :
                 /\ [tree EXCEPT !.state = st, !.clean = c] \in Trees
                 /\ [tree EXCEPT !.state = st, !.clean = c].state = st
BY DEF IInv, Typed, NodeTyped, WorkTyped, SessionSafe, SessionInPlace, Trees

LEMMA ReserveStep == ASSUME IInv, Reserve \/ Pin PROVE IInv'
<1>1. /\ stage.at \in {"inside", "pinning"} /\ stage.at \in Holding
      /\ UNCHANGED <<host, wire, queue, slot, receipts, excused>>
  BY DEF Reserve, Pin, Inside, Working, Untouched, Holding
<1>2. CASE (Done(tree) \/ Fails(None)) /\ UNCHANGED <<tree, git>>
  BY <1>1, <1>2, AtWork, NoneTyped, OverKeeps
<1>3. CASE /\ tree = None /\ tree' = [None EXCEPT !.state = "reserved"] /\ Goes("pinning")
           /\ UNCHANGED <<locks, git>>
  <2>1. tree' \in Trees /\ slot # "working"
    BY <1>1, <1>3, AtWork DEF None, Trees, States, Usable
  <2> QED
    BY <1>1, <1>3, <2>1, AtWork, GoesKeeps DEF Holding
<1>4. CASE Done(tree) /\ tree' = tree /\ git' = [git EXCEPT !.pin = TRUE]
  <2>1. git' \in Gits /\ git'.checkout = git.checkout /\ git'.branch = git.branch
    BY <1>1, <1>4, AtWork DEF Gits
  <2> QED
    BY <1>1, <1>4, <2>1, AtWork, OverKeeps
<1> QED
  BY <1>2, <1>3, <1>4 DEF Reserve, Pin

\* The steps of a creation and of a removal.
Carried == UNCHANGED <<host, wire, queue, slot, receipts, excused>>

\* A workspace without its directory: no session works in it.
LEMMA MissingKeeps ==
    ASSUME IInv, stage.at \in Holding, Carried, Missing, git.checkout = "none"
    PROVE  IInv'
<1> DEFINE t == [tree EXCEPT !.state = "missing"]
<1>1. t \in Trees
  BY AtWork DEF States
<1>2. tree' = t /\ Fails(t) /\ git' = git
  BY DEF Missing
<1> HIDE DEF t
<1> QED
  BY <1>1, <1>2, AtWork, OverKeeps DEF Holding, Carried

LEMMA VerifyKeeps ==
    ASSUME IInv, stage.at \in Holding, Carried, Verify
    PROVE  IInv'
<1> DEFINE t == [tree EXCEPT !.state = "ready", !.clean = TRUE]
<1>1. t \in Trees /\ t.state = "ready"
  BY AtWork DEF States
<1>2. tree' = tree /\ git' = (IF Clean THEN [git EXCEPT !.pin = FALSE] ELSE git)
      /\ (Done(t) \/ Fails(tree))
  BY DEF Verify
<1> HIDE DEF t
<1>3. git' \in Gits /\ git'.checkout = git.checkout /\ git'.branch = git.branch
  BY <1>2, AtWork DEF Gits
<1> QED
  BY <1>1, <1>2, <1>3, AtWork, OverKeeps DEF Holding, Carried, Usable

LEMMA CreateStep == ASSUME IInv, Create PROVE IInv'
<1>1. stage.at = "inside" /\ stage.at \in Holding /\ Carried
  BY DEF Create, Inside, Working, Untouched, Holding, Carried
<1>2. CASE (Done(tree) \/ Fails(tree)) /\ UNCHANGED <<tree, git>>
  BY <1>1, <1>2, AtWork, OverKeeps DEF Carried
<1>3. CASE git.checkout = "none" /\ Missing
  BY <1>1, <1>3, MissingKeeps
<1>4. CASE Verify
  BY <1>1, <1>4, VerifyKeeps
<1>5. CASE /\ git.checkout = "none" /\ git' = [git EXCEPT !.pin = TRUE]
           /\ tree' = [tree EXCEPT !.state = "creating"] /\ Goes("adding") /\ UNCHANGED locks
  <2>1. tree' \in Trees
    BY <1>1, <1>5, AtWork DEF States
  <2>2. git' \in Gits /\ git'.checkout = git.checkout /\ git'.branch = git.branch
    BY <1>1, <1>5, AtWork DEF Gits
  <2> QED
    BY <1>1, <1>5, <2>1, <2>2, AtWork, GoesKeeps DEF Holding, Carried
<1> QED
  BY <1>2, <1>3, <1>4, <1>5 DEF Create

LEMMA AddStep == ASSUME IInv, Add \/ AddVerified PROVE IInv'
<1>1. stage.at \in {"adding", "added"} /\ stage.at \in Holding /\ Carried
  BY DEF Add, AddVerified, Working, Rest, Untouched, Holding, Carried
<1>2. Added \in Gits /\ HalfAdded \in Gits /\ Added.branch /\ HalfAdded.branch
      /\ Added.checkout = "clean" /\ HalfAdded.checkout = git.checkout
  BY <1>1, AtWork DEF Added, HalfAdded, Gits
<1>3. CASE git' = Added /\ Goes("added") /\ UNCHANGED <<locks, tree>>
  BY <1>1, <1>2, <1>3, AtWork, GoesKeeps DEF Holding, Carried
<1>4. CASE git' \in {git, HalfAdded} /\ Fails(tree) /\ UNCHANGED tree
  BY <1>1, <1>2, <1>4, AtWork, OverKeeps DEF Holding, Carried
<1>5. CASE Verify
  BY <1>1, <1>5, VerifyKeeps
<1> QED
  BY <1>3, <1>4, <1>5 DEF Add, AddVerified

LEMMA LookStep == ASSUME IInv, Look PROVE IInv'
<1>1. stage.at = "inside" /\ stage.at \in Holding /\ Carried
  BY DEF Look, Inside, Working, Untouched, Holding, Carried
<1>2. CASE (Done(tree) \/ Fails(tree)) /\ UNCHANGED <<tree, git>>
  BY <1>1, <1>2, AtWork, OverKeeps DEF Carried
<1>3. CASE git.checkout = "none" /\ Missing
  BY <1>1, <1>3, MissingKeeps
<1> DEFINE t == [tree EXCEPT !.clean = Clean,
                     !.state = IF request.kind = "retain" THEN "retained" ELSE @]
<1>4. CASE Done(t) /\ UNCHANGED <<tree, git>>
  <2>1. tree \in Trees
    BY <1>1, AtWork
  <2>2. t \in Trees /\ (t.state = tree.state \/ t.state = "retained")
    BY <2>1 DEF Trees, States, Clean
  <2> HIDE DEF t
  <2> QED
    BY <1>1, <1>4, <2>2, AtWork, OverKeeps DEF Carried, Usable
<1> QED
  BY <1>2, <1>3, <1>4 DEF Look

LEMMA ReconcilesKeeps ==
    ASSUME IInv, stage.at \in Holding, Carried, Reconciles, UNCHANGED <<tree, git>>
    PROVE  IInv'
<1>1. tree \in Trees
  BY AtWork
<1>2. Found \in Trees /\ (git.checkout # "none" => Found.state = "retained")
  BY <1>1 DEF Found, Trees, States, Clean
<1>3. locks' \in {Released, Reclaimed}
  BY DEF Reconciles, Reclaimed
<1>4. \/ stage' = [at |-> "done", ok |-> FALSE, tree |-> Failed(tree)]
      \/ stage' = [at |-> "done", ok |-> TRUE, tree |-> Found]
  BY DEF Reconciles
<1> QED
  BY <1>1, <1>2, <1>3, <1>4, AtWork, EndsKeeps DEF Carried, Holding, Usable

LEMMA ReconcileStep == ASSUME IInv, Reconcile PROVE IInv'
<1>1. stage.at \in Holding /\ Carried /\ Reconciles /\ UNCHANGED <<tree, git>>
  BY DEF Reconcile, Inside, Working, Untouched, Holding, Carried
<1> QED
  BY <1>1, ReconcilesKeeps

\* A removal begins when nobody holds the checkout.
LEMMA CleanupStep == ASSUME IInv, Cleanup PROVE IInv'
<1>1. stage.at = "inside" /\ stage.at \in Holding /\ Carried
  BY DEF Cleanup, Inside, Working, Untouched, Holding, Carried
<1>2. CASE (Done(tree) \/ Fails(tree)) /\ UNCHANGED <<tree, git>>
  BY <1>1, <1>2, AtWork, OverKeeps DEF Carried
<1>3. CASE git.checkout = "none" /\ Missing
  BY <1>1, <1>3, MissingKeeps
<1>4. CASE Reconciles /\ UNCHANGED <<tree, git>>
  BY <1>1, <1>4, ReconcilesKeeps
<1>5. CASE /\ locks.lease = "free" /\ locks' = [locks EXCEPT !.lease = "cleanup"]
           /\ tree' = [tree EXCEPT !.state = "removing"] /\ Goes("removing") /\ UNCHANGED git
  <2>1. tree' \in Trees
    BY <1>1, <1>5, AtWork DEF States
  <2>2. locks' \in Locks /\ locks'.admin = "held" /\ locks'.lease = "cleanup"
    BY <1>1, <1>5, AtWork DEF Locks, Leases
  <2>3. slot \notin {"joined", "working", "unsure"}
    BY <1>5 DEF IInv, SessionSafe, LeaseTells
  <2> QED
    BY <1>1, <1>5, <2>1, <2>2, <2>3, AtWork, GoesKeeps DEF Holding, Carried
<1> QED
  BY <1>2, <1>3, <1>4, <1>5 DEF Cleanup

LEMMA RemoveStep == ASSUME IInv, Remove \/ RemoveVerified PROVE IInv'
<1>1. stage.at \in {"removing", "removed"} /\ stage.at \in Holding /\ Carried
  BY DEF Remove, RemoveVerified, Working, Rest, Untouched, Holding, Carried
<1>2. locks.lease = "cleanup" /\ slot \notin {"joined", "working", "unsure"}
      /\ (stage.at = "removed" => git.checkout = "none")
  BY <1>1 DEF IInv, SessionSafe, LeaseTells
<1>3. CASE Clean /\ git' = Removed /\ Goes("removed") /\ UNCHANGED <<locks, tree>>
  <2>1. git' \in Gits /\ git'.checkout = "none"
    BY <1>1, <1>3, AtWork DEF Removed, Gits, Clean
  <2> QED
    BY <1>1, <1>2, <1>3, <2>1, AtWork, GoesKeeps DEF Holding, Carried
<1>4. CASE UNCHANGED <<git, tree>> /\ Fails(tree)
  BY <1>1, <1>4, AtWork, OverKeeps DEF Carried
<1>5. CASE /\ stage.at = "removed" /\ Done([tree EXCEPT !.state = "removed"])
           /\ UNCHANGED <<git, tree>>
  <2>1. [tree EXCEPT !.state = "removed"] \in Trees
    BY <1>1, AtWork DEF States
  <2> QED
    BY <1>1, <1>2, <1>5, <2>1, AtWork, OverKeeps DEF Carried
<1> QED
  BY <1>3, <1>4, <1>5 DEF Remove, RemoveVerified, Working

\* The answer is the only one of its operation, and of one that is pending
\* unless an operation was refused: the Host does not know it yet.
LEMMA CommitStep == ASSUME IInv, Commit PROVE IInv'
<1> USE DEF IInv, Typed, RecordSafe
<1> DEFINE t == IF stage.tree = None THEN None ELSE [stage.tree EXCEPT !.version = @ + 1]
           answer == Result(request.id, stage.ok, t)
<1>1. /\ stage.at = "done" /\ tree' = (IF t = None THEN tree ELSE t)
      /\ receipts' = [i \in DOMAIN receipts \cup {request.id} |->
                         IF i = request.id THEN answer ELSE receipts[i]]
      /\ Tell(answer) /\ queue' = Tail(queue) /\ stage' = Idle
      /\ UNCHANGED <<host, link, down, slot, git, locks, bounds, excused>>
  BY DEF Commit, Working
<1>2. queue # <<>> /\ request \in Asks(op.id) /\ queue' \in Seq(Asks(op.id))
  BY <1>1, FirstTyped DEF WorkTyped
<1>3. /\ t \in Trees /\ (t = None <=> stage.tree = None)
      /\ stage.tree # None => t.state = stage.tree.state
  <2>1. stage.tree \in Trees
    BY DEF WorkTyped, Stages
  <2> QED
    BY <2>1, NoneTyped DEF Trees, None
<1>4. answer \in Results(op.id) /\ answer.id = request.id /\ answer \in UpFrames(op.id)
  BY <1>2, <1>3 DEF Result, Results, Asks, UpFrames, WorkTyped, Stages
<1> HIDE DEF answer
<1>5. request.id \notin DOMAIN receipts /\ request.id \in 1 .. op.id
  BY <1>1, <1>2 DEF WorkIsFresh, Asks
<1>6. /\ DOMAIN receipts' = DOMAIN receipts \cup {request.id} /\ receipts'[request.id] = answer
      /\ \A i \in DOMAIN receipts : receipts'[i] = receipts[i]
  BY <1>1, <1>5
<1>7. UNCHANGED <<row, binding, op, waiting, over, session>>
  BY <1>1 DEF host
<1>8. HostTyped' /\ ReceiptsTyped'
  BY <1>4, <1>5, <1>6, <1>7 DEF HostTyped, ReceiptsTyped
<1>9. /\ up' \in Seq(UpFrames(op.id)) /\ (link = "down" => up' = up)
      /\ \A R : answer \in Said(op.id, R) /\ up \in Seq(Said(op.id, R))
                    => up' \in Seq(Said(op.id, R))
  BY <1>1, <1>4, TellKeeps
<1>10. WireTyped' /\ WorkTyped'
  BY <1>1, <1>2, <1>7, <1>9, NoneTyped DEF WireTyped, WorkTyped, Idle, Stages, Holding
<1>11. SaidIsRecorded'
  <2>1. Said(op.id, receipts) \subseteq Said(op.id, receipts')
    BY <1>6 DEF Said
  <2>2. Synchronized => up \in Seq(Said(op.id, receipts'))
    BY <2>1, SeqMonotonic DEF SaidIsRecorded
  <2>3. answer \in Said(op.id, receipts')
    BY <1>4, <1>6 DEF Said
  <2> QED
    BY <1>1, <1>7, <1>9, <2>2, <2>3 DEF SaidIsRecorded, Synchronized
<1> HIDE DEF t
<1>12. NodeTyped'
  BY <1>1, <1>3 DEF NodeTyped
<1>13. SessionSafe'
  BY <1>1, <1>3 DEF SessionSafe, LeaseTells, DoneIsUsable, SessionInPlace, Idle
<1>14. WorkIsFresh' /\ AskedForRow' /\ ClosedIsAnswered'
  BY <1>1, <1>6, <1>7 DEF WorkIsFresh, AskedForRow, ClosedIsAnswered, Idle, Synchronized
<1>15. Synchronized => Heard' = Heard
  BY <1>5, <1>6, <1>7 DEF Heard, ClosedIsAnswered
<1>16. Synchronized => Before' = Before
  BY <1>6, <1>7, <1>15 DEF Before, Heard
<1>17. KnowsBefore'
  BY <1>1, <1>7, <1>16 DEF KnowsBefore, Synchronized
<1> QED
  BY <1>8, <1>10, <1>11, <1>12, <1>13, <1>14, <1>17

-----------------------------------------------------------------------------
(* The session and the process.                                             *)

\* A step of the session: what it says and which locks it holds.
LEMMA SessionKeeps ==
    ASSUME IInv, SessionOnly, up' = up \/ Tell([k |-> "ended"]), NodeTyped',
           locks'.admin = locks.admin, SessionSafe',
           excused \subseteq excused', excused' \subseteq {"missed", "refused", "overtaken"}
    PROVE  IInv'
<1> USE DEF IInv, Typed, RecordSafe, SessionOnly
<1>1. /\ up' \in Seq(UpFrames(op.id)) /\ (link = "down" => up' = up)
      /\ up \in Seq(Said(op.id, receipts)) => up' \in Seq(Said(op.id, receipts))
  BY EndedTyped, TellKeeps DEF WireTyped
<1>2. op' = op
  BY DEF host
<1>3. WireTyped' /\ WorkTyped'
  BY <1>1, <1>2 DEF WireTyped, WorkTyped
<1>4. WorkIsFresh' /\ (Synchronized' => Synchronized) /\ SaidIsRecorded'
  BY <1>1, <1>2 DEF WorkIsFresh, request, Synchronized, SaidIsRecorded
<1> QED
  BY <1>3, <1>4, NodeKeeps

LEMMA SessionLeavesTyped ==
    ASSUME NodeTyped
    PROVE  SessionLeaves \in Locks /\ SessionLeaves.admin = locks.admin
BY DEF NodeTyped, SessionLeaves, Locks, Leases

LEMMA JoinStep == ASSUME IInv, Join PROVE IInv'
<1> USE DEF IInv, Typed
<1>1. slot = "checked" /\ UNCHANGED <<tree, git, bounds, excused>> /\ SessionOnly
  BY DEF Join
<1>2. CASE slot' = "none" /\ Tell([k |-> "ended"]) /\ UNCHANGED locks
  BY <1>1, <1>2, SessionKeeps DEF NodeTyped, SessionSafe, LeaseTells, DoneIsUsable,
                                  SessionInPlace, SessionOnly, WireTyped
<1>3. CASE /\ locks.lease = "free" /\ slot' = "joined" /\ UNCHANGED up
           /\ locks' = [locks EXCEPT !.lease = "session",
                                     !.parts = IF Registry THEN @ \cup {"session"} ELSE @]
  <2>1. locks' \in Locks /\ locks'.lease = "session" /\ locks'.admin = locks.admin
    BY <1>3 DEF NodeTyped, Locks, Leases, Names
  <2>2. NodeTyped'
    BY <1>1, <1>3, <2>1 DEF NodeTyped
  <2>3. SessionSafe'
    BY <1>1, <1>3, <2>1 DEF SessionSafe, LeaseTells, DoneIsUsable, SessionInPlace, SessionOnly
  <2> QED
    BY <1>1, <1>3, <2>1, <2>2, <2>3, SessionKeeps DEF WireTyped
<1> QED
  BY <1>2, <1>3 DEF Join

\* With the lock held, what is verified stays so.
LEMMA ReenterStep == ASSUME IInv, Reenter PROVE IInv'
<1> USE DEF IInv, Typed
<1>1. slot = "joined" /\ UNCHANGED <<tree, git, bounds, excused>> /\ SessionOnly
  BY DEF Reenter
<1>2. locks.lease = "session" /\ stage.at \notin {"removing", "removed"}
  BY <1>1 DEF SessionSafe, LeaseTells
<1>3. CASE /\ tree.state \in Usable /\ git.checkout # "none" /\ slot' = "working"
           /\ UNCHANGED <<up, locks>>
  BY <1>1, <1>2, <1>3, SessionKeeps DEF NodeTyped, SessionSafe, LeaseTells, DoneIsUsable,
                                        SessionInPlace, SessionOnly, WireTyped
<1>4. CASE slot' = "none" /\ Tell([k |-> "ended"]) /\ locks' = SessionLeaves
  <2>1. locks' \in Locks /\ locks'.admin = locks.admin
    BY <1>4, SessionLeavesTyped
  <2>2. NodeTyped' /\ SessionSafe'
    BY <1>1, <1>2, <1>4, <2>1 DEF NodeTyped, SessionSafe, LeaseTells, DoneIsUsable,
                                  SessionInPlace, SessionOnly
  <2> QED
    BY <1>1, <1>4, <2>1, <2>2, SessionKeeps DEF WireTyped
<1> QED
  BY <1>3, <1>4 DEF Reenter

LEMMA EditStep == ASSUME IInv, Edit PROVE IInv'
<1> USE DEF IInv, Typed
<1>1. /\ slot = "working" /\ git.checkout # "none" /\ SessionOnly
      /\ UNCHANGED <<slot, up, locks, tree, bounds, excused>>
      /\ git' = [git EXCEPT !.checkout = IF Clean THEN "dirty" ELSE "clean"]
  BY DEF Edit
<1>2. git' \in Gits /\ git'.checkout # "none" /\ git'.branch = git.branch
  BY <1>1 DEF NodeTyped, Gits
<1>3. locks.lease = "session" /\ stage.at \notin {"removing", "removed"}
  BY <1>1 DEF SessionSafe, LeaseTells
<1>4. NodeTyped' /\ SessionSafe'
  BY <1>1, <1>2, <1>3 DEF NodeTyped, SessionSafe, LeaseTells, DoneIsUsable, SessionInPlace,
                          SessionOnly
<1> QED
  BY <1>1, <1>4, SessionKeeps DEF WireTyped

LEMMA EndStep == ASSUME IInv, End \/ Quiesce PROVE IInv'
<1> USE DEF IInv, Typed
<1>1. /\ slot \in {"working", "unsure"} /\ git' = git /\ SessionOnly
      /\ up' = up \/ Tell([k |-> "ended"])
  BY DEF End, Quiesce
<1>2. locks.lease \in {"session", "unsure session"} /\ stage.at \notin {"removing", "removed"}
  BY <1>1 DEF SessionSafe, LeaseTells
<1>3. CASE slot' = "none" /\ locks' = SessionLeaves /\ UNCHANGED <<tree, bounds, excused>>
  <2>1. locks' \in Locks /\ locks'.admin = locks.admin
    BY <1>3, SessionLeavesTyped
  <2>2. NodeTyped' /\ SessionSafe'
    BY <1>1, <1>2, <1>3, <2>1 DEF NodeTyped, SessionSafe, LeaseTells, DoneIsUsable,
                                  SessionInPlace, SessionOnly
  <2> QED
    BY <1>1, <1>3, <2>1, <2>2, SessionKeeps DEF WireTyped
<1>4. CASE /\ slot = "working" /\ slot' = "unsure"
           /\ locks' = [locks EXCEPT !.lease = "unsure session"]
           /\ tree' = [tree EXCEPT !.state = "needs_reconciliation", !.version = @ + 1]
           /\ excused' = IF Working("begun") THEN excused \cup {"overtaken"} ELSE excused
  <2>1. locks' \in Locks /\ locks'.admin = locks.admin /\ locks'.lease = "unsure session"
    BY <1>4 DEF NodeTyped, Locks, Leases
  <2>2. tree' \in Trees /\ tree'.state \notin Usable
    <3>1. tree \in [state : States, version : Nat, clean : BOOLEAN]
      BY DEF NodeTyped, Trees
    <3>2. "needs_reconciliation" \in States \ Usable
      BY DEF States, Usable
    <3>3. tree.version + 1 \in Nat /\ tree.clean \in BOOLEAN
      BY <3>1
    <3>4. tree' = [state |-> "needs_reconciliation", version |-> tree.version + 1,
                   clean |-> tree.clean]
      BY <1>4, <3>1
    <3> QED
      BY <3>2, <3>3, <3>4 DEF Trees
  <2>3. NodeTyped' /\ SessionSafe'
    BY <1>1, <1>2, <1>4, <2>1, <2>2 DEF NodeTyped, SessionSafe, LeaseTells, DoneIsUsable,
                                        SessionInPlace, SessionOnly
  <2> QED
    BY <1>1, <1>4, <2>1, <2>3, SessionKeeps DEF WireTyped
<1> QED
  BY <1>3, <1>4 DEF End, Quiesce

\* What a process that dies leaves behind.
LEMMA CrashStep == ASSUME IInv, Crash PROVE IInv'
<1> USE DEF IInv, Typed, RecordSafe
<1>1. /\ git' \in Interrupted /\ queue' = <<>> /\ stage' = Idle /\ slot' = "none"
      /\ UNCHANGED <<binding, op, waiting, over, session, tree, receipts, excused>>
  BY DEF Crash
<1>2. /\ link' \in {"up", "down"} /\ (link' = "down" => up' = <<>> /\ down' = <<>>)
      /\ \/ row' = Lost(row) /\ down' = <<>> /\ up' = <<>>
         \/ row' = row /\ down' = down /\ up' = up
  BY DEF Crash, Cut, WireTyped
<1>3. Synchronized' => Synchronized
  BY <1>1 DEF Synchronized
<1>4. row' \in Rows /\ AskedForRow' /\ KnowsBefore'
  BY <1>1, <1>2, <1>3, SameRow
<1>5. HostTyped'
  BY <1>1, <1>4 DEF HostTyped
<1>6. down' \in Seq(DownFrames(op.id)) /\ up' \in Seq(UpFrames(op.id))
  BY <1>2, EmptySeq DEF WireTyped
<1>7. WireTyped'
  BY <1>1, <1>2, <1>6 DEF WireTyped
<1>8. Synchronized => up' \in Seq(Said(op.id, receipts))
  BY <1>2, EmptySeq DEF SaidIsRecorded
<1>9. SaidIsRecorded' /\ ClosedIsAnswered' /\ ReceiptsTyped'
  BY <1>1, <1>3, <1>8 DEF SaidIsRecorded, ClosedIsAnswered, ReceiptsTyped
<1>10. stage' \in Stages /\ stage'.at = "idle" /\ queue' \in Seq(Asks(op.id))
  BY <1>1, NoneTyped, EmptySeq DEF Idle, Stages, Holding
<1>11. git' \in Gits /\ (git'.checkout # "none" => git'.branch)
  <2>1. git' = git \/ git' = HalfAdded \/ git' = Added \/ git' = Removed
    BY <1>1 DEF Interrupted
  <2>2. git \in Gits /\ (git.checkout # "none" => git.branch)
    BY DEF NodeTyped
  <2> QED
    BY <2>1, <2>2 DEF Gits, HalfAdded, Added, Removed
<1>12. locks' \in Locks /\ locks'.admin # "held"
  <2> DEFINE parts == {Dead(p) : p \in locks.parts}
  <2>1. locks \in Locks
    BY DEF NodeTyped
  <2>2. \A p \in Names : Dead(p) \in Names
    BY DEF Dead, Names
  <2>3. parts \subseteq Names
    BY <2>1, <2>2 DEF Locks
  <2>4. locks' = [admin |-> IF locks.admin = "held" THEN "dead" ELSE locks.admin,
                  lease |-> IF locks.lease \in {"session", "unsure session"} THEN "dead session"
                            ELSE IF locks.lease = "cleanup" THEN "dead cleanup"
                            ELSE locks.lease,
                  parts |-> parts]
    BY DEF Crash
  <2> HIDE DEF parts
  <2> QED
    BY <2>1, <2>3, <2>4 DEF Locks, Leases
<1>13. WorkTyped' /\ NodeTyped'
  BY <1>1, <1>10, <1>11, <1>12 DEF WorkTyped, NodeTyped, Holding
<1>14. SessionSafe' /\ WorkIsFresh'
  BY <1>1, <1>10 DEF SessionSafe, LeaseTells, DoneIsUsable, SessionInPlace, WorkIsFresh
<1> QED
  BY <1>4, <1>5, <1>7, <1>9, <1>13, <1>14

-----------------------------------------------------------------------------
(* The invariant, and what follows from it.                                 *)

LEMMA InitKeeps == Init => IInv
<1> SUFFICES ASSUME Init PROVE IInv
  OBVIOUS
<1> USE DEF Init
<1>1. HostTyped
  <2>1. MaxOps \in Nat
    BY WorktreesAssumption
  <2>2. op \in Ops /\ op.pending = FALSE
    BY <2>1 DEF Ops, NoOp
  <2> QED
    BY <2>2, NoneTyped DEF HostTyped
<1>2. WireTyped /\ ReceiptsTyped
  BY EmptySeq DEF WireTyped, ReceiptsTyped
<1>3. WorkTyped
  BY NoneTyped, EmptySeq DEF WorkTyped, Stages, Idle, Holding
<1>4. NodeTyped
  BY NoneTyped DEF NodeTyped, Gits, Locks, Leases
<1>5. SessionSafe
  BY DEF SessionSafe, LeaseTells, DoneIsUsable, SessionInPlace, Idle
<1>6. SaidIsRecorded /\ ClosedIsAnswered /\ WorkIsFresh /\ AskedForRow
  BY EmptySeq DEF SaidIsRecorded, ClosedIsAnswered, WorkIsFresh, AskedForRow, NoOp, Idle
<1>7. KnowsBefore
  BY DEF KnowsBefore, Before, Heard
<1> QED
  BY <1>1, <1>2, <1>3, <1>4, <1>5, <1>6, <1>7 DEF IInv, Typed, RecordSafe

LEMMA StutterKeeps == ASSUME IInv, UNCHANGED vars PROVE IInv'
<1> USE DEF vars, host, wire, process, disk, IInv, Typed, RecordSafe
<1>1. Typed'
  BY DEF HostTyped, WireTyped, ReceiptsTyped, WorkTyped, NodeTyped
<1>2. SessionSafe'
  BY DEF SessionSafe, LeaseTells, DoneIsUsable, SessionInPlace
<1>3. SaidIsRecorded' /\ ClosedIsAnswered' /\ WorkIsFresh' /\ AskedForRow'
  BY DEF SaidIsRecorded, ClosedIsAnswered, WorkIsFresh, AskedForRow, Synchronized, request
<1>4. KnowsBefore'
  BY DEF KnowsBefore, Before, Heard, Synchronized
<1> QED
  BY <1>1, <1>2, <1>3, <1>4

LEMMA NextKeeps == ASSUME IInv, Next PROVE IInv'
<1>1. CASE HostActs
  BY <1>1, PrepareStep, SweepStep, HostMovesStep, HostReadsStep DEF HostActs
<1>2. CASE \E kind \in Kinds : Operate(kind)
  BY <1>2, OperateStep
<1>3. CASE Wire
  BY <1>3, CutsStep, ConnectStep DEF Wire
<1>4. CASE NodeReads
  BY <1>4, NodeReadsStep
<1>5. CASE Carries
  BY <1>5, BeginStep, EnterStep, ReserveStep, CreateStep, AddStep, LookStep, ReconcileStep,
     CleanupStep, RemoveStep, CommitStep DEF Carries
<1>6. CASE Session
  BY <1>6, JoinStep, ReenterStep, EditStep, EndStep DEF Session
<1>7. CASE Crash
  BY <1>7, CrashStep
<1> QED
  BY <1>1, <1>2, <1>3, <1>4, <1>5, <1>6, <1>7 DEF Next

LEMMA Invariance == Spec => []IInv
<1>1. IInv /\ [Next]_vars => IInv'
  BY NextKeeps, StutterKeeps
<1> QED
  BY InitKeeps, <1>1, PTL DEF Spec

\* Every record of the workspace, at the Host and at its Node, is one of those
\* the protocol names, and the administration lock is held exactly while an
\* operation is inside it (managed-worktrees.ts withAdministration).
THEOREM TypeCorrect == Spec => []TypeOK
<1>1. IInv => TypeOK
  BY DEF IInv, Typed, HostTyped, WireTyped, ReceiptsTyped, WorkTyped, NodeTyped, TypeOK,
         Rows, Trees, Ops, Gits, Holding
<1> QED
  BY Invariance, <1>1, PTL

\* A session that works does so in a checkout that is there and usable, however
\* its start, the operations on the checkout and deaths of the Node interleave:
\* the verification under the lock (managed-worktrees.ts revalidate) is enough.
THEOREM SessionsStayInPlace == Spec => []SessionInPlace
<1>1. IInv => SessionInPlace
  BY DEF IInv, SessionSafe
<1> QED
  BY Invariance, <1>1, PTL

LEMMA Known == ASSUME IInv PROVE HostKnows
<1> SUFFICES ASSUME ~op.pending, Synchronized
             PROVE  \/ Answered = {} /\ row = None
                    \/ \E t \in Answered :
                        /\ \A u \in Answered : u.version <= t.version
                        /\ row \in {t, [t EXCEPT !.state = "unavailable"]}
  BY DEF HostKnows, Synchronized
<1>1. Before = Answered
  BY DEF Before, Heard, Answered
<1> QED
  BY <1>1 DEF IInv, RecordSafe, KnowsBefore

LEMMA Owed == ASSUME IInv PROVE WorkIsOwed
<1> SUFFICES ASSUME queue # <<>>, stage.at # "idle", Synchronized
             PROVE  op.pending /\ op.id = request.id
  BY DEF WorkIsOwed, Synchronized
<1> USE DEF IInv, Typed, RecordSafe
<1>1. request \in Asks(op.id)
  BY FirstTyped DEF WorkTyped
<1>2. request.id \in 1 .. op.id /\ request.id \notin DOMAIN receipts
  BY <1>1 DEF Asks, WorkIsFresh
<1> QED
  BY <1>2 DEF ClosedIsAnswered

\* Once an operation is closed the Host knows what its Node made of the
\* workspace, and the Node is at work on nothing the Host has closed: no lost
\* frame, timeout, restart or repeated request comes between
\* (managed-worktree-service.ts handleResult, managed-worktrees.ts runOperation).
THEOREM RecordStaysTrue == Spec => []RecordIsTrue
<1>1. IInv => RecordIsTrue
  BY Known, Owed DEF RecordIsTrue
<1> QED
  BY Invariance, <1>1, PTL

==============================================================================
