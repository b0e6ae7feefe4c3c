------------------------- MODULE SessionConsole_proofs -------------------------
(***************************************************************************)
(* Type correctness of SessionConsole, and that a local prompt is given to *)
(* the agent at most once and believed settled only if it is, for every    *)
(* number of events, prompts, commands and troubles, every size of a batch *)
(* and of the window, and with or without overlapping synchronizations;    *)
(* and, without them, that the Host's history of the session is a prefix   *)
(* of the Node's journal, that the receipt of a local prompt is there      *)
(* before the output it governs, and that a prompt of the Host waits for   *)
(* the local ones.                                                         *)
(*                                                                         *)
(* LocalOnce is not inductive.  That a prompt is not given twice needs to  *)
(* know which prompt the holder of the session's lock is giving            *)
(* (GivenOnce); that the Host is told the truth needs that whatever is on  *)
(* its way to it, and whatever a synchronization still carries, says of an *)
(* operation that it has ended only if it has (WiresFine): an operation    *)
(* that ended never changes again (EndsStay).  The last two rest on        *)
(* ControlInv, explained where it is defined.                              *)
(***************************************************************************)
EXTENDS SessionConsole, SequenceTheorems, FiniteSetTheorems, TLAPS

OpStates == {"none", "queued", "accepted", "settled", "uncertain", "rejected"}
OpType == [state: OpStates, epoch: Nat, after: Nat]
ControlType == [id: Ops, op: OpType]
ControlSets == {S \in SUBSET ControlType : IsFiniteSet(S)}

BatchType == [from: Nat, through: Nat, ids: Seq(Nat), controls: ControlSets]

RequestType ==
    [kind: {"initialize", "replay", "synchronized"}, flow: {"sync", "live"},
     gen: Nat, batch: BatchType, rest: ControlSets, limit: Nat, owed: BOOLEAN,
     epoch: Nat]

AnswerType == [kind: {"answer"}, request: RequestType, ok: BOOLEAN, epoch: Nat]
GrantType == [kind: {"grant"}, epoch: Nat]
WorkType == [kind: {"work"}, task: {"prompt", "resume"}, epoch: Nat]
MessageType == AnswerType \cup GrantType \cup WorkType \cup [kind: {"resync"}]

JournalType ==
    /\ journal \in Seq(Nat) /\ acked \in Nat /\ epoch \in Nat
    /\ ackedEpoch \in Nat /\ ops \in [Ops -> OpType]

NodeType ==
    /\ buffered \in Seq(Nat)
    /\ agent \in [alive: BOOLEAN, busy: BOOLEAN]
    /\ invoking \in Ops \cup {0}
    /\ admitting \in Seq(WorkType)

ConsoleRecords ==
    [status: {"offline", "syncing", "online", "conflict"}, fenced: BOOLEAN,
     gen: Nat, expired: Nat, joining: BOOLEAN, granted: BOOLEAN, hostEpoch: Nat,
     told: [Ops -> OpType], pump: BOOLEAN]

ConsoleType == console \in ConsoleRecords

Unset == Nat \cup {-1}

LiveRecords ==
    [wanted: BOOLEAN, dirty: BOOLEAN, sent: Unset, states: [Ops -> OpType],
     inFlight: Int, acks: [through: Unset, epoch: Nat]]

LiveType == live \in LiveRecords

WireType ==
    /\ up \in BOOLEAN
    /\ toHost \in Seq(RequestType) /\ toNode \in Seq(MessageType)

HostType ==
    /\ stored \subseteq [seq: Nat, id: Nat] /\ hostEpoch \in Nat
    /\ hostOps \in [Ops -> OpType] /\ receipts \subseteq Ops
    /\ peer \in [syncing: BOOLEAN, failed: BOOLEAN, observed: BOOLEAN]

UsedType ==
    used \in [raised: Nat, work: Nat, troubles: Nat, invoked: [Ops -> Nat]]

TypeOK ==
    /\ JournalType /\ NodeType /\ ConsoleType /\ LiveType /\ WireType
    /\ HostType /\ UsedType

Final == {"settled", "rejected"}

\* What is said of an operation's end is so.
EndIsTrue(id, op) == op.state \in Final => ops[id].state = op.state

\* A batch is a segment of the journal.
Segment(history, batch) ==
    /\ batch.from <= batch.through /\ batch.through <= Len(history)
    /\ Len(batch.ids) = batch.through - batch.from
    /\ \A i \in 1..Len(batch.ids) : batch.ids[i] = history[batch.from + i]

RequestFine(r) ==
    /\ Segment(journal, r.batch) /\ r.limit <= Water
    /\ \A c \in r.batch.controls \cup r.rest : EndIsTrue(c.id, c.op)

WiresFine ==
    /\ \A r \in ToSet(toHost) : RequestFine(r)
    /\ \A m \in ToSet(toNode) : m.kind = "answer" => RequestFine(m.request)

\* What the Node holds for sent or acknowledged is in the journal.
Committed ==
    acked <= Water /\ live.sent <= Water /\ live.acks.through <= Water

\* What the Host believes ended has.
HostIsRight == \A o \in Ops : EndIsTrue(o, hostOps[o])

\* A prompt not begun, or refused, was not given; the one a holder of the lock
\* is giving was not given yet, and no turn is under way that could settle it.
GivenOnce ==
    /\ \A o \in Ops :
          /\ used.invoked[o] <= 1
          /\ ops[o].state \in {"none", "queued", "rejected"} => used.invoked[o] = 0
    /\ invoking # 0 =>
          /\ ~agent.busy
          /\ ops[invoking].state \in {"accepted", "uncertain"}
          /\ used.invoked[invoking] = 0

SInv == WiresFine /\ Committed /\ HostIsRight /\ GivenOnce

-----------------------------------------------------------------------------
(* Greatest and least of finite sets                                       *)

LEMMA LeastExists ==
    ASSUME NEW S \in SUBSET Nat, S # {}
    PROVE  Min(S) \in S /\ \A y \in S : Min(S) <= y
<1>1. PICK x \in S : \A y \in S : ~(<<y, x>> \in OpToRel(<, Nat))
  BY WFMin, NatLessThanWellFounded
<1>2. \A y \in S : y < x => <<y, x>> \in OpToRel(<, Nat)
  BY DEF OpToRel
<1>3. \A y \in S : ~(y < x) /\ y \in Nat /\ x \in Nat
  BY <1>1, <1>2
<1>4. \A y \in S : x <= y
  BY <1>3
<1> QED
  BY <1>4 DEF Min

HasGreatest(T) == \E x \in T : \A y \in T : x >= y

\* By the least size of a set without a greatest element.
LEMMA GreatestExists ==
    ASSUME NEW S \in SUBSET Int, IsFiniteSet(S), S # {}
    PROVE  Max(S) \in S /\ \A y \in S : Max(S) >= y
<1> DEFINE Sizes == {n \in Nat : \E T \in SUBSET S : /\ T # {} /\ Cardinality(T) = n
                                                    /\ ~HasGreatest(T)}
<1>1. Sizes = {}
  <2>1. SUFFICES ASSUME Sizes # {} PROVE FALSE
    OBVIOUS
  <2>2. Min(Sizes) \in Sizes /\ \A n \in Sizes : Min(Sizes) <= n
    BY <2>1, LeastExists
  <2>3. PICK T \in SUBSET S : /\ T # {} /\ Cardinality(T) = Min(Sizes)
                              /\ ~HasGreatest(T)
    BY <2>2
  <2>4. PICK x : x \in T
    BY <2>3
  <2> DEFINE R == T \ {x}
  <2>5. IsFiniteSet(T) /\ R \in SUBSET S
    BY FS_Subset
  <2>6. Cardinality(R) = Cardinality(T) - 1 /\ Cardinality(R) \in Nat
    BY <2>4, <2>5, FS_RemoveElement, FS_CardinalityType
  <2>7. Cardinality(R) \notin Sizes
    BY <2>2, <2>3, <2>6
  <2>8. R = {} \/ HasGreatest(R)
    <3> HIDE DEF R
    <3> QED
      BY <2>5, <2>6, <2>7
  <2>9. CASE R = {}
    <3>1. \A y \in T : y = x /\ x \in Int
      BY <2>3, <2>4, <2>9
    <3> QED
      BY <2>3, <2>4, <3>1 DEF HasGreatest
  <2>10. CASE HasGreatest(R)
    <3>1. PICK m \in R : \A y \in R : m >= y
      BY <2>10 DEF HasGreatest
    <3>2. m \in T /\ x \in T /\ T \subseteq Int /\ \A y \in T : y = x \/ y \in R
      BY <2>3, <2>4, <3>1
    <3>3. CASE m >= x
      BY <2>3, <3>1, <3>2, <3>3 DEF HasGreatest
    <3>4. CASE x > m
      <4>1. \A y \in T : x >= y
        BY <3>1, <3>2, <3>4
      <4> QED
        BY <2>3, <3>2, <4>1 DEF HasGreatest
    <3> QED
      BY <3>2, <3>3, <3>4
  <2> QED
    BY <2>8, <2>9, <2>10
<1>2. HasGreatest(S)
  <2>1. Cardinality(S) \in Nat /\ S \in SUBSET S
    BY FS_CardinalityType
  <2> QED
    BY <1>1, <2>1
<1> QED
  BY <1>2 DEF HasGreatest, Max

LEMMA GreaterOfTwo ==
    ASSUME NEW a \in Int, NEW b \in Int
    PROVE  Max({a, b}) = IF a >= b THEN a ELSE b
<1> DEFINE m == IF a >= b THEN a ELSE b
<1>1. m \in {a, b} /\ \A y \in {a, b} : m >= y
  OBVIOUS
<1>2. \A x \in {a, b} : (\A y \in {a, b} : x >= y) => x = m
  OBVIOUS
<1> QED
  BY <1>1, <1>2 DEF Max

LEMMA LesserOfTwo ==
    ASSUME NEW a \in Int, NEW b \in Int
    PROVE  Min({a, b}) = IF a <= b THEN a ELSE b
<1> DEFINE m == IF a <= b THEN a ELSE b
<1>1. m \in {a, b} /\ \A y \in {a, b} : m <= y
  OBVIOUS
<1>2. \A x \in {a, b} : (\A y \in {a, b} : x <= y) => x = m
  OBVIOUS
<1> QED
  BY <1>1, <1>2 DEF Min

-----------------------------------------------------------------------------
(* Controls                                                                *)

LEMMA ControlsSubset ==
    ASSUME NEW S \in ControlSets, NEW T, T \subseteq S
    PROVE  T \in ControlSets
<1>1. IsFiniteSet(T)
  BY FS_Subset DEF ControlSets
<1> QED
  BY <1>1 DEF ControlSets

LEMMA NoControls == {} \in ControlSets
BY FS_EmptySet DEF ControlSets

\* The operations of the journal, as they are on the wire.
LEMMA WiresTyped ==
    ASSUME ConsoleBounds, JournalType, NEW O, O \subseteq Ops
    PROVE  /\ Wires(O) \in ControlSets
           /\ \A c \in Wires(O) : c.op = ops[c.id]
<1>1. IsFiniteSet(O)
  <2>1. IsFiniteSet(Ops)
    BY FS_Interval DEF Ops, ConsoleBounds
  <2> QED
    BY <2>1, FS_Subset
<1> DEFINE f == [o \in O |-> Wire(o)]
<1>2. f \in Surjection(O, Wires(O))
  BY DEF Surjection, Wires
<1>3. IsFiniteSet(Wires(O))
  BY <1>1, <1>2, FS_Surjection
<1>4. \A o \in O : Wire(o) \in ControlType
  BY DEF Wire, ControlType, JournalType
<1> QED
  BY <1>3, <1>4 DEF ControlSets, Wires, Wire

LEMMA EpochsTyped ==
    ASSUME NEW S \in ControlSets, NEW e \in Nat
    PROVE  Max({e} \cup Epochs(S)) \in Nat
<1> DEFINE f == [c \in S |-> c.op.epoch]
<1>1. f \in Surjection(S, Epochs(S)) /\ IsFiniteSet(S)
  BY DEF Surjection, Epochs, ControlSets
<1>2. IsFiniteSet(Epochs(S))
  BY <1>1, FS_Surjection
<1>3. IsFiniteSet({e} \cup Epochs(S))
  <2>1. {e} \cup Epochs(S) = Epochs(S) \cup {e}
    OBVIOUS
  <2> QED
    BY <1>2, <2>1, FS_AddElement
<1>4. {e} \cup Epochs(S) \in SUBSET Nat
  BY DEF Epochs, ControlSets, ControlType, OpType
<1> QED
  BY <1>3, <1>4, GreatestExists

\* A batch is a segment of the history it is taken from, and ends at its limit
\* at the latest.
LEMMA BatchIsSegment ==
    ASSUME ConsoleBounds, NEW history \in Seq(Nat), NEW after \in Nat,
           NEW limit \in Nat, limit <= Len(history), after <= Len(history),
           NEW pending \in ControlSets,
           NEW b, b = Batch(history, after, limit, pending)
    PROVE  /\ b \in BatchType
           /\ Segment(history, b)
           /\ b.from = after
           /\ b.through > after => b.through <= limit
           /\ b.controls \subseteq pending
<1> DEFINE last == IF after + BatchEvents < limit THEN after + BatchEvents ELSE limit
           due == {c \in pending : c.op.after <= last}
           fit == Foremost(BatchControls, due)
           ends == {last} \cup {c.op.after : c \in due \ fit}
           through == Max({after, Min(ends)})
<1>1. last \in Nat /\ last <= limit
  BY DEF ConsoleBounds
<1>2. fit \subseteq pending
  BY DEF Foremost
<1>3. ends \in SUBSET Nat
  BY <1>1 DEF ControlSets, ControlType, OpType
<1>4. Min(ends) \in Nat /\ Min(ends) <= last
  <2> HIDE DEF ends
  <2>1. last \in ends
    BY DEF ends
  <2> QED
    BY <1>3, <2>1, LeastExists
<1>5. /\ through \in Nat /\ after <= through /\ through <= Len(history)
      /\ through > after => through <= limit
  <2>1. Min(ends) \in Int /\ after \in Int
    BY <1>4
  <2>2. through = IF after >= Min(ends) THEN after ELSE Min(ends)
    BY <2>1, GreaterOfTwo
  <2> HIDE DEF ends, last
  <2> QED
    BY <1>1, <1>4, <2>2
<1>6. b = [from |-> after, through |-> through,
           ids |-> SubSeq(history, after + 1, through), controls |-> fit]
  BY DEF Batch
<1> HIDE DEF through, fit
<1>7. /\ SubSeq(history, after + 1, through) \in Seq(Nat)
      /\ Len(SubSeq(history, after + 1, through)) = through - after
      /\ \A i \in 1..(through - after) :
            SubSeq(history, after + 1, through)[i] = history[after + i]
  <2>a. \A i \in (after + 1)..through : i \in 1..Len(history)
    BY <1>5
  <2>1. \A i \in (after + 1)..through : history[i] \in Nat
    BY <2>a, ElementOfSeq
  <2>b. after + 1 \in Int /\ through \in Int
    BY <1>5
  <2>2. /\ SubSeq(history, after + 1, through) \in Seq(Nat)
        /\ Len(SubSeq(history, after + 1, through)) =
              IF after + 1 <= through THEN through - (after + 1) + 1 ELSE 0
        /\ \A i \in 1..(through - (after + 1) + 1) :
              SubSeq(history, after + 1, through)[i] = history[(after + 1) + i - 1]
    BY <2>b, <2>1, SubSeqProperties
  <2>3. /\ through - (after + 1) + 1 = through - after
        /\ \A i \in 1..(through - after) : (after + 1) + i - 1 = after + i
        /\ ~(after + 1 <= through) => through - after = 0
    BY <1>5
  <2>4. Len(SubSeq(history, after + 1, through)) = through - after
    BY <2>2, <2>3
  <2> QED
    BY <2>2, <2>3, <2>4
<1>8. fit \in ControlSets
  BY <1>2, ControlsSubset
<1> QED
  BY <1>2, <1>5, <1>6, <1>7, <1>8 DEF BatchType, Segment

-----------------------------------------------------------------------------
(* What the queues of messages hold                                        *)

LEMMA ToSetEmpty == ToSet(<<>>) = {}
BY DEF ToSet

LEMMA ToSetAppend ==
    ASSUME NEW S, NEW s \in Seq(S), NEW x \in S
    PROVE  ToSet(Append(s, x)) = ToSet(s) \cup {x}
<1>1. /\ DOMAIN Append(s, x) = 1..(Len(s) + 1) /\ Len(s) \in Nat
      /\ DOMAIN s = 1..Len(s) /\ Append(s, x)[Len(s) + 1] = x
      /\ \A i \in 1..Len(s) : Append(s, x)[i] = s[i]
  OBVIOUS
<1>2. 1..(Len(s) + 1) = (1..Len(s)) \cup {Len(s) + 1}
  BY <1>1
<1> QED
  BY <1>1, <1>2 DEF ToSet

LEMMA ToSetConcat ==
    ASSUME NEW S, NEW s \in Seq(S), NEW t \in Seq(S)
    PROVE  ToSet(s \o t) \subseteq ToSet(s) \cup ToSet(t)
<1>1. ASSUME NEW i \in DOMAIN (s \o t) PROVE (s \o t)[i] \in ToSet(s) \cup ToSet(t)
  <2>1. /\ i \in 1..(Len(s) + Len(t)) /\ Len(s) \in Nat /\ Len(t) \in Nat
        /\ (s \o t)[i] = IF i <= Len(s) THEN s[i] ELSE t[i - Len(s)]
    BY <1>1, ConcatProperties
  <2>2. CASE i <= Len(s)
    BY <2>1, <2>2 DEF ToSet
  <2>3. CASE i > Len(s)
    <3>1. i - Len(s) \in DOMAIN t
      BY <2>1, <2>3
    <3> QED
      BY <2>1, <2>3, <3>1 DEF ToSet
  <2> QED
    BY <2>1, <2>2, <2>3
<1> QED
  BY <1>1 DEF ToSet

LEMMA ToSetHead ==
    ASSUME NEW S, NEW s \in Seq(S), s # <<>>
    PROVE  /\ Head(s) \in ToSet(s) /\ Head(s) \in S
           /\ Tail(s) \in Seq(S) /\ ToSet(Tail(s)) \subseteq ToSet(s)
<1>1. /\ DOMAIN s = 1..Len(s) /\ Len(s) \in Nat /\ Len(s) # 0
      /\ DOMAIN Tail(s) = 1..(Len(s) - 1) /\ Head(s) = s[1]
      /\ \A i \in 1..(Len(s) - 1) : Tail(s)[i] = s[i + 1]
  OBVIOUS
<1>2. \A i \in 1..(Len(s) - 1) : i + 1 \in 1..Len(s)
  BY <1>1
<1> QED
  BY <1>1, <1>2 DEF ToSet

LEMMA ToSetMember ==
    ASSUME NEW S, NEW s \in Seq(S), NEW x \in ToSet(s)
    PROVE  x \in S
BY ElementOfSeq DEF ToSet

-----------------------------------------------------------------------------
(* What no step takes back                                                 *)

\* The journal is only appended to.
Grows ==
    /\ journal' \in Seq(Nat) /\ Water <= Water'
    /\ \A n \in 1..Water : journal'[n] = journal[n]

\* An operation that ended stays as it ended.
EndsStay == \A o \in Ops : ops[o].state \in Final => ops'[o].state = ops[o].state

LEMMA CommitGrows ==
    ASSUME JournalType, NodeType, NEW more \in Seq(Nat), Commit(more)
    PROVE  /\ Grows
           /\ buffered' = <<>> /\ buffered' \in Seq(Nat)
           /\ Water' = Water + Len(buffered) + Len(more)
           /\ Water' \in Nat /\ FlushedWater \in Nat /\ FlushedWater <= Water'
<1>1. journal \o buffered \in Seq(Nat)
      /\ Len(journal \o buffered) = Len(journal) + Len(buffered)
      /\ \A n \in 1..Len(journal) : (journal \o buffered)[n] = journal[n]
  BY ConcatProperties DEF JournalType, NodeType
<1>2. journal' = (journal \o buffered) \o more /\ buffered' = <<>>
  BY DEF Commit
<1> DEFINE j == journal \o buffered
<1> HIDE DEF j
<1>3. /\ j \o more \in Seq(Nat) /\ Len(j \o more) = Len(j) + Len(more)
      /\ \A n \in 1..Len(j) : (j \o more)[n] = j[n]
  BY <1>1, ConcatProperties DEF j
<1>4. /\ Len(journal) \in Nat /\ Len(buffered) \in Nat /\ Len(more) \in Nat
      /\ Len(j) = Len(journal) + Len(buffered)
      /\ \A n \in 1..Len(journal) : j[n] = journal[n]
  BY <1>1, LenProperties DEF j, JournalType, NodeType
<1>5. journal' = j \o more
  BY <1>2 DEF j
<1>6. \A n \in 1..Len(journal) : n \in 1..Len(j)
  BY <1>4
<1>7. \A n \in 1..Len(journal) : journal'[n] = journal[n]
  BY <1>3, <1>4, <1>5, <1>6
<1>8. Len(journal') = Len(journal) + Len(buffered) + Len(more)
  BY <1>3, <1>4, <1>5
<1> QED
  BY <1>2, <1>3, <1>4, <1>5, <1>7, <1>8 DEF Grows, Water, FlushedWater

LEMMA NoneIsSeq == <<>> \in Seq(Nat) /\ Len(<<>>) = 0
BY EmptySeq

LEMMA StillGrows == ASSUME JournalType, UNCHANGED journal PROVE Grows /\ Water' = Water
BY LenProperties DEF JournalType, Grows, Water

\* What was true of a request stays so.
LEMMA FineStays ==
    ASSUME JournalType, ops' \in [Ops -> OpType], Grows, EndsStay,
           NEW r \in RequestType, RequestFine(r)
    PROVE  RequestFine(r)'
<1>1. Water \in Nat /\ Water' \in Nat /\ Water <= Water'
  BY LenProperties DEF JournalType, Water, Grows
<1>2. /\ r.batch \in BatchType /\ r.limit \in Nat /\ r.rest \in ControlSets
      /\ r.batch.controls \in ControlSets
  BY DEF RequestType, BatchType
<1>3. Segment(journal, r.batch)'
  <2> DEFINE b == r.batch
  <2>1. /\ b.from <= b.through /\ b.through <= Water
        /\ Len(b.ids) = b.through - b.from
        /\ \A i \in 1..Len(b.ids) : b.ids[i] = journal[b.from + i]
    BY DEF RequestFine, Segment, Water
  <2>2. b.from \in Nat /\ b.through \in Nat
    BY <1>2 DEF BatchType
  <2> HIDE DEF b
  <2>3. \A i \in 1..Len(b.ids) : b.from + i \in 1..Water
    BY <1>1, <2>1, <2>2
  <2>4. \A i \in 1..Len(b.ids) : b.ids[i] = journal'[b.from + i]
    BY <2>1, <2>3 DEF Grows
  <2>5. b.through <= Water'
    BY <1>1, <2>1, <2>2
  <2>6. Segment(journal, b)'
    BY <2>1, <2>4, <2>5 DEF Segment, Water
  <2> QED
    BY <2>6 DEF b
<1>4. r.limit <= Water'
  BY <1>1, <1>2 DEF RequestFine
<1>5. \A c \in r.batch.controls \cup r.rest : EndIsTrue(c.id, c.op)'
  <2> SUFFICES ASSUME NEW c \in r.batch.controls \cup r.rest PROVE EndIsTrue(c.id, c.op)'
    OBVIOUS
  <2>1. c.id \in Ops
    BY <1>2 DEF ControlSets, ControlType
  <2> QED
    BY <2>1 DEF EndIsTrue, EndsStay, RequestFine
<1> QED
  BY <1>3, <1>4, <1>5 DEF RequestFine

\* So the wires stay fine when whatever is put on them is.
LEMMA WiresStay ==
    ASSUME JournalType, WireType, WiresFine, ops' \in [Ops -> OpType], Grows, EndsStay,
           \A r \in ToSet(toHost') : r \in ToSet(toHost) \/ RequestFine(r)',
           \A m \in ToSet(toNode') :
              m.kind = "answer" =>
                 \/ m \in ToSet(toNode) \/ m.request \in ToSet(toHost)
                 \/ RequestFine(m.request)'
    PROVE  WiresFine'
<1>1. \A r \in ToSet(toHost) : RequestFine(r)'
  BY FineStays, ToSetMember DEF WireType, WiresFine
<1>2. \A m \in ToSet(toNode) : m.kind = "answer" => RequestFine(m.request)'
  <2> SUFFICES ASSUME NEW m \in ToSet(toNode), m.kind = "answer"
               PROVE  RequestFine(m.request)'
    OBVIOUS
  <2>1. m \in MessageType
    BY ToSetMember DEF WireType
  <2>2. m.request \in RequestType
    BY <2>1 DEF MessageType, AnswerType, GrantType, WorkType
  <2> QED
    BY <2>2, FineStays DEF WiresFine
<1> QED
  BY <1>1, <1>2 DEF WiresFine

LEMMA WiresKept ==
    ASSUME JournalType, WireType, WiresFine, ops' \in [Ops -> OpType], Grows, EndsStay,
           ToSet(toHost') \subseteq ToSet(toHost), ToSet(toNode') \subseteq ToSet(toNode)
    PROVE  WiresFine'
BY WiresStay

\* And what the Host believes stays true, if it hears nothing.
LEMMA HostStaysRight ==
    ASSUME HostIsRight, EndsStay, UNCHANGED hostOps
    PROVE  HostIsRight'
BY DEF HostIsRight, EndsStay, EndIsTrue

-----------------------------------------------------------------------------
(* The agent, the journal and the local prompts                            *)

Inv == TypeOK /\ SInv

LEMMA InitInv == ASSUME ConsoleBounds, Init PROVE Inv
<1>1. NoOp \in OpType /\ 0 \in Nat /\ <<>> \in Seq(Nat) /\ <<>> \in Seq(WorkType)
      /\ <<>> \in Seq(RequestType) /\ <<>> \in Seq(MessageType) /\ Len(<<>>) = 0
  BY EmptySeq DEF NoOp, OpType, OpStates
<1>2. JournalType /\ NodeType
  BY <1>1 DEF Init, JournalType, NodeType
<1>3. ConsoleType
  BY <1>1 DEF Init, ConsoleType, ConsoleRecords
<1>4. LiveType /\ live.sent = -1 /\ live.acks.through = -1
  BY <1>1 DEF Init, LiveType, LiveRecords, NoLive, NoAck, Unset
<1>5. WireType /\ HostType /\ UsedType
  BY <1>1 DEF Init, WireType, HostType, UsedType
<1>6. WiresFine
  BY ToSetEmpty DEF Init, WiresFine
<1>7. Committed
  BY <1>1, <1>4 DEF Init, Committed, Water
<1>8. HostIsRight
  BY DEF Init, HostIsRight, EndIsTrue, NoOp, Final
<1>9. GivenOnce
  BY DEF Init, GivenOnce
<1> QED
  BY <1>2, <1>3, <1>4, <1>5, <1>6, <1>7, <1>8, <1>9 DEF Inv, TypeOK, SInv

\* The pump is woken: what it sent and what was acknowledged stays.
LiveKept == live'.sent = live.sent /\ live'.acks = live.acks

LEMMA WakingKeeps ==
    ASSUME LiveType, NEW news \in BOOLEAN,
           live' = Marked(live) \/ live' = Wants(live, news) \/ live' = live
    PROVE  LiveType' /\ LiveKept
<1>1. Marked(live) = [live EXCEPT !.dirty = TRUE, !.wanted = TRUE]
  BY DEF Marked
<1>2. Wants(live, news) = live \/ Wants(live, news) = [live EXCEPT !.wanted = TRUE]
  BY DEF Wants
<1>3. \/ live' = [live EXCEPT !.dirty = TRUE, !.wanted = TRUE]
      \/ live' = [live EXCEPT !.wanted = TRUE]
      \/ live' = live
  BY <1>1, <1>2
<1>4. live \in LiveRecords
  BY DEF LiveType
<1>5. CASE live' = [live EXCEPT !.dirty = TRUE, !.wanted = TRUE]
  BY <1>4, <1>5 DEF LiveType, LiveRecords, LiveKept
<1>6. CASE live' = [live EXCEPT !.wanted = TRUE]
  BY <1>4, <1>6 DEF LiveType, LiveRecords, LiveKept
<1>7. CASE live' = live
  BY <1>4, <1>7 DEF LiveType, LiveKept
<1> QED
  BY <1>3, <1>5, <1>6, <1>7

\* What a step of the Node preserves that neither sends nor is told anything.
LEMMA LocalStep ==
    ASSUME Inv, Grows, ops' \in [Ops -> OpType], EndsStay, LiveKept,
           UNCHANGED <<acked, toHost, toNode, up, hostVars>>
    PROVE  WireType' /\ HostType' /\ WiresFine' /\ Committed' /\ HostIsRight'
<1>1. WireType' /\ HostType'
  BY DEF Inv, TypeOK, WireType, HostType, hostVars
<1>2. WiresFine'
  <2>1. JournalType /\ WireType /\ WiresFine
    BY DEF Inv, TypeOK, SInv
  <2> QED
    BY <2>1, WiresKept
<1>3. Committed'
  <2>1. /\ acked \in Nat /\ live.sent \in Int /\ live.acks.through \in Int
        /\ Water \in Nat /\ Water' \in Nat /\ Water <= Water'
    BY LenProperties DEF Inv, TypeOK, JournalType, LiveType, LiveRecords, Unset, Grows, Water
  <2> QED
    BY <2>1 DEF Inv, SInv, Committed, LiveKept
<1>4. HostIsRight'
  BY HostStaysRight DEF Inv, SInv, hostVars
<1> QED
  BY <1>1, <1>2, <1>3, <1>4

\* Changing the state of operations that did not end.
LEMMA OpMoves ==
    ASSUME NEW op \in OpType, NEW state \in OpStates
    PROVE  [op EXCEPT !.state = state] \in OpType
           /\ [op EXCEPT !.state = state].state = state
BY DEF OpType

LEMMA OpsMove ==
    ASSUME ops \in [Ops -> OpType], ops' = [o \in Ops |-> ops'[o]],
           \A o \in Ops : \/ ops'[o] = ops[o]
                          \/ \E state \in OpStates :
                                ops'[o] = [ops[o] EXCEPT !.state = state]
    PROVE  /\ ops' \in [Ops -> OpType]
           /\ \A o \in Ops, state \in OpStates :
                 ops'[o] = [ops[o] EXCEPT !.state = state] => ops'[o].state = state
<1>1. \A o \in Ops : ops[o] \in OpType
  OBVIOUS
<1>2. \A o \in Ops : ops'[o] \in OpType
  BY <1>1, OpMoves
<1>3. ASSUME NEW o \in Ops, NEW state \in OpStates,
             ops'[o] = [ops[o] EXCEPT !.state = state]
      PROVE  ops'[o].state = state
  <2>1. [ops[o] EXCEPT !.state = state].state = state
    BY <1>1, OpMoves
  <2> QED
    BY <1>3, <2>1
<1>4. ops' \in [Ops -> OpType]
  BY <1>2
<1> QED
  BY <1>3, <1>4

\* One more event raised.
LEMMA RaisedCounts ==
    ASSUME UsedType, used' = [used EXCEPT !.raised = used.raised + 1]
    PROVE  UsedType' /\ used'.invoked = used.invoked
<1>1. used.raised + 1 \in Nat
  BY DEF UsedType
<1> QED
  BY <1>1 DEF UsedType

LEMMA EmitInv == ASSUME ConsoleBounds, Inv, Emit PROVE Inv'
<1>1. JournalType' /\ ConsoleType' /\ LiveType'
  BY DEF Inv, TypeOK, Emit, JournalType, ConsoleType, LiveType, journalVars
<1>2. NodeType' /\ UsedType'
  <2>1. used.raised \in Nat /\ used' = [used EXCEPT !.raised = used.raised + 1]
        /\ buffered' = Append(buffered, used.raised + 1)
        /\ UNCHANGED <<agent, invoking, admitting>>
    BY DEF Emit, Inv, TypeOK, UsedType
  <2>2. buffered' \in Seq(Nat)
    BY <2>1, AppendProperties DEF Inv, TypeOK, NodeType
  <2>3. UsedType'
    BY <2>1, RaisedCounts DEF Inv, TypeOK
  <2> QED
    BY <2>1, <2>2, <2>3 DEF Inv, TypeOK, NodeType
<1>3. /\ WireType' /\ HostType' /\ WiresFine' /\ Committed' /\ HostIsRight'
  <2>1. Grows /\ ops' \in [Ops -> OpType] /\ EndsStay /\ LiveKept
    BY StillGrows DEF Emit, Inv, TypeOK, JournalType, EndsStay, LiveKept, journalVars
  <2> QED
    BY <2>1, LocalStep DEF Emit, journalVars
<1>4. GivenOnce'
  <2>1. used'.invoked = used.invoked
    BY DEF Emit, Inv, TypeOK, UsedType
  <2> QED
    BY <2>1 DEF Emit, Inv, SInv, GivenOnce, journalVars
<1> QED
  BY <1>1, <1>2, <1>3, <1>4 DEF Inv, TypeOK, SInv

LEMMA FlushInv == ASSUME ConsoleBounds, Inv, Flush PROVE Inv'
<1>1. Grows /\ buffered' \in Seq(Nat)
  BY CommitGrows, NoneIsSeq DEF Flush, Inv, TypeOK
<1>2. LiveType' /\ LiveKept
  BY WakingKeeps DEF Flush, Inv, TypeOK
<1>3. JournalType' /\ NodeType' /\ ConsoleType' /\ UsedType' /\ GivenOnce'
  BY <1>1 DEF Flush, Inv, TypeOK, SInv, JournalType, NodeType, ConsoleType,
              UsedType, GivenOnce, Grows
<1>4. /\ WireType' /\ HostType' /\ WiresFine' /\ Committed' /\ HostIsRight'
  <2>1. ops' \in [Ops -> OpType] /\ EndsStay
    BY DEF Flush, Inv, TypeOK, JournalType, EndsStay
  <2> QED
    BY <1>1, <1>2, <2>1, LocalStep DEF Flush
<1> QED
  BY <1>2, <1>3, <1>4 DEF Inv, TypeOK, SInv

\* A turn ends with nobody giving a prompt.
LEMMA TurnEndsInv == ASSUME ConsoleBounds, Inv, TurnEnds PROVE Inv'
<1>1. used.raised \in Nat /\ <<used.raised + 1>> \in Seq(Nat)
  BY DEF Inv, TypeOK, UsedType
<1>2. Grows /\ buffered' \in Seq(Nat)
  BY <1>1, CommitGrows DEF TurnEnds, Inv, TypeOK
<1>3. \A o \in Ops : \/ ops'[o] = ops[o]
                     \/ /\ ops[o].state = "accepted"
                        /\ \E end \in {"settled", "uncertain"} :
                              ops'[o] = [ops[o] EXCEPT !.state = end]
  BY DEF TurnEnds, Decided
<1>4. /\ ops' \in [Ops -> OpType]
      /\ \A o \in Ops, state \in OpStates :
            ops'[o] = [ops[o] EXCEPT !.state = state] => ops'[o].state = state
  <2>1. ops' = [o \in Ops |-> ops'[o]]
    BY DEF TurnEnds, Decided
  <2>2. \A o \in Ops : \/ ops'[o] = ops[o]
                       \/ \E state \in OpStates :
                             ops'[o] = [ops[o] EXCEPT !.state = state]
    BY <1>3 DEF OpStates
  <2> QED
    BY <2>1, <2>2, OpsMove DEF Inv, TypeOK, JournalType
<1>5. \A o \in Ops : /\ ops[o].state \in Final => ops'[o].state = ops[o].state
                     /\ ops'[o].state \in {"none", "queued", "rejected"} =>
                           ops'[o].state = ops[o].state
  BY <1>3, <1>4 DEF OpStates, Final
<1>6. LiveType' /\ LiveKept
  BY WakingKeeps DEF TurnEnds, Inv, TypeOK
<1>7. JournalType' /\ NodeType'
  BY <1>2, <1>4 DEF TurnEnds, Inv, TypeOK, JournalType, NodeType, Grows
<1>11. UsedType' /\ used'.invoked = used.invoked
  BY RaisedCounts DEF TurnEnds, Inv, TypeOK, UsedType
<1>8. ConsoleType'
  BY DEF TurnEnds, Inv, TypeOK, ConsoleType, ConsoleRecords, PumpAsked, InDoubt
<1>9. WireType' /\ HostType' /\ WiresFine' /\ Committed' /\ HostIsRight'
  <2>1. EndsStay
    BY <1>5 DEF EndsStay
  <2> QED
    BY <1>2, <1>4, <1>6, <2>1, LocalStep DEF TurnEnds
<1>10. GivenOnce'
  <2>1. used'.invoked = used.invoked /\ invoking' = invoking /\ invoking = 0
    BY <1>11 DEF TurnEnds, Inv, TypeOK, UsedType, SInv, GivenOnce
  <2> QED
    BY <1>5, <2>1 DEF Inv, SInv, GivenOnce
<1> QED
  BY <1>6, <1>7, <1>8, <1>9, <1>10, <1>11 DEF Inv, TypeOK, SInv

LEMMA AgentEndsInv == ASSUME ConsoleBounds, Inv, AgentEnds PROVE Inv'
<1>1. used.raised \in Nat /\ <<used.raised + 1>> \in Seq(Nat)
  BY DEF Inv, TypeOK, UsedType
<1>2. Grows /\ buffered' \in Seq(Nat)
  BY <1>1, CommitGrows DEF AgentEnds, Inv, TypeOK
<1>3. \A o \in Ops : \/ ops'[o] = ops[o] /\ ops[o].state \notin {"accepted", "queued"}
                     \/ /\ ops[o].state = "accepted"
                        /\ ops'[o] = [ops[o] EXCEPT !.state = "uncertain"]
                     \/ /\ ops[o].state = "queued"
                        /\ ops'[o] = [ops[o] EXCEPT !.state = "rejected"]
  BY DEF AgentEnds
<1>4. /\ ops' \in [Ops -> OpType]
      /\ \A o \in Ops, state \in OpStates :
            ops'[o] = [ops[o] EXCEPT !.state = state] => ops'[o].state = state
  <2>1. ops' = [o \in Ops |-> ops'[o]]
    BY DEF AgentEnds
  <2>2. \A o \in Ops : \/ ops'[o] = ops[o]
                       \/ \E state \in OpStates :
                             ops'[o] = [ops[o] EXCEPT !.state = state]
    BY <1>3 DEF OpStates
  <2> QED
    BY <2>1, <2>2, OpsMove DEF Inv, TypeOK, JournalType
<1>5. \A o \in Ops : /\ ops[o].state \in Final => ops'[o].state = ops[o].state
                     /\ ops'[o].state \in {"none", "queued", "rejected"} =>
                           ops[o].state \in {"none", "queued", "rejected"}
                     /\ ops[o].state \in {"accepted", "uncertain"} =>
                           ops'[o].state \in {"accepted", "uncertain"}
  BY <1>3, <1>4 DEF OpStates, Final
<1>6. LiveType' /\ LiveKept
  BY WakingKeeps DEF AgentEnds, Inv, TypeOK
<1>7. JournalType' /\ NodeType' /\ ConsoleType'
  BY <1>2, <1>4 DEF AgentEnds, Inv, TypeOK, JournalType, NodeType, ConsoleType, Grows
<1>8. UsedType' /\ used'.invoked = used.invoked
  BY RaisedCounts DEF AgentEnds, Inv, TypeOK, UsedType
<1>9. WireType' /\ HostType' /\ WiresFine' /\ Committed' /\ HostIsRight'
  <2>1. EndsStay
    BY <1>5 DEF EndsStay
  <2> QED
    BY <1>2, <1>4, <1>6, <2>1, LocalStep DEF AgentEnds
<1>10. GivenOnce'
  <2>1. used'.invoked = used.invoked /\ invoking' = invoking /\ ~agent'.busy
    BY <1>8 DEF AgentEnds
  <2>2. invoking # 0 => invoking \in Ops
    BY DEF Inv, TypeOK, NodeType
  <2> QED
    BY <1>5, <2>1, <2>2 DEF Inv, SInv, GivenOnce
<1> QED
  BY <1>6, <1>7, <1>8, <1>9, <1>10 DEF Inv, TypeOK, SInv

\* A prompt is recorded that was not, or waited in the queue.
LEMMA RecordedMoves ==
    ASSUME Inv, NEW o \in Ops, NEW state \in {"queued", "accepted"},
           ops[o].state \in {"none", "queued"}, Recorded(o, state)
    PROVE  /\ ops' \in [Ops -> OpType] /\ epoch' \in Nat /\ EndsStay
           /\ ops'[o].state = state /\ used.invoked[o] = 0
           /\ \A p \in Ops \ {o} : ops'[p] = ops[p]
<1>1. epoch \in Nat /\ FlushedWater \in Nat /\ ops \in [Ops -> OpType]
  BY LenProperties DEF Inv, TypeOK, JournalType, NodeType, FlushedWater, Water
<1>2. [state |-> state, epoch |-> epoch + 1, after |-> FlushedWater] \in OpType
  BY <1>1 DEF OpType, OpStates
<1>3. ops' = [ops EXCEPT ![o] = [state |-> state, epoch |-> epoch + 1,
                                 after |-> FlushedWater]]
      /\ epoch' = epoch + 1
  BY DEF Recorded
<1>4. used.invoked[o] = 0
  BY DEF Inv, SInv, GivenOnce
<1> QED
  BY <1>1, <1>2, <1>3, <1>4 DEF EndsStay, Final

LEMMA LocalPromptInv == ASSUME ConsoleBounds, Inv, LocalPrompt PROVE Inv'
<1>1. PICK o \in Ops : /\ ops[o] = NoOp
                       /\ Recorded(o, IF agent.busy THEN "queued" ELSE "accepted")
                       /\ invoking' = IF agent.busy THEN 0 ELSE o
  BY DEF LocalPrompt
<1> DEFINE state == IF agent.busy THEN "queued" ELSE "accepted"
<1>2. /\ ops' \in [Ops -> OpType] /\ epoch' \in Nat /\ EndsStay
      /\ ops'[o].state = state /\ used.invoked[o] = 0
      /\ \A p \in Ops \ {o} : ops'[p] = ops[p]
  <2>1. ops[o].state = "none" /\ Recorded(o, state) /\ state \in {"queued", "accepted"}
    BY <1>1 DEF NoOp
  <2> QED
    BY <2>1, RecordedMoves
<1>3. Grows /\ buffered' \in Seq(Nat)
  BY CommitGrows, NoneIsSeq DEF LocalPrompt, Inv, TypeOK
<1>4. LiveType' /\ LiveKept
  BY WakingKeeps DEF LocalPrompt, Inv, TypeOK
<1>5. JournalType' /\ NodeType' /\ UsedType' /\ ConsoleType'
  BY <1>1, <1>2, <1>3 DEF LocalPrompt, Inv, TypeOK, JournalType, NodeType, UsedType,
                          ConsoleType, Grows
<1>6. WireType' /\ HostType' /\ WiresFine' /\ Committed' /\ HostIsRight'
  BY <1>2, <1>3, <1>4, LocalStep DEF LocalPrompt
<1>7. GivenOnce'
  <2>1. used' = used /\ agent' = agent
    BY DEF LocalPrompt
  <2>2. invoking' # 0 => invoking' = o /\ ~agent.busy
    BY <1>1
  <2>3. \A p \in Ops : /\ used'.invoked[p] <= 1
                       /\ ops'[p].state \in {"none", "queued", "rejected"} =>
                             used'.invoked[p] = 0
    BY <1>2, <2>1 DEF Inv, SInv, GivenOnce
  <2>4. invoking' # 0 => /\ ~agent'.busy
                         /\ ops'[invoking'].state \in {"accepted", "uncertain"}
                         /\ used'.invoked[invoking'] = 0
    BY <1>2, <2>1, <2>2
  <2> QED
    BY <2>3, <2>4 DEF GivenOnce
<1> QED
  BY <1>4, <1>5, <1>6, <1>7 DEF Inv, TypeOK, SInv

LEMMA InvokeInv == ASSUME ConsoleBounds, Inv, Invoke PROVE Inv'
<1> DEFINE i == invoking
<1>1. /\ i \in Ops /\ invoking' = 0 /\ 0 \in Ops \cup {0}
      /\ ops[i].state \in {"accepted", "uncertain"} /\ used.invoked[i] = 0
  BY DEF Invoke, Inv, TypeOK, SInv, NodeType, GivenOnce
<1>2. \/ /\ agent' = [agent EXCEPT !.busy = TRUE]
         /\ used' = [used EXCEPT !.invoked[i] = @ + 1]
         /\ UNCHANGED <<ops, live>>
      \/ /\ ops' = [ops EXCEPT ![i].state = "rejected"]
         /\ live' = Marked(live)
         /\ UNCHANGED <<agent, used>>
  BY DEF Invoke
<1>3. Grows
  BY StillGrows DEF Invoke, Inv, TypeOK
<1>4. /\ ops' \in [Ops -> OpType] /\ EndsStay
      /\ \A o \in Ops \ {i} : ops'[o] = ops[o]
      /\ \/ ops'[i].state \notin {"none", "queued", "rejected"}
         \/ used' = used
  <2>1. CASE UNCHANGED ops
    BY <1>1, <2>1 DEF Inv, TypeOK, JournalType, EndsStay
  <2>2. CASE ops' = [ops EXCEPT ![i].state = "rejected"] /\ used' = used
    <3>1. ops[i] \in OpType /\ "rejected" \in OpStates /\ ops \in [Ops -> OpType]
      BY <1>1 DEF Inv, TypeOK, JournalType, OpStates
    <3>2. [ops[i] EXCEPT !.state = "rejected"] \in OpType
      BY <3>1, OpMoves
    <3>3. ops' = [ops EXCEPT ![i] = [ops[i] EXCEPT !.state = "rejected"]]
      BY <2>2, <3>1
    <3> QED
      BY <1>1, <2>2, <3>1, <3>2, <3>3 DEF EndsStay, Final
  <2> QED
    BY <1>2, <2>1, <2>2
<1>5. LiveType' /\ LiveKept
  BY <1>2, WakingKeeps DEF Inv, TypeOK
<1>6. /\ UsedType'
      /\ \A o \in Ops \ {i} : used'.invoked[o] = used.invoked[o]
      /\ used'.invoked[i] \in {0, 1}
  BY <1>1, <1>2 DEF Inv, TypeOK, UsedType
<1>7. JournalType' /\ NodeType' /\ ConsoleType'
  BY <1>1, <1>2, <1>3, <1>4 DEF Invoke, Inv, TypeOK, JournalType, NodeType, ConsoleType, Grows
<1>8. WireType' /\ HostType' /\ WiresFine' /\ Committed' /\ HostIsRight'
  BY <1>3, <1>4, <1>5, LocalStep DEF Invoke
<1>9. GivenOnce'
  <2>1. \A o \in Ops : /\ used'.invoked[o] <= 1
                       /\ ops'[o].state \in {"none", "queued", "rejected"} =>
                             used'.invoked[o] = 0
    BY <1>1, <1>4, <1>6 DEF Inv, SInv, GivenOnce
  <2> QED
    BY <1>1, <2>1 DEF GivenOnce
<1> QED
  BY <1>5, <1>6, <1>7, <1>8, <1>9 DEF Inv, TypeOK, SInv

LEMMA CancelQueuedInv == ASSUME ConsoleBounds, Inv, CancelQueued PROVE Inv'
<1>1. PICK o \in Ops : ops[o].state = "queued" /\ ops' = [ops EXCEPT ![o].state = "rejected"]
  BY DEF CancelQueued
<1>2. Grows /\ buffered' \in Seq(Nat)
  BY CommitGrows, NoneIsSeq DEF CancelQueued, Inv, TypeOK
<1>3. /\ ops' \in [Ops -> OpType] /\ EndsStay
      /\ \A p \in Ops \ {o} : ops'[p] = ops[p]
  BY <1>1, OpMoves DEF Inv, TypeOK, JournalType, OpStates, EndsStay, Final
<1>4. LiveType' /\ LiveKept
  BY WakingKeeps DEF CancelQueued, Inv, TypeOK
<1>5. JournalType' /\ NodeType' /\ UsedType' /\ ConsoleType'
  BY <1>2, <1>3 DEF CancelQueued, Inv, TypeOK, JournalType, NodeType, UsedType,
                    ConsoleType, Grows
<1>6. WireType' /\ HostType' /\ WiresFine' /\ Committed' /\ HostIsRight'
  BY <1>2, <1>3, <1>4, LocalStep DEF CancelQueued
<1>7. GivenOnce'
  BY <1>1, <1>3 DEF CancelQueued, Inv, SInv, GivenOnce
<1> QED
  BY <1>4, <1>5, <1>6, <1>7 DEF Inv, TypeOK, SInv

LEMMA PumpLocalInv == ASSUME ConsoleBounds, Inv, PumpLocal PROVE Inv'
<1>1. ConsoleType' /\ UsedType' /\ agent' = agent /\ admitting' = admitting /\ used' = used
      /\ UNCHANGED <<acked, ackedEpoch, toHost, toNode, up, hostVars>>
  BY DEF PumpLocal, Inv, TypeOK, ConsoleType, ConsoleRecords, UsedType
<1>2. CASE Pumpable
  <2>1. PICK o \in Queued : Recorded(o, "accepted") /\ invoking' = o
    BY <1>2 DEF PumpLocal
  <2>2. o \in Ops /\ ops[o].state = "queued" /\ ~agent.busy
    BY <1>2, <2>1 DEF Queued, Pumpable
  <2>3. /\ ops' \in [Ops -> OpType] /\ epoch' \in Nat /\ EndsStay
        /\ ops'[o].state = "accepted" /\ used.invoked[o] = 0
        /\ \A p \in Ops \ {o} : ops'[p] = ops[p]
    BY <2>1, <2>2, RecordedMoves
  <2>4. Grows /\ buffered' \in Seq(Nat)
    BY <1>2, CommitGrows, NoneIsSeq DEF PumpLocal, Inv, TypeOK
  <2>5. LiveType' /\ LiveKept
    BY <1>2, WakingKeeps DEF PumpLocal, Inv, TypeOK
  <2>6. JournalType' /\ NodeType'
    BY <1>1, <2>1, <2>2, <2>3, <2>4 DEF Inv, TypeOK, JournalType, NodeType, Grows
  <2>7. WireType' /\ HostType' /\ WiresFine' /\ Committed' /\ HostIsRight'
    BY <1>1, <2>3, <2>4, <2>5, LocalStep
  <2>8. GivenOnce'
    <3>1. \A p \in Ops : /\ used'.invoked[p] <= 1
                         /\ ops'[p].state \in {"none", "queued", "rejected"} =>
                               used'.invoked[p] = 0
      BY <1>1, <2>3 DEF Inv, SInv, GivenOnce
    <3> QED
      BY <1>1, <2>1, <2>2, <2>3, <3>1 DEF GivenOnce
  <2> QED
    BY <1>1, <2>5, <2>6, <2>7, <2>8 DEF Inv, TypeOK, SInv
<1>3. CASE ~Pumpable
  <2>1. UNCHANGED <<epoch, ops, invoking, journal, buffered, live>>
    BY <1>3 DEF PumpLocal
  <2>2. Grows /\ ops' \in [Ops -> OpType] /\ EndsStay /\ LiveKept
    BY <2>1, StillGrows DEF Inv, TypeOK, JournalType, EndsStay, LiveKept
  <2>3. JournalType' /\ NodeType' /\ LiveType' /\ GivenOnce'
    BY <1>1, <2>1 DEF Inv, TypeOK, SInv, JournalType, NodeType, LiveType, GivenOnce
  <2>4. WireType' /\ HostType' /\ WiresFine' /\ Committed' /\ HostIsRight'
    BY <1>1, <2>2, LocalStep
  <2> QED
    BY <1>1, <2>3, <2>4 DEF Inv, TypeOK, SInv
<1> QED
  BY <1>2, <1>3

-----------------------------------------------------------------------------
(* What is sent                                                            *)

\* Steps that neither give a prompt nor end a turn.
LEMMA GivenStays ==
    ASSUME GivenOnce, UNCHANGED <<ops, invoking>>, used'.invoked = used.invoked,
           agent'.busy => agent.busy \/ invoking = 0
    PROVE  GivenOnce'
BY DEF GivenOnce

\* What the operations and the queue say of an end, if it is what the journal says.
LEMMA SameOps == ASSUME JournalType, UNCHANGED ops PROVE ops' \in [Ops -> OpType] /\ EndsStay
BY DEF JournalType, EndsStay

LEMMA NothingIsSegment ==
    ASSUME NEW history \in Seq(Nat)
    PROVE  Nothing \in BatchType /\ Segment(history, Nothing)
<1>1. <<>> \in Seq(Nat) /\ Len(<<>>) = 0 /\ Len(history) \in Nat
  BY EmptySeq, LenProperties
<1> QED
  BY <1>1, NoControls DEF Nothing, BatchType, Segment

LEMMA WaterTyped == ASSUME JournalType PROVE Water \in Nat
BY LenProperties DEF JournalType, Water

\* A connection's live batch.
LEMMA PumpLiveInv == ASSUME ConsoleBounds, Inv, PumpLive PROVE Inv'
<1>a. PICK batch : batch = Batch(journal, SentThrough, Water, Unsent)
  OBVIOUS
<1>b. PICK request : request = Ask("replay", "live", batch, {}, 0)
  OBVIOUS
<1>1. /\ JournalType /\ NodeType /\ ConsoleType /\ LiveType /\ WireType /\ HostType
      /\ UsedType /\ WiresFine /\ Committed /\ HostIsRight /\ GivenOnce
  BY DEF Inv, TypeOK, SInv
<1>2. UNCHANGED <<journalVars, nodeVars, console, up, toNode, hostVars, used>>
  BY DEF PumpLive
<1>3. Unsent \in ControlSets /\ \A c \in Unsent : c.op = ops[c.id]
  <2>1. {o \in Ops : ops[o] # NoOp /\ live.states[o] # ops[o]} \subseteq Ops
    OBVIOUS
  <2> QED
    BY <1>1, <2>1, WiresTyped, NoControls DEF Unsent
<1>4. SentThrough \in Nat /\ SentThrough <= Water /\ Water \in Nat /\ Water = Len(journal)
  BY <1>1, WaterTyped DEF SentThrough, Committed, JournalType, LiveType, LiveRecords,
                          Unset, Water
<1>5. /\ batch \in BatchType /\ Segment(journal, batch) /\ batch.controls \subseteq Unsent
      /\ batch.through \in Nat /\ batch.through <= Water
  <2>1. /\ batch \in BatchType /\ Segment(journal, batch)
        /\ batch.controls \subseteq Unsent
    BY <1>a, <1>1, <1>3, <1>4, BatchIsSegment DEF JournalType
  <2> QED
    BY <1>4, <2>1 DEF Segment, BatchType
<1>6. request \in RequestType
  BY <1>b, <1>1, <1>5, NoControls DEF Ask, RequestType, ConsoleType, ConsoleRecords
<1>7. RequestFine(request)
  <2>1. /\ request.batch = batch /\ request.limit = 0 /\ request.rest = {}
    BY <1>b DEF Ask
  <2>2. \A c \in batch.controls : EndIsTrue(c.id, c.op)
    BY <1>3, <1>5 DEF EndIsTrue
  <2> QED
    BY <1>4, <1>5, <2>1, <2>2 DEF RequestFine
<1>8. toHost' = toHost \/ toHost' = Append(toHost, request)
  BY <1>a, <1>b DEF PumpLive
<1>9. toHost' \in Seq(RequestType) /\ ToSet(toHost') \subseteq ToSet(toHost) \cup {request}
  <2>1. toHost \in Seq(RequestType)
    BY <1>1 DEF WireType
  <2>2. CASE toHost' = Append(toHost, request)
    BY <1>6, <2>1, <2>2, ToSetAppend, AppendProperties
  <2> QED
    BY <1>8, <2>1, <2>2
<1>10. LiveType' /\ live'.sent <= Water /\ live'.acks = live.acks
  <2>1. \/ live' = [live EXCEPT !.wanted = FALSE]
        \/ live' = [live EXCEPT !.wanted = FALSE, !.dirty = FALSE]
        \/ \E wanted \in BOOLEAN, states \in [Ops -> OpType] :
              live' = [live EXCEPT !.inFlight = @ + 1, !.sent = batch.through,
                                   !.wanted = wanted, !.states = states]
    <3>1. CASE ~console.granted
      BY <3>1 DEF PumpLive
    <3>2. CASE console.granted /\ EmptyBatch(batch)
      BY <1>a, <3>2 DEF PumpLive
    <3>3. CASE console.granted /\ ~EmptyBatch(batch)
      <4> DEFINE wanted == batch.through < Water \/ batch.controls # {}
                 states == [o \in Ops |-> IF \E c \in batch.controls : c.id = o
                                          THEN ops[o] ELSE live.states[o]]
      <4>1. live' = [live EXCEPT !.inFlight = @ + 1, !.sent = batch.through,
                                 !.wanted = wanted, !.states = states]
        BY <1>a, <1>1, <3>3 DEF PumpLive, LiveType, LiveRecords
      <4>2. wanted \in BOOLEAN /\ states \in [Ops -> OpType]
        BY <1>1 DEF JournalType, LiveType, LiveRecords
      <4> HIDE DEF wanted, states
      <4> QED
        BY <4>1, <4>2
    <3> QED
      BY <3>1, <3>2, <3>3
  <2>2. live.sent <= Water /\ live \in LiveRecords
    BY <1>1 DEF Committed, LiveType
  <2>3. CASE \/ live' = [live EXCEPT !.wanted = FALSE]
             \/ live' = [live EXCEPT !.wanted = FALSE, !.dirty = FALSE]
    BY <2>2, <2>3 DEF LiveType, LiveRecords
  <2>4. ASSUME NEW wanted \in BOOLEAN, NEW states \in [Ops -> OpType],
               live' = [live EXCEPT !.inFlight = @ + 1, !.sent = batch.through,
                                    !.wanted = wanted, !.states = states]
        PROVE  LiveType' /\ live'.sent <= Water /\ live'.acks = live.acks
    <3>1. batch.through \in Unset /\ live.inFlight + 1 \in Int
      BY <1>5, <2>2 DEF LiveRecords, Unset
    <3>2. live' \in LiveRecords
      BY <2>2, <2>4, <3>1 DEF LiveRecords
    <3>3. live'.sent = batch.through /\ live'.acks = live.acks
      BY <2>2, <2>4 DEF LiveRecords
    <3> QED
      BY <1>5, <3>2, <3>3 DEF LiveType
  <2> QED
    BY <2>1, <2>3, <2>4
<1>11. /\ JournalType' /\ NodeType' /\ ConsoleType' /\ HostType' /\ UsedType'
       /\ HostIsRight'
  BY <1>1, <1>2 DEF JournalType, NodeType, ConsoleType, HostType, UsedType, HostIsRight,
                    EndIsTrue, journalVars, nodeVars, hostVars
<1>12. WireType'
  BY <1>1, <1>2, <1>9 DEF WireType
<1>13. WiresFine'
  <2>1. Grows /\ ops' \in [Ops -> OpType] /\ EndsStay
    BY <1>1, <1>2, StillGrows, SameOps DEF journalVars
  <2>2. RequestFine(request)'
    BY <1>1, <1>6, <1>7, <2>1, FineStays
  <2> QED
    BY <1>1, <1>2, <1>9, <2>1, <2>2, WiresStay
<1>14. Committed'
  BY <1>1, <1>2, <1>10 DEF Committed, journalVars, Water
<1>15. GivenOnce'
  BY <1>1, <1>2, GivenStays DEF journalVars, nodeVars
<1> QED
  BY <1>10, <1>11, <1>12, <1>13, <1>14, <1>15 DEF Inv, TypeOK, SInv

LEMMA AckWriteInv == ASSUME ConsoleBounds, Inv, AckWrite PROVE Inv'
<1>1. /\ JournalType /\ NodeType /\ ConsoleType /\ LiveType /\ WireType /\ HostType
      /\ UsedType /\ WiresFine /\ Committed /\ HostIsRight /\ GivenOnce
      /\ Water \in Nat
  BY WaterTyped DEF Inv, TypeOK, SInv
<1>2. /\ live.acks.through \in Int /\ live.acks.epoch \in Nat /\ acked \in Nat
      /\ ackedEpoch \in Nat
  BY <1>1 DEF JournalType, LiveType, LiveRecords, Unset
<1>3. acked' \in Nat /\ acked' <= Water
  <2>1. acked' = IF acked >= live.acks.through THEN acked ELSE live.acks.through
    BY <1>2, GreaterOfTwo DEF AckWrite
  <2> QED
    BY <1>1, <1>2, <2>1 DEF Committed
<1>4. ackedEpoch' \in Nat
  <2>1. ackedEpoch' = IF ackedEpoch >= live.acks.epoch THEN ackedEpoch ELSE live.acks.epoch
    BY <1>2, GreaterOfTwo DEF AckWrite
  <2> QED
    BY <1>2, <2>1
<1>5. LiveType' /\ live'.sent = live.sent /\ live'.acks = NoAck
  BY <1>1 DEF AckWrite, LiveType, LiveRecords, NoAck, Unset
<1>6. /\ JournalType' /\ NodeType' /\ ConsoleType' /\ WireType' /\ HostType' /\ UsedType'
      /\ HostIsRight' /\ GivenOnce'
  BY <1>1, <1>3, <1>4 DEF AckWrite, JournalType, NodeType, ConsoleType, WireType, HostType,
                          UsedType, HostIsRight, EndIsTrue, GivenOnce, nodeVars, hostVars
<1>7. WiresFine'
  <2>1. Grows /\ ops' \in [Ops -> OpType] /\ EndsStay
    BY <1>1, StillGrows, SameOps DEF AckWrite
  <2> QED
    BY <1>1, <2>1, WiresKept DEF AckWrite
<1>8. Committed'
  BY <1>1, <1>3, <1>5 DEF AckWrite, Committed, Water, NoAck
<1> QED
  BY <1>5, <1>6, <1>7, <1>8 DEF Inv, TypeOK, SInv

-----------------------------------------------------------------------------
(* The console, the connection and what neither side learns from           *)

\* What is on the wires is what was there, or an answer to what was there.
NothingNew ==
    /\ toHost' \in Seq(RequestType) /\ ToSet(toHost') \subseteq ToSet(toHost)
    /\ toNode' \in Seq(MessageType)
    /\ \A m \in ToSet(toNode') :
          m.kind = "answer" => m \in ToSet(toNode) \/ m.request \in ToSet(toHost)

\* What a step preserves that leaves the journal and the Host's operations as
\* they are and puts nothing new on the wires.
LEMMA QuietStep ==
    ASSUME ConsoleBounds, Inv, ConsoleType', LiveType', NodeType', HostType', UsedType',
           UNCHANGED <<journalVars, hostOps, invoking>>, used'.invoked = used.invoked,
           agent'.busy => agent.busy \/ invoking = 0,
           live'.sent <= Water, live'.acks.through <= Water,
           up' \in BOOLEAN, NothingNew
    PROVE  Inv'
<1>1. JournalType /\ WireType /\ WiresFine /\ Committed /\ HostIsRight /\ GivenOnce
  BY DEF Inv, TypeOK, SInv
<1>2. Grows /\ ops' \in [Ops -> OpType] /\ EndsStay /\ JournalType'
  BY <1>1, StillGrows, SameOps DEF journalVars, JournalType
<1>3. WiresFine'
  BY <1>1, <1>2, WiresStay DEF NothingNew
<1>4. Committed'
  BY <1>1 DEF Committed, journalVars, Water
<1>5. HostIsRight' /\ GivenOnce' /\ WireType'
  BY <1>1, <1>2, HostStaysRight, GivenStays DEF journalVars, WireType, NothingNew
<1> QED
  BY <1>2, <1>3, <1>4, <1>5 DEF Inv, TypeOK, SInv

LEMMA InvParts ==
    ASSUME Inv
    PROVE  /\ JournalType /\ NodeType /\ ConsoleType /\ LiveType /\ WireType /\ HostType
           /\ UsedType /\ WiresFine /\ Committed /\ HostIsRight /\ GivenOnce
           /\ Water \in Nat /\ live.sent <= Water /\ live.acks.through <= Water
BY WaterTyped DEF Inv, TypeOK, SInv, Committed

LEMMA NoLiveTyped ==
    /\ NoLive \in LiveRecords /\ NoLive.sent = -1 /\ NoLive.acks.through = -1
BY DEF NoLive, NoAck, NoOp, LiveRecords, Unset, OpType, OpStates

LEMMA BegunTyped == ASSUME NEW c \in ConsoleRecords PROVE Begun(c) \in ConsoleRecords
<1>1. c.gen + 1 \in Nat /\ [o \in Ops |-> NoOp] \in [Ops -> OpType]
  BY DEF ConsoleRecords, NoOp, OpType, OpStates
<1> QED
  BY <1>1 DEF Begun, ConsoleRecords

LEMMA FencedTyped == ASSUME NEW c \in ConsoleRecords PROVE Fenced(c) \in ConsoleRecords
<1>1. c.gen + 1 \in Nat
  BY DEF ConsoleRecords
<1> QED
  BY <1>1 DEF Fenced, ConsoleRecords

\* Reading a message leaves the rest; an answer carries a request.
LEMMA ReadTyped ==
    ASSUME WireType, WiresFine, toNode # <<>>, toNode' = Tail(toNode), UNCHANGED toHost
    PROVE  /\ NothingNew
           /\ Head(toNode) \in MessageType
           /\ Head(toNode).kind = "answer" => /\ Head(toNode) \in AnswerType
                                              /\ RequestFine(Head(toNode).request)
           /\ Head(toNode).kind \in {"grant", "work"} => Head(toNode).epoch \in Nat
           /\ Head(toNode).kind = "work" => Head(toNode) \in WorkType
<1>1. /\ Head(toNode) \in ToSet(toNode) /\ Head(toNode) \in MessageType
      /\ Tail(toNode) \in Seq(MessageType) /\ ToSet(Tail(toNode)) \subseteq ToSet(toNode)
  BY ToSetHead DEF WireType
<1>2. NothingNew
  BY <1>1 DEF NothingNew, WireType
<1>3. Head(toNode).kind = "answer" => RequestFine(Head(toNode).request)
  BY <1>1 DEF WiresFine
<1>4. /\ Head(toNode).kind = "answer" => Head(toNode) \in AnswerType
      /\ Head(toNode).kind \in {"grant", "work"} => Head(toNode).epoch \in Nat
      /\ Head(toNode).kind = "work" => Head(toNode) \in WorkType
  BY <1>1 DEF MessageType, AnswerType, GrantType, WorkType
<1> QED
  BY <1>1, <1>2, <1>3, <1>4

\* Steps that change neither the agent, the lock, the Host nor the counters.
LEMMA RestKept ==
    ASSUME Inv, UNCHANGED <<nodeVars, hostVars, used>>
    PROVE  /\ NodeType' /\ HostType' /\ UsedType' /\ UNCHANGED <<hostOps, invoking>>
           /\ used'.invoked = used.invoked /\ agent' = agent
BY DEF Inv, TypeOK, NodeType, HostType, UsedType, nodeVars, hostVars

LEMMA IgnoreAnswerInv == ASSUME ConsoleBounds, Inv, IgnoreAnswer PROVE Inv'
<1>1. NothingNew
  BY InvParts, ReadTyped DEF IgnoreAnswer
<1>2. ConsoleType' /\ LiveType' /\ live' = live /\ up' \in BOOLEAN
  BY InvParts DEF IgnoreAnswer, ConsoleType, LiveType, WireType
<1> QED
  BY <1>1, <1>2, InvParts, RestKept, QuietStep DEF IgnoreAnswer

LEMMA HandleSynchronizedInv == ASSUME ConsoleBounds, Inv, HandleSynchronized PROVE Inv'
<1>1. NothingNew
  BY InvParts, ReadTyped DEF HandleSynchronized, Answered
<1>2. ConsoleType'
  BY InvParts DEF HandleSynchronized, ConsoleType, ConsoleRecords
<1>3. LiveType' /\ live' = live /\ up' \in BOOLEAN
  BY InvParts DEF HandleSynchronized, LiveType, WireType
<1> QED
  BY <1>1, <1>2, <1>3, InvParts, RestKept, QuietStep DEF HandleSynchronized

LEMMA HandleLiveInv == ASSUME ConsoleBounds, Inv, HandleLive PROVE Inv'
<1> DEFINE batch == Head(toNode).request.batch
<1>1. /\ NothingNew /\ batch \in BatchType /\ batch.through <= Water
  <2>1. NothingNew /\ Head(toNode) \in AnswerType /\ RequestFine(Head(toNode).request)
    BY InvParts, ReadTyped DEF HandleLive, Answered
  <2> QED
    BY <2>1 DEF AnswerType, RequestType, RequestFine, Segment, Water
<1>2. up' \in BOOLEAN
  BY InvParts DEF HandleLive, WireType
<1>3. CASE Head(toNode).request.gen # console.gen
  <2>1. UNCHANGED <<console, live>>
    BY <1>3 DEF HandleLive
  <2>2. ConsoleType' /\ LiveType'
    BY <2>1, InvParts DEF ConsoleType, LiveType
  <2> QED
    BY <1>1, <1>2, <2>1, <2>2, InvParts, RestKept, QuietStep DEF HandleLive
<1>4. CASE Head(toNode).request.gen = console.gen
  <2>1. PICK through, at, hosts :
           /\ through = Max({live.acks.through, batch.through})
           /\ at = Max({live.acks.epoch} \cup Epochs(batch.controls))
           /\ hosts = Max({console.hostEpoch} \cup Epochs(batch.controls))
    OBVIOUS
  <2>2. /\ live' = [live EXCEPT !.inFlight = live.inFlight - 1,
                                !.acks = [through |-> through, epoch |-> at]]
        /\ console' = [console EXCEPT !.hostEpoch = hosts]
    BY <1>4, <2>1, InvParts DEF HandleLive, LiveType, LiveRecords, ConsoleType, ConsoleRecords
  <2>3. /\ batch.through \in Nat /\ batch.controls \in ControlSets
        /\ live.acks.through \in Int /\ live.acks.through <= Water
        /\ live.acks.through \in Unset
        /\ live.acks.epoch \in Nat /\ console.hostEpoch \in Nat /\ Water \in Nat
    <3>1. batch.through \in Nat /\ batch.controls \in ControlSets
      BY <1>1 DEF BatchType
    <3>2. live.acks \in [through: Unset, epoch: Nat]
      BY InvParts DEF LiveType, LiveRecords
    <3>3. console.hostEpoch \in Nat /\ live.acks.through <= Water /\ Water \in Nat
      BY InvParts DEF ConsoleType, ConsoleRecords
    <3> QED
      BY <3>1, <3>2, <3>3 DEF Unset
  <2>4. at \in Nat /\ hosts \in Nat
    BY <2>1, <2>3, EpochsTyped
  <2>5. through \in Unset /\ through <= Water
    <3>1. through = IF live.acks.through >= batch.through THEN live.acks.through
                    ELSE batch.through
      BY <2>1, <2>3, GreaterOfTwo
    <3> QED
      BY <1>1, <2>3, <3>1 DEF Unset
  <2>6. ConsoleType'
    BY <2>2, <2>4, InvParts DEF ConsoleType, ConsoleRecords
  <2>7. LiveType' /\ live'.sent = live.sent /\ live'.acks.through = through
    <3>1. live \in LiveRecords /\ live.inFlight - 1 \in Int
      BY InvParts DEF LiveType, LiveRecords
    <3>2. [through |-> through, epoch |-> at] \in [through: Unset, epoch: Nat]
      BY <2>4, <2>5
    <3> QED
      BY <2>2, <3>1, <3>2 DEF LiveType, LiveRecords
  <2> QED
    BY <1>1, <1>2, <2>5, <2>6, <2>7, InvParts, RestKept, QuietStep DEF HandleLive
<1> QED
  BY <1>3, <1>4

\* The pump of a fenced console has sent nothing.
LEMMA FencedLiveTyped ==
    ASSUME Inv, live' = FencedLive
    PROVE  LiveType' /\ live'.sent <= Water /\ live'.acks.through <= Water
<1>1. live' = live \/ live' = NoLive
  BY DEF FencedLive
<1> QED
  BY <1>1, InvParts, NoLiveTyped DEF LiveType

LEMMA HandleRefusalInv == ASSUME ConsoleBounds, Inv, HandleRefusal PROVE Inv'
<1>1. NothingNew
  BY InvParts, ReadTyped DEF HandleRefusal, Answered
<1>2. up' \in BOOLEAN
  BY InvParts DEF HandleRefusal, WireType
<1>3. console' = Fenced(console) \/ console' = console
  BY DEF HandleRefusal
<1>4. live' = FencedLive \/ live' = live
  BY DEF HandleRefusal
<1>5. ConsoleType'
  BY <1>3, InvParts, FencedTyped DEF ConsoleType
<1>6. LiveType' /\ live'.sent <= Water /\ live'.acks.through <= Water
  BY <1>4, InvParts, FencedLiveTyped DEF LiveType
<1> QED
  BY <1>1, <1>2, <1>5, <1>6, InvParts, RestKept, QuietStep DEF HandleRefusal

\* A trouble more leaves what was given.
LEMMA TroubleCounts ==
    ASSUME UsedType, Trouble
    PROVE  UsedType' /\ used'.invoked = used.invoked
<1>1. used.troubles + 1 \in Nat /\ used' = [used EXCEPT !.troubles = used.troubles + 1]
  BY DEF UsedType, Trouble
<1> QED
  BY <1>1 DEF UsedType

LEMMA WiresAsTheyWere == ASSUME WireType, UNCHANGED <<toHost, toNode>> PROVE NothingNew
BY DEF WireType, NothingNew

LEMMA RequestTimesOutInv == ASSUME ConsoleBounds, Inv, RequestTimesOut PROVE Inv'
<1>1. NothingNew
  BY InvParts, WiresAsTheyWere DEF RequestTimesOut
<1>2. ConsoleType'
  BY InvParts, FencedTyped DEF RequestTimesOut, ConsoleType, ConsoleRecords
<1>3. LiveType' /\ live'.sent <= Water /\ live'.acks.through <= Water
  BY FencedLiveTyped DEF RequestTimesOut
<1>4. UsedType' /\ used'.invoked = used.invoked
  BY InvParts, TroubleCounts DEF RequestTimesOut
<1>5. NodeType' /\ HostType' /\ agent' = agent /\ up' \in BOOLEAN
      /\ UNCHANGED <<journalVars, hostOps, invoking>>
  BY InvParts DEF RequestTimesOut, NodeType, HostType, WireType, nodeVars, hostVars
<1> QED
  BY <1>1, <1>2, <1>3, <1>4, <1>5, QuietStep

LEMMA ReceiveWorkInv == ASSUME ConsoleBounds, Inv, ReceiveWork PROVE Inv'
<1>1. NothingNew /\ Head(toNode) \in WorkType
  BY InvParts, ReadTyped DEF ReceiveWork
<1>2. NodeType'
  BY <1>1, InvParts, AppendProperties DEF ReceiveWork, NodeType
<1>3. /\ ConsoleType' /\ LiveType' /\ HostType' /\ UsedType' /\ up' \in BOOLEAN
      /\ UNCHANGED <<agent, live, used, hostOps>>
  BY InvParts DEF ReceiveWork, ConsoleType, LiveType, HostType, UsedType, WireType, hostVars
<1> QED
  BY <1>1, <1>2, <1>3, InvParts, QuietStep DEF ReceiveWork

LEMMA AdmitWorkInv == ASSUME ConsoleBounds, Inv, AdmitWork PROVE Inv'
<1>1. NothingNew
  BY InvParts, WiresAsTheyWere DEF AdmitWork
<1>2. admitting' \in Seq(WorkType)
  BY InvParts, HeadTailProperties DEF AdmitWork, NodeType
<1>3. agent' \in [alive: BOOLEAN, busy: BOOLEAN]
  BY InvParts DEF AdmitWork, NodeType
<1>4. ConsoleType'
  <2>1. console' = PumpAsked(console) \/ console' = console
    BY DEF AdmitWork
  <2> QED
    BY <2>1, InvParts DEF ConsoleType, ConsoleRecords, PumpAsked, InDoubt
<1>5. NodeType'
  BY <1>2, <1>3, InvParts DEF AdmitWork, NodeType
<1>6. /\ LiveType' /\ HostType' /\ UsedType' /\ up' \in BOOLEAN
      /\ UNCHANGED <<live, used, hostOps>>
  BY InvParts DEF AdmitWork, LiveType, HostType, UsedType, WireType, hostVars
<1> QED
  BY <1>1, <1>4, <1>5, <1>6, InvParts, QuietStep DEF AdmitWork

LEMMA ConnectInv == ASSUME ConsoleBounds, Inv, Connect PROVE Inv'
<1>1. NothingNew /\ up' \in BOOLEAN
  BY ToSetEmpty, EmptySeq DEF Connect, NothingNew
<1>2. ConsoleType' /\ LiveType' /\ live'.sent <= Water /\ live'.acks.through <= Water
  BY InvParts, BegunTyped, NoLiveTyped DEF Connect, ConsoleType, LiveType
<1>3. NodeType' /\ HostType' /\ UsedType' /\ agent' = agent /\ used' = used
      /\ UNCHANGED <<journalVars, hostOps, invoking>>
  BY InvParts DEF Connect, NodeType, HostType, UsedType, nodeVars
<1> QED
  BY <1>1, <1>2, <1>3, QuietStep

LEMMA BreakInv == ASSUME ConsoleBounds, Inv, Break PROVE Inv'
<1>1. NothingNew /\ up' \in BOOLEAN
  BY InvParts, ToSetEmpty, EmptySeq DEF Break, NothingNew, WireType
<1>2. ConsoleType'
  <2>1. console.gen + 1 \in Nat
    BY InvParts DEF ConsoleType, ConsoleRecords
  <2> QED
    BY <2>1, InvParts DEF Break, ConsoleType, ConsoleRecords
<1>3. LiveType' /\ live'.sent <= Water /\ live'.acks.through <= Water
  BY InvParts, NoLiveTyped DEF Break, LiveType
<1>4. UsedType' /\ used'.invoked = used.invoked
  BY InvParts, TroubleCounts DEF Break
<1>5. NodeType' /\ HostType' /\ agent' = agent
      /\ UNCHANGED <<journalVars, hostOps, invoking>>
  BY InvParts DEF Break, NodeType, HostType, nodeVars, hostVars
<1> QED
  BY <1>1, <1>2, <1>3, <1>4, <1>5, QuietStep

LEMMA HandleResyncInv == ASSUME ConsoleBounds, Inv, HandleResync PROVE Inv'
<1>1. NothingNew
  BY InvParts, ReadTyped DEF HandleResync
<1>2. ConsoleType' /\ LiveType' /\ live'.sent <= Water /\ live'.acks.through <= Water
  BY InvParts, BegunTyped, NoLiveTyped DEF HandleResync, ConsoleType, LiveType
<1>3. up' \in BOOLEAN
  BY InvParts DEF HandleResync, WireType
<1> QED
  BY <1>1, <1>2, <1>3, RestKept, QuietStep DEF HandleResync

\* A crash leaves what the journal says, except that what was being given is
\* uncertain: nobody gives it again.
LEMMA NodeCrashInv == ASSUME ConsoleBounds, Inv, NodeCrash PROVE Inv'
<1>1. JournalType' /\ EndsStay
      /\ \A o \in Ops : ops'[o].state \in {"none", "queued", "rejected"} =>
                           ops[o].state \in {"none", "queued", "rejected"}
  <2>1. ops' = [o \in Ops |-> ops'[o]]
    BY DEF NodeCrash
  <2>2. \A o \in Ops : \/ ops'[o] = ops[o]
                       \/ /\ ops[o].state = "accepted"
                          /\ ops'[o] = [ops[o] EXCEPT !.state = "uncertain"]
    BY DEF NodeCrash, Reopened
  <2>3. "uncertain" \in OpStates
    BY DEF OpStates
  <2>4. /\ ops' \in [Ops -> OpType]
        /\ \A o \in Ops : ops'[o] = [ops[o] EXCEPT !.state = "uncertain"] =>
                             ops'[o].state = "uncertain"
    BY <2>1, <2>2, <2>3, OpsMove, InvParts DEF JournalType
  <2> QED
    BY <2>2, <2>4, InvParts DEF NodeCrash, JournalType, EndsStay, Final
<1>2. NodeType' /\ HostType' /\ ~agent'.busy /\ invoking' = 0
  BY InvParts, EmptySeq DEF NodeCrash, NodeType, HostType, hostVars
<1>3. ConsoleType'
  <2>1. console.gen + 1 \in Nat
    BY InvParts DEF ConsoleType, ConsoleRecords
  <2> QED
    BY <2>1, InvParts DEF NodeCrash, ConsoleType, ConsoleRecords
<1>4. LiveType' /\ live'.sent <= Water /\ live'.acks.through <= Water
  BY InvParts, NoLiveTyped DEF NodeCrash, LiveType
<1>5. UsedType' /\ used'.invoked = used.invoked
  BY InvParts, TroubleCounts DEF NodeCrash
<1>6. NothingNew /\ up' \in BOOLEAN
  BY InvParts, ToSetEmpty, EmptySeq DEF NodeCrash, NothingNew, WireType
<1>7. WiresFine' /\ WireType'
  <2>1. Grows /\ ops' \in [Ops -> OpType]
    BY <1>1, InvParts, StillGrows DEF NodeCrash, JournalType
  <2> QED
    BY <1>1, <1>6, <2>1, InvParts, WiresStay DEF NothingNew, WireType
<1>8. Committed'
  BY <1>4, InvParts DEF NodeCrash, Committed, Water
<1>9. HostIsRight'
  BY <1>1, InvParts, HostStaysRight DEF NodeCrash, hostVars
<1>10. GivenOnce'
  BY <1>1, <1>2, <1>5, InvParts DEF GivenOnce
<1> QED
  BY <1>1, <1>2, <1>3, <1>4, <1>5, <1>7, <1>8, <1>9, <1>10 DEF Inv, TypeOK, SInv

-----------------------------------------------------------------------------
(* Synchronization, on the Node                                            *)

\* What a step preserves that commits what was buffered, changes no operation
\* and sends at most the requests `sent`.
LEMMA SendingStep ==
    ASSUME ConsoleBounds, Inv, Grows, acked' \in Nat, epoch' \in Nat, ackedEpoch' \in Nat,
           UNCHANGED <<ops, agent, invoking, admitting, up, hostVars, used>>,
           buffered' \in Seq(Nat), ConsoleType', LiveType',
           acked' <= Water', live'.sent <= Water', live'.acks.through <= Water',
           NEW sent \in Seq(RequestType), toHost' = toHost \o sent,
           \A r \in ToSet(sent) : RequestFine(r)',
           toNode' \in Seq(MessageType), ToSet(toNode') \subseteq ToSet(toNode)
    PROVE  Inv'
<1>1. JournalType' /\ EndsStay
  BY InvParts, SameOps DEF Grows, JournalType
<1>2. NodeType' /\ HostType' /\ UsedType'
  BY InvParts DEF NodeType, HostType, UsedType, hostVars
<1>3. /\ toHost \in Seq(RequestType) /\ up \in BOOLEAN
      /\ toHost \o sent \in Seq(RequestType)
      /\ ToSet(toHost \o sent) \subseteq ToSet(toHost) \cup ToSet(sent)
  BY InvParts, ConcatProperties, ToSetConcat DEF WireType
<1>4. WireType'
  BY <1>3 DEF WireType
<1>5. WiresFine'
  BY <1>1, <1>3, InvParts, WiresStay DEF JournalType
<1>6. Committed'
  BY DEF Committed
<1>7. HostIsRight' /\ GivenOnce'
  BY <1>1, InvParts, HostStaysRight, GivenStays DEF hostVars
<1> QED
  BY <1>1, <1>2, <1>4, <1>5, <1>6, <1>7 DEF Inv, TypeOK, SInv

\* Commit(<<>>), the journal as it is afterwards.
LEMMA CommitAll ==
    ASSUME Inv, Commit(<<>>)
    PROVE  /\ journal' = journal \o buffered /\ Grows /\ buffered' \in Seq(Nat)
           /\ Water' \in Nat /\ Water <= Water' /\ acked <= Water'
           /\ live.sent <= Water' /\ live.acks.through <= Water'
           /\ FlushedWater \in Nat
<1>1. /\ JournalType /\ NodeType /\ Water \in Nat /\ acked \in Nat /\ acked <= Water
      /\ live.sent \in Int /\ live.acks.through \in Int
      /\ live.sent <= Water /\ live.acks.through <= Water
  BY InvParts DEF JournalType, LiveType, LiveRecords, Unset, Committed
<1>2. Grows /\ buffered' \in Seq(Nat) /\ Water' \in Nat /\ FlushedWater \in Nat
  BY <1>1, CommitGrows, NoneIsSeq
<1>3. journal' = journal \o buffered
  <2>1. journal \o buffered \in Seq(Nat)
    BY <1>1, ConcatProperties DEF JournalType, NodeType
  <2>2. (journal \o buffered) \o <<>> = journal \o buffered
    BY <2>1, ConcatEmptySeq
  <2> QED
    BY <2>2 DEF Commit
<1>4. Water <= Water'
  BY <1>2 DEF Grows
<1>5. acked <= Water' /\ live.sent <= Water' /\ live.acks.through <= Water'
  <2> DEFINE later == Water'
  <2>1. later \in Nat /\ Water <= later
    BY <1>2, <1>4
  <2> HIDE DEF later
  <2>2. acked <= later /\ live.sent <= later /\ live.acks.through <= later
    BY <1>1, <2>1
  <2> QED
    BY <2>2 DEF later
<1> QED
  BY <1>1, <1>2, <1>3, <1>4, <1>5

LEMMA InitializeInv == ASSUME ConsoleBounds, Inv, Initialize PROVE Inv'
<1> DEFINE asked == Ask("initialize", "sync", Nothing, {}, 0)
           owed == agent.alive \/ FlushedWater > acked \/ epoch > ackedEpoch
<1>a. PICK r : r = [asked EXCEPT !.owed = owed]
  OBVIOUS
<1>1. /\ r \in RequestType /\ r.batch = Nothing /\ r.limit = 0 /\ r.rest = {}
      /\ Nothing.controls = {}
  <2>1. owed \in BOOLEAN
    BY InvParts DEF NodeType
  <2>2. Nothing \in BatchType /\ console.gen \in Nat
    BY InvParts, NoneIsSeq, NothingIsSegment DEF ConsoleType, ConsoleRecords
  <2> HIDE DEF owed
  <2> QED
    BY <1>a, <2>1, <2>2, NoControls DEF Ask, RequestType, Nothing
<1>2. /\ Grows /\ buffered' \in Seq(Nat) /\ acked <= Water' /\ Water' \in Nat
      /\ live.sent <= Water' /\ live.acks.through <= Water'
  BY CommitAll DEF Initialize
<1>3. LiveType' /\ live'.sent = live.sent /\ live'.acks = live.acks
  <2>1. (buffered # <<>>) \in BOOLEAN
    OBVIOUS
  <2> QED
    BY <2>1, InvParts, WakingKeeps DEF Initialize, LiveKept
<1>4. ConsoleType'
  BY InvParts DEF Initialize, ConsoleType, ConsoleRecords
<1>5. RequestFine(r)'
  <2>1. Segment(journal', Nothing)
    BY <1>2, NothingIsSegment DEF Grows
  <2> QED
    BY <1>1, <1>2, <2>1 DEF RequestFine
<1>6. <<r>> \in Seq(RequestType) /\ toHost' = toHost \o <<r>> /\ ToSet(<<r>>) = {r}
  <2>1. toHost' = Append(toHost, r)
    BY <1>a DEF Initialize
  <2>2. toHost \in Seq(RequestType)
    BY InvParts DEF WireType
  <2> QED
    BY <1>1, <2>1, <2>2, AppendIsConcat DEF ToSet
<1>7. /\ acked' = acked /\ epoch' = epoch /\ ackedEpoch' = ackedEpoch
      /\ acked \in Nat /\ epoch \in Nat /\ ackedEpoch \in Nat
      /\ UNCHANGED <<ops, agent, invoking, admitting, up, toNode, hostVars, used>>
      /\ toNode \in Seq(MessageType)
  BY InvParts DEF Initialize, JournalType, WireType
<1> QED
  BY <1>2, <1>3, <1>4, <1>5, <1>6, <1>7, SendingStep

\* The grant's epochs.
LEMMA GrantedTyped ==
    ASSUME Inv, NEW theirs \in Nat, Granted(theirs)
    PROVE  epoch' \in Nat /\ ackedEpoch' \in Nat /\ ConsoleType'
           /\ console'.hostEpoch \in Nat /\ console'.told = console.told
           /\ console'.gen = console.gen
<1>1. epoch \in Nat /\ ackedEpoch \in Nat
  BY InvParts DEF JournalType
<1>2. epoch' \in Nat
  <2>1. epoch' = IF epoch >= theirs THEN epoch ELSE theirs
    BY <1>1, GreaterOfTwo DEF Granted
  <2> QED
    BY <1>1, <2>1
<1>3. ackedEpoch' \in Nat
  <2>1. PICK least : least = Min({theirs, epoch})
    OBVIOUS
  <2>2. least = IF theirs <= epoch THEN theirs ELSE epoch
    BY <1>1, <2>1, LesserOfTwo
  <2>3. least \in Nat
    BY <1>1, <2>2
  <2>4. ackedEpoch' = IF ackedEpoch >= least THEN ackedEpoch ELSE least
    BY <1>1, <2>1, <2>3, GreaterOfTwo DEF Granted
  <2> QED
    BY <1>1, <2>3, <2>4
<1>4. /\ ConsoleType' /\ console'.hostEpoch \in Nat /\ console'.told = console.told
      /\ console'.gen = console.gen
  BY InvParts DEF Granted, ConsoleType, ConsoleRecords
<1> QED
  BY <1>2, <1>3, <1>4

LEMMA NothingSent ==
    ASSUME WireType, UNCHANGED toHost
    PROVE  <<>> \in Seq(RequestType) /\ toHost' = toHost \o <<>> /\ ToSet(<<>>) = {}
BY EmptySeq, ConcatEmptySeq, ToSetEmpty DEF WireType

LEMMA HandleGrantInv == ASSUME ConsoleBounds, Inv, HandleGrant PROVE Inv'
<1>1. /\ Head(toNode).epoch \in Nat /\ toNode' \in Seq(MessageType)
      /\ ToSet(toNode') \subseteq ToSet(toNode)
  BY InvParts, ReadTyped, ToSetHead DEF HandleGrant, WireType
<1>2. epoch' \in Nat /\ ackedEpoch' \in Nat /\ ConsoleType'
  BY <1>1, GrantedTyped DEF HandleGrant
<1>3. /\ Grows /\ buffered' \in Seq(Nat) /\ acked <= Water'
      /\ live.sent <= Water' /\ live.acks.through <= Water'
  BY CommitAll DEF HandleGrant
<1>4. LiveType' /\ live'.sent = live.sent /\ live'.acks = live.acks
  <2>1. TRUE \in BOOLEAN
    OBVIOUS
  <2> QED
    BY <2>1, InvParts, WakingKeeps DEF HandleGrant, LiveKept
<1>5. <<>> \in Seq(RequestType) /\ toHost' = toHost \o <<>> /\ ToSet(<<>>) = {}
  BY InvParts, NothingSent DEF HandleGrant
<1>6. /\ acked' = acked /\ acked \in Nat
      /\ UNCHANGED <<ops, agent, invoking, admitting, up, hostVars, used>>
  BY InvParts DEF HandleGrant, JournalType
<1> QED
  BY <1>1, <1>2, <1>3, <1>4, <1>5, <1>6, SendingStep

\* The next request of a synchronization carries a segment of the history, and
\* of the operations only those the synchronization carries.
LEMMA NextRequestFine ==
    ASSUME ConsoleBounds, ConsoleType, NEW history \in Seq(Nat),
           NEW s, NEW rest \in ControlSets, s.rest = rest,
           s.gen \in Nat, s.after \in Nat, s.limit \in Nat, s.owed \in BOOLEAN,
           s.after <= Len(history), s.limit <= Len(history),
           NEW c, c.hostEpoch \in Nat,
           NEW acknowledged \in Nat, acknowledged <= Len(history)
    PROVE  /\ NextRequest(history, s, c, acknowledged) \in Seq(RequestType)
           /\ \A r \in ToSet(NextRequest(history, s, c, acknowledged)) :
                 /\ r \in RequestType
                 /\ Segment(history, r.batch) /\ r.limit <= Len(history)
                 /\ r.batch.controls \cup r.rest \subseteq rest
<1> DEFINE next == NextRequest(history, s, c, acknowledged)
<1>1. PICK batch : batch = NextBatch(history, s)
  OBVIOUS
<1>2. batch \in BatchType /\ Segment(history, batch) /\ batch.controls \subseteq rest
  BY <1>1, BatchIsSegment DEF NextBatch
<1>3. PICK ending : ending = [Ask("synchronized", "sync", Nothing, {}, acknowledged) EXCEPT
                                !.owed = s.owed, !.epoch = c.hostEpoch]
  OBVIOUS
<1>4. PICK more : more = [Ask("replay", "sync", batch, rest, s.limit) EXCEPT
                            !.gen = s.gen, !.owed = s.owed]
  OBVIOUS
<1>5. next = <<>> \/ next = <<ending>> \/ next = <<more>>
  BY <1>1, <1>3, <1>4 DEF NextRequest
<1>6. /\ Nothing \in BatchType /\ Segment(history, Nothing) /\ Nothing.controls = {}
      /\ console.gen \in Nat
  BY NothingIsSegment DEF Nothing, ConsoleType, ConsoleRecords
<1>7. /\ ending \in RequestType /\ Segment(history, ending.batch)
      /\ ending.limit <= Len(history) /\ ending.batch.controls \cup ending.rest = {}
  BY <1>3, <1>6, NoControls DEF Ask, RequestType
<1>8. /\ more \in RequestType /\ Segment(history, more.batch)
      /\ more.limit <= Len(history) /\ more.batch.controls \cup more.rest \subseteq rest
  BY <1>2, <1>4, <1>6 DEF Ask, RequestType
<1>9. /\ <<>> \in Seq(RequestType) /\ ToSet(<<>>) = {}
      /\ <<ending>> \in Seq(RequestType) /\ ToSet(<<ending>>) = {ending}
      /\ <<more>> \in Seq(RequestType) /\ ToSet(<<more>>) = {more}
  BY <1>7, <1>8, EmptySeq, ToSetEmpty DEF ToSet
<1> HIDE DEF next
<1>10. next \in Seq(RequestType)
  BY <1>5, <1>9
<1>11. ASSUME NEW r \in ToSet(next)
       PROVE  /\ r \in RequestType
              /\ Segment(history, r.batch) /\ r.limit <= Len(history)
              /\ r.batch.controls \cup r.rest \subseteq rest
  <2>1. r = ending \/ r = more
    BY <1>5, <1>9, <1>11
  <2> QED
    BY <1>7, <1>8, <2>1
<1> QED
  BY <1>10, <1>11 DEF next

LEMMA HandedOverTyped ==
    ASSUME NEW l \in LiveRecords, NEW c \in ConsoleRecords, NEW acknowledged \in Nat
    PROVE  /\ HandedOver(l, c, acknowledged) \in LiveRecords
           /\ HandedOver(l, c, acknowledged).sent = acknowledged
           /\ HandedOver(l, c, acknowledged).acks = l.acks
<1> DEFINE states == [o \in Ops |-> IF c.told[o] # NoOp THEN c.told[o] ELSE l.states[o]]
<1>1. states \in [Ops -> OpType] /\ acknowledged \in Unset
  BY DEF ConsoleRecords, LiveRecords, Unset
<1>2. HandedOver(l, c, acknowledged) = [l EXCEPT !.sent = acknowledged, !.states = states]
  BY DEF HandedOver, LiveRecords
<1> HIDE DEF states
<1> QED
  BY <1>1, <1>2 DEF LiveRecords

LEMMA HandleGrantsInv == ASSUME ConsoleBounds, Inv, HandleGrants PROVE Inv'
<1> DEFINE request == Head(toNode).request
           untold == {o \in Ops : ops[o] # NoOp /\ console.told[o] # ops[o]}
           owes == console.granted \/ request.owed
<1>1. /\ Head(toNode) \in AnswerType /\ request \in RequestType
      /\ toNode' \in Seq(MessageType) /\ ToSet(toNode') \subseteq ToSet(toNode)
      /\ Head(toNode).epoch \in Nat
  <2>1. toNode # <<>> /\ toNode' = Tail(toNode) /\ Head(toNode).kind = "answer"
    BY DEF HandleGrants, Answered
  <2>2. toNode' \in Seq(MessageType) /\ ToSet(toNode') \subseteq ToSet(toNode)
        /\ Head(toNode) \in MessageType
    BY <2>1, InvParts, ToSetHead DEF WireType
  <2>3. Head(toNode) \in AnswerType
    BY <2>1, <2>2 DEF MessageType, AnswerType, GrantType, WorkType
  <2> QED
    BY <2>2, <2>3 DEF AnswerType
<1>2. /\ UNCHANGED <<acked, ops, agent, invoking, admitting, up, hostVars, used>>
      /\ acked \in Nat /\ up \in BOOLEAN
  BY InvParts DEF HandleGrants, JournalType, WireType
<1>3. CASE request.gen # console.gen
  <2>1. UNCHANGED <<journal, buffered, epoch, ackedEpoch, console, live, toHost>>
    BY <1>3 DEF HandleGrants
  <2>2. ConsoleType' /\ LiveType' /\ NothingNew
    BY <1>1, <2>1, InvParts DEF ConsoleType, LiveType, WireType, NothingNew
  <2>3. UNCHANGED <<journalVars, nodeVars>>
    BY <1>2, <2>1 DEF journalVars, nodeVars
  <2> QED
    BY <1>2, <2>1, <2>2, <2>3, InvParts, RestKept, QuietStep
<1>4. CASE request.gen = console.gen
  <2>a. PICK history : history = journal \o buffered
    OBVIOUS
  <2>b. PICK rest : rest = IF owes THEN Wires(untold) ELSE {}
    OBVIOUS
  <2>c. PICK s : s = [gen |-> request.gen, after |-> acked, owed |-> request.owed,
                      limit |-> IF owes THEN Len(history) ELSE acked, rest |-> rest]
    OBVIOUS
  <2>d. PICK sent : sent = NextRequest(history, s, console', acked)
    OBVIOUS
  <2>1. /\ Commit(<<>>)
        /\ IF request.owed THEN Granted(Head(toNode).epoch)
           ELSE UNCHANGED <<epoch, ackedEpoch, console>>
        /\ toHost' = toHost \o sent
        /\ \E l : /\ l = IF request.owed THEN Marked(live) ELSE Wants(live, buffered # <<>>)
                  /\ \/ live' = HandedOver(l, console', acked)
                     \/ live' = l
    BY <1>4, <2>a, <2>b, <2>c, <2>d DEF HandleGrants
  <2>2. /\ journal' = history /\ Grows /\ buffered' \in Seq(Nat)
        /\ Water' \in Nat /\ Water <= Water' /\ acked <= Water'
        /\ live.sent <= Water' /\ live.acks.through <= Water'
    BY <2>1, <2>a, CommitAll
  <2>3. /\ epoch' \in Nat /\ ackedEpoch' \in Nat /\ console' \in ConsoleRecords
    BY <1>1, <2>1, InvParts, GrantedTyped DEF ConsoleType, JournalType
  <2>4. rest \in ControlSets /\ \A c \in rest : c.op = ops[c.id]
    <3>1. untold \subseteq Ops
      OBVIOUS
    <3> QED
      BY <2>b, <3>1, InvParts, WiresTyped, NoControls
  <2>5. history \in Seq(Nat) /\ Len(history) = Water' /\ acked <= Len(history)
        /\ Len(history) \in Nat
    BY <2>2 DEF Grows, Water
  <2>6. /\ s.rest = rest /\ s.gen \in Nat /\ s.after \in Nat /\ s.limit \in Nat
        /\ s.owed \in BOOLEAN /\ s.after <= Len(history) /\ s.limit <= Len(history)
    BY <1>1, <1>2, <2>c, <2>5 DEF RequestType
  <2>7. /\ sent \in Seq(RequestType)
        /\ \A r \in ToSet(sent) :
              /\ r \in RequestType
              /\ Segment(history, r.batch) /\ r.limit <= Len(history)
              /\ r.batch.controls \cup r.rest \subseteq rest
    <3>1. console'.hostEpoch \in Nat
      BY <2>3 DEF ConsoleRecords
    <3> QED
      BY <1>2, <2>d, <2>4, <2>5, <2>6, <3>1, InvParts, NextRequestFine
  <2>8. ASSUME NEW r \in ToSet(sent) PROVE RequestFine(r)'
    <3>1. Segment(journal', r.batch) /\ r.limit <= Water'
      BY <2>2, <2>5, <2>7
    <3>2. \A c \in r.batch.controls \cup r.rest : ops'[c.id].state = c.op.state
      BY <1>2, <2>4, <2>7
    <3> QED
      BY <3>1, <3>2 DEF RequestFine, EndIsTrue
  <2>9. LiveType' /\ live'.sent <= Water' /\ live'.acks.through <= Water'
    <3>1. PICK l : /\ l = IF request.owed THEN Marked(live) ELSE Wants(live, buffered # <<>>)
                   /\ \/ live' = HandedOver(l, console', acked)
                      \/ live' = l
      BY <2>1
    <3>2. l \in LiveRecords /\ l.sent = live.sent /\ l.acks = live.acks
      BY <3>1, InvParts DEF Marked, Wants, LiveType, LiveRecords
    <3>3. /\ HandedOver(l, console', acked) \in LiveRecords
          /\ HandedOver(l, console', acked).sent = acked
          /\ HandedOver(l, console', acked).acks = l.acks
      BY <1>2, <2>3, <3>2, HandedOverTyped
    <3>4. live' \in LiveRecords /\ live'.sent \in {acked, live.sent} /\ live'.acks = live.acks
      BY <3>1, <3>2, <3>3
    <3> QED
      BY <2>2, <3>4 DEF LiveType
  <2>10. acked' = acked /\ ConsoleType'
    BY <1>2, <2>3 DEF ConsoleType
  <2> QED
    BY <1>1, <1>2, <2>1, <2>2, <2>3, <2>7, <2>8, <2>9, <2>10, SendingStep
<1> QED
  BY <1>3, <1>4

LEMMA HandleReplayedInv == ASSUME ConsoleBounds, Inv, HandleReplayed PROVE Inv'
<1>a. PICK request : request = Head(toNode).request
  OBVIOUS
<1>b. PICK batch : batch = request.batch
  OBVIOUS
<1>c. PICK rest : rest = {c \in request.rest : c.id \notin Named(batch.controls)}
  OBVIOUS
<1>d. PICK s : s = [gen |-> request.gen, after |-> batch.through, limit |-> request.limit,
                    owed |-> request.owed, rest |-> rest]
  OBVIOUS
<1>e. PICK sent : sent = NextRequest(journal, s, console', acked')
  OBVIOUS
<1>1. /\ toNode' \in Seq(MessageType) /\ ToSet(toNode') \subseteq ToSet(toNode)
      /\ request \in RequestType /\ RequestFine(request)
  <2>1. toNode # <<>> /\ toNode' = Tail(toNode) /\ Head(toNode).kind = "answer"
    BY DEF HandleReplayed, Answered
  <2>2. /\ toNode' \in Seq(MessageType) /\ ToSet(toNode') \subseteq ToSet(toNode)
        /\ Head(toNode) \in MessageType /\ Head(toNode) \in ToSet(toNode)
    BY <2>1, InvParts, ToSetHead DEF WireType
  <2>3. Head(toNode) \in AnswerType
    BY <2>1, <2>2 DEF MessageType, AnswerType, GrantType, WorkType
  <2> QED
    BY <1>a, <2>1, <2>2, <2>3, InvParts DEF AnswerType, WiresFine
<1>2. /\ batch \in BatchType /\ batch.controls \in ControlSets
      /\ batch.through \in Nat /\ batch.through <= Water /\ Water \in Nat
      /\ request.limit \in Nat /\ request.limit <= Water
      /\ request.rest \in ControlSets /\ request.gen \in Nat /\ request.owed \in BOOLEAN
      /\ \A c \in request.rest : EndIsTrue(c.id, c.op)
  BY <1>b, <1>1, InvParts DEF RequestType, BatchType, RequestFine, Segment, Water
<1>3. rest \in ControlSets /\ rest \subseteq request.rest
  BY <1>c, <1>2, ControlsSubset
<1>4. /\ UNCHANGED <<epoch, ops, agent, invoking, admitting, up, hostVars, used>>
      /\ acked \in Nat /\ acked <= Water /\ epoch \in Nat /\ ackedEpoch \in Nat
      /\ journal \in Seq(Nat)
  BY InvParts DEF HandleReplayed, JournalType, Committed
<1>5. acked' \in Nat /\ acked' <= Water
  <2>1. acked' = Max({acked, batch.through})
    BY <1>a, <1>b DEF HandleReplayed
  <2>2. acked' = IF acked >= batch.through THEN acked ELSE batch.through
    BY <1>2, <1>4, <2>1, GreaterOfTwo
  <2> QED
    BY <1>2, <1>4, <2>2
<1>6. ackedEpoch' \in Nat
  BY <1>a, <1>b, <1>2, <1>4, EpochsTyped DEF HandleReplayed
<1>7. console' \in ConsoleRecords
  <2>a. PICK hosts : hosts = Max({console.hostEpoch} \cup Epochs(batch.controls))
    OBVIOUS
  <2>b. PICK told : told = Remembered(console.told, batch)
    OBVIOUS
  <2>1. console \in ConsoleRecords /\ console.hostEpoch \in Nat
    BY InvParts DEF ConsoleType, ConsoleRecords
  <2>2. hosts \in Nat
    BY <1>2, <2>a, <2>1, EpochsTyped
  <2>3. told \in [Ops -> OpType]
    BY <2>b, <2>1, InvParts DEF Remembered, ConsoleRecords, JournalType
  <2>4. console' = [console EXCEPT !.hostEpoch = hosts, !.told = told]
    BY <1>a, <1>b, <2>a, <2>b, <2>1 DEF HandleReplayed, ConsoleRecords
  <2> QED
    BY <2>1, <2>2, <2>3, <2>4 DEF ConsoleRecords
<1>8. toHost' = toHost \o sent
  BY <1>a, <1>b, <1>c, <1>d, <1>e DEF HandleReplayed
<1>9. /\ sent \in Seq(RequestType)
      /\ \A r \in ToSet(sent) :
            /\ r \in RequestType
            /\ Segment(journal, r.batch) /\ r.limit <= Len(journal)
            /\ r.batch.controls \cup r.rest \subseteq rest
  <2>1. console'.hostEpoch \in Nat
    BY <1>7 DEF ConsoleRecords
  <2>2. /\ s.rest = rest /\ s.gen \in Nat /\ s.after \in Nat /\ s.limit \in Nat
        /\ s.owed \in BOOLEAN /\ s.after <= Len(journal) /\ s.limit <= Len(journal)
        /\ acked' <= Len(journal)
    BY <1>d, <1>2, <1>5 DEF Water
  <2> QED
    BY <1>e, <1>3, <1>4, <1>5, <2>1, <2>2, InvParts, NextRequestFine
<1>10. /\ Grows /\ buffered' \in Seq(Nat) /\ Water' \in Nat /\ Water <= Water'
       /\ live.sent <= Water' /\ live.acks.through <= Water'
       /\ \/ live' = live
          \/ live' = HandedOver(Wants(live, buffered # <<>>), console', acked')
  <2>1. CASE Ends(journal, s, console')
    <3>1. /\ Commit(<<>>)
          /\ live' = HandedOver(Wants(live, buffered # <<>>), console', acked')
      BY <1>a, <1>b, <1>c, <1>d, <2>1 DEF HandleReplayed
    <3> QED
      BY <3>1, CommitAll
  <2>2. CASE ~Ends(journal, s, console')
    <3>1. UNCHANGED <<journal, buffered, live>>
      BY <1>a, <1>b, <1>c, <1>d, <2>2 DEF HandleReplayed
    <3>2. Water' = Water /\ Grows
      BY <3>1, InvParts, StillGrows
    <3> QED
      BY <3>1, <3>2, InvParts DEF NodeType
  <2> QED
    BY <2>1, <2>2
<1>11. ASSUME NEW r \in ToSet(sent) PROVE RequestFine(r)'
  <2>1. r \in RequestType /\ RequestFine(r)
    BY <1>2, <1>3, <1>9 DEF RequestFine, Water
  <2>2. ops' \in [Ops -> OpType] /\ EndsStay
    BY <1>4, InvParts, SameOps
  <2> QED
    BY <1>10, <2>1, <2>2, InvParts, FineStays
<1>12. acked' <= Water'
  <2> DEFINE a == acked'
             w == Water'
  <2>1. a \in Nat /\ w \in Nat /\ Water \in Nat /\ a <= Water /\ Water <= w
    BY <1>2, <1>5, <1>10
  <2> HIDE DEF a, w
  <2>2. a <= w
    BY <2>1
  <2> QED
    BY <2>2 DEF a, w
<1>13. LiveType' /\ live'.sent <= Water' /\ live'.acks.through <= Water'
  <2>a. PICK l : l = Wants(live, buffered # <<>>)
    OBVIOUS
  <2>1. l \in LiveRecords /\ l.acks = live.acks /\ live \in LiveRecords
    BY <2>a, InvParts DEF Wants, LiveType, LiveRecords
  <2>2. /\ HandedOver(l, console', acked') \in LiveRecords
        /\ HandedOver(l, console', acked').sent = acked'
        /\ HandedOver(l, console', acked').acks = l.acks
    BY <1>5, <1>7, <2>1, HandedOverTyped
  <2>3. live' \in LiveRecords /\ live'.sent \in {acked', live.sent} /\ live'.acks = live.acks
    BY <1>10, <2>a, <2>1, <2>2
  <2> QED
    BY <1>10, <1>12, <2>3 DEF LiveType
<1>14. ConsoleType' /\ epoch' \in Nat
  BY <1>4, <1>7 DEF ConsoleType
<1> QED
  BY <1>1, <1>4, <1>5, <1>6, <1>8, <1>9, <1>10, <1>11, <1>12, <1>13, <1>14, SendingStep

-----------------------------------------------------------------------------
(* The Host                                                                *)

LEMMA ToldTyped ==
    ASSUME WireType, NEW messages \in Seq(MessageType), Told(messages)
    PROVE  /\ toNode' \in Seq(MessageType)
           /\ ToSet(toNode') \subseteq ToSet(toNode) \cup ToSet(messages)
<1>1. CASE up
  <2>1. toNode' = toNode \o messages /\ toNode \in Seq(MessageType)
    BY <1>1 DEF Told, WireType
  <2> QED
    BY <2>1, ConcatProperties, ToSetConcat
<1>2. CASE ~up
  BY <1>2 DEF Told, WireType
<1> QED
  BY <1>1, <1>2

LEMMA AnswerTyped ==
    ASSUME HostType, NEW request \in RequestType, NEW ok \in BOOLEAN
    PROVE  Answer(request, ok) \in MessageType /\ Answer(request, ok).request = request
BY DEF HostType, Answer, MessageType, AnswerType

LEMMA GrantOfTyped ==
    ASSUME NEW at \in Nat PROVE GrantOf(at) \in MessageType /\ GrantOf(at).kind = "grant"
BY DEF GrantOf, MessageType, GrantType

\* A request the Host reads.
LEMMA RequestRead ==
    ASSUME WireType, WiresFine, toHost # <<>>, Consumed
    PROVE  /\ Head(toHost) \in ToSet(toHost) /\ Head(toHost) \in RequestType
           /\ RequestFine(Head(toHost))
           /\ toHost' \in Seq(RequestType) /\ ToSet(toHost') \subseteq ToSet(toHost)
BY ToSetHead DEF WireType, Consumed, WiresFine

\* An answer to it, after whatever is no answer, is nothing new.
LEMMA AnswersOnly ==
    ASSUME WireType, WiresFine, toHost # <<>>, Consumed,
           NEW messages \in Seq(MessageType), Told(messages),
           \A m \in ToSet(messages) : m.kind = "answer" => m.request = Head(toHost)
    PROVE  NothingNew
BY RequestRead, ToldTyped DEF NothingNew

LEMMA OneMessage ==
    ASSUME NEW m \in MessageType PROVE <<m>> \in Seq(MessageType) /\ ToSet(<<m>>) = {m}
BY DEF ToSet

LEMMA NodeSideKept ==
    ASSUME Inv, UNCHANGED <<journalVars, nodeVars, console, live, up>>
    PROVE  /\ ConsoleType' /\ LiveType' /\ NodeType' /\ up' \in BOOLEAN
           /\ live'.sent <= Water /\ live'.acks.through <= Water
           /\ UNCHANGED <<journalVars, invoking, agent>>
BY InvParts DEF ConsoleType, LiveType, NodeType, WireType, nodeVars

LEMMA HostInitializeInv == ASSUME ConsoleBounds, Inv, HostInitialize PROVE Inv'
<1>a. PICK answer : answer = Answer(Head(toHost), TRUE)
  OBVIOUS
<1>1. toHost # <<>> /\ Consumed /\ Told(<<answer>>)
  BY <1>a DEF HostInitialize, Receives
<1>2. answer \in MessageType /\ answer.request = Head(toHost)
  BY <1>a, <1>1, InvParts, RequestRead, AnswerTyped
<1>3. NothingNew
  BY <1>1, <1>2, InvParts, OneMessage, AnswersOnly
<1>4. HostType' /\ UsedType' /\ UNCHANGED <<hostOps, used>>
  BY InvParts DEF HostInitialize, HostType, UsedType
<1> QED
  BY <1>3, <1>4, NodeSideKept, QuietStep DEF HostInitialize

LEMMA HostSynchronizedInv == ASSUME ConsoleBounds, Inv, HostSynchronized PROVE Inv'
<1> DEFINE request == Head(toHost)
           complete == /\ \A n \in 1..request.limit : \E e \in stored : e.seq >= n
                       /\ hostEpoch = request.epoch
<1>a. PICK ok : ok = (request.owed => complete)
  OBVIOUS
<1>b. PICK answer : answer = Answer(request, ok)
  OBVIOUS
<1>1. /\ toHost # <<>> /\ Consumed /\ Told(<<answer>>)
      /\ peer' = [peer EXCEPT !.syncing = FALSE] \/ peer' = peer
      /\ UNCHANGED <<journalVars, nodeVars, console, live, up, stored, hostEpoch,
                     hostOps, receipts, used>>
  BY <1>a, <1>b DEF HostSynchronized, Receives
<1>2. answer \in MessageType /\ answer.request = Head(toHost)
  <2>1. ok \in BOOLEAN
    BY <1>a
  <2> QED
    BY <1>b, <1>1, <2>1, InvParts, RequestRead, AnswerTyped
<1>3. NothingNew
  BY <1>1, <1>2, InvParts, OneMessage, AnswersOnly
<1>4. HostType' /\ UsedType' /\ UNCHANGED <<hostOps, used>>
  BY <1>1, InvParts DEF HostType, UsedType
<1> QED
  BY <1>1, <1>3, <1>4, NodeSideKept, QuietStep

\* Messages that are no answers are nothing new.
LEMMA NoAnswers ==
    ASSUME WireType, NEW messages \in Seq(MessageType), Told(messages), UNCHANGED toHost,
           \A m \in ToSet(messages) : m.kind # "answer"
    PROVE  NothingNew
BY ToldTyped DEF NothingNew, WireType

LEMMA HostWorkInv == ASSUME ConsoleBounds, Inv, HostWork PROVE Inv'
<1>1. PICK task \in {"prompt", "resume"} :
         LET regranted == ~peer.observed \/ (task = "resume" /\ Rebound)
         IN  Told((IF regranted THEN <<GrantOf(hostEpoch)>> ELSE <<>>)
                  \o <<[kind |-> "work", task |-> task, epoch |-> hostEpoch]>>)
  BY DEF HostWork
<1>a. PICK work : work = [kind |-> "work", task |-> task, epoch |-> hostEpoch]
  OBVIOUS
<1>b. PICK grants : /\ grants = <<GrantOf(hostEpoch)>> \/ grants = <<>>
                    /\ Told(grants \o <<work>>)
  BY <1>1, <1>a
<1>2. hostEpoch \in Nat
  BY InvParts DEF HostType
<1>3. work \in MessageType /\ work.kind = "work"
  BY <1>a, <1>2 DEF MessageType, WorkType
<1>4. grants \in Seq(MessageType) /\ \A m \in ToSet(grants) : m.kind = "grant"
  <2>1. GrantOf(hostEpoch) \in MessageType /\ GrantOf(hostEpoch).kind = "grant"
    BY <1>2, GrantOfTyped
  <2>2. /\ <<GrantOf(hostEpoch)>> \in Seq(MessageType)
        /\ ToSet(<<GrantOf(hostEpoch)>>) = {GrantOf(hostEpoch)}
    BY <2>1, OneMessage
  <2>3. <<>> \in Seq(MessageType) /\ ToSet(<<>>) = {}
    BY EmptySeq, ToSetEmpty
  <2> QED
    BY <1>b, <2>1, <2>2, <2>3
<1>5. /\ grants \o <<work>> \in Seq(MessageType)
      /\ ToSet(grants \o <<work>>) \subseteq ToSet(grants) \cup {work}
  BY <1>3, <1>4, OneMessage, ConcatProperties, ToSetConcat
<1>6. NothingNew
  BY <1>b, <1>3, <1>4, <1>5, InvParts, NoAnswers DEF HostWork
<1>7. UsedType' /\ used'.invoked = used.invoked
  <2>1. used.work + 1 \in Nat /\ used' = [used EXCEPT !.work = used.work + 1]
    BY InvParts DEF UsedType, HostWork
  <2> QED
    BY <2>1, InvParts DEF UsedType
<1>8. HostType' /\ hostOps' = hostOps
  BY InvParts DEF HostWork, HostType
<1> QED
  BY <1>6, <1>7, <1>8, NodeSideKept, QuietStep DEF HostWork

LEMMA RequestResyncInv == ASSUME ConsoleBounds, Inv, RequestResync PROVE Inv'
<1>a. PICK m : m = [kind |-> "resync"]
  OBVIOUS
<1>1. m \in MessageType /\ m.kind # "answer"
  BY <1>a DEF MessageType
<1>2. NothingNew
  BY <1>a, <1>1, InvParts, OneMessage, NoAnswers DEF RequestResync
<1>3. UsedType' /\ used'.invoked = used.invoked
  BY InvParts, TroubleCounts DEF RequestResync
<1>4. HostType' /\ hostOps' = hostOps
  BY InvParts DEF RequestResync, HostType, hostVars
<1> QED
  BY <1>2, <1>3, <1>4, NodeSideKept, QuietStep DEF RequestResync

\* Operations told truly are taken in truly: one that ended stays as it ended.
LEMMA ImportedTrue ==
    ASSUME Inv, NEW controls \in ControlSets, Imported(controls),
           \A c \in controls : EndIsTrue(c.id, c.op), UNCHANGED ops
    PROVE  /\ hostOps' \in [Ops -> OpType] /\ receipts' \subseteq Ops /\ hostEpoch' \in Nat
           /\ HostIsRight'
<1>1. \A o \in Named(controls) :
         LET c == CHOOSE c \in controls : c.id = o
         IN  c \in controls /\ c.id = o /\ c.op \in OpType
  <2> SUFFICES ASSUME NEW o \in Named(controls)
               PROVE  LET c == CHOOSE c \in controls : c.id = o
                      IN  c \in controls /\ c.id = o /\ c.op \in OpType
    OBVIOUS
  <2>1. \E c \in controls : c.id = o
    BY DEF Named
  <2>2. \A c \in controls : c.op \in OpType
    BY DEF ControlSets, ControlType
  <2> QED
    BY <2>1, <2>2
<1>2. ASSUME NEW o \in Ops
      PROVE  hostOps'[o] \in OpType /\ EndIsTrue(o, hostOps'[o])
  <2>1. hostOps[o] \in OpType /\ EndIsTrue(o, hostOps[o])
    BY InvParts DEF HostType, HostIsRight
  <2>2. CASE o \in Named(controls)
    <3>a. PICK c : c = CHOOSE x \in controls : x.id = o
      OBVIOUS
    <3>1. c \in controls /\ c.id = o /\ c.op \in OpType
      BY <1>1, <2>2, <3>a
    <3>2. hostOps'[o] = hostOps[o] \/ hostOps'[o] = c.op
      BY <2>2, <3>a DEF Imported, Over
    <3> QED
      BY <2>1, <3>1, <3>2
  <2>3. CASE o \notin Named(controls)
    BY <2>1, <2>3 DEF Imported
  <2> QED
    BY <2>2, <2>3
<1>3. hostOps' \in [Ops -> OpType]
  <2>1. hostOps' = [o \in Ops |-> hostOps'[o]]
    BY DEF Imported
  <2> QED
    BY <1>2, <2>1
<1>4. receipts' \subseteq Ops
  BY InvParts DEF Imported, HostType, Named, ControlSets, ControlType
<1>5. hostEpoch' \in Nat
  BY InvParts, EpochsTyped DEF Imported, HostType
<1>6. HostIsRight'
  BY <1>2 DEF HostIsRight, EndIsTrue
<1> QED
  BY <1>3, <1>4, <1>5, <1>6

LEMMA FirstGrantTyped ==
    ASSUME Inv, NEW part, part.controls \in ControlSets
    PROVE  /\ FirstGrant(part) \in Seq(MessageType)
           /\ \A m \in ToSet(FirstGrant(part)) : m.kind = "grant"
<1> DEFINE new == {e.seq : e \in part.events \ stored}
           before == {c \in part.controls : c.op.after < Min(new)}
<1>1. before \in ControlSets
  BY ControlsSubset
<1>2. hostEpoch \in Nat
  BY InvParts DEF HostType
<1>a. PICK at : at = Max({hostEpoch} \cup Epochs(before))
  OBVIOUS
<1>3. at \in Nat
  <2> HIDE DEF before
  <2> QED
    BY <1>a, <1>1, <1>2, EpochsTyped
<1>4. FirstGrant(part) = <<>> \/ FirstGrant(part) = <<GrantOf(at)>>
  BY <1>a DEF FirstGrant
<1>5. GrantOf(at) \in MessageType /\ GrantOf(at).kind = "grant"
  BY <1>3, GrantOfTyped
<1>6. <<GrantOf(at)>> \in Seq(MessageType) /\ ToSet(<<GrantOf(at)>>) = {GrantOf(at)}
  BY <1>5, OneMessage
<1> QED
  BY <1>4, <1>5, <1>6, EmptySeq, ToSetEmpty

\* A part of a batch the Host takes in.
LEMMA TakenIn ==
    ASSUME ConsoleBounds, Inv, toHost # <<>>, Consumed,
           UNCHANGED <<journalVars, nodeVars, console, live, up>>,
           UsedType', used'.invoked = used.invoked,
           NEW part, NEW ok \in BOOLEAN,
           part.events \subseteq Events(Head(toHost).batch),
           part.controls \subseteq Head(toHost).batch.controls,
           stored' = stored \cup part.events, Imported(part.controls),
           peer' = PeerAfter(part, ok),
           Told(Append(FirstGrant(part), Answer(Head(toHost), ok)))
    PROVE  Inv'
<1>a. PICK request : request = Head(toHost)
  OBVIOUS
<1>b. PICK answer : answer = Answer(request, ok)
  OBVIOUS
<1>1. request \in RequestType /\ RequestFine(request)
  BY <1>a, InvParts, RequestRead
<1>2. request.batch \in BatchType /\ request.batch.controls \in ControlSets
  BY <1>1 DEF RequestType, BatchType
<1>3. part.controls \in ControlSets /\ \A c \in part.controls : EndIsTrue(c.id, c.op)
  BY <1>a, <1>1, <1>2, ControlsSubset DEF RequestFine
<1>4. /\ hostOps' \in [Ops -> OpType] /\ receipts' \subseteq Ops /\ hostEpoch' \in Nat
      /\ HostIsRight'
  BY <1>3, ImportedTrue DEF journalVars
<1>5. stored' \subseteq [seq: Nat, id: Nat]
  <2>1. Events(request.batch) \subseteq [seq: Nat, id: Nat]
    <3>1. \A i \in DOMAIN request.batch.ids :
             request.batch.from + i \in Nat /\ request.batch.ids[i] \in Nat
      <4>1. request.batch.from \in Nat /\ request.batch.ids \in Seq(Nat)
        BY <1>2 DEF BatchType
      <4>a. PICK ids, from : ids = request.batch.ids /\ from = request.batch.from
        OBVIOUS
      <4>2. ids \in Seq(Nat) /\ from \in Nat
        BY <4>1, <4>a
      <4>3. ASSUME NEW i \in DOMAIN ids PROVE from + i \in Nat /\ ids[i] \in Nat
        <5>1. i \in 1..Len(ids) /\ Len(ids) \in Nat
          BY <4>2, <4>3, LenProperties
        <5>2. ids[i] \in Nat
          BY <4>2, <5>1, ElementOfSeq
        <5> QED
          BY <4>2, <5>1, <5>2
      <4> QED
        BY <4>a, <4>3
    <3> QED
      BY <3>1 DEF Events
  <2> QED
    BY <1>a, <2>1, InvParts DEF HostType
<1>6. HostType'
  <2>1. peer' \in [syncing: BOOLEAN, failed: BOOLEAN, observed: BOOLEAN]
    BY InvParts DEF PeerAfter, HostType
  <2> QED
    BY <1>4, <1>5, <2>1 DEF HostType
<1>7. NothingNew
  <2>1. answer \in MessageType /\ answer.request = request
    BY <1>b, <1>1, InvParts, AnswerTyped
  <2>a. PICK grants : grants = FirstGrant(part)
    OBVIOUS
  <2>2. grants \in Seq(MessageType) /\ \A m \in ToSet(grants) : m.kind = "grant"
    BY <1>3, <2>a, FirstGrantTyped
  <2>3. /\ Append(grants, answer) \in Seq(MessageType)
        /\ ToSet(Append(grants, answer)) = ToSet(grants) \cup {answer}
    BY <2>1, <2>2, ToSetAppend, AppendProperties
  <2>4. Told(Append(grants, answer))
    BY <1>a, <1>b, <2>a
  <2>5. \A m \in ToSet(Append(grants, answer)) : m.kind = "answer" => m.request = Head(toHost)
    BY <1>a, <2>1, <2>2, <2>3
  <2> QED
    BY <2>3, <2>4, <2>5, InvParts, AnswersOnly
<1>8. /\ JournalType' /\ EndsStay /\ Grows /\ ops' \in [Ops -> OpType]
      /\ UNCHANGED <<ops, invoking, agent>>
  BY InvParts, StillGrows, SameOps DEF journalVars, nodeVars, JournalType
<1>9. WiresFine' /\ WireType'
  BY <1>7, <1>8, InvParts, WiresStay DEF NothingNew, WireType
<1>10. Committed'
  BY InvParts DEF Committed, journalVars, Water
<1>11. GivenOnce'
  BY <1>8, InvParts, GivenStays
<1>12. ConsoleType' /\ LiveType' /\ NodeType'
  BY NodeSideKept
<1> QED
  BY <1>4, <1>6, <1>8, <1>9, <1>10, <1>11, <1>12 DEF Inv, TypeOK, SInv

LEMMA HostReplayInv == ASSUME ConsoleBounds, Inv, HostReplay PROVE Inv'
<1>a. PICK request : request = Head(toHost)
  OBVIOUS
<1>b. PICK batch : batch = request.batch
  OBVIOUS
<1>c. PICK bad : bad = {e \in Events(batch) : ~Agrees(e)}
  OBVIOUS
<1>1. /\ toHost # <<>> /\ Consumed
      /\ UNCHANGED <<journalVars, nodeVars, console, live, up>>
  BY DEF HostReplay, Receives
<1>2. \/ Told(<<Answer(request, FALSE)>>) /\ UNCHANGED <<hostVars, used>>
      \/ /\ stored' = stored \cup Whole(batch).events /\ Imported(Whole(batch).controls)
         /\ peer' = PeerAfter(Whole(batch), TRUE)
         /\ Told(Append(FirstGrant(Whole(batch)), Answer(request, TRUE)))
         /\ UNCHANGED used
      \/ \E e \in Events(batch) :
            /\ UNCHANGED used \/ Trouble
            /\ stored' = stored \cup Ahead(batch, e).events
            /\ Imported(Ahead(batch, e).controls)
            /\ peer' = PeerAfter(Ahead(batch, e), FALSE)
            /\ Told(Append(FirstGrant(Ahead(batch, e)), Answer(request, FALSE)))
  BY <1>a, <1>b, <1>c DEF HostReplay
<1>3. UNCHANGED used => UsedType' /\ used'.invoked = used.invoked
  BY InvParts DEF UsedType
<1>4. CASE Told(<<Answer(request, FALSE)>>) /\ UNCHANGED <<hostVars, used>>
  <2>a. PICK answer : answer = Answer(request, FALSE)
    OBVIOUS
  <2>1. answer \in MessageType /\ answer.request = Head(toHost)
    BY <1>a, <1>1, <2>a, InvParts, RequestRead, AnswerTyped
  <2>2. NothingNew
    BY <1>1, <1>4, <2>a, <2>1, InvParts, OneMessage, AnswersOnly
  <2>3. HostType' /\ hostOps' = hostOps
    BY <1>4, InvParts DEF HostType, hostVars
  <2> QED
    BY <1>1, <1>3, <1>4, <2>2, <2>3, NodeSideKept, QuietStep
<1>5. CASE /\ stored' = stored \cup Whole(batch).events /\ Imported(Whole(batch).controls)
           /\ peer' = PeerAfter(Whole(batch), TRUE)
           /\ Told(Append(FirstGrant(Whole(batch)), Answer(request, TRUE)))
           /\ UNCHANGED used
  <2>a. PICK part : part = Whole(batch)
    OBVIOUS
  <2>1. part.events = Events(batch) /\ part.controls = batch.controls
    BY <2>a DEF Whole
  <2> QED
    BY <1>a, <1>b, <1>1, <1>3, <1>5, <2>a, <2>1, TakenIn
<1>6. ASSUME NEW e \in Events(batch),
             UNCHANGED used \/ Trouble,
             stored' = stored \cup Ahead(batch, e).events,
             Imported(Ahead(batch, e).controls),
             peer' = PeerAfter(Ahead(batch, e), FALSE),
             Told(Append(FirstGrant(Ahead(batch, e)), Answer(request, FALSE)))
      PROVE  Inv'
  <2>a. PICK part : part = Ahead(batch, e)
    OBVIOUS
  <2>1. part.events \subseteq Events(batch) /\ part.controls \subseteq batch.controls
    BY <2>a DEF Ahead
  <2>2. UsedType' /\ used'.invoked = used.invoked
    BY <1>3, <1>6, InvParts, TroubleCounts
  <2> QED
    BY <1>a, <1>b, <1>1, <1>6, <2>a, <2>1, <2>2, TakenIn
<1> QED
  BY <1>2, <1>4, <1>5, <1>6

-----------------------------------------------------------------------------
(* The theorems                                                            *)

LEMMA NextInv == ASSUME ConsoleBounds, Inv, [Next]_vars PROVE Inv'
<1>1. CASE UNCHANGED vars
  <2>1. /\ JournalType' /\ NodeType' /\ ConsoleType' /\ LiveType' /\ WireType' /\ HostType'
        /\ UsedType'
    BY <1>1, InvParts DEF vars, journalVars, nodeVars, hostVars, JournalType, NodeType,
                          ConsoleType, LiveType, WireType, HostType, UsedType
  <2>2. NothingNew /\ UNCHANGED <<journalVars, hostOps, invoking, agent, used, live, up>>
    BY <1>1, InvParts, WiresAsTheyWere DEF vars, nodeVars, hostVars
  <2>3. live'.sent <= Water /\ live'.acks.through <= Water /\ up' \in BOOLEAN
    BY <2>2, InvParts DEF WireType
  <2> QED
    BY <2>1, <2>2, <2>3, QuietStep
<1>2. CASE Emit \/ TurnEnds \/ AgentEnds \/ LocalPrompt \/ CancelQueued
  BY <1>2, EmitInv, TurnEndsInv, AgentEndsInv, LocalPromptInv, CancelQueuedInv
<1>3. CASE NodeStep
  <2>1. CASE NodeReads
    BY <2>1, IgnoreAnswerInv, HandleGrantInv, HandleGrantsInv, HandleReplayedInv,
       HandleSynchronizedInv, HandleLiveInv, HandleRefusalInv, HandleResyncInv,
       ReceiveWorkInv DEF NodeReads
  <2> QED
    BY <1>3, <2>1, FlushInv, InvokeInv, PumpLocalInv, PumpLiveInv, AckWriteInv,
       InitializeInv, AdmitWorkInv DEF NodeStep
<1>4. CASE RequestTimesOut \/ Connect \/ Break \/ NodeCrash
  BY <1>4, RequestTimesOutInv, ConnectInv, BreakInv, NodeCrashInv
<1>5. CASE HostStep \/ HostWork \/ RequestResync
  BY <1>5, HostInitializeInv, HostReplayInv, HostSynchronizedInv, HostWorkInv,
     RequestResyncInv DEF HostStep
<1> QED
  BY <1>1, <1>2, <1>3, <1>4, <1>5 DEF Next

THEOREM Invariance == Spec => []Inv
<1>1. Init => Inv
  BY ConsoleBounds, InitInv
<1>2. Inv /\ [Next]_vars => Inv'
  BY ConsoleBounds, NextInv
<1> QED
  BY <1>1, <1>2, PTL DEF Spec

\* Every variable keeps its type: what is on disk, what the two processes hold
\* and every message between them.
THEOREM TypeCorrect == Spec => []TypeOK
<1>1. Inv => TypeOK
  BY DEF Inv
<1> QED
  BY <1>1, Invariance, PTL

\* A local prompt is given to the agent at most once, one taken back or refused
\* never, and the Host believes one settled or rejected only if it is
\* (beginOperation, settleOperation, the recovery when the journal is opened).
THEOREM GivenAtMostOnce == Spec => []LocalOnce
<1>1. Inv => LocalOnce
  BY DEF Inv, SInv, GivenOnce, HostIsRight, EndIsTrue, Final, LocalOnce
<1> QED
  BY <1>1, Invariance, PTL
-----------------------------------------------------------------------------
(* The Host's history: what keeps it a prefix of the journal.  Batches are  *)
(* sent ahead of their acknowledgments.  What keeps them free of gaps       *)
(* (NoGap) is that one which fails takes those behind it along until the    *)
(* Node begins anew (Reached); and a synchronization that begins anew does  *)
(* so with a pump at rest (JoinsAlone), because nothing of an earlier one   *)
(* can move the console on (ResyncComesFirst).                              *)

\* How much of the journal the Host has.
Have == Cardinality(stored)

PrefixOf(n) == {[seq |-> i, id |-> journal[i]] : i \in 1..n}

\* When the Host has read the requests of `queue` ahead of place `i`, it has every
\* event up to `f`, or takes no batch any more: it has them now, a batch before
\* that place brings them, or one has failed, and no synchronization begins anew
\* in between.
Reached(queue, have, failed, f, i) ==
    \/ f <= have
    \/ \E j \in 1..(i - 1) :
          /\ queue[j].kind = "replay" /\ queue[j].batch.through >= f
          /\ \A k \in (j + 1)..(i - 1) : queue[k].kind # "initialize"
    \/ failed /\ \A k \in 1..(i - 1) : queue[k].kind # "initialize"

\* No batch leaves a gap, neither one under way nor the next the pump will send.
NoGap ==
    /\ \A i \in 1..Len(toHost) : toHost[i].kind = "replay" =>
          Reached(toHost, Have, peer.failed, toHost[i].batch.from, i)
    /\ live.sent # -1 => Reached(toHost, Have, peer.failed, live.sent, Len(toHost) + 1)

\* What counts as acknowledged, or will, the Host has.
AcksHold ==
    /\ acked <= Have /\ live.acks.through <= Have
    /\ \A m \in ToSet(toNode) :
          m.kind = "answer" /\ m.request.kind = "replay" /\ m.ok =>
             m.request.batch.through <= Have

StoredIsPrefix == stored = PrefixOf(Have) /\ Have \in Nat /\ Have <= Water

\* A request of a synchronization that is past its beginning.
Settling(r) == r.flow = "sync" /\ r.kind # "initialize"

\* While a synchronization has not asked anything yet, nothing of an earlier one
\* can move the console on, and the pump rests.
JoinsAlone ==
    console.joining =>
       /\ console.status = "syncing" /\ live.sent = -1
       /\ \A r \in ToSet(toHost) : r.gen < console.gen /\ ~Settling(r)
       /\ \A m \in ToSet(toNode) :
             m.kind = "answer" => m.request.gen < console.gen /\ ~Settling(m.request)

\* A resync finds no synchronization that is past its beginning, nor does one get
\* there before the resync is read.
ResyncComesFirst ==
    \A p \in 1..Len(toNode) : toNode[p].kind = "resync" =>
       /\ \A r \in ToSet(toHost) : ~Settling(r)
       /\ \A q \in 1..Len(toNode) : toNode[q].kind = "answer" =>
             /\ ~Settling(toNode[q].request)
             /\ toNode[q].request.flow = "sync" => p < q

\* No request is of a generation to come.
GenerationsPass ==
    /\ \A r \in ToSet(toHost) : r.gen <= console.gen
    /\ \A m \in ToSet(toNode) : m.kind = "answer" => m.request.gen <= console.gen

OneAtATime == JoinsAlone /\ ResyncComesFirst /\ GenerationsPass

HistoryInv == StoredIsPrefix /\ AcksHold /\ NoGap

-----------------------------------------------------------------------------
(* One synchronization at a time                                           *)

\* What was read is gone, what is new came behind the rest and is no resync, and
\* an answer is one to a request that was there.
Behind(d) ==
    \A i \in 1..Len(toNode') :
       \/ i + d \in 1..Len(toNode) /\ toNode'[i] = toNode[i + d]
       \/ /\ d = 0 /\ i > Len(toNode) /\ toNode'[i].kind # "resync"
          /\ toNode'[i].kind = "answer" => toNode'[i].request \in ToSet(toHost)

\* A synchronization gets past its beginning only when no resync is under way.
AskedInTurn ==
    \A r \in ToSet(toHost') :
       \/ r \in ToSet(toHost)
       \/ /\ r.gen <= console'.gen
          /\ Settling(r) => \A p \in 1..Len(toNode') : toNode'[p].kind # "resync"

LEMMA OrderKept ==
    ASSUME Inv, ResyncComesFirst, GenerationsPass, ConsoleType',
           toNode' \in Seq(MessageType), console.gen <= console'.gen,
           NEW d \in {0, 1}, Behind(d), AskedInTurn
    PROVE  ResyncComesFirst' /\ GenerationsPass'
<1>1. /\ toNode \in Seq(MessageType) /\ Len(toNode) \in Nat /\ Len(toNode') \in Nat
      /\ toHost \in Seq(RequestType)
      /\ \A i \in 1..Len(toNode) : toNode[i] \in ToSet(toNode) /\ toNode[i] \in MessageType
  BY InvParts, ElementOfSeq, LenProperties DEF WireType, ToSet
<1>2. ResyncComesFirst'
  <2> SUFFICES ASSUME NEW p \in 1..Len(toNode'), toNode'[p].kind = "resync"
               PROVE  /\ \A r \in ToSet(toHost') : ~Settling(r)
                      /\ \A q \in 1..Len(toNode') : toNode'[q].kind = "answer" =>
                            /\ ~Settling(toNode'[q].request)
                            /\ toNode'[q].request.flow = "sync" => p < q
    BY DEF ResyncComesFirst, Settling
  <2>1. p + d \in 1..Len(toNode) /\ toNode[p + d].kind = "resync"
    BY DEF Behind
  <2>2. /\ \A r \in ToSet(toHost) : ~Settling(r)
        /\ \A q \in 1..Len(toNode) : toNode[q].kind = "answer" =>
              /\ ~Settling(toNode[q].request)
              /\ toNode[q].request.flow = "sync" => p + d < q
    BY <2>1 DEF ResyncComesFirst
  <2>3. \A r \in ToSet(toHost') : ~Settling(r)
    BY <2>2 DEF AskedInTurn
  <2>4. ASSUME NEW q \in 1..Len(toNode'), toNode'[q].kind = "answer"
        PROVE  /\ ~Settling(toNode'[q].request)
               /\ toNode'[q].request.flow = "sync" => p < q
    <3>1. CASE q + d \in 1..Len(toNode) /\ toNode'[q] = toNode[q + d]
      <4>1. /\ ~Settling(toNode[q + d].request)
            /\ toNode[q + d].request.flow = "sync" => p + d < q + d
        BY <2>2, <2>4, <3>1
      <4>2. p + d < q + d => p < q
        BY <1>1
      <4> QED
        BY <3>1, <4>1, <4>2
    <3>2. CASE d = 0 /\ q > Len(toNode) /\ toNode'[q].request \in ToSet(toHost)
      BY <1>1, <2>1, <2>2, <3>2
    <3>3. \/ q + d \in 1..Len(toNode) /\ toNode'[q] = toNode[q + d]
          \/ d = 0 /\ q > Len(toNode) /\ toNode'[q].request \in ToSet(toHost)
      BY <2>4 DEF Behind
    <3> QED
      BY <3>1, <3>2, <3>3
  <2> QED
    BY <2>3, <2>4
<1>3. GenerationsPass'
  <2>1. console.gen \in Nat /\ console'.gen \in Nat
    BY InvParts DEF ConsoleType, ConsoleRecords
  <2>2. \A r \in ToSet(toHost) : r.gen \in Nat /\ r.gen <= console.gen
    <3> SUFFICES ASSUME NEW r \in ToSet(toHost) PROVE r.gen \in Nat /\ r.gen <= console.gen
      OBVIOUS
    <3>1. r \in RequestType
      BY <1>1, ToSetMember
    <3> QED
      BY <3>1 DEF GenerationsPass, RequestType
  <2>3. \A r \in ToSet(toHost) : r.gen <= console'.gen
    <3> DEFINE later == console'.gen
    <3>1. later \in Nat /\ console.gen <= later
      BY <2>1
    <3> HIDE DEF later
    <3>2. \A r \in ToSet(toHost) : r.gen <= later
      BY <2>1, <2>2, <3>1
    <3> QED
      BY <3>2 DEF later
  <2>4. \A r \in ToSet(toHost') : r.gen <= console'.gen
    BY <2>3 DEF AskedInTurn
  <2>5. ASSUME NEW m \in ToSet(toNode'), m.kind = "answer"
        PROVE  m.request.gen <= console'.gen
    <3>1. PICK i \in 1..Len(toNode') : m = toNode'[i]
      BY <2>5 DEF ToSet
    <3>2. CASE i + d \in 1..Len(toNode) /\ m = toNode[i + d]
      <4>1. m \in ToSet(toNode) /\ m \in MessageType
        BY <1>1, <3>2
      <4>2. m.request.gen <= console.gen /\ m.request.gen \in Nat
        BY <2>5, <4>1 DEF GenerationsPass, MessageType, AnswerType, GrantType, WorkType,
                         RequestType
      <4> DEFINE later == console'.gen
                 gen == m.request.gen
      <4>3. later \in Nat /\ console.gen <= later /\ gen \in Nat /\ gen <= console.gen
        BY <2>1, <4>2
      <4> HIDE DEF later, gen
      <4>4. gen <= later
        BY <2>1, <4>3
      <4> QED
        BY <4>4 DEF later, gen
    <3>3. CASE m.request \in ToSet(toHost)
      BY <2>3, <3>3
    <3> QED
      BY <2>5, <3>1, <3>2, <3>3 DEF Behind
  <2> QED
    BY <2>4, <2>5 DEF GenerationsPass
<1> QED
  BY <1>2, <1>3

\* A synchronization that has not asked yet goes on waiting.
LEMMA StillJoins ==
    ASSUME JoinsAlone,
           console'.joining => /\ console.joining /\ console'.gen = console.gen
                               /\ console'.status = console.status /\ live'.sent = live.sent
                               /\ NothingNew
    PROVE  JoinsAlone'
BY DEF JoinsAlone, NothingNew, Settling

\* The ways a queue to the Node moves.
LEMMA NotMoved == ASSUME WireType, UNCHANGED toNode PROVE Behind(0)
<1>1. Len(toNode) \in Nat
  BY LenProperties DEF WireType
<1> QED
  BY <1>1 DEF Behind

LEMMA EmptiedBehind == ASSUME toNode' = <<>> PROVE Behind(0)
<1>1. Len(toNode') = 0
  BY EmptySeq
<1> QED
  BY <1>1 DEF Behind

LEMMA ReadBehind == ASSUME WireType, toNode # <<>>, toNode' = Tail(toNode) PROVE Behind(1)
<1>1. /\ Len(toNode) \in Nat /\ Len(toNode') = Len(toNode) - 1
      /\ \A i \in 1..(Len(toNode) - 1) : toNode'[i] = toNode[i + 1]
  BY DEF WireType
<1> QED
  BY <1>1 DEF Behind

LEMMA ToldBehind ==
    ASSUME WireType, NEW messages \in Seq(MessageType), Told(messages),
           \A m \in ToSet(messages) :
              /\ m.kind # "resync"
              /\ m.kind = "answer" => m.request \in ToSet(toHost)
    PROVE  Behind(0)
<1>1. CASE up
  <2>1. toNode' = toNode \o messages /\ toNode \in Seq(MessageType)
    BY <1>1 DEF Told, WireType
  <2>2. /\ Len(toNode) \in Nat /\ Len(messages) \in Nat
        /\ Len(toNode') = Len(toNode) + Len(messages)
        /\ \A i \in 1..(Len(toNode) + Len(messages)) :
              toNode'[i] = IF i <= Len(toNode) THEN toNode[i] ELSE messages[i - Len(toNode)]
    BY <2>1, ConcatProperties, LenProperties
  <2>3. \A i \in 1..Len(messages) : messages[i] \in ToSet(messages)
    BY DEF ToSet
  <2> SUFFICES ASSUME NEW i \in 1..Len(toNode')
               PROVE  \/ i \in 1..Len(toNode) /\ toNode'[i] = toNode[i]
                      \/ /\ i > Len(toNode) /\ toNode'[i].kind # "resync"
                         /\ toNode'[i].kind = "answer" => toNode'[i].request \in ToSet(toHost)
    BY <2>2 DEF Behind
  <2>4. CASE i <= Len(toNode)
    BY <2>2, <2>4
  <2>5. CASE i > Len(toNode)
    <3>1. i - Len(toNode) \in 1..Len(messages) /\ toNode'[i] = messages[i - Len(toNode)]
      BY <2>2, <2>5
    <3> QED
      BY <2>3, <2>5, <3>1
  <2> QED
    BY <2>2, <2>4, <2>5
<1>2. CASE ~up
  BY <1>2, NotMoved DEF Told
<1> QED
  BY <1>1, <1>2

-----------------------------------------------------------------------------
(* What the steps do to the console, the pump and the wires                *)

ConsoleHolds ==
    /\ console'.gen = console.gen /\ console'.status = console.status
    /\ console'.joining = console.joining

LEMMA Waking ==
    ASSUME LiveType, NEW news \in BOOLEAN,
           live' = Marked(live) \/ live' = Wants(live, news) \/ live' = live
    PROVE  LiveKept
BY WakingKeeps

LEMMA AskedHolds ==
    ASSUME ConsoleType, console' = PumpAsked(console) \/ console' = console
    PROVE  ConsoleHolds
BY DEF ConsoleType, ConsoleRecords, PumpAsked, ConsoleHolds

LEMMA KeptWater == ASSUME Inv, UNCHANGED journal PROVE Grows
BY InvParts, StillGrows

\* What the journal, the agent and the prompts do by themselves.
LEMMA LocalFacts ==
    ASSUME Inv,
           \/ Emit \/ Flush \/ TurnEnds \/ AgentEnds \/ LocalPrompt \/ Invoke
           \/ CancelQueued \/ PumpLocal \/ ReceiveWork \/ AdmitWork
    PROVE  /\ ConsoleHolds /\ LiveKept /\ Grows
           /\ UNCHANGED <<acked, toHost, stored, peer>>
<1>1. /\ JournalType /\ NodeType /\ ConsoleType /\ LiveType /\ UsedType
      /\ used.raised \in Nat /\ <<used.raised + 1>> \in Seq(Nat) /\ <<>> \in Seq(Nat)
      /\ TRUE \in BOOLEAN /\ (ops' # ops) \in BOOLEAN
  BY InvParts, EmptySeq DEF UsedType
<1>2. Commit(<<>>) => Grows
  BY <1>1, CommitGrows
<1>3. Commit(<<used.raised + 1>>) => Grows
  BY <1>1, CommitGrows
<1>4. UNCHANGED journal => Grows
  BY KeptWater
<1>5. CASE Emit
  BY <1>1, <1>4, <1>5, Waking, AskedHolds DEF Emit, journalVars, hostVars
<1>6. CASE Flush
  BY <1>1, <1>2, <1>6, Waking, AskedHolds DEF Flush, hostVars
<1>7. CASE TurnEnds
  <2>1. live' = Marked(live) \/ live' = Wants(live, TRUE)
    BY <1>7 DEF TurnEnds
  <2>2. LiveKept
    BY <1>1, <2>1, Waking
  <2> QED
    BY <1>1, <1>3, <1>7, <2>2, AskedHolds DEF TurnEnds, hostVars
<1>8. CASE AgentEnds
  <2>1. live' = Marked(live) \/ live' = Wants(live, TRUE)
    BY <1>8 DEF AgentEnds
  <2>2. LiveKept
    BY <1>1, <2>1, Waking
  <2> QED
    BY <1>1, <1>3, <1>8, <2>2, AskedHolds DEF AgentEnds, hostVars
<1>9. CASE LocalPrompt
  BY <1>1, <1>2, <1>9, Waking, AskedHolds DEF LocalPrompt, hostVars
<1>10. CASE Invoke
  <2>1. live' = Marked(live) \/ live' = live
    BY <1>10 DEF Invoke
  <2>2. LiveKept
    BY <1>1, <2>1, Waking
  <2> QED
    BY <1>1, <1>4, <1>10, <2>2, AskedHolds DEF Invoke, hostVars
<1>11. CASE CancelQueued
  BY <1>1, <1>2, <1>11, Waking, AskedHolds DEF CancelQueued, hostVars
<1>12. CASE PumpLocal
  <2>1. live' = Marked(live) \/ live' = live
    BY <1>12 DEF PumpLocal
  <2>2. LiveKept
    BY <1>1, <2>1, Waking
  <2>3. Commit(<<>>) \/ UNCHANGED journal
    BY <1>12 DEF PumpLocal
  <2>4. ConsoleHolds
    BY <1>1, <1>12 DEF PumpLocal, ConsoleType, ConsoleRecords, ConsoleHolds
  <2> QED
    BY <1>2, <1>4, <1>12, <2>2, <2>3, <2>4 DEF PumpLocal, hostVars
<1>13. CASE ReceiveWork
  BY <1>1, <1>4, <1>13, Waking, AskedHolds DEF ReceiveWork, journalVars, hostVars
<1>14. CASE AdmitWork
  <2>1. console' = PumpAsked(console) \/ console' = console
    BY <1>14 DEF AdmitWork
  <2>2. ConsoleHolds
    BY <1>1, <2>1, AskedHolds
  <2> QED
    BY <1>1, <1>4, <1>14, <2>2, Waking DEF AdmitWork, journalVars, hostVars
<1> QED
  BY <1>5, <1>6, <1>7, <1>8, <1>9, <1>10, <1>11, <1>12, <1>13, <1>14

\* The next request of a synchronization that has come to the event `at`.
AsksOn(at, gen) ==
    \/ UNCHANGED toHost
    \/ \E r \in RequestType :
          /\ toHost' = Append(toHost, r)
          /\ r.flow = "sync" /\ r.kind \in {"replay", "synchronized"}
          /\ r.gen \in {console.gen, gen}
          /\ r.kind = "replay" => r.batch.from = at

LEMMA NextRequestAsks ==
    ASSUME ConsoleBounds, Inv, NEW history \in Seq(Nat),
           NEW s, s.rest \in ControlSets,
           s.gen \in Nat, s.after \in Nat, s.limit \in Nat, s.owed \in BOOLEAN,
           s.after <= Len(history), s.limit <= Len(history),
           NEW c, c.hostEpoch \in Nat,
           NEW acknowledged \in Nat, acknowledged <= Len(history),
           toHost' = toHost \o NextRequest(history, s, c, acknowledged)
    PROVE  AsksOn(s.after, s.gen)
<1>1. PICK batch : batch = NextBatch(history, s)
  OBVIOUS
<1>2. batch \in BatchType /\ batch.from = s.after
  BY <1>1, BatchIsSegment DEF NextBatch
<1>3. PICK ending : ending = [Ask("synchronized", "sync", Nothing, {}, acknowledged) EXCEPT
                                !.owed = s.owed, !.epoch = c.hostEpoch]
  OBVIOUS
<1>4. PICK more : more = [Ask("replay", "sync", batch, s.rest, s.limit) EXCEPT
                            !.gen = s.gen, !.owed = s.owed]
  OBVIOUS
<1>5. \/ NextRequest(history, s, c, acknowledged) = <<>>
      \/ NextRequest(history, s, c, acknowledged) = <<ending>>
      \/ NextRequest(history, s, c, acknowledged) = <<more>>
  BY <1>1, <1>3, <1>4 DEF NextRequest
<1>6. Nothing \in BatchType /\ console.gen \in Nat /\ toHost \in Seq(RequestType)
  BY InvParts, NoneIsSeq, NothingIsSegment DEF ConsoleType, ConsoleRecords, WireType
<1>7. /\ ending \in RequestType /\ ending.flow = "sync" /\ ending.kind = "synchronized"
      /\ ending.gen = console.gen
  BY <1>3, <1>6, NoControls DEF Ask, RequestType
<1>8. /\ more \in RequestType /\ more.flow = "sync" /\ more.kind = "replay"
      /\ more.gen = s.gen /\ more.batch.from = s.after
  BY <1>2, <1>4, <1>6 DEF Ask, RequestType
<1>9. CASE toHost' = toHost \o <<>>
  BY <1>6, <1>9, ConcatEmptySeq DEF AsksOn
<1>10. CASE toHost' = toHost \o <<ending>>
  <2>1. toHost' = Append(toHost, ending)
    BY <1>6, <1>7, <1>10, AppendIsConcat
  <2> QED
    BY <1>7, <2>1 DEF AsksOn
<1>11. CASE toHost' = toHost \o <<more>>
  <2>1. toHost' = Append(toHost, more)
    BY <1>6, <1>8, <1>11, AppendIsConcat
  <2> QED
    BY <1>8, <2>1 DEF AsksOn
<1> QED
  BY <1>5, <1>9, <1>10, <1>11

\* The answer at the head of the queue.
LEMMA AnswerRead ==
    ASSUME Inv, NEW kind, NEW flow, Answered(kind, flow)
    PROVE  /\ toNode # <<>> /\ toNode' = Tail(toNode)
           /\ Head(toNode) = toNode[1] /\ 1 \in 1..Len(toNode)
           /\ Head(toNode) \in ToSet(toNode) /\ Head(toNode) \in AnswerType
           /\ Head(toNode).kind = "answer" /\ Head(toNode).request \in RequestType
           /\ Head(toNode).request.kind = kind /\ Head(toNode).request.flow = flow
           /\ RequestFine(Head(toNode).request)
           /\ ToSet(toNode') \subseteq ToSet(toNode)
<1>1. toNode # <<>> /\ toNode' = Tail(toNode) /\ Head(toNode).kind = "answer"
      /\ Head(toNode).request.kind = kind /\ Head(toNode).request.flow = flow
  BY DEF Answered
<1>2. /\ toNode \in Seq(MessageType) /\ Head(toNode) \in ToSet(toNode)
      /\ Head(toNode) \in MessageType /\ ToSet(toNode') \subseteq ToSet(toNode)
  BY <1>1, InvParts, ToSetHead DEF WireType
<1>3. Head(toNode) = toNode[1] /\ 1 \in 1..Len(toNode)
  BY <1>1, <1>2
<1>4. Head(toNode) \in AnswerType /\ RequestFine(Head(toNode).request)
  BY <1>1, <1>2, InvParts DEF MessageType, AnswerType, GrantType, WorkType, WiresFine
<1>5. Head(toNode).request \in RequestType
  BY <1>4 DEF AnswerType
<1> QED
  BY <1>1, <1>2, <1>3, <1>4, <1>5

LEMMA HandleGrantsFacts ==
    ASSUME ConsoleBounds, Inv, HandleGrants
    PROVE  /\ ConsoleHolds /\ Grows /\ UNCHANGED <<acked, stored, peer>>
           /\ live'.acks = live.acks /\ live'.sent \in {live.sent, acked}
           /\ AsksOn(acked, console.gen)
           /\ Head(toNode).request.gen # console.gen => UNCHANGED <<console, live, toHost>>
<1> DEFINE request == Head(toNode).request
           untold == {o \in Ops : ops[o] # NoOp /\ console.told[o] # ops[o]}
           owes == console.granted \/ request.owed
<1>1. /\ request \in RequestType /\ Head(toNode).epoch \in Nat
  BY AnswerRead DEF HandleGrants, AnswerType
<1>2. UNCHANGED <<acked, stored, peer>> /\ acked \in Nat /\ UNCHANGED ops
  BY InvParts DEF HandleGrants, hostVars, JournalType
<1>3. CASE request.gen # console.gen
  <2>1. UNCHANGED <<journal, console, live, toHost>>
    BY <1>3 DEF HandleGrants
  <2> QED
    BY <1>2, <1>3, <2>1, KeptWater DEF ConsoleHolds, AsksOn
<1>4. CASE request.gen = console.gen
  <2>a. PICK history : history = journal \o buffered
    OBVIOUS
  <2>b. PICK rest : rest = IF owes THEN Wires(untold) ELSE {}
    OBVIOUS
  <2>c. PICK s : s = [gen |-> request.gen, after |-> acked, owed |-> request.owed,
                      limit |-> IF owes THEN Len(history) ELSE acked, rest |-> rest]
    OBVIOUS
  <2>1. /\ Commit(<<>>)
        /\ IF request.owed THEN Granted(Head(toNode).epoch)
           ELSE UNCHANGED <<epoch, ackedEpoch, console>>
        /\ toHost' = toHost \o NextRequest(history, s, console', acked)
        /\ \E l : /\ l = IF request.owed THEN Marked(live) ELSE Wants(live, buffered # <<>>)
                  /\ \/ live' = HandedOver(l, console', acked)
                     \/ live' = l
    BY <1>4, <2>a, <2>b, <2>c DEF HandleGrants
  <2>2. /\ journal' = history /\ Grows /\ Water' \in Nat /\ acked <= Water'
    BY <2>1, <2>a, CommitAll
  <2>3. console' \in ConsoleRecords /\ ConsoleHolds
    <3>1. CASE request.owed
      BY <1>1, <2>1, <3>1, InvParts, GrantedTyped DEF Granted, ConsoleType, ConsoleRecords,
                                                      ConsoleHolds
    <3>2. CASE ~request.owed
      BY <2>1, <3>2, InvParts DEF ConsoleType, ConsoleHolds
    <3> QED
      BY <3>1, <3>2
  <2>4. rest \in ControlSets
    <3>1. untold \subseteq Ops
      OBVIOUS
    <3> QED
      BY <2>b, <3>1, InvParts, WiresTyped, NoControls
  <2>5. history \in Seq(Nat) /\ Len(history) = Water' /\ acked <= Len(history)
        /\ Len(history) \in Nat
    BY <2>2 DEF Grows, Water
  <2>6. /\ s.rest = rest /\ s.gen = console.gen /\ s.gen \in Nat /\ s.after = acked
        /\ s.limit \in Nat /\ s.owed \in BOOLEAN /\ s.limit <= Len(history)
    BY <1>1, <1>2, <1>4, <2>c, <2>5 DEF RequestType
  <2>7. AsksOn(acked, console.gen)
    <3>1. console'.hostEpoch \in Nat
      BY <2>3 DEF ConsoleRecords
    <3>2. AsksOn(s.after, s.gen)
      BY <1>2, <2>1, <2>4, <2>5, <2>6, <3>1, NextRequestAsks
    <3> QED
      BY <2>6, <3>2
  <2>8. live'.acks = live.acks /\ live'.sent \in {live.sent, acked}
    <3>1. PICK l : /\ l = IF request.owed THEN Marked(live) ELSE Wants(live, buffered # <<>>)
                   /\ \/ live' = HandedOver(l, console', acked)
                      \/ live' = l
      BY <2>1
    <3>2. l \in LiveRecords /\ l.sent = live.sent /\ l.acks = live.acks
      BY <3>1, InvParts DEF Marked, Wants, LiveType, LiveRecords
    <3>3. /\ HandedOver(l, console', acked).sent = acked
          /\ HandedOver(l, console', acked).acks = l.acks
      BY <1>2, <2>3, <3>2, HandedOverTyped
    <3> QED
      BY <3>1, <3>2, <3>3
  <2> QED
    BY <1>2, <1>4, <2>2, <2>3, <2>7, <2>8
<1> QED
  BY <1>3, <1>4

LEMMA HandleReplayedFacts ==
    ASSUME ConsoleBounds, Inv, HandleReplayed
    PROVE  /\ ConsoleHolds /\ Grows /\ UNCHANGED <<stored, peer>>
           /\ acked' \in {acked, Head(toNode).request.batch.through}
           /\ live'.acks = live.acks /\ live'.sent \in {live.sent, acked'}
           /\ AsksOn(Head(toNode).request.batch.through, Head(toNode).request.gen)
<1>a. PICK request : request = Head(toNode).request
  OBVIOUS
<1>b. PICK batch : batch = request.batch
  OBVIOUS
<1>c. PICK rest : rest = {c \in request.rest : c.id \notin Named(batch.controls)}
  OBVIOUS
<1>d. PICK s : s = [gen |-> request.gen, after |-> batch.through, limit |-> request.limit,
                    owed |-> request.owed, rest |-> rest]
  OBVIOUS
<1>1. request \in RequestType /\ RequestFine(request)
  BY <1>a, AnswerRead DEF HandleReplayed
<1>2. /\ batch \in BatchType /\ batch.controls \in ControlSets
      /\ batch.through \in Nat /\ batch.through <= Water /\ Water \in Nat
      /\ request.limit \in Nat /\ request.limit <= Water
      /\ request.rest \in ControlSets /\ request.gen \in Nat /\ request.owed \in BOOLEAN
  BY <1>b, <1>1, InvParts DEF RequestType, BatchType, RequestFine, Segment, Water
<1>3. rest \in ControlSets
  BY <1>c, <1>2, ControlsSubset
<1>4. /\ UNCHANGED <<ops, stored, peer>>
      /\ acked \in Nat /\ acked <= Water /\ journal \in Seq(Nat)
  BY InvParts DEF HandleReplayed, JournalType, Committed, hostVars
<1>5. acked' \in Nat /\ acked' <= Water /\ acked' \in {acked, batch.through}
  <2>1. acked' = Max({acked, batch.through})
    BY <1>a, <1>b DEF HandleReplayed
  <2>2. acked \in Int /\ batch.through \in Int
    BY <1>2, <1>4
  <2>3. Max({acked, batch.through}) = IF acked >= batch.through THEN acked ELSE batch.through
    BY <2>2, GreaterOfTwo
  <2> QED
    BY <1>2, <1>4, <2>1, <2>3
<1>6. console' \in ConsoleRecords /\ ConsoleHolds
  <2>a. PICK hosts : hosts = Max({console.hostEpoch} \cup Epochs(batch.controls))
    OBVIOUS
  <2>b. PICK told : told = Remembered(console.told, batch)
    OBVIOUS
  <2>1. console \in ConsoleRecords /\ console.hostEpoch \in Nat
    BY InvParts DEF ConsoleType, ConsoleRecords
  <2>2. hosts \in Nat
    BY <1>2, <2>a, <2>1, EpochsTyped
  <2>3. told \in [Ops -> OpType]
    BY <2>b, <2>1, InvParts DEF Remembered, ConsoleRecords, JournalType
  <2>4. console' = [console EXCEPT !.hostEpoch = hosts, !.told = told]
    BY <1>a, <1>b, <2>a, <2>b, <2>1 DEF HandleReplayed, ConsoleRecords
  <2> QED
    BY <2>1, <2>2, <2>3, <2>4 DEF ConsoleRecords, ConsoleHolds
<1>7. AsksOn(batch.through, request.gen)
  <2>1. toHost' = toHost \o NextRequest(journal, s, console', acked')
    BY <1>a, <1>b, <1>c, <1>d DEF HandleReplayed
  <2>2. console'.hostEpoch \in Nat
    BY <1>6 DEF ConsoleRecords
  <2>3. /\ s.rest \in ControlSets /\ s.gen = request.gen /\ s.gen \in Nat
        /\ s.after = batch.through /\ s.after \in Nat /\ s.limit \in Nat
        /\ s.owed \in BOOLEAN /\ s.after <= Len(journal) /\ s.limit <= Len(journal)
        /\ acked' <= Len(journal)
    BY <1>d, <1>2, <1>3, <1>5 DEF Water
  <2>4. AsksOn(s.after, s.gen)
    BY <1>4, <1>5, <2>1, <2>2, <2>3, NextRequestAsks
  <2> QED
    BY <2>3, <2>4
<1>8. /\ Grows
      /\ \/ live' = live
         \/ live' = HandedOver(Wants(live, buffered # <<>>), console', acked')
  <2>1. CASE Ends(journal, s, console')
    <3>1. /\ Commit(<<>>)
          /\ live' = HandedOver(Wants(live, buffered # <<>>), console', acked')
      BY <1>a, <1>b, <1>c, <1>d, <2>1 DEF HandleReplayed
    <3> QED
      BY <3>1, CommitAll
  <2>2. CASE ~Ends(journal, s, console')
    <3>1. UNCHANGED <<journal, buffered, live>>
      BY <1>a, <1>b, <1>c, <1>d, <2>2 DEF HandleReplayed
    <3> QED
      BY <3>1, KeptWater
  <2> QED
    BY <2>1, <2>2
<1>9. live'.acks = live.acks /\ live'.sent \in {live.sent, acked'}
  <2>a. PICK l : l = Wants(live, buffered # <<>>)
    OBVIOUS
  <2>1. l \in LiveRecords /\ l.acks = live.acks
    BY <2>a, InvParts DEF Wants, LiveType, LiveRecords
  <2>2. /\ HandedOver(l, console', acked').sent = acked'
        /\ HandedOver(l, console', acked').acks = l.acks
    BY <1>5, <1>6, <2>1, HandedOverTyped
  <2> QED
    BY <1>8, <2>a, <2>1, <2>2
<1> QED
  BY <1>a, <1>b, <1>4, <1>5, <1>6, <1>7, <1>8, <1>9

-----------------------------------------------------------------------------
(* Each step keeps that order                                              *)

LEMMA InitOrder == ASSUME Init PROVE OneAtATime
BY ToSetEmpty, EmptySeq DEF Init, OneAtATime, JoinsAlone, ResyncComesFirst, GenerationsPass

\* A step of the Node that reads at most the head of its queue and asks nothing.
LEMMA QuietOrder ==
    ASSUME Inv, OneAtATime, Inv', console.gen <= console'.gen, UNCHANGED toHost,
           NEW d \in {0, 1}, Behind(d), ToSet(toNode') \subseteq ToSet(toNode),
           console'.joining => ConsoleHolds /\ live'.sent = live.sent
    PROVE  OneAtATime'
<1>1. toHost' \in Seq(RequestType) /\ toNode' \in Seq(MessageType) /\ ConsoleType'
  BY DEF Inv, TypeOK, WireType
<1>2. AskedInTurn
  BY DEF AskedInTurn
<1>3. ResyncComesFirst' /\ GenerationsPass'
  BY <1>1, <1>2, OrderKept DEF OneAtATime
<1>4. NothingNew
  BY <1>1 DEF NothingNew
<1>5. JoinsAlone'
  BY <1>4, StillJoins DEF OneAtATime, ConsoleHolds
<1> QED
  BY <1>3, <1>5 DEF OneAtATime

\* One that asks something has no synchronization waiting to ask.
LEMMA AskingOrder ==
    ASSUME Inv, OneAtATime, Inv', console.gen <= console'.gen, AskedInTurn,
           NEW d \in {0, 1}, Behind(d), ~console'.joining
    PROVE  OneAtATime'
<1>1. toNode' \in Seq(MessageType) /\ ConsoleType'
  BY DEF Inv, TypeOK, WireType
<1>2. ResyncComesFirst' /\ GenerationsPass'
  BY <1>1, OrderKept DEF OneAtATime
<1>3. JoinsAlone'
  BY DEF JoinsAlone
<1> QED
  BY <1>2, <1>3 DEF OneAtATime

\* What a step of the Host does to it.
LEMMA HostOrder ==
    ASSUME Inv, OneAtATime, Inv', UNCHANGED <<console, live>>, NothingNew, Behind(0)
    PROVE  OneAtATime'
<1>1. toNode' \in Seq(MessageType) /\ ConsoleType' /\ console.gen \in Nat
  BY InvParts DEF Inv, TypeOK, WireType, ConsoleType, ConsoleRecords
<1>2. AskedInTurn
  BY DEF AskedInTurn, NothingNew
<1>3. ResyncComesFirst' /\ GenerationsPass'
  BY <1>1, <1>2, OrderKept DEF OneAtATime
<1>4. JoinsAlone'
  BY StillJoins DEF OneAtATime
<1> QED
  BY <1>3, <1>4 DEF OneAtATime

LEMMA GenTyped == ASSUME Inv PROVE console.gen \in Nat
BY InvParts DEF ConsoleType, ConsoleRecords

LEMMA LocalOrder ==
    ASSUME Inv, OneAtATime, Inv',
           \/ Emit \/ Flush \/ TurnEnds \/ AgentEnds \/ LocalPrompt \/ Invoke
           \/ CancelQueued \/ PumpLocal \/ AdmitWork
    PROVE  OneAtATime'
<1>1. ConsoleHolds /\ LiveKept /\ UNCHANGED toHost
  BY LocalFacts
<1>2. UNCHANGED toNode
  BY DEF Emit, Flush, TurnEnds, AgentEnds, LocalPrompt, Invoke, CancelQueued, PumpLocal,
         AdmitWork
<1>3. Behind(0)
  BY <1>2, InvParts, NotMoved
<1> QED
  BY <1>1, <1>2, <1>3, GenTyped, QuietOrder DEF ConsoleHolds, LiveKept

LEMMA AckWriteOrder == ASSUME Inv, OneAtATime, Inv', AckWrite PROVE OneAtATime'
<1>1. live'.sent = live.sent
  BY InvParts DEF AckWrite, LiveType, LiveRecords
<1>2. Behind(0)
  BY InvParts, NotMoved DEF AckWrite
<1> QED
  BY <1>1, <1>2, GenTyped, QuietOrder DEF AckWrite, ConsoleHolds

\* What the Node reads.
LEMMA Reads ==
    ASSUME Inv, toNode # <<>>, toNode' = Tail(toNode)
    PROVE  Behind(1) /\ ToSet(toNode') \subseteq ToSet(toNode)
BY InvParts, ReadBehind, ToSetHead DEF WireType

LEMMA FencedHolds ==
    ASSUME Inv, console' = Fenced(console) \/ console' = [Fenced(console) EXCEPT !.expired = console.gen],
           live' = FencedLive
    PROVE  /\ console.gen <= console'.gen
           /\ console'.joining => ConsoleHolds /\ live' = live
<1>1. console \in ConsoleRecords /\ console.gen \in Nat
  BY InvParts DEF ConsoleType, ConsoleRecords
<1>2. CASE console.status = "offline"
  <2>1. console' = console \/ console' = [console EXCEPT !.expired = console.gen]
    BY <1>2 DEF Fenced
  <2> QED
    BY <1>1, <1>2, <2>1 DEF FencedLive, ConsoleHolds, ConsoleRecords
<1>3. CASE console.status # "offline"
  <2>a. PICK f : f = Fenced(console)
    OBVIOUS
  <2>1. f.gen = console.gen + 1 /\ f.joining = FALSE /\ f \in ConsoleRecords
    BY <1>1, <1>3, <2>a, FencedTyped DEF Fenced, ConsoleRecords
  <2>2. console'.gen = console.gen + 1 /\ console'.joining = FALSE
    BY <2>a, <2>1 DEF ConsoleRecords
  <2> QED
    BY <1>1, <2>2
<1> QED
  BY <1>2, <1>3

LEMMA ReadingOrder ==
    ASSUME Inv, OneAtATime, Inv',
           IgnoreAnswer \/ HandleGrant \/ HandleLive \/ HandleRefusal \/ ReceiveWork
    PROVE  OneAtATime'
<1>1. toNode # <<>> /\ toNode' = Tail(toNode) /\ UNCHANGED toHost
  BY DEF IgnoreAnswer, HandleGrant, HandleLive, HandleRefusal, Answered, ReceiveWork
<1>2. console.gen <= console'.gen /\ (console'.joining => ConsoleHolds /\ live'.sent = live.sent)
  <2>1. CASE IgnoreAnswer
    BY <2>1, GenTyped DEF IgnoreAnswer, ConsoleHolds
  <2>2. CASE HandleGrant
    <3>1. ConsoleHolds
      BY <2>2, InvParts DEF HandleGrant, Granted, ConsoleType, ConsoleRecords, ConsoleHolds
    <3>2. live'.sent = live.sent
      BY <2>2, InvParts DEF HandleGrant, Marked, LiveType, LiveRecords
    <3> QED
      BY <3>1, <3>2, GenTyped DEF ConsoleHolds
  <2>3. CASE HandleLive
    <3>1. ConsoleHolds /\ live'.sent = live.sent
      BY <2>3, InvParts DEF HandleLive, LiveType, LiveRecords, ConsoleType, ConsoleRecords,
                            ConsoleHolds
    <3> QED
      BY <3>1, GenTyped DEF ConsoleHolds
  <2>4. CASE HandleRefusal
    <3>1. \/ console' = Fenced(console) /\ live' = FencedLive
          \/ UNCHANGED <<console, live>>
      BY <2>4 DEF HandleRefusal
    <3> QED
      BY <3>1, FencedHolds, GenTyped DEF ConsoleHolds
  <2>5. CASE ReceiveWork
    BY <2>5, GenTyped DEF ReceiveWork, ConsoleHolds
  <2> QED
    BY <2>1, <2>2, <2>3, <2>4, <2>5
<1> QED
  BY <1>1, <1>2, Reads, QuietOrder

\* An answer makes the console online only if no synchronization waits to ask.
LEMMA HandleSynchronizedOrder ==
    ASSUME Inv, OneAtATime, Inv', HandleSynchronized PROVE OneAtATime'
<1>1. /\ toNode # <<>> /\ toNode' = Tail(toNode) /\ UNCHANGED toHost
      /\ Head(toNode) \in ToSet(toNode) /\ Head(toNode).kind = "answer"
      /\ Settling(Head(toNode).request)
  BY AnswerRead DEF HandleSynchronized, Settling
<1>2. ~console.joining
  BY <1>1 DEF OneAtATime, JoinsAlone
<1>3. console'.gen = console.gen /\ console'.joining = console.joining
  BY InvParts DEF HandleSynchronized, ConsoleType, ConsoleRecords
<1>4. ~console'.joining /\ console.gen <= console'.gen
  BY <1>2, <1>3, GenTyped
<1> QED
  BY <1>1, <1>4, Reads, QuietOrder

LEMMA RequestTimesOutOrder ==
    ASSUME Inv, OneAtATime, Inv', RequestTimesOut PROVE OneAtATime'
<1>1. Behind(0)
  BY InvParts, NotMoved DEF RequestTimesOut
<1>2. console.gen <= console'.gen /\ (console'.joining => ConsoleHolds /\ live' = live)
  BY FencedHolds DEF RequestTimesOut
<1> QED
  BY <1>1, <1>2, QuietOrder DEF RequestTimesOut

\* A new request at the end of the queue.
LEMMA AppendedInTurn ==
    ASSUME Inv, NEW r \in RequestType, toHost' = Append(toHost, r), r.gen <= console'.gen,
           Settling(r) => \A p \in 1..Len(toNode') : toNode'[p].kind # "resync"
    PROVE  AskedInTurn
<1>1. ToSet(toHost') = ToSet(toHost) \cup {r}
  BY InvParts, ToSetAppend DEF WireType
<1> QED
  BY <1>1 DEF AskedInTurn

LEMMA InitializeOrder == ASSUME Inv, OneAtATime, Inv', Initialize PROVE OneAtATime'
<1>a. PICK r : r = [Ask("initialize", "sync", Nothing, {}, 0) EXCEPT
                      !.owed = agent.alive \/ FlushedWater > acked \/ epoch > ackedEpoch]
  OBVIOUS
<1>1. toHost' = Append(toHost, r) /\ r.kind = "initialize" /\ r.gen = console.gen
  BY <1>a DEF Initialize, Ask
<1>2. r \in RequestType
  <2>1. (agent.alive \/ FlushedWater > acked \/ epoch > ackedEpoch) \in BOOLEAN
    OBVIOUS
  <2>2. Nothing \in BatchType /\ console.gen \in Nat
    BY InvParts, GenTyped, NoneIsSeq, NothingIsSegment
  <2> QED
    BY <1>a, <2>1, <2>2, NoControls DEF Ask, RequestType
<1>3. ~console'.joining /\ console'.gen = console.gen
  BY InvParts DEF Initialize, ConsoleType, ConsoleRecords
<1>4. AskedInTurn
  BY <1>1, <1>2, <1>3, GenTyped, AppendedInTurn DEF Settling
<1>5. Behind(0)
  BY InvParts, NotMoved DEF Initialize
<1> QED
  BY <1>3, <1>4, <1>5, GenTyped, AskingOrder

\* A live batch belongs to a console that is online.
LEMMA PumpLiveFacts ==
    ASSUME ConsoleBounds, Inv, PumpLive
    PROVE  \/ UNCHANGED toHost /\ live'.sent = live.sent /\ live'.acks = live.acks
           \/ \E r \in RequestType :
                 /\ toHost' = Append(toHost, r)
                 /\ r.kind = "replay" /\ r.flow = "live" /\ r.gen = console.gen
                 /\ r.batch.from = SentThrough
                 /\ live'.sent = r.batch.through /\ live'.acks = live.acks
<1>a. PICK batch : batch = Batch(journal, SentThrough, Water, Unsent)
  OBVIOUS
<1>1. /\ journal \in Seq(Nat) /\ Water \in Nat /\ SentThrough \in Nat /\ SentThrough <= Water
      /\ Unsent \in ControlSets
  <2>1. SentThrough \in Nat /\ SentThrough <= Water
    BY InvParts DEF SentThrough, LiveType, LiveRecords, Unset, Committed, JournalType
  <2>2. Unsent \in ControlSets
    <3>1. {o \in Ops : ops[o] # NoOp /\ live.states[o] # ops[o]} \subseteq Ops
      OBVIOUS
    <3> QED
      BY <3>1, InvParts, WiresTyped, NoControls DEF Unsent
  <2> QED
    BY <2>1, <2>2, InvParts DEF JournalType
<1>2. batch \in BatchType /\ batch.from = SentThrough
  BY <1>a, <1>1, BatchIsSegment DEF Water
<1>b. PICK r : r = Ask("replay", "live", batch, {}, 0)
  OBVIOUS
<1>3. /\ r \in RequestType /\ r.kind = "replay" /\ r.flow = "live" /\ r.gen = console.gen
      /\ r.batch = batch
  BY <1>b, <1>2, GenTyped, NoControls DEF Ask, RequestType
<1>4. \/ UNCHANGED toHost /\ \/ live' = [live EXCEPT !.wanted = FALSE]
                             \/ live' = [live EXCEPT !.wanted = FALSE, !.dirty = FALSE]
      \/ /\ toHost' = Append(toHost, r)
         /\ live'.sent = batch.through /\ live'.acks = live.acks
  <2>1. live \in LiveRecords
    BY InvParts DEF LiveType
  <2> QED
    BY <1>a, <1>b, <2>1 DEF PumpLive, LiveRecords
<1>5. CASE UNCHANGED toHost /\ \/ live' = [live EXCEPT !.wanted = FALSE]
                               \/ live' = [live EXCEPT !.wanted = FALSE, !.dirty = FALSE]
  BY <1>5, InvParts DEF LiveType, LiveRecords
<1>6. CASE /\ toHost' = Append(toHost, r)
           /\ live'.sent = batch.through /\ live'.acks = live.acks
  BY <1>2, <1>3, <1>6
<1> QED
  BY <1>4, <1>5, <1>6

LEMMA PumpLiveOrder == ASSUME ConsoleBounds, Inv, OneAtATime, Inv', PumpLive PROVE OneAtATime'
<1>1. ~console'.joining /\ console'.gen = console.gen
  BY DEF PumpLive, OneAtATime, JoinsAlone
<1>2. AskedInTurn
  <2>1. CASE UNCHANGED toHost
    BY <2>1 DEF AskedInTurn
  <2>2. ASSUME NEW r \in RequestType, toHost' = Append(toHost, r), r.flow = "live",
               r.gen = console.gen
        PROVE  AskedInTurn
    BY <1>1, <2>2, GenTyped, AppendedInTurn DEF Settling
  <2> QED
    BY <2>1, <2>2, PumpLiveFacts
<1>3. Behind(0)
  BY InvParts, NotMoved DEF PumpLive
<1> QED
  BY <1>1, <1>2, <1>3, GenTyped, AskingOrder

\* The answer to an initialize, or to a batch of a synchronization, comes with no
\* resync under way behind it.
LEMMA NoResyncBehind ==
    ASSUME Inv, OneAtATime, toNode # <<>>, toNode' = Tail(toNode), Head(toNode).kind = "answer",
           Head(toNode).request.flow = "sync"
    PROVE  \A p \in 1..Len(toNode') : toNode'[p].kind # "resync"
<1>1. /\ toNode \in Seq(MessageType) /\ Len(toNode) \in Nat /\ Len(toNode) # 0
      /\ Head(toNode) = toNode[1] /\ Len(toNode') = Len(toNode) - 1
      /\ \A p \in 1..(Len(toNode) - 1) : toNode'[p] = toNode[p + 1]
  BY InvParts DEF WireType
<1>2. \A p \in 1..Len(toNode) : toNode[p].kind = "resync" => p < 1
  BY <1>1 DEF OneAtATime, ResyncComesFirst
<1> QED
  BY <1>1, <1>2

LEMMA AsksOnInTurn ==
    ASSUME Inv, NEW at, NEW gen \in Nat, gen <= console.gen, AsksOn(at, gen),
           console'.gen = console.gen,
           \A p \in 1..Len(toNode') : toNode'[p].kind # "resync"
    PROVE  AskedInTurn
<1>1. CASE UNCHANGED toHost
  BY <1>1 DEF AskedInTurn
<1>2. ASSUME NEW r \in RequestType, toHost' = Append(toHost, r), r.gen \in {console.gen, gen}
      PROVE  AskedInTurn
  <2>1. r.gen <= console'.gen
    BY <1>2, GenTyped
  <2> QED
    BY <1>2, <2>1, AppendedInTurn
<1> QED
  BY <1>1, <1>2 DEF AsksOn

LEMMA HandleGrantsOrder ==
    ASSUME ConsoleBounds, Inv, OneAtATime, Inv', HandleGrants PROVE OneAtATime'
<1>1. /\ toNode # <<>> /\ toNode' = Tail(toNode) /\ Head(toNode).kind = "answer"
      /\ Head(toNode) \in ToSet(toNode) /\ Head(toNode).request.flow = "sync"
  BY AnswerRead DEF HandleGrants
<1>2. ConsoleHolds /\ AsksOn(acked, console.gen)
      /\ (Head(toNode).request.gen # console.gen => UNCHANGED <<console, live, toHost>>)
  BY HandleGrantsFacts
<1>3. CASE console.joining
  <2>1. Head(toNode).request.gen < console.gen
    BY <1>1, <1>3 DEF OneAtATime, JoinsAlone
  <2>2. Head(toNode).request.gen \in Nat /\ console.gen \in Nat
    BY AnswerRead, GenTyped DEF HandleGrants, RequestType
  <2>3. UNCHANGED <<console, live, toHost>>
    BY <1>2, <2>1, <2>2
  <2> QED
    BY <1>1, <2>2, <2>3, Reads, QuietOrder DEF ConsoleHolds
<1>4. CASE ~console.joining
  <2>1. AskedInTurn
    BY <1>1, <1>2, GenTyped, NoResyncBehind, AsksOnInTurn DEF ConsoleHolds
  <2> QED
    BY <1>1, <1>2, <1>4, <2>1, GenTyped, Reads, AskingOrder DEF ConsoleHolds
<1> QED
  BY <1>3, <1>4

LEMMA HandleReplayedOrder ==
    ASSUME ConsoleBounds, Inv, OneAtATime, Inv', HandleReplayed PROVE OneAtATime'
<1>1. /\ toNode # <<>> /\ toNode' = Tail(toNode) /\ Head(toNode).kind = "answer"
      /\ Head(toNode) \in ToSet(toNode) /\ Head(toNode).request.flow = "sync"
      /\ Settling(Head(toNode).request) /\ Head(toNode).request.gen \in Nat
  BY AnswerRead DEF HandleReplayed, Settling, RequestType
<1>2. ConsoleHolds /\ AsksOn(Head(toNode).request.batch.through, Head(toNode).request.gen)
  BY HandleReplayedFacts
<1>3. ~console.joining /\ Head(toNode).request.gen <= console.gen
  BY <1>1 DEF OneAtATime, JoinsAlone, GenerationsPass
<1>4. AskedInTurn
  BY <1>1, <1>2, <1>3, NoResyncBehind, AsksOnInTurn DEF ConsoleHolds
<1> QED
  BY <1>1, <1>2, <1>3, <1>4, GenTyped, Reads, AskingOrder DEF ConsoleHolds

\* A synchronization that begins anew: all there is belongs to earlier ones.
LEMMA HandleResyncOrder == ASSUME Inv, OneAtATime, Inv', HandleResync PROVE OneAtATime'
<1>1. /\ toNode # <<>> /\ toNode' = Tail(toNode) /\ UNCHANGED toHost
      /\ Head(toNode).kind = "resync" /\ live' = NoLive
  BY DEF HandleResync
<1>2. /\ console'.gen = console.gen + 1 /\ console'.status = "syncing"
      /\ console.gen \in Nat
  BY InvParts DEF HandleResync, Begun, ConsoleType, ConsoleRecords
<1>3. /\ toNode \in Seq(MessageType) /\ Len(toNode) \in Nat /\ Len(toNode) # 0
      /\ Head(toNode) = toNode[1] /\ toNode[1].kind = "resync"
      /\ toHost \in Seq(RequestType)
  BY <1>1, InvParts DEF WireType
<1>4. Behind(1) /\ ToSet(toNode') \subseteq ToSet(toNode)
  BY <1>1, Reads
<1>5. ResyncComesFirst' /\ GenerationsPass'
  <2>1. AskedInTurn /\ console.gen <= console'.gen
    BY <1>1, <1>2 DEF AskedInTurn
  <2>2. toNode' \in Seq(MessageType) /\ ConsoleType'
    BY DEF Inv, TypeOK, WireType
  <2> QED
    BY <1>4, <2>1, <2>2, OrderKept DEF OneAtATime
<1>6. /\ \A r \in ToSet(toHost) : ~Settling(r)
      /\ \A q \in 1..Len(toNode) : toNode[q].kind = "answer" => ~Settling(toNode[q].request)
  BY <1>3 DEF OneAtATime, ResyncComesFirst
<1>7. \A r \in ToSet(toHost') : r.gen < console'.gen /\ ~Settling(r)
  <2> SUFFICES ASSUME NEW r \in ToSet(toHost)
               PROVE  r.gen < console.gen + 1 /\ ~Settling(r)
    BY <1>1, <1>2
  <2>1. r \in RequestType
    BY <1>3, ToSetMember
  <2>2. r.gen \in Nat /\ r.gen <= console.gen
    BY <2>1 DEF RequestType, OneAtATime, GenerationsPass
  <2> QED
    BY <1>2, <1>6, <2>2
<1>8. \A m \in ToSet(toNode') :
         m.kind = "answer" => m.request.gen < console'.gen /\ ~Settling(m.request)
  <2> SUFFICES ASSUME NEW m \in ToSet(toNode), m.kind = "answer"
               PROVE  m.request.gen < console.gen + 1 /\ ~Settling(m.request)
    BY <1>2, <1>4
  <2>1. m \in MessageType
    BY <1>3, ToSetMember
  <2>2. m.request.gen \in Nat /\ m.request.gen <= console.gen
    BY <2>1 DEF MessageType, AnswerType, GrantType, WorkType, RequestType, OneAtATime,
                GenerationsPass
  <2>3. ~Settling(m.request)
    BY <1>3, <1>6 DEF ToSet
  <2> QED
    BY <1>2, <2>2, <2>3
<1>9. JoinsAlone'
  BY <1>1, <1>2, <1>7, <1>8, NoLiveTyped DEF JoinsAlone
<1> QED
  BY <1>5, <1>9 DEF OneAtATime

LEMMA ConnectOrder == ASSUME Inv, OneAtATime, Connect PROVE OneAtATime'
<1>1. ToSet(toHost') = {} /\ ToSet(toNode') = {} /\ Len(toNode') = 0
  BY ToSetEmpty, EmptySeq DEF Connect
<1>2. console'.status = "syncing" /\ live'.sent = -1
  BY InvParts, NoLiveTyped DEF Connect, Begun, ConsoleType, ConsoleRecords
<1> QED
  BY <1>1, <1>2 DEF OneAtATime, JoinsAlone, ResyncComesFirst, GenerationsPass

LEMMA PartingOrder == ASSUME Inv, OneAtATime, Inv', Break \/ NodeCrash PROVE OneAtATime'
<1>1. toNode' = <<>> /\ UNCHANGED toHost
  BY DEF Break, NodeCrash
<1>2. console'.gen = console.gen + 1 /\ console'.joining = FALSE
  BY InvParts DEF Break, NodeCrash, ConsoleType, ConsoleRecords
<1>3. AskedInTurn /\ Behind(0) /\ console.gen <= console'.gen
  BY <1>1, <1>2, GenTyped, EmptiedBehind DEF AskedInTurn
<1> QED
  BY <1>2, <1>3, AskingOrder

\* The Host answers what it reads, and what it reads was under way.
LEMMA Answering ==
    ASSUME Inv, toHost # <<>>, Consumed,
           NEW messages \in Seq(MessageType), Told(messages),
           \A m \in ToSet(messages) :
              /\ m.kind # "resync"
              /\ m.kind = "answer" => m.request = Head(toHost)
    PROVE  NothingNew /\ Behind(0)
<1>1. NothingNew
  BY InvParts, AnswersOnly
<1>2. Head(toHost) \in ToSet(toHost)
  BY InvParts, RequestRead
<1>3. Behind(0)
  BY <1>2, InvParts, ToldBehind
<1> QED
  BY <1>1, <1>3

LEMMA AnswerKind ==
    ASSUME NEW request, NEW ok PROVE Answer(request, ok).kind = "answer"
BY DEF Answer

LEMMA HostInitializeOrder ==
    ASSUME Inv, OneAtATime, Inv', HostInitialize PROVE OneAtATime'
<1>a. PICK answer : answer = Answer(Head(toHost), TRUE)
  OBVIOUS
<1>1. toHost # <<>> /\ Consumed /\ Told(<<answer>>)
  BY <1>a DEF HostInitialize, Receives
<1>2. answer \in MessageType /\ answer.request = Head(toHost) /\ answer.kind = "answer"
  BY <1>a, <1>1, InvParts, RequestRead, AnswerTyped, AnswerKind
<1>3. NothingNew /\ Behind(0)
  BY <1>1, <1>2, OneMessage, Answering
<1> QED
  BY <1>3, HostOrder DEF HostInitialize

LEMMA HostSynchronizedOrder ==
    ASSUME Inv, OneAtATime, Inv', HostSynchronized PROVE OneAtATime'
<1> DEFINE request == Head(toHost)
           complete == /\ \A n \in 1..request.limit : \E e \in stored : e.seq >= n
                       /\ hostEpoch = request.epoch
<1>a. PICK ok : ok = (request.owed => complete)
  OBVIOUS
<1>b. PICK answer : answer = Answer(request, ok)
  OBVIOUS
<1>1. /\ toHost # <<>> /\ Consumed /\ Told(<<answer>>)
      /\ UNCHANGED <<console, live>>
  BY <1>a, <1>b DEF HostSynchronized, Receives
<1>2. answer \in MessageType /\ answer.request = Head(toHost) /\ answer.kind = "answer"
  <2>1. ok \in BOOLEAN
    BY <1>a
  <2> QED
    BY <1>b, <1>1, <2>1, InvParts, RequestRead, AnswerTyped, AnswerKind
<1>3. NothingNew /\ Behind(0)
  BY <1>1, <1>2, OneMessage, Answering
<1> QED
  BY <1>1, <1>3, HostOrder

\* A batch, whole, in part or not at all: what the Host takes of it, and what it says.
TakenPart(part, ok) ==
    /\ stored' = stored \cup part.events
    /\ peer' = PeerAfter(part, ok)
    /\ Told(Append(FirstGrant(part), Answer(Head(toHost), ok)))

LEMMA HostReplayFacts ==
    ASSUME HostReplay
    PROVE  /\ toHost # <<>> /\ Consumed /\ Head(toHost).kind = "replay"
           /\ UNCHANGED <<journal, acked, console, live, up>>
           /\ \/ /\ peer.failed /\ UNCHANGED <<stored, peer>>
                 /\ Told(<<Answer(Head(toHost), FALSE)>>)
              \/ ~peer.failed /\ TakenPart(Whole(Head(toHost).batch), TRUE)
              \/ \E e \in Events(Head(toHost).batch) :
                    ~peer.failed /\ TakenPart(Ahead(Head(toHost).batch, e), FALSE)
BY DEF HostReplay, Receives, TakenPart, journalVars, hostVars

\* What is said when a part is taken.
LEMMA TakenSays ==
    ASSUME Inv, toHost # <<>>, Consumed, NEW part, NEW ok \in BOOLEAN,
           part.controls \subseteq Head(toHost).batch.controls,
           NEW messages, messages = Append(FirstGrant(part), Answer(Head(toHost), ok))
    PROVE  /\ messages \in Seq(MessageType)
           /\ \A m \in ToSet(messages) :
                 \/ m.kind = "grant"
                 \/ m.kind = "answer" /\ m = Answer(Head(toHost), ok)
<1>1. Head(toHost) \in RequestType
  BY InvParts, RequestRead
<1>2. part.controls \in ControlSets
  <2>1. Head(toHost).batch.controls \in ControlSets
    BY <1>1 DEF RequestType, BatchType
  <2> QED
    BY <2>1, ControlsSubset
<1>a. PICK grants, answer : grants = FirstGrant(part) /\ answer = Answer(Head(toHost), ok)
  OBVIOUS
<1>3. grants \in Seq(MessageType) /\ \A m \in ToSet(grants) : m.kind = "grant"
  BY <1>a, <1>2, FirstGrantTyped
<1>4. answer \in MessageType /\ answer.kind = "answer"
  BY <1>a, <1>1, InvParts, AnswerTyped, AnswerKind
<1>5. ToSet(Append(grants, answer)) = ToSet(grants) \cup {answer}
      /\ Append(grants, answer) \in Seq(MessageType)
  BY <1>3, <1>4, ToSetAppend, AppendProperties
<1> QED
  BY <1>a, <1>3, <1>4, <1>5

LEMMA HostReplaySays ==
    ASSUME Inv, HostReplay
    PROVE  /\ NothingNew /\ Behind(0)
           /\ \A m \in ToSet(toNode') :
                 \/ m \in ToSet(toNode) \/ m.kind # "answer"
                 \/ ~m.ok
                 \/ m.request = Head(toHost) /\ TakenPart(Whole(Head(toHost).batch), TRUE)
<1>1. /\ toHost # <<>> /\ Consumed
      /\ \/ Told(<<Answer(Head(toHost), FALSE)>>)
         \/ TakenPart(Whole(Head(toHost).batch), TRUE)
         \/ \E e \in Events(Head(toHost).batch) :
               TakenPart(Ahead(Head(toHost).batch, e), FALSE)
  BY HostReplayFacts
<1>2. Head(toHost) \in RequestType
  BY <1>1, InvParts, RequestRead
<1>3. \A ok \in BOOLEAN : /\ Answer(Head(toHost), ok) \in MessageType
                          /\ Answer(Head(toHost), ok).request = Head(toHost)
                          /\ Answer(Head(toHost), ok).ok = ok
                          /\ Answer(Head(toHost), ok).kind = "answer"
  BY <1>2, InvParts, AnswerTyped DEF Answer
<1>4. ASSUME NEW messages \in Seq(MessageType), Told(messages), NEW ok \in BOOLEAN,
             \A m \in ToSet(messages) :
                m.kind = "grant" \/ (m.kind = "answer" /\ m = Answer(Head(toHost), ok)),
             ok => TakenPart(Whole(Head(toHost).batch), TRUE)
      PROVE  /\ NothingNew /\ Behind(0)
             /\ \A m \in ToSet(toNode') :
                   \/ m \in ToSet(toNode) \/ m.kind # "answer"
                   \/ ~m.ok
                   \/ m.request = Head(toHost) /\ TakenPart(Whole(Head(toHost).batch), TRUE)
  <2>1. \A m \in ToSet(messages) : /\ m.kind # "resync"
                                   /\ m.kind = "answer" => m.request = Head(toHost)
    BY <1>3, <1>4
  <2>2. NothingNew /\ Behind(0)
    BY <1>1, <1>4, <2>1, Answering
  <2>3. ToSet(toNode') \subseteq ToSet(toNode) \cup ToSet(messages)
    BY <1>4, InvParts, ToldTyped
  <2>4. \A m \in ToSet(messages) :
           \/ m.kind # "answer"
           \/ ~m.ok
           \/ m.request = Head(toHost) /\ TakenPart(Whole(Head(toHost).batch), TRUE)
    BY <1>3, <1>4
  <2> QED
    BY <2>2, <2>3, <2>4
<1>5. CASE Told(<<Answer(Head(toHost), FALSE)>>)
  <2>a. PICK answer : answer = Answer(Head(toHost), FALSE)
    OBVIOUS
  <2>1. <<answer>> \in Seq(MessageType) /\ ToSet(<<answer>>) = {answer}
    BY <1>3, <2>a, OneMessage
  <2>2. FALSE \in BOOLEAN /\ answer.kind = "answer" /\ Told(<<answer>>)
    BY <1>3, <1>5, <2>a
  <2>3. \A m \in ToSet(<<answer>>) :
           m.kind = "grant" \/ (m.kind = "answer" /\ m = Answer(Head(toHost), FALSE))
    BY <2>a, <2>1, <2>2
  <2> QED
    BY <1>4, <2>1, <2>2, <2>3
<1>6. ASSUME NEW part, NEW ok \in BOOLEAN, TakenPart(part, ok),
             part.controls \subseteq Head(toHost).batch.controls,
             ok => TakenPart(Whole(Head(toHost).batch), TRUE)
      PROVE  /\ NothingNew /\ Behind(0)
             /\ \A m \in ToSet(toNode') :
                   \/ m \in ToSet(toNode) \/ m.kind # "answer"
                   \/ ~m.ok
                   \/ m.request = Head(toHost) /\ TakenPart(Whole(Head(toHost).batch), TRUE)
  <2>a. PICK messages : messages = Append(FirstGrant(part), Answer(Head(toHost), ok))
    OBVIOUS
  <2>1. /\ messages \in Seq(MessageType)
        /\ \A m \in ToSet(messages) :
              m.kind = "grant" \/ (m.kind = "answer" /\ m = Answer(Head(toHost), ok))
    BY <1>1, <1>6, <2>a, TakenSays
  <2>2. Told(messages)
    BY <1>6, <2>a DEF TakenPart
  <2> QED
    BY <1>4, <1>6, <2>1, <2>2
<1>7. CASE TakenPart(Whole(Head(toHost).batch), TRUE)
  <2>1. TRUE \in BOOLEAN /\ Whole(Head(toHost).batch).controls \subseteq Head(toHost).batch.controls
    BY DEF Whole
  <2> QED
    BY <1>6, <1>7, <2>1
<1>8. CASE \E e \in Events(Head(toHost).batch) :
              TakenPart(Ahead(Head(toHost).batch, e), FALSE)
  <2>1. PICK e \in Events(Head(toHost).batch) : TakenPart(Ahead(Head(toHost).batch, e), FALSE)
    BY <1>8
  <2>2. FALSE \in BOOLEAN
        /\ Ahead(Head(toHost).batch, e).controls \subseteq Head(toHost).batch.controls
    BY DEF Ahead
  <2> QED
    BY <1>6, <2>1, <2>2
<1> QED
  BY <1>1, <1>5, <1>7, <1>8

LEMMA HostReplayOrder == ASSUME Inv, OneAtATime, Inv', HostReplay PROVE OneAtATime'
BY HostReplayFacts, HostReplaySays, HostOrder

\* A command goes out after the grant, if at all: neither is an answer.
LEMMA HostWorkSays ==
    ASSUME Inv, HostWork
    PROVE  \E messages \in Seq(MessageType) :
              Told(messages) /\ \A m \in ToSet(messages) : m.kind \in {"grant", "work"}
<1>1. PICK task \in {"prompt", "resume"} :
         LET regranted == ~peer.observed \/ (task = "resume" /\ Rebound)
         IN  Told((IF regranted THEN <<GrantOf(hostEpoch)>> ELSE <<>>)
                  \o <<[kind |-> "work", task |-> task, epoch |-> hostEpoch]>>)
  BY DEF HostWork
<1>a. PICK work : work = [kind |-> "work", task |-> task, epoch |-> hostEpoch]
  OBVIOUS
<1>b. PICK grants : /\ grants = <<GrantOf(hostEpoch)>> \/ grants = <<>>
                    /\ Told(grants \o <<work>>)
  BY <1>1, <1>a
<1>2. hostEpoch \in Nat
  BY InvParts DEF HostType
<1>3. work \in MessageType /\ work.kind = "work"
  BY <1>a, <1>2 DEF MessageType, WorkType
<1>4. grants \in Seq(MessageType) /\ \A m \in ToSet(grants) : m.kind = "grant"
  <2>1. GrantOf(hostEpoch) \in MessageType /\ GrantOf(hostEpoch).kind = "grant"
    BY <1>2, GrantOfTyped
  <2>2. /\ <<GrantOf(hostEpoch)>> \in Seq(MessageType)
        /\ ToSet(<<GrantOf(hostEpoch)>>) = {GrantOf(hostEpoch)}
    BY <2>1, OneMessage
  <2>3. <<>> \in Seq(MessageType) /\ ToSet(<<>>) = {}
    BY EmptySeq, ToSetEmpty
  <2> QED
    BY <1>b, <2>1, <2>2, <2>3
<1>5. /\ grants \o <<work>> \in Seq(MessageType)
      /\ ToSet(grants \o <<work>>) \subseteq ToSet(grants) \cup {work}
  BY <1>3, <1>4, OneMessage, ConcatProperties, ToSetConcat
<1>6. \A m \in ToSet(grants \o <<work>>) : m.kind \in {"grant", "work"}
  BY <1>3, <1>4, <1>5
<1> QED
  BY <1>b, <1>5, <1>6

LEMMA HostWorkOrder == ASSUME Inv, OneAtATime, Inv', HostWork PROVE OneAtATime'
<1>1. PICK messages \in Seq(MessageType) :
         Told(messages) /\ \A m \in ToSet(messages) : m.kind \in {"grant", "work"}
  BY HostWorkSays
<1>2. NothingNew /\ Behind(0)
  BY <1>1, InvParts, NoAnswers, ToldBehind DEF HostWork
<1> QED
  BY <1>2, HostOrder DEF HostWork

\* A resync is asked for with no synchronization under way.
LEMMA RequestResyncOrder ==
    ASSUME ~Overlapping, Inv, OneAtATime, Inv', RequestResync PROVE OneAtATime'
<1>1. /\ ~console.joining /\ UNCHANGED <<console, live, toHost>>
      /\ \A r \in ToSet(toHost) : r.flow # "sync"
      /\ \A m \in ToSet(toNode) : m.kind = "answer" => m.request.flow # "sync"
  BY DEF RequestResync, Synchronizing
<1>2. toNode' = Append(toNode, [kind |-> "resync"]) /\ toNode \in Seq(MessageType)
  <2>1. [kind |-> "resync"] \in MessageType
    BY DEF MessageType
  <2>2. toNode' = toNode \o <<[kind |-> "resync"]>> /\ toNode \in Seq(MessageType)
    BY InvParts DEF RequestResync, Told, WireType
  <2> QED
    BY <2>1, <2>2, AppendIsConcat
<1>3. /\ Len(toNode) \in Nat /\ Len(toNode') = Len(toNode) + 1
      /\ \A i \in 1..Len(toNode) : toNode'[i] = toNode[i] /\ toNode[i] \in ToSet(toNode)
      /\ toNode'[Len(toNode) + 1].kind = "resync"
  BY <1>2 DEF ToSet
<1>4. ASSUME NEW q \in 1..Len(toNode'), toNode'[q].kind = "answer"
      PROVE  toNode'[q] \in ToSet(toNode)
  <2>1. q \in 1..Len(toNode) \/ q = Len(toNode) + 1
    BY <1>3
  <2> QED
    BY <1>3, <1>4, <2>1
<1>5. ResyncComesFirst'
  BY <1>1, <1>4 DEF ResyncComesFirst, Settling
<1>6. GenerationsPass'
  <2>1. \A m \in ToSet(toNode') : m.kind = "answer" => m \in ToSet(toNode)
    <3> SUFFICES ASSUME NEW m \in ToSet(toNode'), m.kind = "answer" PROVE m \in ToSet(toNode)
      OBVIOUS
    <3>1. PICK q \in 1..Len(toNode') : m = toNode'[q]
      BY DEF ToSet
    <3> QED
      BY <1>4, <3>1
  <2> QED
    BY <1>1, <2>1 DEF OneAtATime, GenerationsPass
<1>7. JoinsAlone'
  BY <1>1 DEF JoinsAlone
<1> QED
  BY <1>5, <1>6, <1>7 DEF OneAtATime

LEMMA NextOrder ==
    ASSUME ConsoleBounds, ~Overlapping, Inv, OneAtATime, Inv', [Next]_vars PROVE OneAtATime'
<1>1. CASE UNCHANGED vars
  <2>1. UNCHANGED <<console, live, toHost, toNode>>
    BY <1>1 DEF vars
  <2>2. Behind(0)
    BY <2>1, InvParts, NotMoved
  <2> QED
    BY <2>1, <2>2, GenTyped, QuietOrder DEF ConsoleHolds
<1>2. CASE Emit \/ TurnEnds \/ AgentEnds \/ LocalPrompt \/ CancelQueued
  BY <1>2, LocalOrder
<1>3. CASE NodeStep
  <2>1. CASE NodeReads
    BY <2>1, ReadingOrder, HandleGrantsOrder, HandleReplayedOrder, HandleSynchronizedOrder,
       HandleResyncOrder DEF NodeReads
  <2> QED
    BY <1>3, <2>1, LocalOrder, PumpLiveOrder, AckWriteOrder, InitializeOrder DEF NodeStep
<1>4. CASE RequestTimesOut \/ Connect \/ Break \/ NodeCrash
  BY <1>4, RequestTimesOutOrder, ConnectOrder, PartingOrder
<1>5. CASE HostStep \/ HostWork \/ RequestResync
  BY <1>5, HostInitializeOrder, HostReplayOrder, HostSynchronizedOrder, HostWorkOrder,
     RequestResyncOrder DEF HostStep
<1> QED
  BY <1>1, <1>2, <1>3, <1>4, <1>5 DEF Next

-----------------------------------------------------------------------------
(* What the Host has stored                                                *)

Event(i) == [seq |-> i, id |-> journal[i]]

LEMMA PrefixSize == ASSUME NEW n \in Nat PROVE Cardinality(PrefixOf(n)) = n
<1> DEFINE f == [i \in 1..n |-> Event(i)]
<1>1. f \in Bijection(1..n, PrefixOf(n))
  <2>1. f \in Injection(1..n, PrefixOf(n))
    BY DEF Injection, IsInjective, PrefixOf, Event
  <2>2. f \in Surjection(1..n, PrefixOf(n))
    BY DEF Surjection, PrefixOf, Event
  <2> QED
    BY <2>1, <2>2 DEF Bijection
<1>2. IsFiniteSet(1..n) /\ Cardinality(1..n) = n
  BY FS_Interval
<1> QED
  BY <1>1, <1>2, FS_Bijection DEF ExistsBijection

LEMMA EventsOfSegment ==
    ASSUME NEW batch \in BatchType, Segment(journal, batch)
    PROVE  Events(batch) = {Event(i) : i \in (batch.from + 1)..batch.through}
<1>a. PICK from, through, ids :
         from = batch.from /\ through = batch.through /\ ids = batch.ids
  OBVIOUS
<1>1. /\ from \in Nat /\ through \in Nat /\ from <= through /\ ids \in Seq(Nat)
      /\ Len(ids) = through - from
      /\ \A i \in 1..Len(ids) : ids[i] = journal[from + i]
  BY <1>a DEF BatchType, Segment
<1>2. DOMAIN ids = 1..(through - from)
  BY <1>1
<1>3. Events(batch) = {[seq |-> from + i, id |-> ids[i]] : i \in 1..(through - from)}
  BY <1>a, <1>2 DEF Events
<1>4. \A i \in 1..(through - from) :
         /\ from + i \in (from + 1)..through
         /\ [seq |-> from + i, id |-> ids[i]] = Event(from + i)
  BY <1>1, <1>2 DEF Event
<1>5. \A k \in (from + 1)..through : k - from \in 1..(through - from) /\ from + (k - from) = k
  BY <1>1
<1>6. Events(batch) = {Event(k) : k \in (from + 1)..through}
  <2>1. ASSUME NEW e \in Events(batch) PROVE e \in {Event(k) : k \in (from + 1)..through}
    BY <1>3, <1>4
  <2>2. ASSUME NEW k \in (from + 1)..through PROVE Event(k) \in Events(batch)
    <3>1. PICK i \in 1..(through - from) : from + i = k
      BY <1>5
    <3> QED
      BY <1>3, <1>4, <3>1
  <2> QED
    BY <2>1, <2>2
<1> QED
  BY <1>a, <1>6

\* Events that follow what the Host has, or that it has, make a longer prefix.
LEMMA StoredGrows ==
    ASSUME Inv, StoredIsPrefix, UNCHANGED journal,
           NEW from \in Nat, NEW to \in Nat, from <= Have, to <= Water,
           stored' = stored \cup {Event(i) : i \in (from + 1)..to}
    PROVE  StoredIsPrefix' /\ Have <= Have' /\ to <= Have'
<1>a. PICK have : have = Have
  OBVIOUS
<1>b. PICK m : m = IF to > have THEN to ELSE have
  OBVIOUS
<1>1. have \in Nat /\ Water \in Nat /\ have <= Water /\ stored = PrefixOf(have)
  BY <1>a, InvParts DEF StoredIsPrefix
<1>2. m \in Nat /\ m <= Water /\ have <= m /\ to <= m
  BY <1>1, <1>b
<1>3. 1..m = (1..have) \cup ((from + 1)..to)
  BY <1>a, <1>b, <1>1
<1>4. stored' = PrefixOf(m)
  BY <1>1, <1>3 DEF PrefixOf, Event
<1>5. Have' = m
  BY <1>2, <1>4, PrefixSize DEF Have
<1>6. StoredIsPrefix'
  <2>1. PrefixOf(m)' = PrefixOf(m) /\ Water' = Water
    BY DEF PrefixOf, Water
  <2>2. stored' = {[seq |-> i, id |-> journal'[i]] : i \in 1..m}
    BY <1>4 DEF PrefixOf
  <2> QED
    BY <1>2, <1>5, <2>1, <2>2 DEF StoredIsPrefix, PrefixOf
<1> QED
  BY <1>a, <1>2, <1>5, <1>6

LEMMA StoredStays ==
    ASSUME Inv, StoredIsPrefix, Grows, UNCHANGED stored
    PROVE  StoredIsPrefix' /\ Have' = Have
<1>1. Have' = Have
  BY DEF Have
<1>2. \A i \in 1..Have : i \in 1..Water
  BY InvParts DEF StoredIsPrefix
<1>3. stored = {[seq |-> i, id |-> journal'[i]] : i \in 1..Have}
  BY <1>2 DEF StoredIsPrefix, PrefixOf, Grows
<1>4. Have <= Water'
  <2> DEFINE later == Water'
  <2>1. later \in Int /\ Water <= later /\ Water \in Nat /\ Have \in Nat /\ Have <= Water
    BY InvParts, LenProperties DEF Grows, Water, StoredIsPrefix
  <2> HIDE DEF later
  <2>2. Have <= later
    BY <2>1
  <2> QED
    BY <2>2 DEF later
<1> QED
  BY <1>1, <1>3, <1>4 DEF StoredIsPrefix, PrefixOf

-----------------------------------------------------------------------------
(* Gaps                                                                    *)

LEMMA ReachedNow == ASSUME NEW queue, NEW have, NEW failed, NEW f, NEW i, f <= have
                    PROVE  Reached(queue, have, failed, f, i)
BY DEF Reached

\* What is appended matters to nothing ahead of it.
LEMMA ReachedAhead ==
    ASSUME NEW queue \in Seq(RequestType), NEW r \in RequestType,
           NEW have, NEW failed, NEW f, NEW i \in 1..(Len(queue) + 1),
           Reached(queue, have, failed, f, i)
    PROVE  Reached(Append(queue, r), have, failed, f, i)
<1>1. /\ Len(queue) \in Nat
      /\ \A k \in 1..(i - 1) : Append(queue, r)[k] = queue[k]
  OBVIOUS
<1>2. \A j \in 1..(i - 1) : \A k \in (j + 1)..(i - 1) : k \in 1..(i - 1)
  BY <1>1
<1> QED
  BY <1>1, <1>2 DEF Reached

\* Behind a request that begins nothing anew, all is as ahead of it.
LEMMA ReachedBehind ==
    ASSUME NEW queue \in Seq(RequestType), NEW r \in RequestType, r.kind # "initialize",
           NEW have, NEW failed, NEW f, Reached(queue, have, failed, f, Len(queue) + 1)
    PROVE  Reached(Append(queue, r), have, failed, f, Len(queue) + 2)
<1>a. PICK more, n : more = Append(queue, r) /\ n = Len(queue)
  OBVIOUS
<1>1. /\ n \in Nat /\ more[n + 1] = r
      /\ \A k \in 1..n : more[k] = queue[k]
      /\ (n + 1) - 1 = n /\ (n + 2) - 1 = n + 1
      /\ \A j \in 1..n : \A k \in (j + 1)..(n + 1) : k \in (j + 1)..n \/ k = n + 1
      /\ \A j \in 1..n : \A k \in (j + 1)..n : k \in 1..n
      /\ \A k \in 1..(n + 1) : k \in 1..n \/ k = n + 1
      /\ \A j \in 1..n : j \in 1..(n + 1)
  BY <1>a
<1>2. Reached(queue, have, failed, f, n + 1)
  BY <1>a
<1>3. Reached(more, have, failed, f, n + 2)
  <2>1. CASE f <= have
    BY <2>1 DEF Reached
  <2>2. ASSUME NEW j \in 1..n, queue[j].kind = "replay", queue[j].batch.through >= f,
               \A k \in (j + 1)..n : queue[k].kind # "initialize"
        PROVE  Reached(more, have, failed, f, n + 2)
    <3>1. /\ j \in 1..(n + 1) /\ more[j].kind = "replay" /\ more[j].batch.through >= f
          /\ \A k \in (j + 1)..(n + 1) : more[k].kind # "initialize"
      BY <1>1, <2>2
    <3> QED
      BY <1>1, <3>1 DEF Reached
  <2>3. CASE failed /\ \A k \in 1..n : queue[k].kind # "initialize"
    <3>1. failed /\ \A k \in 1..(n + 1) : more[k].kind # "initialize"
      BY <1>1, <2>3
    <3> QED
      BY <1>1, <3>1 DEF Reached
  <2> QED
    BY <1>1, <1>2, <2>1, <2>2, <2>3 DEF Reached
<1> QED
  BY <1>a, <1>3

\* Behind a batch, what it brings is there.
LEMMA ReachedByLast ==
    ASSUME NEW queue \in Seq(RequestType), NEW r \in RequestType, r.kind = "replay",
           NEW have, NEW failed
    PROVE  Reached(Append(queue, r), have, failed, r.batch.through, Len(queue) + 2)
<1>a. PICK more, n : more = Append(queue, r) /\ n = Len(queue)
  OBVIOUS
<1>1. /\ n \in Nat /\ more[n + 1] = r /\ (n + 2) - 1 = n + 1
      /\ n + 1 \in 1..(n + 1) /\ ((n + 1) + 1)..(n + 1) = {}
      /\ r.batch.through >= r.batch.through
  BY <1>a DEF RequestType, BatchType
<1>2. Reached(more, have, failed, r.batch.through, n + 2)
  BY <1>1 DEF Reached
<1> QED
  BY <1>a, <1>2

\* When the head of the queue has been read, the rest is one place nearer.
LEMMA ReachedNearer ==
    ASSUME NEW queue \in Seq(RequestType), queue # <<>>,
           NEW have \in Nat, NEW more \in Nat, have <= more, NEW failed, NEW fails, NEW f \in Int,
           Head(queue).kind = "replay" => Head(queue).batch.through <= more \/ fails,
           failed /\ Head(queue).kind # "initialize" => fails,
           NEW i \in 1..Len(queue), Reached(queue, have, failed, f, i + 1)
    PROVE  Reached(Tail(queue), more, fails, f, i)
<1>a. PICK rest, head : rest = Tail(queue) /\ head = Head(queue)
  OBVIOUS
<1>1. /\ Len(queue) \in Nat /\ i \in Nat /\ (i + 1) - 1 = i
      /\ head = queue[1] /\ head \in RequestType
      /\ \A k \in 1..(i - 1) : rest[k] = queue[k + 1] /\ k + 1 \in 1..i
      /\ \A k \in 2..i : k - 1 \in 1..(i - 1) /\ (k - 1) + 1 = k
      /\ \A j \in 2..i : \A k \in ((j - 1) + 1)..(i - 1) :
            k + 1 \in (j + 1)..i /\ k \in 1..(i - 1)
      /\ \A k \in 1..(i - 1) : k + 1 \in 2..i
      /\ \A j \in 1..i : j = 1 \/ j \in 2..i
      /\ 1 \in 1..i
  BY <1>a
<1>2. CASE f <= have
  BY <1>2 DEF Reached
<1>3. ASSUME fails, \A k \in 2..i : queue[k].kind # "initialize"
      PROVE  Reached(rest, more, fails, f, i)
  <2>1. \A k \in 1..(i - 1) : rest[k].kind # "initialize"
    BY <1>1, <1>3
  <2> QED
    BY <1>3, <2>1 DEF Reached
<1>4. ASSUME NEW j \in 1..i, queue[j].kind = "replay", queue[j].batch.through >= f,
             \A k \in (j + 1)..i : queue[k].kind # "initialize"
      PROVE  Reached(rest, more, fails, f, i)
  <2>1. CASE j = 1
    <3>1. head.batch.through \in Nat /\ head.batch.through >= f
      BY <1>1, <1>4, <2>1 DEF RequestType, BatchType
    <3>2. CASE head.batch.through <= more
      <4>a. PICK through : through = head.batch.through
        OBVIOUS
      <4>1. f <= more
        BY <3>1, <3>2, <4>a
      <4> QED
        BY <4>1 DEF Reached
    <3>3. CASE fails
      <4>1. \A k \in 2..i : k \in (j + 1)..i
        BY <1>1, <2>1
      <4>2. \A k \in 2..i : queue[k].kind # "initialize"
        BY <1>4, <4>1
      <4> QED
        BY <1>3, <3>3, <4>2
    <3> QED
      BY <1>a, <1>1, <1>4, <2>1, <3>2, <3>3
  <2>2. CASE j \in 2..i
    <3>a. PICK p : p = j - 1
      OBVIOUS
    <3>1. /\ p \in 1..(i - 1) /\ rest[p] = queue[j]
          /\ \A k \in (p + 1)..(i - 1) : k + 1 \in (j + 1)..i /\ k \in 1..(i - 1)
      BY <1>1, <2>2, <3>a
    <3>2. \A k \in (p + 1)..(i - 1) : rest[k].kind # "initialize"
      BY <1>1, <1>4, <3>1
    <3> QED
      BY <1>4, <3>1, <3>2 DEF Reached
  <2> QED
    BY <1>1, <2>1, <2>2
<1>5. CASE failed /\ \A k \in 1..i : queue[k].kind # "initialize"
  <2>1. fails /\ \A k \in 2..i : queue[k].kind # "initialize"
    BY <1>a, <1>1, <1>5
  <2> QED
    BY <1>a, <1>3, <2>1
<1>6. \/ f <= have
      \/ \E j \in 1..i : /\ queue[j].kind = "replay" /\ queue[j].batch.through >= f
                         /\ \A k \in (j + 1)..i : queue[k].kind # "initialize"
      \/ failed /\ \A k \in 1..i : queue[k].kind # "initialize"
  BY <1>1 DEF Reached
<1>7. Reached(rest, more, fails, f, i)
  BY <1>a, <1>2, <1>4, <1>5, <1>6
<1> QED
  BY <1>a, <1>7

-----------------------------------------------------------------------------
(* Each step keeps the history                                             *)

LEMMA InitHistory == ASSUME Init PROVE HistoryInv
<1>1. stored = PrefixOf(0) /\ 1..0 = {}
  BY DEF Init, PrefixOf
<1>2. Have = 0
  BY <1>1, PrefixSize DEF Have
<1>3. StoredIsPrefix
  BY <1>1, <1>2, EmptySeq DEF Init, StoredIsPrefix, Water
<1>4. AcksHold
  BY <1>2, ToSetEmpty DEF Init, AcksHold, NoLive, NoAck
<1>5. NoGap
  BY EmptySeq DEF Init, NoGap, NoLive
<1> QED
  BY <1>3, <1>4, <1>5 DEF HistoryInv

LEMMA HistoryParts ==
    ASSUME Inv, HistoryInv
    PROVE  /\ StoredIsPrefix /\ AcksHold /\ NoGap /\ Have \in Nat
           /\ acked \in Nat /\ acked <= Have /\ live.acks.through <= Have
           /\ toHost \in Seq(RequestType) /\ Len(toHost) \in Nat
           /\ live \in LiveRecords /\ live.sent \in Int /\ live.acks.through \in Int
BY InvParts, LenProperties DEF HistoryInv, StoredIsPrefix, AcksHold, JournalType, WireType,
   LiveType, LiveRecords, Unset

\* Acknowledgments stay good while the Host forgets nothing and says nothing new.
LEMMA AcksStay ==
    ASSUME Inv, HistoryInv, UNCHANGED stored,
           acked' <= Have, live'.acks.through <= Have,
           \A m \in ToSet(toNode') : m.kind = "answer" => m \in ToSet(toNode)
    PROVE  AcksHold'
<1>1. Have' = Have
  BY DEF Have
<1> QED
  BY <1>1 DEF HistoryInv, AcksHold

\* A step of the Node that asks nothing.
LEMMA SilentStep ==
    ASSUME Inv, HistoryInv, Grows, UNCHANGED <<stored, peer, toHost>>,
           acked' <= Have, live'.acks.through <= Have,
           \A m \in ToSet(toNode') : m.kind = "answer" => m \in ToSet(toNode),
           live'.sent = -1 \/ live'.sent = live.sent \/ live'.sent <= Have
    PROVE  HistoryInv'
<1>1. StoredIsPrefix' /\ Have' = Have
  BY StoredStays DEF HistoryInv
<1>2. AcksHold'
  BY AcksStay
<1>3. NoGap'
  <2>1. \A i \in 1..Len(toHost') : toHost'[i].kind = "replay" =>
           Reached(toHost', Have', peer'.failed, toHost'[i].batch.from, i)
    BY <1>1 DEF HistoryInv, NoGap
  <2>2. live'.sent # -1 => Reached(toHost', Have', peer'.failed, live'.sent, Len(toHost') + 1)
    <3>1. CASE live'.sent = live.sent
      BY <1>1, <3>1 DEF HistoryInv, NoGap
    <3>2. CASE live'.sent <= Have
      BY <1>1, <3>2, ReachedNow
    <3> QED
      BY <3>1, <3>2
  <2> QED
    BY <2>1, <2>2 DEF NoGap
<1> QED
  BY <1>1, <1>2, <1>3 DEF HistoryInv

\* One that asks something: a batch that follows what the Host has or will have, or
\* a beginning with the pump at rest.
LEMMA AskingStep ==
    ASSUME Inv, HistoryInv, Grows, UNCHANGED <<stored, peer>>,
           acked' <= Have, live'.acks.through <= Have,
           \A m \in ToSet(toNode') : m.kind = "answer" => m \in ToSet(toNode),
           NEW r \in RequestType, toHost' = Append(toHost, r),
           r.kind = "replay" => \/ r.batch.from <= Have
                                \/ live.sent # -1 /\ r.batch.from = live.sent,
           \/ live'.sent = -1 \/ live'.sent <= Have
           \/ live'.sent = live.sent /\ r.kind # "initialize"
           \/ r.kind = "replay" /\ live'.sent = r.batch.through
    PROVE  HistoryInv'
<1>1. StoredIsPrefix' /\ Have' = Have
  BY StoredStays DEF HistoryInv
<1>2. AcksHold'
  BY AcksStay
<1>a. PICK queue, failed : queue = toHost /\ failed = peer.failed
  OBVIOUS
<1>3. /\ queue \in Seq(RequestType) /\ Len(queue) \in Nat
      /\ toHost' = Append(queue, r) /\ Len(toHost') = Len(queue) + 1
      /\ Append(queue, r)[Len(queue) + 1] = r
      /\ \A i \in 1..Len(queue) : Append(queue, r)[i] = queue[i]
      /\ peer'.failed = failed
  BY <1>a, HistoryParts
<1>4. /\ \A i \in 1..Len(queue) : queue[i].kind = "replay" =>
            Reached(queue, Have, failed, queue[i].batch.from, i)
      /\ live.sent # -1 => Reached(queue, Have, failed, live.sent, Len(queue) + 1)
  BY <1>a DEF HistoryInv, NoGap
<1>5. ASSUME NEW i \in 1..(Len(queue) + 1), Append(queue, r)[i].kind = "replay"
      PROVE  Reached(Append(queue, r), Have, failed, Append(queue, r)[i].batch.from, i)
  <2>a. PICK f : f = Append(queue, r)[i].batch.from
    OBVIOUS
  <2>1. Reached(queue, Have, failed, f, i)
    <3>1. CASE i \in 1..Len(queue)
      BY <1>3, <1>4, <1>5, <2>a, <3>1
    <3>2. CASE i = Len(queue) + 1
      BY <1>3, <1>4, <1>5, <2>a, <3>2, ReachedNow
    <3> QED
      BY <1>3, <3>1, <3>2
  <2>2. Reached(Append(queue, r), Have, failed, f, i)
    BY <1>3, <2>1, ReachedAhead
  <2> QED
    BY <2>a, <2>2
<1>6. ASSUME live'.sent # -1
      PROVE  Reached(Append(queue, r), Have, failed, live'.sent, Len(queue) + 2)
  <2>1. CASE live'.sent <= Have
    BY <2>1, ReachedNow
  <2>2. CASE live'.sent = live.sent /\ r.kind # "initialize"
    BY <1>3, <1>4, <1>6, <2>2, ReachedBehind
  <2>3. CASE r.kind = "replay" /\ live'.sent = r.batch.through
    BY <1>3, <2>3, ReachedByLast
  <2> QED
    BY <1>6, <2>1, <2>2, <2>3
<1>7. NoGap'
  <2>1. (Len(queue) + 1) + 1 = Len(queue) + 2
    BY <1>3
  <2> QED
    BY <1>1, <1>3, <1>5, <1>6, <2>1 DEF NoGap
<1> QED
  BY <1>1, <1>2, <1>7 DEF HistoryInv

LEMMA QuietHistory ==
    ASSUME Inv, HistoryInv,
           \/ Emit \/ Flush \/ TurnEnds \/ AgentEnds \/ LocalPrompt \/ Invoke
           \/ CancelQueued \/ PumpLocal \/ ReceiveWork \/ AdmitWork
    PROVE  HistoryInv'
<1>1. LiveKept /\ Grows /\ UNCHANGED <<acked, toHost, stored, peer>>
  BY LocalFacts
<1>2. ToSet(toNode') \subseteq ToSet(toNode)
  <2>1. CASE ReceiveWork
    BY <2>1, Reads DEF ReceiveWork
  <2>2. CASE UNCHANGED toNode
    BY <2>2
  <2> QED
    BY <2>1, <2>2 DEF Emit, Flush, TurnEnds, AgentEnds, LocalPrompt, Invoke, CancelQueued,
                      PumpLocal, AdmitWork
<1>3. acked' <= Have /\ live'.acks.through <= Have
  BY <1>1, HistoryParts DEF LiveKept
<1> QED
  BY <1>1, <1>2, <1>3, SilentStep DEF LiveKept

LEMMA AckWriteHistory == ASSUME Inv, HistoryInv, AckWrite PROVE HistoryInv'
<1>1. acked' <= Have
  <2>1. /\ acked \in Int /\ live.acks.through \in Int /\ acked <= Have
        /\ live.acks.through <= Have
    BY HistoryParts
  <2>2. acked' = IF acked >= live.acks.through THEN acked ELSE live.acks.through
    BY <2>1, GreaterOfTwo DEF AckWrite
  <2> QED
    BY <2>1, <2>2
<1>2. live'.sent = live.sent /\ live'.acks.through <= Have
  <2>1. live'.sent = live.sent /\ live'.acks.through = -1
    BY HistoryParts DEF AckWrite, NoAck, LiveRecords
  <2> QED
    BY <2>1, HistoryParts
<1>3. Grows
  BY KeptWater DEF AckWrite
<1> QED
  BY <1>1, <1>2, <1>3, SilentStep DEF AckWrite, hostVars

\* A pump that is reset has sent nothing and owes no acknowledgment.
LEMMA AtRest ==
    ASSUME Inv, HistoryInv, live' = NoLive \/ live' = live \/ live' = FencedLive
    PROVE  /\ live'.sent = -1 \/ live'.sent = live.sent
           /\ live'.acks.through <= Have
<1>1. live' = NoLive \/ live' = live
  BY DEF FencedLive
<1>2. CASE live' = NoLive
  <2>1. live'.acks.through = -1 /\ live'.sent = -1
    BY <1>2, NoLiveTyped
  <2> QED
    BY <2>1, HistoryParts
<1>3. CASE live' = live
  BY <1>3, HistoryParts
<1> QED
  BY <1>1, <1>2, <1>3

LEMMA ReadingHistory ==
    ASSUME Inv, HistoryInv,
           IgnoreAnswer \/ HandleGrant \/ HandleRefusal \/ HandleSynchronized \/ HandleResync
    PROVE  HistoryInv'
<1>1. /\ toNode # <<>> /\ toNode' = Tail(toNode)
      /\ UNCHANGED <<acked, toHost, stored, peer>>
  BY DEF IgnoreAnswer, HandleGrant, HandleRefusal, HandleSynchronized, HandleResync, Answered,
         journalVars, hostVars
<1>2. Grows
  BY KeptWater, CommitAll DEF IgnoreAnswer, HandleGrant, HandleRefusal, HandleSynchronized,
                              HandleResync, journalVars
<1>3. (live'.sent = -1 \/ live'.sent = live.sent) /\ live'.acks.through <= Have
  <2>1. CASE HandleGrant
    BY <2>1, HistoryParts DEF HandleGrant, Marked, LiveRecords
  <2>2. CASE live' = NoLive \/ live' = live \/ live' = FencedLive
    BY <2>2, AtRest
  <2> QED
    BY <2>1, <2>2 DEF IgnoreAnswer, HandleRefusal, HandleSynchronized, HandleResync
<1>4. acked' <= Have
  BY <1>1, HistoryParts
<1> QED
  BY <1>1, <1>2, <1>3, <1>4, Reads, SilentStep

\* An answer that a batch is in: the Host has what it brought.
LEMMA AnswerHolds ==
    ASSUME Inv, HistoryInv, NEW flow, Answered("replay", flow), Head(toNode).ok
    PROVE  /\ Head(toNode).request.batch.through \in Nat
           /\ Head(toNode).request.batch.through <= Have
<1>1. Head(toNode).request \in RequestType /\ Head(toNode) \in ToSet(toNode)
      /\ Head(toNode).kind = "answer" /\ Head(toNode).request.kind = "replay"
  BY AnswerRead
<1> QED
  BY <1>1 DEF RequestType, BatchType, HistoryInv, AcksHold

LEMMA HandleLiveHistory == ASSUME Inv, HistoryInv, HandleLive PROVE HistoryInv'
<1>1. /\ toNode # <<>> /\ toNode' = Tail(toNode)
      /\ UNCHANGED <<acked, journal, toHost, stored, peer>>
  BY DEF HandleLive, Answered, journalVars, hostVars
<1>2. live'.sent = live.sent /\ live'.acks.through <= Have
  <2>1. CASE Head(toNode).request.gen # console.gen
    BY <2>1, HistoryParts DEF HandleLive
  <2>2. CASE Head(toNode).request.gen = console.gen
    <3>a. PICK through, at :
             /\ through = Max({live.acks.through, Head(toNode).request.batch.through})
             /\ at = Max({live.acks.epoch} \cup Epochs(Head(toNode).request.batch.controls))
      OBVIOUS
    <3>1. live' = [live EXCEPT !.inFlight = live.inFlight - 1,
                               !.acks = [through |-> through, epoch |-> at]]
      BY <2>2, <3>a, HistoryParts DEF HandleLive, LiveRecords
    <3>b. PICK new : new = Head(toNode).request.batch.through
      OBVIOUS
    <3>2. new \in Int /\ new <= Have /\ live.acks.through \in Int /\ live.acks.through <= Have
      BY <3>b, AnswerHolds, HistoryParts DEF HandleLive
    <3>3. through = IF live.acks.through >= new THEN live.acks.through ELSE new
      BY <3>a, <3>b, <3>2, GreaterOfTwo
    <3>4. through <= Have
      BY <3>2, <3>3
    <3> QED
      BY <3>1, <3>4, HistoryParts DEF LiveRecords
  <2> QED
    BY <2>1, <2>2
<1>3. Grows
  BY <1>1, KeptWater
<1>4. acked' <= Have
  BY <1>1, HistoryParts
<1> QED
  BY <1>1, <1>2, <1>3, <1>4, Reads, SilentStep

LEMMA RequestTimesOutHistory == ASSUME Inv, HistoryInv, RequestTimesOut PROVE HistoryInv'
<1>1. (live'.sent = -1 \/ live'.sent = live.sent) /\ live'.acks.through <= Have
  BY AtRest DEF RequestTimesOut
<1>2. Grows /\ UNCHANGED <<acked, toHost, toNode, stored, peer>>
  BY KeptWater DEF RequestTimesOut, journalVars, hostVars
<1>3. acked' <= Have
  BY <1>2, HistoryParts
<1> QED
  BY <1>1, <1>2, <1>3, SilentStep

\* A batch of the live pump follows what it has sent.
LEMMA PumpLiveHistory == ASSUME ConsoleBounds, Inv, HistoryInv, PumpLive PROVE HistoryInv'
<1>1. Grows /\ UNCHANGED <<acked, toNode, stored, peer>>
  BY KeptWater DEF PumpLive, journalVars, hostVars
<1>2. acked' <= Have
  BY <1>1, HistoryParts
<1>3. CASE UNCHANGED toHost /\ live'.sent = live.sent /\ live'.acks = live.acks
  BY <1>1, <1>2, <1>3, HistoryParts, SilentStep
<1>4. ASSUME NEW r \in RequestType, toHost' = Append(toHost, r),
             r.kind = "replay", r.batch.from = SentThrough,
             live'.sent = r.batch.through, live'.acks = live.acks
      PROVE  HistoryInv'
  <2>1. r.batch.from <= Have \/ (live.sent # -1 /\ r.batch.from = live.sent)
    BY <1>4, HistoryParts DEF SentThrough
  <2> QED
    BY <1>1, <1>2, <1>4, <2>1, HistoryParts, AskingStep
<1> QED
  BY <1>3, <1>4, PumpLiveFacts

\* A synchronization begins with the pump at rest.
LEMMA InitializeHistory ==
    ASSUME Inv, OneAtATime, HistoryInv, Initialize PROVE HistoryInv'
<1>a. PICK r : r = [Ask("initialize", "sync", Nothing, {}, 0) EXCEPT
                      !.owed = agent.alive \/ FlushedWater > acked \/ epoch > ackedEpoch]
  OBVIOUS
<1>1. toHost' = Append(toHost, r) /\ r.kind = "initialize"
  BY <1>a DEF Initialize, Ask
<1>2. r \in RequestType
  <2>1. (agent.alive \/ FlushedWater > acked \/ epoch > ackedEpoch) \in BOOLEAN
    OBVIOUS
  <2>2. Nothing \in BatchType /\ console.gen \in Nat
    BY InvParts, GenTyped, NoneIsSeq, NothingIsSegment
  <2> QED
    BY <1>a, <2>1, <2>2, NoControls DEF Ask, RequestType
<1>3. live'.sent = -1 /\ live'.acks = live.acks
  <2>1. live.sent = -1
    BY DEF Initialize, OneAtATime, JoinsAlone
  <2>2. live' = Wants(live, buffered # <<>>)
    BY DEF Initialize
  <2> QED
    BY <2>1, <2>2, HistoryParts DEF Wants, LiveRecords
<1>4. Grows /\ UNCHANGED <<acked, toNode, stored, peer>>
  BY CommitAll DEF Initialize, hostVars
<1>5. acked' <= Have /\ live'.acks.through <= Have
  BY <1>3, <1>4, HistoryParts
<1> QED
  BY <1>1, <1>2, <1>3, <1>4, <1>5, AskingStep

\* A synchronization goes on from what the Host has.
LEMMA AsksOnHistory ==
    ASSUME Inv, HistoryInv, Grows, UNCHANGED <<stored, peer>>,
           acked' <= Have, live'.acks.through <= Have,
           ToSet(toNode') \subseteq ToSet(toNode),
           NEW at, at <= Have, NEW gen, AsksOn(at, gen),
           live'.sent = live.sent \/ live'.sent <= Have
    PROVE  HistoryInv'
<1>1. CASE UNCHANGED toHost
  BY <1>1, SilentStep
<1>2. ASSUME NEW r \in RequestType, toHost' = Append(toHost, r),
             r.kind \in {"replay", "synchronized"}, r.kind = "replay" => r.batch.from = at
      PROVE  HistoryInv'
  <2>1. r.kind # "initialize"
    BY <1>2
  <2> QED
    BY <1>2, <2>1, AskingStep
<1> QED
  BY <1>1, <1>2 DEF AsksOn

LEMMA HandleGrantsHistory ==
    ASSUME ConsoleBounds, Inv, HistoryInv, HandleGrants PROVE HistoryInv'
<1>1. /\ Grows /\ UNCHANGED <<acked, stored, peer>>
      /\ live'.acks = live.acks /\ live'.sent \in {live.sent, acked}
      /\ AsksOn(acked, console.gen)
  BY HandleGrantsFacts
<1>2. ToSet(toNode') \subseteq ToSet(toNode)
  BY AnswerRead DEF HandleGrants
<1>3. acked' <= Have /\ live'.acks.through <= Have /\ acked <= Have
      /\ (live'.sent = live.sent \/ live'.sent <= Have)
  BY <1>1, HistoryParts
<1> QED
  BY <1>1, <1>2, <1>3, AsksOnHistory

LEMMA HandleReplayedHistory ==
    ASSUME ConsoleBounds, Inv, HistoryInv, HandleReplayed PROVE HistoryInv'
<1>1. /\ Grows /\ UNCHANGED <<stored, peer>>
      /\ acked' \in {acked, Head(toNode).request.batch.through}
      /\ live'.acks = live.acks /\ live'.sent \in {live.sent, acked'}
      /\ AsksOn(Head(toNode).request.batch.through, Head(toNode).request.gen)
  BY HandleReplayedFacts
<1>2. ToSet(toNode') \subseteq ToSet(toNode)
  BY AnswerRead DEF HandleReplayed
<1>3. Head(toNode).request.batch.through <= Have
  BY AnswerHolds DEF HandleReplayed
<1>4. acked' <= Have /\ live'.acks.through <= Have
      /\ (live'.sent = live.sent \/ live'.sent <= Have)
  BY <1>1, <1>3, HistoryParts
<1> QED
  BY <1>1, <1>2, <1>3, <1>4, AsksOnHistory

LEMMA ConnectHistory == ASSUME Inv, HistoryInv, Connect PROVE HistoryInv'
<1>1. /\ toHost' = <<>> /\ toNode' = <<>> /\ Len(toHost') = 0 /\ ToSet(toNode') = {}
      /\ live' = NoLive /\ UNCHANGED <<acked, stored>> /\ Grows
  BY EmptySeq, ToSetEmpty, KeptWater DEF Connect, journalVars
<1>2. live'.sent = -1 /\ live'.acks.through <= Have /\ acked' <= Have
  BY <1>1, AtRest, NoLiveTyped, HistoryParts
<1>3. StoredIsPrefix' /\ Have' = Have
  BY <1>1, StoredStays DEF HistoryInv
<1>4. AcksHold'
  BY <1>1, <1>2, AcksStay
<1>5. NoGap'
  BY <1>1, <1>2 DEF NoGap
<1> QED
  BY <1>3, <1>4, <1>5 DEF HistoryInv

LEMMA PartingHistory == ASSUME Inv, HistoryInv, Break \/ NodeCrash PROVE HistoryInv'
<1>1. /\ toNode' = <<>> /\ ToSet(toNode') = {} /\ live' = NoLive
      /\ UNCHANGED <<acked, toHost, stored, peer>> /\ Grows
  BY ToSetEmpty, KeptWater DEF Break, NodeCrash, journalVars, hostVars
<1>2. live'.sent = -1 /\ live'.acks.through <= Have /\ acked' <= Have
  BY <1>1, AtRest, NoLiveTyped, HistoryParts
<1> QED
  BY <1>1, <1>2, SilentStep

\* What the Host reads leaves no gap behind it.
LEMMA HostReadsHistory ==
    ASSUME Inv, HistoryInv, toHost # <<>>, Consumed, UNCHANGED <<acked, live>>,
           StoredIsPrefix', Have <= Have',
           Head(toHost).kind = "replay" =>
              Head(toHost).batch.through <= Have' \/ peer'.failed,
           peer.failed /\ Head(toHost).kind # "initialize" => peer'.failed,
           \A m \in ToSet(toNode') :
              \/ m \in ToSet(toNode) \/ m.kind # "answer" \/ ~m.ok
              \/ m.request.kind # "replay" \/ m.request.batch.through <= Have'
    PROVE  HistoryInv'
<1>a. PICK queue, rest, have, more, failed, fails :
         /\ queue = toHost /\ rest = toHost' /\ have = Have /\ more = Have'
         /\ failed = peer.failed /\ fails = peer'.failed
  OBVIOUS
<1>1. /\ queue \in Seq(RequestType) /\ queue # <<>> /\ rest = Tail(queue)
      /\ Len(queue) \in Nat /\ Len(queue) # 0 /\ Len(rest) = Len(queue) - 1
      /\ \A i \in 1..(Len(queue) - 1) : rest[i] = queue[i + 1]
      /\ have \in Nat /\ more \in Nat /\ have <= more
      /\ (Head(queue).kind = "replay" => Head(queue).batch.through <= more \/ fails)
      /\ (failed /\ Head(queue).kind # "initialize" => fails)
  BY <1>a, HistoryParts DEF Consumed, StoredIsPrefix
<1>2. /\ \A i \in 1..Len(queue) : queue[i].kind = "replay" =>
            Reached(queue, have, failed, queue[i].batch.from, i)
      /\ live.sent # -1 => Reached(queue, have, failed, live.sent, Len(queue) + 1)
  BY <1>a DEF HistoryInv, NoGap
<1>3. ASSUME NEW i \in 1..Len(rest), rest[i].kind = "replay"
      PROVE  Reached(rest, more, fails, rest[i].batch.from, i)
  <2>a. PICK f : f = rest[i].batch.from
    OBVIOUS
  <2>1. i \in 1..Len(queue) /\ i + 1 \in 1..Len(queue) /\ rest[i] = queue[i + 1]
    BY <1>1
  <2>2. queue[i + 1] \in RequestType
    BY <1>1, <2>1, ElementOfSeq
  <2>3. f \in Int
    BY <2>a, <2>1, <2>2 DEF RequestType, BatchType
  <2>4. Reached(queue, have, failed, f, i + 1)
    BY <1>2, <1>3, <2>a, <2>1
  <2>5. Reached(Tail(queue), more, fails, f, i)
    BY <1>1, <2>1, <2>3, <2>4, ReachedNearer
  <2> QED
    BY <1>1, <2>a, <2>5
<1>4. ASSUME live.sent # -1
      PROVE  Reached(rest, more, fails, live.sent, Len(rest) + 1)
  <2>a. PICK f, n : f = live.sent /\ n = Len(queue)
    OBVIOUS
  <2>1. f \in Int /\ n \in 1..Len(queue) /\ Len(rest) + 1 = n
    BY <1>1, <2>a, HistoryParts
  <2>2. Reached(queue, have, failed, f, n + 1)
    BY <1>2, <1>4, <2>a
  <2>3. Reached(Tail(queue), more, fails, f, n)
    BY <1>1, <2>1, <2>2, ReachedNearer
  <2> QED
    BY <1>1, <2>a, <2>1, <2>3
<1>5. NoGap'
  <2>1. \A i \in 1..Len(rest) : rest[i].kind = "replay" =>
           Reached(rest, more, fails, rest[i].batch.from, i)
    BY <1>3
  <2>2. live'.sent # -1 => Reached(rest, more, fails, live'.sent, Len(rest) + 1)
    BY <1>4
  <2> QED
    BY <1>a, <2>1, <2>2 DEF NoGap
<1>6. AcksHold'
  <2>1. acked' <= more /\ live'.acks.through <= more
    BY <1>a, <1>1, HistoryParts
  <2>2. ASSUME NEW m \in ToSet(toNode'), m.kind = "answer", m.request.kind = "replay", m.ok
        PROVE  m.request.batch.through <= more
    <3>1. CASE m \in ToSet(toNode)
      <4>a. PICK through : through = m.request.batch.through
        OBVIOUS
      <4>1. m \in MessageType
        BY <3>1, InvParts, ToSetMember DEF WireType
      <4>2. through \in Nat
        BY <2>2, <4>a, <4>1 DEF MessageType, AnswerType, GrantType, WorkType, RequestType,
                               BatchType
      <4>3. through <= have
        BY <1>a, <2>2, <3>1, <4>a DEF HistoryInv, AcksHold
      <4> QED
        BY <1>1, <4>a, <4>2, <4>3
    <3>2. CASE m.request.batch.through <= Have'
      BY <1>a, <3>2
    <3> QED
      BY <2>2, <3>1, <3>2
  <2>3. acked' <= Have' /\ live'.acks.through <= Have'
    BY <1>a, <2>1
  <2>4. \A m \in ToSet(toNode') :
           m.kind = "answer" /\ m.request.kind = "replay" /\ m.ok =>
              m.request.batch.through <= Have'
    BY <1>a, <2>2
  <2> QED
    BY <2>3, <2>4 DEF AcksHold
<1> QED
  BY <1>5, <1>6 DEF HistoryInv

\* What is said of a request is said of the one that was read.
LEMMA OneAnswer ==
    ASSUME Inv, NEW answer \in MessageType, Told(<<answer>>)
    PROVE  \A m \in ToSet(toNode') : m \in ToSet(toNode) \/ m = answer
<1>1. <<answer>> \in Seq(MessageType) /\ ToSet(<<answer>>) = {answer}
  BY OneMessage
<1> QED
  BY <1>1, InvParts, ToldTyped

LEMMA HostInitializeHistory == ASSUME Inv, HistoryInv, HostInitialize PROVE HistoryInv'
<1>a. PICK answer : answer = Answer(Head(toHost), TRUE)
  OBVIOUS
<1>1. /\ toHost # <<>> /\ Consumed /\ Told(<<answer>>) /\ Head(toHost).kind = "initialize"
      /\ UNCHANGED <<journal, acked, live, stored>>
  BY <1>a DEF HostInitialize, Receives, journalVars
<1>2. answer \in MessageType /\ answer.request = Head(toHost)
  BY <1>a, <1>1, InvParts, RequestRead, AnswerTyped
<1>3. \A m \in ToSet(toNode') : m \in ToSet(toNode) \/ m.request.kind # "replay"
  BY <1>1, <1>2, OneAnswer
<1>4. StoredIsPrefix' /\ Have' = Have /\ Have <= Have
  BY <1>1, KeptWater, StoredStays, HistoryParts
<1> QED
  BY <1>1, <1>3, <1>4, HostReadsHistory

LEMMA HostSynchronizedHistory == ASSUME Inv, HistoryInv, HostSynchronized PROVE HistoryInv'
<1> DEFINE request == Head(toHost)
           complete == /\ \A n \in 1..request.limit : \E e \in stored : e.seq >= n
                       /\ hostEpoch = request.epoch
<1>a. PICK ok : ok = (request.owed => complete)
  OBVIOUS
<1>b. PICK answer : answer = Answer(request, ok)
  OBVIOUS
<1>1. /\ toHost # <<>> /\ Consumed /\ Told(<<answer>>) /\ request.kind = "synchronized"
      /\ UNCHANGED <<journal, acked, live, stored>>
      /\ peer' = [peer EXCEPT !.syncing = FALSE] \/ peer' = peer
  BY <1>a, <1>b DEF HostSynchronized, Receives, journalVars
<1>2. answer \in MessageType /\ answer.request = Head(toHost)
  <2>1. ok \in BOOLEAN
    BY <1>a
  <2> QED
    BY <1>b, <1>1, <2>1, InvParts, RequestRead, AnswerTyped
<1>3. \A m \in ToSet(toNode') : m \in ToSet(toNode) \/ m.request.kind # "replay"
  BY <1>1, <1>2, OneAnswer
<1>4. StoredIsPrefix' /\ Have' = Have /\ Have <= Have
  BY <1>1, KeptWater, StoredStays, HistoryParts
<1>5. peer'.failed = peer.failed
  BY <1>1, InvParts DEF HostType
<1> QED
  BY <1>1, <1>3, <1>4, <1>5, HostReadsHistory

\* A batch follows what the Host has, so what it takes of it makes a longer prefix.
LEMMA HostReplayHistory == ASSUME Inv, HistoryInv, HostReplay PROVE HistoryInv'
<1>a. PICK request : request = Head(toHost)
  OBVIOUS
<1>b. PICK batch : batch = request.batch
  OBVIOUS
<1>1. /\ toHost # <<>> /\ Consumed /\ request.kind = "replay"
      /\ UNCHANGED <<journal, acked, live>>
  BY <1>a, HostReplayFacts
<1>2. /\ request \in RequestType /\ batch \in BatchType /\ Segment(journal, batch)
      /\ batch.from \in Nat /\ batch.through \in Nat /\ batch.from <= batch.through
      /\ batch.through <= Water /\ request = toHost[1] /\ 1 \in 1..Len(toHost)
  <2>1. request \in RequestType /\ RequestFine(request)
    BY <1>a, <1>1, InvParts, RequestRead
  <2>2. request = toHost[1] /\ 1 \in 1..Len(toHost)
    BY <1>a, <1>1, HistoryParts
  <2> QED
    BY <1>b, <2>1, <2>2 DEF RequestType, BatchType, RequestFine, Segment, Water
<1>3. ~peer.failed => batch.from <= Have
  <2>1. Reached(toHost, Have, peer.failed, batch.from, 1)
    BY <1>b, <1>1, <1>2, HistoryParts DEF NoGap
  <2>2. 1..(1 - 1) = {}
    OBVIOUS
  <2> QED
    BY <2>1, <2>2 DEF Reached
<1>4. Events(batch) = {Event(i) : i \in (batch.from + 1)..batch.through}
  BY <1>2, EventsOfSegment
<1>5. \A m \in ToSet(toNode') :
         \/ m \in ToSet(toNode) \/ m.kind # "answer" \/ ~m.ok
         \/ m.request = request /\ TakenPart(Whole(batch), TRUE)
  BY <1>a, <1>b, HostReplaySays
<1>6. ASSUME ~peer.failed, NEW to \in Nat, to <= Water,
             stored' = stored \cup {Event(i) : i \in (batch.from + 1)..to}
      PROVE  StoredIsPrefix' /\ Have <= Have' /\ to <= Have'
  BY <1>1, <1>2, <1>3, <1>6, HistoryParts, StoredGrows
<1>7. TakenPart(Whole(batch), TRUE) /\ ~peer.failed =>
         StoredIsPrefix' /\ Have <= Have' /\ batch.through <= Have'
  <2>1. Whole(batch).events = Events(batch)
    BY DEF Whole
  <2> QED
    BY <1>2, <1>4, <1>6, <2>1 DEF TakenPart
<1>8. CASE peer.failed /\ UNCHANGED <<stored, peer>> /\ Told(<<Answer(request, FALSE)>>)
  <2>a. PICK answer : answer = Answer(request, FALSE)
    OBVIOUS
  <2>1. answer \in MessageType /\ ~answer.ok
    BY <1>2, <2>a, InvParts, AnswerTyped DEF Answer
  <2>2. \A m \in ToSet(toNode') : m \in ToSet(toNode) \/ ~m.ok
    BY <1>8, <2>a, <2>1, OneAnswer
  <2>3. StoredIsPrefix' /\ Have' = Have /\ Have <= Have
    BY <1>1, <1>8, KeptWater, StoredStays, HistoryParts
  <2> QED
    BY <1>a, <1>1, <1>8, <2>2, <2>3, HostReadsHistory
<1>9. CASE ~peer.failed /\ TakenPart(Whole(batch), TRUE)
  <2>1. StoredIsPrefix' /\ Have <= Have' /\ batch.through <= Have'
    BY <1>7, <1>9
  <2>2. \A m \in ToSet(toNode') :
           \/ m \in ToSet(toNode) \/ m.kind # "answer" \/ ~m.ok
           \/ m.request.batch.through <= Have'
    BY <1>b, <1>5, <2>1
  <2> QED
    BY <1>a, <1>b, <1>1, <1>9, <2>1, <2>2, HostReadsHistory
<1>10. ASSUME NEW e \in Events(batch), ~peer.failed, TakenPart(Ahead(batch, e), FALSE)
       PROVE  HistoryInv'
  <2>1. PICK k \in (batch.from + 1)..batch.through : e = Event(k)
    BY <1>4
  <2>a. PICK to : to = k - 1
    OBVIOUS
  <2>2. to \in Nat /\ to <= Water
    BY <1>2, <2>1, <2>a, InvParts
  <2>3. Ahead(batch, e).events = {Event(i) : i \in (batch.from + 1)..to}
    <3>1. e.seq = k /\ \A i : Event(i).seq = i
      BY <2>1 DEF Event
    <3>2. Ahead(batch, e).events = {x \in Events(batch) : x.seq < k}
      BY <3>1 DEF Ahead
    <3>3. \A i \in (batch.from + 1)..batch.through : i < k <=> i \in (batch.from + 1)..to
      BY <1>2, <2>1, <2>a
    <3>4. \A i \in (batch.from + 1)..to : i \in (batch.from + 1)..batch.through
      BY <1>2, <2>1, <2>a
    <3> QED
      BY <1>4, <3>1, <3>2, <3>3, <3>4
  <2>4. stored' = stored \cup {Event(i) : i \in (batch.from + 1)..to}
    BY <1>10, <2>3 DEF TakenPart
  <2>5. StoredIsPrefix' /\ Have <= Have'
    BY <1>6, <1>10, <2>2, <2>4
  <2>6. peer'.failed
    BY <1>10 DEF TakenPart, PeerAfter
  <2>7. TakenPart(Whole(batch), TRUE) => batch.through <= Have'
    BY <1>7, <1>10
  <2>8. \A m \in ToSet(toNode') :
           \/ m \in ToSet(toNode) \/ m.kind # "answer" \/ ~m.ok
           \/ m.request.batch.through <= Have'
    BY <1>b, <1>5, <2>7
  <2> QED
    BY <1>a, <1>1, <1>10, <2>5, <2>6, <2>8, HostReadsHistory
<1> QED
  BY <1>a, <1>b, <1>8, <1>9, <1>10, HostReplayFacts

\* Host work and a resync asked for say nothing of what the Host has.
LEMMA ToldHistory ==
    ASSUME Inv, HistoryInv, UNCHANGED <<journal, acked, live, toHost, stored>>,
           peer'.failed = peer.failed,
           \A m \in ToSet(toNode') : m.kind = "answer" => m \in ToSet(toNode)
    PROVE  HistoryInv'
<1>1. StoredIsPrefix' /\ Have' = Have
  BY KeptWater, StoredStays, HistoryParts
<1>2. AcksHold'
  BY HistoryParts, AcksStay
<1>3. NoGap'
  BY <1>1 DEF HistoryInv, NoGap
<1> QED
  BY <1>1, <1>2, <1>3 DEF HistoryInv

LEMMA HostWorkHistory == ASSUME Inv, HistoryInv, HostWork PROVE HistoryInv'
<1>1. PICK messages \in Seq(MessageType) :
         Told(messages) /\ \A m \in ToSet(messages) : m.kind # "answer"
  BY HostWorkSays
<1>2. ToSet(toNode') \subseteq ToSet(toNode) \cup ToSet(messages)
  BY <1>1, InvParts, ToldTyped
<1>3. peer'.failed = peer.failed
  BY InvParts DEF HostWork, HostType
<1>4. UNCHANGED <<journal, acked, live, toHost, stored>>
  BY DEF HostWork, journalVars
<1> QED
  BY <1>1, <1>2, <1>3, <1>4, ToldHistory

LEMMA RequestResyncHistory == ASSUME Inv, HistoryInv, RequestResync PROVE HistoryInv'
<1>a. PICK m : m = [kind |-> "resync"]
  OBVIOUS
<1>1. m \in MessageType /\ m.kind # "answer" /\ Told(<<m>>)
  BY <1>a DEF MessageType, RequestResync
<1>2. \A n \in ToSet(toNode') : n \in ToSet(toNode) \/ n = m
  BY <1>1, OneAnswer
<1>3. UNCHANGED <<journal, acked, live, toHost, stored, peer>>
  BY DEF RequestResync, journalVars, hostVars
<1> QED
  BY <1>1, <1>2, <1>3, ToldHistory

LEMMA NextHistory ==
    ASSUME ConsoleBounds, Inv, OneAtATime, HistoryInv, [Next]_vars PROVE HistoryInv'
<1>1. CASE UNCHANGED vars
  <2>1. UNCHANGED <<journal, acked, live, toHost, toNode, stored, peer>>
    BY <1>1 DEF vars, journalVars, hostVars
  <2> QED
    BY <2>1, ToldHistory
<1>2. CASE Emit \/ TurnEnds \/ AgentEnds \/ LocalPrompt \/ CancelQueued
  BY <1>2, QuietHistory
<1>3. CASE NodeStep
  <2>1. CASE NodeReads
    BY <2>1, ReadingHistory, HandleGrantsHistory, HandleReplayedHistory, HandleLiveHistory,
       QuietHistory DEF NodeReads
  <2> QED
    BY <1>3, <2>1, QuietHistory, PumpLiveHistory, AckWriteHistory, InitializeHistory
    DEF NodeStep
<1>4. CASE RequestTimesOut \/ Connect \/ Break \/ NodeCrash
  BY <1>4, RequestTimesOutHistory, ConnectHistory, PartingHistory
<1>5. CASE HostStep \/ HostWork \/ RequestResync
  BY <1>5, HostInitializeHistory, HostReplayHistory, HostSynchronizedHistory,
     HostWorkHistory, RequestResyncHistory DEF HostStep
<1> QED
  BY <1>1, <1>2, <1>3, <1>4, <1>5 DEF Next

-----------------------------------------------------------------------------
(* The theorem                                                             *)

\* The Host's history of the session is a prefix of the journal, and the Node
\* takes no more for acknowledged than the Host has, although batches go out ahead
\* of their acknowledgments and any of them may fail (pumpLive, replayFailed,
\* acknowledgeBatch); as long as a resync is asked for only when none runs.
THEOREM HistoryStaysPrefix ==
    ASSUME ~Overlapping
    PROVE  Spec => []HistoryIsPrefix
<1> DEFINE All == Inv /\ OneAtATime /\ HistoryInv
<1>1. Init => All
  BY ConsoleBounds, InitInv, InitOrder, InitHistory
<1>2. All /\ [Next]_vars => All'
  BY ConsoleBounds, NextInv, NextOrder, NextHistory
<1>3. All => HistoryIsPrefix
  BY DEF HistoryInv, StoredIsPrefix, AcksHold, PrefixOf, Have, HistoryIsPrefix
<1> HIDE DEF All
<1> QED
  BY <1>1, <1>2, <1>3, PTL DEF Spec
-----------------------------------------------------------------------------
(* A synchronization is alone.  While one is under way, what it asks is the *)
(* only message of its generation, and the console is the one that syncs.   *)

Current(r) == r.gen = console.gen

\* The message is an answer, and to such a request.
AnswersCurrent(m) == m.kind = "answer" /\ Current(m.request)
AnswersSync(m) == m.kind = "answer" /\ m.request.flow = "sync" /\ Current(m.request)

\* A request of the synchronization under way, or its answer, has no company.
Solo ==
    /\ \A i, j \in 1..Len(toHost) :
          toHost[i].flow = "sync" /\ Current(toHost[i]) /\ Current(toHost[j]) => i = j
    /\ \A i, j \in 1..Len(toNode) :
          AnswersSync(toNode[i]) /\ AnswersCurrent(toNode[j]) => i = j
    /\ \A i \in 1..Len(toHost), j \in 1..Len(toNode) :
          Current(toHost[i]) /\ AnswersCurrent(toNode[j]) =>
             toHost[i].flow # "sync" /\ toNode[j].request.flow # "sync"

\* The console is where the message finds it.
Fits(r) ==
    Current(r) => /\ console.status # "offline"
                  /\ r.flow = "sync" => console.status = "syncing"

Fitting ==
    /\ \A r \in ToSet(toHost) : Fits(r)
    /\ \A m \in ToSet(toNode) : m.kind = "answer" => Fits(m.request)

\* What an earlier synchronization asked past its beginning moves nobody on.
Passed(r) == Settling(r) /\ r.gen > console.expired => Current(r)

NoneLeft ==
    /\ up => \A r \in ToSet(toHost) : Passed(r)
    /\ \A m \in ToSet(toNode) : m.kind = "answer" => Passed(m.request)

AloneInv == Solo /\ Fitting /\ NoneLeft

LEMMA QueueFacts ==
    ASSUME Inv
    PROVE  /\ toHost \in Seq(RequestType) /\ Len(toHost) \in Nat
           /\ toNode \in Seq(MessageType) /\ Len(toNode) \in Nat
           /\ \A i \in 1..Len(toHost) : toHost[i] \in ToSet(toHost) /\ toHost[i] \in RequestType
           /\ \A i \in 1..Len(toNode) : toNode[i] \in ToSet(toNode) /\ toNode[i] \in MessageType
           /\ \A r \in ToSet(toHost) : \E i \in 1..Len(toHost) : r = toHost[i]
           /\ \A m \in ToSet(toNode) : \E i \in 1..Len(toNode) : m = toNode[i]
<1>1. toHost \in Seq(RequestType) /\ toNode \in Seq(MessageType)
  BY InvParts DEF WireType
<1>2. /\ Len(toHost) \in Nat /\ DOMAIN toHost = 1..Len(toHost)
      /\ Len(toNode) \in Nat /\ DOMAIN toNode = 1..Len(toNode)
  BY <1>1
<1>3. /\ \A i \in 1..Len(toHost) : toHost[i] \in RequestType
      /\ \A i \in 1..Len(toNode) : toNode[i] \in MessageType
  BY <1>1, ElementOfSeq
<1> QED
  BY <1>1, <1>2, <1>3 DEF ToSet

\* The messages that are left are those that were there, none twice.
Left(d) ==
    \A i \in 1..Len(toNode') :
       toNode'[i].kind = "answer" => i + d \in 1..Len(toNode) /\ toNode'[i] = toNode[i + d]

LEMMA SoloLeft ==
    ASSUME Inv, Solo, UNCHANGED toHost, console'.gen = console.gen, NEW d \in {0, 1}, Left(d),
           Len(toNode') \in Nat
    PROVE  Solo'
<1>1. Len(toNode) \in Nat /\ Len(toHost) \in Nat
  BY QueueFacts
<1>2. \A i \in 1..Len(toNode') : AnswersCurrent(toNode[i])' \/ AnswersSync(toNode[i])' =>
         i + d \in 1..Len(toNode) /\ toNode'[i] = toNode[i + d]
  BY DEF Left, AnswersCurrent, AnswersSync
<1>3. ASSUME NEW i \in 1..Len(toNode'), NEW j \in 1..Len(toNode'),
             AnswersSync(toNode[i])', AnswersCurrent(toNode[j])'
      PROVE  i = j
  <2>1. i + d = j + d
    BY <1>2, <1>3 DEF Solo, AnswersCurrent, AnswersSync, Current
  <2> QED
    BY <2>1
<1>4. ASSUME NEW i \in 1..Len(toHost), NEW j \in 1..Len(toNode'), Current(toHost[i])',
             AnswersCurrent(toNode[j])'
      PROVE  toHost[i].flow # "sync" /\ toNode'[j].request.flow # "sync"
  BY <1>2, <1>4 DEF Solo, AnswersCurrent, Current
<1> QED
  BY <1>3, <1>4 DEF Solo, Current

\* Nothing is of a generation that has just begun.
LEMMA SoloNew ==
    ASSUME Inv, GenerationsPass, console.gen < console'.gen, console'.gen \in Nat,
           \A r \in ToSet(toHost') : r \in ToSet(toHost),
           \A m \in ToSet(toNode') : m.kind = "answer" => m \in ToSet(toNode),
           toHost' \in Seq(RequestType), toNode' \in Seq(MessageType)
    PROVE  /\ Solo' /\ Fitting'
           /\ \A r \in ToSet(toHost') : ~Current(r)'
           /\ \A m \in ToSet(toNode') : ~AnswersCurrent(m)'
<1>1. console.gen \in Nat
  BY GenTyped
<1>2. \A r \in ToSet(toHost) : r.gen \in Nat /\ r.gen <= console.gen
  BY QueueFacts DEF GenerationsPass, RequestType
<1>3. \A m \in ToSet(toNode) : m.kind = "answer" => m.request.gen \in Nat /\ m.request.gen <= console.gen
  BY QueueFacts DEF GenerationsPass, MessageType, AnswerType, GrantType, WorkType, RequestType
<1>4. \A r \in ToSet(toHost') : ~Current(r)'
  <2> SUFFICES ASSUME NEW r \in ToSet(toHost') PROVE r.gen # console'.gen
    BY DEF Current
  <2> QED
    BY <1>1, <1>2
<1>5. \A m \in ToSet(toNode') : ~AnswersCurrent(m)'
  <2> SUFFICES ASSUME NEW m \in ToSet(toNode'), m.kind = "answer"
               PROVE m.request.gen # console'.gen
    BY DEF AnswersCurrent, Current
  <2> QED
    BY <1>1, <1>3
<1>6. /\ \A i \in 1..Len(toHost') : toHost'[i] \in ToSet(toHost')
      /\ \A i \in 1..Len(toNode') : toNode'[i] \in ToSet(toNode')
  BY DEF ToSet
<1>7. Solo'
  BY <1>4, <1>5, <1>6 DEF Solo, AnswersSync, AnswersCurrent
<1>8. Fitting'
  BY <1>4, <1>5 DEF Fitting, Fits, AnswersCurrent
<1> QED
  BY <1>4, <1>5, <1>7, <1>8

\* The Host answers what it reads, if at all, behind everything else.
Replied ==
    /\ toHost # <<>> /\ toHost' = Tail(toHost)
    /\ \A i \in 1..Len(toNode') : toNode'[i].kind = "answer" =>
          \/ i \in 1..Len(toNode) /\ toNode'[i] = toNode[i]
          \/ i = Len(toNode') /\ i > Len(toNode) /\ toNode'[i].request = toHost[1]

LEMMA SoloReplied ==
    ASSUME Inv, Solo, Replied, console'.gen = console.gen, Len(toNode') \in Nat
    PROVE  Solo'
<1>1. /\ Len(toHost) \in Nat /\ Len(toHost) # 0 /\ Len(toHost') = Len(toHost) - 1
      /\ \A i \in 1..(Len(toHost) - 1) : toHost'[i] = toHost[i + 1]
      /\ Len(toNode) \in Nat
  BY QueueFacts DEF Replied
<1>2. \A i \in 1..Len(toHost') : i + 1 \in 1..Len(toHost) /\ toHost'[i] = toHost[i + 1]
  BY <1>1
<1>3. ASSUME NEW i \in 1..Len(toHost'), NEW j \in 1..Len(toHost'), toHost'[i].flow = "sync",
             Current(toHost[i])', Current(toHost[j])'
      PROVE  i = j
  <2>1. i + 1 = j + 1
    BY <1>2, <1>3 DEF Solo, Current
  <2> QED
    BY <1>1, <2>1
<1>4. 1 \in 1..Len(toHost)
  BY <1>1
<1>5. ASSUME NEW i \in 1..Len(toNode'), NEW j \in 1..Len(toNode'),
             AnswersSync(toNode[i])', AnswersCurrent(toNode[j])'
      PROVE  i = j
  <2>1. /\ \/ i \in 1..Len(toNode) /\ toNode'[i] = toNode[i]
           \/ i = Len(toNode') /\ toNode'[i].request = toHost[1]
        /\ \/ j \in 1..Len(toNode) /\ toNode'[j] = toNode[j]
           \/ j = Len(toNode') /\ toNode'[j].request = toHost[1]
    BY <1>5 DEF Replied, AnswersSync, AnswersCurrent
  <2> QED
    BY <1>4, <1>5, <2>1 DEF Solo, AnswersSync, AnswersCurrent, Current
<1>6. ASSUME NEW i \in 1..Len(toHost'), NEW j \in 1..Len(toNode'), Current(toHost[i])',
             AnswersCurrent(toNode[j])'
      PROVE  toHost'[i].flow # "sync" /\ toNode'[j].request.flow # "sync"
  <2>1. \/ j \in 1..Len(toNode) /\ toNode'[j] = toNode[j]
        \/ toNode'[j].request = toHost[1]
    BY <1>6 DEF Replied, AnswersCurrent
  <2>2. CASE j \in 1..Len(toNode) /\ toNode'[j] = toNode[j]
    BY <1>2, <1>6, <2>2 DEF Solo, AnswersCurrent, Current
  <2>3. CASE toNode'[j].request = toHost[1]
    <3>1. /\ i + 1 \in 1..Len(toHost) /\ i + 1 # 1
          /\ Current(toHost[i + 1]) /\ Current(toHost[1])
      BY <1>1, <1>2, <1>6, <2>3 DEF Current, AnswersCurrent
    <3>2. toHost[i + 1].flow # "sync" /\ toHost[1].flow # "sync"
      BY <1>4, <3>1 DEF Solo
    <3> QED
      BY <1>2, <2>3, <3>2
  <2> QED
    BY <2>1, <2>2, <2>3
<1> QED
  BY <1>3, <1>5, <1>6 DEF Solo

\* A request is put behind the others: none of its generation is there, or none of
\* a synchronization, nor is it of one.
LEMMA SoloAsked ==
    ASSUME Inv, Solo, console'.gen = console.gen, NEW d \in {0, 1}, Left(d),
           Len(toNode') \in Nat, NEW r \in RequestType, toHost' = Append(toHost, r),
           Current(r) =>
              /\ \A i \in 1..Len(toHost) : Current(toHost[i]) => "sync" \notin {r.flow, toHost[i].flow}
              /\ \A i \in 1..Len(toNode') : AnswersCurrent(toNode[i])' =>
                    "sync" \notin {r.flow, toNode'[i].request.flow}
    PROVE  Solo'
<1>1. /\ Len(toHost) \in Nat /\ Len(toHost') = Len(toHost) + 1
      /\ \A i \in 1..Len(toHost) : toHost'[i] = toHost[i]
      /\ toHost'[Len(toHost) + 1] = r /\ Len(toNode) \in Nat
  BY QueueFacts
<1>2. \A i \in 1..Len(toHost') : \/ i \in 1..Len(toHost) /\ toHost'[i] = toHost[i]
                                 \/ i = Len(toHost) + 1 /\ toHost'[i] = r
  BY <1>1
<1>3. \A i \in 1..Len(toNode') : AnswersCurrent(toNode[i])' \/ AnswersSync(toNode[i])' =>
         i + d \in 1..Len(toNode) /\ toNode'[i] = toNode[i + d]
  BY DEF Left, AnswersCurrent, AnswersSync
<1>4. ASSUME NEW i \in 1..Len(toHost'), NEW j \in 1..Len(toHost'), toHost'[i].flow = "sync",
             Current(toHost[i])', Current(toHost[j])'
      PROVE  i = j
  BY <1>2, <1>4 DEF Solo, Current
<1>5. ASSUME NEW i \in 1..Len(toNode'), NEW j \in 1..Len(toNode'),
             AnswersSync(toNode[i])', AnswersCurrent(toNode[j])'
      PROVE  i = j
  <2>1. i + d = j + d
    BY <1>3, <1>5 DEF Solo, AnswersCurrent, AnswersSync, Current
  <2> QED
    BY <2>1
<1>6. ASSUME NEW i \in 1..Len(toHost'), NEW j \in 1..Len(toNode'), Current(toHost[i])',
             AnswersCurrent(toNode[j])'
      PROVE  toHost'[i].flow # "sync" /\ toNode'[j].request.flow # "sync"
  <2>1. CASE i \in 1..Len(toHost) /\ toHost'[i] = toHost[i]
    BY <1>3, <1>6, <2>1 DEF Solo, AnswersCurrent, Current
  <2>2. CASE i = Len(toHost) + 1 /\ toHost'[i] = r
    BY <1>6, <2>2 DEF AnswersCurrent, Current
  <2> QED
    BY <1>2, <2>1, <2>2
<1> QED
  BY <1>4, <1>5, <1>6 DEF Solo

\* What keeps a generation leaves the rest of what was said standing.
LEMMA AloneKept ==
    ASSUME Inv, Fitting, NoneLeft, console'.gen = console.gen,
           console'.status = console.status, console'.expired = console.expired, up' => up,
           \A r \in ToSet(toHost') : r \in ToSet(toHost),
           \A m \in ToSet(toNode') : m.kind = "answer" =>
              m \in ToSet(toNode) \/ (up /\ m.request \in ToSet(toHost))
    PROVE  Fitting' /\ NoneLeft'
<1>1. Fitting'
  BY DEF Fitting, Fits, Current
<1>2. NoneLeft'
  BY DEF NoneLeft, Passed, Current, Settling
<1> QED
  BY <1>1, <1>2

\* A step that reads at most one message and says nothing.
LEMMA QuietAlone ==
    ASSUME Inv, AloneInv, Inv', console'.gen = console.gen,
           console'.status = console.status, console'.expired = console.expired, up' => up,
           UNCHANGED toHost, NEW d \in {0, 1}, Left(d)
    PROVE  AloneInv'
<1>1. toNode' \in Seq(MessageType) /\ Len(toNode') \in Nat /\ DOMAIN toNode' = 1..Len(toNode')
  <2>1. toNode' \in Seq(MessageType)
    BY DEF Inv, TypeOK, WireType
  <2> QED
    BY <2>1
<1>2. Solo'
  BY <1>1, SoloLeft DEF AloneInv
<1>3. \A m \in ToSet(toNode') : m.kind = "answer" => m \in ToSet(toNode)
  <2> SUFFICES ASSUME NEW m \in ToSet(toNode'), m.kind = "answer" PROVE m \in ToSet(toNode)
    OBVIOUS
  <2>1. PICK i \in 1..Len(toNode') : m = toNode'[i]
    BY <1>1 DEF ToSet
  <2> QED
    BY <2>1, QueueFacts DEF Left
<1> QED
  BY <1>2, <1>3, AloneKept DEF AloneInv

LEMMA LeftAsItWas == ASSUME Inv, UNCHANGED toNode PROVE Left(0)
BY QueueFacts DEF Left

LEMMA LeftByReading ==
    ASSUME Inv, toNode # <<>>, toNode' = Tail(toNode)
    PROVE  /\ Left(1) /\ Len(toNode) \in Nat /\ Len(toNode') = Len(toNode) - 1
           /\ 1 \in 1..Len(toNode) /\ toNode[1] = Head(toNode)
           /\ \A i \in 1..Len(toNode') : i + 1 \in 1..Len(toNode) /\ toNode'[i] = toNode[i + 1]
<1>1. /\ Len(toNode) \in Nat /\ Len(toNode) # 0 /\ Len(toNode') = Len(toNode) - 1
      /\ \A i \in 1..(Len(toNode) - 1) : toNode'[i] = toNode[i + 1]
      /\ toNode[1] = Head(toNode)
  BY QueueFacts
<1>2. \A i \in 1..Len(toNode') : i + 1 \in 1..Len(toNode) /\ toNode'[i] = toNode[i + 1]
  BY <1>1
<1> QED
  BY <1>1, <1>2 DEF Left

\* The console as the steps leave it that begin no generation.
ConsoleSame ==
    /\ ConsoleHolds /\ console'.expired = console.expired
    /\ console'.granted = console.granted /\ console'.told = console.told

LEMMA AskedSame ==
    ASSUME ConsoleType, console' = PumpAsked(console) \/ console' = console
    PROVE  ConsoleSame
BY DEF ConsoleType, ConsoleRecords, PumpAsked, ConsoleHolds, ConsoleSame

\* The journal, the agent and the prompts say nothing.
LEMMA LocalSame ==
    ASSUME Inv,
           \/ Emit \/ Flush \/ TurnEnds \/ AgentEnds \/ LocalPrompt \/ Invoke
           \/ CancelQueued \/ PumpLocal \/ ReceiveWork \/ AdmitWork \/ AckWrite
    PROVE  /\ ConsoleSame /\ UNCHANGED <<toHost, up, hostVars>>
           /\ \/ UNCHANGED <<toNode, admitting>>
              \/ ReceiveWork
              \/ UNCHANGED toNode /\ admitting # <<>> /\ admitting' = Tail(admitting)
<1>1. CASE PumpLocal
  <2>1. ConsoleSame
    BY <1>1, InvParts DEF PumpLocal, ConsoleType, ConsoleRecords, ConsoleHolds, ConsoleSame
  <2> QED
    BY <1>1, <2>1 DEF PumpLocal
<1>2. CASE AdmitWork
  <2>1. console' = PumpAsked(console) \/ console' = console
    BY <1>2 DEF AdmitWork
  <2>2. ConsoleSame
    BY <2>1, InvParts, AskedSame
  <2> QED
    BY <1>2, <2>2 DEF AdmitWork
<1>3. CASE TurnEnds
  <2>1. ConsoleSame
    BY <1>3, InvParts, AskedSame DEF TurnEnds
  <2> QED
    BY <1>3, <2>1 DEF TurnEnds
<1>4. CASE \/ Emit \/ Flush \/ AgentEnds \/ LocalPrompt \/ Invoke
           \/ CancelQueued \/ ReceiveWork \/ AckWrite
  <2>1. console' = console
    BY <1>4 DEF Emit, Flush, AgentEnds, LocalPrompt, Invoke, CancelQueued, ReceiveWork, AckWrite
  <2>2. ConsoleSame
    BY <2>1, InvParts, AskedSame
  <2> QED
    BY <1>4, <2>2 DEF Emit, Flush, AgentEnds, LocalPrompt, Invoke, CancelQueued, ReceiveWork,
                      AckWrite, nodeVars
<1> QED
  BY <1>1, <1>2, <1>3, <1>4

LEMMA LocalAlone ==
    ASSUME Inv, AloneInv, Inv',
           \/ Emit \/ Flush \/ TurnEnds \/ AgentEnds \/ LocalPrompt \/ Invoke
           \/ CancelQueued \/ PumpLocal \/ ReceiveWork \/ AdmitWork \/ AckWrite
    PROVE  AloneInv'
<1>1. ConsoleSame /\ UNCHANGED <<toHost, up>>
  BY LocalSame
<1>2. Left(0) \/ Left(1)
  <2>1. UNCHANGED toNode \/ ReceiveWork
    BY LocalSame
  <2>2. CASE ReceiveWork
    BY <2>2, LeftByReading DEF ReceiveWork
  <2> QED
    BY <2>1, <2>2, LeftAsItWas
<1> QED
  BY <1>1, <1>2, QuietAlone DEF ConsoleSame, ConsoleHolds

LEMMA ReadingSame ==
    ASSUME Inv, IgnoreAnswer \/ HandleLive
    PROVE  ConsoleSame
<1>1. CASE IgnoreAnswer
  BY <1>1, InvParts, AskedSame DEF IgnoreAnswer
<1>2. CASE HandleLive
  BY <1>2, InvParts DEF HandleLive, ConsoleType, ConsoleRecords, ConsoleHolds, ConsoleSame
<1> QED
  BY <1>1, <1>2

LEMMA ReadingAlone ==
    ASSUME Inv, AloneInv, Inv', IgnoreAnswer \/ HandleGrant \/ HandleLive
    PROVE  AloneInv'
<1>1. toNode # <<>> /\ toNode' = Tail(toNode) /\ UNCHANGED <<toHost, up>>
  BY DEF IgnoreAnswer, HandleGrant, HandleLive, Answered
<1>2. ConsoleHolds /\ console'.expired = console.expired
  <2>1. CASE HandleGrant
    BY <2>1, InvParts DEF HandleGrant, Granted, ConsoleType, ConsoleRecords, ConsoleHolds
  <2> QED
    BY <2>1, ReadingSame DEF ConsoleSame
<1> QED
  BY <1>1, <1>2, LeftByReading, QuietAlone DEF ConsoleHolds

\* The answer to a request of the synchronization under way leaves nothing of it.
LEMMA HeadAlone ==
    ASSUME Inv, Solo, toNode # <<>>, toNode' = Tail(toNode), AnswersSync(Head(toNode))
    PROVE  /\ \A i \in 1..Len(toHost) : ~Current(toHost[i])
           /\ \A i \in 1..Len(toNode') :
                 toNode'[i].kind = "answer" => toNode'[i].request.gen # console.gen
<1>1. 1 \in 1..Len(toNode) /\ AnswersSync(toNode[1]) /\ AnswersCurrent(toNode[1])
  BY LeftByReading DEF AnswersSync, AnswersCurrent
<1>2. ASSUME NEW i \in 1..Len(toHost) PROVE ~Current(toHost[i])
  BY <1>1 DEF Solo, AnswersSync
<1>3. ASSUME NEW i \in 1..Len(toNode'), toNode'[i].kind = "answer",
             toNode'[i].request.gen = console.gen
      PROVE  FALSE
  <2>1. i + 1 \in 1..Len(toNode) /\ toNode'[i] = toNode[i + 1] /\ i \in Nat
    BY LeftByReading
  <2>2. AnswersCurrent(toNode[i + 1])
    BY <1>3, <2>1 DEF AnswersCurrent, Current
  <2>3. 1 = i + 1
    BY <1>1, <2>1, <2>2 DEF Solo
  <2> QED
    BY <2>1, <2>3
<1> QED
  BY <1>2, <1>3

LEMMA HandleSynchronizedAlone ==
    ASSUME Inv, AloneInv, Inv', HandleSynchronized
    PROVE  AloneInv' /\ console.status = "syncing" /\ AnswersSync(Head(toNode))
<1>1. /\ toNode # <<>> /\ toNode' = Tail(toNode) /\ UNCHANGED <<toHost, up>>
      /\ Head(toNode) \in ToSet(toNode) /\ Head(toNode).kind = "answer"
      /\ Settling(Head(toNode).request) /\ Head(toNode).request.gen > console.expired
      /\ Head(toNode).request.flow = "sync"
  BY AnswerRead DEF HandleSynchronized, Settling, Answered
<1>2. AnswersSync(Head(toNode))
  BY <1>1 DEF AloneInv, NoneLeft, Passed, AnswersSync
<1>3. console.status = "syncing"
  BY <1>1, <1>2 DEF AloneInv, Fitting, Fits, AnswersSync
<1>4. /\ console'.gen = console.gen /\ console'.expired = console.expired
      /\ console'.status = "online"
  BY InvParts DEF HandleSynchronized, ConsoleType, ConsoleRecords
<1>5. Left(1) /\ Len(toNode') \in Nat /\ \A i \in 1..Len(toNode') : toNode'[i] \in ToSet(toNode)
  BY <1>1, LeftByReading, QueueFacts
<1>6. Solo'
  BY <1>1, <1>4, <1>5, SoloLeft DEF AloneInv
<1>7. /\ \A i \in 1..Len(toHost) : ~Current(toHost[i])
      /\ \A i \in 1..Len(toNode') :
            toNode'[i].kind = "answer" => toNode'[i].request.gen # console.gen
  BY <1>1, <1>2, HeadAlone DEF AloneInv
<1>8. Fitting'
  <2>1. ASSUME NEW r \in ToSet(toHost) PROVE Fits(r)'
    <3>1. ~Current(r)
      BY <1>7, QueueFacts
    <3> QED
      BY <1>4, <3>1 DEF Fits, Current
  <2>2. ASSUME NEW m \in ToSet(toNode'), m.kind = "answer" PROVE Fits(m.request)'
    <3>1. PICK i \in 1..Len(toNode') : m = toNode'[i]
      <4>1. toNode' \in Seq(MessageType)
        BY DEF Inv, TypeOK, WireType
      <4> QED
        BY <4>1 DEF ToSet
    <3> QED
      BY <1>4, <1>7, <2>2, <3>1 DEF Fits, Current
  <2> QED
    BY <1>1, <2>1, <2>2 DEF Fitting
<1>9. NoneLeft'
  <2>1. \A m \in ToSet(toNode') : m \in ToSet(toNode)
    BY <1>1, InvParts, ToSetHead DEF WireType
  <2> QED
    BY <1>1, <1>4, <2>1 DEF AloneInv, NoneLeft, Passed, Settling, Current
<1> QED
  BY <1>2, <1>3, <1>6, <1>8, <1>9 DEF AloneInv

\* What asks something on behalf of the synchronization under way.
LEMMA AskedAlone ==
    ASSUME Inv, AloneInv, Inv', console'.gen = console.gen, console'.status = console.status,
           console'.expired = console.expired, UNCHANGED up, NEW d \in {0, 1}, Left(d),
           NEW r \in RequestType, toHost' = Append(toHost, r), Current(r), Fits(r),
           \A i \in 1..Len(toHost) : Current(toHost[i]) => "sync" \notin {r.flow, toHost[i].flow},
           \A i \in 1..Len(toNode') : AnswersCurrent(toNode[i])' =>
              "sync" \notin {r.flow, toNode'[i].request.flow}
    PROVE  AloneInv'
<1>1. toNode' \in Seq(MessageType) /\ Len(toNode') \in Nat /\ DOMAIN toNode' = 1..Len(toNode')
  <2>1. toNode' \in Seq(MessageType)
    BY DEF Inv, TypeOK, WireType
  <2> QED
    BY <2>1
<1>2. Solo'
  BY <1>1, SoloAsked DEF AloneInv
<1>3. \A m \in ToSet(toNode') : m.kind = "answer" => m \in ToSet(toNode)
  <2> SUFFICES ASSUME NEW m \in ToSet(toNode'), m.kind = "answer" PROVE m \in ToSet(toNode)
    OBVIOUS
  <2>1. PICK i \in 1..Len(toNode') : m = toNode'[i]
    BY <1>1 DEF ToSet
  <2> QED
    BY <2>1, QueueFacts DEF Left
<1>4. ToSet(toHost') = ToSet(toHost) \cup {r}
  BY InvParts, ToSetAppend DEF WireType
<1>5. Fits(r)' /\ Passed(r)'
  BY DEF Fits, Passed, Current
<1>6. \A x \in ToSet(toHost) : Fits(x)' /\ (up => Passed(x)')
  BY DEF AloneInv, Fitting, NoneLeft, Fits, Passed, Current, Settling
<1>7. \A m \in ToSet(toNode) : m.kind = "answer" => Fits(m.request)' /\ Passed(m.request)'
  BY DEF AloneInv, Fitting, NoneLeft, Fits, Passed, Current, Settling
<1>8. Fitting' /\ NoneLeft'
  BY <1>3, <1>4, <1>5, <1>6, <1>7 DEF Fitting, NoneLeft
<1> QED
  BY <1>2, <1>8 DEF AloneInv

\* The request that begins a synchronization.
Beginning == [Ask("initialize", "sync", Nothing, {}, 0) EXCEPT
                !.owed = agent.alive \/ FlushedWater > acked \/ epoch > ackedEpoch]

LEMMA BeginningTyped ==
    ASSUME Inv
    PROVE  /\ Beginning \in RequestType /\ Beginning.kind = "initialize"
           /\ Beginning.flow = "sync" /\ Beginning.gen = console.gen
<1>1. (agent.alive \/ FlushedWater > acked \/ epoch > ackedEpoch) \in BOOLEAN
  OBVIOUS
<1>2. Nothing \in BatchType /\ console.gen \in Nat
  BY InvParts, GenTyped, NoneIsSeq, NothingIsSegment
<1> QED
  BY <1>1, <1>2, NoControls DEF Beginning, Ask, RequestType

LEMMA InitializeAlone ==
    ASSUME Inv, OneAtATime, AloneInv, Inv', Initialize PROVE AloneInv'
<1>1. /\ console.joining /\ toHost' = Append(toHost, Beginning) /\ UNCHANGED <<up, toNode>>
      /\ console' = [console EXCEPT !.joining = FALSE]
  BY DEF Initialize, Beginning
<1>2. /\ console'.gen = console.gen /\ console'.status = console.status
      /\ console'.expired = console.expired /\ console.gen \in Nat
  BY <1>1, InvParts DEF ConsoleType, ConsoleRecords
<1>3. console.status = "syncing"
  BY <1>1 DEF OneAtATime, JoinsAlone
<1>4. \A i \in 1..Len(toHost) : ~Current(toHost[i])
  <2> SUFFICES ASSUME NEW i \in 1..Len(toHost), toHost[i].gen = console.gen PROVE FALSE
    BY DEF Current
  <2>1. toHost[i].gen < console.gen
    BY <1>1, QueueFacts DEF OneAtATime, JoinsAlone
  <2> QED
    BY <1>2, <2>1
<1>5. \A i \in 1..Len(toNode') : ~AnswersCurrent(toNode[i])'
  <2> SUFFICES ASSUME NEW i \in 1..Len(toNode), toNode[i].kind = "answer",
                      toNode[i].request.gen = console.gen
               PROVE  FALSE
    BY <1>1, <1>2 DEF AnswersCurrent, Current
  <2>1. toNode[i].request.gen < console.gen
    BY <1>1, QueueFacts DEF OneAtATime, JoinsAlone
  <2> QED
    BY <1>2, <2>1
<1>6. Left(0) /\ Fits(Beginning) /\ Current(Beginning) /\ Beginning \in RequestType
  BY <1>1, <1>3, LeftAsItWas, BeginningTyped DEF Fits, Current
<1> QED
  BY <1>1, <1>2, <1>4, <1>5, <1>6, AskedAlone

LEMMA PumpLiveAlone ==
    ASSUME ConsoleBounds, Inv, AloneInv, Inv', PumpLive PROVE AloneInv'
<1>1. UNCHANGED <<console, up, toNode>> /\ console.status = "online" /\ Left(0)
  BY LeftAsItWas DEF PumpLive
<1>2. CASE UNCHANGED toHost
  BY <1>1, <1>2, QuietAlone
<1>3. ASSUME NEW r \in RequestType, toHost' = Append(toHost, r), r.flow = "live",
             r.gen = console.gen
      PROVE  AloneInv'
  <2>1. \A i \in 1..Len(toHost) : Current(toHost[i]) => toHost[i].flow # "sync"
    BY <1>1, QueueFacts DEF AloneInv, Fitting, Fits
  <2>2. \A i \in 1..Len(toNode) : AnswersCurrent(toNode[i]) => toNode[i].request.flow # "sync"
    BY <1>1, QueueFacts DEF AloneInv, Fitting, Fits, AnswersCurrent
  <2>3. Fits(r) /\ Current(r)
    BY <1>1, <1>3 DEF Fits, Current
  <2>4. \A i \in 1..Len(toNode') : AnswersCurrent(toNode[i])' =>
           "sync" \notin {r.flow, toNode'[i].request.flow}
    BY <1>1, <1>3, <2>2 DEF AnswersCurrent, Current
  <2> QED
    BY <1>1, <1>3, <2>1, <2>3, <2>4, AskedAlone
<1> QED
  BY <1>2, <1>3, PumpLiveFacts

LEMMA AsksOnAlone ==
    ASSUME Inv, AloneInv, Inv', toNode # <<>>, toNode' = Tail(toNode),
           AnswersSync(Head(toNode)), console'.gen = console.gen,
           console'.status = console.status, console'.expired = console.expired,
           UNCHANGED up, NEW at, AsksOn(at, console.gen)
    PROVE  AloneInv'
<1>1. Left(1) /\ Head(toNode) \in ToSet(toNode)
  BY LeftByReading, QueueFacts
<1>2. CASE UNCHANGED toHost
  BY <1>1, <1>2, QuietAlone
<1>3. ASSUME NEW r \in RequestType, toHost' = Append(toHost, r), r.gen = console.gen
      PROVE  AloneInv'
  <2>1. /\ \A i \in 1..Len(toHost) : ~Current(toHost[i])
        /\ \A i \in 1..Len(toNode') :
              toNode'[i].kind = "answer" => toNode'[i].request.gen # console.gen
    BY HeadAlone DEF AloneInv
  <2>2. \A i \in 1..Len(toNode') : ~AnswersCurrent(toNode[i])'
    BY <2>1 DEF AnswersCurrent, Current
  <2>3. Fits(r) /\ Current(r)
    BY <1>1, <1>3 DEF AloneInv, Fitting, Fits, AnswersSync, Current
  <2> QED
    BY <1>1, <1>3, <2>1, <2>2, <2>3, AskedAlone
<1> QED
  BY <1>2, <1>3 DEF AsksOn

LEMMA GrantedSame ==
    ASSUME Inv, NEW theirs \in Nat, Granted(theirs)
    PROVE  /\ ConsoleHolds /\ console'.expired = console.expired
           /\ console'.told = console.told /\ console'.granted
BY InvParts DEF Granted, ConsoleType, ConsoleRecords, ConsoleHolds

LEMMA HandleGrantsAlone ==
    ASSUME ConsoleBounds, Inv, AloneInv, Inv', HandleGrants PROVE AloneInv'
<1>1. /\ toNode # <<>> /\ toNode' = Tail(toNode) /\ Head(toNode) \in AnswerType
      /\ Head(toNode).kind = "answer" /\ Head(toNode).request.flow = "sync" /\ UNCHANGED up
      /\ Head(toNode).epoch \in Nat
  BY AnswerRead DEF HandleGrants, AnswerType
<1>2. ConsoleHolds /\ AsksOn(acked, console.gen)
  BY HandleGrantsFacts
<1>3. CASE Head(toNode).request.gen # console.gen
  <2>1. UNCHANGED <<console, toHost>>
    BY <1>3, HandleGrantsFacts
  <2> QED
    BY <1>1, <2>1, LeftByReading, QuietAlone
<1>4. CASE Head(toNode).request.gen = console.gen
  <2>1. console'.expired = console.expired
    <3>1. Granted(Head(toNode).epoch) \/ UNCHANGED console
      BY <1>4 DEF HandleGrants
    <3> QED
      BY <1>1, <3>1, GrantedSame
  <2>2. AnswersSync(Head(toNode))
    BY <1>1, <1>4 DEF AnswersSync, Current
  <2> QED
    BY <1>1, <1>2, <2>1, <2>2, AsksOnAlone DEF ConsoleHolds
<1> QED
  BY <1>3, <1>4

LEMMA ReplayedCurrent ==
    ASSUME Inv, AloneInv, HandleReplayed
    PROVE  /\ toNode # <<>> /\ toNode' = Tail(toNode) /\ Head(toNode) \in ToSet(toNode)
           /\ AnswersSync(Head(toNode)) /\ Head(toNode).request \in RequestType
           /\ Head(toNode).kind = "answer" /\ Head(toNode).request.kind = "replay"
           /\ Head(toNode).ok /\ console.status = "syncing"
<1>1. /\ toNode # <<>> /\ toNode' = Tail(toNode) /\ Head(toNode) \in ToSet(toNode)
      /\ Head(toNode).kind = "answer" /\ Head(toNode).request.flow = "sync"
      /\ Head(toNode).request.kind = "replay" /\ Head(toNode).ok
      /\ Settling(Head(toNode).request) /\ Head(toNode).request.gen > console.expired
      /\ Head(toNode).request \in RequestType
  BY AnswerRead DEF HandleReplayed, Settling, Answered
<1>2. AnswersSync(Head(toNode))
  BY <1>1 DEF AloneInv, NoneLeft, Passed, AnswersSync
<1> QED
  BY <1>1, <1>2 DEF AloneInv, Fitting, Fits, AnswersSync

LEMMA HandleReplayedAlone ==
    ASSUME ConsoleBounds, Inv, AloneInv, Inv', HandleReplayed PROVE AloneInv'
<1>1. /\ toNode # <<>> /\ toNode' = Tail(toNode) /\ AnswersSync(Head(toNode))
  BY ReplayedCurrent
<1>2. ConsoleHolds /\ AsksOn(Head(toNode).request.batch.through, console.gen)
  BY <1>1, HandleReplayedFacts DEF AnswersSync, Current
<1>3. console'.expired = console.expired /\ UNCHANGED up
  BY InvParts DEF HandleReplayed, ConsoleType, ConsoleRecords
<1> QED
  BY <1>1, <1>2, <1>3, AsksOnAlone DEF ConsoleHolds

\* A generation that ends with something of it under way.
LEMMA FencedNext ==
    ASSUME Inv, console.status # "offline",
           console' = Fenced(console) \/ console' = [Fenced(console) EXCEPT !.expired = console.gen]
    PROVE  /\ console.gen < console'.gen /\ console'.gen \in Nat
           /\ console'.expired = (IF console' = Fenced(console) THEN console.expired ELSE console.gen)
           /\ console'.status = "conflict" /\ console'.told = console.told
           /\ console'.joining = FALSE /\ console'.granted = console.granted
<1>1. console \in ConsoleRecords /\ console.gen \in Nat
  BY InvParts DEF ConsoleType, ConsoleRecords
<1>2. PICK f : f = Fenced(console)
  OBVIOUS
<1>3. /\ f = [console EXCEPT !.gen = @ + 1, !.status = "conflict", !.fenced = TRUE, !.joining = FALSE]
      /\ f \in ConsoleRecords
  BY <1>1, <1>2, FencedTyped DEF Fenced
<1>4. f.gen = console.gen + 1 /\ f.expired = console.expired /\ f.status = "conflict"
      /\ f.told = console.told /\ f.joining = FALSE /\ f.granted = console.granted
  BY <1>1, <1>3 DEF ConsoleRecords
<1>5. CASE console' = f
  BY <1>1, <1>2, <1>4, <1>5
<1>6. CASE console' = [f EXCEPT !.expired = console.gen] /\ console' # f
  BY <1>1, <1>2, <1>3, <1>4, <1>6 DEF ConsoleRecords
<1> QED
  BY <1>2, <1>5, <1>6

LEMMA StillSaid ==
    ASSUME Inv, GenerationsPass, Inv', console.gen < console'.gen, console'.gen \in Nat,
           UNCHANGED toHost, ToSet(toNode') \subseteq ToSet(toNode)
    PROVE  Solo' /\ Fitting'
<1>1. toHost' \in Seq(RequestType) /\ toNode' \in Seq(MessageType)
  BY DEF Inv, TypeOK, WireType
<1> QED
  BY <1>1, SoloNew

LEMMA HandleRefusalAlone ==
    ASSUME Inv, OneAtATime, AloneInv, Inv', HandleRefusal PROVE AloneInv'
<1>1. /\ toNode # <<>> /\ toNode' = Tail(toNode) /\ UNCHANGED <<toHost, up>>
      /\ Head(toNode).kind = "answer" /\ Head(toNode) \in ToSet(toNode)
      /\ ToSet(toNode') \subseteq ToSet(toNode)
  BY AnswerRead DEF HandleRefusal, Answered
<1>2. CASE UNCHANGED console
  BY <1>1, <1>2, LeftByReading, QuietAlone
<1>3. CASE Head(toNode).request.gen = console.gen /\ console' = Fenced(console)
  <2>1. console.status # "offline"
    BY <1>1, <1>3 DEF AloneInv, Fitting, Fits, Current
  <2>2. /\ console.gen < console'.gen /\ console'.gen \in Nat
        /\ console'.expired = console.expired
    BY <1>3, <2>1, FencedNext
  <2>3. Solo' /\ Fitting'
    BY <1>1, <2>2, StillSaid DEF OneAtATime
  <2>4. 1 \in 1..Len(toNode) /\ AnswersCurrent(toNode[1])
    BY <1>1, <1>3, LeftByReading DEF AnswersCurrent, Current
  <2>5. ASSUME NEW r \in ToSet(toHost), up, Settling(r), r.gen > console.expired PROVE FALSE
    <3>1. PICK i \in 1..Len(toHost) : r = toHost[i]
      BY QueueFacts
    <3>2. Current(toHost[i]) /\ toHost[i].flow = "sync"
      BY <2>5, <3>1 DEF AloneInv, NoneLeft, Passed, Settling
    <3> QED
      BY <2>4, <3>2 DEF AloneInv, Solo
  <2>6. ASSUME NEW m \in ToSet(toNode'), m.kind = "answer", Settling(m.request),
               m.request.gen > console.expired
        PROVE  FALSE
    <3>0. toNode' \in Seq(MessageType)
      BY DEF Inv, TypeOK, WireType
    <3>1. PICK i \in 1..Len(toNode') : m = toNode'[i]
      BY <3>0 DEF ToSet
    <3>2. i + 1 \in 1..Len(toNode) /\ toNode'[i] = toNode[i + 1] /\ i \in Nat /\ i # 0
      BY <1>1, LeftByReading
    <3>3. AnswersSync(toNode[i + 1])
      BY <1>1, <2>6, <3>1, <3>2 DEF AloneInv, NoneLeft, Passed, Settling, AnswersSync
    <3>4. i + 1 = 1
      BY <2>4, <3>2, <3>3 DEF AloneInv, Solo
    <3> QED
      BY <3>2, <3>4
  <2>7. NoneLeft'
    BY <1>1, <2>2, <2>5, <2>6 DEF NoneLeft, Passed, Settling
  <2> QED
    BY <2>3, <2>7 DEF AloneInv
<1> QED
  BY <1>2, <1>3 DEF HandleRefusal

LEMMA RequestTimesOutAlone ==
    ASSUME Inv, OneAtATime, AloneInv, Inv', RequestTimesOut PROVE AloneInv'
<1>1. UNCHANGED <<toHost, toNode, up>> /\ console' = [Fenced(console) EXCEPT !.expired = console.gen]
  BY DEF RequestTimesOut
<1>2. console.status # "offline"
  BY DEF RequestTimesOut, AloneInv, Fitting, Fits, Current
<1>3. /\ console.gen < console'.gen /\ console'.gen \in Nat
      /\ console'.expired \in {console.expired, console.gen}
  BY <1>1, <1>2, FencedNext
<1>4. console'.expired = console.gen
  <2>1. PICK f : f = Fenced(console)
    OBVIOUS
  <2>2. f \in ConsoleRecords
    BY <2>1, InvParts, FencedTyped DEF ConsoleType
  <2> QED
    BY <1>1, <2>1, <2>2 DEF ConsoleRecords
<1>5. Solo' /\ Fitting'
  BY <1>1, <1>3, StillSaid DEF OneAtATime
<1>6. \A r \in ToSet(toHost) : ~(r.gen > console.gen)
  <2> SUFFICES ASSUME NEW r \in ToSet(toHost) PROVE ~(r.gen > console.gen)
    OBVIOUS
  <2>1. r.gen \in Nat /\ r.gen <= console.gen
    BY QueueFacts DEF OneAtATime, GenerationsPass, RequestType
  <2> QED
    BY <2>1, GenTyped
<1>7. \A m \in ToSet(toNode) : m.kind = "answer" => ~(m.request.gen > console.gen)
  <2> SUFFICES ASSUME NEW m \in ToSet(toNode), m.kind = "answer" PROVE ~(m.request.gen > console.gen)
    OBVIOUS
  <2>1. m.request.gen \in Nat /\ m.request.gen <= console.gen
    BY QueueFacts DEF OneAtATime, GenerationsPass, RequestType, MessageType, AnswerType, GrantType,
                      WorkType
  <2> QED
    BY <2>1, GenTyped
<1>8. NoneLeft'
  BY <1>1, <1>4, <1>6, <1>7 DEF NoneLeft, Passed
<1> QED
  BY <1>5, <1>8 DEF AloneInv

LEMMA ConnectAlone == ASSUME Inv, Connect PROVE AloneInv'
BY ToSetEmpty, EmptySeq DEF Connect, AloneInv, Solo, Fitting, NoneLeft

LEMMA PartingAlone ==
    ASSUME Inv, OneAtATime, AloneInv, Inv', Break \/ NodeCrash PROVE AloneInv'
<1>1. UNCHANGED toHost /\ toNode' = <<>> /\ ToSet(toNode') = {} /\ ~up'
  BY ToSetEmpty DEF Break, NodeCrash
<1>2. console.gen < console'.gen /\ console'.gen \in Nat
  <2>1. console'.gen = console.gen + 1
    BY InvParts DEF Break, NodeCrash, ConsoleType, ConsoleRecords
  <2> QED
    BY <2>1, GenTyped
<1>3. Solo' /\ Fitting'
  BY <1>1, <1>2, StillSaid DEF OneAtATime
<1> QED
  BY <1>1, <1>3 DEF AloneInv, NoneLeft

LEMMA HandleResyncAlone ==
    ASSUME Inv, OneAtATime, AloneInv, Inv', HandleResync PROVE AloneInv'
<1>1. /\ toNode # <<>> /\ toNode' = Tail(toNode) /\ UNCHANGED <<toHost, up>>
      /\ Head(toNode).kind = "resync"
  BY DEF HandleResync
<1>2. console.gen < console'.gen /\ console'.gen \in Nat
  BY InvParts DEF HandleResync, Begun, ConsoleType, ConsoleRecords
<1>3. ToSet(toNode') \subseteq ToSet(toNode) /\ toNode[1].kind = "resync" /\ 1 \in 1..Len(toNode)
  BY <1>1, Reads, LeftByReading
<1>4. Solo' /\ Fitting'
  BY <1>1, <1>2, <1>3, StillSaid DEF OneAtATime
<1>5. /\ \A r \in ToSet(toHost) : ~Settling(r)
      /\ \A m \in ToSet(toNode) : m.kind = "answer" => ~Settling(m.request)
  BY <1>3, QueueFacts DEF OneAtATime, ResyncComesFirst
<1>6. NoneLeft'
  BY <1>1, <1>3, <1>5 DEF NoneLeft, Passed, Settling
<1> QED
  BY <1>4, <1>6 DEF AloneInv

\* What the Host says when it has read a request.
HostSays ==
    \E messages \in Seq(MessageType) :
       /\ Told(messages)
       /\ \A i \in 1..Len(messages) :
             /\ messages[i].kind \in {"grant", "answer"}
             /\ messages[i].kind = "answer" =>
                   i = Len(messages) /\ messages[i].request = Head(toHost)

LEMMA ToldReplied ==
    ASSUME Inv, toHost # <<>>, Consumed, HostSays
    PROVE  /\ Replied
           /\ \A i \in 1..Len(toNode') :
                 \/ i \in 1..Len(toNode) /\ toNode'[i] = toNode[i]
                 \/ /\ up /\ toNode'[i].kind \in {"grant", "answer"}
                    /\ toNode'[i].kind = "answer" => toNode'[i].request = Head(toHost)
<1>1. PICK messages \in Seq(MessageType) :
         /\ Told(messages)
         /\ \A i \in 1..Len(messages) :
               /\ messages[i].kind \in {"grant", "answer"}
               /\ messages[i].kind = "answer" =>
                     i = Len(messages) /\ messages[i].request = Head(toHost)
  BY DEF HostSays
<1>2. toHost' = Tail(toHost) /\ Head(toHost) = toHost[1]
  BY QueueFacts DEF Consumed
<1>3. toNode \in Seq(MessageType) /\ Len(toNode) \in Nat
  BY QueueFacts
<1>4. CASE up
  <2>1. toNode' = toNode \o messages
    BY <1>1, <1>4 DEF Told
  <2>2. /\ Len(messages) \in Nat /\ Len(toNode') = Len(toNode) + Len(messages)
        /\ \A i \in 1..(Len(toNode) + Len(messages)) :
              toNode'[i] = IF i <= Len(toNode) THEN toNode[i] ELSE messages[i - Len(toNode)]
    BY <1>1, <1>3, <2>1, ConcatProperties, LenProperties
  <2>3. ASSUME NEW i \in 1..Len(toNode')
        PROVE  \/ i \in 1..Len(toNode) /\ toNode'[i] = toNode[i]
               \/ /\ i > Len(toNode) /\ toNode'[i].kind \in {"grant", "answer"}
                  /\ toNode'[i].kind = "answer" => i = Len(toNode') /\ toNode'[i].request = Head(toHost)
    <3>1. CASE i <= Len(toNode)
      BY <1>3, <2>2, <3>1
    <3>2. CASE i > Len(toNode)
      <4>1. i - Len(toNode) \in 1..Len(messages) /\ toNode'[i] = messages[i - Len(toNode)]
        BY <1>3, <2>2, <3>2
      <4>2. i - Len(toNode) = Len(messages) => i = Len(toNode')
        BY <1>3, <2>2
      <4> QED
        BY <1>1, <3>2, <4>1, <4>2
    <3> QED
      BY <1>3, <2>2, <3>1, <3>2
  <2> QED
    BY <1>2, <1>4, <2>3 DEF Replied
<1>5. CASE ~up
  <2>1. UNCHANGED toNode
    BY <1>1, <1>5 DEF Told
  <2> QED
    BY <1>2, <2>1 DEF Replied
<1> QED
  BY <1>4, <1>5, InvParts DEF WireType

LEMMA HostReadsAlone ==
    ASSUME Inv, AloneInv, Inv', toHost # <<>>, Consumed, HostSays, UNCHANGED <<console, up>>
    PROVE  AloneInv'
<1>1. /\ toNode' \in Seq(MessageType) /\ Len(toNode') \in Nat /\ DOMAIN toNode' = 1..Len(toNode')
  <2>1. toNode' \in Seq(MessageType)
    BY DEF Inv, TypeOK, WireType
  <2> QED
    BY <2>1
<1>2. Solo'
  BY <1>1, ToldReplied, SoloReplied DEF AloneInv
<1>3. Head(toHost) \in ToSet(toHost) /\ ToSet(toHost') \subseteq ToSet(toHost)
  BY InvParts, RequestRead
<1>4. \A m \in ToSet(toNode') : m.kind = "answer" =>
         m \in ToSet(toNode) \/ (up /\ m.request \in ToSet(toHost))
  <2> SUFFICES ASSUME NEW m \in ToSet(toNode'), m.kind = "answer"
               PROVE  m \in ToSet(toNode) \/ (up /\ m.request \in ToSet(toHost))
    OBVIOUS
  <2>1. PICK i \in 1..Len(toNode') : m = toNode'[i]
    BY <1>1 DEF ToSet
  <2> QED
    BY <1>3, <2>1, ToldReplied, QueueFacts
<1> QED
  BY <1>2, <1>3, <1>4, AloneKept DEF AloneInv

LEMMA OneAnswerSays ==
    ASSUME Inv, toHost # <<>>, NEW ok \in BOOLEAN, Told(<<Answer(Head(toHost), ok)>>)
    PROVE  HostSays
<1>1. PICK answer : answer = Answer(Head(toHost), ok)
  OBVIOUS
<1>2. Head(toHost) \in RequestType
  BY QueueFacts
<1>3. answer \in MessageType /\ answer.request = Head(toHost) /\ answer.kind = "answer"
  BY <1>1, <1>2, InvParts, AnswerTyped, AnswerKind
<1>4. <<answer>> \in Seq(MessageType) /\ Len(<<answer>>) = 1 /\ <<answer>>[1] = answer
  BY <1>3
<1>5. \A i \in 1..Len(<<answer>>) :
         /\ <<answer>>[i].kind \in {"grant", "answer"}
         /\ <<answer>>[i].kind = "answer" =>
               i = Len(<<answer>>) /\ <<answer>>[i].request = Head(toHost)
  <2> SUFFICES ASSUME NEW i \in 1..1
               PROVE  /\ <<answer>>[i].kind \in {"grant", "answer"}
                      /\ i = 1 /\ <<answer>>[i].request = Head(toHost)
    BY <1>4
  <2>1. i = 1
    OBVIOUS
  <2> QED
    BY <1>3, <1>4, <2>1
<1> QED
  BY <1>1, <1>4, <1>5 DEF HostSays

LEMMA TakenSaysLast ==
    ASSUME Inv, toHost # <<>>, Consumed, NEW part, NEW ok \in BOOLEAN, TakenPart(part, ok),
           part.controls \subseteq Head(toHost).batch.controls
    PROVE  HostSays
<1>a. PICK grants, answer : grants = FirstGrant(part) /\ answer = Answer(Head(toHost), ok)
  OBVIOUS
<1>1. Head(toHost) \in RequestType
  BY InvParts, RequestRead
<1>2. part.controls \in ControlSets
  <2>1. Head(toHost).batch.controls \in ControlSets
    BY <1>1 DEF RequestType, BatchType
  <2> QED
    BY <2>1, ControlsSubset
<1>3. grants \in Seq(MessageType) /\ \A m \in ToSet(grants) : m.kind = "grant"
  BY <1>a, <1>2, FirstGrantTyped
<1>4. answer \in MessageType /\ answer.kind = "answer" /\ answer.request = Head(toHost)
  BY <1>a, <1>1, InvParts, AnswerTyped, AnswerKind
<1>5. PICK messages : messages = Append(grants, answer)
  OBVIOUS
<1>6. /\ messages \in Seq(MessageType) /\ Len(grants) \in Nat /\ Len(messages) = Len(grants) + 1
      /\ \A i \in 1..Len(grants) : messages[i] = grants[i] /\ grants[i] \in ToSet(grants)
      /\ messages[Len(grants) + 1] = answer
  BY <1>3, <1>4, <1>5 DEF ToSet
<1>7. \A i \in 1..Len(messages) :
             /\ messages[i].kind \in {"grant", "answer"}
             /\ messages[i].kind = "answer" =>
                   i = Len(messages) /\ messages[i].request = Head(toHost)
  <2> SUFFICES ASSUME NEW i \in 1..Len(messages)
               PROVE  \/ messages[i].kind = "grant"
                      \/ /\ messages[i].kind = "answer" /\ i = Len(messages)
                         /\ messages[i].request = Head(toHost)
    OBVIOUS
  <2>1. i \in 1..Len(grants) \/ i = Len(grants) + 1
    BY <1>6
  <2> QED
    BY <1>3, <1>4, <1>6, <2>1
<1>8. Told(messages)
  BY <1>a, <1>5 DEF TakenPart
<1> QED
  BY <1>6, <1>7, <1>8 DEF HostSays

LEMMA HostStepSays ==
    ASSUME Inv, HostInitialize \/ HostReplay \/ HostSynchronized
    PROVE  /\ toHost # <<>> /\ Consumed /\ HostSays /\ UNCHANGED <<console, up>>
<1>1. toHost # <<>> /\ Consumed /\ UNCHANGED <<console, up>>
  BY DEF HostInitialize, HostReplay, HostSynchronized, Receives
<1>2. CASE HostInitialize
  BY <1>1, <1>2, OneAnswerSays DEF HostInitialize
<1>3. CASE HostSynchronized
  <2>1. PICK ok \in BOOLEAN : Told(<<Answer(Head(toHost), ok)>>)
    BY <1>3 DEF HostSynchronized
  <2> QED
    BY <1>1, <2>1, OneAnswerSays
<1>4. CASE HostReplay
  <2>1. CASE Told(<<Answer(Head(toHost), FALSE)>>)
    BY <1>1, <2>1, OneAnswerSays
  <2>2. CASE TakenPart(Whole(Head(toHost).batch), TRUE)
    <3>1. Whole(Head(toHost).batch).controls \subseteq Head(toHost).batch.controls
      BY DEF Whole
    <3> QED
      BY <1>1, <2>2, <3>1, TakenSaysLast
  <2>3. CASE \E e \in Events(Head(toHost).batch) : TakenPart(Ahead(Head(toHost).batch, e), FALSE)
    <3>1. PICK e \in Events(Head(toHost).batch) : TakenPart(Ahead(Head(toHost).batch, e), FALSE)
      BY <2>3
    <3>2. Ahead(Head(toHost).batch, e).controls \subseteq Head(toHost).batch.controls
      BY DEF Ahead
    <3> QED
      BY <1>1, <3>1, <3>2, TakenSaysLast
  <2> QED
    BY <1>4, <2>1, <2>2, <2>3, HostReplayFacts
<1> QED
  BY <1>1, <1>2, <1>3, <1>4

\* What the Host says of itself is no answer.
LEMMA UnaskedAlone ==
    ASSUME Inv, AloneInv, Inv', HostWork \/ RequestResync PROVE AloneInv'
<1>1. UNCHANGED <<console, up, toHost>>
  BY DEF HostWork, RequestResync
<1>2. PICK messages \in Seq(MessageType) :
         Told(messages) /\ \A m \in ToSet(messages) : m.kind # "answer"
  <2>1. CASE HostWork
    BY <2>1, HostWorkSays
  <2>2. CASE RequestResync
    <3>1. [kind |-> "resync"] \in MessageType
      BY DEF MessageType
    <3>2. PICK r : r = [kind |-> "resync"]
      OBVIOUS
    <3>3. <<r>> \in Seq(MessageType) /\ ToSet(<<r>>) = {r} /\ r.kind = "resync"
      BY <3>1, <3>2, OneMessage
    <3>4. Told(<<r>>)
      BY <2>2, <3>2 DEF RequestResync
    <3> QED
      BY <3>3, <3>4
  <2> QED
    BY <2>1, <2>2
<1>3. Left(0)
  <2>1. CASE up
    <3>1. toNode' = toNode \o messages /\ toNode \in Seq(MessageType)
      BY <1>2, <2>1, QueueFacts DEF Told
    <3>2. /\ Len(toNode) \in Nat /\ Len(messages) \in Nat
          /\ Len(toNode') = Len(toNode) + Len(messages)
          /\ \A i \in 1..(Len(toNode) + Len(messages)) :
                toNode'[i] = IF i <= Len(toNode) THEN toNode[i] ELSE messages[i - Len(toNode)]
      BY <3>1, ConcatProperties, LenProperties
    <3>3. \A i \in 1..Len(messages) : messages[i].kind # "answer"
      BY <1>2 DEF ToSet
    <3> SUFFICES ASSUME NEW i \in 1..Len(toNode'), toNode'[i].kind = "answer"
                 PROVE  i \in 1..Len(toNode) /\ toNode'[i] = toNode[i]
      BY <3>2 DEF Left
    <3>4. CASE i <= Len(toNode)
      BY <3>2, <3>4
    <3>5. CASE i > Len(toNode)
      <4>1. i - Len(toNode) \in 1..Len(messages) /\ toNode'[i] = messages[i - Len(toNode)]
        BY <3>2, <3>5
      <4> QED
        BY <3>3, <4>1
    <3> QED
      BY <3>2, <3>4, <3>5
  <2>2. CASE ~up
    BY <1>2, <2>2, LeftAsItWas DEF Told
  <2> QED
    BY <2>1, <2>2, InvParts DEF WireType
<1> QED
  BY <1>1, <1>3, QuietAlone

LEMMA NextAlone ==
    ASSUME ConsoleBounds, Inv, OneAtATime, AloneInv, Inv', [Next]_vars PROVE AloneInv'
<1>1. CASE UNCHANGED vars
  <2>1. UNCHANGED <<console, up, toHost, toNode>>
    BY <1>1 DEF vars
  <2> QED
    BY <2>1, LeftAsItWas, QuietAlone
<1>2. CASE Emit \/ TurnEnds \/ AgentEnds \/ LocalPrompt \/ CancelQueued
  BY <1>2, LocalAlone
<1>3. CASE NodeStep
  <2>1. CASE NodeReads
    BY <2>1, LocalAlone, ReadingAlone, HandleGrantsAlone, HandleReplayedAlone,
       HandleSynchronizedAlone, HandleRefusalAlone, HandleResyncAlone DEF NodeReads
  <2> QED
    BY <1>3, <2>1, LocalAlone, PumpLiveAlone, InitializeAlone DEF NodeStep
<1>4. CASE RequestTimesOut \/ Connect \/ Break \/ NodeCrash
  BY <1>4, RequestTimesOutAlone, ConnectAlone, PartingAlone
<1>5. CASE HostStep
  BY <1>5, HostStepSays, HostReadsAlone DEF HostStep
<1>6. CASE HostWork \/ RequestResync
  BY <1>6, UnaskedAlone
<1> QED
  BY <1>1, <1>2, <1>3, <1>4, <1>5, <1>6 DEF Next

LEMMA InitAlone == ASSUME Init PROVE AloneInv
BY ToSetEmpty, EmptySeq DEF Init, AloneInv, Solo, Fitting, NoneLeft

-----------------------------------------------------------------------------
(* What the Host hears of the local prompts.  A state of an operation that  *)
(* was said is one it had or has (Faithful); with each batch, the Host has  *)
(* the receipts of what began before the last event of the batch (Governed),*)
(* for what was not said yet goes along, ahead of the events.               *)

Done == {"settled", "uncertain", "rejected"}
Under(op) == op.state \notin {"none", "queued"}
Given(o) == ops[o].state # "none"

\* The state is one of the operation as it is, not of one that was queued and has
\* begun since.
Now(o, op) == op.epoch = ops[o].epoch

Faithful(o, op) ==
    /\ op.state # "none"
    /\ \/ op.epoch < ops[o].epoch /\ op.state = "queued"
       \/ /\ Now(o, op) /\ op.after = ops[o].after /\ Given(o)
          /\ Under(op) => Under(ops[o])
          /\ Begins(ops[o]) => Under(op)
          /\ op.state \in Done => ops[o].state \in Done

\* What a request says of operations.
Copied(r) ==
    /\ \A c \in r.batch.controls \cup r.rest : Faithful(c.id, c.op)
    /\ \A c, d \in r.batch.controls \cup r.rest : c.id = d.id => c = d
    /\ \A c, d \in r.batch.controls : d.op.epoch <= c.op.epoch => d.op.after <= c.op.after

Copies ==
    /\ \A r \in ToSet(toHost) : Copied(r)
    /\ \A m \in ToSet(toNode) : m.kind = "answer" => Copied(m.request)
    /\ \A o \in Ops : hostOps[o].state = "none" => hostOps[o].epoch = 0
    /\ \A o \in Ops : hostOps[o].state # "none" => Faithful(o, hostOps[o])

\* The order operations took control in is the order of the events between them.
OpsInOrder ==
    /\ hostEpoch <= epoch
    /\ \A o \in Ops : ops[o].epoch <= epoch /\ ops[o].after <= Water
    /\ \A o \in Ops : IF Given(o) THEN ops[o].epoch # 0 ELSE ops[o] = NoOp
    /\ \A o, p \in Ops : Given(o) /\ ops[o].epoch = ops[p].epoch => o = p
    /\ \A o, p \in Ops : Given(o) /\ ops[o].epoch <= ops[p].epoch => ops[o].after <= ops[p].after

\* The Host has heard of the operation as it is, or will by the time it has read
\* the first `i` requests.
Heard(o) == Now(o, hostOps[o]) /\ (Begins(ops[o]) => o \in receipts)

Carries(r, o) == r.kind = "replay" /\ \E c \in r.batch.controls : c.id = o /\ Now(o, c.op)

Unbroken(queue, i, j) == \A k \in i..j : queue[k].kind # "initialize"

Covered(o, i) ==
    \/ Heard(o)
    \/ peer.failed /\ Unbroken(toHost, 1, i)
    \/ \E j \in 1..i : Carries(toHost[j], o) /\ Unbroken(toHost, j, i)

\* What the batch brings is later than where the operation began, or than another.
Needs(r, o) ==
    /\ Given(o)
    /\ \/ ops[o].after < r.batch.through /\ r.batch.from < r.batch.through
       \/ \E c \in r.batch.controls : ops[o].epoch <= c.op.epoch

Governed ==
    \A i \in 1..Len(toHost) : toHost[i].kind = "replay" =>
       \A o \in Ops : Needs(toHost[i], o) => Covered(o, i)

\* What the pump and the console hold for said.
Shown ==
    \A o \in Ops : /\ live.states[o].epoch <= ops[o].epoch
                   /\ Given(o) /\ Now(o, live.states[o]) => Covered(o, Len(toHost))
ToldIsHeard ==
    \A o \in Ops : /\ console.told[o].epoch <= ops[o].epoch
                   /\ Given(o) /\ Now(o, console.told[o]) => Heard(o)
AnsweredIsHeard ==
    \A m \in ToSet(toNode) : m.kind = "answer" /\ m.request.kind = "replay" /\ m.ok =>
       \A c \in m.request.batch.controls : Now(c.id, c.op) => Heard(c.id)

\* What the synchronization under way has still to say.
LeftToSay(r) ==
    r.flow = "sync" /\ Current(r) /\ r.kind = "replay" =>
       /\ \A c \in r.batch.controls \cup r.rest : Now(c.id, c.op)
       /\ \A o \in Ops : Given(o) => Heard(o) \/ \E c \in r.rest : c.id = o
RestIsLeft ==
    /\ \A r \in ToSet(toHost) : LeftToSay(r)
    /\ \A m \in ToSet(toNode) : m.kind = "answer" => LeftToSay(m.request)

\* A pump that is not told of changed operations has said them all.
PumpKnows ==
    /\ console.status = "syncing" /\ console.granted => live.dirty
    /\ console.status = "online" /\ console.granted /\ ~live.dirty =>
          \A o \in Ops : Given(o) => Now(o, live.states[o])
    /\ console.joining => \A o \in Ops : live.states[o] = NoOp

HeardFirst ==
    \A o \in Ops : Given(o) /\ ~Heard(o) =>
       ops[o].epoch > hostEpoch /\ \A e \in stored : e.seq <= ops[o].after

\* A prompt the Host sends has no local prompt beside it that it had heard of.
FreeFor(w) ==
    w.kind = "work" =>
       /\ w.epoch <= epoch
       /\ w.task = "prompt" => \A o \in Ops : Given(o) /\ ops[o].epoch <= w.epoch =>
             ops[o].state \in Done /\ (Begins(ops[o]) => o \in receipts)
PromptsAreFree ==
    (\A w \in ToSet(toNode) : FreeFor(w)) /\ (\A w \in ToSet(admitting) : FreeFor(w))

ControlInv ==
    /\ Copies /\ OpsInOrder /\ Governed /\ Shown /\ ToldIsHeard /\ AnsweredIsHeard
    /\ RestIsLeft /\ PumpKnows /\ HeardFirst /\ PromptsAreFree

-----------------------------------------------------------------------------
(* What a step does to an operation                                        *)

Kept(o) ==
    /\ ops'[o].epoch = ops[o].epoch /\ ops'[o].after = ops[o].after
    /\ Given(o)' = Given(o) /\ (~Given(o) => ops'[o] = ops[o])
    /\ Begins(ops'[o]) => Begins(ops[o])
    /\ Under(ops[o]) => Under(ops'[o])
    /\ ops[o].state \in Done => ops'[o].state \in Done

Renewed(o) ==
    /\ ops[o].state \in {"none", "queued"} /\ ops'[o].state \in {"queued", "accepted"}
    /\ ops'[o].epoch = epoch + 1 /\ epoch' = epoch + 1
    /\ Water <= ops'[o].after /\ ops'[o].after = Water'
    /\ console.status # "syncing" /\ console'.status = console.status
    /\ live'.dirty

Moves ==
    /\ epoch \in Nat /\ epoch' \in Nat /\ epoch <= epoch'
    /\ Water \in Nat /\ Water' \in Nat /\ Water <= Water'
    /\ ops' \in [Ops -> OpType]
    /\ \A o \in Ops : Kept(o) \/ (Renewed(o) /\ \A p \in Ops \ {o} : Kept(p))

LEMMA SameMoves ==
    ASSUME Inv, Inv', UNCHANGED ops, epoch <= epoch', Water <= Water'
    PROVE  Moves
<1>1. epoch \in Nat /\ epoch' \in Nat /\ Water \in Nat /\ Water' \in Nat /\ ops' \in [Ops -> OpType]
  BY InvParts, WaterTyped DEF JournalType, Inv, TypeOK, Water
<1>2. \A o \in Ops : Kept(o)
  BY DEF Kept, Given, Under
<1> QED
  BY <1>1, <1>2 DEF Moves

LEMMA OpFields == ASSUME Inv PROVE \A o \in Ops : /\ ops[o].epoch \in Nat /\ ops[o].after \in Nat
                                                /\ ops[o].state \in OpStates /\ ops[o] \in OpType
<1>1. ops \in [Ops -> OpType]
  BY InvParts DEF JournalType
<1> QED
  BY <1>1 DEF OpType

LEMMA OpsInOrderKept ==
    ASSUME Inv, OpsInOrder, Moves, hostEpoch' \in Nat, hostEpoch' <= epoch'
    PROVE  OpsInOrder'
<1>1. \A o \in Ops : /\ ops[o].epoch \in Nat /\ ops[o].after \in Nat
                     /\ ops'[o].epoch \in Nat /\ ops'[o].after \in Nat
  BY OpFields DEF Moves, OpType
<1>2. ASSUME NEW o \in Ops
      PROVE  ops'[o].epoch <= epoch' /\ ops'[o].after <= Water'
  <2>1. CASE Kept(o)
    BY <1>1, <2>1 DEF OpsInOrder, Kept, Moves
  <2>2. CASE Renewed(o)
    BY <1>1, <2>2 DEF Renewed, Moves
  <2> QED
    BY <2>1, <2>2 DEF Moves
<1>3. ASSUME NEW o \in Ops
      PROVE  IF Given(o)' THEN ops'[o].epoch # 0 ELSE ops'[o] = NoOp
  <2>1. CASE Kept(o)
    BY <2>1 DEF OpsInOrder, Kept
  <2>2. CASE Renewed(o)
    BY <2>2 DEF Renewed, Moves, Given
  <2> QED
    BY <2>1, <2>2 DEF Moves
<1>4. ASSUME NEW o \in Ops, NEW p \in Ops, Given(o)', o # p
      PROVE  /\ ops'[o].epoch # ops'[p].epoch
             /\ ops'[o].epoch <= ops'[p].epoch => ops'[o].after <= ops'[p].after
  <2>1. CASE Kept(o) /\ Kept(p)
    BY <1>4, <2>1 DEF OpsInOrder, Kept
  <2>2. CASE Renewed(o) /\ Kept(p)
    BY <1>1, <2>2 DEF OpsInOrder, Kept, Renewed, Moves
  <2>3. CASE Renewed(p) /\ Kept(o)
    BY <1>1, <2>3 DEF OpsInOrder, Kept, Renewed, Moves
  <2> QED
    BY <1>4, <2>1, <2>2, <2>3 DEF Moves
<1> QED
  BY <1>1, <1>2, <1>3, <1>4 DEF OpsInOrder

LEMMA FaithfulStays ==
    ASSUME Inv, OpsInOrder, Moves, NEW o \in Ops, NEW op \in OpType, Faithful(o, op)
    PROVE  Faithful(o, op)'
<1>1. op.epoch \in Nat /\ ops[o].epoch \in Nat /\ op.state \in OpStates
  BY OpFields DEF OpType
<1>2. CASE Kept(o)
  BY <1>2 DEF Faithful, Kept, Now
<1>3. CASE Renewed(o)
  <2>1. op.state = "queued"
    BY <1>1, <1>3 DEF Faithful, Renewed, Under, OpStates
  <2>2. op.epoch < ops'[o].epoch
    BY <1>1, <1>3 DEF Faithful, Renewed, Moves, OpsInOrder, Now
  <2> QED
    BY <2>1, <2>2 DEF Faithful
<1> QED
  BY <1>2, <1>3 DEF Moves

LEMMA ControlsTyped ==
    ASSUME NEW r \in RequestType
    PROVE  /\ \A c \in r.batch.controls \cup r.rest :
                 /\ c.id \in Ops /\ c.op \in OpType
                 /\ c.op.epoch \in Nat /\ c.op.after \in Nat /\ c.op.state \in OpStates
           /\ r.batch.controls \in ControlSets /\ r.rest \in ControlSets
           /\ r.batch.from \in Nat /\ r.batch.through \in Nat /\ r.batch \in BatchType
           /\ r.gen \in Nat /\ r.kind \in {"initialize", "replay", "synchronized"}
<1>1. r.batch.controls \in ControlSets /\ r.rest \in ControlSets
  BY DEF RequestType, BatchType
<1>2. \A c \in r.batch.controls \cup r.rest : c \in ControlType
  BY <1>1 DEF ControlSets
<1> QED
  BY <1>1, <1>2 DEF ControlType, OpType, RequestType, BatchType

LEMMA CopiedStays ==
    ASSUME Inv, OpsInOrder, Moves, NEW r \in RequestType, Copied(r)
    PROVE  Copied(r)'
<1>1. \A c \in r.batch.controls \cup r.rest : Faithful(c.id, c.op)'
  BY ControlsTyped, FaithfulStays DEF Copied
<1> QED
  BY <1>1 DEF Copied

\* A copy is not newer than what it is of.
LEMMA CopyIsOld ==
    ASSUME Inv, OpsInOrder, NEW o \in Ops, NEW op \in OpType, Faithful(o, op)
    PROVE  op.epoch <= ops[o].epoch /\ op.epoch <= epoch /\ Given(o)
<1>1. op.epoch \in Nat /\ ops[o].epoch \in Nat /\ epoch \in Nat /\ ops[o].state \in OpStates
  BY OpFields, InvParts DEF OpType, JournalType
<1>2. op.epoch <= ops[o].epoch /\ op.epoch <= epoch
  BY <1>1 DEF Faithful, Now, OpsInOrder
<1>3. Given(o)
  <2>1. CASE op.epoch < ops[o].epoch
    <3>1. ops[o].epoch # 0
      BY <1>1, <2>1
    <3> QED
      BY <3>1 DEF OpsInOrder, NoOp
  <2> QED
    BY <2>1 DEF Faithful
<1> QED
  BY <1>2, <1>3

-----------------------------------------------------------------------------
(* What the Node does while the Host reads nothing                         *)

\* The queue is as it was, but for what is put behind it.
Extends ==
    /\ Len(toHost') \in Nat /\ Len(toHost) <= Len(toHost')
    /\ \A i \in 1..Len(toHost) : toHost'[i] = toHost[i]

LEMMA KeptNow ==
    ASSUME NEW o \in Ops, Kept(o)
    PROVE  /\ \A op : Now(o, op)' <=> Now(o, op)
           /\ Given(o)' <=> Given(o)
           /\ UNCHANGED hostVars /\ Heard(o) => Heard(o)'
BY DEF Kept, Now, Heard, hostVars

LEMMA CoveredStays ==
    ASSUME Inv, UNCHANGED hostVars, Extends, NEW o \in Ops, Kept(o),
           NEW i \in 0..Len(toHost), Covered(o, i)
    PROVE  Covered(o, i)'
<1>1. Len(toHost) \in Nat
  BY QueueFacts
<1>2. \A k \in 1..i : k \in 1..Len(toHost) /\ toHost'[k] = toHost[k]
  BY <1>1 DEF Extends
<1>3. CASE Heard(o)
  BY <1>3, KeptNow DEF Covered
<1>4. CASE peer.failed /\ Unbroken(toHost, 1, i)
  BY <1>2, <1>4 DEF Covered, Unbroken, hostVars
<1>5. CASE \E j \in 1..i : Carries(toHost[j], o) /\ Unbroken(toHost, j, i)
  <2>1. PICK j \in 1..i : Carries(toHost[j], o) /\ Unbroken(toHost, j, i)
    BY <1>5
  <2>2. Carries(toHost[j], o)'
    BY <1>2, <2>1, KeptNow DEF Carries
  <2>3. \A k \in j..i : k \in 1..i
    BY <1>1
  <2>4. Unbroken(toHost, j, i)'
    BY <1>2, <2>1, <2>3 DEF Unbroken
  <2> QED
    BY <2>2, <2>4 DEF Covered
<1> QED
  BY <1>3, <1>4, <1>5 DEF Covered

\* One more request that begins no synchronization.
LEMMA CoveredByNext ==
    ASSUME Inv, NEW r \in RequestType, toHost' = Append(toHost, r), r.kind # "initialize",
           UNCHANGED hostVars, NEW o \in Ops, Kept(o), Covered(o, Len(toHost))
    PROVE  Covered(o, Len(toHost))'
<1>a. PICK n : n = Len(toHost)
  OBVIOUS
<1>1. /\ n \in Nat /\ Len(toHost') = n + 1
      /\ \A i \in 1..n : toHost'[i] = toHost[i]
      /\ toHost'[n + 1] = r
  BY <1>a, QueueFacts
<1>2. Extends /\ n \in 0..n
  BY <1>a, <1>1 DEF Extends
<1>3. Covered(o, n)'
  BY <1>a, <1>2, CoveredStays
<1>4. ASSUME NEW j \in 1..(n + 1), Unbroken(toHost, j, n)'
      PROVE  Unbroken(toHost, j, n + 1)'
  <2> SUFFICES ASSUME NEW k \in j..(n + 1) PROVE toHost'[k].kind # "initialize"
    BY DEF Unbroken
  <2>1. k \in j..n \/ k = n + 1
    BY <1>1
  <2> QED
    BY <1>1, <1>4, <2>1 DEF Unbroken
<1>5. 1 \in 1..(n + 1) /\ \A j \in 1..n : j \in 1..(n + 1)
  BY <1>1
<1>6. Covered(o, n + 1)'
  BY <1>3, <1>4, <1>5 DEF Covered
<1> QED
  BY <1>1, <1>6 DEF Covered

LEMMA StoredIsEarly ==
    ASSUME Inv, StoredIsPrefix PROVE \A e \in stored : e.seq \in Nat /\ e.seq <= Water
<1>1. Have \in Nat /\ Have <= Water /\ Water \in Nat /\ stored = PrefixOf(Have)
  BY InvParts DEF StoredIsPrefix
<1>2. \A e \in PrefixOf(Have) : e.seq \in 1..Have
  BY DEF PrefixOf
<1> QED
  BY <1>1, <1>2

LEMMA HeardFirstStays ==
    ASSUME Inv, StoredIsPrefix, OpsInOrder, HeardFirst, Moves, UNCHANGED hostVars
    PROVE  HeardFirst'
<1>1. hostEpoch \in Nat /\ \A e \in stored : e.seq \in Nat /\ e.seq <= Water
  BY InvParts, StoredIsEarly DEF HostType
<1>2. ASSUME NEW o \in Ops, Given(o)', ~Heard(o)'
      PROVE  ops'[o].epoch > hostEpoch /\ \A e \in stored : e.seq <= ops'[o].after
  <2>1. CASE Kept(o)
    BY <1>2, <2>1, KeptNow DEF HeardFirst, Kept
  <2>2. CASE Renewed(o)
    <3>1. ops'[o].epoch = epoch + 1 /\ hostEpoch <= epoch /\ epoch \in Nat /\ Water <= ops'[o].after
          /\ ops'[o].after \in Nat /\ Water \in Nat
      BY <2>2 DEF Renewed, OpsInOrder, Moves
    <3>2. ops'[o].epoch > hostEpoch
      BY <1>1, <3>1
    <3>3. \A e \in stored : e.seq <= ops'[o].after
      BY <1>1, <3>1
    <3> QED
      BY <3>2, <3>3
  <2> QED
    BY <2>1, <2>2 DEF Moves
<1> QED
  BY <1>2 DEF HeardFirst, hostVars

LEMMA GovernedStays ==
    ASSUME Inv, OpsInOrder, Copies, Governed, Moves, UNCHANGED hostVars, Extends,
           NEW i \in 1..Len(toHost), toHost[i].kind = "replay", NEW o \in Ops,
           Needs(toHost[i], o)'
    PROVE  Covered(o, i)'
<1>1. toHost'[i] = toHost[i] /\ toHost[i] \in ToSet(toHost) /\ toHost[i] \in RequestType
      /\ Len(toHost) \in Nat
  BY QueueFacts DEF Extends
<1>a. PICK r : r = toHost[i]
  OBVIOUS
<1>2. CASE Kept(o)
  <2>1. Needs(toHost[i], o)
    BY <1>1, <1>2 DEF Needs, Kept
  <2>2. Covered(o, i) /\ i \in 0..Len(toHost)
    BY <1>1, <2>1 DEF Governed
  <2> QED
    BY <1>2, <2>2, CoveredStays
<1>3. CASE Renewed(o)
  <2>1. r.batch.through <= Water /\ r.batch.through \in Nat
    BY <1>a, <1>1, InvParts, ControlsTyped DEF WiresFine, RequestFine, Segment, Water
  <2>2. \A c \in r.batch.controls : c.op.epoch \in Nat /\ c.op.epoch <= epoch
    BY <1>a, <1>1, ControlsTyped, CopyIsOld DEF Copies, Copied
  <2>3. /\ ops'[o].epoch = epoch + 1 /\ epoch \in Nat /\ Water <= ops'[o].after
        /\ ops'[o].after \in Nat /\ Water \in Nat
    BY <1>3 DEF Renewed, Moves
  <2>4. ~(ops'[o].after < r.batch.through)
    BY <2>1, <2>3
  <2>5. \A c \in r.batch.controls : ~(ops'[o].epoch <= c.op.epoch)
    BY <2>2, <2>3
  <2>6. ~Needs(r, o)'
    BY <2>4, <2>5 DEF Needs
  <2> QED
    BY <1>a, <1>1, <2>6 DEF Needs
<1> QED
  BY <1>2, <1>3 DEF Moves

LEMMA LeftStays ==
    ASSUME Inv, Moves, UNCHANGED hostVars, console'.gen = console.gen,
           NEW r \in RequestType, Fits(r), LeftToSay(r)
    PROVE  LeftToSay(r)'
<1> SUFFICES ASSUME r.flow = "sync", Current(r), r.kind = "replay"
             PROVE  /\ \A c \in r.batch.controls \cup r.rest : Now(c.id, c.op)'
                    /\ \A o \in Ops : Given(o)' => Heard(o)' \/ \E c \in r.rest : c.id = o
  BY DEF LeftToSay, Current
<1>1. \A o \in Ops : Kept(o)
  BY DEF Fits, Moves, Renewed
<1>2. \A c \in r.batch.controls \cup r.rest : Now(c.id, c.op)'
  BY <1>1, ControlsTyped, KeptNow DEF LeftToSay
<1> QED
  BY <1>1, <1>2, KeptNow DEF LeftToSay

LEMMA AnswerIn ==
    ASSUME Inv, NEW m \in ToSet(toNode), m.kind = "answer"
    PROVE  m \in AnswerType /\ m.request \in RequestType
BY QueueFacts DEF MessageType, AnswerType, GrantType, WorkType

LEMMA WorkIn ==
    ASSUME Inv, NEW w \in ToSet(toNode) \cup ToSet(admitting), w.kind = "work"
    PROVE  w.epoch \in Nat
<1>1. admitting \in Seq(WorkType)
  BY InvParts DEF NodeType
<1>2. CASE w \in ToSet(admitting)
  <2>1. w \in WorkType
    BY <1>1, <1>2, ToSetMember
  <2> QED
    BY <2>1 DEF WorkType
<1>3. CASE w \in ToSet(toNode)
  BY <1>3, QueueFacts DEF MessageType, AnswerType, GrantType, WorkType
<1> QED
  BY <1>2, <1>3

LEMMA CopiesStay ==
    ASSUME Inv, Inv', OpsInOrder, Copies, Moves, UNCHANGED hostOps,
           \A r \in ToSet(toHost') : r \in ToSet(toHost) \/ Copied(r)',
           \A m \in ToSet(toNode') : m \in ToSet(toNode)
    PROVE  Copies'
<1>1. \A r \in ToSet(toHost) : r \in RequestType
  BY QueueFacts
<1>2. \A r \in ToSet(toHost') : Copied(r)'
  BY <1>1, CopiedStays DEF Copies
<1>3. \A m \in ToSet(toNode') : m.kind = "answer" => Copied(m.request)'
  BY AnswerIn, CopiedStays DEF Copies
<1>4. \A o \in Ops : hostOps[o] \in OpType
  BY InvParts DEF HostType
<1>5. \A o \in Ops : hostOps[o].state # "none" => Faithful(o, hostOps[o])'
  <2> SUFFICES ASSUME NEW o \in Ops, hostOps[o].state # "none" PROVE Faithful(o, hostOps[o])'
    OBVIOUS
  <2>1. PICK op \in OpType : op = hostOps[o]
    BY <1>4
  <2>2. Faithful(o, op)'
    BY <2>1, FaithfulStays DEF Copies
  <2> QED
    BY <2>1, <2>2 DEF Faithful, Now, Given
<1> QED
  BY <1>2, <1>3, <1>5 DEF Copies

LEMMA AnsweredStays ==
    ASSUME Inv, OpsInOrder, Copies, AnsweredIsHeard, Moves, UNCHANGED hostVars,
           \A m \in ToSet(toNode') : m \in ToSet(toNode)
    PROVE  AnsweredIsHeard'
<1> SUFFICES ASSUME NEW m \in ToSet(toNode), m.kind = "answer", m.request.kind = "replay", m.ok,
                    NEW c \in m.request.batch.controls, Now(c.id, c.op)'
             PROVE  Heard(c.id)'
  BY DEF AnsweredIsHeard
<1>1. m.request \in RequestType /\ Copied(m.request)
  BY AnswerIn DEF Copies
<1>2. c.id \in Ops /\ c.op \in OpType /\ c.op.epoch \in Nat /\ Faithful(c.id, c.op)
  BY <1>1, ControlsTyped DEF Copied
<1>3. c.op.epoch <= epoch
  BY <1>2, CopyIsOld
<1>4. ~Renewed(c.id)
  BY <1>2, <1>3 DEF Renewed, Now, Moves
<1>5. Kept(c.id)
  BY <1>2, <1>4 DEF Moves
<1> QED
  BY <1>2, <1>5, KeptNow DEF AnsweredIsHeard

LEMMA FreeStays ==
    ASSUME Inv, Moves, UNCHANGED receipts, NEW w, w.kind = "work" => w.epoch \in Nat, FreeFor(w)
    PROVE  FreeFor(w)'
<1> SUFFICES ASSUME w.kind = "work"
             PROVE  /\ w.epoch <= epoch'
                    /\ w.task = "prompt" => \A o \in Ops : Given(o)' /\ ops'[o].epoch <= w.epoch =>
                          ops'[o].state \in Done /\ (Begins(ops'[o]) => o \in receipts)
  BY DEF FreeFor
<1>1. w.epoch \in Nat /\ w.epoch <= epoch
  BY DEF FreeFor
<1>2. ASSUME NEW o \in Ops, Given(o)', ops'[o].epoch <= w.epoch, w.task = "prompt"
      PROVE  ops'[o].state \in Done /\ (Begins(ops'[o]) => o \in receipts)
  <2>1. ~Renewed(o)
    BY <1>1, <1>2 DEF Renewed, Moves
  <2>2. Kept(o)
    BY <2>1 DEF Moves
  <2> QED
    BY <1>2, <2>2 DEF FreeFor, Kept
<1> QED
  BY <1>1, <1>2 DEF Moves

LEMMA NodeControl ==
    ASSUME Inv, Inv', StoredIsPrefix, AloneInv, ControlInv, Moves, UNCHANGED hostVars, Extends,
           \A r \in ToSet(toHost') : r \in ToSet(toHost) \/ (Copied(r)' /\ LeftToSay(r)'),
           \A i \in 1..Len(toHost') : i > Len(toHost) /\ toHost'[i].kind = "replay" =>
              \A o \in Ops : Needs(toHost[i], o)' => Covered(o, i)',
           \A m \in ToSet(toNode') : m \in ToSet(toNode),
           \A w \in ToSet(admitting') : w \in ToSet(toNode) \cup ToSet(admitting),
           \/ console'.gen = console.gen
           \/ /\ \A r \in ToSet(toHost') : ~Current(r)'
              /\ \A m \in ToSet(toNode') : ~AnswersCurrent(m)',
           Shown', ToldIsHeard', PumpKnows'
    PROVE  ControlInv'
<1>1. /\ Copies /\ OpsInOrder /\ Governed /\ AnsweredIsHeard /\ RestIsLeft /\ HeardFirst
      /\ PromptsAreFree
  BY DEF ControlInv
<1>2. Copies'
  BY <1>1, CopiesStay DEF hostVars
<1>3. OpsInOrder'
  <2>1. hostEpoch' = hostEpoch /\ hostEpoch \in Nat /\ hostEpoch <= epoch
    BY <1>1, InvParts DEF OpsInOrder, HostType, hostVars
  <2>2. hostEpoch' \in Nat /\ hostEpoch' <= epoch'
    BY <2>1 DEF Moves
  <2> QED
    BY <1>1, <2>2, OpsInOrderKept
<1>4. Governed'
  <2>1. ASSUME NEW i \in 1..Len(toHost'), toHost'[i].kind = "replay", NEW o \in Ops,
               Needs(toHost[i], o)'
        PROVE  Covered(o, i)'
    <3>1. CASE i \in 1..Len(toHost)
      <4>1. toHost[i].kind = "replay"
        BY <2>1, <3>1 DEF Extends
      <4> QED
        BY <1>1, <2>1, <3>1, <4>1, GovernedStays
    <3>2. CASE i > Len(toHost)
      BY <2>1, <3>2
    <3> QED
      BY <3>1, <3>2, QueueFacts
  <2> QED
    BY <2>1 DEF Governed
<1>5. AnsweredIsHeard'
  BY <1>1, AnsweredStays
<1>6. RestIsLeft'
  <2>1. CASE console'.gen = console.gen
    <3>1. ASSUME NEW r \in ToSet(toHost) PROVE LeftToSay(r)'
      <4>1. r \in RequestType /\ Fits(r) /\ LeftToSay(r)
        BY <1>1, QueueFacts DEF AloneInv, Fitting, RestIsLeft
      <4> QED
        BY <2>1, <4>1, LeftStays
    <3>2. ASSUME NEW m \in ToSet(toNode), m.kind = "answer" PROVE LeftToSay(m.request)'
      <4>1. m.request \in RequestType /\ Fits(m.request) /\ LeftToSay(m.request)
        BY <1>1, <3>2, AnswerIn DEF AloneInv, Fitting, RestIsLeft
      <4> QED
        BY <2>1, <4>1, LeftStays
    <3> QED
      BY <3>1, <3>2 DEF RestIsLeft
  <2>2. CASE /\ \A r \in ToSet(toHost') : ~Current(r)'
             /\ \A m \in ToSet(toNode') : ~AnswersCurrent(m)'
    BY <2>2 DEF RestIsLeft, LeftToSay, AnswersCurrent
  <2> QED
    BY <2>1, <2>2
<1>7. HeardFirst'
  BY <1>1, HeardFirstStays
<1>8. PromptsAreFree'
  <2>1. \A w \in ToSet(toNode) \cup ToSet(admitting) : FreeFor(w)'
    BY <1>1, WorkIn, FreeStays DEF PromptsAreFree, hostVars
  <2> QED
    BY <2>1 DEF PromptsAreFree
<1> QED
  BY <1>2, <1>3, <1>4, <1>5, <1>6, <1>7, <1>8 DEF ControlInv

LEMMA NothingSaid ==
    ASSUME Inv, OpsInOrder
    PROVE  \A o \in Ops : NoOp.epoch <= ops[o].epoch /\ ~(Given(o) /\ Now(o, NoOp))
<1>1. NoOp.epoch = 0 /\ \A o \in Ops : ops[o].epoch \in Nat
  BY OpFields DEF NoOp
<1> QED
  BY <1>1 DEF OpsInOrder, Now

\* What is held for said of one operation.
LEMMA SaidStays ==
    ASSUME Inv, OpsInOrder, Moves, NEW o \in Ops, NEW op \in OpType, op.epoch <= ops[o].epoch
    PROVE  /\ op.epoch <= ops'[o].epoch
           /\ Given(o)' /\ Now(o, op)' => Kept(o) /\ Given(o) /\ Now(o, op)
<1>1. op.epoch \in Nat /\ ops[o].epoch \in Nat /\ ops[o].epoch <= epoch /\ epoch \in Nat
  BY OpFields, InvParts DEF OpType, OpsInOrder, JournalType
<1>2. CASE Kept(o)
  BY <1>2, KeptNow DEF Kept
<1>3. CASE Renewed(o)
  <2>1. ops'[o].epoch = epoch + 1
    BY <1>3 DEF Renewed
  <2> QED
    BY <1>1, <2>1 DEF Now
<1> QED
  BY <1>2, <1>3 DEF Moves

LEMMA ToldStays ==
    ASSUME Inv, OpsInOrder, ToldIsHeard, Moves, UNCHANGED hostVars,
           console'.told = console.told \/ console'.told = [o \in Ops |-> NoOp]
    PROVE  ToldIsHeard'
<1> SUFFICES ASSUME NEW o \in Ops
             PROVE  /\ console'.told[o].epoch <= ops'[o].epoch
                    /\ Given(o)' /\ Now(o, console.told[o])' => Heard(o)'
  BY DEF ToldIsHeard
<1>1. console.told[o] \in OpType /\ NoOp \in OpType
  BY InvParts DEF ConsoleType, ConsoleRecords, NoOp, OpType, OpStates
<1>2. ASSUME NEW op \in OpType, op = console'.told[o], op.epoch <= ops[o].epoch,
             Given(o) /\ Now(o, op) => Heard(o)
      PROVE  /\ console'.told[o].epoch <= ops'[o].epoch
             /\ Given(o)' /\ Now(o, console.told[o])' => Heard(o)'
  <2>1. /\ op.epoch <= ops'[o].epoch
        /\ Given(o)' /\ Now(o, op)' => Heard(o)'
    BY <1>2, SaidStays, KeptNow
  <2> QED
    BY <1>2, <2>1 DEF Now
<1>3. CASE console'.told[o] = console.told[o]
  BY <1>1, <1>2, <1>3 DEF ToldIsHeard
<1>4. CASE console'.told[o] = NoOp
  BY <1>1, <1>2, <1>4, NothingSaid
<1> QED
  BY <1>3, <1>4

LEMMA ShownStays ==
    ASSUME Inv, OpsInOrder, Shown, Moves, UNCHANGED <<hostVars, toHost>>,
           live'.states = live.states \/ live'.states = [o \in Ops |-> NoOp]
    PROVE  Shown'
<1> SUFFICES ASSUME NEW o \in Ops
             PROVE  /\ live'.states[o].epoch <= ops'[o].epoch
                    /\ Given(o)' /\ Now(o, live.states[o])' => Covered(o, Len(toHost))'
  BY DEF Shown
<1>a. PICK n : n = Len(toHost)
  OBVIOUS
<1>0. n \in 0..Len(toHost) /\ Extends /\ n = Len(toHost')
  BY <1>a, QueueFacts DEF Extends
<1>1. live.states[o] \in OpType /\ NoOp \in OpType
  BY InvParts DEF LiveType, LiveRecords, NoOp, OpType, OpStates
<1>2. ASSUME NEW op \in OpType, op = live'.states[o], op.epoch <= ops[o].epoch,
             Given(o) /\ Now(o, op) => Covered(o, n)
      PROVE  /\ live'.states[o].epoch <= ops'[o].epoch
             /\ Given(o)' /\ Now(o, live.states[o])' => Covered(o, Len(toHost))'
  <2>1. /\ op.epoch <= ops'[o].epoch
        /\ Given(o)' /\ Now(o, op)' => Kept(o) /\ Covered(o, n)
    BY <1>2, SaidStays
  <2>2. Kept(o) /\ Covered(o, n) => Covered(o, n)'
    BY <1>0, CoveredStays
  <2>3. Covered(o, n)' => Covered(o, Len(toHost))'
    BY <1>0
  <2> QED
    BY <1>2, <2>1, <2>2, <2>3 DEF Now
<1>3. CASE live'.states[o] = live.states[o]
  BY <1>a, <1>1, <1>2, <1>3 DEF Shown
<1>4. CASE live'.states[o] = NoOp
  BY <1>1, <1>2, <1>4, NothingSaid
<1> QED
  BY <1>3, <1>4

\* A step of the Node that asks nothing.
LEMMA QuietControl ==
    ASSUME Inv, Inv', StoredIsPrefix, AloneInv, ControlInv, Moves, UNCHANGED <<hostVars, toHost>>,
           \A m \in ToSet(toNode') : m \in ToSet(toNode),
           \A w \in ToSet(admitting') : w \in ToSet(toNode) \cup ToSet(admitting),
           \/ console'.gen = console.gen
           \/ /\ \A r \in ToSet(toHost') : ~Current(r)'
              /\ \A m \in ToSet(toNode') : ~AnswersCurrent(m)',
           console'.told = console.told \/ console'.told = [o \in Ops |-> NoOp],
           live'.states = live.states \/ live'.states = [o \in Ops |-> NoOp],
           PumpKnows'
    PROVE  ControlInv'
<1>1. Shown' /\ ToldIsHeard'
  BY ShownStays, ToldStays DEF ControlInv
<1>2. Extends /\ Len(toHost) \in Nat
  BY QueueFacts DEF Extends
<1>3. \A i \in 1..Len(toHost') : ~(i > Len(toHost))
  BY <1>2
<1> QED
  BY <1>1, <1>2, <1>3, NodeControl

LEMMA PumpStays ==
    ASSUME Inv, PumpKnows, Moves, live'.states = live.states, live.dirty => live'.dirty,
           console'.status = console.status, console'.joining = console.joining,
           console'.granted = console.granted
    PROVE  PumpKnows'
<1>1. ASSUME console.status = "online", console.granted, ~live'.dirty, NEW o \in Ops, Given(o)'
      PROVE  Now(o, live.states[o])'
  <2>1. ~live.dirty
    BY <1>1
  <2>2. Kept(o)
    BY <1>1 DEF Moves, Renewed
  <2> QED
    BY <1>1, <2>1, <2>2 DEF PumpKnows, Kept, Now
<1> QED
  BY <1>1 DEF PumpKnows

-----------------------------------------------------------------------------
(* The steps of the Node that ask nothing                                  *)

PumpSame == live'.states = live.states /\ (live.dirty => live'.dirty)

LEMMA WakingSays ==
    ASSUME Inv, NEW news \in BOOLEAN,
           live' = Marked(live) \/ live' = Wants(live, news) \/ live' = live
    PROVE  PumpSame
<1>1. live \in LiveRecords
  BY InvParts DEF LiveType
<1>2. CASE live' = Marked(live)
  BY <1>1, <1>2 DEF Marked, LiveRecords, PumpSame
<1>3. CASE live' = Wants(live, news)
  <2>1. live' = live \/ live' = [live EXCEPT !.wanted = TRUE]
    BY <1>3 DEF Wants
  <2> QED
    BY <1>1, <2>1 DEF LiveRecords, PumpSame
<1> QED
  BY <1>2, <1>3 DEF PumpSame

\* An operation ends.
LEMMA EndKept ==
    ASSUME Inv, NEW o \in Ops, NEW state \in Done, ops'[o] = [ops[o] EXCEPT !.state = state],
           \/ ops[o].state = "queued" /\ state = "rejected"
           \/ ops[o].state \in {"accepted", "uncertain"}
    PROVE  Kept(o) /\ ops'[o] \in OpType
<1>1. ops[o] \in OpType
  BY OpFields
<1>2. /\ ops'[o].epoch = ops[o].epoch /\ ops'[o].after = ops[o].after
      /\ ops'[o].state = state /\ ops'[o] \in OpType
  BY <1>1 DEF OpType, OpStates, Done
<1> QED
  BY <1>2 DEF Kept, Given, Begins, Under, Done

LEMMA UntouchedKept == ASSUME NEW o \in Ops, ops'[o] = ops[o] PROVE Kept(o)
BY DEF Kept, Given, Under

LEMMA RecordedMovesOn ==
    ASSUME Inv, Inv', NEW o \in Ops, NEW state \in {"queued", "accepted"},
           ops[o].state \in {"none", "queued"}, Recorded(o, state), Commit(<<>>),
           live' = Marked(live), console.status # "syncing", console'.status = console.status
    PROVE  Moves
<1>1. epoch \in Nat /\ ops \in [Ops -> OpType] /\ ops' \in [Ops -> OpType] /\ epoch' \in Nat
  BY InvParts DEF JournalType, Inv, TypeOK
<1>2. /\ epoch' = epoch + 1
      /\ ops'[o].state = state /\ ops'[o].epoch = epoch + 1 /\ ops'[o].after = FlushedWater
      /\ \A p \in Ops \ {o} : ops'[p] = ops[p]
  BY <1>1 DEF Recorded
<1>3. /\ Water \in Nat /\ Water' \in Nat /\ Water <= Water' /\ Water' = FlushedWater
  <2>1. JournalType /\ NodeType /\ <<>> \in Seq(Nat) /\ Len(<<>>) = 0 /\ Water \in Nat
    BY InvParts, NoneIsSeq
  <2>2. Water' = Water + Len(buffered) + Len(<<>>)
    BY <2>1, CommitGrows
  <2>3. Len(buffered) \in Nat
    BY <2>1, LenProperties DEF NodeType
  <2>4. FlushedWater = Water + Len(buffered)
    BY DEF FlushedWater
  <2> QED
    BY <2>1, <2>2, <2>3, <2>4
<1>4. live'.dirty
  BY InvParts DEF LiveType, LiveRecords, Marked
<1>5. Renewed(o)
  BY <1>2, <1>3, <1>4 DEF Renewed
<1>6. \A p \in Ops \ {o} : Kept(p)
  BY <1>2, UntouchedKept
<1> QED
  BY <1>1, <1>2, <1>3, <1>5, <1>6 DEF Moves

LEMMA EndsMove ==
    ASSUME Inv, Inv', UNCHANGED epoch, Water <= Water',
           \A o \in Ops :
              \/ ops'[o] = ops[o]
              \/ \E state \in Done :
                    /\ ops'[o] = [ops[o] EXCEPT !.state = state]
                    /\ \/ ops[o].state = "queued" /\ state = "rejected"
                       \/ ops[o].state \in {"accepted", "uncertain"}
    PROVE  Moves
<1>1. epoch \in Nat /\ Water \in Nat /\ Water' \in Nat /\ ops' \in [Ops -> OpType]
  BY InvParts, WaterTyped DEF JournalType, Inv, TypeOK, Water
<1>2. \A o \in Ops : Kept(o)
  BY EndKept, UntouchedKept
<1> QED
  BY <1>1, <1>2 DEF Moves

LEMMA LocalMoves ==
    ASSUME Inv, Inv',
           \/ Emit \/ Flush \/ TurnEnds \/ AgentEnds \/ LocalPrompt \/ Invoke
           \/ CancelQueued \/ PumpLocal \/ ReceiveWork \/ AdmitWork \/ AckWrite
    PROVE  Moves /\ PumpSame
<1>1. Water <= Water'
  <2>1. CASE AckWrite
    BY <2>1, InvParts DEF AckWrite, Water
  <2> QED
    BY <2>1, LocalFacts DEF Grows
<1>2. epoch \in Nat /\ ops \in [Ops -> OpType] /\ (ops' # ops) \in BOOLEAN /\ TRUE \in BOOLEAN
  BY InvParts DEF JournalType
<1>3. CASE Emit \/ ReceiveWork \/ AdmitWork
  <2>1. UNCHANGED <<ops, epoch, live>>
    BY <1>3 DEF Emit, ReceiveWork, AdmitWork, journalVars
  <2>2. epoch <= epoch'
    BY <1>2, <2>1
  <2>3. PumpSame
    BY <1>2, <2>1, WakingSays
  <2> QED
    BY <1>1, <2>1, <2>2, <2>3, SameMoves
<1>4. CASE Flush
  <2>1. UNCHANGED <<ops, epoch>> /\ live' = Wants(live, TRUE)
    BY <1>4 DEF Flush
  <2>2. epoch <= epoch'
    BY <1>2, <2>1
  <2>3. PumpSame
    BY <1>2, <2>1, WakingSays
  <2> QED
    BY <1>1, <2>1, <2>2, <2>3, SameMoves
<1>5. CASE AckWrite
  <2>1. UNCHANGED <<ops, epoch>>
    BY <1>5 DEF AckWrite
  <2>2. PumpSame
    BY <1>5, InvParts DEF AckWrite, LiveType, LiveRecords, PumpSame
  <2> QED
    BY <1>1, <1>2, <2>1, <2>2, SameMoves
<1>6. CASE TurnEnds
  <2>1. UNCHANGED epoch /\ (live' = Marked(live) \/ live' = Wants(live, TRUE))
        /\ \E end \in {"settled", "uncertain"} : ops' = Decided("accepted", FlushedWater + 1, end)
    BY <1>6 DEF TurnEnds
  <2>2. PICK end \in {"settled", "uncertain"} : ops' = Decided("accepted", FlushedWater + 1, end)
    BY <2>1
  <2>3. \A o \in Ops : \/ ops'[o] = ops[o]
                       \/ /\ ops'[o] = [ops[o] EXCEPT !.state = end]
                          /\ ops[o].state = "accepted"
    BY <2>2 DEF Decided
  <2>4. end \in Done
    BY DEF Done
  <2> QED
    BY <1>1, <1>2, <2>1, <2>3, <2>4, EndsMove, WakingSays
<1>7. CASE AgentEnds
  <2>1. UNCHANGED epoch /\ (live' = Marked(live) \/ live' = Wants(live, TRUE))
    BY <1>7 DEF AgentEnds
  <2>2. \A o \in Ops : \/ ops'[o] = ops[o]
                       \/ /\ ops'[o] = [ops[o] EXCEPT !.state = "uncertain"]
                          /\ ops[o].state = "accepted"
                       \/ /\ ops'[o] = [ops[o] EXCEPT !.state = "rejected"]
                          /\ ops[o].state = "queued"
    BY <1>7 DEF AgentEnds
  <2>3. "uncertain" \in Done /\ "rejected" \in Done
    BY DEF Done
  <2> QED
    BY <1>1, <1>2, <2>1, <2>2, <2>3, EndsMove, WakingSays
<1>8. CASE LocalPrompt
  <2>1. /\ Commit(<<>>) /\ live' = Marked(live) /\ console.status = "offline"
        /\ UNCHANGED console
    BY <1>8 DEF LocalPrompt
  <2>2. PICK o \in Ops, state \in {"queued", "accepted"} : ops[o] = NoOp /\ Recorded(o, state)
    BY <1>8 DEF LocalPrompt
  <2>3. ops[o].state = "none"
    BY <2>2 DEF NoOp
  <2> QED
    BY <1>2, <2>1, <2>2, <2>3, RecordedMovesOn, WakingSays
<1>9. CASE PumpLocal
  <2>1. CASE Pumpable
    <3>1. /\ Commit(<<>>) /\ live' = Marked(live) /\ console.status # "syncing"
      BY <1>9, <2>1 DEF PumpLocal, Pumpable, InDoubt
    <3>2. PICK o \in Ops : ops[o].state = "queued" /\ Recorded(o, "accepted")
      BY <1>9, <2>1 DEF PumpLocal, Queued
    <3>3. console'.status = console.status
      BY <1>9, LocalSame DEF ConsoleSame, ConsoleHolds
    <3> QED
      BY <1>2, <3>1, <3>2, <3>3, RecordedMovesOn, WakingSays
  <2>2. CASE ~Pumpable
    <3>1. UNCHANGED <<ops, epoch, live>>
      BY <1>9, <2>2 DEF PumpLocal
    <3>2. epoch <= epoch'
      BY <1>2, <3>1
    <3>3. PumpSame
      BY <1>2, <3>1, WakingSays
    <3> QED
      BY <1>1, <3>1, <3>2, <3>3, SameMoves
  <2> QED
    BY <2>1, <2>2
<1>10. CASE Invoke
  <2>1. UNCHANGED epoch /\ (live' = Marked(live) \/ live' = live)
    BY <1>10 DEF Invoke
  <2>2. invoking \in Ops /\ ops[invoking].state \in {"accepted", "uncertain"}
    BY <1>10, InvParts DEF Invoke, GivenOnce, NodeType
  <2>3. UNCHANGED ops \/ ops' = [ops EXCEPT ![invoking].state = "rejected"]
    BY <1>10 DEF Invoke
  <2>4. \A o \in Ops : \/ ops'[o] = ops[o]
                       \/ /\ ops'[o] = [ops[o] EXCEPT !.state = "rejected"]
                          /\ ops[o].state \in {"accepted", "uncertain"}
    BY <1>2, <2>2, <2>3
  <2>5. "rejected" \in Done
    BY DEF Done
  <2> QED
    BY <1>1, <1>2, <2>1, <2>4, <2>5, EndsMove, WakingSays
<1>11. CASE CancelQueued
  <2>1. UNCHANGED epoch /\ live' = Marked(live)
    BY <1>11 DEF CancelQueued
  <2>2. PICK p \in Ops : ops[p].state = "queued" /\ ops' = [ops EXCEPT ![p].state = "rejected"]
    BY <1>11 DEF CancelQueued
  <2>3. \A o \in Ops : \/ ops'[o] = ops[o]
                       \/ /\ ops'[o] = [ops[o] EXCEPT !.state = "rejected"]
                          /\ ops[o].state = "queued"
    BY <1>2, <2>2
  <2>4. "rejected" \in Done
    BY DEF Done
  <2> QED
    BY <1>1, <1>2, <2>1, <2>3, <2>4, EndsMove, WakingSays
<1> QED
  BY <1>3, <1>4, <1>5, <1>6, <1>7, <1>8, <1>9, <1>10, <1>11

LEMMA LocalControl ==
    ASSUME Inv, Inv', StoredIsPrefix, AloneInv, ControlInv,
           \/ Emit \/ Flush \/ TurnEnds \/ AgentEnds \/ LocalPrompt \/ Invoke
           \/ CancelQueued \/ PumpLocal \/ ReceiveWork \/ AdmitWork \/ AckWrite
    PROVE  ControlInv'
<1>1. ConsoleSame /\ UNCHANGED <<toHost, hostVars>> /\ Moves /\ PumpSame
  BY LocalSame, LocalMoves
<1>2. PumpKnows'
  BY <1>1, PumpStays DEF ControlInv, ConsoleSame, ConsoleHolds, PumpSame
<1>3. /\ \A m \in ToSet(toNode') : m \in ToSet(toNode)
      /\ \A w \in ToSet(admitting') : w \in ToSet(toNode) \cup ToSet(admitting)
  <2>1. CASE UNCHANGED <<toNode, admitting>>
    BY <2>1
  <2>2. CASE ReceiveWork
    <3>1. toNode # <<>> /\ toNode' = Tail(toNode) /\ admitting' = Append(admitting, Head(toNode))
          /\ Head(toNode).kind = "work"
      BY <2>2 DEF ReceiveWork
    <3>2. toNode \in Seq(MessageType) /\ admitting \in Seq(WorkType)
      BY InvParts DEF WireType, NodeType
    <3>3. ToSet(toNode') \subseteq ToSet(toNode) /\ Head(toNode) \in ToSet(toNode)
          /\ Head(toNode) \in MessageType
      BY <3>1, <3>2, ToSetHead
    <3>4. Head(toNode) \in WorkType
      BY <3>1, <3>3 DEF MessageType, AnswerType, GrantType, WorkType
    <3>5. ToSet(admitting') = ToSet(admitting) \cup {Head(toNode)}
      BY <3>1, <3>2, <3>4, ToSetAppend
    <3> QED
      BY <3>3, <3>5
  <2>3. CASE UNCHANGED toNode /\ admitting # <<>> /\ admitting' = Tail(admitting)
    <3>1. admitting \in Seq(WorkType)
      BY InvParts DEF NodeType
    <3>2. ToSet(admitting') \subseteq ToSet(admitting)
      BY <2>3, <3>1, ToSetHead
    <3> QED
      BY <2>3, <3>2
  <2> QED
    BY <2>1, <2>2, <2>3, LocalSame
<1> QED
  BY <1>1, <1>2, <1>3, QuietControl DEF ConsoleSame, ConsoleHolds, PumpSame

LEMMA NewGeneration ==
    ASSUME Inv, GenerationsPass, Inv', console.gen < console'.gen, console'.gen \in Nat,
           UNCHANGED toHost, ToSet(toNode') \subseteq ToSet(toNode)
    PROVE  /\ \A r \in ToSet(toHost') : ~Current(r)'
           /\ \A m \in ToSet(toNode') : ~AnswersCurrent(m)'
<1>1. toHost' \in Seq(RequestType) /\ toNode' \in Seq(MessageType)
  BY DEF Inv, TypeOK, WireType
<1> QED
  BY <1>1, SoloNew

LEMMA NoLiveSays == live' = NoLive => live'.states = [o \in Ops |-> NoOp] /\ ~live'.dirty
BY DEF NoLive

LEMMA StillMoves ==
    ASSUME Inv, Inv', UNCHANGED <<ops, epoch, journal>> PROVE Moves
<1>1. epoch <= epoch' /\ Water <= Water'
  BY InvParts DEF JournalType, Water
<1> QED
  BY <1>1, SameMoves

\* The generation goes on.
LEMMA ReadingControl ==
    ASSUME Inv, Inv', StoredIsPrefix, AloneInv, ControlInv, IgnoreAnswer \/ HandleLive
    PROVE  ControlInv'
<1>1. /\ toNode # <<>> /\ toNode' = Tail(toNode) /\ UNCHANGED <<toHost, hostVars, admitting>>
      /\ UNCHANGED <<ops, epoch, journal>>
  BY DEF IgnoreAnswer, HandleLive, Answered, journalVars, nodeVars
<1>2. ConsoleSame /\ Moves /\ ToSet(toNode') \subseteq ToSet(toNode)
  BY <1>1, ReadingSame, StillMoves, Reads
<1>3. PumpSame
  <2>1. CASE IgnoreAnswer
    BY <2>1 DEF IgnoreAnswer, PumpSame
  <2>2. CASE HandleLive
    BY <2>2, InvParts DEF HandleLive, LiveType, LiveRecords, PumpSame
  <2> QED
    BY <2>1, <2>2
<1>4. PumpKnows'
  BY <1>2, <1>3, PumpStays DEF ControlInv, ConsoleSame, ConsoleHolds, PumpSame
<1> QED
  BY <1>1, <1>2, <1>3, <1>4, QuietControl DEF ConsoleSame, ConsoleHolds, PumpSame

LEMMA GrantedMoves ==
    ASSUME Inv, Inv', NEW theirs \in Nat, Granted(theirs), UNCHANGED ops, Grows
    PROVE  Moves
<1>1. epoch \in Nat /\ epoch' = Max({epoch, theirs})
  BY InvParts DEF Granted, JournalType
<1>2. Max({epoch, theirs}) = IF epoch >= theirs THEN epoch ELSE theirs
  BY <1>1, GreaterOfTwo
<1>3. epoch <= epoch' /\ Water <= Water'
  BY <1>1, <1>2 DEF Grows
<1> QED
  BY <1>3, SameMoves

LEMMA HandleGrantControl ==
    ASSUME Inv, Inv', StoredIsPrefix, AloneInv, ControlInv, HandleGrant
    PROVE  ControlInv'
<1>1. /\ toNode # <<>> /\ toNode' = Tail(toNode) /\ UNCHANGED <<toHost, hostVars, admitting, ops>>
      /\ Granted(Head(toNode).epoch) /\ Commit(<<>>) /\ live' = Marked(live)
      /\ Head(toNode).kind = "grant"
  BY DEF HandleGrant
<1>2. Head(toNode).epoch \in Nat
  <2>1. Head(toNode) \in MessageType
    BY <1>1, InvParts, ToSetHead DEF WireType
  <2> QED
    BY <1>1, <2>1 DEF MessageType, AnswerType, GrantType, WorkType
<1>3. /\ ConsoleHolds /\ console'.told = console.told
      /\ ToSet(toNode') \subseteq ToSet(toNode)
  BY <1>1, <1>2, GrantedSame, Reads
<1>4. Moves
  <2>1. Grows
    BY <1>1, InvParts, NoneIsSeq, CommitGrows
  <2> QED
    BY <1>1, <1>2, <2>1, GrantedMoves
<1>5. live'.states = live.states /\ live'.dirty
  BY <1>1, InvParts DEF LiveType, LiveRecords, Marked
<1>6. PumpKnows'
  BY <1>3, <1>5 DEF PumpKnows, ControlInv, ConsoleHolds
<1> QED
  BY <1>1, <1>3, <1>4, <1>5, <1>6, QuietControl DEF ConsoleHolds

LEMMA HandleSynchronizedControl ==
    ASSUME Inv, Inv', StoredIsPrefix, AloneInv, ControlInv, HandleSynchronized
    PROVE  ControlInv'
<1>1. /\ toNode # <<>> /\ toNode' = Tail(toNode) /\ UNCHANGED <<toHost, hostVars, admitting>>
      /\ UNCHANGED <<ops, epoch, journal, live>>
  BY DEF HandleSynchronized, Answered, journalVars, nodeVars
<1>2. Moves /\ ToSet(toNode') \subseteq ToSet(toNode)
  BY <1>1, StillMoves, Reads
<1>3. /\ console'.gen = console.gen /\ console'.told = console.told
      /\ console'.status = "online" /\ console'.granted = console.granted
      /\ console'.joining = console.joining
  BY InvParts DEF HandleSynchronized, ConsoleType, ConsoleRecords
<1>4. console.status = "syncing"
  BY HandleSynchronizedAlone
<1>5. PumpKnows'
  BY <1>1, <1>3, <1>4 DEF PumpKnows, ControlInv
<1> QED
  BY <1>1, <1>2, <1>3, <1>5, QuietControl

\* The generation ends.
LEMMA EndingControl ==
    ASSUME Inv, Inv', StoredIsPrefix, AloneInv, GenerationsPass, ControlInv, Moves,
           UNCHANGED <<toHost, hostVars>>, ToSet(toNode') \subseteq ToSet(toNode),
           ToSet(admitting') \subseteq ToSet(admitting),
           console.gen < console'.gen, console'.gen \in Nat, live' = NoLive,
           \/ console'.told = console.told /\ console'.status \in {"conflict", "offline"}
           \/ console'.told = [o \in Ops |-> NoOp] /\ ~console'.granted
    PROVE  ControlInv'
<1>1. live'.states = [o \in Ops |-> NoOp]
  BY NoLiveSays
<1>2. PumpKnows'
  BY <1>1 DEF PumpKnows
<1> QED
  BY <1>1, <1>2, NewGeneration, QuietControl

LEMMA HandleRefusalControl ==
    ASSUME Inv, Inv', StoredIsPrefix, AloneInv, GenerationsPass, ControlInv, HandleRefusal
    PROVE  ControlInv'
<1>1. /\ toNode # <<>> /\ toNode' = Tail(toNode) /\ UNCHANGED <<toHost, hostVars, admitting>>
      /\ UNCHANGED <<ops, epoch, journal>> /\ Head(toNode).kind = "answer"
      /\ Head(toNode) \in ToSet(toNode)
  BY AnswerRead DEF HandleRefusal, Answered, journalVars, nodeVars
<1>2. Moves /\ ToSet(toNode') \subseteq ToSet(toNode)
  BY <1>1, StillMoves, Reads
<1>3. CASE UNCHANGED <<console, live>>
  <2>1. PumpKnows'
    BY <1>1, <1>3 DEF PumpKnows, ControlInv, Given, Now
  <2> QED
    BY <1>1, <1>2, <1>3, <2>1, QuietControl
<1>4. CASE /\ Head(toNode).request.gen = console.gen
           /\ console' = Fenced(console) /\ live' = FencedLive
  <2>1. console.status # "offline"
    BY <1>1, <1>4 DEF AloneInv, Fitting, Fits, Current
  <2>2. /\ console.gen < console'.gen /\ console'.gen \in Nat /\ live' = NoLive
        /\ console'.told = console.told /\ console'.status = "conflict"
    BY <1>4, <2>1, FencedNext DEF FencedLive
  <2> QED
    BY <1>1, <1>2, <2>2, EndingControl
<1> QED
  BY <1>3, <1>4 DEF HandleRefusal

LEMMA HandleResyncControl ==
    ASSUME Inv, Inv', StoredIsPrefix, AloneInv, GenerationsPass, ControlInv, HandleResync
    PROVE  ControlInv'
<1>1. /\ toNode # <<>> /\ toNode' = Tail(toNode) /\ UNCHANGED <<toHost, hostVars, admitting>>
      /\ UNCHANGED <<ops, epoch, journal>> /\ live' = NoLive /\ console' = Begun(console)
  BY DEF HandleResync, journalVars, nodeVars
<1>2. Moves /\ ToSet(toNode') \subseteq ToSet(toNode)
  BY <1>1, StillMoves, Reads
<1>3. /\ console.gen < console'.gen /\ console'.gen \in Nat
      /\ console'.told = [o \in Ops |-> NoOp] /\ console'.granted = FALSE
  BY <1>1, InvParts DEF Begun, ConsoleType, ConsoleRecords
<1> QED
  BY <1>1, <1>2, <1>3, EndingControl

LEMMA RequestTimesOutControl ==
    ASSUME Inv, Inv', StoredIsPrefix, AloneInv, GenerationsPass, ControlInv, RequestTimesOut
    PROVE  ControlInv'
<1>1. /\ UNCHANGED <<toHost, toNode, hostVars, admitting, ops, epoch, journal>>
      /\ console' = [Fenced(console) EXCEPT !.expired = console.gen] /\ live' = FencedLive
  BY DEF RequestTimesOut, journalVars, nodeVars
<1>2. console.status # "offline"
  BY DEF RequestTimesOut, AloneInv, Fitting, Fits, Current
<1>3. /\ console.gen < console'.gen /\ console'.gen \in Nat /\ live' = NoLive
      /\ console'.told = console.told /\ console'.status = "conflict"
  BY <1>1, <1>2, FencedNext DEF FencedLive
<1>4. Moves
  BY <1>1, StillMoves
<1> QED
  BY <1>1, <1>3, <1>4, EndingControl

LEMMA PartingControl ==
    ASSUME Inv, Inv', StoredIsPrefix, AloneInv, GenerationsPass, ControlInv, Break \/ NodeCrash
    PROVE  ControlInv'
<1>1. /\ UNCHANGED <<toHost, hostVars>> /\ toNode' = <<>> /\ ToSet(toNode') = {}
      /\ live' = NoLive /\ UNCHANGED <<epoch, journal>>
  BY ToSetEmpty DEF Break, NodeCrash, journalVars
<1>2. /\ console'.gen = console.gen + 1 /\ console.gen \in Nat /\ console'.told = console.told
      /\ console'.status \in {"conflict", "offline"}
  <2>1. console \in ConsoleRecords /\ console.gen \in Nat
    BY InvParts, GenTyped DEF ConsoleType
  <2>2. CASE Break
    BY <2>1, <2>2 DEF Break, ConsoleRecords
  <2>3. CASE NodeCrash
    BY <2>1, <2>3 DEF NodeCrash, ConsoleRecords
  <2> QED
    BY <2>2, <2>3
<1>3. console.gen < console'.gen /\ console'.gen \in Nat
  BY <1>2
<1>4. Moves /\ ToSet(admitting') \subseteq ToSet(admitting)
  <2>1. CASE Break
    <3>1. UNCHANGED <<ops, admitting>>
      BY <2>1 DEF Break, journalVars, nodeVars
    <3> QED
      BY <1>1, <3>1, StillMoves
  <2>2. CASE NodeCrash
    <3>1. ToSet(admitting') = {}
      BY <2>2, ToSetEmpty DEF NodeCrash
    <3>2. \A o \in Ops : \/ ops'[o] = ops[o]
                         \/ /\ ops'[o] = [ops[o] EXCEPT !.state = "uncertain"]
                            /\ ops[o].state = "accepted"
      BY <2>2 DEF NodeCrash, Reopened
    <3>3. "uncertain" \in Done
      BY DEF Done
    <3>4. Water <= Water'
      BY <1>1, InvParts DEF Water
    <3>5. Moves
      BY <1>1, <3>2, <3>3, <3>4, EndsMove
    <3> QED
      BY <3>1, <3>5
  <2> QED
    BY <2>1, <2>2
<1> QED
  BY <1>1, <1>2, <1>3, <1>4, EndingControl

LEMMA ConnectControl ==
    ASSUME Inv, Inv', StoredIsPrefix, ControlInv, Connect PROVE ControlInv'
<1>1. /\ ToSet(toHost') = {} /\ ToSet(toNode') = {} /\ Len(toHost') = 0
      /\ UNCHANGED <<ops, epoch, journal, admitting, stored, hostEpoch, hostOps, receipts>>
      /\ live' = NoLive /\ console' = Begun(console)
  BY ToSetEmpty, EmptySeq DEF Connect, journalVars, nodeVars
<1>2. /\ Copies /\ OpsInOrder /\ HeardFirst /\ PromptsAreFree
  BY DEF ControlInv
<1>3. Moves
  BY <1>1, StillMoves
<1>4. Copies' /\ OpsInOrder' /\ HeardFirst'
  BY <1>1, <1>2 DEF Copies, OpsInOrder, HeardFirst, Given, Heard, Now, Faithful, Water
<1>5. Governed' /\ AnsweredIsHeard' /\ RestIsLeft'
  BY <1>1 DEF Governed, AnsweredIsHeard, RestIsLeft
<1>6. /\ live'.states = [o \in Ops |-> NoOp] /\ console'.told = [o \in Ops |-> NoOp]
      /\ console'.granted = FALSE
  BY <1>1, NoLiveSays, InvParts DEF Begun, ConsoleType, ConsoleRecords
<1>7. \A o \in Ops : NoOp.epoch <= ops'[o].epoch /\ ~(Given(o)' /\ Now(o, NoOp)')
  BY <1>1, <1>2, NothingSaid DEF Given, Now
<1>8. Shown' /\ ToldIsHeard'
  BY <1>6, <1>7 DEF Shown, ToldIsHeard, Now
<1>9. PumpKnows'
  BY <1>6 DEF PumpKnows
<1>10. PromptsAreFree'
  BY <1>1, <1>2 DEF PromptsAreFree, FreeFor, Given
<1> QED
  BY <1>4, <1>5, <1>8, <1>9, <1>10 DEF ControlInv

-----------------------------------------------------------------------------
(* What a batch leaves out                                                 *)

\* Of some operations, one is ahead of all the others.
LEMMA OneIsForemost ==
    ASSUME NEW S \in ControlSets, S # {}
    PROVE  \E c \in S : {d \in S : Earlier(d, c)} = {}
<1>1. \A c \in S : c.op.after \in Nat /\ c.op.epoch \in Nat
  BY DEF ControlSets, ControlType, OpType
<1>2. PICK A \in SUBSET Nat : A = {c.op.after : c \in S}
  BY <1>1
<1>b. A # {}
  BY <1>2
<1>3. PICK a \in A : \A y \in A : a <= y
  BY <1>b, LeastExists
<1>4. PICK E \in SUBSET Nat : E = {c.op.epoch : c \in {x \in S : x.op.after = a}}
  BY <1>1
<1>5. E # {}
  BY <1>2, <1>3, <1>4
<1>6. PICK e \in E : \A y \in E : e <= y
  BY <1>5, LeastExists
<1>7. PICK c \in S : c.op.after = a /\ c.op.epoch = e
  BY <1>4, <1>6
<1>8. ASSUME NEW d \in S, Earlier(d, c) PROVE FALSE
  <2>1. a <= d.op.after /\ d.op.after \in Nat /\ a \in Nat
    BY <1>1, <1>2, <1>3
  <2>2. d.op.after = a /\ d.op.epoch < e
    BY <1>7, <1>8, <2>1 DEF Earlier
  <2>3. d.op.epoch \in E /\ e \in Nat /\ d.op.epoch \in Nat
    BY <1>1, <1>4, <2>2
  <2> QED
    BY <1>6, <2>2, <2>3
<1> QED
  BY <1>7, <1>8

LEMMA LeastOfOne == ASSUME NEW a \in Nat PROVE Min({a}) = a
<1>1. PICK S \in SUBSET Nat : S = {a}
  OBVIOUS
<1>2. Min(S) \in S
  BY <1>1, LeastExists
<1> QED
  BY <1>1, <1>2

\* An operation that governs events of a batch is in it, and so is one that is ahead
\* of an operation that is.  A batch of nothing leaves nothing.
LEMMA BatchCarries ==
    ASSUME ConsoleBounds, NEW history \in Seq(Nat), NEW after \in Nat,
           NEW limit \in Nat, limit <= Len(history), after <= Len(history),
           NEW pending \in ControlSets,
           NEW b, b = Batch(history, after, limit, pending)
    PROVE  /\ \A c \in pending : c.op.after < b.through /\ b.from < b.through => c \in b.controls
           /\ \A c \in pending, d \in b.controls :
                 c.op.epoch < d.op.epoch /\ c.op.after <= d.op.after => c \in b.controls
           /\ EmptyBatch(b) /\ after <= limit /\ (\A c \in pending : c.op.after <= limit) =>
                 pending = {}
           /\ pending = {} /\ limit = after => EmptyBatch(b)
<1>a. PICK last : last = IF after + BatchEvents < limit THEN after + BatchEvents ELSE limit
  OBVIOUS
<1>b. PICK due : due = {c \in pending : c.op.after <= last}
  OBVIOUS
<1>c. PICK fit : fit = Foremost(BatchControls, due)
  OBVIOUS
<1>d. PICK ends : ends = {last} \cup {c.op.after : c \in due \ fit}
  OBVIOUS
<1>e. PICK through : through = Max({after, Min(ends)})
  OBVIOUS
<1>1. /\ b.from = after /\ b.through = through /\ b.controls = fit
      /\ b.ids = SubSeq(history, after + 1, through)
  BY <1>a, <1>b, <1>c, <1>d, <1>e DEF Batch
<1>2. last \in Nat /\ last <= limit /\ BatchEvents \in Nat \ {0} /\ BatchControls \in Nat \ {0}
  BY <1>a DEF ConsoleBounds
<1>3. \A c \in pending : c.op.after \in Nat /\ c.op.epoch \in Nat
  BY DEF ControlSets, ControlType, OpType
<1>4. due \in ControlSets /\ IsFiniteSet(due) /\ fit \subseteq due
  <2>1. due \in ControlSets
    BY <1>b, ControlsSubset
  <2> QED
    BY <1>c, <2>1 DEF ControlSets, Foremost
<1>5. ends \in SUBSET Nat /\ last \in ends
  BY <1>2, <1>3, <1>4, <1>b, <1>d
<1>6. Min(ends) \in Nat /\ \A y \in ends : Min(ends) <= y
  BY <1>5, LeastExists
<1>f. PICK m \in Nat : m = Min(ends)
  BY <1>6
<1>g. Max({after, m}) = IF after >= m THEN after ELSE m
  BY GreaterOfTwo
<1>7. through = (IF after >= Min(ends) THEN after ELSE Min(ends)) /\ through \in Nat
  BY <1>e, <1>f, <1>g
<1>8. ASSUME NEW c \in pending, c.op.after < through, after < through PROVE c \in fit
  <2>1. through <= last /\ through = Min(ends)
    BY <1>2, <1>5, <1>6, <1>7, <1>8
  <2>2. c \in due
    BY <1>2, <1>3, <1>7, <1>8, <2>1, <1>b
  <2>3. c \notin fit => c.op.after \in ends
    BY <2>2, <1>d
  <2> QED
    BY <1>3, <1>6, <1>8, <2>1, <2>3
<1>9. ASSUME NEW c \in pending, NEW d \in fit, c.op.epoch < d.op.epoch, c.op.after <= d.op.after
      PROVE  c \in fit
  <2>1. d \in due /\ d \in pending /\ d.op.after <= last /\ d.op.after \in Nat
    BY <1>3, <1>4, <1>b
  <2>2. c \in due /\ c.op.after \in Nat /\ c.op.epoch \in Nat /\ d.op.epoch \in Nat
    BY <1>2, <1>3, <1>9, <1>b, <2>1
  <2>a. PICK before : before = {x \in due : Earlier(x, c)}
    OBVIOUS
  <2>b. PICK beforeThat : beforeThat = {x \in due : Earlier(x, d)}
    OBVIOUS
  <2>3. before \subseteq beforeThat
    <3> SUFFICES ASSUME NEW x \in due, Earlier(x, c) PROVE Earlier(x, d)
      BY <2>a, <2>b
    <3>1. x.op.after \in Nat /\ x.op.epoch \in Nat
      BY <1>3, <1>b
    <3>2. CASE x.op.after < c.op.after
      BY <1>9, <2>1, <2>2, <3>1, <3>2 DEF Earlier
    <3>3. CASE x.op.after = c.op.after /\ x.op.epoch < c.op.epoch
      <4>1. x.op.epoch < d.op.epoch
        BY <1>9, <2>2, <3>1, <3>3
      <4> QED
        BY <1>9, <2>1, <2>2, <3>1, <3>3, <4>1 DEF Earlier
    <3> QED
      BY <3>2, <3>3 DEF Earlier
  <2>4. Cardinality(before) <= Cardinality(beforeThat) /\ Cardinality(beforeThat) \in Nat
        /\ Cardinality(before) \in Nat
    <3>1. IsFiniteSet(beforeThat)
      BY <1>4, <2>b, FS_Subset
    <3> QED
      BY <2>3, <3>1, FS_Subset, FS_CardinalityType
  <2>5. Cardinality(beforeThat) < BatchControls
    BY <1>c, <2>b DEF Foremost
  <2>6. Cardinality(before) < BatchControls
    BY <1>2, <2>4, <2>5
  <2> QED
    BY <1>c, <2>a, <2>2, <2>6 DEF Foremost
<1>10. /\ b \in BatchType /\ Segment(history, b) /\ b.controls \subseteq pending
       /\ b.through > after => b.through <= limit
  BY BatchIsSegment
<1>11. Len(b.ids) = through - after /\ after <= through
  BY <1>1, <1>10 DEF Segment
<1>12. ASSUME EmptyBatch(b), after <= limit, \A c \in pending : c.op.after <= limit
       PROVE  pending = {}
  <2>1. through = after /\ fit = {}
    <3>1. Len(b.ids) = 0
      BY <1>12, NoneIsSeq DEF EmptyBatch
    <3> QED
      BY <1>1, <1>7, <1>11, <1>12, <3>1 DEF EmptyBatch
  <2>2. due = {}
    <3> SUFFICES ASSUME due # {} PROVE FALSE
      OBVIOUS
    <3>1. PICK c \in due : {d \in due : Earlier(d, c)} = {}
      BY <1>4, OneIsForemost
    <3>2. Cardinality({d \in due : Earlier(d, c)}) = 0
      BY <3>1, FS_EmptySet
    <3>3. c \in fit
      BY <1>2, <1>c, <3>2 DEF Foremost
    <3> QED
      BY <2>1, <3>3
  <2>3. ends = {last}
    BY <1>d, <2>2
  <2>4. last <= after
    BY <1>2, <1>7, <2>1, <2>3, LeastOfOne
  <2>5. last = limit
    BY <1>2, <1>a, <2>4
  <2> QED
    BY <1>12, <1>b, <2>2, <2>5
<1>13. ASSUME pending = {}, limit = after PROVE EmptyBatch(b)
  <2>1. b.controls = {} /\ b.through = after
    BY <1>1, <1>7, <1>10, <1>11, <1>13
  <2>2. Len(b.ids) = 0 /\ b.ids \in Seq(Nat)
    BY <1>1, <1>10, <1>11, <2>1 DEF BatchType
  <2> QED
    BY <2>1, <2>2, EmptySeq DEF EmptyBatch
<1> QED
  BY <1>1, <1>8, <1>9, <1>12, <1>13

\* Operations as they are now.
Fresh(R) ==
    /\ \A c \in R : Faithful(c.id, c.op) /\ Now(c.id, c.op)
    /\ \A c, d \in R : c.id = d.id => c = d

LEMMA FreshFields ==
    ASSUME Inv, NEW R \in ControlSets, Fresh(R), NEW c \in R
    PROVE  /\ c.id \in Ops /\ Given(c.id)
           /\ c.op.epoch = ops[c.id].epoch /\ c.op.after = ops[c.id].after
           /\ c.op.epoch \in Nat /\ c.op.after \in Nat
<1>1. c.id \in Ops /\ c.op.epoch \in Nat /\ c.op.after \in Nat
  BY DEF ControlSets, ControlType, OpType
<1> QED
  BY <1>1 DEF Fresh, Faithful, Now

LEMMA FreshCopied ==
    ASSUME Inv, OpsInOrder, NEW R \in ControlSets, Fresh(R), NEW r,
           r.batch.controls \subseteq R, r.rest \subseteq R
    PROVE  Copied(r)
<1>1. ASSUME NEW c \in r.batch.controls, NEW d \in r.batch.controls, d.op.epoch <= c.op.epoch
      PROVE  d.op.after <= c.op.after
  <2>1. /\ c.id \in Ops /\ d.id \in Ops /\ Given(d.id)
        /\ c.op.epoch = ops[c.id].epoch /\ c.op.after = ops[c.id].after
        /\ d.op.epoch = ops[d.id].epoch /\ d.op.after = ops[d.id].after
    BY FreshFields
  <2> QED
    BY <1>1, <2>1 DEF OpsInOrder
<1> QED
  BY <1>1 DEF Fresh, Copied

LEMMA WiresFresh ==
    ASSUME ConsoleBounds, Inv, NEW O, O \subseteq Ops, \A o \in O : Given(o)
    PROVE  Fresh(Wires(O)) /\ Wires(O) \in ControlSets
<1>1. Wires(O) \in ControlSets
  BY InvParts, WiresTyped
<1>2. \A c \in Wires(O) : c.id \in O /\ c.op = ops[c.id] /\ c = Wire(c.id)
  BY DEF Wires, Wire
<1>3. \A c \in Wires(O) : Faithful(c.id, c.op) /\ Now(c.id, c.op)
  BY <1>2 DEF Faithful, Now, Given, Begins, Under
<1> QED
  BY <1>1, <1>2, <1>3 DEF Fresh

\* The batch has the operation, if it is to be said and governs anything there.
LEMMA FreshCarries ==
    ASSUME ConsoleBounds, Inv, OpsInOrder, NEW history \in Seq(Nat), NEW after \in Nat,
           NEW limit \in Nat, limit <= Len(history), after <= Len(history),
           NEW pending \in ControlSets, Fresh(pending),
           NEW r, r.kind = "replay", r.batch = Batch(history, after, limit, pending),
           NEW o \in Ops, NEW c \in pending, c.id = o, Needs(r, o)
    PROVE  Carries(r, o)
<1>1. /\ c.op.epoch = ops[o].epoch /\ c.op.after = ops[o].after /\ Given(o)
      /\ ops[o].epoch \in Nat /\ ops[o].after \in Nat
  BY FreshFields
<1>2. c \in r.batch.controls
  <2>1. CASE ops[o].after < r.batch.through /\ r.batch.from < r.batch.through
    BY <1>1, <2>1, BatchCarries
  <2>2. CASE \E d \in r.batch.controls : ops[o].epoch <= d.op.epoch
    <3>1. PICK d \in r.batch.controls : ops[o].epoch <= d.op.epoch
      BY <2>2
    <3>2. d \in pending
      BY <3>1, BatchIsSegment
    <3>3. /\ d.id \in Ops /\ d.op.epoch = ops[d.id].epoch /\ d.op.after = ops[d.id].after
          /\ d.op.epoch \in Nat
      BY <3>2, FreshFields
    <3>4. CASE d.id = o
      BY <3>1, <3>2, <3>4 DEF Fresh
    <3>5. CASE d.id # o
      <4>1. c.op.epoch < d.op.epoch /\ c.op.after <= d.op.after
        BY <1>1, <3>1, <3>3, <3>5 DEF OpsInOrder
      <4> QED
        BY <3>1, <4>1, BatchCarries
    <3> QED
      BY <3>4, <3>5
  <2> QED
    BY <2>1, <2>2 DEF Needs
<1> QED
  BY <1>1, <1>2 DEF Carries, Now

-----------------------------------------------------------------------------
(* The steps of the Node that ask                                          *)

LEMMA AskingControl ==
    ASSUME Inv, Inv', StoredIsPrefix, AloneInv, ControlInv, Moves,
           UNCHANGED <<hostVars, ops, admitting>>, console'.gen = console.gen,
           ToSet(toNode') \subseteq ToSet(toNode),
           NEW r \in RequestType, toHost' = Append(toHost, r), Copied(r), LeftToSay(r),
           r.kind = "replay" =>
              \A o \in Ops : Needs(r, o) => Covered(o, Len(toHost)) \/ Carries(r, o),
           Shown', ToldIsHeard', PumpKnows'
    PROVE  ControlInv'
<1>a. PICK n : n = Len(toHost)
  OBVIOUS
<1>1. /\ n \in Nat /\ Len(toHost') = n + 1 /\ toHost \in Seq(RequestType)
      /\ \A i \in 1..n : toHost'[i] = toHost[i]
      /\ toHost'[n + 1] = r
  BY <1>a, QueueFacts
<1>2. Extends
  BY <1>a, <1>1 DEF Extends
<1>3. \A q \in ToSet(toHost') : q \in ToSet(toHost) \/ q = r
  BY <1>1, ToSetAppend
<1>4. Copied(r)' /\ LeftToSay(r)'
  BY DEF Copied, LeftToSay, Faithful, Now, Given, Current, Heard, hostVars
<1>5. \A o \in Ops : Kept(o)
  BY UntouchedKept
<1>6. ASSUME NEW o \in Ops, r.kind = "replay", Needs(r, o)'
      PROVE  Covered(o, n + 1)'
  <2>1. Needs(r, o)
    BY <1>6 DEF Needs, Given
  <2>2. CASE Covered(o, n)
    <3>1. Covered(o, Len(toHost))'
      BY <1>5, <1>6, <1>a, <2>2, CoveredByNext
    <3> QED
      BY <1>1, <3>1 DEF Covered
  <2>3. CASE Carries(r, o)
    <3>1. Carries(r, o)' /\ n + 1 \in 1..(n + 1)
      BY <1>1, <2>3 DEF Carries, Now
    <3>2. Unbroken(toHost', n + 1, n + 1)
      BY <1>1, <1>6 DEF Unbroken
    <3> QED
      BY <1>1, <3>1, <3>2 DEF Covered, Unbroken
  <2> QED
    BY <1>6, <1>a, <2>1, <2>2, <2>3
<1>7. ASSUME NEW i \in 1..Len(toHost'), i > Len(toHost), toHost'[i].kind = "replay",
             NEW o \in Ops, Needs(toHost[i], o)'
      PROVE  Covered(o, i)'
  <2>1. i = n + 1
    BY <1>1, <1>7, <1>a
  <2>2. Needs(r, o)'
    BY <1>1, <1>7, <2>1 DEF Needs
  <2> QED
    BY <1>1, <1>6, <1>7, <2>1, <2>2
<1>8. \A w \in ToSet(admitting') : w \in ToSet(toNode) \cup ToSet(admitting)
  OBVIOUS
<1> QED
  BY <1>2, <1>3, <1>4, <1>7, <1>8, NodeControl

\* What is held for said, after a step that asks.
LEMMA SaidShown ==
    ASSUME Inv, Shown, UNCHANGED <<hostVars, ops>>,
           \/ UNCHANGED toHost
           \/ \E r \in RequestType : toHost' = Append(toHost, r) /\ r.kind # "initialize",
           \A o \in Ops :
              \/ live'.states[o] = live.states[o]
              \/ /\ live'.states[o].epoch <= ops[o].epoch
                 /\ Given(o) /\ Now(o, live'.states[o]) => Covered(o, Len(toHost))'
    PROVE  Shown'
<1> SUFFICES ASSUME NEW o \in Ops
             PROVE  /\ live'.states[o].epoch <= ops'[o].epoch
                    /\ Given(o)' /\ Now(o, live.states[o])' => Covered(o, Len(toHost))'
  BY DEF Shown
<1>1. CASE live'.states[o] = live.states[o]
  <2>1. /\ live'.states[o].epoch <= ops'[o].epoch
        /\ Given(o)' /\ Now(o, live.states[o])' => Covered(o, Len(toHost))
    BY <1>1 DEF Shown, Given, Now
  <2>2. Kept(o)
    BY UntouchedKept
  <2>3. Covered(o, Len(toHost)) => Covered(o, Len(toHost))'
    <3>1. CASE UNCHANGED toHost
      BY <3>1 DEF Covered, Heard, Now, Carries, hostVars
    <3>2. CASE \E r \in RequestType : toHost' = Append(toHost, r) /\ r.kind # "initialize"
      BY <2>2, <3>2, CoveredByNext
    <3> QED
      BY <3>1, <3>2
  <2> QED
    BY <2>1, <2>3
<1>2. CASE /\ live'.states[o].epoch <= ops[o].epoch
           /\ Given(o) /\ Now(o, live'.states[o]) => Covered(o, Len(toHost))'
  BY <1>2 DEF Given, Now
<1> QED
  BY <1>1, <1>2

LEMMA InitializeControl ==
    ASSUME Inv, Inv', StoredIsPrefix, OneAtATime, AloneInv, ControlInv, Initialize
    PROVE  ControlInv'
<1>1. /\ console.joining /\ toHost' = Append(toHost, Beginning) /\ UNCHANGED <<up, toNode>>
      /\ console' = [console EXCEPT !.joining = FALSE]
      /\ UNCHANGED <<hostVars, ops, admitting, epoch>> /\ Commit(<<>>)
      /\ live' = Wants(live, buffered # <<>>)
  BY DEF Initialize, Beginning
<1>2. /\ console'.gen = console.gen /\ console'.status = console.status
      /\ console'.told = console.told /\ console'.granted = console.granted
      /\ console'.joining = FALSE
  BY <1>1, InvParts DEF ConsoleType, ConsoleRecords
<1>3. Moves
  <2>1. epoch <= epoch' /\ Grows
    BY <1>1, InvParts, CommitAll DEF JournalType
  <2> QED
    BY <1>1, <2>1, SameMoves DEF Grows
<1>4. PumpSame
  <2>1. (buffered # <<>>) \in BOOLEAN
    OBVIOUS
  <2> QED
    BY <1>1, <2>1, WakingSays
<1>5. /\ Beginning \in RequestType /\ Beginning.kind = "initialize"
      /\ Beginning.batch.controls = {} /\ Beginning.rest = {}
  BY BeginningTyped DEF Beginning, Ask, Nothing
<1>6. Copied(Beginning) /\ LeftToSay(Beginning)
  BY <1>5 DEF Copied, LeftToSay
<1>7. ToldIsHeard'
  BY <1>1, <1>2, <1>3, ToldStays DEF ControlInv
<1>8. Shown'
  <2>1. \A o \in Ops : live'.states[o] = NoOp
    BY <1>1, <1>4 DEF PumpSame, ControlInv, PumpKnows
  <2>2. \A o \in Ops : NoOp.epoch <= ops[o].epoch /\ ~(Given(o) /\ Now(o, NoOp))
    BY NothingSaid DEF ControlInv
  <2> QED
    BY <1>1, <2>1, <2>2 DEF Shown, Given, Now
<1>9. PumpKnows'
  <2>1. console.status = "syncing"
    BY <1>1 DEF OneAtATime, JoinsAlone
  <2> QED
    BY <1>2, <1>4, <2>1 DEF PumpKnows, ControlInv, PumpSame
<1> QED
  BY <1>1, <1>2, <1>3, <1>5, <1>6, <1>7, <1>8, <1>9, AskingControl

\* A pump that sends nothing has said all.
LEMMA UnsentIsFresh ==
    ASSUME ConsoleBounds, Inv, OpsInOrder
    PROVE  /\ Unsent \in ControlSets /\ Fresh(Unsent)
           /\ \A c \in Unsent : c.op.after <= Water /\ c.op = ops[c.id]
           /\ live.dirty => \A o \in Ops : Given(o) =>
                 live.states[o] = ops[o] \/ \E c \in Unsent : c.id = o
<1>a. PICK O \in SUBSET Ops : O = {o \in Ops : ops[o] # NoOp /\ live.states[o] # ops[o]}
  OBVIOUS
<1>1. \A o \in Ops : Given(o) <=> ops[o] # NoOp
  BY DEF OpsInOrder, Given, NoOp
<1>2. Fresh(Wires(O)) /\ Wires(O) \in ControlSets
  BY <1>1, <1>a, WiresFresh
<1>3. Unsent = (IF live.dirty THEN Wires(O) ELSE {})
  BY <1>a DEF Unsent
<1>4. \A c \in Wires(O) : c.id \in Ops /\ c.op = ops[c.id]
  BY DEF Wires, Wire
<1>5. \A o \in O : Wire(o) \in Wires(O) /\ Wire(o).id = o
  BY DEF Wires, Wire
<1>6. {} \in ControlSets /\ Fresh({})
  BY NoControls DEF Fresh
<1>7. \A c \in Unsent : c.op.after <= Water /\ c.op = ops[c.id]
  BY <1>3, <1>4 DEF OpsInOrder
<1>8. live.dirty => \A o \in Ops : Given(o) =>
         live.states[o] = ops[o] \/ \E c \in Unsent : c.id = o
  BY <1>1, <1>3, <1>5, <1>a
<1> QED
  BY <1>2, <1>3, <1>6, <1>7, <1>8

LEMMA PumpLiveControl ==
    ASSUME ConsoleBounds, Inv, Inv', StoredIsPrefix, OneAtATime, AloneInv, ControlInv, PumpLive
    PROVE  ControlInv'
<1>a. PICK batch : batch = Batch(journal, SentThrough, Water, Unsent)
  OBVIOUS
<1>1. /\ journal \in Seq(Nat) /\ Water \in Nat /\ SentThrough \in Nat /\ SentThrough <= Water
      /\ Water = Len(journal)
  BY InvParts DEF SentThrough, LiveType, LiveRecords, Unset, Committed, JournalType, Water
<1>2. /\ OpsInOrder /\ Shown /\ ToldIsHeard /\ PumpKnows /\ live \in LiveRecords
      /\ console.status = "online" /\ UNCHANGED <<ops, epoch, journal, console, toNode, hostVars,
                                                   admitting>>
  BY InvParts DEF ControlInv, PumpLive, LiveType, journalVars, nodeVars
<1>3. ~console.joining
  BY <1>2 DEF OneAtATime, JoinsAlone
<1>4. Moves /\ ToldIsHeard'
  <2>1. Moves
    BY <1>2, StillMoves
  <2> QED
    BY <1>2, <2>1, ToldStays
<1>5. /\ Unsent \in ControlSets /\ Fresh(Unsent)
      /\ \A c \in Unsent : c.op.after <= Water /\ c.op = ops[c.id]
      /\ live.dirty => \A o \in Ops : Given(o) =>
            live.states[o] = ops[o] \/ \E c \in Unsent : c.id = o
  BY <1>2, UnsentIsFresh
<1>6. batch \in BatchType /\ batch.controls \subseteq Unsent
  BY <1>1, <1>5, <1>a, BatchIsSegment
<1>7. console.granted /\ ~live.dirty => \A o \in Ops : Given(o) => Now(o, live.states[o])
  BY <1>2 DEF PumpKnows
<1>8. CASE UNCHANGED toHost /\ live' = [live EXCEPT !.wanted = FALSE]
  <2>1. PumpSame
    BY <1>2, <1>8 DEF PumpSame, LiveRecords
  <2>2. PumpKnows'
    BY <1>2, <1>4, <2>1, PumpStays DEF PumpSame
  <2> QED
    BY <1>2, <1>4, <1>8, <2>1, <2>2, QuietControl DEF PumpSame
<1>9. CASE /\ UNCHANGED toHost /\ live' = [live EXCEPT !.wanted = FALSE, !.dirty = FALSE]
           /\ console.granted /\ EmptyBatch(batch)
  <2>1. live'.states = live.states
    BY <1>2, <1>9 DEF LiveRecords
  <2>2. Unsent = {}
    <3>1. Water <= Len(journal) /\ SentThrough <= Len(journal)
      BY <1>1
    <3>2. EmptyBatch(batch) /\ SentThrough <= Water /\ (\A c \in Unsent : c.op.after <= Water)
             => Unsent = {}
      BY <1>1, <1>5, <1>a, <3>1, BatchCarries
    <3> QED
      BY <1>1, <1>5, <1>9, <3>2
  <2>3. \A o \in Ops : Given(o) => Now(o, live.states[o])
    BY <1>5, <1>7, <1>9, <2>2 DEF Now
  <2>4. PumpKnows'
    BY <1>2, <1>3, <2>1, <2>3 DEF PumpKnows, Now, Given
  <2> QED
    BY <1>2, <1>4, <1>9, <2>1, <2>4, QuietControl
<1>10. CASE /\ toHost' = Append(toHost, Ask("replay", "live", batch, {}, 0)) /\ console.granted
            /\ live'.dirty = live.dirty
            /\ live'.states = [o \in Ops |-> IF \E c \in batch.controls : c.id = o THEN ops[o]
                                             ELSE live.states[o]]
  <2>a. PICK r : r = Ask("replay", "live", batch, {}, 0)
    OBVIOUS
  <2>1. /\ r \in RequestType /\ r.kind = "replay" /\ r.flow = "live" /\ r.rest = {}
        /\ r.batch = batch
    BY <1>6, <2>a, GenTyped, NoControls DEF Ask, RequestType
  <2>2. Copied(r) /\ LeftToSay(r)
    <3>1. r.batch.controls \subseteq Unsent /\ r.rest \subseteq Unsent
      BY <1>6, <2>1
    <3> QED
      BY <1>2, <1>5, <2>1, <3>1, FreshCopied DEF LeftToSay
  <2>3. ASSUME NEW o \in Ops, Needs(r, o) PROVE Covered(o, Len(toHost)) \/ Carries(r, o)
    <3>1. CASE Now(o, live.states[o])
      BY <1>2, <2>3, <3>1 DEF Shown, Needs
    <3>2. CASE \E c \in Unsent : c.id = o
      BY <1>1, <1>2, <1>5, <1>a, <2>1, <2>3, <3>2, FreshCarries
    <3> QED
      BY <1>5, <1>7, <1>10, <2>3, <3>1, <3>2 DEF Needs, Now
  <2>4. Shown'
    <3>1. ASSUME NEW o \in Ops, \E c \in batch.controls : c.id = o
          PROVE  Covered(o, Len(toHost))'
      <4>a. PICK n : n = Len(toHost)
        OBVIOUS
      <4>1. n \in Nat /\ Len(toHost') = n + 1 /\ toHost'[n + 1] = r
        BY <1>10, <2>1, <2>a, <4>a, QueueFacts
      <4>2. Carries(r, o)'
        BY <1>2, <1>5, <1>6, <2>1, <3>1 DEF Carries, Now, Fresh
      <4>3. Unbroken(toHost, n + 1, n + 1)' /\ n + 1 \in 1..(n + 1)
        BY <2>1, <4>1 DEF Unbroken
      <4> QED
        BY <4>1, <4>2, <4>3 DEF Covered
    <3>2. \A o \in Ops : ops[o].epoch <= ops[o].epoch
      BY OpFields
    <3>3. \A o \in Ops :
             \/ live'.states[o] = live.states[o]
             \/ /\ live'.states[o].epoch <= ops[o].epoch
                /\ Given(o) /\ Now(o, live'.states[o]) => Covered(o, Len(toHost))'
      BY <1>10, <3>1, <3>2
    <3>4. \E q \in RequestType : toHost' = Append(toHost, q) /\ q.kind # "initialize"
      BY <1>10, <2>1, <2>a
    <3> QED
      BY <1>2, <3>3, <3>4, SaidShown
  <2>5. PumpKnows'
    <3>1. ASSUME ~live.dirty, NEW o \in Ops, Given(o) PROVE Now(o, live.states[o])'
      <4>1. Unsent = {} /\ batch.controls = {}
        BY <1>6, <3>1 DEF Unsent
      <4> QED
        BY <1>2, <1>7, <1>10, <3>1, <4>1 DEF Now
    <3> QED
      BY <1>2, <1>3, <1>10, <3>1 DEF PumpKnows, Given
  <2> QED
    BY <1>2, <1>4, <1>10, <2>1, <2>2, <2>3, <2>4, <2>5, <2>a, AskingControl
<1> QED
  <2>1. CASE ~console.granted
    BY <1>8, <2>1 DEF PumpLive
  <2>2. CASE console.granted /\ EmptyBatch(batch)
    BY <1>9, <1>a, <2>2 DEF PumpLive
  <2>3. CASE console.granted /\ ~EmptyBatch(batch)
    <3>1. toHost' = Append(toHost, Ask("replay", "live", batch, {}, 0))
      BY <1>a, <2>3 DEF PumpLive
    <3>2. live' = [live EXCEPT
                     !.inFlight = @ + 1, !.sent = batch.through,
                     !.wanted = batch.through < Water \/ batch.controls # {},
                     !.states = [o \in Ops |->
                        IF \E c \in batch.controls : c.id = o THEN ops[o] ELSE @[o]]]
      BY <1>a, <2>3 DEF PumpLive
    <3>3. /\ live'.dirty = live.dirty
          /\ live'.states = [o \in Ops |-> IF \E c \in batch.controls : c.id = o THEN ops[o]
                                           ELSE live.states[o]]
      BY <1>2, <3>2 DEF LiveRecords
    <3> QED
      BY <1>10, <2>3, <3>1, <3>3
  <2> QED
    BY <2>1, <2>2, <2>3

\* The next request of the synchronization, if there is one.
LEMMA NextRequestSays ==
    ASSUME ConsoleBounds, Inv, NEW history \in Seq(Nat),
           NEW s, s.rest \in ControlSets,
           s.gen \in Nat, s.after \in Nat, s.limit \in Nat, s.owed \in BOOLEAN,
           s.after <= Len(history), s.limit <= Len(history),
           NEW c, c.hostEpoch \in Nat,
           NEW acknowledged \in Nat, acknowledged <= Len(history),
           toHost' = toHost \o NextRequest(history, s, c, acknowledged)
    PROVE  \/ UNCHANGED toHost
           \/ \E r \in RequestType :
                 /\ toHost' = Append(toHost, r) /\ r.flow = "sync"
                 /\ \/ r.kind = "synchronized" /\ r.batch.controls = {} /\ r.rest = {}
                    \/ /\ r.kind = "replay" /\ r.batch = NextBatch(history, s)
                       /\ r.rest = s.rest /\ r.gen = s.gen /\ ~EmptyBatch(NextBatch(history, s))
<1>1. PICK batch : batch = NextBatch(history, s)
  OBVIOUS
<1>2. batch \in BatchType
  BY <1>1, BatchIsSegment DEF NextBatch
<1>3. PICK ending : ending = [Ask("synchronized", "sync", Nothing, {}, acknowledged) EXCEPT
                                !.owed = s.owed, !.epoch = c.hostEpoch]
  OBVIOUS
<1>4. PICK more : more = [Ask("replay", "sync", batch, s.rest, s.limit) EXCEPT
                            !.gen = s.gen, !.owed = s.owed]
  OBVIOUS
<1>5. \/ NextRequest(history, s, c, acknowledged) = <<>>
      \/ NextRequest(history, s, c, acknowledged) = <<ending>>
      \/ /\ NextRequest(history, s, c, acknowledged) = <<more>>
         /\ ~EmptyBatch(batch)
  BY <1>1, <1>3, <1>4 DEF NextRequest
<1>6. Nothing \in BatchType /\ console.gen \in Nat /\ toHost \in Seq(RequestType)
  BY InvParts, NoneIsSeq, NothingIsSegment DEF ConsoleType, ConsoleRecords, WireType
<1>7. /\ ending \in RequestType /\ ending.flow = "sync" /\ ending.kind = "synchronized"
      /\ ending.batch = Nothing /\ ending.rest = {}
  BY <1>3, <1>6, NoControls DEF Ask, RequestType
<1>8. /\ more \in RequestType /\ more.flow = "sync" /\ more.kind = "replay"
      /\ more.gen = s.gen /\ more.batch = batch /\ more.rest = s.rest
  BY <1>2, <1>4, <1>6 DEF Ask, RequestType
<1>9. CASE toHost' = toHost \o <<>>
  BY <1>6, <1>9, ConcatEmptySeq
<1>10. CASE toHost' = toHost \o <<ending>>
  <2>1. toHost' = Append(toHost, ending)
    BY <1>6, <1>7, <1>10, AppendIsConcat
  <2> QED
    BY <1>7, <2>1 DEF Nothing
<1>11. CASE toHost' = toHost \o <<more>> /\ ~EmptyBatch(batch)
  <2>1. toHost' = Append(toHost, more)
    BY <1>6, <1>8, <1>11, AppendIsConcat
  <2> QED
    BY <1>1, <1>8, <1>11, <2>1
<1> QED
  BY <1>5, <1>9, <1>10, <1>11

\* A synchronization goes on that carries what is not heard of.
LEMMA SyncGoesOn ==
    ASSUME ConsoleBounds, Inv, Inv', StoredIsPrefix, AloneInv, ControlInv, Moves,
           UNCHANGED <<hostVars, ops, admitting>>, console'.gen = console.gen,
           ToSet(toNode') \subseteq ToSet(toNode),
           NEW history \in Seq(Nat), NEW s, s.rest \in ControlSets, Fresh(s.rest),
           s.gen \in Nat, s.after \in Nat, s.limit \in Nat, s.owed \in BOOLEAN,
           s.after <= Len(history), s.limit <= Len(history),
           NEW c, c.hostEpoch \in Nat, NEW acknowledged \in Nat, acknowledged <= Len(history),
           toHost' = toHost \o NextRequest(history, s, c, acknowledged),
           \/ EmptyBatch(NextBatch(history, s))
           \/ \A o \in Ops : Given(o) => Heard(o) \/ \E d \in s.rest : d.id = o,
           \A o \in Ops : live'.states[o] \in {live.states[o], console'.told[o]},
           ToldIsHeard', PumpKnows'
    PROVE  ControlInv'
<1>1. \/ UNCHANGED toHost
      \/ \E r \in RequestType :
            /\ toHost' = Append(toHost, r) /\ r.flow = "sync"
            /\ \/ r.kind = "synchronized" /\ r.batch.controls = {} /\ r.rest = {}
               \/ /\ r.kind = "replay" /\ r.batch = NextBatch(history, s)
                  /\ r.rest = s.rest /\ r.gen = s.gen /\ ~EmptyBatch(NextBatch(history, s))
  BY NextRequestSays
<1>2. OpsInOrder /\ Shown
  BY DEF ControlInv
<1>3. Shown'
  <2>1. ASSUME NEW o \in Ops
        PROVE  \/ live'.states[o] = live.states[o]
               \/ /\ live'.states[o].epoch <= ops[o].epoch
                  /\ Given(o) /\ Now(o, live'.states[o]) => Covered(o, Len(toHost))'
    <3>1. CASE live'.states[o] = console'.told[o]
      <4>1. /\ console'.told[o].epoch <= ops[o].epoch
            /\ Given(o) /\ Now(o, console'.told[o]) => Heard(o)'
        BY DEF ToldIsHeard, Given, Now
      <4>2. Heard(o)' => Covered(o, Len(toHost))'
        BY DEF Covered
      <4> QED
        BY <3>1, <4>1, <4>2
    <3> QED
      BY <3>1
  <2>2. \/ UNCHANGED toHost
        \/ \E r \in RequestType : toHost' = Append(toHost, r) /\ r.kind # "initialize"
    BY <1>1
  <2> QED
    BY <1>2, <2>1, <2>2, SaidShown
<1>4. CASE UNCHANGED toHost
  <2>1. Extends /\ Len(toHost) \in Nat
    BY <1>4, QueueFacts DEF Extends
  <2>2. \A i \in 1..Len(toHost') : ~(i > Len(toHost))
    BY <1>4, <2>1
  <2>3. \A w \in ToSet(admitting') : w \in ToSet(toNode) \cup ToSet(admitting)
    OBVIOUS
  <2> QED
    BY <1>3, <1>4, <2>1, <2>2, <2>3, NodeControl
<1>5. ASSUME NEW r \in RequestType, toHost' = Append(toHost, r), r.kind = "synchronized",
             r.batch.controls = {}, r.rest = {}
      PROVE  ControlInv'
  <2>1. Copied(r) /\ LeftToSay(r)
    BY <1>5 DEF Copied, LeftToSay
  <2> QED
    BY <1>3, <1>5, <2>1, AskingControl
<1>6. ASSUME NEW r \in RequestType, toHost' = Append(toHost, r), r.kind = "replay",
             r.batch = NextBatch(history, s), r.rest = s.rest,
             ~EmptyBatch(NextBatch(history, s))
      PROVE  ControlInv'
  <2>1. r.batch = Batch(history, s.after, s.limit, s.rest)
    BY <1>6 DEF NextBatch
  <2>2. r.batch.controls \subseteq s.rest /\ r.rest \subseteq s.rest
    BY <1>6, <2>1, BatchIsSegment
  <2>3. \A o \in Ops : Given(o) => Heard(o) \/ \E d \in s.rest : d.id = o
    BY <1>6
  <2>4. Copied(r)
    BY <1>2, <2>2, FreshCopied
  <2>5. LeftToSay(r)
    BY <1>6, <2>2, <2>3 DEF LeftToSay, Fresh
  <2>6. ASSUME NEW o \in Ops, Needs(r, o) PROVE Covered(o, Len(toHost)) \/ Carries(r, o)
    <3>1. CASE Heard(o)
      BY <3>1 DEF Covered
    <3>2. CASE \E d \in s.rest : d.id = o
      BY <1>2, <1>6, <2>1, <2>6, <3>2, FreshCarries
    <3> QED
      BY <2>3, <2>6, <3>1, <3>2 DEF Needs
  <2> QED
    BY <1>3, <1>6, <2>4, <2>5, <2>6, AskingControl
<1> QED
  BY <1>1, <1>4, <1>5, <1>6

\* Handing over keeps what the pump has said, or takes what the console was told.
LEMMA HandedSays ==
    ASSUME Inv, NEW l \in LiveRecords, l.states = live.states, NEW c \in ConsoleRecords,
           NEW acknowledged \in Nat, live' = l \/ live' = HandedOver(l, c, acknowledged)
    PROVE  /\ \A o \in Ops : live'.states[o] \in {live.states[o], c.told[o]}
           /\ live'.dirty = l.dirty
<1> DEFINE states == [o \in Ops |-> IF c.told[o] # NoOp THEN c.told[o] ELSE l.states[o]]
<1>1. states \in [Ops -> OpType] /\ acknowledged \in Unset
  BY DEF ConsoleRecords, LiveRecords, Unset
<1>2. HandedOver(l, c, acknowledged) = [l EXCEPT !.sent = acknowledged, !.states = states]
  BY DEF HandedOver, LiveRecords
<1>3. \A o \in Ops : states[o] \in {l.states[o], c.told[o]}
  OBVIOUS
<1> HIDE DEF states
<1>4. [l EXCEPT !.sent = acknowledged, !.states = states].states = states
      /\ [l EXCEPT !.sent = acknowledged, !.states = states].dirty = l.dirty
  BY DEF LiveRecords
<1> QED
  BY <1>2, <1>3, <1>4

LEMMA HandleGrantsControl ==
    ASSUME ConsoleBounds, Inv, Inv', StoredIsPrefix, OneAtATime, AloneInv, ControlInv, HandleGrants
    PROVE  ControlInv'
<1>a. PICK request : request = Head(toNode).request
  OBVIOUS
<1>b. PICK untold \in SUBSET Ops : untold = {o \in Ops : ops[o] # NoOp /\ console.told[o] # ops[o]}
  OBVIOUS
<1>c. PICK owes \in BOOLEAN : owes = (console.granted \/ request.owed)
  <2>1. (console.granted \/ request.owed) \in BOOLEAN
    OBVIOUS
  <2> QED
    BY <2>1
<1>1. /\ toNode # <<>> /\ toNode' = Tail(toNode) /\ ToSet(toNode') \subseteq ToSet(toNode)
      /\ Head(toNode) \in ToSet(toNode) /\ Head(toNode).kind = "answer"
      /\ request \in RequestType /\ request.flow = "sync" /\ Head(toNode).epoch \in Nat
  BY <1>a, AnswerRead DEF HandleGrants, AnswerType
<1>2. /\ UNCHANGED <<acked, ops, hostVars, admitting>>
      /\ acked \in Nat /\ OpsInOrder /\ ToldIsHeard /\ PumpKnows
  BY InvParts DEF HandleGrants, JournalType, ControlInv
<1>3. CASE request.gen # console.gen
  <2>1. UNCHANGED <<journal, epoch, console, live, toHost>>
    BY <1>3, <1>a DEF HandleGrants
  <2>2. Moves
    BY <1>2, <2>1, StillMoves
  <2>3. PumpKnows'
    BY <1>2, <2>1 DEF PumpKnows, Given, Now
  <2> QED
    BY <1>1, <1>2, <2>1, <2>2, <2>3, QuietControl
<1>4. CASE request.gen = console.gen
  <2>a. PICK history : history = journal \o buffered
    OBVIOUS
  <2>b. PICK rest : rest = IF owes THEN Wires(untold) ELSE {}
    OBVIOUS
  <2>c. PICK s : s = [gen |-> request.gen, after |-> acked, owed |-> request.owed,
                      limit |-> IF owes THEN Len(history) ELSE acked, rest |-> rest]
    OBVIOUS
  <2>d. PICK l : l = IF request.owed THEN Marked(live) ELSE Wants(live, buffered # <<>>)
    OBVIOUS
  <2>1. /\ Commit(<<>>)
        /\ IF request.owed THEN Granted(Head(toNode).epoch)
           ELSE UNCHANGED <<epoch, ackedEpoch, console>>
        /\ toHost' = toHost \o NextRequest(history, s, console', acked)
        /\ live' = l \/ live' = HandedOver(l, console', acked)
    BY <1>4, <1>a, <1>b, <1>c, <2>a, <2>b, <2>c, <2>d DEF HandleGrants
  <2>2. /\ journal' = history /\ Grows /\ Water' \in Nat /\ acked <= Water'
    BY <2>1, <2>a, CommitAll
  <2>3. history \in Seq(Nat) /\ Len(history) = Water' /\ acked <= Len(history)
        /\ Len(history) \in Nat
    BY <2>2 DEF Grows, Water
  <2>4. Moves
    <3>1. CASE request.owed
      BY <1>1, <1>2, <2>1, <2>2, <3>1, GrantedMoves
    <3>2. CASE ~request.owed
      <4>1. epoch <= epoch' /\ Water <= Water'
        BY <2>1, <2>2, <3>2, InvParts DEF JournalType, Grows
      <4> QED
        BY <1>2, <4>1, SameMoves
    <3> QED
      BY <3>1, <3>2
  <2>5. /\ console' \in ConsoleRecords /\ ConsoleHolds /\ console'.told = console.told
        /\ console'.granted = (console.granted \/ request.owed)
        /\ console'.hostEpoch \in Nat
    <3>1. console' \in ConsoleRecords /\ console \in ConsoleRecords
      BY InvParts DEF Inv, TypeOK, ConsoleType
    <3>2. CASE request.owed
      BY <1>1, <2>1, <3>1, <3>2, GrantedSame DEF ConsoleRecords
    <3>3. CASE ~request.owed
      BY <1>1, <2>1, <3>1, <3>3 DEF ConsoleRecords, ConsoleHolds, RequestType
    <3> QED
      BY <3>2, <3>3
  <2>6. rest \in ControlSets /\ Fresh(rest)
    <3>1. \A o \in untold : Given(o)
      BY <1>2, <1>b DEF OpsInOrder
    <3>2. Fresh(Wires(untold)) /\ Wires(untold) \in ControlSets
      BY <3>1, WiresFresh
    <3>3. Fresh({}) /\ {} \in ControlSets
      BY NoControls DEF Fresh
    <3> QED
      BY <2>b, <3>2, <3>3
  <2>7. /\ s.rest = rest /\ s.gen = console.gen /\ s.gen \in Nat /\ s.after = acked
        /\ s.limit \in Nat /\ s.owed \in BOOLEAN /\ s.limit <= Len(history)
        /\ s.limit = (IF owes THEN Len(history) ELSE acked)
    BY <1>1, <1>2, <1>4, <2>c, <2>3 DEF RequestType
  <2>8. \/ EmptyBatch(NextBatch(history, s))
        \/ \A o \in Ops : Given(o) => Heard(o) \/ \E d \in s.rest : d.id = o
    <3>1. CASE owes
      <4>1. ASSUME NEW o \in Ops, Given(o) PROVE Heard(o) \/ \E d \in s.rest : d.id = o
        <5>1. CASE console.told[o] = ops[o]
          BY <1>2, <4>1, <5>1 DEF ToldIsHeard, Now
        <5>2. CASE console.told[o] # ops[o]
          <6>1. o \in untold
            BY <1>b, <4>1, <5>2 DEF Given, NoOp
          <6>2. Wire(o) \in rest /\ Wire(o).id = o
            BY <2>b, <3>1, <6>1 DEF Wires, Wire
          <6> QED
            BY <2>7, <6>2
        <5> QED
          BY <5>1, <5>2
      <4> QED
        BY <4>1
    <3>2. CASE ~owes
      <4>1. s.rest = {} /\ s.limit = s.after
        BY <2>7, <2>b, <3>2
      <4>2. EmptyBatch(Batch(history, s.after, s.limit, s.rest))
        BY <1>2, <2>3, <2>6, <2>7, <4>1, BatchCarries
      <4> QED
        BY <4>2 DEF NextBatch
    <3> QED
      BY <3>1, <3>2
  <2>9. l \in LiveRecords /\ l.states = live.states /\ (request.owed => l.dirty)
        /\ (live.dirty => l.dirty)
    <3>1. live \in LiveRecords
      BY InvParts DEF LiveType
    <3>2. CASE request.owed
      BY <2>d, <3>1, <3>2 DEF Marked, LiveRecords
    <3>3. CASE ~request.owed
      <4>1. l = live \/ l = [live EXCEPT !.wanted = TRUE]
        BY <2>d, <3>3 DEF Wants
      <4> QED
        BY <3>1, <3>3, <4>1 DEF LiveRecords
    <3> QED
      BY <3>2, <3>3
  <2>10. /\ \A o \in Ops : live'.states[o] \in {live.states[o], console'.told[o]}
         /\ live'.dirty = l.dirty
    BY <1>2, <2>1, <2>5, <2>9, HandedSays
  <2>11. console.status = "syncing" /\ ~console.joining
    <3>1. Fits(request) /\ Current(request)
      BY <1>1, <1>4, <1>a DEF AloneInv, Fitting, Current
    <3>2. console.joining => request.gen < console.gen
      BY <1>1, <1>a DEF OneAtATime, JoinsAlone
    <3> QED
      BY <1>1, <1>4, <3>1, <3>2, GenTyped DEF Fits
  <2>12. PumpKnows'
    BY <1>2, <2>5, <2>9, <2>10, <2>11 DEF PumpKnows, ConsoleHolds
  <2>13. ToldIsHeard'
    BY <1>2, <2>4, <2>5, ToldStays
  <2> QED
    BY <1>1, <1>2, <2>1, <2>3, <2>4, <2>5, <2>6, <2>7, <2>8, <2>10, <2>12, <2>13, SyncGoesOn
       DEF ConsoleHolds
<1> QED
  BY <1>3, <1>4

LEMMA HandleReplayedControl ==
    ASSUME ConsoleBounds, Inv, Inv', StoredIsPrefix, OneAtATime, AloneInv, ControlInv, HandleReplayed
    PROVE  ControlInv'
<1>a. PICK request : request = Head(toNode).request
  OBVIOUS
<1>b. PICK batch : batch = request.batch
  OBVIOUS
<1>c. PICK rest : rest = {c \in request.rest : c.id \notin Named(batch.controls)}
  OBVIOUS
<1>d. PICK s : s = [gen |-> request.gen, after |-> batch.through, limit |-> request.limit,
                    owed |-> request.owed, rest |-> rest]
  OBVIOUS
<1>1. /\ request \in RequestType /\ Head(toNode) \in ToSet(toNode) /\ Head(toNode).ok
      /\ Head(toNode).kind = "answer" /\ request.kind = "replay" /\ Current(request)
      /\ request.flow = "sync" /\ console.status = "syncing"
      /\ ToSet(toNode') \subseteq ToSet(toNode) /\ RequestFine(request)
  BY <1>a, ReplayedCurrent, Reads, InvParts DEF AnswersSync, WiresFine
<1>2. /\ batch \in BatchType /\ batch.controls \in ControlSets
      /\ batch.through \in Nat /\ batch.through <= Water /\ Water \in Nat
      /\ request.limit \in Nat /\ request.limit <= Water
      /\ request.rest \in ControlSets /\ request.gen \in Nat /\ request.owed \in BOOLEAN
  BY <1>b, <1>1, InvParts DEF RequestType, BatchType, RequestFine, Segment, Water
<1>3. rest \in ControlSets
  BY <1>c, <1>2, ControlsSubset
<1>4. /\ UNCHANGED <<ops, epoch, hostVars, admitting>> /\ journal \in Seq(Nat)
      /\ OpsInOrder /\ ToldIsHeard /\ PumpKnows
  BY InvParts DEF HandleReplayed, JournalType, ControlInv
<1>5. acked' \in Nat /\ acked' <= Water
  <2>1. acked' = Max({acked, batch.through}) /\ acked \in Nat /\ acked <= Water
    BY <1>a, <1>b, InvParts DEF HandleReplayed, JournalType, Committed
  <2>2. Max({acked, batch.through}) = IF acked >= batch.through THEN acked ELSE batch.through
    BY <1>2, <2>1, GreaterOfTwo
  <2> QED
    BY <1>2, <2>1, <2>2
<1>6. /\ console' \in ConsoleRecords /\ ConsoleHolds /\ console'.granted = console.granted
      /\ console'.told = Remembered(console.told, batch) /\ console'.hostEpoch \in Nat
  <2>1. console' \in ConsoleRecords /\ console \in ConsoleRecords
    BY InvParts DEF Inv, TypeOK, ConsoleType
  <2>2. \E hosts : console' = [console EXCEPT !.hostEpoch = hosts,
                                              !.told = Remembered(console.told, batch)]
    BY <1>a, <1>b, <2>1 DEF HandleReplayed, ConsoleRecords
  <2> QED
    BY <2>1, <2>2 DEF ConsoleRecords, ConsoleHolds
<1>7. Copied(request) /\ LeftToSay(request)
  BY <1>1, <1>a DEF ControlInv, Copies, RestIsLeft
<1>8. \A c \in batch.controls : c.id \in Ops /\ Now(c.id, c.op) /\ Heard(c.id)
  <2>1. \A c \in batch.controls : c.id \in Ops /\ Now(c.id, c.op)
    BY <1>1, <1>7, <1>b, ControlsTyped DEF LeftToSay
  <2> QED
    BY <1>1, <1>a, <1>b, <2>1 DEF ControlInv, AnsweredIsHeard
<1>9. Fresh(rest)
  BY <1>1, <1>7, <1>c DEF Fresh, Copied, LeftToSay
<1>10. \A o \in Ops : Given(o) => Heard(o) \/ \E d \in rest : d.id = o
  <2> SUFFICES ASSUME NEW o \in Ops, Given(o), ~Heard(o) PROVE \E d \in rest : d.id = o
    OBVIOUS
  <2>1. PICK d \in request.rest : d.id = o
    BY <1>1, <1>7 DEF LeftToSay
  <2>2. d.id \notin Named(batch.controls)
    BY <1>8, <2>1 DEF Named
  <2> QED
    BY <1>c, <2>1, <2>2
<1>11. ToldIsHeard'
  <2> SUFFICES ASSUME NEW o \in Ops
               PROVE  /\ console'.told[o].epoch <= ops[o].epoch
                      /\ Given(o) /\ Now(o, console'.told[o]) => Heard(o)
    BY <1>4 DEF ToldIsHeard, Given, Now, Heard, hostVars
  <2>1. CASE o \in Named(batch.controls)
    <3>1. console'.told[o] = ops[o] /\ Heard(o) /\ ops[o].epoch \in Nat
      BY <1>6, <1>8, <2>1, OpFields DEF Remembered, Named
    <3> QED
      BY <3>1
  <2>2. CASE o \notin Named(batch.controls)
    BY <1>4, <1>6, <2>2 DEF Remembered, ToldIsHeard
  <2> QED
    BY <2>1, <2>2
<1>12. toHost' = toHost \o NextRequest(journal, s, console', acked')
  BY <1>a, <1>b, <1>c, <1>d DEF HandleReplayed
<1>13. /\ s.rest = rest /\ s.gen \in Nat /\ s.after \in Nat /\ s.limit \in Nat
       /\ s.owed \in BOOLEAN /\ s.after <= Len(journal) /\ s.limit <= Len(journal)
       /\ acked' <= Len(journal)
  BY <1>d, <1>2, <1>5 DEF Water
<1>14. PICK l : l = Wants(live, buffered # <<>>)
  OBVIOUS
<1>15. l \in LiveRecords /\ l.states = live.states /\ l.dirty = live.dirty
  <2>1. live \in LiveRecords /\ (l = live \/ l = [live EXCEPT !.wanted = TRUE])
    BY <1>14, InvParts DEF Wants, LiveType
  <2> QED
    BY <2>1 DEF LiveRecords
<1>16. /\ Grows /\ \/ live' = live
                   \/ live' = HandedOver(l, console', acked')
  <2>1. CASE Ends(journal, s, console')
    <3>1. /\ Commit(<<>>)
          /\ live' = HandedOver(l, console', acked')
      BY <1>14, <1>a, <1>b, <1>c, <1>d, <2>1 DEF HandleReplayed
    <3> QED
      BY <3>1, CommitAll
  <2>2. CASE ~Ends(journal, s, console')
    <3>1. UNCHANGED <<journal, buffered, live>>
      BY <1>a, <1>b, <1>c, <1>d, <2>2 DEF HandleReplayed
    <3> QED
      BY <3>1, KeptWater
  <2> QED
    BY <2>1, <2>2
<1>17. /\ \A o \in Ops : live'.states[o] \in {live.states[o], console'.told[o]}
       /\ live'.dirty = live.dirty
  <2>1. CASE live' = live
    BY <2>1
  <2>2. CASE live' = HandedOver(l, console', acked')
    BY <1>5, <1>6, <1>15, <2>2, HandedSays
  <2> QED
    BY <1>16, <2>1, <2>2
<1>18. Moves
  <2>1. epoch <= epoch'
    BY <1>4, InvParts DEF JournalType
  <2> QED
    BY <1>4, <1>16, <2>1, SameMoves DEF Grows
<1>19. PumpKnows'
  <2>1. console.joining => request.gen < console.gen
    BY <1>1, <1>a DEF OneAtATime, JoinsAlone
  <2>2. ~console.joining
    BY <1>1, <1>2, <2>1, GenTyped DEF Current
  <2> QED
    BY <1>1, <1>4, <1>6, <1>17, <2>2 DEF PumpKnows, ConsoleHolds
<1>20. \A o \in Ops : Given(o) => Heard(o) \/ \E d \in s.rest : d.id = o
  BY <1>10, <1>13
<1> QED
  BY <1>1, <1>3, <1>4, <1>5, <1>6, <1>9, <1>11, <1>12, <1>13, <1>17, <1>18, <1>19, <1>20, SyncGoesOn
     DEF ConsoleHolds

-----------------------------------------------------------------------------
(* What the Host reads                                                     *)

LEMMA CoveredOnceRead ==
    ASSUME Inv, toHost # <<>>, Consumed, UNCHANGED ops, NEW o \in Ops,
           NEW i \in Nat, i + 1 <= Len(toHost),
           Heard(o) => Heard(o)',
           peer.failed /\ Head(toHost).kind # "initialize" => peer'.failed,
           Carries(Head(toHost), o) => Heard(o)' \/ peer'.failed,
           Covered(o, i + 1)
    PROVE  Covered(o, i)'
<1>1. /\ toHost' = Tail(toHost) /\ Head(toHost) = toHost[1] /\ Len(toHost) \in Nat
      /\ Len(toHost') = Len(toHost) - 1
      /\ \A k \in 1..(Len(toHost) - 1) : toHost'[k] = toHost[k + 1]
  BY QueueFacts DEF Consumed
<1>2. \A k \in 1..i : toHost'[k] = toHost[k + 1] /\ k + 1 \in 1..(i + 1)
  BY <1>1
<1>3. \A j \in 1..(i + 1), m \in Nat : m + 1 >= j /\ m >= 1 /\ Unbroken(toHost, j, i + 1)
                                         => Unbroken(toHost, m, i)'
  <2> SUFFICES ASSUME NEW j \in 1..(i + 1), NEW m \in Nat, m + 1 >= j, m >= 1,
                      Unbroken(toHost, j, i + 1), NEW k \in m..i
               PROVE  toHost'[k].kind # "initialize"
    BY DEF Unbroken
  <2>1. k \in 1..i /\ k + 1 \in j..(i + 1)
    OBVIOUS
  <2> QED
    BY <1>2, <2>1 DEF Unbroken
<1>4. CASE Heard(o)
  BY <1>4 DEF Covered
<1>5. CASE peer.failed /\ Unbroken(toHost, 1, i + 1)
  <2>1. toHost[1].kind # "initialize" /\ Unbroken(toHost, 1, i)'
    <3>1. 1 \in 1..(i + 1) /\ 1 \in Nat /\ 1 + 1 >= 1 /\ 1 >= 1
      OBVIOUS
    <3>2. toHost[1].kind # "initialize"
      BY <1>5, <3>1 DEF Unbroken
    <3>3. Unbroken(toHost, 1, i)'
      BY <1>3, <1>5, <3>1
    <3> QED
      BY <3>2, <3>3
  <2> QED
    BY <1>1, <1>5, <2>1 DEF Covered
<1>6. ASSUME NEW j \in 1..(i + 1), Carries(toHost[j], o), Unbroken(toHost, j, i + 1)
      PROVE  Covered(o, i)'
  <2>1. CASE j = 1
    <3>1. Unbroken(toHost, 1, i)'
      BY <1>3, <1>6, <2>1
    <3> QED
      BY <1>1, <1>6, <2>1, <3>1 DEF Covered
  <2>2. CASE j # 1
    <3>1. PICK m \in 1..i : m + 1 = j
      <4>1. j - 1 \in 1..i /\ (j - 1) + 1 = j
        BY <2>2
      <4> QED
        BY <4>1
    <3>2. Unbroken(toHost, m, i)'
      BY <1>3, <1>6, <3>1
    <3>3. Carries(toHost[m], o)'
      BY <1>2, <1>6, <3>1 DEF Carries, Now
    <3> QED
      BY <3>2, <3>3 DEF Covered
  <2> QED
    BY <2>1, <2>2
<1> QED
  BY <1>4, <1>5, <1>6 DEF Covered

\* The Host reads one request, and loses nothing it has heard.
LEMMA HostReadsControl ==
    ASSUME Inv, Inv', ControlInv, toHost # <<>>, Consumed, HostSays,
           UNCHANGED <<journalVars, nodeVars, console, live, up>>,
           \A o \in Ops : Heard(o) => Heard(o)',
           peer.failed /\ Head(toHost).kind # "initialize" => peer'.failed,
           \A o \in Ops : Carries(Head(toHost), o) => Heard(o)' \/ peer'.failed,
           receipts \subseteq receipts', hostEpoch' <= epoch,
           \A o \in Ops : hostOps'[o].state = "none" => hostOps'[o].epoch = 0,
           \A o \in Ops : hostOps'[o].state # "none" => Faithful(o, hostOps'[o]),
           \A m \in ToSet(toNode') : m.kind = "answer" =>
              \/ m \in ToSet(toNode) \/ ~m.ok
              \/ m.request.kind = "replay" =>
                    \A c \in m.request.batch.controls : Now(c.id, c.op) => Heard(c.id)',
           HeardFirst'
    PROVE  ControlInv'
<1>0. /\ Copies /\ OpsInOrder /\ Governed /\ Shown /\ ToldIsHeard /\ AnsweredIsHeard
      /\ RestIsLeft /\ PumpKnows /\ PromptsAreFree /\ UNCHANGED <<ops, epoch, journal, admitting>>
  BY DEF ControlInv, journalVars, nodeVars
<1>a. PICK n : n = Len(toHost)
  OBVIOUS
<1>1. /\ toHost' = Tail(toHost) /\ Head(toHost) = toHost[1] /\ n \in Nat /\ n >= 1
      /\ Len(toHost') = n - 1 /\ Head(toHost) \in ToSet(toHost) /\ toHost' \in Seq(RequestType)
      /\ \A k \in 1..(n - 1) : toHost'[k] = toHost[k + 1] /\ k + 1 \in 1..n
      /\ \A r \in ToSet(toHost') : r \in ToSet(toHost)
  BY <1>a, QueueFacts, ToSetHead DEF Consumed
<1>2. \A m \in ToSet(toNode') :
         \/ m \in ToSet(toNode)
         \/ m.kind \in {"grant", "answer"} /\ (m.kind = "answer" => m.request \in ToSet(toHost))
  <2>1. \A i \in 1..Len(toNode') :
           \/ i \in 1..Len(toNode) /\ toNode'[i] = toNode[i]
           \/ /\ up /\ toNode'[i].kind \in {"grant", "answer"}
              /\ toNode'[i].kind = "answer" => toNode'[i].request = Head(toHost)
    BY ToldReplied
  <2>2. \A m \in ToSet(toNode') : \E i \in 1..Len(toNode') : m = toNode'[i]
    BY DEF ToSet
  <2> QED
    BY <1>1, <2>1, <2>2, QueueFacts
<1>3. Copies'
  <2>1. \A r : Copied(r) => Copied(r)'
    BY <1>0 DEF Copied, Faithful, Now, Given
  <2> QED
    BY <1>0, <1>1, <1>2, <2>1 DEF Copies, Faithful, Now, Given
<1>4. OpsInOrder'
  BY <1>0 DEF OpsInOrder, Given, Water
<1>5. ASSUME NEW o \in Ops, NEW i \in Nat, i + 1 <= n, Covered(o, i + 1)
      PROVE  Covered(o, i)'
  BY <1>0, <1>5, <1>a, CoveredOnceRead
<1>6. Governed'
  <2> SUFFICES ASSUME NEW i \in 1..Len(toHost'), toHost'[i].kind = "replay", NEW o \in Ops,
                      Needs(toHost[i], o)'
               PROVE  Covered(o, i)'
    BY DEF Governed
  <2>1. i \in Nat /\ i + 1 <= n /\ toHost'[i] = toHost[i + 1] /\ i + 1 \in 1..n
    BY <1>1
  <2>2. Needs(toHost[i + 1], o)
    BY <1>0, <2>1 DEF Needs, Given
  <2>3. Covered(o, i + 1)
    BY <1>0, <1>a, <2>1, <2>2 DEF Governed
  <2> QED
    BY <1>5, <2>1, <2>3
<1>7. Shown'
  <2>1. ASSUME NEW o \in Ops, Covered(o, n) PROVE Covered(o, Len(toHost))'
    <3>1. n - 1 \in Nat /\ (n - 1) + 1 = n /\ n <= n
      BY <1>1
    <3>2. PICK k \in Nat : k = n - 1 /\ k + 1 = n
      BY <3>1
    <3>3. Covered(o, k)'
      BY <1>5, <2>1, <3>2, <3>1
    <3> QED
      BY <1>1, <3>2, <3>3 DEF Covered
  <2> QED
    BY <1>0, <1>a, <2>1 DEF Shown, Given, Now
<1>8. ToldIsHeard'
  BY <1>0 DEF ToldIsHeard, Given, Now
<1>9. AnsweredIsHeard'
  <2> SUFFICES ASSUME NEW m \in ToSet(toNode'), m.kind = "answer", m.request.kind = "replay", m.ok,
                      NEW c \in m.request.batch.controls, Now(c.id, c.op)
               PROVE  Heard(c.id)'
    BY <1>0 DEF AnsweredIsHeard, Now
  <2>1. CASE m \in ToSet(toNode)
    <3>1. m.request \in RequestType
      BY <2>1, AnswerIn
    <3>2. c.id \in Ops
      BY <3>1, ControlsTyped
    <3> QED
      BY <1>0, <2>1, <3>2 DEF AnsweredIsHeard
  <2> QED
    BY <2>1
<1>10. RestIsLeft'
  <2>1. \A r : LeftToSay(r) => LeftToSay(r)'
    BY <1>0 DEF LeftToSay, Current, Now, Given
  <2> QED
    BY <1>0, <1>1, <1>2, <2>1 DEF RestIsLeft
<1>11. PumpKnows'
  BY <1>0 DEF PumpKnows, Given, Now
<1>12. PromptsAreFree'
  <2>1. \A w : FreeFor(w) => FreeFor(w)'
    BY <1>0 DEF FreeFor, Given
  <2>2. \A m \in ToSet(toNode') : m \in ToSet(toNode) \/ m.kind # "work"
    BY <1>2
  <2> QED
    BY <1>0, <2>1, <2>2 DEF PromptsAreFree, FreeFor
<1> QED
  BY <1>3, <1>4, <1>6, <1>7, <1>8, <1>9, <1>10, <1>11, <1>12 DEF ControlInv

\* A request that brings nothing is read.
LEMMA NothingHeard ==
    ASSUME Inv, Inv', ControlInv, toHost # <<>>, Consumed, HostSays,
           UNCHANGED <<journalVars, nodeVars, console, live, up>>,
           UNCHANGED <<stored, hostEpoch, hostOps, receipts>>,
           peer.failed /\ Head(toHost).kind # "initialize" => peer'.failed,
           Head(toHost).kind = "replay" => peer'.failed,
           \A m \in ToSet(toNode') : m.kind = "answer" =>
              m \in ToSet(toNode) \/ ~m.ok \/ m.request.kind # "replay"
    PROVE  ControlInv'
<1>1. /\ Copies /\ OpsInOrder /\ HeardFirst /\ UNCHANGED ops
  BY DEF ControlInv, journalVars
<1>2. \A o \in Ops : Heard(o) <=> Heard(o)'
  BY <1>1 DEF Heard, Now
<1>3. HeardFirst'
  BY <1>1, <1>2 DEF HeardFirst, Given
<1>4. \A o \in Ops : Carries(Head(toHost), o) => Heard(o)' \/ peer'.failed
  BY DEF Carries
<1>5. /\ receipts \subseteq receipts' /\ hostEpoch' <= epoch
      /\ \A o \in Ops : hostOps'[o].state = "none" => hostOps'[o].epoch = 0
      /\ \A o \in Ops : hostOps'[o].state # "none" => Faithful(o, hostOps'[o])
  BY <1>1 DEF Copies, OpsInOrder
<1> QED
  BY <1>2, <1>3, <1>4, <1>5, HostReadsControl

LEMMA OneAnswerTold ==
    ASSUME Inv, toHost # <<>>, NEW ok \in BOOLEAN, Told(<<Answer(Head(toHost), ok)>>)
    PROVE  \A m \in ToSet(toNode') : m \in ToSet(toNode) \/ m = Answer(Head(toHost), ok)
<1>a. PICK answer : answer = Answer(Head(toHost), ok)
  OBVIOUS
<1>1. Head(toHost) \in RequestType
  BY QueueFacts, ToSetHead
<1>2. answer \in MessageType
  BY <1>1, <1>a, InvParts, AnswerTyped
<1>3. <<answer>> \in Seq(MessageType) /\ ToSet(<<answer>>) = {answer}
  BY <1>2, OneMessage
<1> QED
  BY <1>3, <1>a, InvParts, ToldTyped

LEMMA HostInitializeControl ==
    ASSUME Inv, Inv', ControlInv, HostInitialize PROVE ControlInv'
<1>1. /\ toHost # <<>> /\ Consumed /\ HostSays /\ Head(toHost).kind = "initialize"
      /\ UNCHANGED <<journalVars, nodeVars, console, live, up>>
      /\ UNCHANGED <<stored, hostEpoch, hostOps, receipts>>
      /\ Told(<<Answer(Head(toHost), TRUE)>>)
  BY HostStepSays DEF HostInitialize, Receives
<1>2. \A m \in ToSet(toNode') : m \in ToSet(toNode) \/ m = Answer(Head(toHost), TRUE)
  BY <1>1, OneAnswerTold
<1>3. Answer(Head(toHost), TRUE).request = Head(toHost)
  BY DEF Answer
<1> QED
  BY <1>1, <1>2, <1>3, NothingHeard

LEMMA HostSynchronizedControl ==
    ASSUME Inv, Inv', ControlInv, HostSynchronized PROVE ControlInv'
<1>1. /\ toHost # <<>> /\ Consumed /\ HostSays /\ Head(toHost).kind = "synchronized"
      /\ UNCHANGED <<journalVars, nodeVars, console, live, up>>
      /\ UNCHANGED <<stored, hostEpoch, hostOps, receipts>>
  BY HostStepSays DEF HostSynchronized, Receives
<1>2. /\ peer' = [peer EXCEPT !.syncing = FALSE] \/ peer' = peer
  BY DEF HostSynchronized
<1>3. peer'.failed = peer.failed
  BY <1>2, InvParts DEF HostType
<1>4. \A m \in ToSet(toNode') : m.kind = "answer" => m \in ToSet(toNode) \/ m.request = Head(toHost)
  <2>1. \A i \in 1..Len(toNode') :
           \/ i \in 1..Len(toNode) /\ toNode'[i] = toNode[i]
           \/ toNode'[i].kind = "answer" => toNode'[i].request = Head(toHost)
    BY <1>1, ToldReplied
  <2>2. \A m \in ToSet(toNode') : \E i \in 1..Len(toNode') : m = toNode'[i]
    BY DEF ToSet
  <2> QED
    BY <2>1, <2>2, QueueFacts
<1> QED
  BY <1>1, <1>3, <1>4, NothingHeard

\* What is taken in of an operation, and what stays heard of.
LEMMA ImportedHeard ==
    ASSUME Inv, Copies, OpsInOrder, UNCHANGED ops,
           NEW r \in RequestType, Copied(r), NEW controls, controls \subseteq r.batch.controls,
           Imported(controls)
    PROVE  /\ \A o \in Ops : hostOps'[o].state = "none" => hostOps'[o].epoch = 0
           /\ \A o \in Ops : hostOps'[o].state # "none" => Faithful(o, hostOps'[o])
           /\ \A o \in Ops : Heard(o) => Heard(o)'
           /\ \A c \in controls : Now(c.id, c.op) => Heard(c.id)'
           /\ receipts \subseteq receipts'
<1>1. receipts \subseteq receipts' /\ \A c \in controls : c.op.state # "queued" => c.id \in receipts'
  BY DEF Imported, Named
<1>2. ASSUME NEW o \in Ops
      PROVE  \/ hostOps'[o] = hostOps[o] /\ \A c \in controls : c.id # o
             \/ \E c \in controls : c.id = o /\ hostOps'[o] = Over(hostOps[o], c.op)
  <2>1. CASE o \in Named(controls)
    <3>a. PICK c : c = CHOOSE x \in controls : x.id = o
      OBVIOUS
    <3>1. c \in controls /\ c.id = o
      BY <2>1, <3>a DEF Named
    <3>2. hostOps'[o] = Over(hostOps[o], c.op)
      BY <2>1, <3>a DEF Imported
    <3> QED
      BY <3>1, <3>2
  <2>2. CASE o \notin Named(controls)
    BY <2>2 DEF Imported, Named
  <2> QED
    BY <2>1, <2>2
<1>3. \A o \in Ops : hostOps[o] \in OpType
  BY InvParts DEF HostType
<1>4. ASSUME NEW o \in Ops, NEW old \in OpType, old = hostOps[o],
             NEW c \in controls, c.id = o, NEW new, new = Over(old, c.op)
      PROVE  /\ new.state # "none" /\ Faithful(o, new)
             /\ Now(o, old) /\ Given(o) => Now(o, new)
             /\ Now(o, c.op) => Now(o, new)
             /\ Now(o, c.op) /\ Begins(ops[o]) => o \in receipts'
  <2>1. /\ c.op \in OpType /\ c.op.epoch \in Nat /\ Faithful(o, c.op)
    BY <1>4, ControlsTyped DEF Copied
  <2>2. /\ old.epoch \in Nat /\ ops[o].epoch \in Nat
        /\ old.state = "none" => old.epoch = 0
        /\ old.state # "none" => Faithful(o, old)
    BY <1>4, OpFields DEF OpType, Copies
  <2>3. c.op.epoch <= ops[o].epoch /\ (old.state # "none" => old.epoch <= ops[o].epoch)
    BY <1>4, <2>1, <2>2, CopyIsOld
  <2>4. CASE new = c.op /\ ~(old.epoch > c.op.epoch)
    <3>1. c.op.state # "none"
      BY <2>1 DEF Faithful
    <3>2. Now(o, old) => Now(o, c.op)
      BY <2>1, <2>2, <2>3, <2>4 DEF Now
    <3>3. Now(o, c.op) /\ Begins(ops[o]) => o \in receipts'
      BY <1>1, <1>4, <2>1, <2>2 DEF Faithful, Now, Under
    <3> QED
      BY <2>1, <2>4, <3>1, <3>2, <3>3
  <2>5. CASE new = old /\ old.epoch > c.op.epoch
    <3>1. old.state # "none"
      BY <2>1, <2>2, <2>5
    <3>2. ~Now(o, c.op)
      BY <2>1, <2>2, <2>3, <2>5, <3>1 DEF Now
    <3> QED
      BY <2>2, <2>5, <3>1, <3>2
  <2>6. CASE new = old /\ old.state \in {"settled", "rejected"}
    <3>1. old.state # "none" /\ Now(o, old)
      BY <2>2, <2>6 DEF Faithful
    <3>2. Now(o, c.op) /\ Begins(ops[o]) => o \in receipts'
      BY <1>1, <1>4, <2>1, <2>2 DEF Faithful, Now, Under
    <3> QED
      BY <2>2, <2>6, <3>1, <3>2
  <2> QED
    BY <1>4, <2>4, <2>5, <2>6 DEF Over
<1>5. ASSUME NEW o \in Ops
      PROVE  /\ hostOps'[o].state = "none" => hostOps'[o].epoch = 0
             /\ hostOps'[o].state # "none" => Faithful(o, hostOps'[o])
             /\ Given(o) /\ Now(o, hostOps[o]) => Now(o, hostOps'[o])
  <2>1. CASE hostOps'[o] = hostOps[o]
    BY <2>1 DEF Copies
  <2>2. ASSUME NEW c \in controls, c.id = o, hostOps'[o] = Over(hostOps[o], c.op)
        PROVE  /\ hostOps'[o].state # "none"
               /\ Faithful(o, hostOps'[o])
               /\ Given(o) /\ Now(o, hostOps[o]) => Now(o, hostOps'[o])
    <3>a. PICK old \in OpType : old = hostOps[o]
      BY <1>3
    <3>b. PICK new : new = Over(old, c.op)
      OBVIOUS
    <3>1. /\ new.state # "none" /\ Faithful(o, new)
          /\ Now(o, old) /\ Given(o) => Now(o, new)
      BY <1>4, <2>2, <3>a, <3>b
    <3> QED
      BY <2>2, <3>1, <3>a, <3>b
  <2> QED
    BY <1>2, <2>1, <2>2
<1>6. ASSUME NEW o \in Ops, Heard(o) PROVE Heard(o)'
  <2>1. CASE Given(o)
    BY <1>1, <1>5, <1>6, <2>1 DEF Heard, Now
  <2>2. CASE ~Given(o)
    <3>1. \A c \in controls : c.id # o
      <4> SUFFICES ASSUME NEW c \in controls, c.id = o PROVE FALSE
        OBVIOUS
      <4>1. c.op \in OpType /\ Faithful(o, c.op)
        BY ControlsTyped DEF Copied
      <4> QED
        BY <2>2, <4>1, CopyIsOld
    <3>2. hostOps'[o] = hostOps[o]
      BY <1>2, <3>1
    <3> QED
      BY <1>1, <1>6, <3>2 DEF Heard, Now
  <2> QED
    BY <2>1, <2>2
<1>7. ASSUME NEW c \in controls, Now(c.id, c.op) PROVE Heard(c.id)'
  <2>a. PICK o : o = c.id
    OBVIOUS
  <2>1. o \in Ops
    BY <2>a, ControlsTyped
  <2>2. PICK d \in controls : d.id = o /\ hostOps'[o] = Over(hostOps[o], d.op)
    BY <1>2, <2>1, <2>a
  <2>3. c = d
    BY <2>2, <2>a DEF Copied
  <2>4. PICK old \in OpType : old = hostOps[o]
    BY <1>3, <2>1
  <2>5. PICK new : new = Over(old, c.op)
    OBVIOUS
  <2>6. Now(o, new) /\ (Begins(ops[o]) => o \in receipts')
    BY <1>4, <1>7, <2>1, <2>4, <2>5, <2>a
  <2>7. hostOps'[o] = new
    BY <2>2, <2>3, <2>4, <2>5
  <2> QED
    BY <2>6, <2>7, <2>a DEF Heard, Now
<1> QED
  BY <1>1, <1>5, <1>6, <1>7

\* The grant's epoch after an import.
LEMMA ImportedEpoch ==
    ASSUME Inv, Copies, OpsInOrder, NEW r \in RequestType, Copied(r),
           NEW controls, controls \subseteq r.batch.controls, Imported(controls)
    PROVE  /\ hostEpoch' \in Nat /\ hostEpoch' <= epoch
           /\ hostEpoch' = hostEpoch \/ \E c \in controls : hostEpoch' = c.op.epoch
<1>a. PICK S : S = {hostEpoch} \cup Epochs(controls)
  OBVIOUS
<1>1. \A c \in controls : c.op.epoch \in Nat /\ c.op.epoch <= epoch
  <2> SUFFICES ASSUME NEW c \in controls PROVE c.op.epoch \in Nat /\ c.op.epoch <= epoch
    OBVIOUS
  <2>1. c.id \in Ops /\ c.op \in OpType /\ Faithful(c.id, c.op) /\ c.op.epoch \in Nat
    BY ControlsTyped DEF Copied
  <2> QED
    BY <2>1, CopyIsOld
<1>2. hostEpoch \in Nat /\ hostEpoch <= epoch /\ epoch \in Nat
  BY InvParts DEF HostType, OpsInOrder, JournalType
<1>3. S \in SUBSET Int /\ S # {} /\ IsFiniteSet(S)
  <2>1. IsFiniteSet(controls)
    BY ControlsTyped, ControlsSubset DEF ControlSets
  <2>2. IsFiniteSet(Epochs(controls))
    <3>a. PICK f : f = [c \in controls |-> c.op.epoch]
      OBVIOUS
    <3>1. f \in Surjection(controls, Epochs(controls))
      BY <3>a DEF Surjection, Epochs
    <3> QED
      BY <2>1, <3>1, FS_Surjection
  <2>3. IsFiniteSet(S)
    BY <1>a, <2>2, FS_AddElement
  <2>4. S \in SUBSET Int
    BY <1>1, <1>2, <1>a DEF Epochs
  <2>5. S # {}
    BY <1>a
  <2> QED
    BY <2>3, <2>4, <2>5
<1>4. Max(S) \in S
  BY <1>3, GreatestExists
<1>5. hostEpoch' = Max(S)
  BY <1>a DEF Imported
<1>6. hostEpoch' = hostEpoch \/ \E c \in controls : hostEpoch' = c.op.epoch
  BY <1>4, <1>5, <1>a DEF Epochs
<1> QED
  BY <1>1, <1>2, <1>6

\* A batch is taken in, or what of it is ahead of an event that is not.
LEMMA TakenControl ==
    ASSUME Inv, Inv', StoredIsPrefix, ControlInv, HostReplay, ~peer.failed,
           NEW part, NEW ok \in BOOLEAN, TakenPart(part, ok), Imported(part.controls),
           LET batch == Head(toHost).batch
           IN  \/ part.events = Events(batch) /\ part.controls = batch.controls /\ ok
               \/ /\ ~ok
                  /\ \E e \in Events(batch) :
                        /\ part.events = {d \in Events(batch) : d.seq < e.seq}
                        /\ part.controls = {c \in batch.controls : c.op.after < e.seq}
    PROVE  ControlInv'
<1>a. PICK r : r = Head(toHost)
  OBVIOUS
<1>b. PICK batch : batch = r.batch
  OBVIOUS
<1>1. /\ toHost # <<>> /\ Consumed /\ HostSays /\ r.kind = "replay"
      /\ UNCHANGED <<journalVars, nodeVars, console, live, up>> /\ UNCHANGED ops
  BY <1>a, HostStepSays DEF HostReplay, Receives, journalVars
<1>2. r \in RequestType /\ RequestFine(r) /\ Copied(r) /\ r = toHost[1] /\ 1 \in 1..Len(toHost)
  BY <1>a, <1>1, QueueFacts, InvParts, ToSetHead DEF WiresFine, ControlInv, Copies
<1>3. part.controls \subseteq batch.controls /\ part.events \subseteq Events(batch)
  BY <1>a, <1>b
<1>4. Copies /\ OpsInOrder /\ Governed /\ HeardFirst
  BY DEF ControlInv
<1>5. /\ \A o \in Ops : hostOps'[o].state = "none" => hostOps'[o].epoch = 0
      /\ \A o \in Ops : hostOps'[o].state # "none" => Faithful(o, hostOps'[o])
      /\ \A o \in Ops : Heard(o) => Heard(o)'
      /\ \A c \in part.controls : Now(c.id, c.op) => Heard(c.id)'
      /\ receipts \subseteq receipts'
  BY <1>1, <1>2, <1>3, <1>4, <1>b, ImportedHeard
<1>6. /\ hostEpoch' \in Nat /\ hostEpoch' <= epoch
      /\ hostEpoch' = hostEpoch \/ \E c \in part.controls : hostEpoch' = c.op.epoch
  BY <1>2, <1>3, <1>4, <1>b, ImportedEpoch
<1>7. peer'.failed = ~ok
  BY DEF TakenPart, PeerAfter
<1>8. \A o \in Ops : Carries(r, o) => Heard(o)' \/ peer'.failed
  BY <1>5, <1>7, <1>a, <1>b DEF Carries
<1>9. \A e \in Events(batch) : e.seq \in (batch.from + 1)..batch.through
  <2>1. batch \in BatchType /\ Segment(journal, batch)
    BY <1>2, <1>b, ControlsTyped DEF RequestFine
  <2> QED
    BY <2>1, EventsOfSegment DEF Event
<1>10. batch.from \in Nat /\ batch.through \in Nat
  BY <1>2, <1>b, ControlsTyped
<1>11. ASSUME NEW o \in Ops, Given(o), ~Heard(o)'
       PROVE  /\ \A c \in part.controls : ops[o].epoch > c.op.epoch
              /\ \A e \in part.events : e.seq <= ops[o].after
  <2>1. ops[o].epoch \in Nat /\ ops[o].after \in Nat
    BY OpFields
  <2>2. CASE ~Needs(r, o)
    <3>1. \A c \in batch.controls : c.op.epoch \in Nat /\ ~(ops[o].epoch <= c.op.epoch)
      BY <1>2, <1>11, <1>b, <2>2, ControlsTyped DEF Needs
    <3>2. ~(ops[o].after < batch.through /\ batch.from < batch.through)
      BY <1>11, <1>b, <2>2 DEF Needs
    <3>3. \A e \in Events(batch) : e.seq <= ops[o].after
      BY <1>9, <1>10, <2>1, <3>2
    <3> QED
      BY <1>3, <2>1, <3>1, <3>3
  <2>3. CASE Needs(r, o)
    <3>1. Covered(o, 1)
      BY <1>1, <1>2, <1>4, <2>3 DEF Governed
    <3>2. Carries(r, o)
      <4>1. ~Heard(o)
        BY <1>5, <1>11
      <4>2. PICK j \in 1..1 : Carries(toHost[j], o)
        BY <3>1, <4>1 DEF Covered
      <4> QED
        BY <1>2, <4>2
    <3>3. PICK c \in batch.controls : c.id = o /\ Now(o, c.op)
      BY <1>b, <3>2 DEF Carries
    <3>4. c \notin part.controls
      BY <1>5, <1>11, <3>3
    <3>5. PICK e \in Events(batch) :
             /\ part.events = {d \in Events(batch) : d.seq < e.seq}
             /\ part.controls = {d \in batch.controls : d.op.after < e.seq}
      BY <1>a, <1>b, <3>4
    <3>6. /\ c.op.after \in Nat /\ c.op.epoch \in Nat /\ e.seq \in Nat
          /\ c.op.epoch = ops[o].epoch /\ c.op.after = ops[o].after /\ e.seq <= c.op.after
      <4>1. Faithful(o, c.op) /\ c.op.after \in Nat /\ c.op.epoch \in Nat
        BY <1>2, <1>b, <3>3, ControlsTyped DEF Copied
      <4>2. e.seq \in Nat
        BY <1>9, <1>10
      <4>3. ~(c.op.after < e.seq)
        BY <3>4, <3>5
      <4> QED
        BY <2>1, <3>3, <4>1, <4>2, <4>3 DEF Faithful, Now
    <3>7. ASSUME NEW d \in part.controls PROVE ops[o].epoch > d.op.epoch
      <4>1. d \in batch.controls /\ d.op.after < e.seq /\ d.op.after \in Nat /\ d.op.epoch \in Nat
        BY <1>2, <1>b, <3>5, <3>7, ControlsTyped
      <4>2. ~(c.op.after <= d.op.after)
        BY <3>6, <4>1
      <4>3. ~(c.op.epoch <= d.op.epoch)
        BY <1>2, <1>b, <4>1, <4>2 DEF Copied
      <4> QED
        BY <3>6, <4>1, <4>3
    <3>8. ASSUME NEW d \in part.events PROVE d.seq <= ops[o].after
      <4>1. d.seq < e.seq /\ d.seq \in Nat
        BY <1>9, <1>10, <3>5, <3>8
      <4> QED
        BY <3>6, <4>1
    <3> QED
      BY <3>7, <3>8
  <2> QED
    BY <2>2, <2>3
<1>12. HeardFirst'
  <2> SUFFICES ASSUME NEW o \in Ops, Given(o), ~Heard(o)'
               PROVE  ops[o].epoch > hostEpoch' /\ \A e \in stored' : e.seq <= ops[o].after
    BY <1>1 DEF HeardFirst, Given
  <2>1. ops[o].epoch > hostEpoch /\ \A e \in stored : e.seq <= ops[o].after
    BY <1>4, <1>5 DEF HeardFirst
  <2>2. ops[o].epoch > hostEpoch'
    BY <1>6, <1>11, <2>1
  <2>3. stored' = stored \cup part.events
    BY DEF TakenPart
  <2> QED
    BY <1>11, <2>1, <2>2, <2>3
<1>13. ASSUME NEW m \in ToSet(toNode'), m.kind = "answer", m \notin ToSet(toNode), m.ok,
              m.request.kind = "replay", NEW c \in m.request.batch.controls, Now(c.id, c.op)
       PROVE  Heard(c.id)'
  <2>1. m.request = r /\ m.ok = ok
    <3>a. PICK messages : messages = Append(FirstGrant(part), Answer(Head(toHost), ok))
      OBVIOUS
    <3>1. /\ messages \in Seq(MessageType)
          /\ \A x \in ToSet(messages) :
                \/ x.kind = "grant"
                \/ x.kind = "answer" /\ x = Answer(Head(toHost), ok)
      BY <1>1, <1>3, <1>a, <1>b, <3>a, TakenSays
    <3>2. m \in ToSet(messages)
      BY <1>13, <3>1, <3>a, InvParts, ToldTyped DEF TakenPart
    <3>3. m = Answer(Head(toHost), ok)
      BY <1>13, <3>1, <3>2
    <3> QED
      BY <1>a, <3>3 DEF Answer
  <2>2. part.controls = batch.controls
    BY <1>13, <1>a, <1>b, <2>1
  <2> QED
    BY <1>5, <1>13, <1>b, <2>1, <2>2
<1>14. peer.failed /\ Head(toHost).kind # "initialize" => peer'.failed
  OBVIOUS
<1> QED
  BY <1>1, <1>5, <1>6, <1>8, <1>12, <1>13, <1>14, <1>a, HostReadsControl

LEMMA HostReplayControl ==
    ASSUME Inv, Inv', StoredIsPrefix, ControlInv, HostReplay PROVE ControlInv'
<1>a. PICK batch : batch = Head(toHost).batch
  OBVIOUS
<1>1. /\ toHost # <<>> /\ Consumed /\ HostSays /\ Head(toHost).kind = "replay"
      /\ UNCHANGED <<journalVars, nodeVars, console, live, up>>
  BY HostStepSays DEF HostReplay, Receives
<1>2. \/ /\ peer.failed /\ UNCHANGED hostVars
         /\ Told(<<Answer(Head(toHost), FALSE)>>)
      \/ /\ ~peer.failed /\ TakenPart(Whole(batch), TRUE) /\ Imported(Whole(batch).controls)
      \/ \E e \in Events(batch) :
            /\ ~peer.failed /\ TakenPart(Ahead(batch, e), FALSE)
            /\ Imported(Ahead(batch, e).controls)
  BY <1>a DEF HostReplay, TakenPart
<1>3. CASE peer.failed /\ UNCHANGED hostVars /\ Told(<<Answer(Head(toHost), FALSE)>>)
  <2>1. \A m \in ToSet(toNode') : m \in ToSet(toNode) \/ m = Answer(Head(toHost), FALSE)
    BY <1>1, <1>3, OneAnswerTold
  <2>2. ~Answer(Head(toHost), FALSE).ok
    BY DEF Answer
  <2>3. UNCHANGED <<stored, hostEpoch, hostOps, receipts>> /\ peer'.failed
    BY <1>3 DEF hostVars
  <2> QED
    BY <1>1, <2>1, <2>2, <2>3, NothingHeard
<1>4. CASE ~peer.failed /\ TakenPart(Whole(batch), TRUE) /\ Imported(Whole(batch).controls)
  <2>a. PICK part : part = Whole(batch)
    OBVIOUS
  <2>1. part.events = Events(batch) /\ part.controls = batch.controls
    BY <2>a DEF Whole
  <2> QED
    BY <1>4, <1>a, <2>a, <2>1, TakenControl
<1>5. ASSUME NEW e \in Events(batch), ~peer.failed, TakenPart(Ahead(batch, e), FALSE),
             Imported(Ahead(batch, e).controls)
      PROVE  ControlInv'
  <2>a. PICK part : part = Ahead(batch, e)
    OBVIOUS
  <2>1. /\ part.events = {d \in Events(batch) : d.seq < e.seq}
        /\ part.controls = {c \in batch.controls : c.op.after < e.seq}
    BY <2>a DEF Ahead
  <2> QED
    BY <1>5, <1>a, <2>a, <2>1, TakenControl
<1> QED
  BY <1>2, <1>3, <1>4, <1>5

-----------------------------------------------------------------------------
(* What the Host says unasked, and every step                              *)

LEMMA TellingControl ==
    ASSUME Inv, ControlInv,
           UNCHANGED <<journalVars, nodeVars, console, live, up, toHost>>,
           UNCHANGED <<stored, hostEpoch, hostOps, receipts>>, peer'.failed = peer.failed,
           \A m \in ToSet(toNode') : m \in ToSet(toNode) \/ (m.kind # "answer" /\ FreeFor(m))
    PROVE  ControlInv'
<1>0. /\ Copies /\ OpsInOrder /\ Governed /\ Shown /\ ToldIsHeard /\ AnsweredIsHeard
      /\ RestIsLeft /\ PumpKnows /\ HeardFirst /\ PromptsAreFree
      /\ UNCHANGED <<ops, epoch, journal, admitting>>
  BY DEF ControlInv, journalVars, nodeVars
<1>1. /\ \A o, op : Faithful(o, op)' <=> Faithful(o, op)
      /\ \A o : Heard(o)' <=> Heard(o)
      /\ \A o : Given(o)' <=> Given(o)
      /\ \A o, op : Now(o, op)' <=> Now(o, op)
  BY <1>0 DEF Faithful, Heard, Given, Now
<1>2. \A o, i : Covered(o, i)' <=> Covered(o, i)
  BY <1>0, <1>1 DEF Covered, Carries, Heard, Now, Unbroken
<1>3. Copies'
  BY <1>0, <1>1 DEF Copies, Copied, Faithful, Now, Given
<1>4. OpsInOrder'
  BY <1>0 DEF OpsInOrder, Given, Water
<1>5. Governed'
  BY <1>0, <1>2 DEF Governed, Needs, Given, Covered, Carries, Heard, Now, Unbroken
<1>6. Shown' /\ ToldIsHeard'
  BY <1>0, <1>1, <1>2 DEF Shown, ToldIsHeard, Covered, Carries, Heard, Now, Unbroken, Given
<1>7. AnsweredIsHeard'
  BY <1>0, <1>1 DEF AnsweredIsHeard, Heard, Now
<1>8. RestIsLeft'
  <2>1. \A r : LeftToSay(r) => LeftToSay(r)'
    BY <1>0 DEF LeftToSay, Current, Now, Given, Heard
  <2> QED
    BY <1>0, <2>1 DEF RestIsLeft
<1>9. PumpKnows' /\ HeardFirst'
  BY <1>0 DEF PumpKnows, HeardFirst, Given, Now, Heard
<1>10. PromptsAreFree'
  <2>1. \A w : FreeFor(w) => FreeFor(w)'
    BY <1>0 DEF FreeFor, Given
  <2> QED
    BY <1>0, <2>1 DEF PromptsAreFree
<1> QED
  BY <1>3, <1>4, <1>5, <1>6, <1>7, <1>8, <1>9, <1>10 DEF ControlInv

\* What the Host has heard of settles whether it may send a prompt.
LEMMA WorkIsFree ==
    ASSUME Inv, ControlInv, NEW w, w.kind = "work", w.epoch = hostEpoch,
           w.task = "prompt" => ~Reserved
    PROVE  FreeFor(w)
<1>1. /\ hostEpoch \in Nat /\ hostEpoch <= epoch
      /\ \A o \in Ops : hostOps[o].state \in OpStates
  BY InvParts DEF ControlInv, OpsInOrder, HostType, OpType
<1>2. ASSUME NEW o \in Ops, Given(o), ops[o].epoch <= hostEpoch, ~Reserved
      PROVE  ops[o].state \in Done /\ (Begins(ops[o]) => o \in receipts)
  <2>1. ops[o].epoch \in Nat /\ ops[o].epoch # 0
    BY <1>2, OpFields DEF ControlInv, OpsInOrder
  <2>2. Heard(o)
    BY <1>1, <1>2, <2>1 DEF ControlInv, HeardFirst
  <2>3. hostOps[o].epoch = ops[o].epoch /\ (Begins(ops[o]) => o \in receipts)
    BY <2>2 DEF Heard, Now
  <2>4. hostOps[o].state # "none" /\ Faithful(o, hostOps[o])
    BY <2>1, <2>3 DEF ControlInv, Copies
  <2>5. hostOps[o].state \in Done
    BY <1>1, <1>2, <2>4 DEF Reserved, OpStates, Done
  <2>6. ops[o].state \in Done
    BY <2>1, <2>3, <2>4, <2>5 DEF Faithful
  <2> QED
    BY <2>3, <2>6
<1> QED
  BY <1>1, <1>2 DEF FreeFor

LEMMA HostWorkControl ==
    ASSUME Inv, ControlInv, HostWork PROVE ControlInv'
<1>1. PICK task \in {"prompt", "resume"} :
         /\ task = "prompt" => ~Reserved
         /\ LET regranted == ~peer.observed \/ (task = "resume" /\ Rebound)
            IN  Told((IF regranted THEN <<GrantOf(hostEpoch)>> ELSE <<>>)
                     \o <<[kind |-> "work", task |-> task, epoch |-> hostEpoch]>>)
  BY DEF HostWork
<1>a. PICK work : work = [kind |-> "work", task |-> task, epoch |-> hostEpoch]
  OBVIOUS
<1>b. PICK grants : /\ grants = <<GrantOf(hostEpoch)>> \/ grants = <<>>
                    /\ Told(grants \o <<work>>)
  BY <1>1, <1>a
<1>2. hostEpoch \in Nat
  BY InvParts DEF HostType
<1>3. work \in MessageType /\ work.kind = "work" /\ FreeFor(work)
  <2>1. work \in MessageType /\ work.kind = "work" /\ work.epoch = hostEpoch /\ work.task = task
    BY <1>a, <1>2 DEF MessageType, WorkType
  <2>2. work.task = "prompt" => ~Reserved
    BY <1>1, <2>1
  <2> QED
    BY <2>1, <2>2, WorkIsFree
<1>4. grants \in Seq(MessageType) /\ \A m \in ToSet(grants) : m.kind = "grant"
  <2>1. GrantOf(hostEpoch) \in MessageType /\ GrantOf(hostEpoch).kind = "grant"
    BY <1>2, GrantOfTyped
  <2>2. /\ <<GrantOf(hostEpoch)>> \in Seq(MessageType)
        /\ ToSet(<<GrantOf(hostEpoch)>>) = {GrantOf(hostEpoch)}
    BY <2>1, OneMessage
  <2>3. <<>> \in Seq(MessageType) /\ ToSet(<<>>) = {}
    BY EmptySeq, ToSetEmpty
  <2> QED
    BY <1>b, <2>1, <2>2, <2>3
<1>5. /\ grants \o <<work>> \in Seq(MessageType)
      /\ ToSet(grants \o <<work>>) \subseteq ToSet(grants) \cup {work}
  BY <1>3, <1>4, OneMessage, ConcatProperties, ToSetConcat
<1>6. ToSet(toNode') \subseteq ToSet(toNode) \cup ToSet(grants \o <<work>>)
  BY <1>b, <1>5, InvParts, ToldTyped
<1>7. \A m \in ToSet(toNode') : m \in ToSet(toNode) \/ (m.kind # "answer" /\ FreeFor(m))
  <2> SUFFICES ASSUME NEW m \in ToSet(toNode'), m \notin ToSet(toNode)
               PROVE  m.kind # "answer" /\ FreeFor(m)
    OBVIOUS
  <2>1. m = work \/ m.kind = "grant"
    BY <1>4, <1>5, <1>6
  <2> QED
    BY <1>3, <2>1 DEF FreeFor
<1>8. peer'.failed = peer.failed
  BY InvParts DEF HostWork, HostType
<1>9. /\ UNCHANGED <<journalVars, nodeVars, console, live, up, toHost>>
      /\ UNCHANGED <<stored, hostEpoch, hostOps, receipts>>
  BY DEF HostWork
<1> QED
  BY <1>7, <1>8, <1>9, TellingControl

LEMMA RequestResyncControl ==
    ASSUME Inv, ControlInv, RequestResync PROVE ControlInv'
<1>a. PICK m : m = [kind |-> "resync"]
  OBVIOUS
<1>1. m \in MessageType /\ m.kind = "resync" /\ Told(<<m>>)
  BY <1>a DEF MessageType, RequestResync
<1>2. \A n \in ToSet(toNode') : n \in ToSet(toNode) \/ n = m
  BY <1>1, OneAnswer
<1>3. m.kind # "answer" /\ FreeFor(m)
  BY <1>1 DEF FreeFor
<1>4. /\ UNCHANGED <<journalVars, nodeVars, console, live, up, toHost>>
      /\ UNCHANGED <<stored, hostEpoch, hostOps, receipts>> /\ peer'.failed = peer.failed
  BY DEF RequestResync, hostVars
<1> QED
  BY <1>2, <1>3, <1>4, TellingControl

LEMMA NextControl ==
    ASSUME ConsoleBounds, Inv, Inv', OneAtATime, StoredIsPrefix, AloneInv, ControlInv, [Next]_vars
    PROVE  ControlInv'
<1>1. CASE UNCHANGED vars
  <2>1. /\ UNCHANGED <<journalVars, nodeVars, console, live, up, toHost>>
        /\ UNCHANGED <<stored, hostEpoch, hostOps, receipts, peer, toNode>>
    BY <1>1 DEF vars, hostVars
  <2> QED
    BY <2>1, TellingControl
<1>2. CASE Emit \/ TurnEnds \/ AgentEnds \/ LocalPrompt \/ CancelQueued
  BY <1>2, LocalControl
<1>3. CASE NodeStep
  <2>1. CASE NodeReads
    BY <2>1, LocalControl, ReadingControl, HandleGrantControl, HandleGrantsControl,
       HandleReplayedControl, HandleSynchronizedControl, HandleRefusalControl,
       HandleResyncControl DEF NodeReads, OneAtATime
  <2> QED
    BY <1>3, <2>1, LocalControl, PumpLiveControl, InitializeControl DEF NodeStep
<1>4. CASE RequestTimesOut \/ Connect \/ Break \/ NodeCrash
  BY <1>4, RequestTimesOutControl, ConnectControl, PartingControl DEF OneAtATime
<1>5. CASE HostStep
  BY <1>5, HostInitializeControl, HostReplayControl, HostSynchronizedControl DEF HostStep
<1>6. CASE HostWork \/ RequestResync
  BY <1>6, HostWorkControl, RequestResyncControl
<1> QED
  BY <1>1, <1>2, <1>3, <1>4, <1>5, <1>6 DEF Next

LEMMA InitControl == ASSUME ConsoleBounds, Init PROVE ControlInv
<1>1. /\ ToSet(toHost) = {} /\ ToSet(toNode) = {} /\ ToSet(admitting) = {}
      /\ Len(toHost) = 0 /\ Water = 0
  BY ToSetEmpty, EmptySeq DEF Init, Water
<1>2. /\ \A o \in Ops : ops[o] = NoOp /\ hostOps[o] = NoOp
      /\ NoOp.state = "none" /\ NoOp.epoch = 0 /\ NoOp.after = 0
      /\ hostEpoch = 0 /\ epoch = 0 /\ stored = {}
      /\ console.status = "offline" /\ ~console.joining
      /\ \A o \in Ops : live.states[o] = NoOp /\ console.told[o] = NoOp
  BY DEF Init, NoOp, NoLive
<1>3. Copies /\ OpsInOrder
  BY <1>1, <1>2 DEF Copies, OpsInOrder, Given
<1>4. Governed /\ Shown /\ ToldIsHeard /\ AnsweredIsHeard
  BY <1>1, <1>2 DEF Governed, Shown, ToldIsHeard, AnsweredIsHeard, Given
<1>5. RestIsLeft /\ PumpKnows /\ HeardFirst /\ PromptsAreFree
  BY <1>1, <1>2 DEF RestIsLeft, PumpKnows, HeardFirst, PromptsAreFree, Given
<1> QED
  BY <1>3, <1>4, <1>5 DEF ControlInv

\* What is first in the line for the session's lock.
LEMMA FirstAdmitted ==
    ASSUME Inv, admitting # <<>>
    PROVE  /\ Head(admitting) \in ToSet(admitting) /\ Head(admitting) \in WorkType
           /\ Head(admitting).kind = "work" /\ Head(admitting).epoch \in Nat
<1>1. admitting \in Seq(WorkType)
  BY InvParts DEF NodeType
<1>2. Head(admitting) \in ToSet(admitting)
  BY <1>1, ToSetHead
<1>3. Head(admitting) \in WorkType
  BY <1>1, <1>2, ToSetMember
<1> QED
  BY <1>2, <1>3 DEF WorkType

\* A turn begun by a command of the Host.
BegunByHost == admitting' # admitting /\ agent'.busy /\ ~agent.busy

LEMMA OnlyAdmitted ==
    ASSUME Inv, [Next]_vars, BegunByHost PROVE AdmitWork
<1>1. CASE UNCHANGED <<admitting>> \/ UNCHANGED agent
  BY <1>1 DEF BegunByHost
<1>2. CASE NodeCrash
  BY <1>2 DEF NodeCrash, BegunByHost
<1>3. CASE UNCHANGED vars
  BY <1>1, <1>3 DEF vars, nodeVars
<1>4. CASE Emit \/ TurnEnds \/ AgentEnds \/ LocalPrompt \/ CancelQueued
  <2>1. UNCHANGED admitting
    BY <1>4 DEF Emit, TurnEnds, AgentEnds, LocalPrompt, CancelQueued
  <2> QED
    BY <1>1, <2>1
<1>5. CASE NodeReads
  <2>1. UNCHANGED agent
    BY <1>5 DEF NodeReads, IgnoreAnswer, HandleGrant, HandleGrants, HandleReplayed,
          HandleSynchronized, HandleLive, HandleRefusal, HandleResync, ReceiveWork, nodeVars
  <2> QED
    BY <1>1, <2>1
<1>6. CASE Flush \/ Invoke \/ PumpLocal \/ PumpLive \/ AckWrite \/ Initialize
  <2>1. UNCHANGED admitting
    BY <1>6 DEF Flush, Invoke, PumpLocal, PumpLive, AckWrite, Initialize, nodeVars
  <2> QED
    BY <1>1, <2>1
<1>7. CASE RequestTimesOut \/ Connect \/ Break
  BY <1>1, <1>7 DEF RequestTimesOut, Connect, Break, nodeVars
<1>8. CASE HostStep \/ HostWork \/ RequestResync
  BY <1>1, <1>8 DEF HostStep, HostInitialize, HostReplay, HostSynchronized, HostWork,
     RequestResync, nodeVars
<1> QED
  BY <1>2, <1>3, <1>4, <1>5, <1>6, <1>7, <1>8 DEF Next, NodeStep

LEMMA AdmittedIsFree ==
    ASSUME Inv, ControlInv, [Next]_vars, BegunByHost, NEW o \in Ops
    PROVE  /\ ops[o].state \notin {"queued", "accepted"}
           /\ Begins(ops[o]) => o \in receipts
<1>1. AdmitWork /\ ~agent.busy /\ agent'.busy
  BY OnlyAdmitted DEF BegunByHost
<1>a. PICK command : command = Head(admitting)
  OBVIOUS
<1>2. Admissible(command) /\ command.task = "prompt" /\ admitting # <<>>
  BY <1>1, <1>a DEF AdmitWork
<1>3. /\ command \in ToSet(admitting) /\ command.kind = "work" /\ command.epoch \in Nat
      /\ epoch <= command.epoch
  BY <1>2, <1>a, FirstAdmitted DEF Admissible
<1>4. FreeFor(command) /\ OpsInOrder
  BY <1>3 DEF ControlInv, PromptsAreFree
<1>5. CASE Given(o)
  <2>1. ops[o].epoch <= epoch /\ ops[o].epoch \in Nat /\ epoch \in Nat
    BY <1>4, OpFields, InvParts DEF OpsInOrder, JournalType
  <2>2. ops[o].epoch <= command.epoch
    BY <1>3, <2>1
  <2>3. ops[o].state \in Done /\ (Begins(ops[o]) => o \in receipts)
    BY <1>2, <1>3, <1>4, <1>5, <2>2 DEF FreeFor
  <2> QED
    BY <2>3 DEF Done
<1>6. CASE ~Given(o)
  BY <1>6 DEF Given, Begins
<1> QED
  BY <1>5, <1>6

\* The inductive invariant of both theorems.
ConsoleInv == Inv /\ OneAtATime /\ HistoryInv /\ AloneInv /\ ControlInv

LEMMA InitConsole == ASSUME ~Overlapping PROVE Init => ConsoleInv
BY ConsoleBounds, InitInv, InitOrder, InitHistory, InitAlone, InitControl DEF ConsoleInv

LEMMA NextConsole == ASSUME ~Overlapping PROVE ConsoleInv /\ [Next]_vars => ConsoleInv'
<1> SUFFICES ASSUME ConsoleInv, [Next]_vars PROVE ConsoleInv'
  OBVIOUS
<1>1. Inv' /\ OneAtATime' /\ HistoryInv' /\ StoredIsPrefix
  BY ConsoleBounds, NextInv, NextOrder, NextHistory DEF HistoryInv, ConsoleInv
<1> QED
  BY <1>1, ConsoleBounds, NextAlone, NextControl DEF ConsoleInv

-----------------------------------------------------------------------------
(* The theorems                                                            *)

\* As long as a resync is asked for only when none runs, the Host never has output
\* raised after a local prompt began without the receipt of that prompt, be the batch
\* one of a synchronization or of the live pump, and however many of them fail
\* (flushToHost, pumpLive, liveControls; synchronizeBatch on the Host).
THEOREM ControlComesFirst ==
    ASSUME ~Overlapping
    PROVE  Spec => []ControlFirst
<1>1. ConsoleInv => ControlFirst
  <2> SUFFICES ASSUME ControlInv, NEW o \in Ops, Begins(ops[o]), o \notin receipts
               PROVE  \A e \in stored : e.seq <= ops[o].after
    BY DEF ControlFirst, ConsoleInv
  <2>1. Given(o) /\ ~Heard(o)
    BY DEF Given, Heard, Begins
  <2> QED
    BY <2>1 DEF ControlInv, HeardFirst
<1> QED
  BY <1>1, InitConsole, NextConsole, PTL DEF Spec

\* Under the same assumption, a command of the Host begins a turn on the Node only when
\* no local prompt is under way or waits there and the Host has the receipt of every one
\* that began, although the Host decides by what it was told (reserved) and the Node by
\* the epoch the command carries (hostWorkBlocker), and operations, breaks and crashes
\* come in between.
THEOREM PromptsWaitTheirTurn ==
    ASSUME ~Overlapping
    PROVE  Spec => HostWaitsItsTurn
<1>1. ConsoleInv /\ [Next]_vars =>
         [admitting' # admitting /\ agent'.busy /\ ~agent.busy =>
            \A o \in Ops : /\ ops[o].state \notin {"queued", "accepted"}
                           /\ Begins(ops[o]) => o \in receipts]_vars
  BY AdmittedIsFree DEF BegunByHost, ConsoleInv
<1> QED
  BY <1>1, InitConsole, NextConsole, PTL DEF Spec, HostWaitsItsTurn
===============================================================================
