------------------------ MODULE SessionLifecycle_proofs ------------------------
(***************************************************************************)
(* Type correctness of SessionLifecycle, that a turn's completion is       *)
(* announced at most once, and that a stop request stays until the session *)
(* has ended, for every number of commands, messages, breaks and turns the *)
(* agent begins by itself, and whatever rare happenings are allowed.       *)
(*                                                                         *)
(* NotifiedOnce is not inductive: the Host announces whatever receipt it   *)
(* holds, and it takes a receipt from any event it has not stored.  That   *)
(* none names a turn announced before needs to know that                   *)
(*   - a command's number waits in one place at most, and none that waits  *)
(*     has begun its turn (Once);                                          *)
(*   - a turn that has ended does not begin again (Over);                  *)
(*   - the copies of a turn's end, in the outbox, a frozen batch and on    *)
(*     the wire, carry one number (OneEnd);                                *)
(*   - the Host knows that number once it holds or has announced the       *)
(*     turn's receipt (Heard);                                             *)
(*   - the receipt held and the notices name different turns (Distinct).   *)
(***************************************************************************)
EXTENDS SessionLifecycle, SequenceTheorems, FiniteSetTheorems, TLAPS

RowType ==
    [st: States \cup {"none"}, stop: BOOLEAN, agent: BOOLEAN,
     intent: {"none", "stop", "cancel"}, done: 0..MaxCmds, cmd: 0..MaxCmds]
QueuedType == [id: Messages, state: {"pending", "sending", "failed"}, after: Nat]
SlotType ==
    [phase: {"none", "new", "booting", "idle", "busy", "own"}, inc: Nat, seq: Nat,
     stopping: BOOLEAN, turn: 0..MaxCmds, cmd: 0..MaxCmds,
     type: {"none", "start", "resume"}]
AcceptedType == [cmd: CommandType, inc: Nat]
Fates == {"new", "queued", "delivered", "cancelled"}
HandlerType ==
    [row: RowType, queue: Seq(QueuedType), cmds: 0..MaxCmds,
     notices: Seq(1..MaxCmds), fate: [Messages -> Fates],
     link: {"open", "closing", "down"}, out: Seq(NodeFrames)]

-----------------------------------------------------------------------------
(* Sequences and sets                                                      *)

LEMMA LeastExists ==
    ASSUME NEW S \in SUBSET Nat, S # {}
    PROVE  \E x \in S : \A y \in S : x <= y
<1>1. PICK x \in S : \A y \in S : ~(<<y, x>> \in OpToRel(<, Nat))
  BY WFMin, NatLessThanWellFounded
<1>2. \A y \in S : y < x => <<y, x>> \in OpToRel(<, Nat)
  BY DEF OpToRel
<1>3. \A y \in S : ~(y < x) /\ y \in Nat /\ x \in Nat
  BY <1>1, <1>2
<1> QED
  BY <1>3

HasGreatest(T) == \E x \in T : \A y \in T : y <= x

\* By the least size of a set without a greatest element.
LEMMA GreatestExists ==
    ASSUME NEW S \in SUBSET Nat, IsFiniteSet(S), S # {}
    PROVE  HasGreatest(S)
<1> DEFINE Sizes == {n \in Nat : \E T \in SUBSET S : /\ T # {} /\ Cardinality(T) = n
                                                    /\ ~HasGreatest(T)}
<1>1. Sizes = {}
  <2>1. SUFFICES ASSUME Sizes # {} PROVE FALSE
    OBVIOUS
  <2>2. PICK least \in Sizes : \A n \in Sizes : least <= n
    BY <2>1, LeastExists
  <2>3. PICK T \in SUBSET S : /\ T # {} /\ Cardinality(T) = least
                              /\ ~HasGreatest(T)
    BY <2>2
  <2>4. PICK x : x \in T
    BY <2>3
  <2> DEFINE R == T \ {x}
  <2>5. IsFiniteSet(T) /\ R \in SUBSET S
    BY FS_Subset
  <2>6. Cardinality(R) = Cardinality(T) - 1 /\ Cardinality(R) \in Nat
    BY <2>4, <2>5, FS_RemoveElement, FS_CardinalityType
  <2>7. Cardinality(R) \notin Sizes
    BY <2>2, <2>3, <2>6
  <2>8. R = {} \/ HasGreatest(R)
    <3> HIDE DEF R
    <3> QED
      BY <2>5, <2>6, <2>7
  <2>9. CASE R = {}
    <3>1. \A y \in T : y = x /\ x \in Nat
      BY <2>3, <2>4, <2>9
    <3> QED
      BY <2>3, <2>4, <3>1 DEF HasGreatest
  <2>10. CASE HasGreatest(R)
    <3>1. PICK m \in R : \A y \in R : y <= m
      BY <2>10 DEF HasGreatest
    <3>2. m \in T /\ x \in T /\ T \subseteq Nat /\ \A y \in T : y = x \/ y \in R
      BY <2>3, <2>4, <3>1
    <3>3. CASE x <= m
      BY <2>3, <3>1, <3>2, <3>3 DEF HasGreatest
    <3>4. CASE m < x
      <4>1. \A y \in T : y <= x
        BY <3>1, <3>2, <3>4
      <4> QED
        BY <2>3, <3>2, <4>1 DEF HasGreatest
    <3> QED
      BY <3>2, <3>3, <3>4
  <2> QED
    BY <2>8, <2>9, <2>10
<1>2. Cardinality(S) \in Nat /\ S \in SUBSET S
  BY FS_CardinalityType
<1> QED
  BY <1>1, <1>2

LEMMA ToSetEmpty == ToSet(<<>>) = {}
BY DEF ToSet

LEMMA ToSetAppend ==
    ASSUME NEW S, NEW s \in Seq(S), NEW x \in S
    PROVE  ToSet(Append(s, x)) = ToSet(s) \cup {x}
<1>1. /\ DOMAIN Append(s, x) = 1..(Len(s) + 1) /\ Len(s) \in Nat
      /\ DOMAIN s = 1..Len(s) /\ Append(s, x)[Len(s) + 1] = x
      /\ \A i \in 1..Len(s) : Append(s, x)[i] = s[i]
  OBVIOUS
<1>2. 1..(Len(s) + 1) = (1..Len(s)) \cup {Len(s) + 1}
  BY <1>1
<1> QED
  BY <1>1, <1>2 DEF ToSet

LEMMA ToSetConcat ==
    ASSUME NEW S, NEW s \in Seq(S), NEW t \in Seq(S)
    PROVE  ToSet(s \o t) = ToSet(s) \cup ToSet(t)
<1>0. /\ Len(s) \in Nat /\ Len(t) \in Nat /\ Len(s \o t) = Len(s) + Len(t)
      /\ DOMAIN s = 1..Len(s) /\ DOMAIN t = 1..Len(t)
      /\ DOMAIN (s \o t) = 1..(Len(s) + Len(t))
      /\ \A i \in 1..(Len(s) + Len(t)) :
            (s \o t)[i] = IF i <= Len(s) THEN s[i] ELSE t[i - Len(s)]
  BY ConcatProperties
<1>1. ASSUME NEW i \in DOMAIN (s \o t) PROVE (s \o t)[i] \in ToSet(s) \cup ToSet(t)
  <2>2. CASE i <= Len(s)
    BY <1>0, <2>2 DEF ToSet
  <2>3. CASE i > Len(s)
    <3>1. i - Len(s) \in DOMAIN t
      BY <1>0, <2>3
    <3> QED
      BY <1>0, <2>3, <3>1 DEF ToSet
  <2> QED
    BY <1>0, <2>2, <2>3
<1>2. ASSUME NEW i \in DOMAIN s PROVE s[i] \in ToSet(s \o t)
  <2>1. i \in DOMAIN (s \o t) /\ (s \o t)[i] = s[i]
    BY <1>0
  <2> QED
    BY <2>1 DEF ToSet
<1>3. ASSUME NEW i \in DOMAIN t PROVE t[i] \in ToSet(s \o t)
  <2>1. i + Len(s) \in DOMAIN (s \o t) /\ (s \o t)[i + Len(s)] = t[i]
    BY <1>0
  <2> QED
    BY <2>1 DEF ToSet
<1> QED
  BY <1>1, <1>2, <1>3 DEF ToSet

LEMMA ToSetHead ==
    ASSUME NEW S, NEW s \in Seq(S), s # <<>>
    PROVE  /\ Head(s) \in ToSet(s) /\ Head(s) \in S
           /\ Tail(s) \in Seq(S) /\ ToSet(Tail(s)) \subseteq ToSet(s)
<1>1. /\ DOMAIN s = 1..Len(s) /\ Len(s) \in Nat /\ Len(s) # 0
      /\ DOMAIN Tail(s) = 1..(Len(s) - 1) /\ Head(s) = s[1]
      /\ \A i \in 1..(Len(s) - 1) : Tail(s)[i] = s[i + 1]
  OBVIOUS
<1>2. \A i \in 1..(Len(s) - 1) : i + 1 \in 1..Len(s)
  BY <1>1
<1> QED
  BY <1>1, <1>2 DEF ToSet

LEMMA ToSetMember ==
    ASSUME NEW S, NEW s \in Seq(S), NEW x \in ToSet(s)
    PROVE  x \in S
BY ElementOfSeq DEF ToSet

\* A sequence without one of its elements.
LEMMA Removed ==
    ASSUME NEW S, NEW s \in Seq(S), NEW i \in DOMAIN s
    PROVE  /\ RemoveAt(s, i) \in Seq(S) /\ Len(RemoveAt(s, i)) = Len(s) - 1
           /\ \A j \in 1..(Len(s) - 1) :
                 RemoveAt(s, i)[j] = s[IF j < i THEN j ELSE j + 1]
<1>1. i \in 1..Len(s) /\ Len(s) \in Nat /\ \A j \in 1..Len(s) : s[j] \in S
  OBVIOUS
<1> DEFINE a == SubSeq(s, 1, i - 1)
           b == SubSeq(s, i + 1, Len(s))
<1>2. /\ a \in Seq(S) /\ Len(a) = i - 1
      /\ \A j \in 1..(i - 1) : a[j] = s[j]
  <2>1. i - 1 \in Int /\ \A j \in 1..(i - 1) : s[j] \in S
    BY <1>1
  <2>2. /\ a \in Seq(S)
        /\ Len(a) = IF 1 <= i - 1 THEN i - 1 - 1 + 1 ELSE 0
        /\ \A j \in 1..(i - 1 - 1 + 1) : a[j] = s[1 + j - 1]
    BY <2>1, SubSeqProperties
  <2> QED
    BY <1>1, <2>2
<1>3. /\ b \in Seq(S) /\ Len(b) = Len(s) - i
      /\ \A j \in 1..(Len(s) - i) : b[j] = s[i + j]
  <2>1. i + 1 \in Int /\ Len(s) \in Int /\ \A j \in (i + 1)..Len(s) : s[j] \in S
    BY <1>1
  <2>2. /\ b \in Seq(S)
        /\ Len(b) = IF i + 1 <= Len(s) THEN Len(s) - (i + 1) + 1 ELSE 0
        /\ \A j \in 1..(Len(s) - (i + 1) + 1) : b[j] = s[(i + 1) + j - 1]
    BY <2>1, SubSeqProperties
  <2>3. /\ Len(s) - (i + 1) + 1 = Len(s) - i
        /\ ~(i + 1 <= Len(s)) => Len(s) - i = 0
        /\ \A j \in 1..(Len(s) - i) : (i + 1) + j - 1 = i + j
    BY <1>1
  <2> HIDE DEF b
  <2> QED
    BY <2>2, <2>3
<1>4. RemoveAt(s, i) = a \o b
  BY DEF RemoveAt
<1> HIDE DEF a, b
<1>5. /\ a \o b \in Seq(S) /\ Len(a \o b) = Len(s) - 1
      /\ \A j \in 1..(Len(s) - 1) :
            (a \o b)[j] = IF j <= i - 1 THEN a[j] ELSE b[j - (i - 1)]
  <2>1. /\ a \o b \in Seq(S) /\ Len(a \o b) = Len(a) + Len(b)
        /\ \A j \in 1..(Len(a) + Len(b)) :
              (a \o b)[j] = IF j <= Len(a) THEN a[j] ELSE b[j - Len(a)]
    BY <1>2, <1>3, ConcatProperties
  <2>2. Len(a) + Len(b) = Len(s) - 1 /\ Len(a) = i - 1
    BY <1>1, <1>2, <1>3
  <2> QED
    BY <2>1, <2>2
<1>6. ASSUME NEW j \in 1..(Len(s) - 1)
      PROVE  (a \o b)[j] = s[IF j < i THEN j ELSE j + 1]
  <2>1. CASE j < i
    BY <1>1, <1>2, <1>5, <2>1
  <2>2. CASE ~(j < i)
    <3>1. j - (i - 1) \in 1..(Len(s) - i) /\ i + (j - (i - 1)) = j + 1 /\ ~(j <= i - 1)
      BY <1>1, <2>2
    <3> QED
      BY <1>3, <1>5, <2>2, <3>1
  <2> QED
    BY <2>1, <2>2
<1> QED
  BY <1>4, <1>5, <1>6

LEMMA RemovedSet ==
    ASSUME NEW S, NEW s \in Seq(S), NEW i \in DOMAIN s
    PROVE  ToSet(RemoveAt(s, i)) \subseteq ToSet(s)
<1>1. /\ RemoveAt(s, i) \in Seq(S) /\ Len(RemoveAt(s, i)) = Len(s) - 1
      /\ \A j \in 1..(Len(s) - 1) :
            RemoveAt(s, i)[j] = s[IF j < i THEN j ELSE j + 1]
  BY Removed
<1>2. DOMAIN RemoveAt(s, i) = 1..(Len(s) - 1) /\ DOMAIN s = 1..Len(s) /\ Len(s) \in Nat
  BY <1>1
<1>3. \A j \in 1..(Len(s) - 1) : (IF j < i THEN j ELSE j + 1) \in 1..Len(s)
  BY <1>2
<1> QED
  BY <1>1, <1>2, <1>3 DEF ToSet

LEMMA IsSequence ==
    ASSUME NEW S, NEW n \in Nat, NEW f \in [1..n -> S]
    PROVE  f \in Seq(S) /\ Len(f) = n
OBVIOUS

-----------------------------------------------------------------------------
(* What a handler of the Host leaves                                       *)

Controls == {"stop", "cancel"}

\* Launches and prompts are numbered, stops and cancels are not.
FrameFine(f) ==
    f.kind = "command" =>
       /\ f.id = 0 <=> f.type \in Controls
       /\ f.type = "prompt" => f.msg \in Messages

Unnumbered(f) == f.kind = "command" => f.id = 0

\* No command with a number was sent, or one with the next.
NoneSent(h) == h.cmds = cmds /\ \A i \in DOMAIN h.out : Unnumbered(h.out[i])
OneSent(h) ==
    /\ h.cmds = cmds + 1
    /\ \E k \in DOMAIN h.out :
          /\ h.out[k].kind = "command" /\ h.out[k].id = cmds + 1
          /\ \A i \in DOMAIN h.out : i # k => Unnumbered(h.out[i])

Fine(h) == h \in HandlerType /\ \A i \in DOMAIN h.out : FrameFine(h.out[i])
Before(h) == Fine(h) /\ NoneSent(h)
Handled(h) == Fine(h) /\ (NoneSent(h) \/ OneSent(h))

LogFinite == IsFiniteSet(log)
Typed == LifecycleAssumption /\ TypeOK /\ LogFinite

LEMMA LastSeqTyped ==
    ASSUME Typed
    PROVE  LastSeq \in Nat /\ \A p \in log : p[1] <= LastSeq
<1> DEFINE Seqs == {p[1] : p \in log}
<1>1. \A p \in log : p[1] \in Nat
  BY DEF Typed, TypeOK
<1>2. CASE log = {}
  BY <1>2 DEF LastSeq
<1>3. CASE log # {}
  <2> DEFINE f == [p \in log |-> p[1]]
  <2>1. f \in Surjection(log, Seqs) /\ IsFiniteSet(log)
    BY DEF Surjection, Typed, LogFinite
  <2>2. IsFiniteSet(Seqs) /\ Seqs \in SUBSET Nat /\ Seqs # {}
    BY <1>1, <1>3, <2>1, FS_Surjection
  <2>3. PICK m \in Seqs : \A n \in Seqs : n <= m
    BY <2>2, GreatestExists DEF HasGreatest
  <2>4. m \in Seqs /\ \A p \in log : p[1] <= m
    BY <2>3
  <2>5. LastSeq \in Seqs /\ \A p \in log : p[1] <= LastSeq
    BY <1>3, <2>4 DEF LastSeq
  <2> QED
    BY <2>2, <2>5
<1> QED
  BY <1>2, <1>3

LEMMA HostBefore ==
    ASSUME Typed PROVE Before(Host) /\ Host.row = row /\ Host.notices = notices
BY DEF Typed, TypeOK, Before, Fine, HandlerType, NoneSent, Host, RowType, QueuedType,
       Fates

LEMMA CommandTyped ==
    ASSUME Typed, NEW id \in 0..MaxCmds, NEW offset \in Nat, NEW msg \in 0..MaxMsgs,
           NEW type \in {"start", "resume", "stop", "cancel", "prompt"}
    PROVE  /\ Command(type, id, offset, msg) \in CommandType
           /\ Command(type, id, offset, msg) \in NodeFrames
BY DEF Command, CommandType, NodeFrames

LEMMA RowSet ==
    ASSUME NEW h \in HandlerType, NEW r \in RowType
    PROVE  [h EXCEPT !.row = r] \in HandlerType
BY DEF HandlerType

LEMMA MoveTyped ==
    ASSUME Typed, NEW h \in HandlerType, NEW to \in States, NEW notifies \in BOOLEAN
    PROVE  /\ Move(h, to, notifies) \in HandlerType
           /\ Move(h, to, notifies).row = [h.row EXCEPT !.st = to]
           /\ Move(h, to, notifies).queue = h.queue /\ Move(h, to, notifies).cmds = h.cmds
           /\ Move(h, to, notifies).fate = h.fate /\ Move(h, to, notifies).link = h.link
           /\ Move(h, to, notifies).out = h.out
           /\ \/ Move(h, to, notifies).notices = h.notices
              \/ /\ h.row.done # 0 /\ notifies
                 /\ Move(h, to, notifies).notices = Append(h.notices, h.row.done)
<1>1. /\ h.row \in RowType /\ h.notices \in Seq(1..MaxCmds) /\ h.row.done \in 0..MaxCmds
  BY DEF HandlerType, RowType
<1>2. [h.row EXCEPT !.st = to] \in RowType
  BY <1>1 DEF RowType
<1> DEFINE due == /\ notifies /\ h.row.st # to /\ to \in {"idle", "completed"}
                  /\ h.row.intent = "none" /\ h.row.done # 0
           n == IF due THEN Append(h.notices, h.row.done) ELSE h.notices
<1>3. n \in Seq(1..MaxCmds)
  <2>1. CASE due
    <3>1. h.row.done \in 1..MaxCmds
      BY <1>1, <2>1
    <3> QED
      BY <1>1, <2>1, <3>1
  <2>2. CASE ~due
    BY <1>1, <2>2
  <2> QED
    BY <2>1, <2>2
<1>4. Move(h, to, notifies) = [h EXCEPT !.row = [h.row EXCEPT !.st = to], !.notices = n]
  BY <1>1 DEF Move, HandlerType, RowType
<1>5. n = h.notices \/ (h.row.done # 0 /\ notifies /\ n = Append(h.notices, h.row.done))
  OBVIOUS
<1> HIDE DEF n, due
<1> QED
  BY <1>2, <1>3, <1>4, <1>5 DEF HandlerType

\* A completion is notified from the receipt, which is then gone.
Silent(h) == h.notices = notices /\ h.row.done \in {row.done, 0}
Announces(h) ==
    /\ row.done # 0 /\ h.row.done = 0
    /\ h.notices = Append(notices, row.done)
Tells(h) == Silent(h) \/ Announces(h)

\* Whether the session is asked to stop.
SameAsk(h, k) == h.row.stop = k.row.stop

LEMMA Zero == ASSUME Typed PROVE 0 \in 0..MaxCmds /\ 0 \in 0..MaxMsgs /\ MaxCmds \in Nat
BY DEF Typed, LifecycleAssumption

LEMMA Sent ==
    ASSUME Typed, NEW h, Fine(h), NEW f \in NodeFrames, FrameFine(f)
    PROVE  /\ [h EXCEPT !.out = Append(h.out, f)] \in HandlerType
           /\ Fine([h EXCEPT !.out = Append(h.out, f)])
           /\ DOMAIN Append(h.out, f) = 1..(Len(h.out) + 1)
           /\ DOMAIN h.out = 1..Len(h.out) /\ Len(h.out) \in Nat
           /\ Append(h.out, f)[Len(h.out) + 1] = f
           /\ \A i \in DOMAIN h.out : Append(h.out, f)[i] = h.out[i]
<1>1. h \in HandlerType /\ h.out \in Seq(NodeFrames) /\ \A i \in DOMAIN h.out : FrameFine(h.out[i])
  BY DEF Fine, HandlerType
<1> DEFINE o == Append(h.out, f)
<1>2. /\ o \in Seq(NodeFrames) /\ DOMAIN o = 1..(Len(h.out) + 1)
      /\ DOMAIN h.out = 1..Len(h.out) /\ Len(h.out) \in Nat
      /\ o[Len(h.out) + 1] = f /\ \A i \in 1..Len(h.out) : o[i] = h.out[i]
  BY <1>1
<1> HIDE DEF o
<1>3. \A i \in DOMAIN o : FrameFine(o[i])
  BY <1>1, <1>2
<1>4. [h EXCEPT !.out = o] \in HandlerType /\ [h EXCEPT !.out = o].out = o
  BY <1>1, <1>2 DEF HandlerType
<1> QED
  BY <1>2, <1>3, <1>4 DEF Fine, o

LEMMA OrderBefore ==
    ASSUME Typed, NEW h, Before(h), NEW type \in Controls
    PROVE  /\ Before(Order(h, type))
           /\ Tells(h) => Tells(Order(h, type))
           /\ Order(h, type).notices = h.notices /\ Order(h, type).link = h.link
           /\ SameAsk(Order(h, type), h)
<1>1. CASE h.link # "open"
  BY <1>1 DEF Order, SameAsk
<1>2. CASE h.link = "open"
  <2> DEFINE r == [h.row EXCEPT !.intent = type, !.done = 0]
             f == Command(type, 0, 0, 0)
             g == [h EXCEPT !.row = r]
  <2>1. h \in HandlerType /\ h.row \in RowType /\ h.out \in Seq(NodeFrames)
    BY DEF Before, Fine, HandlerType
  <2>2. r \in RowType /\ r.done = 0 /\ r.stop = h.row.stop
    BY <2>1, Zero DEF RowType, Controls
  <2>3. f \in NodeFrames /\ FrameFine(f) /\ Unnumbered(f)
    <3>1. 0 \in 0..MaxCmds /\ 0 \in 0..MaxMsgs /\ 0 \in Nat
      BY DEF Typed, LifecycleAssumption
    <3>2. f \in NodeFrames
      BY <3>1, CommandTyped DEF Controls
    <3> QED
      BY <3>2 DEF FrameFine, Unnumbered, Command, Controls
  <2>4. Order(h, type) = [g EXCEPT !.out = Append(g.out, f)]
    BY <1>2, <2>1 DEF Order, HandlerType, RowType
  <2>5. /\ g \in HandlerType /\ g.row = r /\ g.out = h.out /\ g.cmds = h.cmds
        /\ g.notices = h.notices /\ g.link = h.link
    BY <2>1, <2>2 DEF HandlerType
  <2> HIDE DEF f, g, r
  <2>6. Fine(g)
    BY <2>5 DEF Fine, Before
  <2> DEFINE o == Append(g.out, f)
             k == [g EXCEPT !.out = o]
  <2>7. /\ k \in HandlerType /\ Fine(k) /\ DOMAIN o = 1..(Len(g.out) + 1)
        /\ DOMAIN g.out = 1..Len(g.out) /\ Len(g.out) \in Nat
        /\ o[Len(g.out) + 1] = f
        /\ \A i \in DOMAIN g.out : o[i] = g.out[i]
    BY <2>3, <2>6, Sent
  <2>8. /\ k.row = r /\ k.out = o /\ k.cmds = h.cmds /\ k.notices = h.notices
        /\ k.link = h.link
    BY <2>5 DEF HandlerType
  <2> HIDE DEF o, k
  <2>9. \A i \in DOMAIN o : Unnumbered(o[i])
    BY <2>3, <2>5, <2>7 DEF Before, NoneSent
  <2>10. Before(k)
    BY <2>7, <2>8, <2>9 DEF Before, NoneSent
  <2>11. Tells(h) => Tells(k)
    BY <2>2, <2>8 DEF Tells, Silent, Announces
  <2>12. SameAsk(k, h)
    BY <2>2, <2>8 DEF SameAsk
  <2> QED
    BY <2>4, <2>8, <2>10, <2>11, <2>12 DEF o, k
<1> QED
  BY <1>1, <1>2

LEMMA BeginHandled ==
    ASSUME Typed, NEW h, Before(h), cmds < MaxCmds, NEW offset \in Nat,
           NEW msg \in 0..MaxMsgs, NEW type \in {"start", "resume", "prompt"},
           type = "prompt" => msg \in Messages
    PROVE  /\ Handled(Begin(h, type, offset, msg)) /\ OneSent(Begin(h, type, offset, msg))
           /\ Tells(h) => Tells(Begin(h, type, offset, msg))
           /\ Begin(h, type, offset, msg).row.done = 0
           /\ Begin(h, type, offset, msg).notices = h.notices
           /\ Begin(h, type, offset, msg).link = h.link
           /\ SameAsk(Begin(h, type, offset, msg), h)
<1> DEFINE n == cmds + 1
           r == [h.row EXCEPT !.intent = "none", !.done = 0, !.cmd = n]
           f == Command(type, n, offset, msg)
           g == [[h EXCEPT !.row = r] EXCEPT !.cmds = n]
<1>1. /\ h \in HandlerType /\ h.row \in RowType /\ h.out \in Seq(NodeFrames)
      /\ h.cmds = cmds
  BY DEF Before, Fine, HandlerType, NoneSent
<1>2. n \in 1..MaxCmds /\ n \in 0..MaxCmds /\ n # 0 /\ 0 \in 0..MaxCmds
  BY DEF Typed, TypeOK, LifecycleAssumption
<1>3. r \in RowType /\ r.done = 0 /\ r.stop = h.row.stop
  <2> HIDE DEF n
  <2> QED
    BY <1>1, <1>2 DEF RowType
<1>4. f \in NodeFrames /\ FrameFine(f) /\ f.kind = "command" /\ f.id = n
  <2> HIDE DEF n
  <2>1. f \in NodeFrames
    BY <1>2, CommandTyped
  <2> QED
    BY <1>2, <2>1 DEF FrameFine, Command, Controls
<1>5. Begin(h, type, offset, msg) = [g EXCEPT !.out = Append(g.out, f)]
  BY <1>1 DEF Begin, HandlerType, RowType
<1>6. /\ g \in HandlerType /\ g.row = r /\ g.out = h.out /\ g.cmds = n
      /\ g.notices = h.notices /\ g.link = h.link
  <2> HIDE DEF n, r
  <2> QED
    BY <1>1, <1>2, <1>3 DEF HandlerType
<1> HIDE DEF f, g, r
<1>7. Fine(g)
  BY <1>6 DEF Fine, Before
<1> DEFINE o == Append(g.out, f)
           k == [g EXCEPT !.out = o]
<1>8. /\ k \in HandlerType /\ Fine(k) /\ DOMAIN o = 1..(Len(g.out) + 1)
      /\ DOMAIN g.out = 1..Len(g.out) /\ Len(g.out) \in Nat
      /\ o[Len(g.out) + 1] = f
      /\ \A i \in DOMAIN g.out : o[i] = g.out[i]
  BY <1>4, <1>7, Sent
<1>9. /\ k.row = r /\ k.out = o /\ k.cmds = n /\ k.notices = h.notices
      /\ k.link = h.link
  BY <1>6 DEF HandlerType
<1> HIDE DEF o, k
<1>10. OneSent(k)
  <2>1. Len(g.out) + 1 \in DOMAIN o
    BY <1>8
  <2>2. \A i \in DOMAIN o : i # Len(g.out) + 1 => Unnumbered(o[i])
    BY <1>6, <1>8 DEF Before, NoneSent
  <2> QED
    BY <1>4, <1>8, <1>9, <2>1, <2>2 DEF OneSent
<1>11. Handled(k) /\ (Tells(h) => Tells(k))
  BY <1>3, <1>8, <1>9, <1>10 DEF Handled, Tells, Silent, Announces
<1>12. SameAsk(k, h)
  BY <1>3, <1>9 DEF SameAsk
<1> QED
  BY <1>3, <1>5, <1>9, <1>10, <1>11, <1>12 DEF o, k

LEMMA FallbackBefore ==
    ASSUME Typed, NEW h, Before(h), NEW commanded \in BOOLEAN
    PROVE  /\ Before(Fallback(h, commanded))
           /\ Tells(h) => Tells(Fallback(h, commanded))
           /\ Fallback(h, commanded).queue = h.queue
           /\ SameAsk(Fallback(h, commanded), h)
<1> DEFINE m == Move(h, "failed", FALSE)
           r == [m.row EXCEPT !.done = 0,
                              !.intent = IF commanded THEN "none" ELSE @]
<1>0. h \in HandlerType /\ h.row \in RowType
  BY DEF Before, Fine, HandlerType
<1>1. /\ m \in HandlerType /\ m.row = [h.row EXCEPT !.st = "failed"]
      /\ m.queue = h.queue /\ m.cmds = h.cmds /\ m.out = h.out
      /\ m.notices = h.notices
  <2>1. "failed" \in States
    BY DEF States, Terminal
  <2> QED
    BY <1>0, <2>1, MoveTyped
<1> HIDE DEF m
<1>2. m.row \in RowType
  BY <1>1 DEF HandlerType
<1>3. r \in RowType /\ r.done = 0 /\ r.stop = h.row.stop
  BY <1>0, <1>1, <1>2, Zero DEF RowType
<1>4. Fallback(h, commanded) = [m EXCEPT !.row = r]
  BY <1>1, <1>2 DEF Fallback, HandlerType, RowType, m
<1> HIDE DEF r
<1> DEFINE k == [m EXCEPT !.row = r]
<1>5. /\ k \in HandlerType /\ k.row = r /\ k.queue = h.queue /\ k.cmds = h.cmds
      /\ k.out = h.out /\ k.notices = h.notices
  BY <1>1, <1>3 DEF HandlerType
<1> HIDE DEF k
<1>6. SameAsk(k, h)
  BY <1>3, <1>5 DEF SameAsk
<1> QED
  BY <1>3, <1>4, <1>5, <1>6 DEF k, Before, Fine, NoneSent, Tells, Silent, Announces

LEMMA MarkTyped ==
    ASSUME NEW q \in Seq(QueuedType), NEW id, NEW state \in {"pending", "sending", "failed"},
           NEW after \in Nat
    PROVE  Mark(q, id, state, after) \in Seq(QueuedType)
<1>1. Len(q) \in Nat /\ DOMAIN q = 1..Len(q) /\ \A i \in 1..Len(q) : q[i] \in QueuedType
  OBVIOUS
<1>2. \A i \in 1..Len(q) :
         (IF q[i].id = id THEN [q[i] EXCEPT !.state = state, !.after = after]
          ELSE q[i]) \in QueuedType
  BY <1>1 DEF QueuedType
<1>3. Mark(q, id, state, after) \in [1..Len(q) -> QueuedType]
  BY <1>1, <1>2 DEF Mark
<1> QED
  BY <1>1, <1>3, IsSequence

LEMMA UndeliveredTyped ==
    ASSUME NEW q \in Seq(QueuedType) PROVE Undelivered(q) \in Seq(QueuedType)
<1>1. Len(q) \in Nat /\ DOMAIN q = 1..Len(q) /\ \A i \in 1..Len(q) : q[i] \in QueuedType
  OBVIOUS
<1>2. \A i \in 1..Len(q) :
         (IF q[i].state = "sending" THEN [q[i] EXCEPT !.state = "failed", !.after = 0]
          ELSE q[i]) \in QueuedType
  BY <1>1 DEF QueuedType
<1>3. Undelivered(q) \in [1..Len(q) -> QueuedType]
  BY <1>1, <1>2 DEF Undelivered
<1> QED
  BY <1>1, <1>3, IsSequence

LEMMA WithoutTyped ==
    ASSUME NEW q \in Seq(QueuedType), NEW id PROVE Without(q, id) \in Seq(QueuedType)
<1>1. CASE \E i \in DOMAIN q : q[i].id = id
  <2>1. Place(q, id) \in DOMAIN q
    BY <1>1 DEF Place
  <2> QED
    BY <1>1, <2>1, Removed DEF Without
<1>2. CASE ~\E i \in DOMAIN q : q[i].id = id
  BY <1>2 DEF Without
<1> QED
  BY <1>1, <1>2

LEMMA QueueSet ==
    ASSUME NEW h, Fine(h), NEW q \in Seq(QueuedType)
    PROVE  /\ Fine([h EXCEPT !.queue = q]) /\ [h EXCEPT !.queue = q].row = h.row
           /\ [h EXCEPT !.queue = q].out = h.out /\ [h EXCEPT !.queue = q].cmds = h.cmds
           /\ [h EXCEPT !.queue = q].notices = h.notices
           /\ [h EXCEPT !.queue = q].link = h.link
           /\ [h EXCEPT !.queue = q].queue = q
BY DEF Fine, HandlerType

LEMMA RetireKeeps ==
    ASSUME NEW h, Fine(h), NEW id \in Messages, NEW how \in Fates
    PROVE  /\ Fine(Retire(h, id, how)) /\ Retire(h, id, how).row = h.row
           /\ Retire(h, id, how).out = h.out /\ Retire(h, id, how).cmds = h.cmds
           /\ Retire(h, id, how).notices = h.notices
           /\ Retire(h, id, how).link = h.link
<1> DEFINE q == Without(h.queue, id)
           f == [h.fate EXCEPT ![id] = how]
<1>1. h \in HandlerType /\ h.queue \in Seq(QueuedType) /\ h.fate \in [Messages -> Fates]
  BY DEF Fine, HandlerType
<1>2. q \in Seq(QueuedType) /\ f \in [Messages -> Fates]
  BY <1>1, WithoutTyped
<1>3. Retire(h, id, how) = [h EXCEPT !.queue = q, !.fate = f]
  BY <1>1 DEF Retire, HandlerType
<1> HIDE DEF q, f
<1> QED
  BY <1>1, <1>2, <1>3 DEF Fine, HandlerType

\* The queue, with the message being delivered and where it stands.
LEMMA SendingTyped ==
    ASSUME NEW h, Fine(h), Sending(h) # {}
    PROVE  /\ (CHOOSE m \in Sending(h) : TRUE) \in QueuedType
           /\ (CHOOSE m \in Sending(h) : TRUE) \in Sending(h)
           /\ (CHOOSE m \in Sending(h) : TRUE).id \in Messages
<1>1. \A m \in Sending(h) : m \in QueuedType
  <2>1. h.queue \in Seq(QueuedType)
    BY DEF Fine, HandlerType
  <2> QED
    BY <2>1, ToSetMember DEF Sending
<1>2. (CHOOSE m \in Sending(h) : TRUE) \in Sending(h)
  OBVIOUS
<1> QED
  BY <1>1, <1>2 DEF QueuedType

LEMMA PumpHandled ==
    ASSUME Typed, NEW h, Before(h), h.row.st = "idle" => cmds < MaxCmds
    PROVE  Handled(Pump(h)) /\ (Tells(h) => Tells(Pump(h)))
<1> DEFINE m == Head(h.queue)
           busy == h.row.st \in Terminal \cup {"offline"}
           rests == \/ h.queue = <<>> \/ h.row.st # "idle" \/ h.row.stop
                    \/ h.link = "down" \/ m.state # "pending"
<1>0. /\ h \in HandlerType /\ h.queue \in Seq(QueuedType) /\ Fine(h)
      /\ Handled(h)
  BY DEF Before, Fine, HandlerType, Handled
<1>1. CASE Sending(h) # {} /\ busy
  <2> DEFINE q == Undelivered(h.queue)
  <2>1. Pump(h) = [h EXCEPT !.queue = q]
    BY <1>1 DEF Pump
  <2>2. q \in Seq(QueuedType)
    BY <1>0, UndeliveredTyped
  <2> HIDE DEF q
  <2> QED
    BY <1>0, <2>1, <2>2, QueueSet DEF Before, Handled, NoneSent, Tells, Silent, Announces
<1>2. CASE Sending(h) # {} /\ ~busy
  BY <1>0, <1>2 DEF Pump
<1>3. CASE Sending(h) = {} /\ rests
  BY <1>0, <1>3 DEF Pump
<1>4. CASE Sending(h) = {} /\ ~rests /\ h.link = "open"
  <2> DEFINE q == Mark(h.queue, m.id, "sending", LastSeq)
             g == [h EXCEPT !.queue = q]
             b == Begin(g, "prompt", 0, m.id)
  <2>1. Pump(h) = Move(b, "running", FALSE)
    BY <1>4 DEF Pump
  <2>2. m \in QueuedType /\ m.id \in Messages /\ m.id \in 0..MaxMsgs
    <3>1. m \in QueuedType
      BY <1>0, <1>4, ToSetHead
    <3> QED
      BY <3>1 DEF QueuedType, Messages, Typed, LifecycleAssumption
  <2>3. q \in Seq(QueuedType)
    BY <1>0, LastSeqTyped, MarkTyped
  <2> HIDE DEF m, q
  <2>4. Before(g) /\ (Tells(h) => Tells(g))
    BY <1>0, <2>3, QueueSet DEF Before, NoneSent, Tells, Silent, Announces
  <2> HIDE DEF g
  <2>5. Handled(b) /\ OneSent(b) /\ (Tells(g) => Tells(b))
    BY <1>4, <2>2, <2>4, BeginHandled
  <2> HIDE DEF b
  <2> DEFINE k == Move(b, "running", FALSE)
  <2>6. /\ k \in HandlerType /\ k.row = [b.row EXCEPT !.st = "running"]
        /\ k.cmds = b.cmds /\ k.out = b.out /\ k.notices = b.notices
    <3>1. "running" \in States /\ b \in HandlerType
      BY <2>5 DEF States, Handled, Fine
    <3> QED
      BY <3>1, MoveTyped
  <2>7. k.row.done = b.row.done
    <3>1. b.row \in RowType
      BY <2>5 DEF Handled, Fine, HandlerType
    <3> QED
      BY <2>6, <3>1 DEF RowType
  <2> HIDE DEF k
  <2>8. Handled(k) /\ (Tells(b) => Tells(k))
    BY <2>5, <2>6, <2>7 DEF Handled, Fine, OneSent, Tells, Silent, Announces
  <2> QED
    BY <2>1, <2>4, <2>5, <2>8 DEF k
<1>5. CASE Sending(h) = {} /\ ~rests /\ h.link # "open"
  <2> DEFINE f == Fallback(h, FALSE)
             q == Mark(f.queue, m.id, "failed", 0)
  <2>1. Pump(h) = [f EXCEPT !.queue = q]
    BY <1>5 DEF Pump
  <2>2. Before(f) /\ (Tells(h) => Tells(f))
    BY FallbackBefore
  <2> HIDE DEF f
  <2>3. q \in Seq(QueuedType)
    <3>1. f.queue \in Seq(QueuedType) /\ 0 \in Nat
      BY <2>2 DEF Before, Fine, HandlerType
    <3> QED
      BY <3>1, MarkTyped
  <2> HIDE DEF q
  <2>4. /\ Fine([f EXCEPT !.queue = q]) /\ [f EXCEPT !.queue = q].row = f.row
        /\ [f EXCEPT !.queue = q].out = f.out /\ [f EXCEPT !.queue = q].cmds = f.cmds
        /\ [f EXCEPT !.queue = q].notices = f.notices
    BY <2>2, <2>3, QueueSet DEF Before
  <2> QED
    BY <2>1, <2>2, <2>4 DEF Before, Handled, NoneSent, Tells, Silent, Announces
<1> QED
  BY <1>1, <1>2, <1>3, <1>4, <1>5

LEMMA SettledBefore ==
    ASSUME Typed, NEW h, Before(h), h.row = row, h.notices = notices,
           NEW to \in States, NEW stop \in BOOLEAN,
           NEW intent \in {"none", "stop", "cancel"},
           NEW k, k = [Move(h, to, TRUE) EXCEPT !.row.stop = stop,
                                                !.row.intent = intent,
                                                !.row.done = 0]
    PROVE  Before(k) /\ Tells(k) /\ k.link = h.link
<1> DEFINE m == Move(h, to, TRUE)
           r == [m.row EXCEPT !.stop = stop, !.intent = intent, !.done = 0]
<1>0. h \in HandlerType /\ h.row \in RowType
  BY DEF Before, Fine, HandlerType
<1>1. /\ m \in HandlerType /\ m.row = [h.row EXCEPT !.st = to]
      /\ m.queue = h.queue /\ m.cmds = h.cmds /\ m.out = h.out /\ m.link = h.link
      /\ \/ m.notices = h.notices
         \/ h.row.done # 0 /\ m.notices = Append(h.notices, h.row.done)
  BY <1>0, MoveTyped
<1> HIDE DEF m
<1>2. m.row \in RowType
  BY <1>1 DEF HandlerType
<1>3. r \in RowType /\ r.done = 0
  BY <1>2, Zero DEF RowType
<1>4. k = [m EXCEPT !.row = r]
  BY <1>1, <1>2 DEF HandlerType, RowType, m
<1> HIDE DEF r
<1>5. /\ k \in HandlerType /\ k.row = r /\ k.cmds = h.cmds
      /\ k.out = h.out /\ k.notices = m.notices /\ k.link = h.link
  BY <1>1, <1>3, <1>4 DEF HandlerType
<1>6. Before(k)
  BY <1>5 DEF Before, Fine, NoneSent
<1> QED
  BY <1>1, <1>3, <1>5, <1>6 DEF Tells, Silent, Announces

LEMMA RemindedBefore ==
    ASSUME Typed, NEW h, Before(h)
    PROVE  /\ Before(Reminded(h)) /\ (Tells(h) => Tells(Reminded(h)))
           /\ SameAsk(Reminded(h), h)
BY OrderBefore DEF Reminded, Controls, SameAsk

LEMMA SettlesBefore ==
    ASSUME Typed, NEW h, Before(h), NEW e \in EventType
    PROVE  /\ Before(Settles(h, e)) /\ Settles(h, e).row = h.row
           /\ Settles(h, e).notices = h.notices
<1> DEFINE due == /\ e.kind \in {"running", "turn"}
                  /\ \E m \in Sending(h) : e.seq > m.after
           id == (CHOOSE m \in Sending(h) : TRUE).id
<1>1. CASE due
  <2>1. id \in Messages
    BY <1>1, SendingTyped DEF Before
  <2>2. Settles(h, e) = Retire(h, id, "delivered")
    BY <1>1 DEF Settles
  <2> HIDE DEF id
  <2>3. /\ Fine(Retire(h, id, "delivered")) /\ Retire(h, id, "delivered").row = h.row
        /\ Retire(h, id, "delivered").out = h.out
        /\ Retire(h, id, "delivered").cmds = h.cmds
        /\ Retire(h, id, "delivered").notices = h.notices
    BY <2>1, RetireKeeps DEF Before, Fates
  <2> QED
    BY <2>2, <2>3 DEF Before, NoneSent
<1>2. CASE ~due
  BY <1>2 DEF Settles
<1> QED
  BY <1>1, <1>2

LEMMA StillStoppingTyped ==
    ASSUME NEW stop \in BOOLEAN, NEW s PROVE StillStopping(stop, s) \in BOOLEAN
BY DEF StillStopping

Intent(r, s) == IF s \in Terminal \cup {"idle"} THEN "none" ELSE r.intent

LEMMA StateReportHandled ==
    ASSUME Typed, NEW e \in EventType, e.kind \notin {"agent", "turn"}
    PROVE  Before(StateReport(Host, e)) /\ Tells(StateReport(Host, e))
<1> DEFINE s == e.kind
           moved == Move(Host, s, TRUE)
           stop == StillStopping(moved.row.stop, s)
           intent == Intent(moved.row, s)
           settled == [moved EXCEPT !.row.stop = stop, !.row.intent = intent,
                                    !.row.done = 0]
<1>0. /\ Before(Host) /\ Host.row = row /\ Host.notices = notices
      /\ Host \in HandlerType /\ row \in RowType
  BY HostBefore DEF Before, Fine, HandlerType
<1>1. s \in States
  BY DEF EventType, Kinds, States
<1>2. moved.row = [row EXCEPT !.st = s] /\ moved \in HandlerType
  BY <1>0, <1>1, MoveTyped
<1>3. /\ stop \in BOOLEAN /\ intent \in {"none", "stop", "cancel"}
      /\ moved.row \in RowType
  <2>1. moved.row.stop \in BOOLEAN /\ moved.row.intent \in {"none", "stop", "cancel"}
    BY <1>2 DEF HandlerType, RowType
  <2> QED
    BY <1>2, <2>1, StillStoppingTyped DEF Intent, HandlerType
<1>4. StateReport(Host, e) =
         IF CanTransition(Host.row.st, s) THEN Reminded(Settles(settled, e)) ELSE Host
  <2>1. settled = [moved EXCEPT !.row.stop = StillStopping(@, s),
                      !.row.intent = IF s \in Terminal \cup {"idle"}
                                     THEN "none" ELSE @,
                      !.row.done = 0]
    <3> HIDE DEF moved
    <3> QED
      BY <1>2, <1>3 DEF HandlerType, RowType, Intent
  <2> QED
    BY <2>1 DEF StateReport
<1>5. Before(settled) /\ Tells(settled)
  <2> HIDE DEF stop, intent, s
  <2> QED
    BY <1>0, <1>1, <1>3, SettledBefore
<1> HIDE DEF settled
<1>6. Before(Settles(settled, e)) /\ Tells(Settles(settled, e))
  <2>1. /\ Before(Settles(settled, e)) /\ Settles(settled, e).row = settled.row
        /\ Settles(settled, e).notices = settled.notices
    BY <1>5, SettlesBefore
  <2> QED
    BY <1>5, <2>1 DEF Tells, Silent, Announces
<1>7. Before(Host) /\ Tells(Host)
  BY <1>0 DEF Tells, Silent
<1> QED
  BY <1>4, <1>6, <1>7, RemindedBefore

\* The end of a turn is held as a receipt.
HoldsReceipt(h, e) ==
    h.notices = notices /\ (h.row.done = row.done \/ h.row.done = e.turn)

LEMMA AppliedHandled ==
    ASSUME Typed, NEW e \in EventType
    PROVE  /\ Before(Applied(Host, e))
           /\ e.kind = "turn" => HoldsReceipt(Applied(Host, e), e)
           /\ e.kind # "turn" => Tells(Applied(Host, e))
<1>0. /\ Before(Host) /\ Host.row = row /\ Host.notices = notices
      /\ Host \in HandlerType /\ row \in RowType
  BY HostBefore DEF Before, Fine, HandlerType
<1>1. CASE e.kind = "agent"
  <2> DEFINE r == [row EXCEPT !.agent = TRUE]
             k == [Host EXCEPT !.row = r]
  <2>1. r \in RowType /\ r.done = row.done
    BY <1>0 DEF RowType
  <2>2. Applied(Host, e) = k
    BY <1>0, <1>1 DEF Applied, HandlerType, RowType
  <2> HIDE DEF r
  <2>3. /\ k \in HandlerType /\ k.row = r /\ k.cmds = Host.cmds /\ k.out = Host.out
        /\ k.notices = notices
    BY <1>0, <2>1 DEF HandlerType
  <2> HIDE DEF k
  <2> QED
    BY <1>0, <1>1, <2>1, <2>2, <2>3 DEF Before, Fine, NoneSent, Tells, Silent
<1>2. CASE e.kind = "turn"
  <2> DEFINE d == IF row.intent = "none" THEN e.turn ELSE row.done
             r == [row EXCEPT !.done = d]
             k == [Host EXCEPT !.row = r]
  <2>1. r \in RowType /\ r.done = d
    BY <1>0 DEF RowType, EventType
  <2>2. Applied(Host, e) = Settles(k, e)
    BY <1>0, <1>2 DEF Applied, HandlerType, RowType
  <2> HIDE DEF r
  <2>3. /\ k \in HandlerType /\ k.row = r /\ k.cmds = Host.cmds /\ k.out = Host.out
        /\ k.notices = notices
    BY <1>0, <2>1 DEF HandlerType
  <2> HIDE DEF k
  <2>4. Before(k)
    BY <1>0, <2>3 DEF Before, Fine, NoneSent
  <2>5. /\ Before(Settles(k, e)) /\ Settles(k, e).row = k.row
        /\ Settles(k, e).notices = k.notices
    BY <2>4, SettlesBefore
  <2> QED
    BY <1>2, <2>1, <2>2, <2>3, <2>5 DEF HoldsReceipt
<1>3. CASE e.kind \notin {"agent", "turn"}
  <2>1. Applied(Host, e) = StateReport(Host, e)
    BY <1>3 DEF Applied
  <2> QED
    BY <1>3, <2>1, StateReportHandled
<1> QED
  BY <1>1, <1>2, <1>3

\* The session was not asked to stop, still is, or has ended; or had ended and
\* was resumed automatically.
Asked(h) ==
    row.stop => \/ h.row.stop \/ h.row.st \in Terminal
                \/ AutoResume /\ row.st \in Terminal

LEMMA FailedByResultBefore ==
    ASSUME Typed
    PROVE  /\ Before(FailedByResult(Host)) /\ Tells(FailedByResult(Host))
           /\ Asked(FailedByResult(Host))
<1>0. /\ Before(Host) /\ Host.row = row /\ Host.notices = notices
      /\ Host \in HandlerType /\ row \in RowType
  BY HostBefore DEF Before, Fine, HandlerType
<1>1. Before(Host) /\ Tells(Host)
  BY <1>0 DEF Tells, Silent
<1>2. CASE row.st \notin Terminal \cup {"none"}
  <2> DEFINE m == Move(Host, "failed", FALSE)
             r == [m.row EXCEPT !.stop = FALSE, !.intent = "none", !.done = 0]
             k == [m EXCEPT !.row = r]
  <2>1. /\ m \in HandlerType /\ m.row = [row EXCEPT !.st = "failed"]
        /\ m.cmds = Host.cmds /\ m.out = Host.out /\ m.notices = notices
    <3>1. "failed" \in States
      BY DEF States, Terminal
    <3> QED
      BY <1>0, <3>1, MoveTyped
  <2> HIDE DEF m
  <2>2. m.row \in RowType
    BY <2>1 DEF HandlerType
  <2>3. r \in RowType /\ r.done = 0 /\ r.st = "failed"
    BY <1>0, <2>1, <2>2, Zero DEF RowType
  <2>4. FailedByResult(Host) = k
    BY <1>0, <1>2, <2>1, <2>2 DEF FailedByResult, HandlerType, RowType, m
  <2> HIDE DEF r
  <2>5. /\ k \in HandlerType /\ k.row = r /\ k.cmds = Host.cmds /\ k.out = Host.out
        /\ k.notices = notices
    BY <2>1, <2>3 DEF HandlerType
  <2> HIDE DEF k
  <2> QED
    BY <1>0, <2>3, <2>4, <2>5 DEF Before, Fine, NoneSent, Tells, Silent, Asked, Terminal
<1>3. CASE row.st \in Terminal \cup {"none"}
  BY <1>0, <1>1, <1>3 DEF FailedByResult, Asked
<1> QED
  BY <1>2, <1>3

LEMMA ReconciledHandled ==
    ASSUME Typed, NEW h, Before(h), h.row = row, h.notices = notices,
           NEW up \in BOOLEAN, NEW busy \in BOOLEAN
    PROVE  Handled(Reconciled(h, up, busy)) /\ Tells(Reconciled(h, up, busy))
<1> DEFINE s == Settlement(h.row, up, busy)
           m == Move(h, s, TRUE)
           stop == StillStopping(m.row.stop, s)
           intent == Intent(m.row, s)
           moved == [m EXCEPT !.row.stop = StillStopping(@, s),
                              !.row.intent = IF s \in Terminal \cup {"idle"}
                                             THEN "none" ELSE @,
                              !.row.done = 0]
           resumes == /\ AutoResume /\ s = "failed" /\ moved.row.agent
                      /\ h.link = "open" /\ h.cmds < MaxCmds
           begun == Begin(moved, "resume", LastSeq, 0)
<1>0. h \in HandlerType /\ row \in RowType
  BY DEF Before, Fine, HandlerType
<1>1. CASE s = "unconcerned"
  BY <1>1 DEF Reconciled, Handled, Before, Tells, Silent
<1>2. CASE s # "unconcerned"
  <2>1. s \in States
    BY <1>2 DEF Settlement, LandsOn, States, Terminal
  <2>2. m.row = [row EXCEPT !.st = s] /\ m \in HandlerType
    BY <1>0, <2>1, MoveTyped
  <2>3. stop \in BOOLEAN /\ intent \in {"none", "stop", "cancel"}
    <3>1. m.row.stop \in BOOLEAN /\ m.row.intent \in {"none", "stop", "cancel"}
      BY <2>2 DEF HandlerType, RowType
    <3> QED
      BY <3>1, StillStoppingTyped DEF Intent
  <2>4. Reconciled(h, up, busy) =
           IF resumes THEN Move(begun, "starting", FALSE) ELSE Reminded(moved)
    BY <1>2, Zenon DEF Reconciled
  <2>5. Before(moved) /\ Tells(moved)
    <3>1. moved = [m EXCEPT !.row.stop = stop, !.row.intent = intent,
                            !.row.done = 0]
      <4> HIDE DEF m
      <4> QED
        BY <2>2, <2>3 DEF HandlerType, RowType, Intent
    <3> HIDE DEF stop, intent, s, moved
    <3> QED
      BY <2>1, <2>3, <3>1, SettledBefore
  <2> HIDE DEF moved
  <2>6. CASE ~resumes
    BY <2>4, <2>5, <2>6, RemindedBefore DEF Handled, Before
  <2>7. CASE resumes
    <3>1. cmds < MaxCmds
      BY <2>7 DEF Before, NoneSent
    <3>2. Handled(begun) /\ OneSent(begun) /\ Tells(begun)
      BY <2>5, <3>1, LastSeqTyped, Zero, BeginHandled
    <3> HIDE DEF begun
    <3> DEFINE k == Move(begun, "starting", FALSE)
    <3>3. /\ k \in HandlerType /\ k.row = [begun.row EXCEPT !.st = "starting"]
          /\ k.cmds = begun.cmds /\ k.out = begun.out /\ k.notices = begun.notices
      <4>1. "starting" \in States /\ begun \in HandlerType
        BY <3>2 DEF States, Handled, Fine
      <4> QED
        BY <4>1, MoveTyped
    <3>4. k.row.done = begun.row.done
      <4>1. begun.row \in RowType
        BY <3>2 DEF Handled, Fine, HandlerType
      <4> QED
        BY <3>3, <4>1 DEF RowType
    <3> HIDE DEF k
    <3>5. Handled(k) /\ Tells(k)
      BY <3>2, <3>3, <3>4 DEF Handled, Fine, OneSent, Tells, Silent, Announces
    <3> QED
      BY <2>4, <2>7, <3>5 DEF k
  <2> QED
    BY <2>6, <2>7
<1> QED
  BY <1>1, <1>2

-----------------------------------------------------------------------------
(* The invariant                                                           *)

HostTyped ==
    /\ row \in RowType /\ log \subseteq (Nat \ {0}) \X Nat
    /\ queue \in Seq(QueuedType) /\ cmds \in 0..MaxCmds
    /\ hostLink \in {"open", "closing", "down"} /\ awaiting \in BOOLEAN
    /\ batchSeqs \subseteq Nat \ {0} /\ notices \in Seq(1..MaxCmds)
    /\ fate \in [Messages -> Fates]
SlotTyped ==
    /\ slot \in SlotType /\ inbox \in Seq(AcceptedType) /\ own \in 0..MaxOwn
    /\ silenced \subseteq 0..MaxCmds /\ taken \in Seq(Messages)
BoxTyped ==
    /\ nodeLink \in {"down", "ready", "up"}
    /\ hold \in BOOLEAN /\ inFlight \in BOOLEAN /\ reconcile \in BOOLEAN
    /\ pending \in Seq(EventType) /\ batch \in Seq(EventType)
WireTyped ==
    /\ toHost \in Seq(HostFrames) /\ toNode \in Seq(NodeFrames)
    /\ breaks \in 0..MaxBreaks

LEMMA TypeParts == TypeOK <=> HostTyped /\ SlotTyped /\ BoxTyped /\ WireTyped
BY DEF TypeOK, HostTyped, SlotTyped, BoxTyped, WireTyped, RowType, QueuedType,
       SlotType, AcceptedType, Fates

\* The events on their way to the Host.
IsEvent(f) == f.kind = "event"
EventsOf(frames) == {f.ev : f \in {g \in ToSet(frames) : IsEvent(g)}}
Copies == ToSet(pending) \cup ToSet(batch) \cup EventsOf(toHost)
Turns == {e \in Copies : e.kind = "turn"}

\* The launches and prompts that may still become a turn.
Num(f) == IF f.kind = "command" THEN f.id ELSE 0
Current ==
    IF Initializing THEN slot.cmd
    ELSE IF slot.phase = "busy" THEN slot.turn ELSE 0
Waits(t) ==
    /\ t # 0
    /\ \/ \E i \in DOMAIN toNode : Num(toNode[i]) = t
       \/ \E i \in DOMAIN inbox : inbox[i].cmd.id = t
       \/ Current = t

\* Commands say what their type needs, and a slot knows its launch and turn.
CommandsFine ==
    /\ \A i \in DOMAIN toNode : FrameFine(toNode[i])
    /\ \A i \in DOMAIN inbox : FrameFine(inbox[i].cmd)
    /\ Initializing => slot.cmd # 0
    /\ slot.phase = "busy" => slot.turn # 0

\* Each of them is in one place.
Once ==
    /\ \A i, j \in DOMAIN toNode :
          Num(toNode[i]) # 0 /\ Num(toNode[i]) = Num(toNode[j]) => i = j
    /\ \A i, j \in DOMAIN inbox :
          inbox[i].cmd.id # 0 /\ inbox[i].cmd.id = inbox[j].cmd.id => i = j
    /\ \A i \in DOMAIN toNode, j \in DOMAIN inbox :
          Num(toNode[i]) # 0 => Num(toNode[i]) # inbox[j].cmd.id
    /\ Current # 0 =>
          /\ \A i \in DOMAIN toNode : Num(toNode[i]) # Current
          /\ \A i \in DOMAIN inbox : inbox[i].cmd.id # Current
    /\ \A t \in 1..MaxCmds : Waits(t) => t <= cmds

\* A turn that ended, or whose end the Host knows of, cannot begin again.
Over ==
    /\ \A e \in Turns : e.turn \in 1..cmds /\ ~Waits(e.turn)
    /\ row.done # 0 => row.done <= cmds /\ ~Waits(row.done)
    /\ \A i \in DOMAIN notices : notices[i] <= cmds /\ ~Waits(notices[i])

\* The copies of a turn's end carry one number, and are known once it is held as
\* a receipt or announced.
OneEnd == \A e, f \in Turns : e.turn = f.turn => e.seq = f.seq
Heard ==
    \A e \in Turns :
       e.turn = row.done \/ (\E i \in DOMAIN notices : notices[i] = e.turn)
       => Known(e)

Distinct ==
    /\ \A i, j \in DOMAIN notices : notices[i] = notices[j] => i = j
    /\ \A i \in DOMAIN notices : notices[i] # row.done

NoticeInv == Over /\ OneEnd /\ Heard /\ Distinct
Inv == Typed /\ CommandsFine /\ Once /\ NoticeInv

-----------------------------------------------------------------------------
(* Steps of either side                                                    *)

LEMMA EventsHead ==
    ASSUME Typed, toHost # <<>>, toHost' = Tail(toHost)
    PROVE  EventsOf(toHost') \subseteq EventsOf(toHost)
BY ToSetHead DEF EventsOf, Typed, TypeOK

LEMMA EventsConcat ==
    ASSUME NEW s \in Seq(HostFrames), NEW t \in Seq(HostFrames)
    PROVE  EventsOf(s \o t) = EventsOf(s) \cup EventsOf(t)
BY ToSetConcat DEF EventsOf

LEMMA FramesOfEvents ==
    ASSUME NEW q \in Seq(EventType), NEW tagged \in BOOLEAN, NEW frames,
           frames = [i \in DOMAIN q |-> EventFrame(q[i], tagged)]
    PROVE  frames \in Seq(HostFrames) /\ EventsOf(frames) = ToSet(q)
           /\ Len(frames) = Len(q)
<1>1. Len(q) \in Nat /\ DOMAIN q = 1..Len(q) /\ \A i \in 1..Len(q) : q[i] \in EventType
  OBVIOUS
<1>2. \A i \in 1..Len(q) : /\ EventFrame(q[i], tagged) \in HostFrames
                           /\ IsEvent(EventFrame(q[i], tagged))
                           /\ EventFrame(q[i], tagged).ev = q[i]
  BY <1>1 DEF EventFrame, HostFrames, IsEvent
<1>3. frames \in [1..Len(q) -> HostFrames]
  BY <1>1, <1>2
<1>4. frames \in Seq(HostFrames) /\ Len(frames) = Len(q)
  BY <1>1, <1>3, IsSequence
<1>5. DOMAIN frames = DOMAIN q /\ \A i \in DOMAIN q : frames[i] = EventFrame(q[i], tagged)
  BY <1>1
<1>6. \A i \in DOMAIN q : IsEvent(frames[i]) /\ frames[i].ev = q[i]
  BY <1>1, <1>2, <1>5
<1> QED
  BY <1>4, <1>5, <1>6 DEF EventsOf, ToSet

LEMMA NoEvents ==
    ASSUME NEW s \in Seq(HostFrames), \A i \in DOMAIN s : ~IsEvent(s[i])
    PROVE  EventsOf(s) = {}
BY DEF EventsOf, ToSet

LEMMA FlushFramesTyped ==
    ASSUME NEW q \in Seq(EventType)
    PROVE  FlushFrames(q) \in Seq(HostFrames) /\ EventsOf(FlushFrames(q)) = ToSet(q)
<1> DEFINE a == [i \in DOMAIN q |-> EventFrame(q[i], TRUE)]
           f == Inventory("flushed")
<1>1. a \in Seq(HostFrames) /\ EventsOf(a) = ToSet(q)
  BY FramesOfEvents
<1>2. f \in HostFrames /\ ~IsEvent(f)
  BY DEF Inventory, HostFrames, InventoryType, IsEvent, Up, Busy
<1>3. FlushFrames(q) = a \o <<f>>
  BY DEF FlushFrames
<1> HIDE DEF a, f
<1>4. <<f>> \in Seq(HostFrames) /\ EventsOf(<<f>>) = {}
  <2>1. <<f>> \in Seq(HostFrames)
    BY <1>2
  <2>2. DOMAIN <<f>> = {1} /\ <<f>>[1] = f
    OBVIOUS
  <2> QED
    BY <1>2, <2>1, <2>2, NoEvents
<1>5. a \o <<f>> \in Seq(HostFrames)
  BY <1>1, <1>4
<1>6. EventsOf(a \o <<f>>) = EventsOf(a) \cup EventsOf(<<f>>)
  BY <1>1, <1>4, EventsConcat
<1> QED
  BY <1>1, <1>3, <1>4, <1>5, <1>6

LEMMA NumberedTyped ==
    ASSUME Typed, NEW kinds \in Seq(Kinds), NEW turn \in 0..MaxCmds
    PROVE  /\ Numbered(kinds, turn) \in Seq(EventType)
           /\ Len(Numbered(kinds, turn)) = Len(kinds)
           /\ \A i \in DOMAIN kinds :
                 Numbered(kinds, turn)[i] = [seq |-> slot.seq + i, inc |-> slot.inc,
                                             kind |-> kinds[i], turn |-> turn]
<1>1. /\ Len(kinds) \in Nat /\ DOMAIN kinds = 1..Len(kinds)
      /\ \A i \in 1..Len(kinds) : kinds[i] \in Kinds
      /\ slot.seq \in Nat /\ slot.inc \in Nat
  <2>1. slot \in SlotType
    BY TypeParts DEF Typed, SlotTyped
  <2> QED
    BY <2>1 DEF SlotType
<1>2. \A i \in 1..Len(kinds) :
         [seq |-> slot.seq + i, inc |-> slot.inc, kind |-> kinds[i], turn |-> turn]
            \in EventType
  <2>1. \A i \in 1..Len(kinds) : slot.seq + i \in Nat \ {0}
    BY <1>1
  <2> QED
    BY <1>1, <2>1 DEF EventType
<1>3. Numbered(kinds, turn) \in [1..Len(kinds) -> EventType]
  BY <1>1, <1>2 DEF Numbered
<1>4. \A i \in DOMAIN kinds :
         Numbered(kinds, turn)[i] = [seq |-> slot.seq + i, inc |-> slot.inc,
                                     kind |-> kinds[i], turn |-> turn]
  BY DEF Numbered
<1> QED
  BY <1>1, <1>3, <1>4, IsSequence

\* What a report leaves of the outbox and the wire.
LEMMA Reported ==
    ASSUME Typed, NEW events \in Seq(EventType), NEW results \in Seq(HostFrames),
           \A i \in DOMAIN results : ~IsEvent(results[i]),
           Report(events, results)
    PROVE  /\ BoxTyped' /\ toHost' \in Seq(HostFrames) /\ breaks' \in 0..MaxBreaks
           /\ Copies' \subseteq Copies \cup ToSet(events)
           /\ HostTyped' /\ LogFinite'
           /\ UNCHANGED hostVars
<1>0. /\ HostTyped /\ LogFinite /\ BoxTyped /\ WireTyped
  BY TypeParts DEF Typed
<1>1. pending \in Seq(EventType) /\ toHost \in Seq(HostFrames)
  BY <1>0 DEF BoxTyped, WireTyped
<1>2. UNCHANGED hostVars /\ UNCHANGED <<batch, inFlight, hold, nodeLink, breaks>>
  BY DEF Report
<1>3. /\ pending' \in Seq(EventType) /\ reconcile' \in BOOLEAN
      /\ ToSet(pending') \subseteq ToSet(pending) \cup ToSet(events)
  <2>1. CASE nodeLink = "down" \/ hold
    <3>1. pending' = pending \o events /\ reconcile' = (reconcile \/ events # <<>>)
      BY <2>1 DEF Report
    <3>2. ToSet(pending \o events) = ToSet(pending) \cup ToSet(events)
      BY <1>1, ToSetConcat
    <3>3. pending \o events \in Seq(EventType)
      BY <1>1
    <3> QED
      BY <1>0, <3>1, <3>2, <3>3 DEF BoxTyped
  <2>2. CASE ~(nodeLink = "down" \/ hold)
    BY <1>0, <2>2 DEF Report, BoxTyped
  <2> QED
    BY <2>1, <2>2
<1> DEFINE live == [i \in DOMAIN events |-> EventFrame(events[i], FALSE)]
<1>4. live \in Seq(HostFrames) /\ EventsOf(live) = ToSet(events)
  BY FramesOfEvents
<1>5. EventsOf(results) = {}
  BY NoEvents
<1>6. /\ toHost' \in Seq(HostFrames)
      /\ EventsOf(toHost') \subseteq EventsOf(toHost) \cup ToSet(events)
  <2>1. CASE nodeLink = "down"
    BY <1>1, <2>1 DEF Report
  <2>2. CASE nodeLink # "down" /\ hold
    <3>1. toHost' = toHost \o results
      BY <2>2 DEF Report
    <3>2. toHost \o results \in Seq(HostFrames)
      BY <1>1
    <3> QED
      BY <1>1, <1>5, <3>1, <3>2, EventsConcat
  <2>3. CASE nodeLink # "down" /\ ~hold
    <3>1. toHost' = (toHost \o live) \o results
      BY <2>3 DEF Report
    <3> HIDE DEF live
    <3>2. toHost \o live \in Seq(HostFrames) /\ (toHost \o live) \o results \in Seq(HostFrames)
      BY <1>1, <1>4
    <3>3. EventsOf((toHost \o live) \o results) = EventsOf(toHost \o live) \cup EventsOf(results)
      BY <3>2, EventsConcat
    <3>4. EventsOf(toHost \o live) = EventsOf(toHost) \cup EventsOf(live)
      BY <1>1, <1>4, EventsConcat
    <3> QED
      BY <1>4, <1>5, <3>1, <3>2, <3>3, <3>4
  <2> QED
    BY <2>1, <2>2, <2>3
<1>7. Copies' \subseteq Copies \cup ToSet(events)
  <2>1. batch' = batch
    BY <1>2
  <2> QED
    BY <1>3, <1>6, <2>1 DEF Copies
<1>8. BoxTyped' /\ breaks' \in 0..MaxBreaks
  BY <1>0, <1>2, <1>3 DEF BoxTyped, WireTyped
<1>9. HostTyped' /\ LogFinite'
  BY <1>0, <1>2 DEF HostTyped, LogFinite, hostVars
<1> QED
  BY <1>2, <1>6, <1>7, <1>8, <1>9

\* Which commands a handler sends.
LEMMA OutSent ==
    ASSUME Typed, NEW h, Handled(h), toNode' = toNode \o h.out
    PROVE  /\ toNode' \in Seq(NodeFrames) /\ h.out \in Seq(NodeFrames)
           /\ Len(toNode) \in Nat /\ DOMAIN toNode = 1..Len(toNode)
           /\ \A i \in DOMAIN toNode' :
                 \/ i \in DOMAIN toNode /\ toNode'[i] = toNode[i]
                 \/ \E k \in DOMAIN h.out :
                       /\ i = Len(toNode) + k /\ toNode'[i] = h.out[k]
                       /\ i \notin DOMAIN toNode
           /\ \A k \in DOMAIN h.out :
                 /\ FrameFine(h.out[k]) /\ Num(h.out[k]) \in {0, cmds + 1}
                 /\ Num(h.out[k]) # 0 => h.cmds = cmds + 1
           /\ \A k, l \in DOMAIN h.out :
                 Num(h.out[k]) # 0 /\ Num(h.out[l]) # 0 => k = l
           /\ cmds \in Nat /\ h.cmds \in Nat /\ cmds <= h.cmds /\ h.cmds <= MaxCmds
<1>1. /\ toNode \in Seq(NodeFrames) /\ h.out \in Seq(NodeFrames)
      /\ cmds \in 0..MaxCmds /\ h.cmds \in 0..MaxCmds /\ MaxCmds \in Nat
  BY TypeParts, Zero DEF Typed, WireTyped, HostTyped, Handled, Fine, HandlerType
<1>2. /\ toNode' \in Seq(NodeFrames) /\ Len(toNode') = Len(toNode) + Len(h.out)
      /\ Len(toNode) \in Nat /\ Len(h.out) \in Nat
      /\ DOMAIN toNode = 1..Len(toNode) /\ DOMAIN h.out = 1..Len(h.out)
      /\ DOMAIN toNode' = 1..(Len(toNode) + Len(h.out))
      /\ \A i \in 1..(Len(toNode) + Len(h.out)) :
            toNode'[i] = IF i <= Len(toNode) THEN toNode[i] ELSE h.out[i - Len(toNode)]
  BY <1>1, ConcatProperties
<1>3. ASSUME NEW i \in DOMAIN toNode'
      PROVE  \/ i \in DOMAIN toNode /\ toNode'[i] = toNode[i]
             \/ \E k \in DOMAIN h.out :
                   /\ i = Len(toNode) + k /\ toNode'[i] = h.out[k]
                   /\ i \notin DOMAIN toNode
  <2>1. CASE i <= Len(toNode)
    BY <1>2, <2>1
  <2>2. CASE i > Len(toNode)
    <3>1. /\ i - Len(toNode) \in DOMAIN h.out /\ i = Len(toNode) + (i - Len(toNode))
          /\ i \notin DOMAIN toNode /\ ~(i <= Len(toNode))
      BY <1>2, <2>2
    <3> QED
      BY <1>2, <3>1
  <2> QED
    BY <1>2, <2>1, <2>2
<1>4. \A k \in DOMAIN h.out :
         /\ FrameFine(h.out[k]) /\ Num(h.out[k]) \in {0, cmds + 1}
         /\ Num(h.out[k]) # 0 => h.cmds = cmds + 1
  BY <1>1 DEF Handled, Fine, NoneSent, OneSent, Unnumbered, Num
<1>5. \A k, l \in DOMAIN h.out : Num(h.out[k]) # 0 /\ Num(h.out[l]) # 0 => k = l
  BY DEF Handled, NoneSent, OneSent, Unnumbered, Num
<1>6. cmds <= h.cmds
  BY <1>1 DEF Handled, NoneSent, OneSent
<1> QED
  BY <1>1, <1>2, <1>3, <1>4, <1>5, <1>6

LEMMA HostOnce ==
    ASSUME Inv, NEW h, Handled(h), toNode' = toNode \o h.out, cmds' = h.cmds,
           slot' = slot, inbox' = inbox
    PROVE  /\ CommandsFine' /\ Once'
           /\ \A t \in 1..cmds : Waits(t)' => Waits(t)
<1>0. Typed /\ CommandsFine /\ Once
  BY DEF Inv
<1>1. /\ toNode' \in Seq(NodeFrames) /\ h.out \in Seq(NodeFrames)
      /\ Len(toNode) \in Nat /\ DOMAIN toNode = 1..Len(toNode)
      /\ \A i \in DOMAIN toNode' :
            \/ i \in DOMAIN toNode /\ toNode'[i] = toNode[i]
            \/ \E k \in DOMAIN h.out :
                  /\ i = Len(toNode) + k /\ toNode'[i] = h.out[k]
                  /\ i \notin DOMAIN toNode
      /\ \A k \in DOMAIN h.out :
            /\ FrameFine(h.out[k]) /\ Num(h.out[k]) \in {0, cmds + 1}
            /\ Num(h.out[k]) # 0 => h.cmds = cmds + 1
      /\ \A k, l \in DOMAIN h.out :
            Num(h.out[k]) # 0 /\ Num(h.out[l]) # 0 => k = l
      /\ cmds \in Nat /\ h.cmds \in Nat /\ cmds <= h.cmds /\ h.cmds <= MaxCmds
  BY <1>0, OutSent
<1>2. /\ Current' = Current /\ (Initializing' <=> Initializing)
      /\ slot \in SlotType /\ inbox \in Seq(AcceptedType) /\ toNode \in Seq(NodeFrames)
      /\ MaxCmds \in Nat
  BY <1>0, TypeParts, Zero DEF Current, Initializing, Typed, SlotTyped, WireTyped
<1>3. CommandsFine'
  <2>1. \A i \in DOMAIN toNode' : FrameFine(toNode'[i])
    BY <1>0, <1>1 DEF CommandsFine
  <2>2. (\A i \in DOMAIN toNode : FrameFine(toNode[i]))' <=>
           \A i \in DOMAIN toNode' : FrameFine(toNode'[i])
    BY DEF FrameFine
  <2> QED
    BY <1>0, <1>2, <2>1, <2>2 DEF CommandsFine, FrameFine
\* The numbers there were are at most cmds.
<1>4. /\ \A i \in DOMAIN toNode : Num(toNode[i]) \in 0..cmds
      /\ \A i \in DOMAIN inbox : inbox[i].cmd.id \in 0..cmds
      /\ Current \in 0..cmds
  <2>1. \A t \in 1..MaxCmds : Waits(t) => t <= cmds
    BY <1>0 DEF Once
  <2>2. ASSUME NEW i \in DOMAIN toNode PROVE Num(toNode[i]) \in 0..cmds
    <3>1. Num(toNode[i]) \in 0..MaxCmds
      <4>1. toNode[i] \in NodeFrames
        BY <1>2
      <4> QED
        BY <1>2, <4>1 DEF Num, NodeFrames, CommandType
    <3>2. Num(toNode[i]) # 0 => Waits(Num(toNode[i]))
      BY DEF Waits
    <3> QED
      BY <1>1, <1>2, <2>1, <3>1, <3>2
  <2>3. ASSUME NEW i \in DOMAIN inbox PROVE inbox[i].cmd.id \in 0..cmds
    <3>1. inbox[i].cmd.id \in 0..MaxCmds
      <4>1. inbox[i] \in AcceptedType
        BY <1>2
      <4> QED
        BY <4>1 DEF AcceptedType, CommandType
    <3>2. inbox[i].cmd.id # 0 => Waits(inbox[i].cmd.id)
      BY DEF Waits
    <3> QED
      BY <1>1, <1>2, <2>1, <3>1, <3>2
  <2>4. Current \in 0..cmds
    <3>1. Current \in 0..MaxCmds
      BY <1>2 DEF Current, SlotType
    <3>2. Current # 0 => Waits(Current)
      BY DEF Waits
    <3> QED
      BY <1>1, <1>2, <2>1, <3>1, <3>2
  <2> QED
    BY <2>2, <2>3, <2>4
<1>5. \A t : Waits(t)' <=> /\ t # 0
                           /\ \/ \E i \in DOMAIN toNode' : Num(toNode'[i]) = t
                              \/ \E i \in DOMAIN inbox : inbox[i].cmd.id = t
                              \/ Current = t
  BY <1>2 DEF Waits, Num
<1>6. \A t \in 1..cmds : Waits(t)' => Waits(t)
  <2>1. ASSUME NEW t \in 1..cmds, NEW i \in DOMAIN toNode', Num(toNode'[i]) = t
        PROVE  Waits(t)
    <3>1. CASE i \in DOMAIN toNode /\ toNode'[i] = toNode[i]
      <4>1. t # 0 /\ Num(toNode[i]) = t
        BY <1>1, <2>1, <3>1
      <4> QED
        BY <3>1, <4>1 DEF Waits
    <3>2. CASE \E k \in DOMAIN h.out : toNode'[i] = h.out[k]
      <4>1. PICK k \in DOMAIN h.out : toNode'[i] = h.out[k]
        BY <3>2
      <4>2. t = Num(h.out[k])
        BY <2>1, <4>1
      <4>3. t \in {0, cmds + 1}
        BY <1>1, <4>2
      <4> QED
        BY <1>1, <4>3
    <3> QED
      BY <1>1, <3>1, <3>2
  <2> QED
    BY <1>1, <1>5, <2>1 DEF Waits
<1>7. \A k \in DOMAIN h.out :
         Num(h.out[k]) # 0 => Num(h.out[k]) = cmds + 1 /\ h.cmds = cmds + 1
  BY <1>1
<1>8. cmds' = h.cmds /\ cmds \in Nat /\ h.cmds \in Nat
  BY <1>1
<1>9. Once'
  <2>1. ASSUME NEW i \in DOMAIN toNode', NEW j \in DOMAIN toNode',
               Num(toNode'[i]) # 0, Num(toNode'[i]) = Num(toNode'[j])
        PROVE  i = j
    <3>1. CASE i \in DOMAIN toNode /\ j \in DOMAIN toNode
      BY <1>0, <1>1, <2>1, <3>1 DEF Once
    <3>2. CASE i \notin DOMAIN toNode /\ j \notin DOMAIN toNode
      BY <1>1, <2>1, <3>2
    <3>3. CASE i \in DOMAIN toNode /\ j \notin DOMAIN toNode
      BY <1>1, <1>4, <2>1, <3>3
    <3>4. CASE i \notin DOMAIN toNode /\ j \in DOMAIN toNode
      BY <1>1, <1>4, <2>1, <3>4
    <3> QED
      BY <3>1, <3>2, <3>3, <3>4
  <2>2. ASSUME NEW i \in DOMAIN toNode', NEW j \in DOMAIN inbox, Num(toNode'[i]) # 0
        PROVE  Num(toNode'[i]) # inbox[j].cmd.id
    <3>1. CASE i \in DOMAIN toNode
      BY <1>0, <1>1, <2>2, <3>1 DEF Once
    <3>2. CASE i \notin DOMAIN toNode
      BY <1>1, <1>4, <2>2, <3>2
    <3> QED
      BY <3>1, <3>2
  <2>3. ASSUME NEW i \in DOMAIN toNode', Current # 0
        PROVE  Num(toNode'[i]) # Current
    <3>1. CASE i \in DOMAIN toNode
      BY <1>0, <1>1, <2>3, <3>1 DEF Once
    <3>2. CASE i \notin DOMAIN toNode
      BY <1>1, <1>4, <2>3, <3>2
    <3> QED
      BY <3>1, <3>2
  <2>4. ASSUME NEW t \in 1..MaxCmds, Waits(t)' PROVE t <= cmds'
    <3>1. CASE \E i \in DOMAIN toNode' : Num(toNode'[i]) = t
      <4>1. PICK i \in DOMAIN toNode' : Num(toNode'[i]) = t
        BY <3>1
      <4>2. CASE i \in DOMAIN toNode /\ toNode'[i] = toNode[i]
        <5>1. t <= cmds
          BY <1>4, <4>1, <4>2
        <5> QED
          BY <1>1, <5>1
      <4>3. CASE \E k \in DOMAIN h.out : toNode'[i] = h.out[k]
        <5>1. PICK k \in DOMAIN h.out : toNode'[i] = h.out[k]
          BY <4>3
        <5>2. t = Num(h.out[k]) /\ t # 0
          BY <4>1, <5>1
        <5>3. t = cmds + 1 /\ h.cmds = cmds + 1
          BY <1>7, <5>2
        <5> QED
          BY <5>3, <1>8
      <4> QED
        BY <1>1, <4>2, <4>3
    <3>2. CASE \E i \in DOMAIN inbox : inbox[i].cmd.id = t
      BY <1>1, <1>4, <3>2
    <3>3. CASE Current = t
      BY <1>1, <1>4, <3>3
    <3> QED
      BY <1>5, <2>4, <3>1, <3>2, <3>3
  <2>5. \A i, j \in DOMAIN inbox :
           inbox[i].cmd.id # 0 /\ inbox[i].cmd.id = inbox[j].cmd.id => i = j
    BY <1>0 DEF Once
  <2>6. Current # 0 => \A i \in DOMAIN inbox : inbox[i].cmd.id # Current
    BY <1>0 DEF Once
  <2>7. \A f : Num(f)' = Num(f)
    BY DEF Num
  <2> HIDE DEF Num, Waits, Current
  <2> QED
    BY <1>2, <2>1, <2>2, <2>3, <2>4, <2>5, <2>6 DEF Once
<1> QED
  BY <1>3, <1>6, <1>9


-----------------------------------------------------------------------------
(* Where the numbers move on the Node                                      *)

WaitsIn(t, frames, accepted, current) ==
    /\ t # 0
    /\ \/ \E i \in DOMAIN frames : Num(frames[i]) = t
       \/ \E i \in DOMAIN accepted : accepted[i].cmd.id = t
       \/ current = t

OnceIn(frames, accepted, current) ==
    /\ \A i, j \in DOMAIN frames :
          Num(frames[i]) # 0 /\ Num(frames[i]) = Num(frames[j]) => i = j
    /\ \A i, j \in DOMAIN accepted :
          accepted[i].cmd.id # 0 /\ accepted[i].cmd.id = accepted[j].cmd.id => i = j
    /\ \A i \in DOMAIN frames, j \in DOMAIN accepted :
          Num(frames[i]) # 0 => Num(frames[i]) # accepted[j].cmd.id
    /\ current # 0 =>
          /\ \A i \in DOMAIN frames : Num(frames[i]) # current
          /\ \A i \in DOMAIN accepted : accepted[i].cmd.id # current

\* `now` has every number in one place again, and none that did not wait before.
Keeps(frames, accepted, current, frames2, accepted2, current2) ==
    /\ OnceIn(frames2, accepted2, current2)
    /\ \A t : WaitsIn(t, frames2, accepted2, current2)
                 => WaitsIn(t, frames, accepted, current)

LEMMA LosesOnce ==
    ASSUME NEW frames, NEW accepted, NEW current, OnceIn(frames, accepted, current),
           NEW frames2 \in {frames, <<>>}, NEW accepted2 \in {accepted, <<>>},
           NEW current2 \in {current, 0}
    PROVE  Keeps(frames, accepted, current, frames2, accepted2, current2)
<1>1. DOMAIN <<>> = {}
  OBVIOUS
<1> QED
  BY <1>1 DEF Keeps, OnceIn, WaitsIn

LEMMA TakesOnce ==
    ASSUME NEW frames \in Seq(NodeFrames), frames # <<>>, NEW accepted, NEW current,
           OnceIn(frames, accepted, current), 
           NEW current2 \in {current, 0, Num(Head(frames))}
    PROVE  Keeps(frames, accepted, current, Tail(frames), accepted, current2)
<1>1. /\ Len(frames) \in Nat /\ DOMAIN frames = 1..Len(frames) /\ Len(frames) # 0
      /\ DOMAIN Tail(frames) = 1..(Len(frames) - 1) /\ Head(frames) = frames[1]
      /\ \A i \in 1..(Len(frames) - 1) : Tail(frames)[i] = frames[i + 1]
  OBVIOUS
<1>2. \A i \in DOMAIN Tail(frames) :
         i \in Nat /\ i + 1 \in DOMAIN frames /\ i + 1 # 1 /\ Tail(frames)[i] = frames[i + 1]
  BY <1>1
<1>3. 1 \in DOMAIN frames /\ Head(frames) = frames[1]
  BY <1>1
<1>4. \A i, j \in DOMAIN Tail(frames) : i + 1 = j + 1 => i = j
  BY <1>1
<1>5. OnceIn(Tail(frames), accepted, current2)
  <2>1. CASE current2 = Num(frames[1])
    BY <1>2, <1>3, <1>4, <2>1 DEF OnceIn
  <2>2. CASE current2 = current
    BY <1>2, <1>4, <2>2 DEF OnceIn
  <2>3. CASE current2 = 0
    BY <1>2, <1>4, <2>3 DEF OnceIn
  <2> QED
    BY <1>3, <2>1, <2>2, <2>3
<1>6. ASSUME NEW t, WaitsIn(t, Tail(frames), accepted, current2)
      PROVE  WaitsIn(t, frames, accepted, current)
  BY <1>2, <1>3, <1>6 DEF WaitsIn
<1> QED
  BY <1>5, <1>6 DEF Keeps

LEMMA AcceptsOnce ==
    ASSUME NEW frames \in Seq(NodeFrames), frames # <<>>, Head(frames).kind = "command",
           NEW accepted \in Seq(AcceptedType), NEW current, NEW inc \in Nat,
           OnceIn(frames, accepted, current),
           NEW accepted2, accepted2 = Append(accepted, [cmd |-> Head(frames), inc |-> inc])
    PROVE  Keeps(frames, accepted, current, Tail(frames), accepted2, current)
<1>1. /\ Len(frames) \in Nat /\ DOMAIN frames = 1..Len(frames) /\ Len(frames) # 0
      /\ DOMAIN Tail(frames) = 1..(Len(frames) - 1) /\ Head(frames) = frames[1]
      /\ \A i \in 1..(Len(frames) - 1) : Tail(frames)[i] = frames[i + 1]
  OBVIOUS
<1>2. \A i \in DOMAIN Tail(frames) :
         i \in Nat /\ i + 1 \in DOMAIN frames /\ i + 1 # 1 /\ Tail(frames)[i] = frames[i + 1]
  BY <1>1
<1>3. 1 \in DOMAIN frames /\ Head(frames) = frames[1]
  BY <1>1
<1>4. \A i, j \in DOMAIN Tail(frames) : i + 1 = j + 1 => i = j
  BY <1>1
<1>5. /\ DOMAIN accepted2 = 1..(Len(accepted) + 1) /\ Len(accepted) \in Nat
      /\ DOMAIN accepted = 1..Len(accepted)
      /\ accepted2[Len(accepted) + 1].cmd = Head(frames)
      /\ \A i \in 1..Len(accepted) : accepted2[i] = accepted[i]
  OBVIOUS
<1>6. /\ \A i \in DOMAIN accepted2 :
            \/ i \in DOMAIN accepted /\ accepted2[i] = accepted[i]
            \/ i = Len(accepted) + 1 /\ accepted2[i].cmd.id = Num(frames[1])
      /\ Len(accepted) + 1 \notin DOMAIN accepted
  BY <1>3, <1>5 DEF Num
<1>7. OnceIn(Tail(frames), accepted2, current)
  <2>1. \A i, j \in DOMAIN Tail(frames) :
          Num(Tail(frames)[i]) # 0 /\ Num(Tail(frames)[i]) = Num(Tail(frames)[j]) => i = j
    BY <1>2, <1>4 DEF OnceIn
  <2>2. \A i, j \in DOMAIN accepted2 :
          accepted2[i].cmd.id # 0 /\ accepted2[i].cmd.id = accepted2[j].cmd.id => i = j
    BY <1>3, <1>6 DEF OnceIn
  <2>3. \A i \in DOMAIN Tail(frames), j \in DOMAIN accepted2 :
          Num(Tail(frames)[i]) # 0 => Num(Tail(frames)[i]) # accepted2[j].cmd.id
    BY <1>2, <1>3, <1>6 DEF OnceIn
  <2>4. current # 0 =>
          /\ \A i \in DOMAIN Tail(frames) : Num(Tail(frames)[i]) # current
          /\ \A i \in DOMAIN accepted2 : accepted2[i].cmd.id # current
    BY <1>2, <1>3, <1>6 DEF OnceIn
  <2> QED
    BY <2>1, <2>2, <2>3, <2>4 DEF OnceIn
<1>8. ASSUME NEW t, WaitsIn(t, Tail(frames), accepted2, current)
      PROVE  WaitsIn(t, frames, accepted, current)
  BY <1>2, <1>3, <1>6, <1>8 DEF WaitsIn
<1> QED
  BY <1>7, <1>8 DEF Keeps

LEMMA CarriesOnce ==
    ASSUME NEW frames, NEW accepted \in Seq(AcceptedType), NEW current,
           OnceIn(frames, accepted, current), NEW i \in DOMAIN accepted,
           NEW current2 \in {current, 0, accepted[i].cmd.id}
    PROVE  Keeps(frames, accepted, current, frames, RemoveAt(accepted, i), current2)
<1> DEFINE rest == RemoveAt(accepted, i)
           was(j) == IF j < i THEN j ELSE j + 1
<1>1. /\ rest \in Seq(AcceptedType) /\ Len(rest) = Len(accepted) - 1
      /\ \A j \in 1..(Len(accepted) - 1) : rest[j] = accepted[was(j)]
  BY Removed
<1>2. /\ DOMAIN rest = 1..(Len(accepted) - 1) /\ Len(accepted) \in Nat
      /\ DOMAIN accepted = 1..Len(accepted)
  BY <1>1
<1> HIDE DEF rest
<1>3. /\ \A j \in DOMAIN rest :
            was(j) \in DOMAIN accepted /\ was(j) # i /\ rest[j] = accepted[was(j)]
      /\ \A j, k \in DOMAIN rest : was(j) = was(k) => j = k
  BY <1>1, <1>2
<1> HIDE DEF was
<1>4. OnceIn(frames, rest, current2)
  <2>1. CASE current2 = current
    BY <1>3, <2>1 DEF OnceIn
  <2>2. CASE current2 = 0
    BY <1>3, <2>2 DEF OnceIn
  <2>3. CASE current2 = accepted[i].cmd.id
    BY <1>3, <2>3 DEF OnceIn
  <2> QED
    BY <2>1, <2>2, <2>3
<1>5. ASSUME NEW t, WaitsIn(t, frames, rest, current2)
      PROVE  WaitsIn(t, frames, accepted, current)
  BY <1>3, <1>5 DEF WaitsIn
<1> QED
  BY <1>4, <1>5 DEF Keeps, rest

\* What a step that keeps the numbers in their places leaves.
LEMMA OnceKept ==
    ASSUME Typed, Once, Keeps(toNode, inbox, Current, toNode', inbox', Current'),
           cmds' = cmds
    PROVE  Once' /\ \A t : Waits(t)' => Waits(t)
<1>1. Once <=> /\ OnceIn(toNode, inbox, Current)
               /\ \A t \in 1..MaxCmds : Waits(t) => t <= cmds
  BY DEF Once, OnceIn
<1>2. Once' <=> /\ OnceIn(toNode', inbox', Current')
                /\ \A t \in 1..MaxCmds : Waits(t)' => t <= cmds'
  BY DEF Once, OnceIn, Num
<1>3. \A t : Waits(t) <=> WaitsIn(t, toNode, inbox, Current)
  BY DEF Waits, WaitsIn
<1>4. \A t : Waits(t)' <=> WaitsIn(t, toNode', inbox', Current')
  BY DEF Waits, WaitsIn, Num
<1> QED
  BY <1>1, <1>2, <1>3, <1>4 DEF Keeps

LEMMA OnceSplit ==
    ASSUME Once PROVE OnceIn(toNode, inbox, Current)
BY DEF Once, OnceIn

\* A step that brings no end of a turn to the Host and lets no command wait again.
LEMMA NoticesKept ==
    ASSUME NoticeInv, row'.done = row.done, UNCHANGED <<cmds, notices, log>>,
           Turns' \subseteq Turns, \A t : Waits(t)' => Waits(t)
    PROVE  NoticeInv'
<1>1. Over'
  BY DEF NoticeInv, Over
<1>2. OneEnd' /\ Distinct'
  BY DEF NoticeInv, OneEnd, Distinct
<1>3. Heard'
  BY DEF NoticeInv, Heard, Known
<1> QED
  BY <1>1, <1>2, <1>3 DEF NoticeInv

-----------------------------------------------------------------------------
(* A step of the Host                                                      *)

\* What a step leaves of the Host besides its handler's part.
HostLeaves ==
    /\ hostLink' \in {"open", "closing", "down"} /\ awaiting' \in BOOLEAN
    /\ batchSeqs' \subseteq Nat \ {0}
    /\ toHost' \in Seq(HostFrames) /\ EventsOf(toHost') \subseteq EventsOf(toHost)
    /\ breaks' = breaks

Stored == log' = log \/ \E e \in EventType : log' = log \cup {<<e.seq, e.inc>>}

LEMMA HostKeeps ==
    ASSUME Inv, NEW h, Handled(h), Becomes(h), UNCHANGED nodeVars, HostLeaves, Stored
    PROVE  /\ Typed' /\ CommandsFine' /\ Once' /\ Turns' \subseteq Turns
           /\ cmds <= cmds' /\ \A t \in 1..cmds : Waits(t)' => Waits(t)
<1>0. /\ Typed /\ HostTyped /\ SlotTyped /\ BoxTyped /\ WireTyped
      /\ LifecycleAssumption /\ LogFinite
  BY TypeParts DEF Inv, Typed
<1>1. h \in HandlerType
  BY DEF Handled, Fine
<1>2. /\ row' = h.row /\ queue' = h.queue /\ cmds' = h.cmds
      /\ notices' = h.notices /\ fate' = h.fate /\ toNode' = toNode \o h.out
  BY DEF Becomes
<1>3. log' \subseteq (Nat \ {0}) \X Nat /\ LogFinite'
  <2>1. log \subseteq (Nat \ {0}) \X Nat /\ IsFiniteSet(log)
    BY <1>0 DEF HostTyped, LogFinite
  <2>2. CASE log' = log
    BY <2>1, <2>2 DEF LogFinite
  <2>3. CASE \E e \in EventType : log' = log \cup {<<e.seq, e.inc>>}
    <3>1. PICK e \in EventType : log' = log \cup {<<e.seq, e.inc>>}
      BY <2>3
    <3>2. <<e.seq, e.inc>> \in (Nat \ {0}) \X Nat
      BY DEF EventType
    <3>3. IsFiniteSet(log \cup {<<e.seq, e.inc>>})
      BY <2>1, FS_AddElement
    <3> QED
      BY <2>1, <3>1, <3>2, <3>3 DEF LogFinite
  <2> QED
    BY <2>2, <2>3 DEF Stored
<1>4. HostTyped'
  BY <1>1, <1>2, <1>3 DEF HostTyped, HandlerType, HostLeaves
<1>5. SlotTyped' /\ BoxTyped'
  BY <1>0 DEF SlotTyped, BoxTyped, nodeVars
<1>6. WireTyped'
  <2>1. toNode' \in Seq(NodeFrames)
    <3>1. toNode \in Seq(NodeFrames) /\ h.out \in Seq(NodeFrames)
      BY <1>0, <1>1 DEF WireTyped, HandlerType
    <3> QED
      BY <1>2, <3>1
  <2> QED
    BY <1>0, <2>1 DEF WireTyped, HostLeaves
<1>7. TypeOK' <=> HostTyped' /\ SlotTyped' /\ BoxTyped' /\ WireTyped'
  BY TypeParts, PTL
<1>8. Typed'
  BY <1>0, <1>3, <1>4, <1>5, <1>6, <1>7 DEF Typed, LifecycleAssumption
<1>9. CommandsFine' /\ Once' /\ \A t \in 1..cmds : Waits(t)' => Waits(t)
  <2>1. slot' = slot /\ inbox' = inbox
    BY DEF nodeVars
  <2> QED
    BY <1>2, <2>1, HostOnce
<1>10. Turns' \subseteq Turns
  BY DEF Turns, Copies, nodeVars, HostLeaves
<1>11. cmds <= cmds'
  <2>1. cmds \in Nat
    BY <1>0, Zero DEF HostTyped
  <2> QED
    BY <1>2, <2>1 DEF Handled, NoneSent, OneSent
<1> QED
  BY <1>8, <1>9, <1>10, <1>11

\* Nothing is told of a turn twice: the receipt goes with the notice.
LEMMA NoticesTold ==
    ASSUME Inv, NEW h, Tells(h), row' = h.row, notices' = h.notices, Typed',
           log \subseteq log', Turns' \subseteq Turns, cmds <= cmds',
           \A t \in 1..cmds : Waits(t)' => Waits(t)
    PROVE  NoticeInv'
<1>0. /\ Over /\ OneEnd /\ Heard /\ Distinct /\ Typed
      /\ cmds \in Nat /\ cmds' \in Nat /\ row.done \in Nat
      /\ notices \in Seq(1..MaxCmds) /\ MaxCmds \in Nat
  <2>1. HostTyped /\ HostTyped' /\ MaxCmds \in Nat
    <3>1. TypeOK' <=> HostTyped' /\ SlotTyped' /\ BoxTyped' /\ WireTyped'
      BY TypeParts, PTL
    <3> QED
      BY <3>1, TypeParts, Zero DEF Inv, Typed
  <2> QED
    BY <2>1 DEF Inv, NoticeInv, HostTyped, RowType
<1> DEFINE waits(t) == WaitsIn(t, toNode', inbox', Current')
<1>a. /\ \A t : Waits(t)' <=> waits(t)
      /\ \A t \in 1..cmds : waits(t) => Waits(t)
  <2>1. \A t : Waits(t)' <=> waits(t)
    BY DEF Waits, WaitsIn, Num
  <2> QED
    BY <2>1
<1> HIDE DEF waits
\* What is announced was held as a receipt.
<1>1. \/ /\ notices' = notices /\ row'.done \in {row.done, 0}
         /\ \A i \in DOMAIN notices' : i \in DOMAIN notices /\ notices'[i] = notices[i]
      \/ /\ row.done # 0 /\ row'.done = 0
         /\ \A i \in DOMAIN notices' :
               \/ i \in DOMAIN notices /\ notices'[i] = notices[i]
               \/ i = Len(notices) + 1 /\ i \notin DOMAIN notices
                  /\ notices'[i] = row.done
  <2>1. CASE Silent(h)
    BY <2>1 DEF Silent
  <2>2. CASE Announces(h)
    <3>1. notices' = Append(notices, row.done)
      BY <2>2 DEF Announces
    <3>2. /\ Len(notices) \in Nat /\ DOMAIN notices = 1..Len(notices)
          /\ DOMAIN notices' = 1..(Len(notices) + 1)
          /\ notices'[Len(notices) + 1] = row.done
          /\ \A i \in 1..Len(notices) : notices'[i] = notices[i]
      BY <1>0, <3>1
    <3>3. \A i \in 1..(Len(notices) + 1) :
             i \in 1..Len(notices) \/ (i = Len(notices) + 1 /\ i \notin 1..Len(notices))
      BY <3>2
    <3> QED
      BY <2>2, <3>2, <3>3 DEF Announces
  <2> QED
    BY <2>1, <2>2 DEF Tells
<1>2. Over'
  <2>1. ASSUME NEW t \in Nat, t # 0, t <= cmds, ~Waits(t) PROVE t <= cmds' /\ ~waits(t)
    BY <1>0, <1>a, <2>1
  <2>2. \A e \in Turns' : e.turn \in 1..cmds' /\ ~waits(e.turn)
    <3>1. \A e \in Turns : e.turn \in 1..cmds /\ ~Waits(e.turn)
      BY <1>0 DEF Over
    <3> QED
      BY <1>0, <1>a, <3>1
  <2>3. row'.done # 0 => row'.done <= cmds' /\ ~waits(row'.done)
    BY <1>0, <1>1, <2>1 DEF Over
  <2>4. ASSUME NEW i \in DOMAIN notices'
        PROVE  notices'[i] <= cmds' /\ ~waits(notices'[i])
    <3>1. CASE i \in DOMAIN notices /\ notices'[i] = notices[i]
      <4>1. notices[i] \in 1..MaxCmds /\ notices[i] \in Nat /\ notices[i] # 0
        BY <1>0, <3>1
      <4> QED
        BY <1>0, <2>1, <3>1, <4>1 DEF Over
    <3>2. CASE row.done # 0 /\ notices'[i] = row.done
      BY <1>0, <2>1, <3>2 DEF Over
    <3> QED
      BY <1>1, <3>1, <3>2
  <2> QED
    BY <2>2, <2>3, <2>4 DEF Over, Waits, WaitsIn, Num, waits
<1>3. OneEnd'
  BY <1>0 DEF OneEnd
<1>4. Heard'
  <2>1. ASSUME NEW e \in Turns',
               e.turn = row'.done \/ (\E i \in DOMAIN notices' : notices'[i] = e.turn)
        PROVE  Known(e)'
    <3>1. e \in Turns /\ e.turn # 0
      BY <1>0 DEF Over
    <3>2. e.turn = row.done \/ \E i \in DOMAIN notices : notices[i] = e.turn
      BY <1>1, <2>1, <3>1
    <3>3. Known(e)
      BY <1>0, <3>1, <3>2 DEF Heard
    <3> QED
      BY <3>3 DEF Known
  <2> QED
    BY <2>1 DEF Heard
<1>5. Distinct'
  <2>1. \A i, j \in DOMAIN notices' : notices'[i] = notices'[j] => i = j
    BY <1>0, <1>1 DEF Distinct
  <2>2. \A i \in DOMAIN notices' : notices'[i] # row'.done
    <3>1. \A i \in DOMAIN notices' : notices'[i] # 0
      BY <1>0, <1>1
    <3> QED
      BY <1>0, <1>1, <3>1 DEF Distinct
  <2> QED
    BY <2>1, <2>2 DEF Distinct
<1> QED
  BY <1>2, <1>3, <1>4, <1>5 DEF NoticeInv

\* A receipt is held of an end that was not known.
LEMMA NoticesHeld ==
    ASSUME Inv, NEW h, NEW e \in Turns, HoldsReceipt(h, e), row' = h.row,
           notices' = h.notices, Typed', ~Known(e), log' = log \cup {<<e.seq, e.inc>>},
           Turns' \subseteq Turns, cmds <= cmds',
           \A t \in 1..cmds : Waits(t)' => Waits(t)
    PROVE  NoticeInv'
<1>0. /\ Over /\ OneEnd /\ Heard /\ Distinct /\ Typed
      /\ cmds \in Nat /\ cmds' \in Nat /\ row.done \in Nat
      /\ notices \in Seq(1..MaxCmds) /\ MaxCmds \in Nat
  <2>1. HostTyped /\ HostTyped' /\ MaxCmds \in Nat
    <3>1. TypeOK' <=> HostTyped' /\ SlotTyped' /\ BoxTyped' /\ WireTyped'
      BY TypeParts, PTL
    <3> QED
      BY <3>1, TypeParts, Zero DEF Inv, Typed
  <2> QED
    BY <2>1 DEF Inv, NoticeInv, HostTyped, RowType
<1> DEFINE waits(t) == WaitsIn(t, toNode', inbox', Current')
<1>a. /\ \A t : Waits(t)' <=> waits(t)
      /\ \A t \in 1..cmds : waits(t) => Waits(t)
  <2>1. \A t : Waits(t)' <=> waits(t)
    BY DEF Waits, WaitsIn, Num
  <2> QED
    BY <2>1
<1> HIDE DEF waits
<1>1. /\ notices' = notices /\ (row'.done = row.done \/ row'.done = e.turn)
      /\ e.turn \in 1..cmds /\ ~Waits(e.turn)
  BY <1>0 DEF HoldsReceipt, Over
<1>2. \A i \in DOMAIN notices : notices[i] # e.turn
  BY <1>0 DEF Heard
<1>3. \A f \in Turns : Known(f) \/ f.turn = e.turn => Known(f)'
  <2>1. ASSUME NEW f \in Turns, f.turn = e.turn PROVE Known(f)'
    <3>1. f.seq = e.seq /\ <<e.seq, e.inc>> \in log' /\ <<e.seq, e.inc>>[1] = e.seq
      BY <1>0, <2>1 DEF OneEnd
    <3> QED
      BY <3>1 DEF Known
  <2>2. ASSUME NEW f \in Turns, Known(f) PROVE Known(f)'
    BY <2>2 DEF Known
  <2> QED
    BY <2>1, <2>2
<1>4. Over'
  <2>1. ASSUME NEW t \in Nat, t # 0, t <= cmds, ~Waits(t) PROVE t <= cmds' /\ ~waits(t)
    BY <1>0, <1>a, <2>1
  <2>2. \A f \in Turns' : f.turn \in 1..cmds' /\ ~waits(f.turn)
    <3>1. \A f \in Turns : f.turn \in 1..cmds /\ ~Waits(f.turn)
      BY <1>0 DEF Over
    <3> QED
      BY <1>0, <1>a, <3>1
  <2>3. row'.done # 0 => row'.done <= cmds' /\ ~waits(row'.done)
    <3>1. e.turn \in Nat /\ e.turn # 0 /\ e.turn <= cmds
      BY <1>0, <1>1
    <3>2. CASE row'.done = e.turn
      BY <1>1, <2>1, <3>1, <3>2
    <3>3. CASE row'.done = row.done
      BY <1>0, <2>1, <3>3 DEF Over
    <3> QED
      BY <1>1, <3>2, <3>3
  <2>4. ASSUME NEW i \in DOMAIN notices
        PROVE  notices[i] <= cmds' /\ ~waits(notices[i])
    <3>1. notices[i] \in 1..MaxCmds /\ notices[i] \in Nat /\ notices[i] # 0
      BY <1>0
    <3> QED
      BY <1>0, <2>1, <3>1 DEF Over
  <2> QED
    BY <1>1, <2>2, <2>3, <2>4 DEF Over, Waits, WaitsIn, Num, waits
<1>5. OneEnd'
  BY <1>0 DEF OneEnd
<1>6. Heard'
  <2>1. ASSUME NEW f \in Turns',
               f.turn = row'.done \/ (\E i \in DOMAIN notices : notices[i] = f.turn)
        PROVE  Known(f)'
    BY <1>0, <1>1, <1>3, <2>1 DEF Heard
  <2> QED
    BY <1>1, <2>1 DEF Heard
<1>7. Distinct'
  BY <1>0, <1>1, <1>2 DEF Distinct
<1> QED
  BY <1>4, <1>5, <1>6, <1>7 DEF NoticeInv

LEMMA HostStep ==
    ASSUME Inv, NEW h, Handled(h), Tells(h), Becomes(h), UNCHANGED nodeVars,
           HostLeaves, Stored
    PROVE  Inv'
<1>1. /\ Typed' /\ CommandsFine' /\ Once' /\ Turns' \subseteq Turns
      /\ cmds <= cmds' /\ \A t \in 1..cmds : Waits(t)' => Waits(t)
  BY HostKeeps
<1>2. row' = h.row /\ notices' = h.notices /\ log \subseteq log'
  BY DEF Becomes, Stored
<1>3. NoticeInv'
  BY <1>1, <1>2, NoticesTold
<1> QED
  BY <1>1, <1>3 DEF Inv

-----------------------------------------------------------------------------
(* The steps of the Host, one by one                                       *)

LEMMA MoveBefore ==
    ASSUME Typed, NEW h, Before(h), Tells(h), NEW to \in States
    PROVE  /\ Before(Move(h, to, FALSE)) /\ Tells(Move(h, to, FALSE))
           /\ Move(h, to, FALSE).link = h.link
<1> DEFINE m == Move(h, to, FALSE)
<1>1. /\ m \in HandlerType /\ m.row = [h.row EXCEPT !.st = to] /\ m.link = h.link
      /\ m.cmds = h.cmds /\ m.out = h.out /\ m.notices = h.notices
      /\ h.row \in RowType
  <2>1. h \in HandlerType
    BY DEF Before, Fine
  <2> QED
    BY <2>1, MoveTyped DEF HandlerType
<1>2. m.row.done = h.row.done
  BY <1>1 DEF RowType
<1> HIDE DEF m
<1> QED
  BY <1>1, <1>2 DEF m, Before, Fine, NoneSent, Tells, Silent, Announces

\* A handler may leave queue and fate as it likes.
LEMMA QueueFateBefore ==
    ASSUME Typed, NEW q \in Seq(QueuedType), NEW f \in [Messages -> Fates]
    PROVE  /\ Before([Host EXCEPT !.queue = q, !.fate = f])
           /\ Tells([Host EXCEPT !.queue = q, !.fate = f])
           /\ [Host EXCEPT !.queue = q, !.fate = f].row = row
           /\ [Host EXCEPT !.queue = q, !.fate = f].link = hostLink
<1>1. Before(Host) /\ Host.row = row /\ Host.notices = notices /\ Host \in HandlerType
  BY HostBefore DEF Before, Fine
<1>2. Host.link = hostLink
  BY DEF Host
<1> DEFINE k == [Host EXCEPT !.queue = q, !.fate = f]
<1>3. /\ k \in HandlerType /\ k.row = row /\ k.notices = notices /\ k.cmds = Host.cmds
      /\ k.out = Host.out /\ k.link = hostLink
  BY <1>1, <1>2 DEF HandlerType
<1> HIDE DEF k
<1> QED
  BY <1>1, <1>3 DEF k, Before, Fine, NoneSent, Tells, Silent

LEMMA HostIsSilent ==
    ASSUME Typed PROVE Before(Host) /\ Handled(Host) /\ Tells(Host)
BY HostBefore DEF Tells, Silent, Before, Handled

LEMMA ParkedRest ==
    ASSUME Inv, UNCHANGED <<log, hostLink, awaiting, batchSeqs, toHost, breaks>>
    PROVE  HostLeaves /\ Stored
<1>1. HostTyped /\ WireTyped
  BY TypeParts DEF Inv, Typed
<1> QED
  BY <1>1 DEF HostLeaves, Stored, HostTyped, WireTyped, EventsOf

LEMMA LaunchStep == ASSUME Inv, Launch PROVE Inv'
<1> DEFINE c == Move(Host, "queued", FALSE)
           h == IF hostLink = "open" THEN Begin(c, "start", 0, 0) ELSE Fallback(c, FALSE)
<1>1. Typed /\ "queued" \in States /\ cmds < MaxCmds
  BY DEF Inv, States, Launch, Room
<1>2. Before(c) /\ Tells(c)
  BY <1>1, HostIsSilent, MoveBefore
<1>3. Becomes(h) /\ UNCHANGED nodeVars /\ HostLeaves /\ Stored
  BY ParkedRest DEF Launch
<1> HIDE DEF c
<1>4. Handled(h) /\ Tells(h)
  <2>1. CASE hostLink = "open"
    BY <1>1, <1>2, <2>1, BeginHandled, Zero
  <2>2. CASE hostLink # "open"
    BY <1>1, <1>2, <2>2, FallbackBefore DEF Handled, Before
  <2> QED
    BY <2>1, <2>2
<1> HIDE DEF h
<1> QED
  BY <1>3, <1>4, HostStep

LEMMA ResumeStep == ASSUME Inv, Resume PROVE Inv'
<1> DEFINE c == Move(Host, "starting", FALSE)
           h == IF hostLink = "open" THEN Begin(c, "resume", LastSeq, 0)
                ELSE Fallback(c, FALSE)
<1>1. Typed /\ "starting" \in States /\ cmds < MaxCmds
  BY DEF Inv, States, Resume, Room
<1>2. Before(c) /\ Tells(c)
  BY <1>1, HostIsSilent, MoveBefore
<1>3. Becomes(h) /\ UNCHANGED nodeVars /\ HostLeaves /\ Stored
  BY ParkedRest DEF Resume
<1> HIDE DEF c
<1>4. Handled(h) /\ Tells(h)
  <2>1. CASE hostLink = "open"
    BY <1>1, <1>2, <2>1, BeginHandled, Zero, LastSeqTyped
  <2>2. CASE hostLink # "open"
    BY <1>1, <1>2, <2>2, FallbackBefore DEF Handled, Before
  <2> QED
    BY <2>1, <2>2
<1> HIDE DEF h
<1> QED
  BY <1>3, <1>4, HostStep

LEMMA SubmitStep == ASSUME Inv, NEW m \in Messages, Submit(m) PROVE Inv'
<1> DEFINE r == [id |-> m, state |-> "pending", after |-> 0]
           q == Append(queue, r)
           f == [fate EXCEPT ![m] = "queued"]
           h == [Host EXCEPT !.queue = q, !.fate = f]
<1>1. Typed /\ cmds < MaxCmds
  BY DEF Inv, Submit, Room
<1>2. q \in Seq(QueuedType) /\ f \in [Messages -> Fates]
  <2>1. queue \in Seq(QueuedType) /\ fate \in [Messages -> Fates]
    BY <1>1, TypeParts DEF Typed, HostTyped
  <2>2. r \in QueuedType
    BY DEF QueuedType
  <2> HIDE DEF r
  <2> QED
    BY <2>1, <2>2 DEF Fates
<1>3. h = [Host EXCEPT !.queue = Append(@, r), !.fate[m] = "queued"]
  BY DEF Host
<1>4. Becomes(Pump(h)) /\ UNCHANGED nodeVars /\ HostLeaves /\ Stored
  BY <1>3, ParkedRest DEF Submit
<1> HIDE DEF q, f
<1>5. Before(h) /\ Tells(h)
  BY <1>1, <1>2, QueueFateBefore
<1> HIDE DEF h
<1>6. Handled(Pump(h)) /\ Tells(Pump(h))
  BY <1>1, <1>5, PumpHandled
<1> QED
  BY <1>4, <1>6, HostStep

LEMMA TickStep == ASSUME Inv, Tick PROVE Inv'
<1>1. Typed /\ Before(Host) /\ Tells(Host) /\ Host.row = row
  BY HostIsSilent, HostBefore DEF Inv
<1>2. row.st = "idle" => cmds < MaxCmds
  BY DEF Tick, Room
<1>3. Becomes(Pump(Host)) /\ UNCHANGED nodeVars /\ HostLeaves /\ Stored
  BY ParkedRest DEF Tick
<1>4. Handled(Pump(Host)) /\ Tells(Pump(Host))
  BY <1>1, <1>2, PumpHandled
<1> QED
  BY <1>3, <1>4, HostStep

LEMMA CancelStep == ASSUME Inv, Cancel PROVE Inv'
<1> DEFINE c == Move(Host, "cancelling", FALSE)
           h == IF hostLink = "open" THEN Order(c, "cancel") ELSE Fallback(c, TRUE)
<1>1. Typed /\ "cancelling" \in States
  BY DEF Inv, States
<1>2. Before(c) /\ Tells(c)
  BY <1>1, HostIsSilent, MoveBefore
<1>3. Becomes(h) /\ UNCHANGED nodeVars /\ HostLeaves /\ Stored
  BY ParkedRest DEF Cancel
<1> HIDE DEF c
<1>4. Handled(h) /\ Tells(h)
  <2>1. CASE hostLink = "open"
    BY <1>1, <1>2, <2>1, OrderBefore DEF Handled, Before, Controls
  <2>2. CASE hostLink # "open"
    BY <1>1, <1>2, <2>2, FallbackBefore DEF Handled, Before
  <2> QED
    BY <2>1, <2>2
<1> HIDE DEF h
<1> QED
  BY <1>3, <1>4, HostStep

LEMMA CancelMessageStep == ASSUME Inv, NEW m \in Messages, CancelMessage(m) PROVE Inv'
<1> DEFINE h == Retire(Host, m, "cancelled")
<1>1. Typed /\ Before(Host) /\ Host.row = row /\ Host.notices = notices
  BY HostBefore DEF Inv
<1>2. Becomes(h) /\ UNCHANGED nodeVars /\ HostLeaves /\ Stored
  BY ParkedRest DEF CancelMessage
<1>3. /\ Fine(h) /\ h.row = row /\ h.out = Host.out /\ h.cmds = Host.cmds
      /\ h.notices = notices
  BY <1>1, RetireKeeps DEF Before, Fates
<1> HIDE DEF h
<1>4. Handled(h) /\ Tells(h)
  BY <1>1, <1>3 DEF Handled, Before, NoneSent, Tells, Silent
<1> QED
  BY <1>2, <1>4, HostStep

LEMMA SendNowStep == ASSUME Inv, NEW m \in Messages, SendNow(m) PROVE Inv'
<1> DEFINE r == [id |-> m, state |-> "pending", after |-> 0]
           q == <<r>> \o Without(queue, m)
           first == [Host EXCEPT !.queue = q]
           c == Move(first, "cancelling", FALSE)
           h == IF row.st = "running" THEN Order(c, "cancel") ELSE Pump(first)
<1>1. Typed /\ cmds < MaxCmds /\ "cancelling" \in States
  BY DEF Inv, SendNow, Room, States
<1>2. q \in Seq(QueuedType) /\ fate \in [Messages -> Fates]
  <2>1. queue \in Seq(QueuedType) /\ fate \in [Messages -> Fates]
    BY <1>1, TypeParts DEF Typed, HostTyped
  <2>2. <<r>> \in Seq(QueuedType)
    BY DEF QueuedType
  <2>3. Without(queue, m) \in Seq(QueuedType)
    BY <2>1, WithoutTyped
  <2> HIDE DEF r
  <2> QED
    BY <2>1, <2>2, <2>3
<1>3. first = [Host EXCEPT !.queue = <<r>> \o Without(@, m)]
  BY DEF Host
<1>4. Becomes(h) /\ UNCHANGED nodeVars /\ HostLeaves /\ Stored
  BY <1>3, ParkedRest DEF SendNow
<1> HIDE DEF q
<1>5. Before(first) /\ Tells(first)
  <2>1. Before(Host) /\ Host.row = row /\ Host.notices = notices
    BY <1>1, HostBefore
  <2> QED
    BY <1>2, <2>1, QueueSet DEF Before, NoneSent, Tells, Silent
<1> HIDE DEF first
<1>6. Handled(h) /\ Tells(h)
  <2>1. CASE row.st = "running"
    <3>1. Before(c) /\ Tells(c)
      BY <1>1, <1>5, MoveBefore
    <3> HIDE DEF c
    <3> QED
      BY <1>1, <2>1, <3>1, OrderBefore DEF Handled, Before, Controls
  <2>2. CASE row.st # "running"
    BY <1>1, <1>5, <2>2, PumpHandled
  <2> QED
    BY <2>1, <2>2
<1> HIDE DEF h
<1> QED
  BY <1>4, <1>6, HostStep

LEMMA StopStep == ASSUME Inv, Stop PROVE Inv'
<1> DEFINE r == [row EXCEPT !.stop = TRUE]
           k == [Host EXCEPT !.row = r]
<1>1. /\ Typed /\ Before(Host) /\ Host.row = row /\ Host.notices = notices
      /\ Host \in HandlerType /\ row \in RowType
  BY HostBefore DEF Inv, Before, Fine, HandlerType
<1>2. k = [Host EXCEPT !.row.stop = TRUE]
  BY DEF Host
<1>3. Becomes(Order(k, "stop")) /\ UNCHANGED nodeVars /\ HostLeaves /\ Stored
  BY <1>2, ParkedRest DEF Stop
<1>4. r \in RowType /\ r.done = row.done
  BY <1>1 DEF RowType
<1> HIDE DEF r
<1>5. /\ k \in HandlerType /\ k.row = r /\ k.notices = notices /\ k.cmds = Host.cmds
      /\ k.out = Host.out
  BY <1>1, <1>4 DEF HandlerType
<1> HIDE DEF k
<1>6. Before(k) /\ Tells(k)
  BY <1>1, <1>4, <1>5 DEF Before, Fine, NoneSent, Tells, Silent
<1>7. Handled(Order(k, "stop")) /\ Tells(Order(k, "stop"))
  BY <1>1, <1>6, OrderBefore DEF Handled, Before, Controls
<1> QED
  BY <1>3, <1>7, HostStep

LEMMA PartsTyped ==
    ASSUME Typed, HostTyped', SlotTyped', BoxTyped', WireTyped', LogFinite'
    PROVE  Typed'
<1>1. TypeOK' <=> HostTyped' /\ SlotTyped' /\ BoxTyped' /\ WireTyped'
  BY TypeParts, PTL
<1> QED
  BY <1>1 DEF Typed, LifecycleAssumption

LEMMA TypedIsParts ==
    ASSUME Typed PROVE HostTyped /\ SlotTyped /\ BoxTyped /\ WireTyped /\ LogFinite
BY TypeParts DEF Typed

\* A step that touches neither the session nor its commands.
LEMMA LinkStep ==
    ASSUME Inv, UNCHANGED <<row, log, queue, cmds, notices, fate, toNode>>,
           UNCHANGED nodeVars,
           hostLink' \in {"open", "closing", "down"}, awaiting' \in BOOLEAN,
           batchSeqs' \subseteq Nat \ {0}, breaks' \in 0..MaxBreaks,
           toHost' \in Seq(HostFrames), EventsOf(toHost') \subseteq EventsOf(toHost)
    PROVE  Inv'
<1>0. /\ Typed /\ HostTyped /\ SlotTyped /\ BoxTyped /\ WireTyped /\ LogFinite
      /\ CommandsFine /\ Once /\ NoticeInv
  BY TypedIsParts DEF Inv
<1>1. Typed'
  <2>1. HostTyped' /\ LogFinite'
    BY <1>0 DEF HostTyped, LogFinite
  <2>2. SlotTyped' /\ BoxTyped' /\ WireTyped'
    BY <1>0 DEF SlotTyped, BoxTyped, WireTyped, nodeVars
  <2> QED
    BY <1>0, <2>1, <2>2, PartsTyped
<1>2. CommandsFine'
  BY <1>0 DEF CommandsFine, FrameFine, nodeVars, Initializing
<1>3. Once' /\ \A t : Waits(t)' => Waits(t)
  BY <1>0 DEF Once, Waits, Num, Current, Initializing, nodeVars
<1>4. Turns' \subseteq Turns
  BY DEF Turns, Copies, nodeVars
<1>5. NoticeInv'
  BY <1>0, <1>3, <1>4, NoticesKept
<1> QED
  BY <1>1, <1>2, <1>3, <1>5 DEF Inv

\* The frame at the front of what is on its way.
LEMMA HeadRead ==
    ASSUME Typed, toHost # <<>>, toHost' = Tail(toHost)
    PROVE  /\ Head(toHost) \in HostFrames /\ Head(toHost) \in ToSet(toHost)
           /\ toHost' \in Seq(HostFrames) /\ EventsOf(toHost') \subseteq EventsOf(toHost)
           /\ IsEvent(Head(toHost)) => /\ Head(toHost).ev \in EventsOf(toHost)
                                       /\ Head(toHost).ev \in EventType
                                       /\ Head(toHost).tagged \in BOOLEAN
           /\ Head(toHost).kind \in {"ready", "flushed", "beat"}
                 => Head(toHost).up \in BOOLEAN /\ Head(toHost).busy \in BOOLEAN
           /\ Head(toHost).kind = "ready" => Head(toHost).batch \in BOOLEAN
<1>1. toHost \in Seq(HostFrames)
  BY TypedIsParts DEF WireTyped
<1>2. Head(toHost) \in HostFrames /\ Head(toHost) \in ToSet(toHost)
      /\ toHost' \in Seq(HostFrames)
  BY <1>1, ToSetHead
<1>3. EventsOf(toHost') \subseteq EventsOf(toHost)
  BY EventsHead
<1>4. IsEvent(Head(toHost)) => Head(toHost).ev \in EventsOf(toHost)
  BY <1>2 DEF EventsOf
<1>5. /\ IsEvent(Head(toHost)) => /\ Head(toHost).ev \in EventType
                                  /\ Head(toHost).tagged \in BOOLEAN
      /\ Head(toHost).kind \in {"ready", "flushed", "beat"}
            => Head(toHost).up \in BOOLEAN /\ Head(toHost).busy \in BOOLEAN
      /\ Head(toHost).kind = "ready" => Head(toHost).batch \in BOOLEAN
  BY <1>2 DEF HostFrames, InventoryType, IsEvent
<1> QED
  BY <1>2, <1>3, <1>4, <1>5

LEMMA HostReadyStep == ASSUME Inv, HostReady PROVE Inv'
<1> DEFINE frame == Head(toHost)
           w == [kind |-> "welcome"]
           o == <<w>>
           a == [Host EXCEPT !.link = "open", !.out = o]
           h == IF frame.batch THEN a ELSE Reconciled(a, frame.up, frame.busy)
<1>1. /\ Typed /\ toHost # <<>> /\ toHost' = Tail(toHost) /\ frame.kind = "ready"
      /\ hostLink' = "open" /\ batchSeqs' = {} /\ awaiting' = frame.batch
      /\ UNCHANGED <<log, breaks>> /\ UNCHANGED nodeVars /\ Becomes(h)
  BY DEF Inv, HostReady, Receives
<1>2. /\ frame.up \in BOOLEAN /\ frame.busy \in BOOLEAN /\ frame.batch \in BOOLEAN
      /\ toHost' \in Seq(HostFrames) /\ EventsOf(toHost') \subseteq EventsOf(toHost)
  BY <1>1, HeadRead
<1>3. HostLeaves /\ Stored
  BY <1>1, <1>2 DEF HostLeaves, Stored
<1>4. /\ Before(Host) /\ Host.row = row /\ Host.notices = notices /\ Host \in HandlerType
  BY <1>1, HostBefore DEF Before, Fine
<1>5. o \in Seq(NodeFrames) /\ \A i \in DOMAIN o : FrameFine(o[i]) /\ Unnumbered(o[i])
  <2>1. w \in NodeFrames /\ w.kind = "welcome"
    BY DEF NodeFrames
  <2> HIDE DEF w
  <2>2. DOMAIN o = {1} /\ o[1] = w
    OBVIOUS
  <2> QED
    BY <2>1, <2>2 DEF FrameFine, Unnumbered
<1> HIDE DEF o
<1>6. /\ a \in HandlerType /\ a.row = row /\ a.notices = notices
      /\ a.cmds = Host.cmds /\ a.out = o
  BY <1>4, <1>5 DEF HandlerType
<1> HIDE DEF a, frame
<1>7. Before(a) /\ Tells(a)
  BY <1>4, <1>5, <1>6 DEF Before, Fine, NoneSent, Tells, Silent
<1>8. Handled(h) /\ Tells(h)
  <2>1. CASE frame.batch
    BY <1>7, <2>1 DEF Handled, Before
  <2>2. CASE ~frame.batch
    BY <1>1, <1>2, <1>6, <1>7, <2>2, ReconciledHandled
  <2> QED
    BY <2>1, <2>2
<1> HIDE DEF h
<1> QED
  BY <1>1, <1>3, <1>8, HostStep

\* What becomes of an event read from the wire.
LEMMA StoresStep ==
    ASSUME Inv, toHost # <<>>, Head(toHost).kind = "event", toHost' = Tail(toHost),
           awaiting' \in BOOLEAN, batchSeqs' \subseteq batchSeqs \cup {Head(toHost).ev.seq},
           Stores(Head(toHost).ev), UNCHANGED <<hostLink, breaks>>, UNCHANGED nodeVars
    PROVE  Inv'
<1> DEFINE e == Head(toHost).ev
<1>1. Typed /\ HostTyped /\ WireTyped
  BY TypedIsParts DEF Inv
<1>2. /\ e \in EventsOf(toHost) /\ e \in EventType
      /\ toHost' \in Seq(HostFrames) /\ EventsOf(toHost') \subseteq EventsOf(toHost)
  BY <1>1, HeadRead DEF IsEvent
<1> HIDE DEF e
<1>3. HostLeaves
  <2>1. e.seq \in Nat \ {0} /\ batchSeqs \subseteq Nat \ {0}
    BY <1>1, <1>2 DEF EventType, HostTyped
  <2>2. batchSeqs' \subseteq Nat \ {0}
    BY <2>1 DEF e
  <2> QED
    BY <1>1, <1>2, <2>2 DEF HostLeaves, HostTyped
<1>4. CASE Known(e)
  <2>1. UNCHANGED <<row, log, queue, cmds, notices, fate, toNode>>
    BY <1>4 DEF Stores, e
  <2> QED
    BY <1>1, <1>3, <2>1, LinkStep DEF HostLeaves, WireTyped
<1>5. CASE ~Known(e)
  <2> DEFINE h == Applied(Host, e)
  <2>1. log' = log \cup {<<e.seq, e.inc>>} /\ Becomes(h)
    BY <1>5 DEF Stores, e
  <2>2. Stored
    BY <1>2, <2>1 DEF Stored
  <2>3. Before(h)
    BY <1>1, <1>2, AppliedHandled
  <2>4. e.kind # "turn" => Tells(h)
    BY <1>1, <1>2, AppliedHandled
  <2> HIDE DEF h
  <2>5. Handled(h)
    BY <2>3 DEF Handled, Before
  <2>6. CASE e.kind # "turn"
    BY <1>3, <2>1, <2>2, <2>4, <2>5, <2>6, HostStep
  <2>7. CASE e.kind = "turn"
    <3>1. /\ Typed' /\ CommandsFine' /\ Once' /\ Turns' \subseteq Turns
          /\ cmds <= cmds' /\ \A t \in 1..cmds : Waits(t)' => Waits(t)
      BY <1>3, <2>1, <2>2, <2>5, HostKeeps
    <3>2. e \in Turns
      BY <1>2, <2>7 DEF Turns, Copies
    <3>3. HoldsReceipt(h, e)
      BY <1>1, <1>2, <2>7, AppliedHandled DEF h
    <3>4. row' = h.row /\ notices' = h.notices
      BY <2>1 DEF Becomes
    <3>5. NoticeInv'
      BY <1>5, <2>1, <3>1, <3>2, <3>3, <3>4, NoticesHeld
    <3> QED
      BY <3>1, <3>5 DEF Inv
  <2> QED
    BY <2>6, <2>7
<1> QED
  BY <1>4, <1>5

LEMMA HostEventStep == ASSUME Inv, HostEvent PROVE Inv'
<1>1. /\ toHost # <<>> /\ Head(toHost).kind = "event" /\ toHost' = Tail(toHost)
      /\ awaiting' = awaiting
      /\ batchSeqs' = (IF awaiting THEN batchSeqs \cup {Head(toHost).ev.seq}
                       ELSE batchSeqs)
      /\ Stores(Head(toHost).ev) /\ UNCHANGED <<hostLink, breaks>>
      /\ UNCHANGED nodeVars
  BY DEF HostEvent, Receives
<1>2. awaiting \in BOOLEAN
  BY TypedIsParts DEF Inv, HostTyped
<1> QED
  BY <1>1, <1>2, StoresStep

LEMMA HostNextBatchStep == ASSUME Inv, HostNextBatch PROVE Inv'
<1>1. /\ toHost # <<>> /\ Head(toHost).kind = "event" /\ toHost' = Tail(toHost)
      /\ awaiting' = TRUE /\ batchSeqs' = {Head(toHost).ev.seq}
      /\ Stores(Head(toHost).ev) /\ UNCHANGED <<hostLink, breaks>>
      /\ UNCHANGED nodeVars
  BY DEF HostNextBatch, Receives
<1> QED
  BY <1>1, StoresStep

LEMMA HostRejectsStep == ASSUME Inv, HostRejects PROVE Inv'
<1>1. Typed /\ HostTyped /\ WireTyped
  BY TypedIsParts DEF Inv
<1>2. /\ toHost # <<>> /\ toHost' = Tail(toHost) /\ hostLink' = "closing"
      /\ UNCHANGED <<row, log, queue, cmds, awaiting, batchSeqs, toNode, breaks,
                     notices, fate>>
      /\ UNCHANGED nodeVars
  BY DEF HostRejects, Receives
<1>3. toHost' \in Seq(HostFrames) /\ EventsOf(toHost') \subseteq EventsOf(toHost)
  BY <1>1, <1>2, HeadRead
<1> QED
  BY <1>1, <1>2, <1>3, LinkStep DEF HostTyped, WireTyped

LEMMA HostHangsUpStep == ASSUME Inv, HostHangsUp PROVE Inv'
<1>1. Typed /\ HostTyped /\ WireTyped /\ MaxBreaks \in Nat
  BY TypedIsParts DEF Inv, Typed, LifecycleAssumption
<1>2. breaks' \in 0..MaxBreaks
  BY <1>1 DEF HostHangsUp, WireTyped
<1>3. /\ hostLink' = "closing" /\ UNCHANGED nodeVars
      /\ UNCHANGED <<row, log, queue, cmds, awaiting, batchSeqs, toHost, toNode,
                     notices, fate>>
  BY DEF HostHangsUp
<1>4. EventsOf(toHost') = EventsOf(toHost)
  BY <1>3 DEF EventsOf
<1> QED
  BY <1>1, <1>2, <1>3, <1>4, LinkStep DEF HostTyped, WireTyped

\* The acknowledgement is no command.
LEMMA AckHandled ==
    ASSUME Typed, NEW h, Handled(h), Tells(h), NEW f, f = [kind |-> "ack"]
    PROVE  /\ Handled([h EXCEPT !.out = Append(h.out, f)])
           /\ Tells([h EXCEPT !.out = Append(h.out, f)])
<1> DEFINE o == Append(h.out, f)
           k == [h EXCEPT !.out = o]
<1>1. f \in NodeFrames /\ FrameFine(f) /\ Unnumbered(f)
  BY DEF NodeFrames, FrameFine, Unnumbered
<1>2. /\ k \in HandlerType /\ Fine(k) /\ DOMAIN o = 1..(Len(h.out) + 1)
      /\ DOMAIN h.out = 1..Len(h.out) /\ Len(h.out) \in Nat
      /\ o[Len(h.out) + 1] = f /\ \A i \in DOMAIN h.out : o[i] = h.out[i]
  BY <1>1, Sent DEF Handled
<1>3. k.row = h.row /\ k.cmds = h.cmds /\ k.notices = h.notices /\ k.out = o
  BY DEF Handled, Fine, HandlerType
<1> HIDE DEF o, k
<1>4. \A i \in DOMAIN o : i \in DOMAIN h.out \/ i = Len(h.out) + 1
  BY <1>2
<1>5. CASE NoneSent(h)
  <2>1. NoneSent(k)
    BY <1>1, <1>2, <1>3, <1>4, <1>5 DEF NoneSent
  <2> QED
    BY <1>2, <1>3, <2>1 DEF Handled, Tells, Silent, Announces, o, k
<1>6. CASE OneSent(h)
  <2>1. PICK j \in DOMAIN h.out :
           /\ h.out[j].kind = "command" /\ h.out[j].id = cmds + 1
           /\ \A i \in DOMAIN h.out : i # j => Unnumbered(h.out[i])
    BY <1>6 DEF OneSent
  <2>2. /\ j \in DOMAIN o /\ o[j] = h.out[j]
        /\ \A i \in DOMAIN o : i # j => Unnumbered(o[i])
    BY <1>1, <1>2, <1>4, <2>1
  <2>3. OneSent(k)
    BY <1>3, <1>6, <2>1, <2>2 DEF OneSent
  <2> QED
    BY <1>2, <1>3, <2>3 DEF Handled, Tells, Silent, Announces, o, k
<1> QED
  BY <1>5, <1>6 DEF Handled

LEMMA HostFlushedStep == ASSUME Inv, HostFlushed PROVE Inv'
<1> DEFINE frame == Head(toHost)
           f == [kind |-> "ack"]
           r == Reconciled(Host, frame.up, frame.busy)
           h == [r EXCEPT !.out = IF hostLink = "open" THEN Append(@, f) ELSE @]
<1>1. /\ Typed /\ toHost # <<>> /\ toHost' = Tail(toHost) /\ frame.kind = "flushed"
      /\ batchSeqs' = {} /\ awaiting' = FALSE
      /\ UNCHANGED <<log, hostLink, breaks>> /\ UNCHANGED nodeVars /\ Becomes(h)
  BY DEF Inv, HostFlushed, Receives
<1>2. /\ frame.up \in BOOLEAN /\ frame.busy \in BOOLEAN
      /\ toHost' \in Seq(HostFrames) /\ EventsOf(toHost') \subseteq EventsOf(toHost)
  BY <1>1, HeadRead
<1>3. HostLeaves /\ Stored
  BY <1>1, <1>2, TypedIsParts DEF HostLeaves, Stored, HostTyped
<1>4. Before(Host) /\ Host.row = row /\ Host.notices = notices
  BY <1>1, HostBefore
<1>5. Handled(r) /\ Tells(r)
  <2> HIDE DEF frame
  <2> QED
    BY <1>1, <1>2, <1>4, ReconciledHandled
<1> HIDE DEF r
<1>6. Handled(h) /\ Tells(h)
  <2>1. CASE hostLink = "open"
    <3>1. h = [r EXCEPT !.out = Append(r.out, f)]
      BY <2>1
    <3> HIDE DEF h
    <3> QED
      BY <1>1, <1>5, <3>1, AckHandled
  <2>2. CASE hostLink # "open"
    <3>1. r \in HandlerType
      BY <1>5 DEF Handled, Fine
    <3>2. h = [r EXCEPT !.out = r.out]
      BY <2>2
    <3>3. h = r
      BY <3>1, <3>2 DEF HandlerType
    <3> QED
      BY <1>5, <3>3
  <2> QED
    BY <2>1, <2>2
<1> HIDE DEF h
<1> QED
  BY <1>1, <1>3, <1>6, HostStep

LEMMA HostBeatStep == ASSUME Inv, HostBeat PROVE Inv'
<1> DEFINE frame == Head(toHost)
           h == IF awaiting THEN Host ELSE Reconciled(Host, frame.up, frame.busy)
<1>1. /\ Typed /\ toHost # <<>> /\ toHost' = Tail(toHost) /\ frame.kind = "beat"
      /\ UNCHANGED <<log, hostLink, awaiting, batchSeqs, breaks>>
      /\ UNCHANGED nodeVars /\ Becomes(h)
  BY DEF Inv, HostBeat, Receives
<1>2. /\ frame.up \in BOOLEAN /\ frame.busy \in BOOLEAN
      /\ toHost' \in Seq(HostFrames) /\ EventsOf(toHost') \subseteq EventsOf(toHost)
  BY <1>1, HeadRead
<1>3. HostLeaves /\ Stored
  BY <1>1, <1>2, TypedIsParts DEF HostLeaves, Stored, HostTyped
<1>4. Before(Host) /\ Host.row = row /\ Host.notices = notices /\ Handled(Host) /\ Tells(Host)
  BY <1>1, HostBefore, HostIsSilent
<1> HIDE DEF frame
<1>5. Handled(h) /\ Tells(h)
  <2>1. CASE awaiting
    BY <1>4, <2>1
  <2>2. CASE ~awaiting
    BY <1>1, <1>2, <1>4, <2>2, ReconciledHandled
  <2> QED
    BY <2>1, <2>2
<1> HIDE DEF h
<1> QED
  BY <1>1, <1>3, <1>5, HostStep

LEMMA HostResultStep == ASSUME Inv, HostResult PROVE Inv'
<1> DEFINE h == ResultOf(Head(toHost))
<1>1. /\ Typed /\ toHost # <<>> /\ toHost' = Tail(toHost)
      /\ UNCHANGED <<log, hostLink, awaiting, batchSeqs, breaks>>
      /\ UNCHANGED nodeVars /\ Becomes(h)
  BY DEF Inv, HostResult, Receives
<1>2. toHost' \in Seq(HostFrames) /\ EventsOf(toHost') \subseteq EventsOf(toHost)
  BY <1>1, HeadRead
<1>3. HostLeaves /\ Stored
  BY <1>1, <1>2, TypedIsParts DEF HostLeaves, Stored, HostTyped
<1>4. Handled(h) /\ Tells(h)
  BY <1>1, HostIsSilent, FailedByResultBefore DEF ResultOf, Handled, Before
<1> HIDE DEF h
<1> QED
  BY <1>1, <1>3, <1>4, HostStep

-----------------------------------------------------------------------------
(* A step of the Node                                                      *)

CurrentOf(s) ==
    IF s.phase \in {"new", "booting"} THEN s.cmd
    ELSE IF s.phase = "busy" THEN s.turn ELSE 0
SlotFine(s) ==
    /\ s \in SlotType
    /\ s.phase \in {"new", "booting"} => s.cmd # 0
    /\ s.phase = "busy" => s.turn # 0
BoxFine(q) == q \in Seq(AcceptedType) /\ \A i \in DOMAIN q : FrameFine(q[i].cmd)

LEMMA NowCurrent == Current = CurrentOf(slot) /\ Current' = CurrentOf(slot')
BY DEF Current, CurrentOf, Initializing

LEMMA SlotNow ==
    ASSUME Inv
    PROVE  /\ SlotFine(slot) /\ BoxFine(inbox) /\ Typed /\ Once /\ NoticeInv
           /\ toNode \in Seq(NodeFrames) /\ \A i \in DOMAIN toNode : FrameFine(toNode[i])
           /\ OnceIn(toNode, inbox, CurrentOf(slot))
<1>1. SlotTyped /\ WireTyped
  BY TypedIsParts DEF Inv
<1> QED
  BY <1>1, NowCurrent, OnceSplit
     DEF Inv, SlotTyped, WireTyped, CommandsFine, SlotFine, BoxFine, Initializing

QuietEvents(events) ==
    events \in Seq(EventType) /\ \A e \in ToSet(events) : e.kind # "turn"
Answers(results) ==
    results \in Seq(HostFrames) /\ \A i \in DOMAIN results : ~IsEvent(results[i])

\* What changes on the Node when commands move and events are raised.
NodeLeaves ==
    /\ SlotFine(slot') /\ BoxFine(inbox')
    /\ own' \in 0..MaxOwn /\ silenced' \subseteq 0..MaxCmds /\ taken' \in Seq(Messages)
    /\ toNode' \in Seq(NodeFrames) /\ ToSet(toNode') \subseteq ToSet(toNode)
    /\ Keeps(toNode, inbox, CurrentOf(slot), toNode', inbox', CurrentOf(slot'))

LEMMA NodeKeeps ==
    ASSUME Inv, NodeLeaves, cmds' = cmds
    PROVE  /\ SlotTyped' /\ CommandsFine' /\ Once' /\ \A t : Waits(t)' => Waits(t)
<1>1. Typed /\ Once /\ CommandsFine
  BY DEF Inv
<1>2. SlotTyped'
  BY DEF NodeLeaves, SlotTyped, SlotFine, BoxFine
<1>3. Once' /\ \A t : Waits(t)' => Waits(t)
  BY <1>1, NowCurrent, OnceKept DEF NodeLeaves
<1>4. ASSUME NEW i \in DOMAIN toNode' PROVE FrameFine(toNode'[i])
  <2>1. toNode'[i] \in ToSet(toNode)
    BY DEF NodeLeaves, ToSet
  <2> QED
    BY <1>1, <2>1 DEF CommandsFine, ToSet
<1>5. CommandsFine' <=>
         /\ \A i \in DOMAIN toNode' : FrameFine(toNode'[i])
         /\ \A i \in DOMAIN inbox' : FrameFine(inbox'[i].cmd)
         /\ slot'.phase \in {"new", "booting"} => slot'.cmd # 0
         /\ slot'.phase = "busy" => slot'.turn # 0
  BY DEF CommandsFine, FrameFine, Initializing
<1>6. CommandsFine'
  BY <1>4, <1>5 DEF NodeLeaves, SlotFine, BoxFine
<1> QED
  BY <1>2, <1>3, <1>6

LEMMA NodeReports ==
    ASSUME Inv, NEW events \in Seq(EventType), NEW results, Answers(results),
           Report(events, results), NodeLeaves
    PROVE  /\ Typed' /\ CommandsFine' /\ Once' /\ \A t : Waits(t)' => Waits(t)
           /\ Copies' \subseteq Copies \cup ToSet(events)
           /\ UNCHANGED <<row, cmds, notices, log>>
<1>1. Typed
  BY DEF Inv
<1>2. /\ BoxTyped' /\ toHost' \in Seq(HostFrames) /\ breaks' \in 0..MaxBreaks
      /\ Copies' \subseteq Copies \cup ToSet(events)
      /\ HostTyped' /\ LogFinite' /\ UNCHANGED hostVars
  BY <1>1, Reported DEF Answers
<1>3. UNCHANGED <<row, cmds, notices, log>>
  BY <1>2 DEF hostVars
<1>4. SlotTyped' /\ CommandsFine' /\ Once' /\ \A t : Waits(t)' => Waits(t)
  BY <1>3, NodeKeeps
<1>5. WireTyped'
  BY <1>2 DEF WireTyped, NodeLeaves
<1>6. Typed'
  BY <1>1, <1>2, <1>4, <1>5, PartsTyped
<1> QED
  BY <1>2, <1>3, <1>4, <1>6

LEMMA NodeStep ==
    ASSUME Inv, NEW events, QuietEvents(events), NEW results, Answers(results),
           Report(events, results), NodeLeaves
    PROVE  Inv'
<1>1. /\ Typed' /\ CommandsFine' /\ Once' /\ \A t : Waits(t)' => Waits(t)
      /\ Copies' \subseteq Copies \cup ToSet(events)
      /\ UNCHANGED <<row, cmds, notices, log>>
  BY NodeReports DEF QuietEvents
<1>2. Turns' \subseteq Turns
  BY <1>1 DEF Turns, QuietEvents
<1>3. NoticeInv'
  BY <1>1, <1>2, NoticesKept DEF Inv
<1> QED
  BY <1>1, <1>3 DEF Inv

\* A step of the outbox and the wire.
LEMMA BoxStep ==
    ASSUME Inv, UNCHANGED <<slot, inbox, own, taken, silenced, breaks>>,
           UNCHANGED hostVars, BoxTyped', toHost' \in Seq(HostFrames), Copies' \subseteq Copies,
           toNode' = toNode \/ (toNode # <<>> /\ toNode' = Tail(toNode))
    PROVE  Inv'
<1>1. /\ SlotFine(slot) /\ BoxFine(inbox) /\ Typed /\ Once /\ NoticeInv
      /\ toNode \in Seq(NodeFrames) /\ OnceIn(toNode, inbox, CurrentOf(slot))
  BY SlotNow
<1>2. HostTyped /\ SlotTyped /\ LogFinite /\ WireTyped
  BY <1>1, TypedIsParts
<1>3. /\ toNode' \in Seq(NodeFrames) /\ ToSet(toNode') \subseteq ToSet(toNode)
      /\ Keeps(toNode, inbox, CurrentOf(slot), toNode', inbox, CurrentOf(slot))
  <2>1. CASE toNode' = toNode
    BY <1>1, <2>1, LosesOnce
  <2>2. CASE toNode # <<>> /\ toNode' = Tail(toNode)
    BY <1>1, <2>2, TakesOnce, ToSetHead
  <2> QED
    BY <2>1, <2>2
<1>4. NodeLeaves
  BY <1>1, <1>2, <1>3 DEF NodeLeaves, SlotTyped
<1>5. SlotTyped' /\ CommandsFine' /\ Once' /\ \A t : Waits(t)' => Waits(t)
  BY <1>4, NodeKeeps DEF hostVars
<1>6. HostTyped' /\ LogFinite' /\ WireTyped'
  BY <1>2, <1>3 DEF HostTyped, LogFinite, WireTyped, hostVars
<1>7. Typed'
  BY <1>1, <1>5, <1>6, PartsTyped
<1>8. Turns' \subseteq Turns
  BY DEF Turns
<1>9. NoticeInv'
  BY <1>1, <1>5, <1>8, NoticesKept DEF hostVars
<1> QED
  BY <1>5, <1>7, <1>9 DEF Inv

\* What is on its way is lost, and may be more.
LEMMA LostStep ==
    ASSUME Inv, GoesOffline, LinkGone, fate' = fate, queue' \in Seq(QueuedType),
           slot' = slot \/ slot' = [NoSlot EXCEPT !.inc = slot.inc],
           inbox' = inbox \/ inbox' = <<>>, hold' \in BOOLEAN, inFlight' \in BOOLEAN,
           reconcile' \in BOOLEAN, pending' = pending \/ pending' = <<>>,
           batch' = batch \/ batch' = <<>>, breaks' \in 0..MaxBreaks
    PROVE  Inv'
<1>1. /\ SlotFine(slot) /\ BoxFine(inbox) /\ Typed /\ Once /\ NoticeInv
      /\ toNode \in Seq(NodeFrames) /\ OnceIn(toNode, inbox, CurrentOf(slot))
  BY SlotNow
<1>2. HostTyped /\ SlotTyped /\ LogFinite /\ WireTyped /\ BoxTyped
  BY <1>1, TypedIsParts
<1>3. /\ hostLink' = "down" /\ awaiting' = FALSE /\ batchSeqs' = {} /\ nodeLink' = "down"
      /\ toHost' = <<>> /\ toNode' = <<>>
      /\ UNCHANGED <<log, cmds, notices, own, taken, silenced>>
  BY DEF LinkGone
<1>4. row' \in RowType /\ row'.done = row.done
  <2>1. row \in RowType /\ "offline" \in States
    BY <1>2 DEF HostTyped, States
  <2> QED
    BY <2>1 DEF GoesOffline, RowType
<1>5. SlotFine(slot') /\ CurrentOf(slot') \in {CurrentOf(slot), 0}
  <2>1. CASE slot' = slot
    BY <1>1, <2>1
  <2>2. CASE slot' = [NoSlot EXCEPT !.inc = slot.inc]
    <3>1. slot'.phase = "none" /\ slot' \in SlotType
      BY <1>1, <2>2, Zero DEF NoSlot, SlotFine, SlotType
    <3> QED
      BY <3>1 DEF SlotFine, CurrentOf
  <2> QED
    BY <2>1, <2>2
<1>6. BoxFine(inbox')
  <2>1. <<>> \in Seq(AcceptedType) /\ DOMAIN <<>> = {}
    OBVIOUS
  <2> QED
    BY <1>1, <2>1 DEF BoxFine
<1>7. Keeps(toNode, inbox, CurrentOf(slot), toNode', inbox', CurrentOf(slot'))
  BY <1>1, <1>3, <1>5, LosesOnce
<1>8. NodeLeaves
  BY <1>2, <1>3, <1>5, <1>6, <1>7, ToSetEmpty DEF NodeLeaves, SlotTyped
<1>9. SlotTyped' /\ CommandsFine' /\ Once' /\ \A t : Waits(t)' => Waits(t)
  BY <1>3, <1>8, NodeKeeps
<1>10. HostTyped' /\ LogFinite' /\ WireTyped' /\ BoxTyped'
  <2>1. HostTyped' /\ LogFinite'
    BY <1>2, <1>3, <1>4 DEF HostTyped, LogFinite
  <2>2. WireTyped'
    BY <1>3 DEF WireTyped
  <2>3. BoxTyped'
    <3>1. pending' \in Seq(EventType) /\ batch' \in Seq(EventType)
      <4>1. <<>> \in Seq(EventType)
        OBVIOUS
      <4> QED
        BY <1>2, <4>1 DEF BoxTyped
    <3> QED
      BY <1>3, <3>1 DEF BoxTyped
  <2> QED
    BY <2>1, <2>2, <2>3
<1>11. Typed'
  BY <1>1, <1>9, <1>10, PartsTyped
<1>12. Copies' \subseteq Copies
  <2>1. EventsOf(<<>>) = {}
    BY ToSetEmpty DEF EventsOf
  <2>2. Copies' = ToSet(pending') \cup ToSet(batch') \cup EventsOf(toHost')
    BY DEF Copies, EventsOf, IsEvent
  <2> QED
    BY <1>3, <2>1, <2>2, ToSetEmpty DEF Copies
<1>13. NoticeInv'
  <2>1. Turns' \subseteq Turns
    BY <1>12 DEF Turns
  <2> QED
    BY <1>1, <1>3, <1>4, <1>9, <2>1, NoticesKept
<1> QED
  BY <1>9, <1>11, <1>13 DEF Inv

LEMMA BreakStep == ASSUME Inv, Break PROVE Inv'
<1>1. HostTyped /\ WireTyped /\ BoxTyped /\ MaxBreaks \in Nat
  BY TypedIsParts DEF Inv, Typed, LifecycleAssumption
<1>2. breaks' \in 0..MaxBreaks
  BY <1>1 DEF Break, WireTyped
<1> QED
  BY <1>1, <1>2, LostStep DEF Break, outboxVars, HostTyped, BoxTyped

LEMMA HostRestartStep == ASSUME Inv, HostRestart PROVE Inv'
<1>1. HostTyped /\ WireTyped /\ BoxTyped /\ MaxBreaks \in Nat
  BY TypedIsParts DEF Inv, Typed, LifecycleAssumption
<1>2. breaks' \in 0..MaxBreaks
  BY <1>1 DEF HostRestart, WireTyped
<1>3. queue' \in Seq(QueuedType)
  BY <1>1, UndeliveredTyped DEF HostRestart, HostTyped
<1> QED
  BY <1>1, <1>2, <1>3, LostStep DEF HostRestart, outboxVars, BoxTyped

LEMMA NodeRestartStep == ASSUME Inv, NodeRestart PROVE Inv'
<1>1. HostTyped /\ WireTyped /\ MaxBreaks \in Nat
  BY TypedIsParts DEF Inv, Typed, LifecycleAssumption
<1>2. breaks' \in 0..MaxBreaks
  BY <1>1 DEF NodeRestart, WireTyped
<1> QED
  BY <1>1, <1>2, LostStep DEF NodeRestart, HostTyped

-----------------------------------------------------------------------------
(* The steps of the Node, one by one                                       *)

LEMMA ConnectStep == ASSUME Inv, Connect PROVE Inv'
<1>1. Typed /\ BoxTyped /\ WireTyped
  BY TypedIsParts DEF Inv
<1> DEFINE owed == reconcile \/ inFlight \/ pending # <<>>
           frozen == owed /\ ~inFlight /\ (pending # <<>> \/ reconcile)
           f == [kind |-> "ready", up |-> Up, busy |-> Busy, batch |-> owed]
<1>2. /\ hold' = owed /\ batch' = (IF frozen THEN pending ELSE batch)
      /\ pending' = (IF frozen THEN <<>> ELSE pending)
      /\ inFlight' = (inFlight \/ frozen) /\ toHost' = <<f>> /\ nodeLink' = "ready"
      /\ UNCHANGED <<slot, inbox, own, taken, silenced, reconcile, toNode, breaks>>
      /\ UNCHANGED hostVars
  BY Zenon DEF Connect
<1>3. owed \in BOOLEAN /\ (inFlight \/ frozen) \in BOOLEAN /\ f \in HostFrames
  BY DEF HostFrames, Up, Busy
<1>4. toHost' \in Seq(HostFrames) /\ EventsOf(toHost') = {}
  <2>1. ~IsEvent(f)
    BY DEF IsEvent
  <2> HIDE DEF f
  <2>2. <<f>> \in Seq(HostFrames) /\ DOMAIN <<f>> = {1} /\ <<f>>[1] = f
    BY <1>3
  <2>3. EventsOf(<<f>>) = {}
    BY <2>1, <2>2, NoEvents
  <2> QED
    BY <1>2, <2>2, <2>3
<1> HIDE DEF owed, frozen, f
<1>5. <<>> \in Seq(EventType) /\ ToSet(<<>>) = {}
  BY ToSetEmpty
<1>6. BoxTyped'
  <2>1. pending' \in Seq(EventType) /\ batch' \in Seq(EventType)
    BY <1>1, <1>2, <1>5 DEF BoxTyped
  <2>2. hold' \in BOOLEAN /\ inFlight' \in BOOLEAN /\ reconcile' \in BOOLEAN
    BY <1>1, <1>2, <1>3 DEF BoxTyped
  <2> QED
    BY <1>2, <2>1, <2>2 DEF BoxTyped
<1>7. Copies' \subseteq Copies
  <2>1. ToSet(pending') \cup ToSet(batch') \subseteq ToSet(pending) \cup ToSet(batch)
    <3>1. CASE frozen
      BY <1>2, <1>5, <3>1
    <3>2. CASE ~frozen
      BY <1>2, <3>2
    <3> QED
      BY <3>1, <3>2
  <2>2. Copies' = ToSet(pending') \cup ToSet(batch') \cup EventsOf(toHost')
    BY DEF Copies, EventsOf, IsEvent
  <2> QED
    BY <1>4, <2>1, <2>2 DEF Copies
<1> QED
  BY <1>2, <1>4, <1>6, <1>7, BoxStep

LEMMA HandleWelcomeStep == ASSUME Inv, HandleWelcome PROVE Inv'
<1>1. Typed /\ BoxTyped /\ WireTyped
  BY TypedIsParts DEF Inv
<1>2. /\ toNode # <<>> /\ toNode' = Tail(toNode) /\ nodeLink' = "up"
      /\ toHost' = (IF hold THEN toHost \o FlushFrames(batch) ELSE toHost)
      /\ UNCHANGED <<slot, inbox, own, taken, silenced, breaks>>
      /\ UNCHANGED <<hold, pending, batch, inFlight, reconcile>>
      /\ UNCHANGED hostVars
  BY DEF HandleWelcome, outboxVars
<1>3. /\ FlushFrames(batch) \in Seq(HostFrames)
      /\ EventsOf(FlushFrames(batch)) = ToSet(batch)
      /\ toHost \in Seq(HostFrames)
  BY <1>1, FlushFramesTyped DEF BoxTyped, WireTyped
<1>4. /\ toHost' \in Seq(HostFrames)
      /\ EventsOf(toHost') \subseteq EventsOf(toHost) \cup ToSet(batch)
  <2>1. CASE hold
    <3>1. toHost' = toHost \o FlushFrames(batch)
      BY <1>2, <2>1
    <3>2. toHost \o FlushFrames(batch) \in Seq(HostFrames)
      BY <1>3
    <3> QED
      BY <1>3, <3>1, <3>2, EventsConcat
  <2>2. CASE ~hold
    BY <1>2, <1>3, <2>2
  <2> QED
    BY <2>1, <2>2
<1>5. BoxTyped'
  BY <1>1, <1>2 DEF BoxTyped
<1>6. Copies' \subseteq Copies
  <2>1. Copies' = ToSet(pending') \cup ToSet(batch') \cup EventsOf(toHost')
    BY DEF Copies, EventsOf, IsEvent
  <2> QED
    BY <1>2, <1>4, <2>1 DEF Copies
<1> QED
  BY <1>2, <1>4, <1>5, <1>6, BoxStep

LEMMA HandleAckStep == ASSUME Inv, HandleAck PROVE Inv'
<1>1. Typed /\ BoxTyped /\ WireTyped
  BY TypedIsParts DEF Inv
<1>2. /\ toNode # <<>> /\ toNode' = Tail(toNode)
      /\ UNCHANGED <<slot, inbox, own, taken, silenced, nodeLink, breaks>>
      /\ UNCHANGED hostVars
  BY DEF HandleAck
<1>3. /\ pending \in Seq(EventType) /\ <<>> \in Seq(EventType)
      /\ FlushFrames(pending) \in Seq(HostFrames)
      /\ EventsOf(FlushFrames(pending)) = ToSet(pending)
      /\ toHost \in Seq(HostFrames)
  BY <1>1, FlushFramesTyped DEF BoxTyped, WireTyped
<1>4. /\ BoxTyped' /\ toHost' \in Seq(HostFrames)
      /\ EventsOf(toHost') \subseteq EventsOf(toHost) \cup ToSet(pending)
      /\ ToSet(pending') \cup ToSet(batch') \subseteq ToSet(pending)
  <2>1. CASE pending # <<>>
    <3>1. /\ batch' = pending /\ pending' = <<>>
          /\ toHost' = toHost \o FlushFrames(pending)
          /\ UNCHANGED <<hold, inFlight, reconcile>>
      BY <2>1 DEF HandleAck
    <3>2. toHost \o FlushFrames(pending) \in Seq(HostFrames)
      BY <1>3
    <3>3. BoxTyped'
      BY <1>1, <1>2, <1>3, <3>1 DEF BoxTyped
    <3> QED
      BY <1>3, <3>1, <3>2, <3>3, EventsConcat, ToSetEmpty
  <2>2. CASE pending = <<>>
    <3>1. /\ batch' = <<>> /\ inFlight' = FALSE /\ hold' = FALSE /\ reconcile' = FALSE
          /\ UNCHANGED <<pending, toHost>>
      BY <2>2 DEF HandleAck
    <3>2. BoxTyped'
      BY <1>1, <1>2, <1>3, <3>1 DEF BoxTyped
    <3> QED
      BY <1>3, <3>1, <3>2, ToSetEmpty
  <2> QED
    BY <2>1, <2>2
<1>5. Copies' \subseteq Copies
  <2>1. Copies' = ToSet(pending') \cup ToSet(batch') \cup EventsOf(toHost')
    BY DEF Copies, EventsOf, IsEvent
  <2> QED
    BY <1>4, <2>1 DEF Copies
<1> QED
  BY <1>2, <1>4, <1>5, BoxStep

LEMMA HeartbeatStep == ASSUME Inv, Heartbeat PROVE Inv'
<1>1. Typed /\ BoxTyped /\ WireTyped
  BY TypedIsParts DEF Inv
<1> DEFINE f == Inventory("beat")
<1>2. /\ toHost' = Append(toHost, f) /\ UNCHANGED <<toNode, breaks>>
      /\ UNCHANGED nodeVars /\ UNCHANGED hostVars
  BY DEF Heartbeat
<1>3. f \in HostFrames /\ ~IsEvent(f)
  BY DEF Inventory, HostFrames, InventoryType, IsEvent, Up, Busy
<1> HIDE DEF f
<1>4. toHost' \in Seq(HostFrames) /\ EventsOf(toHost') = EventsOf(toHost)
  <2>1. toHost \in Seq(HostFrames)
    BY <1>1 DEF WireTyped
  <2>2. ToSet(Append(toHost, f)) = ToSet(toHost) \cup {f}
    BY <1>3, <2>1, ToSetAppend
  <2>3. EventsOf(Append(toHost, f)) = EventsOf(toHost)
    BY <1>3, <2>2 DEF EventsOf
  <2> QED
    BY <1>2, <1>3, <2>1, <2>3
<1>5. BoxTyped' /\ Copies' \subseteq Copies
  <2>1. Copies' = ToSet(pending') \cup ToSet(batch') \cup EventsOf(toHost')
    BY DEF Copies, EventsOf, IsEvent
  <2> QED
    BY <1>1, <1>2, <1>4, <2>1 DEF BoxTyped, Copies, nodeVars
<1> QED
  BY <1>2, <1>4, <1>5, BoxStep DEF nodeVars

-----------------------------------------------------------------------------
(* What the Node raises and answers                                        *)

LEMMA NoNews == QuietEvents(<<>>) /\ Answers(<<>>)
<1>1. /\ <<>> \in Seq(EventType) /\ <<>> \in Seq(HostFrames) /\ DOMAIN <<>> = {}
      /\ ToSet(<<>>) = {}
  BY ToSetEmpty
<1> QED
  BY <1>1 DEF QuietEvents, Answers

LEMMA OneNews ==
    ASSUME Typed, NEW kind \in Kinds, kind # "turn", NEW turn \in 0..MaxCmds
    PROVE  QuietEvents(Numbered(<<kind>>, turn))
<1> DEFINE ks == <<kind>>
           n == Numbered(ks, turn)
<1>1. ks \in Seq(Kinds) /\ DOMAIN ks = {1} /\ ks[1] = kind
  OBVIOUS
<1> HIDE DEF ks
<1>2. DOMAIN n = {1}
  BY <1>1 DEF Numbered
<1>3. /\ n \in Seq(EventType)
      /\ n[1] = [seq |-> slot.seq + 1, inc |-> slot.inc, kind |-> kind, turn |-> turn]
  BY <1>1, NumberedTyped
<1> HIDE DEF n
<1> QED
  BY <1>2, <1>3 DEF QuietEvents, ToSet, n, ks

LEMMA TwoNews ==
    ASSUME Typed, NEW k1 \in Kinds, NEW k2 \in Kinds, NEW turn \in 0..MaxCmds
    PROVE  /\ Numbered(<<k1, k2>>, turn) \in Seq(EventType)
           /\ ToSet(Numbered(<<k1, k2>>, turn)) =
                 {[seq |-> slot.seq + 1, inc |-> slot.inc, kind |-> k1, turn |-> turn],
                  [seq |-> slot.seq + 2, inc |-> slot.inc, kind |-> k2, turn |-> turn]}
<1> DEFINE ks == <<k1, k2>>
           n == Numbered(ks, turn)
<1>1. /\ ks \in Seq(Kinds) /\ DOMAIN ks = {1, 2} /\ ks[1] = k1 /\ ks[2] = k2
  OBVIOUS
<1> HIDE DEF ks
<1>2. DOMAIN n = {1, 2}
  BY <1>1 DEF Numbered
<1>3. /\ n \in Seq(EventType)
      /\ n[1] = [seq |-> slot.seq + 1, inc |-> slot.inc, kind |-> k1, turn |-> turn]
      /\ n[2] = [seq |-> slot.seq + 2, inc |-> slot.inc, kind |-> k2, turn |-> turn]
  BY <1>1, NumberedTyped
<1> HIDE DEF n
<1>4. ToSet(n) = {n[1], n[2]}
  BY <1>2 DEF ToSet
<1> QED
  BY <1>3, <1>4 DEF n, ks

LEMMA OneAnswer ==
    ASSUME NEW c, c.id \in 0..MaxCmds, NEW fatal \in BOOLEAN
    PROVE  Answers(<<Result(c, fatal)>>)
<1> DEFINE f == Result(c, fatal)
<1>1. f \in HostFrames /\ ~IsEvent(f)
  BY DEF Result, HostFrames, IsEvent
<1> HIDE DEF f
<1>2. <<f>> \in Seq(HostFrames) /\ DOMAIN <<f>> = {1} /\ <<f>>[1] = f
  BY <1>1
<1> QED
  BY <1>1, <1>2 DEF Answers, f

LEMMA AllAnswers ==
    ASSUME NEW q \in Seq(AcceptedType), NEW id \in 0..MaxCmds, NEW fatal \in BOOLEAN,
           NEW first, first = [kind |-> "result", id |-> id, fatal |-> fatal]
    PROVE  Answers(<<first>> \o [i \in DOMAIN q |-> Result(q[i].cmd, fatal)])
<1> DEFINE rest == [i \in DOMAIN q |-> Result(q[i].cmd, fatal)]
<1>1. first \in HostFrames /\ ~IsEvent(first)
  BY DEF HostFrames, IsEvent
<1>2. Len(q) \in Nat /\ DOMAIN q = 1..Len(q) /\ \A i \in 1..Len(q) : q[i] \in AcceptedType
  OBVIOUS
<1>3. \A i \in 1..Len(q) : /\ Result(q[i].cmd, fatal) \in HostFrames
                           /\ ~IsEvent(Result(q[i].cmd, fatal))
  <2>1. ASSUME NEW i \in 1..Len(q) PROVE q[i].cmd.id \in 0..MaxCmds
    <3>1. q[i] \in AcceptedType
      BY <1>2
    <3> QED
      BY <3>1 DEF AcceptedType, CommandType
  <2> QED
    BY <2>1 DEF Result, HostFrames, IsEvent
<1>4. rest \in [1..Len(q) -> HostFrames]
  BY <1>2, <1>3
<1>5. /\ rest \in Seq(HostFrames) /\ Len(rest) = Len(q)
      /\ \A i \in 1..Len(q) : ~IsEvent(rest[i])
  BY <1>2, <1>3, <1>4, IsSequence
<1> HIDE DEF rest
<1> DEFINE all == <<first>> \o rest
<1>6. /\ all \in Seq(HostFrames) /\ Len(all) = 1 + Len(rest) /\ DOMAIN all = 1..(1 + Len(rest))
      /\ \A i \in 1..(1 + Len(rest)) :
            all[i] = IF i <= 1 THEN <<first>>[i] ELSE rest[i - 1]
  <2>1. <<first>> \in Seq(HostFrames) /\ Len(<<first>>) = 1
    BY <1>1
  <2> QED
    BY <1>5, <2>1, ConcatProperties
<1> HIDE DEF all
<1>7. ASSUME NEW i \in DOMAIN all PROVE ~IsEvent(all[i])
  <2>1. CASE i = 1
    BY <1>1, <1>2, <1>5, <1>6, <2>1
  <2>2. CASE i # 1
    <3>1. i - 1 \in 1..Len(q) /\ all[i] = rest[i - 1]
      BY <1>2, <1>5, <1>6, <2>2
    <3> QED
      BY <1>5, <3>1
  <2> QED
    BY <2>1, <2>2
<1> QED
  BY <1>6, <1>7 DEF Answers, all, rest

-----------------------------------------------------------------------------
(* Where commands go                                                       *)

LEMMA NodeOwn ==
    ASSUME Inv
    PROVE  own \in 0..MaxOwn /\ silenced \subseteq 0..MaxCmds /\ taken \in Seq(Messages)
BY TypedIsParts DEF Inv, SlotTyped

LEMMA StayLeaves ==
    ASSUME Inv, inbox' = inbox \/ inbox' = <<>>, toNode' = toNode,
           own' \in 0..MaxOwn, silenced' \subseteq 0..MaxCmds, taken' \in Seq(Messages),
           SlotFine(slot'), CurrentOf(slot') \in {CurrentOf(slot), 0}
    PROVE  NodeLeaves
<1>1. /\ BoxFine(inbox) /\ toNode \in Seq(NodeFrames)
      /\ OnceIn(toNode, inbox, CurrentOf(slot))
  BY SlotNow
<1>2. BoxFine(inbox')
  <2>1. <<>> \in Seq(AcceptedType) /\ DOMAIN <<>> = {}
    OBVIOUS
  <2> QED
    BY <1>1, <2>1 DEF BoxFine
<1>3. Keeps(toNode, inbox, CurrentOf(slot), toNode', inbox', CurrentOf(slot'))
  BY <1>1, LosesOnce
<1> QED
  BY <1>1, <1>2, <1>3 DEF NodeLeaves

LEMMA ArriveLeaves ==
    ASSUME Inv, NEW types, Arrives(types), UNCHANGED <<inbox, own, taken>>,
           silenced' \subseteq 0..MaxCmds,
           SlotFine(slot'), CurrentOf(slot') \in {CurrentOf(slot), 0, Head(toNode).id}
    PROVE  NodeLeaves
<1>1. /\ BoxFine(inbox) /\ toNode \in Seq(NodeFrames)
      /\ OnceIn(toNode, inbox, CurrentOf(slot))
  BY SlotNow
<1>2. /\ toNode # <<>> /\ toNode' = Tail(toNode) /\ Head(toNode).kind = "command"
  BY DEF Arrives
<1>3. Num(Head(toNode)) = Head(toNode).id
  BY <1>2 DEF Num
<1>4. Keeps(toNode, inbox, CurrentOf(slot), Tail(toNode), inbox, CurrentOf(slot'))
  BY <1>1, <1>2, <1>3, TakesOnce
<1>5. toNode' \in Seq(NodeFrames) /\ ToSet(toNode') \subseteq ToSet(toNode)
  BY <1>1, <1>2, ToSetHead
<1> QED
  BY <1>1, <1>2, <1>4, <1>5, NodeOwn DEF NodeLeaves

LEMMA ArrivedCommand ==
    ASSUME Inv, NEW types, Arrives(types)
    PROVE  /\ Head(toNode) \in CommandType /\ FrameFine(Head(toNode))
           /\ Head(toNode).kind = "command" /\ Head(toNode).type \in types
           /\ Head(toNode).id \in 0..MaxCmds /\ Head(toNode).offset \in Nat
<1>1. /\ toNode \in Seq(NodeFrames) /\ \A i \in DOMAIN toNode : FrameFine(toNode[i])
      /\ toNode # <<>> /\ Head(toNode).kind = "command" /\ Head(toNode).type \in types
  BY SlotNow DEF Arrives
<1>2. Head(toNode) \in NodeFrames
  BY <1>1, ToSetHead
<1>3. Head(toNode) \in CommandType
  BY <1>1, <1>2 DEF NodeFrames
<1>4. FrameFine(Head(toNode))
  <2>1. 1 \in DOMAIN toNode /\ Head(toNode) = toNode[1]
    BY <1>1
  <2> QED
    BY <1>1, <2>1
<1> QED
  BY <1>1, <1>3, <1>4 DEF CommandType

LEMMA AcceptLeaves ==
    ASSUME Inv, NEW types, Arrives(types), Accepts, UNCHANGED <<own, taken, silenced>>,
           SlotFine(slot'), CurrentOf(slot') = CurrentOf(slot)
    PROVE  NodeLeaves
<1>1. /\ BoxFine(inbox) /\ toNode \in Seq(NodeFrames) /\ SlotFine(slot)
      /\ OnceIn(toNode, inbox, CurrentOf(slot)) /\ slot.inc \in Nat
  BY SlotNow DEF SlotFine, SlotType
<1>2. /\ toNode # <<>> /\ toNode' = Tail(toNode) /\ Head(toNode).kind = "command"
  BY DEF Arrives
<1> DEFINE a == [cmd |-> Head(toNode), inc |-> slot.inc]
<1>3. inbox' = Append(inbox, a)
  BY DEF Accepts
<1>4. Keeps(toNode, inbox, CurrentOf(slot), Tail(toNode), inbox', CurrentOf(slot))
  BY <1>1, <1>2, <1>3, AcceptsOnce DEF BoxFine
<1>5. toNode' \in Seq(NodeFrames) /\ ToSet(toNode') \subseteq ToSet(toNode)
  BY <1>1, <1>2, ToSetHead
<1>6. BoxFine(inbox')
  <2>1. a \in AcceptedType /\ FrameFine(a.cmd)
    BY <1>1, ArrivedCommand DEF AcceptedType
  <2> HIDE DEF a
  <2>2. /\ inbox \in Seq(AcceptedType) /\ \A i \in DOMAIN inbox : FrameFine(inbox[i].cmd)
    BY <1>1 DEF BoxFine
  <2>3. /\ inbox' \in Seq(AcceptedType) /\ DOMAIN inbox' = 1..(Len(inbox) + 1)
        /\ DOMAIN inbox = 1..Len(inbox) /\ Len(inbox) \in Nat
        /\ inbox'[Len(inbox) + 1] = a
        /\ \A i \in 1..Len(inbox) : inbox'[i] = inbox[i]
    BY <1>3, <2>1, <2>2
  <2>4. \A i \in DOMAIN inbox' : FrameFine(inbox'[i].cmd)
    BY <2>1, <2>2, <2>3
  <2> QED
    BY <2>3, <2>4 DEF BoxFine
<1> QED
  BY <1>2, <1>4, <1>5, <1>6, NodeOwn DEF NodeLeaves

LEMMA CarryLeaves ==
    ASSUME Inv, NEW i \in DOMAIN inbox, Carries(i), silenced' \subseteq 0..MaxCmds,
           taken' \in Seq(Messages), SlotFine(slot'),
           CurrentOf(slot') \in {CurrentOf(slot), 0, inbox[i].cmd.id}
    PROVE  NodeLeaves
<1>1. /\ inbox \in Seq(AcceptedType) /\ \A j \in DOMAIN inbox : FrameFine(inbox[j].cmd)
      /\ toNode \in Seq(NodeFrames)
      /\ OnceIn(toNode, inbox, CurrentOf(slot))
  BY SlotNow DEF BoxFine
<1>2. inbox' = RemoveAt(inbox, i) /\ own' = own /\ toNode' = toNode
  BY DEF Carries
<1>3. Keeps(toNode, inbox, CurrentOf(slot), toNode, RemoveAt(inbox, i), CurrentOf(slot'))
  BY <1>1, CarriesOnce
<1>4. BoxFine(inbox')
  <2>1. inbox' \in Seq(AcceptedType) /\ ToSet(inbox') \subseteq ToSet(inbox)
    BY <1>1, <1>2, Removed, RemovedSet
  <2>2. ASSUME NEW j \in DOMAIN inbox' PROVE FrameFine(inbox'[j].cmd)
    <3>1. inbox'[j] \in ToSet(inbox)
      BY <2>1 DEF ToSet
    <3> QED
      BY <1>1, <3>1 DEF ToSet
  <2> QED
    BY <2>1, <2>2 DEF BoxFine
<1> QED
  BY <1>1, <1>2, <1>3, <1>4, NodeOwn DEF NodeLeaves

LEMMA CarriedCommand ==
    ASSUME Inv, NEW i \in DOMAIN inbox
    PROVE  /\ inbox[i].cmd \in CommandType /\ FrameFine(inbox[i].cmd)
           /\ inbox[i].cmd.id \in 0..MaxCmds /\ inbox[i].cmd.kind = "command"
<1>1. inbox \in Seq(AcceptedType) /\ \A j \in DOMAIN inbox : FrameFine(inbox[j].cmd)
  BY SlotNow DEF BoxFine
<1>2. inbox[i] \in AcceptedType
  BY <1>1
<1> QED
  BY <1>1, <1>2 DEF AcceptedType, CommandType

-----------------------------------------------------------------------------
(* Slots                                                                   *)

LEMMA SlotStays ==
    ASSUME SlotFine(slot), NEW s, s = slot
    PROVE  SlotFine(s) /\ CurrentOf(s) = CurrentOf(slot)
OBVIOUS

LEMMA SlotRests ==
    ASSUME Typed, SlotFine(slot), NEW phase \in {"idle", "own"}, NEW n \in Nat
    PROVE  SlotFine(After(phase, n)) /\ CurrentOf(After(phase, n)) = 0
<1>1. PICK seq \in Nat : seq = slot.seq + n
  BY DEF SlotFine, SlotType
<1>2. After(phase, n) = [slot EXCEPT !.phase = phase, !.seq = seq, !.turn = 0]
  BY <1>1 DEF After
<1>3. After(phase, n) \in SlotType /\ After(phase, n).phase = phase
  BY <1>2, Zero DEF SlotFine, SlotType
<1> QED
  BY <1>3 DEF SlotFine, CurrentOf

LEMMA SlotEmpty ==
    ASSUME Typed, SlotFine(slot)
    PROVE  SlotFine(Gone) /\ CurrentOf(Gone) = 0
<1>1. Gone \in SlotType /\ Gone.phase = "none"
  BY Zero DEF Gone, NoSlot, SlotFine, SlotType
<1> QED
  BY <1>1 DEF SlotFine, CurrentOf

LEMMA SlotBusy ==
    ASSUME Typed, SlotFine(slot), NEW n \in Nat, NEW t \in 0..MaxCmds, t # 0,
           NEW s, s = [After("busy", n) EXCEPT !.turn = t]
    PROVE  SlotFine(s) /\ CurrentOf(s) = t
<1>1. PICK seq \in Nat : seq = slot.seq + n
  BY DEF SlotFine, SlotType
<1>2. s = [slot EXCEPT !.phase = "busy", !.seq = seq, !.turn = t]
  BY <1>1 DEF After, SlotFine, SlotType
<1>3. s \in SlotType /\ s.phase = "busy" /\ s.turn = t
  BY <1>2 DEF SlotFine, SlotType
<1> QED
  BY <1>3 DEF SlotFine, CurrentOf

-----------------------------------------------------------------------------
(* Commands arrive                                                         *)

LEMMA ReceiveLaunchStep == ASSUME Inv, ReceiveLaunch PROVE Inv'
<1> DEFINE c == Head(toNode)
           types == {"start", "resume"}
           s == [NoSlot EXCEPT !.phase = "new", !.inc = slot.inc + 1, !.seq = c.offset,
                               !.cmd = c.id, !.type = c.type]
<1>1. SlotFine(slot) /\ Typed /\ Arrives(types) /\ UNCHANGED <<own, taken, silenced>>
  BY SlotNow DEF ReceiveLaunch
<1>2. /\ c \in CommandType /\ FrameFine(c) /\ c.kind = "command" /\ c.type \in types
      /\ c.id \in 0..MaxCmds /\ c.offset \in Nat
  BY <1>1, ArrivedCommand
<1>3. silenced' \subseteq 0..MaxCmds
  BY <1>1, NodeOwn
<1>4. CASE ~Up /\ slot' = s /\ UNCHANGED inbox /\ Report(<<>>, <<>>)
  <2>1. SlotFine(s) /\ CurrentOf(s) = c.id
    <3> HIDE DEF c
    <3>1. PICK inc \in Nat : inc = slot.inc + 1
      BY <1>1 DEF SlotFine, SlotType
    <3>2. s = [NoSlot EXCEPT !.phase = "new", !.inc = inc, !.seq = c.offset,
                             !.cmd = c.id, !.type = c.type]
      BY <3>1
    <3>3. s \in SlotType /\ s.phase = "new" /\ s.cmd = c.id
      BY <1>1, <1>2, <3>2, Zero DEF NoSlot, SlotType
    <3>4. c.id # 0
      BY <1>2 DEF FrameFine, Controls
    <3> QED
      BY <3>3, <3>4 DEF SlotFine, CurrentOf
  <2>2. NodeLeaves
    BY <1>1, <1>3, <1>4, <2>1, ArriveLeaves
  <2> QED
    BY <1>4, <2>2, NoNews, NodeStep
<1>5. CASE Accepts /\ UNCHANGED slot /\ Report(<<>>, <<>>)
  <2>1. NodeLeaves
    BY <1>1, <1>5, AcceptLeaves
  <2> QED
    BY <1>5, <2>1, NoNews, NodeStep
<1>6. CASE Report(<<>>, <<Result(c, FALSE)>>) /\ UNCHANGED <<slot, inbox>>
  <2>1. NodeLeaves
    BY <1>1, <1>3, <1>6, ArriveLeaves
  <2> QED
    BY <1>2, <1>6, <2>1, NoNews, OneAnswer, NodeStep
<1> QED
  BY <1>4, <1>5, <1>6 DEF ReceiveLaunch

LEMMA ReceiveStopStep == ASSUME Inv, ReceiveStop PROVE Inv'
<1> DEFINE c == Head(toNode)
<1>1. SlotFine(slot) /\ Typed /\ Arrives({"stop"}) /\ UNCHANGED <<own, taken, silenced>>
  BY SlotNow DEF ReceiveStop
<1>2. c.id \in 0..MaxCmds
  BY <1>1, ArrivedCommand
<1>3. CASE Up
  <2>1. slot' = [slot EXCEPT !.stopping = TRUE] /\ Accepts /\ Report(<<>>, <<>>)
    BY <1>3 DEF ReceiveStop
  <2>2. SlotFine(slot') /\ CurrentOf(slot') = CurrentOf(slot)
    BY <1>1, <2>1 DEF SlotFine, SlotType, CurrentOf
  <2>3. NodeLeaves
    BY <1>1, <2>1, <2>2, AcceptLeaves
  <2> QED
    BY <2>1, <2>3, NoNews, NodeStep
<1>4. CASE ~Up
  <2>1. Report(<<>>, <<Result(c, TRUE)>>) /\ UNCHANGED <<slot, inbox>>
    BY <1>4 DEF ReceiveStop
  <2>2. silenced' \subseteq 0..MaxCmds
    BY <1>1, NodeOwn
  <2>3. NodeLeaves
    BY <1>1, <2>1, <2>2, ArriveLeaves
  <2> QED
    BY <1>2, <2>1, <2>3, NoNews, OneAnswer, NodeStep
<1> QED
  BY <1>3, <1>4

LEMMA ReceivePromptStep == ASSUME Inv, ReceivePrompt PROVE Inv'
<1> DEFINE c == Head(toNode)
<1>1. /\ SlotFine(slot) /\ Typed /\ Arrives({"prompt"})
      /\ UNCHANGED <<slot, own, taken, silenced>>
  BY SlotNow DEF ReceivePrompt
<1>2. c.id \in 0..MaxCmds /\ (~Up) \in BOOLEAN
  BY <1>1, ArrivedCommand
<1>3. CASE Up /\ ~slot.stopping
  <2>1. Accepts /\ Report(<<>>, <<>>)
    BY <1>3 DEF ReceivePrompt
  <2>2. NodeLeaves
    BY <1>1, <2>1, AcceptLeaves
  <2> QED
    BY <2>1, <2>2, NoNews, NodeStep
<1>4. CASE ~(Up /\ ~slot.stopping)
  <2>1. Report(<<>>, <<Result(c, ~Up)>>) /\ UNCHANGED inbox
    BY <1>4 DEF ReceivePrompt
  <2>2. silenced' \subseteq 0..MaxCmds
    BY <1>1, NodeOwn
  <2>3. NodeLeaves
    BY <1>1, <2>1, <2>2, ArriveLeaves
  <2> QED
    BY <1>2, <2>1, <2>3, NoNews, OneAnswer, NodeStep
<1> QED
  BY <1>3, <1>4

\* A cancel leaves a turn to end by itself, or ends an unprompted one.
LEMMA Cancelled ==
    ASSUME Inv, CancelsTurn
    PROVE  /\ SlotFine(slot') /\ CurrentOf(slot') \in {CurrentOf(slot), 0}
           /\ silenced' \subseteq 0..MaxCmds
           /\ \E events : QuietEvents(events) /\ Report(events, <<>>)
<1>1. /\ SlotFine(slot) /\ Typed /\ silenced \subseteq 0..MaxCmds /\ slot.turn \in 0..MaxCmds
  BY SlotNow, NodeOwn DEF SlotFine, SlotType
<1>2. CASE slot.phase = "own"
  <2>1. slot' = After("idle", 1) /\ Report(Numbered(<<"idle">>, 0), <<>>)
        /\ silenced' = silenced
    BY <1>2 DEF CancelsTurn
  <2>2. QuietEvents(Numbered(<<"idle">>, 0))
    BY <1>1, OneNews, Zero DEF Kinds
  <2> QED
    BY <1>1, <2>1, <2>2, SlotRests
<1>3. CASE slot.phase # "own"
  <2>1. /\ silenced' = silenced \cup ({slot.turn} \ {0})
        /\ slot' = slot /\ Report(<<>>, <<>>)
    BY <1>3 DEF CancelsTurn
  <2> QED
    BY <1>1, <2>1, NoNews
<1> QED
  BY <1>2, <1>3

LEMMA ReceiveCancelStep == ASSUME Inv, ReceiveCancel PROVE Inv'
<1> DEFINE c == Head(toNode)
<1>1. SlotFine(slot) /\ Typed /\ Arrives({"cancel"}) /\ UNCHANGED <<own, taken>>
  BY SlotNow DEF ReceiveCancel
<1>2. c.id \in 0..MaxCmds /\ (~Up) \in BOOLEAN
  BY <1>1, ArrivedCommand
<1>3. CASE Report(<<>>, <<Result(c, ~Up)>>) /\ UNCHANGED <<slot, inbox, silenced>>
  <2>1. silenced' \subseteq 0..MaxCmds
    BY <1>3, NodeOwn
  <2>2. NodeLeaves
    BY <1>1, <1>3, <2>1, ArriveLeaves
  <2> QED
    BY <1>2, <1>3, <2>2, NoNews, OneAnswer, NodeStep
<1>4. CASE Accepts /\ Report(<<>>, <<>>) /\ UNCHANGED <<slot, silenced>>
  <2>1. NodeLeaves
    BY <1>1, <1>4, AcceptLeaves
  <2> QED
    BY <1>4, <2>1, NoNews, NodeStep
<1>5. CASE CancelsTurn /\ UNCHANGED inbox
  <2>1. /\ SlotFine(slot') /\ CurrentOf(slot') \in {CurrentOf(slot), 0}
        /\ silenced' \subseteq 0..MaxCmds
    BY <1>5, Cancelled
  <2>2. PICK events : QuietEvents(events) /\ Report(events, <<>>)
    BY <1>5, Cancelled
  <2>3. NodeLeaves
    BY <1>1, <1>5, <2>1, ArriveLeaves
  <2> QED
    BY <2>2, <2>3, NoNews, NodeStep
<1> QED
  BY <1>3, <1>4, <1>5 DEF ReceiveCancel

-----------------------------------------------------------------------------
(* A slot starts, works and ends                                           *)

LEMMA BootStep == ASSUME Inv, Boot PROVE Inv'
<1>1. SlotFine(slot) /\ Typed
  BY SlotNow
<1>2. /\ slot.phase = "new" /\ slot' = After("booting", 1)
      /\ Report(Numbered(<<"starting">>, 0), <<>>)
      /\ UNCHANGED <<inbox, own, taken, silenced, toNode>>
  BY DEF Boot
<1>3. SlotFine(slot') /\ CurrentOf(slot') = CurrentOf(slot)
  <2>1. PICK seq \in Nat : seq = slot.seq + 1
    BY <1>1 DEF SlotFine, SlotType
  <2>2. slot' = [slot EXCEPT !.phase = "booting", !.seq = seq, !.turn = 0]
    BY <1>2, <2>1 DEF After
  <2>3. slot' \in SlotType /\ slot'.phase = "booting" /\ slot'.cmd = slot.cmd
    BY <1>1, <2>2, Zero DEF SlotFine, SlotType
  <2> QED
    BY <1>1, <1>2, <2>3 DEF SlotFine, CurrentOf
<1>4. NodeLeaves
  BY <1>2, <1>3, NodeOwn, StayLeaves
<1>5. QuietEvents(Numbered(<<"starting">>, 0))
  BY <1>1, OneNews, Zero DEF Kinds
<1> QED
  BY <1>2, <1>4, <1>5, NoNews, NodeStep

LEMMA BootedStep == ASSUME Inv, Booted PROVE Inv'
<1>1. SlotFine(slot) /\ Typed /\ slot.cmd \in 0..MaxCmds
  BY SlotNow DEF SlotFine, SlotType
<1>2. slot.phase = "booting" /\ UNCHANGED <<inbox, own, taken, silenced, toNode>>
  BY DEF Booted
<1>3. CASE slot.type = "resume"
  <2>1. slot' = After("idle", 2) /\ Report(Numbered(<<"agent", "idle">>, 0), <<>>)
    BY <1>3 DEF Booted
  <2>2. NodeLeaves
    BY <1>1, <1>2, <2>1, SlotRests, NodeOwn, StayLeaves
  <2>3. QuietEvents(Numbered(<<"agent", "idle">>, 0))
    BY <1>1, TwoNews, Zero DEF QuietEvents, Kinds
  <2> QED
    BY <2>1, <2>2, <2>3, NoNews, NodeStep
<1>4. CASE slot.type # "resume"
  <2>1. /\ slot' = [After("busy", 2) EXCEPT !.turn = slot.cmd]
        /\ Report(Numbered(<<"agent", "running">>, slot.cmd), <<>>)
    BY <1>4 DEF Booted
  <2>2. slot.cmd # 0 /\ CurrentOf(slot) = slot.cmd
    BY <1>1, <1>2 DEF SlotFine, CurrentOf
  <2>3. SlotFine(slot') /\ CurrentOf(slot') = slot.cmd
    BY <1>1, <2>1, <2>2, SlotBusy
  <2>4. NodeLeaves
    BY <1>2, <2>2, <2>3, NodeOwn, StayLeaves
  <2>5. QuietEvents(Numbered(<<"agent", "running">>, slot.cmd))
    BY <1>1, TwoNews DEF QuietEvents, Kinds
  <2> QED
    BY <2>1, <2>4, <2>5, NoNews, NodeStep
<1> QED
  BY <1>3, <1>4

LEMMA BootFailsStep == ASSUME Inv, BootFails PROVE Inv'
<1>1. /\ SlotFine(slot) /\ Typed /\ slot.cmd \in 0..MaxCmds
      /\ inbox \in Seq(AcceptedType)
  BY SlotNow DEF SlotFine, SlotType, BoxFine
<1>2. slot' = Gone /\ inbox' = <<>> /\ UNCHANGED <<own, taken, silenced, toNode>>
  BY DEF BootFails
<1>3. PICK fatal \in BOOLEAN :
         Report(IF slot.phase = "booting" THEN Numbered(<<"failed">>, 0) ELSE <<>>,
                <<[kind |-> "result", id |-> slot.cmd, fatal |-> fatal]>>
                   \o [i \in DOMAIN inbox |-> Result(inbox[i].cmd, fatal)])
  BY DEF BootFails
<1>4. NodeLeaves
  BY <1>1, <1>2, SlotEmpty, NodeOwn, StayLeaves
<1>5. QuietEvents(IF slot.phase = "booting" THEN Numbered(<<"failed">>, 0) ELSE <<>>)
  <2>1. QuietEvents(Numbered(<<"failed">>, 0))
    BY <1>1, OneNews, Zero DEF Kinds, Terminal
  <2> QED
    BY <2>1, NoNews
<1>6. Answers(<<[kind |-> "result", id |-> slot.cmd, fatal |-> fatal]>>
                 \o [i \in DOMAIN inbox |-> Result(inbox[i].cmd, fatal)])
  BY <1>1, AllAnswers
<1> QED
  BY <1>3, <1>4, <1>5, <1>6, NodeStep

LEMMA OwnTurnBeginsStep == ASSUME Inv, OwnTurnBegins PROVE Inv'
<1>1. SlotFine(slot) /\ Typed /\ MaxOwn \in Nat
  BY SlotNow DEF Typed, LifecycleAssumption
<1>2. /\ own < MaxOwn /\ own' = own + 1 /\ slot' = After("own", 1)
      /\ Report(Numbered(<<"running">>, 0), <<>>)
      /\ UNCHANGED <<inbox, taken, silenced, toNode>>
  BY DEF OwnTurnBegins
<1>3. own' \in 0..MaxOwn
  BY <1>1, <1>2, NodeOwn
<1>4. NodeLeaves
  BY <1>1, <1>2, <1>3, SlotRests, NodeOwn, StayLeaves
<1>5. QuietEvents(Numbered(<<"running">>, 0))
  BY <1>1, OneNews, Zero DEF Kinds
<1> QED
  BY <1>2, <1>4, <1>5, NoNews, NodeStep

LEMMA OwnTurnEndsStep == ASSUME Inv, OwnTurnEnds PROVE Inv'
<1>1. SlotFine(slot) /\ Typed
  BY SlotNow
<1>2. /\ slot' = After("idle", 1) /\ Report(Numbered(<<"idle">>, 0), <<>>)
      /\ UNCHANGED <<inbox, own, taken, silenced, toNode>>
  BY DEF OwnTurnEnds
<1>3. NodeLeaves
  BY <1>1, <1>2, SlotRests, NodeOwn, StayLeaves
<1>4. QuietEvents(Numbered(<<"idle">>, 0))
  BY <1>1, OneNews, Zero DEF Kinds
<1> QED
  BY <1>2, <1>3, <1>4, NoNews, NodeStep

LEMMA AgentEndsStep == ASSUME Inv, AgentEnds PROVE Inv'
<1>1. SlotFine(slot) /\ Typed
  BY SlotNow
<1>2. slot' = Gone /\ UNCHANGED <<inbox, own, taken, silenced, toNode>>
  BY DEF AgentEnds
<1>3. PICK kind \in {"failed", "completed"} : Report(Numbered(<<kind>>, 0), <<>>)
  BY DEF AgentEnds
<1>4. NodeLeaves
  BY <1>1, <1>2, SlotEmpty, NodeOwn, StayLeaves
<1>5. QuietEvents(Numbered(<<kind>>, 0))
  BY <1>1, OneNews, Zero DEF Kinds, Terminal
<1> QED
  BY <1>3, <1>4, <1>5, NoNews, NodeStep

\* The one event that ends a turn is new, and the turn is over.
LEMMA TurnEndsStep == ASSUME Inv, TurnEnds PROVE Inv'
<1> DEFINE t == slot.turn
           events == Numbered(<<"turn", "idle">>, t)
           e == [seq |-> slot.seq + 1, inc |-> slot.inc, kind |-> "turn", turn |-> t]
<1>1. /\ SlotFine(slot) /\ Typed /\ Once /\ NoticeInv /\ t \in 0..MaxCmds
  BY SlotNow DEF SlotFine, SlotType
<1>2. /\ slot.phase = "busy" /\ slot' = After("idle", 2) /\ Report(events, <<>>)
      /\ UNCHANGED <<inbox, own, taken, silenced, toNode>>
  BY DEF TurnEnds
<1>3. NodeLeaves /\ CurrentOf(slot') = 0
  BY <1>1, <1>2, SlotRests, NodeOwn, StayLeaves
<1>4. /\ events \in Seq(EventType) /\ e.turn = t
      /\ \A f \in ToSet(events) : f.kind = "turn" => f = e
  BY <1>1, TwoNews DEF Kinds
<1>5. /\ Typed' /\ CommandsFine' /\ Once' /\ \A u : Waits(u)' => Waits(u)
      /\ Copies' \subseteq Copies \cup ToSet(events)
      /\ UNCHANGED <<row, cmds, notices, log>>
  BY <1>2, <1>3, <1>4, NoNews, NodeReports
<1>6. Turns' \subseteq Turns \cup {e}
  BY <1>4, <1>5 DEF Turns
<1>7. t # 0 /\ Waits(t) /\ t \in 1..cmds /\ Current = t
  <2>1. t # 0 /\ Current = t
    BY <1>1, <1>2, NowCurrent DEF SlotFine, CurrentOf
  <2>2. Waits(t) /\ t \in 1..MaxCmds
    BY <1>1, <2>1, Zero DEF Waits
  <2>3. cmds \in Nat
    BY <1>1, TypedIsParts, Zero DEF HostTyped
  <2> QED
    BY <1>1, <2>1, <2>2, <2>3 DEF Once
\* It waited in its slot only.
<1>8. ~WaitsIn(t, toNode, inbox, 0)
  BY <1>1, <1>7 DEF Once, WaitsIn
<1>9. \A u : Waits(u)' <=> WaitsIn(u, toNode, inbox, 0)
  <2>1. Current' = 0
    BY <1>3, NowCurrent
  <2>2. \A u : Waits(u)' <=> WaitsIn(u, toNode', inbox', Current')
    BY DEF Waits, WaitsIn, Num
  <2> QED
    BY <1>2, <2>1, <2>2
<1> HIDE DEF e, events, t
\* No other end of it is on its way, held or announced.
<1>10. /\ \A f \in Turns : f.turn # t
       /\ row.done # t /\ \A i \in DOMAIN notices : notices[i] # t
  BY <1>1, <1>7 DEF NoticeInv, Over
<1>11. Over'
  <2> DEFINE waits(u) == WaitsIn(u, toNode', inbox', Current')
  <2>1. \A u : Waits(u)' <=> waits(u)
    BY DEF Waits, WaitsIn, Num
  <2>2. waits(t) <=> WaitsIn(t, toNode, inbox, 0)
    BY <1>9, <2>1
  <2> HIDE DEF waits
  <2>3. ~waits(t)
    BY <1>8, <2>2
  <2>4. \A f \in Turns' : f.turn \in 1..cmds /\ ~waits(f.turn)
    BY <1>1, <1>4, <1>5, <1>6, <1>7, <2>1, <2>3 DEF NoticeInv, Over
  <2>5. /\ row.done # 0 => row.done <= cmds /\ ~waits(row.done)
        /\ \A i \in DOMAIN notices : notices[i] <= cmds /\ ~waits(notices[i])
    BY <1>1, <1>5, <2>1 DEF NoticeInv, Over
  <2> QED
    BY <1>5, <2>4, <2>5 DEF Over, Waits, WaitsIn, Num, waits
<1>12. OneEnd'
  BY <1>1, <1>4, <1>6, <1>10 DEF NoticeInv, OneEnd
<1>13. Heard'
  <2>1. \A f \in Turns' :
           f.turn = row.done \/ (\E i \in DOMAIN notices : notices[i] = f.turn)
           => f \in Turns /\ Known(f)
    BY <1>1, <1>4, <1>6, <1>10 DEF NoticeInv, Heard
  <2> QED
    BY <1>5, <2>1 DEF Heard, Known
<1>14. Distinct'
  BY <1>1, <1>5 DEF NoticeInv, Distinct
<1> QED
  BY <1>5, <1>11, <1>12, <1>13, <1>14 DEF Inv, NoticeInv

-----------------------------------------------------------------------------
(* Accepted commands are carried out                                       *)

LEMMA CarryLaunchStep == ASSUME Inv, CarryLaunch PROVE Inv'
<1>1. PICK i \in Ready({"start", "resume"}) :
         /\ Carries(i)
         /\ Report(<<>>, IF Lost(i) THEN <<Result(inbox[i].cmd, FALSE)>> ELSE <<>>)
         /\ UNCHANGED <<slot, taken, silenced>>
  BY DEF CarryLaunch
<1>2. i \in DOMAIN inbox /\ inbox[i].cmd.id \in 0..MaxCmds /\ SlotFine(slot)
  BY CarriedCommand, SlotNow DEF Ready
<1>3. NodeLeaves
  BY <1>1, <1>2, NodeOwn, CarryLeaves
<1>4. Answers(IF Lost(i) THEN <<Result(inbox[i].cmd, FALSE)>> ELSE <<>>)
  BY <1>2, OneAnswer, NoNews
<1> QED
  BY <1>1, <1>3, <1>4, NoNews, NodeStep

LEMMA CarryStopStep == ASSUME Inv, CarryStop PROVE Inv'
<1>1. PICK i \in Ready({"stop"}) :
         /\ Carries(i)
         /\ IF Lost(i) THEN UNCHANGED slot /\ Report(<<>>, <<>>)
            ELSE /\ slot' = Gone
                 /\ \E kind \in {"stopped", "failed"} :
                      /\ kind = "failed" => slot.phase = "busy"
                      /\ Report(Numbered(<<kind>>, 0), <<>>)
         /\ UNCHANGED <<taken, silenced>>
  BY DEF CarryStop
<1>2. i \in DOMAIN inbox /\ SlotFine(slot) /\ Typed
  BY SlotNow DEF Ready
<1>3. CASE Lost(i)
  <2>1. NodeLeaves
    BY <1>1, <1>2, <1>3, NodeOwn, CarryLeaves
  <2> QED
    BY <1>1, <1>3, <2>1, NoNews, NodeStep
<1>4. CASE ~Lost(i)
  <2>1. PICK kind \in {"stopped", "failed"} : Report(Numbered(<<kind>>, 0), <<>>)
    BY <1>1, <1>4
  <2>2. NodeLeaves
    BY <1>1, <1>2, <1>4, NodeOwn, SlotEmpty, CarryLeaves
  <2>3. QuietEvents(Numbered(<<kind>>, 0))
    BY <1>2, OneNews, Zero DEF Kinds, Terminal
  <2> QED
    BY <2>1, <2>2, <2>3, NoNews, NodeStep
<1> QED
  BY <1>3, <1>4

LEMMA CarryPromptStep == ASSUME Inv, CarryPrompt PROVE Inv'
<1>1. PICK i \in Ready({"prompt"}) :
         LET c == inbox[i].cmd
         IN  /\ Carries(i) /\ UNCHANGED silenced
             /\ \/ /\ Lost(i)
                   /\ Report(<<>>, <<Result(c, FALSE)>>)
                   /\ UNCHANGED <<slot, taken>>
                \/ /\ ~Lost(i) /\ Busy
                   /\ slot' = [slot EXCEPT !.seq = @ + 1]
                   /\ Report(Numbered(<<"running">>, 0), <<Result(c, FALSE)>>)
                   /\ UNCHANGED taken
                \/ /\ ~Lost(i) /\ ~Busy
                   /\ slot' = [After("busy", 1) EXCEPT !.turn = c.id]
                   /\ taken' = Append(taken, c.msg)
                   /\ Report(Numbered(<<"running">>, c.id), <<>>)
  BY DEF CarryPrompt
<1> DEFINE c == inbox[i].cmd
<1>2. /\ i \in DOMAIN inbox /\ c \in CommandType /\ FrameFine(c) /\ c.kind = "command"
      /\ c.id \in 0..MaxCmds /\ c.type = "prompt" /\ SlotFine(slot) /\ Typed
  BY CarriedCommand, SlotNow DEF Ready
<1>3. c.id # 0 /\ c.msg \in Messages
  BY <1>2 DEF FrameFine, Controls
<1>4. Carries(i) /\ silenced' = silenced
  BY <1>1
<1>5. /\ QuietEvents(Numbered(<<"running">>, 0)) /\ QuietEvents(Numbered(<<"running">>, c.id))
      /\ Answers(<<Result(c, FALSE)>>)
  BY <1>2, OneNews, OneAnswer, Zero DEF Kinds
<1>6. CASE Report(<<>>, <<Result(c, FALSE)>>) /\ UNCHANGED <<slot, taken>>
  <2>1. NodeLeaves
    BY <1>2, <1>4, <1>6, NodeOwn, CarryLeaves
  <2> QED
    BY <1>5, <1>6, <2>1, NoNews, NodeStep
<1>7. CASE /\ slot' = [slot EXCEPT !.seq = @ + 1] /\ UNCHANGED taken
           /\ Report(Numbered(<<"running">>, 0), <<Result(c, FALSE)>>)
  <2>1. SlotFine(slot') /\ CurrentOf(slot') = CurrentOf(slot)
    <3>1. PICK seq \in Nat : seq = slot.seq + 1
      BY <1>2 DEF SlotFine, SlotType
    <3>2. slot' = [slot EXCEPT !.seq = seq]
      BY <1>7, <3>1
    <3> QED
      BY <1>2, <3>2 DEF SlotFine, SlotType, CurrentOf
  <2>2. NodeLeaves
    BY <1>2, <1>4, <1>7, <2>1, NodeOwn, CarryLeaves
  <2> QED
    BY <1>5, <1>7, <2>2, NodeStep
<1>8. CASE /\ slot' = [After("busy", 1) EXCEPT !.turn = c.id]
           /\ taken' = Append(taken, c.msg)
           /\ Report(Numbered(<<"running">>, c.id), <<>>)
  <2>1. SlotFine(slot') /\ CurrentOf(slot') = c.id
    BY <1>2, <1>3, <1>8, SlotBusy
  <2>2. taken' \in Seq(Messages)
    <3> HIDE DEF c
    <3> QED
      BY <1>3, <1>8, NodeOwn
  <2>3. NodeLeaves
    BY <1>2, <1>4, <2>1, <2>2, NodeOwn, CarryLeaves
  <2> QED
    BY <1>5, <1>8, <2>3, NoNews, NodeStep
<1> QED
  BY <1>1, <1>6, <1>7, <1>8

LEMMA CarryCancelStep == ASSUME Inv, CarryCancel PROVE Inv'
<1>1. PICK i \in Ready({"cancel"}) :
         /\ Carries(i) /\ UNCHANGED taken
         /\ IF Lost(i) THEN /\ Report(<<>>, <<Result(inbox[i].cmd, TRUE)>>)
                            /\ UNCHANGED <<slot, silenced>>
            ELSE CancelsTurn
  BY DEF CarryCancel
<1>2. i \in DOMAIN inbox /\ inbox[i].cmd.id \in 0..MaxCmds /\ SlotFine(slot)
  BY CarriedCommand, SlotNow DEF Ready
<1>3. CASE Lost(i)
  <2>1. NodeLeaves
    BY <1>1, <1>2, <1>3, NodeOwn, CarryLeaves
  <2> QED
    BY <1>1, <1>2, <1>3, <2>1, NoNews, OneAnswer, NodeStep
<1>4. CASE ~Lost(i)
  <2>1. CancelsTurn
    BY <1>1, <1>4
  <2>2. PICK events : QuietEvents(events) /\ Report(events, <<>>)
    BY <2>1, Cancelled
  <2>3. NodeLeaves
    BY <1>1, <1>2, <2>1, Cancelled, NodeOwn, CarryLeaves
  <2> QED
    BY <2>2, <2>3, NoNews, NodeStep
<1> QED
  BY <1>3, <1>4

-----------------------------------------------------------------------------
(* A stop request stays                                                    *)

LEMMA MoveAsks ==
    ASSUME Typed, NEW h, Fine(h), NEW to \in States, NEW notifies \in BOOLEAN
    PROVE  SameAsk(Move(h, to, notifies), h)
<1>1. h \in HandlerType /\ h.row \in RowType
  BY DEF Fine, HandlerType
<1>2. Move(h, to, notifies).row = [h.row EXCEPT !.st = to]
  BY <1>1, MoveTyped
<1> QED
  BY <1>1, <1>2 DEF SameAsk, RowType

LEMMA PumpAsks ==
    ASSUME Typed, NEW h, Before(h), h.row.st = "idle" => cmds < MaxCmds
    PROVE  SameAsk(Pump(h), h)
<1> DEFINE m == Head(h.queue)
           rests == \/ h.queue = <<>> \/ h.row.st # "idle" \/ h.row.stop
                    \/ h.link = "down" \/ m.state # "pending"
<1>0. Fine(h) /\ h \in HandlerType /\ h.row \in RowType /\ h.queue \in Seq(QueuedType)
  BY DEF Before, Fine, HandlerType
<1>1. CASE Sending(h) # {}
  BY <1>0, <1>1 DEF Pump, SameAsk, HandlerType
<1>2. CASE Sending(h) = {} /\ rests
  BY <1>2 DEF Pump, SameAsk
<1>3. CASE Sending(h) = {} /\ ~rests /\ h.link = "open"
  <2> DEFINE q == Mark(h.queue, m.id, "sending", LastSeq)
             g == [h EXCEPT !.queue = q]
             b == Begin(g, "prompt", 0, m.id)
  <2>1. Pump(h) = Move(b, "running", FALSE)
    BY <1>3 DEF Pump
  <2>2. m \in QueuedType /\ m.id \in Messages /\ m.id \in 0..MaxMsgs
    <3>1. m \in QueuedType
      BY <1>0, <1>3, ToSetHead
    <3> QED
      BY <3>1 DEF QueuedType, Messages, Typed, LifecycleAssumption
  <2>3. q \in Seq(QueuedType)
    BY <1>0, LastSeqTyped, MarkTyped
  <2> HIDE DEF m, q
  <2>4. Before(g) /\ g.row = h.row
    BY <1>0, <2>3, QueueSet DEF Before, NoneSent
  <2> HIDE DEF g
  <2>5. Fine(b) /\ SameAsk(b, g)
    BY <1>3, <2>2, <2>4, BeginHandled DEF Handled
  <2> HIDE DEF b
  <2>6. SameAsk(Move(b, "running", FALSE), b)
    BY <2>5, MoveAsks DEF States
  <2> QED
    BY <2>1, <2>4, <2>5, <2>6 DEF SameAsk
<1>4. CASE Sending(h) = {} /\ ~rests /\ h.link # "open"
  <2> DEFINE f == Fallback(h, FALSE)
             q == Mark(f.queue, m.id, "failed", 0)
  <2>1. Pump(h) = [f EXCEPT !.queue = q]
    BY <1>4 DEF Pump
  <2>2. f \in HandlerType /\ SameAsk(f, h)
    BY <1>0, FallbackBefore DEF Before, Fine
  <2> HIDE DEF f, q
  <2> QED
    BY <2>1, <2>2 DEF SameAsk, HandlerType
<1> QED
  BY <1>1, <1>2, <1>3, <1>4

\* A report or a reconciliation takes the request back only from what has ended.
LEMMA SettledAsks ==
    ASSUME Typed, NEW h, Before(h), h.row = row, h.notices = notices,
           NEW to \in States, NEW stop \in BOOLEAN,
           NEW intent \in {"none", "stop", "cancel"}, NEW k,
           k = [Move(h, to, TRUE) EXCEPT !.row.stop = stop, !.row.intent = intent,
                                         !.row.done = 0],
           row.stop => stop \/ to \in Terminal
    PROVE  Before(k) /\ Asked(k)
<1> DEFINE m == Move(h, to, TRUE)
           r == [m.row EXCEPT !.stop = stop, !.intent = intent, !.done = 0]
<1>1. h \in HandlerType
  BY DEF Before, Fine
<1>2. m \in HandlerType /\ m.row = [h.row EXCEPT !.st = to] /\ h.row \in RowType
  BY <1>1, MoveTyped DEF HandlerType
<1>3. Before(k)
  BY SettledBefore
<1> HIDE DEF m
<1>4. m.row \in RowType
  BY <1>2 DEF HandlerType
<1>5. r.stop = stop /\ r.st = to
  BY <1>2, <1>4 DEF RowType
<1>6. k = [m EXCEPT !.row = r]
  BY <1>2, <1>4 DEF HandlerType, RowType, m
<1> HIDE DEF r
<1>7. k.row = r
  BY <1>2, <1>6 DEF HandlerType
<1> QED
  BY <1>3, <1>5, <1>7 DEF Asked

LEMMA RemindedAsks ==
    ASSUME Typed, NEW h, Before(h), Asked(h)
    PROVE  Asked(Reminded(h))
<1>1. CASE h.row.stop
  BY <1>1, RemindedBefore DEF Asked, SameAsk
<1>2. CASE ~h.row.stop
  BY <1>2 DEF Reminded
<1> QED
  BY <1>1, <1>2

LEMMA StateReportAsks ==
    ASSUME Typed, NEW e \in EventType, e.kind \notin {"agent", "turn"}
    PROVE  Asked(StateReport(Host, e))
<1> DEFINE s == e.kind
           moved == Move(Host, s, TRUE)
           stop == StillStopping(moved.row.stop, s)
           intent == Intent(moved.row, s)
           settled == [moved EXCEPT !.row.stop = stop, !.row.intent = intent,
                                    !.row.done = 0]
<1>0. /\ Before(Host) /\ Host.row = row /\ Host.notices = notices
      /\ Host \in HandlerType /\ row \in RowType
  BY HostBefore DEF Before, Fine, HandlerType
<1>1. s \in States
  BY DEF EventType, Kinds, States
<1>2. moved.row = [row EXCEPT !.st = s] /\ moved \in HandlerType
  BY <1>0, <1>1, MoveTyped
<1>3. /\ stop \in BOOLEAN /\ intent \in {"none", "stop", "cancel"}
      /\ moved.row \in RowType
  <2>1. moved.row.stop \in BOOLEAN /\ moved.row.intent \in {"none", "stop", "cancel"}
    BY <1>2 DEF HandlerType, RowType
  <2> QED
    BY <1>2, <2>1, StillStoppingTyped DEF Intent, HandlerType
<1>4. StateReport(Host, e) =
         IF CanTransition(Host.row.st, s) THEN Reminded(Settles(settled, e)) ELSE Host
  <2>1. settled = [moved EXCEPT !.row.stop = StillStopping(@, s),
                      !.row.intent = IF s \in Terminal \cup {"idle"}
                                     THEN "none" ELSE @,
                      !.row.done = 0]
    <3> HIDE DEF moved
    <3> QED
      BY <1>2, <1>3 DEF HandlerType, RowType, Intent
  <2> QED
    BY <2>1 DEF StateReport
<1>5. Before(settled) /\ Asked(settled)
  <2>1. row.stop => stop \/ s \in Terminal
    <3>1. moved.row.stop = row.stop
      BY <1>0, <1>2 DEF RowType
    <3> QED
      BY <3>1 DEF StillStopping
  <2> HIDE DEF stop, intent, s
  <2> QED
    BY <1>0, <1>1, <1>3, <2>1, SettledAsks
<1> HIDE DEF settled
<1>6. Before(Settles(settled, e)) /\ Asked(Settles(settled, e))
  BY <1>5, SettlesBefore DEF Asked
<1>7. Asked(Host)
  BY <1>0 DEF Asked
<1>8. Asked(Reminded(Settles(settled, e)))
  BY <1>6, RemindedAsks DEF Asked
<1> QED
  BY <1>4, <1>7, <1>8

LEMMA AppliedAsks ==
    ASSUME Typed, NEW e \in EventType PROVE Asked(Applied(Host, e))
<1>0. /\ Before(Host) /\ Host.row = row /\ Host.notices = notices
      /\ Host \in HandlerType /\ row \in RowType
  BY HostBefore DEF Before, Fine, HandlerType
<1>1. CASE e.kind = "agent"
  BY <1>0, <1>1 DEF Applied, Asked, HandlerType, RowType
<1>2. CASE e.kind = "turn"
  <2> DEFINE d == IF row.intent = "none" THEN e.turn ELSE row.done
             r == [row EXCEPT !.done = d]
             k == [Host EXCEPT !.row = r]
  <2>1. r \in RowType /\ r.stop = row.stop
    BY <1>0 DEF RowType, EventType
  <2>2. Applied(Host, e) = Settles(k, e)
    BY <1>0, <1>2 DEF Applied, HandlerType, RowType
  <2> HIDE DEF r
  <2>3. k.row = r /\ Before(k)
    BY <1>0, <2>1 DEF HandlerType, Before, Fine, NoneSent
  <2> HIDE DEF k
  <2>4. Settles(k, e).row = r
    BY <2>3, SettlesBefore
  <2> QED
    BY <2>1, <2>2, <2>4 DEF Asked
<1>3. CASE e.kind \notin {"agent", "turn"}
  <2>1. Applied(Host, e) = StateReport(Host, e)
    BY <1>3 DEF Applied
  <2> QED
    BY <1>3, <2>1, StateReportAsks
<1> QED
  BY <1>1, <1>2, <1>3

\* A session that was asked to stop is resumed only if it had ended before.
LEMMA ReconciledAsks ==
    ASSUME Typed, NEW h, Before(h), h.row = row, h.notices = notices,
           NEW up \in BOOLEAN, NEW busy \in BOOLEAN
    PROVE  Asked(Reconciled(h, up, busy))
<1> DEFINE s == Settlement(h.row, up, busy)
           m == Move(h, s, TRUE)
           stop == StillStopping(m.row.stop, s)
           intent == Intent(m.row, s)
           moved == [m EXCEPT !.row.stop = StillStopping(@, s),
                              !.row.intent = IF s \in Terminal \cup {"idle"}
                                             THEN "none" ELSE @,
                              !.row.done = 0]
           resumes == /\ AutoResume /\ s = "failed" /\ moved.row.agent
                      /\ h.link = "open" /\ h.cmds < MaxCmds
           begun == Begin(moved, "resume", LastSeq, 0)
<1>0. h \in HandlerType /\ row \in RowType
  BY DEF Before, Fine, HandlerType
<1>1. CASE s = "unconcerned"
  BY <1>1 DEF Reconciled, Asked
<1>2. CASE s # "unconcerned"
  <2>1. s \in States
    BY <1>2 DEF Settlement, LandsOn, States, Terminal
  <2>2. m.row = [row EXCEPT !.st = s] /\ m \in HandlerType
    BY <1>0, <2>1, MoveTyped
  <2>3. stop \in BOOLEAN /\ intent \in {"none", "stop", "cancel"}
    <3>1. m.row.stop \in BOOLEAN /\ m.row.intent \in {"none", "stop", "cancel"}
      BY <2>2 DEF HandlerType, RowType
    <3> QED
      BY <3>1, StillStoppingTyped DEF Intent
  <2>4. Reconciled(h, up, busy) =
           IF resumes THEN Move(begun, "starting", FALSE) ELSE Reminded(moved)
    BY <1>2, Zenon DEF Reconciled
  <2>5. Before(moved) /\ Asked(moved)
    <3>1. moved = [m EXCEPT !.row.stop = stop, !.row.intent = intent,
                            !.row.done = 0]
      <4> HIDE DEF m
      <4> QED
        BY <2>2, <2>3 DEF HandlerType, RowType, Intent
    <3>2. row.stop => stop \/ s \in Terminal
      <4>1. m.row.stop = row.stop
        BY <1>0, <2>2 DEF RowType
      <4> QED
        BY <4>1 DEF StillStopping
    <3> HIDE DEF stop, intent, s, moved
    <3> QED
      BY <2>1, <2>3, <3>1, <3>2, SettledAsks
  <2>6. CASE ~resumes
    <3> HIDE DEF moved
    <3>1. Asked(Reminded(moved))
      BY <2>5, RemindedAsks DEF Asked
    <3> QED
      BY <2>4, <2>6, <3>1
  <2>7. CASE resumes
    <3>1. s = "failed" /\ AutoResume
      BY <2>7
    <3> HIDE DEF m, moved, resumes, begun, stop, intent
    <3>2. row.stop => row.st \in Terminal
      BY <3>1 DEF Settlement, LandsOn, Terminal
    <3> QED
      BY <3>1, <3>2 DEF Asked
  <2> QED
    BY <2>6, <2>7
<1> QED
  BY <1>1, <1>2

\* What a step leaves of a stop request.
Kept == row.stop => \/ row'.stop \/ row'.st \in Terminal
                    \/ AutoResume /\ row.st \in Terminal

LEMMA BecomesKept == ASSUME NEW h, Becomes(h), Asked(h) PROVE Kept
BY DEF Becomes, Asked, Kept

LEMMA OperatesKept == ASSUME Inv, Operates \/ Tick PROVE Kept
<1>0. /\ Typed /\ Before(Host) /\ Fine(Host) /\ Host.row = row /\ Host.notices = notices
      /\ Host \in HandlerType /\ row \in RowType /\ 0 \in 0..MaxMsgs /\ 0 \in Nat
      /\ {"queued", "starting", "cancelling"} \subseteq States
  BY HostBefore, Zero DEF Inv, Before, Fine, HandlerType, States
<1>1. CASE Launch
  <2> DEFINE c == Move(Host, "queued", FALSE)
  <2>1. SameAsk(c, Host) /\ Before(c) /\ cmds < MaxCmds
    BY <1>0, <1>1, MoveAsks, HostIsSilent, MoveBefore DEF Launch, Room
  <2>2. PICK h : Becomes(h) /\ h \in {Begin(c, "start", 0, 0), Fallback(c, FALSE)}
    BY <1>1 DEF Launch
  <2> HIDE DEF c
  <2>3. SameAsk(h, c)
    BY <1>0, <2>1, <2>2, BeginHandled, FallbackBefore
  <2> QED
    BY <1>0, <2>1, <2>2, <2>3, BecomesKept DEF SameAsk, Asked
<1>2. CASE Resume
  BY <1>2 DEF Resume, Kept
<1>3. ASSUME NEW m \in Messages, Submit(m) PROVE Kept
  BY <1>3 DEF Submit, Kept
<1>4. CASE Cancel
  <2> DEFINE c == Move(Host, "cancelling", FALSE)
  <2>1. SameAsk(c, Host) /\ Before(c)
    BY <1>0, MoveAsks, HostIsSilent, MoveBefore
  <2>2. PICK h : Becomes(h) /\ h \in {Order(c, "cancel"), Fallback(c, TRUE)}
    BY <1>4 DEF Cancel
  <2> HIDE DEF c
  <2>3. SameAsk(h, c)
    BY <1>0, <2>1, <2>2, OrderBefore, FallbackBefore DEF Controls
  <2> QED
    BY <1>0, <2>1, <2>2, <2>3, BecomesKept DEF SameAsk, Asked
<1>5. CASE Stop
  BY <1>5 DEF Stop, Kept
<1>6. ASSUME NEW m \in Messages, CancelMessage(m) PROVE Kept
  <2>1. Retire(Host, m, "cancelled").row = row
    BY <1>0, RetireKeeps DEF Fates
  <2> QED
    BY <1>6, <2>1, BecomesKept DEF CancelMessage, Asked
<1>7. ASSUME NEW m \in Messages, SendNow(m) PROVE Kept
  BY <1>7 DEF SendNow, Kept
<1>8. CASE Tick
  <2>1. SameAsk(Pump(Host), Host)
    BY <1>0, <1>8, PumpAsks DEF Tick, Room
  <2> QED
    BY <1>0, <1>8, <2>1, BecomesKept DEF Tick, SameAsk, Asked
<1> QED
  BY <1>1, <1>2, <1>3, <1>4, <1>5, <1>6, <1>7, <1>8 DEF Operates

LEMMA ReadsKept == ASSUME Inv, HostReads PROVE Kept
<1>0. /\ Typed /\ Before(Host) /\ Host.row = row /\ Host.notices = notices
      /\ Host \in HandlerType /\ Asked(Host)
  BY HostBefore DEF Inv, Before, Fine, Asked
<1>1. CASE HostReady
  <2> DEFINE frame == Head(toHost)
             w == [kind |-> "welcome"]
             o == <<w>>
             a == [Host EXCEPT !.link = "open", !.out = o]
             h == IF frame.batch THEN a ELSE Reconciled(a, frame.up, frame.busy)
  <2>1. frame.up \in BOOLEAN /\ frame.busy \in BOOLEAN /\ Becomes(h)
    BY <1>0, <1>1, HeadRead DEF HostReady, Receives
  <2>2. o \in Seq(NodeFrames) /\ \A i \in DOMAIN o : FrameFine(o[i]) /\ Unnumbered(o[i])
    <3>1. w \in NodeFrames /\ w.kind = "welcome"
      BY DEF NodeFrames
    <3> HIDE DEF w
    <3>2. DOMAIN o = {1} /\ o[1] = w
      OBVIOUS
    <3> QED
      BY <3>1, <3>2 DEF FrameFine, Unnumbered
  <2> HIDE DEF o
  <2>3. /\ a \in HandlerType /\ a.row = row /\ a.notices = notices
        /\ a.cmds = Host.cmds /\ a.out = o
    BY <1>0, <2>2 DEF HandlerType
  <2> HIDE DEF a, frame
  <2>4. Before(a) /\ Asked(a)
    BY <1>0, <2>2, <2>3 DEF Before, Fine, NoneSent, Asked
  <2>5. Asked(h)
    BY <1>0, <2>1, <2>3, <2>4, ReconciledAsks
  <2> QED
    BY <2>1, <2>5, BecomesKept
<1>2. ASSUME Stores(Head(toHost).ev), Receives("event"), toHost' = Tail(toHost) PROVE Kept
  <2> DEFINE e == Head(toHost).ev
  <2>1. e \in EventType
    <3>1. toHost # <<>> /\ Head(toHost).kind = "event"
      BY <1>2 DEF Receives
    <3> QED
      BY <1>0, <1>2, <3>1, HeadRead DEF IsEvent
  <2>2. CASE Known(e)
    BY <1>2, <2>2 DEF Stores, Kept
  <2>3. CASE ~Known(e)
    <3>1. Becomes(Applied(Host, e))
      BY <1>2, <2>3 DEF Stores
    <3> QED
      BY <1>0, <2>1, <3>1, AppliedAsks, BecomesKept
  <2> QED
    BY <2>2, <2>3
<1>3. CASE HostEvent \/ HostNextBatch
  BY <1>2, <1>3 DEF HostEvent, HostNextBatch
<1>4. CASE HostRejects
  BY <1>4 DEF HostRejects, Kept
<1>5. CASE HostFlushed
  <2> DEFINE frame == Head(toHost)
             f == [kind |-> "ack"]
             r == Reconciled(Host, frame.up, frame.busy)
             h == [r EXCEPT !.out = IF hostLink = "open" THEN Append(@, f) ELSE @]
  <2>1. frame.up \in BOOLEAN /\ frame.busy \in BOOLEAN /\ Becomes(h)
    BY <1>0, <1>5, HeadRead DEF HostFlushed, Receives
  <2> HIDE DEF frame
  <2>2. Asked(r) /\ r \in HandlerType
    BY <1>0, <2>1, ReconciledAsks, ReconciledHandled DEF Handled, Fine
  <2> HIDE DEF r
  <2>3. h.row = r.row
    BY <2>2 DEF HandlerType
  <2> QED
    BY <2>1, <2>2, <2>3, BecomesKept DEF Asked
<1>6. CASE HostBeat
  <2> DEFINE frame == Head(toHost)
             h == IF awaiting THEN Host ELSE Reconciled(Host, frame.up, frame.busy)
  <2>1. frame.up \in BOOLEAN /\ frame.busy \in BOOLEAN /\ Becomes(h)
    BY <1>0, <1>6, HeadRead DEF HostBeat, Receives
  <2> HIDE DEF frame
  <2>2. Asked(h)
    BY <1>0, <2>1, ReconciledAsks
  <2> QED
    BY <2>1, <2>2, BecomesKept
<1>7. CASE HostResult
  <2>1. Asked(ResultOf(Head(toHost)))
    BY <1>0, FailedByResultBefore DEF ResultOf
  <2> QED
    BY <1>7, <2>1, BecomesKept DEF HostResult
<1> QED
  BY <1>1, <1>3, <1>4, <1>5, <1>6, <1>7 DEF HostReads

LEMMA ReportKeepsRow == ASSUME NEW x, NEW y, Report(x, y) PROVE UNCHANGED row
BY DEF Report, hostVars

LEMMA NodeKeepsRow ==
    ASSUME \/ Connect \/ NodeReads \/ Heartbeat \/ Boots \/ NodeCarries
           \/ TurnEnds \/ OwnTurnBegins \/ OwnTurnEnds \/ AgentEnds
    PROVE  UNCHANGED row
<1>1. CASE Connect \/ HandleWelcome \/ HandleAck \/ Heartbeat
  BY <1>1 DEF Connect, HandleWelcome, HandleAck, Heartbeat, hostVars
<1>2. CASE ReceiveLaunch \/ ReceiveStop \/ ReceivePrompt
  BY <1>2, ReportKeepsRow DEF ReceiveLaunch, ReceiveStop, ReceivePrompt
<1>3. CASE ReceiveCancel \/ CarryCancel
  BY <1>3, ReportKeepsRow DEF ReceiveCancel, CarryCancel, CancelsTurn
<1>4. CASE Boots
  BY <1>4, ReportKeepsRow DEF Boots, Boot, Booted, BootFails
<1>5. CASE CarryLaunch \/ CarryStop \/ CarryPrompt
  BY <1>5, ReportKeepsRow DEF CarryLaunch, CarryStop, CarryPrompt
<1>6. CASE TurnEnds \/ OwnTurnBegins \/ OwnTurnEnds \/ AgentEnds
  BY <1>6, ReportKeepsRow DEF TurnEnds, OwnTurnBegins, OwnTurnEnds, AgentEnds
<1> QED
  BY <1>1, <1>2, <1>3, <1>4, <1>5, <1>6 DEF NodeReads, NodeCarries

LEMMA StepKept == Inv /\ [Next]_vars => Kept
<1> SUFFICES ASSUME Inv, [Next]_vars PROVE Kept
  OBVIOUS
<1>1. CASE Operates \/ Tick
  BY <1>1, OperatesKept
<1>2. CASE HostReads
  BY <1>2, ReadsKept
<1>3. CASE Break \/ HostRestart \/ NodeRestart
  <2>1. GoesOffline /\ row \in RowType
    BY <1>3, TypedIsParts DEF Break, HostRestart, NodeRestart, Inv, HostTyped
  <2> QED
    BY <2>1 DEF GoesOffline, Kept, RowType
<1>4. CASE HostHangsUp \/ UNCHANGED vars
  BY <1>4 DEF HostHangsUp, vars, Kept
<1>5. CASE Connect \/ NodeReads \/ Heartbeat \/ Boots \/ NodeCarries
           \/ TurnEnds \/ OwnTurnBegins \/ OwnTurnEnds \/ AgentEnds
  <2>1. UNCHANGED row
    BY <1>5, NodeKeepsRow
  <2> QED
    BY <2>1 DEF Kept
<1> QED
  BY <1>1, <1>2, <1>3, <1>4, <1>5 DEF Next

-----------------------------------------------------------------------------
(* The theorems                                                            *)

LEMMA Initial == Init => Inv
<1> SUFFICES ASSUME Init PROVE Inv
  OBVIOUS
<1>1. /\ LifecycleAssumption /\ MaxCmds \in Nat /\ MaxBreaks \in Nat /\ MaxOwn \in Nat
      /\ 0 \in 0..MaxCmds /\ 0 \in 0..MaxBreaks /\ 0 \in 0..MaxOwn
  BY LifecycleAssumption DEF LifecycleAssumption
<1>2. /\ row = NoRow /\ log = {} /\ queue = <<>> /\ cmds = 0
      /\ hostLink = "open" /\ awaiting = FALSE /\ batchSeqs = {}
      /\ slot = NoSlot /\ inbox = <<>> /\ nodeLink = "up"
      /\ hold = FALSE /\ pending = <<>> /\ batch = <<>> /\ inFlight = FALSE
      /\ reconcile = FALSE /\ toHost = <<>> /\ toNode = <<>>
      /\ breaks = 0 /\ own = 0 /\ notices = <<>> /\ silenced = {} /\ taken = <<>>
      /\ fate = [m \in Messages |-> "new"]
  BY DEF Init
<1>3. /\ DOMAIN <<>> = {} /\ ToSet(<<>>) = {}
      /\ NoRow \in RowType /\ NoRow.done = 0 /\ NoSlot \in SlotType
      /\ NoSlot.phase = "none"
  BY <1>1, ToSetEmpty DEF NoRow, NoSlot, RowType, SlotType
<1>4. HostTyped /\ LogFinite
  <2>1. fate \in [Messages -> Fates]
    BY <1>2 DEF Fates
  <2>2. IsFiniteSet(log)
    BY <1>2, FS_EmptySet
  <2>3. queue \in Seq(QueuedType) /\ notices \in Seq(1..MaxCmds)
    BY <1>2
  <2> QED
    BY <1>1, <1>2, <1>3, <2>1, <2>2, <2>3 DEF HostTyped, LogFinite
<1>5. SlotTyped /\ BoxTyped /\ WireTyped
  <2>1. inbox \in Seq(AcceptedType) /\ taken \in Seq(Messages)
    BY <1>2
  <2>2. pending \in Seq(EventType) /\ batch \in Seq(EventType)
    BY <1>2
  <2>3. toHost \in Seq(HostFrames) /\ toNode \in Seq(NodeFrames)
    BY <1>2
  <2>4. SlotTyped
    BY <1>1, <1>2, <1>3, <2>1 DEF SlotTyped
  <2>5. BoxTyped
    BY <1>2, <2>2 DEF BoxTyped
  <2>6. WireTyped
    BY <1>1, <1>2, <2>3 DEF WireTyped
  <2> QED
    BY <2>4, <2>5, <2>6
<1>6. Typed
  BY <1>1, <1>4, <1>5, TypeParts DEF Typed
<1>7. Current = 0
  BY <1>2, <1>3 DEF Current, Initializing
<1>8. CommandsFine
  BY <1>2, <1>3 DEF CommandsFine, Initializing
<1>9. \A t : ~Waits(t)
  BY <1>2, <1>3, <1>7 DEF Waits
<1>10. Once
  BY <1>2, <1>3, <1>7, <1>9 DEF Once
<1>11. Turns = {}
  BY <1>2, <1>3 DEF Turns, Copies, EventsOf
<1>12. NoticeInv
  BY <1>2, <1>3, <1>11 DEF NoticeInv, Over, OneEnd, Heard, Distinct
<1> QED
  BY <1>6, <1>8, <1>10, <1>12 DEF Inv

LEMMA Stuttering == ASSUME Inv, UNCHANGED vars PROVE Inv'
<1>1. /\ UNCHANGED <<row, log, queue, cmds, notices, fate, toNode>>
      /\ UNCHANGED nodeVars /\ UNCHANGED <<hostLink, awaiting, batchSeqs, breaks, toHost>>
  BY DEF vars, nodeVars
<1>2. HostTyped /\ WireTyped
  BY TypedIsParts DEF Inv
<1> QED
  BY <1>1, <1>2, LinkStep DEF HostTyped, WireTyped, EventsOf

LEMMA Inductive == Inv /\ [Next]_vars => Inv'
<1> SUFFICES ASSUME Inv, [Next]_vars PROVE Inv'
  OBVIOUS
<1>1. CASE Operates
  BY <1>1, LaunchStep, ResumeStep, CancelStep, StopStep, SubmitStep,
     CancelMessageStep, SendNowStep DEF Operates
<1>2. CASE Tick
  BY <1>2, TickStep
<1>3. CASE HostReads
  BY <1>3, HostReadyStep, HostEventStep, HostNextBatchStep, HostRejectsStep,
     HostFlushedStep, HostBeatStep, HostResultStep DEF HostReads
<1>4. CASE HostHangsUp \/ Break \/ HostRestart \/ NodeRestart
  BY <1>4, HostHangsUpStep, BreakStep, HostRestartStep, NodeRestartStep
<1>5. CASE Connect \/ NodeReads \/ Heartbeat
  BY <1>5, ConnectStep, HandleWelcomeStep, HandleAckStep, ReceiveLaunchStep,
     ReceiveStopStep, ReceivePromptStep, ReceiveCancelStep, HeartbeatStep DEF NodeReads
<1>6. CASE Boots \/ NodeCarries
  BY <1>6, BootStep, BootedStep, BootFailsStep, CarryLaunchStep, CarryStopStep,
     CarryPromptStep, CarryCancelStep DEF Boots, NodeCarries
<1>7. CASE TurnEnds \/ OwnTurnBegins \/ OwnTurnEnds \/ AgentEnds
  BY <1>7, TurnEndsStep, OwnTurnBeginsStep, OwnTurnEndsStep, AgentEndsStep
<1>8. CASE UNCHANGED vars
  BY <1>8, Stuttering
<1> QED
  BY <1>1, <1>2, <1>3, <1>4, <1>5, <1>6, <1>7, <1>8 DEF Next

\* Every variable keeps its type, through every command, replay, break and
\* restart: in particular events are numbered from 1, a numbered command's
\* number is one the Host gave out, and a turn is named by such a number.
THEOREM TypeCorrect == Spec => []TypeOK
<1>1. Inv => TypeOK
  BY DEF Inv, Typed
<1> QED
  BY Initial, Inductive, <1>1, PTL DEF Spec

LEMMA DistinctOnce == Inv => NotifiedOnce
<1> SUFFICES ASSUME Inv, NEW t \in 1..MaxCmds PROVE Count(notices, t) <= 1
  BY DEF NotifiedOnce
<1> DEFINE At == {i \in DOMAIN notices : notices[i] = t}
<1>1. \A i, j \in At : i = j
  BY DEF Inv, NoticeInv, Distinct
<1>2. CASE At = {}
  BY <1>2, FS_EmptySet DEF Count
<1>3. CASE At # {}
  <2>1. PICK i : At = {i}
    BY <1>1, <1>3
  <2>2. Cardinality({i}) = 1
    BY FS_Singleton
  <2> QED
    BY <2>1, <2>2 DEF Count
<1> QED
  BY <1>2, <1>3

\* A turn's completion is announced once at most (transitionSession's notice),
\* whatever is replayed, lost or restarted, however many commands, breaks and
\* rare happenings there are.
THEOREM NotifiedOnceAlways == Spec => []NotifiedOnce
BY Initial, Inductive, DistinctOnce, PTL DEF Spec


\* A stop request is taken back only in a session that has ended: by the step
\* that ends it, or, while sessions are resumed automatically, by an inventory
\* that finds it ended (reconcileOfflineSessions).
THEOREM RequestEndsWithSession ==
    Spec => [][row.stop /\ ~row'.stop => \/ row'.st \in Terminal
                                         \/ AutoResume /\ row.st \in Terminal]_vars
<1>1. Inv /\ [Next]_vars
        => [row.stop /\ ~row'.stop => \/ row'.st \in Terminal
                                      \/ AutoResume /\ row.st \in Terminal]_vars
  BY StepKept DEF Kept
<1> QED
  BY Initial, Inductive, <1>1, PTL DEF Spec

\* Without automatic resume a stop request stays until the session has ended
\* (setSessionControls, transitionSession), through lost commands, failed
\* dispatches and restarts.
THEOREM StopRequestStays == ASSUME ~AutoResume PROVE Spec => StopStays
<1>1. Inv /\ [Next]_vars => [row.stop /\ ~row'.stop => row'.st \in Terminal]_vars
  BY StepKept DEF Kept
<1> QED
  BY Initial, Inductive, <1>1, PTL DEF Spec, StopStays
=============================================================================
