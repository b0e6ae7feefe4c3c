----------------------- MODULE CommandExecution_proofs -----------------------
(***************************************************************************)
(* Whatever crashes, restarts, is lost or comes late, a command is let     *)
(* through its gate at most once, the lead is told the truth of it, its    *)
(* process has the checkout's lock and its task the fence: for every set   *)
(* of commands and every number of failures.                               *)
(*                                                                         *)
(* None of the properties is inductive.  Job ties the Node's record of a   *)
(* command to what its start handler and its supervisor are at, Agreed the *)
(* Host's row to that record and to the frames between them (what is asked *)
(* once is on its way once; an outcome that is on its way is the recorded  *)
(* one), and Guarded the fence to the row.                                 *)
(***************************************************************************)
EXTENDS CommandExecution, SequenceTheorems, FiniteSetTheorems, TLAPS

States == Unstarted \cup Active \cup Terminal \cup {None}
HostRows == [st : States, own : Ownership, cancel : BOOLEAN, desc : BOOLEAN,
             began : BOOLEAN, heard : Receipts]
Records == [st : {None, "awaiting_approval"} \cup Active \cup Terminal, own : Ownership,
            launch : BOOLEAN, admit : BOOLEAN, leased : BOOLEAN, acked : BOOLEAN]
Sups == [ph : {None, "closed", "open", "lingering", "gone"}, release : BOOLEAN,
         cancel : BOOLEAN, parent : BOOLEAN, result : Results]
Fences == [st : {"clear", "executing", "observation_required", "verification_required"},
           exec : Execs \cup {None}, was : BOOLEAN]
Handlers == {"idle", "preparing", "admitting", "leased", "intended", "supervised",
             "committed", "waiting", "orphaned", "down"}

DownFrames == [k : {"welcome"}] \cup [k : {"prepare", "start", "cancel", "reconcile"}, e : Execs]
                 \cup [k : {"ack"}, e : Execs, terminal : BOOLEAN]
UpFrames == [k : {"prepared"}, e : Execs, ok : BOOLEAN]
               \cup [k : {"receipt"}, e : Execs, st : States, own : Ownership]

HostTyped == host \in [Execs -> HostRows] /\ fence \in Fences
WireTyped == /\ link \in {"down", "open", "ready"}
             /\ toNode \in Seq(DownFrames) /\ toHost \in Seq(UpFrames)
NodeTyped ==
    /\ rec \in [Execs -> Records] /\ run \in [Execs -> Handlers]
    /\ revoked \subseteq Execs /\ clocks \subseteq Execs
    /\ lock \in Execs \cup {None, "session"}
    /\ reading \in [Execs -> {"no", "heartbeat", "Host"}] /\ stale \in [Execs -> Receipts]
SupTyped == sup \in [Execs -> Sups] /\ lapsed \subseteq Execs /\ ran \in [Execs -> Nat]

Typed == HostTyped /\ WireTyped /\ NodeTyped /\ SupTyped

\* A row tells of ownership only what its state allows.
Sane(h) ==
    /\ h.st \in Unstarted \cup {None} => ~h.began /\ h.own = "not_started"
    /\ h.st \in Active => h.began
    /\ Settled(h) => h.own \in {"not_started", "quiescent"} /\ (~h.began => h.own = "not_started")

\* The gate was opened for a process that is past it, and a receipt tells so.
Gate(s, n) ==
    /\ n = IF s.ph \in {"open", "lingering"} \/ s.result.started THEN 1 ELSE 0
    /\ s.ph \in {None, "closed", "open"} => s.result = NoResult
    /\ s.result.quiet => s.ph = "gone"
    /\ s.result # NoResult => s.result.why # None
    /\ s.ph = "lingering" /\ s.result # NoResult => s.result.started

\* What the record of a command says of its launch and its end.
Recording(r, s) ==
    /\ r.st = None => r = NoRecord
    /\ r.launch => r.admit /\ r.st # "awaiting_approval"
    /\ ~r.launch => /\ s.ph = None /\ r.own = "not_started"
                    /\ r.st \in {None, "awaiting_approval"} \cup Terminal
    /\ r.launch /\ ~Ended(r) => r.leased
    /\ r.launch /\ Ended(r) =>
           /\ s.ph = "gone" /\ s.result.quiet /\ ~r.leased
           /\ r.own = IF s.result.started THEN "quiescent" ELSE "not_started"

\* How far the start handler and a recovery of the command can be.
Handling(e) ==
    /\ run[e] = "preparing" => rec[e].st = None
    /\ run[e] \in {"admitting", "leased"} =>
           rec[e].admit /\ ~rec[e].launch /\ rec[e].leased /\ (Ended(rec[e]) => e \in revoked)
    /\ run[e] \in {"intended", "supervised", "committed", "waiting"} =>
           rec[e].launch /\ ~Ended(rec[e])
    /\ run[e] = "intended" => sup[e].ph = None
    /\ reading[e] # "no" => rec[e].launch /\ ~Ended(rec[e]) /\ run[e] \in {"idle", "orphaned"}
    /\ stale[e].st \notin Terminal
    /\ e \in clocks => rec[e].st # None

\* Who has the lock.
Locking(e) == run[e] = "leased" \/ (rec[e].launch /\ ~Ended(rec[e])) => lock = e

Job(e) == Gate(sup[e], ran[e]) /\ Recording(rec[e], sup[e]) /\ Handling(e) /\ Locking(e)

\* Frames on their way, and how often.
OnWay(k, e) == Frame(k, e) \in Range(toNode)
Answered(e) == \E m \in Range(toHost) : m.k = "prepared" /\ m.e = e
Once(s, m) == \A i, j \in DOMAIN s : s[i] = m /\ s[j] = m => i = j

\* A command is prepared once, before it is approved.
Preparing(e) == OnWay("prepare", e) \/ run[e] = "preparing"
PreparedOnce(e) ==
    /\ Once(toNode, Frame("prepare", e))
    /\ OnWay("prepare", e) => run[e] # "preparing" /\ rec[e].st = None
    /\ Preparing(e) => /\ host[e].st \in {"preparing"} \cup Terminal
                       /\ ~host[e].began /\ ~Answered(e)
    /\ host[e].st = None => rec[e].st = None /\ ~Answered(e)

\* It is started once, after it is approved.
StartedOnce(e) ==
    /\ Once(toNode, Frame("start", e))
    /\ OnWay("start", e) => host[e].began /\ ~rec[e].admit
    /\ rec[e].admit => host[e].began

\* Outcomes on their way and at the Host are those of the Node.
ToldTruly(e) ==
    /\ \A m \in Range(toHost) : m.k = "receipt" /\ m.e = e /\ m.st \in Terminal =>
           rec[e].st = m.st /\ rec[e].own = m.own
    /\ Settled(host[e]) /\ host[e].began => rec[e].st = host[e].st /\ rec[e].own = host[e].own

Agreed(e) == PreparedOnce(e) /\ StartedOnce(e) /\ ToldTruly(e)

\* The fence stands for the command that may be at work, and remembers others.
Guarded(e) ==
    /\ host[e].st \in Active => fence.st = "executing" /\ fence.exec = e
    /\ ran[e] # 0 => \/ fence.st \in {"observation_required", "verification_required"}
                     \/ fence.st = "executing" /\ (fence.exec = e \/ fence.was)

IInv == Typed /\ \A e \in Execs : Sane(host[e]) /\ Job(e) /\ Agreed(e) /\ Guarded(e)

-----------------------------------------------------------------------------
(* Frames in sequences.                                                     *)

\* What is left of a sequence when its head is taken.
LEMMA TailFrames ==
    ASSUME NEW S, NEW s \in Seq(S), s # <<>>
    PROVE  /\ Head(s) \in Range(s) /\ Head(s) \in S /\ Tail(s) \in Seq(S)
           /\ Range(Tail(s)) \subseteq Range(s)
           /\ \A m : Once(s, m) => Once(Tail(s), m) /\ (Head(s) = m => m \notin Range(Tail(s)))
<1>1. Head(s) \in S /\ Tail(s) \in Seq(S) /\ Head(s) = s[1] /\ 1 \in DOMAIN s
  OBVIOUS
<1>2. \A i \in DOMAIN Tail(s) : i \in Nat /\ i # 0 /\ i + 1 \in DOMAIN s /\ Tail(s)[i] = s[i + 1]
  OBVIOUS
<1>3. Range(Tail(s)) \subseteq Range(s) /\ Head(s) \in Range(s)
  BY <1>1, <1>2 DEF Range
<1>4. ASSUME NEW m, Once(s, m) PROVE Once(Tail(s), m) /\ (Head(s) = m => m \notin Range(Tail(s)))
  <2>1. Once(Tail(s), m)
    <3> SUFFICES ASSUME NEW i \in DOMAIN Tail(s), NEW j \in DOMAIN Tail(s),
                        Tail(s)[i] = m, Tail(s)[j] = m
                 PROVE  i = j
      BY DEF Once
    <3>1. i + 1 = j + 1
      BY <1>2, <1>4 DEF Once
    <3> QED
      BY <1>2, <3>1
  <2>2. ASSUME Head(s) = m, m \in Range(Tail(s)) PROVE FALSE
    <3>1. PICK i \in DOMAIN Tail(s) : Tail(s)[i] = m
      BY <2>2 DEF Range
    <3>2. i + 1 = 1
      BY <1>1, <1>2, <1>4, <2>2, <3>1 DEF Once
    <3> QED
      BY <1>2, <3>2
  <2> QED
    BY <2>1, <2>2
<1> QED
  BY <1>1, <1>3, <1>4

\* What is appended is on its way as often as before and in what was appended.
LEMMA MoreFrames ==
    ASSUME NEW S, NEW s \in Seq(S), NEW t \in Seq(S)
    PROVE  /\ s \o t \in Seq(S) /\ Range(s \o t) = Range(s) \cup Range(t)
           /\ \A m : Once(s, m) /\ m \notin Range(t) => Once(s \o t, m)
           /\ \A m : Once(t, m) /\ m \notin Range(s) => Once(s \o t, m)
<1>1. s \o t \in Seq(S) /\ Range(s \o t) = Range(s) \cup Range(t)
  BY ConcatProperties, RangeConcatenation
<1>2. \A i \in DOMAIN (s \o t) :
         \/ i \in DOMAIN s /\ (s \o t)[i] = s[i]
         \/ i - Len(s) \in DOMAIN t /\ (s \o t)[i] = t[i - Len(s)]
  OBVIOUS
<1>3. \A i \in DOMAIN (s \o t) : i \in Int /\ Len(s) \in Int
  OBVIOUS
<1>4. ASSUME NEW m, Once(s, m), m \notin Range(t) PROVE Once(s \o t, m)
  BY <1>2, <1>4 DEF Once, Range
<1>5. ASSUME NEW m, Once(t, m), m \notin Range(s) PROVE Once(s \o t, m)
  <2> SUFFICES ASSUME NEW i \in DOMAIN (s \o t), NEW j \in DOMAIN (s \o t),
                      (s \o t)[i] = m, (s \o t)[j] = m
               PROVE  i = j
    BY DEF Once
  <2>1. i - Len(s) = j - Len(s)
    BY <1>2, <1>5 DEF Once, Range
  <2> QED
    BY <1>3, <2>1
<1> QED
  BY <1>1, <1>4, <1>5

LEMMA NoFrames ==
    /\ \A S : <<>> \in Seq(S) /\ Range(<<>>) = {}
    /\ \A m : Once(<<>>, m)
BY DEF Range, Once

LEMMA OneFrame ==
    ASSUME NEW S, NEW m \in S
    PROVE  <<m>> \in Seq(S) /\ Range(<<m>>) = {m} /\ \A n : Once(<<m>>, n)
<1>1. <<m>> \in Seq(S) /\ DOMAIN <<m>> = {1} /\ <<m>>[1] = m
  OBVIOUS
<1> QED
  BY <1>1 DEF Range, Once

LEMMA TwoFrames ==
    ASSUME NEW S, NEW m \in S, NEW n \in S
    PROVE  <<m>> \o <<n>> \in Seq(S) /\ Range(<<m>> \o <<n>>) = {m, n}
<1>1. <<m>> \in Seq(S) /\ <<n>> \in Seq(S) /\ Range(<<m>>) = {m} /\ Range(<<n>>) = {n}
  BY OneFrame
<1>2. <<m>> \o <<n>> \in Seq(S) /\ Range(<<m>> \o <<n>>) = Range(<<m>>) \cup Range(<<n>>)
  BY <1>1, MoreFrames
<1> QED
  BY <1>1, <1>2

\* SetToSeq lists the members of a finite set.
LEMMA Listed ==
    ASSUME NEW S, IsFiniteSet(S)
    PROVE  SetToSeq(S) \in Seq(S)
<1>1. Cardinality(S) \in Nat /\ ExistsBijection(1..Cardinality(S), S)
  BY FS_CardinalityType
<1>2. \E f \in [1..Cardinality(S) -> S] : IsInjective(f)
  BY <1>1 DEF ExistsBijection, Bijection, Injection, IsInjective
<1>3. SetToSeq(S) \in [1..Cardinality(S) -> S]
  BY <1>2 DEF SetToSeq
<1> QED
  BY <1>1, <1>3

\* One frame for each of some commands.
LEMMA EachCancels ==
    ASSUME NEW S, S \subseteq Execs, NEW kind
    PROVE  /\ Each(S, LAMBDA e : Frame(kind, e)) \in Seq({Frame(kind, e) : e \in S})
           /\ Range(Each(S, LAMBDA e : Frame(kind, e))) \subseteq {Frame(kind, e) : e \in S}
<1> DEFINE q == SetToSeq(S)
           t == [i \in DOMAIN q |-> Frame(kind, q[i])]
<1>1. q \in Seq(S)
  BY CommandAssumption, FS_Subset, Listed DEF CommandAssumption
<1>2. t = Each(S, LAMBDA e : Frame(kind, e))
  BY DEF Each
<1>3. t \in Seq({Frame(kind, e) : e \in S}) /\ Range(t) \subseteq {Frame(kind, e) : e \in S}
  BY <1>1 DEF Range
<1> QED
  BY <1>2, <1>3

LEMMA EachReceipts ==
    ASSUME NEW S, S \subseteq Execs
    PROVE  /\ Each(S, LAMBDA e : Receipt(e, rec[e])) \in Seq({Receipt(e, rec[e]) : e \in S})
           /\ Each(S, LAMBDA e : Receipt(e, Expired(e, rec[e])))
                 \in Seq({Receipt(e, Expired(e, rec[e])) : e \in S})
<1> DEFINE q == SetToSeq(S)
           t == [i \in DOMAIN q |-> Receipt(q[i], rec[q[i]])]
           u == [i \in DOMAIN q |-> Receipt(q[i], Expired(q[i], rec[q[i]]))]
<1>1. q \in Seq(S)
  BY CommandAssumption, FS_Subset, Listed DEF CommandAssumption
<1>2. t = Each(S, LAMBDA e : Receipt(e, rec[e]))
  BY DEF Each
<1>3. u = Each(S, LAMBDA e : Receipt(e, Expired(e, rec[e])))
  BY DEF Each
<1>4. t \in Seq({Receipt(e, rec[e]) : e \in S})
  BY <1>1
<1>5. u \in Seq({Receipt(e, Expired(e, rec[e])) : e \in S})
  BY <1>1
<1> QED
  BY <1>2, <1>3, <1>4, <1>5

-----------------------------------------------------------------------------
(* What a step has to keep.                                                 *)

\* What has ended stays as it ended, at the Host and in the Node's journal.
Final ==
    \A e \in Execs :
        /\ Settled(host[e]) => host'[e].st = host[e].st /\ host'[e].own = host[e].own
        /\ Ended(rec[e]) => rec'[e].st = rec[e].st /\ rec'[e].own = rec[e].own

\* Frames to the Node that neither prepare nor start a command.
Harmless == {m \in DownFrames : m.k \notin {"prepare", "start"}}

LEMMA FrameKinds ==
    /\ \A e \in Execs, k \in {"prepare", "start", "cancel", "reconcile"} :
          Frame(k, e) \in DownFrames
    /\ \A e \in Execs : Frame("prepare", e) \notin Harmless /\ Frame("start", e) \notin Harmless
    /\ \A e \in Execs, k \in {"cancel", "reconcile"} : Frame(k, e) \in Harmless
    /\ \A e \in Execs, over \in BOOLEAN : [k |-> "ack", e |-> e, terminal |-> over] \in Harmless
    /\ [k |-> "welcome"] \in Harmless
    /\ \A d, e : Frame("prepare", d) = Frame("prepare", e) => d = e
    /\ \A d, e : Frame("start", d) = Frame("start", e) => d = e
    /\ \A d, e : Frame("prepare", d) # Frame("start", e)
BY DEF Frame, DownFrames, Harmless

\* A frame to the Node, by its kind.
LEMMA DownFields ==
    ASSUME NEW m \in DownFrames
    PROVE  /\ m.k \in {"prepare", "start", "cancel", "reconcile"} => m.e \in Execs /\ m = Frame(m.k, m.e)
           /\ m.k = "ack" => m.e \in Execs /\ m.terminal \in BOOLEAN
BY DEF DownFrames, Frame

\* A step of the Host or of the connection: rows move, frames are read or sent
\* that neither prepare nor start anything.
Moves(e, h) ==
    /\ h \in HostRows /\ Sane(h)
    /\ Settled(host[e]) => h.st = host[e].st /\ h.own = host[e].own
    /\ h.began = host[e].began
    /\ host[e].st # None => h.st # None
    /\ host[e].st \in {"preparing"} \cup Terminal => h.st \in {"preparing"} \cup Terminal \/ Answered(e)
    /\ h.st \in Active => host[e].st \in Active
    /\ Settled(h) /\ host[e].began => rec[e].st = h.st /\ rec[e].own = h.own
RowMoves(e) == Moves(e, host'[e])

\* What the Node's and the supervisors' part of the invariant looks at.
JobVars == <<nodeVars, sup, lapsed, ran>>

LEMMA JobStays ==
    ASSUME IInv, UNCHANGED JobVars
    PROVE  NodeTyped' /\ SupTyped' /\ \A e \in Execs : Job(e)'
BY DEF IInv, Typed, NodeTyped, SupTyped, Job, Gate, Recording, Handling, Locking, JobVars, nodeVars

LEMMA HostKeeps ==
    ASSUME IInv, UNCHANGED JobVars, host' = [e \in Execs |-> host'[e]],
           \A e \in Execs : RowMoves(e), fence' \in Fences, link' \in {"down", "open", "ready"},
           toHost' \in Seq(UpFrames), Range(toHost') \subseteq Range(toHost),
           toNode' \in Seq(DownFrames), Range(toNode') \subseteq Range(toNode) \cup Harmless,
           \A m \in DownFrames \ Harmless : Once(toNode, m) => Once(toNode', m),
           \A e \in Execs : Guarded(e)'
    PROVE  IInv' /\ Final
<1> USE DEF IInv, Typed
<1>1. Typed'
  <2>1. host' \in [Execs -> HostRows]
    BY DEF RowMoves, Moves
  <2> QED
    BY <2>1, JobStays DEF HostTyped, WireTyped
<1>2. UNCHANGED <<rec, run>>
  BY DEF JobVars, nodeVars
<1>3. ASSUME NEW e \in Execs PROVE Agreed(e)'
  <2>1. /\ OnWay("prepare", e)' => OnWay("prepare", e)
        /\ OnWay("start", e)' => OnWay("start", e)
        /\ Once(toNode', Frame("prepare", e)) /\ Once(toNode', Frame("start", e))
    BY FrameKinds DEF OnWay, Agreed, PreparedOnce, StartedOnce
  <2>2. Answered(e)' => Answered(e)
    BY DEF Answered
  <2>3. Preparing(e)' => Preparing(e)
    BY <1>2, <2>1 DEF Preparing
  <2>4. PreparedOnce(e)'
    BY <1>2, <2>1, <2>2, <2>3 DEF Agreed, PreparedOnce, RowMoves, Moves
  <2>5. StartedOnce(e)'
    BY <1>2, <2>1 DEF Agreed, StartedOnce, RowMoves, Moves
  <2>6. ToldTruly(e)'
    BY <1>2 DEF Agreed, ToldTruly, RowMoves, Moves
  <2> QED
    BY <2>4, <2>5, <2>6 DEF Agreed
<1>4. Final
  BY <1>2 DEF Final, RowMoves, Moves
<1> QED
  BY <1>1, <1>3, <1>4, JobStays DEF RowMoves, Moves

LEMMA GuardStays ==
    ASSUME NEW e \in Execs, Guarded(e), fence' = fence, ran' = ran, RowMoves(e)
    PROVE  Guarded(e)'
BY DEF Guarded, RowMoves, Moves

LEMMA SameMoves ==
    ASSUME IInv, NEW e \in Execs
    PROVE  Moves(e, host[e])
BY DEF IInv, Typed, HostTyped, Agreed, ToldTruly, Moves

\* What Down adds to the frames on their way.
LEMMA DownAdds ==
    ASSUME WireTyped, NEW frames \in Seq(Harmless), Down(frames)
    PROVE  /\ toNode' \in Seq(DownFrames) /\ Range(toNode') \subseteq Range(toNode) \cup Harmless
           /\ \A m \in DownFrames \ Harmless : Once(toNode, m) => Once(toNode', m)
<1>1. toNode \in Seq(DownFrames) /\ Harmless \subseteq DownFrames
  BY DEF WireTyped, Harmless
<1>2. frames \in Seq(DownFrames) /\ Range(frames) \subseteq Harmless
  BY <1>1, SeqMonotonic, RangeOfSeq
<1>3. toNode' = toNode \/ toNode' = toNode \o frames
  BY DEF Down
<1>4. /\ toNode \o frames \in Seq(DownFrames)
      /\ Range(toNode \o frames) = Range(toNode) \cup Range(frames)
      /\ \A m : Once(toNode, m) /\ m \notin Range(frames) => Once(toNode \o frames, m)
  BY <1>1, <1>2, MoreFrames
<1>5. CASE toNode' = toNode
  BY <1>1, <1>5
<1>6. CASE toNode' = toNode \o frames
  BY <1>2, <1>4, <1>6
<1> QED
  BY <1>3, <1>5, <1>6

LEMMA Revoking ==
    \A e \in Execs : <<>> \in Seq(Harmless) /\ Revocation(e) \in Seq(Harmless)
BY FrameKinds, OneFrame, NoFrames DEF Revocation

\* The Host reads a frame, or does not.
LEMMA ReadsUp ==
    ASSUME WireTyped, toHost' = toHost \/ (toHost # <<>> /\ toHost' = Tail(toHost))
    PROVE  toHost' \in Seq(UpFrames) /\ Range(toHost') \subseteq Range(toHost)
<1>1. toHost \in Seq(UpFrames)
  BY DEF WireTyped
<1>2. CASE toHost' = toHost
  BY <1>1, <1>2
<1>3. CASE toHost # <<>> /\ toHost' = Tail(toHost)
  BY <1>1, <1>3, TailFrames
<1> QED
  BY <1>2, <1>3

\* One row moves, and the Node is told of no start.
LEMMA OneRow ==
    ASSUME IInv, NEW e \in Execs, NEW h, Moves(e, h), Become(e, h) \/ (h = host[e] /\ host' = host),
           UNCHANGED <<fence, link, JobVars>>, NEW frames \in Seq(Harmless), Down(frames),
           toHost' = toHost \/ (toHost # <<>> /\ toHost' = Tail(toHost))
    PROVE  IInv' /\ Final
<1> USE DEF IInv, Typed
<1>1. host' = [host EXCEPT ![e] = h]
  BY DEF Become, HostTyped
<1>2. host' = [f \in Execs |-> host'[f]] /\ \A f \in Execs : host'[f] = IF f = e THEN h ELSE host[f]
  BY <1>1 DEF HostTyped
<1>3. \A f \in Execs : RowMoves(f)
  BY <1>2, SameMoves DEF RowMoves
<1>4. \A f \in Execs : Guarded(f)'
  BY <1>3, GuardStays DEF JobVars
<1>5. fence' \in Fences /\ link' \in {"down", "open", "ready"}
  BY DEF HostTyped, WireTyped
<1> QED
  BY <1>2, <1>3, <1>4, <1>5, DownAdds, ReadsUp, HostKeeps

-----------------------------------------------------------------------------
(* The Host.                                                                *)

\* A command that was not sent ends.
LEMMA FinishMoves ==
    ASSUME IInv, NEW e \in Execs, host[e].st \in Unstarted, NEW st \in Terminal
    PROVE  /\ Moves(e, Finish(host[e], st)) /\ ~host[e].began
           /\ \A c, d \in BOOLEAN :
                 Moves(e, [Finish(host[e], st) EXCEPT !.cancel = c])
                 /\ Moves(e, [Finish(host[e], st) EXCEPT !.desc = d])
<1>1. host[e] \in HostRows /\ Sane(host[e])
  BY DEF IInv, Typed, HostTyped
<1> DEFINE h == Finish(host[e], st)
<1>2. ASSUME NEW g \in HostRows, g.st = st, g.own = "not_started", g.began = host[e].began
      PROVE  Moves(e, g) /\ ~host[e].began
  BY <1>1, <1>2 DEF Moves, Sane, Settled, Unstarted, Active, Terminal, None
<1>3. h \in HostRows /\ h.st = st /\ h.own = "not_started" /\ h.began = host[e].began
  BY <1>1 DEF HostRows, Finish, States, Ownership
<1>4. ASSUME NEW c \in BOOLEAN
      PROVE  /\ Moves(e, [h EXCEPT !.cancel = c]) /\ Moves(e, [h EXCEPT !.desc = c])
  <2>1. /\ [h EXCEPT !.cancel = c] \in HostRows /\ [h EXCEPT !.desc = c] \in HostRows
        /\ [h EXCEPT !.cancel = c].st = st /\ [h EXCEPT !.desc = c].st = st
        /\ [h EXCEPT !.cancel = c].own = "not_started" /\ [h EXCEPT !.desc = c].own = "not_started"
        /\ [h EXCEPT !.cancel = c].began = host[e].began
        /\ [h EXCEPT !.desc = c].began = host[e].began
    BY <1>3 DEF HostRows
  <2> QED
    BY <1>2, <2>1
<1> QED
  BY <1>2, <1>3, <1>4

LEMMA FinishKeeps ==
    ASSUME IInv, NEW e \in Execs, NEW h, Moves(e, h), FinishUnstarted(e, h)
    PROVE  IInv' /\ Final
BY OneRow, Revoking DEF FinishUnstarted, JobVars, nodeVars

LEMMA FinishesStep ==
    ASSUME IInv, NEW e \in Execs,
           PreparationTimesOut(e) \/ Deny(e) \/ Expire(e) \/ RecheckFails(e)
    PROVE  IInv' /\ Final
<1>1. /\ host[e].st \in Unstarted
      /\ \E st \in Terminal : FinishUnstarted(e, Finish(host[e], st))
  BY DEF PreparationTimesOut, Deny, Expire, RecheckFails, Unstarted, Terminal
<1> QED
  BY <1>1, FinishMoves, FinishKeeps

\* A row that keeps its standing.
LEMMA CancelStep == ASSUME IInv, NEW e \in Execs, Cancel(e) PROVE IInv' /\ Final
<1>1. CASE /\ host[e].st \in Unstarted
           /\ FinishUnstarted(e, [Finish(host[e], "cancelled") EXCEPT !.cancel = TRUE])
  BY <1>1, FinishMoves, FinishKeeps DEF Terminal
<1>2. CASE /\ host[e].st \in Active
           /\ Become(e, [host[e] EXCEPT !.st = "cancelling", !.cancel = TRUE])
           /\ Down(Revocation(e)) /\ UNCHANGED fence /\ HostOnly
  <2> DEFINE h == [host[e] EXCEPT !.st = "cancelling", !.cancel = TRUE]
  <2>1. host[e] \in HostRows /\ Sane(host[e])
    BY DEF IInv, Typed, HostTyped
  <2>2. h \in HostRows /\ h.st = "cancelling" /\ h.own = host[e].own /\ h.began = host[e].began
    BY <2>1 DEF HostRows, States, Active
  <2> HIDE DEF h
  <2>3. Moves(e, h)
    BY <1>2, <2>1, <2>2 DEF Moves, Sane, Settled, Unstarted, Active, Terminal, None
  <2> QED
    BY <1>2, <2>3, OneRow, Revoking DEF HostOnly, JobVars, nodeVars, h
<1> QED
  BY <1>1, <1>2 DEF Cancel

LEMMA ApproveStep == ASSUME IInv, NEW e \in Execs, Approve(e) PROVE IInv' /\ Final
<1> DEFINE h == HostSt(host[e], "queued")
<1>1. host[e] \in HostRows /\ Sane(host[e]) /\ host[e].st = "awaiting_approval"
  BY DEF IInv, Typed, HostTyped, Approve
<1>2. h \in HostRows /\ h.st = "queued" /\ h.own = host[e].own /\ h.began = host[e].began
  BY <1>1 DEF HostRows, HostSt, States, Unstarted
<1>3. Become(e, h) /\ Down(<<>>) /\ UNCHANGED fence /\ HostOnly
  BY DEF Approve
<1> HIDE DEF h
<1>4. Moves(e, h)
  BY <1>1, <1>2 DEF Moves, Sane, Settled, Unstarted, Active, Terminal, None
<1> QED
  BY <1>3, <1>4, OneRow, Revoking DEF HostOnly, JobVars, nodeVars

\* A step that leaves all rows alone.
LEMMA FencesKeep ==
    ASSUME IInv, UNCHANGED <<host, link, toHost, JobVars>>, fence' \in Fences, Down(<<>>),
           \A e \in Execs : Guarded(e)'
    PROVE  IInv' /\ Final
<1> USE DEF IInv, Typed
<1>1. host' = [f \in Execs |-> host'[f]] /\ \A f \in Execs : RowMoves(f)
  BY SameMoves DEF HostTyped, RowMoves
<1>2. <<>> \in Seq(Harmless) /\ link' \in {"down", "open", "ready"}
  BY NoFrames DEF WireTyped
<1> QED
  BY <1>1, <1>2, DownAdds, ReadsUp, HostKeeps

LEMMA ObserveStep == ASSUME IInv, Observe PROVE IInv' /\ Final
<1>1. /\ fence.st = "observation_required" /\ fence' = [fence EXCEPT !.st = "verification_required"]
      /\ Down(<<>>) /\ UNCHANGED <<host, link, toHost, JobVars>>
  BY DEF Observe, HostOnly, JobVars, nodeVars
<1>2. fence' \in Fences /\ fence'.st = "verification_required"
  BY <1>1 DEF IInv, Typed, HostTyped, Fences
<1>3. ran' = ran /\ host' = host
  BY <1>1 DEF JobVars
<1>4. \A e \in Execs : Guarded(e)'
  BY <1>1, <1>2, <1>3 DEF IInv, Guarded
<1> QED
  BY <1>1, <1>2, <1>4, FencesKeep

\* The frame the Host reads.
LEMMA UpHead ==
    ASSUME IInv, toHost # <<>>
    PROVE  /\ Head(toHost).k = "prepared" =>
                 /\ Head(toHost).e \in Execs /\ Head(toHost).ok \in BOOLEAN
                 /\ Answered(Head(toHost).e)
           /\ Head(toHost).k = "receipt" =>
                 /\ Head(toHost).e \in Execs
                 /\ [st |-> Head(toHost).st, own |-> Head(toHost).own] \in Receipts
                 /\ Head(toHost).st \in Terminal =>
                       /\ rec[Head(toHost).e].st = Head(toHost).st
                       /\ rec[Head(toHost).e].own = Head(toHost).own
<1> DEFINE m == Head(toHost)
<1>1. toHost \in Seq(UpFrames)
  BY DEF IInv, Typed, WireTyped
<1>2. m \in Range(toHost) /\ m \in UpFrames
  BY <1>1, TailFrames
<1> HIDE DEF m
<1>3. m.k = "prepared" => m.e \in Execs /\ m.ok \in BOOLEAN /\ Answered(m.e)
  BY <1>2 DEF UpFrames, Answered
<1>4. m.k = "receipt" => m.e \in Execs /\ m.st \in States /\ m.own \in Ownership
  BY <1>2 DEF UpFrames
<1>5. m.k = "receipt" => [st |-> m.st, own |-> m.own] \in Receipts
  BY <1>4 DEF Receipts, States
<1>6. m.k = "receipt" /\ m.st \in Terminal => rec[m.e].st = m.st /\ rec[m.e].own = m.own
  BY <1>2, <1>4 DEF IInv, Agreed, ToldTruly
<1> QED
  BY <1>3, <1>4, <1>5, <1>6 DEF m

LEMMA HearPreparedStep == ASSUME IInv, HearPrepared PROVE IInv' /\ Final
<1> DEFINE m == Head(toHost)
           h == host[m.e]
<1>1. /\ toHost # <<>> /\ m.k = "prepared" /\ toHost' = Tail(toHost)
      /\ UNCHANGED <<fence, link, JobVars>>
  BY DEF HearPrepared, JobVars, nodeVars
<1>2. m.e \in Execs /\ m.ok \in BOOLEAN /\ Answered(m.e)
  BY <1>1, UpHead
<1>3. h \in HostRows /\ Sane(h)
  BY <1>2 DEF IInv, Typed, HostTyped
<1>4. CASE /\ h.st = "preparing"
           /\ Become(m.e, [h EXCEPT !.st = "awaiting_approval", !.desc = TRUE]) /\ Down(<<>>)
  <2> DEFINE g == [h EXCEPT !.st = "awaiting_approval", !.desc = TRUE]
  <2>1. g \in HostRows /\ g.st = "awaiting_approval" /\ g.own = h.own /\ g.began = h.began
    BY <1>3 DEF HostRows, States, Unstarted
  <2> HIDE DEF g
  <2>2. Moves(m.e, g)
    BY <1>2, <1>3, <1>4, <2>1 DEF Moves, Sane, Settled, Unstarted, Active, Terminal, None
  <2> QED
    BY <1>1, <1>2, <1>4, <2>2, OneRow, Revoking DEF g
<1>5. CASE /\ h.st = "preparing" /\ Down(Revocation(m.e))
           /\ \E known \in {FALSE, m.ok} :
                  Become(m.e, [Finish(h, "failed") EXCEPT !.desc = known])
  <2>1. PICK known \in BOOLEAN : Become(m.e, [Finish(h, "failed") EXCEPT !.desc = known])
    BY <1>2, <1>5
  <2>2. Moves(m.e, [Finish(h, "failed") EXCEPT !.desc = known])
    BY <1>2, <1>5, FinishMoves DEF Unstarted, Terminal
  <2> QED
    BY <1>1, <1>2, <1>5, <2>1, <2>2, OneRow, Revoking
<1>6. CASE Retired(h) /\ Become(m.e, [h EXCEPT !.desc = TRUE]) /\ Down(Revocation(m.e))
  <2> DEFINE g == [h EXCEPT !.desc = TRUE]
  <2>1. g \in HostRows /\ g.st = h.st /\ g.own = h.own /\ g.began = h.began
    BY <1>3 DEF HostRows
  <2> HIDE DEF g
  <2>2. Moves(m.e, g)
    BY <1>2, <2>1, SameMoves DEF Moves, Sane, Settled
  <2> QED
    BY <1>1, <1>2, <1>6, <2>2, OneRow, Revoking DEF g
<1>7. CASE UNCHANGED host /\ Down(<<>>)
  BY <1>1, <1>2, <1>7, SameMoves, OneRow, Revoking
<1> QED
  BY <1>4, <1>5, <1>6, <1>7 DEF HearPrepared

LEMMA Acking ==
    \A e \in Execs, over \in BOOLEAN :
        /\ Ack(e, over) \in Seq(Harmless) /\ <<>> \o Ack(e, over) \in Seq(Harmless)
        /\ Revocation(e) \o Ack(e, over) \in Seq(Harmless)
<1> TAKE e \in Execs, over \in BOOLEAN
<1>1. Ack(e, over) \in Seq(Harmless)
  BY FrameKinds, OneFrame DEF Ack
<1> QED
  BY <1>1, Revoking, ConcatProperties

\* The Node ended a command that was not sent.
LEMMA UnsentKeeps ==
    ASSUME IInv, NEW m, m = Head(toHost), toHost # <<>>, m.k = "receipt",
           EndsUnsent(host[m.e], [st |-> m.st, own |-> m.own]),
           Become(m.e, [host[m.e] EXCEPT !.st = IF Settled(host[m.e]) THEN @ ELSE m.st,
                                         !.heard = [st |-> m.st, own |-> m.own]]),
           NEW frames \in Seq(Harmless), Down(frames), toHost' = Tail(toHost),
           UNCHANGED <<fence, link, JobVars>>
    PROVE  IInv' /\ Final
<1> DEFINE h == host[m.e]
           g == [h EXCEPT !.st = IF Settled(h) THEN @ ELSE m.st,
                          !.heard = [st |-> m.st, own |-> m.own]]
<1>1. m.e \in Execs /\ [st |-> m.st, own |-> m.own] \in Receipts
  BY UpHead
<1>2. h \in HostRows /\ Sane(h)
  BY <1>1 DEF IInv, Typed, HostTyped
<1>3. m.st \in {"cancelled", "expired", "failed"} /\ ~h.began /\ h.own = "not_started"
  BY DEF EndsUnsent
<1>4. /\ g \in HostRows /\ g.own = "not_started" /\ g.began = h.began
      /\ g.st = IF Settled(h) THEN h.st ELSE m.st
  BY <1>1, <1>2, <1>3 DEF HostRows, States, Terminal
<1> HIDE DEF g
<1>5. Moves(m.e, g)
  BY <1>1, <1>2, <1>3, <1>4 DEF Moves, Sane, Settled, Unstarted, Active, Terminal, None
<1> QED
  BY <1>1, <1>5, OneRow DEF g

\* What the record of an ended command says of its process.
LEMMA EndedProcess ==
    ASSUME IInv, NEW e \in Execs, Ended(rec[e])
    PROVE  \/ rec[e].own = "not_started" /\ ran[e] = 0 /\ sup[e].ph \in {None, "gone"}
           \/ rec[e].own = "quiescent" /\ ran[e] = 1 /\ sup[e].ph = "gone"
<1>1. Gate(sup[e], ran[e]) /\ Recording(rec[e], sup[e])
  BY DEF IInv, Job
<1>2. CASE ~rec[e].launch
  BY <1>1, <1>2 DEF Gate, Recording, NoResult, None
<1>3. CASE rec[e].launch
  BY <1>1, <1>3 DEF Gate, Recording
<1> QED
  BY <1>2, <1>3

\* What a receipt makes of a row.
LEMMA NewsFields ==
    ASSUME NEW h \in HostRows, NEW r \in Receipts, r.st \in Active \cup Terminal
    PROVE  LET g == AfterNews(h, r)
           IN  /\ g \in HostRows /\ g.own = r.own /\ g.began = h.began
               /\ g.st = IF h.cancel /\ r.st \notin Terminal THEN "cancelling" ELSE r.st
<1> DEFINE st == IF h.cancel /\ r.st \notin Terminal THEN "cancelling" ELSE r.st
           heard == [st |-> r.st, own |-> r.own]
           g == [h EXCEPT !.st = st, !.own = r.own, !.heard = heard]
<1>1. st \in States /\ r.own \in Ownership /\ heard \in Receipts
  BY DEF States, Active, Receipts
<1>2. AfterNews(h, r) = g
  BY DEF AfterNews
<1> HIDE DEF st, heard
<1>3. g \in HostRows /\ g.own = r.own /\ g.began = h.began /\ g.st = st
  BY <1>1 DEF HostRows
<1> QED
  BY <1>2, <1>3 DEF st

\* The outcome of the command the fence stands for.
LEMMA NewsKeeps ==
    ASSUME IInv, NEW m, m = Head(toHost), toHost # <<>>, m.k = "receipt",
           News(host[m.e], [st |-> m.st, own |-> m.own]),
           Become(m.e, AfterNews(host[m.e], [st |-> m.st, own |-> m.own])),
           fence' = FenceAfter(m.e, [st |-> m.st, own |-> m.own]),
           NEW frames \in Seq(Harmless), Down(frames), toHost' = Tail(toHost),
           UNCHANGED <<link, JobVars>>
    PROVE  IInv' /\ Final
<1> DEFINE h == host[m.e]
           r == [st |-> m.st, own |-> m.own]
           g == AfterNews(h, r)
<1> USE DEF IInv, Typed
<1>1. /\ m.e \in Execs /\ r \in Receipts
      /\ m.st \in Terminal => rec[m.e].st = m.st /\ rec[m.e].own = m.own
  BY UpHead
<1>2. h \in HostRows /\ Sane(h)
  BY <1>1 DEF HostTyped
<1>3. /\ m.st \in Active \cup Terminal /\ h.st \in Active /\ h.began
      /\ m.st \in Terminal => m.own \in {"not_started", "quiescent"}
  BY DEF News
<1>4. /\ g \in HostRows /\ g.own = m.own /\ g.began = h.began
      /\ g.st = IF h.cancel /\ m.st \notin Terminal THEN "cancelling" ELSE m.st
  <2>1. r.st = m.st /\ r.own = m.own
    OBVIOUS
  <2> HIDE DEF h, r
  <2> QED
    BY <1>1, <1>2, <1>3, <2>1, NewsFields
<1> HIDE DEF g
<1>5. Moves(m.e, g)
  BY <1>1, <1>2, <1>3, <1>4 DEF Moves, Sane, Settled, Unstarted, Active, Terminal, None
<1>6. host' = [host EXCEPT ![m.e] = g]
  BY DEF Become, g
<1>7. host' = [f \in Execs |-> host'[f]] /\ \A f \in Execs : host'[f] = IF f = m.e THEN g ELSE host[f]
  BY <1>6 DEF HostTyped
<1>8. \A f \in Execs : RowMoves(f)
  BY <1>5, <1>7, SameMoves DEF RowMoves
<1>9. fence \in Fences /\ fence.st = "executing" /\ fence.exec = m.e
  BY <1>1, <1>3 DEF HostTyped, Guarded
<1>10. CASE m.st \notin Terminal
  <2>1. fence' = fence
    BY <1>10 DEF FenceAfter
  <2>2. \A f \in Execs : Guarded(f)'
    BY <1>8, <2>1, GuardStays DEF JobVars
  <2>3. link' \in {"down", "open", "ready"}
    BY DEF WireTyped
  <2> QED
    BY <1>7, <1>8, <1>9, <2>1, <2>2, <2>3, DownAdds, ReadsUp, HostKeeps
<1>11. CASE m.st \in Terminal
  <2>1. fence' = [fence EXCEPT !.st = IF m.own # "not_started" THEN "observation_required"
                                      ELSE IF fence.was THEN "verification_required" ELSE "clear"]
    BY <1>9, <1>11 DEF FenceAfter
  <2>2. /\ fence' \in Fences
        /\ fence'.st = IF m.own # "not_started" THEN "observation_required"
                       ELSE IF fence.was THEN "verification_required" ELSE "clear"
    BY <1>9, <2>1 DEF Fences
  <2>3. m.own = "not_started" => ran[m.e] = 0
    BY <1>1, <1>11, EndedProcess DEF Ended
  <2>4. ASSUME NEW f \in Execs PROVE Guarded(f)'
    <3>1. ran'[f] = ran[f] /\ host'[f].st \notin Active
      <4>1. ran' = ran
        BY DEF JobVars
      <4>2. CASE f = m.e
        BY <1>4, <1>7, <1>11, <4>1, <4>2 DEF Active, Terminal
      <4>3. CASE f # m.e
        BY <1>7, <1>9, <4>1, <4>3 DEF Guarded
      <4> QED
        BY <4>2, <4>3
    <3>2. ran[f] # 0 => \/ fence.was
                        \/ f = m.e
      BY <1>9 DEF Guarded
    <3> QED
      BY <2>2, <2>3, <3>1, <3>2 DEF Guarded
  <2>5. link' \in {"down", "open", "ready"}
    BY DEF WireTyped
  <2> QED
    BY <1>7, <1>8, <2>2, <2>4, <2>5, DownAdds, ReadsUp, HostKeeps
<1> QED
  BY <1>10, <1>11

LEMMA HearReceiptStep == ASSUME IInv, HearReceipt PROVE IInv' /\ Final
<1> DEFINE m == Head(toHost)
           h == host[m.e]
           r == [st |-> m.st, own |-> m.own]
<1>1. /\ toHost # <<>> /\ m.k = "receipt" /\ toHost' = Tail(toHost) /\ UNCHANGED <<link, JobVars>>
  BY DEF HearReceipt, JobVars, nodeVars
<1>2. m.e \in Execs
  BY <1>1, UpHead
<1>3. CASE /\ Down(IF Retired(h) THEN Revocation(m.e) ELSE <<>>) /\ UNCHANGED hostVars
  <2>1. (IF Retired(h) THEN Revocation(m.e) ELSE <<>>) \in Seq(Harmless)
    BY <1>2, Revoking
  <2> QED
    BY <1>1, <1>2, <1>3, <2>1, SameMoves, OneRow DEF hostVars
<1>4. CASE /\ EndsUnsent(h, r)
           /\ Become(m.e, [h EXCEPT !.st = IF Settled(h) THEN @ ELSE r.st, !.heard = r])
           /\ Down((IF Settled(h) THEN <<>> ELSE Revocation(m.e)) \o Ack(m.e, TRUE))
           /\ UNCHANGED fence
  <2>1. ((IF Settled(h) THEN <<>> ELSE Revocation(m.e)) \o Ack(m.e, TRUE)) \in Seq(Harmless)
    BY <1>2, Acking
  <2>2. r.st = m.st
    OBVIOUS
  <2> QED
    BY <1>1, <1>4, <2>1, <2>2, UnsentKeeps
<1>5. CASE Down(Ack(m.e, Settled(h))) /\ UNCHANGED hostVars
  <2>1. Ack(m.e, Settled(h)) \in Seq(Harmless)
    <3>1. Settled(h) \in BOOLEAN
      BY DEF Settled
    <3> QED
      BY <1>2, <3>1, Acking
  <2> QED
    BY <1>1, <1>2, <1>5, <2>1, SameMoves, OneRow DEF hostVars
<1>6. CASE /\ News(h, r) /\ Become(m.e, AfterNews(h, r)) /\ fence' = FenceAfter(m.e, r)
           /\ Down((IF r.st \in Terminal /\ r.own = "not_started" THEN Revocation(m.e)
                    ELSE <<>>) \o Ack(m.e, r.st \in Terminal))
  <2>1. ((IF r.st \in Terminal /\ r.own = "not_started" THEN Revocation(m.e) ELSE <<>>)
            \o Ack(m.e, r.st \in Terminal)) \in Seq(Harmless)
    <3>1. (r.st \in Terminal) \in BOOLEAN
      OBVIOUS
    <3> QED
      BY <1>2, <3>1, Acking
  <2> QED
    BY <1>1, <1>6, <2>1, NewsKeeps
<1> QED
  BY <1>3, <1>4, <1>5, <1>6 DEF HearReceipt

\* What was being prepared has failed, and what may run is uncertain.
LEMMA DisconnectedMoves ==
    ASSUME IInv, NEW e \in Execs
    PROVE  Moves(e, Disconnected(host[e]))
<1> DEFINE h == Disconnected(host[e])
<1>1. host[e] \in HostRows /\ Sane(host[e])
  BY DEF IInv, Typed, HostTyped
<1>2. CASE host[e].st = "preparing"
  BY <1>2, FinishMoves DEF Disconnected, Unstarted, Terminal
<1>3. CASE host[e].st \in Active
  <2>1. h = [host[e] EXCEPT !.st = "reconciliation_required", !.own = "unknown"]
    BY <1>3 DEF Disconnected, Active
  <2>2. h \in HostRows /\ h.st = "reconciliation_required" /\ h.began = host[e].began
    BY <1>1, <2>1 DEF HostRows, States, Active, Ownership
  <2> HIDE DEF h
  <2>3. Moves(e, h)
    BY <1>1, <1>3, <2>2 DEF Moves, Sane, Settled, Unstarted, Active, Terminal, None
  <2> QED
    BY <2>3 DEF h
<1>4. CASE host[e].st # "preparing" /\ host[e].st \notin Active
  BY <1>4, SameMoves DEF Disconnected
<1> QED
  BY <1>2, <1>3, <1>4

\* The connection is lost, and what was on its way with it.
LEMMA DropKeeps ==
    ASSUME IInv, Drop, host' = [e \in Execs |-> host'[e]],
           \A e \in Execs : host'[e] \in {host[e], Disconnected(host[e])}
    PROVE  IInv' /\ Final
<1>1. /\ link' = "down" /\ toNode' = <<>> /\ toHost' = <<>> /\ UNCHANGED <<fence, JobVars>>
  BY DEF Drop, JobVars, nodeVars
<1>2. \A e \in Execs : RowMoves(e)
  BY SameMoves, DisconnectedMoves DEF RowMoves
<1>3. \A e \in Execs : Guarded(e)'
  BY <1>1, <1>2, GuardStays DEF IInv, JobVars
<1>4. fence' \in Fences
  BY <1>1 DEF IInv, Typed, HostTyped
<1> QED
  BY <1>1, <1>2, <1>3, <1>4, NoFrames, HostKeeps

LEMMA DropStep == ASSUME IInv, Break \/ HangUp \/ HostRestart PROVE IInv' /\ Final
<1>1. Drop /\ host' = [e \in Execs |-> host'[e]]
      /\ \A e \in Execs : host'[e] \in {host[e], Disconnected(host[e])}
  BY DEF Break, HangUp, HostRestart
<1> QED
  BY <1>1, DropKeeps

\* The Host repeats what the Node may have missed; nothing is started anew.
LEMMA ReconnectStep == ASSUME IInv, Reconnect PROVE IInv' /\ Final
<1> DEFINE asked == {e \in Execs : host[e].st \in Active}
           ended == {e \in Execs : \/ host[e].st = "preparing"
                                   \/ host[e].cancel /\ ~Settled(host[e])}
           A == Each(asked, LAMBDA e : Frame("reconcile", e))
           B == Each(ended, LAMBDA e : Frame("cancel", e))
<1>1. A \in Seq(Harmless) /\ B \in Seq(Harmless)
  <2>1. {Frame("reconcile", e) : e \in asked} \subseteq Harmless
        /\ {Frame("cancel", e) : e \in ended} \subseteq Harmless
    BY FrameKinds
  <2>2. A \in Seq({Frame("reconcile", e) : e \in asked})
    BY EachCancels
  <2>3. B \in Seq({Frame("cancel", e) : e \in ended})
    BY EachCancels
  <2> QED
    BY <2>1, <2>2, <2>3, SeqMonotonic
<1>2. toNode' = <<[k |-> "welcome"]>> \o A \o B
  BY DEF Reconnect
<1>3. /\ link' = "open" /\ toHost' = <<>> /\ UNCHANGED <<fence, JobVars>>
      /\ host' = [e \in Execs |-> IF host[e].st = "preparing" THEN Finish(host[e], "failed")
                                  ELSE host[e]]
  BY DEF Reconnect, JobVars, nodeVars
<1> HIDE DEF A, B
<1>4. toNode' \in Seq(Harmless)
  <2>1. <<[k |-> "welcome"]>> \in Seq(Harmless)
    BY FrameKinds, OneFrame
  <2> QED
    BY <1>1, <1>2, <2>1, ConcatProperties
<1>5. /\ toNode' \in Seq(DownFrames) /\ Range(toNode') \subseteq Harmless
      /\ \A m \in DownFrames \ Harmless : Once(toNode', m)
  <2>1. Harmless \subseteq DownFrames
    BY DEF Harmless
  <2>2. toNode' \in Seq(DownFrames) /\ Range(toNode') \subseteq Harmless
    BY <1>4, <2>1, SeqMonotonic, RangeOfSeq
  <2> QED
    BY <2>2 DEF Once, Range
<1>6. \A e \in Execs : RowMoves(e)
  <2> SUFFICES ASSUME NEW e \in Execs PROVE Moves(e, host'[e])
    BY DEF RowMoves
  <2>1. CASE host[e].st = "preparing"
    BY <1>3, <2>1, FinishMoves DEF Unstarted, Terminal
  <2>2. CASE host[e].st # "preparing"
    BY <1>3, <2>2, SameMoves
  <2> QED
    BY <2>1, <2>2
<1>7. \A e \in Execs : Guarded(e)'
  BY <1>3, <1>6, GuardStays DEF IInv, JobVars
<1>8. host' = [e \in Execs |-> host'[e]] /\ fence' \in Fences
  BY <1>3 DEF IInv, Typed, HostTyped
<1> QED
  BY <1>3, <1>5, <1>6, <1>7, <1>8, NoFrames, HostKeeps

\* One frame more on its way to the Node.
LEMMA SendOne ==
    ASSUME WireTyped, NEW m \in DownFrames, Down(<<m>>)
    PROVE  /\ toNode' \in Seq(DownFrames) /\ Range(toNode') \subseteq Range(toNode) \cup {m}
           /\ \A n : Once(toNode, n) /\ (n # m \/ m \notin Range(toNode)) => Once(toNode', n)
<1>1. toNode \in Seq(DownFrames)
  BY DEF WireTyped
<1>2. <<m>> \in Seq(DownFrames) /\ Range(<<m>>) = {m} /\ \A n : Once(<<m>>, n)
  BY OneFrame
<1>3. /\ toNode \o <<m>> \in Seq(DownFrames)
      /\ Range(toNode \o <<m>>) = Range(toNode) \cup Range(<<m>>)
      /\ \A n : Once(toNode, n) /\ n \notin Range(<<m>>) => Once(toNode \o <<m>>, n)
      /\ \A n : Once(<<m>>, n) /\ n \notin Range(toNode) => Once(toNode \o <<m>>, n)
  BY <1>1, <1>2, MoreFrames
<1>4. CASE toNode' = toNode
  BY <1>1, <1>4
<1>5. CASE toNode' = toNode \o <<m>>
  BY <1>2, <1>3, <1>5
<1> QED
  BY <1>4, <1>5 DEF Down

\* Commands the step is not about.
LEMMA OthersAgree ==
    ASSUME IInv, NEW f \in Execs, UNCHANGED JobVars, host'[f] = host[f],
           Range(toHost') \subseteq Range(toHost),
           OnWay("prepare", f)' => OnWay("prepare", f), OnWay("start", f)' => OnWay("start", f),
           Once(toNode', Frame("prepare", f)), Once(toNode', Frame("start", f))
    PROVE  Agreed(f)'
<1>1. UNCHANGED <<rec, run>> /\ (Answered(f)' => Answered(f))
  BY DEF JobVars, nodeVars, Answered
<1>2. Agreed(f)
  BY DEF IInv
<1>3. PreparedOnce(f)' /\ StartedOnce(f)'
  BY <1>1, <1>2 DEF Agreed, PreparedOnce, StartedOnce, Preparing
<1>4. ToldTruly(f)'
  BY <1>1, <1>2 DEF Agreed, ToldTruly
<1> QED
  BY <1>3, <1>4 DEF Agreed

\* The Node is asked to prepare the command, for the only time.
LEMMA RequestStep == ASSUME IInv, NEW e \in Execs, Request(e) PROVE IInv' /\ Final
<1> USE DEF IInv, Typed
<1> DEFINE h == HostSt(host[e], IF link = "down" THEN "failed" ELSE "preparing")
           m == Frame("prepare", e)
<1>1. /\ host[e].st = None /\ Become(e, h) /\ Down(<<m>>)
      /\ UNCHANGED <<fence, link, toHost, JobVars>>
  BY DEF Request, HostOnly, JobVars, nodeVars
<1>2. host[e] \in HostRows /\ Sane(host[e])
  BY DEF HostTyped
<1>3. /\ h \in HostRows /\ h.st \in {"preparing", "failed"} /\ h.own = "not_started"
      /\ ~h.began /\ ~host[e].began
  BY <1>1, <1>2 DEF HostRows, HostSt, States, Unstarted, Terminal, Sane
<1>4. host' = [host EXCEPT ![e] = h]
  BY <1>1 DEF Become
<1> HIDE DEF h
<1>5. host' \in [Execs -> HostRows] /\ \A f \in Execs : host'[f] = IF f = e THEN h ELSE host[f]
  BY <1>3, <1>4 DEF HostTyped
<1>6. /\ toNode' \in Seq(DownFrames) /\ Range(toNode') \subseteq Range(toNode) \cup {m}
      /\ \A n : Once(toNode, n) /\ (n # m \/ m \notin Range(toNode)) => Once(toNode', n)
  BY <1>1, FrameKinds, SendOne
<1>7. Agreed(e) /\ PreparedOnce(e) /\ rec[e].st = None /\ ~Answered(e) /\ ~Preparing(e)
  BY <1>1 DEF Agreed, PreparedOnce, None, Terminal
<1>8. m \notin Range(toNode) /\ run[e] # "preparing"
  BY <1>7 DEF Preparing, OnWay
<1> HIDE DEF m
<1>9. Agreed(e)'
  <2>1. UNCHANGED <<rec, run>> /\ (Answered(e)' => Answered(e))
    BY <1>1 DEF JobVars, nodeVars, Answered
  <2>2. Once(toNode', Frame("prepare", e)) /\ Once(toNode', Frame("start", e))
    BY <1>6, <1>7, <1>8, FrameKinds DEF Agreed, PreparedOnce, StartedOnce, m
  <2>3. OnWay("start", e)' => OnWay("start", e)
    BY <1>6, FrameKinds DEF OnWay, m
  <2>4. PreparedOnce(e)'
    BY <1>3, <1>5, <1>7, <1>8, <2>1, <2>2 DEF PreparedOnce, Terminal, None
  <2>5. StartedOnce(e)'
    BY <1>3, <1>7, <2>1, <2>2, <2>3 DEF Agreed, StartedOnce
  <2>6. ToldTruly(e)'
    BY <1>1, <1>3, <1>5, <1>7, <2>1 DEF Agreed, ToldTruly
  <2> QED
    BY <2>4, <2>5, <2>6 DEF Agreed
<1>10. ASSUME NEW f \in Execs, f # e PROVE Agreed(f)'
  <2>1. Frame("prepare", f) # m /\ Frame("start", f) # m
    BY <1>10, FrameKinds DEF m
  <2>2. Once(toNode', Frame("prepare", f)) /\ Once(toNode', Frame("start", f))
    BY <1>6, <2>1 DEF Agreed, PreparedOnce, StartedOnce
  <2>3. /\ OnWay("prepare", f)' => OnWay("prepare", f)
        /\ OnWay("start", f)' => OnWay("start", f)
    BY <1>6, <2>1 DEF OnWay
  <2> QED
    BY <1>1, <1>5, <1>10, <2>2, <2>3, OthersAgree
<1>11. ASSUME NEW f \in Execs PROVE Sane(host'[f]) /\ Guarded(f)'
  <2>1. host'[f].st \in Active => f # e /\ host'[f] = host[f]
    BY <1>3, <1>5 DEF Active
  <2>2. Sane(host'[f])
    BY <1>3, <1>5 DEF Sane, Settled, Active, Unstarted, Terminal, None
  <2>3. UNCHANGED <<fence, ran>>
    BY <1>1 DEF JobVars
  <2> QED
    BY <2>1, <2>2, <2>3 DEF Guarded
<1>12. Typed'
  BY <1>1, <1>5, <1>6, JobStays DEF HostTyped, WireTyped
<1>13. Final
  <2>1. ~Settled(host[e]) /\ rec' = rec
    BY <1>1 DEF Settled, Terminal, None, JobVars, nodeVars
  <2> QED
    BY <1>5, <2>1 DEF Final
<1> QED
  BY <1>1, <1>9, <1>10, <1>11, <1>12, <1>13, JobStays

\* The Node is asked to start the command, for the only time and behind the fence.
LEMMA DispatchStep == ASSUME IInv, NEW e \in Execs, Dispatch(e) PROVE IInv' /\ Final
<1> USE DEF IInv, Typed
<1> DEFINE m == Frame("start", e)
<1>1. /\ host[e].st = "queued" /\ ~OthersActive(e) /\ ~Fenced
      /\ fence' = [st |-> "executing", exec |-> e, was |-> fence.st = "verification_required"]
      /\ UNCHANGED <<link, toHost, JobVars>>
  BY DEF Dispatch, HostOnly, JobVars, nodeVars
<1>2. PICK st \in {"starting", "reconciliation_required"} :
        /\ Become(e, [host[e] EXCEPT !.st = st, !.own = "unknown", !.began = TRUE])
        /\ Down(<<m>>) \/ Down(<<>>)
  BY DEF Dispatch
<1> DEFINE h == [host[e] EXCEPT !.st = st, !.own = "unknown", !.began = TRUE]
<1>3. host[e] \in HostRows /\ Sane(host[e]) /\ ~host[e].began
  BY <1>1 DEF HostTyped, Sane, Unstarted
<1>4. h \in HostRows /\ h.st = st /\ h.began
  BY <1>3 DEF HostRows, States, Active, Ownership
<1>5. host' = [host EXCEPT ![e] = h]
  BY <1>2 DEF Become
<1> HIDE DEF h
<1>6. host' \in [Execs -> HostRows] /\ \A f \in Execs : host'[f] = IF f = e THEN h ELSE host[f]
  BY <1>4, <1>5 DEF HostTyped
<1>7. StartedOnce(e) /\ ~OnWay("start", e) /\ ~rec[e].admit /\ ~Preparing(e) /\ PreparedOnce(e)
  BY <1>1, <1>3 DEF Agreed, StartedOnce, PreparedOnce, Terminal
<1>8. /\ toNode' \in Seq(DownFrames) /\ Range(toNode') \subseteq Range(toNode) \cup {m}
      /\ \A n : Once(toNode, n) => Once(toNode', n)
  <2>1. CASE Down(<<m>>)
    BY <1>7, <2>1, FrameKinds, SendOne DEF OnWay
  <2>2. CASE Down(<<>>)
    <3>1. toNode' = toNode
      BY <2>2, ConcatProperties DEF Down, WireTyped
    <3> QED
      BY <3>1 DEF WireTyped
  <2> QED
    BY <1>2, <2>1, <2>2
<1> HIDE DEF m
<1>9. Agreed(e)'
  <2>1. UNCHANGED <<rec, run>> /\ (Answered(e)' => Answered(e))
    BY <1>1 DEF JobVars, nodeVars, Answered
  <2>2. Once(toNode', Frame("prepare", e)) /\ Once(toNode', Frame("start", e))
    BY <1>7, <1>8 DEF PreparedOnce, StartedOnce
  <2>3. OnWay("prepare", e)' => OnWay("prepare", e)
    BY <1>8, FrameKinds DEF OnWay, m
  <2>4. ~Preparing(e)'
    BY <1>7, <2>1, <2>3 DEF Preparing
  <2>5. PreparedOnce(e)'
    BY <1>4, <1>6, <2>2, <2>4 DEF PreparedOnce, Preparing, None
  <2>6. StartedOnce(e)'
    BY <1>4, <1>6, <1>7, <2>1, <2>2 DEF StartedOnce
  <2>7. ToldTruly(e)'
    BY <1>1, <1>4, <1>6, <2>1 DEF Agreed, ToldTruly, Settled, Terminal
  <2> QED
    BY <2>5, <2>6, <2>7 DEF Agreed
<1>10. ASSUME NEW f \in Execs, f # e PROVE Agreed(f)'
  <2>1. Frame("prepare", f) # m /\ Frame("start", f) # m
    BY <1>10, FrameKinds DEF m
  <2>2. Once(toNode', Frame("prepare", f)) /\ Once(toNode', Frame("start", f))
    BY <1>8 DEF Agreed, PreparedOnce, StartedOnce
  <2>3. /\ OnWay("prepare", f)' => OnWay("prepare", f)
        /\ OnWay("start", f)' => OnWay("start", f)
    BY <1>8, <2>1 DEF OnWay
  <2> QED
    BY <1>1, <1>6, <1>10, <2>2, <2>3, OthersAgree
<1>11. fence \in Fences /\ fence' \in Fences /\ fence'.st = "executing" /\ fence'.exec = e
       /\ (fence.st = "verification_required" => fence'.was)
  BY <1>1 DEF HostTyped, Fences
<1>12. ASSUME NEW f \in Execs PROVE Sane(host'[f]) /\ Guarded(f)'
  <2>1. Sane(host'[f])
    BY <1>4, <1>6 DEF Sane, Settled, Active, Unstarted, Terminal, None
  <2>2. host'[f].st \in Active => f = e
    BY <1>1, <1>6 DEF OthersActive
  <2>3. ran'[f] # 0 => fence'.was
    <3>1. ran' = ran
      BY <1>1 DEF JobVars
    <3> QED
      BY <1>1, <1>11, <3>1 DEF Guarded, Fenced
  <2> QED
    BY <1>11, <2>1, <2>2, <2>3 DEF Guarded
<1>13. Typed'
  BY <1>1, <1>6, <1>8, <1>11, JobStays DEF HostTyped, WireTyped
<1>14. Final
  <2>1. ~Settled(host[e]) /\ rec' = rec
    BY <1>1 DEF Settled, Terminal, JobVars, nodeVars
  <2> QED
    BY <1>6, <2>1 DEF Final
<1> QED
  BY <1>1, <1>9, <1>10, <1>12, <1>13, <1>14, JobStays

LEMMA HostActsStep == ASSUME IInv, NEW e \in Execs, HostActs(e) PROVE IInv' /\ Final
BY RequestStep, FinishesStep, ApproveStep, CancelStep, DispatchStep DEF HostActs

-----------------------------------------------------------------------------
(* The Node and the supervisors.                                            *)

\* What a step of theirs may do to a command.
NodeMoves(e) ==
    /\ Ended(rec[e]) => rec'[e].st = rec[e].st /\ rec'[e].own = rec[e].own
    /\ rec'[e].st # None => rec[e].st # None \/ (host[e].st # None /\ ~OnWay("prepare", e)')
    /\ rec'[e].admit => rec[e].admit \/ (host[e].began /\ ~OnWay("start", e)')
    /\ run'[e] = "preparing" => Preparing(e) /\ ~OnWay("prepare", e)'

\* What it may tell the Host: an answer to what is no longer prepared, and the
\* outcomes of its journal.
Says(m) ==
    /\ m \in UpFrames
    /\ m.k = "prepared" => /\ Frame("prepare", m.e) \notin Range(toNode')
                           /\ run'[m.e] # "preparing" /\ host[m.e].st # None
    /\ m.k = "receipt" /\ m.st \in Terminal => rec'[m.e].st = m.st /\ rec'[m.e].own = m.own

ReadsDown == toNode' = toNode \/ (toNode # <<>> /\ toNode' = Tail(toNode)) \/ toNode' = <<>>
Speaks == toHost' \in Seq(UpFrames) /\ \A m \in Range(toHost') : m \in Range(toHost) \/ Says(m)

LEMMA DownReads ==
    ASSUME WireTyped, ReadsDown
    PROVE  /\ toNode' \in Seq(DownFrames)
           /\ \A k, e : OnWay(k, e)' => OnWay(k, e)
           /\ \A m : Once(toNode, m) => Once(toNode', m)
<1>1. toNode \in Seq(DownFrames)
  BY DEF WireTyped
<1>2. CASE toNode' = toNode
  BY <1>1, <1>2 DEF OnWay
<1>3. CASE toNode # <<>> /\ toNode' = Tail(toNode)
  BY <1>1, <1>3, TailFrames DEF OnWay
<1>4. CASE toNode' = <<>>
  BY <1>4, NoFrames DEF OnWay
<1> QED
  BY <1>2, <1>3, <1>4 DEF ReadsDown

LEMMA NodeKeeps ==
    ASSUME IInv, host' = [e \in Execs |-> host'[e]], \A e \in Execs : RowMoves(e), fence' = fence,
           link' \in {"down", "open", "ready"}, NodeTyped', SupTyped', ReadsDown, Speaks,
           \A e \in Execs : Job(e)' /\ NodeMoves(e) /\ (ran'[e] = ran[e] \/ Guarded(e)')
    PROVE  IInv' /\ Final
<1> USE DEF IInv, Typed
<1>1. /\ toNode' \in Seq(DownFrames)
      /\ \A k, e : OnWay(k, e)' => OnWay(k, e)
      /\ \A m : Once(toNode, m) => Once(toNode', m)
  BY DownReads
<1>2. Typed'
  BY <1>1 DEF HostTyped, WireTyped, RowMoves, Moves, Speaks
<1>3. ASSUME NEW e \in Execs PROVE Agreed(e)' /\ Guarded(e)' /\ Sane(host'[e])
  <2>1. Agreed(e) /\ RowMoves(e) /\ NodeMoves(e) /\ Guarded(e)
    OBVIOUS
  <2>2. Preparing(e)' => Preparing(e)
    BY <1>1, <2>1 DEF Preparing, NodeMoves
  <2>3. Preparing(e)' => ~Answered(e)'
    BY <2>1, <2>2 DEF Agreed, PreparedOnce, Answered, Speaks, Says, Preparing, OnWay
  <2>4. host[e].st = None => ~Preparing(e) /\ ~Answered(e)'
    BY <2>1 DEF Agreed, PreparedOnce, Answered, Speaks, Says, None, Terminal
  <2>5. host'[e].st = None => host[e].st = None
    BY <2>1 DEF RowMoves, Moves
  <2>6. Preparing(e) => host'[e].st \in {"preparing"} \cup Terminal /\ ~host'[e].began
    BY <2>1 DEF Agreed, PreparedOnce, RowMoves, Moves
  <2>7. OnWay("prepare", e)' => run'[e] # "preparing" /\ rec'[e].st = None
    BY <1>1, <2>1 DEF Agreed, PreparedOnce, NodeMoves
  <2>8. PreparedOnce(e)'
    BY <1>1, <2>1, <2>2, <2>3, <2>4, <2>5, <2>6, <2>7 DEF Agreed, PreparedOnce, NodeMoves
  <2>9. StartedOnce(e)'
    BY <1>1, <2>1 DEF Agreed, StartedOnce, NodeMoves, RowMoves, Moves
  <2>10. ToldTruly(e)'
    BY <2>1 DEF Agreed, ToldTruly, NodeMoves, RowMoves, Moves, Speaks, Says, Ended, Settled
  <2>11. Guarded(e)'
    BY <2>1 DEF Guarded, RowMoves, Moves
  <2> QED
    BY <2>1, <2>8, <2>9, <2>10, <2>11 DEF Agreed, RowMoves, Moves
<1>4. Final
  BY DEF Final, NodeMoves, RowMoves, Moves
<1> QED
  BY <1>2, <1>3, <1>4

\* A command the step is not about.
SameFor(f) ==
    /\ rec'[f] = rec[f] /\ run'[f] = run[f] /\ sup'[f] = sup[f] /\ ran'[f] = ran[f]
    /\ reading'[f] = reading[f] /\ stale'[f] = stale[f]
    /\ f \in revoked => f \in revoked'
    /\ f \in clocks' => f \in clocks
    /\ lock = f => lock' = f

LEMMA SameJob ==
    ASSUME IInv, NEW f \in Execs, SameFor(f)
    PROVE  Job(f)'
BY DEF IInv, Job, SameFor, Gate, Recording, Handling, Locking

LEMMA SameNode ==
    ASSUME IInv, NEW f \in Execs, rec'[f] = rec[f], run'[f] = run[f], ReadsDown
    PROVE  NodeMoves(f)
<1>1. ~OnWay("prepare", f) => ~OnWay("prepare", f)'
  BY DownReads DEF IInv, Typed
<1> QED
  BY <1>1 DEF IInv, Agreed, PreparedOnce, Preparing, NodeMoves

\* A step about one command.
LEMMA OneCommand ==
    ASSUME IInv, NEW e \in Execs, UNCHANGED hostVars, link' \in {"down", "open", "ready"},
           NodeTyped', SupTyped', ReadsDown, Speaks, Job(e)', NodeMoves(e),
           ran'[e] = ran[e] \/ Guarded(e)', \A f \in Execs \ {e} : SameFor(f)
    PROVE  IInv' /\ Final
<1>1. host' = [f \in Execs |-> host'[f]] /\ fence' = fence /\ \A f \in Execs : RowMoves(f)
  BY SameMoves DEF IInv, Typed, HostTyped, hostVars, RowMoves
<1>2. ASSUME NEW f \in Execs \ {e} PROVE Job(f)' /\ NodeMoves(f) /\ ran'[f] = ran[f]
  <2>1. SameFor(f)
    OBVIOUS
  <2> QED
    BY <2>1, SameJob, SameNode DEF SameFor
<1> QED
  BY <1>1, <1>2, NodeKeeps

\* Only this command's part of the Node's and the supervisors' state changes.
Only(e) ==
    /\ rec' \in [Execs -> Records] /\ run' \in [Execs -> Handlers] /\ sup' \in [Execs -> Sups]
    /\ reading' \in [Execs -> {"no", "heartbeat", "Host"}] /\ stale' \in [Execs -> Receipts]
    /\ \A f \in Execs \ {e} :
          /\ rec'[f] = rec[f] /\ run'[f] = run[f] /\ sup'[f] = sup[f]
          /\ reading'[f] = reading[f] /\ stale'[f] = stale[f]
    /\ revoked \subseteq revoked' /\ revoked' \subseteq Execs /\ clocks' \subseteq clocks \cup {e}
    /\ lock' \in Execs \cup {None, "session"} /\ (lock \in Execs \ {e} => lock' = lock)

LEMMA OnlyKeeps ==
    ASSUME IInv, NEW e \in Execs, Only(e), UNCHANGED <<hostVars, lapsed, ran>>,
           link' \in {"down", "open", "ready"}, ReadsDown, Speaks, Job(e)', NodeMoves(e)
    PROVE  IInv' /\ Final
<1>1. NodeTyped' /\ SupTyped'
  BY DEF IInv, Typed, NodeTyped, SupTyped, Only
<1>2. \A f \in Execs \ {e} : SameFor(f)
  BY DEF Only, SameFor
<1> QED
  BY <1>1, <1>2, OneCommand

\* What is known of a command.
LEMMA Known ==
    ASSUME IInv, NEW e \in Execs
    PROVE  /\ rec \in [Execs -> Records] /\ run \in [Execs -> Handlers] /\ sup \in [Execs -> Sups]
           /\ reading \in [Execs -> {"no", "heartbeat", "Host"}] /\ stale \in [Execs -> Receipts]
           /\ rec[e] \in Records /\ run[e] \in Handlers /\ sup[e] \in Sups
           /\ revoked \subseteq Execs /\ clocks \subseteq Execs
           /\ lock \in Execs \cup {None, "session"} /\ None \notin Execs /\ "session" \notin Execs
           /\ link \in {"down", "open", "ready"}
           /\ Gate(sup[e], ran[e]) /\ Recording(rec[e], sup[e]) /\ Handling(e) /\ Locking(e)
BY CommandAssumption DEF IInv, Typed, NodeTyped, SupTyped, WireTyped, Job, CommandAssumption, None

LEMMA Silence ==
    ASSUME IInv, toHost' = toHost
    PROVE  Speaks
BY DEF IInv, Typed, WireTyped, Speaks

LEMMA Speech ==
    ASSUME IInv, NEW frames \in Seq(UpFrames), \A m \in Range(frames) : Says(m),
           Up(frames) \/ toHost' = frames
    PROVE  Speaks
<1>1. toHost \in Seq(UpFrames)
  BY DEF IInv, Typed, WireTyped
<1>2. toHost \o frames \in Seq(UpFrames) /\ Range(toHost \o frames) = Range(toHost) \cup Range(frames)
  BY <1>1, MoreFrames
<1>3. toHost' \in {toHost, toHost \o frames, frames}
  BY DEF Up
<1>4. toHost' \in Seq(UpFrames)
  BY <1>1, <1>2, <1>3
<1>5. Range(toHost') \subseteq Range(toHost) \cup Range(frames)
  BY <1>2, <1>3
<1> QED
  BY <1>4, <1>5 DEF Speaks

\* A receipt of the record as it is now, or of none that ended.
LEMMA Tells ==
    ASSUME NEW e \in Execs, NEW r, r.st \in States, r.own \in Ownership,
           r.st \in Terminal => rec'[e].st = r.st /\ rec'[e].own = r.own
    PROVE  Receipt(e, r) \in UpFrames /\ Says(Receipt(e, r))
BY DEF Receipt, UpFrames, Says

LEMMA TellSpeaks ==
    ASSUME IInv, NEW e \in Execs, NEW r, r.st \in States, r.own \in Ownership,
           r.st \in Terminal => rec'[e].st = r.st /\ rec'[e].own = r.own, Tell(e, r)
    PROVE  Speaks
<1>1. Receipt(e, r) \in UpFrames /\ Says(Receipt(e, r))
  BY Tells
<1>2. <<Receipt(e, r)>> \in Seq(UpFrames) /\ Range(<<Receipt(e, r)>>) = {Receipt(e, r)}
  BY <1>1, OneFrame
<1> QED
  BY <1>1, <1>2, Speech DEF Tell

LEMMA AcquireStep == ASSUME IInv, NEW e \in Execs, Acquire(e) PROVE IInv' /\ Final
<1>1. /\ run[e] = "admitting" /\ lock = None /\ lock' = e /\ run' = [run EXCEPT ![e] = "leased"]
      /\ UNCHANGED <<toNode, toHost, rec, revoked, clocks, reading, stale, sup, hostVars, link, lapsed, ran>>
  BY DEF Acquire, NodeOnly
<1> USE Known
<1>2. Only(e) /\ run'[e] = "leased"
  BY <1>1 DEF Only, Handlers
<1>3. Job(e)' /\ NodeMoves(e)
  BY <1>1, <1>2 DEF Job, Gate, Recording, Handling, Locking, NodeMoves
<1> QED
  BY <1>1, <1>2, <1>3, OnlyKeeps, Silence DEF ReadsDown

\* What is known of the fields of a record that ends unstarted.
LEMMA NotStartedFields ==
    ASSUME NEW r \in Records, NEW st \in Terminal
    PROVE  /\ NotStarted(r, st) \in Records
           /\ NotStarted(r, st).st = IF Ended(r) THEN r.st ELSE st
           /\ NotStarted(r, st).own = "not_started" /\ ~NotStarted(r, st).leased
           /\ NotStarted(r, st).launch = r.launch /\ NotStarted(r, st).admit = r.admit
BY DEF Records, NotStarted, Ended, Ownership

LEMMA UncertainFields ==
    ASSUME NEW r \in Records
    PROVE  /\ Uncertain(r) \in Records /\ Uncertain(r).st = "reconciliation_required"
           /\ Uncertain(r).own = "unknown" /\ Uncertain(r).leased = r.leased
           /\ Uncertain(r).launch = r.launch /\ Uncertain(r).admit = r.admit
BY DEF Records, Uncertain, Active, Ownership

\* The fields of a record.
LEMMA RecordFields ==
    ASSUME NEW r \in Records
    PROVE  /\ r.st \in States /\ r.own \in Ownership
           /\ r.launch \in BOOLEAN /\ r.admit \in BOOLEAN /\ r.leased \in BOOLEAN
BY DEF Records, States, Unstarted

LEMMA AdmissionFailsStep == ASSUME IInv, NEW e \in Execs, AdmissionFails(e) PROVE IInv' /\ Final
<1> DEFINE r == NotStarted(rec[e], IF e \in revoked THEN "cancelled" ELSE "failed")
<1>1. /\ run[e] \in {"admitting", "leased"} /\ Record(e, r) /\ Tell(e, r) /\ lock' = Unlock(e)
      /\ run' = [run EXCEPT ![e] = "idle"]
      /\ UNCHANGED <<toNode, revoked, clocks, reading, stale, sup, hostVars, link, lapsed, ran>>
  BY DEF AdmissionFails, NodeOnly
<1> USE Known
<1>2. /\ r \in Records /\ r.st \in Terminal /\ (Ended(rec[e]) => r.st = rec[e].st)
      /\ r.own = "not_started" /\ r.launch = rec[e].launch /\ r.admit = rec[e].admit
  BY NotStartedFields DEF Terminal, Ended
<1> HIDE DEF r
<1>3. Only(e) /\ rec'[e] = r /\ run'[e] = "idle"
  BY <1>1, <1>2 DEF Only, Record, Unlock, Handlers
<1>4. Job(e)' /\ NodeMoves(e)
  BY <1>1, <1>2, <1>3 DEF Job, Gate, Recording, Handling, Locking, NodeMoves, Ended, NoRecord, None, Terminal
<1>5. Speaks
  BY <1>1, <1>2, <1>3, RecordFields, TellSpeaks
<1> QED
  BY <1>1, <1>3, <1>4, <1>5, OnlyKeeps DEF ReadsDown

LEMMA LaunchStep == ASSUME IInv, NEW e \in Execs, Launch(e) PROVE IInv' /\ Final
<1> DEFINE r == [rec[e] EXCEPT !.launch = TRUE, !.st = "starting", !.own = "unknown"]
<1>1. /\ run[e] = "leased" /\ e \in clocks /\ e \notin revoked /\ Record(e, r)
      /\ run' = [run EXCEPT ![e] = "intended"]
      /\ UNCHANGED <<toNode, toHost, revoked, lock, clocks, reading, stale, sup, hostVars, link, lapsed, ran>>
  BY DEF Launch, MayStart, NodeOnly
<1> USE Known
<1>2. /\ r \in Records /\ r.st = "starting" /\ r.launch /\ r.admit = rec[e].admit
      /\ r.leased = rec[e].leased
  BY DEF Records, Active, Ownership
<1> HIDE DEF r
<1>3. Only(e) /\ rec'[e] = r /\ run'[e] = "intended"
  BY <1>1, <1>2 DEF Only, Record, Handlers
<1>4. Job(e)' /\ NodeMoves(e)
  BY <1>1, <1>2, <1>3 DEF Job, Gate, Recording, Handling, Locking, NodeMoves, Ended, None, Terminal
<1> QED
  BY <1>1, <1>3, <1>4, OnlyKeeps, Silence DEF ReadsDown

LEMMA SuperviseStep == ASSUME IInv, NEW e \in Execs, Supervise(e) PROVE IInv' /\ Final
<1> DEFINE s == [[sup[e] EXCEPT !.ph = "closed"] EXCEPT !.parent = TRUE]
<1>1. /\ run[e] = "intended" /\ sup' = [sup EXCEPT ![e].ph = "closed", ![e].parent = TRUE]
      /\ run' = [run EXCEPT ![e] = "supervised"]
      /\ UNCHANGED <<toNode, toHost, rec, revoked, lock, clocks, reading, stale, hostVars, link, lapsed, ran>>
  BY DEF Supervise, NodeOnly
<1> USE Known
<1>2. s \in Sups /\ s.ph = "closed" /\ s.result = sup[e].result
  BY DEF Sups
<1>3. sup' = [sup EXCEPT ![e] = s]
  BY <1>1
<1> HIDE DEF s
<1>4. /\ sup' \in [Execs -> Sups] /\ sup'[e] = s /\ \A f \in Execs \ {e} : sup'[f] = sup[f]
      /\ run' \in [Execs -> Handlers] /\ run'[e] = "supervised"
      /\ \A f \in Execs \ {e} : run'[f] = run[f]
  <2>1. sup' \in [Execs -> Sups] /\ sup'[e] = s /\ \A f \in Execs \ {e} : sup'[f] = sup[f]
    BY <1>2, <1>3
  <2>2. run' = [run EXCEPT ![e] = "supervised"] /\ "supervised" \in Handlers
    BY <1>1 DEF Handlers
  <2> QED
    BY <2>1, <2>2
<1>5. Only(e)
  BY <1>1, <1>4 DEF Only
<1>6. Job(e)' /\ NodeMoves(e)
  BY <1>1, <1>2, <1>4 DEF Job, Gate, Recording, Handling, Locking, NodeMoves, Ended, None
<1> QED
  BY <1>1, <1>4, <1>5, <1>6, OnlyKeeps, Silence DEF ReadsDown

LEMMA SuperviseFailsStep == ASSUME IInv, NEW e \in Execs, SuperviseFails(e) PROVE IInv' /\ Final
<1> DEFINE r == Uncertain(rec[e])
           s == [[[sup[e] EXCEPT !.ph = "closed"] EXCEPT !.parent = TRUE] EXCEPT !.cancel = TRUE]
<1>1. /\ run[e] = "intended" /\ Record(e, r) /\ Tell(e, r)
      /\ sup' = sup \/ sup' = [sup EXCEPT ![e].ph = "closed", ![e].parent = TRUE, ![e].cancel = TRUE]
      /\ run' = [run EXCEPT ![e] = "orphaned"]
      /\ UNCHANGED <<toNode, revoked, lock, clocks, reading, stale, hostVars, link, lapsed, ran>>
  BY DEF SuperviseFails, NodeOnly
<1> USE Known
<1>2. s \in Sups /\ s.ph = "closed" /\ s.result = sup[e].result
  BY DEF Sups
<1>3. sup' = sup \/ sup' = [sup EXCEPT ![e] = s]
  BY <1>1
<1>4. /\ r \in Records /\ r.st = "reconciliation_required" /\ r.leased = rec[e].leased
      /\ r.launch = rec[e].launch /\ r.admit = rec[e].admit
  BY UncertainFields
<1> HIDE DEF s, r
<1>5. Only(e) /\ rec'[e] = r /\ sup'[e] \in {sup[e], s} /\ run'[e] = "orphaned"
  BY <1>1, <1>2, <1>3, <1>4 DEF Only, Record, Handlers
<1>6. Job(e)' /\ NodeMoves(e)
  <2>1. rec[e].launch /\ ~Ended(rec[e]) /\ rec[e].st # None /\ ~Ended(r) /\ r.st # None
    BY <1>1, <1>4 DEF Handling, Recording, NoRecord, Ended, None, Terminal
  <2>2. Gate(sup[e], ran[e])' /\ Recording(rec[e], sup[e])'
    <3>1. sup[e].ph = None /\ Gate(sup[e], ran[e]) /\ Gate(s, ran[e])
      BY <1>1, <1>2 DEF Handling, Gate, None
    <3>2. Recording(r, sup[e]) /\ Recording(r, s)
      BY <1>4, <2>1 DEF Recording
    <3> QED
      BY <1>1, <1>5, <3>1, <3>2
  <2>3. Handling(e)' /\ Locking(e)'
    BY <1>1, <1>4, <1>5, <2>1 DEF Handling, Locking
  <2>4. NodeMoves(e)
    BY <1>1, <1>4, <1>5, <2>1 DEF NodeMoves
  <2> QED
    BY <2>2, <2>3, <2>4 DEF Job
<1>7. Speaks
  BY <1>1, <1>4, <1>5, RecordFields, TellSpeaks
<1> QED
  BY <1>1, <1>5, <1>6, <1>7, OnlyKeeps DEF ReadsDown

LEMMA CommitStep == ASSUME IInv, NEW e \in Execs, Commit(e) PROVE IInv' /\ Final
<1> DEFINE r == [rec[e] EXCEPT !.st = "running", !.own = "active"]
<1>1. /\ run[e] = "supervised" /\ Record(e, r) /\ run' = [run EXCEPT ![e] = "committed"]
      /\ UNCHANGED <<toNode, toHost, revoked, lock, clocks, reading, stale, sup, hostVars, link, lapsed, ran>>
  BY DEF Commit, NodeOnly
<1> USE Known
<1>2. /\ r \in Records /\ r.st = "running" /\ r.launch = rec[e].launch /\ r.admit = rec[e].admit
      /\ r.leased = rec[e].leased
  BY DEF Records, Active, Ownership
<1> HIDE DEF r
<1>3. Only(e) /\ rec'[e] = r /\ run'[e] = "committed"
  BY <1>1, <1>2 DEF Only, Record, Handlers
<1>4. Job(e)' /\ NodeMoves(e)
  <2>1. rec[e].launch /\ ~Ended(rec[e]) /\ rec[e].st # None /\ ~Ended(r) /\ r.st # None
    BY <1>1, <1>2 DEF Handling, Recording, NoRecord, Ended, None, Terminal
  <2>2. Gate(sup[e], ran[e])' /\ Recording(rec[e], sup[e])'
    BY <1>1, <1>2, <1>3, <2>1 DEF Gate, Recording, Ended
  <2>3. Handling(e)' /\ Locking(e)'
    BY <1>1, <1>2, <1>3, <2>1 DEF Handling, Locking
  <2>4. NodeMoves(e)
    BY <1>1, <1>2, <1>3, <2>1 DEF NodeMoves
  <2> QED
    BY <2>2, <2>3, <2>4 DEF Job
<1> QED
  BY <1>1, <1>3, <1>4, OnlyKeeps, Silence DEF ReadsDown

LEMMA AbandonStep == ASSUME IInv, NEW e \in Execs, Abandon(e) PROVE IInv' /\ Final
<1> DEFINE r == [rec[e] EXCEPT !.st = "cancelling"]
           s == [sup[e] EXCEPT !.cancel = TRUE]
<1>1. /\ run[e] \in {"supervised", "committed"} /\ sup' = [sup EXCEPT ![e] = s]
      /\ Record(e, r) \/ rec' = rec
      /\ run' = [run EXCEPT ![e] = "waiting"]
      /\ UNCHANGED <<toNode, toHost, revoked, lock, clocks, reading, stale, hostVars, link, lapsed, ran>>
  BY DEF Abandon, NodeOnly
<1> USE Known
<1>2. s \in Sups /\ s.ph = sup[e].ph /\ s.result = sup[e].result
  BY DEF Sups
<1>3. /\ r \in Records /\ r.st = "cancelling" /\ r.launch = rec[e].launch /\ r.admit = rec[e].admit
      /\ r.leased = rec[e].leased
  BY DEF Records, Active
<1> HIDE DEF r, s
<1>4. Only(e) /\ rec'[e] \in {rec[e], r} /\ sup'[e] = s /\ run'[e] = "waiting"
  BY <1>1, <1>2, <1>3 DEF Only, Record, Handlers
<1>5. Job(e)' /\ NodeMoves(e)
  <2>1. rec[e].launch /\ ~Ended(rec[e]) /\ rec[e].st # None /\ ~Ended(r) /\ r.st # None
    BY <1>1, <1>3 DEF Handling, Recording, NoRecord, Ended, None, Terminal
  <2>2. Gate(sup[e], ran[e])' /\ Recording(rec[e], sup[e])'
    <3>1. Gate(s, ran[e])
      BY <1>2 DEF Gate
    <3>2. Recording(rec[e], s)
      BY <1>2 DEF Recording
    <3>3. Recording(r, s)
      BY <1>3, <2>1, <3>2 DEF Recording
    <3> QED
      BY <1>1, <1>4, <3>1, <3>2, <3>3
  <2>3. Handling(e)' /\ Locking(e)'
    BY <1>1, <1>3, <1>4, <2>1 DEF Handling, Locking
  <2>4. NodeMoves(e)
    BY <1>1, <1>3, <1>4, <2>1 DEF NodeMoves
  <2> QED
    BY <2>2, <2>3, <2>4 DEF Job
<1> QED
  BY <1>1, <1>4, <1>5, OnlyKeeps, Silence DEF ReadsDown

LEMMA ReleaseStep == ASSUME IInv, NEW e \in Execs, Release(e) PROVE IInv' /\ Final
<1> DEFINE s == [sup[e] EXCEPT !.release = TRUE]
<1>1. /\ run[e] = "committed" /\ sup' = [sup EXCEPT ![e] = s] /\ Tell(e, rec[e])
      /\ run' = [run EXCEPT ![e] = "waiting"]
      /\ UNCHANGED <<toNode, rec, revoked, lock, clocks, reading, stale, hostVars, link, lapsed, ran>>
  BY DEF Release, NodeOnly
<1> USE Known
<1>2. s \in Sups /\ s.ph = sup[e].ph /\ s.result = sup[e].result
  BY DEF Sups
<1> HIDE DEF s
<1>3. Only(e) /\ rec'[e] = rec[e] /\ sup'[e] = s /\ run'[e] = "waiting"
  BY <1>1, <1>2 DEF Only, Handlers
<1>4. Job(e)' /\ NodeMoves(e)
  BY <1>1, <1>2, <1>3 DEF Job, Gate, Recording, Handling, Locking, NodeMoves
<1>5. Speaks
  BY <1>1, <1>3, RecordFields, TellSpeaks
<1> QED
  BY <1>1, <1>3, <1>4, <1>5, OnlyKeeps DEF ReadsDown

\* What a supervisor's receipt makes of the record of a command it held.
LEMMA FinishedFields ==
    ASSUME NEW r \in Records, NEW s \in Sups, NEW n, Gate(s, n), s.result # NoResult
    PROVE  /\ Finished(r, s.result) \in Records
           /\ Finished(r, s.result).launch = r.launch /\ Finished(r, s.result).admit = r.admit
           /\ s.result.quiet =>
                 /\ Finished(r, s.result).st \in Terminal /\ ~Finished(r, s.result).leased
                 /\ Finished(r, s.result).own = IF s.result.started THEN "quiescent" ELSE "not_started"
                 /\ s.ph = "gone"
           /\ ~s.result.quiet =>
                 /\ Finished(r, s.result).st = "reconciliation_required"
                 /\ Finished(r, s.result).leased = r.leased
<1> DEFINE p == s.result
           o == Outcome(p)
           own == IF p.started THEN "quiescent" ELSE "not_started"
<1>1. p \in Results /\ p.why # None
  BY DEF Sups, Gate
<1>2. p.why \in {"ended", "cancelled", "start_expired", "broken"} /\ p.started \in BOOLEAN
      /\ p.quiet \in BOOLEAN
  BY <1>1 DEF Results
<1>3. o \in Terminal
  BY <1>2 DEF Outcome, Terminal
<1>4. own \in Ownership
  BY DEF Ownership
<1>5. p.quiet => s.ph = "gone"
  BY DEF Gate
<1> HIDE DEF p, o
<1>6. CASE p.quiet
  <2>1. Finished(r, p) = [r EXCEPT !.st = o, !.leased = FALSE, !.own = own]
    BY <1>6 DEF Finished, o
  <2>2. /\ Finished(r, p) \in Records /\ Finished(r, p).st = o /\ ~Finished(r, p).leased
        /\ Finished(r, p).own = own /\ Finished(r, p).launch = r.launch
        /\ Finished(r, p).admit = r.admit
    BY <1>3, <1>4, <2>1 DEF Records
  <2> QED
    BY <1>3, <1>5, <1>6, <2>2 DEF p
<1>7. CASE ~p.quiet
  <2>1. Finished(r, p) = Uncertain(r)
    BY <1>7 DEF Finished
  <2> QED
    BY <1>7, <2>1, UncertainFields DEF p
<1> QED
  BY <1>6, <1>7

\* The job of a command that a supervisor's receipt settles, or none.
LEMMA SettledJob ==
    ASSUME IInv, NEW e \in Execs, rec[e].launch, ~Ended(rec[e]), reading'[e] = "no",
           stale'[e] \in {stale[e], NoReceipt},
           rec'[e] = IF Proof(e) = NoResult THEN Uncertain(rec[e]) ELSE Finished(rec[e], Proof(e)),
           run'[e] \in {"idle", "orphaned"}, UNCHANGED <<sup, ran, clocks, revoked>>,
           rec'[e].leased => lock' = lock
    PROVE  Job(e)' /\ NodeMoves(e) /\ rec'[e] \in Records
<1> USE Known
<1>1. CASE Proof(e) = NoResult
  <2>1. /\ rec'[e] \in Records /\ rec'[e].st = "reconciliation_required" /\ rec'[e].launch
        /\ rec'[e].admit = rec[e].admit /\ rec'[e].leased = rec[e].leased
    BY <1>1, UncertainFields
  <2>2. rec[e].leased /\ rec[e].st # None
    BY DEF Recording, NoRecord
  <2>3. Gate(sup[e], ran[e])' /\ Recording(rec[e], sup[e])'
    BY <2>1, <2>2 DEF Recording, Ended, Terminal, None
  <2>4. Handling(e)' /\ Locking(e)'
    <3>1. stale[e].st \notin Terminal /\ NoReceipt.st \notin Terminal
      BY DEF Handling, NoReceipt, None, Terminal
    <3>2. rec'[e].st # None /\ lock = e
      BY <2>1 DEF Locking, None, Terminal
    <3>3. Handling(e)'
      BY <3>1, <3>2 DEF Handling
    <3>4. Locking(e)'
      BY <2>1, <2>2, <3>2 DEF Locking, Ended
    <3> QED
      BY <3>3, <3>4
  <2>5. NodeMoves(e)
    BY <2>1, <2>2 DEF NodeMoves
  <2> QED
    BY <2>1, <2>3, <2>4, <2>5 DEF Job
<1>2. CASE Proof(e) # NoResult
  <2> DEFINE p == Proof(e)
  <2>1. /\ rec'[e] \in Records /\ rec'[e].launch /\ rec'[e].admit = rec[e].admit
        /\ p.quiet =>
              /\ rec'[e].st \in Terminal /\ ~rec'[e].leased /\ sup[e].ph = "gone"
              /\ rec'[e].own = IF p.started THEN "quiescent" ELSE "not_started"
        /\ ~p.quiet =>
              rec'[e].st = "reconciliation_required" /\ rec'[e].leased = rec[e].leased
    BY <1>2, FinishedFields DEF Proof
  <2>2. rec[e].leased /\ rec[e].st # None
    BY DEF Recording, NoRecord
  <2>3. Gate(sup[e], ran[e])' /\ Recording(rec[e], sup[e])'
    BY <2>1, <2>2 DEF Recording, Ended, Terminal, None, Proof
  <2>4. Handling(e)' /\ Locking(e)'
    <3>1. stale[e].st \notin Terminal /\ NoReceipt.st \notin Terminal
      BY DEF Handling, NoReceipt, None, Terminal
    <3>2. rec'[e].st # None /\ lock = e
      BY <2>1 DEF Locking, None, Terminal
    <3>3. Handling(e)'
      BY <3>1, <3>2 DEF Handling
    <3>4. Locking(e)'
      BY <2>1, <2>2, <3>2 DEF Locking, Ended
    <3> QED
      BY <3>3, <3>4
  <2>5. NodeMoves(e)
    BY <2>1, <2>2 DEF NodeMoves
  <2> QED
    BY <2>1, <2>3, <2>4, <2>5 DEF Job
<1> QED
  BY <1>1, <1>2

LEMMA SettleStep == ASSUME IInv, NEW e \in Execs, Settle(e) PROVE IInv' /\ Final
<1> DEFINE r == IF Proof(e) = NoResult THEN Uncertain(rec[e]) ELSE Finished(rec[e], Proof(e))
<1>1. /\ HasProcess(e) /\ Record(e, r) /\ Tell(e, r)
      /\ run' = [run EXCEPT ![e] = run'[e]] /\ run'[e] \in {"idle", "orphaned"}
      /\ lock' \in {lock, Unlock(e)} /\ (lock' # lock => Proof(e) # NoResult /\ Proof(e).quiet)
      /\ UNCHANGED <<toNode, revoked, clocks, reading, stale, sup, hostVars, link, lapsed, ran>>
  <2>1. run \in [Execs -> Handlers]
    BY Known
  <2>2. CASE /\ Proof(e) # NoResult
             /\ LET q == Finished(rec[e], Proof(e)) IN Record(e, q) /\ Tell(e, q)
             /\ lock' = IF Proof(e).quiet THEN Unlock(e) ELSE lock
             /\ run' = [run EXCEPT ![e] = IF Proof(e).quiet THEN "idle" ELSE "orphaned"]
    BY <2>1, <2>2 DEF Settle, NodeOnly
  <2>3. CASE /\ Proof(e) = NoResult /\ Record(e, Uncertain(rec[e])) /\ Tell(e, Uncertain(rec[e]))
             /\ run' = [run EXCEPT ![e] = "orphaned"] /\ UNCHANGED lock
    BY <2>1, <2>3 DEF Settle, NodeOnly
  <2> QED
    BY <2>2, <2>3 DEF Settle
<1> USE Known
<1>2. rec[e].launch /\ ~Ended(rec[e]) /\ reading[e] = "no"
  BY <1>1 DEF HasProcess, Handling
<1>3. rec'[e] = r
  BY <1>1 DEF Record
<1>4. rec'[e].leased => lock' = lock
  BY <1>1, <1>3, FinishedFields DEF Proof
<1>5. Job(e)' /\ NodeMoves(e) /\ r \in Records
  BY <1>1, <1>2, <1>3, <1>4, SettledJob
<1> HIDE DEF r
<1>6. Only(e)
  BY <1>1, <1>5 DEF Only, Record, Unlock, Handlers
<1>7. Speaks
  BY <1>1, <1>3, <1>5, RecordFields, TellSpeaks
<1> QED
  BY <1>1, <1>5, <1>6, <1>7, OnlyKeeps DEF ReadsDown

LEMMA RecoverBeginStep == ASSUME IInv, NEW e \in Execs, RecoverBegin(e) PROVE IInv' /\ Final
<1>1. /\ Readable(e) /\ reading' = [reading EXCEPT ![e] = "heartbeat"]
      /\ UNCHANGED <<toNode, toHost, rec, revoked, lock, run, clocks, stale, sup, hostVars, link, lapsed, ran>>
  BY DEF RecoverBegin, NodeOnly
<1> USE Known
<1>2. Only(e)
  BY <1>1 DEF Only
<1>3. Job(e)' /\ NodeMoves(e)
  BY <1>1 DEF Job, Handling, Locking, Readable, NodeMoves
<1> QED
  BY <1>1, <1>2, <1>3, OnlyKeeps, Silence DEF ReadsDown

LEMMA RecoverEndStep == ASSUME IInv, NEW e \in Execs, RecoverEnd(e) PROVE IInv' /\ Final
<1> DEFINE r == Recovered(e, rec[e])
           A == IF reading[e] = "Host" \/ Proof(e) # NoResult THEN <<Receipt(e, r)>> ELSE <<>>
           B == IF stale[e] = NoReceipt THEN <<>> ELSE <<Receipt(e, stale[e])>>
<1>1. /\ reading[e] # "no" /\ reading' = [reading EXCEPT ![e] = "no"]
      /\ Record(e, r) /\ Up(A \o B) /\ lock' = IF r.leased THEN lock ELSE Unlock(e)
      /\ run' = [run EXCEPT ![e] = IF r.leased THEN @ ELSE "idle"]
      /\ stale' = [stale EXCEPT ![e] = NoReceipt]
      /\ UNCHANGED <<toNode, revoked, clocks, sup, hostVars, link, lapsed, ran>>
  BY DEF RecoverEnd, NodeOnly
<1> USE Known
<1>2. rec[e].launch /\ ~Ended(rec[e]) /\ run[e] \in {"idle", "orphaned"} /\ stale[e].st \notin Terminal
  BY <1>1 DEF Handling
<1>3. r = IF Proof(e) = NoResult THEN Uncertain(rec[e]) ELSE Finished(rec[e], Proof(e))
  BY <1>2 DEF Recovered
<1>4. NoReceipt \in Receipts
  BY DEF NoReceipt, Receipts, Ownership, None
<1> HIDE DEF r
<1>5. /\ rec'[e] = r /\ run'[e] \in {"idle", "orphaned"} /\ reading'[e] = "no"
      /\ stale'[e] = NoReceipt /\ (r.leased => lock' = lock)
  BY <1>1, <1>2 DEF Record
<1>6. Job(e)' /\ NodeMoves(e) /\ r \in Records
  BY <1>1, <1>2, <1>3, <1>5, SettledJob
<1>7. Only(e)
  BY <1>1, <1>2, <1>4, <1>6 DEF Only, Record, Unlock, Handlers
<1>8. Speaks
  <2>1. r.st \in States /\ r.own \in Ownership /\ stale[e].st \in States /\ stale[e].own \in Ownership
    BY <1>6, RecordFields DEF Receipts, States
  <2>2. /\ Receipt(e, r) \in UpFrames /\ Says(Receipt(e, r))
        /\ Receipt(e, stale[e]) \in UpFrames /\ Says(Receipt(e, stale[e]))
    BY <1>2, <1>5, <2>1, Tells
  <2>3. /\ A \in Seq(UpFrames) /\ Range(A) \subseteq {Receipt(e, r)}
        /\ B \in Seq(UpFrames) /\ Range(B) \subseteq {Receipt(e, stale[e])}
    BY <2>2, OneFrame, NoFrames
  <2>4. A \o B \in Seq(UpFrames) /\ Range(A \o B) = Range(A) \cup Range(B)
    BY <2>3, MoreFrames
  <2> HIDE DEF A, B
  <2>5. \A m \in Range(A \o B) : Says(m)
    BY <2>2, <2>3, <2>4
  <2> QED
    BY <1>1, <2>4, <2>5, Speech
<1> QED
  BY <1>1, <1>6, <1>7, <1>8, OnlyKeeps DEF ReadsDown

LEMMA PrepareStep == ASSUME IInv, NEW e \in Execs, Prepare(e) PROVE IInv' /\ Final
<1> DEFINE r == IF e \in revoked THEN [NoRecord EXCEPT !.st = "cancelled"]
                ELSE [NoRecord EXCEPT !.st = "awaiting_approval"]
           B == IF e \in revoked THEN <<Receipt(e, r)>> ELSE <<>>
           answer(ok) == [k |-> "prepared", e |-> e, ok |-> ok]
<1>1. /\ run[e] = "preparing" /\ run' = [run EXCEPT ![e] = "idle"]
      /\ UNCHANGED <<toNode, revoked, lock, reading, stale, sup, hostVars, link, lapsed, ran>>
  BY DEF Prepare, NodeOnly
<1> USE Known
<1>2. rec[e].st = None /\ rec[e] = NoRecord /\ sup[e].ph = None /\ reading[e] = "no"
  <2>1. rec[e].st = None /\ rec[e] = NoRecord
    BY <1>1 DEF Handling, Recording
  <2> QED
    BY <1>1, <2>1 DEF Handling, Recording, NoRecord
<1>3. ~OnWay("prepare", e) /\ host[e].st # None
  BY <1>1 DEF IInv, Agreed, PreparedOnce, Preparing, None, Terminal
<1>4. /\ r \in Records /\ r.st \in {"cancelled", "awaiting_approval"} /\ r.own = "not_started"
      /\ ~r.launch /\ ~r.admit /\ r.st # None
  BY <1>2 DEF NoRecord, Records, Terminal, None
<1>5. run'[e] = "idle" /\ ~OnWay("prepare", e)' /\ ~Preparing(e)'
  BY <1>1, <1>3 DEF OnWay, Preparing
<1>6. \A ok \in BOOLEAN : answer(ok) \in UpFrames /\ Says(answer(ok))
  BY <1>3, <1>5 DEF UpFrames, Says, OnWay
<1> HIDE DEF r
<1>7. CASE Record(e, r) /\ clocks' = clocks \cup {e} /\ Up(<<answer(TRUE)>> \o B)
  <2>1. rec'[e] = r
    BY <1>7 DEF Record
  <2>2. Only(e)
    BY <1>1, <1>4, <1>7 DEF Only, Record, Handlers
  <2>3. Job(e)' /\ NodeMoves(e)
    BY <1>1, <1>2, <1>3, <1>4, <1>5, <2>1
       DEF Job, Gate, Recording, Handling, Locking, NodeMoves, Ended, None, Terminal
  <2>4. Speaks
    <3>1. r.st \in States /\ r.own \in Ownership
      BY <1>4, RecordFields
    <3>2. Receipt(e, r) \in UpFrames /\ Says(Receipt(e, r))
      BY <2>1, <3>1, Tells
    <3>3. /\ <<answer(TRUE)>> \in Seq(UpFrames) /\ Range(<<answer(TRUE)>>) = {answer(TRUE)}
          /\ B \in Seq(UpFrames) /\ Range(B) \subseteq {Receipt(e, r)}
      BY <1>6, <3>2, OneFrame, NoFrames
    <3> HIDE DEF B
    <3>4. /\ <<answer(TRUE)>> \o B \in Seq(UpFrames)
          /\ Range(<<answer(TRUE)>> \o B) = Range(<<answer(TRUE)>>) \cup Range(B)
      BY <3>3, MoreFrames
    <3>5. \A m \in Range(<<answer(TRUE)>> \o B) : m = answer(TRUE) \/ m = Receipt(e, r)
      BY <3>3, <3>4
    <3>6. Says(answer(TRUE))
      BY <1>6
    <3> QED
      BY <1>7, <3>2, <3>4, <3>5, <3>6, Speech
  <2> QED
    BY <1>1, <2>2, <2>3, <2>4, OnlyKeeps DEF ReadsDown
<1>8. CASE Up(<<answer(FALSE)>>) /\ UNCHANGED <<rec, clocks>>
  <2>1. Only(e)
    BY <1>1, <1>8 DEF Only, Handlers
  <2>2. Job(e)' /\ NodeMoves(e)
    BY <1>1, <1>2, <1>5, <1>8 DEF Job, Handling, Locking, NodeMoves
  <2>3. Speaks
    <3>1. answer(FALSE) \in UpFrames /\ Says(answer(FALSE))
      BY <1>6
    <3>2. <<answer(FALSE)>> \in Seq(UpFrames) /\ Range(<<answer(FALSE)>>) = {answer(FALSE)}
      BY <3>1, OneFrame
    <3> QED
      BY <1>8, <3>1, <3>2, Speech
  <2> QED
    BY <1>1, <2>1, <2>2, <2>3, OnlyKeeps DEF ReadsDown
<1> QED
  BY <1>7, <1>8 DEF Prepare, r

LEMMA NodeWorksStep == ASSUME IInv, NEW e \in Execs, NodeWorks(e) PROVE IInv' /\ Final
BY PrepareStep, AcquireStep, AdmissionFailsStep, LaunchStep, SuperviseStep, SuperviseFailsStep,
   CommitStep, AbandonStep, ReleaseStep, SettleStep, RecoverBeginStep, RecoverEndStep DEF NodeWorks

\* The frame the Node reads.
LEMMA DownHead ==
    ASSUME IInv, NEW k \in {"prepare", "start", "cancel", "reconcile", "ack"}, Arrives(k), Took
    PROVE  /\ Head(toNode).e \in Execs /\ ReadsDown
           /\ \A e \in Execs : k = "prepare" /\ e = Head(toNode).e =>
                 OnWay("prepare", e) /\ ~OnWay("prepare", e)'
           /\ \A e \in Execs : k = "start" /\ e = Head(toNode).e =>
                 OnWay("start", e) /\ ~OnWay("start", e)'
<1> DEFINE m == Head(toNode)
<1>1. toNode \in Seq(DownFrames) /\ toNode # <<>> /\ m.k = k /\ toNode' = Tail(toNode)
  BY DEF IInv, Typed, WireTyped, Arrives, Took
<1>2. m \in DownFrames /\ m \in Range(toNode)
      /\ \A n : Once(toNode, n) => (m = n => n \notin Range(Tail(toNode)))
  BY <1>1, TailFrames
<1> HIDE DEF m
<1>3. m.e \in Execs /\ (k # "ack" => m = Frame(k, m.e))
  BY <1>1, <1>2, DownFields
<1>4. ASSUME NEW n, Once(toNode, n), m = n PROVE n \in Range(toNode) /\ n \notin Range(toNode')
  BY <1>1, <1>2, <1>4
<1>5. ASSUME NEW e \in Execs, e = m.e, k = "prepare"
      PROVE  OnWay("prepare", e) /\ ~OnWay("prepare", e)'
  BY <1>3, <1>4, <1>5 DEF OnWay, IInv, Agreed, PreparedOnce
<1>6. ASSUME NEW e \in Execs, e = m.e, k = "start"
      PROVE  OnWay("start", e) /\ ~OnWay("start", e)'
  BY <1>3, <1>4, <1>6 DEF OnWay, IInv, Agreed, StartedOnce
<1> QED
  BY <1>1, <1>3, <1>5, <1>6 DEF ReadsDown, m

LEMMA StartArrivesStep ==
    ASSUME IInv, StartArrives, NEW e \in Execs, e = Head(toNode).e
    PROVE  IInv' /\ Final
<1> DEFINE r == NotStarted(rec[e], IF e \in lapsed THEN "expired" ELSE "failed")
           a == [[rec[e] EXCEPT !.admit = TRUE] EXCEPT !.leased = TRUE]
<1>1. /\ Arrives("start") /\ Took
      /\ UNCHANGED <<link, revoked, lock, clocks, reading, stale, sup, hostVars, lapsed, ran>>
  BY DEF StartArrives, NodeFrame
<1>2. ReadsDown /\ OnWay("start", e) /\ ~OnWay("start", e)'
  BY <1>1, DownHead
<1> USE Known
<1>3. host[e].began /\ ~rec[e].admit /\ ~Preparing(e) /\ host[e].st # None
  BY <1>2 DEF IInv, Agreed, StartedOnce, PreparedOnce, Sane
<1>4. /\ ~OnWay("prepare", e)' /\ run[e] \notin {"preparing", "admitting", "leased"}
  BY <1>2, <1>3, DownReads DEF Preparing, Handling, IInv, Typed
<1>5. CASE Tell(e, rec[e]) /\ UNCHANGED <<rec, run>>
  <2>1. Only(e) /\ Job(e)' /\ NodeMoves(e)
    BY <1>1, <1>2, <1>4, <1>5 DEF Only, Job, Handling, Locking, NodeMoves
  <2>2. Speaks
    BY <1>2, <1>5, RecordFields, TellSpeaks
  <2> QED
    BY <1>1, <1>2, <2>1, <2>2, OnlyKeeps
<1>6. CASE ~rec[e].launch /\ ~Ended(rec[e]) /\ Record(e, r) /\ Tell(e, r) /\ UNCHANGED run
  <2>1. /\ r \in Records /\ r.st \in Terminal /\ r.own = "not_started" /\ ~r.launch /\ ~r.admit
    BY <1>2, <1>3, <1>6, NotStartedFields DEF Terminal
  <2> HIDE DEF r
  <2>2. Only(e) /\ rec'[e] = r
    BY <1>1, <1>2, <1>6, <2>1 DEF Only, Record
  <2>3. Gate(sup[e], ran[e])' /\ Recording(rec[e], sup[e])'
    BY <1>1, <1>2, <1>6, <2>1, <2>2 DEF Gate, Recording, None, Terminal
  <2>4. Handling(e)' /\ Locking(e)' /\ NodeMoves(e)
    BY <1>1, <1>2, <1>3, <1>4, <1>6, <2>1, <2>2 DEF Handling, Locking, NodeMoves, None, Terminal
  <2>5. Speaks
    BY <1>2, <1>6, <2>1, <2>2, RecordFields, TellSpeaks
  <2> QED
    BY <1>1, <1>2, <2>2, <2>3, <2>4, <2>5, OnlyKeeps DEF Job
<1>7. CASE /\ ~rec[e].launch /\ ~Ended(rec[e]) /\ MayStart(e) /\ ~Busy /\ Record(e, a)
           /\ run' = [run EXCEPT ![e] = "admitting"] /\ UNCHANGED toHost
  <2>1. e \in clocks /\ run[e] = "idle" /\ rec[e].st # None /\ reading[e] = "no"
    BY <1>2, <1>4, <1>7 DEF MayStart, Busy, Handling
  <2>2. /\ a \in Records /\ a.st = rec[e].st /\ a.own = rec[e].own /\ ~a.launch /\ a.admit /\ a.leased
    BY <1>2, <1>7 DEF Records
  <2> HIDE DEF a
  <2>3. Only(e) /\ rec'[e] = a /\ run'[e] = "admitting"
    BY <1>1, <1>2, <1>7, <2>2 DEF Only, Record, Handlers
  <2>4. Gate(sup[e], ran[e])' /\ Recording(rec[e], sup[e])'
    BY <1>1, <1>2, <1>7, <2>1, <2>2, <2>3 DEF Gate, Recording
  <2>5. Handling(e)' /\ Locking(e)' /\ NodeMoves(e)
    BY <1>1, <1>2, <1>3, <1>4, <1>7, <2>1, <2>2, <2>3 DEF Handling, Locking, NodeMoves, Ended
  <2> QED
    BY <1>1, <1>2, <1>7, <2>3, <2>4, <2>5, OnlyKeeps, Silence DEF Job
<1> QED
  BY <1>5, <1>6, <1>7 DEF StartArrives

\* What a cancellation writes.
LEMMA CancelFields ==
    /\ \A u \in Sups : LET s == [u EXCEPT !.cancel = TRUE]
                       IN  s \in Sups /\ s.ph = u.ph /\ s.result = u.result
    /\ \A u \in Records : LET r == [u EXCEPT !.st = "cancelled", !.own = "not_started"]
                          IN  /\ r \in Records /\ r.st = "cancelled" /\ r.own = "not_started"
                              /\ r.launch = u.launch /\ r.admit = u.admit /\ r.leased = u.leased
BY DEF Sups, Records, Terminal, Ownership

LEMMA CancelArrivesStep ==
    ASSUME IInv, CancelArrives, NEW e \in Execs, e = Head(toNode).e
    PROVE  IInv' /\ Final
<1> DEFINE r == CancelledRecord(rec[e])
           s == [sup[e] EXCEPT !.cancel = TRUE]
<1>1. /\ Arrives("cancel") /\ Took /\ revoked' = revoked \cup {e}
      /\ UNCHANGED <<link, lock, run, clocks, reading, stale, hostVars, lapsed, ran>>
  BY DEF CancelArrives, NodeFrame
<1>2. ReadsDown /\ (~OnWay("prepare", e) => ~OnWay("prepare", e)')
  BY <1>1, DownHead, DownReads DEF IInv, Typed
<1> USE Known
<1>3. CASE rec[e].st = None /\ UNCHANGED <<rec, toHost, sup>>
  <2>1. Only(e)
    BY <1>1, <1>3 DEF Only
  <2>2. Job(e)' /\ NodeMoves(e)
    BY <1>1, <1>2, <1>3, SameNode DEF Job, Handling, Locking
  <2> QED
    BY <1>1, <1>2, <1>3, <2>1, <2>2, OnlyKeeps, Silence
<1>4. CASE /\ rec[e].st # None /\ Record(e, r)
           /\ \/ sup' = [sup EXCEPT ![e] = s] /\ UNCHANGED toHost
              \/ Tell(e, r) /\ UNCHANGED sup
  <2>1. /\ r \in Records /\ r.launch = rec[e].launch /\ r.admit = rec[e].admit
        /\ r.leased = rec[e].leased /\ r.st # None
        /\ Ended(r) = (Ended(rec[e]) \/ ~rec[e].launch)
        /\ Ended(rec[e]) => r = rec[e]
        /\ ~rec[e].launch => r.own = "not_started"
        /\ rec[e].launch /\ ~Ended(rec[e]) => r.st = "cancelling"
    <3>1. CASE Ended(rec[e])
      BY <1>4, <3>1 DEF CancelledRecord, Recording
    <3>2. CASE ~Ended(rec[e]) /\ rec[e].launch
      <4>1. r = [rec[e] EXCEPT !.st = "cancelling"]
        BY <3>2 DEF CancelledRecord
      <4> HIDE DEF r
      <4>2. /\ r \in Records /\ r.st = "cancelling" /\ r.launch = rec[e].launch
            /\ r.admit = rec[e].admit /\ r.leased = rec[e].leased
        BY <4>1 DEF Records, Active
      <4> QED
        BY <3>2, <4>2 DEF Ended, Terminal, None
    <3>3. CASE ~Ended(rec[e]) /\ ~rec[e].launch
      <4>1. r = [rec[e] EXCEPT !.st = "cancelled", !.own = "not_started"]
        BY <3>3 DEF CancelledRecord
      <4> HIDE DEF r
      <4>2. /\ r \in Records /\ r.st = "cancelled" /\ r.own = "not_started"
            /\ r.launch = rec[e].launch /\ r.admit = rec[e].admit /\ r.leased = rec[e].leased
        BY <4>1, CancelFields
      <4> QED
        BY <3>3, <4>2 DEF Ended, Terminal, None
    <3> QED
      BY <3>1, <3>2, <3>3
  <2>2. s \in Sups /\ s.ph = sup[e].ph /\ s.result = sup[e].result
    BY CancelFields
  <2> HIDE DEF r, s
  <2>3. Only(e) /\ rec'[e] = r /\ sup'[e] \in {sup[e], s}
    BY <1>1, <1>4, <2>1, <2>2 DEF Only, Record
  <2>4. Gate(sup[e], ran[e])'
    BY <1>1, <2>2, <2>3 DEF Gate
  <2>5. Recording(r, sup[e]) /\ Recording(r, s)
    <3>1. Recording(rec[e], sup[e])
      OBVIOUS
    <3>2. CASE Ended(rec[e])
      BY <2>1, <2>2, <3>1, <3>2 DEF Recording
    <3>3. CASE ~Ended(rec[e]) /\ rec[e].launch
      <4>1. r.launch /\ r.admit /\ r.leased /\ ~Ended(r) /\ r.st # None /\ r.st # "awaiting_approval"
        BY <2>1, <3>1, <3>3 DEF Recording, Ended
      <4> QED
        BY <4>1 DEF Recording
    <3>4. CASE ~Ended(rec[e]) /\ ~rec[e].launch
      BY <2>1, <2>2, <3>1, <3>4 DEF Recording, Ended
    <3> QED
      BY <3>2, <3>3, <3>4
  <2>6. Handling(e)' /\ Locking(e)' /\ NodeMoves(e)
    <3>1. Locking(e)'
      BY <1>1, <2>1, <2>3 DEF Locking
    <3>2. rec'[e] = r /\ sup'[e].ph = sup[e].ph /\ e \in revoked' /\ clocks' = clocks
          /\ run' = run /\ reading' = reading /\ stale' = stale
      BY <1>1, <2>2, <2>3
    <3>3. Handling(e)'
      BY <1>4, <2>1, <3>2 DEF Handling
    <3>4. NodeMoves(e)
      BY <1>1, <1>2, <1>4, <2>1, <2>3 DEF NodeMoves, Handling
    <3> QED
      BY <3>1, <3>3, <3>4
  <2>7. Job(e)'
    BY <2>3, <2>4, <2>5, <2>6 DEF Job
  <2>8. Speaks
    BY <1>4, <2>1, <2>3, RecordFields, TellSpeaks, Silence
  <2> QED
    BY <1>1, <1>2, <2>3, <2>6, <2>7, <2>8, OnlyKeeps
<1> QED
  BY <1>3, <1>4 DEF CancelArrives

LEMMA AckArrivesStep ==
    ASSUME IInv, AckArrives, NEW e \in Execs, e = Head(toNode).e
    PROVE  IInv' /\ Final
<1>1. /\ Arrives("ack") /\ Took
      /\ UNCHANGED <<link, toHost, revoked, lock, run, clocks, reading, stale, sup, hostVars, lapsed, ran>>
  BY DEF AckArrives, NodeFrame
<1>2. ReadsDown /\ (~OnWay("prepare", e) => ~OnWay("prepare", e)')
  BY <1>1, DownHead, DownReads DEF IInv, Typed
<1> USE Known
<1> DEFINE a == \/ rec[e].acked
                \/ /\ Head(toNode).terminal /\ Ended(rec[e])
                   /\ rec[e].own \in {"not_started", "quiescent"}
<1>3. /\ rec' = [rec EXCEPT ![e].acked = a] /\ a \in BOOLEAN
      /\ ~Ended(rec[e]) => a = rec[e].acked
  <2>1. rec[e].acked \in BOOLEAN
    BY DEF Records
  <2> QED
    BY <2>1 DEF AckArrives
<1> HIDE DEF a
<1> DEFINE r == [rec[e] EXCEPT !.acked = a]
<1>4. /\ r \in Records /\ r.st = rec[e].st /\ r.own = rec[e].own /\ r.launch = rec[e].launch
      /\ r.admit = rec[e].admit /\ r.leased = rec[e].leased
  BY <1>3 DEF Records
<1>5. rec' = [rec EXCEPT ![e] = r]
  BY <1>3
<1> HIDE DEF r
<1>6. Only(e) /\ rec'[e] = r
  BY <1>1, <1>4, <1>5 DEF Only
<1>7. Recording(r, sup[e])
  <2>1. CASE rec[e].st # None
    BY <1>4, <2>1 DEF Recording, Ended
  <2>2. CASE rec[e].st = None
    <3>1. a = rec[e].acked
      BY <1>3, <2>2 DEF Ended, Terminal, None
    <3>2. r = rec[e]
      BY <3>1 DEF r, Records
    <3> QED
      BY <3>2
  <2> QED
    BY <2>1, <2>2
<1>8. Job(e)' /\ NodeMoves(e)
  BY <1>1, <1>2, <1>4, <1>6, <1>7 DEF Job, Handling, Locking, NodeMoves, Ended, IInv, Agreed, PreparedOnce, Preparing
<1> QED
  BY <1>1, <1>2, <1>6, <1>8, OnlyKeeps, Silence

LEMMA ReconcileArrivesStep ==
    ASSUME IInv, ReconcileArrives, NEW e \in Execs, e = Head(toNode).e
    PROVE  IInv' /\ Final
<1> DEFINE t == [st |-> rec[e].st, own |-> rec[e].own]
<1>1. /\ Arrives("reconcile") /\ Took
      /\ UNCHANGED <<link, rec, revoked, lock, run, clocks, sup, hostVars, lapsed, ran>>
  BY DEF ReconcileArrives, NodeFrame
<1>2. ReadsDown /\ (~OnWay("prepare", e) => ~OnWay("prepare", e)')
  BY <1>1, DownHead, DownReads DEF IInv, Typed
<1> USE Known
<1>3. NodeMoves(e)
  BY <1>1, <1>2, SameNode
<1>4. CASE Tell(e, rec[e]) /\ UNCHANGED <<reading, stale>>
  <2>1. Only(e) /\ Job(e)'
    BY <1>1, <1>4 DEF Only, Job, Handling, Locking
  <2>2. Speaks
    BY <1>1, <1>4, RecordFields, TellSpeaks
  <2> QED
    BY <1>1, <1>2, <1>3, <2>1, <2>2, OnlyKeeps
<1>5. CASE Readable(e) /\ reading' = [reading EXCEPT ![e] = "Host"] /\ UNCHANGED <<stale, toHost>>
  <2>1. Only(e) /\ Job(e)'
    BY <1>1, <1>5 DEF Only, Job, Handling, Locking, Readable
  <2> QED
    BY <1>1, <1>2, <1>3, <1>5, <2>1, OnlyKeeps, Silence
<1>6. CASE Readable(e) /\ stale' = [stale EXCEPT ![e] = t] /\ UNCHANGED <<reading, toHost>>
  <2>1. t \in Receipts /\ t.st \notin Terminal
    BY <1>6, RecordFields DEF Receipts, States, Readable, Ended
  <2> HIDE DEF t
  <2>2. Only(e) /\ Job(e)'
    BY <1>1, <1>6, <2>1 DEF Only, Job, Handling, Locking
  <2> QED
    BY <1>1, <1>2, <1>3, <1>6, <2>2, OnlyKeeps, Silence
<1> QED
  BY <1>4, <1>5, <1>6 DEF ReconcileArrives

\* What was prepared and not started may have expired.
LEMMA ExpiredFields ==
    ASSUME IInv, NEW f \in Execs, NEW r, r = Expired(f, rec[f])
    PROVE  /\ r \in Records /\ r.launch = rec[f].launch /\ r.admit = rec[f].admit
           /\ \/ r = rec[f]
              \/ /\ r.st = "expired" /\ r.own = "not_started" /\ rec[f].st # None
                 /\ ~Ended(rec[f]) /\ ~r.launch /\ ~r.admit /\ r.leased = rec[f].leased
<1>1. rec[f] \in Records
  BY Known
<1>2. CASE f \in lapsed /\ rec[f].st # None /\ ~Ended(rec[f]) /\ ~rec[f].launch /\ ~rec[f].admit
  <2>1. r = [rec[f] EXCEPT !.st = "expired", !.own = "not_started"]
    BY <1>2 DEF Expired
  <2> QED
    BY <1>1, <1>2, <2>1 DEF Records, Terminal, Ownership
<1>3. CASE ~(f \in lapsed /\ rec[f].st # None /\ ~Ended(rec[f]) /\ ~rec[f].launch /\ ~rec[f].admit)
  <2>1. r = rec[f]
    BY <1>3 DEF Expired
  <2> QED
    BY <1>1, <2>1
<1> QED
  BY <1>2, <1>3

LEMMA ExpiredJob ==
    ASSUME IInv, NEW f \in Execs, rec'[f] = Expired(f, rec[f]), ReadsDown,
           \/ run'[f] = run[f]
           \/ run'[f] = "preparing" /\ OnWay("prepare", f) /\ ~OnWay("prepare", f)',
           UNCHANGED <<revoked, lock, clocks, reading, stale, sup, ran>>
    PROVE  Job(f)' /\ NodeMoves(f) /\ rec'[f] \in Records
<1> USE Known
<1>1. OnWay("prepare", f) => run[f] # "preparing" /\ rec[f].st = None
  BY DEF IInv, Agreed, PreparedOnce
<1>2. OnWay("prepare", f)' => OnWay("prepare", f)
  BY DownReads DEF IInv, Typed
<1>3. /\ rec'[f] \in Records /\ rec'[f].launch = rec[f].launch /\ rec'[f].admit = rec[f].admit
      /\ \/ rec'[f] = rec[f]
         \/ /\ rec'[f].st = "expired" /\ rec'[f].own = "not_started" /\ rec[f].st # None
            /\ ~Ended(rec[f]) /\ ~rec'[f].launch /\ ~rec'[f].admit /\ rec'[f].leased = rec[f].leased
  BY ExpiredFields
<1>4. Gate(sup[f], ran[f])'
  OBVIOUS
<1>5. Recording(rec[f], sup[f])'
  BY <1>3 DEF Recording, Terminal, None
<1>6. NodeMoves(f)
  BY <1>1, <1>2, <1>3 DEF NodeMoves, Preparing
<1>7. Locking(f)'
  BY <1>3 DEF Locking
<1>8. CASE run'[f] = run[f]
  <2>1. UNCHANGED <<run[f], revoked, clocks, reading, stale, sup>> /\ Handling(f)
    BY <1>8
  <2>2. rec[f].launch => rec'[f] = rec[f]
    BY <1>3
  <2>3. rec'[f].st = None <=> rec[f].st = None
    BY <1>3 DEF None
  <2>4. rec[f].admit => rec'[f] = rec[f]
    BY <1>3
  <2>5. Handling(f)'
    BY <2>1, <2>2, <2>3, <2>4 DEF Handling
  <2> QED
    BY <1>3, <1>4, <1>5, <1>6, <1>7, <2>5 DEF Job
<1>9. CASE run'[f] = "preparing" /\ OnWay("prepare", f)
  <2>1. rec[f] = NoRecord /\ rec'[f] = rec[f]
    BY <1>1, <1>3, <1>9 DEF Recording
  <2>2. Handling(f)'
    BY <1>9, <2>1 DEF Handling, NoRecord
  <2> QED
    BY <1>3, <1>4, <1>5, <1>6, <1>7, <2>2 DEF Job
<1> QED
  BY <1>8, <1>9

LEMMA WelcomeStep == ASSUME IInv, Welcome PROVE IInv' /\ Final
<1>1. /\ ReadsDown /\ link' = "ready" /\ rec' = ExpirePrepared
      /\ toHost' = Each(Unacked, LAMBDA e : Receipt(e, Expired(e, rec[e])))
      /\ UNCHANGED <<revoked, lock, run, clocks, reading, stale, sup, hostVars, lapsed, ran>>
  BY DEF Welcome, Arrives, Took, ReadsDown, NodeFrame
<1>2. rec' = [f \in Execs |-> rec'[f]] /\ \A f \in Execs : rec'[f] = Expired(f, rec[f])
  BY <1>1 DEF ExpirePrepared
<1>3. \A f \in Execs : Job(f)' /\ NodeMoves(f) /\ rec'[f] \in Records
  BY <1>1, <1>2, ExpiredJob
<1>4. NodeTyped' /\ SupTyped'
  BY <1>1, <1>2, <1>3 DEF IInv, Typed, NodeTyped, SupTyped
<1>5. Speaks
  <2> DEFINE R == {Receipt(e, Expired(e, rec[e])) : e \in Unacked}
  <2>1. toHost' \in Seq(R)
    BY <1>1, EachReceipts DEF Unacked, Held
  <2>2. \A m \in R : m \in UpFrames /\ Says(m)
    <3> SUFFICES ASSUME NEW e \in Execs
                 PROVE  /\ Receipt(e, Expired(e, rec[e])) \in UpFrames
                        /\ Says(Receipt(e, Expired(e, rec[e])))
      BY DEF Unacked, Held
    <3>1. Expired(e, rec[e]).st \in States /\ Expired(e, rec[e]).own \in Ownership
      BY <1>2, <1>3, RecordFields
    <3> QED
      BY <1>2, <3>1, Tells
  <2> HIDE DEF R
  <2>3. toHost' \in Seq(UpFrames) /\ \A m \in Range(toHost') : Says(m)
    BY <2>1, <2>2, SeqMonotonic, RangeOfSeq
  <2> QED
    BY <2>3 DEF Speaks
<1>6. host' = [f \in Execs |-> host'[f]] /\ fence' = fence /\ \A f \in Execs : RowMoves(f)
  BY <1>1, SameMoves DEF IInv, Typed, HostTyped, hostVars, RowMoves
<1> QED
  BY <1>1, <1>3, <1>4, <1>5, <1>6, NodeKeeps

LEMMA PrepareArrivesStep ==
    ASSUME IInv, PrepareArrives, NEW e \in Execs, e = Head(toNode).e
    PROVE  IInv' /\ Final
<1>1. /\ Arrives("prepare") /\ Took /\ rec' = ExpirePrepared
      /\ run' = [run EXCEPT ![e] = "preparing"]
      /\ UNCHANGED <<link, toHost, revoked, lock, clocks, reading, stale, sup, hostVars, lapsed, ran>>
  BY DEF PrepareArrives, NodeFrame
<1>2. ReadsDown /\ OnWay("prepare", e) /\ ~OnWay("prepare", e)'
  BY <1>1, DownHead
<1>3. rec' = [f \in Execs |-> rec'[f]] /\ \A f \in Execs : rec'[f] = Expired(f, rec[f])
  BY <1>1 DEF ExpirePrepared
<1>4. /\ run' \in [Execs -> Handlers]
      /\ \A f \in Execs : run'[f] = IF f = e THEN "preparing" ELSE run[f]
  BY <1>1 DEF IInv, Typed, NodeTyped, Handlers
<1>5. \A f \in Execs : Job(f)' /\ NodeMoves(f) /\ rec'[f] \in Records
  BY <1>1, <1>2, <1>3, <1>4, ExpiredJob
<1>6. NodeTyped' /\ SupTyped'
  BY <1>1, <1>3, <1>4, <1>5 DEF IInv, Typed, NodeTyped, SupTyped
<1>7. host' = [f \in Execs |-> host'[f]] /\ fence' = fence /\ \A f \in Execs : RowMoves(f)
  BY <1>1, SameMoves DEF IInv, Typed, HostTyped, hostVars, RowMoves
<1>8. link' \in {"down", "open", "ready"}
  BY <1>1 DEF IInv, Typed, WireTyped
<1> QED
  BY <1>1, <1>2, <1>5, <1>6, <1>7, <1>8, NodeKeeps, Silence

LEMMA NodeHearsStep == ASSUME IInv, NodeHears PROVE IInv' /\ Final
<1>1. CASE Welcome
  BY <1>1, WelcomeStep
<1>2. CASE PrepareArrives
  BY <1>2, DownHead, PrepareArrivesStep DEF PrepareArrives
<1>3. CASE StartArrives
  BY <1>3, DownHead, StartArrivesStep DEF StartArrives
<1>4. CASE CancelArrives
  BY <1>4, DownHead, CancelArrivesStep DEF CancelArrives
<1>5. CASE AckArrives
  BY <1>5, DownHead, AckArrivesStep DEF AckArrives
<1>6. CASE ReconcileArrives
  BY <1>6, DownHead, ReconcileArrivesStep DEF ReconcileArrives
<1> QED
  BY <1>1, <1>2, <1>3, <1>4, <1>5, <1>6 DEF NodeHears

\* A step that leaves all commands alone, but perhaps for the lock.
LEMMA OthersKeep ==
    ASSUME IInv, UNCHANGED <<hostVars, link, toNode, rec, revoked, run, clocks, reading, stale>>,
           NodeTyped', SupTyped', Speaks, lock \in Execs => lock' = lock,
           \A f \in Execs : Gate(sup[f], ran[f])' /\ Recording(rec[f], sup[f])'
                            /\ (run[f] = "intended" => sup'[f].ph = None)
                            /\ (ran'[f] = ran[f] \/ Guarded(f)')
    PROVE  IInv' /\ Final
<1>1. ReadsDown /\ link' \in {"down", "open", "ready"} /\ fence' = fence
  BY DEF ReadsDown, IInv, Typed, WireTyped, hostVars
<1>2. ASSUME NEW f \in Execs PROVE Job(f)' /\ NodeMoves(f)
  <2>1. NodeMoves(f)
    BY <1>1, SameNode
  <2>2. Handling(f)' /\ Locking(f)'
    BY DEF IInv, Job, Handling, Locking
  <2> QED
    BY <2>1, <2>2 DEF Job
<1>3. host' = [f \in Execs |-> host'[f]] /\ \A f \in Execs : RowMoves(f)
  BY SameMoves DEF IInv, Typed, HostTyped, hostVars, RowMoves
<1> QED
  BY <1>1, <1>2, <1>3, NodeKeeps

LEMMA FlushStep == ASSUME IInv, Flush PROVE IInv' /\ Final
<1>1. /\ toHost' = Each(Unacked, LAMBDA e : Receipt(e, rec[e]))
      /\ UNCHANGED <<toNode, nodeVars, sup, hostVars, link, lapsed, ran>>
  BY DEF Flush, NodeOnly, nodeVars
<1>2. Speaks
  <2> DEFINE R == {Receipt(e, rec[e]) : e \in Unacked}
  <2>1. toHost' \in Seq(R)
    BY <1>1, EachReceipts DEF Unacked, Held
  <2>2. \A m \in R : m \in UpFrames /\ Says(m)
    <3> SUFFICES ASSUME NEW e \in Execs
                 PROVE  Receipt(e, rec[e]) \in UpFrames /\ Says(Receipt(e, rec[e]))
      BY DEF Unacked, Held
    <3> QED
      BY <1>1, Known, RecordFields, Tells DEF nodeVars
  <2> HIDE DEF R
  <2>3. toHost' \in Seq(UpFrames) /\ \A m \in Range(toHost') : Says(m)
    BY <2>1, <2>2, SeqMonotonic, RangeOfSeq
  <2> QED
    BY <2>3 DEF Speaks
<1>3. NodeTyped' /\ SupTyped'
  BY <1>1 DEF IInv, Typed, NodeTyped, SupTyped, nodeVars
<1>4. \A f \in Execs : Gate(sup[f], ran[f])' /\ Recording(rec[f], sup[f])'
                       /\ (run[f] = "intended" => sup'[f].ph = None) /\ ran'[f] = ran[f]
  BY <1>1 DEF IInv, Job, Handling, nodeVars
<1> QED
  BY <1>1, <1>2, <1>3, <1>4, OthersKeep DEF nodeVars

\* A session of the Node has the checkout only while no command has it.
LEMMA SessionStep == ASSUME IInv, SessionTakes \/ SessionLeaves PROVE IInv' /\ Final
<1>1. /\ lock \notin Execs /\ lock' \in {None, "session"}
      /\ UNCHANGED <<toNode, toHost, rec, revoked, run, clocks, reading, stale, sup,
                     hostVars, link, lapsed, ran>>
  BY CommandAssumption DEF SessionTakes, SessionLeaves, NodeOnly, CommandAssumption, None
<1>2. NodeTyped' /\ SupTyped'
  BY <1>1 DEF IInv, Typed, NodeTyped, SupTyped
<1>3. \A f \in Execs : Gate(sup[f], ran[f])' /\ Recording(rec[f], sup[f])'
                       /\ (run[f] = "intended" => sup'[f].ph = None) /\ ran'[f] = ran[f]
  BY <1>1 DEF IInv, Job, Handling
<1> QED
  BY <1>1, <1>2, <1>3, OthersKeep, Silence

\* A supervisor's step leaves the Node and the Host alone.
LEMMA SupervisorKeeps ==
    ASSUME IInv, World, NEW e \in Execs, NEW s \in Sups, sup' = [sup EXCEPT ![e] = s],
           lapsed' = lapsed, ran' \in [Execs -> Nat], \A f \in Execs \ {e} : ran'[f] = ran[f],
           Gate(s, ran'[e]), sup[e].ph \in {"closed", "open"},
           ran'[e] = ran[e] \/ Guarded(e)'
    PROVE  IInv' /\ Final
<1>1. UNCHANGED <<toNode, toHost, rec, revoked, lock, run, clocks, reading, stale, hostVars, link>>
  BY DEF World, nodeVars
<1>2. sup' \in [Execs -> Sups] /\ \A f \in Execs : sup'[f] = IF f = e THEN s ELSE sup[f]
  BY Known
<1>3. NodeTyped' /\ SupTyped'
  BY <1>1, <1>2 DEF IInv, Typed, NodeTyped, SupTyped
<1>4. Recording(rec[e], s)
  <2>1. rec[e].launch /\ ~Ended(rec[e])
    BY DEF IInv, Job, Recording, None
  <2> QED
    BY <2>1 DEF IInv, Job, Recording
<1>5. ASSUME NEW f \in Execs
      PROVE  /\ Gate(sup[f], ran[f])' /\ Recording(rec[f], sup[f])'
             /\ (run[f] = "intended" => sup'[f].ph = None) /\ (ran'[f] = ran[f] \/ Guarded(f)')
  <2>1. CASE f = e
    BY <1>1, <1>2, <1>4, <2>1 DEF IInv, Job, Handling, None
  <2>2. CASE f # e
    BY <1>1, <1>2, <2>2 DEF IInv, Job, Handling
  <2> QED
    BY <2>1, <2>2
<1> QED
  BY <1>1, <1>3, <1>5, OthersKeep, Silence

\* What a supervisor holds was started by the Host and is not over for it.
LEMMA HeldIsActive ==
    ASSUME IInv, NEW e \in Execs, rec[e].launch, ~Ended(rec[e])
    PROVE  host[e].st \in Active
<1>1. host[e].began /\ (Settled(host[e]) => Ended(rec[e]))
  BY DEF IInv, Job, Recording, Agreed, StartedOnce, ToldTruly, Settled, Ended
<1>2. host[e] \in HostRows /\ Sane(host[e])
  BY DEF IInv, Typed, HostTyped
<1> QED
  BY <1>1, <1>2 DEF HostRows, States, Sane, Settled

LEMMA OpenGateStep == ASSUME IInv, NEW e \in Execs, OpenGate(e) PROVE IInv' /\ Final
<1> DEFINE s == [sup[e] EXCEPT !.ph = "open"]
<1>1. /\ sup[e].ph = "closed" /\ sup' = [sup EXCEPT ![e] = s] /\ ran' = [ran EXCEPT ![e] = @ + 1]
      /\ lapsed' = lapsed /\ World
  BY DEF OpenGate
<1> USE Known
<1>2. s \in Sups /\ s.ph = "open" /\ s.result = sup[e].result
  BY DEF Sups
<1> HIDE DEF s
<1>3. ran \in [Execs -> Nat]
  BY DEF IInv, Typed, SupTyped
<1>4. ran' \in [Execs -> Nat] /\ ran'[e] = ran[e] + 1 /\ \A f \in Execs \ {e} : ran'[f] = ran[f]
  BY <1>1, <1>3
<1>5. sup[e].result = NoResult /\ ran[e] = 0
  <2>1. sup[e].result = NoResult /\ Gate(sup[e], ran[e])
    BY <1>1 DEF Gate
  <2>2. ~sup[e].result.started
    BY <2>1 DEF NoResult
  <2> QED
    BY <1>1, <2>1, <2>2 DEF Gate
<1>6. Gate(s, ran'[e])
  BY <1>2, <1>4, <1>5 DEF Gate, NoResult
<1>7. Guarded(e)'
  <2>1. rec[e].launch /\ ~Ended(rec[e])
    BY <1>1 DEF Recording, None
  <2>2. fence.st = "executing" /\ fence.exec = e
    BY <2>1, HeldIsActive DEF IInv, Guarded
  <2> QED
    BY <1>1, <2>2 DEF World, hostVars, Guarded
<1> QED
  BY <1>1, <1>2, <1>4, <1>6, <1>7, SupervisorKeeps

LEMMA SupervisorEndsStep == ASSUME IInv, NEW e \in Execs, SupervisorEnds(e) PROVE IInv' /\ Final
<1>1. PICK why \in {"ended", "cancelled", "start_expired", "broken"}, quiet \in BOOLEAN :
        /\ sup[e].ph = "closed" => quiet
        /\ sup' = [sup EXCEPT ![e].ph = IF quiet THEN "gone" ELSE "lingering",
                              ![e].result = [started |-> sup[e].ph = "open",
                                             why |-> why, quiet |-> quiet]]
  BY DEF SupervisorEnds, Reasons
<1> DEFINE p == [started |-> sup[e].ph = "open", why |-> why, quiet |-> quiet]
           s == [[sup[e] EXCEPT !.ph = IF quiet THEN "gone" ELSE "lingering"] EXCEPT !.result = p]
<1>2. sup[e].ph \in {"closed", "open"} /\ lapsed' = lapsed /\ ran' = ran /\ World
  BY DEF SupervisorEnds
<1> USE Known
<1>3. p \in Results /\ p # NoResult /\ p.started = (sup[e].ph = "open") /\ p.quiet = quiet /\ p.why # None
  BY DEF Results, NoResult, None
<1> HIDE DEF p
<1>4. s \in Sups /\ s.ph = (IF quiet THEN "gone" ELSE "lingering") /\ s.result = p
  BY <1>3 DEF Sups
<1>5. sup' = [sup EXCEPT ![e] = s]
  BY <1>1 DEF p
<1> HIDE DEF s
<1>6. Gate(s, ran'[e])
  <2>1. ran[e] = IF sup[e].ph = "open" THEN 1 ELSE 0
    BY <1>2 DEF Gate, NoResult
  <2> QED
    BY <1>1, <1>2, <1>3, <1>4, <2>1 DEF Gate, None
<1>7. ran' \in [Execs -> Nat]
  BY <1>2 DEF IInv, Typed, SupTyped
<1> QED
  BY <1>2, <1>4, <1>5, <1>6, <1>7, SupervisorKeeps

LEMMA SupervisorDiesStep == ASSUME IInv, NEW e \in Execs, SupervisorDies(e) PROVE IInv' /\ Final
<1> DEFINE s == [sup[e] EXCEPT !.ph = IF @ = "open" THEN "lingering" ELSE "gone"]
<1>1. sup[e].ph \in {"closed", "open"} /\ lapsed' = lapsed /\ ran' = ran /\ World
      /\ sup' = [sup EXCEPT ![e] = s]
  BY DEF SupervisorDies
<1> USE Known
<1>2. /\ s \in Sups /\ s.ph = (IF sup[e].ph = "open" THEN "lingering" ELSE "gone")
      /\ s.result = sup[e].result
  BY DEF Sups
<1> HIDE DEF s
<1>3. Gate(s, ran'[e])
  BY <1>1, <1>2 DEF Gate, NoResult, None
<1>4. ran' \in [Execs -> Nat]
  BY <1>1 DEF IInv, Typed, SupTyped
<1> QED
  BY <1>1, <1>2, <1>3, <1>4, SupervisorKeeps

LEMMA LapseStep == ASSUME IInv, NEW e \in Execs, Lapse(e) PROVE IInv' /\ Final
<1>1. lapsed' = lapsed \cup {e} /\ sup' = sup /\ ran' = ran /\ World
  BY DEF Lapse
<1>2. UNCHANGED <<toNode, toHost, rec, revoked, lock, run, clocks, reading, stale, hostVars, link>>
  BY <1>1 DEF World, nodeVars
<1>3. NodeTyped' /\ SupTyped'
  BY <1>1, <1>2 DEF IInv, Typed, NodeTyped, SupTyped
<1>4. \A f \in Execs : Gate(sup[f], ran[f])' /\ Recording(rec[f], sup[f])'
                       /\ (run[f] = "intended" => sup'[f].ph = None) /\ ran'[f] = ran[f]
  BY <1>1, <1>2 DEF IInv, Job, Handling
<1> QED
  BY <1>1, <1>2, <1>3, <1>4, OthersKeep, Silence

-----------------------------------------------------------------------------
(* The Node dies and comes back.                                            *)

LEMMA NodeCrashStep == ASSUME IInv, NodeCrash PROVE IInv' /\ Final
<1>1. /\ run' = [e \in Execs |-> "down"] /\ clocks' = {}
      /\ reading' = [e \in Execs |-> "no"] /\ stale' = [e \in Execs |-> NoReceipt]
      /\ sup' = [e \in Execs |-> [sup[e] EXCEPT !.parent = FALSE]]
      /\ link' = "down" /\ toNode' = <<>> /\ toHost' = <<>>
      /\ host' = [e \in Execs |-> Disconnected(host[e])]
      /\ UNCHANGED <<fence, rec, revoked, lock, lapsed, ran>>
  BY DEF NodeCrash
<1>2. ReadsDown /\ Speaks
  BY <1>1, NoFrames DEF ReadsDown, Speaks
<1>3. host' = [e \in Execs |-> host'[e]] /\ \A e \in Execs : RowMoves(e)
  BY <1>1, DisconnectedMoves DEF RowMoves
<1>4. NoReceipt \in Receipts /\ NoReceipt.st \notin Terminal
  BY DEF NoReceipt, Receipts, Ownership, None, Terminal
<1>5. \A e \in Execs : sup'[e] \in Sups /\ sup'[e].ph = sup[e].ph /\ sup'[e].result = sup[e].result
  BY <1>1 DEF IInv, Typed, SupTyped, Sups
<1>6. NodeTyped' /\ SupTyped'
  <2>1. SupTyped'
    BY <1>1, <1>5 DEF IInv, Typed, SupTyped
  <2> QED
    BY <1>1, <1>4, <2>1 DEF IInv, Typed, NodeTyped, Handlers
<1>7. ASSUME NEW e \in Execs PROVE Job(e)' /\ NodeMoves(e)
  <2>1. Gate(sup[e], ran[e])' /\ Recording(rec[e], sup[e])'
    BY <1>1, <1>5 DEF IInv, Job, Gate, Recording
  <2>2. Handling(e)'
    BY <1>1, <1>4 DEF Handling
  <2>3. Locking(e)' /\ NodeMoves(e)
    BY <1>1 DEF IInv, Job, Locking, NodeMoves
  <2> QED
    BY <2>1, <2>2, <2>3 DEF Job
<1> QED
  BY <1>1, <1>2, <1>3, <1>6, <1>7, NodeKeeps

\* What the next Node process makes of a record.
LEMMA RecoveredFields ==
    ASSUME IInv, NEW e \in Execs, NEW r, r = Recovered(e, Expired(e, rec[e]))
    PROVE  \/ /\ rec[e].launch /\ ~Ended(rec[e])
              /\ r = IF Proof(e) = NoResult THEN Uncertain(rec[e]) ELSE Finished(rec[e], Proof(e))
           \/ /\ rec[e].launch /\ Ended(rec[e]) /\ r = rec[e]
           \/ /\ ~rec[e].launch /\ r \in Records /\ ~r.launch /\ r.own = "not_started"
              /\ r.admit = rec[e].admit /\ (rec[e].st = None => r = rec[e])
              /\ rec[e].st # None => r.st \in {"awaiting_approval"} \cup Terminal
              /\ Ended(rec[e]) => r.st = rec[e].st
<1> DEFINE x == Expired(e, rec[e])
<1> USE Known
<1>1. /\ x \in Records /\ x.launch = rec[e].launch /\ x.admit = rec[e].admit
      /\ \/ x = rec[e]
         \/ /\ x.st = "expired" /\ x.own = "not_started" /\ rec[e].st # None
            /\ ~Ended(rec[e]) /\ ~x.launch /\ ~x.admit /\ x.leased = rec[e].leased
  BY ExpiredFields
<1> HIDE DEF x
<1>2. r = Recovered(e, x)
  BY DEF x
<1>3. CASE rec[e].launch /\ ~Ended(rec[e])
  BY <1>1, <1>2, <1>3 DEF Recovered
<1>4. CASE rec[e].launch /\ Ended(rec[e])
  <2>1. x = rec[e] /\ ~x.leased
    BY <1>1, <1>4 DEF Recording
  <2> QED
    BY <1>2, <1>4, <2>1 DEF Recovered
<1>5. CASE ~rec[e].launch
  <2>1. x.own = "not_started" /\ (rec[e].st = None => x = rec[e])
        /\ (rec[e].st # None => x.st \in {"awaiting_approval"} \cup Terminal)
        /\ (Ended(rec[e]) => x = rec[e])
    BY <1>1, <1>5 DEF Recording, Terminal
  <2>2. rec[e].st = None => ~x.admit
    BY <1>1 DEF Recording, NoRecord
  <2>3. CASE r = x
    BY <1>1, <1>5, <2>1, <2>3
  <2>4. CASE r = NotStarted(x, "failed") /\ x.admit
    <3> "failed" \in Terminal
      BY DEF Terminal
    <3>1. /\ r \in Records /\ r.st = (IF Ended(x) THEN x.st ELSE "failed") /\ r.own = "not_started"
          /\ r.launch = x.launch /\ r.admit = x.admit
      <4>1. x \in Records
        BY <1>1
      <4>2. /\ NotStarted(x, "failed") \in Records
            /\ NotStarted(x, "failed").st = (IF Ended(x) THEN x.st ELSE "failed")
            /\ NotStarted(x, "failed").own = "not_started"
            /\ NotStarted(x, "failed").launch = x.launch /\ NotStarted(x, "failed").admit = x.admit
        BY <4>1, NotStartedFields
      <4> QED
        BY <2>4, <4>2
    <3>2. r.st \in Terminal
      BY <3>1 DEF Ended, Terminal
    <3> QED
      BY <1>1, <1>5, <2>1, <2>2, <2>4, <3>1, <3>2
  <2> QED
    BY <1>1, <1>2, <1>5, <2>3, <2>4 DEF Recovered
<1> QED
  BY <1>3, <1>4, <1>5

LEMMA BootStep == ASSUME IInv, Boot PROVE IInv' /\ Final
<1>1. /\ \A e \in Execs : run[e] = "down"
      /\ run' = [e \in Execs |-> "idle"]
      /\ rec' = [e \in Execs |-> Recovered(e, Expired(e, rec[e]))]
      /\ lock' = IF lock \in Execs /\ ~rec'[lock].leased THEN None ELSE lock
      /\ UNCHANGED <<toNode, toHost, revoked, clocks, reading, stale, sup, hostVars, link, lapsed, ran>>
  BY DEF Boot, NodeOnly
<1>2. rec' = [e \in Execs |-> rec'[e]] /\ \A e \in Execs : rec'[e] = Recovered(e, Expired(e, rec[e]))
  BY <1>1
<1>3. ReadsDown /\ Speaks
  BY <1>1, Silence DEF ReadsDown
<1>4. ASSUME NEW e \in Execs PROVE Job(e)' /\ NodeMoves(e) /\ rec'[e] \in Records
  <2> USE Known
  <2>1. reading[e] = "no" /\ stale[e].st \notin Terminal
    BY <1>1 DEF Handling
  <2>2. rec'[e].leased /\ lock = e => lock' = lock
    BY <1>1
  <2>3. run'[e] = "idle" /\ reading'[e] = "no" /\ stale'[e] = stale[e]
    BY <1>1, <2>1
  <2>4. CASE /\ rec[e].launch /\ ~Ended(rec[e])
             /\ rec'[e] = IF Proof(e) = NoResult THEN Uncertain(rec[e])
                          ELSE Finished(rec[e], Proof(e))
    <3>1. lock = e
      BY <2>4 DEF Locking
    <3> QED
      BY <1>1, <2>2, <2>3, <2>4, <3>1, SettledJob
  <2>5. CASE rec[e].launch /\ Ended(rec[e]) /\ rec'[e] = rec[e]
    <3>1. Gate(sup[e], ran[e])' /\ Recording(rec[e], sup[e])'
      BY <1>1, <2>5
    <3>2. Handling(e)'
      BY <1>1, <2>1, <2>3, <2>5 DEF Handling
    <3>3. Locking(e)' /\ NodeMoves(e)
      BY <2>3, <2>5 DEF Locking, NodeMoves
    <3> QED
      BY <2>5, <3>1, <3>2, <3>3 DEF Job
  <2>6. CASE /\ ~rec[e].launch /\ rec'[e] \in Records /\ ~rec'[e].launch
             /\ rec'[e].own = "not_started" /\ rec'[e].admit = rec[e].admit
             /\ (rec[e].st = None => rec'[e] = rec[e])
             /\ rec[e].st # None => rec'[e].st \in {"awaiting_approval"} \cup Terminal
             /\ Ended(rec[e]) => rec'[e].st = rec[e].st
    <3>1. rec'[e].st = None <=> rec[e].st = None
      BY <2>6 DEF None, Terminal
    <3>2. rec[e].own = "not_started" /\ sup[e].ph = None
      BY <2>6 DEF Recording
    <3>3. Recording(rec'[e], sup[e])
      BY <2>6, <3>1, <3>2 DEF Recording
    <3>4. Gate(sup[e], ran[e])' /\ Recording(rec[e], sup[e])'
      BY <1>1, <3>3
    <3>5. Handling(e)'
      BY <1>1, <2>1, <2>3, <3>1 DEF Handling
    <3>6. Locking(e)' /\ NodeMoves(e)
      BY <2>3, <2>6, <3>1, <3>2 DEF Locking, NodeMoves
    <3> QED
      BY <2>6, <3>4, <3>5, <3>6 DEF Job
  <2>7. rec'[e] = Recovered(e, Expired(e, rec[e]))
    BY <1>2
  <2> QED
    BY <2>4, <2>5, <2>6, <2>7, RecoveredFields
<1>5. lock' \in Execs \cup {None, "session"}
  BY <1>1 DEF IInv, Typed, NodeTyped
<1>6. NodeTyped' /\ SupTyped'
  BY <1>1, <1>2, <1>4, <1>5 DEF IInv, Typed, NodeTyped, SupTyped, Handlers
<1>7. host' = [f \in Execs |-> host'[f]] /\ fence' = fence /\ \A f \in Execs : RowMoves(f)
  BY <1>1, SameMoves DEF IInv, Typed, HostTyped, hostVars, RowMoves
<1>8. link' \in {"down", "open", "ready"}
  BY <1>1 DEF IInv, Typed, WireTyped
<1> QED
  BY <1>1, <1>3, <1>4, <1>6, <1>7, <1>8, NodeKeeps

-----------------------------------------------------------------------------
(* The invariant.                                                           *)

LEMMA InitKeeps == Init => IInv
<1> SUFFICES ASSUME Init PROVE IInv
  OBVIOUS
<1> USE DEF Init
<1>1. NewRow \in HostRows /\ NoReceipt \in Receipts /\ NoRecord \in Records /\ NoSupervisor \in Sups
  BY DEF NewRow, NoReceipt, NoRecord, NoSupervisor, NoResult, HostRows, Receipts, Records, Sups,
         Results, States, Ownership, None
<1>2. fence \in Fences
  BY DEF Fences
<1>3. Typed
  BY <1>1, <1>2, NoFrames DEF Typed, HostTyped, WireTyped, NodeTyped, SupTyped, Handlers
<1>4. ASSUME NEW e \in Execs PROVE Sane(host[e]) /\ Job(e) /\ Agreed(e) /\ Guarded(e)
  <2>1. /\ host[e] = NewRow /\ rec[e] = NoRecord /\ sup[e] = NoSupervisor /\ run[e] = "idle"
        /\ reading[e] = "no" /\ stale[e] = NoReceipt /\ clocks = {} /\ ran[e] = 0
    OBVIOUS
  <2>2. Sane(host[e])
    BY <2>1 DEF NewRow, Sane, Settled, Active, Unstarted, Terminal, None
  <2>3. Gate(sup[e], ran[e]) /\ Recording(rec[e], sup[e])
    BY <2>1 DEF Gate, Recording, NoSupervisor, NoResult, NoRecord, None
  <2>4. Handling(e) /\ Locking(e)
    BY <2>1 DEF Handling, Locking, NoRecord, NoReceipt, None, Terminal
  <2>5. \A k : ~OnWay(k, e) /\ ~Answered(e) /\ Once(toNode, Frame(k, e))
    BY NoFrames DEF OnWay, Answered
  <2>6. Agreed(e)
    BY <2>1, <2>5 DEF Agreed, PreparedOnce, StartedOnce, ToldTruly, Preparing, Answered, Settled,
                      NewRow, NoRecord, None, Terminal, Range
  <2>7. Guarded(e)
    BY <2>1 DEF Guarded, NewRow, Active, None
  <2> QED
    BY <2>2, <2>3, <2>4, <2>6, <2>7 DEF Job
<1> QED
  BY <1>3, <1>4 DEF IInv

LEMMA NextKeeps == IInv /\ [Next]_vars => IInv' /\ Final
<1> SUFFICES ASSUME IInv, [Next]_vars PROVE IInv' /\ Final
  OBVIOUS
<1>1. CASE Reconnect
  BY <1>1, ReconnectStep
<1>2. CASE HostHears
  BY <1>2, HearPreparedStep, HearReceiptStep, DropStep DEF HostHears
<1>3. CASE NodeHears
  BY <1>3, NodeHearsStep
<1>4. CASE \E e \in Execs : HostActs(e) \/ NodeWorks(e)
  BY <1>4, HostActsStep, NodeWorksStep
<1>5. CASE \E e \in Execs : OpenGate(e) \/ SupervisorEnds(e) \/ SupervisorDies(e) \/ Lapse(e)
  BY <1>5, OpenGateStep, SupervisorEndsStep, SupervisorDiesStep, LapseStep
<1>6. CASE Observe \/ Flush \/ SessionTakes \/ SessionLeaves
  BY <1>6, ObserveStep, FlushStep, SessionStep
<1>7. CASE Break \/ HostRestart \/ NodeCrash \/ Boot
  BY <1>7, DropStep, NodeCrashStep, BootStep
<1>8. CASE UNCHANGED vars
  <2>1. /\ UNCHANGED <<host, link, toNode, toHost, fence, JobVars>>
    BY <1>8 DEF vars, JobVars, nodeVars
  <2>2. Down(<<>>)
    BY <2>1, ConcatProperties DEF Down, IInv, Typed, WireTyped
  <2>3. fence' \in Fences /\ \A e \in Execs : Guarded(e)'
    BY <2>1 DEF IInv, Typed, HostTyped, Guarded, JobVars
  <2> QED
    BY <2>1, <2>2, <2>3, FencesKeep
<1> QED
  BY <1>1, <1>2, <1>3, <1>4, <1>5, <1>6, <1>7, <1>8 DEF Next, Step

\* The strengthened invariant holds in every reachable state, for every set of
\* commands and all bounds: each of the service, the manager and the supervisor
\* knows of an execution only what the one it heard it from had made true.
THEOREM Invariance == Spec => []IInv
BY InitKeeps, NextKeeps, PTL DEF Spec

\* Every variable of the three processes has its type, and no row claims what
\* its state cannot own (store rows, journal records and supervisor receipts
\* as packages/protocol defines them).
THEOREM TypeCorrect == Spec => []TypeOK
<1>1. IInv => TypeOK
  <2> SUFFICES ASSUME IInv PROVE TypeOK
    OBVIOUS
  <2>1. /\ \A e \in Execs : host[e] \in HostRows /\ Sane(host[e]) /\ rec[e] \in Records
                            /\ run[e] \in Handlers /\ sup[e] \in Sups
        /\ fence \in Fences
    BY DEF IInv, Typed, HostTyped, NodeTyped, SupTyped
  <2>2. \A e \in Execs : sup[e].ph \in {None, "closed", "open", "lingering", "gone"}
                         /\ sup[e].result \in Results
    BY <2>1 DEF Sups
  <2>3. fence.st \in {"clear", "executing", "observation_required", "verification_required"}
        /\ fence.exec \in Execs \cup {None} /\ fence.was \in BOOLEAN
    BY <2>1 DEF Fences
  <2> QED
    BY <2>1, <2>2, <2>3 DEF TypeOK, IInv, Typed, NodeTyped, SupTyped, WireTyped, HostRows, States,
                            Records, Handlers, Sane
<1> QED
  BY <1>1, Invariance, PTL

\* A process, once held and as long as any of it may be left, has the
\* checkout's lock, through deaths of the Node and of its supervisor (start,
\* requireReconciliation, releaseRecovered of command-execution-manager.ts).
THEOREM CheckoutStaysHeld == Spec => []CheckoutHeld
<1>1. IInv => CheckoutHeld
  <2> SUFFICES ASSUME IInv, NEW e \in Execs, Alive(e) PROVE lock = e /\ rec[e].leased
    BY DEF CheckoutHeld
  <2>1. Recording(rec[e], sup[e]) /\ Locking(e)
    BY DEF IInv, Job
  <2>2. rec[e].launch /\ ~Ended(rec[e])
    BY <2>1 DEF Alive, Recording, None
  <2> QED
    BY <2>1, <2>2 DEF Recording, Locking
<1> QED
  BY <1>1, Invariance, PTL

\* While a process may be left its task is fenced, and a task that a command
\* ran on is not taken for untouched (tick, receiveReceipt and observe of
\* command-execution-service.ts).
THEOREM FenceStaysUp == Spec => []FenceCovers
<1>1. IInv => FenceCovers
  <2> SUFFICES ASSUME IInv, NEW e \in Execs
               PROVE  /\ sup[e].ph \in {"open", "lingering"} => Fenced
                      /\ ran[e] > 0 => fence.st # "clear"
    BY DEF FenceCovers
  <2>1. Recording(rec[e], sup[e]) /\ Guarded(e)
    BY DEF IInv, Job
  <2>2. sup[e].ph \in {"open", "lingering"} => rec[e].launch /\ ~Ended(rec[e])
    BY <2>1 DEF Recording, None
  <2>3. sup[e].ph \in {"open", "lingering"} => Fenced
    BY <2>1, <2>2, HeldIsActive DEF Guarded, Fenced
  <2>4. ran[e] > 0 => ran[e] # 0
    OBVIOUS
  <2> QED
    BY <2>1, <2>3, <2>4 DEF Guarded
<1> QED
  BY <1>1, Invariance, PTL

\* The outcome the Host keeps of a command it sent is the one in the Node's
\* journal (receiveReceipt of the service, finish of the manager).
THEOREM OutcomesAgree == Spec => []OutcomeAgrees
<1>1. IInv => OutcomeAgrees
  BY DEF IInv, Agreed, ToldTruly, OutcomeAgrees
<1> QED
  BY <1>1, Invariance, PTL

-----------------------------------------------------------------------------
(* What the lead is promised.                                               *)

\* What a step does to a command's process: its gate opens for it, once; what
\* is gone stays gone; and the Host's row moves only while it rests.
Processes ==
    \A e \in Execs :
        /\ \/ ran'[e] = ran[e]
           \/ /\ ran[e] = 0 /\ sup[e].ph = "closed" /\ sup'[e].ph = "open"
        /\ sup[e].ph = "gone" => sup'[e].ph = "gone"
        /\ host'[e] = host[e] \/ (ran'[e] = ran[e] /\ sup'[e].ph = sup[e].ph)

LEMMA ProcessesRest ==
    ASSUME IInv, ran' = ran,
           \/ sup' = sup
           \/ host' = host /\ \E e \in Execs : \E s \in Sups :
                 /\ sup' = [sup EXCEPT ![e] = s]
                 /\ s.ph = sup[e].ph \/ sup[e].ph # "gone"
    PROVE  Processes
BY Known DEF Processes

LEMMA ProcessesStep == ASSUME IInv, [Next]_vars PROVE Processes
<1> USE DEF NodeOnly, NodeFrame, HostOnly, World, nodeVars, hostVars
<1>1. CASE Reconnect \/ Break \/ HangUp \/ HostRestart
  BY <1>1, ProcessesRest DEF Reconnect, Break, HangUp, HostRestart, Drop
<1>2. CASE HearPrepared \/ HearReceipt
  BY <1>2, ProcessesRest DEF HearPrepared, HearReceipt
<1>3. CASE \E e \in Execs : HostActs(e)
  BY <1>3, ProcessesRest DEF HostActs, Request, PreparationTimesOut, Approve, Deny, Cancel, Expire,
                             RecheckFails, Dispatch, FinishUnstarted
<1>4. CASE Welcome \/ PrepareArrives \/ StartArrives \/ AckArrives \/ ReconcileArrives
  BY <1>4, ProcessesRest DEF Welcome, PrepareArrives, StartArrives, AckArrives, ReconcileArrives
<1>5. CASE Flush \/ Observe \/ Boot \/ SessionTakes \/ SessionLeaves
  BY <1>5, ProcessesRest DEF Flush, Observe, Boot, SessionTakes, SessionLeaves
<1>6. CASE UNCHANGED vars
  BY <1>6, ProcessesRest DEF vars
<1>7. CASE CancelArrives
  <2>1. PICK e \in Execs : e = Head(toNode).e
    BY <1>7, DownHead DEF CancelArrives
  <2> DEFINE s == [sup[e] EXCEPT !.cancel = TRUE]
  <2>2. s \in Sups /\ s.ph = sup[e].ph
    BY Known DEF Sups
  <2>3. ran' = ran /\ host' = host /\ (sup' = sup \/ sup' = [sup EXCEPT ![e] = s])
    BY <1>7, <2>1 DEF CancelArrives
  <2> HIDE DEF s
  <2> QED
    BY <2>2, <2>3, ProcessesRest
<1>8. ASSUME NEW e \in Execs, NodeWorks(e) PROVE Processes
  <2>1. CASE \/ Prepare(e) \/ Acquire(e) \/ AdmissionFails(e) \/ Launch(e) \/ Commit(e)
             \/ Settle(e) \/ RecoverBegin(e) \/ RecoverEnd(e)
    BY <2>1, ProcessesRest DEF Prepare, Acquire, AdmissionFails, Launch, Commit, Settle,
                               RecoverBegin, RecoverEnd
  <2>2. CASE Supervise(e) \/ SuperviseFails(e) \/ Abandon(e) \/ Release(e)
    <3> DEFINE held == [[sup[e] EXCEPT !.ph = "closed"] EXCEPT !.parent = TRUE]
               ended == [held EXCEPT !.cancel = TRUE]
               cancelled == [sup[e] EXCEPT !.cancel = TRUE]
               released == [sup[e] EXCEPT !.release = TRUE]
    <3>1. /\ held \in Sups /\ ended \in Sups /\ cancelled \in Sups /\ released \in Sups
          /\ cancelled.ph = sup[e].ph /\ released.ph = sup[e].ph
      BY Known DEF Sups
    <3>2. run[e] = "intended" => sup[e].ph = None
      BY Known DEF Handling
    <3>3. CASE Supervise(e) \/ SuperviseFails(e)
      <4>1. ran' = ran /\ host' = host /\ run[e] = "intended"
            /\ (sup' = sup \/ sup' = [sup EXCEPT ![e] = held] \/ sup' = [sup EXCEPT ![e] = ended])
        BY <3>3 DEF Supervise, SuperviseFails
      <4>2. sup[e].ph # "gone"
        BY <3>2, <4>1 DEF None
      <4> HIDE DEF held, ended
      <4> QED
        BY <3>1, <4>1, <4>2, ProcessesRest
    <3>4. CASE Abandon(e) \/ Release(e)
      <4>1. ran' = ran /\ host' = host
            /\ (sup' = [sup EXCEPT ![e] = cancelled] \/ sup' = [sup EXCEPT ![e] = released])
        BY <3>4 DEF Abandon, Release
      <4> HIDE DEF cancelled, released
      <4> QED
        BY <3>1, <4>1, ProcessesRest
    <3> QED
      BY <2>2, <3>3, <3>4
  <2> QED
    BY <1>8, <2>1, <2>2 DEF NodeWorks
<1>9. ASSUME NEW e \in Execs, OpenGate(e) \/ SupervisorEnds(e) \/ SupervisorDies(e) \/ Lapse(e)
      PROVE  Processes
  <2>1. host' = host /\ sup \in [Execs -> Sups] /\ ran \in [Execs -> Nat]
    BY <1>9, Known DEF OpenGate, SupervisorEnds, SupervisorDies, Lapse, IInv, Typed, SupTyped
  <2>2. CASE OpenGate(e)
    <3>1. sup[e].ph = "closed" /\ sup'[e].ph = "open" /\ \A f \in Execs \ {e} : sup'[f] = sup[f]
      BY <2>1, <2>2 DEF OpenGate, Sups
    <3>2. ran[e] = 0
      <4>1. sup[e].result = NoResult /\ Gate(sup[e], ran[e])
        BY <3>1, Known DEF Gate
      <4>2. ~sup[e].result.started
        BY <4>1 DEF NoResult
      <4> QED
        BY <3>1, <4>1, <4>2 DEF Gate
    <3>3. \A f \in Execs \ {e} : ran'[f] = ran[f]
      BY <2>1, <2>2 DEF OpenGate
    <3> QED
      BY <2>1, <3>1, <3>2, <3>3 DEF Processes
  <2>3. CASE SupervisorEnds(e) \/ SupervisorDies(e)
    <3>1. ran' = ran /\ sup[e].ph # "gone" /\ \A f \in Execs \ {e} : sup'[f] = sup[f]
      BY <2>1, <2>3 DEF SupervisorEnds, SupervisorDies
    <3> QED
      BY <2>1, <3>1 DEF Processes
  <2>4. CASE Lapse(e)
    BY <2>4, ProcessesRest DEF Lapse
  <2> QED
    BY <1>9, <2>2, <2>3, <2>4
<1>10. CASE NodeCrash
  <2>1. ran' = ran /\ \A e \in Execs : sup'[e].ph = sup[e].ph
    BY <1>10, Known DEF NodeCrash, Sups
  <2> QED
    BY <2>1 DEF Processes
<1> QED
  BY <1>1, <1>2, <1>3, <1>4, <1>5, <1>6, <1>7, <1>8, <1>9, <1>10
     DEF Next, Step, HostHears, NodeHears

\* What the lead was told is what became of the process.
Truthful(e) ==
    /\ ran[e] \in {0, 1}
    /\ ran[e] = 1 /\ ~Alive(e) => sup[e].ph = "gone"
    /\ Ended(rec[e]) /\ rec[e].own = "not_started" => ran[e] = 0 /\ ~Alive(e)
    /\ Told(e) \in {"nothing", Fate(e)}
    /\ Told(e) = "never" => ran[e] = 0
    /\ Told(e) = "over" => ran[e] = 1

AllTruthful == \A e \in Execs : Truthful(e)

LEMMA ToldIsFate == IInv => AllTruthful
<1> SUFFICES ASSUME IInv, NEW e \in Execs PROVE Truthful(e)
  BY DEF AllTruthful
<1> USE DEF Truthful
<1>1. Gate(sup[e], ran[e]) /\ Recording(rec[e], sup[e]) /\ sup[e] \in Sups
  BY Known
<1>2. ran[e] \in {0, 1}
  BY <1>1 DEF Gate
<1>3. ran[e] = 1 /\ ~Alive(e) => sup[e].ph = "gone"
  <2> SUFFICES ASSUME ran[e] = 1, ~Alive(e) PROVE sup[e].ph = "gone"
    OBVIOUS
  <2>1. sup[e].result.started /\ sup[e].ph \in {None, "gone"}
    BY <1>1 DEF Gate, Alive, Sups
  <2>2. sup[e].ph = None => ~sup[e].result.started
    BY <1>1 DEF Gate, NoResult
  <2> QED
    BY <2>1, <2>2
<1>4. Ended(rec[e]) /\ rec[e].own = "not_started" => ran[e] = 0 /\ ~Alive(e)
  BY EndedProcess DEF Alive, None
<1>5. Ended(rec[e]) /\ rec[e].own = "quiescent" => ran[e] = 1 /\ ~Alive(e)
  BY EndedProcess DEF Alive
<1>6. Settled(host[e]) => /\ host[e].own \in {"not_started", "quiescent"}
                          /\ ~host[e].began => host[e].own = "not_started"
  BY DEF IInv, Sane
<1>7. Settled(host[e]) /\ ~host[e].began => ran[e] = 0
  <2>1. ~host[e].began => ~rec[e].launch
    BY <1>1 DEF IInv, Agreed, StartedOnce, Recording
  <2>2. ~rec[e].launch => ran[e] = 0
    <3>1. ~rec[e].launch => sup[e].ph = None /\ sup[e].result = NoResult
      BY <1>1 DEF Recording, Gate
    <3>2. ~NoResult.started
      BY DEF NoResult
    <3> QED
      BY <1>1, <3>1, <3>2 DEF Gate, None
  <2> QED
    BY <2>1, <2>2
<1>8. Settled(host[e]) /\ host[e].began =>
         Ended(rec[e]) /\ rec[e].own = host[e].own
  BY DEF IInv, Agreed, ToldTruly, Settled, Ended
<1>9. CASE ~Settled(host[e])
  BY <1>2, <1>3, <1>4, <1>9 DEF Told
<1>10. CASE Settled(host[e]) /\ host[e].own = "not_started"
  <2>1. ran[e] = 0 /\ Retired(host[e])
    BY <1>4, <1>7, <1>8, <1>10 DEF Retired
  <2> QED
    BY <1>2, <1>3, <1>4, <1>10, <2>1 DEF Told, Fate
<1>11. CASE Settled(host[e]) /\ host[e].own = "quiescent"
  <2>1. ran[e] = 1 /\ ~Alive(e)
    BY <1>5, <1>6, <1>8, <1>11
  <2> QED
    BY <1>2, <1>3, <1>4, <1>11, <2>1 DEF Told, Fate
<1> QED
  BY <1>6, <1>9, <1>10, <1>11

\* Every step of the three processes is one of the promise, for every command.
LEMMA PromiseStep ==
    ASSUME IInv, IInv', Final, Processes, NEW e \in Execs
    PROVE  \/ Fate(e) = "open" /\ Fate(e)' = "running" /\ Told(e)' = Told(e)
           \/ Fate(e) = "running" /\ Fate(e)' = "over" /\ Told(e)' = Told(e)
           \/ Fate(e) = "open" /\ Fate(e)' = "never" /\ Told(e)' \in {Told(e), "never"}
           \/ /\ Told(e) = "nothing" /\ Fate(e) \in {"over", "never"}
              /\ Fate(e)' = Fate(e) /\ Told(e)' = Fate(e)
           \/ Fate(e)' = Fate(e) /\ Told(e)' = Told(e)
<1> USE DEF Truthful
<1>1. Truthful(e)
  BY ToldIsFate DEF AllTruthful
<1>2. Truthful(e)'
  <2>1. IInv' => AllTruthful'
    BY ToldIsFate, PTL
  <2> QED
    BY <2>1 DEF AllTruthful
<1>3. /\ Settled(host[e]) => Told(e)' = Told(e)
      /\ Ended(rec[e]) => Ended(rec[e])' /\ rec'[e].own = rec[e].own
      /\ \/ ran'[e] = ran[e]
         \/ ran[e] = 0 /\ sup[e].ph = "closed" /\ sup'[e].ph = "open"
      /\ sup[e].ph = "gone" => sup'[e].ph = "gone"
      /\ host'[e] = host[e] \/ (ran'[e] = ran[e] /\ sup'[e].ph = sup[e].ph)
  BY DEF Final, Processes, Told, Settled, Ended
<1>4. CASE Told(e) # "nothing"
  BY <1>1, <1>2, <1>3, <1>4 DEF Told
<1>5. CASE Told(e) = "nothing" /\ Told(e)' # "nothing"
  <2>1. ran'[e] = ran[e] /\ sup'[e].ph = sup[e].ph /\ ~Settled(host[e])
    BY <1>3, <1>5 DEF Told
  <2>2. Fate(e)' = Told(e)' /\ Told(e)' \in {"never", "over"}
    BY <1>2, <1>5 DEF Told
  <2>3. CASE Told(e)' = "over"
    BY <1>2, <1>5, <2>1, <2>2, <2>3 DEF Fate, Alive
  <2>4. CASE Told(e)' = "never"
    BY <1>2, <1>5, <2>1, <2>2, <2>4 DEF Fate
  <2> QED
    BY <2>2, <2>3, <2>4
<1>6. CASE Told(e) = "nothing" /\ Told(e)' = "nothing"
  <2>1. ~Settled(host[e]) /\ ~Settled(host[e])'
    BY <1>6 DEF Told
  <2>2. CASE ran[e] = 0 /\ ran'[e] = 0
    BY <1>3, <1>6, <2>1, <2>2 DEF Fate, Retired
  <2>3. CASE ran[e] = 0 /\ ran'[e] = 1
    BY <1>1, <1>3, <1>6, <2>1, <2>3 DEF Fate, Retired, Alive
  <2>4. CASE ran[e] = 1
    BY <1>1, <1>2, <1>3, <1>6, <2>4 DEF Fate, Alive
  <2> QED
    BY <1>1, <1>2, <2>2, <2>3, <2>4
<1> QED
  BY <1>4, <1>5, <1>6

LEMMA PromiseInit == Init => Promise!Init
<1> SUFFICES ASSUME Init PROVE Promise!Init
  OBVIOUS
<1>1. ASSUME NEW e \in Execs PROVE Fate(e) = "open" /\ Told(e) = "nothing"
  <2>1. /\ ran[e] = 0 /\ ~Settled(host[e]) /\ ~Ended(rec[e])
    BY DEF Init, Settled, Ended, NewRow, NoRecord, None, Terminal
  <2> QED
    BY <2>1 DEF Fate, Told, Retired
<1> QED
  BY <1>1 DEF Promise!Init

LEMMA PromiseNext ==
    ASSUME IInv, IInv', Final, Processes
    PROVE  Promise!Next
<1> SUFFICES ASSUME NEW e \in Execs
             PROVE  \/ Promise!Runs(e) \/ Promise!Ends(e) \/ Promise!Forbidden(e)
                    \/ Promise!Tells(e) \/ Promise!Rests(e)
  BY DEF Promise!Next
<1> QED
  BY PromiseStep DEF Promise!Runs, Promise!Ends, Promise!Forbidden, Promise!Tells, Promise!Rests

\* Whatever crashes, restarts and is lost, the approved command runs at most
\* once, never after it was said not to, and what the lead is told is true and
\* final: the whole of remote execution implements CommandOutcome.
THEOREM RunsOnce == Spec => RunsOnceAndTruly
<1>1. Init => Promise!Init
  BY PromiseInit
<1>2. IInv /\ IInv' /\ [Next]_vars => [Promise!Next]_(Promise!vars)
  BY NextKeeps, ProcessesStep, PromiseNext
<1> QED
  BY <1>1, <1>2, Invariance, PTL DEF Spec, RunsOnceAndTruly, Promise!Spec

==============================================================================
