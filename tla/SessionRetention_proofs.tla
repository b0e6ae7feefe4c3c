----------------------- MODULE SessionRetention_proofs -----------------------
(***************************************************************************)
(* No conversation that was used since the cutoff is deleted, and a row    *)
(* goes only with its conversation and its agent: for every set of         *)
(* sessions and every bound.                                               *)
(*                                                                         *)
(* Neither property is inductive.  That the Host removes a row rightly     *)
(* rests on what an answer on its way says (OnlyDoneIsTold), which rests   *)
(* on what the Node marked deleted (DeletedIsGone); that a deletion takes  *)
(* nothing that was used rests on what is known at each of its stages      *)
(* (StoppingIsWatched, RemovingIsAtRest).                                  *)
(***************************************************************************)
EXTENDS SessionRetention, FiniteSetTheorems, SequenceTheorems, TLAPS

DownFrames ==
    [k : {"prompt"}, s : Sessions]
    \cup [k : {"resume"}, s : Sessions, at : Times]
    \cup [k : {"delete"}, s : Sessions, id : 0 .. MaxRequests, cutoff : Times]

UpFrames ==
    [k : {"inventory"}, live : SUBSET Sessions, busy : SUBSET Sessions]
    \cup [k : {"state"}, s : Sessions, to : {"idle", "running", "ended"}, fresh : BOOLEAN]
    \cup [k : {"cleaned"}, s : Sessions, id : 0 .. MaxRequests, ok : BOOLEAN]
    \cup [k : {"refused"}, s : Sessions, fatal : BOOLEAN]

\* Frames that confirm no deletion but of the sessions in D.
Truthful(D) == {m \in UpFrames : m.k = "cleaned" /\ m.ok => m.s \in D}

OneLocked(requests) ==
    \A s, t \in Sessions : requests[s].inFlight /\ requests[t].inFlight => s = t
LockedHasRow(rows, requests) ==
    \A s \in Sessions : requests[s].inFlight => rows[s] # "gone"

Stages == [at : {"none", "listing", "stopping", "removing"}, had : BOOLEAN]

\* The parts of the type invariant, with the frames' types, and what keeps the
\* Host from a Node that is away.
HostTyped ==
    /\ row \in [Sessions -> States] /\ seen \in [Sessions -> Times]
    /\ request \in [Sessions -> Requests] /\ asked \in 0 .. MaxRequests
    /\ ready \in BOOLEAN
Locks == OneLocked(request) /\ LockedHasRow(row, request)
WireTyped ==
    /\ link \in {"up", "down"} /\ (link = "down" => down = <<>> /\ up = <<>> /\ ~ready)
    /\ down \in Seq(DownFrames)
LaneTyped ==
    /\ lane \in [Sessions -> Seq(DownFrames)] /\ stage \in [Sessions -> Stages]
    /\ \A s \in Sessions : stage[s].at # "none" => Awaits(s, "delete")
NodeTyped ==
    /\ agent \in [Sessions -> {"none", "idle", "busy"}]
    /\ noted \in [Sessions -> Times] /\ written \in [Sessions -> Times]
    /\ deleted \subseteq Sessions /\ kept \subseteq Sessions
Clocked ==
    /\ now \in Times \ {0} /\ uses \in 0 .. MaxUses /\ breaks \in 0 .. MaxBreaks

Typed == HostTyped /\ Locks /\ WireTyped /\ LaneTyped /\ NodeTyped /\ Clocked

\* The Node confirms only what it has deleted.
OnlyDoneIsTold == up \in Seq(Truthful(deleted))

\* What the Node marked deleted is gone, and nobody works on it.
DeletedIsGone == \A s \in deleted : s \notin kept /\ agent[s] = "none"

Cutoff(s) == Head(lane[s]).cutoff

\* While the agent of an unused conversation is stopped, whatever it does is
\* noted.
StoppingIsWatched ==
    \A s \in kept : stage[s].at = "stopping" => written[s] <= Cutoff(s) \/ noted[s] > Cutoff(s)

\* Once it was stopped the conversation is at rest until it is removed.
RemovingIsAtRest ==
    \A s \in Sessions : stage[s].at = "removing" =>
        agent[s] = "none" /\ (s \in kept => written[s] <= Cutoff(s))

IInv ==
    /\ Typed /\ OnlyDoneIsTold /\ DeletedIsGone /\ StoppingIsWatched
    /\ RemovingIsAtRest /\ GoneTogether

-----------------------------------------------------------------------------
(* The frames.                                                              *)

\* Every frame the Host sends has its type.
LEMMA DownTyped ==
    ASSUME NEW s \in Sessions
    PROVE  /\ Prompt(s) \in DownFrames
           /\ \A at \in Times : Load(s, at) \in DownFrames
           /\ \A r \in Requests : Delete(s, r) \in DownFrames
BY DEF Prompt, Load, Delete, DownFrames, Requests

\* A frame for the Node is of one session; a resumption says since when it was
\* used, a deletion what it must not have been used since.
LEMMA DownFields ==
    ASSUME NEW m \in DownFrames
    PROVE  /\ m.s \in Sessions
           /\ m.k = "resume" => m.at \in Times
           /\ m.k = "delete" => m.id \in 0 .. MaxRequests /\ m.cutoff \in Times
BY DEF DownFrames

\* A frame for the Host, by its kind.
LEMMA UpFields ==
    ASSUME NEW D, NEW m \in Truthful(D)
    PROVE  /\ m.k \in {"inventory", "state", "cleaned", "refused"}
           /\ m.k # "inventory" => m.s \in Sessions
           /\ m.k = "state" => m.to \in {"idle", "running", "ended"} /\ m.fresh \in BOOLEAN
           /\ m.k = "cleaned" => m.ok \in BOOLEAN /\ (m.ok => m.s \in D)
           /\ m.k = "refused" => m.fatal \in BOOLEAN
BY DEF Truthful, UpFrames

\* Every frame the Node sends has its type, and all but a confirmation are true
\* whatever was deleted.
LEMMA UpTyped ==
    ASSUME NEW D, NEW s \in Sessions
    PROVE  /\ \A to \in {"idle", "running", "ended"}, fresh \in BOOLEAN :
                 State(s, to, fresh) \in Truthful(D)
           /\ \A fatal \in BOOLEAN : Refused(s, fatal) \in Truthful(D)
           /\ \A id \in 0 .. MaxRequests, ok \in BOOLEAN :
                 (ok => s \in D) => Cleaned(s, id, ok) \in Truthful(D)
           /\ Inventory \in Truthful(D)
<1>1. \A to \in {"idle", "running", "ended"}, fresh \in BOOLEAN :
         State(s, to, fresh) \in Truthful(D)
  BY DEF State, Truthful, UpFrames
<1>2. \A fatal \in BOOLEAN : Refused(s, fatal) \in Truthful(D)
  BY DEF Refused, Truthful, UpFrames
<1>3. \A id \in 0 .. MaxRequests, ok \in BOOLEAN :
         (ok => s \in D) => Cleaned(s, id, ok) \in Truthful(D)
  BY DEF Cleaned, Truthful, UpFrames
<1>4. Inventory \in Truthful(D)
  BY DEF Inventory, Truthful, UpFrames
<1> QED
  BY <1>1, <1>2, <1>3, <1>4

\* What the Node says stays true while it deletes more.
LEMMA SaidTyped ==
    ASSUME NEW D, NEW E, D \subseteq E, up \in Seq(Truthful(D)),
           NEW frames \in Seq(Truthful(E)), Say(frames)
    PROVE  /\ up' \in Seq(Truthful(E))
           /\ link = "down" => up' = up
<1>1. Truthful(D) \subseteq Truthful(E)
  BY DEF Truthful
<1>2. up \in Seq(Truthful(E))
  BY <1>1, SeqMonotonic
<1>3. up \o frames \in Seq(Truthful(E))
  BY <1>2, ConcatProperties
<1> QED
  BY <1>2, <1>3 DEF Say

\* The resumptions of a reconnect, in some order.
LEMMA SomeOrder ==
    ASSUME NEW T, NEW S \in SUBSET T, IsFiniteSet(S)
    PROVE  SetToSeq(S) \in Seq(T)
<1>1. Cardinality(S) \in Nat /\ ExistsBijection(1 .. Cardinality(S), S)
  BY FS_CardinalityType
<1>2. \E f \in [1 .. Cardinality(S) -> S] : IsInjective(f)
  BY <1>1 DEF ExistsBijection, Bijection, Injection
<1>3. SetToSeq(S) \in [1 .. Cardinality(S) -> S]
  BY <1>2 DEF SetToSeq
<1>4. SetToSeq(S) \in [1 .. Cardinality(S) -> T]
  BY <1>3
<1> QED
  BY <1>1, <1>4

-----------------------------------------------------------------------------
(* The Host.                                                                *)

\* A sweep keeps at most one deletion in flight, and asks only for sessions
\* that have a row.
LEMMA SweepKeeps ==
    ASSUME NEW rows \in [Sessions -> States], NEW requests \in [Sessions -> Requests],
           HostTyped, Clocked, OneLocked(requests), LockedHasRow(rows, requests),
           NEW not, NEW again \in BOOLEAN, NEW o \in Sweeps(rows, requests, not, again)
    PROVE  /\ o.request \in [Sessions -> Requests] /\ o.asked \in 0 .. MaxRequests
           /\ OneLocked(o.request) /\ LockedHasRow(rows, o.request)
           /\ o.frames \in Seq(DownFrames)
           /\ o = Outcome(o.request, o.asked, o.frames)
<1>1. CASE o \in {Outcome(requests, asked, <<>>)}
  <2>1. o = Outcome(requests, asked, <<>>)
    BY <1>1
  <2>2. <<>> \in Seq(DownFrames)
    BY EmptySeq
  <2> QED
    BY <2>1, <2>2 DEF Outcome, HostTyped
<1>2. CASE \E s \in Sessions : o = Outcome(requests, asked, <<Delete(s, requests[s])>>)
  <2>1. PICK s \in Sessions : o = Outcome(requests, asked, <<Delete(s, requests[s])>>)
    BY <1>2
  <2>2. <<Delete(s, requests[s])>> \in Seq(DownFrames)
    BY DownTyped
  <2> QED
    BY <2>1, <2>2 DEF Outcome, HostTyped
<1>3. CASE /\ \A s \in Sessions : ~requests[s].inFlight
           /\ \E s \in Sessions : /\ Expired(rows[s], seen[s]) /\ asked < MaxRequests
                                  /\ o = Ask(requests, s)
  <2>1. PICK s \in Sessions : /\ Expired(rows[s], seen[s]) /\ asked < MaxRequests
                              /\ o = Ask(requests, s)
    BY <1>3
  <2> DEFINE r == [id |-> asked + 1, cutoff |-> now - 1, inFlight |-> TRUE]
  <2>2. r \in Requests /\ asked + 1 \in 0 .. MaxRequests
    BY <2>1, RetentionAssumption DEF HostTyped, Clocked, Requests, Times
  <2>3. <<Delete(s, r)>> \in Seq(DownFrames)
    BY <2>2, DownTyped
  <2>4. o = Outcome([requests EXCEPT ![s] = r], asked + 1, <<Delete(s, r)>>)
    BY <2>1 DEF Ask
  <2>5. rows[s] # "gone"
    BY <2>1 DEF Expired
  <2>6. [requests EXCEPT ![s] = r] \in [Sessions -> Requests]
    BY <2>2
  <2>7. OneLocked([requests EXCEPT ![s] = r])
    BY <1>3 DEF OneLocked
  <2>8. LockedHasRow(rows, [requests EXCEPT ![s] = r])
    BY <1>3, <2>5 DEF LockedHasRow
  <2> HIDE DEF r
  <2> QED
    BY <2>2, <2>3, <2>4, <2>6, <2>7, <2>8 DEF Outcome
<1> QED
  BY <1>1, <1>2, <1>3 DEF Sweeps

\* The Host's frames go after those under way.
LEMMA TakeKeeps ==
    ASSUME NEW rows \in [Sessions -> States], NEW o,
           o.request \in [Sessions -> Requests], o.asked \in 0 .. MaxRequests,
           OneLocked(o.request), LockedHasRow(rows, o.request),
           o.frames \in Seq(DownFrames), down \in Seq(DownFrames), Take(o, down)
    PROVE  /\ request' \in [Sessions -> Requests] /\ asked' \in 0 .. MaxRequests
           /\ OneLocked(request') /\ LockedHasRow(rows, request')
           /\ down' \in Seq(DownFrames)
BY ConcatProperties DEF Take

\* What the Host's steps leave alone, and what of it the invariant speaks of.
LEMMA HostStepKeeps ==
    ASSUME IInv, HostTyped', Locks', down' \in Seq(DownFrames), up' \in Seq(Truthful(deleted)),
           link' = link /\ (link = "down" => down' = <<>> /\ up' = <<>> /\ ~ready'),
           UNCHANGED <<nodeVars, disk>>, Clocked',
           \A s \in Sessions : row'[s] = "gone" => row[s] = "gone" \/ s \in deleted
    PROVE  IInv'
<1> USE DEF nodeVars, disk
<1>1. WireTyped'
  BY DEF IInv, Typed, WireTyped
<1>2. LaneTyped' /\ NodeTyped'
  BY DEF IInv, Typed, LaneTyped, NodeTyped, Awaits
<1>3. OnlyDoneIsTold'
  BY DEF OnlyDoneIsTold
<1>4. DeletedIsGone' /\ StoppingIsWatched' /\ RemovingIsAtRest'
  BY DEF IInv, DeletedIsGone, StoppingIsWatched, RemovingIsAtRest, Cutoff
<1>5. GoneTogether'
  BY DEF IInv, GoneTogether, DeletedIsGone
<1> QED
  BY <1>1, <1>2, <1>3, <1>4, <1>5 DEF IInv, Typed

\* The monitor.
LEMMA SweepStep == ASSUME IInv, Sweep PROVE IInv'
<1> USE DEF IInv, Typed
<1>1. PICK o \in Sweeps(row, request, {}, TRUE) : Take(o, down)
  BY DEF Sweep
<1>2. /\ o.request \in [Sessions -> Requests] /\ o.asked \in 0 .. MaxRequests
      /\ OneLocked(o.request) /\ LockedHasRow(row, o.request)
      /\ o.frames \in Seq(DownFrames)
  BY SweepKeeps DEF HostTyped, Locks
<1>3. /\ request' \in [Sessions -> Requests] /\ asked' \in 0 .. MaxRequests
      /\ OneLocked(request') /\ LockedHasRow(row, request')
      /\ down' \in Seq(DownFrames)
  BY <1>1, <1>2, TakeKeeps DEF HostTyped, WireTyped
<1>4. ready /\ UNCHANGED <<row, seen, ready, up, link, nodeVars, disk, bounds>>
  BY DEF Sweep, HostOnly
<1>5. HostTyped' /\ Locks' /\ Clocked'
  BY <1>3, <1>4 DEF HostTyped, Locks, OneLocked, LockedHasRow, Clocked, bounds
<1>6. up' \in Seq(Truthful(deleted))
  BY <1>4 DEF OnlyDoneIsTold
<1> QED
  BY <1>3, <1>4, <1>5, <1>6, HostStepKeeps DEF WireTyped, GoneTogether

\* A prompt, or a resumption, by an operator: of a row that is not locked.
LEMMA OperatorStep ==
    ASSUME IInv, NEW s \in Sessions, SendPrompt(s) \/ Resume(s)
    PROVE  IInv'
<1> USE DEF IInv, Typed
<1>1. PICK st \in States, f \in DownFrames :
          /\ st # "gone" /\ row' = [row EXCEPT ![s] = st] /\ seen' = [seen EXCEPT ![s] = now]
          /\ down' = Append(down, f)
  BY DownTyped DEF SendPrompt, Resume, States, Live, Clocked
<1>2. ready /\ Use /\ UNCHANGED <<request, ready, asked, link, up, nodeVars, disk>>
  BY DEF SendPrompt, Resume
<1>3. down' \in Seq(DownFrames)
  BY <1>1, AppendProperties DEF WireTyped
<1>4. HostTyped' /\ Locks'
  BY <1>1, <1>2 DEF HostTyped, Locks, OneLocked, LockedHasRow, Clocked
<1>5. Clocked'
  BY <1>2, RetentionAssumption DEF Clocked, Use
<1>6. up' \in Seq(Truthful(deleted))
  BY <1>2 DEF OnlyDoneIsTold
<1> QED
  BY <1>1, <1>2, <1>3, <1>4, <1>5, <1>6, HostStepKeeps DEF WireTyped, HostTyped

\* The inventory: rows are settled, and what ended with the connection is
\* resumed; no row goes or comes back.
LEMMA ReconcileKeeps ==
    ASSUME IInv, NEW m, Reconcile(m), UNCHANGED <<now, deleted>>
    PROVE  HostTyped' /\ Locks' /\ down' \in Seq(DownFrames)
           /\ \A s \in Sessions : row'[s] = "gone" => row[s] = "gone"
<1> USE DEF IInv, Typed
<1> DEFINE rows == Settled(m)
           back == {s \in Sessions : /\ row[s] = "offline" /\ rows[s] = "ended"
                                     /\ ~request[s].inFlight /\ ~Expired("ended", seen[s])}
           loads == {Load(s, seen[s]) : s \in back}
<1>1. rows \in [Sessions -> States] /\ \A s \in Sessions : rows[s] = "gone" <=> row[s] = "gone"
  BY DEF Settled, States, Live, HostTyped
<1>2. PICK o \in Sweeps(rows, request, {}, TRUE) :
          Take([o EXCEPT !.frames = @ \o SetToSeq(loads)], down)
  BY DEF Reconcile
<1>3. row' = [s \in Sessions |-> IF s \in back THEN "starting" ELSE rows[s]]
      /\ ready' = TRUE /\ seen' = seen
  BY DEF Reconcile
<1> HIDE DEF rows
<1>4. LockedHasRow(rows, request)
  BY <1>1 DEF Locks, LockedHasRow
<1>5. /\ o.request \in [Sessions -> Requests] /\ o.asked \in 0 .. MaxRequests
      /\ OneLocked(o.request) /\ LockedHasRow(rows, o.request)
      /\ o.frames \in Seq(DownFrames) /\ o = Outcome(o.request, o.asked, o.frames)
  BY <1>1, <1>4, SweepKeeps DEF HostTyped, Locks
<1>6. IsFiniteSet(back)
  BY RetentionAssumption, FS_Subset
<1>7. IsFiniteSet(loads)
  <2>1. [s \in back |-> Load(s, seen[s])] \in Surjection(back, loads)
    BY DEF Surjection
  <2> QED
    BY <1>6, <2>1, FS_Surjection
<1>8. loads \in SUBSET DownFrames
  BY DownTyped DEF HostTyped
<1>9. SetToSeq(loads) \in Seq(DownFrames)
  BY <1>7, <1>8, SomeOrder
<1> HIDE DEF loads
<1> DEFINE p == [o EXCEPT !.frames = @ \o SetToSeq(loads)]
<1>10. p.request = o.request /\ p.asked = o.asked /\ p.frames \in Seq(DownFrames)
  BY <1>5, <1>9, ConcatProperties DEF Outcome
<1> HIDE DEF p
<1>11. /\ request' \in [Sessions -> Requests] /\ asked' \in 0 .. MaxRequests
       /\ OneLocked(request') /\ LockedHasRow(rows, request')
       /\ down' \in Seq(DownFrames)
  BY <1>1, <1>2, <1>5, <1>10, TakeKeeps DEF WireTyped, p
<1>12. row' \in [Sessions -> States] /\ \A s \in Sessions : row'[s] = "gone" => rows[s] = "gone"
  BY <1>1, <1>3 DEF States, Live
<1>13. HostTyped' /\ Locks'
  BY <1>3, <1>11, <1>12 DEF HostTyped, Locks, OneLocked, LockedHasRow
<1> QED
  BY <1>1, <1>11, <1>12, <1>13

\* An answer removes the row of the session it confirms, or unlocks it.
LEMMA CleanedKeeps ==
    ASSUME IInv, NEW m \in Truthful(deleted), m.k = "cleaned", HearCleaned(m),
           UNCHANGED <<now, deleted>>
    PROVE  HostTyped' /\ Locks' /\ down' \in Seq(DownFrames)
           /\ \A s \in Sessions : row'[s] = "gone" => row[s] = "gone" \/ s \in deleted
<1> USE DEF IInv, Typed
<1>0. m.s \in Sessions /\ m.ok \in BOOLEAN /\ (m.ok => m.s \in deleted)
  BY UpFields
<1>1. CASE UNCHANGED <<row, seen, request, ready, asked, down>>
  BY <1>1 DEF HostTyped, Locks, OneLocked, LockedHasRow, WireTyped
<1>2. CASE ~UNCHANGED <<row, seen, request, ready, asked, down>>
  <2> DEFINE rows == IF m.ok THEN [row EXCEPT ![m.s] = "gone"] ELSE row
             requests == [request EXCEPT ![m.s] =
                             IF m.ok THEN Nothing ELSE [@ EXCEPT !.inFlight = FALSE]]
  <2>1. row' = rows /\ seen' = seen /\ ready' = ready
    BY <1>2 DEF HearCleaned
  <2>2. PICK o \in Sweeps(rows, requests, {m.s}, FALSE) : Take(o, down)
    BY <1>2 DEF HearCleaned
  <2>3. rows \in [Sessions -> States]
    BY <1>0 DEF HostTyped, States
  <2>4. \A r \in Requests : [r EXCEPT !.inFlight = FALSE] \in Requests
    BY DEF Requests
  <2>5. Nothing \in Requests
    BY RetentionAssumption DEF Nothing, Requests, Times
  <2>6. requests \in [Sessions -> Requests]
    BY <1>0, <2>4, <2>5 DEF HostTyped
  <2>7. ~requests[m.s].inFlight /\ \A s \in Sessions \ {m.s} : requests[s] = request[s]
    BY <1>0 DEF Nothing, HostTyped, Requests
  <2>8. OneLocked(requests) /\ LockedHasRow(rows, requests)
    BY <2>7, <1>0 DEF Locks, OneLocked, LockedHasRow, HostTyped
  <2>9. \A s \in Sessions : rows[s] = "gone" => row[s] = "gone" \/ s \in deleted
    BY <1>0 DEF HostTyped
  <2> HIDE DEF rows, requests
  <2>10. /\ o.request \in [Sessions -> Requests] /\ o.asked \in 0 .. MaxRequests
         /\ OneLocked(o.request) /\ LockedHasRow(rows, o.request)
         /\ o.frames \in Seq(DownFrames)
    BY <2>2, <2>3, <2>6, <2>8, SweepKeeps
  <2>11. /\ request' \in [Sessions -> Requests] /\ asked' \in 0 .. MaxRequests
         /\ OneLocked(request') /\ LockedHasRow(rows, request')
         /\ down' \in Seq(DownFrames)
    BY <2>2, <2>3, <2>10, TakeKeeps DEF WireTyped
  <2> QED
    BY <2>1, <2>3, <2>9, <2>11 DEF HostTyped, Locks
<1> QED
  BY <1>1, <1>2

\* What the agent reports and a refused command move a row between the states
\* of a session that is there.
LEMMA ReportKeeps ==
    ASSUME IInv, NEW m \in Truthful(deleted), UNCHANGED <<now, deleted>>,
           (m.k = "state" /\ HearState(m)) \/ (m.k = "refused" /\ HearRefused(m))
    PROVE  HostTyped' /\ Locks' /\ down' \in Seq(DownFrames)
           /\ \A s \in Sessions : row'[s] = "gone" => row[s] = "gone"
<1> USE DEF IInv, Typed
<1>1. m.s \in Sessions /\ UNCHANGED <<request, ready, asked, down>>
  BY UpFields DEF HearState, HearRefused
<1>2. row' = row \/ \E st \in States \ {"gone"} : row' = [row EXCEPT ![m.s] = st]
  BY UpFields DEF HearState, HearRefused, States, Live
<1>3. seen' = seen \/ seen' = [seen EXCEPT ![m.s] = now]
  BY DEF HearState, HearRefused
<1>4. HostTyped'
  BY <1>1, <1>2, <1>3 DEF HostTyped, Clocked
<1>5. \A s \in Sessions : row'[s] = "gone" => row[s] = "gone"
  BY <1>1, <1>2 DEF HostTyped
<1>6. Locks'
  BY <1>1, <1>5 DEF Locks, OneLocked, LockedHasRow
<1> QED
  BY <1>1, <1>4, <1>5, <1>6 DEF WireTyped

LEMMA HostReadsStep == ASSUME IInv, HostReads PROVE IInv'
<1> USE DEF IInv, Typed
<1> DEFINE m == Head(up)
<1>1. m \in Truthful(deleted) /\ up' \in Seq(Truthful(deleted))
  BY HeadTailProperties DEF HostReads, OnlyDoneIsTold
<1>2. UNCHANGED <<link, nodeVars, disk, bounds>> /\ link = "up"
  BY DEF HostReads, HostOnly, WireTyped
<1>3. now' = now /\ deleted' = deleted /\ Clocked'
  BY <1>2 DEF bounds, nodeVars, Clocked
<1>4. \/ m.k = "inventory" /\ Reconcile(m)
      \/ m.k = "state" /\ HearState(m)
      \/ m.k = "cleaned" /\ HearCleaned(m)
      \/ m.k = "refused" /\ HearRefused(m)
  BY DEF HostReads
<1> HIDE DEF m
<1>5. HostTyped' /\ Locks' /\ down' \in Seq(DownFrames)
      /\ \A s \in Sessions : row'[s] = "gone" => row[s] = "gone" \/ s \in deleted
  <2>1. CASE m.k = "inventory" /\ Reconcile(m)
    BY <1>3, <2>1, ReconcileKeeps
  <2>2. CASE m.k = "cleaned" /\ HearCleaned(m)
    BY <1>1, <1>3, <2>2, CleanedKeeps
  <2>3. CASE (m.k = "state" /\ HearState(m)) \/ (m.k = "refused" /\ HearRefused(m))
    BY <1>1, <1>3, <2>3, ReportKeeps
  <2> QED
    BY <1>4, <2>1, <2>2, <2>3
<1> QED
  BY <1>1, <1>2, <1>3, <1>5, HostStepKeeps

-----------------------------------------------------------------------------
(* The connection and the clock.                                            *)

\* The Node says what it has when it connects.
LEMMA ConnectStep == ASSUME IInv, Connect PROVE IInv'
<1> USE DEF IInv, Typed
<1>1. UNCHANGED <<hostVars, down, nodeVars, disk, bounds>> /\ link = "down" /\ link' = "up"
  BY DEF Connect
<1>2. <<Inventory>> \in Seq(Truthful(deleted))
  BY DEF Inventory, Truthful, UpFrames
<1>3. up' \in Seq(Truthful(deleted))
  BY <1>2 DEF Connect
<1>4. HostTyped' /\ Locks' /\ Clocked' /\ WireTyped' /\ LaneTyped' /\ NodeTyped'
  BY <1>1 DEF HostTyped, Locks, OneLocked, LockedHasRow, Clocked, WireTyped, LaneTyped,
              NodeTyped, Awaits, hostVars, nodeVars, disk, bounds
<1>5. DeletedIsGone' /\ StoppingIsWatched' /\ RemovingIsAtRest' /\ GoneTogether'
  BY <1>1 DEF DeletedIsGone, StoppingIsWatched, RemovingIsAtRest, Cutoff, GoneTogether,
              hostVars, nodeVars, disk
<1> QED
  BY <1>1, <1>3, <1>4, <1>5 DEF OnlyDoneIsTold, nodeVars

\* What a lost connection leaves of the Host and the wire.
LEMMA LostKeeps ==
    ASSUME IInv, Lost
    PROVE  /\ HostTyped' /\ Locks' /\ WireTyped' /\ Clocked'
           /\ \A D : up' \in Seq(Truthful(D))
           /\ \A s \in Sessions : row'[s] = "gone" => row[s] = "gone"
<1> USE DEF IInv, Typed
<1>1. \A s \in Sessions : row'[s] = "gone" => row[s] = "gone"
  BY DEF Lost
<1>2. row' \in [Sessions -> States]
  BY DEF Lost, HostTyped, States
<1>3. HostTyped' /\ Locks'
  BY <1>1, <1>2 DEF Lost, HostTyped, Locks, OneLocked, LockedHasRow
<1>4. WireTyped' /\ \A D : up' \in Seq(Truthful(D))
  BY EmptySeq DEF Lost, WireTyped
<1>5. Clocked'
  BY RetentionAssumption DEF Lost, Clocked
<1> QED
  BY <1>1, <1>3, <1>4, <1>5

LEMMA BreakStep == ASSUME IInv, Break PROVE IInv'
<1> USE DEF IInv, Typed
<1>1. Lost /\ UNCHANGED <<nodeVars, disk>>
  BY DEF Break
<1>2. LaneTyped' /\ NodeTyped'
  BY <1>1 DEF LaneTyped, NodeTyped, Awaits, nodeVars, disk
<1>3. DeletedIsGone' /\ StoppingIsWatched' /\ RemovingIsAtRest' /\ GoneTogether'
  BY <1>1, LostKeeps DEF DeletedIsGone, StoppingIsWatched, RemovingIsAtRest, Cutoff,
                         GoneTogether, nodeVars, disk
<1> QED
  BY <1>1, <1>2, <1>3, LostKeeps DEF OnlyDoneIsTold

LEMMA NodeRestartStep == ASSUME IInv, NodeRestart PROVE IInv'
<1> USE DEF IInv, Typed
<1>1. /\ Lost /\ lane' = [s \in Sessions |-> <<>>] /\ stage' = [s \in Sessions |-> AtRest]
      /\ agent' = [s \in Sessions |-> "none"] /\ deleted' = {}
      /\ noted' = [s \in Sessions |-> Never] /\ kept' \subseteq kept /\ written' = written
  BY DEF NodeRestart
<1>2. LaneTyped'
  BY <1>1, EmptySeq DEF LaneTyped, AtRest, Stages
<1>3. NodeTyped'
  BY <1>1, RetentionAssumption DEF NodeTyped, Never, Times
<1>4. DeletedIsGone' /\ StoppingIsWatched' /\ RemovingIsAtRest' /\ GoneTogether'
  BY <1>1, LostKeeps DEF DeletedIsGone, StoppingIsWatched, RemovingIsAtRest, GoneTogether,
                         AtRest, NodeTyped
<1> QED
  BY <1>1, <1>2, <1>3, <1>4, LostKeeps DEF OnlyDoneIsTold

LEMMA PeriodStep == ASSUME IInv, PeriodPasses PROVE IInv'
<1> USE DEF IInv, Typed
<1>1. /\ UNCHANGED <<hostVars, wire, nodeVars, disk, uses, breaks>>
      /\ now < MaxTime /\ now' = now + 1
  BY DEF PeriodPasses
<1>2. Clocked'
  BY <1>1, RetentionAssumption DEF Clocked, Times
<1>3. HostTyped' /\ Locks' /\ WireTyped' /\ LaneTyped' /\ NodeTyped' /\ OnlyDoneIsTold'
  BY <1>1 DEF HostTyped, Locks, OneLocked, LockedHasRow, WireTyped, LaneTyped, NodeTyped,
              Awaits, OnlyDoneIsTold, hostVars, wire, nodeVars, disk
<1>4. DeletedIsGone' /\ StoppingIsWatched' /\ RemovingIsAtRest' /\ GoneTogether'
  BY <1>1 DEF DeletedIsGone, StoppingIsWatched, RemovingIsAtRest, Cutoff, GoneTogether,
              hostVars, nodeVars, disk
<1> QED
  BY <1>2, <1>3, <1>4

-----------------------------------------------------------------------------
(* The Node.                                                                *)

\* The parts of the invariant that speak of a session's conversation and of the
\* command under way for it.
AtEase(s) ==
    /\ s \in deleted => s \notin kept /\ agent[s] = "none"
    /\ s \in kept /\ stage[s].at = "stopping" => written[s] <= Cutoff(s) \/ noted[s] > Cutoff(s)
    /\ stage[s].at = "removing" => agent[s] = "none" /\ (s \in kept => written[s] <= Cutoff(s))
    /\ row[s] = "gone" => s \notin kept /\ agent[s] = "none"

LEMMA AllAtEase ==
    ASSUME NodeTyped
    PROVE  DeletedIsGone /\ StoppingIsWatched /\ RemovingIsAtRest /\ GoneTogether
           <=> \A s \in Sessions : AtEase(s)
BY DEF NodeTyped, DeletedIsGone, StoppingIsWatched, RemovingIsAtRest, GoneTogether, AtEase

\* A step of the Node for the session s.
LEMMA NodeStepKeeps ==
    ASSUME IInv, NEW s \in Sessions, NodeOnly, LaneTyped', NodeTyped', Clocked',
           up' \in Seq(Truthful(deleted')), link = "down" => up' = up,
           \A t \in Sessions \ {s} :
               /\ lane'[t] = lane[t] /\ stage'[t] = stage[t] /\ agent'[t] = agent[t]
               /\ noted'[t] = noted[t] /\ written'[t] = written[t]
               /\ (t \in deleted' <=> t \in deleted) /\ (t \in kept' <=> t \in kept),
           AtEase(s)'
    PROVE  IInv'
<1> USE DEF IInv, Typed, NodeOnly, hostVars
<1>1. HostTyped' /\ Locks' /\ WireTyped'
  BY DEF HostTyped, Locks, OneLocked, LockedHasRow, WireTyped
<1>2. \A t \in Sessions : AtEase(t)
  BY AllAtEase
<1>3. \A t \in Sessions \ {s} : AtEase(t)'
  BY <1>2 DEF AtEase, Cutoff
<1>4. (DeletedIsGone /\ StoppingIsWatched /\ RemovingIsAtRest /\ GoneTogether)'
  BY <1>3 DEF NodeTyped, DeletedIsGone, StoppingIsWatched, RemovingIsAtRest, GoneTogether, AtEase
<1> QED
  BY <1>1, <1>4 DEF OnlyDoneIsTold

\* A command that was taken is no deletion, so none is under way.
LEMMA TakenCommand ==
    ASSUME LaneTyped, NEW s \in Sessions, NEW k, k # "delete", Awaits(s, k), Done(s),
           stage' = stage
    PROVE  /\ stage[s].at = "none" /\ LaneTyped'
           /\ Head(lane[s]) \in DownFrames /\ Head(lane[s]).k = k
           /\ \A t \in Sessions \ {s} : lane'[t] = lane[t]
<1>1. stage[s].at = "none"
  BY DEF LaneTyped, Awaits
<1>2. lane[s] \in Seq(DownFrames) /\ lane[s] # <<>> /\ Head(lane[s]).k = k
  BY DEF LaneTyped, Awaits
<1>3. Head(lane[s]) \in DownFrames /\ Tail(lane[s]) \in Seq(DownFrames)
  BY <1>2, HeadTailProperties
<1>4. lane' \in [Sessions -> Seq(DownFrames)] /\ \A t \in Sessions \ {s} : lane'[t] = lane[t]
  BY <1>3 DEF LaneTyped, Done
<1>5. LaneTyped'
  BY <1>1, <1>4 DEF LaneTyped, Awaits
<1> QED
  BY <1>1, <1>2, <1>3, <1>4, <1>5

\* One frame, or none.
LEMMA OneFrame ==
    ASSUME NEW T
    PROVE  <<>> \in Seq(T) /\ \A f \in T : <<f>> \in Seq(T)
BY EmptySeq

\* A turn notes its activity where it writes.
LEMMA NotedTyped ==
    ASSUME NodeTyped, NEW s \in Sessions, NEW at \in Times
    PROVE  [noted EXCEPT ![s] = at] \in [Sessions -> Times]
           /\ [written EXCEPT ![s] = at] \in [Sessions -> Times]
BY DEF NodeTyped

LEMMA NodeReadsStep == ASSUME IInv, NodeReads PROVE IInv'
<1> USE DEF IInv, Typed
<1> DEFINE f == Head(down)
<1>1. f \in DownFrames /\ f.s \in Sessions /\ down' \in Seq(DownFrames)
  BY HeadTailProperties, DownFields DEF NodeReads, WireTyped
<1>2. /\ UNCHANGED <<hostVars, link, up, stage, agent, noted, deleted, disk, bounds>>
      /\ lane' = [lane EXCEPT ![f.s] = Append(@, f)] /\ link = "up"
  BY DEF NodeReads, WireTyped
<1> HIDE DEF f
<1>3. Append(lane[f.s], f) \in Seq(DownFrames)
  BY <1>1, AppendProperties DEF LaneTyped
<1>4. lane' \in [Sessions -> Seq(DownFrames)]
  BY <1>2, <1>3 DEF LaneTyped
<1>5. \A s \in Sessions : lane[s] # <<>> => lane'[s] # <<>> /\ Head(lane'[s]) = Head(lane[s])
  <2> TAKE s \in Sessions
  <2>1. lane[s] \in Seq(DownFrames)
    BY DEF LaneTyped
  <2>2. lane[s] # <<>> =>
            Append(lane[s], f) # <<>> /\ Head(Append(lane[s], f)) = Head(lane[s])
    BY <1>1, <2>1, AppendProperties, HeadTailAppend
  <2>3. lane'[s] = lane[s] \/ lane'[s] = Append(lane[s], f)
    BY <1>2 DEF LaneTyped
  <2> QED
    BY <2>2, <2>3
<1>6. LaneTyped'
  BY <1>2, <1>4, <1>5 DEF LaneTyped, Awaits
<1>7. HostTyped' /\ Locks' /\ WireTyped' /\ NodeTyped' /\ OnlyDoneIsTold' /\ Clocked'
  BY <1>1, <1>2 DEF HostTyped, Locks, OneLocked, LockedHasRow, WireTyped, NodeTyped,
                    OnlyDoneIsTold, Clocked, hostVars, disk, bounds
<1>8. \A s \in Sessions : stage[s].at # "none" => Cutoff(s)' = Cutoff(s)
  BY <1>5 DEF LaneTyped, Awaits, Cutoff
<1>9. DeletedIsGone' /\ StoppingIsWatched' /\ RemovingIsAtRest' /\ GoneTogether'
  BY <1>2, <1>8 DEF DeletedIsGone, StoppingIsWatched, RemovingIsAtRest, GoneTogether,
                    NodeTyped, hostVars, disk
<1> QED
  BY <1>6, <1>7, <1>9

LEMMA TakePromptStep == ASSUME IInv, NEW s \in Sessions, TakePrompt(s) PROVE IInv'
<1> USE DEF IInv, Typed
<1>1. /\ Awaits(s, "prompt") /\ Done(s)
      /\ UNCHANGED <<stage, deleted, kept, bounds>> /\ NodeOnly
  BY DEF TakePrompt
<1>2. /\ stage[s].at = "none" /\ LaneTyped'
      /\ \A t \in Sessions \ {s} : lane'[t] = lane[t]
  BY <1>1, TakenCommand
<1>3. PICK frames \in Seq(Truthful(deleted)) : Say(frames)
  BY UpTyped, OneFrame DEF TakePrompt
<1>4. /\ agent' = agent \/ (s \notin deleted /\ agent[s] = "idle" /\ agent' = [agent EXCEPT ![s] = "busy"])
      /\ noted' = noted \/ noted' = [noted EXCEPT ![s] = now]
      /\ written' = written \/ written' = [written EXCEPT ![s] = now]
  BY DEF TakePrompt, Begins
<1>5. NodeTyped' /\ Clocked'
  BY <1>1, <1>4 DEF NodeTyped, Clocked, bounds
<1>6. \A t \in Sessions \ {s} :
        agent'[t] = agent[t] /\ noted'[t] = noted[t] /\ written'[t] = written[t]
  BY <1>4 DEF NodeTyped
<1>7. AtEase(s)'
  BY <1>1, <1>2, <1>4 DEF AtEase, DeletedIsGone, GoneTogether, NodeOnly, hostVars,
                          NodeTyped
<1>8. up' \in Seq(Truthful(deleted')) /\ (link = "down" => up' = up)
  BY <1>1, <1>3, SaidTyped DEF OnlyDoneIsTold
<1> QED
  BY <1>1, <1>2, <1>5, <1>6, <1>7, <1>8, NodeStepKeeps

\* A resumption brings an agent only to a conversation that is there.
LEMMA TakeLoadStep == ASSUME IInv, NEW s \in Sessions, TakeLoad(s) PROVE IInv'
<1> USE DEF IInv, Typed
<1>1. /\ Awaits(s, "resume") /\ Done(s)
      /\ UNCHANGED <<stage, deleted, disk, bounds>> /\ NodeOnly
  BY DEF TakeLoad
<1>2. /\ stage[s].at = "none" /\ LaneTyped' /\ Head(lane[s]) \in DownFrames
      /\ Head(lane[s]).k = "resume"
      /\ \A t \in Sessions \ {s} : lane'[t] = lane[t]
  BY <1>1, TakenCommand
<1>3. PICK frames \in Seq(Truthful(deleted)) : Say(frames)
  BY UpTyped, OneFrame DEF TakeLoad
<1>4. /\ agent' = agent \/ (s \in kept \ deleted /\ agent' = [agent EXCEPT ![s] = "idle"])
      /\ noted' = noted \/ noted' = [noted EXCEPT ![s] = Later(@, Head(lane[s]).at)]
  BY DEF TakeLoad
<1>5. Head(lane[s]).at \in Times
  BY <1>2, DownFields
<1>6. NodeTyped' /\ Clocked'
  BY <1>1, <1>4, <1>5 DEF NodeTyped, Clocked, bounds, disk, Later
<1>7. \A t \in Sessions \ {s} : agent'[t] = agent[t] /\ noted'[t] = noted[t]
  BY <1>4 DEF NodeTyped
<1>8. AtEase(s)'
  BY <1>1, <1>2, <1>4 DEF AtEase, DeletedIsGone, GoneTogether, NodeOnly, hostVars, disk,
                          NodeTyped
<1>9. up' \in Seq(Truthful(deleted')) /\ (link = "down" => up' = up)
  BY <1>1, <1>3, SaidTyped DEF OnlyDoneIsTold
<1> QED
  BY <1>1, <1>2, <1>6, <1>7, <1>8, <1>9, NodeStepKeeps DEF disk

\* What the agent does while it works is written and noted together.
LEMMA AgentStep ==
    ASSUME IInv, NEW s \in Sessions, OwnTurn(s) \/ TurnEnds(s)
    PROVE  IInv'
<1> USE DEF IInv, Typed
<1>1. UNCHANGED <<lane, stage, deleted, kept>> /\ NodeOnly
  BY DEF OwnTurn, TurnEnds
<1>2. PICK st \in {"idle", "busy"} :
          /\ agent[s] # "none" /\ agent' = [agent EXCEPT ![s] = st]
          /\ noted' = [noted EXCEPT ![s] = now] /\ written' = [written EXCEPT ![s] = now]
  BY DEF OwnTurn, TurnEnds, Begins
<1>3. PICK frames \in Seq(Truthful(deleted)) : Say(frames)
  BY UpTyped, OneFrame DEF OwnTurn, TurnEnds
<1>4. Clocked'
  BY RetentionAssumption DEF OwnTurn, TurnEnds, Use, Clocked, bounds
<1>5. NodeTyped' /\ LaneTyped'
  BY <1>1, <1>2 DEF NodeTyped, LaneTyped, Clocked, Awaits
<1>6. \A t \in Sessions \ {s} :
        agent'[t] = agent[t] /\ noted'[t] = noted[t] /\ written'[t] = written[t]
  BY <1>2 DEF NodeTyped
<1>7. stage[s].at = "stopping" => Cutoff(s) \in Times
  <2>1. stage[s].at = "stopping" => lane[s] # <<>> /\ Head(lane[s]).k = "delete"
    BY DEF LaneTyped, Awaits
  <2>2. stage[s].at = "stopping" => Head(lane[s]) \in DownFrames
    BY <2>1, HeadTailProperties DEF LaneTyped
  <2> QED
    BY <2>1, <2>2, DownFields DEF Cutoff
<1>8. s \notin deleted /\ row[s] # "gone" /\ stage[s].at # "removing"
  BY <1>2 DEF DeletedIsGone, GoneTogether, RemovingIsAtRest
<1>9. noted'[s] = now /\ written'[s] = now
  BY <1>2 DEF NodeTyped
<1>10. AtEase(s)'
  BY <1>1, <1>7, <1>8, <1>9 DEF AtEase, NodeOnly, hostVars, Cutoff, Clocked, Times
<1>11. up' \in Seq(Truthful(deleted')) /\ (link = "down" => up' = up)
  BY <1>1, <1>3, SaidTyped DEF OnlyDoneIsTold
<1> QED
  BY <1>1, <1>4, <1>5, <1>6, <1>10, <1>11, NodeStepKeeps

LEMMA AgentEndsStep == ASSUME IInv, NEW s \in Sessions, AgentEnds(s) PROVE IInv'
<1> USE DEF IInv, Typed
<1>1. /\ UNCHANGED <<lane, stage, noted, deleted, disk>> /\ NodeOnly
      /\ agent' = [agent EXCEPT ![s] = "none"]
  BY DEF AgentEnds
<1>2. PICK frames \in Seq(Truthful(deleted)) : Say(frames)
  BY UpTyped, OneFrame DEF AgentEnds
<1>3. NodeTyped' /\ LaneTyped'
  BY <1>1 DEF NodeTyped, LaneTyped, Awaits, disk
<1>4. Clocked'
  BY RetentionAssumption DEF AgentEnds, Use, Clocked
<1>5. AtEase(s)'
  BY <1>1, AllAtEase DEF AtEase, Cutoff, NodeOnly, hostVars, disk, NodeTyped
<1>6. up' \in Seq(Truthful(deleted')) /\ (link = "down" => up' = up)
  BY <1>1, <1>2, SaidTyped DEF OnlyDoneIsTold
<1> QED
  BY <1>1, <1>3, <1>4, <1>5, <1>6, NodeStepKeeps DEF NodeTyped, disk

\* A deletion stops agents and takes conversations only after this.
LEMMA UsedOutsideStep == ASSUME IInv, NEW s \in Sessions, UsedOutside(s) PROVE IInv'
<1> USE DEF IInv, Typed
<1>1. /\ UNCHANGED <<hostVars, wire, nodeVars, kept>> /\ stage[s].at \in {"none", "listing"}
      /\ written' = [written EXCEPT ![s] = now]
  BY DEF UsedOutside
<1>2. NodeTyped' /\ LaneTyped' /\ NodeOnly
  BY <1>1 DEF NodeTyped, LaneTyped, Awaits, nodeVars, Clocked, NodeOnly, wire
<1>3. Clocked'
  BY RetentionAssumption DEF UsedOutside, Use, Clocked
<1>4. AtEase(s)'
  BY <1>1, AllAtEase DEF AtEase, hostVars, nodeVars
<1> QED
  BY <1>1, <1>2, <1>3, <1>4, NodeStepKeeps DEF NodeTyped, nodeVars, wire, OnlyDoneIsTold

-----------------------------------------------------------------------------
(* A deletion under way.                                                    *)

\* The command of a deletion, at the head of its session's lane.
LEMMA AtDelete ==
    ASSUME LaneTyped, NEW s \in Sessions, Awaits(s, "delete")
    PROVE  /\ lane[s] \in Seq(DownFrames) /\ lane[s] # <<>>
           /\ Head(lane[s]).id \in 0 .. MaxRequests /\ Cutoff(s) \in Times
           /\ Tail(lane[s]) \in Seq(DownFrames)
<1>1. lane[s] \in Seq(DownFrames) /\ lane[s] # <<>> /\ Head(lane[s]).k = "delete"
  BY DEF LaneTyped, Awaits
<1>2. Head(lane[s]) \in DownFrames /\ Tail(lane[s]) \in Seq(DownFrames)
  BY <1>1, HeadTailProperties
<1> QED
  BY <1>1, <1>2, DownFields DEF Cutoff

\* An answer ends the deletion, and confirms it only of what was deleted.
LEMMA AnswerKeeps ==
    ASSUME LaneTyped, NEW s \in Sessions, Awaits(s, "delete"), OnlyDoneIsTold,
           deleted \subseteq deleted', NEW ok \in BOOLEAN, ok => s \in deleted',
           NEW frames \in Seq(Truthful(deleted')), Answer(s, ok, frames)
    PROVE  /\ LaneTyped' /\ stage'[s].at = "none"
           /\ \A t \in Sessions \ {s} : lane'[t] = lane[t] /\ stage'[t] = stage[t]
           /\ up' \in Seq(Truthful(deleted')) /\ (link = "down" => up' = up)
<1>1. Head(lane[s]).id \in 0 .. MaxRequests /\ Tail(lane[s]) \in Seq(DownFrames)
  BY AtDelete
<1>2. AtRest \in Stages /\ AtRest.at = "none"
  BY DEF AtRest, Stages
<1>3. lane' = [lane EXCEPT ![s] = Tail(@)] /\ stage' = [stage EXCEPT ![s] = AtRest]
  BY DEF Answer, Done
<1>4. lane' \in [Sessions -> Seq(DownFrames)] /\ stage' \in [Sessions -> Stages]
  BY <1>1, <1>2, <1>3 DEF LaneTyped
<1>5. /\ stage'[s].at = "none"
      /\ \A t \in Sessions \ {s} : lane'[t] = lane[t] /\ stage'[t] = stage[t]
  BY <1>2, <1>3 DEF LaneTyped
<1>6. LaneTyped'
  BY <1>4, <1>5 DEF LaneTyped, Awaits
<1>7. Cleaned(s, Head(lane[s]).id, ok) \in Truthful(deleted')
  BY <1>1, UpTyped
<1>8. <<Cleaned(s, Head(lane[s]).id, ok)>> \in Seq(Truthful(deleted'))
  BY <1>7, OneFrame
<1>9. frames \o <<Cleaned(s, Head(lane[s]).id, ok)>> \in Seq(Truthful(deleted'))
  BY <1>8, ConcatProperties
<1>10. up' \in Seq(Truthful(deleted')) /\ (link = "down" => up' = up)
  BY <1>9, SaidTyped DEF Answer, OnlyDoneIsTold
<1> QED
  BY <1>5, <1>6, <1>10

\* A deletion that goes on.
LEMMA StageMoves ==
    ASSUME LaneTyped, NEW s \in Sessions, Awaits(s, "delete"), UNCHANGED <<lane, up>>,
           NEW r \in Stages, stage' = [stage EXCEPT ![s] = r]
    PROVE  /\ LaneTyped' /\ stage'[s] = r /\ Cutoff(s)' = Cutoff(s)
           /\ \A t \in Sessions \ {s} : lane'[t] = lane[t] /\ stage'[t] = stage[t]
BY DEF LaneTyped, Awaits, Cutoff

LEMMA DeleteBeginsStep == ASSUME IInv, NEW s \in Sessions, DeleteBegins(s) PROVE IInv'
<1> USE DEF IInv, Typed
<1>1. /\ Awaits(s, "delete") /\ NodeOnly /\ UNCHANGED <<agent, noted, deleted, disk, bounds>>
  BY DEF DeleteBegins
<1>2. NodeTyped' /\ Clocked'
  BY <1>1 DEF NodeTyped, Clocked, disk, bounds
<1>3. /\ LaneTyped' /\ stage'[s].at \in {"none", "listing"}
      /\ \A t \in Sessions \ {s} : lane'[t] = lane[t] /\ stage'[t] = stage[t]
      /\ up' \in Seq(Truthful(deleted')) /\ (link = "down" => up' = up)
  <2>1. CASE Answer(s, FALSE, <<>>)
    BY <1>1, <2>1, OneFrame, AnswerKeeps
  <2>2. CASE s \in deleted /\ Answer(s, TRUE, <<>>)
    BY <1>1, <2>2, OneFrame, AnswerKeeps
  <2>3. CASE /\ stage' = [stage EXCEPT ![s] = [at |-> "listing", had |-> agent[s] # "none"]]
             /\ UNCHANGED <<lane, up>>
    <3> DEFINE r == [at |-> "listing", had |-> agent[s] # "none"]
    <3>1. r \in Stages /\ r.at = "listing"
      BY DEF Stages
    <3> HIDE DEF r
    <3>2. stage' = [stage EXCEPT ![s] = r]
      BY <2>3 DEF r
    <3> QED
      BY <1>1, <2>3, <3>1, <3>2, StageMoves DEF OnlyDoneIsTold
  <2> QED
    BY <2>1, <2>2, <2>3 DEF DeleteBegins
<1>4. AtEase(s)'
  BY <1>1, <1>3, AllAtEase DEF AtEase, NodeOnly, hostVars, disk
<1> QED
  BY <1>1, <1>2, <1>3, <1>4, NodeStepKeeps DEF disk

\* What was listed as unused, and without an agent, may be removed at once.
LEMMA ListedStep == ASSUME IInv, NEW s \in Sessions, Listed(s) PROVE IInv'
<1> USE DEF IInv, Typed
<1>1. /\ Awaits(s, "delete") /\ NodeOnly /\ UNCHANGED <<agent, noted, deleted, disk, bounds>>
  BY DEF Listed, At
<1>2. NodeTyped' /\ Clocked'
  BY <1>1 DEF NodeTyped, Clocked, disk, bounds
<1>3. CASE Answer(s, FALSE, <<>>)
  <2>1. /\ LaneTyped' /\ stage'[s].at = "none"
        /\ \A t \in Sessions \ {s} : lane'[t] = lane[t] /\ stage'[t] = stage[t]
        /\ up' \in Seq(Truthful(deleted')) /\ (link = "down" => up' = up)
    BY <1>1, <1>3, OneFrame, AnswerKeeps
  <2>2. AtEase(s)'
    BY <1>1, <2>1, AllAtEase DEF AtEase, NodeOnly, hostVars, disk
  <2> QED
    BY <1>1, <1>2, <2>1, <2>2, NodeStepKeeps DEF disk
<1>4. CASE ~Answer(s, FALSE, <<>>)
  <2> DEFINE at == IF stage[s].had THEN "stopping" ELSE "removing"
  <2>1. /\ s \in kept => written[s] <= Cutoff(s)
        /\ ~stage[s].had => agent[s] = "none"
        /\ stage' = [stage EXCEPT ![s].at = at] /\ UNCHANGED <<lane, up>>
    BY <1>4 DEF Listed, Inactive, Cutoff
  <2> DEFINE r == [stage[s] EXCEPT !.at = at]
  <2>2. r \in Stages /\ r.at = at /\ stage' = [stage EXCEPT ![s] = r]
    BY <2>1 DEF LaneTyped, Stages
  <2> HIDE DEF r
  <2>3. /\ LaneTyped' /\ stage'[s].at = at /\ Cutoff(s)' = Cutoff(s)
        /\ \A t \in Sessions \ {s} : lane'[t] = lane[t] /\ stage'[t] = stage[t]
    BY <1>1, <2>1, <2>2, StageMoves
  <2>4. AtEase(s)'
    BY <1>1, <2>1, <2>3, AllAtEase DEF AtEase, NodeOnly, hostVars, disk
  <2> QED
    BY <1>1, <1>2, <2>1, <2>3, <2>4, NodeStepKeeps DEF disk, OnlyDoneIsTold
<1> QED
  BY <1>3, <1>4

\* A stopped agent leaves the conversation to be removed only if nothing was
\* noted since.
LEMMA StoppedStep == ASSUME IInv, NEW s \in Sessions, Stopped(s) PROVE IInv'
<1> USE DEF IInv, Typed
<1>1. /\ Awaits(s, "delete") /\ stage[s].at = "stopping" /\ NodeOnly
      /\ UNCHANGED <<noted, deleted, disk, bounds>>
      /\ agent' = agent \/ agent' = [agent EXCEPT ![s] = "none"]
  BY DEF Stopped, At
<1>2. /\ NodeTyped' /\ Clocked'
      /\ \A t \in Sessions \ {s} : agent'[t] = agent[t]
  BY <1>1 DEF NodeTyped, Clocked, disk, bounds
<1>3. CASE Answer(s, FALSE, <<>>) \/ Answer(s, FALSE, <<State(s, "ended", FALSE)>>)
  <2>1. <<State(s, "ended", FALSE)>> \in Seq(Truthful(deleted')) /\ <<>> \in Seq(Truthful(deleted'))
    BY UpTyped, OneFrame
  <2>2. /\ LaneTyped' /\ stage'[s].at = "none"
        /\ \A t \in Sessions \ {s} : lane'[t] = lane[t] /\ stage'[t] = stage[t]
        /\ up' \in Seq(Truthful(deleted')) /\ (link = "down" => up' = up)
    BY <1>1, <1>3, <2>1, AnswerKeeps
  <2>3. AtEase(s)'
    BY <1>1, <2>2, AllAtEase DEF AtEase, NodeOnly, hostVars, disk, NodeTyped
  <2> QED
    BY <1>1, <1>2, <2>2, <2>3, NodeStepKeeps DEF disk
<1>4. CASE /\ agent' = [agent EXCEPT ![s] = "none"] /\ Inactive(s, TRUE)
           /\ stage' = [stage EXCEPT ![s].at = "removing"] /\ UNCHANGED <<lane, up>>
  <2> DEFINE r == [stage[s] EXCEPT !.at = "removing"]
  <2>1. r \in Stages /\ r.at = "removing" /\ stage' = [stage EXCEPT ![s] = r]
    BY <1>4 DEF LaneTyped, Stages
  <2> HIDE DEF r
  <2>2. /\ LaneTyped' /\ stage'[s].at = "removing" /\ Cutoff(s)' = Cutoff(s)
        /\ \A t \in Sessions \ {s} : lane'[t] = lane[t] /\ stage'[t] = stage[t]
    BY <1>1, <1>4, <2>1, StageMoves
  <2>3. noted[s] <= Cutoff(s) /\ noted[s] \in Times /\ Cutoff(s) \in Times /\ agent'[s] = "none"
    BY <1>1, <1>4, AtDelete DEF Inactive, Cutoff, NodeTyped
  <2>4. s \in kept => written[s] <= Cutoff(s)
    BY <1>1, <2>3 DEF StoppingIsWatched, Times
  <2>5. AtEase(s)'
    BY <1>1, <2>2, <2>3, <2>4, AllAtEase DEF AtEase, NodeOnly, hostVars, disk
  <2> QED
    BY <1>1, <1>2, <1>4, <2>2, <2>5, NodeStepKeeps DEF disk, OnlyDoneIsTold
<1> QED
  BY <1>3, <1>4 DEF Stopped

\* Only a conversation that was removed is marked deleted.
LEMMA RemovedStep == ASSUME IInv, NEW s \in Sessions, Removed(s) PROVE IInv'
<1> USE DEF IInv, Typed
<1>1. /\ Awaits(s, "delete") /\ stage[s].at = "removing" /\ NodeOnly
      /\ UNCHANGED <<agent, written, bounds>>
  BY DEF Removed, At
<1>2. PICK gone \in BOOLEAN, ok \in BOOLEAN :
        /\ ok => gone
        /\ kept' = IF gone THEN kept \ {s} ELSE kept
        /\ deleted' = IF ok THEN deleted \cup {s} ELSE deleted
        /\ noted' = [noted EXCEPT ![s] = IF ok THEN Never ELSE @]
        /\ \E told \in {ok, FALSE} :
            Answer(s, told, IF stage[s].had /\ ~ok THEN <<State(s, "ended", FALSE)>> ELSE <<>>)
  BY DEF Removed
<1> DEFINE frames == IF stage[s].had /\ ~ok THEN <<State(s, "ended", FALSE)>> ELSE <<>>
<1>3. PICK told \in BOOLEAN : (told => ok) /\ Answer(s, told, frames)
  <2>1. CASE ok = TRUE
    BY <1>2, <2>1
  <2>2. CASE ok = FALSE
    BY <1>2, <2>2
  <2> QED
    BY <2>1, <2>2
<1>4. frames \in Seq(Truthful(deleted'))
  BY UpTyped, OneFrame
<1> HIDE DEF frames
<1>5. deleted \subseteq deleted' /\ (told => s \in deleted')
  BY <1>2, <1>3
<1>6. /\ LaneTyped' /\ stage'[s].at = "none"
      /\ \A t \in Sessions \ {s} : lane'[t] = lane[t] /\ stage'[t] = stage[t]
      /\ up' \in Seq(Truthful(deleted')) /\ (link = "down" => up' = up)
  BY <1>1, <1>3, <1>4, <1>5, AnswerKeeps
<1>7. noted' \in [Sessions -> Times] /\ \A t \in Sessions \ {s} : noted'[t] = noted[t]
  BY <1>2, RetentionAssumption DEF NodeTyped, Never, Times
<1>8. NodeTyped' /\ Clocked'
  BY <1>1, <1>2, <1>7 DEF NodeTyped, Clocked, bounds
<1>9. AtEase(s)'
  BY <1>1, <1>2, <1>6, AllAtEase DEF AtEase, NodeOnly, hostVars
<1> QED
  BY <1>1, <1>2, <1>6, <1>7, <1>8, <1>9, NodeStepKeeps

-----------------------------------------------------------------------------
(* The theorems.                                                            *)

LEMMA InitKeeps == Init => IInv
<1> SUFFICES ASSUME Init PROVE IInv
  OBVIOUS
<1>1. HostTyped /\ Clocked
  <2>1. 0 \in 0 .. MaxRequests /\ 0 \in 0 .. MaxUses /\ 0 \in 0 .. MaxBreaks
        /\ 0 \in Times /\ 1 \in Times \ {0}
    BY RetentionAssumption DEF Times
  <2>2. Nothing \in Requests
    BY <2>1 DEF Nothing, Requests
  <2>3. row \in [Sessions -> States]
    BY DEF Init, States, Live
  <2> QED
    BY <2>1, <2>2, <2>3 DEF Init, HostTyped, Clocked
<1>2. Locks
  BY DEF Init, Locks, OneLocked, LockedHasRow, Nothing
<1>3. WireTyped /\ OnlyDoneIsTold
  BY EmptySeq DEF Init, WireTyped, OnlyDoneIsTold
<1>4. LaneTyped
  BY EmptySeq DEF Init, LaneTyped, AtRest, Stages
<1>5. NodeTyped
  BY RetentionAssumption DEF Init, NodeTyped, Times
<1>6. DeletedIsGone /\ StoppingIsWatched /\ RemovingIsAtRest /\ GoneTogether
  BY DEF Init, DeletedIsGone, StoppingIsWatched, RemovingIsAtRest, GoneTogether, AtRest
<1> QED
  BY <1>1, <1>2, <1>3, <1>4, <1>5, <1>6 DEF IInv, Typed

LEMMA StutterKeeps == ASSUME IInv, UNCHANGED vars PROVE IInv'
<1> USE DEF IInv, Typed, vars, hostVars, wire, nodeVars, disk, bounds
<1>1. HostTyped' /\ Locks' /\ WireTyped' /\ LaneTyped' /\ NodeTyped' /\ Clocked' /\ OnlyDoneIsTold'
  BY DEF HostTyped, Locks, OneLocked, LockedHasRow, WireTyped, LaneTyped, NodeTyped, Awaits,
         Clocked, OnlyDoneIsTold
<1>2. DeletedIsGone' /\ StoppingIsWatched' /\ RemovingIsAtRest' /\ GoneTogether'
  BY DEF DeletedIsGone, StoppingIsWatched, RemovingIsAtRest, Cutoff, GoneTogether
<1> QED
  BY <1>1, <1>2

LEMMA NextKeeps == IInv /\ [Next]_vars => IInv'
<1> SUFFICES ASSUME IInv, [Next]_vars PROVE IInv'
  OBVIOUS
<1>1. CASE UNCHANGED vars
  BY <1>1, StutterKeeps
<1>2. CASE Sweep \/ HostReads \/ Connect \/ Break \/ NodeRestart \/ NodeReads \/ PeriodPasses
  BY <1>2, SweepStep, HostReadsStep, ConnectStep, BreakStep, NodeRestartStep, NodeReadsStep,
     PeriodStep
<1>3. ASSUME NEW s \in Sessions,
             \/ SendPrompt(s) \/ Resume(s) \/ TakePrompt(s) \/ TakeLoad(s)
             \/ OwnTurn(s) \/ TurnEnds(s) \/ AgentEnds(s) \/ UsedOutside(s)
      PROVE  IInv'
  BY <1>3, OperatorStep, TakePromptStep, TakeLoadStep, AgentStep, AgentEndsStep, UsedOutsideStep
<1>4. ASSUME NEW s \in Sessions, Deletes(s)
      PROVE  IInv'
  BY <1>4, DeleteBeginsStep, ListedStep, StoppedStep, RemovedStep DEF Deletes
<1> QED
  BY <1>1, <1>2, <1>3, <1>4 DEF Next

LEMMA Invariance == Spec => []IInv
<1> QED
  BY InitKeeps, NextKeeps, PTL DEF Spec

\* sweep, deleteSession: in every reachable state the variables have their
\* types, the Host has one deletion in flight for the Node and a row for its
\* session, and a deletion under way is at the head of its session's lane.
THEOREM TypeCorrect == Spec => []TypeOK
<1>1. IInv => TypeOK
  BY DEF IInv, Typed, HostTyped, Locks, OneLocked, LockedHasRow, WireTyped, LaneTyped, Stages,
         NodeTyped, Clocked, TypeOK
<1> QED
  BY <1>1, Invariance, PTL

\* completeSessionCleanup: a row that was removed leaves neither a conversation
\* on the Node's disk nor an agent that works for it.
THEOREM RowsGoWithTheirSessions == Spec => []GoneTogether
<1>1. IInv => GoneTogether
  BY DEF IInv
<1> QED
  BY <1>1, Invariance, PTL

\* Conversations are removed by a deletion at its last stage, or by one that a
\* restart of the Node interrupts there.
LEMMA OnlyRemoved ==
    ASSUME IInv, [Next]_vars, NEW s \in kept \ kept'
    PROVE  s \in Sessions /\ stage[s].at = "removing"
<1> USE DEF IInv, Typed
<1>1. s \in Sessions
  BY DEF NodeTyped
<1>2. NodeRestart \/ \E t \in Sessions : Removed(t)
  BY DEF Next, vars, disk, Sweep, HostReads, HostOnly, Connect, Break, NodeReads, PeriodPasses,
         SendPrompt, Resume, TakePrompt, TakeLoad, OwnTurn, TurnEnds, AgentEnds, UsedOutside,
         Deletes, DeleteBegins, Listed, Stopped
<1>3. CASE NodeRestart
  BY <1>1, <1>3 DEF NodeRestart
<1>4. ASSUME NEW t \in Sessions, Removed(t) PROVE stage[s].at = "removing"
  BY <1>4 DEF Removed, At
<1> QED
  BY <1>1, <1>2, <1>3, <1>4

\* deleteSession, deleteInactiveSession: no conversation is deleted that was used
\* after the cutoff of the request at the head of its lane, nor one an agent
\* works on, whatever was done while Copilot listed or the agent was stopped.
THEOREM UsedStays == Spec => UsedIsKept
<1>1. IInv /\ [Next]_vars =>
          [\A s \in kept \ kept' : written[s] <= Head(lane[s]).cutoff /\ agent[s] = "none"]_vars
  BY OnlyRemoved DEF IInv, RemovingIsAtRest, Cutoff
<1> QED
  BY <1>1, Invariance, PTL DEF Spec, UsedIsKept
==============================================================================
