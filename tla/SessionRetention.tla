--------------------------- MODULE SessionRetention ---------------------------
(***************************************************************************)
(* Deletion of sessions nobody used for the retention period.  The Host    *)
(* locks the session's row and asks its Node                               *)
(* (apps/host/src/session-retention.ts); the Node checks that the session  *)
(* is at rest, stops its agent and deletes the conversation                *)
(* (apps/node/src/router.ts, copilot-sessions.ts), which may fail at every *)
(* step; the Host removes the row, or unlocks it, when it is answered.     *)
(*                                                                         *)
(* There is one Node.  Time is counted in retention periods.  Stops,       *)
(* dismissals and favourites are left out, and so are the events a lost    *)
(* connection holds back: the inventory that follows them says the same.   *)
(***************************************************************************)
EXTENDS Naturals, SequencesExt, FiniteSets

CONSTANTS
    Sessions,     \* the Node's sessions
    MaxTime,      \* bound: retention periods that pass
    MaxRequests,  \* bound: deletions asked for
    MaxSends,     \* bound: an overdue request is repeated while fewer, and fewer
                  \* answers, are under way
    MaxUses,      \* bound: prompts, resumptions, turns and ends of the agents
    MaxBreaks     \* bound: lost connections and restarts

\* Every session was used in the first period, so there is one.
ASSUME RetentionAssumption ==
    /\ IsFiniteSet(Sessions)
    /\ MaxTime \in Nat \ {0}
    /\ {MaxRequests, MaxSends, MaxUses, MaxBreaks} \subseteq Nat

VARIABLES
    row,      \* the Host's rows: a state, or "gone"
    seen,     \* the last activity the Host knows of
    request,  \* the Host's last request for each session
    ready,    \* the Node was reconciled since it connected
    asked,    \* requests made so far; their identities
    link,     \* "up" or "down"
    down,     \* frames on their way to the Node
    up,       \* frames on their way to the Host
    lane,     \* commands the Node handles one after the other, per session
    stage,    \* how far the deletion at the head of the lane is
    agent,    \* "none", "idle", "busy": the session's slot
    noted,    \* the last activity the Node's process noted, or Never
    deleted,  \* sessions the Node's process knows to be deleted
    kept,     \* conversations that exist on the Node's disk
    written,  \* when each was last written
    now,      \* the clock
    uses,     \* prompts, resumptions, turns and ends so far
    breaks    \* lost connections and restarts so far

hostVars == <<row, seen, request, ready, asked>>
wire == <<link, down, up>>
nodeVars == <<lane, stage, agent, noted, deleted>>
disk == <<kept, written>>
bounds == <<now, uses, breaks>>
vars == <<hostVars, wire, nodeVars, disk, bounds>>

Never == 0
Nothing == [id |-> 0, cutoff |-> 0, inFlight |-> FALSE]
AtRest == [at |-> "none", had |-> FALSE]

Prompt(s) == [k |-> "prompt", s |-> s]
Load(s, at) == [k |-> "resume", s |-> s, at |-> at]
Delete(s, r) == [k |-> "delete", s |-> s, id |-> r.id, cutoff |-> r.cutoff]
Inventory == [k |-> "inventory", live |-> {s \in Sessions : agent[s] # "none"},
              busy |-> {s \in Sessions : agent[s] = "busy"}]
State(s, to, fresh) == [k |-> "state", s |-> s, to |-> to, fresh |-> fresh]
Cleaned(s, id, ok) == [k |-> "cleaned", s |-> s, id |-> id, ok |-> ok]
Refused(s, fatal) == [k |-> "refused", s |-> s, fatal |-> fatal]

\* Sessions that were used in the first period, with or without an agent.
Init ==
    /\ agent \in [Sessions -> {"none", "idle"}]
    /\ row = [s \in Sessions |-> IF agent[s] = "idle" THEN "offline" ELSE "ended"]
    /\ seen = [s \in Sessions |-> 1] /\ noted = seen /\ written = seen
    /\ request = [s \in Sessions |-> Nothing] /\ ready = FALSE /\ asked = 0
    /\ link = "down" /\ down = <<>> /\ up = <<>>
    /\ lane = [s \in Sessions |-> <<>>]
    /\ stage = [s \in Sessions |-> AtRest]
    /\ deleted = {} /\ kept = Sessions
    /\ now = 1 /\ uses = 0 /\ breaks = 0

-----------------------------------------------------------------------------
(* The Host.                                                                *)

\* eligible: at rest, and not used for a whole period.
Expired(st, at) == st \in {"idle", "ended"} /\ at < now

Outcome(requests, n, frames) == [request |-> requests, asked |-> n, frames |-> frames]

Ask(requests, s) ==
    LET r == [id |-> asked + 1, cutoff |-> now - 1, inFlight |-> TRUE] IN
    Outcome([requests EXCEPT ![s] = r], asked + 1, <<Delete(s, r)>>)

\* Variant: a session is asked for while another deletion is in flight.
SweepsBusy(rows, requests, not, again) ==
    LET flying == {s \in Sessions : requests[s].inFlight}
        asks == {s \in Sessions \ (not \cup flying) : Expired(rows[s], seen[s])} IN
    {Outcome(requests, asked, IF again THEN <<Delete(s, requests[s])>> ELSE <<>>)
        : s \in flying}
    \cup {Outcome(requests, asked, <<>>)}
    \cup {Ask(requests, s) : s \in {x \in asks : asked < MaxRequests}}

\* Variant: a request in flight is left to its answer.
SweepsOnce(rows, requests, not, again) ==
    LET flying == {s \in Sessions : requests[s].inFlight}
        asks == {s \in Sessions \ not : Expired(rows[s], seen[s])} IN
    IF flying # {}
    THEN {Outcome(requests, asked, <<>>)}
    ELSE {Outcome(requests, asked, <<>>)}
         \cup {Ask(requests, s) : s \in {x \in asks : asked < MaxRequests}}

\* sweep: the request in flight is repeated when the Node has reconnected or
\* the answer is overdue (again); when none is, a session may be asked for.
\* Which, and whether one that was refused before is due again, are dates.
Sweeps(rows, requests, not, again) ==
    LET flying == {s \in Sessions : requests[s].inFlight}
        asks == {s \in Sessions \ not : Expired(rows[s], seen[s])} IN
    IF flying # {}
    THEN {Outcome(requests, asked, IF again THEN <<Delete(s, requests[s])>> ELSE <<>>)
             : s \in flying}
    ELSE {Outcome(requests, asked, <<>>)}
         \cup {Ask(requests, s) : s \in {x \in asks : asked < MaxRequests}}

Take(o, frames) ==
    request' = o.request /\ asked' = o.asked /\ down' = frames \o o.frames

HostOnly == UNCHANGED <<link, nodeVars, disk, bounds>>

Waiting(s) == Len(SelectSeq(down \o lane[s] \o up,
                            LAMBDA m : m.k \in {"delete", "cleaned"} /\ m.s = s))

\* The monitor's sweep, hours after the one before.
Sweep ==
    /\ ready /\ \A s \in Sessions : request[s].inFlight => Waiting(s) < MaxSends
    /\ \E o \in Sweeps(row, request, {}, TRUE) : Take(o, down)
    /\ UNCHANGED <<row, seen, ready, up>> /\ HostOnly

Use == uses < MaxUses /\ uses' = uses + 1 /\ UNCHANGED <<now, breaks>>

\* dispatch of a prompt; a session being deleted refuses it.
SendPrompt(s) ==
    /\ ready /\ row[s] = "idle" /\ ~request[s].inFlight /\ Use
    /\ row' = [row EXCEPT ![s] = "running"] /\ seen' = [seen EXCEPT ![s] = now]
    /\ down' = Append(down, Prompt(s))
    /\ UNCHANGED <<request, ready, asked, link, up, nodeVars, disk>>

\* resumeSession, by an operator.
Resume(s) ==
    /\ ready /\ row[s] = "ended" /\ ~request[s].inFlight /\ Use
    /\ row' = [row EXCEPT ![s] = "starting"] /\ seen' = [seen EXCEPT ![s] = now]
    /\ down' = Append(down, Load(s, now))
    /\ UNCHANGED <<request, ready, asked, link, up, nodeVars, disk>>

Live == {"idle", "running", "starting"}

\* reconcileOfflineSessions.
Settled(m) ==
    [s \in Sessions |->
        IF row[s] # "offline" THEN row[s]
        ELSE IF s \notin m.live THEN "ended"
        ELSE IF s \in m.busy THEN "running" ELSE "idle"]

\* reconcile: rows are settled, the retention sweeps if the Node just came
\* back, and what ended with the connection is resumed unless it expires.
Reconcile(m) ==
    LET rows == Settled(m)
        back == {s \in Sessions : /\ row[s] = "offline" /\ rows[s] = "ended"
                                  /\ ~request[s].inFlight /\ ~Expired("ended", seen[s])} IN
    /\ row' = [s \in Sessions |-> IF s \in back THEN "starting" ELSE rows[s]]
    /\ ready' = TRUE
    /\ \E o \in Sweeps(rows, request, {}, TRUE) :
        Take([o EXCEPT !.frames = @ \o SetToSeq({Load(s, seen[s]) : s \in back})], down)
    /\ UNCHANGED seen

\* handleEventResult.
HearState(m) ==
    /\ row' = IF row[m.s] \in Live THEN [row EXCEPT ![m.s] = m.to] ELSE row
    /\ seen' = IF m.fresh /\ row[m.s] # "gone" THEN [seen EXCEPT ![m.s] = now] ELSE seen
    /\ UNCHANGED <<request, ready, asked, down>>

\* handleResult: only the request in flight is answered; its session's row is
\* removed (completeSessionCleanup) or unlocked (failSessionCleanup), and the
\* next one is asked for.
HearCleaned(m) ==
    IF ~request[m.s].inFlight \/ request[m.s].id # m.id
    THEN UNCHANGED <<row, seen, request, ready, asked, down>>
    ELSE LET rows == IF m.ok THEN [row EXCEPT ![m.s] = "gone"] ELSE row
             requests == [request EXCEPT ![m.s] =
                             IF m.ok THEN Nothing ELSE [@ EXCEPT !.inFlight = FALSE]] IN
         /\ row' = rows
         /\ \E o \in Sweeps(rows, requests, {m.s}, FALSE) : Take(o, down)
         /\ UNCHANGED <<seen, ready>>

\* failFromCommandResult, settleRefusedLaunch.
HearRefused(m) ==
    /\ row' = IF (m.fatal /\ row[m.s] \in Live \cup {"offline"}) \/ row[m.s] = "starting"
              THEN [row EXCEPT ![m.s] = "ended"] ELSE row
    /\ UNCHANGED <<seen, request, ready, asked, down>>

HostReads ==
    /\ up # <<>> /\ up' = Tail(up)
    /\ LET m == Head(up) IN
        \/ m.k = "inventory" /\ Reconcile(m)
        \/ m.k = "state" /\ HearState(m)
        \/ m.k = "cleaned" /\ HearCleaned(m)
        \/ m.k = "refused" /\ HearRefused(m)
    /\ HostOnly

-----------------------------------------------------------------------------
(* The connection.                                                          *)

\* The Node connects and, once its events are through, sends its inventory.
Connect ==
    /\ link = "down" /\ link' = "up" /\ up' = <<Inventory>>
    /\ UNCHANGED <<hostVars, down, nodeVars, disk, bounds>>

\* disconnectNode, nodeDisconnected.
Lost ==
    /\ breaks < MaxBreaks /\ breaks' = breaks + 1
    /\ link' = "down" /\ down' = <<>> /\ up' = <<>> /\ ready' = FALSE
    /\ row' = [s \in Sessions |-> IF row[s] \in Live THEN "offline" ELSE row[s]]
    /\ UNCHANGED <<seen, request, asked, now, uses>>

\* The connection is lost; a restart of the Host is the same, what it needs is
\* in its database.
Break == link = "up" /\ Lost /\ UNCHANGED <<nodeVars, disk>>

\* The Node forgets what it noted; a deletion under way may be carried out.
NodeRestart ==
    /\ Lost
    /\ lane' = [s \in Sessions |-> <<>>] /\ stage' = [s \in Sessions |-> AtRest]
    /\ agent' = [s \in Sessions |-> "none"] /\ deleted' = {}
    /\ noted' = [s \in Sessions |-> Never]
    /\ \E S \in SUBSET {s \in Sessions : stage[s].at = "removing"} : kept' = kept \ S
    /\ UNCHANGED written

-----------------------------------------------------------------------------
(* The Node.                                                                *)

Say(frames) == up' = IF link = "up" THEN up \o frames ELSE up

\* Commands for one session are handled one after the other (hostCommand).
NodeReads ==
    /\ down # <<>> /\ down' = Tail(down)
    /\ lane' = [lane EXCEPT ![Head(down).s] = Append(@, Head(down))]
    /\ UNCHANGED <<hostVars, link, up, stage, agent, noted, deleted, disk, bounds>>

NodeOnly == UNCHANGED <<hostVars, link, down>>

Awaits(s, k) == lane[s] # <<>> /\ Head(lane[s]).k = k
Done(s) == lane' = [lane EXCEPT ![s] = Tail(@)]

Begins(s) ==
    /\ agent' = [agent EXCEPT ![s] = "busy"] /\ noted' = [noted EXCEPT ![s] = now]
    /\ written' = [written EXCEPT ![s] = now]

\* execute (prompt).
TakePrompt(s) ==
    /\ Awaits(s, "prompt") /\ Done(s)
    /\ \/ /\ s \in deleted \/ agent[s] = "busy"
          /\ noted' = IF s \in deleted THEN noted ELSE [noted EXCEPT ![s] = now]
          /\ Say(<<Refused(s, FALSE)>>) /\ UNCHANGED <<agent, written>>
       \/ /\ s \notin deleted /\ agent[s] = "none" /\ Say(<<Refused(s, TRUE)>>)
          /\ UNCHANGED <<agent, noted, written>>
       \/ /\ s \notin deleted /\ agent[s] = "idle" /\ Say(<<>>) /\ Begins(s)
    /\ UNCHANGED <<stage, deleted, kept, bounds>> /\ NodeOnly

Later(a, b) == IF a > b THEN a ELSE b

\* startSession (resume): an automatic one does not count as activity.
TakeLoad(s) ==
    /\ Awaits(s, "resume") /\ Done(s)
    /\ noted' = IF s \in deleted THEN noted
                ELSE [noted EXCEPT ![s] = Later(@, Head(lane[s]).at)]
    /\ \/ s \in deleted /\ Say(<<Refused(s, FALSE)>>) /\ UNCHANGED agent
       \/ s \notin deleted /\ agent[s] # "none" /\ Say(<<>>) /\ UNCHANGED agent
       \/ /\ s \notin deleted \cup kept /\ agent[s] = "none"
          /\ Say(<<Refused(s, TRUE)>>) /\ UNCHANGED agent
       \/ /\ s \in kept \ deleted /\ agent[s] = "none"
          /\ agent' = [agent EXCEPT ![s] = "idle"] /\ Say(<<State(s, "idle", FALSE)>>)
    /\ UNCHANGED <<stage, deleted, disk, bounds>> /\ NodeOnly

\* A turn the agent begins by itself.
OwnTurn(s) ==
    /\ agent[s] = "idle" /\ Use /\ Begins(s)
    /\ Say(<<State(s, "running", TRUE)>>)
    /\ UNCHANGED <<lane, stage, deleted, kept>> /\ NodeOnly

TurnEnds(s) ==
    /\ agent[s] = "busy" /\ agent' = [agent EXCEPT ![s] = "idle"]
    /\ noted' = [noted EXCEPT ![s] = now] /\ written' = [written EXCEPT ![s] = now]
    /\ Say(<<State(s, "idle", TRUE)>>)
    /\ UNCHANGED <<lane, stage, deleted, kept, bounds>> /\ NodeOnly

\* The agent's process ends by itself; its slot is released.
AgentEnds(s) ==
    /\ agent[s] # "none" /\ agent' = [agent EXCEPT ![s] = "none"]
    /\ Use /\ Say(<<State(s, "ended", FALSE)>>)
    /\ UNCHANGED <<lane, stage, noted, deleted, disk>> /\ NodeOnly

\* assertInactive: the slot is the one that was there, and nothing was done.
Inactive(s, had) ==
    /\ had = (agent[s] # "none") /\ agent[s] # "busy"
    /\ noted[s] <= Head(lane[s]).cutoff

Answer(s, ok, frames) ==
    /\ Done(s) /\ stage' = [stage EXCEPT ![s] = AtRest]
    /\ Say(frames \o <<Cleaned(s, Head(lane[s]).id, ok)>>)

\* deleteSession, to its first wait; history that is not synchronized with the
\* Host refuses it before (hostCommand).
DeleteBegins(s) ==
    /\ Awaits(s, "delete") /\ stage[s].at = "none"
    /\ \/ Answer(s, FALSE, <<>>)
       \/ s \in deleted /\ Answer(s, TRUE, <<>>)
       \/ /\ s \notin deleted /\ Inactive(s, agent[s] # "none")
          /\ stage' = [stage EXCEPT ![s] = [at |-> "listing", had |-> agent[s] # "none"]]
          /\ UNCHANGED <<lane, up>>
    /\ UNCHANGED <<agent, noted, deleted, disk, bounds>> /\ NodeOnly

At(s, at) == Awaits(s, "delete") /\ stage[s].at = at

\* deleteInactiveSession, to beforeDelete: Copilot lists the conversations,
\* or fails to; one that was written since is kept.
Listed(s) ==
    /\ At(s, "listing")
    /\ \/ Answer(s, FALSE, <<>>)
       \/ /\ s \in kept => written[s] <= Head(lane[s]).cutoff
          /\ Inactive(s, stage[s].had)
          /\ stage' = [stage EXCEPT ![s].at = IF stage[s].had THEN "stopping" ELSE "removing"]
          /\ UNCHANGED <<lane, up>>
    /\ UNCHANGED <<agent, noted, deleted, disk, bounds>> /\ NodeOnly

\* Variant: the activity is not checked again once the process stopped.
StoppedUnchecked(s) ==
    /\ At(s, "stopping")
    /\ \/ Answer(s, FALSE, <<>>) /\ UNCHANGED agent
       \/ /\ agent' = [agent EXCEPT ![s] = "none"]
          /\ stage' = [stage EXCEPT ![s].at = "removing"] /\ UNCHANGED <<lane, up>>
    /\ UNCHANGED <<noted, deleted, disk, bounds>> /\ NodeOnly

\* beforeDelete: the agent was stopped, or could not be; what it did meanwhile
\* keeps the conversation.
Stopped(s) ==
    /\ At(s, "stopping")
    /\ \/ Answer(s, FALSE, <<>>) /\ UNCHANGED agent
       \/ /\ agent' = [agent EXCEPT ![s] = "none"]
          /\ IF Inactive(s, TRUE)
             THEN stage' = [stage EXCEPT ![s].at = "removing"] /\ UNCHANGED <<lane, up>>
             ELSE Answer(s, FALSE, <<State(s, "ended", FALSE)>>)
    /\ UNCHANGED <<noted, deleted, disk, bounds>> /\ NodeOnly

\* Variant: the session is marked deleted before its conversation is.
RemovedEarly(s) ==
    /\ At(s, "removing")
    /\ \E gone, ok \in BOOLEAN :
        /\ ok => gone
        /\ kept' = IF gone THEN kept \ {s} ELSE kept
        /\ deleted' = deleted \cup {s}
        /\ noted' = [noted EXCEPT ![s] = IF ok THEN Never ELSE @]
        /\ \E told \in {ok, FALSE} :
            Answer(s, told, IF stage[s].had /\ ~ok THEN <<State(s, "ended", FALSE)>> ELSE <<>>)
    /\ UNCHANGED <<agent, written, bounds>> /\ NodeOnly

\* deleteInactiveSession, after beforeDelete: an error does not say that the
\* conversation is still there, and what follows a deletion may fail too.
Removed(s) ==
    /\ At(s, "removing")
    /\ \E gone, ok \in BOOLEAN :
        /\ ok => gone
        /\ kept' = IF gone THEN kept \ {s} ELSE kept
        /\ deleted' = IF ok THEN deleted \cup {s} ELSE deleted
        /\ noted' = [noted EXCEPT ![s] = IF ok THEN Never ELSE @]
        /\ \E told \in {ok, FALSE} :
            Answer(s, told, IF stage[s].had /\ ~ok THEN <<State(s, "ended", FALSE)>> ELSE <<>>)
    /\ UNCHANGED <<agent, written, bounds>> /\ NodeOnly

\* The conversation is used outside of Fleet.  Copilot deletes without a
\* condition, so what is done after it was listed is not seen: left out.
UsedOutside(s) ==
    /\ s \in kept /\ agent[s] = "none" /\ stage[s].at \in {"none", "listing"}
    /\ Use /\ written' = [written EXCEPT ![s] = now]
    /\ UNCHANGED <<hostVars, wire, nodeVars, kept>>

PeriodPasses ==
    /\ now < MaxTime /\ now' = now + 1
    /\ UNCHANGED <<hostVars, wire, nodeVars, disk, uses, breaks>>
Deletes(s) == DeleteBegins(s) \/ Listed(s) \/ Stopped(s) \/ Removed(s)

Next ==
    \/ Sweep \/ HostReads \/ Connect \/ Break \/ NodeRestart \/ NodeReads
    \/ PeriodPasses
    \/ \E s \in Sessions :
        \/ SendPrompt(s) \/ Resume(s) \/ TakePrompt(s) \/ TakeLoad(s)
        \/ OwnTurn(s) \/ TurnEnds(s) \/ AgentEnds(s) \/ UsedOutside(s)
        \/ Deletes(s)

Spec == Init /\ [][Next]_vars

\* The Host's monitor and the Node's reconnect timer run for ever, frames on a
\* connection that lasts arrive, and what the Node waits for answers or times
\* out.
Fairness ==
    /\ WF_vars(Sweep) /\ WF_vars(HostReads) /\ WF_vars(Connect) /\ WF_vars(NodeReads)
    /\ \A s \in Sessions : WF_vars(TakePrompt(s)) /\ WF_vars(TakeLoad(s)) /\ WF_vars(Deletes(s))

FairSpec == Spec /\ Fairness

-----------------------------------------------------------------------------
(* Properties.                                                              *)

States == Live \cup {"offline", "ended", "gone"}
Times == 0 .. MaxTime
Requests == [id : 0 .. MaxRequests, cutoff : Times, inFlight : BOOLEAN]

\* Types; the Host has one deletion in flight for the Node (sweep, busyNodes),
\* and a deletion under way is at the head of its session's lane.
TypeOK ==
    /\ row \in [Sessions -> States] /\ seen \in [Sessions -> Times]
    /\ request \in [Sessions -> Requests]
    /\ \A s, t \in Sessions : request[s].inFlight /\ request[t].inFlight => s = t
    /\ \A s \in Sessions : request[s].inFlight => row[s] # "gone"
    /\ ready \in BOOLEAN /\ asked \in 0 .. MaxRequests
    /\ link \in {"up", "down"} /\ (link = "down" => down = <<>> /\ up = <<>>)
    /\ stage \in [Sessions -> [at : {"none", "listing", "stopping", "removing"}, had : BOOLEAN]]
    /\ \A s \in Sessions : stage[s].at # "none" => Awaits(s, "delete")
    /\ agent \in [Sessions -> {"none", "idle", "busy"}]
    /\ noted \in [Sessions -> Times] /\ written \in [Sessions -> Times]
    /\ deleted \subseteq Sessions /\ kept \subseteq Sessions
    /\ now \in Times /\ uses \in 0 .. MaxUses /\ breaks \in 0 .. MaxBreaks

\* completeSessionCleanup removes a row only when the Node has deleted its
\* conversation and released its slot: else the agent works for a session the
\* Host does not know, whose inventory it refuses, or the conversation is lost
\* to Fleet and stays on the disk.
GoneTogether ==
    \A s \in Sessions : row[s] = "gone" => s \notin kept /\ agent[s] = "none"

\* deleteSession, deleteInactiveSession: no conversation is deleted that was
\* used after the cutoff of the request, in a turn of either side or outside of
\* Fleet before Copilot listed it, nor one an agent works on.
UsedIsKept ==
    [][\A s \in kept \ kept' :
          written[s] <= Head(lane[s]).cutoff /\ agent[s] = "none"]_vars

\* sweep, handleResult: a locked session is removed or unlocked in the end,
\* whatever answers were lost.
LockIsReleased ==
    \A s \in Sessions : request[s].inFlight ~> ~request[s].inFlight

\* What apps/host/src/session-retention.ts:22 promises, "Keep the Fleet row
\* locked until that Node confirms": a conversation is deleted while its row
\* is locked.  It does not hold: a request that was repeated is carried out
\* again after its first refusal unlocked the row.
DeletedUnderLock == [][\A s \in kept \ kept' : request[s].inFlight]_vars
=============================================================================
