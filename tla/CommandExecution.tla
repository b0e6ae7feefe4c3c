--------------------------- MODULE CommandExecution ---------------------------
(***************************************************************************)
(* Remote command execution: the Host's record of a command a lead asked   *)
(* for (apps/host/src/command-execution-service.ts, -store.ts), the Node's *)
(* journalled attempt at it (apps/node/src/command-execution-manager.ts,   *)
(* command-journal.ts, checkout-locks.ts), and the supervisor that holds   *)
(* the process behind a gate (command-supervisor.ts, -posix-runner.ts).    *)
(* The Host, the Node and the supervisor fail and restart separately; the  *)
(* journal, the lock files and the supervisor's receipts survive.          *)
(*                                                                         *)
(* All commands are for one managed task, whose checkout a session of the  *)
(* Node may also want.  What a process prints is not modelled.             *)
(***************************************************************************)
EXTENDS Naturals, SequencesExt, FiniteSets

CONSTANTS
    Execs,       \* the commands; one attempt each
    MaxBreaks,   \* bound: losses of the connection and Host restarts
    MaxCrashes,  \* bound: deaths of the Node and of a supervisor
    MaxFrames,   \* bound: frames on their way in one direction
    Overlap,     \* bound: a command may be asked for before others are over
    Shared       \* a session of the Node wants the checkout, too

ASSUME CommandAssumption ==
    /\ IsFiniteSet(Execs) /\ Execs # {} /\ Execs \cap {"none", "session"} = {}
    /\ MaxBreaks \in Nat /\ MaxCrashes \in Nat /\ MaxFrames \in Nat
    /\ Overlap \in BOOLEAN /\ Shared \in BOOLEAN

VARIABLES
    host,     \* the Host's execution rows and attempt tombstones
    fence,    \* the Host's fence on the task
    link,     \* the connection: "down", "open" (accepted), "ready" (welcomed)
    toNode,   \* frames on their way to the Node
    toHost,   \* frames on their way to the Host
    rec,      \* the Node's journal: its records ...
    revoked,  \* ... and its cancellations
    lock,     \* who holds the checkout's lock file
    run,      \* how far the Node's start handler is
    clocks,   \* commands whose preparation this Node process timed
    reading,  \* recoveries waiting for the supervisor's files, and who asked
    stale,    \* receipts to repeat when such a recovery ends
    sup,      \* the supervisors and the files they left
    lapsed,   \* commands whose authorization to start ran out
    breaks,   \* breaks so far
    crashes,  \* crashes so far
    ran       \* history: how often the gate of a command was opened

hostVars == <<host, fence>>
nodeVars == <<rec, revoked, lock, run, clocks, reading, stale>>
vars == <<host, fence, link, toNode, toHost, rec, revoked, lock, run, clocks,
          reading, stale, sup, lapsed, breaks, crashes, ran>>

Unstarted == {"preparing", "awaiting_approval", "queued"}
Active == {"starting", "running", "cancelling", "reconciliation_required"}
Terminal == {"succeeded", "failed", "denied", "expired", "cancelled",
             "timed_out", "interrupted"}
Ownership == {"not_started", "active", "quiescent", "unknown"}

None == "none"
NoReceipt == [st |-> None, own |-> "not_started"]
NewRow == [st |-> None, own |-> "not_started", cancel |-> FALSE,
           desc |-> FALSE, began |-> FALSE, heard |-> NoReceipt]
NoRecord == [st |-> None, own |-> "not_started", launch |-> FALSE,
             admit |-> FALSE, leased |-> FALSE, acked |-> FALSE]
NoResult == [started |-> FALSE, why |-> None, quiet |-> FALSE]
NoSupervisor == [ph |-> None, release |-> FALSE, cancel |-> FALSE,
                 parent |-> TRUE, result |-> NoResult]

Init ==
    /\ host = [e \in Execs |-> NewRow]
    /\ fence = [st |-> "clear", exec |-> None, was |-> FALSE]
    /\ link = "ready" /\ toNode = <<>> /\ toHost = <<>>
    /\ rec = [e \in Execs |-> NoRecord] /\ revoked = {} /\ lock = None
    /\ run = [e \in Execs |-> "idle"] /\ clocks = {}
    /\ reading = [e \in Execs |-> "no"] /\ stale = [e \in Execs |-> NoReceipt]
    /\ sup = [e \in Execs |-> NoSupervisor] /\ lapsed = {}
    /\ breaks = 0 /\ crashes = 0
    /\ ran = [e \in Execs |-> 0]

-----------------------------------------------------------------------------
(* Frames.  What is sent on a dead socket, or before its death is noticed   *)
(* and not received, is lost at the Break.                                  *)

Frame(kind, e) == [k |-> kind, e |-> e]
Receipt(e, r) == [k |-> "receipt", e |-> e, st |-> r.st, own |-> r.own]

Down(frames) == toNode' = IF link = "down" THEN toNode ELSE toNode \o frames
Up(frames) == toHost' = IF link = "ready" THEN toHost \o frames ELSE toHost

\* What is sent for each command of a set, one frame for a command.
Each(S, frame(_)) == LET q == SetToSeq(S) IN [i \in DOMAIN q |-> frame(q[i])]

\* sendReceipt.
Tell(e, r) == Up(<<Receipt(e, r)>>)

-----------------------------------------------------------------------------
(* The Host.                                                                *)

Settled(h) == h.st \in Terminal
Retired(h) == Settled(h) /\ h.own = "not_started"
HostSt(h, st) == [h EXCEPT !.st = st]

\* finish: the command ends at the Host without having been started.  publish
\* then revokes the preparation at the Node.
Finish(h, st) == [h EXCEPT !.st = st, !.own = "not_started"]
Revocation(e) == <<Frame("cancel", e)>>

Become(e, h) == host' = [host EXCEPT ![e] = h]

FinishUnstarted(e, h) ==
    /\ Become(e, h) /\ Down(Revocation(e))
    /\ UNCHANGED <<fence, link, toHost, nodeVars, sup, lapsed, breaks, crashes, ran>>

HostOnly == UNCHANGED <<link, toHost, nodeVars, sup, lapsed, breaks, crashes, ran>>

Fenced == fence.st \in {"executing", "observation_required"}

\* Every command asked for was started, and is over at both ends.
AllOver ==
    /\ toNode = <<>> /\ toHost = <<>>
    /\ \A e \in Execs : host[e].st # None =>
           /\ Settled(host[e]) /\ host[e].began
           /\ rec[e].acked /\ run[e] = "idle"

\* request, sendPreparation: a lead asks for a command on a task whose fence
\* is open.  The commands are named in the order they are asked for.
Request(e) ==
    /\ host[e].st = None /\ ~Fenced
    /\ e = CHOOSE f \in Execs : host[f].st = None
    /\ Overlap \/ AllOver
    /\ Become(e, HostSt(host[e], IF link = "down" THEN "failed" ELSE "preparing"))
    /\ Down(<<Frame("prepare", e)>>)
    /\ UNCHANGED fence /\ HostOnly

\* tick, preparationTiming: the preparation took too long.
PreparationTimesOut(e) ==
    /\ host[e].st = "preparing" /\ FinishUnstarted(e, Finish(host[e], "failed"))

\* prepared: the Node's answer.  It may come too late, after the Host's clock
\* or target changed, or to a command that has been retired meanwhile.
HearPrepared ==
    /\ toHost # <<>> /\ Head(toHost).k = "prepared"
    /\ LET m == Head(toHost)
           h == host[m.e]
       IN  /\ \/ /\ h.st = "preparing" /\ m.ok
                 /\ Become(m.e, [h EXCEPT !.st = "awaiting_approval", !.desc = TRUE])
                 /\ Down(<<>>)
              \/ /\ h.st = "preparing"
                 /\ \E known \in {FALSE, m.ok} :
                        Become(m.e, [Finish(h, "failed") EXCEPT !.desc = known])
                 /\ Down(Revocation(m.e))
              \/ /\ Retired(h) /\ m.ok
                 /\ Become(m.e, [h EXCEPT !.desc = TRUE]) /\ Down(Revocation(m.e))
              \/ /\ Retired(h) /\ ~m.ok
                 /\ UNCHANGED host /\ Down(<<>>)
    /\ toHost' = Tail(toHost)
    /\ UNCHANGED <<fence, link, nodeVars, sup, lapsed, breaks, crashes, ran>>

\* decide: an operator, the Host's own policy or a rule of the Node allows or
\* denies what was prepared.
Approve(e) ==
    /\ host[e].st = "awaiting_approval" /\ ~Fenced
    /\ Become(e, HostSt(host[e], "queued")) /\ Down(<<>>)
    /\ UNCHANGED fence /\ HostOnly

Deny(e) ==
    /\ host[e].st = "awaiting_approval" /\ ~Fenced
    /\ FinishUnstarted(e, Finish(host[e], "denied"))

\* Variant: a command the Node may have started is reported as never started.
CancelAny(e) ==
    /\ host[e].st \in Unstarted \cup {"starting"}
    /\ FinishUnstarted(e, [Finish(host[e], "cancelled") EXCEPT !.cancel = TRUE])

\* cancel, revokeLead, revokeTask: a command that may have been started is
\* asked to stop, any other ends here.
Cancel(e) ==
    \/ /\ host[e].st \in Unstarted
       /\ FinishUnstarted(e, [Finish(host[e], "cancelled") EXCEPT !.cancel = TRUE])
    \/ /\ host[e].st \in Active /\ ~host[e].cancel
       /\ Become(e, [host[e] EXCEPT !.st = "cancelling", !.cancel = TRUE])
       /\ Down(Revocation(e))
       /\ UNCHANGED fence /\ HostOnly

\* tick: the authorization ran out before the command was started.
Expire(e) ==
    /\ host[e].st \in Unstarted /\ e \in lapsed
    /\ FinishUnstarted(e, Finish(host[e], "expired"))

OthersActive(e) == \E f \in Execs \ {e} : host[f].st \in Active

\* decide finds the clock changed; tick, before it dispatches, also the
\* permission or the target, or the task fenced.
RecheckFails(e) ==
    /\ \/ host[e].st = "awaiting_approval" /\ ~Fenced
       \/ host[e].st = "queued" /\ ~OthersActive(e)
    /\ FinishUnstarted(e, Finish(host[e], "failed"))

\* tick: a queued command is sent to the Node, behind the task's fence, which
\* remembers whether earlier work still waits for its verification.
Dispatch(e) ==
    /\ host[e].st = "queued" /\ ~OthersActive(e) /\ ~Fenced /\ link # "down"
    /\ fence' = [st |-> "executing", exec |-> e, was |-> fence.st = "verification_required"]
    /\ \/ /\ Become(e, [host[e] EXCEPT !.st = "starting", !.own = "unknown", !.began = TRUE])
          /\ Down(<<Frame("start", e)>>)
       \/ /\ Become(e, [host[e] EXCEPT !.st = "reconciliation_required",
                                       !.own = "unknown", !.began = TRUE])
          /\ Down(<<>>)
    /\ HostOnly

\* observe: once the command is over its checkout is looked at again.
Observe ==
    /\ fence.st = "observation_required" /\ link # "down"
    /\ fence' = [fence EXCEPT !.st = "verification_required"]
    /\ UNCHANGED host /\ Down(<<>>) /\ HostOnly

-----------------------------------------------------------------------------
(* Receipts of the Node, which the Host believes or refuses.                *)

\* A prepared command grants no authority to start.
OnlyPrepared(h, r) == r.st = "awaiting_approval"

\* The Node ended a command the Host has not sent.
EndsUnsent(h, r) ==
    /\ r.st \in {"cancelled", "expired", "failed"} /\ r.own = "not_started"
    /\ h.desc /\ ~h.began /\ h.own = "not_started"
    /\ h.heard \in {NoReceipt, [st |-> r.st, own |-> r.own]}

Repeats(h, r) == h.began /\ h.heard = [st |-> r.st, own |-> r.own]

News(h, r) ==
    /\ r.st \in Active \cup Terminal
    /\ h.began /\ ~Repeats(h, r) /\ h.st \in Active
    /\ r.st \in Terminal => r.own \in {"not_started", "quiescent"}
    /\ r.st = "starting" => h.st = "starting"

Believed(h, r) ==
    \/ OnlyPrepared(h, r) \/ EndsUnsent(h, r)
    \/ h.desc /\ (Repeats(h, r) \/ News(h, r))

Ack(e, over) == <<[k |-> "ack", e |-> e, terminal |-> over]>>

\* Variant: only the state a receipt tells is kept.
AfterNewsOfState(h, r) ==
    [h EXCEPT !.st = IF h.cancel /\ r.st \notin Terminal THEN "cancelling" ELSE r.st,
              !.heard = [st |-> r.st, own |-> r.own]]

AfterNews(h, r) ==
    [h EXCEPT !.st = IF h.cancel /\ r.st \notin Terminal THEN "cancelling" ELSE r.st,
              !.own = r.own, !.heard = [st |-> r.st, own |-> r.own]]

\* Variant: a command that was not started clears the task, whatever waited
\* for its verification before.
FenceAfterForgetful(e, r) ==
    IF fence.exec = e /\ r.st \in Terminal
    THEN [fence EXCEPT !.st = IF r.own = "not_started" THEN "clear"
                              ELSE "observation_required"]
    ELSE fence

\* The fence after the last news of the command it stands for.
FenceAfter(e, r) ==
    IF fence.exec = e /\ r.st \in Terminal
    THEN [fence EXCEPT !.st = IF r.own # "not_started" THEN "observation_required"
                              ELSE IF fence.was THEN "verification_required" ELSE "clear"]
    ELSE fence

\* receiveReceipt, for a receipt that is believed.
HearReceipt ==
    /\ toHost # <<>> /\ Head(toHost).k = "receipt"
    /\ LET m == Head(toHost)
           h == host[m.e]
           r == [st |-> m.st, own |-> m.own]
       IN  \/ /\ OnlyPrepared(h, r)
              /\ Down(IF Retired(h) THEN Revocation(m.e) ELSE <<>>)
              /\ UNCHANGED hostVars
           \/ /\ EndsUnsent(h, r)
              /\ Become(m.e, [h EXCEPT !.st = IF Settled(h) THEN @ ELSE r.st, !.heard = r])
              /\ Down((IF Settled(h) THEN <<>> ELSE Revocation(m.e)) \o Ack(m.e, TRUE))
              /\ UNCHANGED fence
           \/ /\ h.desc /\ Repeats(h, r)
              /\ Down(Ack(m.e, Settled(h))) /\ UNCHANGED hostVars
           \/ /\ h.desc /\ News(h, r)
              /\ Become(m.e, AfterNews(h, r)) /\ fence' = FenceAfter(m.e, r)
              /\ Down((IF r.st \in Terminal /\ r.own = "not_started" THEN Revocation(m.e)
                       ELSE <<>>) \o Ack(m.e, r.st \in Terminal))
    /\ toHost' = Tail(toHost)
    /\ UNCHANGED <<link, nodeVars, sup, lapsed, breaks, crashes, ran>>

-----------------------------------------------------------------------------
(* The connection and the Host's process.                                   *)

\* nodeDisconnected: what was being prepared ends, what may run is uncertain.
Disconnected(h) ==
    IF h.st = "preparing" THEN Finish(h, "failed")
    ELSE IF h.st \in Active
    THEN [h EXCEPT !.st = "reconciliation_required", !.own = "unknown"]
    ELSE h

Drop == /\ link' = "down" /\ toNode' = <<>> /\ toHost' = <<>>
        /\ UNCHANGED <<fence, nodeVars, sup, lapsed, crashes, ran>>

Break ==
    /\ link # "down" /\ breaks < MaxBreaks /\ breaks' = breaks + 1
    /\ host' = [e \in Execs |-> Disconnected(host[e])]
    /\ Drop

\* node-socket.ts: a receipt that is not believed closes the connection.
HangUp ==
    /\ toHost # <<>> /\ Head(toHost).k = "receipt"
    /\ ~Believed(host[Head(toHost).e], [st |-> Head(toHost).st, own |-> Head(toHost).own])
    /\ host' = [e \in Execs |-> Disconnected(host[e])]
    /\ Drop /\ UNCHANGED breaks

\* quarantine: at the Host's start whatever may run is uncertain.
HostRestart ==
    /\ breaks < MaxBreaks /\ breaks' = breaks + 1
    /\ host' = [e \in Execs |-> IF host[e].st \in Active THEN Disconnected(host[e]) ELSE host[e]]
    /\ Drop

\* Variant: a cancellation is sent once.
ReconnectOnce ==
    /\ link = "down" /\ \A e \in Execs : run[e] # "down"
    /\ link' = "open" /\ toHost' = <<>>
    /\ host' = [e \in Execs |-> IF host[e].st = "preparing" THEN Finish(host[e], "failed")
                                ELSE host[e]]
    /\ toNode' = <<[k |-> "welcome"]>>
          \o Each({e \in Execs : host[e].st \in Active}, LAMBDA e : Frame("reconcile", e))
          \o Each({e \in Execs : host[e].st = "preparing"},
                  LAMBDA e : Frame("cancel", e))
    /\ UNCHANGED <<fence, nodeVars, sup, lapsed, breaks, crashes, ran>>

\* acceptNode and reconnect: after the welcome the Host asks about what may be
\* running, ends what it was preparing and repeats its cancellations.
Reconnect ==
    /\ link = "down" /\ \A e \in Execs : run[e] # "down"
    /\ link' = "open" /\ toHost' = <<>>
    /\ host' = [e \in Execs |-> IF host[e].st = "preparing" THEN Finish(host[e], "failed")
                                ELSE host[e]]
    /\ toNode' = <<[k |-> "welcome"]>>
          \o Each({e \in Execs : host[e].st \in Active}, LAMBDA e : Frame("reconcile", e))
          \o Each({e \in Execs : \/ host[e].st = "preparing"
                                 \/ host[e].cancel /\ ~Settled(host[e])},
                  LAMBDA e : Frame("cancel", e))
    /\ UNCHANGED <<fence, nodeVars, sup, lapsed, breaks, crashes, ran>>

-----------------------------------------------------------------------------
(* The Node's journal and locks.                                            *)

Ended(r) == r.st \in Terminal
Held == {e \in Execs : rec[e].st # None}
Unacked == {e \in Held : ~rec[e].acked}
Record(e, r) == rec' = [rec EXCEPT ![e] = r]

\* unsettled: some command is at work here, or may be.
Busy == \E e \in Execs : run[e] \notin {"idle", "preparing"} \/ rec[e].own \in {"unknown", "active"}

\* expirePrepared.
Expired(e, r) ==
    IF /\ e \in lapsed /\ r.st # None /\ ~Ended(r) /\ ~r.launch /\ ~r.admit
    THEN [r EXCEPT !.st = "expired", !.own = "not_started"]
    ELSE r
ExpirePrepared == [e \in Execs |-> Expired(e, rec[e])]

NotStarted(r, st) ==
    [r EXCEPT !.st = IF Ended(r) THEN @ ELSE st, !.own = "not_started", !.leased = FALSE]

\* requireReconciliation: the lease is kept and the attempt never repeated.
Uncertain(r) == [r EXCEPT !.st = "reconciliation_required", !.own = "unknown"]

\* The receipt of a supervisor.
Proof(e) == sup[e].result

\* finish: what the record becomes by the supervisor's result.  "succeeded"
\* stands for whatever a process that was let run reported or ran out of time
\* with; a broken supervisor includes one that lost its Node.
Outcome(p) ==
    CASE p.why = "cancelled" -> "cancelled"
      [] p.why = "start_expired" -> "expired"
      [] p.why = "ended" -> "succeeded"
      [] p.why = "broken" -> IF p.started THEN "interrupted" ELSE "failed"

Finished(r, p) ==
    IF p.quiet
    THEN [r EXCEPT !.st = Outcome(p), !.leased = FALSE,
                   !.own = IF p.started THEN "quiescent" ELSE "not_started"]
    ELSE Uncertain(r)

\* release, releaseRecovered.
Unlock(e) == IF lock = e THEN None ELSE lock

\* Variant: a recovery without receipts takes the process for gone.
RecoveredHopeful(e, r) ==
    IF r.launch /\ ~Ended(r)
    THEN IF Proof(e) = NoResult THEN NotStarted(r, "failed") ELSE Finished(r, Proof(e))
    ELSE IF r.admit /\ r.leased THEN NotStarted(r, "failed")
    ELSE r

\* recoverAttempt: by the supervisor's files, or the lack of them.
Recovered(e, r) ==
    IF r.launch /\ ~Ended(r)
    THEN IF Proof(e) = NoResult THEN Uncertain(r) ELSE Finished(r, Proof(e))
    ELSE IF r.admit /\ r.leased THEN NotStarted(r, "failed")
    ELSE r

NodeOnly == UNCHANGED <<hostVars, link, toNode, lapsed, breaks, crashes, ran>>
Took == toNode' = Tail(toNode)
Arrives(kind) == link # "down" /\ toNode # <<>> /\ Head(toNode).k = kind
NodeFrame == UNCHANGED <<hostVars, lapsed, breaks, crashes, ran>>

-----------------------------------------------------------------------------
(* What the Node does with the Host's frames.                               *)

\* inventory, on the welcome.
Welcome ==
    /\ Arrives("welcome") /\ Took
    /\ link' = "ready"
    /\ rec' = ExpirePrepared
    /\ toHost' = Each(Unacked, LAMBDA e : Receipt(e, Expired(e, rec[e])))
    /\ UNCHANGED <<revoked, lock, run, clocks, reading, stale, sup>> /\ NodeFrame

\* prepare, to its first await.
PrepareArrives ==
    /\ Arrives("prepare") /\ Took
    /\ rec' = ExpirePrepared
    /\ run' = [run EXCEPT ![Head(toNode).e] = "preparing"]
    /\ UNCHANGED <<link, toHost, revoked, lock, clocks, reading, stale, sup>> /\ NodeFrame

\* prepare, after the checkout was inspected: the descriptor is journalled,
\* ended at once by a cancellation that came first; or the Node refuses.
Prepare(e) ==
    /\ run[e] = "preparing" /\ run' = [run EXCEPT ![e] = "idle"]
    /\ \/ LET r == IF e \in revoked THEN [NoRecord EXCEPT !.st = "cancelled"]
                   ELSE [NoRecord EXCEPT !.st = "awaiting_approval"]
          IN  /\ Record(e, r) /\ clocks' = clocks \cup {e}
              /\ Up(<<[k |-> "prepared", e |-> e, ok |-> TRUE]>>
                    \o IF e \in revoked THEN <<Receipt(e, r)>> ELSE <<>>)
       \/ /\ Up(<<[k |-> "prepared", e |-> e, ok |-> FALSE]>>)
          /\ UNCHANGED <<rec, clocks>>
    /\ UNCHANGED <<revoked, lock, reading, stale, sup>> /\ NodeOnly

\* assertStart: this Node process prepared the command, and in time.
MayStart(e) == e \in clocks /\ e \notin lapsed

\* start, to its first await.  A refusal is journalled by handle.
StartArrives ==
    /\ Arrives("start") /\ Took
    /\ LET e == Head(toNode).e
           r == rec[e]
           refused == NotStarted(r, IF e \in lapsed THEN "expired" ELSE "failed")
       IN  \/ /\ r.launch \/ Ended(r)
              /\ Tell(e, r) /\ UNCHANGED <<rec, run>>
           \/ /\ ~r.launch /\ ~Ended(r) /\ (~MayStart(e) \/ Busy)
              /\ Record(e, refused) /\ Tell(e, refused) /\ UNCHANGED run
           \/ /\ ~r.launch /\ ~Ended(r) /\ MayStart(e) /\ ~Busy
              /\ Record(e, [r EXCEPT !.admit = TRUE, !.leased = TRUE])
              /\ run' = [run EXCEPT ![e] = "admitting"] /\ UNCHANGED toHost
    /\ UNCHANGED <<link, revoked, lock, clocks, reading, stale, sup>> /\ NodeFrame

\* Variant: a late cancellation changes what has ended.
CancelledRecordLate(r) ==
    IF r.launch THEN [r EXCEPT !.st = "cancelling"]
    ELSE [r EXCEPT !.st = "cancelled", !.own = "not_started"]

CancelledRecord(r) ==
    IF Ended(r) THEN r
    ELSE IF r.launch THEN [r EXCEPT !.st = "cancelling"]
    ELSE [r EXCEPT !.st = "cancelled", !.own = "not_started"]

HasProcess(e) == run[e] \in {"supervised", "committed", "waiting"}

\* cancel: durable in any case; a process is told, and answers by its end.
CancelArrives ==
    /\ Arrives("cancel") /\ Took
    /\ LET e == Head(toNode).e
           r == CancelledRecord(rec[e])
       IN  /\ revoked' = revoked \cup {e}
           /\ IF rec[e].st = None THEN UNCHANGED <<rec, toHost, sup>>
              ELSE /\ Record(e, r)
                   /\ IF HasProcess(e) /\ ~Ended(r)
                      THEN sup' = [sup EXCEPT ![e].cancel = TRUE] /\ UNCHANGED toHost
                      ELSE Tell(e, r) /\ UNCHANGED sup
    /\ UNCHANGED <<link, lock, run, clocks, reading, stale>> /\ NodeFrame

\* command_execution_ack: the Host holds the outcome.
AckArrives ==
    /\ Arrives("ack") /\ Took
    /\ LET e == Head(toNode).e
       IN  rec' = [rec EXCEPT ![e].acked = \/ @
                                           \/ /\ Head(toNode).terminal /\ Ended(rec[e])
                                              /\ rec[e].own \in {"not_started", "quiescent"}]
    /\ UNCHANGED <<link, toHost, revoked, lock, run, clocks, reading, stale, sup>> /\ NodeFrame

\* recover reads the supervisor's files unless the start handler is at it.
Readable(e) == /\ run[e] \in {"idle", "orphaned"} /\ rec[e].launch /\ ~Ended(rec[e])

\* reconcile_command_executions: a copy of the record is taken, a recovery
\* awaited, and the copy's receipt sent.  A recovery that was already going on
\* works on a copy of its own.
ReconcileArrives ==
    /\ Arrives("reconcile") /\ Took
    /\ LET e == Head(toNode).e
       IN  \/ /\ ~Readable(e)
              /\ Tell(e, rec[e]) /\ UNCHANGED <<reading, stale>>
           \/ /\ Readable(e) /\ reading[e] = "no"
              /\ reading' = [reading EXCEPT ![e] = "Host"] /\ UNCHANGED <<stale, toHost>>
           \/ /\ Readable(e) /\ reading[e] # "no"
              /\ stale' = [stale EXCEPT ![e] = [st |-> rec[e].st, own |-> rec[e].own]]
              /\ UNCHANGED <<reading, toHost>>
    /\ UNCHANGED <<link, rec, revoked, lock, run, clocks, sup>> /\ NodeFrame

-----------------------------------------------------------------------------
(* start, after its first await.  Every step may also fail.                 *)

\* The checkout is leased; a session may hold it.
Acquire(e) ==
    /\ run[e] = "admitting" /\ lock = None
    /\ lock' = e /\ run' = [run EXCEPT ![e] = "leased"]
    /\ UNCHANGED <<toHost, rec, revoked, clocks, reading, stale, sup>> /\ NodeOnly

\* Admission is refused: by the target, the lease, the permission, the clock,
\* or a cancellation.
AdmissionFails(e) ==
    /\ run[e] \in {"admitting", "leased"}
    /\ LET r == NotStarted(rec[e], IF e \in revoked THEN "cancelled" ELSE "failed")
       IN  Record(e, r) /\ Tell(e, r)
    /\ lock' = Unlock(e) /\ run' = [run EXCEPT ![e] = "idle"]
    /\ UNCHANGED <<revoked, clocks, reading, stale, sup>> /\ NodeOnly

\* The intent to launch is journalled.
Launch(e) ==
    /\ run[e] = "leased" /\ MayStart(e) /\ e \notin revoked
    /\ Record(e, [rec[e] EXCEPT !.launch = TRUE, !.st = "starting", !.own = "unknown"])
    /\ run' = [run EXCEPT ![e] = "intended"]
    /\ UNCHANGED <<toHost, revoked, lock, clocks, reading, stale, sup>> /\ NodeOnly

\* supervisor.prepare: a supervisor holds the process behind its gate.
Supervise(e) ==
    /\ run[e] = "intended"
    /\ sup' = [sup EXCEPT ![e].ph = "closed", ![e].parent = TRUE]
    /\ run' = [run EXCEPT ![e] = "supervised"]
    /\ UNCHANGED <<toHost, rec, revoked, lock, clocks, reading, stale>> /\ NodeOnly

\* supervisor.prepare throws: nothing was spawned, or it is not ready in time
\* and is told to give up.
SuperviseFails(e) ==
    /\ run[e] = "intended"
    /\ \/ UNCHANGED sup
       \/ sup' = [sup EXCEPT ![e].ph = "closed", ![e].parent = TRUE, ![e].cancel = TRUE]
    /\ run' = [run EXCEPT ![e] = "orphaned"]
    /\ Record(e, Uncertain(rec[e])) /\ Tell(e, Uncertain(rec[e]))
    /\ UNCHANGED <<revoked, lock, clocks, reading, stale>> /\ NodeOnly

\* The last look before the release, which is recorded before it is made.
Commit(e) ==
    /\ run[e] = "supervised" /\ MayStart(e) /\ e \notin revoked
    /\ Record(e, [rec[e] EXCEPT !.st = "running", !.own = "active"])
    /\ run' = [run EXCEPT ![e] = "committed"]
    /\ UNCHANGED <<toHost, revoked, lock, clocks, reading, stale, sup>> /\ NodeOnly

\* The last look finds a cancellation, or fails, or the release itself fails:
\* the process is told to end.
Abandon(e) ==
    /\ run[e] \in {"supervised", "committed"}
    /\ sup' = [sup EXCEPT ![e].cancel = TRUE]
    /\ IF run[e] = "supervised" /\ e \in revoked
       THEN Record(e, [rec[e] EXCEPT !.st = "cancelling"]) ELSE UNCHANGED rec
    /\ run' = [run EXCEPT ![e] = "waiting"]
    /\ UNCHANGED <<toHost, revoked, lock, clocks, reading, stale>> /\ NodeOnly

\* child.release.
Release(e) ==
    /\ run[e] = "committed" /\ e \notin lapsed
    /\ sup[e].ph = "closed" /\ ~sup[e].cancel
    /\ sup' = [sup EXCEPT ![e].release = TRUE]
    /\ run' = [run EXCEPT ![e] = "waiting"]
    /\ Tell(e, rec[e])
    /\ UNCHANGED <<rec, revoked, lock, clocks, reading, stale>> /\ NodeOnly

\* finish: the supervisor's result, or its silent death.  A start handler that
\* is still at work finds its ticket released.
Settle(e) ==
    /\ HasProcess(e)
    /\ \/ /\ Proof(e) # NoResult
          /\ LET r == Finished(rec[e], Proof(e)) IN Record(e, r) /\ Tell(e, r)
          /\ lock' = IF Proof(e).quiet THEN Unlock(e) ELSE lock
          /\ run' = [run EXCEPT ![e] = IF Proof(e).quiet THEN "idle" ELSE "orphaned"]
       \/ /\ Proof(e) = NoResult /\ sup[e].ph \in {"lingering", "gone"}
          /\ Record(e, Uncertain(rec[e])) /\ Tell(e, Uncertain(rec[e]))
          /\ run' = [run EXCEPT ![e] = "orphaned"] /\ UNCHANGED lock
    /\ UNCHANGED <<revoked, clocks, reading, stale, sup>> /\ NodeOnly

-----------------------------------------------------------------------------
(* Recovery, the heartbeat and the death of the Node.                       *)

\* recoverAll, every heartbeat while something is unsettled, with the bound of
\* Flush.
RecoverBegin(e) ==
    /\ Readable(e) /\ reading[e] = "no" /\ toHost = <<>> /\ toNode = <<>>
    /\ reading' = [reading EXCEPT ![e] = "heartbeat"]
    /\ UNCHANGED <<toHost, rec, revoked, lock, run, clocks, stale, sup>> /\ NodeOnly

\* Its receipt is sent by finish, or for the Host that asked.
RecoverEnd(e) ==
    /\ reading[e] # "no" /\ reading' = [reading EXCEPT ![e] = "no"]
    /\ LET r == Recovered(e, rec[e])
           told == reading[e] = "Host" \/ Proof(e) # NoResult
       IN  /\ Record(e, r)
           /\ Up((IF told THEN <<Receipt(e, r)>> ELSE <<>>)
                 \o IF stale[e] = NoReceipt THEN <<>> ELSE <<Receipt(e, stale[e])>>)
           /\ lock' = IF r.leased THEN lock ELSE Unlock(e)
           /\ run' = [run EXCEPT ![e] = IF r.leased THEN @ ELSE "idle"]
    /\ stale' = [stale EXCEPT ![e] = NoReceipt]
    /\ UNCHANGED <<revoked, clocks, sup>> /\ NodeOnly

\* flush, every heartbeat: what is not acknowledged is sent again.  Bound: only
\* when everything sent before has arrived.
Flush ==
    /\ link = "ready" /\ toHost = <<>> /\ toNode = <<>> /\ Unacked # {}
    /\ toHost' = Each(Unacked, LAMBDA e : Receipt(e, rec[e]))
    /\ UNCHANGED <<rec, revoked, lock, run, clocks, reading, stale, sup>> /\ NodeOnly

\* The Node process dies; its supervisors notice later.
NodeCrash ==
    /\ crashes < MaxCrashes /\ crashes' = crashes + 1
    /\ \A e \in Execs : run[e] # "down"
    /\ run' = [e \in Execs |-> "down"] /\ clocks' = {}
    /\ reading' = [e \in Execs |-> "no"]
    /\ stale' = [e \in Execs |-> NoReceipt]
    /\ sup' = [e \in Execs |-> [sup[e] EXCEPT !.parent = FALSE]]
    /\ link' = "down" /\ toNode' = <<>> /\ toHost' = <<>>
    /\ host' = [e \in Execs |-> Disconnected(host[e])]
    /\ UNCHANGED <<fence, rec, revoked, lock, lapsed, breaks, ran>>

\* The next Node process recovers before it connects.
Boot ==
    /\ \A e \in Execs : run[e] = "down"
    /\ run' = [e \in Execs |-> "idle"]
    /\ rec' = [e \in Execs |-> Recovered(e, Expired(e, rec[e]))]
    /\ lock' = IF lock \in Execs /\ ~rec'[lock].leased THEN None ELSE lock
    /\ UNCHANGED <<toHost, revoked, clocks, reading, stale, sup>> /\ NodeOnly

\* A session of the Node takes the checkout, and leaves it.
SessionTakes ==
    /\ Shared /\ lock = None /\ lock' = "session"
    /\ UNCHANGED <<toHost, rec, revoked, run, clocks, reading, stale, sup>> /\ NodeOnly
SessionLeaves ==
    /\ lock = "session" /\ lock' = None
    /\ UNCHANGED <<toHost, rec, revoked, run, clocks, reading, stale, sup>> /\ NodeOnly

-----------------------------------------------------------------------------
(* The supervisor, runSupervisor, and time.                                 *)

World == UNCHANGED <<hostVars, link, toNode, toHost, nodeVars, breaks>>

OpenGate(e) ==
    /\ sup[e].ph = "closed" /\ sup[e].release /\ sup[e].parent
    /\ ~sup[e].cancel /\ e \notin lapsed
    /\ sup' = [sup EXCEPT ![e].ph = "open"]
    /\ ran' = [ran EXCEPT ![e] = @ + 1]
    /\ UNCHANGED <<lapsed, crashes>> /\ World

\* Why a supervisor ends what it holds.
Reasons(e) ==
    {"broken"}
      \cup (IF sup[e].ph = "open" THEN {"ended"} ELSE {})
      \cup (IF sup[e].ph = "closed" /\ e \in lapsed THEN {"start_expired"} ELSE {})
      \cup (IF sup[e].cancel THEN {"cancelled"} ELSE {})

\* The process group is killed and looked for, and the receipt written.  Only
\* a group that ran the command can still have members.
SupervisorEnds(e) ==
    /\ sup[e].ph \in {"closed", "open"}
    /\ \E why \in Reasons(e), quiet \in {TRUE, sup[e].ph = "closed"} :
           sup' = [sup EXCEPT ![e].ph = IF quiet THEN "gone" ELSE "lingering",
                              ![e].result = [started |-> sup[e].ph = "open",
                                             why |-> why, quiet |-> quiet]]
    /\ UNCHANGED <<lapsed, crashes, ran>> /\ World

\* It is killed, and leaves no receipt; a closed gate then lets nothing run.
SupervisorDies(e) ==
    /\ crashes < MaxCrashes /\ crashes' = crashes + 1
    /\ sup[e].ph \in {"closed", "open"}
    /\ sup' = [sup EXCEPT ![e].ph = IF @ = "open" THEN "lingering" ELSE "gone"]
    /\ UNCHANGED <<lapsed, ran>> /\ World

\* expiresAt passes, while that can still matter.
Lapse(e) ==
    /\ e \notin lapsed
    /\ \/ host[e].st \in Unstarted
       \/ host[e].began /\ ~Ended(rec[e]) /\ sup[e].ph \in {None, "closed"}
    /\ lapsed' = lapsed \cup {e}
    /\ UNCHANGED <<sup, crashes, ran>> /\ World

-----------------------------------------------------------------------------
HostHears == HearPrepared \/ HearReceipt \/ HangUp

NodeHears == \/ Welcome \/ PrepareArrives \/ StartArrives \/ CancelArrives
             \/ AckArrives \/ ReconcileArrives

NodeWorks(e) == \/ Prepare(e) \/ Acquire(e) \/ AdmissionFails(e) \/ Launch(e)
                \/ Supervise(e) \/ SuperviseFails(e) \/ Commit(e) \/ Abandon(e)
                \/ Release(e) \/ Settle(e) \/ RecoverBegin(e) \/ RecoverEnd(e)

HostActs(e) == \/ Request(e) \/ PreparationTimesOut(e) \/ Approve(e) \/ Deny(e)
               \/ Cancel(e) \/ Expire(e) \/ RecheckFails(e) \/ Dispatch(e)

Step ==
    \/ HostHears \/ NodeHears
    \/ \E e \in Execs : \/ HostActs(e) \/ NodeWorks(e)
                        \/ OpenGate(e) \/ SupervisorEnds(e) \/ SupervisorDies(e)
                        \/ Lapse(e)
    \/ Observe \/ Flush
    \/ Break \/ HostRestart \/ NodeCrash \/ Boot
    \/ SessionTakes \/ SessionLeaves

\* A reconnect's own frames are not counted.
Next == Reconnect \/ (Step /\ Len(toNode') <= MaxFrames /\ Len(toHost') <= MaxFrames)

\* The read loops, the timers of both processes and the supervisor's poll run;
\* a session leaves the checkout, a supervisor ends what it holds by the
\* command's timeout at the latest, and the authorization runs out.  Nothing is
\* assumed of the lead, the operator, the connection's or a process's failure.
Fairness ==
    /\ WF_vars(HostHears) /\ WF_vars(NodeHears) /\ WF_vars(Flush)
    /\ WF_vars(Reconnect) /\ WF_vars(Boot) /\ WF_vars(SessionLeaves)
    /\ \A e \in Execs : /\ WF_vars(NodeWorks(e)) /\ WF_vars(Lapse(e))
                        /\ WF_vars(SupervisorEnds(e))
                        /\ WF_vars(Expire(e))
                        /\ SF_vars(RecoverBegin(e)) /\ SF_vars(RecoverEnd(e))

Spec == Init /\ [][Next]_vars
FairSpec == Spec /\ Fairness

-----------------------------------------------------------------------------
(* Properties.                                                              *)

Receipts == [st : Unstarted \cup Active \cup Terminal \cup {None}, own : Ownership]
Results == [started : BOOLEAN, quiet : BOOLEAN,
            why : {"ended", "cancelled", "start_expired", "broken", None}]

\* Every variable of the Host's store, the Node's journal and the supervisor's
\* directory holds what the schemas of packages/protocol allow it, and a row
\* never claims an ownership that its state cannot have.
TypeOK ==
    /\ \A e \in Execs :
        /\ host[e] \in [st : Unstarted \cup Active \cup Terminal \cup {None},
                        own : Ownership, cancel : BOOLEAN, desc : BOOLEAN,
                        began : BOOLEAN, heard : Receipts]
        /\ rec[e] \in [st : {None, "awaiting_approval"} \cup Active \cup Terminal,
                       own : Ownership, launch : BOOLEAN, admit : BOOLEAN,
                       leased : BOOLEAN, acked : BOOLEAN]
        /\ run[e] \in {"idle", "preparing", "admitting", "leased", "intended",
                       "supervised", "committed", "waiting", "orphaned", "down"}
        /\ sup[e].ph \in {None, "closed", "open", "lingering", "gone"}
        /\ sup[e].result \in Results
        /\ host[e].st \in Unstarted => host[e].own = "not_started"
        /\ Settled(host[e]) => host[e].own \in {"not_started", "quiescent"}
    /\ fence.st \in {"clear", "executing", "observation_required", "verification_required"}
    /\ fence.exec \in Execs \cup {None} /\ fence.was \in BOOLEAN
    /\ lock \in Execs \cup {None, "session"}
    /\ revoked \subseteq Execs /\ clocks \subseteq Execs
    /\ reading \in [Execs -> {"no", "heartbeat", "Host"}]
    /\ lapsed \subseteq Execs
    /\ link \in {"down", "open", "ready"}

\* A supervisor's process, before and after its gate opens and as long as any
\* of its group may be left.
Alive(e) == sup[e].ph \in {"closed", "open", "lingering"}

Fate(e) ==
    IF ran[e] > 1 THEN "twice"
    ELSE IF ran[e] = 1 THEN IF Alive(e) THEN "running" ELSE "over"
    ELSE IF Retired(host[e]) \/ (Ended(rec[e]) /\ rec[e].own = "not_started") THEN "never"
    ELSE "open"

Told(e) ==
    IF ~Settled(host[e]) THEN "nothing"
    ELSE IF host[e].own = "not_started" THEN "never" ELSE "over"

Promise == INSTANCE CommandOutcome
    WITH fate <- [e \in Execs |-> Fate(e)], told <- [e \in Execs |-> Told(e)]

\* Whatever crashes, restarts and is lost, the process of a command is let
\* through its gate at most once, never after the Host or the Node reported
\* that it had not started, and what the lead reads is true and final
\* (manager.start, .cancel and .recoverAttempt, service.receiveReceipt).
RunsOnceAndTruly == Promise!Spec

\* As long as a process of a command may exist, even after the death of the
\* Node or of its supervisor, the command holds the checkout's lock, so that
\* neither a session nor another command works there (requireReconciliation,
\* releaseRecovered).
CheckoutHeld == \A e \in Execs : Alive(e) => lock = e /\ rec[e].leased

\* The task of a command is fenced while its process may exist, and is not
\* taken for untouched once it ran, whichever of the task's commands the fence
\* stands for by then (tick, receiveReceipt, observe).
FenceCovers ==
    \A e \in Execs :
        /\ sup[e].ph \in {"open", "lingering"} => Fenced
        /\ ran[e] > 0 => fence.st # "clear"

\* What the Host keeps as the outcome of a command it started is what the Node
\* has in its journal, down to the state (receiveReceipt, finish).
OutcomeAgrees ==
    \A e \in Execs :
        Settled(host[e]) /\ host[e].began =>
            rec[e].st = host[e].st /\ rec[e].own = host[e].own

\* Once a supervisor left a receipt of a process that is gone, the Host comes
\* to know the outcome, through every break and restart (recoverAll, flush,
\* inventory, reconnect).
ProofSettles ==
    \A e \in Execs :
        sup[e].result.quiet ~> Settled(host[e])

\* Only a command of whose process nothing was left to read stays uncertain.
Unproven(e) ==
    /\ rec[e].launch /\ run[e] \in {"idle", "orphaned"}
    /\ sup[e].ph \in {None, "gone", "lingering"}
    /\ ~sup[e].result.quiet

\* A cancellation ends the command, started or not, unless nobody can tell
\* any more what became of its process (cancel, reconnect, sendCancel).
CancelTakes ==
    \A e \in Execs : host[e].cancel ~> (Settled(host[e]) \/ Unproven(e))

\* Outcomes get to the Host, and cancellations to the Node.
CommandSettles == ProofSettles /\ CancelTakes

\* A command the Host retired while the Node was away stops holding a place in
\* the Node's journal (command-execution-service.ts:998, receiveReceipt).
RetiredIsReleased ==
    \A e \in Execs : (Retired(host[e]) /\ rec[e].st # None) ~> rec[e].acked
=============================================================================
