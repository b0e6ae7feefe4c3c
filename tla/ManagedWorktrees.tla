--------------------------- MODULE ManagedWorktrees ---------------------------
(***************************************************************************)
(* The checkout a task works in: the Host asks the task's Node to reserve, *)
(* create, retain, clean up or reconcile it                                *)
(* (apps/host/src/managed-worktree-service.ts), the Node carries each      *)
(* operation out with git under the repository's and the checkout's locks  *)
(* (apps/node/src/managed-worktrees.ts, checkout-locks.ts,                 *)
(* repository-participation.ts), and the task's session may work there     *)
(* only while no operation does (router.ts).                               *)
(*                                                                         *)
(* One task, one workspace, one Node, one session at a time.  The          *)
(* connection is up once the session console is synchronized.  Results,    *)
(* compositions, integrations, abandonment and quotas are left out, and so *)
(* is everything done to the files from outside Fleet.                     *)
(***************************************************************************)
EXTENDS Naturals, Sequences, FiniteSets

CONSTANTS
    Registry,    \* sessions and operations are entered in the repository's
                 \* participation registry, as main.ts configures it
    MaxOps,      \* bound: operations the Host asks for
    MaxUses,     \* bound: sessions started in the checkout
    MaxFaults    \* bound: lost connections, Host restarts, deaths of the Node's
                 \* process, failing git commands, refused and repeated requests

ASSUME WorktreesAssumption ==
    Registry \in BOOLEAN /\ {MaxOps, MaxUses, MaxFaults} \subseteq Nat

VARIABLES
    row,      \* the Host's copy of the workspace
    binding,  \* the task's binding: is its workspace prepared?
    op,       \* the last operation the Host recorded
    waiting,  \* the Host process waits for its answer
    over,     \* the task is terminal
    session,  \* the Host's session in the workspace is not terminal
    link,     \* "up" or "down"
    down,     \* frames on their way to the Node
    up,       \* frames on their way to the Host
    queue,    \* operations the Node carries out one after the other
    stage,    \* how far the first of them is
    slot,     \* the Node's session: how far its start is
    tree,     \* the Node's record of the workspace
    receipts, \* the answers the Node recorded, by operation
    git,      \* the pin, the branch and the checkout in the repository
    locks,    \* the locks and participants recorded in the repository
    bounds,   \* how many sessions and faults there were
    excused   \* "missed": the Node came back while the Host still waited for an
              \* answer; "refused": its history was not synchronized;
              \* "overtaken": a session ended amid an operation's checks

host == <<row, binding, op, waiting, over, session>>
wire == <<link, down, up>>
process == <<queue, stage, slot>>
disk == <<tree, receipts, git, locks>>
vars == <<host, wire, process, disk, bounds, excused>>

None == [state |-> "none", version |-> 0, clean |-> FALSE]
NoOp == [id |-> 0, kind |-> "none", expected |-> 0, pending |-> FALSE]
Idle == [at |-> "idle", ok |-> FALSE, tree |-> None]
Usable == {"ready", "retained"}

Init ==
    /\ row = None /\ binding = "pending" /\ op = NoOp /\ waiting = FALSE
    /\ over = FALSE /\ session = FALSE
    /\ link = "down" /\ down = <<>> /\ up = <<>>
    /\ queue = <<>> /\ stage = Idle /\ slot = "none"
    /\ tree = None /\ receipts = <<>>
    /\ git = [pin |-> FALSE, branch |-> FALSE, checkout |-> "none"]
    /\ locks = [admin |-> "free", lease |-> "free", parts |-> {}]
    /\ bounds = [uses |-> 0, faults |-> 0]
    /\ excused = {}

Up == link = "up"
Fault == bounds.faults < MaxFaults /\ bounds' = [bounds EXCEPT !.faults = @ + 1]

-----------------------------------------------------------------------------
(* The Host.                                                                *)

Asked(o) == [k |-> "operation", id |-> o.id, kind |-> o.kind, expected |-> o.expected]
NewOp(kind) == [id |-> op.id + 1, kind |-> kind, expected |-> row.version, pending |-> TRUE]

\* send: nothing is sent while a waiter for the operation exists; the waiter
\* outlives the connection, and only a restart of the Host forgets it.
Sends(o, waits, frames) == IF waits THEN frames ELSE Append(frames, Asked(o))

\* requestWorkspace: the operation is recorded, then sent.
Request(kind) ==
    /\ Up /\ ~op.pending /\ op.id < MaxOps
    /\ op' = NewOp(kind) /\ waiting' = TRUE /\ down' = Append(down, Asked(NewOp(kind)))

\* prepare: unless this process still waits for the reservation.  Without the
\* Node, or with an operation pending, the request throws (markSetupFailed).
Prepare ==
    /\ ~over /\ binding = "pending" /\ ~(waiting /\ op.kind = "reserve")
    /\ \/ Request("reserve") /\ UNCHANGED binding
       \/ ~Up /\ binding' = "blocked" /\ UNCHANGED <<op, waiting, down>>
       \/ op.pending /\ binding' = "blocked" /\ UNCHANGED <<op, waiting, down>>
    /\ UNCHANGED <<row, over, session, link, up, process, disk, bounds, excused>>

\* ensureReady: the checkout is created when the first step is due.
EnsureReady ==
    /\ ~over /\ binding = "reserved" /\ ~op.pending
    /\ \/ Request("create") /\ UNCHANGED binding
       \/ ~Up /\ binding' = "blocked" /\ UNCHANGED <<op, waiting, down>>
    /\ UNCHANGED <<row, over, session, link, up, process, disk, bounds, excused>>

\* An operator's action on the workspace; with an operation pending only a
\* reconciliation is accepted, and repeats that one.
Operate(kind) ==
    /\ \/ /\ Request(IF kind = "create" /\ row = None THEN "reserve" ELSE kind)
          /\ UNCHANGED bounds
       \/ /\ Up /\ op.pending /\ kind = "reconcile" /\ Fault
          /\ down' = Sends(op, waiting, down) /\ waiting' = TRUE /\ UNCHANGED op
    /\ UNCHANGED <<row, binding, over, session, link, up, process, disk, excused>>

\* sweep: a finished task's workspace is retained, and removed once it is clean
\* and its result safe; when that is, and after how long, are dates.
Sweep ==
    /\ over /\ ~session
    /\ \/ row.state = "ready" /\ Request("retain")
       \/ row.state = "retained" /\ row.clean /\ Request("cleanup")
    /\ UNCHANGED <<row, binding, over, session, link, up, process, disk, bounds, excused>>

\* The task ends.
Finish ==
    /\ ~over /\ over' = TRUE
    /\ UNCHANGED <<row, binding, op, waiting, session, wire, process, disk, bounds, excused>>

\* The waiter's timer: the operation becomes uncertain, which is as pending.
Timeout ==
    /\ waiting /\ waiting' = FALSE
    /\ UNCHANGED <<row, binding, op, over, session, wire, process, disk, bounds, excused>>

\* validateSession: no operation is pending, the workspace is ready and no
\* other session holds it.
StartSession ==
    /\ Up /\ ~over /\ ~session /\ ~op.pending
    /\ binding = "ready" /\ row.state \in Usable
    /\ bounds.uses < MaxUses /\ bounds' = [bounds EXCEPT !.uses = @ + 1]
    /\ session' = TRUE /\ down' = Append(down, [k |-> "start"])
    /\ UNCHANGED <<row, binding, op, waiting, over, link, up, process, disk, excused>>

\* handleResult: what a result makes of the binding.
Bound(m) ==
    IF m.ok
    THEN IF m.tree.state \in Usable THEN "ready"
         ELSE IF m.tree.state = "reserved" THEN "reserved" ELSE "blocked"
    ELSE IF op.kind \in {"reserve", "create", "reconcile"} THEN "blocked" ELSE binding

\* The version an answer has to carry.
Fits(m) ==
    \/ m.tree = None
    \/ m.tree.version = op.expected + 1
    \/ op.kind = "reconcile" /\ m.tree.version > op.expected

\* handleResult: an answer to the pending operation that fits it is stored with
\* the workspace in one transaction; any other changes nothing.
HearResult(m) ==
    IF m.id = op.id /\ op.pending /\ Fits(m)
    THEN /\ row' = IF m.tree = None THEN row ELSE m.tree
         /\ binding' = Bound(m) /\ op' = [op EXCEPT !.pending = FALSE] /\ waiting' = FALSE
         /\ UNCHANGED session
    ELSE UNCHANGED <<row, binding, op, waiting, session>>

HostReads ==
    /\ up # <<>> /\ up' = Tail(up)
    /\ LET m == Head(up) IN
        \/ m.k = "result" /\ HearResult(m)
        \/ m.k = "ended" /\ session' = FALSE /\ UNCHANGED <<row, binding, op, waiting>>
    /\ UNCHANGED <<over, link, down, process, disk, bounds, excused>>

-----------------------------------------------------------------------------
(* The connection.                                                          *)

\* nodeLost.
Lost(r) == IF r.state \in {"none", "removed"} THEN r ELSE [r EXCEPT !.state = "unavailable"]

Cut(r) == link' = "down" /\ down' = <<>> /\ up' = <<>> /\ row' = r

Break ==
    /\ Up /\ Fault /\ Cut(Lost(row))
    /\ UNCHANGED <<binding, op, waiting, over, session, process, disk, excused>>

\* A Host that stops marks the workspace; one that dies does not.
HostRestarts ==
    /\ Fault
    /\ \E r \in {row, Lost(row)} : Cut(r)
    /\ waiting' = FALSE
    /\ UNCHANGED <<binding, op, over, session, process, disk, excused>>

\* Variant: what is pending is left to the operator.
ConnectForgets ==
    /\ ~Up /\ link' = "up" /\ session' = (slot \in {"checked", "joined", "working"})
    /\ excused' = IF op.pending /\ waiting THEN excused \cup {"missed"} ELSE excused
    /\ UNCHANGED <<row, binding, op, waiting, over, down, up, process, disk, bounds>>

\* reconcile, onNodeReconciled: the inventory settles the session, a pending
\* operation is sent again, and an unavailable workspace is reconciled.
Connect ==
    /\ ~Up /\ link' = "up" /\ session' = (slot \in {"checked", "joined", "working"})
    /\ excused' = IF op.pending /\ waiting THEN excused \cup {"missed"} ELSE excused
    /\ IF op.pending
       THEN down' = Sends(op, waiting, down) /\ waiting' = TRUE /\ UNCHANGED op
       ELSE IF row.state = "unavailable" /\ op.id < MaxOps
            THEN /\ op' = NewOp("reconcile") /\ waiting' = TRUE
                 /\ down' = Append(down, Asked(NewOp("reconcile")))
            ELSE UNCHANGED <<op, waiting, down>>
    /\ UNCHANGED <<row, binding, over, up, process, disk, bounds>>

-----------------------------------------------------------------------------
(* The Node: operations.                                                    *)

Tell(m) == up' = IF Up THEN Append(up, m) ELSE up

Result(id, ok, t) == [k |-> "result", id |-> id, ok |-> ok, tree |-> t]

\* main.ts: an operation is refused, and not recorded, while the session
\* history is not synchronized; execute queues it once.
HearOperation(m) ==
    \/ /\ Fault /\ excused' = excused \cup {"refused"}
       /\ Tell(Result(m.id, FALSE, None)) /\ UNCHANGED <<queue, slot>>
    \/ /\ queue' = IF \E i \in DOMAIN queue : queue[i].id = m.id THEN queue
                   ELSE Append(queue, m)
       /\ UNCHANGED <<up, slot, bounds, excused>>

\* startSession: the checkout is verified (validateExecution).
HearStart ==
    /\ IF slot = "none" /\ tree.state \in Usable /\ git.checkout # "none"
       THEN slot' = "checked" /\ UNCHANGED up
       ELSE Tell([k |-> "ended"]) /\ UNCHANGED slot
    /\ UNCHANGED <<queue, bounds, excused>>

NodeReads ==
    /\ down # <<>> /\ down' = Tail(down)
    /\ LET m == Head(down) IN
        \/ m.k = "operation" /\ HearOperation(m)
        \/ m.k = "start" /\ HearStart
    /\ UNCHANGED <<host, link, stage, disk>>

request == Head(queue)
Working(at) == queue # <<>> /\ stage.at = at

\* Only what the step of an operation names changes.
Untouched == UNCHANGED <<host, wire, queue, slot, receipts, bounds, excused>>

\* Variant: only the participant is released.
ReleasedInPart == [locks EXCEPT !.parts = @ \ {"operation"}]

\* The locks of an operation that is over.
Released == [locks EXCEPT !.admin = IF @ = "held" THEN "free" ELSE @, !.parts = @ \ {"operation"},
                          !.lease = IF @ = "cleanup" THEN "free" ELSE @]

\* The tree a failed operation's answer shows: as recorded, not as intended.
Failed(t) ==
    [t EXCEPT !.state = IF @ = "creating" THEN "creation_failed"
                        ELSE IF @ = "removing" THEN "needs_reconciliation" ELSE @]

\* The operation is carried out, or fails; its locks are released, and its
\* answer is not recorded yet.
Done(t) == stage' = [at |-> "done", ok |-> TRUE, tree |-> t] /\ locks' = Released
Fails(t) == stage' = [at |-> "done", ok |-> FALSE, tree |-> Failed(t)] /\ locks' = Released
Goes(at) == stage' = [stage EXCEPT !.at = at]

\* perform: an operation is for the version recorded; a reconciliation may be
\* for an older one.
Current(m) ==
    IF tree = None THEN m.kind = "reserve" /\ m.expected = 0
    ELSE \/ m.expected = tree.version
         \/ m.kind = "reconcile" /\ m.expected < tree.version

\* Variant: what was answered before is carried out again.
BeginAnew ==
    /\ queue # <<>> /\ stage.at = "idle"
    /\ \/ /\ ~Current(request) /\ stage' = [Idle EXCEPT !.at = "done"] /\ UNCHANGED locks
       \/ /\ Current(request) /\ Goes("begun")
          /\ locks' = [locks EXCEPT !.admin = IF request.kind = "reconcile" /\ @ = "dead"
                                              THEN "free" ELSE @]
    /\ UNCHANGED <<host, wire, queue, slot, tree, receipts, git, bounds, excused>>

\* runOperation: what was answered before is answered the same.  Otherwise the
\* intent is recorded; a stale request fails and its answer shows no tree.  A
\* reconciliation takes the administration lock from a dead process.
Begin ==
    /\ queue # <<>> /\ stage.at = "idle"
    /\ \/ /\ request.id \in DOMAIN receipts
          /\ Tell(receipts[request.id]) /\ queue' = Tail(queue) /\ UNCHANGED <<stage, locks>>
       \/ /\ request.id \notin DOMAIN receipts /\ ~Current(request)
          /\ stage' = [Idle EXCEPT !.at = "done"] /\ UNCHANGED <<queue, up, locks>>
       \/ /\ request.id \notin DOMAIN receipts /\ Current(request) /\ Goes("begun")
          /\ locks' = [locks EXCEPT !.admin = IF request.kind = "reconcile" /\ @ = "dead"
                                              THEN "free" ELSE @]
          /\ UNCHANGED <<queue, up>>
    /\ UNCHANGED <<host, link, down, slot, tree, receipts, git, bounds, excused>>

\* An operation excludes every other participant, alive or not, and any other
\* administration; the version is checked again once it is in.
Enter ==
    /\ Working("begun")
    /\ IF Registry /\ locks.parts # {} THEN Fails(tree)
       ELSE IF ~Current(request) THEN Fails(None)
       ELSE IF locks.admin # "free" THEN Fails(tree)
       ELSE /\ Goes("inside")
            /\ locks' = [locks EXCEPT !.admin = "held",
                                      !.parts = IF Registry THEN @ \cup {"operation"} ELSE @]
    /\ UNCHANGED <<tree, git>> /\ Untouched

Inside(kinds) == Working("inside") /\ request.kind \in kinds

\* reserve: the workspace is recorded, then its base is pinned.  Names already
\* taken are another owner's.
Reserve ==
    /\ Inside({"reserve"})
    /\ IF tree # None THEN Done(tree) /\ UNCHANGED tree
       ELSE IF git.pin \/ git.branch \/ git.checkout # "none" THEN Fails(None) /\ UNCHANGED tree
       ELSE tree' = [None EXCEPT !.state = "reserved"] /\ Goes("pinning") /\ UNCHANGED locks
    /\ UNCHANGED git /\ Untouched

Pin ==
    /\ Working("pinning") /\ Done(tree)
    /\ git' = [git EXCEPT !.pin = TRUE] /\ UNCHANGED tree /\ Untouched

Clean == git.checkout = "clean"

\* verifyTree: a workspace whose directory is not there is recorded missing.
Missing ==
    LET t == [tree EXCEPT !.state = "missing"] IN tree' = t /\ Fails(t) /\ UNCHANGED git

\* create, once the checkout is registered: it is verified to be clean, and
\* the pin, which kept its base from being collected, is dropped.
Verify ==
    /\ IF Clean THEN Done([tree EXCEPT !.state = "ready", !.clean = TRUE]) ELSE Fails(tree)
    /\ git' = IF Clean THEN [git EXCEPT !.pin = FALSE] ELSE git
    /\ UNCHANGED tree

\* create: a creation that was interrupted goes on where git left it, unless it
\* left a branch alone.
Create ==
    /\ Inside({"create"})
    /\ \/ /\ tree.state \in Usable
          /\ IF git.checkout # "none" THEN Done(tree) /\ UNCHANGED <<tree, git>> ELSE Missing
       \/ /\ tree.state \notin Usable \cup {"reserved", "creating", "creation_failed"}
          /\ Fails(tree) /\ UNCHANGED <<tree, git>>
       \/ /\ tree.state \in {"reserved", "creating", "creation_failed"}
          /\ git.checkout # "none"
          /\ IF tree.state = "reserved" THEN Fails(tree) /\ UNCHANGED <<tree, git>> ELSE Verify
       \/ /\ tree.state \in {"reserved", "creating", "creation_failed"}
          /\ git.checkout = "none" /\ git.branch
          /\ Fails(tree) /\ UNCHANGED <<tree, git>>
       \/ /\ tree.state \in {"reserved", "creating", "creation_failed"}
          /\ git.checkout = "none" /\ ~git.branch
          /\ git' = [git EXCEPT !.pin = TRUE]
          /\ tree' = [tree EXCEPT !.state = "creating"]
          /\ Goes("adding") /\ UNCHANGED locks
    /\ Untouched

Rest == UNCHANGED <<host, wire, queue, slot, receipts, excused>>

\* git worktree add: the branch first, then the checkout.
Added == [git EXCEPT !.branch = TRUE, !.checkout = "clean"]
HalfAdded == [git EXCEPT !.branch = TRUE]

Add ==
    /\ Working("adding")
    /\ \/ git' = Added /\ Goes("added") /\ UNCHANGED <<locks, bounds>>
       \/ git' \in {git, HalfAdded} /\ Fails(tree) /\ Fault
    /\ UNCHANGED tree /\ Rest

AddVerified == Working("added") /\ Verify /\ Untouched

\* observe, retain: of a workspace that needs no reconciliation and was not
\* removed.
Look ==
    /\ Inside({"observe", "retain"})
    /\ IF tree.state = "needs_reconciliation" THEN Fails(tree) /\ UNCHANGED <<tree, git>>
       ELSE IF tree.state = "removed"
       THEN /\ IF request.kind = "observe" THEN Done(tree) ELSE Fails(tree)
            /\ UNCHANGED <<tree, git>>
       ELSE IF git.checkout = "none" THEN Missing
       ELSE /\ Done([tree EXCEPT !.clean = Clean,
                        !.state = IF request.kind = "retain" THEN "retained" ELSE @])
            /\ UNCHANGED <<tree, git>>
    /\ Untouched

\* reconcile: what git has decides.
Found ==
    IF git.checkout # "none" THEN [tree EXCEPT !.state = "retained", !.clean = Clean]
    ELSE [tree EXCEPT !.state =
             IF @ \in {"removed", "removing"} THEN "removed"
             ELSE IF @ \in {"reserved", "creating", "creation_failed"} /\ ~git.branch
             THEN "reserved" ELSE "missing"]

\* The lock of an interrupted removal is taken back; the lock of a session whose
\* processes are not known to be gone is not, and keeps its checkout as it is.
Reconciles ==
    /\ stage' = IF git.checkout # "none" /\ locks.lease \in {"dead session", "unsure session"}
                THEN [at |-> "done", ok |-> FALSE, tree |-> Failed(tree)]
                ELSE [at |-> "done", ok |-> TRUE, tree |-> Found]
    /\ locks' = [Released EXCEPT !.lease = IF @ = "dead cleanup" THEN "free" ELSE @]

Reconcile ==
    /\ Inside({"reconcile"}) /\ Reconciles /\ UNCHANGED <<tree, git>> /\ Untouched

\* cleanup: a checkout nobody holds and nothing was left in is removed; one
\* whose removal was interrupted is reconciled.
Cleanup ==
    /\ Inside({"cleanup"})
    /\ IF tree.state = "removing" THEN Reconciles /\ UNCHANGED <<tree, git>>
       ELSE IF tree.state = "needs_reconciliation" THEN Fails(tree) /\ UNCHANGED <<tree, git>>
       ELSE IF tree.state = "removed" THEN Done(tree) /\ UNCHANGED <<tree, git>>
       ELSE IF git.checkout = "none" THEN Missing
       ELSE IF locks.lease # "free" \/ ~Clean THEN Fails(tree) /\ UNCHANGED <<tree, git>>
       ELSE /\ locks' = [locks EXCEPT !.lease = "cleanup"]
            /\ tree' = [tree EXCEPT !.state = "removing"]
            /\ Goes("removing") /\ UNCHANGED git
    /\ Untouched

\* git worktree remove, which refuses a checkout that is not clean.
Removed == [git EXCEPT !.checkout = IF Clean THEN "none" ELSE @]

Remove ==
    /\ Working("removing")
    /\ \/ Clean /\ git' = Removed /\ Goes("removed") /\ UNCHANGED <<locks, bounds>>
       \/ UNCHANGED git /\ Fails(tree) /\ Fault
    /\ UNCHANGED tree /\ Rest

RemoveVerified ==
    /\ Working("removed") /\ Done([tree EXCEPT !.state = "removed"])
    /\ UNCHANGED <<tree, git>> /\ Untouched

\* The new version of the workspace and the answer are recorded in one
\* transaction, then the answer is sent.
Commit ==
    /\ Working("done")
    /\ LET t == IF stage.tree = None THEN None
                ELSE [stage.tree EXCEPT !.version = @ + 1]
           answer == Result(request.id, stage.ok, t) IN
        /\ tree' = IF t = None THEN tree ELSE t
        /\ receipts' = [i \in DOMAIN receipts \cup {request.id} |->
                           IF i = request.id THEN answer ELSE receipts[i]]
        /\ Tell(answer)
    /\ queue' = Tail(queue) /\ stage' = Idle
    /\ UNCHANGED <<host, link, down, slot, git, locks, bounds, excused>>

-----------------------------------------------------------------------------
(* The Node: the session and the process.                                   *)

SessionOnly == UNCHANGED <<host, link, down, queue, stage, receipts>>

SessionLeaves == [locks EXCEPT !.lease = "free", !.parts = @ \ {"session"}]

\* startSession: the session enters the registry, which an operation refuses,
\* and takes the checkout's lock.
Join ==
    /\ slot = "checked"
    /\ IF \/ Registry /\ locks.parts \cap {"operation", "dead operation"} # {}
          \/ locks.lease # "free"
       THEN slot' = "none" /\ Tell([k |-> "ended"]) /\ UNCHANGED locks
       ELSE /\ slot' = "joined" /\ UNCHANGED up
            /\ locks' = [locks EXCEPT !.lease = "session",
                                      !.parts = IF Registry THEN @ \cup {"session"} ELSE @]
    /\ UNCHANGED <<tree, git, bounds, excused>> /\ SessionOnly

\* Variant: what was verified before the locks were taken is believed.
ReenterBlindly ==
    /\ slot = "joined" /\ slot' = "working"
    /\ UNCHANGED <<up, locks, tree, git, bounds, excused>> /\ SessionOnly

\* revalidate: with the locks held, the checkout is verified again.
Reenter ==
    /\ slot = "joined"
    /\ IF tree.state \in Usable /\ git.checkout # "none"
       THEN slot' = "working" /\ UNCHANGED <<up, locks>>
       ELSE slot' = "none" /\ Tell([k |-> "ended"]) /\ locks' = SessionLeaves
    /\ UNCHANGED <<tree, git, bounds, excused>> /\ SessionOnly

\* The agent edits files, or commits them.
Edit ==
    /\ slot = "working" /\ git.checkout # "none"
    /\ git' = [git EXCEPT !.checkout = IF Clean THEN "dirty" ELSE "clean"]
    /\ UNCHANGED <<slot, up, locks, tree, bounds, excused>> /\ SessionOnly

\* release: the session is over; its locks are given up if its processes are
\* known to be gone, and else kept, the workspace marked for reconciliation.
End ==
    /\ slot = "working" /\ Tell([k |-> "ended"])
    /\ \/ slot' = "none" /\ locks' = SessionLeaves /\ UNCHANGED <<tree, bounds, excused>>
       \/ /\ slot' = "unsure" /\ Fault
          /\ locks' = [locks EXCEPT !.lease = "unsure session"]
          /\ tree' = [tree EXCEPT !.state = "needs_reconciliation", !.version = @ + 1]
          /\ excused' = IF Working("begun") THEN excused \cup {"overtaken"} ELSE excused
    /\ UNCHANGED git /\ SessionOnly

\* A later attempt to stop it shows that its processes are gone.
Quiesce ==
    /\ slot = "unsure" /\ slot' = "none" /\ locks' = SessionLeaves
    /\ UNCHANGED <<up, tree, git, bounds, excused>> /\ SessionOnly

\* What git did when the process that ran it died, possibly on its own.
Interrupted ==
    IF Working("adding") THEN {git, HalfAdded, Added}
    ELSE IF Working("removing") THEN {git, Removed} ELSE {git}

Dead(name) == CASE name = "operation" -> "dead operation"
                [] name = "session" -> "dead session"
                [] OTHER -> name

\* The Node's process dies: its locks and participants stay behind.
Crash ==
    /\ Fault
    /\ git' \in Interrupted
    /\ queue' = <<>> /\ stage' = Idle /\ slot' = "none"
    /\ locks' = [admin |-> IF locks.admin = "held" THEN "dead" ELSE locks.admin,
                 lease |-> IF locks.lease \in {"session", "unsure session"} THEN "dead session"
                           ELSE IF locks.lease = "cleanup" THEN "dead cleanup" ELSE locks.lease,
                 parts |-> {Dead(p) : p \in locks.parts}]
    /\ IF Up THEN Cut(Lost(row)) ELSE UNCHANGED <<link, down, up, row>>
    /\ UNCHANGED <<binding, op, waiting, over, session, tree, receipts, excused>>

-----------------------------------------------------------------------------

Kinds == {"create", "observe", "retain", "reconcile", "cleanup"}

HostActs == Prepare \/ EnsureReady \/ Sweep \/ Finish \/ Timeout \/ StartSession \/ HostReads
Wire == Break \/ HostRestarts \/ Connect
Carries == Begin \/ Enter \/ Reserve \/ Pin \/ Create \/ Add \/ AddVerified \/ Look
           \/ Reconcile \/ Cleanup \/ Remove \/ RemoveVerified \/ Commit
Session == Join \/ Reenter \/ Edit \/ End \/ Quiesce

Next ==
    \/ HostActs \/ (\E kind \in Kinds : Operate(kind))
    \/ Wire \/ NodeReads \/ Carries \/ Session \/ Crash

Spec == Init /\ [][Next]_vars

\* Timers fire, frames are read, the Node's promises settle and it dials again.
FairSpec ==
    /\ Spec
    /\ WF_vars(Timeout) /\ WF_vars(HostReads) /\ WF_vars(Connect)
    /\ WF_vars(NodeReads) /\ WF_vars(Carries) /\ WF_vars(Join \/ Reenter)

-----------------------------------------------------------------------------
(* Properties.                                                              *)

States == {"none", "reserved", "creating", "creation_failed", "ready", "retained",
           "missing", "needs_reconciliation", "removing", "removed"}

TypeOK ==
    /\ tree.state \in States /\ row.state \in States \cup {"unavailable"}
    /\ binding \in {"pending", "reserved", "ready", "blocked"}
    /\ op.id \in 0..MaxOps /\ DOMAIN receipts \subseteq 1..op.id
    /\ waiting \in BOOLEAN /\ over \in BOOLEAN /\ session \in BOOLEAN
    /\ excused \subseteq {"missed", "refused", "overtaken"}
    /\ link \in {"up", "down"} /\ (link = "down" => up = <<>> /\ down = <<>>)
    /\ slot \in {"none", "checked", "joined", "working", "unsure"}
    /\ git.checkout \in {"none", "clean", "dirty"} /\ (git.checkout # "none" => git.branch)
    /\ (locks.admin = "held") <=> (stage.at \in {"inside", "pinning", "adding", "added",
                                                 "removing", "removed"})

\* A session works in a checkout that is there and that the Node counts as
\* usable, though between the verification and the lock an operation may have
\* removed it.
SessionInPlace == slot = "working" => git.checkout # "none" /\ tree.state \in Usable

\* Every change the Node made to the workspace for an operation is known to the
\* Host once no operation is pending, whatever was lost or repeated on the way;
\* only its Node being away hides the state.  (An operation refused for want of
\* synchronized history may have been carried out before.)
Answered == {receipts[i].tree : i \in DOMAIN receipts} \ {None}
HostKnows ==
    ~op.pending /\ "refused" \notin excused =>
        \/ Answered = {} /\ row = None
        \/ \E t \in Answered :
            /\ \A u \in Answered : u.version <= t.version
            /\ row \in {t, [t EXCEPT !.state = "unavailable"]}

\* The Node is never at work on an operation the Host has closed: neither a
\* timeout nor a restart unlocks the workspace.  "no timeout unlock occurred"
\* (routes/managed-worktrees.ts).
WorkIsOwed ==
    queue # <<>> /\ stage.at # "idle" /\ "refused" \notin excused =>
        op.pending /\ op.id = request.id

\* What the Host has on record of the workspace is so, and what it has pending is
\* what the Node may be at.
RecordIsTrue == HostKnows /\ WorkIsOwed

\* An operation the Host recorded is settled in the end, across lost frames,
\* restarts of the Host and deaths of the Node.  Two cases are known to escape:
\* the Node was back while the Host still waited for the first answer, and the
\* answer's version is one the Host refuses since a session ended meanwhile.
OperationSettles ==
    op.pending ~> ~op.pending \/ excused \cap {"missed", "overtaken"} # {}

===============================================================================
