----------------------------- MODULE LeadPrompts -----------------------------
(***************************************************************************)
(* Prompts the Host owes a lead: the results of its commands, wakes of its *)
(* tasks and operators' messages.  The Host keeps each in a row            *)
(* (apps/host/src/command-execution-service.ts, -store.ts) and offers it   *)
(* while the lead is idle; the Node keeps the answer in a journal          *)
(* (apps/node/src/lead-prompt-delivery.ts) before it prompts the agent     *)
(* (router.ts, deliverLeadPrompt).  An offer may be repeated, the agent    *)
(* must not be prompted twice.                                             *)
(*                                                                         *)
(* There is one lead.  Prompts of other kinds, and turns the agent begins  *)
(* by itself, are its own turns.                                           *)
(***************************************************************************)
EXTENDS Naturals, SequencesExt, FiniteSets

CONSTANTS
    Prompts,     \* the prompts, by delivery identity
    MaxOffers,   \* bound: how often prompts are offered anew
    MaxBreaks,   \* bound: lost connections and restarts; the Host hangs up at
                 \* most once after the last
    MaxQueue     \* room for receipts in the Node's socket, in frames; also a
                 \* bound: turns of its own begin while there is room

ASSUME PromptsAssumption ==
    /\ IsFiniteSet(Prompts) /\ Prompts # {}
    /\ Prompts \cap {"none", "gone", "idle", "own turn"} = {}
    /\ {MaxOffers, MaxBreaks, MaxQueue} \subseteq Nat

VARIABLES
    row,      \* the Host's rows
    lead,     \* the state of the lead's session, as the Host knows it
    offers,   \* how often a prompt was offered anew
    link,     \* the connection: "down", "open" (accepted), "ready" (welcomed),
              \* "closing" (the Host hung up, and reads what is on its way)
    down,     \* frames on their way to the Node
    up,       \* frames on their way to the Host
    journal,  \* the Node's journal, with the number of each record's writes
    owed,     \* prompts whose receipt could not be sent
    held,     \* events are held until the connection is back
    waiting,  \* offers whose handler waits for the session to be ready
    agent,    \* "gone", "idle", "own turn", or the prompt it works on
    current,  \* the prompt the session's next completed turn settles
    given,    \* history: how often the agent was given each prompt
    done,     \* history: prompts whose turn was completed
    breaks    \* lost connections and restarts so far

hostVars == <<row, lead, offers>>
wire == <<link, down, up>>
nodeVars == <<journal, owed, held, waiting, agent, current, given, done>>
vars == <<hostVars, wire, nodeVars, breaks>>

None == "none"
Nothing == [st |-> None, at |-> 0]
NewRow == [st |-> None, heard |-> Nothing, newer |-> FALSE]

\* Answers that say the agent was, or may have been, given the prompt.
Native == {"accepted", "uncertain", "settled"}
Answers == Native \cup {"rejected", "rejected_busy"}
Reserved == {"reserved", "accepted", "uncertain"}
Over == {"settled", "rejected", "orphaned"}

Init ==
    /\ row = [p \in Prompts |-> NewRow] /\ lead = "idle"
    /\ offers = 0
    /\ link = "ready" /\ down = <<>> /\ up = <<>>
    /\ journal = [p \in Prompts |-> Nothing] /\ owed = {} /\ held = FALSE
    /\ waiting = [p \in Prompts |-> 0] /\ agent = "idle" /\ current = None
    /\ given = [p \in Prompts |-> 0] /\ done = {}
    /\ breaks = 0

Offer(p) == [k |-> "deliver", p |-> p]
Receipt(p, r) == [k |-> "receipt", p |-> p, r |-> r]
Event(st) == [k |-> "event", st |-> st]

-----------------------------------------------------------------------------
(* The Host.                                                                *)

HostOnly == UNCHANGED <<link, up, nodeVars, breaks>>

Open == link \in {"open", "ready"}

\* queueLeadPrompt, enqueuePrompt.
Enqueue(p) ==
    /\ row[p].st = None /\ lead # "ended" /\ Open
    /\ row' = [row EXCEPT ![p].st = "pending"]
    /\ UNCHANGED <<lead, offers, down>> /\ HostOnly

InHand == {p \in Prompts : row[p].st \in Reserved}

\* A prompt refused as busy waits for news of the lead.
Offerable(p) ==
    row[p].st = "pending" \/ (row[p].st = "rejected_busy" /\ row[p].newer)

\* pumpLead: an idle lead with nothing in hand is offered a prompt.  Their
\* order is left open, operators may change it.
Pump(p) ==
    /\ lead = "idle" /\ Open /\ InHand = {} /\ Offerable(p)
    /\ offers < MaxOffers /\ offers' = offers + 1
    /\ row' = [row EXCEPT ![p].st = "reserved", ![p].newer = FALSE]
    /\ down' = Append(down, Offer(p))
    /\ UNCHANGED lead /\ HostOnly

Retire(S) == row' = [p \in Prompts |-> IF p \in S THEN [row[p] EXCEPT !.st = "orphaned", !.newer = FALSE] ELSE row[p]]

\* act: an operator withdraws a message that was not taken.
Withdraw(p) ==
    /\ row[p].st \in {"pending", "rejected_busy"} /\ Retire({p})
    /\ UNCHANGED <<lead, offers, down>> /\ HostOnly

Unsettled == {p \in Prompts : row[p].st \notin Over \cup {None}}

\* tick: the prompts of a lead that ended.
Orphan ==
    /\ lead = "ended" /\ Unsettled # {} /\ Retire(Unsettled)
    /\ UNCHANGED <<lead, offers, down>> /\ HostOnly

\* The operator stops the lead; revokeLead.
Stop ==
    /\ lead \notin {"ended", "offline"} /\ Open
    /\ lead' = "ended" /\ Retire(Unsettled)
    /\ down' = Append(down, [k |-> "stop"])
    /\ UNCHANGED offers /\ HostOnly

\* promptReceipt: what the Host does not believe.
RefusedFrom(h, r) ==
    \/ r.st \in Native /\ h.st = "rejected_busy"
    \/ h.heard.st \in Native /\ r.st \notin Native
    \/ /\ h.heard # r /\ h.st # "orphaned"
       /\ \/ h.st \in {"settled", "rejected", "pending"}
          \/ r.st = "rejected_busy" /\ h.st = "accepted"
          \/ r.st = "accepted" /\ h.st \notin {"reserved", "uncertain"}

\* promptReceipt.  A receipt heard before says nothing new, and that of an
\* orphaned prompt is only noted.
Heard(h, r) ==
    IF h.heard = r THEN h
    ELSE [h EXCEPT !.heard = r, !.st = IF @ = "orphaned" THEN @ ELSE r.st,
                   !.newer = FALSE]

Hears(kind) == link # "down" /\ up # <<>> /\ Head(up).k = kind
HostHeard == up' = Tail(up) /\ UNCHANGED <<nodeVars, breaks, offers>>

HearReceipt ==
    /\ Hears("receipt")
    /\ LET m == Head(up)
       IN  \/ Open /\ ~RefusedFrom(row[m.p], m.r) /\ row' = [row EXCEPT ![m.p] = Heard(@, m.r)]
           \/ ~Open /\ row' = row
    /\ UNCHANGED <<lead, link, down>> /\ HostHeard

\* appendEvent: the state of the lead, and news for what waits.
HearEvent ==
    /\ Hears("event")
    /\ lead' = IF lead = "ended" THEN lead ELSE Head(up).st
    /\ row' = [p \in Prompts |-> [row[p] EXCEPT !.newer = row[p].st = "rejected_busy"]]
    /\ UNCHANGED <<link, down>> /\ HostHeard

\* reconcileOfflineSessions.  A lead its Node no longer has ends, or is resumed.
Landed(st, frames) ==
    IF lead # "offline" THEN lead' = lead /\ down' = frames
    ELSE IF st # "gone" THEN lead' = st /\ down' = frames
    ELSE \/ lead' = "ended" /\ down' = frames
         \/ lead' = "starting" /\ down' = Append(frames, [k |-> "resume"])

HearInventory ==
    /\ Hears("inventory") /\ Landed(Head(up).st, down)
    /\ UNCHANGED <<row, link>> /\ HostHeard

-----------------------------------------------------------------------------
(* The connection and the Host's process.                                   *)

\* nodeDisconnected, and quarantine at the Host's start.
Disconnected(h) == IF h.st \in {"reserved", "accepted"} THEN [h EXCEPT !.st = "uncertain"] ELSE h

Drop ==
    /\ link' = "down" /\ down' = <<>> /\ up' = <<>>
    /\ row' = [p \in Prompts |-> Disconnected(row[p])]
    /\ lead' = IF lead = "ended" THEN lead ELSE "offline"
    /\ UNCHANGED offers

Break ==
    /\ Open /\ breaks < MaxBreaks /\ breaks' = breaks + 1
    /\ Drop /\ UNCHANGED nodeVars

\* node-socket.ts: a receipt the Host does not believe closes the connection.
HangUp ==
    /\ Open /\ Hears("receipt") /\ RefusedFrom(row[Head(up).p], Head(up).r)
    /\ breaks <= MaxBreaks /\ breaks' = breaks + 1
    /\ link' = "closing" /\ up' = Tail(up)
    /\ UNCHANGED <<hostVars, down, nodeVars>>

Close == link = "closing" /\ Drop /\ UNCHANGED <<nodeVars, breaks>>

State == CASE agent = "gone" -> "gone" [] agent = "idle" -> "idle" [] OTHER -> "running"

\* Variant: the state of the slot as it is.
LastNewsVerbatim == State

LastNews == IF State = "gone" THEN "ended" ELSE State

\* acceptNode, reconnect: what may have been lost is offered again.  The row of
\* the lead waits until the events the Node held have come.
Reconnect ==
    /\ link = "down" /\ link' = "open" /\ up' = <<>>
    /\ LET frames == <<[k |-> "welcome"]>> \o SetToSeq({Offer(p) : p \in InHand})
       IN  IF held THEN lead' = lead /\ down' = frames ELSE Landed(State, frames)
    /\ UNCHANGED <<row, offers, nodeVars, breaks>>

-----------------------------------------------------------------------------
(* The Node.                                                                *)

Arrives(kind) == Open /\ down # <<>> /\ Head(down).k = kind /\ down' = Tail(down)
NodeOnly == UNCHANGED <<hostVars, link, breaks>>

\* sendOn: as many of the receipts as the socket has room for.
Fitting(receipts) ==
    LET room == Max({0, MaxQueue - Len(up)})
    IN  {sent \in SUBSET receipts : Cardinality(sent) = Min({room, Cardinality(receipts)})}

\* emit, publish and sendEvent: receipts and then events, sent or kept for later.
Tells(receipts, events) ==
    /\ \E sent \in IF link = "ready" THEN Fitting(DOMAIN receipts) ELSE {{}} :
        /\ owed' = (owed \cup DOMAIN receipts) \ sent
        /\ LET live == link = "ready" \/ (link = "open" /\ ~held)
           IN  /\ held' = (held \/ (events # <<>> /\ ~live))
               /\ up' = up \o SetToSeq({Receipt(p, receipts[p]) : p \in sent})
                           \o IF live THEN events ELSE <<>>

Silent == UNCHANGED <<up, owed, held>>

\* The journal's record of p becomes st; save and publish.
Write(p, st) == journal' = [journal EXCEPT ![p] = [st |-> st, at |-> @.at + 1]]
Of(p) == [q \in {p} |-> journal'[q]]
NoReceipts == [q \in {} |-> Nothing]

\* Variant: receipts are told once.
WelcomeWithoutReplay ==
    /\ Arrives("welcome") /\ link' = "ready"
    /\ up' = up \o IF held THEN <<Event(LastNews), [k |-> "inventory", st |-> State]>> ELSE <<>>
    /\ held' = FALSE
    /\ UNCHANGED <<owed, journal, waiting, agent, current, given, done>>
    /\ UNCHANGED <<hostVars, breaks>>

\* Welcome: every receipt is repeated, then come the events that were held and
\* the inventory.
Welcome ==
    /\ Arrives("welcome") /\ link' = "ready"
    /\ LET all == {p \in Prompts : journal[p].st # None}
       IN  \E sent \in Fitting(all) :
            /\ up' = up \o SetToSeq({Receipt(p, journal[p]) : p \in sent})
                        \o IF held THEN <<Event(LastNews), [k |-> "inventory", st |-> State]>> ELSE <<>>
            /\ owed' = all \ sent
    /\ held' = FALSE
    /\ UNCHANGED <<journal, waiting, agent, current, given, done>>
    /\ UNCHANGED <<hostVars, breaks>>

\* deliverLeadPrompt, until the session is ready.
DeliverArrives ==
    /\ Arrives("deliver")
    /\ waiting' = [waiting EXCEPT ![Head(down).p] = @ + 1]
    /\ UNCHANGED <<journal, agent, current, given, done>> /\ Silent /\ NodeOnly

Taken == {p \in Prompts : journal[p].st = "accepted"}

\* accept: what the Node answers to an offer it has not answered, or refused as
\* busy.  A session may be busy with its own upkeep, and a prompt may hold what
\* the Node cannot take.
Verdict ==
    {"rejected"} \cup IF agent = "gone" THEN {}
                     ELSE IF agent # "idle" \/ Taken # {} THEN {"rejected_busy"}
                     ELSE {"accepted", "rejected_busy"}

\* Variant: only a prompt that is being worked on, or was, is known.
KnownTaken(p) == journal[p].st \in {"accepted", "settled"}

Known(p) == journal[p].st \notin {None, "rejected_busy"}

\* The answer is in the journal before the agent is prompted.
Answer(p) ==
    \E st \in Verdict :
        /\ Write(p, st)
        /\ Tells(Of(p), IF st = "accepted" THEN <<Event("running")>> ELSE <<>>)
        /\ IF st = "accepted"
           THEN agent' = p /\ current' = p /\ given' = [given EXCEPT ![p] = @ + 1]
           ELSE UNCHANGED <<agent, current, given>>

\* An offer answered before is answered the same.
AnswerAgain(p) ==
    /\ Tells([q \in {p} |-> journal[p]], <<>>)
    /\ UNCHANGED <<journal, agent, current, given>>

\* revalidate throws: the checkout is not the session's any more.
NoAnswer == agent # "gone" /\ UNCHANGED <<journal, agent, current, given>> /\ Silent

\* deliverLeadPrompt, once the session is ready.
Admit(p) ==
    /\ waiting[p] > 0 /\ waiting' = [waiting EXCEPT ![p] = @ - 1]
    /\ \/ Known(p) /\ AnswerAgain(p)
       \/ ~Known(p) /\ Answer(p)
       \/ NoAnswer
    /\ UNCHANGED <<done, down>> /\ NodeOnly

\* Variant: the prompt's record is left for the turn's completion.
DoubtLater(p) == UNCHANGED journal

\* Variant: a prompt that has returned is settled.
DoubtNot(p) == IF p \in Taken THEN Write(p, "settled") ELSE UNCHANGED journal

\* uncertain, of the prompt that was being worked on.
Doubt(p) == IF p \in Taken THEN Write(p, "uncertain") ELSE UNCHANGED journal
Receipts(p) == IF p \in Taken THEN Of(p) ELSE NoReceipts

\* handle, on turn_complete: the turn settles the prompt the session had.
TurnEnds ==
    /\ agent \notin {"gone", "idle"}
    /\ done' = done \cup ({agent} \cap Prompts)
    /\ agent' = "idle" /\ current' = None
    /\ IF current \in Taken THEN Write(current, "settled") ELSE UNCHANGED journal
    /\ Tells(Receipts(current), <<Event("idle")>>)
    /\ UNCHANGED <<waiting, given, down>> /\ NodeOnly

\* The prompt returns without the completion of its turn.
TurnBreaksOff ==
    /\ agent \in Prompts
    /\ agent' = "idle" /\ Doubt(agent)
    /\ Tells(Receipts(agent), <<Event("idle")>>)
    /\ UNCHANGED <<waiting, current, given, done, down>> /\ NodeOnly

OwnTurnBegins ==
    /\ agent = "idle" /\ Len(up) < MaxQueue
    /\ agent' = "own turn"
    /\ Tells(NoReceipts, <<Event("running")>>)
    /\ UNCHANGED <<journal, waiting, current, given, done, down>> /\ NodeOnly

\* The session ends with its prompt unfinished.
Ends ==
    /\ agent # "gone" /\ agent' = "gone" /\ current' = None
    /\ Doubt(current) /\ Tells(Receipts(current), <<Event("ended")>>)
    /\ UNCHANGED <<waiting, given, done>>

AgentExits == Ends /\ UNCHANGED down /\ NodeOnly

StopArrives ==
    /\ Arrives("stop") /\ NodeOnly
    /\ \/ Ends
       \/ agent = "gone" /\ Silent /\ UNCHANGED <<journal, waiting, agent, current, given, done>>

\* The Host has the conversation loaded again.
ResumeArrives ==
    /\ Arrives("resume") /\ agent = "gone" /\ agent' = "idle"
    /\ Tells(NoReceipts, <<Event("idle")>>)
    /\ UNCHANGED <<journal, waiting, current, given, done>> /\ NodeOnly

\* flush, every heartbeat: what there is room for.
Flush ==
    /\ link = "ready" /\ owed # {}
    /\ \E sent \in Fitting(owed) :
        /\ sent # {} /\ owed' = owed \ sent
        /\ up' = up \o SetToSeq({Receipt(p, journal[p]) : p \in sent})
    /\ UNCHANGED <<journal, held, waiting, agent, current, given, done, down>> /\ NodeOnly

\* The Node process restarts: agents and everything not journalled are gone,
\* and a prompt that was taken is uncertain.
NodeRestart ==
    /\ breaks < MaxBreaks /\ breaks' = breaks + 1
    /\ journal' = [p \in Prompts |-> IF p \in Taken
                                     THEN [st |-> "uncertain", at |-> journal[p].at + 1]
                                     ELSE journal[p]]
    /\ owed' = {} /\ held' = FALSE /\ waiting' = [p \in Prompts |-> 0]
    /\ agent' = "gone" /\ current' = None
    /\ Drop /\ UNCHANGED <<given, done>>

-----------------------------------------------------------------------------
HostHears == HearReceipt \/ HearEvent \/ HearInventory \/ HangUp
NodeHears == Welcome \/ DeliverArrives \/ StopArrives \/ ResumeArrives

Next ==
    \/ \E p \in Prompts : Enqueue(p) \/ Pump(p) \/ Withdraw(p) \/ Admit(p)
    \/ Orphan \/ Stop \/ HostHears \/ NodeHears
    \/ TurnEnds \/ TurnBreaksOff \/ OwnTurnBegins \/ AgentExits \/ Flush
    \/ Break \/ Close \/ Reconnect \/ NodeRestart

\* The read loops, the reconnect timer and the heartbeat run, and a turn ends
\* some way.  Nothing is assumed of operators and failures.
Fairness ==
    /\ WF_vars(HostHears) /\ WF_vars(NodeHears) /\ SF_vars(Flush)
    /\ WF_vars(Close \/ Reconnect) /\ WF_vars(TurnEnds \/ TurnBreaksOff) /\ WF_vars(Orphan)
    /\ \A p \in Prompts : WF_vars(Admit(p)) /\ WF_vars(Pump(p))

Spec == Init /\ [][Next]_vars
FairSpec == Spec /\ Fairness

-----------------------------------------------------------------------------
(* Properties.                                                              *)

\* The Host's rows, the Node's journal and the lead hold what their schemas
\* allow, and the Host has at most one prompt in hand, which the unique index
\* of lead_prompt_deliveries demands of every update.
TypeOK ==
    /\ \A p \in Prompts :
        /\ row[p].st \in Answers \cup {None, "pending", "reserved", "orphaned"}
        /\ row[p].heard.st \in Answers \cup {None}
        /\ journal[p].st \in Answers \cup {None}
    /\ lead \in {"idle", "running", "offline", "starting", "ended"}
    /\ agent \in {"gone", "idle", "own turn"} \cup Prompts
    /\ current \in Prompts \cup {None}
    /\ owed \subseteq Prompts /\ held \in BOOLEAN
    /\ Cardinality(InHand) <= 1

\* However often an offer is repeated, delayed or retried, and whatever
\* restarts, the agent is given a prompt at most once (accept,
\* deliverLeadPrompt).
PromptedOnce == \A p \in Prompts : given[p] <= 1

\* A prompt the journal holds as taken is the one the agent works on: no
\* reservation outlives its turn and locks the session (settle, uncertain).
TakenIsWorkedOn == \A p \in Prompts : journal[p].st = "accepted" => agent = p

\* A prompt the Host holds as settled was worked on to the end of a turn of
\* its own (promptReceipt, handle).
SettledIsDone == \A p \in Prompts : row[p].st = "settled" => p \in done

\* A prompt that may be offered again, or withdrawn, was not given to the agent
\* (docs/local-agent-api-plan.md:592).
RefusedIsUntaken ==
    \A p \in Prompts : row[p].st \in {"pending", "rejected_busy"} => given[p] = 0

\* What became of a prompt comes to be known to the Host, unless a prompt is
\* taken for refused (replay, flush, promptReceipt).
AnswerIsTold ==
    \A p \in Prompts :
        journal[p].st \in {"settled", "uncertain", "rejected"}
            ~> \/ row[p].st \in {journal[p].st, "orphaned"}
               \/ ~RefusedIsUntaken
=============================================================================
