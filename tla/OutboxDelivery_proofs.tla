------------------------ MODULE OutboxDelivery_proofs ------------------------
(***************************************************************************)
(* Type correctness of OutboxDelivery, that an event the outbox took is    *)
(* lost only to the capacity bound, and that both ends always mean the     *)
(* same batch, for every number of events and connections and every        *)
(* capacity.                                                               *)
(*                                                                         *)
(* NothingHeldIsLost is not inductive: that acknowledging a batch is safe  *)
(* follows from what the Host had when it sent the acknowledgment, which   *)
(* in turn follows from what it counted while it received the batch.  The  *)
(* inductive invariant therefore follows a batch along the connection:     *)
(* what is on the wire (FramesAgree), what the Host counted (FlushStored), *)
(* what an acknowledgment on its way back stands for (AckStored).          *)
(***************************************************************************)
EXTENDS OutboxDelivery, SequenceTheorems, TLAPS

\* Frames that name a batch agree with the batch frozen under that id.
FrameAgrees(f) ==
    f.fid # 0 =>
        /\ f.fid \in DOMAIN batches
        /\ f.kind # "ack" => f.count = Len(batches[f.fid])
        /\ f.kind = "event" => /\ f.index \in 1..f.count
                               /\ f.ev = batches[f.fid][f.index]

FramesAgree ==
    \A c \in Conns : \A f \in Elems(toHost[c]) : FrameAgrees(f)

\* The Host has dealt with every event of a batch it counted.
Counted(fl) ==
    IF fl.fid = 0 THEN fl = NoFlush
    ELSE /\ fl.fid \in DOMAIN batches
         /\ fl.count = Len(batches[fl.fid])
         /\ fl.next <= fl.count
         /\ \A i \in 1..fl.next : Settled(batches[fl.fid][i])

FlushStored == \A c \in Conns : Counted(flush[c])

\* The Host has dealt with every event of a batch it acknowledged.
AckMeans(f) ==
    f.kind = "ack" /\ f.fid # 0 =>
        /\ f.fid \in DOMAIN batches
        /\ \A e \in Elems(batches[f.fid]) : Settled(e)

AckStored == \A c \in Conns : \A f \in Elems(toNode[c]) : AckMeans(f)

\* Once the inventory is sent, holding events back means holding a batch.
HoldHasBatch ==
    /\ nodePhase \in {"ready", "welcomed"} /\ hold => inFlight # 0
    /\ nodePhase \notin {"closed", "exited"} => conn # 0

IInv == FramesAgree /\ FlushStored /\ AckStored /\ HoldHasBatch /\ NothingHeldIsLost

-----------------------------------------------------------------------------
(* The operators the actions are built from                                *)

\* The empty sequence is a wire, an outbox and a history of batches.
LEMMA EmptyTyped ==
    /\ <<>> \in Seq(FrameType) /\ <<>> \in Seq(Events)
    /\ <<>> \in Seq(Seq(Events)) /\ Len(<<>>) = 0
BY EmptySeq

\* One frame is a sequence of frames.
LEMMA OneFrame == ASSUME NEW f \in FrameType PROVE <<f>> \in Seq(FrameType)
OBVIOUS

\* flushReconnectOutbox sends well-formed frames.
LEMMA FlushFramesTyped ==
    ASSUME ConstantsAssumption, alive \in BOOLEAN, NEW f \in Nat,
           NEW content \in Seq(Events)
    PROVE  FlushFrames(f, content) \in Seq(FrameType)
<1>1. Len(content) \in Nat
  OBVIOUS
<1>2. \A i \in 1..(Len(content) + 1) : i <= Len(content) => content[i] \in Events
  OBVIOUS
<1>3. \A i \in 1..(Len(content) + 1) : FlushFrames(f, content)[i] \in FrameType
  BY <1>1, <1>2 DEF FlushFrames, Frame, FrameType, Kinds, Events, ConstantsAssumption
<1>4. FlushFrames(f, content) = [i \in 1..(Len(content) + 1) |-> FlushFrames(f, content)[i]]
  BY <1>1 DEF FlushFrames
<1> QED
  BY <1>1, <1>3, <1>4

\* Sending well-formed frames keeps the wire well-formed.
LEMMA TransmitTyped ==
    ASSUME WireType, NEW fs \in Seq(FrameType), Transmit(fs)
    PROVE  toHost' \in [Conns -> Seq(FrameType)]
<1>1. \A c \in Conns : toHost[c] \o fs \in Seq(FrameType)
  BY ConcatProperties DEF WireType
<1> QED
  BY <1>1 DEF WireType, Transmit

\* So does delivering one to the Node.
LEMMA TellTyped ==
    ASSUME WireType, NEW c \in Conns, NEW frame \in FrameType, Tell(c, frame)
    PROVE  toNode' \in [Conns -> Seq(FrameType)]
BY DEF WireType, Tell

\* Reading a frame shortens the wire and yields a well-formed frame.
LEMMA ReceiveTyped ==
    ASSUME WireType, NEW c \in Conns, toHost[c] # <<>>
    PROVE  /\ Head(toHost[c]) \in FrameType
           /\ Tail(toHost[c]) \in Seq(FrameType)
BY DEF WireType

-----------------------------------------------------------------------------
(* Type correctness                                                        *)

LEMMA TypeInit == ASSUME ConstantsAssumption, Init PROVE TypeOK
<1>1. NodeType
  <2>1. alive \in BOOLEAN /\ reconcile \in BOOLEAN /\ hold \in BOOLEAN
    BY DEF Init
  <2>2. 0 \in 0..MaxEvents /\ 0 \in 0..MaxConns /\ 0 \in 0..0 /\ 0 <= Capacity
    BY DEF ConstantsAssumption
  <2> QED
    BY <2>1, <2>2, EmptyTyped DEF Init, NodeType
<1>2. WireType
  BY EmptyTyped DEF Init, WireType
<1>3. HostType
  BY EmptyTyped DEF Init, HostType, NoFlush
<1> QED
  BY <1>1, <1>2, <1>3 DEF TypeOK

\* An event is added to the outbox: the capacity holds.
LEMMA TypeAdd ==
    ASSUME ConstantsAssumption, NodeType, NEW e \in Events, Add(e)
    PROVE  /\ pending' \in Seq(Events) /\ Len(pending') <= Capacity
           /\ reconcile' \in BOOLEAN
           /\ held' \subseteq Events /\ dropped' \subseteq Events
<1>1. CASE Len(pending) = Capacity
  <2>1. pending # <<>> /\ Head(pending) \in Events /\ Tail(pending) \in Seq(Events)
        /\ Len(Tail(pending)) = Capacity - 1
    BY <1>1 DEF NodeType, ConstantsAssumption
  <2> QED
    BY <1>1, <2>1 DEF Add, NodeType, ConstantsAssumption
<1>2. CASE Len(pending) # Capacity
  BY <1>2 DEF Add, NodeType, ConstantsAssumption
<1> QED
  BY <1>1, <1>2

LEMMA TypeRaise ==
    ASSUME ConstantsAssumption, TypeOK, RaiseEvent \/ RaiseTerminal
    PROVE  TypeOK'
<1> DEFINE e == raised + 1
<1>1. e \in Events /\ Emit(e)
  BY DEF RaiseEvent, RaiseTerminal, TypeOK, NodeType, Events, ConstantsAssumption
<1> HIDE DEF e
<1>2. /\ raised' \in 0..MaxEvents
      /\ UNCHANGED <<batches, inFlight, hold, conn, nodePhase, toNode>>
      /\ UNCHANGED hostVars
  BY <1>1 DEF Emit, Events, ConstantsAssumption
<1>3. alive' \in BOOLEAN /\ terminal' \in 0..MaxEvents
  <2>1. CASE RaiseEvent
    BY <2>1 DEF RaiseEvent, TypeOK, NodeType
  <2>2. CASE RaiseTerminal
    <3>1. alive' = FALSE /\ terminal' = e
      BY <2>2 DEF RaiseTerminal, e
    <3>2. e \in 0..MaxEvents
      BY <1>1 DEF Events, ConstantsAssumption
    <3> QED
      BY <3>1, <3>2
  <2> QED
    BY <2>1, <2>2
<1>4. HostType'
  BY <1>2 DEF TypeOK, HostType, hostVars
<1>5. CASE Transmit(<<LiveEvent(e)>>) /\ UNCHANGED <<pending, dropped, held, reconcile>>
  <2>1. LiveEvent(e) \in FrameType
    BY <1>1 DEF LiveEvent, Frame, FrameType, Events, Kinds, ConstantsAssumption
  <2>2. toHost' \in [Conns -> Seq(FrameType)]
    BY <1>5, <2>1, OneFrame, TransmitTyped DEF TypeOK
  <2>3. WireType'
    BY <2>2, <1>2 DEF TypeOK, WireType
  <2>4. NodeType'
    BY <1>2, <1>3, <1>5 DEF TypeOK, NodeType
  <2> QED
    BY <1>4, <2>3, <2>4 DEF TypeOK
<1>6. CASE Add(e) /\ UNCHANGED toHost
  <2>1. /\ pending' \in Seq(Events) /\ Len(pending') <= Capacity
        /\ reconcile' \in BOOLEAN
        /\ held' \subseteq Events /\ dropped' \subseteq Events
    BY <1>1, <1>6, TypeAdd DEF TypeOK
  <2>2. NodeType'
    BY <1>2, <1>3, <2>1 DEF TypeOK, NodeType
  <2>3. WireType'
    BY <1>2, <1>6 DEF TypeOK, WireType
  <2> QED
    BY <1>4, <2>2, <2>3 DEF TypeOK
<1> QED
  BY <1>1, <1>5, <1>6 DEF Emit

LEMMA TypeDial == ASSUME ConstantsAssumption, TypeOK, Dial PROVE TypeOK'
<1>1. NodeType'
  BY DEF TypeOK, NodeType, Dial, ConstantsAssumption
<1> QED
  BY <1>1 DEF TypeOK, WireType, HostType, Dial, hostVars

LEMMA TypeOpenChannel == ASSUME TypeOK, OpenChannel PROVE TypeOK'
<1>1. NodeType' /\ WireType'
  BY DEF TypeOK, NodeType, WireType, OpenChannel
<1>2. HostType'
  BY DEF TypeOK, HostType, OpenChannel
<1> QED
  BY <1>1, <1>2 DEF TypeOK

\* Freezing the pending events.
LEMMA TypePrepare ==
    ASSUME ConstantsAssumption, NodeType, NEW b \in BOOLEAN, PrepareFlush(b)
    PROVE  /\ batches' \in Seq(Seq(Events)) /\ inFlight' \in 0..Len(batches')
           /\ pending' \in Seq(Events) /\ Len(pending') <= Capacity
<1>1. CASE inFlight = 0 /\ (pending # <<>> \/ b)
  <2>1. Append(batches, pending) \in Seq(Seq(Events))
        /\ Len(Append(batches, pending)) = Len(batches) + 1 /\ Len(batches) \in Nat
    BY DEF NodeType
  <2>2. batches' = Append(batches, pending) /\ inFlight' = Len(batches) + 1 /\ pending' = <<>>
    BY <1>1 DEF PrepareFlush
  <2> QED
    BY <2>1, <2>2, EmptyTyped DEF NodeType, ConstantsAssumption
<1>2. CASE ~(inFlight = 0 /\ (pending # <<>> \/ b))
  BY <1>2 DEF PrepareFlush, NodeType
<1> QED
  BY <1>1, <1>2

LEMMA TypeNodeClose == ASSUME TypeOK, NodeClose PROVE TypeOK'
<1>1. NodeType'
  BY DEF TypeOK, NodeType, NodeClose
<1>2. WireType'
  BY EmptyTyped DEF TypeOK, WireType, NodeClose
<1> QED
  BY <1>1, <1>2 DEF TypeOK, HostType, NodeClose, hostVars

LEMMA TypeNodeExit == ASSUME ConstantsAssumption, TypeOK, NodeExit PROVE TypeOK'
<1>1. NodeType'
  BY EmptyTyped DEF TypeOK, NodeType, NodeExit, ConstantsAssumption
<1>2. WireType'
  BY EmptyTyped DEF TypeOK, WireType, NodeExit
<1> QED
  BY <1>1, <1>2 DEF TypeOK, HostType, NodeExit, hostVars

\* So is what is left for the Node after it read a frame.
LEMMA NodeReadTyped ==
    ASSUME WireType, NEW c \in Conns, toNode[c] # <<>>
    PROVE  [toNode EXCEPT ![c] = Tail(@)] \in [Conns -> Seq(FrameType)]
<1>1. Tail(toNode[c]) \in Seq(FrameType)
  BY DEF WireType
<1> QED
  BY <1>1 DEF WireType

\* An inventory frame is well-formed.
LEMMA SummaryTyped ==
    ASSUME ConstantsAssumption, alive \in BOOLEAN,
           NEW kind \in Kinds \ {"event"}, NEW f \in Nat, NEW n \in Nat
    PROVE  Frame(kind, 0, f, n, 0, alive) \in FrameType
BY DEF Frame, FrameType, ConstantsAssumption

LEMMA TypeSendReady ==
    ASSUME ConstantsAssumption, TypeOK, SendReady PROVE TypeOK'
<1> DEFINE held_back == reconcile \/ inFlight # 0 \/ pending # <<>>
<1> DEFINE count == IF inFlight' = 0 THEN 0 ELSE Len(batches'[inFlight'])
<1>1. /\ batches' \in Seq(Seq(Events)) /\ inFlight' \in 0..Len(batches')
      /\ pending' \in Seq(Events) /\ Len(pending') <= Capacity
  <2>1. CASE held_back
    <3>1. PrepareFlush(reconcile)
      BY <2>1 DEF SendReady
    <3> QED
      BY <3>1, TypePrepare DEF TypeOK, NodeType
  <2>2. CASE ~held_back
    BY <2>2 DEF SendReady, TypeOK, NodeType
  <2> QED
    BY <2>1, <2>2
<1>2. inFlight' \in Nat /\ count \in Nat
  <2>1. CASE inFlight' = 0
    BY <2>1
  <2>2. CASE inFlight' # 0
    <3>1. batches'[inFlight'] \in Seq(Events) /\ inFlight' \in Nat
      BY <1>1, <2>2
    <3> QED
      BY <2>2, <3>1
  <2> QED
    BY <2>1, <2>2
<1>3. Transmit(<<Frame("ready", 0, inFlight', count, 0, alive)>>)
  BY DEF SendReady
<1> HIDE DEF count
<1>4. Frame("ready", 0, inFlight', count, 0, alive) \in FrameType
  <2>1. "ready" \in Kinds \ {"event"} /\ alive \in BOOLEAN
    BY DEF Kinds, TypeOK, NodeType
  <2> QED
    BY <1>2, <2>1, SummaryTyped
<1>5. toHost' \in [Conns -> Seq(FrameType)]
  BY <1>3, <1>4, OneFrame, TransmitTyped DEF TypeOK
<1>6. UNCHANGED <<raised, alive, terminal, reconcile, conn, held, dropped, toNode>>
      /\ UNCHANGED hostVars /\ nodePhase' = "ready" /\ conn # 0
  BY DEF SendReady, TypeOK, NodeType
<1>7. hold' \in BOOLEAN
  BY DEF SendReady
<1>8. NodeType'
  BY <1>1, <1>6, <1>7 DEF TypeOK, NodeType
<1>9. WireType' /\ HostType'
  BY <1>5, <1>6 DEF TypeOK, WireType, HostType, hostVars
<1> QED
  BY <1>8, <1>9 DEF TypeOK

\* Once the inventory is sent, holding events back means holding a batch.
LEMMA HoldInit == ASSUME Init PROVE HoldHasBatch
BY DEF Init, HoldHasBatch

LEMMA TypeWelcome ==
    ASSUME ConstantsAssumption, TypeOK, HoldHasBatch, HandleWelcome PROVE TypeOK'
<1>1. /\ UNCHANGED <<raised, alive, terminal, pending, batches, inFlight,
                     reconcile, hold, conn, held, dropped>>
      /\ UNCHANGED hostVars
      /\ nodePhase' = "welcomed" /\ nodePhase = "ready" /\ conn \in Conns
  BY DEF HandleWelcome, TypeOK, NodeType, HoldHasBatch, Conns, ConstantsAssumption
<1>2. NodeType' /\ HostType'
  BY <1>1 DEF TypeOK, NodeType, HostType, hostVars
<1>3. toNode' \in [Conns -> Seq(FrameType)]
  BY <1>1, NodeReadTyped DEF HandleWelcome, TypeOK
<1>4. toHost' \in [Conns -> Seq(FrameType)]
  <2>1. CASE hold
    <3>1. inFlight \in Nat /\ batches[inFlight] \in Seq(Events) /\ alive \in BOOLEAN
      BY <2>1, <1>1 DEF HoldHasBatch, TypeOK, NodeType
    <3>2. Transmit(FlushFrames(inFlight, batches[inFlight]))
      BY <2>1 DEF HandleWelcome
    <3> QED
      BY <3>1, <3>2, FlushFramesTyped, TransmitTyped DEF TypeOK
  <2>2. CASE ~hold
    BY <2>2 DEF HandleWelcome, TypeOK, WireType
  <2> QED
    BY <2>1, <2>2
<1> QED
  BY <1>2, <1>3, <1>4 DEF TypeOK, WireType

LEMMA TypeAck ==
    ASSUME ConstantsAssumption, TypeOK, HoldHasBatch, HandleAck PROVE TypeOK'
<1>1. /\ UNCHANGED <<raised, alive, terminal, conn, nodePhase, held, dropped>>
      /\ UNCHANGED hostVars
  BY DEF HandleAck
<1>2. HostType' /\ toNode' \in [Conns -> Seq(FrameType)]
  <2>1. conn \in Conns
    BY DEF HandleAck, TypeOK, NodeType, Conns, ConstantsAssumption
  <2>2. toNode' \in [Conns -> Seq(FrameType)]
    BY <2>1, NodeReadTyped DEF HandleAck, TypeOK
  <2> QED
    BY <1>1, <2>2 DEF TypeOK, HostType, hostVars
<1>3. CASE pending # <<>> /\ batches' = Append(batches, pending)
           /\ inFlight' = Len(batches) + 1 /\ pending' = <<>>
           /\ Transmit(FlushFrames(inFlight', pending)) /\ UNCHANGED <<reconcile, hold>>
  <2>1. /\ batches' \in Seq(Seq(Events)) /\ Len(batches') = Len(batches) + 1
        /\ Len(batches) \in Nat
    BY <1>3 DEF TypeOK, NodeType
  <2>2. inFlight' \in Nat /\ inFlight' \in 0..Len(batches')
    BY <1>3, <2>1
  <2>3. pending \in Seq(Events) /\ alive \in BOOLEAN
    BY DEF TypeOK, NodeType
  <2>4. toHost' \in [Conns -> Seq(FrameType)]
    BY <1>3, <2>2, <2>3, FlushFramesTyped, TransmitTyped DEF TypeOK
  <2>5. pending' \in Seq(Events) /\ Len(pending') <= Capacity
    BY <1>3, EmptyTyped DEF ConstantsAssumption
  <2>6. NodeType'
    BY <1>1, <1>3, <2>1, <2>2, <2>5 DEF TypeOK, NodeType
  <2> QED
    BY <1>2, <2>4, <2>6 DEF TypeOK, WireType
<1>4. CASE pending = <<>> /\ inFlight' = 0 /\ reconcile' = FALSE /\ hold' = FALSE
           /\ UNCHANGED <<batches, pending, toHost>>
  <2>1. reconcile' \in BOOLEAN /\ hold' \in BOOLEAN
    BY <1>4
  <2>2. inFlight' \in 0..Len(batches')
    BY <1>4 DEF TypeOK, NodeType
  <2>3. NodeType'
    BY <1>1, <1>4, <2>1, <2>2 DEF TypeOK, NodeType
  <2> QED
    BY <1>2, <1>4, <2>3 DEF TypeOK, WireType
<1> QED
  BY <1>3, <1>4 DEF HandleAck

LEMMA TypeHeartbeat ==
    ASSUME ConstantsAssumption, TypeOK, Heartbeat PROVE TypeOK'
<1>1. Frame("heartbeat", 0, 0, 0, 0, alive) \in FrameType
  <2>1. "heartbeat" \in Kinds \ {"event"} /\ alive \in BOOLEAN
    BY DEF Kinds, TypeOK, NodeType
  <2> QED
    BY <2>1, SummaryTyped
<1>2. toHost' \in [Conns -> Seq(FrameType)]
  BY <1>1, OneFrame, TransmitTyped DEF Heartbeat, TypeOK
<1>3. NodeType'
  BY DEF Heartbeat, TypeOK, NodeType, nodeVars
<1> QED
  BY <1>2, <1>3 DEF Heartbeat, TypeOK, WireType, HostType, hostVars

\* A Host action leaves the Node's variables alone.
LEMMA NodeUntouched == ASSUME NodeType, UNCHANGED nodeVars PROVE NodeType'
BY DEF NodeType, nodeVars

LEMMA ConsumeTyped ==
    ASSUME WireType, NEW c \in Conns, toHost[c] # <<>>, Consume(c)
    PROVE  toHost' \in [Conns -> Seq(FrameType)]
BY ReceiveTyped DEF WireType, Consume

\* What the Host tells the Node about a batch is well-formed.
LEMMA ReplyTyped ==
    ASSUME ConstantsAssumption, NEW kind \in Kinds \ {"event"}, NEW f \in Nat
    PROVE  Frame(kind, 0, f, 0, 0, TRUE) \in FrameType
<1>1. TRUE \in BOOLEAN
  OBVIOUS
<1> QED
  BY <1>1 DEF Frame, FrameType, ConstantsAssumption

\* Storing an event.
LEMMA AcceptTyped ==
    ASSUME HostType, NEW e \in Events, Accept(e)
    PROVE  log' \in Seq(Events) /\ sess' \in {"live", "offline", "ended", "failed"}
<1>1. CASE Stored(e)
  BY <1>1 DEF HostType, Accept
<1>2. CASE ~Stored(e)
  <2>1. log' = Append(log, e)
    BY <1>2 DEF Accept
  <2>2. sess' \in {"ended", "live", sess}
    BY <1>2 DEF Accept
  <2> QED
    BY <2>1, <2>2 DEF HostType
<1> QED
  BY <1>1, <1>2

\* Closing a connection keeps the Host's state well-typed.
LEMMA CloseTyped ==
    ASSUME TypeOK, NEW c \in Conns, CloseLink(c)
    PROVE  log' \in Seq(Events) /\ refused' \subseteq Events => HostType'
<1>1. flush' \in [Conns -> [fid: Nat, count: Nat, next: Nat]]
  BY DEF TypeOK, HostType, CloseLink, NoFlush
<1>2. awaiting' \in [Conns -> BOOLEAN]
  BY DEF TypeOK, HostType, CloseLink
<1>3. /\ hostPhase' \in [Conns -> {"none", "inventory", "accepted", "closing",
                                   "closed", "superseded"}]
      /\ sess' \in {"live", "offline", "ended", "failed"}
  BY DEF TypeOK, HostType, CloseLink, Offline
<1> QED
  BY <1>1, <1>2, <1>3 DEF HostType

LEMMA TypeHostClose ==
    ASSUME TypeOK, NEW c \in Conns, CloseLink(c), UNCHANGED <<toNode, log, refused>>,
           UNCHANGED nodeVars
    PROVE  TypeOK'
<1>1. HostType'
  BY CloseTyped DEF TypeOK, HostType
<1>2. WireType'
  BY EmptyTyped DEF TypeOK, WireType, CloseLink
<1> QED
  BY <1>1, <1>2, NodeUntouched DEF TypeOK

LEMMA TypeHostReady ==
    ASSUME ConstantsAssumption, TypeOK, NEW c \in Conns, HostReady(c) PROVE TypeOK'
<1> DEFINE frame == Head(toHost[c])
<1>1. toHost[c] # <<>> /\ frame \in FrameType /\ Tail(toHost[c]) \in Seq(FrameType)
  BY ReceiveTyped DEF HostReady, Receives, TypeOK
<1>2. hostPhase' \in [Conns -> {"none", "inventory", "accepted", "closing", "closed",
                             "superseded"}]
  BY DEF HostReady, TypeOK, HostType
<1>3. awaiting' \in [Conns -> BOOLEAN]
  BY DEF HostReady
<1>4. flush' \in [Conns -> [fid: Nat, count: Nat, next: Nat]]
  <2>1. /\ frame.fid \in Nat /\ frame.count \in Nat
        /\ NoFlush \in [fid: Nat, count: Nat, next: Nat]
    BY <1>1 DEF FrameType, NoFlush
  <2> QED
    BY <2>1 DEF HostReady
<1>5. sess' \in {"live", "offline", "ended", "failed"}
  BY DEF HostReady, Reconciled, Offline, TypeOK, HostType
<1>6. UNCHANGED <<log, refused>> /\ UNCHANGED nodeVars
  BY DEF HostReady
<1>7. HostType'
  BY <1>2, <1>3, <1>4, <1>5, <1>6 DEF TypeOK, HostType
<1>8. toHost' \in [Conns -> Seq(FrameType)]
  BY <1>1, EmptyTyped DEF HostReady, TypeOK, WireType
<1>9. toNode' \in [Conns -> Seq(FrameType)]
  <2>1. Frame("welcome", 0, 0, 0, 0, TRUE) \in FrameType
    BY ReplyTyped DEF Kinds
  <2>2. Tell(c, Frame("welcome", 0, 0, 0, 0, TRUE))
    BY DEF HostReady
  <2> QED
    BY <2>1, <2>2, TellTyped DEF TypeOK
<1> QED
  BY <1>6, <1>7, <1>8, <1>9, NodeUntouched DEF TypeOK, WireType

LEMMA TypeHostBatchEvent ==
    ASSUME ConstantsAssumption, TypeOK, NEW c \in Conns, HostBatchEvent(c)
    PROVE  TypeOK'
<1> DEFINE frame == Head(toHost[c])
<1>1. toHost[c] # <<>> /\ frame \in FrameType /\ frame.ev \in Events
  BY ReceiveTyped DEF HostBatchEvent, Receives, TypeOK, FrameType
<1>2. /\ hostPhase' = hostPhase /\ UNCHANGED toNode /\ UNCHANGED nodeVars /\ Consume(c)
      /\ awaiting' = [awaiting EXCEPT ![c] = TRUE]
      /\ flush' = [flush EXCEPT ![c] = [fid |-> frame.fid, count |-> frame.count,
                                        next |-> frame.index]]
  BY DEF HostBatchEvent
<1>3. awaiting' \in [Conns -> BOOLEAN]
  <2>1. TRUE \in BOOLEAN
    OBVIOUS
  <2> QED
    BY <1>2, <2>1 DEF TypeOK, HostType
<1>4. flush' \in [Conns -> [fid: Nat, count: Nat, next: Nat]]
  BY <1>1, <1>2 DEF TypeOK, HostType, FrameType
<1>5. /\ log' \in Seq(Events) /\ refused' \subseteq Events
      /\ sess' \in {"live", "offline", "ended", "failed"}
  <2>1. CASE refused' = refused \cup {frame.ev} /\ UNCHANGED <<log, sess>>
    BY <1>1, <2>1 DEF TypeOK, HostType
  <2>2. CASE Accept(frame.ev) /\ UNCHANGED refused
    BY <1>1, <2>2, AcceptTyped DEF TypeOK, HostType
  <2> QED
    BY <2>1, <2>2 DEF HostBatchEvent
<1>6. HostType'
  BY <1>2, <1>3, <1>4, <1>5 DEF TypeOK, HostType
<1>7. WireType'
  BY <1>1, <1>2, ConsumeTyped DEF TypeOK, WireType
<1> QED
  BY <1>2, <1>6, <1>7, NodeUntouched DEF TypeOK

LEMMA TypeHostLiveEvent ==
    ASSUME ConstantsAssumption, TypeOK, NEW c \in Conns, HostLiveEvent(c)
    PROVE  TypeOK'
<1> DEFINE frame == Head(toHost[c])
<1>1. toHost[c] # <<>> /\ frame.ev \in Events
  BY ReceiveTyped DEF HostLiveEvent, Receives, TypeOK, FrameType
<1>2. /\ UNCHANGED <<toNode, hostPhase, awaiting, flush, refused>>
      /\ UNCHANGED nodeVars /\ Consume(c)
  BY DEF HostLiveEvent
<1>3. log' \in Seq(Events) /\ sess' \in {"live", "offline", "ended", "failed"}
  <2>1. CASE Accept(frame.ev)
    BY <1>1, <2>1, AcceptTyped DEF TypeOK
  <2>2. CASE UNCHANGED <<log, sess>>
    BY <2>2 DEF TypeOK, HostType
  <2> QED
    BY <2>1, <2>2 DEF HostLiveEvent
<1>4. HostType'
  BY <1>2, <1>3 DEF TypeOK, HostType
<1>5. WireType'
  BY <1>1, <1>2, ConsumeTyped DEF TypeOK, WireType
<1> QED
  BY <1>2, <1>4, <1>5, NodeUntouched DEF TypeOK

LEMMA TypeHostFlushed ==
    ASSUME ConstantsAssumption, TypeOK, NEW c \in Conns, HostFlushed(c) PROVE TypeOK'
<1> DEFINE frame == Head(toHost[c])
<1>1. toHost[c] # <<>> /\ frame \in FrameType
  BY ReceiveTyped DEF HostFlushed, Receives, TypeOK
<1>2. /\ UNCHANGED <<hostPhase, log, refused>> /\ UNCHANGED nodeVars /\ Consume(c)
      /\ flush' = [flush EXCEPT ![c] = NoFlush]
      /\ sess' = Reconciled(sess, frame.up)
      /\ Tell(c, Frame("ack", 0, frame.fid, 0, 0, TRUE))
  BY DEF HostFlushed
<1>3. awaiting' \in [Conns -> BOOLEAN]
  <2>1. awaiting' = [awaiting EXCEPT ![c] = FALSE] /\ FALSE \in BOOLEAN
    BY DEF HostFlushed
  <2> QED
    BY <2>1 DEF TypeOK, HostType
<1>4. HostType'
  BY <1>2, <1>3 DEF TypeOK, HostType, NoFlush, Reconciled
<1>5. toNode' \in [Conns -> Seq(FrameType)]
  <2>1. Frame("ack", 0, frame.fid, 0, 0, TRUE) \in FrameType
    <3>1. "ack" \in Kinds \ {"event"} /\ frame.fid \in Nat
      BY <1>1 DEF Kinds, FrameType
    <3> QED
      BY <3>1, ReplyTyped
  <2> QED
    BY <1>2, <2>1, TellTyped DEF TypeOK
<1>6. toHost' \in [Conns -> Seq(FrameType)]
  BY <1>1, <1>2, ConsumeTyped DEF TypeOK
<1> QED
  BY <1>2, <1>4, <1>5, <1>6, NodeUntouched DEF TypeOK, WireType

LEMMA TypeHostHeartbeat ==
    ASSUME ConstantsAssumption, TypeOK, NEW c \in Conns, HostHeartbeat(c) PROVE TypeOK'
<1>1. HostType'
  BY DEF HostHeartbeat, TypeOK, HostType, Reconciled
<1>2. WireType'
  BY ConsumeTyped DEF HostHeartbeat, Receives, TypeOK, WireType
<1> QED
  BY <1>1, <1>2, NodeUntouched DEF TypeOK, HostHeartbeat

LEMMA TypeHostRefuse ==
    ASSUME TypeOK, NEW c \in Conns, HostRefuse(c) PROVE TypeOK'
<1>1. HostType'
  BY DEF HostRefuse, TypeOK, HostType
<1>2. WireType'
  BY ConsumeTyped DEF HostRefuse, TypeOK, WireType
<1> QED
  BY <1>1, <1>2, NodeUntouched DEF TypeOK, HostRefuse

LEMMA TypeHostRestart == ASSUME TypeOK, HostRestart PROVE TypeOK'
<1>1. awaiting' \in [Conns -> BOOLEAN]
  BY DEF HostRestart
<1>2. HostType'
  BY <1>1 DEF HostRestart, TypeOK, HostType, NoFlush, Offline
<1>3. WireType'
  BY EmptyTyped DEF HostRestart, TypeOK, WireType
<1> QED
  BY <1>2, <1>3, NodeUntouched DEF TypeOK, HostRestart

LEMMA HoldNext ==
    ASSUME TypeOK, HoldHasBatch, [Next]_vars PROVE HoldHasBatch'
<1>1. ASSUME UNCHANGED nodeVars PROVE HoldHasBatch'
  BY <1>1 DEF HoldHasBatch, nodeVars
<1>2. CASE RaiseEvent \/ RaiseTerminal
  BY <1>2 DEF RaiseEvent, RaiseTerminal, Emit, HoldHasBatch
<1>3. CASE Dial
  BY <1>3 DEF Dial, HoldHasBatch, TypeOK, NodeType
<1>4. CASE OpenChannel
  BY <1>4 DEF OpenChannel, HoldHasBatch
<1>5. CASE SendReady
  <2>1. conn' = conn /\ conn # 0 /\ nodePhase' = "ready"
    BY <1>5 DEF SendReady, HoldHasBatch
  <2>2. ASSUME hold' PROVE inFlight' # 0
    <3>1. PrepareFlush(reconcile) /\ (reconcile \/ inFlight # 0 \/ pending # <<>>)
      BY <1>5, <2>2 DEF SendReady
    <3> QED
      BY <3>1 DEF PrepareFlush, TypeOK, NodeType
  <2> QED
    BY <2>1, <2>2 DEF HoldHasBatch
<1>6. CASE HandleWelcome
  BY <1>6 DEF HandleWelcome, HoldHasBatch
<1>7. CASE HandleAck
  <2>1. conn' = conn /\ nodePhase' = nodePhase
    BY <1>7 DEF HandleAck
  <2>2. hold' => inFlight' = Len(batches) + 1
    BY <1>7 DEF HandleAck
  <2>3. Len(batches) + 1 # 0
    BY DEF TypeOK, NodeType
  <2> QED
    BY <2>1, <2>2, <2>3 DEF HoldHasBatch
<1>8. CASE Heartbeat
  BY <1>1, <1>8 DEF Heartbeat
<1>9. CASE NodeClose \/ NodeExit
  BY <1>9 DEF NodeClose, NodeExit, HoldHasBatch
<1>10. ASSUME NEW c \in Conns, HostStep(c) \/ HostDropLink(c) PROVE HoldHasBatch'
  BY <1>1, <1>10 DEF HostStep, HostDropLink, HostReady, HostBatchEvent, HostLiveEvent,
                     HostFlushed, HostHeartbeat, HostRefuse, HostRefuseEarly
<1>11. CASE HostRestart
  BY <1>1, <1>11 DEF HostRestart
<1>12. CASE UNCHANGED vars
  BY <1>12 DEF vars, HoldHasBatch
<1> QED
  BY <1>2, <1>3, <1>4, <1>5, <1>6, <1>7, <1>8, <1>9, <1>10, <1>11, <1>12
     DEF Next, NodeStep

LEMMA TypeNext ==
    ASSUME ConstantsAssumption, TypeOK, HoldHasBatch, [Next]_vars PROVE TypeOK'
<1>1. CASE NodeStep
  BY <1>1, TypeDial, TypeOpenChannel, TypeSendReady, TypeWelcome, TypeAck DEF NodeStep
<1>2. CASE RaiseEvent \/ RaiseTerminal \/ Heartbeat \/ NodeClose \/ NodeExit
  BY <1>2, TypeRaise, TypeHeartbeat, TypeNodeClose, TypeNodeExit
<1>3. ASSUME NEW c \in Conns, HostStep(c) PROVE TypeOK'
  <2>1. CASE HostRefuseEarly(c)
    BY <2>1, TypeHostClose DEF HostRefuseEarly
  <2> QED
    BY <1>3, <2>1, TypeHostReady, TypeHostBatchEvent, TypeHostLiveEvent,
       TypeHostFlushed, TypeHostHeartbeat, TypeHostRefuse DEF HostStep
<1>4. ASSUME NEW c \in Conns, HostDropLink(c) PROVE TypeOK'
  BY <1>4, TypeHostClose DEF HostDropLink
<1>5. CASE HostRestart
  BY <1>5, TypeHostRestart
<1>6. CASE UNCHANGED vars
  BY <1>6 DEF vars, TypeOK, NodeType, WireType, HostType
<1> QED
  BY <1>1, <1>2, <1>3, <1>4, <1>5, <1>6 DEF Next

\* Every reachable state is well-typed: the outbox never exceeds its capacity
\* and the batch it holds exists, for every capacity, number of events and
\* number of connections.
THEOREM TypeCorrect == Spec => []TypeOK
<1>1. Init => TypeOK /\ HoldHasBatch
  BY ConstantsAssumption, TypeInit, HoldInit
<1>2. TypeOK /\ HoldHasBatch /\ [Next]_vars => TypeOK' /\ HoldHasBatch'
  BY ConstantsAssumption, TypeNext, HoldNext
<1> QED
  BY <1>1, <1>2, PTL DEF Spec

-----------------------------------------------------------------------------
(* What the sequences of the model hold                                    *)

LEMMA ElemsEmpty == Elems(<<>>) = {}
BY DEF Elems

LEMMA ElemsConcat ==
    ASSUME NEW S, NEW s \in Seq(S), NEW t \in Seq(S)
    PROVE  Elems(s \o t) \subseteq Elems(s) \cup Elems(t)
<1>1. ASSUME NEW i \in DOMAIN (s \o t) PROVE (s \o t)[i] \in Elems(s) \cup Elems(t)
  <2>1. /\ i \in 1..(Len(s) + Len(t)) /\ Len(s) \in Nat /\ Len(t) \in Nat
        /\ (s \o t)[i] = IF i <= Len(s) THEN s[i] ELSE t[i - Len(s)]
    BY <1>1, ConcatProperties
  <2>2. CASE i <= Len(s)
    BY <2>1, <2>2 DEF Elems
  <2>3. CASE i > Len(s)
    <3>1. i - Len(s) \in DOMAIN t
      BY <2>1, <2>3
    <3> QED
      BY <2>1, <2>3, <3>1 DEF Elems
  <2> QED
    BY <2>1, <2>2, <2>3
<1> QED
  BY <1>1 DEF Elems

LEMMA ElemsAppend ==
    ASSUME NEW S, NEW s \in Seq(S), NEW x \in S
    PROVE  Elems(Append(s, x)) = Elems(s) \cup {x}
<1>1. /\ DOMAIN Append(s, x) = 1..(Len(s) + 1) /\ Len(s) \in Nat /\ DOMAIN s = 1..Len(s)
      /\ Append(s, x)[Len(s) + 1] = x
      /\ \A i \in 1..Len(s) : Append(s, x)[i] = s[i]
  OBVIOUS
<1>2. 1..(Len(s) + 1) = (1..Len(s)) \cup {Len(s) + 1}
  BY <1>1
<1> QED
  BY <1>1, <1>2 DEF Elems

LEMMA ElemsTail ==
    ASSUME NEW S, NEW s \in Seq(S), s # <<>>
    PROVE  Elems(s) = {Head(s)} \cup Elems(Tail(s))
<1>1. /\ DOMAIN s = 1..Len(s) /\ Len(s) \in Nat /\ Len(s) # 0
      /\ DOMAIN Tail(s) = 1..(Len(s) - 1) /\ Head(s) = s[1]
      /\ \A i \in 1..(Len(s) - 1) : Tail(s)[i] = s[i + 1]
  OBVIOUS
<1>2. \A i \in 1..Len(s) : i = 1 \/ i - 1 \in 1..(Len(s) - 1)
  BY <1>1
<1>3. \A i \in 1..(Len(s) - 1) : i + 1 \in 1..Len(s)
  BY <1>1
<1>4. \A i \in 1..Len(s) : s[i] \in {Head(s)} \cup Elems(Tail(s))
  <2> TAKE i \in 1..Len(s)
  <2>1. CASE i = 1
    BY <1>1, <2>1
  <2>2. CASE i - 1 \in 1..(Len(s) - 1)
    <3>1. Tail(s)[i - 1] = s[i]
      BY <1>1, <2>2
    <3> QED
      BY <1>1, <2>2, <3>1 DEF Elems
  <2> QED
    BY <1>2, <2>1, <2>2
<1>5. Elems(Tail(s)) \subseteq Elems(s)
  BY <1>1, <1>3 DEF Elems
<1>6. Head(s) \in Elems(s)
  BY <1>1 DEF Elems
<1> QED
  BY <1>1, <1>4, <1>5, <1>6 DEF Elems

-----------------------------------------------------------------------------
(* What no step takes back                                                 *)

\* A frozen batch never changes, and what the Host settled stays settled.
BatchesGrow ==
    \A f \in DOMAIN batches : f \in DOMAIN batches' /\ batches'[f] = batches[f]

SettledStays == \A e : Settled(e) => Settled(e)'

LEMMA AppendGrows ==
    ASSUME NodeType, batches' = Append(batches, pending)
    PROVE  BatchesGrow
BY DEF NodeType, BatchesGrow

LEMMA AcceptStores ==
    ASSUME HostType, NEW e \in Events, Accept(e)
    PROVE  e \in Elems(log') /\ Elems(log) \subseteq Elems(log')
<1>1. CASE Stored(e)
  BY <1>1 DEF Accept, Stored
<1>2. CASE ~Stored(e)
  <2>1. log' = Append(log, e)
    BY <1>2 DEF Accept
  <2> QED
    BY <2>1, ElemsAppend DEF HostType
<1> QED
  BY <1>1, <1>2

LEMMA Monotone ==
    ASSUME TypeOK, [Next]_vars PROVE BatchesGrow /\ SettledStays
<1>1. ASSUME UNCHANGED batches PROVE BatchesGrow
  BY <1>1 DEF BatchesGrow
<1>2. ASSUME UNCHANGED <<log, refused>> PROVE SettledStays
  BY <1>2 DEF SettledStays, Settled, Elems
<1>3. CASE SendReady
  <2>1. BatchesGrow
    BY <1>1, <1>3, AppendGrows DEF SendReady, PrepareFlush, TypeOK
  <2> QED
    BY <1>2, <1>3, <2>1 DEF SendReady, hostVars
<1>4. CASE HandleAck
  <2>1. BatchesGrow
    BY <1>1, <1>4, AppendGrows DEF HandleAck, TypeOK
  <2> QED
    BY <1>2, <1>4, <2>1 DEF HandleAck, hostVars
<1>5. CASE RaiseEvent \/ RaiseTerminal \/ Dial \/ OpenChannel \/ HandleWelcome
           \/ Heartbeat \/ NodeClose \/ NodeExit
  BY <1>1, <1>2, <1>5 DEF RaiseEvent, RaiseTerminal, Emit, Dial, OpenChannel, HandleWelcome,
                          Heartbeat, NodeClose, NodeExit, nodeVars, hostVars
<1>6. ASSUME NEW c \in Conns, HostStep(c) PROVE BatchesGrow /\ SettledStays
  <2>1. BatchesGrow
    BY <1>1, <1>6 DEF HostStep, HostReady, HostBatchEvent, HostLiveEvent, HostFlushed,
                      HostHeartbeat, HostRefuse, HostRefuseEarly, nodeVars
  <2>2. CASE HostBatchEvent(c) \/ HostLiveEvent(c)
    <3>1. Head(toHost[c]).ev \in Events
      BY <2>2, ReceiveTyped DEF HostBatchEvent, HostLiveEvent, Receives, TypeOK, FrameType
    <3>2. /\ Elems(log) \subseteq Elems(log') /\ refused \subseteq refused'
      <4>1. CASE UNCHANGED log /\ refused \subseteq refused'
        BY <4>1
      <4>2. CASE Accept(Head(toHost[c]).ev) /\ UNCHANGED refused
        BY <3>1, <4>2, AcceptStores DEF TypeOK
      <4> QED
        BY <2>2, <4>1, <4>2 DEF HostBatchEvent, HostLiveEvent
    <3> QED
      BY <2>1, <3>2 DEF SettledStays, Settled, Elems
  <2>3. CASE HostReady(c) \/ HostFlushed(c) \/ HostHeartbeat(c) \/ HostRefuse(c)
             \/ HostRefuseEarly(c)
    BY <1>2, <2>1, <2>3 DEF HostReady, HostFlushed, HostHeartbeat, HostRefuse, HostRefuseEarly
  <2> QED
    BY <1>6, <2>2, <2>3 DEF HostStep
<1>7. ASSUME NEW c \in Conns, HostDropLink(c) PROVE BatchesGrow /\ SettledStays
  BY <1>1, <1>2, <1>7 DEF HostDropLink, nodeVars
<1>8. CASE HostRestart
  BY <1>1, <1>2, <1>8 DEF HostRestart, nodeVars
<1>9. CASE UNCHANGED vars
  BY <1>1, <1>2, <1>9 DEF vars
<1> QED
  BY <1>3, <1>4, <1>5, <1>6, <1>7, <1>8, <1>9 DEF Next, NodeStep

-----------------------------------------------------------------------------
(* The invariant, one conjunct at a time                                   *)

LEMMA FrameKept ==
    ASSUME TypeOK, BatchesGrow, NEW f, FrameAgrees(f) PROVE FrameAgrees(f)'
BY DEF FrameAgrees, BatchesGrow

\* Reading or losing frames.
LEMMA FramesFewer ==
    ASSUME TypeOK, BatchesGrow, FramesAgree,
           \A c \in Conns : Elems(toHost'[c]) \subseteq Elems(toHost[c])
    PROVE  FramesAgree'
<1> SUFFICES ASSUME NEW c \in Conns, NEW f \in Elems(toHost'[c]) PROVE FrameAgrees(f)'
  BY DEF FramesAgree, Elems
<1> QED
  BY FrameKept DEF FramesAgree

\* Sending frames that agree with the batches.
LEMMA FramesSent ==
    ASSUME TypeOK, BatchesGrow, FramesAgree, NEW fs \in Seq(FrameType), Transmit(fs),
           \A f \in Elems(fs) : FrameAgrees(f)'
    PROVE  FramesAgree'
<1> SUFFICES ASSUME NEW c \in Conns, NEW f \in Elems(toHost'[c]) PROVE FrameAgrees(f)'
  BY DEF FramesAgree, Elems
<1>1. toHost'[c] \in {toHost[c], toHost[c] \o fs}
  BY DEF Transmit, TypeOK, WireType
<1>2. f \in Elems(toHost[c]) \cup Elems(fs)
  BY <1>1, ElemsConcat DEF TypeOK, WireType
<1> QED
  BY <1>2, FrameKept DEF FramesAgree

\* One frame that agrees with the batches.
LEMMA FrameSent ==
    ASSUME TypeOK, BatchesGrow, FramesAgree, NEW f \in FrameType, Transmit(<<f>>),
           FrameAgrees(f)'
    PROVE  FramesAgree'
<1>1. Elems(<<f>>) = {f}
  BY DEF Elems
<1> QED
  BY <1>1, OneFrame, FramesSent

\* The frames flushReconnectOutbox sends agree with the batch it replays.
LEMMA FlushAgrees ==
    ASSUME NEW f \in Nat \ {0}, NEW content \in Seq(Events),
           f \in DOMAIN batches', batches'[f] = content
    PROVE  \A x \in Elems(FlushFrames(f, content)) : FrameAgrees(x)'
<1>1. Len(content) \in Nat
  OBVIOUS
<1>2. DOMAIN FlushFrames(f, content) = 1..(Len(content) + 1)
  BY DEF FlushFrames
<1> SUFFICES ASSUME NEW x \in Elems(FlushFrames(f, content)) PROVE FrameAgrees(x)'
  OBVIOUS
<1>3. PICK i \in 1..(Len(content) + 1) : x = FlushFrames(f, content)[i]
  BY <1>2 DEF Elems
<1>4. CASE i <= Len(content)
  <2>1. x = Frame("event", content[i], f, Len(content), i, TRUE)
    BY <1>3, <1>4 DEF FlushFrames
  <2> QED
    BY <1>1, <1>4, <2>1 DEF FrameAgrees, Frame
<1>5. CASE ~(i <= Len(content))
  <2>1. x = Frame("flushed", 0, f, Len(content), 0, alive)
    BY <1>3, <1>5 DEF FlushFrames
  <2>2. x.kind = "flushed" /\ x.fid = f /\ x.count = Len(content)
    BY <2>1 DEF Frame
  <2> QED
    BY <2>2 DEF FrameAgrees
<1> QED
  BY <1>4, <1>5

LEMMA FramesNext ==
    ASSUME ConstantsAssumption, TypeOK, HoldHasBatch, FramesAgree, [Next]_vars
    PROVE  FramesAgree'
<1>1. BatchesGrow
  BY Monotone
<1>2. ASSUME UNCHANGED toHost PROVE FramesAgree'
  BY <1>1, <1>2, FramesFewer
<1>3. CASE RaiseEvent \/ RaiseTerminal
  <2> DEFINE e == raised + 1
  <2>1. e \in Events /\ Emit(e)
    BY <1>3 DEF RaiseEvent, RaiseTerminal, TypeOK, NodeType, Events, ConstantsAssumption
  <2> HIDE DEF e
  <2>2. CASE Transmit(<<LiveEvent(e)>>)
    <3>1. LiveEvent(e) \in FrameType
      BY <2>1 DEF LiveEvent, Frame, FrameType, Events, Kinds, ConstantsAssumption
    <3>2. PICK f \in FrameType : f = LiveEvent(e)
      BY <3>1
    <3>3. FrameAgrees(f)'
      BY <3>2 DEF FrameAgrees, LiveEvent, Frame
    <3> QED
      BY <1>1, <2>2, <3>2, <3>3, FrameSent
  <2> QED
    BY <1>2, <2>1, <2>2 DEF Emit
<1>4. CASE SendReady
  <2> DEFINE count == IF inFlight' = 0 THEN 0 ELSE Len(batches'[inFlight'])
  <2> DEFINE f == Frame("ready", 0, inFlight', count, 0, alive)
  <2>1. NodeType'
    BY <1>4, TypeSendReady DEF TypeOK
  <2>2. Transmit(<<f>>)
    BY <1>4 DEF SendReady
  <2>3. inFlight' # 0 => inFlight' \in DOMAIN batches'
    BY <2>1 DEF NodeType
  <2>4. /\ inFlight' \in Nat /\ count \in Nat
    <3>1. CASE inFlight' # 0
      <4>1. batches'[inFlight'] \in Seq(Events)
        BY <2>1, <2>3, <3>1 DEF NodeType
      <4> QED
        BY <2>1, <3>1, <4>1 DEF NodeType
    <3> QED
      BY <3>1
  <2>5. f \in FrameType
    <3>1. "ready" \in Kinds \ {"event"} /\ alive \in BOOLEAN
      BY DEF Kinds, TypeOK, NodeType
    <3> QED
      BY <2>4, <3>1, SummaryTyped
  <2>6. ASSUME NEW g, g = f PROVE FrameAgrees(g)'
    <3>1. g.kind = "ready" /\ g.fid = inFlight' /\ g.count = count
      BY <2>6 DEF Frame
    <3> QED
      BY <2>3, <3>1 DEF FrameAgrees
  <2> HIDE DEF f
  <2>7. PICK g \in FrameType : g = f
    BY <2>5
  <2> QED
    BY <1>1, <2>2, <2>6, <2>7, FrameSent
<1>5. CASE HandleWelcome
  <2>1. CASE hold
    <3>1. /\ Transmit(FlushFrames(inFlight, batches[inFlight])) /\ UNCHANGED batches
          /\ inFlight # 0
      BY <1>5, <2>1 DEF HandleWelcome, HoldHasBatch
    <3>2. PICK b \in Nat \ {0}, s \in Seq(Events) : b = inFlight /\ s = batches[inFlight]
      BY <3>1 DEF TypeOK, NodeType
    <3>3. b \in DOMAIN batches' /\ batches'[b] = s
      BY <3>1, <3>2 DEF TypeOK, NodeType
    <3>4. FlushFrames(b, s) \in Seq(FrameType)
      BY FlushFramesTyped DEF TypeOK, NodeType
    <3>5. PICK fs \in Seq(FrameType) : fs = FlushFrames(b, s)
      BY <3>4
    <3>6. \A x \in Elems(fs) : FrameAgrees(x)'
      BY <3>3, <3>5, FlushAgrees
    <3> QED
      BY <1>1, <3>1, <3>2, <3>5, <3>6, FramesSent
  <2> QED
    BY <1>2, <1>5, <2>1 DEF HandleWelcome
<1>6. CASE HandleAck
  <2>1. CASE pending # <<>> /\ batches' = Append(batches, pending)
             /\ inFlight' = Len(batches) + 1 /\ Transmit(FlushFrames(inFlight', pending))
    <3>1. PICK b \in Nat \ {0}, s \in Seq(Events) : b = inFlight' /\ s = pending
      BY <2>1 DEF TypeOK, NodeType
    <3>2. b \in DOMAIN batches' /\ batches'[b] = s
      BY <2>1, <3>1 DEF TypeOK, NodeType
    <3>3. FlushFrames(b, s) \in Seq(FrameType)
      BY FlushFramesTyped DEF TypeOK, NodeType
    <3>4. PICK fs \in Seq(FrameType) : fs = FlushFrames(b, s)
      BY <3>3
    <3>5. \A x \in Elems(fs) : FrameAgrees(x)'
      BY <3>2, <3>4, FlushAgrees
    <3> QED
      BY <1>1, <2>1, <3>1, <3>4, <3>5, FramesSent
  <2> QED
    BY <1>2, <1>6, <2>1 DEF HandleAck
<1>7. CASE Heartbeat
  <2>1. Frame("heartbeat", 0, 0, 0, 0, alive) \in FrameType
    <3>1. "heartbeat" \in Kinds \ {"event"} /\ alive \in BOOLEAN
      BY DEF Kinds, TypeOK, NodeType
    <3> QED
      BY <3>1, SummaryTyped
  <2>2. PICK f \in FrameType : f = Frame("heartbeat", 0, 0, 0, 0, alive)
    BY <2>1
  <2>3. FrameAgrees(f)'
    BY <2>2 DEF FrameAgrees, Frame
  <2> QED
    BY <1>1, <1>7, <2>2, <2>3, FrameSent DEF Heartbeat
<1>8. ASSUME NEW c \in Conns, HostStep(c) \/ HostDropLink(c) PROVE FramesAgree'
  <2>1. CASE HostReady(c)
    <3>1. toHost[c] # <<>> /\ \A d \in Conns : toHost'[d] \in {toHost[d], Tail(toHost[c]), <<>>}
            /\ (toHost'[d] = Tail(toHost[c]) => d = c \/ toHost'[d] \in {toHost[d], <<>>})
      BY <2>1 DEF HostReady, Receives
    <3> QED
      BY <1>1, <3>1, ElemsEmpty, ElemsTail, FramesFewer DEF TypeOK, WireType
  <2>2. CASE HostBatchEvent(c) \/ HostLiveEvent(c) \/ HostFlushed(c) \/ HostHeartbeat(c)
           \/ HostRefuse(c)
    <3>1. toHost[c] # <<>> /\ Consume(c)
      BY <2>2 DEF HostBatchEvent, HostLiveEvent, HostFlushed, HostHeartbeat, HostRefuse,
                  Receives
    <3> QED
      BY <1>1, <3>1, ElemsTail, FramesFewer DEF Consume, TypeOK, WireType
  <2>3. CASE HostRefuseEarly(c) \/ HostDropLink(c)
    <3>1. CloseLink(c)
      BY <2>3 DEF HostRefuseEarly, HostDropLink
    <3> QED
      BY <1>1, <3>1, ElemsEmpty, FramesFewer DEF CloseLink, TypeOK, WireType
  <2> QED
    BY <1>8, <2>1, <2>2, <2>3 DEF HostStep
<1>9. CASE HostRestart
  BY <1>1, <1>9, ElemsEmpty, FramesFewer DEF HostRestart
<1>10. CASE Dial \/ OpenChannel \/ NodeClose \/ NodeExit \/ UNCHANGED vars
  BY <1>2, <1>10 DEF Dial, OpenChannel, NodeClose, NodeExit, vars
<1> QED
  BY <1>3, <1>4, <1>5, <1>6, <1>7, <1>8, <1>9, <1>10 DEF Next, NodeStep

LEMMA CountedKept ==
    ASSUME TypeOK, BatchesGrow, SettledStays, NEW fl \in [fid: Nat, count: Nat, next: Nat],
           Counted(fl)
    PROVE  Counted(fl)'
<1>1. CASE fl.fid = 0
  BY <1>1 DEF Counted, NoFlush
<1>2. CASE fl.fid # 0
  <2>1. /\ fl.fid \in DOMAIN batches' /\ batches'[fl.fid] = batches[fl.fid]
        /\ fl.count = Len(batches[fl.fid]) /\ fl.next <= fl.count
    BY <1>2 DEF Counted, BatchesGrow
  <2>2. ASSUME NEW i \in 1..fl.next PROVE Settled(batches[fl.fid][i])'
    <3>1. PICK e : e = batches[fl.fid][i]
      OBVIOUS
    <3>2. Settled(e)
      BY <1>2, <2>2, <3>1 DEF Counted
    <3>3. Settled(e)'
      BY <3>2 DEF SettledStays
    <3> QED
      BY <2>1, <3>1, <3>3 DEF Settled
  <2> QED
    BY <1>2, <2>1, <2>2 DEF Counted
<1> QED
  BY <1>1, <1>2

\* A connection without a batch counts nothing.
LEMMA CountedNone == Counted(NoFlush) /\ Counted(NoFlush)'
BY DEF Counted, NoFlush

\* Every connection keeps its count, or stops counting.
LEMMA FlushKept ==
    ASSUME TypeOK, BatchesGrow, SettledStays, FlushStored,
           \A c \in Conns : flush'[c] \in {flush[c], NoFlush}
    PROVE  FlushStored'
<1> SUFFICES ASSUME NEW c \in Conns PROVE Counted(flush[c])'
  BY DEF FlushStored
<1>1. PICK fl : fl = flush'[c]
  OBVIOUS
<1>2. Counted(fl)'
  <2>1. CASE fl = flush[c]
    BY <2>1, CountedKept DEF FlushStored, TypeOK, HostType
  <2>2. CASE fl = NoFlush
    BY <2>2 DEF Counted, NoFlush
  <2> QED
    BY <1>1, <2>1, <2>2
<1> QED
  BY <1>1, <1>2 DEF Counted, Settled

LEMMA FlushNext ==
    ASSUME ConstantsAssumption, TypeOK, FramesAgree, FlushStored, [Next]_vars
    PROVE  FlushStored'
<1>1. BatchesGrow /\ SettledStays
  BY Monotone
<1>2. ASSUME UNCHANGED flush PROVE FlushStored'
  BY <1>1, <1>2, FlushKept
<1>3. ASSUME NEW c \in Conns, HostReady(c) PROVE FlushStored'
  <2> DEFINE frame == Head(toHost[c])
  <2>1. frame \in FrameType /\ frame.kind = "ready" /\ FrameAgrees(frame)
    <3>1. toHost[c] # <<>> /\ frame.kind = "ready"
      BY <1>3 DEF HostReady, Receives
    <3>2. frame \in Elems(toHost[c])
      BY <3>1, ElemsTail DEF TypeOK, WireType
    <3> QED
      BY <3>1, <3>2, ReceiveTyped DEF FramesAgree, TypeOK
  <2> SUFFICES ASSUME NEW d \in Conns PROVE Counted(flush[d])'
    BY DEF FlushStored
  <2>2. PICK fl : fl = flush'[d]
    OBVIOUS
  <2>3. CASE fl = NoFlush
    BY <2>2, <2>3 DEF Counted, NoFlush
  <2>4. CASE d = c /\ frame.fid # 0
    <3>1. fl = [fid |-> frame.fid, count |-> frame.count, next |-> 0]
      BY <1>3, <2>2, <2>4 DEF HostReady
    <3>2. /\ frame.fid \in DOMAIN batches' /\ frame.count = Len(batches'[frame.fid])
          /\ frame.count \in Nat
      BY <1>1, <2>1, <2>4 DEF FrameAgrees, BatchesGrow, FrameType
    <3>3. /\ fl.fid \in DOMAIN batches' /\ fl.fid # 0 /\ fl.count = Len(batches'[fl.fid])
          /\ fl.next <= fl.count /\ 1..fl.next = {}
      BY <2>4, <3>1, <3>2
    <3> QED
      BY <2>2, <3>3 DEF Counted
  <2> QED
    BY <1>3, <2>2, <2>3, <2>4 DEF HostReady
<1>4. ASSUME NEW c \in Conns, HostBatchEvent(c) PROVE FlushStored'
  <2> DEFINE frame == Head(toHost[c])
  <2>1. PICK f : f = frame
    OBVIOUS
  <2>2. f \in FrameType /\ f.kind = "event" /\ FrameAgrees(f) /\ f.fid # 0
    <3>1. toHost[c] # <<>> /\ f.kind = "event" /\ f.fid # 0
      BY <1>4, <2>1 DEF HostBatchEvent, Receives
    <3>2. f \in Elems(toHost[c])
      BY <2>1, <3>1, ElemsTail DEF TypeOK, WireType
    <3> QED
      BY <2>1, <3>1, <3>2, ReceiveTyped DEF FramesAgree, TypeOK
  <2>3. Settled(f.ev)'
    <3>1. CASE refused' = refused \cup {f.ev}
      BY <3>1 DEF Settled
    <3>2. CASE Accept(f.ev)
      BY <2>2, <3>2, AcceptStores DEF Settled, TypeOK, FrameType, Elems
    <3> QED
      BY <1>4, <2>1, <3>1, <3>2 DEF HostBatchEvent
  <2>4. /\ f.fid \in DOMAIN batches' /\ batches'[f.fid] = batches[f.fid]
        /\ f.count = Len(batches[f.fid]) /\ f.index \in 1..f.count
        /\ f.ev = batches[f.fid][f.index]
    BY <1>1, <2>2 DEF FrameAgrees, BatchesGrow
  <2>5. ASSUME NEW i \in 1..f.index PROVE Settled(batches[f.fid][i])'
    <3>1. PICK e : e = batches[f.fid][i]
      OBVIOUS
    <3>2. CASE i = f.index
      <4>1. e = f.ev
        BY <2>4, <3>1, <3>2
      <4> QED
        BY <2>3, <2>4, <3>1, <4>1 DEF Settled
    <3>3. CASE i # f.index
      <4>1. InPosition(c, f)
        BY <1>4, <2>1 DEF HostBatchEvent
      <4>2. /\ flush[c] \in [fid: Nat, count: Nat, next: Nat]
            /\ i \in Nat /\ i >= 1 /\ i < f.index /\ f.index \in Nat
        BY <2>2, <3>3 DEF TypeOK, HostType, FrameType
      <4>3. flush[c] # NoFlush
        <5>1. flush[c] = NoFlush => f.index = 0 + 1
          BY <4>1 DEF InPosition, Tracked
        <5> QED
          BY <4>2, <5>1
      <4>4. flush[c].fid = f.fid /\ f.index = flush[c].next + 1
        BY <4>1, <4>3 DEF InPosition, Tracked
      <4>5. i \in 1..flush[c].next
        BY <4>2, <4>4
      <4>6. Counted(flush[c])
        BY DEF FlushStored
      <4>7. Settled(e)
        BY <2>2, <3>1, <4>4, <4>5, <4>6 DEF Counted
      <4> QED
        BY <1>1, <2>4, <3>1, <4>7 DEF SettledStays, Settled
    <3> QED
      BY <3>2, <3>3
  <2> SUFFICES ASSUME NEW d \in Conns PROVE Counted(flush[d])'
    BY DEF FlushStored
  <2>6. PICK fl : fl = flush'[d]
    OBVIOUS
  <2>7. CASE d = c
    <3>1. fl = [fid |-> f.fid, count |-> f.count, next |-> f.index]
      BY <1>4, <2>1, <2>6, <2>7 DEF HostBatchEvent, TypeOK, HostType
    <3>2. fl.fid = f.fid /\ fl.count = f.count /\ fl.next = f.index /\ f.index <= f.count
      BY <2>2, <2>4, <3>1 DEF FrameType
    <3>3. Counted(fl)'
      BY <2>2, <2>4, <2>5, <3>2 DEF Counted
    <3> QED
      BY <2>6, <3>3 DEF Counted, Settled
  <2>8. CASE d # c
    <3>1. fl = flush[d]
      BY <1>4, <2>6, <2>8 DEF HostBatchEvent, TypeOK, HostType
    <3>2. Counted(fl)'
      BY <1>1, <3>1, CountedKept DEF FlushStored, TypeOK, HostType
    <3> QED
      BY <2>6, <3>2 DEF Counted, Settled
  <2> QED
    BY <2>7, <2>8
<1>5. ASSUME NEW c \in Conns, HostFlushed(c) \/ HostRefuseEarly(c) \/ HostDropLink(c)
      PROVE  FlushStored'
  <2>1. flush' = [flush EXCEPT ![c] = NoFlush]
    BY <1>5 DEF HostFlushed, HostRefuseEarly, HostDropLink, CloseLink
  <2> QED
    BY <1>1, <2>1, FlushKept DEF TypeOK, HostType
<1>6. CASE HostRestart
  BY <1>1, <1>6, FlushKept DEF HostRestart
<1>7. ASSUME NEW c \in Conns, HostLiveEvent(c) \/ HostHeartbeat(c) \/ HostRefuse(c)
      PROVE  FlushStored'
  BY <1>2, <1>7 DEF HostLiveEvent, HostHeartbeat, HostRefuse
<1>8. CASE RaiseEvent \/ RaiseTerminal \/ NodeStep \/ Heartbeat \/ NodeClose \/ NodeExit
           \/ UNCHANGED vars
  BY <1>2, <1>8 DEF RaiseEvent, RaiseTerminal, Emit, NodeStep, Dial, OpenChannel, SendReady,
       HandleWelcome, HandleAck, Heartbeat, NodeClose, NodeExit, hostVars, vars
<1> QED
  BY <1>3, <1>4, <1>5, <1>6, <1>7, <1>8 DEF Next, HostStep

LEMMA AckKept ==
    ASSUME TypeOK, BatchesGrow, SettledStays, NEW f, AckMeans(f) PROVE AckMeans(f)'
<1> SUFFICES ASSUME f.kind = "ack", f.fid # 0
             PROVE  /\ f.fid \in DOMAIN batches'
                    /\ \A e \in Elems(batches'[f.fid]) : Settled(e)'
  BY DEF AckMeans, Elems
<1>1. /\ f.fid \in DOMAIN batches' /\ batches'[f.fid] = batches[f.fid]
      /\ \A e \in Elems(batches[f.fid]) : Settled(e)
  BY DEF AckMeans, BatchesGrow
<1> QED
  BY <1>1 DEF SettledStays

\* Reading or losing acknowledgments.
LEMMA AckFewer ==
    ASSUME TypeOK, BatchesGrow, SettledStays, AckStored,
           \A c \in Conns : Elems(toNode'[c]) \subseteq Elems(toNode[c])
    PROVE  AckStored'
<1> SUFFICES ASSUME NEW c \in Conns, NEW f \in Elems(toNode'[c]) PROVE AckMeans(f)'
  BY DEF AckStored, Elems
<1> QED
  BY AckKept DEF AckStored

\* Telling the Node something that is justified.
LEMMA AckSent ==
    ASSUME TypeOK, BatchesGrow, SettledStays, AckStored, NEW c \in Conns,
           NEW frame \in FrameType, Tell(c, frame), AckMeans(frame)'
    PROVE  AckStored'
<1> SUFFICES ASSUME NEW d \in Conns, NEW f \in Elems(toNode'[d]) PROVE AckMeans(f)'
  BY DEF AckStored, Elems
<1>1. toNode'[d] \in {toNode[d], Append(toNode[d], frame)}
  BY DEF Tell, TypeOK, WireType
<1>2. f \in Elems(toNode[d]) \cup {frame}
  BY <1>1, ElemsAppend DEF TypeOK, WireType
<1> QED
  BY <1>2, AckKept DEF AckStored

LEMMA AckNext ==
    ASSUME ConstantsAssumption, TypeOK, HoldHasBatch, FlushStored, AckStored, [Next]_vars
    PROVE  AckStored'
<1>1. BatchesGrow /\ SettledStays
  BY Monotone
<1>2. ASSUME UNCHANGED toNode PROVE AckStored'
  BY <1>1, <1>2, AckFewer
<1>3. ASSUME NEW c \in Conns, HostReady(c) PROVE AckStored'
  <2>1. Frame("welcome", 0, 0, 0, 0, TRUE) \in FrameType
    BY ReplyTyped DEF Kinds
  <2>2. PICK f \in FrameType : f = Frame("welcome", 0, 0, 0, 0, TRUE)
    BY <2>1
  <2>3. AckMeans(f)'
    BY <2>2 DEF AckMeans, Frame
  <2> QED
    BY <1>1, <1>3, <2>2, <2>3, AckSent DEF HostReady
<1>4. ASSUME NEW c \in Conns, HostFlushed(c) PROVE AckStored'
  <2>1. PICK g \in FrameType : g = Head(toHost[c])
    BY <1>4, ReceiveTyped DEF HostFlushed, Receives, TypeOK
  <2>2. /\ flush[c] = [fid |-> g.fid, count |-> g.count, next |-> g.count]
        /\ Tell(c, Frame("ack", 0, g.fid, 0, 0, TRUE))
    BY <1>4, <2>1 DEF HostFlushed
  <2>3. Frame("ack", 0, g.fid, 0, 0, TRUE) \in FrameType
    <3>1. "ack" \in Kinds \ {"event"} /\ g.fid \in Nat
      BY <2>1 DEF Kinds, FrameType
    <3> QED
      BY <3>1, ReplyTyped
  <2>4. PICK f \in FrameType : f = Frame("ack", 0, g.fid, 0, 0, TRUE)
    BY <2>3
  <2>5. AckMeans(f)
    <3> SUFFICES ASSUME f.fid # 0
                 PROVE  /\ f.fid \in DOMAIN batches
                        /\ \A e \in Elems(batches[f.fid]) : Settled(e)
      BY DEF AckMeans
    <3>1. f.fid = g.fid /\ Counted(flush[c])
      BY <2>4 DEF Frame, FlushStored
    <3>2. /\ f.fid \in DOMAIN batches
          /\ \A i \in 1..Len(batches[f.fid]) : Settled(batches[f.fid][i])
      BY <2>2, <3>1 DEF Counted
    <3>3. DOMAIN batches[f.fid] = 1..Len(batches[f.fid])
      BY <3>2 DEF TypeOK, NodeType
    <3> QED
      BY <3>2, <3>3 DEF Elems
  <2> QED
    BY <1>1, <2>2, <2>4, <2>5, AckKept, AckSent
<1>5. ASSUME NEW c \in Conns, HostBatchEvent(c) \/ HostLiveEvent(c) \/ HostHeartbeat(c)
                              \/ HostRefuse(c) \/ HostRefuseEarly(c) \/ HostDropLink(c)
      PROVE  AckStored'
  BY <1>2, <1>5 DEF HostBatchEvent, HostLiveEvent, HostHeartbeat, HostRefuse, HostRefuseEarly,
                    HostDropLink
<1>6. CASE HandleWelcome \/ HandleAck
  <2>1. conn \in Conns /\ toNode[conn] # <<>> /\ toNode' = [toNode EXCEPT ![conn] = Tail(@)]
    BY <1>6 DEF HandleWelcome, HandleAck, HoldHasBatch, TypeOK, NodeType, Conns,
                ConstantsAssumption
  <2> QED
    BY <1>1, <2>1, ElemsTail, AckFewer DEF TypeOK, WireType
<1>7. CASE NodeClose \/ NodeExit
  <2>1. toNode' = [toNode EXCEPT ![conn] = <<>>]
    BY <1>7 DEF NodeClose, NodeExit
  <2> QED
    BY <1>1, <2>1, ElemsEmpty, AckFewer DEF TypeOK, WireType
<1>8. CASE RaiseEvent \/ RaiseTerminal \/ Dial \/ OpenChannel \/ SendReady \/ Heartbeat
           \/ HostRestart \/ UNCHANGED vars
  BY <1>2, <1>8 DEF RaiseEvent, RaiseTerminal, Emit, Dial, OpenChannel, SendReady, Heartbeat,
                    HostRestart, vars
<1> QED
  BY <1>3, <1>4, <1>5, <1>6, <1>7, <1>8 DEF Next, NodeStep, HostStep

LEMMA HeldNext ==
    ASSUME ConstantsAssumption, TypeOK, HoldHasBatch, AckStored, NothingHeldIsLost, [Next]_vars
    PROVE  NothingHeldIsLost'
<1>1. BatchesGrow /\ SettledStays
  BY Monotone
<1> USE DEF Retained
<1>2. CASE RaiseEvent \/ RaiseTerminal
  <2> DEFINE e == raised + 1
  <2>1. e \in Events /\ Emit(e)
    BY <1>2 DEF RaiseEvent, RaiseTerminal, TypeOK, NodeType, Events, ConstantsAssumption
  <2> HIDE DEF e
  <2>2. UNCHANGED <<batches, inFlight, nodePhase>>
    BY <2>1 DEF Emit
  <2>3. CASE UNCHANGED <<pending, dropped, held>>
    BY <1>1, <2>2, <2>3 DEF NothingHeldIsLost, SettledStays, Elems
  <2>4. CASE Add(e)
    <3>1. CASE Len(pending) = Capacity
      <4>1. /\ pending' = Append(Tail(pending), e) /\ dropped' = dropped \cup {Head(pending)}
            /\ held' = held \cup {e}
        BY <2>4, <3>1 DEF Add
      <4>2. pending # <<>>
        BY <3>1 DEF ConstantsAssumption
      <4>3. Elems(pending') = Elems(Tail(pending)) \cup {e}
        <5>1. PICK rest \in Seq(Events) : rest = Tail(pending)
          <6>1. pending \in Seq(Events)
            BY DEF TypeOK, NodeType
          <6>2. Tail(pending) \in Seq(Events)
            BY <4>2, <6>1, HeadTailProperties
          <6> QED
            BY <6>2
        <5>2. Elems(Append(rest, e)) = Elems(rest) \cup {e}
          BY <2>1, ElemsAppend
        <5> QED
          BY <4>1, <5>1, <5>2
      <4>4. Elems(pending) = {Head(pending)} \cup Elems(Tail(pending))
        BY <4>2, ElemsTail DEF TypeOK, NodeType
      <4>5. ASSUME nodePhase # "exited", NEW x \in held, x \notin dropped',
                   x \in Elems(pending)
            PROVE  x \in Elems(pending')
        BY <4>1, <4>3, <4>4, <4>5
      <4>6. Elems(batches[inFlight])' = Elems(batches[inFlight])
        BY <2>2 DEF Elems
      <4> HIDE DEF Retained
      <4>7. ASSUME nodePhase # "exited", NEW x \in held, x \notin dropped', ~Settled(x)
            PROVE  x \in Retained'
        <5>1. x \in Elems(pending) \/ (inFlight # 0 /\ x \in Elems(batches[inFlight]))
          BY <4>1, <4>7 DEF NothingHeldIsLost, Retained
        <5> QED
          BY <2>2, <4>5, <4>6, <4>7, <5>1 DEF Retained, Elems
      <4>8. e \in Retained'
        BY <4>3 DEF Retained, Elems
      <4> QED
        BY <1>1, <2>2, <4>1, <4>7, <4>8 DEF NothingHeldIsLost, SettledStays
    <3>2. CASE Len(pending) # Capacity
      <4>1. pending' = Append(pending, e) /\ dropped' = dropped /\ held' = held \cup {e}
        BY <2>4, <3>2 DEF Add
      <4>2. Elems(pending') = Elems(pending) \cup {e}
        BY <2>1, <4>1, ElemsAppend DEF TypeOK, NodeType
      <4> QED
        BY <1>1, <2>2, <4>1, <4>2 DEF NothingHeldIsLost, SettledStays, Elems
    <3> QED
      BY <3>1, <3>2
  <2> QED
    BY <2>1, <2>3, <2>4 DEF Emit
<1>3. ASSUME batches' = Append(batches, pending), inFlight' = Len(batches) + 1, pending' = <<>>
      PROVE  inFlight' # 0 /\ Elems(pending) = Elems(batches'[inFlight'])
  BY <1>3 DEF TypeOK, NodeType
<1>4. CASE SendReady
  <2>1. nodePhase # "exited" /\ UNCHANGED <<held, dropped>>
    BY <1>4 DEF SendReady
  <2>2. CASE UNCHANGED <<batches, inFlight, pending>>
    BY <1>1, <2>1, <2>2 DEF NothingHeldIsLost, SettledStays, Elems
  <2>3. CASE inFlight = 0 /\ batches' = Append(batches, pending)
             /\ inFlight' = Len(batches) + 1 /\ pending' = <<>>
    BY <1>1, <1>3, <2>1, <2>3 DEF NothingHeldIsLost, SettledStays, Elems
  <2> QED
    BY <1>4, <2>2, <2>3 DEF SendReady, PrepareFlush
<1>5. CASE HandleAck
  <2>1. nodePhase # "exited" /\ UNCHANGED <<held, dropped>>
    BY <1>5 DEF HandleAck
  <2>2. \A e \in Elems(batches[inFlight]) : Settled(e)
    <3>1. /\ toNode[conn] # <<>> /\ Head(toNode[conn]).kind = "ack" /\ inFlight # 0
          /\ Head(toNode[conn]).fid = inFlight /\ conn \in Conns
      BY <1>5 DEF HandleAck, HoldHasBatch, TypeOK, NodeType, Conns, ConstantsAssumption
    <3>2. Head(toNode[conn]) \in Elems(toNode[conn])
      BY <3>1, ElemsTail DEF TypeOK, WireType
    <3> QED
      BY <3>1, <3>2 DEF AckStored, AckMeans
  <2>3. CASE batches' = Append(batches, pending) /\ inFlight' = Len(batches) + 1
             /\ pending' = <<>>
    BY <1>1, <1>3, <2>1, <2>2, <2>3 DEF NothingHeldIsLost, SettledStays, Elems
  <2>4. CASE pending = <<>> /\ inFlight' = 0 /\ UNCHANGED <<batches, pending>>
    BY <1>1, <2>1, <2>2, <2>4 DEF NothingHeldIsLost, SettledStays, Elems
  <2> QED
    BY <1>5, <2>3, <2>4 DEF HandleAck
<1>6. CASE NodeExit
  BY <1>6 DEF NodeExit, NothingHeldIsLost
<1>7. ASSUME UNCHANGED <<pending, batches, inFlight, dropped, held>>,
             nodePhase' # "exited" => nodePhase # "exited"
      PROVE  NothingHeldIsLost'
  BY <1>1, <1>7 DEF NothingHeldIsLost, SettledStays, Elems
<1>8. CASE Dial \/ OpenChannel \/ HandleWelcome \/ Heartbeat \/ NodeClose \/ UNCHANGED vars
  BY <1>7, <1>8 DEF Dial, OpenChannel, HandleWelcome, Heartbeat, NodeClose, nodeVars, vars
<1>9. ASSUME NEW c \in Conns, HostStep(c) \/ HostDropLink(c) PROVE NothingHeldIsLost'
  BY <1>7, <1>9 DEF HostStep, HostDropLink, HostReady, HostBatchEvent, HostLiveEvent,
                    HostFlushed, HostHeartbeat, HostRefuse, HostRefuseEarly, nodeVars
<1>10. CASE HostRestart
  BY <1>7, <1>10 DEF HostRestart, nodeVars
<1> QED
  BY <1>2, <1>4, <1>5, <1>6, <1>8, <1>9, <1>10 DEF Next, NodeStep

LEMMA IInvInit == ASSUME ConstantsAssumption, Init PROVE IInv
<1>1. FramesAgree /\ AckStored
  BY ElemsEmpty DEF Init, FramesAgree, AckStored
<1>2. FlushStored
  BY CountedNone DEF Init, FlushStored
<1>3. NothingHeldIsLost
  BY DEF Init, NothingHeldIsLost
<1> QED
  BY <1>1, <1>2, <1>3, HoldInit DEF IInv

\* For every capacity, number of events and number of connections: an event
\* the outbox took is stored or refused by the Host, still held, or was dropped
\* by the capacity bound, whatever broke in between.
THEOREM HeldIsSafe == Spec => []NothingHeldIsLost
<1>1. Init => TypeOK /\ IInv
  BY ConstantsAssumption, TypeInit, IInvInit
<1>2. TypeOK /\ IInv /\ [Next]_vars => TypeOK' /\ IInv'
  BY ConstantsAssumption, TypeNext, HoldNext, FramesNext, FlushNext, AckNext, HeldNext DEF IInv
<1>3. IInv => NothingHeldIsLost
  BY DEF IInv
<1> QED
  BY <1>1, <1>2, <1>3, PTL DEF Spec

-----------------------------------------------------------------------------
(* Both ends mean the same batch.  A batch is followed frame by frame: in  *)
(* which order its frames may stand on a connection (InOrder), and what    *)
(* the Node, the wire and the Host may be at together on the Node's latest *)
(* connection (InStep).                                                    *)

Live(f) == f.kind = "event" /\ f.fid = 0
Batched(f) == f.kind = "flushed" \/ (f.kind = "event" /\ f.fid # 0)
Beat(f) == f.kind = "heartbeat"
Pos(f) == IF f.kind = "event" THEN f.index ELSE f.count + 1
At(f, n) == [fid |-> f.fid, count |-> f.count, next |-> n]

\* The first frame of a batch comes behind nothing but heartbeats; any other
\* comes right behind its predecessor, or behind what the Host has counted.
Starts(s, i, fl) ==
    /\ \A j \in DOMAIN s : j < i => Beat(s[j])
    /\ (fl = NoFlush /\ s[i].kind = "event") \/ fl = At(s[i], 0)

Follows(s, i, fl) ==
    IF i = 1 THEN fl = At(s[1], Pos(s[1]) - 1)
    ELSE s[i - 1].kind = "event" /\ At(s[i - 1], s[i - 1].index) = At(s[i], Pos(s[i]) - 1)

InOrder(s, fl) ==
    /\ \A i \in DOMAIN s : Live(s[i]) => fl = NoFlush /\ \A j \in DOMAIN s : ~Batched(s[j])
    /\ \A i \in DOMAIN s : Batched(s[i]) =>
           IF Pos(s[i]) = 1 THEN Starts(s, i, fl) ELSE Follows(s, i, fl)
    /\ \A i, j \in DOMAIN s : i < j /\ s[i].kind = "flushed" => Beat(s[j])

\* Nothing but heartbeats follows an inventory that announces a batch, and no
\* batch comes ahead of it.
Announced(s) ==
    /\ \A i \in DOMAIN s : ~Batched(s[i])
    /\ \A i, j \in DOMAIN s : i < j /\ s[i].kind = "ready" =>
           s[j].kind # "ready" /\ (s[i].fid # 0 => Beat(s[j]))

\* What each connection is like, whether the Node has moved on or not.
Unused(c) ==
    /\ c > conn => hostPhase[c] = "none"
    /\ hostPhase[c] = "none" => toHost[c] = <<>>
    /\ hostPhase[c] \in {"none", "inventory"} => toNode[c] = <<>> /\ flush[c] = NoFlush

Kinded(c) ==
    /\ \A f \in Elems(toHost[c]) : /\ f.kind \in {"ready", "event", "flushed", "heartbeat"}
                                   /\ f.kind = "flushed" => f.fid # 0
    /\ \A f \in Elems(toNode[c]) : f.kind \in {"welcome", "ack"}
    /\ flush[c] # NoFlush => awaiting[c] /\ flush[c].fid # 0

Lined(c) ==
    /\ hostPhase[c] = "inventory" => Announced(toHost[c])
    /\ hostPhase[c] = "accepted" => InOrder(toHost[c], flush[c])

\* What the Node's latest connection is like while it is open.
Open == nodePhase \notin {"closed", "exited"}
Accepted == hostPhase[conn] = "accepted"
Quiet == \A f \in Elems(toHost[conn]) : Beat(f)
NoAck == \A f \in Elems(toNode[conn]) : f.kind # "ack"

Phases ==
    /\ nodePhase = "dialing" => hostPhase[conn] = "none"
    /\ nodePhase = "channel" => /\ hostPhase[conn] \notin {"none", "accepted"}
                                /\ \A f \in Elems(toHost[conn]) : f.kind # "ready"
    /\ nodePhase = "ready" => hostPhase[conn] # "none"
    /\ nodePhase = "welcomed" => hostPhase[conn] \notin {"none", "inventory"}

\* The inventory announces what the Node holds.
Announces ==
    nodePhase = "ready" => \A f \in Elems(toHost[conn]) :
                               f.kind = "ready" => f.fid = IF hold THEN inFlight ELSE 0

\* From the announcement to the welcome, the Host waits for the first frame.
Expecting ==
    nodePhase = "ready" /\ Accepted /\ hold =>
        Quiet /\ flush[conn] = [fid |-> inFlight, count |-> Len(batches[inFlight]), next |-> 0]

\* During the replay no acknowledgment is on its way.
Replaying ==
    Accepted => \A f \in Elems(toHost[conn]) : Batched(f) =>
                    nodePhase = "welcomed" /\ hold /\ f.fid = inFlight /\ NoAck

\* Events are held back for as long as the Host counts.
Holding == Accepted /\ flush[conn] # NoFlush => hold

\* Behind the batch comes its acknowledgment, once, and nothing else is counted.
Acknowledging ==
    \A i \in DOMAIN toNode[conn] : toNode[conn][i].kind = "ack" =>
        /\ nodePhase = "welcomed" /\ hold /\ inFlight # 0 /\ toNode[conn][i].fid = inFlight
        /\ \A j \in DOMAIN toNode[conn] : toNode[conn][j].kind = "ack" => i = j
        /\ Accepted => Quiet /\ flush[conn] = NoFlush

InStep == Open => Phases /\ Announces /\ Expecting /\ Replaying /\ Holding /\ Acknowledging

Line(c) == Unused(c) /\ Kinded(c) /\ Lined(c)
Lines == \A c \in Conns : Line(c)
BatchInv == Lines /\ InStep

\* What is left when the Host has read a frame, and counted it if it is of a batch.
LEMMA OrderRead ==
    ASSUME NEW s \in Seq(FrameType), s # <<>>, NEW fl, InOrder(s, fl), NEW after,
           \/ ~Batched(Head(s)) /\ after = fl
           \/ Head(s).kind = "event" /\ Head(s).fid # 0 /\ after = At(Head(s), Head(s).index)
           \/ Head(s).kind = "flushed" /\ after = NoFlush
    PROVE  InOrder(Tail(s), after)
<1> DEFINE t == Tail(s)
<1>1. /\ Len(s) \in Nat \ {0} /\ DOMAIN s = 1..Len(s) /\ DOMAIN t = 1..(Len(s) - 1)
      /\ \A i \in DOMAIN t : t[i] = s[i + 1] /\ i + 1 \in DOMAIN s
      /\ 1 \in DOMAIN s /\ Head(s) = s[1]
  OBVIOUS
<1> HIDE DEF t
<1>2. ASSUME NEW i \in DOMAIN t, Live(t[i])
      PROVE  after = NoFlush /\ \A j \in DOMAIN t : ~Batched(t[j])
  <2>1. fl = NoFlush /\ \A j \in DOMAIN s : ~Batched(s[j])
    BY <1>1, <1>2 DEF InOrder
  <2> QED
    BY <1>1, <2>1 DEF Batched
<1>3. ASSUME NEW i \in DOMAIN t, Batched(t[i]), Pos(t[i]) = 1 PROVE Starts(t, i, after)
  <2>1. Starts(s, i + 1, fl)
    BY <1>1, <1>3 DEF InOrder
  <2>2. Beat(s[1])
    BY <1>1, <2>1 DEF Starts
  <2>3. after = fl
    BY <1>1, <2>2 DEF Beat, Batched
  <2> QED
    BY <1>1, <2>1, <2>3 DEF Starts
<1>4. ASSUME NEW i \in DOMAIN t, Batched(t[i]), Pos(t[i]) # 1 PROVE Follows(t, i, after)
  <2>1. Follows(s, i + 1, fl)
    BY <1>1, <1>4 DEF InOrder
  <2>2. /\ s[i].kind = "event" /\ At(s[i], s[i].index) = At(s[i + 1], Pos(s[i + 1]) - 1)
        /\ i \in DOMAIN s
    BY <1>1, <2>1 DEF Follows
  <2>3. CASE i = 1
    <3>1. ~Live(s[1])
      BY <1>1, <1>4 DEF InOrder
    <3>2. after = At(s[1], s[1].index)
      BY <1>1, <2>2, <2>3, <3>1 DEF Live, Batched
    <3> QED
      BY <1>1, <2>2, <2>3, <3>2 DEF Follows
  <2>4. CASE i # 1
    <3>1. t[i - 1] = s[i]
      BY <1>1, <2>4
    <3> QED
      BY <1>1, <2>2, <2>4, <3>1 DEF Follows
  <2> QED
    BY <2>3, <2>4
<1>5. ASSUME NEW i \in DOMAIN t, NEW j \in DOMAIN t, i < j, t[i].kind = "flushed"
      PROVE  Beat(t[j])
  <2>1. i + 1 < j + 1
    BY <1>1, <1>5
  <2> QED
    BY <1>1, <1>5, <2>1 DEF InOrder
<1>6. InOrder(t, after)
  BY <1>2, <1>3, <1>4, <1>5 DEF InOrder
<1> QED
  BY <1>6 DEF t

\* A frame behind others.
LEMMA Behind ==
    ASSUME NEW s \in Seq(FrameType), NEW f \in FrameType
    PROVE  LET t == s \o <<f>>
           IN  /\ Len(s) \in Nat /\ DOMAIN s = 1..Len(s) /\ DOMAIN t = 1..(Len(s) + 1)
               /\ \A i \in DOMAIN s : t[i] = s[i]
               /\ t[Len(s) + 1] = f
               /\ Elems(t) = Elems(s) \cup {f}
<1> DEFINE t == s \o <<f>>
<1>1. /\ Len(s) \in Nat /\ DOMAIN s = 1..Len(s) /\ DOMAIN t = 1..(Len(s) + 1)
      /\ \A i \in DOMAIN s : t[i] = s[i]
      /\ t[Len(s) + 1] = f
  OBVIOUS
<1> HIDE DEF t
<1>2. Elems(t) = Elems(s) \cup {f}
  <2>1. \A i \in DOMAIN t : i \in DOMAIN s \/ i = Len(s) + 1
    BY <1>1
  <2> QED
    BY <1>1, <2>1 DEF Elems
<1> QED
  BY <1>1, <1>2 DEF t

\* A heartbeat may stand anywhere.
LEMMA OrderBeat ==
    ASSUME NEW s \in Seq(FrameType), NEW fl, InOrder(s, fl), NEW f \in FrameType, Beat(f)
    PROVE  InOrder(s \o <<f>>, fl)
<1> DEFINE t == s \o <<f>>
<1>1. /\ Len(s) \in Nat /\ DOMAIN s = 1..Len(s) /\ DOMAIN t = 1..(Len(s) + 1)
      /\ \A i \in DOMAIN s : t[i] = s[i]
      /\ t[Len(s) + 1] = f
  BY Behind
<1>2. ~Live(f) /\ ~Batched(f) /\ f.kind # "flushed"
  BY DEF Beat, Live, Batched
<1> HIDE DEF t
<1>3. \A i \in DOMAIN t : i \in DOMAIN s \/ t[i] = f
  BY <1>1
<1>4. ASSUME NEW i \in DOMAIN t, Live(t[i])
      PROVE  fl = NoFlush /\ \A j \in DOMAIN t : ~Batched(t[j])
  <2>1. fl = NoFlush /\ \A j \in DOMAIN s : ~Batched(s[j])
    BY <1>1, <1>2, <1>3, <1>4 DEF InOrder
  <2> QED
    BY <1>1, <1>2, <1>3, <2>1 DEF Batched
<1>5. ASSUME NEW i \in DOMAIN t, Batched(t[i])
      PROVE  IF Pos(t[i]) = 1 THEN Starts(t, i, fl) ELSE Follows(t, i, fl)
  <2>1. i \in DOMAIN s /\ t[i] = s[i]
    BY <1>1, <1>2, <1>3, <1>5
  <2>2. IF Pos(s[i]) = 1 THEN Starts(s, i, fl) ELSE Follows(s, i, fl)
    BY <1>5, <2>1 DEF InOrder
  <2>3. CASE Pos(s[i]) = 1
    <3>1. \A j \in DOMAIN t : j < i => j \in DOMAIN s
      BY <1>1, <2>1
    <3> QED
      BY <1>1, <2>1, <2>2, <2>3, <3>1 DEF Starts
  <2>4. CASE Pos(s[i]) # 1
    <3>1. i # 1 => i - 1 \in DOMAIN s
      BY <1>1, <2>1
    <3> QED
      BY <1>1, <2>1, <2>2, <2>4, <3>1 DEF Follows
  <2> QED
    BY <2>3, <2>4
<1>6. ASSUME NEW i \in DOMAIN t, NEW j \in DOMAIN t, i < j, t[i].kind = "flushed"
      PROVE  Beat(t[j])
  BY <1>1, <1>2, <1>3, <1>6 DEF InOrder
<1>7. InOrder(t, fl)
  BY <1>4, <1>5, <1>6 DEF InOrder
<1> QED
  BY <1>7 DEF t

\* An event may stand anywhere where no batch is.
LEMMA OrderLive ==
    ASSUME NEW s \in Seq(FrameType), \A i \in DOMAIN s : ~Batched(s[i]),
           NEW f \in FrameType, ~Batched(f)
    PROVE  InOrder(s \o <<f>>, NoFlush)
<1> DEFINE t == s \o <<f>>
<1>1. /\ Len(s) \in Nat /\ DOMAIN s = 1..Len(s) /\ DOMAIN t = 1..(Len(s) + 1)
      /\ \A i \in DOMAIN s : t[i] = s[i]
      /\ t[Len(s) + 1] = f
  BY Behind
<1> HIDE DEF t
<1>2. \A i \in DOMAIN t : ~Batched(t[i])
  BY <1>1 DEF Batched
<1>3. InOrder(t, NoFlush)
  BY <1>2 DEF InOrder, Batched
<1> QED
  BY <1>3 DEF t

\* A batch may stand behind heartbeats, if the Host expects its first frame.
LEMMA OrderBatch ==
    ASSUME NEW s \in Seq(FrameType), \A i \in DOMAIN s : Beat(s[i]),
           NEW f \in Nat \ {0}, NEW content \in Seq(Events), NEW fl,
           ConstantsAssumption, alive \in BOOLEAN,
           \/ fl = NoFlush /\ content # <<>>
           \/ fl = [fid |-> f, count |-> Len(content), next |-> 0]
    PROVE  InOrder(s \o FlushFrames(f, content), fl)
<1> DEFINE u == FlushFrames(f, content)
           t == s \o u
           m == Len(s)
           n == Len(content)
<1>1. /\ n \in Nat /\ DOMAIN u = 1..(n + 1)
      /\ \A k \in 1..(n + 1) :
             u[k] = IF k <= n THEN Frame("event", content[k], f, n, k, TRUE)
                    ELSE Frame("flushed", 0, f, n, 0, alive)
  BY DEF FlushFrames
<1>2. u \in Seq(FrameType)
  BY FlushFramesTyped
<1> HIDE DEF u, n
<1>3. /\ m \in Nat /\ DOMAIN s = 1..m /\ DOMAIN t = 1..(m + n + 1)
      /\ \A i \in 1..m : t[i] = s[i]
      /\ \A k \in 1..(n + 1) : t[m + k] = u[k]
  <2>1. Len(u) = n + 1
    BY <1>1, <1>2
  <2>2. m \in Nat /\ DOMAIN s = 1..m
    OBVIOUS
  <2>3. /\ t \in Seq(FrameType) /\ Len(t) = m + (n + 1)
        /\ \A i \in 1..(m + (n + 1)) : t[i] = IF i <= m THEN s[i] ELSE u[i - m]
    BY <1>2, <2>1, ConcatProperties
  <2> HIDE DEF t, m
  <2>4. DOMAIN t = 1..(m + n + 1) /\ \A i \in 1..m : t[i] = s[i]
    BY <1>1, <2>2, <2>3
  <2>5. ASSUME NEW k \in 1..(n + 1) PROVE t[m + k] = u[k]
    <3>1. m + k \in 1..(m + (n + 1)) /\ ~(m + k <= m) /\ (m + k) - m = k
      BY <1>1, <2>2
    <3> QED
      BY <2>3, <3>1
  <2> QED
    BY <2>2, <2>4, <2>5
<1> HIDE DEF t, m
<1>4. /\ \A k \in 1..(n + 1) : Batched(u[k]) /\ ~Live(u[k]) /\ Pos(u[k]) = k
      /\ \A k \in 1..(n + 1) : At(u[k], k - 1) = [fid |-> f, count |-> n, next |-> k - 1]
      /\ \A k \in 1..n : u[k].kind = "event" /\ At(u[k], u[k].index) = [fid |-> f, count |-> n, next |-> k]
      /\ \A k \in 1..(n + 1) : u[k].kind = "flushed" => k = n + 1
  <2>1. \A k \in 1..n : /\ u[k].kind = "event" /\ u[k].fid = f /\ u[k].count = n /\ u[k].index = k
    <3> SUFFICES ASSUME NEW k \in 1..n
                 PROVE  u[k].kind = "event" /\ u[k].fid = f /\ u[k].count = n /\ u[k].index = k
      OBVIOUS
    <3>1. k \in 1..(n + 1) /\ k <= n
      BY <1>1
    <3> QED
      BY <1>1, <3>1 DEF Frame
  <2>2. u[n + 1].kind = "flushed" /\ u[n + 1].fid = f /\ u[n + 1].count = n
    BY <1>1 DEF Frame
  <2>3. \A k \in 1..(n + 1) : k \in 1..n \/ k = n + 1
    BY <1>1
  <2> QED
    BY <1>1, <2>1, <2>2, <2>3 DEF Batched, Live, Pos, At
<1>5. ASSUME NEW i \in DOMAIN t
      PROVE  (i \in 1..m /\ Beat(t[i])) \/ \E k \in 1..(n + 1) : i = m + k /\ t[i] = u[k]
  <2>1. CASE i \in 1..m
    BY <1>3, <2>1
  <2>2. CASE i \notin 1..m
    <3>1. i - m \in 1..(n + 1) /\ i = m + (i - m)
      BY <1>1, <1>3, <2>2
    <3> QED
      BY <1>3, <3>1
  <2> QED
    BY <2>1, <2>2
<1>6. ASSUME NEW i \in DOMAIN t PROVE ~Live(t[i])
  BY <1>4, <1>5 DEF Live, Beat
<1>7. ASSUME NEW i \in DOMAIN t, Batched(t[i])
      PROVE  IF Pos(t[i]) = 1 THEN Starts(t, i, fl) ELSE Follows(t, i, fl)
  <2>1. PICK k \in 1..(n + 1) : i = m + k /\ t[i] = u[k]
    BY <1>5, <1>7 DEF Beat, Batched
  <2>2. Pos(t[i]) = k
    BY <1>4, <2>1
  <2>3. CASE k = 1
    <3>1. \A j \in DOMAIN t : j < i => Beat(t[j])
      <4>1. \A j \in DOMAIN t : j < i => j \in 1..m
        BY <1>3, <2>1, <2>3
      <4> QED
        BY <1>3, <4>1
    <3>2. fl = At(t[i], 0) \/ (fl = NoFlush /\ t[i].kind = "event")
      <4>1. At(t[i], 0) = [fid |-> f, count |-> n, next |-> 0]
        BY <1>4, <2>1, <2>3
      <4>2. content # <<>> => 1 \in 1..n
        BY <1>1 DEF n
      <4> QED
        BY <1>4, <2>1, <2>3, <4>1, <4>2 DEF n
    <3> QED
      BY <2>2, <2>3, <3>1, <3>2 DEF Starts
  <2>4. CASE k # 1
    <3>1. k - 1 \in 1..n /\ k - 1 \in 1..(n + 1) /\ i - 1 = m + (k - 1) /\ i # 1
      BY <1>1, <1>3, <2>1, <2>4
    <3>2. t[i - 1] = u[k - 1]
      BY <1>3, <3>1
    <3>3. u[k - 1].kind = "event" /\ At(u[k - 1], u[k - 1].index) = At(u[k], k - 1)
      BY <1>4, <3>1
    <3> QED
      BY <2>1, <2>2, <2>4, <3>1, <3>2, <3>3 DEF Follows
  <2> QED
    BY <2>3, <2>4
<1>8. ASSUME NEW i \in DOMAIN t, NEW j \in DOMAIN t, i < j PROVE t[i].kind # "flushed"
  <2>1. CASE i \in 1..m
    BY <1>3, <2>1 DEF Beat
  <2>2. CASE i \notin 1..m
    <3>1. PICK k \in 1..(n + 1) : i = m + k /\ t[i] = u[k]
      BY <1>5, <2>2
    <3>2. k # n + 1
      BY <1>1, <1>3, <1>8, <3>1
    <3> QED
      BY <1>4, <3>1, <3>2
  <2> QED
    BY <2>1, <2>2
<1>9. InOrder(t, fl)
  BY <1>6, <1>7, <1>8 DEF InOrder
<1> QED
  BY <1>9 DEF t, u

\* Behind an inventory stand the events of a Node that holds none back, or
\* heartbeats only.
LEMMA OrderReady ==
    ASSUME NEW s \in Seq(FrameType), s # <<>>, Announced(s), Head(s).kind = "ready", NEW fl,
           Head(s).fid = 0 => fl = NoFlush
    PROVE  /\ InOrder(Tail(s), fl)
           /\ \A f \in Elems(Tail(s)) : ~Batched(f) /\ (Head(s).fid # 0 => Beat(f))
<1> DEFINE t == Tail(s)
<1>1. /\ Len(s) \in Nat \ {0} /\ DOMAIN s = 1..Len(s) /\ DOMAIN t = 1..(Len(s) - 1)
      /\ \A i \in DOMAIN t : t[i] = s[i + 1] /\ i + 1 \in DOMAIN s /\ 1 < i + 1
      /\ 1 \in DOMAIN s /\ Head(s) = s[1]
  OBVIOUS
<1> HIDE DEF t
<1>2. \A i \in DOMAIN t : ~Batched(t[i]) /\ (Head(s).fid # 0 => Beat(t[i]))
  BY <1>1 DEF Announced
<1>3. \A i \in DOMAIN t : Live(t[i]) => fl = NoFlush
  BY <1>2 DEF Live, Beat
<1>4. InOrder(t, fl)
  BY <1>2, <1>3 DEF InOrder, Batched
<1> QED
  BY <1>2, <1>4 DEF t, Elems

\* A frame behind what stands ahead of the welcome.
LEMMA AnnouncedBehind ==
    ASSUME NEW s \in Seq(FrameType), Announced(s), NEW f \in FrameType, ~Batched(f),
           \A i \in DOMAIN s : s[i].kind = "ready" =>
               f.kind # "ready" /\ (s[i].fid # 0 => Beat(f))
    PROVE  Announced(s \o <<f>>)
<1> DEFINE t == s \o <<f>>
<1>1. /\ Len(s) \in Nat /\ DOMAIN s = 1..Len(s) /\ DOMAIN t = 1..(Len(s) + 1)
      /\ \A i \in DOMAIN s : t[i] = s[i]
      /\ t[Len(s) + 1] = f
  BY Behind
<1> HIDE DEF t
<1>2. \A i \in DOMAIN t : ~Batched(t[i])
  BY <1>1 DEF Announced
<1>3. ASSUME NEW i \in DOMAIN t, NEW j \in DOMAIN t, i < j, t[i].kind = "ready"
      PROVE  t[j].kind # "ready" /\ (t[i].fid # 0 => Beat(t[j]))
  <2>1. i \in DOMAIN s
    BY <1>1, <1>3
  <2>2. CASE j \in DOMAIN s
    BY <1>1, <1>3, <2>1, <2>2 DEF Announced
  <2>3. CASE j \notin DOMAIN s
    <3>1. j = Len(s) + 1
      BY <1>1, <2>3
    <3> QED
      BY <1>1, <1>3, <2>1, <3>1
  <2> QED
    BY <2>2, <2>3
<1>4. Announced(t)
  BY <1>2, <1>3 DEF Announced
<1> QED
  BY <1>4 DEF t

\* An open connection has been dialled.
LEMMA Here ==
    ASSUME TypeOK, HoldHasBatch, Open PROVE conn \in Conns
BY DEF TypeOK, NodeType, HoldHasBatch, Open, Conns

\* A connection on which nothing happened.
LEMMA LineKept ==
    ASSUME TypeOK, NEW c \in Conns, Line(c),
           toHost'[c] = toHost[c], hostPhase'[c] = hostPhase[c], flush'[c] = flush[c],
           awaiting'[c] = awaiting[c], toNode'[c] \in {toNode[c], <<>>},
           conn' \in {conn, conn + 1}
    PROVE  Line(c)'
<1>1. c > conn' => c > conn
  BY DEF TypeOK, NodeType, Conns
<1>2. Unused(c)'
  BY <1>1 DEF Line, Unused
<1>3. Kinded(c)'
  BY ElemsEmpty DEF Line, Kinded, Elems
<1>4. Lined(c)'
  BY DEF Line, Lined
<1> QED
  BY <1>2, <1>3, <1>4 DEF Line

\* A connection the Host has done with.
LEMMA LineEnded ==
    ASSUME TypeOK, NEW c \in Conns, Line(c), hostPhase[c] # "none",
           hostPhase'[c] \in {"closing", "closed", "superseded"},
           Elems(toHost'[c]) \subseteq Elems(toHost[c]), toNode'[c] = toNode[c],
           flush'[c] = NoFlush \/ (flush'[c] = flush[c] /\ awaiting'[c] = awaiting[c]),
           conn' = conn
    PROVE  Line(c)'
<1>1. Unused(c)'
  BY DEF Line, Unused
<1>2. Kinded(c)'
  BY DEF Line, Kinded, Elems
<1>3. Lined(c)'
  BY DEF Lined
<1> QED
  BY <1>1, <1>2, <1>3 DEF Line

\* The Node's latest connection is as it was.
LEMMA StepKept ==
    ASSUME InStep, UNCHANGED <<nodePhase, conn, hold, inFlight, batches>>,
           toHost'[conn] = toHost[conn], hostPhase'[conn] = hostPhase[conn],
           flush'[conn] = flush[conn], toNode'[conn] = toNode[conn]
    PROVE  InStep'
<1> SUFFICES ASSUME Open
             PROVE  (Phases /\ Announces /\ Expecting /\ Replaying /\ Holding /\ Acknowledging)'
  BY DEF InStep, Open
<1> USE DEF InStep, Accepted
<1>1. Phases' /\ Announces'
  BY DEF Phases, Announces, Elems
<1>2. Expecting' /\ Holding'
  BY DEF Expecting, Holding, Quiet, Elems
<1>3. Replaying'
  BY DEF Replaying, NoAck, Elems
<1>4. Acknowledging'
  BY DEF Acknowledging, Quiet, Elems
<1> QED
  BY <1>1, <1>2, <1>3, <1>4

\* The Host has done with it.
LEMMA StepEnded ==
    ASSUME InStep, UNCHANGED <<nodePhase, conn, hold, inFlight>>, hostPhase[conn] # "none",
           hostPhase'[conn] \in {"closing", "closed", "superseded"},
           Elems(toHost'[conn]) \subseteq Elems(toHost[conn]), toNode'[conn] = toNode[conn]
    PROVE  InStep'
<1> SUFFICES ASSUME Open
             PROVE  (Phases /\ Announces /\ Expecting /\ Replaying /\ Holding /\ Acknowledging)'
  BY DEF InStep, Open
<1> USE DEF InStep, Accepted
<1>1. Phases' /\ Announces'
  BY DEF Phases, Announces, Elems
<1>2. Expecting' /\ Replaying' /\ Holding'
  BY DEF Expecting, Replaying, Holding
<1>3. Acknowledging'
  BY DEF Acknowledging
<1> QED
  BY <1>1, <1>2, <1>3

LEMMA BatchInit == ASSUME ConstantsAssumption, Init PROVE BatchInv
<1>1. ASSUME NEW c \in Conns PROVE Line(c)
  BY ElemsEmpty, <1>1 DEF Init, Line, Unused, Kinded, Lined, Conns
<1>2. InStep
  BY DEF Init, InStep, Open
<1> QED
  BY <1>1, <1>2 DEF BatchInv, Lines

\* The Host reads an event or a heartbeat.
LEMMA BatchRead ==
    ASSUME TypeOK, BatchInv, NEW c \in Conns, Current(c), toHost[c] # <<>>, Consume(c),
           UNCHANGED <<toNode, hostPhase>>, UNCHANGED nodeVars,
           NEW after, flush' = [flush EXCEPT ![c] = after],
           awaiting'[c] = awaiting[c] \/ awaiting'[c] = TRUE,
           \A d \in Conns \ {c} : awaiting'[d] = awaiting[d],
           \/ ~Batched(Head(toHost[c])) /\ after = flush[c]
           \/ /\ Head(toHost[c]).kind = "event" /\ Head(toHost[c]).fid # 0
              /\ after = At(Head(toHost[c]), Head(toHost[c]).index)
              /\ awaiting'[c] = TRUE
    PROVE  BatchInv'
<1> DEFINE s == toHost[c]
           f == Head(toHost[c])
<1>1. /\ s \in Seq(FrameType) /\ s # <<>> /\ toHost'[c] = Tail(s) /\ flush'[c] = after
      /\ Elems(s) = {f} \cup Elems(Tail(s)) /\ UNCHANGED <<conn, nodePhase, hold, inFlight, batches>>
  BY ElemsTail DEF TypeOK, WireType, HostType, Consume, nodeVars
<1>2. \A d \in Conns \ {c} : toHost'[d] = toHost[d] /\ flush'[d] = flush[d]
  BY DEF TypeOK, WireType, HostType, Consume
<1>3. Line(c)'
  <2>1. Unused(c)'
    BY <1>1 DEF BatchInv, Lines, Line, Unused, Current
  <2>2. Kinded(c)'
    <3>1. \A g \in Elems(toHost'[c]) : g \in Elems(toHost[c])
      BY <1>1
    <3>2. after # NoFlush => awaiting'[c] = TRUE /\ after.fid # 0
      BY DEF BatchInv, Lines, Line, Kinded, At
    <3> QED
      BY <1>1, <3>1, <3>2 DEF BatchInv, Lines, Line, Kinded, Elems
  <2>3. Lined(c)'
    <3>1. CASE hostPhase[c] = "accepted"
      <4>1. InOrder(s, flush[c])
        BY <3>1 DEF BatchInv, Lines, Line, Lined
      <4>2. InOrder(Tail(s), after)
        BY <1>1, <4>1, OrderRead
      <4> QED
        BY <1>1, <3>1, <4>2 DEF Lined
    <3>2. CASE hostPhase[c] # "accepted"
      BY <3>2 DEF Lined, Current
    <3> QED
      BY <3>1, <3>2
  <2> QED
    BY <2>1, <2>2, <2>3 DEF Line
<1>4. ASSUME NEW d \in Conns, d # c PROVE Line(d)'
  BY <1>1, <1>2, <1>4, LineKept DEF BatchInv, Lines
<1>5. CASE c # conn /\ Open
  <2>1. toHost'[conn] = toHost[conn] /\ flush'[conn] = flush[conn]
    BY <1>5 DEF TypeOK, WireType, HostType, Consume
  <2> QED
    BY <1>1, <1>3, <1>4, <2>1, StepKept DEF BatchInv, Lines
<1>6. CASE c = conn /\ Open
  <2> USE DEF BatchInv, InStep, Accepted
  <2>1. /\ Elems(toHost'[conn']) \subseteq Elems(toHost[conn]) /\ f \in Elems(toHost[conn])
        /\ toNode'[conn'] = toNode[conn] /\ hostPhase'[conn'] = hostPhase[conn]
        /\ flush'[conn'] = after /\ flush[conn] = flush[c]
    BY <1>1, <1>6
  <2>2. Phases' /\ Announces'
    <3>1. Phases'
      BY <1>1, <1>6, <2>1 DEF Phases, Elems
    <3>2. Announces'
      BY <1>1, <1>6, <2>1 DEF Announces, Elems
    <3> QED
      BY <3>1, <3>2
  <2>3. Beat(f) => after = flush[c]
    BY DEF Beat
  <2>4. Expecting'
    BY <1>1, <1>6, <2>1, <2>3 DEF Expecting, Quiet, Elems
  <2>5. Replaying'
    <3>1. NoAck => NoAck'
      BY <2>1 DEF NoAck, Elems
    <3>2. Accepted' => Accepted
      BY <2>1
    <3>3. Replaying
      BY <1>6
    <3> QED
      BY <1>1, <2>1, <3>1, <3>2, <3>3 DEF Replaying, Elems
  <2>6. Holding'
    BY <1>1, <1>6, <2>1 DEF Holding, Replaying, Batched
  <2>7. Acknowledging'
    <3>1. Quiet /\ flush[conn] = NoFlush => Quiet' /\ flush'[conn'] = NoFlush
      BY <2>1, <2>3 DEF Quiet, Elems
    <3>2. Acknowledging
      BY <1>6
    <3> QED
      BY <1>1, <2>1, <3>1, <3>2 DEF Acknowledging
  <2>8. InStep'
    BY <2>2, <2>4, <2>5, <2>6, <2>7
  <2> QED
    BY <1>3, <1>4, <2>8 DEF Lines
<1>7. CASE ~Open
  <2>1. InStep'
    BY <1>1, <1>7 DEF InStep, Open
  <2> QED
    BY <1>3, <1>4, <2>1 DEF BatchInv, Lines
<1> QED
  BY <1>5, <1>6, <1>7

LEMMA BatchHostEvent ==
    ASSUME TypeOK, BatchInv, NEW c \in Conns,
           HostBatchEvent(c) \/ HostLiveEvent(c) \/ HostHeartbeat(c)
    PROVE  BatchInv'
<1>1. /\ Current(c) /\ toHost[c] # <<>> /\ Consume(c)
      /\ UNCHANGED <<toNode, hostPhase>> /\ UNCHANGED nodeVars
  BY DEF HostBatchEvent, HostLiveEvent, HostHeartbeat, Receives
<1>2. CASE HostBatchEvent(c)
  <2>1. /\ flush' = [flush EXCEPT ![c] = At(Head(toHost[c]), Head(toHost[c]).index)]
        /\ awaiting' = [awaiting EXCEPT ![c] = TRUE]
        /\ Head(toHost[c]).kind = "event" /\ Head(toHost[c]).fid # 0
    BY <1>2 DEF HostBatchEvent, Receives, At
  <2>2. awaiting'[c] = TRUE /\ \A d \in Conns \ {c} : awaiting'[d] = awaiting[d]
    BY <2>1 DEF TypeOK, HostType
  <2> QED
    BY <1>1, <2>1, <2>2, BatchRead
<1>3. CASE HostLiveEvent(c) \/ HostHeartbeat(c)
  <2>1. UNCHANGED <<flush, awaiting>> /\ ~Batched(Head(toHost[c]))
    BY <1>3 DEF HostLiveEvent, HostHeartbeat, Receives, Batched
  <2>2. flush' = [flush EXCEPT ![c] = flush[c]]
    BY <2>1 DEF TypeOK, HostType
  <2> QED
    BY <1>1, <2>1, <2>2, BatchRead
<1> QED
  BY <1>2, <1>3

LEMMA BatchFlushed ==
    ASSUME TypeOK, HoldHasBatch, BatchInv, NEW c \in Conns, HostFlushed(c)
    PROVE  BatchInv'
<1> DEFINE s == toHost[c]
           f == Head(toHost[c])
           ack == Frame("ack", 0, f.fid, 0, 0, TRUE)
<1>1. /\ Current(c) /\ s # <<>> /\ f.kind = "flushed"
      /\ toHost' = [toHost EXCEPT ![c] = Tail(s)] /\ flush' = [flush EXCEPT ![c] = NoFlush]
      /\ awaiting' = [awaiting EXCEPT ![c] = FALSE] /\ Tell(c, ack)
      /\ UNCHANGED <<hostPhase, conn, nodePhase, hold, inFlight, batches>>
  BY DEF HostFlushed, Receives, Consume, nodeVars
<1>2. /\ s \in Seq(FrameType) /\ toHost'[c] = Tail(s) /\ flush'[c] = NoFlush
      /\ Elems(s) = {f} \cup Elems(Tail(s)) /\ f \in FrameType
  BY <1>1, ElemsTail, ReceiveTyped DEF TypeOK, WireType, HostType
<1>3. \A d \in Conns \ {c} : /\ toHost'[d] = toHost[d] /\ flush'[d] = flush[d]
                             /\ awaiting'[d] = awaiting[d] /\ toNode'[d] = toNode[d]
  BY <1>1 DEF TypeOK, WireType, HostType, Tell
<1>4. /\ ack.kind = "ack" /\ ack.fid = f.fid
      /\ f.fid # 0 /\ Batched(f) /\ ~Beat(f)
  BY <1>1, <1>2 DEF Frame, BatchInv, Lines, Line, Kinded, Batched, Beat
<1>5. \/ toNode'[c] = toNode[c] /\ (conn = c /\ Open => hostPhase[c] = "closing")
      \/ toNode'[c] = Append(toNode[c], ack) /\ conn = c /\ Open /\ hostPhase[c] = "accepted"
  BY <1>1 DEF Tell, TypeOK, WireType, Open, Current
<1>6. toNode[c] \in Seq(FrameType \cup {ack}) /\ ack \in FrameType \cup {ack}
  BY SeqMonotonic DEF TypeOK, WireType
<1> HIDE DEF ack
<1>7. Elems(toNode'[c]) \subseteq Elems(toNode[c]) \cup {ack}
  <2>1. Elems(Append(toNode[c], ack)) = Elems(toNode[c]) \cup {ack}
    BY <1>6, ElemsAppend
  <2> QED
    BY <1>5, <2>1
<1>8. Line(c)'
  <2>1. Unused(c)'
    BY <1>1, <1>2 DEF BatchInv, Lines, Line, Unused, Current
  <2>2. Kinded(c)'
    <3>1. \A g \in Elems(toHost'[c]) : g \in Elems(toHost[c])
      BY <1>2
    <3>2. \A g \in Elems(toNode'[c]) : g.kind \in {"welcome", "ack"}
      BY <1>4, <1>7 DEF BatchInv, Lines, Line, Kinded
    <3> QED
      BY <1>2, <3>1, <3>2 DEF BatchInv, Lines, Line, Kinded, Elems
  <2>3. Lined(c)'
    <3>1. CASE hostPhase[c] = "accepted"
      <4>1. InOrder(s, flush[c])
        BY <3>1 DEF BatchInv, Lines, Line, Lined
      <4>2. InOrder(Tail(s), NoFlush)
        BY <1>1, <1>2, <4>1, OrderRead
      <4> QED
        BY <1>1, <1>2, <3>1, <4>2 DEF Lined
    <3>2. CASE hostPhase[c] # "accepted"
      BY <1>1, <3>2 DEF Lined, Current
    <3> QED
      BY <3>1, <3>2
  <2> QED
    BY <2>1, <2>2, <2>3 DEF Line
<1>9. ASSUME NEW d \in Conns, d # c PROVE Line(d)'
  BY <1>1, <1>3, <1>9, LineKept DEF BatchInv, Lines
<1>10. InStep'
  <2>1. CASE ~Open
    BY <1>1, <2>1 DEF InStep, Open
  <2>2. CASE Open /\ conn # c
    <3>1. conn \in Conns \ {c}
      BY <2>2, Here
    <3> QED
      BY <1>1, <1>3, <3>1, StepKept DEF BatchInv
  <2>3. CASE Open /\ conn = c /\ hostPhase[c] = "closing"
    <3>1. toNode'[conn] = toNode[conn]
      BY <1>5, <2>3
    <3> QED
      BY <1>1, <1>2, <2>3, <3>1, StepEnded DEF BatchInv
  <2>4. CASE Open /\ conn = c /\ hostPhase[c] = "accepted"
    <3> USE DEF BatchInv, InStep, Accepted
    <3>1. f \in Elems(toHost[conn]) /\ Accepted
      BY <1>2, <2>4
    <3>2. nodePhase = "welcomed" /\ hold /\ f.fid = inFlight /\ NoAck
      BY <1>4, <2>4, <3>1 DEF Replaying
    <3>3. /\ toNode'[conn'] = Append(toNode[conn], ack) /\ flush'[conn'] = NoFlush
          /\ Elems(toHost'[conn']) = Elems(Tail(s))
      BY <1>1, <1>2, <1>5, <2>4
    <3>4. \A g \in Elems(Tail(s)) : Beat(g)
      <4>1. InOrder(s, flush[c])
        BY <2>4 DEF Lines, Line, Lined
      <4>2. /\ \A i \in DOMAIN Tail(s) : Tail(s)[i] = s[i + 1] /\ i + 1 \in DOMAIN s /\ 1 < i + 1
            /\ s[1] = f /\ 1 \in DOMAIN s
        BY <1>1, <1>2
      <4>3. \A i \in DOMAIN Tail(s) : Beat(Tail(s)[i])
        BY <1>1, <4>1, <4>2 DEF InOrder
      <4> QED
        BY <4>3 DEF Elems
    <3>5. Phases'
      BY <1>1, <2>4, <3>2 DEF Phases
    <3>6. Announces' /\ Expecting'
      BY <1>1, <3>2 DEF Announces, Expecting
    <3>7. Replaying'
      <4>1. \A g \in Elems(toHost'[conn']) : ~Batched(g)
        BY <3>3, <3>4 DEF Beat, Batched
      <4> QED
        BY <4>1 DEF Replaying, Elems
    <3>8. Holding'
      BY <3>3 DEF Holding
    <3>9. Acknowledging'
      <4> DEFINE t == toNode[conn]
      <4>1. /\ Len(t) \in Nat /\ DOMAIN t = 1..Len(t) /\ DOMAIN Append(t, ack) = 1..(Len(t) + 1)
            /\ \A i \in DOMAIN t : Append(t, ack)[i] = t[i]
            /\ Append(t, ack)[Len(t) + 1] = ack
        BY <1>6, <2>4
      <4>2. \A i \in DOMAIN Append(t, ack) : i \in DOMAIN t \/ i = Len(t) + 1
        BY <4>1
      <4>3. \A i \in DOMAIN t : t[i].kind # "ack"
        BY <3>2 DEF NoAck, Elems
      <4>4. Quiet'
        BY <3>3, <3>4 DEF Quiet, Elems
      <4>5. inFlight # 0
        BY <1>4, <3>2
      <4> HIDE DEF t
      <4>6. \A i \in DOMAIN Append(t, ack) : Append(t, ack)[i].kind = "ack" => i = Len(t) + 1
        BY <4>1, <4>2, <4>3
      <4>7. toNode'[conn'] = Append(t, ack)
        BY <3>3 DEF t
      <4> QED
        BY <1>1, <1>4, <3>2, <3>3, <4>1, <4>4, <4>5, <4>6, <4>7 DEF Acknowledging
    <3> QED
      BY <3>5, <3>6, <3>7, <3>8, <3>9
  <2> QED
    BY <1>1, <2>1, <2>2, <2>3, <2>4 DEF Current
<1> QED
  BY <1>8, <1>9, <1>10 DEF BatchInv, Lines

\* The Host has done with one connection.
LEMMA BatchEnded ==
    ASSUME TypeOK, HoldHasBatch, BatchInv, NEW c \in Conns,
           HostRefuse(c) \/ HostRefuseEarly(c) \/ HostDropLink(c)
    PROVE  BatchInv'
<1>1. /\ hostPhase[c] # "none" /\ hostPhase'[c] \in {"closing", "closed", "superseded"}
      /\ \A d \in Conns \ {c} : /\ hostPhase'[d] = hostPhase[d] /\ toHost'[d] = toHost[d]
                                /\ flush'[d] = flush[d] /\ awaiting'[d] = awaiting[d]
      /\ flush'[c] = NoFlush \/ (flush'[c] = flush[c] /\ awaiting'[c] = awaiting[c])
      /\ UNCHANGED <<toNode, conn, nodePhase, hold, inFlight, batches>>
  BY DEF HostRefuse, HostRefuseEarly, HostDropLink, CloseLink, Consume, Current, nodeVars,
         TypeOK, WireType, HostType
<1>2. Elems(toHost'[c]) \subseteq Elems(toHost[c])
  <2>1. CASE HostRefuse(c)
    <3>1. toHost[c] # <<>> /\ toHost'[c] = Tail(toHost[c]) /\ toHost[c] \in Seq(FrameType)
      BY <2>1 DEF HostRefuse, Consume, TypeOK, WireType
    <3> QED
      BY <3>1, ElemsTail
  <2>2. CASE HostRefuseEarly(c) \/ HostDropLink(c)
    <3>1. toHost'[c] = <<>>
      BY <2>2 DEF HostRefuseEarly, HostDropLink, CloseLink, TypeOK, WireType
    <3> QED
      BY <3>1, ElemsEmpty
  <2> QED
    BY <2>1, <2>2
<1>3. Lines'
  <2>1. Line(c)'
    BY <1>1, <1>2, LineEnded DEF BatchInv, Lines
  <2>2. ASSUME NEW d \in Conns, d # c PROVE Line(d)'
    BY <1>1, <2>2, LineKept DEF BatchInv, Lines
  <2> QED
    BY <2>1, <2>2 DEF Lines
<1>4. InStep'
  <2>1. CASE ~Open
    BY <1>1, <2>1 DEF InStep, Open
  <2>2. CASE Open /\ conn # c
    <3>1. conn \in Conns \ {c}
      BY <2>2, Here
    <3> QED
      BY <1>1, <3>1, StepKept DEF BatchInv
  <2>3. CASE Open /\ conn = c
    BY <1>1, <1>2, <2>3, StepEnded DEF BatchInv
  <2> QED
    BY <2>1, <2>2, <2>3
<1> QED
  BY <1>3, <1>4 DEF BatchInv

\* The Host process restarts.
LEMMA BatchRestart ==
    ASSUME TypeOK, HoldHasBatch, BatchInv, HostRestart PROVE BatchInv'
<1>1. /\ \A c \in Conns : /\ toHost'[c] = <<>> /\ flush'[c] = NoFlush
                          /\ hostPhase'[c] = IF hostPhase[c] = "inventory" \/ Current(c)
                                             THEN "closed" ELSE hostPhase[c]
      /\ UNCHANGED <<toNode, conn, nodePhase, hold, inFlight, batches>>
  BY DEF HostRestart, nodeVars
<1>2. ASSUME NEW c \in Conns PROVE Line(c)'
  <2>1. Unused(c)'
    BY <1>1 DEF BatchInv, Lines, Line, Unused, Current
  <2>2. Kinded(c)'
    <3>1. Elems(toHost'[c]) = {}
      BY <1>1, ElemsEmpty
    <3> QED
      BY <1>1, <3>1 DEF BatchInv, Lines, Line, Kinded, Elems
  <2>3. Lined(c)'
    BY <1>1 DEF Lined, Current
  <2> QED
    BY <2>1, <2>2, <2>3 DEF Line
<1>3. InStep'
  <2> SUFFICES ASSUME Open
               PROVE  (Phases /\ Announces /\ Expecting /\ Replaying /\ Holding /\ Acknowledging)'
    BY <1>1 DEF InStep, Open
  <2>1. conn \in Conns
    BY Here
  <2> USE DEF InStep, BatchInv, Accepted
  <2>2. /\ Elems(toHost'[conn']) = {} /\ hostPhase'[conn'] # "accepted"
        /\ hostPhase[conn] = "none" => hostPhase'[conn'] = "none"
        /\ hostPhase[conn] # "none" => hostPhase'[conn'] \notin {"none", "inventory"}
        /\ toNode'[conn'] = toNode[conn]
    BY <1>1, <2>1, ElemsEmpty DEF Current
  <2>3. Phases' /\ Announces'
    BY <1>1, <2>2 DEF Phases, Announces, Elems
  <2>4. Expecting' /\ Replaying' /\ Holding'
    BY <2>2 DEF Expecting, Replaying, Holding
  <2>5. Acknowledging'
    BY <1>1, <2>2 DEF Acknowledging
  <2> QED
    BY <2>3, <2>4, <2>5
<1> QED
  BY <1>2, <1>3 DEF BatchInv, Lines

\* acceptNode, for the connection it accepts and the ones it supersedes.
LEMMA BatchReady ==
    ASSUME TypeOK, HoldHasBatch, FramesAgree, BatchInv, NEW c \in Conns, HostReady(c)
    PROVE  BatchInv'
<1> DEFINE s == toHost[c]
           f == Head(toHost[c])
           fl == IF f.fid # 0 THEN At(f, 0) ELSE NoFlush
           welcome == Frame("welcome", 0, 0, 0, 0, TRUE)
<1>1. /\ hostPhase[c] = "inventory" /\ s # <<>> /\ f.kind = "ready" /\ s \in Seq(FrameType)
      /\ toHost'[c] = Tail(s) /\ hostPhase'[c] = "accepted"
      /\ awaiting'[c] = (f.fid # 0) /\ Tell(c, welcome)
      /\ UNCHANGED <<conn, nodePhase, hold, inFlight, batches>>
  BY DEF HostReady, Receives, nodeVars, TypeOK, WireType
<1>2. flush'[c] = fl
  BY DEF HostReady, At
<1>3. \A d \in Conns \ {c} :
          /\ hostPhase'[d] = IF hostPhase[d] = "accepted" THEN "superseded"
                             ELSE IF hostPhase[d] = "closing" THEN "closed" ELSE hostPhase[d]
          /\ toHost'[d] = IF Current(d) THEN <<>> ELSE toHost[d]
          /\ ~awaiting'[d] /\ flush'[d] = NoFlush /\ toNode'[d] = toNode[d]
  <2>1. \A d \in Conns \ {c} : toNode'[d] = toNode[d]
    BY <1>1 DEF Tell, TypeOK, WireType
  <2> QED
    BY <2>1 DEF HostReady
<1>4. /\ Announced(s) /\ toNode[c] = <<>> /\ flush[c] = NoFlush
      /\ Elems(s) = {f} \cup Elems(Tail(s)) /\ f \in FrameType
  BY <1>1, ElemsTail, ReceiveTyped DEF BatchInv, Lines, Line, Unused, Lined, TypeOK
<1>5. /\ InOrder(Tail(s), fl)
      /\ \A g \in Elems(Tail(s)) : ~Batched(g) /\ (f.fid # 0 => Beat(g))
  BY <1>1, <1>4, OrderReady
<1>6. welcome.kind = "welcome" /\ \A g \in Elems(toNode'[c]) : g = welcome
  <2>1. toNode'[c] \in {<<>>, <<welcome>>}
    BY <1>1, <1>4 DEF Tell, TypeOK, WireType
  <2>2. welcome.kind = "welcome"
    BY DEF Frame
  <2> HIDE DEF welcome
  <2> QED
    BY <2>1, <2>2, ElemsEmpty DEF Elems
<1> HIDE DEF welcome
<1>7. fl # NoFlush => f.fid # 0 /\ fl.fid = f.fid
  BY DEF At
<1>8. Line(c)'
  <2>1. Unused(c)'
    BY <1>1 DEF BatchInv, Lines, Line, Unused
  <2>2. Kinded(c)'
    <3>1. \A g \in Elems(toHost'[c]) : g \in Elems(toHost[c])
      BY <1>1, <1>4
    <3>2. flush'[c] # NoFlush => awaiting'[c] /\ flush'[c].fid # 0
      BY <1>1, <1>2, <1>7
    <3> QED
      BY <1>6, <3>1, <3>2 DEF BatchInv, Lines, Line, Kinded, Elems
  <2>3. Lined(c)'
    BY <1>1, <1>2, <1>5 DEF Lined
  <2> QED
    BY <2>1, <2>2, <2>3 DEF Line
<1>9. ASSUME NEW d \in Conns, d # c PROVE Line(d)'
  <2>1. CASE Current(d)
    <3>1. /\ hostPhase[d] # "none" /\ hostPhase'[d] \in {"superseded", "closed"}
          /\ Elems(toHost'[d]) \subseteq Elems(toHost[d])
      BY <1>3, <1>9, <2>1, ElemsEmpty DEF Current
    <3> QED
      BY <1>1, <1>3, <1>9, <3>1, LineEnded DEF BatchInv, Lines
  <2>2. CASE ~Current(d)
    <3>1. /\ hostPhase'[d] = hostPhase[d] /\ toHost'[d] = toHost[d] /\ toNode'[d] = toNode[d]
          /\ flush'[d] = NoFlush
          /\ hostPhase[d] # "accepted"
      BY <1>3, <1>9, <2>2 DEF Current
    <3>2. Unused(d)' /\ Lined(d)'
      BY <1>1, <3>1 DEF BatchInv, Lines, Line, Unused, Lined
    <3>3. Kinded(d)'
      BY <3>1 DEF BatchInv, Lines, Line, Kinded, Elems
    <3> QED
      BY <3>2, <3>3 DEF Line
  <2> QED
    BY <2>1, <2>2
<1>10. InStep'
  <2>1. CASE ~Open
    BY <1>1, <2>1 DEF InStep, Open
  <2>2. CASE Open /\ conn # c
    <3>1. conn \in Conns \ {c}
      BY <2>2, Here
    <3>2. CASE Current(conn)
      <4>1. /\ hostPhase[conn] # "none" /\ hostPhase'[conn] \in {"superseded", "closed"}
            /\ Elems(toHost'[conn]) \subseteq Elems(toHost[conn])
        BY <1>3, <3>1, <3>2, ElemsEmpty DEF Current
      <4> QED
        BY <1>1, <1>3, <3>1, <4>1, StepEnded DEF BatchInv
    <3>3. CASE ~Current(conn)
      <4> USE DEF BatchInv, InStep, Accepted
      <4>1. /\ hostPhase'[conn'] = hostPhase[conn] /\ toHost'[conn'] = toHost[conn]
            /\ toNode'[conn'] = toNode[conn] /\ hostPhase[conn] # "accepted"
        BY <1>1, <1>3, <3>1, <3>3 DEF Current
      <4>2. Phases' /\ Announces'
        BY <1>1, <2>2, <4>1 DEF Phases, Announces, Elems
      <4>3. Expecting' /\ Replaying' /\ Holding'
        BY <4>1 DEF Expecting, Replaying, Holding
      <4>4. Acknowledging'
        BY <1>1, <2>2, <4>1 DEF Acknowledging
      <4> QED
        BY <4>2, <4>3, <4>4
    <3> QED
      BY <3>2, <3>3
  <2>3. CASE Open /\ conn = c
    <3> USE DEF BatchInv, InStep, Accepted
    <3>1. /\ f \in Elems(toHost[conn]) /\ hostPhase'[conn'] = "accepted"
          /\ Elems(toHost'[conn']) = Elems(Tail(s)) /\ Elems(Tail(s)) \subseteq Elems(toHost[conn])
          /\ flush'[conn'] = fl
      BY <1>1, <1>2, <1>4, <2>3
    <3>2. nodePhase = "ready"
      <4>1. Phases /\ nodePhase \in {"dialing", "channel", "ready", "welcomed"}
        BY <2>3 DEF Open, TypeOK, NodeType
      <4> QED
        BY <1>1, <2>3, <3>1, <4>1 DEF Phases
    <3>3. f.fid = IF hold THEN inFlight ELSE 0
      BY <1>1, <2>3, <3>1, <3>2 DEF Announces
    <3>4. NoAck'
      BY <1>1, <1>6, <2>3 DEF NoAck, Elems
    <3>5. Phases'
      BY <1>1, <3>1, <3>2 DEF Phases
    <3>6. Announces'
      BY <1>1, <2>3, <3>1 DEF Announces, Elems
    <3>7. Expecting'
      <4> SUFFICES ASSUME hold
                   PROVE  /\ Quiet'
                          /\ fl = [fid |-> inFlight, count |-> Len(batches[inFlight]), next |-> 0]
        BY <1>1, <3>1 DEF Expecting
      <4>1. inFlight # 0 /\ f.fid = inFlight
        BY <3>2, <3>3 DEF HoldHasBatch
      <4>2. FrameAgrees(f)
        BY <1>4 DEF FramesAgree
      <4>3. f.count = Len(batches[inFlight])
        BY <1>1, <4>1, <4>2 DEF FrameAgrees
      <4>4. Quiet'
        BY <1>5, <3>1, <4>1 DEF Quiet, Elems
      <4> QED
        BY <4>1, <4>3, <4>4 DEF At
    <3>8. Replaying'
      BY <1>5, <3>1 DEF Replaying, Elems
    <3>9. Holding'
      BY <1>1, <1>7, <3>1, <3>3 DEF Holding
    <3>10. Acknowledging'
      <4>1. \A i \in DOMAIN toNode'[conn'] : toNode'[conn'][i].kind # "ack"
        BY <3>4 DEF NoAck, Elems
      <4> QED
        BY <4>1 DEF Acknowledging
    <3> QED
      BY <3>5, <3>6, <3>7, <3>8, <3>9, <3>10
  <2> QED
    BY <2>1, <2>2, <2>3
<1> QED
  BY <1>8, <1>9, <1>10 DEF BatchInv, Lines

\* The frames of a batch.
LEMMA FlushKinds ==
    ASSUME NEW f \in Nat \ {0}, NEW content \in Seq(Events)
    PROVE  \A g \in Elems(FlushFrames(f, content)) :
               g.kind \in {"event", "flushed"} /\ g.fid = f
<1>1. Len(content) \in Nat
  OBVIOUS
<1> QED
  BY <1>1 DEF Elems, FlushFrames, Frame

\* What Transmit does to each connection.
LEMMA Sends ==
    ASSUME WireType, conn \in Conns, NEW fs, Transmit(fs)
    PROVE  /\ \A c \in Conns \ {conn} : toHost'[c] = toHost[c]
           /\ toHost'[conn] = IF Gone(conn) THEN toHost[conn] ELSE toHost[conn] \o fs
BY DEF Transmit, WireType

\* The Node sends frames on its latest connection, and may read one there.
LEMMA LinesSent ==
    ASSUME TypeOK, BatchInv, conn \in Conns, NEW fs \in Seq(FrameType),
           UNCHANGED <<conn, hostPhase, awaiting, flush>>, hostPhase[conn] # "none",
           \A c \in Conns \ {conn} : toHost'[c] = toHost[c] /\ toNode'[c] = toNode[c],
           toNode'[conn] = toNode[conn]
               \/ (toNode[conn] # <<>> /\ toNode'[conn] = Tail(toNode[conn])),
           \/ toHost'[conn] = toHost[conn]
           \/ /\ toHost'[conn] = toHost[conn] \o fs
              /\ \A f \in Elems(fs) : /\ f.kind \in {"ready", "event", "flushed", "heartbeat"}
                                      /\ f.kind = "flushed" => f.fid # 0
              /\ hostPhase[conn] = "inventory" => Announced(toHost[conn] \o fs)
              /\ hostPhase[conn] = "accepted" => InOrder(toHost[conn] \o fs, flush[conn])
    PROVE  /\ Lines'
           /\ Elems(toHost'[conn]) \subseteq Elems(toHost[conn]) \cup Elems(fs)
           /\ Elems(toNode'[conn]) \subseteq Elems(toNode[conn])
<1>1. toHost[conn] \in Seq(FrameType) /\ toNode[conn] \in Seq(FrameType)
  BY DEF TypeOK, WireType
<1>2. Elems(toHost'[conn]) \subseteq Elems(toHost[conn]) \cup Elems(fs)
  <2>1. Elems(toHost[conn] \o fs) \subseteq Elems(toHost[conn]) \cup Elems(fs)
    BY <1>1, ElemsConcat
  <2> QED
    BY <2>1
<1>3. Elems(toNode'[conn]) \subseteq Elems(toNode[conn])
  BY <1>1, ElemsTail
<1>4. Line(conn)'
  <2>1. Line(conn)
    BY DEF BatchInv, Lines
  <2>2. Unused(conn)'
    BY <2>1 DEF Line, Unused
  <2>3. Kinded(conn)'
    <3>1. \A f \in Elems(toHost'[conn]) : /\ f.kind \in {"ready", "event", "flushed", "heartbeat"}
                                          /\ f.kind = "flushed" => f.fid # 0
      <4>1. CASE toHost'[conn] = toHost[conn]
        BY <2>1, <4>1 DEF Line, Kinded
      <4>2. CASE \A f \in Elems(fs) : /\ f.kind \in {"ready", "event", "flushed", "heartbeat"}
                                      /\ f.kind = "flushed" => f.fid # 0
        BY <1>2, <2>1, <4>2 DEF Line, Kinded
      <4> QED
        BY <4>1, <4>2
    <3>2. \A f \in Elems(toNode'[conn]) : f.kind \in {"welcome", "ack"}
      BY <1>3, <2>1 DEF Line, Kinded
    <3> QED
      BY <2>1, <3>1, <3>2 DEF Line, Kinded, Elems
  <2>4. Lined(conn)'
    BY <2>1 DEF Line, Lined
  <2> QED
    BY <2>2, <2>3, <2>4 DEF Line
<1>5. ASSUME NEW c \in Conns, c # conn PROVE Line(c)'
  BY <1>5, LineKept DEF BatchInv, Lines
<1> QED
  BY <1>2, <1>3, <1>4, <1>5 DEF Lines

\* Before the welcome nothing is acknowledged.
LEMMA NoAckYet ==
    ASSUME Acknowledging, nodePhase # "welcomed" \/ ~hold
    PROVE  \A g \in Elems(toNode[conn]) : g.kind # "ack"
BY DEF Acknowledging, Elems

\* The Node dials.
LEMMA BatchDial ==
    ASSUME ConstantsAssumption, TypeOK, BatchInv, Dial PROVE BatchInv'
<1>1. /\ conn \in Nat /\ conn + 1 \in Conns /\ conn' = conn + 1 /\ nodePhase' = "dialing"
      /\ UNCHANGED <<toHost, toNode, hostPhase, awaiting, flush, hold, inFlight, batches>>
  BY DEF Dial, hostVars, TypeOK, NodeType, Conns, ConstantsAssumption
<1>2. Lines'
  BY <1>1, LineKept DEF BatchInv, Lines
<1>3. /\ hostPhase[conn'] = "none" /\ toHost[conn'] = <<>> /\ toNode[conn'] = <<>>
      /\ flush[conn'] = NoFlush
  BY <1>1 DEF BatchInv, Lines, Line, Unused
<1>4. Elems(toHost'[conn']) = {} /\ DOMAIN toNode'[conn'] = {}
  BY <1>1, <1>3, ElemsEmpty
<1>5. (Phases /\ Announces /\ Expecting /\ Replaying /\ Holding /\ Acknowledging)'
  BY <1>1, <1>3, <1>4 DEF Phases, Announces, Expecting, Replaying, Holding, Acknowledging, Accepted
<1> QED
  BY <1>2, <1>5 DEF BatchInv, InStep

\* The handshake is over.
LEMMA BatchOpen ==
    ASSUME TypeOK, HoldHasBatch, BatchInv, OpenChannel PROVE BatchInv'
<1>1. /\ conn \in Conns /\ conn' = conn /\ nodePhase' = "channel"
      /\ hostPhase[conn] = "none" /\ hostPhase'[conn] = "inventory"
      /\ \A c \in Conns \ {conn} : hostPhase'[c] = hostPhase[c]
      /\ UNCHANGED <<toHost, toNode, awaiting, flush, hold, inFlight, batches>>
  BY Here DEF OpenChannel, Open, TypeOK, HostType
<1>2. toHost[conn] = <<>> /\ toNode[conn] = <<>> /\ flush[conn] = NoFlush
  BY <1>1 DEF BatchInv, Lines, Line, Unused
<1>3. Elems(toHost'[conn]) = {} /\ DOMAIN toHost'[conn] = {} /\ DOMAIN toNode'[conn] = {}
  BY <1>1, <1>2, ElemsEmpty
<1>4. Line(conn)'
  <2>1. Unused(conn)'
    BY <1>1, <1>2 DEF Unused, Conns
  <2>2. Kinded(conn)'
    BY <1>1, <1>2, <1>3 DEF BatchInv, Lines, Line, Kinded, Elems
  <2>3. Lined(conn)'
    BY <1>1, <1>3 DEF Lined, Announced
  <2> QED
    BY <2>1, <2>2, <2>3 DEF Line
<1>5. ASSUME NEW c \in Conns, c # conn PROVE Line(c)'
  BY <1>1, <1>5, LineKept DEF BatchInv, Lines
<1>6. (Phases /\ Announces /\ Expecting /\ Replaying /\ Holding /\ Acknowledging)'
  BY <1>1, <1>2, <1>3 DEF Phases, Announces, Expecting, Replaying, Holding, Acknowledging, Accepted
<1> QED
  BY <1>1, <1>4, <1>5, <1>6 DEF BatchInv, Lines, InStep

\* The Node leaves its connection.
LEMMA BatchLeave ==
    ASSUME TypeOK, HoldHasBatch, BatchInv, NodeClose \/ NodeExit PROVE BatchInv'
<1>1. /\ conn' = conn /\ nodePhase' \in {"closed", "exited"}
      /\ \A c \in Conns : toNode'[c] \in {toNode[c], <<>>}
      /\ UNCHANGED <<toHost, hostPhase, awaiting, flush>>
  BY DEF NodeClose, NodeExit, hostVars, TypeOK, WireType
<1>2. Lines'
  BY <1>1, LineKept DEF BatchInv, Lines
<1> QED
  BY <1>1, <1>2 DEF BatchInv, InStep, Open

\* The Node sends its inventory.
LEMMA BatchSendReady ==
    ASSUME ConstantsAssumption, TypeOK, TypeOK', HoldHasBatch, BatchInv, SendReady
    PROVE  BatchInv'
<1> DEFINE count == IF inFlight' = 0 THEN 0 ELSE Len(batches'[inFlight'])
           f == Frame("ready", 0, inFlight', count, 0, alive)
<1>1. /\ conn \in Conns /\ nodePhase = "channel" /\ nodePhase' = "ready"
      /\ Transmit(<<f>>) /\ UNCHANGED <<conn, toNode, hostPhase, awaiting, flush>>
  BY Here DEF SendReady, Open, hostVars
<1>2. f.kind = "ready" /\ f.fid = IF hold' THEN inFlight' ELSE 0
  <2>1. ~hold' => inFlight' = 0
    BY DEF SendReady
  <2> QED
    BY <2>1 DEF Frame
<1>3. f \in FrameType
  <2>1. inFlight' \in Nat /\ count \in Nat
    <3>1. CASE inFlight' = 0
      BY <3>1
    <3>2. CASE inFlight' # 0
      <4>1. batches'[inFlight'] \in Seq(Events) /\ inFlight' \in Nat
        BY <3>2 DEF TypeOK, NodeType
      <4> QED
        BY <3>2, <4>1
    <3> QED
      BY <3>1, <3>2
  <2>2. "ready" \in Kinds \ {"event"} /\ alive \in BOOLEAN
    BY DEF Kinds, TypeOK, NodeType
  <2> HIDE DEF count
  <2> QED
    BY <2>1, <2>2, SummaryTyped
<1> HIDE DEF f
<1>4. /\ hostPhase[conn] \notin {"none", "accepted"}
      /\ \A g \in Elems(toHost[conn]) : g.kind # "ready"
      /\ \A g \in Elems(toNode[conn]) : g.kind # "ack"
  BY <1>1, NoAckYet DEF BatchInv, InStep, Open, Phases
<1>5. /\ <<f>> \in Seq(FrameType) /\ Elems(<<f>>) = {f} /\ toHost[conn] \in Seq(FrameType)
  BY <1>1, <1>3, OneFrame DEF Elems, TypeOK, WireType
<1>6. hostPhase[conn] = "inventory" => Announced(toHost[conn] \o <<f>>)
  <2>1. ~Batched(f) /\ \A i \in DOMAIN toHost[conn] : toHost[conn][i].kind # "ready"
    BY <1>2, <1>4 DEF Batched, Elems
  <2> QED
    BY <1>1, <1>3, <1>5, <2>1, AnnouncedBehind DEF BatchInv, Lines, Line, Lined
<1>7. /\ \A c \in Conns \ {conn} : toHost'[c] = toHost[c]
      /\ toHost'[conn] = IF Gone(conn) THEN toHost[conn] ELSE toHost[conn] \o <<f>>
  BY <1>1, Sends DEF TypeOK
<1>8. /\ Lines' /\ Elems(toHost'[conn]) \subseteq Elems(toHost[conn]) \cup Elems(<<f>>)
  BY <1>1, <1>2, <1>4, <1>5, <1>6, <1>7, LinesSent
<1>9. (Phases /\ Announces /\ Expecting /\ Replaying /\ Holding /\ Acknowledging)'
  <2>1. \A g \in Elems(toHost'[conn']) : g.kind = "ready" => g = f
    BY <1>1, <1>4, <1>5, <1>8
  <2>2. Announces'
    BY <1>2, <2>1 DEF Announces, Elems
  <2>3. (Phases /\ Expecting /\ Replaying /\ Holding)'
    BY <1>1, <1>4 DEF Phases, Expecting, Replaying, Holding, Accepted
  <2>4. Acknowledging'
    BY <1>1, <1>4 DEF Acknowledging, Elems
  <2> QED
    BY <2>2, <2>3, <2>4
<1> QED
  BY <1>8, <1>9 DEF BatchInv, InStep

\* The Node is welcomed, and replays what it held.
LEMMA BatchWelcome ==
    ASSUME ConstantsAssumption, TypeOK, HoldHasBatch, BatchInv, HandleWelcome
    PROVE  BatchInv'
<1> DEFINE fs == FlushFrames(inFlight, batches[inFlight])
<1>1. /\ conn \in Conns /\ nodePhase = "ready" /\ nodePhase' = "welcomed" /\ toNode[conn] # <<>>
      /\ toNode'[conn] = Tail(toNode[conn])
      /\ \A c \in Conns \ {conn} : toNode'[c] = toNode[c]
      /\ UNCHANGED <<conn, hold, inFlight, batches, hostPhase, awaiting, flush>>
  BY Here DEF HandleWelcome, Open, hostVars, TypeOK, WireType
<1>2. /\ hostPhase[conn] \notin {"none", "inventory"}
      /\ \A g \in Elems(toNode[conn]) : g.kind # "ack"
      /\ Accepted => \A g \in Elems(toHost[conn]) : ~Batched(g)
  BY <1>1, NoAckYet DEF BatchInv, InStep, Open, Lines, Line, Unused, Replaying
<1>3. CASE hold
  <2>1. /\ inFlight \in Nat \ {0} /\ batches[inFlight] \in Seq(Events) /\ alive \in BOOLEAN
        /\ toHost[conn] \in Seq(FrameType)
    BY <1>1, <1>3 DEF HoldHasBatch, TypeOK, NodeType, WireType
  <2>2. fs \in Seq(FrameType)
    BY <2>1, FlushFramesTyped
  <2>3. \A g \in Elems(fs) : g.kind \in {"event", "flushed"} /\ g.fid = inFlight
    BY <2>1, FlushKinds
  <2>4. /\ \A c \in Conns \ {conn} : toHost'[c] = toHost[c]
        /\ toHost'[conn] = IF Gone(conn) THEN toHost[conn] ELSE toHost[conn] \o fs
    <3>1. Transmit(fs)
      BY <1>3 DEF HandleWelcome
    <3> QED
      BY <1>1, <3>1, Sends DEF TypeOK
  <2>5. hostPhase[conn] = "accepted" => InOrder(toHost[conn] \o fs, flush[conn])
    <3>1. SUFFICES ASSUME hostPhase[conn] = "accepted"
                   PROVE  InOrder(toHost[conn] \o fs, flush[conn])
      OBVIOUS
    <3>2. /\ \A i \in DOMAIN toHost[conn] : Beat(toHost[conn][i])
          /\ flush[conn] = [fid |-> inFlight, count |-> Len(batches[inFlight]), next |-> 0]
      BY <1>1, <1>3, <3>1 DEF BatchInv, InStep, Open, Expecting, Accepted, Quiet, Elems
    <3> QED
      BY <2>1, <3>2, OrderBatch
  <2> HIDE DEF fs
  <2>6. /\ Lines' /\ Elems(toHost'[conn]) \subseteq Elems(toHost[conn]) \cup Elems(fs)
        /\ Elems(toNode'[conn]) \subseteq Elems(toNode[conn])
    BY <1>1, <1>2, <2>1, <2>2, <2>3, <2>4, <2>5, LinesSent
  <2>7. (Phases /\ Announces /\ Expecting)'
    BY <1>1, <1>2 DEF Phases, Announces, Expecting
  <2>8. Replaying'
    <3>1. NoAck'
      BY <1>1, <1>2, <2>6 DEF NoAck, Elems
    <3>2. Accepted' => \A g \in Elems(toHost'[conn]) : Batched(g) => g.fid = inFlight
      BY <1>1, <1>2, <2>3, <2>6 DEF Accepted
    <3> QED
      BY <1>1, <1>3, <3>1, <3>2 DEF Replaying, Elems
  <2>9. Holding' /\ Acknowledging'
    BY <1>1, <1>2, <1>3, <2>6 DEF Holding, Acknowledging, Elems
  <2> QED
    BY <1>1, <2>6, <2>7, <2>8, <2>9 DEF BatchInv, InStep
<1>4. CASE ~hold
  <2>1. /\ toHost' = toHost /\ <<>> \in Seq(FrameType) /\ Elems(<<>>) = {}
    BY <1>4, EmptyTyped, ElemsEmpty DEF HandleWelcome
  <2>2. /\ Lines' /\ Elems(toNode'[conn]) \subseteq Elems(toNode[conn])
    BY <1>1, <1>2, <2>1, LinesSent
  <2>3. (Phases /\ Announces /\ Expecting)'
    BY <1>1, <1>2 DEF Phases, Announces, Expecting
  <2>4. Replaying'
    BY <1>1, <1>2, <2>1 DEF Replaying, Accepted, Elems
  <2>5. Holding' /\ Acknowledging'
    <3>1. Holding
      BY <1>1 DEF BatchInv, InStep, Open
    <3> QED
      BY <1>1, <1>2, <2>2, <3>1 DEF Holding, Accepted, Acknowledging, Elems
  <2> QED
    BY <1>1, <2>2, <2>3, <2>4, <2>5 DEF BatchInv, InStep
<1> QED
  BY <1>3, <1>4

\* The Node is told the batch arrived, and sends what piled up meanwhile.
LEMMA BatchAck ==
    ASSUME ConstantsAssumption, TypeOK, HoldHasBatch, BatchInv, HandleAck
    PROVE  BatchInv'
<1>1. /\ conn \in Conns /\ nodePhase = "welcomed" /\ nodePhase' = "welcomed"
      /\ toNode[conn] # <<>> /\ Head(toNode[conn]).kind = "ack" /\ hold /\ inFlight # 0
      /\ toNode'[conn] = Tail(toNode[conn])
      /\ \A c \in Conns \ {conn} : toNode'[c] = toNode[c]
      /\ UNCHANGED <<conn, hostPhase, awaiting, flush>>
  BY Here DEF HandleAck, Open, hostVars, TypeOK, WireType
<1>2. toNode[conn] \in Seq(FrameType) /\ toHost[conn] \in Seq(FrameType)
  BY <1>1 DEF TypeOK, WireType
<1>3. /\ hostPhase[conn] \notin {"none", "inventory"}
      /\ Accepted => Quiet /\ flush[conn] = NoFlush
      /\ \A j \in DOMAIN toNode[conn] : toNode[conn][j].kind = "ack" => j = 1
  <2>1. 1 \in DOMAIN toNode[conn] /\ toNode[conn][1] = Head(toNode[conn])
    BY <1>1, <1>2
  <2> QED
    BY <1>1, <2>1 DEF BatchInv, InStep, Open, Phases, Acknowledging
<1>4. \A g \in Elems(toNode'[conn]) : g.kind # "ack"
  <2>1. \A i \in DOMAIN Tail(toNode[conn]) : /\ Tail(toNode[conn])[i] = toNode[conn][i + 1]
                                             /\ i + 1 \in DOMAIN toNode[conn] /\ i + 1 # 1
    BY <1>1, <1>2
  <2> QED
    BY <1>1, <1>3, <2>1 DEF Elems
<1>5. (Phases /\ Announces /\ Expecting /\ Acknowledging)'
  BY <1>1, <1>3, <1>4 DEF Phases, Announces, Expecting, Acknowledging, Elems
<1>6. CASE pending # <<>>
  <2> DEFINE fs == FlushFrames(inFlight', pending)
  <2>1. /\ inFlight' \in Nat \ {0} /\ pending \in Seq(Events) /\ alive \in BOOLEAN
        /\ Transmit(fs) /\ UNCHANGED hold
    <3>1. inFlight' = Len(batches) + 1 /\ Transmit(fs) /\ UNCHANGED hold
      BY <1>6 DEF HandleAck
    <3>2. Len(batches) \in Nat /\ pending \in Seq(Events) /\ alive \in BOOLEAN
      BY DEF TypeOK, NodeType
    <3> QED
      BY <3>1, <3>2
  <2>2. fs \in Seq(FrameType)
    BY <2>1, FlushFramesTyped
  <2>3. \A g \in Elems(fs) : g.kind \in {"event", "flushed"} /\ g.fid = inFlight'
    BY <2>1, FlushKinds
  <2>4. hostPhase[conn] = "accepted" => InOrder(toHost[conn] \o fs, flush[conn])
    <3>1. SUFFICES ASSUME hostPhase[conn] = "accepted"
                   PROVE  InOrder(toHost[conn] \o fs, flush[conn])
      OBVIOUS
    <3>2. (\A i \in DOMAIN toHost[conn] : Beat(toHost[conn][i])) /\ flush[conn] = NoFlush
      BY <1>3, <3>1 DEF Accepted, Quiet, Elems
    <3> QED
      BY <1>2, <1>6, <2>1, <3>2, OrderBatch
  <2> HIDE DEF fs
  <2>5. /\ \A c \in Conns \ {conn} : toHost'[c] = toHost[c]
        /\ toHost'[conn] = IF Gone(conn) THEN toHost[conn] ELSE toHost[conn] \o fs
    BY <1>1, <2>1, Sends DEF TypeOK
  <2>6. /\ Lines' /\ Elems(toHost'[conn]) \subseteq Elems(toHost[conn]) \cup Elems(fs)
    BY <1>1, <1>3, <2>1, <2>2, <2>3, <2>4, <2>5, LinesSent
  <2>7. Replaying'
    <3>1. NoAck'
      BY <1>1, <1>4 DEF NoAck, Elems
    <3>2. Accepted' => \A g \in Elems(toHost'[conn]) : Batched(g) => g.fid = inFlight'
      BY <1>1, <1>3, <2>3, <2>6 DEF Accepted, Quiet, Beat, Batched
    <3> QED
      BY <1>1, <2>1, <3>1, <3>2 DEF Replaying, Elems
  <2>8. Holding'
    BY <1>1, <2>1 DEF Holding
  <2> QED
    BY <1>1, <1>5, <2>6, <2>7, <2>8 DEF BatchInv, InStep
<1>7. CASE pending = <<>>
  <2>1. /\ toHost' = toHost /\ <<>> \in Seq(FrameType)
    BY <1>7, EmptyTyped DEF HandleAck
  <2>2. Lines'
    BY <1>1, <1>3, <2>1, LinesSent
  <2>3. Replaying'
    BY <1>1, <1>3, <2>1 DEF Replaying, Accepted, Quiet, Beat, Batched, Elems
  <2>4. Holding'
    BY <1>1, <1>3 DEF Holding, Accepted
  <2> QED
    BY <1>1, <1>5, <2>2, <2>3, <2>4 DEF BatchInv, InStep
<1> QED
  BY <1>6, <1>7

\* One frame that belongs to no batch and announces none.
LEMMA BatchOne ==
    ASSUME TypeOK, HoldHasBatch, BatchInv, CanSend, NEW f \in FrameType, Transmit(<<f>>),
           UNCHANGED <<nodePhase, conn, hold, inFlight, batches, toNode>>, UNCHANGED hostVars,
           Beat(f) \/ (Live(f) /\ ~hold)
    PROVE  BatchInv'
<1>1. /\ conn \in Conns /\ Open /\ UNCHANGED <<hostPhase, awaiting, flush>>
      /\ hostPhase[conn] # "none"
      /\ hostPhase[conn] = "accepted" => nodePhase # "channel"
  BY Here DEF CanSend, Open, hostVars, BatchInv, InStep, Phases
<1>2. /\ <<f>> \in Seq(FrameType) /\ Elems(<<f>>) = {f} /\ toHost[conn] \in Seq(FrameType)
      /\ f.kind \in {"event", "heartbeat"} /\ ~Batched(f)
  BY <1>1, OneFrame DEF Elems, TypeOK, WireType, Beat, Live, Batched
<1>3. hostPhase[conn] = "inventory" => Announced(toHost[conn] \o <<f>>)
  <2>1. SUFFICES ASSUME hostPhase[conn] = "inventory" PROVE Announced(toHost[conn] \o <<f>>)
    OBVIOUS
  <2>2. \A i \in DOMAIN toHost[conn] : toHost[conn][i].kind = "ready" =>
            f.kind # "ready" /\ (toHost[conn][i].fid # 0 => Beat(f))
    BY <1>1, <1>2, <2>1 DEF CanSend, BatchInv, InStep, Phases, Announces, Elems
  <2> QED
    BY <1>1, <1>2, <2>1, <2>2, AnnouncedBehind DEF BatchInv, Lines, Line, Lined
<1>4. hostPhase[conn] = "accepted" => InOrder(toHost[conn] \o <<f>>, flush[conn])
  <2>1. SUFFICES ASSUME hostPhase[conn] = "accepted"
                 PROVE  InOrder(toHost[conn] \o <<f>>, flush[conn])
    OBVIOUS
  <2>2. CASE Beat(f)
    BY <1>1, <1>2, <2>1, <2>2, OrderBeat DEF BatchInv, Lines, Line, Lined
  <2>3. CASE ~hold
    <3>1. flush[conn] = NoFlush /\ \A i \in DOMAIN toHost[conn] : ~Batched(toHost[conn][i])
      BY <1>1, <2>1, <2>3 DEF BatchInv, InStep, Holding, Replaying, Accepted, Elems
    <3> QED
      BY <1>2, <3>1, OrderLive
  <2> QED
    BY <2>2, <2>3
<1>5. /\ \A c \in Conns \ {conn} : toHost'[c] = toHost[c]
      /\ toHost'[conn] = IF Gone(conn) THEN toHost[conn] ELSE toHost[conn] \o <<f>>
  BY <1>1, Sends DEF TypeOK
<1>6. Lines' /\ Elems(toHost'[conn']) \subseteq Elems(toHost[conn]) \cup {f}
  <2>1. \A g \in Elems(<<f>>) : /\ g.kind \in {"ready", "event", "flushed", "heartbeat"}
                                /\ g.kind = "flushed" => g.fid # 0
    BY <1>2
  <2>2. Lines' /\ Elems(toHost'[conn]) \subseteq Elems(toHost[conn]) \cup Elems(<<f>>)
    BY <1>1, <1>2, <1>3, <1>4, <1>5, <2>1, LinesSent
  <2> QED
    BY <1>1, <1>2, <2>2
<1> USE DEF BatchInv, InStep, Accepted
<1>7. Phases' /\ Announces'
  BY <1>1, <1>2, <1>6 DEF Phases, Announces, Elems
<1>8. Quiet /\ Beat(f) => Quiet'
  BY <1>6 DEF Quiet, Elems
<1>9. Expecting'
  BY <1>1, <1>8 DEF Expecting
<1>10. Replaying'
  <2>1. NoAck => NoAck'
    BY DEF NoAck, Elems
  <2> QED
    BY <1>1, <1>2, <1>6, <2>1 DEF Replaying, Elems
<1>11. Holding'
  BY <1>1 DEF Holding
<1>12. Acknowledging'
  BY <1>1, <1>8 DEF Acknowledging
<1> QED
  BY <1>6, <1>7, <1>9, <1>10, <1>11, <1>12

LEMMA BatchHeartbeat ==
    ASSUME ConstantsAssumption, TypeOK, HoldHasBatch, BatchInv, Heartbeat PROVE BatchInv'
<1> DEFINE f == Frame("heartbeat", 0, 0, 0, 0, alive)
<1>1. f \in FrameType
  <2>1. "heartbeat" \in Kinds \ {"event"} /\ alive \in BOOLEAN
    BY DEF Kinds, TypeOK, NodeType
  <2> QED
    BY <2>1, SummaryTyped
<1>2. Beat(f)
  BY DEF Beat, Frame
<1>3. /\ CanSend /\ Transmit(<<f>>) /\ UNCHANGED hostVars
      /\ UNCHANGED <<nodePhase, conn, hold, inFlight, batches, toNode>>
  BY DEF Heartbeat, nodeVars
<1> HIDE DEF f
<1> QED
  BY <1>1, <1>2, <1>3, BatchOne

\* Nothing moved on any connection.
LEMMA BatchIdle ==
    ASSUME TypeOK, HoldHasBatch, BatchInv,
           UNCHANGED <<nodePhase, conn, hold, inFlight, batches, toHost, toNode,
                       hostPhase, awaiting, flush>>
    PROVE  BatchInv'
<1>1. Lines'
  BY LineKept DEF BatchInv, Lines
<1>2. InStep'
  BY StepKept DEF BatchInv
<1> QED
  BY <1>1, <1>2 DEF BatchInv

\* An event is raised: sent at once, or held back.
LEMMA BatchRaise ==
    ASSUME ConstantsAssumption, TypeOK, HoldHasBatch, BatchInv, RaiseEvent \/ RaiseTerminal
    PROVE  BatchInv'
<1> DEFINE e == raised + 1
<1>1. e \in Events /\ Emit(e)
  BY DEF RaiseEvent, RaiseTerminal, TypeOK, NodeType, Events, ConstantsAssumption
<1> HIDE DEF e
<1>2. /\ UNCHANGED <<batches, inFlight, hold, conn, nodePhase, toNode>> /\ UNCHANGED hostVars
      /\ UNCHANGED <<hostPhase, awaiting, flush>>
  BY <1>1 DEF Emit, hostVars
<1>3. CASE ~hold /\ CanSend /\ Transmit(<<LiveEvent(e)>>)
  <2>1. LiveEvent(e) \in FrameType
    BY <1>1 DEF LiveEvent, Frame, FrameType, Events, Kinds, ConstantsAssumption
  <2>2. Live(LiveEvent(e))
    BY DEF Live, LiveEvent, Frame
  <2> QED
    BY <1>2, <1>3, <2>1, <2>2, BatchOne
<1>4. CASE UNCHANGED toHost
  BY <1>2, <1>4, BatchIdle
<1> QED
  BY <1>1, <1>3, <1>4 DEF Emit

LEMMA BatchNext ==
    ASSUME ConstantsAssumption, TypeOK, TypeOK', FramesAgree, HoldHasBatch, BatchInv, [Next]_vars
    PROVE  BatchInv'
<1>1. CASE RaiseEvent \/ RaiseTerminal \/ Heartbeat
  BY <1>1, BatchRaise, BatchHeartbeat
<1>2. CASE NodeStep
  BY <1>2, BatchDial, BatchOpen, BatchSendReady, BatchWelcome, BatchAck DEF NodeStep
<1>3. CASE NodeClose \/ NodeExit
  BY <1>3, BatchLeave
<1>4. ASSUME NEW c \in Conns, HostStep(c) \/ HostDropLink(c) PROVE BatchInv'
  BY <1>4, BatchReady, BatchHostEvent, BatchFlushed, BatchEnded DEF HostStep
<1>5. CASE HostRestart
  BY <1>5, BatchRestart
<1>6. CASE UNCHANGED vars
  BY <1>6, BatchIdle DEF vars
<1> QED
  BY <1>1, <1>2, <1>3, <1>4, <1>5, <1>6 DEF Next

\* What the first frame must be, and what an acknowledgment must name.
LEMMA BatchMeans == ASSUME TypeOK, BatchInv PROVE SameBatch
<1>1. AckExpected
  BY DEF BatchInv, InStep, Open, Acknowledging, AckExpected
<1>2. ASSUME NEW c \in Conns, hostPhase[c] = "accepted", toHost[c] # <<>>
      PROVE  LET frame == Head(toHost[c])
             IN  /\ frame.kind = "event" =>
                        IF frame.fid = 0 THEN flush[c] = NoFlush ELSE InPosition(c, frame)
                 /\ frame.kind = "flushed" =>
                        /\ awaiting[c]
                        /\ flush[c] = [fid |-> frame.fid, count |-> frame.count,
                                       next |-> frame.count]
  <2> DEFINE f == Head(toHost[c])
             s == toHost[c]
  <2>1. /\ 1 \in DOMAIN s /\ s[1] = f /\ f \in FrameType
        /\ f \in Elems(s)
    BY <1>2, ElemsTail DEF TypeOK, WireType
  <2>2. /\ Live(f) => flush[c] = NoFlush
        /\ Batched(f) => IF Pos(f) = 1 THEN Starts(s, 1, flush[c])
                         ELSE flush[c] = At(f, Pos(f) - 1)
        /\ f.kind = "flushed" => f.fid # 0
        /\ flush[c] # NoFlush => awaiting[c] /\ flush[c].fid # 0
    BY <1>2, <2>1 DEF BatchInv, Lines, Line, Lined, Kinded, InOrder, Follows
  <2>3. f.kind = "event" => IF f.fid = 0 THEN flush[c] = NoFlush ELSE InPosition(c, f)
    <3>1. CASE f.kind = "event" /\ f.fid = 0
      BY <2>2, <3>1 DEF Live
    <3>2. CASE f.kind = "event" /\ f.fid # 0
      <4>1. /\ f.index \in Nat /\ Batched(f) /\ Pos(f) = f.index
        BY <2>1, <3>2 DEF FrameType, Batched, Pos
      <4>2. CASE f.index = 1
        BY <2>1, <2>2, <3>2, <4>1, <4>2 DEF Starts, At, InPosition, Tracked
      <4>3. CASE f.index # 1
        BY <2>2, <3>2, <4>1, <4>3 DEF At, InPosition, Tracked, NoFlush
      <4> QED
        BY <4>2, <4>3
    <3> QED
      BY <3>1, <3>2
  <2>4. f.kind = "flushed" =>
            awaiting[c] /\ flush[c] = [fid |-> f.fid, count |-> f.count, next |-> f.count]
    <3>1. SUFFICES ASSUME f.kind = "flushed"
                   PROVE  awaiting[c] /\ flush[c] = At(f, f.count) /\ flush[c] # NoFlush
      BY DEF At
    <3>2. f.count \in Nat /\ f.fid # 0 /\ Batched(f) /\ Pos(f) = f.count + 1
      BY <2>1, <2>2, <3>1 DEF FrameType, Batched, Pos
    <3>3. flush[c] = At(f, f.count)
      <4>1. CASE f.count = 0
        BY <2>1, <2>2, <3>1, <3>2, <4>1 DEF Starts
      <4>2. CASE f.count # 0
        BY <2>2, <3>2, <4>2
      <4> QED
        BY <4>1, <4>2
    <3> QED
      BY <2>2, <3>2, <3>3 DEF At, NoFlush
  <2> QED
    BY <2>3, <2>4
<1> QED
  BY <1>1, <1>2 DEF SameBatch, BatchesAgree

\* For every capacity, number of events and number of connections: across lost
\* acknowledgments, resent batches and second batches, an acknowledgment the
\* Node reads names the batch it holds, and the Host never has a frame of a
\* replay to refuse: rejectOutbox and the two 1008 closes are not reached.
THEOREM SameBatchAlways == Spec => []SameBatch
<1>1. Init => TypeOK /\ FramesAgree /\ HoldHasBatch /\ BatchInv
  BY ConstantsAssumption, TypeInit, IInvInit, BatchInit DEF IInv
<1>2. TypeOK /\ FramesAgree /\ HoldHasBatch /\ BatchInv /\ [Next]_vars
          => (TypeOK /\ FramesAgree /\ HoldHasBatch /\ BatchInv)'
  BY ConstantsAssumption, TypeNext, HoldNext, FramesNext, BatchNext
<1>3. TypeOK /\ BatchInv => SameBatch
  BY BatchMeans
<1> QED
  BY <1>1, <1>2, <1>3, PTL DEF Spec
=============================================================================
