------------------------ MODULE EncoderSessionProofs ------------------------
(***************************************************************************)
(* Proofs about EncoderSession for any number of clients, any queue size   *)
(* and any set of backend errors: types, the order of the work, what       *)
(* becomes of accepted frames, that the session implements OrderedPipeline *)
(* and that no thread misses its wakeup.                                   *)
(***************************************************************************)
EXTENDS EncoderSession, SequenceTheorems, FiniteSetTheorems, TLAPS

\* CpuSubmission::complete only writes terminal results.
LEMMA CompletedType ==
    ASSUME NEW numbers, NEW result \in Statuses, submission \in Seq(Statuses)
    PROVE  /\ Completed(numbers, result) \in Seq(Statuses)
           /\ Len(Completed(numbers, result)) = Len(submission)
<1>1. DOMAIN submission = 1..Len(submission) /\ Len(submission) \in Nat
  BY LenProperties
<1>2. \A n \in 1..Len(submission) : submission[n] \in Statuses
  BY ElementOfSeq
<1>3. Completed(numbers, result) \in [1..Len(submission) -> Statuses]
  BY <1>1, <1>2 DEF Completed
<1> QED
  BY <1>1, <1>3, SeqDef DEF Completed

\* A pushed item leaves a well-typed queue that keeps within its capacity.
LEMMA PushType ==
    ASSUME TypeOK, HasRoom, NEW item \in Items, Push(item)
    PROVE  queue' \in Seq(Items) /\ Len(queue') <= Capacity
<1> QED
  BY AppendProperties, LenProperties, CapacityAssumption DEF TypeOK, SessionType, HasRoom, Push

\* Taking the head does too, and the head is an item.
LEMMA TakeType ==
    ASSUME TypeOK, queue # <<>>, TakeItem
    PROVE  queue' \in Seq(Items) /\ Len(queue') <= Capacity /\ active' \in Items
<1> QED
  BY HeadTailProperties, LenProperties, CapacityAssumption DEF TypeOK, SessionType, TakeItem

LEMMA QueuedItemsType ==
    ASSUME SessionType
    PROVE  QueuedItems \subseteq Items
<1>1. \A i \in 1..Len(queue) : queue[i] \in Items
  BY ElementOfSeq DEF SessionType
<1> QED
  BY <1>1 DEF QueuedItems

\* What pushing, taking and clearing do to the set of queued items.
LEMMA PushItems ==
    ASSUME SessionType, NEW item \in Items, Push(item)
    PROVE  QueuedItems' = QueuedItems \cup {item}
<1>1. /\ Len(queue') = Len(queue) + 1 /\ Len(queue) \in Nat
      /\ \A i \in 1..Len(queue) : queue'[i] = queue[i]
      /\ queue'[Len(queue) + 1] = item
  BY AppendProperties, LenProperties DEF SessionType, Push
<1>2. 1..Len(queue') = 1..Len(queue) \cup {Len(queue) + 1}
  BY <1>1
<1> QED
  BY <1>1, <1>2 DEF QueuedItems

LEMMA TakeItems ==
    ASSUME SessionType, queue # <<>>, TakeItem
    PROVE  /\ active' = queue[1] /\ active' \in QueuedItems
           /\ Len(queue) \in Nat /\ Len(queue') = Len(queue) - 1
           /\ \A i \in 1..Len(queue') : queue'[i] = queue[i + 1]
           /\ QueuedItems' \subseteq QueuedItems
<1>1. Len(queue) \in Nat \ {0} /\ active' = queue[1]
  BY EmptySeq, LenProperties DEF SessionType, TakeItem
<1>2. /\ Len(queue') = Len(queue) - 1
      /\ \A i \in 1..Len(queue') : queue'[i] = queue[i + 1]
  BY HeadTailProperties DEF SessionType, TakeItem
<1>3. \A i \in 1..Len(queue') : i + 1 \in 1..Len(queue)
  BY <1>1, <1>2
<1> QED
  BY <1>1, <1>2, <1>3 DEF QueuedItems

LEMMA NoItems == queue = <<>> => QueuedItems = {}
<1> QED
  BY DEF QueuedItems

LEMMA InitType == Init => TypeOK
<1> SUFFICES ASSUME Init PROVE TypeOK
  OBVIOUS
<1>0. FlagType
  BY DEF Init, FlagType
<1>1. SessionType
  <2>1. <<>> \in Seq(Items) /\ Len(<<>>) = 0 /\ <<>> \in Seq(Statuses)
    BY EmptySeq
  <2> QED
    BY <2>1, CapacityAssumption DEF Init, SessionType
<1>2. WorkerType
  BY EmptySeq DEF Init, WorkerType
<1>3. ClientType
  BY BoundAssumption
  DEF Init, ClientType, ClientPcs, SpaceWaits, Results
<1> QED
  BY <1>0, <1>1, <1>2, <1>3 DEF TypeOK

-----------------------------------------------------------------------------
(* Steps that leave the session and the worker alone.                      *)

LEMMA LocalUnchanged ==
    ASSUME NEW c \in Clients, LocalStep(c) \/ LocalCall(c)
    PROVE  UNCHANGED <<session, worker>>
<1>1. ASSUME LocalStep(c) PROVE UNCHANGED <<session, worker>>
  BY <1>1
  DEF LocalStep, ReserveWaits, ReserveWouldBlock, ReserveStopped, CopyDone,
      CopyThrows, PublishWaits, RoomWaits, RoomStopped, FlushSleeps,
      FlushReturns, WaitSleeps, WaitReturns, Join, JoinRaces, CloseReturns
<1>2. ASSUME LocalCall(c) PROVE UNCHANGED <<session, worker>>
  BY <1>2 DEF LocalCall, Write, Call, WaitCall, CancelRefused
<1> QED
  BY <1>1, <1>2

LEMMA UnchangedType ==
    ASSUME TypeOK, UNCHANGED <<session, worker>>
    PROVE  SessionType' /\ WorkerType'
<1> QED
  BY DEF TypeOK, SessionType, WorkerType, session, worker, flags, tokens, backend

-----------------------------------------------------------------------------
(* Client variables.                                                       *)

LEMMA GotoType ==
    ASSUME ClientType, NEW c \in Clients, NEW l \in ClientPcs, Goto(c, l)
    PROVE  pc' \in [Clients -> ClientPcs] /\ ret' \in [Clients -> Results]
<1> QED
  BY DEF ClientType, Goto, Results

LEMMA ReturnType ==
    ASSUME ClientType, NEW c \in Clients, NEW r \in Results, Return(c, r)
    PROVE  /\ pc' \in [Clients -> ClientPcs] /\ ret' \in [Clients -> Results]
           /\ token' \in [Clients -> Nat] /\ mark' \in [Clients -> Nat]
           /\ waited' \in [Clients -> Nat]
<1> QED
  BY DEF ClientType, Return, ClientPcs

LEMMA StopResultType ==
    ASSUME TypeOK
    PROVE  StopResult \in Results /\ terminal_result \in Results
<1> QED
  BY DEF TypeOK, SessionType, StopResult, Results, Terminal

LEMMA FlagTypeStep ==
    ASSUME TypeOK, Next
    PROVE  FlagType'
<1>1. FlagType
  BY DEF TypeOK
<1>2. ASSUME NEW c \in Clients, LocalStep(c) PROVE FlagType'
  BY <1>1, <1>2, ZenonT(60)
  DEF FlagType, LocalStep, ReserveWaits, ReserveWouldBlock, ReserveStopped,
      CopyDone, CopyThrows, PublishWaits, RoomWaits, RoomStopped, FlushSleeps,
      FlushReturns, WaitSleeps, WaitReturns, Join, JoinRaces, CloseReturns,
      Return, session, worker, client, locals, flags, backend
<1>3. ASSUME NEW c \in Clients, LocalCall(c) PROVE FlagType'
  BY <1>1, <1>3
  DEF FlagType, LocalCall, Write, Call, WaitCall, CancelRefused, Return,
      session, worker, locals, flags, backend
<1>4. ASSUME NEW c \in Clients, SessionStep(c) PROVE FlagType'
  BY <1>1, <1>4
  DEF FlagType, SessionStep, ReserveTakes, CopyRefused, PublishStopped,
      PublishWouldBlock, Publish, SubmitBorrowed, FlushPush, GiveBack, Return,
      worker, locals, flags, backend
<1>5. ASSUME NEW c \in Clients, Cancel(c) \/ CloseRequest(c) PROVE FlagType'
  BY <1>1, <1>5
  DEF FlagType, Cancel, CloseRequest, Return, session, worker, locals, flags,
      backend
<1>6. ASSUME WorkerStep PROVE FlagType'
  BY <1>1, <1>6
  DEF FlagType, WorkerStep, WorkerSleeps, WorkerPops, WorkerStops,
      FrameEncoded, FlushDone, BackendFails, BackendCloses, BackendThrows,
      RecordFailure, session, worker, client, locals, flags, backend
<1>7. ASSUME Quiescent PROVE FlagType'
  BY <1>1, <1>7
  DEF FlagType, Quiescent, vars, session, worker, client, locals, flags, backend
<1> QED
  BY <1>2, <1>3, <1>4, <1>5, <1>6, <1>7 DEF Next, ClientStep, ClientCall

LEMMA SessionTypeStep ==
    ASSUME TypeOK, LocalsOK, Next
    PROVE  SessionType'
<1> USE DEF TypeOK, SessionType
<1>1. ASSUME NEW c \in Clients, LocalStep(c) \/ LocalCall(c)
      PROVE  SessionType'
  BY <1>1, LocalUnchanged, UnchangedType
<1>2. accepted_frames \in Nat
  BY LenProperties DEF accepted_frames
<1>3. ASSUME NEW c \in Clients, SessionStep(c) PROVE SessionType'
  <2>1. CASE ReserveTakes(c)
    BY <2>1 DEF ReserveTakes, flags, tokens
  <2>2. CASE CopyRefused(c) \/ PublishStopped(c) \/ PublishWouldBlock(c)
    <3>1. held[c] \in Slots
      BY <2>2 DEF LocalsOK, HeldOK, CopyRefused, PublishStopped, PublishWouldBlock, Awake
    <3>2. GiveBack(c)
      BY <2>2 DEF CopyRefused, PublishStopped, PublishWouldBlock
    <3> QED
      BY <3>1, <3>2 DEF GiveBack, flags, tokens
  <2>3. CASE Publish(c)
    <3> DEFINE item == [type |-> "owned", no |-> accepted_frames + 1,
                        token |-> 0, slot |-> held[c]]
    <3>1. item \in Items
      BY <1>2, <2>3 DEF ClientType, Items, FrameTypes
    <3>2. queue' \in Seq(Items) /\ Len(queue') <= Capacity
      BY <2>3, <3>1, PushType DEF Publish
    <3>3. submission' \in Seq(Statuses)
      BY <2>3, AppendProperties DEF Publish, Statuses
    <3> QED
      BY <2>3, <3>2, <3>3 DEF Publish, flags, tokens
  <2>4. CASE SubmitBorrowed(c)
    <3> DEFINE item == [type |-> "borrowed", no |-> accepted_frames + 1,
                        token |-> 0, slot |-> NoSlot]
    <3>1. item \in Items
      BY <1>2 DEF Items, FrameTypes
    <3>2. queue' \in Seq(Items) /\ Len(queue') <= Capacity
      BY <2>4, <3>1, PushType DEF SubmitBorrowed
    <3>3. submission' \in Seq(Statuses)
      BY <2>4, AppendProperties DEF SubmitBorrowed, Statuses
    <3> QED
      BY <2>4, <3>2, <3>3 DEF SubmitBorrowed, flags, tokens
  <2>5. CASE FlushPush(c)
    <3> DEFINE item == [type |-> "flush", no |-> accepted_frames,
                        token |-> next_flush_token + 1, slot |-> NoSlot]
    <3>1. item \in Items
      BY <1>2 DEF Items, FrameTypes
    <3>2. queue' \in Seq(Items) /\ Len(queue') <= Capacity
      BY <2>5, <3>1, PushType DEF FlushPush
    <3> QED
      BY <2>5, <3>2 DEF FlushPush, flags
  <2> QED
    BY <1>3, <2>1, <2>2, <2>3, <2>4, <2>5 DEF SessionStep
<1>4. ASSUME NEW c \in Clients, Cancel(c) \/ CloseRequest(c) PROVE SessionType'
  <2>1. CASE Cancel(c)
    <3>1. submission' \in Seq(Statuses)
      BY <2>1, CompletedType DEF Cancel, Statuses, Terminal
    <3>2. QueuedSlots \subseteq Slots
      BY QueuedItemsType DEF QueuedSlots, Items
    <3>3. <<>> \in Seq(Items) /\ Len(<<>>) = 0
      BY EmptySeq
    <3> QED
      BY <2>1, <3>1, <3>2, <3>3, CapacityAssumption DEF Cancel, tokens
  <2>2. CASE CloseRequest(c)
    BY <2>2 DEF CloseRequest, session, flags, tokens
  <2> QED
    BY <1>4, <2>1, <2>2
<1>5. ASSUME WorkerStep PROVE SessionType'
  <2>0. \A r \in Failures \cup {"OK", "CANCELLED"} : r \in Statuses
    BY DEF Statuses, Terminal
  <2>1. CASE WorkerSleeps \/ WorkerStops
    BY <2>1 DEF WorkerSleeps, WorkerStops, session, flags, tokens
  <2>2. CASE WorkerPops
    BY <2>2, TakeType DEF WorkerPops, flags, tokens
  <2>3. active.slot \in Slots \cup {NoSlot}
    BY DEF WorkerType, Items, NoItem
  <2>4. CASE FrameEncoded
    BY <2>0, <2>3, <2>4, CompletedType DEF FrameEncoded, RecycleActive, flags, tokens
  <2>5. CASE FlushDone
    BY <2>5 DEF FlushDone, flags, WorkerType, Items, NoItem
  <2>6. ASSUME NEW e \in BackendErrors, BackendFails(e) PROVE SessionType'
    <3>1. e \in Failures
      BY DEF Failures
    <3>2. submission' \in Seq(Statuses)
      BY <2>0, <2>6, <3>1, CompletedType DEF BackendFails
    <3>3. <<>> \in Seq(Items) /\ Len(<<>>) = 0
      BY EmptySeq
    <3> QED
      BY <2>3, <2>6, <3>1, <3>2, <3>3, CapacityAssumption
      DEF BackendFails, RecordFailure, RecycleActive, tokens
  <2>7. ASSUME NEW r \in BackendErrors \cup {"OK"}, BackendCloses(r)
        PROVE  SessionType'
    BY <2>7 DEF BackendCloses, tokens, Failures
  <2>8. CASE BackendThrows
    <3>1. submission' \in Seq(Statuses)
      BY <2>0, <2>8, CompletedType DEF BackendThrows, Failures
    <3> QED
      BY <2>8, <3>1 DEF BackendThrows, tokens, Failures
  <2> QED
    BY <1>5, <2>1, <2>2, <2>4, <2>5, <2>6, <2>7, <2>8 DEF WorkerStep
<1>6. ASSUME Quiescent PROVE SessionType'
  BY <1>6, UnchangedType DEF Quiescent, vars
<1> QED
  BY <1>1, <1>3, <1>4, <1>5, <1>6 DEF Next, ClientStep, ClientCall

LEMMA WorkerTypeStep ==
    ASSUME TypeOK, Next
    PROVE  WorkerType'
<1> USE DEF TypeOK, WorkerType
<1>1. ASSUME NEW c \in Clients, LocalStep(c) \/ LocalCall(c)
      PROVE  WorkerType'
  BY <1>1, LocalUnchanged, UnchangedType
<1>2. ASSUME NEW c \in Clients,
             SessionStep(c) \/ Cancel(c) \/ CloseRequest(c)
      PROVE  WorkerType'
  BY <1>2
  DEF SessionStep, ReserveTakes, CopyRefused, PublishStopped, PublishWouldBlock,
      Publish, SubmitBorrowed, FlushPush, Cancel, CloseRequest, worker, backend
<1>3. ASSUME WorkerStep PROVE WorkerType'
  <2>1. CASE WorkerSleeps
    BY <2>1, UnchangedType DEF WorkerSleeps
  <2>2. CASE WorkerStops
    BY <2>2 DEF WorkerStops, backend
  <2>3. CASE WorkerPops
    <3>1. active' \in Items
      BY <2>3, TakeType DEF WorkerPops
    <3>2. active'.no \in Nat
      BY <3>1 DEF Items
    <3> QED
      BY <2>3, <3>1, <3>2 DEF WorkerPops, backend
  <2>4. CASE FrameEncoded
    <3>1. active.no \in Nat
      BY DEF Items, NoItem
    <3>2. encoded' \in Seq(Nat)
      BY <2>4, <3>1, AppendProperties DEF FrameEncoded
    <3> QED
      BY <2>4, <3>2 DEF FrameEncoded
  <2>5. CASE FlushDone
    <3>1. completed_frames \in Nat
      BY LenProperties DEF completed_frames
    <3> QED
      BY <2>5, <3>1 DEF FlushDone
  <2>6. ASSUME NEW e \in BackendErrors, BackendFails(e) PROVE WorkerType'
    BY <2>6 DEF BackendFails, backend
  <2>7. ASSUME NEW r \in BackendErrors \cup {"OK"}, BackendCloses(r)
        PROVE  WorkerType'
    BY <2>7 DEF BackendCloses
  <2>8. CASE BackendThrows
    BY <2>8 DEF BackendThrows, backend
  <2> QED
    BY <1>3, <2>1, <2>2, <2>3, <2>4, <2>5, <2>6, <2>7, <2>8 DEF WorkerStep
<1>4. ASSUME Quiescent PROVE WorkerType'
  BY <1>4, UnchangedType DEF Quiescent, vars
<1> QED
  BY <1>1, <1>2, <1>3, <1>4 DEF Next, ClientStep, ClientCall

LEMMA ClientTypeStep ==
    ASSUME TypeOK, LocalsOK, Next
    PROVE  ClientType'
<1> USE DEF TypeOK, ClientType, Notify, Sleep
<1>0. /\ {"OK", "WOULD_BLOCK", "INVALID_ARGUMENT", "INTERNAL", "CANCELLED"}
            \subseteq Results
      /\ StopResult \in Results /\ terminal_result \in Results
  BY StopResultType DEF Results, Terminal, Failures
<1>1. ASSUME NEW c \in Clients, LocalStep(c) PROVE ClientType'
  <2>1. CASE \/ ReserveWaits(c) \/ PublishWaits(c) \/ FlushSleeps(c)
             \/ WaitSleeps(c) \/ \E l \in {"submit", "flush"} : RoomWaits(c, l)
    BY <2>1
    DEF ReserveWaits, PublishWaits, FlushSleeps, WaitSleeps, RoomWaits, client,
        locals
  <2>2. CASE \/ ReserveWouldBlock(c) \/ ReserveStopped(c) \/ CopyThrows(c)
             \/ \E l \in {"submit", "flush"} : RoomStopped(c, l)
    BY <1>0, <2>2, ReturnType
    DEF ReserveWouldBlock, ReserveStopped, CopyThrows, RoomStopped
  <2>3. CASE FlushReturns(c) \/ JoinRaces(c)
    BY <1>0, <2>3, ReturnType DEF FlushReturns, JoinRaces
  <2>4. CASE CloseReturns(c)
    BY <1>0, <2>4, ReturnType DEF CloseReturns
  <2>5. CASE WaitReturns(c)
    <3>1. waited[c] \in 1..Len(submission)
      BY <2>5, LenProperties DEF LocalsOK, WaitedOK, WaitReturns, Awake, SessionType
    <3>2. submission[waited[c]] \in Statuses
      BY <3>1, ElementOfSeq DEF SessionType
    <3>3. submission[waited[c]] \in Results
      BY <2>5, <3>2 DEF WaitReturns, Statuses, Results
    <3> QED
      BY <2>5, <3>3, ReturnType DEF WaitReturns
  <2>6. CASE CopyDone(c) \/ Join(c)
    BY <2>6, GotoType DEF CopyDone, Join, ClientPcs, SpaceWaits, locals
  <2> QED
    BY <1>1, <2>1, <2>2, <2>3, <2>4, <2>5, <2>6 DEF LocalStep
<1>2. ASSUME NEW c \in Clients, LocalCall(c) PROVE ClientType'
  <2>0. calls + 1 \in 0..MaxCalls \/ ~Idle(c)
    BY BoundAssumption DEF Idle
  <2>1. ASSUME NEW b \in BOOLEAN, Write(c, b) PROVE ClientType'
    BY <1>0, <2>0, <2>1, ReturnType, GotoType DEF Write, ClientPcs, SpaceWaits
  <2>2. ASSUME NEW l \in {"submit", "flush"}, Call(c, l) PROVE ClientType'
    BY <2>0, <2>2, GotoType DEF Call, ClientPcs, SpaceWaits, locals
  <2>3. CASE WaitCall(c)
    <3>1. DOMAIN submission \subseteq Nat
      BY LenProperties DEF SessionType
    <3> QED
      BY <2>0, <2>3, <3>1, GotoType DEF WaitCall, ClientPcs
  <2>4. CASE CancelRefused(c)
    BY <1>0, <2>0, <2>4, ReturnType DEF CancelRefused
  <2> QED
    BY <1>2, <2>1, <2>2, <2>3, <2>4 DEF LocalCall
<1>3. ASSUME NEW c \in Clients, SessionStep(c) PROVE ClientType'
  <2>1. CASE ReserveTakes(c)
    BY <2>1, GotoType DEF ReserveTakes, SessionType, ClientPcs, locals
  <2>2. CASE CopyRefused(c) \/ PublishStopped(c) \/ PublishWouldBlock(c)
    BY <1>0, <2>2, ReturnType
    DEF CopyRefused, PublishStopped, PublishWouldBlock, GiveBack
  <2>3. CASE Publish(c) \/ SubmitBorrowed(c)
    BY <1>0, <2>3, ReturnType DEF Publish, SubmitBorrowed, Push
  <2>4. CASE FlushPush(c)
    <3>1. accepted_frames \in Nat /\ next_flush_token + 1 \in Nat
      BY LenProperties DEF SessionType, accepted_frames
    <3> QED
      BY <2>4, <3>1, GotoType DEF FlushPush, Push, ClientPcs
  <2> QED
    BY <1>3, <2>1, <2>2, <2>3, <2>4 DEF SessionStep
<1>4. ASSUME NEW c \in Clients, Cancel(c) \/ CloseRequest(c) PROVE ClientType'
  <2>0. calls + 1 \in 0..MaxCalls \/ ~Idle(c)
    BY BoundAssumption DEF Idle
  <2>1. CASE Cancel(c)
    BY <1>0, <2>0, <2>1, ReturnType DEF Cancel
  <2>2. CASE CloseRequest(c)
    BY <2>0, <2>2, GotoType DEF CloseRequest, ClientPcs, locals
  <2> QED
    BY <1>4, <2>1, <2>2
<1>5. ASSUME WorkerStep PROVE ClientType'
  BY <1>5
  DEF WorkerStep, WorkerSleeps, WorkerPops, WorkerStops, FrameEncoded, FlushDone,
      BackendFails, BackendCloses, BackendThrows, client, locals
<1>6. ASSUME Quiescent PROVE ClientType'
  BY <1>6 DEF Quiescent, vars, client, locals
<1> QED
  BY <1>1, <1>2, <1>3, <1>4, <1>5, <1>6 DEF Next, ClientStep, ClientCall

-----------------------------------------------------------------------------
(* Program locations.                                                      *)

LEMMA HeldStep ==
    ASSUME TypeOK, HeldOK, Next
    PROVE  HeldOK'
<1> USE SlotAssumption DEF TypeOK, ClientType, HeldOK
<1>1. ASSUME NEW c \in Clients, LocalStep(c) PROVE HeldOK'
  BY <1>1
  DEF LocalStep, ReserveWaits, ReserveWouldBlock, ReserveStopped, CopyDone,
      CopyThrows, PublishWaits, RoomWaits, RoomStopped, FlushSleeps,
      FlushReturns, WaitSleeps, WaitReturns, Join, JoinRaces, CloseReturns,
      Awake, Goto, Return, client
<1>2. ASSUME NEW c \in Clients, LocalCall(c) PROVE HeldOK'
  BY <1>2 DEF LocalCall, Write, Call, WaitCall, CancelRefused, Idle, Goto, Return
<1>3. ASSUME NEW c \in Clients, SessionStep(c) PROVE HeldOK'
  BY <1>3
  DEF SessionStep, ReserveTakes, CopyRefused, PublishStopped, PublishWouldBlock,
      Publish, SubmitBorrowed, FlushPush, GiveBack, Awake, Goto, Return,
      SessionType
<1>4. ASSUME NEW c \in Clients, Cancel(c) \/ CloseRequest(c) PROVE HeldOK'
  BY <1>4 DEF Cancel, CloseRequest, Idle, Goto, Return
<1>5. ASSUME WorkerStep PROVE HeldOK'
  BY <1>5
  DEF WorkerStep, WorkerSleeps, WorkerPops, WorkerStops, FrameEncoded, FlushDone,
      BackendFails, BackendCloses, BackendThrows, client
<1>6. ASSUME Quiescent PROVE HeldOK'
  BY <1>6 DEF Quiescent, vars, client
<1> QED
  BY <1>1, <1>2, <1>3, <1>4, <1>5, <1>6 DEF Next, ClientStep, ClientCall

\* The ledger of submissions never shrinks.
LEMMA LedgerGrows ==
    ASSUME TypeOK, Next
    PROVE  DOMAIN submission \subseteq DOMAIN submission'
<1> USE LenProperties DEF TypeOK, SessionType
<1>1. ASSUME NEW c \in Clients, LocalStep(c) \/ LocalCall(c)
      PROVE  DOMAIN submission \subseteq DOMAIN submission'
  BY <1>1, LocalUnchanged DEF session
<1>2. ASSUME NEW c \in Clients, SessionStep(c)
      PROVE  DOMAIN submission \subseteq DOMAIN submission'
  <2>1. CASE Publish(c) \/ SubmitBorrowed(c)
    <3>1. PICK status \in Statuses : submission' = Append(submission, status)
      BY <2>1 DEF Publish, SubmitBorrowed, Statuses
    <3>2. /\ submission' \in Seq(Statuses)
          /\ Len(submission') = Len(submission) + 1
      BY <3>1, AppendProperties
    <3> QED
      BY <3>2
  <2>2. CASE \/ ReserveTakes(c) \/ CopyRefused(c) \/ PublishStopped(c)
             \/ PublishWouldBlock(c) \/ FlushPush(c)
    BY <2>2
    DEF ReserveTakes, CopyRefused, PublishStopped, PublishWouldBlock, FlushPush,
        GiveBack
  <2> QED
    BY <1>2, <2>1, <2>2 DEF SessionStep
<1>3. ASSUME NEW c \in Clients, Cancel(c) \/ CloseRequest(c)
      PROVE  DOMAIN submission \subseteq DOMAIN submission'
  BY <1>3 DEF Cancel, CloseRequest, Completed, session
<1>4. ASSUME WorkerStep PROVE DOMAIN submission \subseteq DOMAIN submission'
  BY <1>4
  DEF WorkerStep, WorkerSleeps, WorkerPops, WorkerStops, FrameEncoded, FlushDone,
      BackendFails, BackendCloses, BackendThrows, Completed, session
<1>5. ASSUME Quiescent PROVE DOMAIN submission \subseteq DOMAIN submission'
  BY <1>5 DEF Quiescent, vars, session
<1> QED
  BY <1>1, <1>2, <1>3, <1>4, <1>5 DEF Next, ClientStep, ClientCall

LEMMA WaitedStep ==
    ASSUME TypeOK, WaitedOK, Next
    PROVE  WaitedOK'
<1> USE LedgerGrows DEF TypeOK, ClientType, WaitedOK
<1>1. ASSUME NEW c \in Clients, LocalStep(c) PROVE WaitedOK'
  BY <1>1
  DEF LocalStep, ReserveWaits, ReserveWouldBlock, ReserveStopped, CopyDone,
      CopyThrows, PublishWaits, RoomWaits, RoomStopped, FlushSleeps,
      FlushReturns, WaitSleeps, WaitReturns, Join, JoinRaces, CloseReturns,
      Goto, Return, client, locals
<1>2. ASSUME NEW c \in Clients, LocalCall(c) PROVE WaitedOK'
  BY <1>2
  DEF LocalCall, Write, Call, WaitCall, CancelRefused, Goto, Return, locals
<1>3. ASSUME NEW c \in Clients, SessionStep(c) PROVE WaitedOK'
  BY <1>3
  DEF SessionStep, ReserveTakes, CopyRefused, PublishStopped, PublishWouldBlock,
      Publish, SubmitBorrowed, FlushPush, Goto, Return, locals
<1>4. ASSUME NEW c \in Clients, Cancel(c) \/ CloseRequest(c) PROVE WaitedOK'
  BY <1>4 DEF Cancel, CloseRequest, Goto, Return, locals
<1>5. ASSUME WorkerStep PROVE WaitedOK'
  BY <1>5
  DEF WorkerStep, WorkerSleeps, WorkerPops, WorkerStops, FrameEncoded, FlushDone,
      BackendFails, BackendCloses, BackendThrows, client, locals
<1>6. ASSUME Quiescent PROVE WaitedOK'
  BY <1>6 DEF Quiescent, vars, client, locals
<1> QED
  BY <1>1, <1>2, <1>3, <1>4, <1>5, <1>6 DEF Next, ClientStep, ClientCall

LEMMA ActiveStep ==
    ASSUME TypeOK, ActiveOK, Next
    PROVE  ActiveOK'
<1> USE DEF ActiveOK
<1>1. ASSUME NEW c \in Clients, LocalStep(c) \/ LocalCall(c) PROVE ActiveOK'
  BY <1>1, LocalUnchanged DEF worker
<1>2. ASSUME NEW c \in Clients,
             SessionStep(c) \/ Cancel(c) \/ CloseRequest(c)
      PROVE  ActiveOK'
  BY <1>2
  DEF SessionStep, ReserveTakes, CopyRefused, PublishStopped, PublishWouldBlock,
      Publish, SubmitBorrowed, FlushPush, Cancel, CloseRequest, worker
<1>3. ASSUME WorkerStep PROVE ActiveOK'
  <2>1. CASE WorkerPops
    <3>1. active' \in Items
      BY <2>1, TakeType DEF WorkerPops
    <3>2. active' # NoItem
      BY <3>1 DEF Items, NoItem, FrameTypes
    <3> QED
      BY <2>1, <3>2 DEF WorkerPops
  <2>2. CASE ~WorkerPops
    BY <1>3, <2>2
    DEF WorkerStep, WorkerSleeps, WorkerStops, FrameEncoded, FlushDone,
        BackendFails, BackendCloses, BackendThrows, worker
  <2> QED
    BY <2>1, <2>2
<1>4. ASSUME Quiescent PROVE ActiveOK'
  BY <1>4 DEF Quiescent, vars, worker
<1> QED
  BY <1>1, <1>2, <1>3, <1>4 DEF Next, ClientStep, ClientCall

LEMMA ItemsStep ==
    ASSUME TypeOK, LocalsOK, Next
    PROVE  ItemsOK'
<1>0. NoItem.slot \notin Slots /\ NoItem.type # "owned"
  BY SlotAssumption DEF NoItem
<1> USE DEF LocalsOK, ItemsOK, TypeOK
<1>1. ASSUME NEW c \in Clients, LocalStep(c) \/ LocalCall(c) PROVE ItemsOK'
  BY <1>1, LocalUnchanged DEF worker, session, QueuedItems
<1>2. accepted_frames \in Nat /\ next_flush_token \in Nat
  BY LenProperties DEF accepted_frames, SessionType
<1>3. ASSUME NEW c \in Clients, SessionStep(c) PROVE ItemsOK'
  <2>1. CASE \/ ReserveTakes(c) \/ CopyRefused(c) \/ PublishStopped(c)
             \/ PublishWouldBlock(c)
    BY <2>1
    DEF ReserveTakes, CopyRefused, PublishStopped, PublishWouldBlock, GiveBack,
        worker, QueuedItems
  <2>2. CASE Publish(c)
    <3> DEFINE item == [type |-> "owned", no |-> accepted_frames + 1,
                        token |-> 0, slot |-> held[c]]
    <3>1. held[c] \in Slots
      BY <2>2 DEF HeldOK, Publish, Awake
    <3>2. item \in Items
      BY <1>2, <3>1 DEF Items, FrameTypes
    <3>3. QueuedItems' = QueuedItems \cup {item}
      BY <2>2, <3>2, PushItems DEF Publish
    <3> QED
      BY <2>2, <3>1, <3>3 DEF Publish, worker
  <2>3. CASE SubmitBorrowed(c)
    <3> DEFINE item == [type |-> "borrowed", no |-> accepted_frames + 1,
                        token |-> 0, slot |-> NoSlot]
    <3>1. item \in Items
      BY <1>2 DEF Items, FrameTypes
    <3>2. QueuedItems' = QueuedItems \cup {item}
      BY <2>3, <3>1, PushItems DEF SubmitBorrowed
    <3> QED
      BY <2>3, <3>2, SlotAssumption DEF SubmitBorrowed, worker
  <2>4. CASE FlushPush(c)
    <3> DEFINE item == [type |-> "flush", no |-> accepted_frames,
                        token |-> next_flush_token + 1, slot |-> NoSlot]
    <3>1. item \in Items
      BY <1>2 DEF Items, FrameTypes
    <3>2. QueuedItems' = QueuedItems \cup {item}
      BY <2>4, <3>1, PushItems DEF FlushPush
    <3> QED
      BY <2>4, <3>2, SlotAssumption DEF FlushPush, worker
  <2> QED
    BY <1>3, <2>1, <2>2, <2>3, <2>4 DEF SessionStep
<1>4. ASSUME NEW c \in Clients, Cancel(c) \/ CloseRequest(c) PROVE ItemsOK'
  BY <1>4, NoItems, NoItems'
  DEF Cancel, CloseRequest, worker, session, QueuedItems
<1>5. ASSUME WorkerStep PROVE ItemsOK'
  <2>1. CASE WorkerPops
    <3>1. QueuedItems' \subseteq QueuedItems /\ active' \in QueuedItems
      BY <2>1, TakeItems DEF WorkerPops
    <3> QED
      BY <3>1
  <2>2. ASSUME NEW e \in BackendErrors, BackendFails(e) PROVE ItemsOK'
    <3>1. QueuedItems' = {} /\ active' = NoItem
      BY <2>2, EmptySeq DEF BackendFails, QueuedItems
    <3> QED
      BY <1>0, <3>1
  <2>3. CASE FrameEncoded \/ FlushDone \/ BackendThrows
    BY <1>0, <2>3 DEF FrameEncoded, FlushDone, BackendThrows, QueuedItems
  <2>4. CASE \/ WorkerSleeps \/ WorkerStops
             \/ \E r \in BackendErrors \cup {"OK"} : BackendCloses(r)
    BY <2>4 DEF WorkerSleeps, WorkerStops, BackendCloses, session, worker, QueuedItems
  <2> QED
    BY <1>5, <2>1, <2>2, <2>3, <2>4 DEF WorkerStep
<1>6. ASSUME Quiescent PROVE ItemsOK'
  BY <1>6 DEF Quiescent, vars, session, worker, QueuedItems
<1> QED
  BY <1>1, <1>3, <1>4, <1>5, <1>6 DEF Next, ClientStep, ClientCall

LEMMA InitLocals == Init => LocalsOK
<1> SUFFICES ASSUME Init PROVE LocalsOK
  OBVIOUS
<1>1. HeldOK /\ WaitedOK /\ ActiveOK
  BY SlotAssumption DEF Init, HeldOK, WaitedOK, ActiveOK
<1>2. ItemsOK
  BY SlotAssumption, NoItems DEF Init, ItemsOK, NoItem
<1> QED
  BY <1>1, <1>2 DEF LocalsOK

LEMMA StutterType ==
    ASSUME TypeOK, LocalsOK, UNCHANGED vars
    PROVE  TypeOK' /\ LocalsOK'
<1>1. SessionType' /\ WorkerType'
  BY UnchangedType DEF vars
<1>2. FlagType'
  BY DEF TypeOK, FlagType, vars, session, worker, client, locals, flags, backend
<1>3. ClientType'
  BY DEF TypeOK, ClientType, vars, client, locals
<1>4. LocalsOK'
  BY DEF LocalsOK, HeldOK, WaitedOK, ActiveOK, ItemsOK, QueuedItems, vars,
         session, worker, client, locals
<1> QED
  BY <1>1, <1>2, <1>3, <1>4 DEF TypeOK

(* In every reachable state the variables have their types, the queue      *)
(* keeps within queue_size, and each thread's locals fit its location.     *)
THEOREM Locations == Spec => [](TypeOK /\ LocalsOK)
<1>1. Init => TypeOK /\ LocalsOK
  BY InitType, InitLocals
<1>2. TypeOK /\ LocalsOK /\ [Next]_vars => TypeOK' /\ LocalsOK'
  <2> SUFFICES ASSUME TypeOK, LocalsOK, [Next]_vars
               PROVE  TypeOK' /\ LocalsOK'
    OBVIOUS
  <2>1. CASE UNCHANGED vars
    BY <2>1, StutterType
  <2>2. CASE Next
    <3>1. TypeOK'
      BY <2>2, FlagTypeStep, SessionTypeStep, WorkerTypeStep, ClientTypeStep
      DEF TypeOK
    <3>2. HeldOK' /\ WaitedOK'
      BY <2>2, HeldStep, WaitedStep DEF LocalsOK
    <3>3. ActiveOK' /\ ItemsOK'
      BY <2>2, ActiveStep, ItemsStep DEF LocalsOK
    <3> QED
      BY <3>1, <3>2, <3>3 DEF LocalsOK
  <2> QED
    BY <2>1, <2>2
<1> QED
  BY <1>1, <1>2, PTL DEF Spec

(* Type correctness of the encoder session, queue bound included           *)
(* (system-design.md, section 4, invariant 1).                             *)
THEOREM TypeCorrect == Spec => []TypeOK
<1> QED
  BY Locations, PTL

-----------------------------------------------------------------------------
(* Nothing is accepted after a stop.                                       *)

LEMMA StoppedStep ==
    ASSUME FlagType, StoppedOK, Next
    PROVE  StoppedOK'
<1> USE DEF StoppedOK, FlagType
<1>1. ASSUME NEW c \in Clients, LocalStep(c) \/ LocalCall(c) PROVE StoppedOK'
  BY <1>1, LocalUnchanged DEF session, flags
<1>2. ASSUME NEW c \in Clients, SessionStep(c) PROVE StoppedOK'
  BY <1>2
  DEF SessionStep, ReserveTakes, CopyRefused, PublishStopped, PublishWouldBlock,
      Publish, SubmitBorrowed, FlushPush, GiveBack, flags
<1>3. ASSUME NEW c \in Clients, Cancel(c) \/ CloseRequest(c) PROVE StoppedOK'
  BY <1>3 DEF Cancel, CloseRequest, session, flags
<1>4. ASSUME WorkerStep PROVE StoppedOK'
  BY <1>4
  DEF WorkerStep, WorkerSleeps, WorkerPops, WorkerStops, FrameEncoded, FlushDone,
      BackendFails, BackendCloses, BackendThrows, RecordFailure, session, flags
<1>5. ASSUME Quiescent PROVE StoppedOK'
  BY <1>5 DEF Quiescent, vars, session, flags
<1> QED
  BY <1>1, <1>2, <1>3, <1>4, <1>5 DEF Next, ClientStep, ClientCall

\* Only a running session grows its ledger.
LEMMA AcceptsWhileRunning ==
    ASSUME TypeOK, ~Running, Next
    PROVE  accepted_frames' = accepted_frames
<1> USE DEF accepted_frames, TypeOK, SessionType
<1>1. \A numbers, result : Len(Completed(numbers, result)) = Len(submission)
  BY LenProperties DEF Completed
<1>2. ASSUME NEW c \in Clients, LocalStep(c) \/ LocalCall(c)
      PROVE  submission' = submission
  BY <1>2, LocalUnchanged DEF session
<1>3. ASSUME NEW c \in Clients, SessionStep(c) PROVE submission' = submission
  BY <1>3
  DEF SessionStep, ReserveTakes, CopyRefused, PublishStopped, PublishWouldBlock,
      Publish, SubmitBorrowed, FlushPush, GiveBack
<1>4. ASSUME NEW c \in Clients, Cancel(c) \/ CloseRequest(c)
      PROVE  Len(submission') = Len(submission)
  BY <1>1, <1>4 DEF Cancel, CloseRequest, session
<1>5. ASSUME WorkerStep PROVE Len(submission') = Len(submission)
  BY <1>1, <1>5
  DEF WorkerStep, WorkerSleeps, WorkerPops, WorkerStops, FrameEncoded, FlushDone,
      BackendFails, BackendCloses, BackendThrows, session
<1>6. ASSUME Quiescent PROVE submission' = submission
  BY <1>6 DEF Quiescent, vars, session
<1> QED
  BY <1>2, <1>3, <1>4, <1>5, <1>6 DEF Next, ClientStep, ClientCall

(* No frame is accepted after a failure, a cancel or a close request, even *)
(* from a writer that was let in before (system-design.md, section 6).     *)
THEOREM LateAcceptance == Spec => NoLateAcceptance
<1>1. Init => FlagType /\ StoppedOK
  BY DEF Init, FlagType, StoppedOK
<1>2. TypeOK /\ StoppedOK /\ [Next]_vars => StoppedOK'
  BY StoppedStep DEF StoppedOK, TypeOK, vars, session, flags
<1>3. TypeOK /\ StoppedOK /\ [Next]_vars
      => (failed \/ canceled \/ close_requested
          => accepted_frames' = accepted_frames)
  BY AcceptsWhileRunning
  DEF StoppedOK, Running, accepted_frames, vars, session
<1> QED
  BY <1>1, <1>2, <1>3, TypeCorrect, PTL DEF Spec, NoLateAcceptance

-----------------------------------------------------------------------------
(* An OwnedFrame is in one place at a time.                                *)

LEMMA ExclusiveSession ==
    ASSUME TypeOK, LocalsOK, FrameExclusive, NEW s \in Slots,
           NEW c \in Clients, SessionStep(c)
    PROVE  Exclusive(s)'
<1> USE SlotAssumption DEF Exclusive, HeldBy, InQueue
<1>0. Exclusive(s) /\ \A r \in Slots : Exclusive(r)
  BY DEF FrameExclusive
<1>1. Len(queue) \in Nat /\ held \in [Clients -> Slots \cup {NoSlot}]
  BY LenProperties DEF TypeOK, SessionType, ClientType
<1>2. CASE ReserveTakes(c)
  <2>1. held[c] \notin Slots
    BY <1>2 DEF LocalsOK, HeldOK, ReserveTakes, Awake
  <2> QED
    BY <1>0, <1>1, <1>2, <2>1 DEF ReserveTakes, worker
<1>3. CASE CopyRefused(c) \/ PublishStopped(c) \/ PublishWouldBlock(c)
  <2>1. held[c] \in Slots
    BY <1>3 DEF LocalsOK, HeldOK, CopyRefused, PublishStopped,
                PublishWouldBlock, Awake
  <2>2. GiveBack(c) /\ UNCHANGED worker
    BY <1>3 DEF CopyRefused, PublishStopped, PublishWouldBlock
  <2> QED
    BY <1>0, <1>1, <2>1, <2>2 DEF GiveBack, worker
<1>4. ASSUME NEW item \in Items, Push(item), UNCHANGED <<free_frames, worker>>,
             item.slot \in Slots => item.slot = held[c],
             held' = [held EXCEPT ![c] = NoSlot]
               \/ (held' = held /\ item.slot \notin Slots)
      PROVE  Exclusive(s)'
  <2>1. /\ Len(queue') = Len(queue) + 1
        /\ \A i \in 1..Len(queue) : queue'[i] = queue[i]
        /\ queue'[Len(queue) + 1] = item
    BY <1>4, AppendProperties DEF TypeOK, SessionType, Push
  <2>2. \A i \in 1..Len(queue') : i \in 1..Len(queue) \/ i = Len(queue) + 1
    BY <1>1, <2>1
  <2>3. CASE item.slot = s
    <3>1. s = held[c] /\ c \in HeldBy(s)
      BY <1>4, <2>3
    <3>2. HeldBy(s) = {c} /\ ~InQueue(s) /\ active.slot # s /\ s \notin free_frames
      BY <1>0, <3>1
    <3>3. HeldBy(s)' = {}
      BY <1>1, <1>4, <2>3, <3>2
    <3> QED
      BY <1>1, <1>4, <2>1, <2>2, <2>3, <3>2, <3>3 DEF worker
  <2>4. CASE item.slot # s
    <3>1. HeldBy(s)' \subseteq HeldBy(s)
      BY <1>1, <1>4
    <3>2. \A i \in 1..Len(queue') : queue'[i].slot = s
             => i \in 1..Len(queue) /\ queue[i].slot = s
      BY <2>1, <2>2, <2>4
    <3>3. InQueue(s)' => InQueue(s)
      BY <3>2
    <3> QED
      BY <1>0, <1>4, <3>1, <3>2, <3>3 DEF worker
  <2> QED
    BY <2>3, <2>4
<1>5. accepted_frames \in Nat /\ next_flush_token \in Nat
  BY LenProperties DEF accepted_frames, TypeOK, SessionType
<1>6. CASE Publish(c)
  <2> DEFINE item == [type |-> "owned", no |-> accepted_frames + 1,
                      token |-> 0, slot |-> held[c]]
  <2>1. item \in Items
    BY <1>1, <1>5 DEF Items, FrameTypes
  <2> QED
    BY <1>4, <1>6, <2>1 DEF Publish
<1>7. CASE SubmitBorrowed(c)
  <2> DEFINE item == [type |-> "borrowed", no |-> accepted_frames + 1,
                      token |-> 0, slot |-> NoSlot]
  <2>1. item \in Items
    BY <1>5 DEF Items, FrameTypes
  <2> QED
    BY <1>4, <1>7, <2>1 DEF SubmitBorrowed
<1>8. CASE FlushPush(c)
  <2> DEFINE item == [type |-> "flush", no |-> accepted_frames,
                      token |-> next_flush_token + 1, slot |-> NoSlot]
  <2>1. item \in Items
    BY <1>5 DEF Items, FrameTypes
  <2> QED
    BY <1>4, <1>8, <2>1 DEF FlushPush
<1> QED
  BY <1>2, <1>3, <1>6, <1>7, <1>8 DEF SessionStep

LEMMA ExclusiveWorker ==
    ASSUME TypeOK, LocalsOK, FrameExclusive, NEW s \in Slots, WorkerStep
    PROVE  Exclusive(s)'
<1> USE SlotAssumption DEF Exclusive, HeldBy, InQueue
<1>0. Exclusive(s)
  BY DEF FrameExclusive
<1>1. CASE \/ WorkerSleeps \/ WorkerStops
           \/ \E r \in BackendErrors \cup {"OK"} : BackendCloses(r)
  BY <1>0, <1>1
  DEF WorkerSleeps, WorkerStops, BackendCloses, session, worker, client
<1>2. CASE WorkerPops
  <2>1. /\ active' = queue[1] /\ Len(queue) \in Nat /\ Len(queue') = Len(queue) - 1
        /\ \A i \in 1..Len(queue') : queue'[i] = queue[i + 1]
    BY <1>2, TakeItems DEF WorkerPops, TypeOK
  <2>2. \A i \in 1..Len(queue') : i + 1 \in 1..Len(queue) /\ i + 1 # 1
    BY <2>1
  <2>3. 1 \in 1..Len(queue)
    BY <1>2, EmptySeq DEF WorkerPops, TypeOK, SessionType
  <2>4. HeldBy(s)' = HeldBy(s) /\ free_frames' = free_frames
    BY <1>2 DEF WorkerPops, client
  <2>5. \A i, j \in 1..Len(queue') : queue'[i].slot = s /\ queue'[j].slot = s => i = j
    BY <1>0, <2>1, <2>2
  <2>6. InQueue(s)' => InQueue(s) /\ active'.slot # s
    BY <1>0, <2>1, <2>2, <2>3
  <2>7. active'.slot = s => InQueue(s)
    BY <2>1, <2>3
  <2> QED
    BY <1>0, <2>4, <2>5, <2>6, <2>7
<1>3. CASE FrameEncoded
  BY <1>0, <1>3 DEF FrameEncoded, RecycleActive, NoItem, client
<1>4. CASE FlushDone \/ BackendThrows
  BY <1>0, <1>4 DEF FlushDone, BackendThrows, NoItem, client
<1>5. ASSUME NEW e \in BackendErrors, BackendFails(e) PROVE Exclusive(s)'
  <2>1. Len(queue') = 0
    BY <1>5, EmptySeq DEF BackendFails
  <2> QED
    BY <1>0, <1>5, <2>1 DEF BackendFails, RecycleActive, NoItem, client
<1> QED
  BY <1>1, <1>2, <1>3, <1>4, <1>5 DEF WorkerStep

LEMMA ExclusiveStep ==
    ASSUME TypeOK, LocalsOK, FrameExclusive, Next
    PROVE  FrameExclusive'
<1> SUFFICES ASSUME NEW s \in Slots PROVE Exclusive(s)'
  BY DEF FrameExclusive
<1>0. Exclusive(s)
  BY DEF FrameExclusive
<1>1. ASSUME NEW c \in Clients, LocalStep(c) \/ LocalCall(c) PROVE Exclusive(s)'
  <2>1. UNCHANGED <<session, worker>>
    BY <1>1, LocalUnchanged
  <2>2. HeldBy(s)' \subseteq HeldBy(s)
    BY <1>1, SlotAssumption
    DEF LocalStep, LocalCall, ReserveWaits, ReserveWouldBlock, ReserveStopped,
        CopyDone, CopyThrows, PublishWaits, RoomWaits, RoomStopped, FlushSleeps,
        FlushReturns, WaitSleeps, WaitReturns, Join, JoinRaces, CloseReturns,
        Write, Call, WaitCall, CancelRefused, HeldBy, client, TypeOK, ClientType
  <2> QED
    BY <1>0, <2>1, <2>2 DEF Exclusive, InQueue, session, worker
<1>2. ASSUME NEW c \in Clients, SessionStep(c) PROVE Exclusive(s)'
  BY <1>2, ExclusiveSession
<1>3. ASSUME NEW c \in Clients, Cancel(c) PROVE Exclusive(s)'
  <2>1. Len(queue') = 0
    BY <1>3, EmptySeq DEF Cancel
  <2>2. s \in QueuedSlots => InQueue(s)
    BY DEF QueuedSlots, QueuedItems, InQueue
  <2> QED
    BY <1>0, <1>3, <2>1, <2>2 DEF Cancel, Exclusive, InQueue, HeldBy, worker
<1>4. ASSUME NEW c \in Clients, CloseRequest(c) PROVE Exclusive(s)'
  BY <1>0, <1>4 DEF CloseRequest, Exclusive, InQueue, HeldBy, worker, session
<1>5. ASSUME WorkerStep PROVE Exclusive(s)'
  BY <1>5, ExclusiveWorker
<1>6. ASSUME Quiescent PROVE Exclusive(s)'
  BY <1>0, <1>6
  DEF Quiescent, vars, session, worker, client, Exclusive, InQueue, HeldBy
<1> QED
  BY <1>1, <1>2, <1>3, <1>4, <1>5, <1>6 DEF Next, ClientStep, ClientCall

(* An OwnedFrame is never in two places: two writers never copy into the   *)
(* same buffer, and the worker never reads one that a writer fills         *)
(* (system-design.md, section 4, invariant 2).                             *)
THEOREM Exclusion == Spec => []FrameExclusive
<1>1. Init => FrameExclusive
  BY SlotAssumption, EmptySeq
  DEF Init, FrameExclusive, Exclusive, HeldBy, InQueue, NoItem
<1>2. TypeOK /\ LocalsOK /\ FrameExclusive /\ [Next]_vars => FrameExclusive'
  <2>1. ASSUME FrameExclusive, UNCHANGED vars PROVE FrameExclusive'
    BY <2>1
    DEF FrameExclusive, Exclusive, InQueue, HeldBy, vars, session, worker, client
  <2> QED
    BY <2>1, ExclusiveStep
<1> QED
  BY <1>1, <1>2, Locations, PTL DEF Spec

-----------------------------------------------------------------------------
(* The backend takes the frames in acceptance order.                       *)

\* Frame counts and the numbers of the items are natural numbers.
LEMMA Counts ==
    ASSUME TypeOK
    PROVE  /\ accepted_frames \in Nat /\ completed_frames \in Nat
           /\ Reached \in Nat /\ Len(queue) \in Nat
           /\ \A i \in 1..Len(queue) : queue[i].no \in Nat /\ queue[i] \in Items
           /\ \A x : Advance(x) \in {0, 1}
           /\ Advance(NoItem) = 0
<1>1. accepted_frames \in Nat /\ completed_frames \in Nat /\ Len(queue) \in Nat
  BY LenProperties
  DEF TypeOK, SessionType, WorkerType, accepted_frames, completed_frames
<1>2. \A i \in 1..Len(queue) : queue[i] \in Items
  BY ElementOfSeq DEF TypeOK, SessionType
<1>3. \A x : Advance(x) \in {0, 1}
  BY DEF Advance
<1>4. Advance(NoItem) = 0
  BY DEF Advance, IsFrame, FrameTypes, NoItem
<1> QED
  BY <1>1, <1>2, <1>3, <1>4 DEF Items, Reached

\* Steps that move no item and grow no ledger keep the chain.
LEMMA ChainQuiet ==
    ASSUME ChainOK, EncodedInOrder,
           UNCHANGED <<queue, active, encoded, submission>>,
           wpc' = "exited" \/ wpc # "exited",
           failed => failed', canceled => canceled'
    PROVE  ChainOK' /\ EncodedInOrder'
<1> QED
  BY DEF ChainOK, LinksOK, EncodedInOrder, Reached, Advance, IsFrame,
         completed_frames, accepted_frames

\* A pushed item continues the chain.
LEMMA ChainPush ==
    ASSUME TypeOK, ChainOK, EncodedInOrder, Running, StoppedOK,
           NEW item \in Items, Push(item),
           item.no = accepted_frames + Advance(item),
           accepted_frames' = accepted_frames + Advance(item),
           UNCHANGED <<worker, flags>>
    PROVE  ChainOK' /\ EncodedInOrder'
<1>1. /\ Len(queue') = Len(queue) + 1
      /\ \A i \in 1..Len(queue) : queue'[i] = queue[i]
      /\ queue'[Len(queue) + 1] = item /\ queue' # <<>>
  BY AppendProperties DEF TypeOK, SessionType, Push
<1>2. Reached' = Reached /\ EncodedInOrder'
  BY DEF Reached, EncodedInOrder, completed_frames, Advance, IsFrame, worker, backend
<1>3. queue = <<>> => accepted_frames = Reached
  BY DEF ChainOK, Running, StoppedOK
<1>4. queue # <<>> => Len(queue) \in Nat \ {0}
  BY EmptySeq DEF TypeOK, SessionType
<1>5. LinksOK'
  <2> SUFFICES ASSUME NEW i \in 1..Len(queue') - 1
               PROVE  queue'[i + 1].no = queue'[i].no + Advance(queue'[i + 1])
    BY DEF LinksOK, Advance, IsFrame
  <2>1. CASE i = Len(queue)
    <3>1. queue # <<>>
      BY <2>1, EmptySeq, Counts
    <3>2. queue'[i] = queue[Len(queue)] /\ queue'[i + 1] = item
      BY <1>1, <1>4, <2>1, <3>1
    <3> QED
      BY <3>1, <3>2 DEF ChainOK
  <2>2. CASE i # Len(queue)
    <3>1. i \in 1..Len(queue) - 1 /\ i \in 1..Len(queue) /\ i + 1 \in 1..Len(queue)
      BY <1>1, <2>2, Counts
    <3> QED
      BY <1>1, <3>1 DEF ChainOK, LinksOK
  <2> QED
    BY <2>1, <2>2
<1>6. queue'[1].no = Reached + Advance(queue'[1]) \/ wpc = "exited"
  <2>1. CASE queue = <<>>
    <3>1. queue'[1] = item
      BY <1>1, <2>1, EmptySeq
    <3> QED
      BY <1>3, <2>1, <3>1
  <2>2. CASE queue # <<>>
    <3>1. queue'[1] = queue[1]
      BY <1>1, <1>4, <2>2
    <3> QED
      BY <2>2, <3>1 DEF ChainOK
  <2> QED
    BY <2>1, <2>2
<1>7. queue'[Len(queue')].no = accepted_frames'
  BY <1>1
<1>8. active' = active /\ wpc' = wpc
  BY DEF worker
<1> QED
  BY <1>1, <1>2, <1>5, <1>6, <1>7, <1>8 DEF ChainOK, Advance, IsFrame

LEMMA ChainTake ==
    ASSUME TypeOK, LocalsOK, ChainOK, EncodedInOrder, WorkerPops
    PROVE  ChainOK' /\ EncodedInOrder'
<1>1. /\ active' = queue[1] /\ Len(queue) \in Nat /\ Len(queue') = Len(queue) - 1
      /\ \A i \in 1..Len(queue') : queue'[i] = queue[i + 1]
  BY TakeItems DEF WorkerPops, TypeOK
<1>2. active = NoItem /\ wpc = "loop" /\ wpc' = "backend"
  BY DEF WorkerPops, LocalsOK, ActiveOK
<1>3. Reached = completed_frames /\ completed_frames' = completed_frames
  BY <1>2, Counts DEF Reached, completed_frames, WorkerPops, backend
<1>4. Reached' = queue[1].no
  <2>1. queue[1].no = completed_frames + Advance(queue[1])
    BY <1>2, <1>3 DEF ChainOK, WorkerPops
  <2> QED
    BY <1>1, <1>3, <2>1 DEF Reached, Advance, IsFrame
<1>5. 1 \in 1..Len(queue)
  BY EmptySeq DEF WorkerPops, TypeOK, SessionType
<1>6. LinksOK'
  <2>1. \A i \in 1..Len(queue') - 1 :
          /\ i + 1 \in 1..Len(queue) - 1 /\ i \in 1..Len(queue')
          /\ i + 1 \in 1..Len(queue')
    BY <1>1
  <2> QED
    BY <1>1, <2>1 DEF ChainOK, LinksOK, Advance, IsFrame
<1>7. CASE Len(queue) = 1
  <2>1. queue' = <<>> /\ queue[1].no = accepted_frames
    BY <1>1, <1>7, EmptySeq, TakeType DEF ChainOK, WorkerPops
  <2> QED
    BY <1>1, <1>2, <1>4, <1>6, <2>1, Counts
    DEF ChainOK, EncodedInOrder, WorkerPops, completed_frames, accepted_frames, backend
<1>8. CASE Len(queue) # 1
  <2>1. 1 \in 1..Len(queue') /\ 1 \in 1..Len(queue) - 1
    BY <1>1, <1>5, <1>8
  <2>2. queue' # <<>>
    BY <2>1, EmptySeq
  <2>3. queue'[1] = queue[2] /\ queue'[Len(queue')] = queue[Len(queue)]
    BY <1>1, <2>1
  <2>4. queue[2].no = queue[1].no + Advance(queue[2])
    BY <2>1 DEF ChainOK, LinksOK
  <2>5. accepted_frames' = accepted_frames /\ queue'[Len(queue')].no = accepted_frames
    BY <2>3 DEF ChainOK, WorkerPops, accepted_frames
  <2> QED
    BY <1>1, <1>2, <1>4, <1>6, <2>2, <2>3, <2>4, <2>5
    DEF ChainOK, EncodedInOrder, WorkerPops, completed_frames, Advance, IsFrame, backend
<1> QED
  BY <1>7, <1>8

LEMMA ChainWorker ==
    ASSUME TypeOK, LocalsOK, ChainOK, EncodedInOrder, WorkerStep
    PROVE  ChainOK' /\ EncodedInOrder'
<1> USE DEF Reached, Advance, IsFrame, FrameTypes, NoItem
<1>0. ActiveOK
  BY DEF LocalsOK
<1>1. CASE WorkerSleeps \/ WorkerStops
  BY <1>1 DEF WorkerSleeps, WorkerStops, ChainOK, LinksOK, EncodedInOrder,
              session, worker, backend, flags, completed_frames, accepted_frames
<1>2. CASE WorkerPops
  BY <1>2, ChainTake
<1>3. CASE FrameEncoded
  <2>1. active.no = completed_frames + 1 /\ completed_frames \in Nat
    BY <1>0, <1>3, Counts DEF FrameEncoded, ActiveOK, ChainOK
  <2>2. /\ completed_frames' = completed_frames + 1
        /\ encoded' = [i \in 1..completed_frames' |-> i]
    BY <1>3, <2>1, AppendProperties
    DEF FrameEncoded, TypeOK, WorkerType, EncodedInOrder, completed_frames
  <2>3. Reached = completed_frames + 1 /\ Reached' = completed_frames + 1
    BY <1>3, <2>1, <2>2 DEF FrameEncoded
  <2>4. accepted_frames' = accepted_frames
    <3>1. Len(submission') = Len(submission)
      BY <1>3, CompletedType
      DEF FrameEncoded, TypeOK, SessionType, Statuses, Terminal
    <3> QED
      BY <3>1 DEF accepted_frames
  <2> QED
    BY <1>3, <2>2, <2>3, <2>4
    DEF FrameEncoded, ChainOK, LinksOK, EncodedInOrder, flags
<1>4. CASE FlushDone
  BY <1>4, Counts DEF FlushDone, ChainOK, LinksOK, EncodedInOrder, flags,
                      completed_frames, accepted_frames
<1>5. ASSUME NEW e \in BackendErrors, BackendFails(e)
      PROVE  ChainOK' /\ EncodedInOrder'
  <2>1. queue' = <<>> /\ Len(queue') = 0
    BY <1>5, EmptySeq DEF BackendFails
  <2> QED
    BY <1>5, <2>1 DEF BackendFails, RecordFailure, ChainOK, LinksOK,
                      EncodedInOrder, backend, completed_frames
<1>6. ASSUME NEW r \in BackendErrors \cup {"OK"}, BackendCloses(r)
      PROVE  ChainOK' /\ EncodedInOrder'
  BY <1>6 DEF BackendCloses, ChainOK, LinksOK, EncodedInOrder,
              completed_frames, accepted_frames
<1>7. CASE BackendThrows
  <2>1. accepted_frames' = accepted_frames
    <3>1. Len(submission') = Len(submission)
      BY <1>7, CompletedType
      DEF BackendThrows, TypeOK, SessionType, Statuses, Terminal, Failures
    <3> QED
      BY <3>1 DEF accepted_frames
  <2> QED
    BY <1>7, <2>1 DEF BackendThrows, ChainOK, LinksOK, EncodedInOrder,
                      backend, completed_frames
<1> QED
  BY <1>1, <1>2, <1>3, <1>4, <1>5, <1>6, <1>7 DEF WorkerStep

LEMMA ChainSession ==
    ASSUME TypeOK, LocalsOK, StoppedOK, ChainOK, EncodedInOrder,
           NEW c \in Clients, SessionStep(c)
    PROVE  ChainOK' /\ EncodedInOrder'
<1>0. HeldOK /\ held \in [Clients -> Slots \cup {NoSlot}]
  BY DEF LocalsOK, TypeOK, ClientType
<1>1. CASE ReserveTakes(c) \/ CopyRefused(c) \/ PublishStopped(c) \/ PublishWouldBlock(c)
  BY <1>1, ChainQuiet
  DEF ReserveTakes, CopyRefused, PublishStopped, PublishWouldBlock, GiveBack,
      worker, backend, flags
<1>2. accepted_frames \in Nat /\ next_flush_token \in Nat
  BY Counts DEF TypeOK, SessionType
<1>3. ASSUME NEW status \in Statuses, submission' = Append(submission, status)
      PROVE  accepted_frames' = accepted_frames + 1
  BY <1>3, AppendProperties DEF accepted_frames, TypeOK, SessionType
<1>4. CASE Publish(c)
  <2> DEFINE item == [type |-> "owned", no |-> accepted_frames + 1,
                      token |-> 0, slot |-> held[c]]
  <2>1. item \in Items /\ item.no = accepted_frames + Advance(item) /\ Advance(item) = 1
    BY <1>0, <1>2, <1>4
    DEF Items, FrameTypes, HeldOK, Publish, Awake, Advance, IsFrame
  <2>2. accepted_frames' = accepted_frames + 1
    BY <1>3, <1>4 DEF Publish, Statuses
  <2> QED
    BY <1>4, <2>1, <2>2, ChainPush DEF Publish
<1>5. CASE SubmitBorrowed(c)
  <2> DEFINE item == [type |-> "borrowed", no |-> accepted_frames + 1,
                      token |-> 0, slot |-> NoSlot]
  <2>1. item \in Items /\ item.no = accepted_frames + Advance(item) /\ Advance(item) = 1
    BY <1>2 DEF Items, FrameTypes, Advance, IsFrame
  <2>2. accepted_frames' = accepted_frames + 1
    BY <1>3, <1>5 DEF SubmitBorrowed, Statuses
  <2> QED
    BY <1>5, <2>1, <2>2, ChainPush DEF SubmitBorrowed
<1>6. CASE FlushPush(c)
  <2> DEFINE item == [type |-> "flush", no |-> accepted_frames,
                      token |-> next_flush_token + 1, slot |-> NoSlot]
  <2>1. item \in Items /\ item.no = accepted_frames + Advance(item) /\ Advance(item) = 0
    BY <1>2 DEF Items, FrameTypes, Advance, IsFrame
  <2>2. accepted_frames' = accepted_frames
    BY <1>6 DEF FlushPush, accepted_frames
  <2> QED
    BY <1>2, <1>6, <2>1, <2>2, ChainPush DEF FlushPush
<1> QED
  BY <1>1, <1>4, <1>5, <1>6 DEF SessionStep

LEMMA ChainStep ==
    ASSUME TypeOK, LocalsOK, StoppedOK, ChainOK, EncodedInOrder, Next
    PROVE  ChainOK' /\ EncodedInOrder'
<1>1. ASSUME NEW c \in Clients, LocalStep(c) \/ LocalCall(c)
      PROVE  ChainOK' /\ EncodedInOrder'
  <2>1. UNCHANGED <<session, worker>>
    BY <1>1, LocalUnchanged
  <2> QED
    BY <2>1, ChainQuiet DEF session, worker, backend, flags
<1>2. ASSUME NEW c \in Clients, SessionStep(c) PROVE ChainOK' /\ EncodedInOrder'
  BY <1>2, ChainSession
<1>3. ASSUME NEW c \in Clients, Cancel(c) PROVE ChainOK' /\ EncodedInOrder'
  <2>1. queue' = <<>> /\ Len(queue') = 0
    BY <1>3, EmptySeq DEF Cancel
  <2> QED
    BY <1>3, <2>1
    DEF Cancel, ChainOK, LinksOK, EncodedInOrder, Reached, Advance, IsFrame,
        worker, backend, completed_frames
<1>4. ASSUME NEW c \in Clients, CloseRequest(c) PROVE ChainOK' /\ EncodedInOrder'
  BY <1>4, ChainQuiet DEF CloseRequest, session, worker, backend, flags
<1>5. ASSUME WorkerStep PROVE ChainOK' /\ EncodedInOrder'
  BY <1>5, ChainWorker
<1>6. ASSUME Quiescent PROVE ChainOK' /\ EncodedInOrder'
  BY <1>6, ChainQuiet DEF Quiescent, vars, session, worker, backend, flags
<1> QED
  BY <1>1, <1>2, <1>3, <1>4, <1>5, <1>6 DEF Next, ClientStep, ClientCall

LEMMA ChainHolds == Spec => [](StoppedOK /\ ChainOK /\ EncodedInOrder)
<1>1. Init => ChainOK /\ EncodedInOrder /\ StoppedOK
  BY EmptySeq
  DEF Init, ChainOK, LinksOK, EncodedInOrder, StoppedOK, Reached, Advance,
      IsFrame, FrameTypes, NoItem, completed_frames, accepted_frames
<1>2. TypeOK /\ LocalsOK /\ StoppedOK /\ ChainOK /\ EncodedInOrder /\ [Next]_vars
        => ChainOK' /\ EncodedInOrder'
  <2>1. ASSUME ChainOK, EncodedInOrder, UNCHANGED vars
        PROVE  ChainOK' /\ EncodedInOrder'
    BY <2>1, ChainQuiet DEF vars, session, worker, backend, flags
  <2> QED
    BY <2>1, ChainStep
<1>3. TypeOK /\ StoppedOK /\ [Next]_vars => StoppedOK'
  BY StoppedStep DEF StoppedOK, TypeOK, vars, session, flags
<1> QED
  BY <1>1, <1>2, <1>3, Locations, PTL DEF Spec

(* The backend takes the accepted frames in order, each once and none      *)
(* skipped (encoder_queue_submission.cpp and encoder_worker.cpp: a FIFO).  *)
THEOREM Order == Spec => []EncodedInOrder
<1> QED
  BY ChainHolds, PTL

-----------------------------------------------------------------------------
(***************************************************************************)
(* Every accepted frame is accounted for, what flush and close report is   *)
(* true, and the session implements OrderedPipeline.                       *)
(***************************************************************************)

\* The items that exist: queued, or with the worker.
Present == QueuedItems \cup {active}

NumbersIn(items, types) == {i.no : i \in {x \in items : x.type \in types}}

LEMMA OutstandingNow ==
    ASSUME NEW types
    PROVE  /\ Outstanding(types) = NumbersIn(Present, types)
           /\ Outstanding(types)' = NumbersIn(Present', types)
<1> QED
  BY DEF Outstanding, Present, NumbersIn

LEMMA PresentType ==
    ASSUME TypeOK
    PROVE  /\ QueuedItems \subseteq Items /\ Present \subseteq Items \cup {NoItem}
           /\ \A i \in Present :
                /\ i.no \in Nat /\ i.token \in Nat
                /\ i.type \in FrameTypes \cup {"flush", "none"}
<1>1. QueuedItems \subseteq Items /\ active \in Items \cup {NoItem}
  BY QueuedItemsType DEF TypeOK, WorkerType
<1> QED
  BY <1>1 DEF Present, Items, NoItem, FrameTypes

\* Which statuses CpuSubmission::complete changes.
LEMMA CompletedAt ==
    ASSUME TypeOK, NEW numbers, NEW result \in Statuses,
           submission' = Completed(numbers, result)
    PROVE  /\ accepted_frames' = accepted_frames
           /\ \A n \in 1..accepted_frames :
                submission'[n] = IF n \in numbers /\ submission[n] = "pending"
                                 THEN result ELSE submission[n]
<1>1. DOMAIN submission = 1..Len(submission)
  BY LenProperties DEF TypeOK, SessionType
<1>2. Len(submission') = Len(submission)
  BY CompletedType DEF TypeOK, SessionType
<1> QED
  BY <1>1, <1>2 DEF Completed, accepted_frames

LEMMA AppendAt ==
    ASSUME TypeOK, NEW status \in Statuses, submission' = Append(submission, status)
    PROVE  /\ accepted_frames' = accepted_frames + 1 /\ accepted_frames \in Nat
           /\ submission'[accepted_frames + 1] = status
           /\ \A n \in 1..accepted_frames : submission'[n] = submission[n]
<1> QED
  BY AppendProperties, LenProperties DEF TypeOK, SessionType, accepted_frames

\* The worker takes the first item; the others stay.
LEMMA TakeAll ==
    ASSUME TypeOK, queue # <<>>, TakeItem
    PROVE  QueuedItems = QueuedItems' \cup {active'}
<1>1. /\ active' = queue[1] /\ active' \in QueuedItems
      /\ Len(queue) \in Nat /\ Len(queue') = Len(queue) - 1
      /\ \A i \in 1..Len(queue') : queue'[i] = queue[i + 1]
      /\ QueuedItems' \subseteq QueuedItems
  BY TakeItems DEF TypeOK
<1>2. ASSUME NEW i \in 1..Len(queue), i # 1 PROVE queue[i] \in QueuedItems'
  <2>1. i - 1 \in 1..Len(queue') /\ i = (i - 1) + 1
    BY <1>1, <1>2
  <2>2. queue'[i - 1] = queue[i]
    BY <1>1, <2>1
  <2> QED
    BY <2>1, <2>2 DEF QueuedItems
<1> QED
  BY <1>1, <1>2 DEF QueuedItems

\* What goes into the queue.
FramePushed(item) ==
    /\ Push(item) /\ IsFrame(item) /\ item.no = accepted_frames + 1
    /\ submission' = Append(submission, IF item.type = "owned" THEN "none" ELSE "pending")
    /\ UNCHANGED <<worker, flags, tokens>>
BarrierPushed(item) ==
    /\ Push(item) /\ item.type = "flush" /\ item.no = accepted_frames
    /\ item.token = next_flush_token + 1 /\ next_flush_token' = next_flush_token + 1
    /\ UNCHANGED <<worker, flags, completed_flush_token, submission>>

LEMMA PushesFrame ==
    ASSUME TypeOK, LocalsOK, NEW c \in Clients, Publish(c) \/ SubmitBorrowed(c)
    PROVE  \E item \in Items : FramePushed(item)
<1>0. accepted_frames \in Nat
  BY Counts
<1>1. CASE Publish(c)
  <2> DEFINE item == [type |-> "owned", no |-> accepted_frames + 1,
                      token |-> 0, slot |-> held[c]]
  <2>1. held[c] \in Slots
    BY <1>1 DEF LocalsOK, HeldOK, Publish, Awake
  <2>2. item \in Items
    BY <1>0, <2>1 DEF Items, FrameTypes
  <2> QED
    BY <1>1, <2>2 DEF Publish, FramePushed, IsFrame, FrameTypes
<1>2. CASE SubmitBorrowed(c)
  <2> DEFINE item == [type |-> "borrowed", no |-> accepted_frames + 1,
                      token |-> 0, slot |-> NoSlot]
  <2>1. item \in Items
    BY <1>0 DEF Items, FrameTypes
  <2> QED
    BY <1>2, <2>1 DEF SubmitBorrowed, FramePushed, IsFrame, FrameTypes
<1> QED
  BY <1>1, <1>2

LEMMA PushesBarrier ==
    ASSUME TypeOK, NEW c \in Clients, FlushPush(c)
    PROVE  \E item \in Items : BarrierPushed(item)
<1> DEFINE item == [type |-> "flush", no |-> accepted_frames,
                    token |-> next_flush_token + 1, slot |-> NoSlot]
<1>1. item \in Items
  BY Counts DEF Items, TypeOK, SessionType
<1> QED
  BY <1>1 DEF FlushPush, BarrierPushed

-----------------------------------------------------------------------------
(* The stages of the worker's end.                                         *)

LEMMA StageStep ==
    ASSUME TypeOK, StoppedOK, StageOK, Next
    PROVE  StageOK'
<1>1. ASSUME UNCHANGED <<queue, closed, failed, canceled, terminal_result, wpc, finalized>>,
             close_requested => close_requested'
      PROVE  StageOK'
  BY <1>1 DEF StageOK
<1>2. ASSUME NEW c \in Clients, LocalStep(c) \/ LocalCall(c) PROVE StageOK'
  <2>1. UNCHANGED <<session, worker>>
    BY <1>2, LocalUnchanged
  <2> QED
    BY <1>1, <2>1 DEF session, worker, backend, flags
<1>3. ASSUME NEW c \in Clients, SessionStep(c) PROVE StageOK'
  <2>1. CASE ReserveTakes(c) \/ CopyRefused(c) \/ PublishStopped(c) \/ PublishWouldBlock(c)
    BY <1>1, <2>1 DEF ReserveTakes, CopyRefused, PublishStopped, PublishWouldBlock,
       GiveBack, worker, backend, flags
  <2>2. CASE Publish(c) \/ SubmitBorrowed(c) \/ FlushPush(c)
    <3>1. Running /\ UNCHANGED <<flags, worker>>
      BY <2>2 DEF Publish, SubmitBorrowed, FlushPush
    <3> QED
      BY <3>1 DEF StageOK, StoppedOK, Running, worker, backend, flags
  <2> QED
    BY <1>3, <2>1, <2>2 DEF SessionStep
<1>4. ASSUME NEW c \in Clients, Cancel(c) PROVE StageOK'
  BY <1>4 DEF Cancel, StageOK, worker, backend
<1>5. ASSUME NEW c \in Clients, CloseRequest(c) PROVE StageOK'
  BY <1>1, <1>5 DEF CloseRequest, worker, backend, session, flags
<1>6. CASE WorkerSleeps
  BY <1>1, <1>6 DEF WorkerSleeps, session, worker, backend, flags
<1>7. CASE WorkerPops \/ WorkerStops
  BY <1>7 DEF WorkerPops, WorkerStops, StageOK, session, backend, flags
<1>8. CASE FrameEncoded \/ FlushDone
  BY <1>8 DEF FrameEncoded, FlushDone, StageOK, flags
<1>9. ASSUME NEW e \in BackendErrors, BackendFails(e) PROVE StageOK'
  BY <1>9, ErrorAssumption DEF BackendFails, RecordFailure, StageOK, backend
<1>10. ASSUME NEW r \in BackendErrors \cup {"OK"}, BackendCloses(r) PROVE StageOK'
  BY <1>10, ErrorAssumption DEF BackendCloses, StageOK
<1>11. CASE BackendThrows
  BY <1>11 DEF BackendThrows, StageOK
<1>12. CASE Quiescent
  BY <1>1, <1>12 DEF Quiescent, vars, session, worker, backend, flags
<1> QED
  BY <1>2, <1>3, <1>4, <1>5, <1>6, <1>7, <1>8, <1>9, <1>10, <1>11, <1>12
  DEF Next, ClientStep, ClientCall, WorkerStep

-----------------------------------------------------------------------------
(* Frame numbers along the queue.                                          *)

NumbersOK == SortedOK /\ AheadOK
Chained   == TypeOK /\ LocalsOK /\ ChainOK /\ EncodedInOrder

\* Steps that move no item, or drop items, keep the numbers in order.
LEMMA NumbersFewer ==
    ASSUME TypeOK, NumbersOK, queue' = queue \/ queue' = <<>>,
           Reached' \in Nat, Reached' <= Reached, accepted_frames' = accepted_frames
    PROVE  NumbersOK'
<1>1. /\ Reached \in Nat /\ accepted_frames \in Nat
      /\ \A item \in QueuedItems : item.no \in Nat /\ Advance(item) \in {0, 1}
  BY Counts, PresentType DEF Items
<1>2. CASE queue' = queue
  <2>1. QueuedItems' = QueuedItems
    BY <1>2 DEF QueuedItems
  <2>2. SortedOK'
    BY <1>2 DEF NumbersOK, SortedOK, Advance, IsFrame
  <2>3. AheadOK'
    BY <1>1, <2>1 DEF NumbersOK, AheadOK, Advance, IsFrame
  <2> QED
    BY <2>2, <2>3 DEF NumbersOK
<1>3. CASE queue' = <<>>
  <2>1. Len(queue') = 0 /\ QueuedItems' = {}
    BY <1>3, EmptySeq DEF QueuedItems
  <2> QED
    BY <1>1, <2>1 DEF NumbersOK, SortedOK, AheadOK
<1> QED
  BY <1>2, <1>3

LEMMA NumbersPush ==
    ASSUME TypeOK, NumbersOK, NEW item \in Items, Push(item),
           item.no = accepted_frames + Advance(item),
           accepted_frames' = accepted_frames + Advance(item),
           UNCHANGED worker
    PROVE  NumbersOK'
<1>1. /\ Reached \in Nat /\ accepted_frames \in Nat /\ Len(queue) \in Nat
      /\ \A i \in 1..Len(queue) : queue[i].no \in Nat
      /\ \A x : Advance(x) \in {0, 1}
  BY Counts
<1>2. /\ Len(queue') = Len(queue) + 1
      /\ \A i \in 1..Len(queue) : queue'[i] = queue[i]
      /\ queue'[Len(queue) + 1] = item
  BY AppendProperties DEF TypeOK, SessionType, Push
<1>3. Reached' = Reached
  BY DEF Reached, completed_frames, Advance, IsFrame, worker, backend
<1>4. \A i \in 1..Len(queue) : queue[i].no <= accepted_frames
  BY DEF NumbersOK, AheadOK, QueuedItems
<1>5. SortedOK'
  <2> SUFFICES ASSUME NEW i \in 1..Len(queue'), NEW j \in 1..Len(queue'), i < j
               PROVE  queue'[i].no + Advance(queue'[j]) <= queue'[j].no
    BY DEF SortedOK, Advance, IsFrame
  <2>0. i \in 1..Len(queue) /\ queue'[i] = queue[i]
    BY <1>1, <1>2
  <2>1. CASE j = Len(queue) + 1
    BY <1>1, <1>2, <1>4, <2>0, <2>1
  <2>2. CASE j # Len(queue) + 1
    <3>1. j \in 1..Len(queue) /\ queue'[j] = queue[j]
      BY <1>1, <1>2, <2>2
    <3> QED
      BY <2>0, <3>1 DEF NumbersOK, SortedOK
  <2> QED
    BY <2>1, <2>2
<1>6. AheadOK'
  <2>1. QueuedItems' = QueuedItems \cup {item}
    BY PushItems DEF TypeOK
  <2>2. \A x \in QueuedItems : x.no \in Nat
    BY PresentType DEF Items
  <2> QED
    BY <1>1, <1>3, <2>1, <2>2 DEF NumbersOK, AheadOK, Advance, IsFrame
<1> QED
  BY <1>5, <1>6 DEF NumbersOK

LEMMA NumbersTake ==
    ASSUME Chained, NumbersOK, WorkerPops
    PROVE  NumbersOK'
<1>1. /\ active' = queue[1] /\ Len(queue) \in Nat /\ Len(queue') = Len(queue) - 1
      /\ \A i \in 1..Len(queue') : queue'[i] = queue[i + 1]
      /\ QueuedItems' \subseteq QueuedItems
  BY TakeItems DEF WorkerPops, Chained, TypeOK
<1>2. active = NoItem /\ wpc = "loop" /\ UNCHANGED <<encoded, submission>>
  BY DEF WorkerPops, Chained, LocalsOK, ActiveOK, backend
<1>3. /\ completed_frames' = completed_frames /\ accepted_frames' = accepted_frames
      /\ Reached = completed_frames /\ completed_frames \in Nat /\ accepted_frames \in Nat
      /\ \A x : Advance(x) \in {0, 1}
      /\ \A i \in 1..Len(queue) : queue[i].no \in Nat
  BY <1>2, Counts DEF Reached, completed_frames, accepted_frames, Chained
<1>4. Reached' = queue[1].no /\ 1 \in 1..Len(queue)
  <2>1. queue[1].no = completed_frames + Advance(queue[1])
    BY <1>2, <1>3 DEF ChainOK, WorkerPops, Chained
  <2>2. 1 \in 1..Len(queue)
    BY EmptySeq DEF WorkerPops, Chained, TypeOK, SessionType
  <2> QED
    BY <1>1, <1>3, <2>1, <2>2 DEF Reached, Advance, IsFrame
<1>5. SortedOK'
  <2> SUFFICES ASSUME NEW i \in 1..Len(queue'), NEW j \in 1..Len(queue'), i < j
               PROVE  queue'[i].no + Advance(queue'[j]) <= queue'[j].no
    BY DEF SortedOK, Advance, IsFrame
  <2>1. i + 1 \in 1..Len(queue) /\ j + 1 \in 1..Len(queue) /\ i + 1 < j + 1
    BY <1>1
  <2> QED
    BY <1>1, <2>1 DEF NumbersOK, SortedOK
<1>6. AheadOK'
  <2>1. Reached' <= accepted_frames'
    BY <1>3, <1>4 DEF NumbersOK, AheadOK, QueuedItems
  <2>2. ASSUME NEW i \in 1..Len(queue')
        PROVE  Reached' + Advance(queue'[i]) <= queue'[i].no
    <3>1. i + 1 \in 1..Len(queue) /\ 1 < i + 1
      BY <1>1
    <3> QED
      BY <1>1, <1>4, <3>1 DEF NumbersOK, SortedOK
  <2>3. \A item \in QueuedItems' : item.no <= accepted_frames'
    BY <1>1, <1>3 DEF NumbersOK, AheadOK
  <2>4. \A item \in QueuedItems' : Reached' + Advance(item) <= item.no
    BY <2>2 DEF QueuedItems
  <2> QED
    BY <2>1, <2>3, <2>4 DEF AheadOK, Advance, IsFrame
<1> QED
  BY <1>5, <1>6 DEF NumbersOK

\* What the number of a worked item is.
LEMMA ActiveNumber ==
    ASSUME Chained, wpc = "backend"
    PROVE  /\ active \in Items /\ active # NoItem /\ active.no = Reached
           /\ IsFrame(active) => active.no = completed_frames + 1
           /\ ~IsFrame(active) => active.no = completed_frames
<1>1. active \in Items /\ active.no = Reached
  BY DEF Chained, LocalsOK, ActiveOK, ChainOK, TypeOK, WorkerType
<1>2. completed_frames \in Nat
  BY Counts DEF Chained
<1> QED
  BY <1>1, <1>2 DEF Reached, Advance, Chained, LocalsOK, ActiveOK

LEMMA EncodedCount ==
    ASSUME Chained, FrameEncoded
    PROVE  completed_frames' = completed_frames + 1
<1>1. encoded \in Seq(Nat) /\ active.no \in Nat
  BY ActiveNumber DEF Chained, TypeOK, WorkerType, FrameEncoded, Items
<1> QED
  BY <1>1, AppendProperties DEF FrameEncoded, completed_frames

LEMMA NumbersStep ==
    ASSUME Chained, StoppedOK, NumbersOK, Next
    PROVE  NumbersOK'
<1>0. /\ TypeOK /\ Reached \in Nat /\ completed_frames \in Nat
      /\ accepted_frames \in Nat /\ completed_frames <= Reached
  <2>1. /\ TypeOK /\ Reached \in Nat /\ completed_frames \in Nat
        /\ accepted_frames \in Nat /\ Advance(active) \in {0, 1}
    BY Counts DEF Chained
  <2> QED
    BY <2>1 DEF Reached
<1>1. ASSUME UNCHANGED <<queue, active, encoded, submission>> PROVE NumbersOK'
  <2>1. Reached' = Reached /\ accepted_frames' = accepted_frames
    BY <1>1 DEF Reached, completed_frames, Advance, IsFrame, accepted_frames
  <2> QED
    BY <1>0, <1>1, <2>1, NumbersFewer
<1>2. ASSUME NEW c \in Clients, LocalStep(c) \/ LocalCall(c) PROVE NumbersOK'
  <2>1. UNCHANGED <<session, worker>>
    BY <1>2, LocalUnchanged
  <2> QED
    BY <1>1, <2>1 DEF session, worker, backend
<1>3. ASSUME NEW c \in Clients, SessionStep(c) PROVE NumbersOK'
  <2>1. CASE ReserveTakes(c) \/ CopyRefused(c) \/ PublishStopped(c) \/ PublishWouldBlock(c)
    BY <1>1, <2>1 DEF ReserveTakes, CopyRefused, PublishStopped, PublishWouldBlock,
       GiveBack, worker, backend
  <2>2. CASE Publish(c) \/ SubmitBorrowed(c)
    <3>1. PICK item \in Items : FramePushed(item)
      BY <2>2, PushesFrame DEF Chained
    <3>2. accepted_frames' = accepted_frames + 1 /\ Advance(item) = 1
      BY <1>0, <3>1, AppendAt DEF FramePushed, Statuses, Advance
    <3> QED
      BY <1>0, <3>1, <3>2, NumbersPush DEF FramePushed
  <2>3. CASE FlushPush(c)
    <3>1. PICK item \in Items : BarrierPushed(item)
      BY <2>3, PushesBarrier DEF Chained
    <3>2. accepted_frames' = accepted_frames /\ Advance(item) = 0
      BY <3>1 DEF BarrierPushed, accepted_frames, Advance, IsFrame, FrameTypes
    <3> QED
      BY <1>0, <3>1, <3>2, NumbersPush DEF BarrierPushed
  <2> QED
    BY <1>3, <2>1, <2>2, <2>3 DEF SessionStep
<1>4. ASSUME NEW c \in Clients, Cancel(c) PROVE NumbersOK'
  <2>1. accepted_frames' = accepted_frames
    BY <1>0, <1>4, CompletedAt DEF Cancel, Statuses, Terminal
  <2>2. Reached' = Reached
    BY <1>4 DEF Cancel, Reached, completed_frames, Advance, IsFrame, worker, backend
  <2> QED
    BY <1>0, <1>4, <2>1, <2>2, NumbersFewer DEF Cancel
<1>5. ASSUME NEW c \in Clients, CloseRequest(c) PROVE NumbersOK'
  BY <1>1, <1>5 DEF CloseRequest, session, worker, backend
<1>6. CASE WorkerSleeps \/ WorkerStops
  BY <1>1, <1>6 DEF WorkerSleeps, WorkerStops, session, worker, backend
<1>7. CASE WorkerPops
  BY <1>7, NumbersTake
<1>8. CASE FrameEncoded
  <2>1. accepted_frames' = accepted_frames
    BY <1>0, <1>8, CompletedAt DEF FrameEncoded, Statuses, Terminal
  <2>2. Reached' = completed_frames + 1 /\ Reached = completed_frames + 1
    BY <1>0, <1>8, EncodedCount, ActiveNumber
    DEF FrameEncoded, Reached, Advance, IsFrame, NoItem, FrameTypes
  <2> QED
    BY <1>0, <1>8, <2>1, <2>2, NumbersFewer DEF FrameEncoded
<1>9. CASE FlushDone
  <2>1. accepted_frames' = accepted_frames
    BY <1>9 DEF FlushDone, accepted_frames
  <2>2. Reached' = completed_frames
    BY <1>0, <1>9
    DEF FlushDone, Reached, completed_frames, Advance, IsFrame, NoItem, FrameTypes
  <2> QED
    BY <1>0, <1>9, <2>1, <2>2, NumbersFewer DEF FlushDone
<1>10. ASSUME NEW e \in BackendErrors, BackendFails(e) PROVE NumbersOK'
  <2>1. accepted_frames' = accepted_frames
    BY <1>0, <1>10, CompletedAt DEF BackendFails, Statuses, Terminal, Failures
  <2>2. Reached' = completed_frames
    BY <1>0, <1>10
    DEF BackendFails, backend, Reached, completed_frames, Advance, IsFrame, NoItem,
        FrameTypes
  <2> QED
    BY <1>0, <1>10, <2>1, <2>2, NumbersFewer DEF BackendFails
<1>11. ASSUME NEW r \in BackendErrors \cup {"OK"}, BackendCloses(r) PROVE NumbersOK'
  BY <1>1, <1>11 DEF BackendCloses
<1>12. CASE BackendThrows
  <2>1. accepted_frames' = accepted_frames
    BY <1>0, <1>12, CompletedAt DEF BackendThrows, Statuses, Terminal, Failures
  <2>2. Reached' = completed_frames
    BY <1>0, <1>12
    DEF BackendThrows, backend, Reached, completed_frames, Advance, IsFrame, NoItem,
        FrameTypes
  <2> QED
    BY <1>0, <1>12, <2>1, <2>2, NumbersFewer DEF BackendThrows
<1>13. CASE Quiescent
  BY <1>1, <1>13 DEF Quiescent, vars, session, worker, backend
<1> QED
  BY <1>2, <1>3, <1>4, <1>5, <1>6, <1>7, <1>8, <1>9, <1>10, <1>11, <1>12, <1>13
  DEF Next, ClientStep, ClientCall, WorkerStep

-----------------------------------------------------------------------------
(* Every accepted frame is accounted for.                                  *)

Books == AnswerOK /\ Traceable
Ledger == Chained /\ StoppedOK /\ StageOK /\ NumbersOK /\ Books

\* Frames that exist are accepted ones, and their numbers are their own.
LEMMA PresentNumbers ==
    ASSUME Chained, NumbersOK
    PROVE  /\ \A x \in Present : x.no \in 0..accepted_frames
           /\ \A x \in Present : IsFrame(x) => x.no \in 1..accepted_frames
                                               /\ x.no > completed_frames
           /\ \A x \in QueuedItems : IsFrame(x) /\ active # NoItem => x.no > active.no
           /\ accepted_frames \in Nat /\ completed_frames \in Nat
           /\ completed_frames <= accepted_frames
<1>1. /\ Reached \in Nat /\ completed_frames \in Nat /\ accepted_frames \in Nat
      /\ Advance(active) \in {0, 1} /\ Reached = completed_frames + Advance(active)
  BY Counts DEF Reached, Chained
<1>2. ASSUME NEW x \in QueuedItems
      PROVE  /\ x.no \in 0..accepted_frames /\ x.no >= Reached
             /\ IsFrame(x) => x.no > Reached
  <2>1. x.no \in Nat
    BY PresentType DEF Present, Chained
  <2> QED
    BY <1>1, <2>1 DEF NumbersOK, AheadOK, Advance
<1>3. Reached <= accepted_frames
  BY DEF NumbersOK, AheadOK
<1>4. CASE active = NoItem
  <2>1. active.no = 0 /\ ~IsFrame(active)
    BY <1>4 DEF NoItem, IsFrame, FrameTypes
  <2> QED
    BY <1>1, <1>2, <1>3, <1>4, <2>1 DEF Present
<1>5. CASE active # NoItem
  <2>1. active.no = Reached
    BY <1>5 DEF Chained, ChainOK
  <2>2. IsFrame(active) => active.no = completed_frames + 1
    BY <1>1, <2>1 DEF Advance
  <2> QED
    BY <1>1, <1>2, <1>3, <2>1, <2>2 DEF Present
<1> QED
  BY <1>4, <1>5

LEMMA BooksQuiet ==
    ASSUME Books, UNCHANGED <<queue, active, active_submission, encoded, submission>>,
           wpc' = "exited" \/ wpc # "exited", failed => failed', canceled => canceled'
    PROVE  Books'
<1>1. /\ Present' = Present /\ QueuedItems' = QueuedItems
      /\ completed_frames' = completed_frames /\ accepted_frames' = accepted_frames
  BY DEF Present, QueuedItems, completed_frames, accepted_frames
<1>2. \A types : Outstanding(types)' = Outstanding(types)
  BY <1>1, OutstandingNow
<1>3. AnswerOK'
  BY <1>1 DEF Books, AnswerOK
<1>4. NothingForgotten' /\ PendingWhileRead' /\ SubmissionTruthful'
  BY <1>1, <1>2
  DEF Books, Traceable, NothingForgotten, PendingWhileRead, SubmissionTruthful
<1> QED
  BY <1>3, <1>4 DEF Books, Traceable

LEMMA BooksPush ==
    ASSUME Ledger, NEW item \in Items, FramePushed(item)
    PROVE  Books'
<1> DEFINE last == accepted_frames + 1
           status == IF item.type = "owned" THEN "none" ELSE "pending"
<1>1. /\ TypeOK /\ Chained /\ NumbersOK /\ AnswerOK
      /\ NothingForgotten /\ PendingWhileRead /\ SubmissionTruthful
  BY DEF Ledger, Books, Traceable, Chained
<1>2. /\ accepted_frames' = last /\ accepted_frames \in Nat
      /\ submission'[last] = status
      /\ \A n \in 1..accepted_frames : submission'[n] = submission[n]
  BY <1>1, AppendAt DEF FramePushed, Statuses
<1>3. /\ UNCHANGED <<active, active_submission, encoded, wpc, failed, canceled>>
      /\ completed_frames' = completed_frames
  BY DEF FramePushed, worker, backend, flags, completed_frames
<1>4. Present' = Present \cup {item} /\ QueuedItems' = QueuedItems \cup {item}
  BY <1>1, <1>3, PushItems DEF FramePushed, Present, TypeOK
<1>5. /\ \A x \in Present : x.no \in 0..accepted_frames
      /\ \A x \in Present : IsFrame(x) => x.no \in 1..accepted_frames
      /\ completed_frames \in Nat /\ completed_frames <= accepted_frames
  BY <1>1, PresentNumbers
<1>6. AnswerOK'
  BY <1>1, <1>2, <1>3, <1>4, <1>5
  DEF AnswerOK, Present, FramePushed, IsFrame, FrameTypes
<1>7. NothingForgotten'
  <2>1. Outstanding(FrameTypes)' = Outstanding(FrameTypes) \cup {last}
    BY <1>4, OutstandingNow DEF NumbersIn, FramePushed, IsFrame
  <2>2. 1..last = 1..accepted_frames \cup {last}
    BY <1>2
  <2> QED
    BY <1>1, <1>2, <1>3, <2>1, <2>2 DEF NothingForgotten
<1>8. PendingWhileRead'
  <2>1. \A n \in 1..accepted_frames :
          n \in Outstanding({"borrowed"})' <=> n \in Outstanding({"borrowed"})
    BY <1>2, <1>4, OutstandingNow DEF NumbersIn, FramePushed
  <2>2. last \in Outstanding({"borrowed"})' <=> item.type = "borrowed"
    BY <1>2, <1>4, <1>5, OutstandingNow DEF NumbersIn, FramePushed
  <2>3. \A n \in 1..last : n \in 1..accepted_frames \/ n = last
    BY <1>2
  <2>4. item.type = "owned" \/ item.type = "borrowed"
    BY DEF FramePushed, IsFrame, FrameTypes
  <2> QED
    BY <1>1, <1>2, <1>3, <2>1, <2>2, <2>3, <2>4 DEF PendingWhileRead
<1>9. SubmissionTruthful'
  <2>1. \A n \in 1..last : n \in 1..accepted_frames \/ n = last
    BY <1>2
  <2>2. status \notin {"OK", "CANCELLED"} \cup Failures
    BY ErrorAssumption DEF Failures
  <2> QED
    BY <1>1, <1>2, <1>3, <2>1, <2>2 DEF SubmissionTruthful
<1> QED
  BY <1>6, <1>7, <1>8, <1>9 DEF Books, Traceable

\* A barrier is no frame: what it adds to or takes from the items is nothing
\* that a caller was promised.
LEMMA BooksBarrier ==
    ASSUME Ledger,
           \A x \in (Present \ Present') \cup (Present' \ Present) : ~IsFrame(x),
           UNCHANGED <<encoded, submission, failed, canceled>>,
           wpc # "exited" \/ wpc' = "exited",
           active'.type = "borrowed" => active_submission' = active'.no
    PROVE  Books'
<1>1. /\ completed_frames' = completed_frames /\ accepted_frames' = accepted_frames
  BY DEF completed_frames, accepted_frames
<1>2. \A types \in SUBSET FrameTypes : Outstanding(types)' = Outstanding(types)
  <2> SUFFICES ASSUME NEW types \in SUBSET FrameTypes
               PROVE  NumbersIn(Present', types) = NumbersIn(Present, types)
    BY OutstandingNow
  <2>1. \A x : x.type \in types => IsFrame(x)
    BY DEF IsFrame
  <2>2. {x \in Present' : x.type \in types} = {x \in Present : x.type \in types}
    BY <2>1
  <2> QED
    BY <2>2 DEF NumbersIn
<1>3. Outstanding(FrameTypes)' = Outstanding(FrameTypes)
      /\ Outstanding({"borrowed"})' = Outstanding({"borrowed"})
  BY <1>2 DEF FrameTypes
<1>4. AnswerOK'
  <2>1. \A x \in Present' : x.type = "owned" => x \in Present
    BY DEF IsFrame, FrameTypes
  <2> QED
    BY <2>1 DEF Ledger, Books, AnswerOK, Present
<1>5. NothingForgotten' /\ PendingWhileRead' /\ SubmissionTruthful'
  BY <1>1, <1>3
  DEF Ledger, Books, Traceable, NothingForgotten, PendingWhileRead, SubmissionTruthful
<1> QED
  BY <1>4, <1>5 DEF Books, Traceable

\* A submission is pending only while its frame is ahead of the backend.
LEMMA PendingAhead ==
    ASSUME Ledger, NEW n \in 1..accepted_frames, submission[n] = "pending"
    PROVE  /\ n > completed_frames
           /\ \E x \in Present : x.type = "borrowed" /\ x.no = n
<1>1. PICK x \in Present : x.type = "borrowed" /\ x.no = n
  BY DEF Ledger, Books, Traceable, PendingWhileRead, Outstanding, Present
<1> QED
  BY <1>1, PresentNumbers DEF Ledger, IsFrame, FrameTypes

\* The two ways to break: every submission that is pending is answered.
LEMMA BooksBreak ==
    ASSUME Ledger, NEW numbers, NEW result \in Failures,
           submission' = Completed(numbers, result),
           \A x \in Present : x.type = "borrowed" => x.no \in numbers,
           failed', active' = NoItem, UNCHANGED <<encoded, canceled>>,
           queue' = <<>> \/ (queue' = queue /\ wpc' = "exited")
    PROVE  Books'
<1>1. /\ TypeOK /\ AnswerOK /\ PendingWhileRead /\ SubmissionTruthful
      /\ completed_frames' = completed_frames
  BY DEF Ledger, Books, Traceable, Chained, completed_frames
<1>2. /\ accepted_frames' = accepted_frames /\ result \notin {"OK", "pending", "CANCELLED", "none"}
      /\ \A n \in 1..accepted_frames :
            submission'[n] = IF n \in numbers /\ submission[n] = "pending"
                             THEN result ELSE submission[n]
  BY <1>1, CompletedAt, ErrorAssumption DEF Statuses, Terminal, Failures
<1>3. \A n \in 1..accepted_frames : submission'[n] # "pending"
  BY <1>2, PendingAhead
<1>4. PendingWhileRead'
  <2>1. CASE queue' = <<>>
    <3>1. QueuedItems' = {}
      BY <2>1, EmptySeq DEF QueuedItems
    <3>2. Outstanding({"borrowed"})' = {}
      BY <3>1 DEF Outstanding, NoItem
    <3> QED
      BY <1>2, <1>3, <3>2 DEF PendingWhileRead
  <2>2. CASE queue' = queue /\ wpc' = "exited"
    BY <1>2, <1>3, <2>2 DEF PendingWhileRead
  <2> QED
    BY <2>1, <2>2
<1>5. SubmissionTruthful'
  BY <1>1, <1>2, PendingAhead DEF SubmissionTruthful
<1>6. AnswerOK'
  <2>1. QueuedItems' \subseteq QueuedItems
    BY EmptySeq DEF QueuedItems
  <2>2. \A x \in QueuedItems : x.no \in 0..accepted_frames
    BY PresentNumbers DEF Ledger, Present
  <2>3. \A x \in QueuedItems : x.type = "owned" =>
            x.no \in 1..accepted_frames /\ submission[x.no] = "none"
    BY <1>1, PresentNumbers DEF Ledger, Present, AnswerOK, IsFrame, FrameTypes
  <2>4. active'.type = "none"
    BY DEF NoItem
  <2> QED
    BY <1>2, <2>1, <2>3, <2>4 DEF AnswerOK
<1>7. NothingForgotten'
  BY DEF NothingForgotten
<1> QED
  BY <1>4, <1>5, <1>6, <1>7 DEF Books, Traceable

\* A cancel answers the queued submissions and leaves the active one alone.
LEMMA BooksCancel ==
    ASSUME Ledger, NEW c \in Clients, Cancel(c)
    PROVE  Books'
<1>1. /\ TypeOK /\ AnswerOK /\ PendingWhileRead /\ SubmissionTruthful /\ ActiveOK
      /\ completed_frames' = completed_frames /\ UNCHANGED <<active, active_submission, wpc>>
  BY DEF Ledger, Books, Traceable, Chained, LocalsOK, completed_frames, Cancel,
     worker, backend
<1>2. /\ accepted_frames' = accepted_frames
      /\ \A n \in 1..accepted_frames :
            submission'[n] = IF n \in QueuedSubmissions /\ submission[n] = "pending"
                             THEN "CANCELLED" ELSE submission[n]
  BY <1>1, CompletedAt DEF Statuses, Terminal, Cancel
<1>3. QueuedItems' = {} /\ Present' = {active}
  BY <1>1, EmptySeq DEF QueuedItems, Present, Cancel
<1>4. \A n : n \in QueuedSubmissions <=> \E x \in QueuedItems : x.type = "borrowed" /\ x.no = n
  BY DEF QueuedSubmissions, BorrowedIn
<1>5. /\ \A n : n \in Outstanding({"borrowed"})
                <=> \E x \in Present : x.type = "borrowed" /\ x.no = n
      /\ \A n : n \in Outstanding({"borrowed"})' <=> active.type = "borrowed" /\ active.no = n
  BY <1>3, OutstandingNow DEF NumbersIn
<1>6. "CANCELLED" \notin Failures \cup {"OK", "none", "pending"}
  BY ErrorAssumption DEF Failures
<1>7. PendingWhileRead'
  <2> SUFFICES ASSUME NEW n \in 1..accepted_frames
               PROVE  /\ submission'[n] = "pending" => n \in Outstanding({"borrowed"})'
                      /\ n \in Outstanding({"borrowed"})' /\ wpc # "exited"
                            => submission'[n] = "pending"
    BY <1>1, <1>2 DEF PendingWhileRead
  <2>1. ASSUME submission'[n] = "pending" PROVE n \in Outstanding({"borrowed"})'
    <3>1. submission[n] = "pending" /\ n \notin QueuedSubmissions
      BY <1>2, <1>6, <2>1
    <3>2. PICK x \in Present : x.type = "borrowed" /\ x.no = n
      BY <3>1, PendingAhead
    <3> QED
      BY <1>4, <1>5, <3>1, <3>2 DEF Present
  <2>2. ASSUME n \in Outstanding({"borrowed"})', wpc # "exited"
        PROVE  submission'[n] = "pending"
    <3>1. active.type = "borrowed" /\ active.no = n
      BY <1>5, <2>2
    <3>2. submission[n] = "pending"
      BY <1>1, <1>5, <2>2, <3>1 DEF PendingWhileRead, Present
    <3>3. active # NoItem /\ n \in Nat
      BY <3>1 DEF NoItem
    <3>4. n \notin QueuedSubmissions
      BY <1>4, <3>1, <3>3, PresentNumbers DEF Ledger, IsFrame, FrameTypes
    <3> QED
      BY <1>2, <3>2, <3>4
  <2> QED
    BY <2>1, <2>2
<1>8. SubmissionTruthful'
  <2>1. canceled' /\ failed' = failed
    BY DEF Cancel
  <2> QED
    BY <1>1, <1>2, <1>6, <2>1, PendingAhead DEF SubmissionTruthful
<1>9. AnswerOK'
  <2>1. active.type = "owned" => active.no \in 1..accepted_frames
    BY PresentNumbers DEF Ledger, Present, IsFrame, FrameTypes
  <2> QED
    BY <1>1, <1>2, <1>3, <2>1 DEF AnswerOK
<1> QED
  BY <1>7, <1>8, <1>9 DEF Books, Traceable, NothingForgotten, Cancel

\* A taken frame is answered, and nothing else is.
LEMMA BooksEncoded ==
    ASSUME Ledger, FrameEncoded
    PROVE  Books'
<1>1. /\ TypeOK /\ AnswerOK /\ PendingWhileRead /\ SubmissionTruthful /\ NothingForgotten
      /\ Chained /\ NumbersOK /\ wpc = "backend" /\ IsFrame(active)
      /\ UNCHANGED <<queue, failed, canceled>> /\ active' = NoItem
  BY DEF Ledger, Books, Traceable, Chained, FrameEncoded, flags
<1>2. /\ active.no = completed_frames + 1 /\ completed_frames' = completed_frames + 1
      /\ active \in Present /\ active # NoItem
  BY <1>1, ActiveNumber, EncodedCount DEF Present
<1>3. /\ completed_frames \in Nat /\ accepted_frames \in Nat
      /\ active.no \in 1..accepted_frames
      /\ \A x \in QueuedItems : IsFrame(x) => x.no \in 1..accepted_frames /\ x.no > active.no
  BY <1>1, <1>2, PresentNumbers DEF Present
<1>4. /\ accepted_frames' = accepted_frames
      /\ \A n \in 1..accepted_frames :
            submission'[n] = IF n \in BorrowedIn({active}) /\ submission[n] = "pending"
                             THEN "OK" ELSE submission[n]
  BY <1>1, CompletedAt DEF Statuses, Terminal, FrameEncoded
<1>5. \A n : n \in BorrowedIn({active}) <=> active.type = "borrowed" /\ active.no = n
  BY DEF BorrowedIn
<1>6. /\ QueuedItems' = QueuedItems /\ Present' = QueuedItems \cup {NoItem}
      /\ Present = QueuedItems \cup {active}
  BY <1>1 DEF QueuedItems, Present
<1>7. \A types \in SUBSET FrameTypes : \A n :
        /\ n \in Outstanding(types)' <=> \E x \in QueuedItems : x.type \in types /\ x.no = n
        /\ n \in Outstanding(types) <=>
             (active.type \in types /\ active.no = n) \/ n \in Outstanding(types)'
  <2> SUFFICES ASSUME NEW types \in SUBSET FrameTypes, NEW n
               PROVE  /\ n \in Outstanding(types)' <=> \E x \in QueuedItems : x.type \in types /\ x.no = n
                      /\ n \in Outstanding(types) <=>
                         (active.type \in types /\ active.no = n) \/ n \in Outstanding(types)'
    OBVIOUS
  <2>1. NoItem.type \notin types
    BY DEF NoItem, FrameTypes
  <2> QED
    BY <1>6, <2>1, OutstandingNow DEF NumbersIn
<1>8. \A x : x.type \in {"borrowed"} => IsFrame(x)
  BY DEF IsFrame, FrameTypes
<1>9. {"borrowed"} \in SUBSET FrameTypes /\ FrameTypes \in SUBSET FrameTypes
  BY DEF FrameTypes
<1>10. NothingForgotten'
  <2> SUFFICES ASSUME ~failed, ~canceled
               PROVE  1..accepted_frames = 1..(completed_frames + 1) \cup Outstanding(FrameTypes)'
    BY <1>1, <1>2, <1>4 DEF NothingForgotten
  <2>1. 1..accepted_frames = 1..completed_frames \cup Outstanding(FrameTypes)
    BY <1>1 DEF NothingForgotten
  <2>2. 1..(completed_frames + 1) = 1..completed_frames \cup {active.no}
    BY <1>2, <1>3
  <2>3. Outstanding(FrameTypes) = {active.no} \cup Outstanding(FrameTypes)'
    BY <1>1, <1>7, <1>9 DEF IsFrame
  <2> QED
    BY <2>1, <2>2, <2>3
<1>11. PendingWhileRead'
  <2> SUFFICES ASSUME NEW n \in 1..accepted_frames
               PROVE  /\ submission'[n] = "pending" => n \in Outstanding({"borrowed"})'
                      /\ n \in Outstanding({"borrowed"})' => submission'[n] = "pending"
    BY <1>4 DEF PendingWhileRead
  <2>1. ASSUME submission'[n] = "pending" PROVE n \in Outstanding({"borrowed"})'
    <3>1. submission[n] = "pending" /\ n \notin BorrowedIn({active})
      BY <1>4, <2>1
    <3> QED
      BY <1>1, <1>5, <1>7, <1>9, <3>1 DEF PendingWhileRead
  <2>2. ASSUME n \in Outstanding({"borrowed"})' PROVE submission'[n] = "pending"
    <3>1. PICK x \in QueuedItems : x.type \in {"borrowed"} /\ x.no = n
      BY <1>7, <1>9, <2>2
    <3>2. n # active.no
      BY <1>3, <1>8, <3>1
    <3>3. submission[n] = "pending"
      BY <1>1, <1>7, <1>9, <2>2 DEF PendingWhileRead
    <3> QED
      BY <1>4, <1>5, <3>2, <3>3
  <2> QED
    BY <2>1, <2>2
<1>12. SubmissionTruthful'
  <2>1. \A n \in 1..accepted_frames : submission[n] \in Failures \cup {"CANCELLED"} => n # active.no
    <3> SUFFICES submission[active.no] \notin Failures \cup {"CANCELLED"}
      OBVIOUS
    <3>1. CASE active.type = "borrowed"
      <4>1. submission[active.no] = "pending"
        BY <1>1, <1>3, <1>7, <1>9, <3>1 DEF PendingWhileRead
      <4> QED
        BY <4>1, ErrorAssumption DEF Failures
    <3>2. CASE active.type = "owned"
      BY <1>1, <1>2, <3>2, ErrorAssumption DEF AnswerOK, Present, Failures
    <3> QED
      BY <1>1, <3>1, <3>2 DEF IsFrame, FrameTypes
  <2>2. "OK" \notin Failures \cup {"CANCELLED"}
    BY ErrorAssumption DEF Failures
  <2> QED
    BY <1>1, <1>2, <1>3, <1>4, <1>5, <2>1, <2>2, SMTT(30) DEF SubmissionTruthful
<1>13. AnswerOK'
  <2>1. \A x \in QueuedItems : x.type = "owned" => x.no \in 1..accepted_frames
    BY <1>3 DEF IsFrame, FrameTypes
  <2>2. NoItem.type \notin {"owned", "borrowed"}
    BY DEF NoItem
  <2> QED
    BY <1>1, <1>4, <1>6, <2>1, <2>2 DEF AnswerOK
<1> QED
  BY <1>10, <1>11, <1>12, <1>13 DEF Books, Traceable


LEMMA BooksStep ==
    ASSUME Ledger, Next
    PROVE  Books'
<1>0. /\ TypeOK /\ Chained /\ Books /\ StageOK /\ LocalsOK /\ ActiveOK
      /\ (active.type = "borrowed" => active_submission = active.no)
  BY DEF Ledger, Chained, LocalsOK, Books, AnswerOK
<1>1. ASSUME UNCHANGED <<queue, active, active_submission, encoded, submission>>,
             wpc' = "exited" \/ wpc # "exited", failed => failed', canceled => canceled'
      PROVE  Books'
  BY <1>0, <1>1, BooksQuiet
<1>2. ASSUME NEW c \in Clients, LocalStep(c) \/ LocalCall(c) PROVE Books'
  <2>1. UNCHANGED <<session, worker>>
    BY <1>2, LocalUnchanged
  <2> QED
    BY <1>1, <2>1 DEF session, worker, backend, flags
<1>3. ASSUME NEW c \in Clients, SessionStep(c) PROVE Books'
  <2>1. CASE ReserveTakes(c) \/ CopyRefused(c) \/ PublishStopped(c) \/ PublishWouldBlock(c)
    BY <1>1, <2>1 DEF ReserveTakes, CopyRefused, PublishStopped, PublishWouldBlock,
       GiveBack, worker, backend, flags
  <2>2. CASE Publish(c) \/ SubmitBorrowed(c)
    BY <1>0, <2>2, PushesFrame, BooksPush
  <2>3. CASE FlushPush(c)
    <3>1. PICK item \in Items : BarrierPushed(item)
      BY <1>0, <2>3, PushesBarrier
    <3>2. /\ Present' = Present \cup {item} /\ ~IsFrame(item)
          /\ UNCHANGED <<encoded, submission, failed, canceled, wpc, active, active_submission>>
      BY <1>0, <3>1, PushItems
      DEF BarrierPushed, Present, TypeOK, IsFrame, FrameTypes, worker, backend, flags
    <3> QED
      BY <1>0, <3>2, BooksBarrier
  <2> QED
    BY <1>3, <2>1, <2>2, <2>3 DEF SessionStep
<1>4. ASSUME NEW c \in Clients, CloseRequest(c) PROVE Books'
  BY <1>1, <1>4 DEF CloseRequest, session, worker, backend, flags
<1>5. CASE WorkerSleeps \/ WorkerStops
  BY <1>1, <1>5 DEF WorkerSleeps, WorkerStops, session, worker, backend, flags
<1>6. CASE WorkerPops
  <2>1. QueuedItems = QueuedItems' \cup {active'} /\ active = NoItem
    BY <1>0, <1>6, TakeAll DEF WorkerPops, ActiveOK
  <2>2. \A x \in (Present \ Present') \cup (Present' \ Present) : x = NoItem
    BY <2>1 DEF Present
  <2>3. /\ UNCHANGED <<encoded, submission, failed, canceled>> /\ wpc # "exited"
        /\ (active'.type = "borrowed" => active_submission' = active'.no)
    BY <1>6 DEF WorkerPops, backend, flags
  <2> QED
    BY <2>2, <2>3, BooksBarrier DEF IsFrame, NoItem, FrameTypes
<1>7. CASE FlushDone
  <2>1. QueuedItems' = QueuedItems /\ active' = NoItem /\ active.type = "flush"
    BY <1>7 DEF FlushDone, QueuedItems
  <2>2. ~IsFrame(active) /\ ~IsFrame(NoItem) /\ NoItem.type # "borrowed"
    BY <2>1 DEF IsFrame, FrameTypes, NoItem
  <2>3. \A x \in (Present \ Present') \cup (Present' \ Present) : x = NoItem \/ x = active
    BY <2>1 DEF Present
  <2>4. UNCHANGED <<encoded, submission, failed, canceled>> /\ wpc # "exited"
    BY <1>7 DEF FlushDone, flags
  <2> QED
    BY <2>1, <2>2, <2>3, <2>4, BooksBarrier
<1>8. ASSUME NEW e \in BackendErrors, BackendFails(e) PROVE Books'
  <2>1. \A x \in Present : x.type = "borrowed" => x.no \in Doomed
    BY DEF Present, Doomed, BorrowedIn
  <2>2. /\ submission' = Completed(Doomed, e) /\ e \in Failures /\ failed' = TRUE
        /\ active' = NoItem /\ UNCHANGED <<encoded, canceled>> /\ queue' = <<>>
    BY <1>8 DEF BackendFails, RecordFailure, Failures, backend
  <2> QED
    BY <2>1, <2>2, BooksBreak
<1>9. ASSUME NEW r \in BackendErrors \cup {"OK"}, BackendCloses(r) PROVE Books'
  BY <1>1, <1>9 DEF BackendCloses
<1>10. CASE BackendThrows
  <2>1. \A x \in Present : x.type = "borrowed" => x.no \in Abandoned
    <3>1. \A x \in Present : x.type = "borrowed" => x.no # 0
      BY PresentNumbers DEF Ledger, IsFrame, FrameTypes
    <3> QED
      BY <1>0, <3>1 DEF Present, Abandoned, QueuedSubmissions, BorrowedIn
  <2> QED
    BY <1>10, <2>1, BooksBreak DEF BackendThrows, Failures, backend
<1>11. CASE Quiescent
  BY <1>1, <1>11 DEF Quiescent, vars, session, worker, backend, flags
<1> QED
  BY <1>2, <1>3, <1>4, <1>5, <1>6, <1>7, <1>8, <1>9, <1>10, <1>11,
     BooksCancel, BooksEncoded
  DEF Next, ClientStep, ClientCall, WorkerStep

-----------------------------------------------------------------------------
LEMMA InitLedger == Init => StageOK /\ NumbersOK /\ Books
<1> SUFFICES ASSUME Init PROVE StageOK /\ NumbersOK /\ Books
  OBVIOUS
<1>1. /\ Len(queue) = 0 /\ QueuedItems = {} /\ accepted_frames = 0 /\ completed_frames = 0
      /\ Reached = 0
  BY EmptySeq
  DEF Init, QueuedItems, accepted_frames, completed_frames, Reached, Advance, IsFrame,
      NoItem, FrameTypes
<1>2. StageOK
  BY DEF Init, StageOK
<1>3. NumbersOK
  BY <1>1 DEF NumbersOK, SortedOK, AheadOK
<1>4. AnswerOK
  BY <1>1 DEF Init, AnswerOK, NoItem
<1>5. NothingForgotten
  <2>1. Outstanding(FrameTypes) = {} /\ 1..0 = {}
    BY <1>1 DEF Init, Outstanding, NoItem, FrameTypes
  <2> QED
    BY <1>1, <2>1 DEF NothingForgotten
<1>6. PendingWhileRead /\ SubmissionTruthful
  BY <1>1 DEF PendingWhileRead, SubmissionTruthful
<1> QED
  BY <1>2, <1>3, <1>4, <1>5, <1>6 DEF Books, Traceable

LEMMA LedgerHolds == Spec => []Ledger
<1>1. Init => StageOK /\ NumbersOK /\ Books
  BY InitLedger
<1>2. Ledger /\ [Next]_vars => StageOK' /\ NumbersOK' /\ Books'
  <2> SUFFICES ASSUME Ledger, [Next]_vars PROVE StageOK' /\ NumbersOK' /\ Books'
    OBVIOUS
  <2>1. CASE UNCHANGED vars
    <3>1. UNCHANGED <<queue, active, active_submission, encoded, submission, wpc>>
          /\ UNCHANGED <<closed, failed, canceled, terminal_result, finalized, close_requested>>
      BY <2>1 DEF vars, session, worker, backend, flags
    <3>2. StageOK'
      BY <3>1 DEF Ledger, StageOK
    <3>3. NumbersOK'
      BY <3>1 DEF Ledger, NumbersOK, SortedOK, AheadOK, Reached, Advance, IsFrame,
         QueuedItems, completed_frames, accepted_frames
    <3> QED
      BY <3>1, <3>2, <3>3, BooksQuiet DEF Ledger
  <2>2. CASE Next
    BY <2>2, StageStep, NumbersStep, BooksStep DEF Ledger, Chained
  <2> QED
    BY <2>1, <2>2
<1> QED
  BY <1>1, <1>2, Locations, ChainHolds, PTL DEF Spec, Ledger, Chained

(* Every frame a write accepted is encoded in its turn, queued, with the   *)
(* worker or given up by a cancel or a failure, and the status of its      *)
(* submission says which (cpu_submission.cpp, encoder_queue_submission.cpp, *)
(* encoder_worker.cpp: every way out of the queue completes submissions).  *)
THEOREM Accounted == Spec => []WorkAccounted
<1>1. Ledger => WorkAccounted
  BY DEF Ledger, Books, Chained, WorkAccounted
<1> QED
  BY <1>1, LedgerHolds, PTL

-----------------------------------------------------------------------------
(* What flush and close report.                                            *)

\* Which step takes a client out of a call that waits for the worker.
LEMMA WhoReturns ==
    ASSUME TypeOK, Next, NEW c \in Clients, pc'[c] = "idle"
    PROVE  /\ pc[c] = "flush_wait" => FlushReturns(c)
           /\ pc[c] = "join" => CloseReturns(c)
<1> SUFFICES ASSUME pc[c] \in {"flush_wait", "join"}
             PROVE  /\ pc[c] = "flush_wait" => FlushReturns(c)
                    /\ pc[c] = "join" => CloseReturns(c)
  OBVIOUS
<1>1. pc \in [Clients -> ClientPcs] /\ pc' # pc
  BY DEF TypeOK, ClientType
<1>2. ASSUME NEW d \in Clients, LocalStep(d)
      PROVE  /\ pc[c] = "flush_wait" => FlushReturns(c)
             /\ pc[c] = "join" => CloseReturns(c)
  <2>1. CASE \/ ReserveWaits(d) \/ PublishWaits(d) \/ FlushSleeps(d) \/ WaitSleeps(d)
             \/ \E l \in {"submit", "flush"} : RoomWaits(d, l)
    BY <1>1, <2>1 DEF ReserveWaits, PublishWaits, FlushSleeps, WaitSleeps, RoomWaits, client
  <2>2. CASE \/ ReserveWouldBlock(d) \/ ReserveStopped(d) \/ CopyDone(d) \/ CopyThrows(d)
             \/ WaitReturns(d) \/ Join(d) \/ JoinRaces(d)
             \/ \E l \in {"submit", "flush"} : RoomStopped(d, l)
    BY <1>1, <2>2
    DEF ReserveWouldBlock, ReserveStopped, CopyDone, CopyThrows, WaitReturns, Join,
        JoinRaces, RoomStopped, Awake, Goto, Return
  <2>3. CASE FlushReturns(d) \/ CloseReturns(d)
    <3>1. d = c
      BY <1>1, <2>3 DEF FlushReturns, CloseReturns, Return
    <3> QED
      BY <2>3, <3>1 DEF FlushReturns, CloseReturns, Awake
  <2> QED
    BY <1>2, <2>1, <2>2, <2>3 DEF LocalStep
<1>3. ASSUME NEW d \in Clients, SessionStep(d) PROVE FALSE
  BY <1>1, <1>3
  DEF SessionStep, ReserveTakes, CopyRefused, PublishStopped, PublishWouldBlock, Publish,
      SubmitBorrowed, FlushPush, Awake, Goto, Return
<1>4. ASSUME NEW d \in Clients, ClientCall(d) PROVE FALSE
  BY <1>1, <1>4
  DEF ClientCall, LocalCall, Write, Call, WaitCall, CancelRefused, Cancel, CloseRequest,
      Idle, Goto, Return
<1>5. ASSUME WorkerStep PROVE FALSE
  BY <1>1, <1>5
  DEF WorkerStep, WorkerSleeps, WorkerPops, WorkerStops, FrameEncoded, FlushDone,
      BackendThrows, BackendFails, BackendCloses, client
<1>6. ~Quiescent
  BY <1>1 DEF Quiescent, vars, client
<1> QED
  BY <1>2, <1>3, <1>4, <1>5, <1>6 DEF Next, ClientStep

\* Every step but the push of a barrier: who waits has waited before.
LEMMA FlushersWait ==
    ASSUME TypeOK, Next, \A d \in Clients : ~FlushPush(d),
           NEW c \in Clients, pc'[c] = "flush_wait"
    PROVE  pc[c] = "flush_wait" /\ token'[c] = token[c] /\ mark'[c] = mark[c]
<1>1. /\ pc \in [Clients -> ClientPcs] /\ token \in [Clients -> Nat]
      /\ mark \in [Clients -> Nat]
  BY DEF TypeOK, ClientType
<1>2. ASSUME NEW d \in Clients, LocalStep(d)
      PROVE  pc[c] = "flush_wait" /\ token'[c] = token[c] /\ mark'[c] = mark[c]
  BY <1>1, <1>2
  DEF LocalStep, ReserveWaits, ReserveWouldBlock, ReserveStopped, CopyDone,
      CopyThrows, PublishWaits, RoomWaits, RoomStopped, FlushSleeps,
      FlushReturns, WaitSleeps, WaitReturns, Join, JoinRaces, CloseReturns,
      Goto, Return, client, locals
<1>3. ASSUME NEW d \in Clients, SessionStep(d)
      PROVE  pc[c] = "flush_wait" /\ token'[c] = token[c] /\ mark'[c] = mark[c]
  BY <1>1, <1>3
  DEF SessionStep, ReserveTakes, CopyRefused, PublishStopped, PublishWouldBlock, Publish,
      SubmitBorrowed, Goto, Return, locals
<1>4. ASSUME NEW d \in Clients, ClientCall(d)
      PROVE  pc[c] = "flush_wait" /\ token'[c] = token[c] /\ mark'[c] = mark[c]
  BY <1>1, <1>4
  DEF ClientCall, LocalCall, Write, Call, WaitCall, CancelRefused, Cancel, CloseRequest,
      Goto, Return, locals
<1>5. ASSUME WorkerStep
      PROVE  pc[c] = "flush_wait" /\ token'[c] = token[c] /\ mark'[c] = mark[c]
  BY <1>1, <1>5
  DEF WorkerStep, WorkerSleeps, WorkerPops, WorkerStops, FrameEncoded, FlushDone,
      BackendThrows, BackendFails, BackendCloses, client, locals
<1>6. CASE Quiescent
  BY <1>6 DEF Quiescent, vars, client, locals
<1> QED
  BY <1>2, <1>3, <1>4, <1>5, <1>6 DEF Next, ClientStep

LEMMA AcceptedGrows ==
    ASSUME TypeOK, LocalsOK, Next
    PROVE  accepted_frames \in Nat /\ accepted_frames' \in Nat /\ accepted_frames <= accepted_frames'
<1>1. submission \in Seq(Statuses) /\ submission' \in Seq(Statuses)
  BY SessionTypeStep DEF TypeOK, SessionType
<1>2. /\ DOMAIN submission = 1..Len(submission) /\ Len(submission) \in Nat
      /\ DOMAIN submission' = 1..Len(submission') /\ Len(submission') \in Nat
  BY <1>1, LenProperties
<1>3. 1..Len(submission) \subseteq 1..Len(submission')
  BY <1>2, LedgerGrows
<1>4. Len(submission) <= Len(submission')
  <2>1. CASE Len(submission) = 0
    BY <1>2, <2>1
  <2>2. CASE Len(submission) # 0
    <3>1. Len(submission) \in 1..Len(submission)
      BY <1>2, <2>2
    <3> QED
      BY <1>2, <1>3, <3>1
  <2> QED
    BY <2>1, <2>2
<1> QED
  BY <1>2, <1>4 DEF accepted_frames

\* The barriers that exist.
LEMMA BarriersNow ==
    /\ Barriers = {x \in Present : x.type = "flush"}
    /\ Barriers' = {x \in Present' : x.type = "flush"}
<1> QED
  BY DEF Barriers, Present

\* Steps that add no barrier and end none.
LEMMA BarrierQuiet ==
    ASSUME Chained, BarrierOK, Next, \A d \in Clients : ~FlushPush(d),
           Barriers' \subseteq Barriers, UNCHANGED <<tokens, flushed>>
    PROVE  BarrierOK'
<1>1. accepted_frames \in Nat /\ accepted_frames' \in Nat /\ accepted_frames <= accepted_frames'
  BY AcceptedGrows DEF Chained
<1>2. mark \in [Clients -> Nat] /\ UNCHANGED <<next_flush_token, completed_flush_token, flushed>>
  BY DEF Chained, TypeOK, ClientType, tokens
<1>3. ASSUME NEW c \in Clients, pc'[c] = "flush_wait"
      PROVE  /\ token'[c] <= next_flush_token' /\ mark'[c] <= accepted_frames'
             /\ token'[c] <= completed_flush_token' => mark'[c] <= flushed'
             /\ \A item \in Barriers' : token'[c] <= item.token => mark'[c] <= item.no
  <2>1. pc[c] = "flush_wait" /\ token'[c] = token[c] /\ mark'[c] = mark[c]
    BY <1>3, FlushersWait DEF Chained
  <2>2. /\ token[c] <= next_flush_token /\ mark[c] <= accepted_frames
        /\ token[c] <= completed_flush_token => mark[c] <= flushed
        /\ \A item \in Barriers : token[c] <= item.token => mark[c] <= item.no
    BY <2>1 DEF BarrierOK
  <2>3. mark'[c] <= accepted_frames'
    BY <1>1, <1>2, <2>1, <2>2
  <2> QED
    BY <1>2, <2>1, <2>2, <2>3
<1>4. completed_flush_token' <= next_flush_token' /\ \A item \in Barriers' : item.token <= next_flush_token'
  BY <1>2 DEF BarrierOK
<1> QED
  BY <1>3, <1>4 DEF BarrierOK

\* A new barrier is the last: it has a token of its own and stands behind
\* everything that was accepted.
LEMMA BarrierNew ==
    ASSUME Chained, BarrierOK, NEW c \in Clients, FlushPush(c)
    PROVE  BarrierOK'
<1> DEFINE item == [type |-> "flush", no |-> accepted_frames,
                    token |-> next_flush_token + 1, slot |-> NoSlot]
<1>1. /\ accepted_frames \in Nat /\ next_flush_token \in Nat /\ completed_flush_token \in Nat
      /\ token \in [Clients -> Nat] /\ mark \in [Clients -> Nat] /\ pc \in [Clients -> ClientPcs]
      /\ SessionType
  BY Counts DEF Chained, TypeOK, SessionType, ClientType
<1>2. item \in Items /\ Push(item)
  BY <1>1 DEF Items, FlushPush
<1>3. /\ next_flush_token' = next_flush_token + 1 /\ accepted_frames' = accepted_frames
      /\ UNCHANGED <<completed_flush_token, flushed, active>>
      /\ token' = [token EXCEPT ![c] = next_flush_token + 1]
      /\ mark' = [mark EXCEPT ![c] = accepted_frames]
      /\ pc' = [pc EXCEPT ![c] = "flush_wait"]
  BY DEF FlushPush, Goto, accepted_frames, worker, backend
<1>4. Barriers' = Barriers \cup {item}
  <2>1. Present' = Present \cup {item}
    BY <1>1, <1>2, <1>3, PushItems DEF Present
  <2> QED
    BY <2>1, BarriersNow
<1>5. \A x \in Barriers : x.token \in Nat
  BY PresentType, BarriersNow DEF Chained
<1>6. ASSUME NEW d \in Clients, pc'[d] = "flush_wait"
      PROVE  /\ token'[d] <= next_flush_token' /\ mark'[d] <= accepted_frames'
             /\ token'[d] <= completed_flush_token' => mark'[d] <= flushed'
             /\ \A x \in Barriers' : token'[d] <= x.token => mark'[d] <= x.no
  <2>1. CASE d = c
    <3>1. token'[d] = next_flush_token + 1 /\ mark'[d] = accepted_frames
      BY <1>1, <1>3, <2>1
    <3>2. \A x \in Barriers : ~(next_flush_token + 1 <= x.token)
      BY <1>1, <1>5 DEF BarrierOK
    <3>3. ~(next_flush_token + 1 <= completed_flush_token)
      BY <1>1 DEF BarrierOK
    <3> QED
      BY <1>1, <1>3, <1>4, <3>1, <3>2, <3>3
  <2>2. CASE d # c
    <3>1. pc[d] = "flush_wait" /\ token'[d] = token[d] /\ mark'[d] = mark[d]
      BY <1>1, <1>3, <1>6, <2>2
    <3>2. /\ token[d] <= next_flush_token /\ mark[d] <= accepted_frames
          /\ token[d] <= completed_flush_token => mark[d] <= flushed
          /\ \A x \in Barriers : token[d] <= x.token => mark[d] <= x.no
      BY <3>1 DEF BarrierOK
    <3>3. token[d] \in Nat
      BY <1>1
    <3> QED
      BY <1>1, <1>3, <1>4, <3>1, <3>2, <3>3
  <2> QED
    BY <2>1, <2>2
<1>7. completed_flush_token' <= next_flush_token'
  BY <1>1, <1>3 DEF BarrierOK
<1>8. \A x \in Barriers' : x.token <= next_flush_token'
  BY <1>1, <1>3, <1>4, <1>5 DEF BarrierOK
<1> QED
  BY <1>6, <1>7, <1>8 DEF BarrierOK

\* The worker answers a barrier when the backend has all that stood before it.
LEMMA BarrierReached ==
    ASSUME Chained, BarrierOK, Next, FlushDone
    PROVE  BarrierOK'
<1>1. /\ active.no = completed_frames /\ active.type = "flush" /\ active \in Barriers
      /\ active.token \in Nat
  <2>1. active.type = "flush" /\ ~IsFrame(active)
    BY DEF FlushDone, IsFrame, FrameTypes
  <2>2. active.no = completed_frames /\ active \in Items
    BY <2>1, ActiveNumber DEF FlushDone
  <2> QED
    BY <2>1, <2>2 DEF Barriers, Items
<1>2. /\ flushed' = completed_frames /\ completed_flush_token' = active.token
      /\ UNCHANGED <<next_flush_token, submission, token, mark, pc>>
  BY DEF FlushDone, client, locals
<1>3. Barriers' \subseteq Barriers
  <2>1. QueuedItems' = QueuedItems /\ active' = NoItem /\ NoItem.type # "flush"
    BY DEF FlushDone, QueuedItems, NoItem
  <2> QED
    BY <2>1 DEF Barriers
<1>4. accepted_frames' = accepted_frames
  BY <1>2 DEF accepted_frames
<1> QED
  BY <1>1, <1>2, <1>3, <1>4 DEF BarrierOK

LEMMA BarrierStep ==
    ASSUME Chained, BarrierOK, Next
    PROVE  BarrierOK'
<1>0. TypeOK /\ ActiveOK /\ NoItem.type # "flush"
  BY DEF Chained, LocalsOK, NoItem
<1>1. ASSUME UNCHANGED <<tokens, flushed>>, \A d \in Clients : ~FlushPush(d),
             Present' \subseteq Present \cup {NoItem} \/
             \E x : ~(x.type = "flush") /\ Present' = Present \cup {x}
      PROVE  BarrierOK'
  <2>1. Barriers' \subseteq Barriers
    BY <1>0, <1>1, BarriersNow
  <2> QED
    BY <1>1, <2>1, BarrierQuiet
<1>2. ASSUME NEW c \in Clients, FlushPush(c) PROVE BarrierOK'
  BY <1>2, BarrierNew
<1>3. CASE FlushDone
  BY <1>3, BarrierReached
<1>4. ASSUME \A d \in Clients : ~FlushPush(d), ~FlushDone PROVE BarrierOK'
  <2>1. ASSUME UNCHANGED <<queue, tokens, flushed>>, active' \in {active, NoItem} PROVE BarrierOK'
    <3>1. Present' \subseteq Present \cup {NoItem}
      BY <2>1 DEF Present, QueuedItems
    <3> QED
      BY <1>1, <1>4, <2>1, <3>1
  <2>2. ASSUME NEW c \in Clients, LocalStep(c) \/ LocalCall(c) PROVE BarrierOK'
    <3>1. UNCHANGED <<session, worker>>
      BY <2>2, LocalUnchanged
    <3> QED
      BY <2>1, <3>1 DEF session, worker, backend
  <2>3. ASSUME NEW c \in Clients, SessionStep(c) PROVE BarrierOK'
    <3>1. CASE ReserveTakes(c) \/ CopyRefused(c) \/ PublishStopped(c) \/ PublishWouldBlock(c)
      BY <2>1, <3>1 DEF ReserveTakes, CopyRefused, PublishStopped, PublishWouldBlock,
         GiveBack, worker, backend
    <3>2. CASE Publish(c) \/ SubmitBorrowed(c)
      <4>1. PICK item \in Items : FramePushed(item)
        BY <3>2, PushesFrame DEF Chained
      <4>2. /\ UNCHANGED <<tokens, flushed>> /\ Present' = Present \cup {item}
            /\ ~(item.type = "flush")
        BY <1>0, <4>1, PushItems
        DEF FramePushed, worker, backend, Present, IsFrame, FrameTypes, TypeOK
      <4> QED
        BY <1>1, <1>4, <4>2
    <3> QED
      BY <1>4, <2>3, <3>1, <3>2 DEF SessionStep
  <2>4. ASSUME NEW c \in Clients, Cancel(c) PROVE BarrierOK'
    <3>1. QueuedItems' = {} /\ active' = active /\ UNCHANGED <<tokens, flushed>>
      BY <2>4, EmptySeq DEF Cancel, QueuedItems, worker, backend
    <3>2. Present' \subseteq Present \cup {NoItem}
      BY <3>1 DEF Present
    <3> QED
      BY <1>1, <1>4, <3>1, <3>2
  <2>5. ASSUME NEW c \in Clients, CloseRequest(c) PROVE BarrierOK'
    BY <2>1, <2>5 DEF CloseRequest, session, worker, backend
  <2>6. CASE WorkerSleeps \/ WorkerStops
    BY <2>1, <2>6 DEF WorkerSleeps, WorkerStops, session, worker, backend
  <2>7. CASE WorkerPops
    <3>1. Present' \subseteq Present /\ UNCHANGED <<tokens, flushed>>
      BY <1>0, <2>7, TakeAll DEF WorkerPops, Present, backend
    <3> QED
      BY <1>1, <1>4, <3>1
  <2>8. CASE FrameEncoded
    BY <2>1, <2>8 DEF FrameEncoded
  <2>9. ASSUME NEW e \in BackendErrors, BackendFails(e) PROVE BarrierOK'
    <3>1. QueuedItems' = {} /\ active' = NoItem /\ UNCHANGED <<tokens, flushed>>
      BY <2>9, EmptySeq DEF BackendFails, QueuedItems, backend
    <3>2. Present' \subseteq Present \cup {NoItem}
      BY <3>1 DEF Present
    <3> QED
      BY <1>1, <1>4, <3>1, <3>2
  <2>10. ASSUME NEW r \in BackendErrors \cup {"OK"}, BackendCloses(r) PROVE BarrierOK'
    BY <2>1, <2>10 DEF BackendCloses
  <2>11. CASE BackendThrows
    BY <2>1, <2>11 DEF BackendThrows, backend
  <2>12. CASE Quiescent
    BY <2>1, <2>12 DEF Quiescent, vars, session, worker, backend
  <2> QED
    BY <1>4, <2>2, <2>3, <2>4, <2>5, <2>6, <2>7, <2>8, <2>9, <2>10, <2>11, <2>12
    DEF Next, ClientStep, ClientCall, WorkerStep
<1> QED
  BY <1>2, <1>3, <1>4

LEMMA BarrierHolds == Spec => []BarrierOK
<1>1. Init => BarrierOK
  <2> SUFFICES ASSUME Init PROVE BarrierOK
    OBVIOUS
  <2>1. QueuedItems = {} /\ Barriers = {}
    BY EmptySeq DEF Init, QueuedItems, Barriers, NoItem
  <2> QED
    BY <2>1 DEF Init, BarrierOK
<1>2. Chained /\ BarrierOK /\ [Next]_vars => BarrierOK'
  <2>1. ASSUME BarrierOK, UNCHANGED vars PROVE BarrierOK'
    BY <2>1
    DEF BarrierOK, Barriers, QueuedItems, accepted_frames, vars, session, worker, backend,
        client, tokens, locals
  <2> QED
    BY <2>1, BarrierStep
<1> QED
  BY <1>1, <1>2, LedgerHolds, PTL DEF Spec, Ledger

\* A flush that says OK has its token answered.
LEMMA FlushTruthful ==
    ASSUME Ledger, BarrierOK, Next, NEW c \in Clients,
           pc[c] = "flush_wait", pc'[c] = "idle", ret'[c] = "OK"
    PROVE  mark[c] <= flushed
<1>1. FlushReturns(c)
  BY WhoReturns DEF Ledger, Chained
<1>2. ret'[c] = IF failed THEN terminal_result ELSE IF canceled THEN "CANCELLED" ELSE "OK"
  BY <1>1 DEF FlushReturns, Return, Ledger, Chained, TypeOK, ClientType
<1>3. ~failed /\ ~canceled
  BY <1>2 DEF Ledger, StageOK
<1>4. token[c] <= completed_flush_token
  BY <1>1, <1>3
  DEF FlushReturns, FlushSettled, Ledger, Chained, TypeOK, SessionType, ClientType
<1> QED
  BY <1>4 DEF BarrierOK

LEMMA CloseTruthful ==
    ASSUME Ledger, Next, NEW c \in Clients,
           pc[c] = "join", pc'[c] = "idle", ret'[c] = "OK"
    PROVE  finalized /\ (canceled \/ completed_frames = accepted_frames)
<1>1. CloseReturns(c)
  BY WhoReturns DEF Ledger, Chained
<1>2. ret'[c] = IF failed THEN terminal_result ELSE "OK"
  BY <1>1 DEF CloseReturns, Return, Ledger, Chained, TypeOK, ClientType
<1>3. ~failed /\ wpc = "exited"
  BY <1>1, <1>2 DEF Ledger, StageOK, CloseReturns
<1>4. finalized /\ queue = <<>> /\ active = NoItem
  BY <1>3 DEF Ledger, StageOK, Chained, LocalsOK, ActiveOK
<1>5. Reached = completed_frames
  BY <1>4, Counts DEF Reached, Ledger, Chained
<1> QED
  BY <1>3, <1>4, <1>5 DEF Ledger, Chained, ChainOK

(* A flush that returns OK has drained every frame accepted before it, a   *)
(* close that returns OK leaves a finalised container with every accepted  *)
(* frame, whatever other threads write, flush, cancel or close at the same *)
(* time (encoder_session.cpp, encoder_worker.cpp).                         *)
THEOREM Truthful == Spec => ResultsTruthful
<1>1. Ledger /\ BarrierOK /\ [Next]_vars =>
        \A c \in Clients :
            pc[c] = "flush_wait" /\ pc'[c] = "idle" /\ ret'[c] = "OK" => mark[c] <= flushed
  BY FlushTruthful DEF vars, client
<1>2. Ledger /\ [Next]_vars =>
        \A c \in Clients :
            pc[c] = "join" /\ pc'[c] = "idle" /\ ret'[c] = "OK" =>
            /\ finalized
            /\ canceled \/ completed_frames = accepted_frames
  BY CloseTruthful DEF vars, client
<1> QED
  BY <1>1, <1>2, LedgerHolds, BarrierHolds, PTL
  DEF Spec, ResultsTruthful, FlushIsBarrier, CloseIsDurable


-----------------------------------------------------------------------------
(* The session implements the ordered pipeline.                            *)

LEMMA BacklogType ==
    ASSUME Ledger
    PROVE  /\ IsFiniteSet(Outstanding(FrameTypes)) /\ Backlog \in Nat
           /\ Outstanding(FrameTypes) \subseteq (completed_frames + 1)..accepted_frames
           /\ accepted_frames \in Nat /\ completed_frames \in Nat
<1>1. /\ accepted_frames \in Nat /\ completed_frames \in Nat
      /\ \A x \in Present : IsFrame(x) => x.no \in 1..accepted_frames /\ x.no > completed_frames
  BY PresentNumbers DEF Ledger
<1>2. Outstanding(FrameTypes) \subseteq (completed_frames + 1)..accepted_frames
  BY <1>1 DEF Outstanding, Present, IsFrame
<1>3. IsFiniteSet((completed_frames + 1)..accepted_frames)
  BY <1>1, FS_Interval
<1>4. IsFiniteSet(Outstanding(FrameTypes))
  BY <1>2, <1>3, FS_Subset
<1> QED
  BY <1>1, <1>2, <1>4, FS_CardinalityType DEF Backlog

\* What the session has taken on only changes where the pipeline does.
LEMMA PipelineQuiet ==
    ASSUME UNCHANGED <<accepted_frames, completed_frames, flushed, closed, failed, accepting>>,
           Outstanding(FrameTypes)' = Outstanding(FrameTypes),
           wpc = "exited" <=> wpc' = "exited"
    PROVE  UNCHANGED Pipeline!vars
<1> QED
  BY DEF Pipeline!vars, Horizon, Backlog, Phase

LEMMA PipelineStutters ==
    ASSUME UNCHANGED <<queue, active, encoded, submission, flushed, closed, failed, accepting>>,
           wpc = "exited" <=> wpc' = "exited"
    PROVE  UNCHANGED Pipeline!vars
<1>1. Outstanding(FrameTypes)' = Outstanding(FrameTypes)
  BY DEF Outstanding, QueuedItems
<1> QED
  BY <1>1, PipelineQuiet DEF accepted_frames, completed_frames

LEMMA PipelineAccepts ==
    ASSUME Ledger, NEW c \in Clients, Publish(c) \/ SubmitBorrowed(c)
    PROVE  Pipeline!Accept
<1>1. PICK item \in Items : FramePushed(item)
  BY PushesFrame DEF Ledger, Chained
<1>2. /\ accepted_frames' = accepted_frames + 1
      /\ Outstanding(FrameTypes)' = Outstanding(FrameTypes) \cup {accepted_frames + 1}
  <2>1. Present' = Present \cup {item}
    BY <1>1, PushItems DEF FramePushed, Present, worker, Ledger, Chained, TypeOK
  <2>2. accepted_frames' = accepted_frames + 1
    BY <1>1, AppendAt DEF FramePushed, Ledger, Chained, Statuses
  <2> QED
    BY <1>1, <2>1, <2>2, OutstandingNow DEF NumbersIn, FramePushed, IsFrame
<1>3. Backlog' = Backlog + 1
  <2>1. accepted_frames + 1 \notin Outstanding(FrameTypes)
    BY BacklogType
  <2> QED
    BY <1>2, <2>1, BacklogType, FS_AddElement DEF Backlog
<1>4. /\ UNCHANGED <<wpc, completed_frames, flushed, closed, failed, accepting>>
      /\ accepting /\ ~closed /\ wpc # "exited"
  <2>1. Running /\ UNCHANGED <<flags, worker>>
    BY DEF Publish, SubmitBorrowed
  <2> QED
    BY <2>1 DEF Running, flags, worker, backend, completed_frames, Ledger, StoppedOK, StageOK
<1> QED
  BY <1>2, <1>3, <1>4, BacklogType DEF Pipeline!Accept, Horizon, Phase

LEMMA PipelineDelivers ==
    ASSUME Ledger, FrameEncoded
    PROVE  Pipeline!Deliver
<1>1. /\ active.no = completed_frames + 1 /\ completed_frames' = completed_frames + 1
      /\ IsFrame(active) /\ active # NoItem
      /\ accepted_frames' = accepted_frames
  <2>1. accepted_frames' = accepted_frames
    BY CompletedAt DEF Ledger, Chained, Statuses, Terminal, FrameEncoded
  <2> QED
    BY <2>1, ActiveNumber, EncodedCount DEF Ledger, FrameEncoded
<1>2. Outstanding(FrameTypes) = Outstanding(FrameTypes)' \cup {active.no}
      /\ active.no \notin Outstanding(FrameTypes)'
  <2>1. Present' = QueuedItems \cup {NoItem} /\ Present = QueuedItems \cup {active}
    BY DEF Present, QueuedItems, FrameEncoded
  <2>2. \A x \in QueuedItems : IsFrame(x) => x.no \in Nat /\ x.no > active.no
    BY <1>1, PresentNumbers DEF Ledger, Present
  <2>3. NoItem.type \notin FrameTypes /\ active.no \in Nat
    BY <1>1, BacklogType DEF NoItem, FrameTypes
  <2>4. \A n : n \in Outstanding(FrameTypes)'
               <=> \E x \in QueuedItems : x.type \in FrameTypes /\ x.no = n
    BY <2>1, <2>3, OutstandingNow DEF NumbersIn
  <2>5. \A n : n \in Outstanding(FrameTypes)
               <=> n = active.no \/ \E x \in QueuedItems : x.type \in FrameTypes /\ x.no = n
    BY <1>1, <2>1, OutstandingNow DEF NumbersIn, IsFrame
  <2>6. active.no \notin Outstanding(FrameTypes)'
    BY <2>2, <2>3, <2>4 DEF IsFrame
  <2> QED
    BY <2>4, <2>5, <2>6
<1>3. Backlog = Backlog' + 1 /\ Backlog' \in Nat
  <2>1. IsFiniteSet(Outstanding(FrameTypes)')
    BY <1>2, BacklogType, FS_Subset
  <2>2. Backlog' = Cardinality(Outstanding(FrameTypes)')
    BY DEF Backlog
  <2> QED
    BY <1>2, <2>1, <2>2, FS_AddElement, FS_CardinalityType DEF Backlog
<1>4. /\ UNCHANGED <<flushed, closed, failed, accepting>> /\ ~closed
      /\ wpc # "exited" /\ wpc' # "exited"
  BY DEF FrameEncoded, flags, Ledger, StageOK
<1> QED
  BY <1>1, <1>3, <1>4, BacklogType DEF Pipeline!Deliver, Pipeline!Alive, Horizon, Phase


\* A cancel or a failed call of the backend gives up frames, never one the
\* backend has.
LEMMA PipelineAborts ==
    ASSUME Ledger,
           (\E c \in Clients : Cancel(c)) \/ (\E e \in BackendErrors : BackendFails(e))
    PROVE  Pipeline!Abort
<1>1. Outstanding(FrameTypes)' \subseteq Outstanding(FrameTypes)
  <2>1. Present' \subseteq Present \cup {NoItem}
    <3>1. queue' = <<>> /\ active' \in {active, NoItem}
      BY DEF Cancel, BackendFails, worker
    <3>2. QueuedItems' = {}
      BY <3>1, EmptySeq DEF QueuedItems
    <3> QED
      BY <3>1, <3>2 DEF Present
  <2>2. NoItem.type \notin FrameTypes
    BY DEF NoItem, FrameTypes
  <2> QED
    BY <2>1, <2>2, OutstandingNow DEF NumbersIn
<1>2. Backlog' \in Nat /\ Backlog' <= Backlog
  <2>1. Backlog' = Cardinality(Outstanding(FrameTypes)')
    BY DEF Backlog
  <2>2. IsFiniteSet(Outstanding(FrameTypes)')
    BY <1>1, BacklogType, FS_Subset
  <2> QED
    BY <1>1, <2>1, <2>2, BacklogType, FS_Subset, FS_CardinalityType DEF Backlog
<1>3. accepted_frames' = accepted_frames
  BY CompletedAt, ErrorAssumption
  DEF Ledger, Chained, Cancel, BackendFails, Statuses, Terminal, Failures
<1>4. /\ UNCHANGED <<completed_frames, flushed, closed>> /\ ~closed /\ ~accepting'
      /\ wpc # "exited" /\ wpc' # "exited"
  BY DEF Cancel, BackendFails, RecordFailure, worker, backend, completed_frames, Ledger, StageOK
<1>5. Horizon' \in completed_frames..Horizon
  BY <1>2, <1>4, BacklogType DEF Horizon
<1> QED
  BY <1>3, <1>4, <1>5 DEF Pipeline!Abort, Pipeline!Alive, Phase

\* The worker's end.
LEMMA PipelineEnds ==
    ASSUME Ledger,
           BackendThrows \/ \E r \in BackendErrors \cup {"OK"} : BackendCloses(r)
    PROVE  Pipeline!Finish \/ Pipeline!Break
<1>1. accepted_frames' = accepted_frames
  BY CompletedAt
  DEF Ledger, Chained, BackendThrows, BackendCloses, Statuses, Terminal, Failures,
      accepted_frames
<1>2. /\ UNCHANGED <<completed_frames, flushed>> /\ ~closed /\ closed'
      /\ wpc # "exited" /\ wpc' = "exited"
  BY DEF BackendThrows, BackendCloses, backend, completed_frames, Ledger, StageOK
<1>3. Horizon' = completed_frames'
  BY <1>2 DEF Horizon
<1>4. CASE failed'
  BY <1>1, <1>2, <1>3, <1>4 DEF Pipeline!Break, Pipeline!Alive, Phase
<1>5. CASE ~failed'
  <2>1. ~failed /\ wpc = "closing"
    BY <1>5 DEF BackendThrows, BackendCloses
  <2>2. queue = <<>> /\ active = NoItem /\ ~accepting
    BY <2>1 DEF Ledger, StageOK, StoppedOK, Chained, LocalsOK, ActiveOK
  <2>3. Outstanding(FrameTypes) = {}
    BY <2>2, NoItems DEF Outstanding, NoItem, FrameTypes
  <2>4. Backlog = 0
    BY <2>3, FS_EmptySet DEF Backlog
  <2>5. Horizon = completed_frames
    BY <1>2, <2>4, BacklogType DEF Horizon
  <2> QED
    BY <1>1, <1>2, <1>3, <1>5, <2>2, <2>5 DEF Pipeline!Finish, Phase
<1> QED
  BY <1>4, <1>5

LEMMA PipelineStep ==
    ASSUME Ledger, Next
    PROVE  [Pipeline!Next]_(Pipeline!vars)
<1>0. (closed <=> wpc = "exited") /\ ActiveOK /\ SessionType
  BY DEF Ledger, StageOK, Chained, LocalsOK, TypeOK
<1>1. ASSUME NEW c \in Clients, LocalStep(c) \/ LocalCall(c) PROVE UNCHANGED Pipeline!vars
  <2>1. UNCHANGED <<session, worker>>
    BY <1>1, LocalUnchanged
  <2> QED
    BY <2>1, PipelineStutters DEF session, worker, backend, flags
<1>2. ASSUME NEW c \in Clients, SessionStep(c) PROVE [Pipeline!Next]_(Pipeline!vars)
  <2>1. CASE ReserveTakes(c) \/ CopyRefused(c) \/ PublishStopped(c) \/ PublishWouldBlock(c)
    <3>1. UNCHANGED <<queue, active, encoded, submission, flushed, closed, failed, accepting, wpc>>
      BY <2>1 DEF ReserveTakes, CopyRefused, PublishStopped, PublishWouldBlock,
         GiveBack, worker, backend, flags
    <3> QED
      BY <3>1, PipelineStutters
  <2>2. CASE Publish(c) \/ SubmitBorrowed(c)
    BY <2>2, PipelineAccepts DEF Pipeline!Next
  <2>3. CASE FlushPush(c)
    <3>1. PICK item \in Items : BarrierPushed(item)
      BY <2>3, PushesBarrier DEF Ledger, Chained
    <3>2. /\ Present' = Present \cup {item} /\ item.type \notin FrameTypes
          /\ UNCHANGED <<encoded, submission, flushed, closed, failed, accepting, wpc>>
      BY <1>0, <3>1, PushItems
      DEF BarrierPushed, Present, FrameTypes, worker, backend, flags
    <3>3. Outstanding(FrameTypes)' = Outstanding(FrameTypes)
      BY <3>2, OutstandingNow DEF NumbersIn
    <3> QED
      BY <3>2, <3>3, PipelineQuiet DEF accepted_frames, completed_frames
  <2> QED
    BY <1>2, <2>1, <2>2, <2>3 DEF SessionStep
<1>3. ASSUME NEW c \in Clients, Cancel(c) PROVE Pipeline!Next
  BY <1>3, PipelineAborts DEF Pipeline!Next
<1>4. ASSUME NEW c \in Clients, CloseRequest(c) PROVE [Pipeline!Next]_(Pipeline!vars)
  <2>1. UNCHANGED <<queue, active, encoded, submission, flushed, closed, failed, wpc>>
    BY <1>4 DEF CloseRequest, session, worker, backend, flags
  <2>2. CASE accepting' = accepting
    BY <2>1, <2>2, PipelineStutters
  <2>3. CASE accepting' # accepting
    <3>1. accepting /\ ~accepting'
      BY <1>4, <2>3 DEF CloseRequest, session, flags, Ledger, Chained, TypeOK, FlagType
    <3>2. ~closed
      BY <3>1 DEF Ledger, StoppedOK
    <3>3. /\ Outstanding(FrameTypes)' = Outstanding(FrameTypes)
          /\ UNCHANGED <<accepted_frames, completed_frames>>
      BY <2>1 DEF Outstanding, QueuedItems, accepted_frames, completed_frames
    <3>4. Horizon' = Horizon /\ Phase = "open" /\ Phase' = "stopping"
      BY <2>1, <3>1, <3>2, <3>3 DEF Horizon, Backlog, Phase
    <3> QED
      BY <2>1, <3>3, <3>4 DEF Pipeline!Next, Pipeline!Close
  <2> QED
    BY <2>2, <2>3
<1>5. CASE WorkerSleeps \/ WorkerStops
  <2>1. UNCHANGED <<queue, active, encoded, submission, flushed, closed, failed, accepting>>
        /\ wpc # "exited" /\ wpc' # "exited"
    BY <1>5 DEF WorkerSleeps, WorkerStops, session, worker, backend, flags
  <2> QED
    BY <2>1, PipelineStutters
<1>6. CASE WorkerPops
  <2>1. QueuedItems = QueuedItems' \cup {active'} /\ active = NoItem
    BY <1>0, <1>6, TakeAll DEF WorkerPops, ActiveOK, Ledger, Chained
  <2>2. Present = Present' \cup {NoItem} /\ NoItem.type \notin FrameTypes
    BY <2>1 DEF Present, NoItem, FrameTypes
  <2>3. Outstanding(FrameTypes)' = Outstanding(FrameTypes)
    BY <2>2, OutstandingNow DEF NumbersIn
  <2>4. UNCHANGED <<encoded, submission, flushed, closed, failed, accepting>>
        /\ wpc # "exited" /\ wpc' # "exited"
    BY <1>6 DEF WorkerPops, backend, flags
  <2> QED
    BY <2>3, <2>4, PipelineQuiet DEF accepted_frames, completed_frames
<1>7. CASE FrameEncoded
  BY <1>7, PipelineDelivers DEF Pipeline!Next
<1>8. CASE FlushDone
  <2>1. Present' = QueuedItems \cup {NoItem} /\ Present = QueuedItems \cup {active}
        /\ active.type \notin FrameTypes /\ NoItem.type \notin FrameTypes
    BY <1>8 DEF FlushDone, Present, QueuedItems, NoItem, FrameTypes
  <2>2. Outstanding(FrameTypes)' = Outstanding(FrameTypes)
    <3>1. {x \in Present' : x.type \in FrameTypes} = {x \in Present : x.type \in FrameTypes}
      BY <2>1
    <3> QED
      BY <3>1, OutstandingNow DEF NumbersIn
  <2>3. /\ UNCHANGED <<accepted_frames, completed_frames, closed, failed, accepting>>
        /\ flushed' = completed_frames /\ ~closed /\ wpc # "exited" /\ wpc' # "exited"
    BY <1>0, <1>8 DEF FlushDone, flags, accepted_frames, completed_frames
  <2>4. Horizon' = Horizon /\ Phase' = Phase /\ Phase \in {"open", "stopping"}
    BY <2>2, <2>3 DEF Horizon, Backlog, Phase
  <2> QED
    BY <2>3, <2>4 DEF Pipeline!Next, Pipeline!Sync, Pipeline!Alive
<1>9. ASSUME NEW e \in BackendErrors, BackendFails(e) PROVE Pipeline!Next
  BY <1>9, PipelineAborts DEF Pipeline!Next
<1>10. ASSUME NEW r \in BackendErrors \cup {"OK"}, BackendCloses(r) PROVE Pipeline!Next
  BY <1>10, PipelineEnds DEF Pipeline!Next
<1>11. CASE BackendThrows
  BY <1>11, PipelineEnds DEF Pipeline!Next
<1>12. CASE Quiescent
  <2>1. UNCHANGED <<queue, active, encoded, submission, flushed, closed, failed, accepting, wpc>>
    BY <1>12 DEF Quiescent, vars, session, worker, backend, flags
  <2> QED
    BY <2>1, PipelineStutters
<1> QED
  BY <1>1, <1>2, <1>3, <1>4, <1>5, <1>6, <1>7, <1>8, <1>9, <1>10, <1>11, <1>12
  DEF Next, ClientStep, ClientCall, WorkerStep

(* The session implements the ordered pipeline: frames come out in the     *)
(* order they were accepted, are lost only by a cancel or a failure, and   *)
(* nothing is taken or delivered after the end (encoder_worker.cpp,        *)
(* encoder_queue_submission.cpp, encoder_queue_control.cpp).               *)
THEOREM PipelineRefinement == Spec => RefinesPipeline
<1>1. Init => Pipeline!Init
  <2> SUFFICES ASSUME Init PROVE Pipeline!Init
    OBVIOUS
  <2>1. QueuedItems = {}
    BY EmptySeq DEF Init, QueuedItems
  <2>2. Outstanding(FrameTypes) = {}
    BY <2>1 DEF Init, Outstanding, NoItem, FrameTypes
  <2>3. Backlog = 0 /\ accepted_frames = 0 /\ completed_frames = 0
    BY <2>2, FS_EmptySet, EmptySeq DEF Init, Backlog, accepted_frames, completed_frames
  <2> QED
    BY <2>3 DEF Init, Pipeline!Init, Horizon, Phase
<1>2. Ledger /\ [Next]_vars => [Pipeline!Next]_(Pipeline!vars)
  <2>1. ASSUME UNCHANGED vars PROVE UNCHANGED Pipeline!vars
    <3>1. UNCHANGED <<queue, active, encoded, submission, flushed, closed, failed, accepting, wpc>>
      BY <2>1 DEF vars, session, worker, backend, flags
    <3> QED
      BY <3>1, PipelineStutters
  <2> QED
    BY <2>1, PipelineStep
<1> QED
  BY <1>1, <1>2, LedgerHolds, PTL DEF Spec, RefinesPipeline, Pipeline!Spec


-----------------------------------------------------------------------------
(* The pool of OwnedFrames does not shrink.                                *)

LEMMA ConservedStep ==
    ASSUME Chained, FrameConserved, "throw" \notin CopyOutcomes, Next
    PROVE  FrameConserved'
<1> SUFFICES ASSUME ~failed', NEW s \in Slots
             PROVE  s \in free_frames' \/ HeldBy(s)' # {} \/ InQueue(s)' \/ active'.slot = s
  BY DEF FrameConserved
<1> DEFINE Kept == s \in free_frames' \/ HeldBy(s)' # {} \/ InQueue(s)' \/ active'.slot = s
<1>0. /\ TypeOK /\ LocalsOK /\ SessionType /\ held \in [Clients -> Slots \cup {NoSlot}]
      /\ s # NoSlot /\ Len(queue) \in Nat /\ ActiveOK
  BY Counts, SlotAssumption DEF Chained, TypeOK, ClientType, LocalsOK
<1>1. ~failed => s \in free_frames \/ HeldBy(s) # {} \/ InQueue(s) \/ active.slot = s
  BY DEF FrameConserved
<1>2. ASSUME ~failed, free_frames \subseteq free_frames',
             UNCHANGED <<queue, active, held>>
      PROVE  Kept
  BY <1>1, <1>2 DEF HeldBy, InQueue
<1>3. ASSUME NEW c \in Clients, LocalStep(c) \/ LocalCall(c) PROVE Kept
  <2>1. UNCHANGED <<session, worker>>
    BY <1>3, LocalUnchanged
  <2>2. held' = held
    BY <1>3
    DEF LocalStep, LocalCall, ReserveWaits, ReserveWouldBlock, ReserveStopped,
        CopyDone, CopyThrows, PublishWaits, RoomWaits, RoomStopped, FlushSleeps,
        FlushReturns, WaitSleeps, WaitReturns, Join, JoinRaces, CloseReturns,
        Write, Call, WaitCall, CancelRefused, client
  <2> QED
    BY <1>2, <2>1, <2>2 DEF session, worker, flags
<1>4. ASSUME NEW c \in Clients, SessionStep(c) PROVE Kept
  <2>0. ~failed
    BY <1>4
    DEF SessionStep, ReserveTakes, CopyRefused, PublishStopped, PublishWouldBlock, Publish,
        SubmitBorrowed, FlushPush, GiveBack, flags
  <2>1. CASE ReserveTakes(c)
    <3>1. held[c] \notin Slots
      BY <1>0, <2>1 DEF LocalsOK, HeldOK, ReserveTakes, Awake
    <3> QED
      BY <1>0, <1>1, <2>0, <2>1, <3>1 DEF ReserveTakes, HeldBy, InQueue, worker
  <2>2. CASE CopyRefused(c) \/ PublishStopped(c) \/ PublishWouldBlock(c)
    BY <1>0, <1>1, <2>0, <2>2
    DEF CopyRefused, PublishStopped, PublishWouldBlock, GiveBack, HeldBy, InQueue, worker
  <2>3. ASSUME NEW item \in Items, Push(item), UNCHANGED <<free_frames, active>>,
               \A d \in Clients : held'[d] # held[d] => item.slot = held[d]
        PROVE  Kept
    <3>1. /\ Len(queue') = Len(queue) + 1 /\ queue'[Len(queue) + 1] = item
          /\ \A i \in 1..Len(queue) : queue'[i] = queue[i]
      BY <1>0, <2>3, AppendProperties DEF SessionType, Push
    <3>2. \A i \in 1..Len(queue) : i \in 1..Len(queue')
      BY <1>0, <3>1
    <3>3. Len(queue) + 1 \in 1..Len(queue')
      BY <1>0, <3>1
    <3>4. InQueue(s) => InQueue(s)'
      BY <3>1, <3>2 DEF InQueue
    <3>5. item.slot = s => InQueue(s)'
      BY <3>1, <3>3 DEF InQueue
    <3>6. HeldBy(s) # {} => HeldBy(s)' # {} \/ item.slot = s
      BY <2>3 DEF HeldBy
    <3> QED
      BY <1>1, <2>0, <2>3, <3>4, <3>5, <3>6
  <2>4. CASE Publish(c)
    <3> DEFINE item == [type |-> "owned", no |-> accepted_frames + 1,
                        token |-> 0, slot |-> held[c]]
    <3>1. item \in Items
      BY <1>0, Counts DEF Items, FrameTypes
    <3>2. Push(item) /\ UNCHANGED <<free_frames, active>> /\ item.slot = held[c]
          /\ held' = [held EXCEPT ![c] = NoSlot]
      BY <2>4 DEF Publish, worker
    <3> QED
      BY <1>0, <2>3, <3>1, <3>2
  <2>5. CASE SubmitBorrowed(c)
    <3> DEFINE item == [type |-> "borrowed", no |-> accepted_frames + 1,
                        token |-> 0, slot |-> NoSlot]
    <3>1. item \in Items
      BY <1>0, Counts DEF Items, FrameTypes
    <3>2. Push(item) /\ UNCHANGED <<free_frames, active, held>>
      BY <2>5 DEF SubmitBorrowed, worker
    <3> QED
      BY <2>3, <3>1, <3>2
  <2>6. CASE FlushPush(c)
    <3> DEFINE item == [type |-> "flush", no |-> accepted_frames,
                        token |-> next_flush_token + 1, slot |-> NoSlot]
    <3>1. item \in Items
      BY <1>0, Counts DEF Items, SessionType
    <3>2. Push(item) /\ UNCHANGED <<free_frames, active, held>>
      BY <2>6 DEF FlushPush, worker
    <3> QED
      BY <2>3, <3>1, <3>2
  <2> QED
    BY <1>4, <2>1, <2>2, <2>4, <2>5, <2>6 DEF SessionStep
<1>5. ASSUME NEW c \in Clients, Cancel(c) PROVE Kept
  <2>1. InQueue(s) => s \in free_frames'
    BY <1>0, <1>5 DEF InQueue, QueuedItems, QueuedSlots, Cancel
  <2> QED
    BY <1>1, <1>5, <2>1 DEF Cancel, HeldBy, worker
<1>6. ASSUME NEW c \in Clients, CloseRequest(c) PROVE Kept
  BY <1>2, <1>6 DEF CloseRequest, session, worker, flags
<1>7. CASE \/ WorkerSleeps \/ WorkerStops
           \/ \E r \in BackendErrors \cup {"OK"} : BackendCloses(r)
  BY <1>2, <1>7 DEF WorkerSleeps, WorkerStops, BackendCloses, session, client, worker, flags
<1>8. CASE WorkerPops
  <2>1. QueuedItems = QueuedItems' \cup {active'} /\ active = NoItem
    BY <1>0, <1>8, TakeAll DEF WorkerPops, ActiveOK
  <2>2. InQueue(s) => InQueue(s)' \/ active'.slot = s
    BY <2>1 DEF InQueue, QueuedItems
  <2>3. active.slot # s /\ ~failed
    BY <1>0, <1>8, <2>1 DEF NoItem, WorkerPops, flags
  <2> QED
    BY <1>1, <1>8, <2>2, <2>3 DEF WorkerPops, HeldBy, client
<1>9. CASE FrameEncoded
  BY <1>0, <1>1, <1>9 DEF FrameEncoded, RecycleActive, HeldBy, InQueue, client, flags
<1>10. CASE FlushDone
  <2>1. active.slot # s
    BY <1>0, <1>10 DEF FlushDone, LocalsOK, ItemsOK
  <2> QED
    BY <1>1, <1>10, <2>1 DEF FlushDone, HeldBy, InQueue, client, flags
<1>11. ~BackendThrows /\ \A e \in BackendErrors : ~BackendFails(e)
  BY DEF BackendThrows, BackendFails, RecordFailure
<1>12. CASE Quiescent
  BY <1>2, <1>12 DEF Quiescent, vars, session, worker, client, flags
<1> QED
  BY <1>3, <1>4, <1>5, <1>6, <1>7, <1>8, <1>9, <1>10, <1>11, <1>12
  DEF Next, ClientStep, ClientCall, WorkerStep

(* No OwnedFrame is lost while the session has not failed, as long as no   *)
(* copy of a frame throws: each is free, being filled, queued or with the  *)
(* worker.  (CopyThrows, the allocation that fails in own_frame, destroys  *)
(* the frame: encoder_queue_submission.cpp.)                               *)
THEOREM Conserved == "throw" \notin CopyOutcomes => (Spec => []FrameConserved)
<1> SUFFICES ASSUME "throw" \notin CopyOutcomes PROVE Spec => []FrameConserved
  OBVIOUS
<1>1. Init => FrameConserved
  BY DEF Init, FrameConserved
<1>2. Chained /\ FrameConserved /\ [Next]_vars => FrameConserved'
  <2>1. ASSUME FrameConserved, UNCHANGED vars PROVE FrameConserved'
    BY <2>1 DEF FrameConserved, HeldBy, InQueue, vars, session, worker, client, flags
  <2> QED
    BY <2>1, ConservedStep
<1> QED
  BY <1>1, <1>2, LedgerHolds, PTL DEF Spec, Ledger

-----------------------------------------------------------------------------
(* Nobody sleeps through what it waits for.                                *)

\* Who takes a step is awake, and its step leaves the other clients' calls
\* alone.
LEMMA AwakeSteps ==
    ASSUME TypeOK, NoLostWakeup, NEW c \in Clients, ClientStep(c) \/ ClientCall(c)
    PROVE  /\ c \notin asleep
           /\ \A d \in Clients \ {c} :
                pc'[d] = pc[d] /\ token'[d] = token[d] /\ waited'[d] = waited[d]
<1>0. /\ pc \in [Clients -> ClientPcs] /\ token \in [Clients -> Nat]
      /\ waited \in [Clients -> Nat] /\ c # Worker
  BY ThreadAssumption DEF TypeOK, ClientType
<1>1. c \in asleep => pc[c] \in {"reserve", "publish", "submit", "flush", "flush_wait", "wait"}
  BY <1>0 DEF NoLostWakeup, Blocked, SpaceWaits
<1>2. ASSUME LocalStep(c)
      PROVE  /\ c \notin asleep
             /\ \A d \in Clients \ {c} :
                pc'[d] = pc[d] /\ token'[d] = token[d] /\ waited'[d] = waited[d]
  BY <1>0, <1>1, <1>2
  DEF LocalStep, ReserveWaits, ReserveWouldBlock, ReserveStopped, CopyDone,
      CopyThrows, PublishWaits, RoomWaits, RoomStopped, FlushSleeps,
      FlushReturns, WaitSleeps, WaitReturns, Join, JoinRaces, CloseReturns,
      Goto, Return, client, locals, Awake
<1>3. ASSUME SessionStep(c)
      PROVE  /\ c \notin asleep
             /\ \A d \in Clients \ {c} :
                pc'[d] = pc[d] /\ token'[d] = token[d] /\ waited'[d] = waited[d]
  BY <1>0, <1>1, <1>3
  DEF SessionStep, ReserveTakes, CopyRefused, PublishStopped, PublishWouldBlock, Publish,
      SubmitBorrowed, FlushPush, Goto, Return, locals, Awake
<1>4. ASSUME ClientCall(c)
      PROVE  /\ c \notin asleep
             /\ \A d \in Clients \ {c} :
                pc'[d] = pc[d] /\ token'[d] = token[d] /\ waited'[d] = waited[d]
  BY <1>0, <1>1, <1>4
  DEF ClientCall, LocalCall, Write, Call, WaitCall, CancelRefused, Cancel, CloseRequest,
      Goto, Return, locals, Idle
<1> QED
  BY <1>2, <1>3, <1>4 DEF ClientStep

\* The predicate of a sleeper looks at the queue, the free frames, the flags,
\* the token and the submission.
LEMMA BlockedKept ==
    ASSUME TypeOK, WaitedOK, NEW d \in Clients, Blocked(d),
           pc'[d] = pc[d], token'[d] = token[d], waited'[d] = waited[d],
           d \notin SpaceWaiters \/ /\ Running => Running'
                                    /\ ~HasRoom => ~HasRoom'
                                    /\ free_frames = {} => free_frames' = {} \/ ~HasRoom',
           d \notin StateWaiters
                \/ UNCHANGED <<completed_flush_token, failed, canceled>>,
           pc[d] # "wait" \/ submission'[waited[d]] = submission[waited[d]]
    PROVE  Blocked(d)'
<1>1. CASE pc[d] \in SpaceWaits
  <2>1. d \in SpaceWaiters /\ pc[d] \notin {"flush_wait", "wait"}
    BY <1>1 DEF SpaceWaiters, SpaceWaits
  <2> QED
    BY <1>1, <2>1 DEF Blocked, SpaceWaits
<1>2. CASE pc[d] = "flush_wait"
  BY <1>2 DEF Blocked, StateWaiters, FlushSettled, SpaceWaits
<1>3. CASE pc[d] = "wait"
  BY <1>3 DEF Blocked, SpaceWaits
<1> QED
  BY <1>1, <1>2, <1>3 DEF Blocked, SpaceWaits

\* A step keeps the invariant when it notifies the waiters of everything it
\* changes in their favour.
LEMMA WakeupKept ==
    ASSUME TypeOK, WaitedOK, NoLostWakeup, asleep' \subseteq asleep,
           \A d \in Clients \cap asleep' :
                pc'[d] = pc[d] /\ token'[d] = token[d] /\ waited'[d] = waited[d],
           \/ SpaceWaiters \cap asleep' = {}
           \/ /\ Running => Running'
              /\ ~HasRoom => ~HasRoom'
              /\ free_frames = {} => free_frames' = {} \/ ~HasRoom',
           \/ StateWaiters \cap asleep' = {}
           \/ UNCHANGED <<completed_flush_token, failed, canceled>>,
           \A d \in Clients \cap asleep' :
                pc[d] = "wait" => submission'[waited[d]] = submission[waited[d]],
           Worker \in asleep' => wpc' = "loop" /\ queue' = <<>> /\ ~close_requested'
    PROVE  NoLostWakeup'
<1>1. ASSUME NEW d \in asleep' \ {Worker} PROVE Blocked(d)'
  <2>1. d \in Clients /\ Blocked(d)
    BY DEF NoLostWakeup, TypeOK, ClientType
  <2> QED
    BY <2>1, BlockedKept
<1> QED
  BY <1>1 DEF NoLostWakeup

LEMMA WakeupQuiet ==
    ASSUME TypeOK, WaitedOK, NoLostWakeup, UNCHANGED session, UNCHANGED wpc,
           asleep' \subseteq asleep,
           \A d \in Clients \cap asleep' :
                pc'[d] = pc[d] /\ token'[d] = token[d] /\ waited'[d] = waited[d]
    PROVE  NoLostWakeup'
<1>1. Worker \in asleep' => wpc' = "loop" /\ queue' = <<>> /\ ~close_requested'
  BY DEF NoLostWakeup, session, flags
<1> QED
  BY <1>1, WakeupKept DEF session, flags, tokens, Running, HasRoom

\* A stopped session has no sleeper left that waits for room.
LEMMA NoSpaceSleepers ==
    ASSUME TypeOK, NoLostWakeup, ~Running PROVE SpaceWaiters \cap asleep = {}
BY ThreadAssumption DEF SpaceWaiters, NoLostWakeup, Blocked, SpaceWaits, TypeOK, ClientType

\* Who sleeps on a submission that is not among the completed ones sees it
\* unchanged.
LEMMA OthersPending ==
    ASSUME WaitedOK, NEW numbers, NEW result, submission' = Completed(numbers, result),
           SubmissionWaiters(numbers) \cap asleep' = {},
           NEW d \in Clients \cap asleep', pc[d] = "wait"
    PROVE  submission'[waited[d]] = submission[waited[d]]
BY DEF WaitedOK, Completed, SubmissionWaiters

LEMMA WakeupLocal ==
    ASSUME TypeOK, WaitedOK, NoLostWakeup, NEW c \in Clients,
           LocalStep(c) \/ LocalCall(c)
    PROVE  NoLostWakeup'
<1>1. UNCHANGED session /\ UNCHANGED wpc
  BY LocalUnchanged DEF worker
<1>2. CASE asleep' = asleep
  <2>1. ClientStep(c) \/ ClientCall(c)
    BY DEF ClientStep, ClientCall
  <2> QED
    BY <1>1, <1>2, <2>1, AwakeSteps, WakeupQuiet
<1>3. ASSUME ReserveWaits(c) \/ PublishWaits(c) \/ FlushSleeps(c) \/ WaitSleeps(c)
             \/ \E l \in {"submit", "flush"} : RoomWaits(c, l)
      PROVE  NoLostWakeup'
  <2>1. Blocked(c) /\ asleep' = asleep \cup {c} /\ UNCHANGED client
    BY <1>3 DEF ReserveWaits, PublishWaits, FlushSleeps, WaitSleeps, RoomWaits,
       Awake, Sleep, Blocked, SpaceWaits
  <2>2. \A d \in asleep' \ {Worker} : Blocked(d)
    BY <2>1 DEF NoLostWakeup
  <2>3. \A d \in Clients \cup {Worker} : Blocked(d) => Blocked(d)'
    BY <1>1, <2>1 DEF Blocked, session, flags, tokens, client, locals, Running,
       HasRoom, FlushSettled
  <2>4. Worker \in asleep' => Worker \in asleep
    BY <2>1, ThreadAssumption
  <2>5. asleep' \subseteq Clients \cup {Worker}
    BY <2>1 DEF TypeOK, ClientType
  <2> QED
    BY <1>1, <2>2, <2>3, <2>4, <2>5 DEF NoLostWakeup, session, flags
<1>4. \/ asleep' = asleep
      \/ ReserveWaits(c) \/ PublishWaits(c) \/ FlushSleeps(c) \/ WaitSleeps(c)
      \/ \E l \in {"submit", "flush"} : RoomWaits(c, l)
  BY DEF LocalStep, LocalCall, ReserveWouldBlock, ReserveStopped, CopyDone,
     CopyThrows, RoomStopped, FlushReturns, WaitReturns, Join, JoinRaces,
     CloseReturns, Write, Call, WaitCall, CancelRefused, client
<1> QED
  BY <1>2, <1>3, <1>4

LEMMA WakeupSession ==
    ASSUME TypeOK, WaitedOK, NoLostWakeup, NEW c \in Clients, SessionStep(c)
    PROVE  NoLostWakeup'
<1>1. \A d \in Clients \cap asleep :
        pc'[d] = pc[d] /\ token'[d] = token[d] /\ waited'[d] = waited[d]
  BY AwakeSteps DEF ClientStep
<1>2. /\ Worker \in asleep => wpc = "loop" /\ queue = <<>> /\ ~close_requested
      /\ queue \in Seq(Items) /\ Capacity \in Nat /\ free_frames \subseteq Slots
  BY CapacityAssumption DEF NoLostWakeup, TypeOK, SessionType
<1>3. ASSUME ReserveTakes(c) PROVE NoLostWakeup'
  <2>1. /\ asleep' = asleep
        /\ UNCHANGED <<queue, flags, tokens, submission, wpc>>
        /\ free_frames' \subseteq free_frames
    BY <1>3 DEF ReserveTakes, worker
  <2> QED
    BY <1>1, <1>2, <2>1, WakeupKept DEF Running, HasRoom, flags, tokens
<1>4. ASSUME CopyRefused(c) \/ PublishWouldBlock(c) PROVE NoLostWakeup'
  <2>1. /\ asleep' = asleep \ SpaceWaiters
        /\ UNCHANGED <<queue, flags, tokens, submission, wpc>>
    BY <1>4 DEF CopyRefused, PublishWouldBlock, GiveBack, Notify, worker
  <2> QED
    BY <1>1, <1>2, <2>1, WakeupKept DEF flags, tokens
<1>5. ASSUME PublishStopped(c) PROVE NoLostWakeup'
  <2>1. /\ asleep' = asleep /\ ~Running
        /\ UNCHANGED <<queue, flags, tokens, submission, wpc>>
    BY <1>5 DEF PublishStopped, GiveBack, worker
  <2> QED
    BY <1>1, <1>2, <2>1, NoSpaceSleepers, WakeupKept DEF flags, tokens
<1>6. ASSUME Publish(c) \/ SubmitBorrowed(c) \/ FlushPush(c) PROVE NoLostWakeup'
  <2>1. /\ asleep' = asleep \ {Worker}
        /\ UNCHANGED <<free_frames, flags, completed_flush_token, wpc>>
    BY <1>6 DEF Publish, SubmitBorrowed, FlushPush, Push, Notify, worker, tokens
  <2>4. \E item : queue' = Append(queue, item)
    BY <1>6 DEF Publish, SubmitBorrowed, FlushPush, Push
  <2>5. submission' = submission \/ \E s \in Statuses : submission' = Append(submission, s)
    BY <1>6 DEF Publish, SubmitBorrowed, FlushPush, Statuses
  <2>2. ~HasRoom => ~HasRoom'
    BY <1>2, <2>4 DEF HasRoom
  <2>3. \A d \in Clients : pc[d] = "wait" =>
            submission'[waited[d]] = submission[waited[d]]
    BY <2>5, AppendAt DEF WaitedOK, TypeOK, SessionType
  <2> QED
    BY <1>1, <2>1, <2>2, <2>3, WakeupKept DEF Running, flags
<1> QED
  BY <1>3, <1>4, <1>5, <1>6 DEF SessionStep

LEMMA WakeupCall ==
    ASSUME TypeOK, WaitedOK, NoLostWakeup, NEW c \in Clients,
           Cancel(c) \/ CloseRequest(c)
    PROVE  NoLostWakeup'
<1>1. \A d \in Clients \cap asleep :
        pc'[d] = pc[d] /\ token'[d] = token[d] /\ waited'[d] = waited[d]
  BY AwakeSteps DEF ClientCall
<1>2. ASSUME Cancel(c) PROVE NoLostWakeup'
  <2>1. /\ submission' = Completed(QueuedSubmissions, "CANCELLED")
        /\ asleep' = asleep \ ({Worker} \cup SpaceWaiters \cup StateWaiters
                               \cup SubmissionWaiters(QueuedSubmissions))
    BY <1>2 DEF Cancel, Notify
  <2>2. \A d \in Clients \cap asleep' : pc[d] = "wait" =>
            submission'[waited[d]] = submission[waited[d]]
    BY <2>1, OthersPending
  <2> QED
    BY <1>1, <2>1, <2>2, WakeupKept
<1>3. ASSUME CloseRequest(c), ~close_requested PROVE NoLostWakeup'
  <2>1. /\ asleep' = asleep \ ({Worker} \cup SpaceWaiters)
        /\ UNCHANGED <<free_frames, failed, canceled, completed_flush_token, submission>>
    BY <1>3 DEF CloseRequest, Notify, CloseWakes, tokens
  <2> QED
    BY <1>1, <2>1, WakeupKept
<1>4. ASSUME CloseRequest(c), close_requested PROVE NoLostWakeup'
  BY <1>1, <1>4, WakeupQuiet DEF CloseRequest, worker
<1> QED
  BY <1>2, <1>3, <1>4

LEMMA WakeupWorker ==
    ASSUME TypeOK, WaitedOK, NoLostWakeup, WorkerStep
    PROVE  NoLostWakeup'
<1>1. UNCHANGED client
  BY DEF WorkerStep, WorkerSleeps, WorkerPops, WorkerStops, FrameEncoded,
     FlushDone, BackendThrows, BackendFails, BackendCloses
<1>2. \A d \in Clients :
        pc'[d] = pc[d] /\ token'[d] = token[d] /\ waited'[d] = waited[d]
  BY <1>1 DEF client, locals
<1>3. ASSUME WorkerSleeps PROVE NoLostWakeup'
  <2>1. /\ asleep' = asleep \cup {Worker} /\ UNCHANGED <<session, worker>>
        /\ wpc = "loop" /\ queue = <<>> /\ ~close_requested
    BY <1>3 DEF WorkerSleeps, Sleep
  <2>2. \A d \in asleep \ {Worker} : Blocked(d)'
    BY <1>1, <2>1 DEF NoLostWakeup, Blocked, session, flags, tokens, client,
       locals, Running, HasRoom, FlushSettled
  <2> QED
    BY <2>1, <2>2 DEF NoLostWakeup, session, flags, worker
<1>4. CASE ~WorkerSleeps
  <2>0. Worker \notin asleep
    BY <1>4 DEF WorkerStep, WorkerPops, WorkerStops, FrameEncoded, FlushDone,
       BackendThrows, BackendFails, BackendCloses, NoLostWakeup
  <2>1. ASSUME WorkerPops PROVE NoLostWakeup'
    BY <1>2, <2>0, <2>1, WakeupKept DEF WorkerPops, Notify, flags, tokens
  <2>2. ASSUME WorkerStops PROVE NoLostWakeup'
    BY <1>2, <2>0, <2>2, WakeupKept
    DEF WorkerStops, session, flags, tokens, Running, HasRoom
  <2>3. ASSUME FrameEncoded PROVE NoLostWakeup'
    <3> DEFINE done == BorrowedIn({active})
    <3>1. /\ submission' = Completed(done, "OK")
          /\ asleep' = asleep \ (RecycleWaiters \cup SubmissionWaiters(done))
          /\ UNCHANGED <<queue, flags, tokens>>
          /\ free_frames' = free_frames \cup ({active.slot} \ {NoSlot})
      BY <2>3 DEF FrameEncoded, Notify, RecycleActive
    <3> HIDE DEF done
    <3>2. \A d \in Clients \cap asleep' : pc[d] = "wait" =>
              submission'[waited[d]] = submission[waited[d]]
      BY <3>1, OthersPending
    <3>3. \/ SpaceWaiters \cap asleep' = {}
          \/ free_frames' = free_frames
      BY <3>1 DEF RecycleWaiters
    <3> QED
      BY <1>2, <2>0, <3>1, <3>2, <3>3, WakeupKept
      DEF Running, HasRoom, flags, tokens
  <2>4. ASSUME FlushDone PROVE NoLostWakeup'
    BY <1>2, <2>0, <2>4, WakeupKept
    DEF FlushDone, Notify, Running, HasRoom, flags
  <2>5. ASSUME BackendThrows PROVE NoLostWakeup'
    <3>1. /\ submission' = Completed(Abandoned, "INTERNAL")
          /\ asleep' = asleep \ (StateWaiters \cup SpaceWaiters
                                 \cup SubmissionWaiters(Abandoned))
      BY <2>5 DEF BackendThrows, Notify
    <3>2. \A d \in Clients \cap asleep' : pc[d] = "wait" =>
              submission'[waited[d]] = submission[waited[d]]
      BY <3>1, OthersPending
    <3> QED
      BY <1>2, <2>0, <3>1, <3>2, WakeupKept
  <2>6. ASSUME NEW e \in BackendErrors, BackendFails(e) PROVE NoLostWakeup'
    <3>1. /\ submission' = Completed(Doomed, e)
          /\ asleep' = asleep \ (StateWaiters \cup SpaceWaiters
                                 \cup SubmissionWaiters(Doomed))
      BY <2>6 DEF BackendFails, Notify
    <3>2. \A d \in Clients \cap asleep' : pc[d] = "wait" =>
              submission'[waited[d]] = submission[waited[d]]
      BY <3>1, OthersPending
    <3> QED
      BY <1>2, <2>0, <3>1, <3>2, WakeupKept
  <2>7. ASSUME NEW r \in BackendErrors \cup {"OK"}, BackendCloses(r)
        PROVE  NoLostWakeup'
    BY <1>2, <2>0, <2>7, WakeupKept DEF BackendCloses, Notify
  <2> QED
    BY <1>4, <2>1, <2>2, <2>3, <2>4, <2>5, <2>6, <2>7 DEF WorkerStep
<1> QED
  BY <1>3, <1>4

(* No thread of a session sleeps through what it waits for: not the worker *)
(* while the queue holds an item or a close is asked for, not a writer     *)
(* that could reserve or publish, not a flusher whose token is answered,   *)
(* not the waiter of a submission that is complete.                        *)
THEOREM Wakeups == Spec => []NoLostWakeup
<1>1. Init => NoLostWakeup
  BY DEF Init, NoLostWakeup
<1>2. TypeOK /\ LocalsOK /\ NoLostWakeup /\ [Next]_vars => NoLostWakeup'
  <2> SUFFICES ASSUME TypeOK, LocalsOK, NoLostWakeup, [Next]_vars
               PROVE  NoLostWakeup'
    OBVIOUS
  <2>0. WaitedOK
    BY DEF LocalsOK
  <2>1. CASE Quiescent \/ UNCHANGED vars
    <3>1. UNCHANGED session /\ UNCHANGED wpc /\ asleep' = asleep
          /\ UNCHANGED <<pc, token, waited>>
      BY <2>1 DEF Quiescent, vars, worker, client, locals
    <3> QED
      BY <2>0, <3>1, WakeupQuiet
  <2>2. ASSUME NEW c \in Clients, ClientStep(c) \/ ClientCall(c)
        PROVE  NoLostWakeup'
    BY <2>0, <2>2, WakeupLocal, WakeupSession, WakeupCall
    DEF ClientStep, ClientCall
  <2> QED
    BY <2>0, <2>1, <2>2, WakeupWorker DEF Next
<1> QED
  BY <1>1, <1>2, Locations, PTL DEF Spec

-----------------------------------------------------------------------------
(* Somebody awake will end every wait.                                     *)

\* Barriers are answered in the order of their tokens.
LEMMA RiseQuiet ==
    ASSUME TypeOK, TokensRise, queue' \in {queue, <<>>}, active' \in {active, NoItem},
           UNCHANGED completed_flush_token
    PROVE  TokensRise'
<1>1. QueuedItems' \subseteq QueuedItems /\ NoItem.type # "flush"
  BY EmptySeq DEF QueuedItems, NoItem
<1>2. Barriers' \subseteq Barriers
  BY <1>1 DEF Barriers
<1>3. queue' = <<>> => Len(queue') = 0
  BY EmptySeq
<1>4. \A i, j \in 1..Len(queue') :
        i < j /\ queue'[i].type = "flush" /\ queue'[j].type = "flush"
        => queue'[i].token < queue'[j].token
  BY <1>3 DEF TokensRise
<1>5. \A item \in QueuedItems' :
        active'.type = "flush" /\ item.type = "flush" => active'.token < item.token
  BY <1>1 DEF TokensRise
<1> QED
  BY <1>2, <1>4, <1>5 DEF TokensRise

LEMMA RisePush ==
    ASSUME TypeOK, BarrierOK, TokensRise, NEW item \in Items, Push(item),
           item.type = "flush" => item.token = next_flush_token + 1,
           UNCHANGED <<active, completed_flush_token>>
    PROVE  TokensRise'
<1>1. /\ Len(queue) \in Nat /\ Len(queue') = Len(queue) + 1
      /\ \A i \in 1..Len(queue) : queue'[i] = queue[i]
      /\ queue'[Len(queue) + 1] = item
  BY AppendProperties, LenProperties DEF TypeOK, SessionType, Push
<1>2. QueuedItems' = QueuedItems \cup {item}
  BY PushItems DEF TypeOK
<1>3. /\ next_flush_token \in Nat /\ completed_flush_token \in Nat
      /\ \A x \in QueuedItems \cup {active} : x.token \in Nat
  BY PresentType DEF Present, TypeOK, SessionType
<1>4. \A x \in Barriers : x.token < next_flush_token + 1
  BY <1>3 DEF BarrierOK, Barriers
<1>5. completed_flush_token < next_flush_token + 1
  BY <1>3 DEF BarrierOK
<1>6. ASSUME NEW i \in 1..Len(queue'), NEW j \in 1..Len(queue'), i < j,
             queue'[i].type = "flush", queue'[j].type = "flush"
      PROVE  queue'[i].token < queue'[j].token
  <2>0. i \in 1..Len(queue) /\ queue'[i] = queue[i] /\ queue[i] \in QueuedItems
    BY <1>1, <1>6 DEF QueuedItems
  <2>1. CASE j = Len(queue) + 1
    BY <1>1, <1>4, <1>6, <2>0, <2>1 DEF Barriers
  <2>2. CASE j # Len(queue) + 1
    <3>1. j \in 1..Len(queue) /\ queue'[j] = queue[j]
      BY <1>1, <2>2
    <3> QED
      BY <1>6, <2>0, <3>1 DEF TokensRise
  <2> QED
    BY <2>1, <2>2
<1>7. ASSUME NEW x \in QueuedItems', active'.type = "flush", x.type = "flush"
      PROVE  active'.token < x.token
  BY <1>2, <1>4, <1>7 DEF TokensRise, Barriers
<1>8. ASSUME NEW x \in Barriers' PROVE completed_flush_token' < x.token
  BY <1>2, <1>5, <1>8 DEF TokensRise, Barriers
<1> QED
  BY <1>6, <1>7, <1>8 DEF TokensRise

LEMMA RiseTake ==
    ASSUME TypeOK, ActiveOK, TokensRise, WorkerPops
    PROVE  TokensRise' /\ Barriers' = Barriers
<1>1. /\ active' = queue[1] /\ active' \in QueuedItems /\ Len(queue) \in Nat
      /\ Len(queue') = Len(queue) - 1 /\ QueuedItems' \subseteq QueuedItems
      /\ \A i \in 1..Len(queue') : queue'[i] = queue[i + 1]
      /\ QueuedItems = QueuedItems' \cup {active'}
  BY TakeItems, TakeAll DEF WorkerPops, TypeOK
<1>2. active = NoItem /\ NoItem.type # "flush" /\ UNCHANGED completed_flush_token
  BY DEF WorkerPops, ActiveOK, NoItem, tokens
<1>3. Barriers' = Barriers
  BY <1>1, <1>2 DEF Barriers
<1>4. ASSUME NEW i \in 1..Len(queue'), NEW j \in 1..Len(queue'), i < j,
             queue'[i].type = "flush", queue'[j].type = "flush"
      PROVE  queue'[i].token < queue'[j].token
  <2>1. i + 1 \in 1..Len(queue) /\ j + 1 \in 1..Len(queue) /\ i + 1 < j + 1
    BY <1>1, <1>4
  <2> QED
    BY <1>1, <1>4, <2>1 DEF TokensRise
<1>5. ASSUME NEW item \in QueuedItems', active'.type = "flush", item.type = "flush"
      PROVE  active'.token < item.token
  <2>1. PICK i \in 1..Len(queue') : item = queue'[i]
    BY DEF QueuedItems
  <2>2. 1 \in 1..Len(queue) /\ i + 1 \in 1..Len(queue) /\ 1 < i + 1 /\ item = queue[i + 1]
    BY <1>1, <2>1
  <2> QED
    BY <1>1, <1>5, <2>2 DEF TokensRise
<1>6. \A item \in Barriers' : completed_flush_token' < item.token
  BY <1>2, <1>3 DEF TokensRise
<1> QED
  BY <1>3, <1>4, <1>5, <1>6 DEF TokensRise

\* The answer to a barrier leaves the waiters of the later ones waiting.
LEMMA TokensAnswered ==
    ASSUME TypeOK, TokensOK, FlushDone
    PROVE  TokensOK'
<1>1. /\ UNCHANGED <<queue, failed, canceled, pc, token>> /\ active' = NoItem
      /\ completed_flush_token' = active.token /\ active.type = "flush"
  BY DEF FlushDone, flags, client, locals
<1>2. /\ QueuedItems' = QueuedItems /\ NoItem.type # "flush"
      /\ \A x \in QueuedItems \cup {active} : x.token \in Nat
  BY <1>1, PresentType DEF QueuedItems, NoItem, Present
<1>3. /\ active \in Barriers /\ Barriers' = {x \in QueuedItems : x.type = "flush"}
      /\ Barriers = Barriers' \cup {active}
  BY <1>1, <1>2 DEF Barriers
<1>4. TokensRise'
  <2>1. \A x \in Barriers' : completed_flush_token' < x.token
    BY <1>1, <1>3 DEF TokensOK, TokensRise
  <2> QED
    BY <1>1, <1>2, <2>1 DEF TokensOK, TokensRise
<1>5. completed_flush_token < active.token /\ completed_flush_token \in Nat
      /\ token \in [Clients -> Nat]
  BY <1>3 DEF TokensOK, TokensRise, TypeOK, SessionType, ClientType
<1>6. ASSUME NEW c \in StateWaiters', ~failed, ~canceled
      PROVE  token'[c] <= completed_flush_token' \/ TokenThere(c)'
  <2>1. c \in StateWaiters /\ c \in Clients
    BY <1>1 DEF StateWaiters
  <2>2. CASE token[c] <= completed_flush_token
    <3>1. token[c] \in Nat /\ active.token \in Nat
      BY <1>2, <1>5, <2>1
    <3> QED
      BY <1>1, <1>5, <2>2, <3>1
  <2>3. ASSUME TokenThere(c) PROVE token'[c] <= completed_flush_token' \/ TokenThere(c)'
    <3>1. PICK x \in Barriers : token[c] = x.token
      BY <2>3 DEF TokenThere
    <3> QED
      BY <1>1, <1>2, <1>3, <3>1 DEF TokenThere
  <2> QED
    BY <1>6, <2>1, <2>2, <2>3 DEF TokensOK
<1> QED
  BY <1>1, <1>4, <1>6 DEF TokensOK

\* A new barrier carries its flusher's token.
LEMMA TokensPushed ==
    ASSUME TypeOK, BarrierOK, TokensOK, NEW c \in Clients, FlushPush(c)
    PROVE  TokensOK'
<1> DEFINE item == [type |-> "flush", no |-> accepted_frames,
                    token |-> next_flush_token + 1, slot |-> NoSlot]
<1>1. item \in Items /\ Push(item)
  BY Counts DEF Items, TypeOK, SessionType, FlushPush
<1>2. /\ UNCHANGED <<active, completed_flush_token, failed, canceled>>
      /\ token' = [token EXCEPT ![c] = next_flush_token + 1]
      /\ pc' = [pc EXCEPT ![c] = "flush_wait"]
      /\ token \in [Clients -> Nat] /\ pc \in [Clients -> ClientPcs]
  BY DEF FlushPush, Goto, worker, flags, TypeOK, ClientType
<1>3. TokensRise'
  BY <1>1, <1>2, RisePush DEF TokensOK
<1>4. Barriers' = Barriers \cup {item}
  BY <1>1, <1>2, PushItems DEF Barriers, TypeOK
<1>5. ASSUME NEW d \in StateWaiters', ~failed, ~canceled
      PROVE  token'[d] <= completed_flush_token' \/ TokenThere(d)'
  <2>1. CASE d = c
    <3>1. token'[d] = item.token
      BY <1>2, <2>1
    <3> QED
      BY <1>4, <3>1 DEF TokenThere
  <2>2. CASE d # c
    <3>1. d \in StateWaiters /\ token'[d] = token[d]
      BY <1>2, <2>2 DEF StateWaiters
    <3> QED
      BY <1>2, <1>4, <1>5, <3>1 DEF TokensOK, TokenThere
  <2> QED
    BY <2>1, <2>2
<1> QED
  BY <1>2, <1>3, <1>5 DEF TokensOK

\* Every other step leaves the barriers alone or ends the session.
LEMMA TokensKept ==
    ASSUME TypeOK, TokensOK, Next, \A d \in Clients : ~FlushPush(d),
           TokensRise', UNCHANGED completed_flush_token,
           \/ failed' \/ canceled'
           \/ UNCHANGED <<failed, canceled>> /\ Barriers \subseteq Barriers'
    PROVE  TokensOK'
<1>1. ASSUME NEW c \in StateWaiters', ~failed', ~canceled'
      PROVE  token'[c] <= completed_flush_token' \/ TokenThere(c)'
  <2>1. c \in StateWaiters /\ token'[c] = token[c]
    BY FlushersWait DEF StateWaiters
  <2> QED
    BY <1>1, <2>1 DEF TokensOK, TokenThere
<1> QED
  BY <1>1 DEF TokensOK

LEMMA TokensStep ==
    ASSUME Chained, BarrierOK, TokensOK, Next
    PROVE  TokensOK'
<1>0. TypeOK /\ ActiveOK /\ TokensRise /\ NoItem.type # "flush"
  BY DEF Chained, LocalsOK, TokensOK, NoItem
<1>1. ASSUME NEW c \in Clients, FlushPush(c) PROVE TokensOK'
  BY <1>0, <1>1, TokensPushed
<1>2. CASE FlushDone
  BY <1>0, <1>2, TokensAnswered
<1>3. ASSUME \A d \in Clients : ~FlushPush(d), ~FlushDone PROVE TokensOK'
  <2>1. ASSUME UNCHANGED <<queue, completed_flush_token>>,
               \/ active' = active
               \/ active.type # "flush" /\ active' = NoItem,
               failed' \/ UNCHANGED <<failed, canceled>>
        PROVE  TokensOK'
    <3>1. Barriers \subseteq Barriers'
      BY <2>1 DEF Barriers, QueuedItems
    <3>2. TokensRise'
      BY <1>0, <2>1, RiseQuiet
    <3> QED
      BY <1>0, <1>3, <2>1, <3>1, <3>2, TokensKept
  <2>2. ASSUME queue' \in {queue, <<>>}, active' \in {active, NoItem},
               UNCHANGED completed_flush_token, failed' \/ canceled'
        PROVE  TokensOK'
    <3>1. TokensRise'
      BY <1>0, <2>2, RiseQuiet
    <3> QED
      BY <1>0, <1>3, <2>2, <3>1, TokensKept
  <2>3. ASSUME NEW c \in Clients, LocalStep(c) \/ LocalCall(c) PROVE TokensOK'
    <3>1. UNCHANGED <<session, worker>>
      BY <2>3, LocalUnchanged
    <3> QED
      BY <2>1, <3>1 DEF session, worker, flags, tokens
  <2>4. ASSUME NEW c \in Clients, SessionStep(c) PROVE TokensOK'
    <3>1. CASE ReserveTakes(c) \/ CopyRefused(c) \/ PublishStopped(c) \/ PublishWouldBlock(c)
      BY <2>1, <3>1 DEF ReserveTakes, CopyRefused, PublishStopped, PublishWouldBlock,
         GiveBack, worker, flags, tokens
    <3>2. CASE Publish(c) \/ SubmitBorrowed(c)
      <4>1. PICK item \in Items : FramePushed(item)
        BY <3>2, PushesFrame DEF Chained
      <4>2. /\ UNCHANGED <<active, completed_flush_token, failed, canceled>>
            /\ Push(item) /\ ~(item.type = "flush")
        BY <4>1 DEF FramePushed, worker, flags, tokens, IsFrame, FrameTypes
      <4>3. QueuedItems' = QueuedItems \cup {item}
        BY <1>0, <4>2, PushItems DEF TypeOK
      <4>4. Barriers \subseteq Barriers'
        BY <4>2, <4>3 DEF Barriers
      <4>5. TokensRise'
        BY <1>0, <4>2, RisePush
      <4> QED
        BY <1>0, <1>3, <4>2, <4>4, <4>5, TokensKept
    <3> QED
      BY <1>3, <2>4, <3>1, <3>2 DEF SessionStep
  <2>5. ASSUME NEW c \in Clients, Cancel(c) PROVE TokensOK'
    BY <2>2, <2>5 DEF Cancel, worker, tokens
  <2>6. ASSUME NEW c \in Clients, CloseRequest(c) PROVE TokensOK'
    BY <2>1, <2>6 DEF CloseRequest, session, worker, flags, tokens
  <2>7. CASE WorkerSleeps \/ WorkerStops
    BY <2>1, <2>7 DEF WorkerSleeps, WorkerStops, session, worker, flags, tokens
  <2>8. CASE WorkerPops
    <3>1. TokensRise' /\ Barriers' = Barriers
      BY <1>0, <2>8, RiseTake
    <3>2. UNCHANGED <<completed_flush_token, failed, canceled>>
      BY <2>8 DEF WorkerPops, flags, tokens
    <3> QED
      BY <1>0, <1>3, <3>1, <3>2, TokensKept
  <2>9. CASE FrameEncoded
    BY <2>1, <2>9 DEF FrameEncoded, flags, tokens, IsFrame, FrameTypes
  <2>10. ASSUME NEW e \in BackendErrors, BackendFails(e) PROVE TokensOK'
    BY <2>2, <2>10 DEF BackendFails, RecordFailure, tokens
  <2>11. ASSUME NEW r \in BackendErrors \cup {"OK"}, BackendCloses(r) PROVE TokensOK'
    <3>0. failed \in BOOLEAN /\ failed' = (failed \/ r # "OK")
      BY <2>11, <1>0 DEF BackendCloses, TypeOK, FlagType
    <3>1. failed' \/ failed' = failed
      BY <3>0
    <3> QED
      BY <2>1, <2>11, <3>1 DEF BackendCloses, tokens
  <2>12. CASE BackendThrows
    BY <2>2, <2>12 DEF BackendThrows, tokens
  <2>13. CASE Quiescent
    BY <2>1, <2>13 DEF Quiescent, vars, session, worker, flags, tokens
  <2> QED
    BY <1>3, <2>3, <2>4, <2>5, <2>6, <2>7, <2>8, <2>9, <2>10, <2>11, <2>12, <2>13
    DEF Next, ClientStep, ClientCall, WorkerStep
<1> QED
  BY <1>1, <1>2, <1>3

\* The exits of the worker answer what is pending, and nothing is accepted
\* after them.
LEMMA PendingPresent ==
    ASSUME TypeOK, PendingWhileRead, NEW n \in DOMAIN submission,
           submission[n] = "pending"
    PROVE  \E x \in Present : x.type = "borrowed" /\ x.no = n
<1>1. n \in 1..accepted_frames
  BY LenProperties DEF TypeOK, SessionType, accepted_frames
<1>2. n \in NumbersIn(Present, {"borrowed"})
  BY <1>1, OutstandingNow DEF PendingWhileRead
<1> QED
  BY <1>2 DEF NumbersIn

LEMMA AnsweredKept ==
    ASSUME NonePending,
           \/ submission' = submission
           \/ \E numbers, result : submission' = Completed(numbers, result)
    PROVE  NonePending'
BY DEF NonePending, Completed

LEMMA AnsweredStep ==
    ASSUME Ledger, AnsweredOK, Next
    PROVE  AnsweredOK'
<1>0. /\ TypeOK /\ LocalsOK /\ StoppedOK /\ StageOK /\ AnswerOK /\ PendingWhileRead
      /\ ActiveOK
  BY DEF Ledger, Chained, Books, Traceable, LocalsOK
<1>1. ASSUME wpc = "exited" PROVE AnsweredOK'
  <2>1. NonePending /\ ~Running
    BY <1>0, <1>1 DEF AnsweredOK, StageOK, StoppedOK, Running
  <2>2. \/ submission' = submission
        \/ \E numbers, result : submission' = Completed(numbers, result)
    <3>1. ASSUME NEW c \in Clients, LocalStep(c) \/ LocalCall(c)
          PROVE  submission' = submission
      BY <3>1, LocalUnchanged DEF session
    <3>2. ASSUME NEW c \in Clients, SessionStep(c) PROVE submission' = submission
      BY <2>1, <3>2 DEF SessionStep, ReserveTakes, CopyRefused, PublishStopped,
         PublishWouldBlock, Publish, SubmitBorrowed, FlushPush, GiveBack
    <3>3. ASSUME NEW c \in Clients, CloseRequest(c) PROVE submission' = submission
      BY <3>3 DEF CloseRequest, session
    <3>4. ASSUME NEW c \in Clients, Cancel(c)
          PROVE  submission' = Completed(QueuedSubmissions, "CANCELLED")
      BY <3>4 DEF Cancel
    <3>5. CASE Quiescent
      BY <3>5 DEF Quiescent, vars, session
    <3>6. ~WorkerStep
      BY <1>1 DEF WorkerStep, WorkerSleeps, WorkerPops, WorkerStops, FrameEncoded,
         FlushDone, BackendThrows, BackendFails, BackendCloses
    <3> QED
      BY <3>1, <3>2, <3>3, <3>4, <3>5, <3>6 DEF Next, ClientStep, ClientCall
  <2> QED
    BY <2>1, <2>2, AnsweredKept DEF AnsweredOK
<1>2. ASSUME NEW r \in BackendErrors \cup {"OK"}, BackendCloses(r) PROVE AnsweredOK'
  <2>1. /\ queue = <<>> /\ active = NoItem /\ submission' = submission
        /\ NoItem.type # "borrowed"
    BY <1>0, <1>2 DEF BackendCloses, StageOK, ActiveOK, NoItem
  <2>2. \A x \in Present : x.type # "borrowed"
    BY <2>1, EmptySeq DEF Present, QueuedItems
  <2>3. NonePending
    BY <1>0, <2>2, PendingPresent DEF NonePending
  <2> QED
    BY <2>1, <2>3 DEF AnsweredOK, NonePending
<1>3. ASSUME BackendThrows PROVE AnsweredOK'
  <2>1. submission' = Completed(Abandoned, "INTERNAL")
    BY <1>3 DEF BackendThrows
  <2>2. ASSUME NEW n \in DOMAIN submission, submission[n] = "pending"
        PROVE  n \in Abandoned
    <3>1. PICK x \in Present : x.type = "borrowed" /\ x.no = n
      BY <1>0, <2>2, PendingPresent
    <3>2. n # 0
      BY <1>0, LenProperties DEF TypeOK, SessionType
    <3>3. x \in QueuedItems => n \in QueuedSubmissions
      BY <3>1 DEF QueuedSubmissions, BorrowedIn
    <3>4. x = active => n = active_submission
      BY <1>0, <3>1 DEF AnswerOK
    <3> QED
      BY <3>1, <3>2, <3>3, <3>4 DEF Present, Abandoned
  <2>3. NonePending'
    BY <2>1, <2>2 DEF NonePending, Completed
  <2> QED
    BY <2>3 DEF AnsweredOK
<1>4. ASSUME wpc # "exited", ~BackendThrows,
             \A r \in BackendErrors \cup {"OK"} : ~BackendCloses(r)
      PROVE  wpc' # "exited"
  <2>1. ASSUME NEW c \in Clients, ClientStep(c) \/ ClientCall(c) PROVE wpc' = wpc
    BY <2>1, LocalUnchanged
    DEF ClientStep, ClientCall, SessionStep, ReserveTakes, CopyRefused, PublishStopped,
        PublishWouldBlock, Publish, SubmitBorrowed, FlushPush, Cancel, CloseRequest, worker
  <2> QED
    BY <1>4, <2>1 DEF Next, WorkerStep, WorkerSleeps, WorkerPops, WorkerStops,
       FrameEncoded, FlushDone, BackendFails, Quiescent, vars, worker
<1> QED
  BY <1>1, <1>2, <1>3, <1>4 DEF AnsweredOK

LEMMA AnswersHold == Spec => [](BarrierOK /\ TokensOK /\ AnsweredOK)
<1>1. Init => TokensOK /\ AnsweredOK
  <2> SUFFICES ASSUME Init PROVE TokensOK /\ AnsweredOK
    OBVIOUS
  <2>1. /\ QueuedItems = {} /\ Barriers = {} /\ Len(queue) = 0 /\ StateWaiters = {}
        /\ wpc = "loop"
    BY EmptySeq DEF Init, QueuedItems, Barriers, NoItem, StateWaiters
  <2> QED
    BY <2>1 DEF TokensOK, TokensRise, AnsweredOK
<1>2. Ledger /\ BarrierOK /\ TokensOK /\ AnsweredOK /\ [Next]_vars
        => TokensOK' /\ AnsweredOK'
  <2>1. ASSUME TokensOK, AnsweredOK, UNCHANGED vars PROVE TokensOK' /\ AnsweredOK'
    BY <2>1
    DEF TokensOK, TokensRise, TokenThere, StateWaiters, Barriers, QueuedItems,
        AnsweredOK, NonePending, vars, session, worker, client, flags, tokens, locals
  <2> QED
    BY <2>1, TokensStep, AnsweredStep DEF Ledger
<1> QED
  BY <1>1, <1>2, LedgerHolds, BarrierHolds, PTL DEF Spec

\* With the worker asleep or gone only a writer who fills a frame can be waited
\* for.
LEMMA WriterAwake ==
    ASSUME Ledger, NoLostWakeup, FrameConserved, Worker \in asleep,
           NEW c \in Clients, pc[c] = "reserve", Blocked(c)
    PROVE  \E d \in Clients \ asleep : pc[d] \in {"copy", "publish"}
<1>1. /\ wpc = "loop" /\ queue = <<>> /\ active = NoItem /\ LocalsOK
      /\ Running /\ HasRoom /\ free_frames = {}
  <2>1. wpc = "loop" /\ queue = <<>>
    BY DEF NoLostWakeup
  <2>2. HasRoom
    BY <2>1, EmptySeq, CapacityAssumption DEF HasRoom
  <2> QED
    BY <2>1, <2>2 DEF Blocked, Ledger, Chained, LocalsOK, ActiveOK, SpaceWaits
<1>2. PICK s \in Slots : TRUE
  BY CapacityAssumption, FS_EmptySet
<1>3. HeldBy(s) # {}
  <2>1. ~InQueue(s)
    BY <1>1, EmptySeq DEF InQueue
  <2>2. active.slot # s
    BY <1>1, SlotAssumption DEF NoItem
  <2> QED
    BY <1>1, <2>1, <2>2 DEF FrameConserved, Running
<1>4. PICK d \in Clients : held[d] = s
  BY <1>3 DEF HeldBy
<1>5. pc[d] \in {"copy", "publish"}
  BY <1>1, <1>4 DEF LocalsOK, HeldOK
<1>6. d \notin asleep
  BY <1>1, <1>5, ThreadAssumption DEF NoLostWakeup, Blocked, SpaceWaits
<1> QED
  BY <1>5, <1>6

LEMMA AwakeNow ==
    ASSUME Ledger, BarrierOK, TokensOK, AnsweredOK, NoLostWakeup, FrameConserved
    PROVE  SomebodyAwake
<1> SUFFICES ASSUME NEW c \in asleep \ {Worker}, Worker \in asleep \/ wpc = "exited"
             PROVE  \E d \in Clients \ asleep : pc[d] \in {"copy", "publish"}
  BY DEF SomebodyAwake
<1>0. /\ TypeOK /\ LocalsOK /\ ActiveOK /\ StoppedOK /\ StageOK /\ PendingWhileRead
      /\ c \in Clients /\ Blocked(c)
  BY DEF Ledger, Chained, Books, Traceable, LocalsOK, TypeOK, ClientType, NoLostWakeup
<1>1. active = NoItem
  BY <1>0 DEF ActiveOK, NoLostWakeup
<1>2. CASE pc[c] \in SpaceWaits
  <2>1. Running /\ wpc # "exited"
    BY <1>0, <1>2 DEF Blocked, SpaceWaits, Running, StageOK, StoppedOK
  <2>2. Worker \in asleep /\ HasRoom
    BY <2>1, EmptySeq, CapacityAssumption DEF NoLostWakeup, HasRoom
  <2>3. pc[c] = "reserve"
    BY <1>0, <1>2, <2>2 DEF Blocked, SpaceWaits
  <2> QED
    BY <1>0, <2>2, <2>3, WriterAwake
<1>3. CASE pc[c] \notin SpaceWaits
  <2>1. ~failed /\ ~canceled => Barriers = {}
    <3>1. ~failed => queue = <<>>
      BY <1>0 DEF StageOK, NoLostWakeup
    <3> QED
      BY <1>1, <3>1, EmptySeq DEF Barriers, QueuedItems, NoItem
  <2>2. pc[c] # "flush_wait"
    <3> SUFFICES ASSUME pc[c] = "flush_wait" PROVE FALSE
      OBVIOUS
    <3>1. ~failed /\ ~canceled /\ ~(token[c] <= completed_flush_token)
      BY <1>0 DEF Blocked, SpaceWaits, FlushSettled, TypeOK, SessionType, ClientType
    <3>2. TokenThere(c)
      BY <1>0, <3>1 DEF TokensOK, StateWaiters
    <3> QED
      BY <2>1, <3>1, <3>2 DEF TokenThere
  <2>3. pc[c] # "wait"
    <3> SUFFICES ASSUME pc[c] = "wait" PROVE FALSE
      OBVIOUS
    <3>1. waited[c] \in DOMAIN submission /\ submission[waited[c]] = "pending"
      BY <1>0 DEF Blocked, SpaceWaits, LocalsOK, WaitedOK
    <3>2. wpc # "exited" /\ queue = <<>>
      BY <3>1 DEF AnsweredOK, NonePending, NoLostWakeup
    <3>3. \A x \in Present : x.type # "borrowed"
      BY <1>1, <3>2, EmptySeq DEF Present, QueuedItems, NoItem
    <3> QED
      BY <1>0, <3>1, <3>3, PendingPresent
  <2> QED
    BY <1>0, <1>3, <2>2, <2>3 DEF Blocked, SpaceWaits
<1> QED
  BY <1>2, <1>3

(* No buffer is lost, no wakeup is missed, and while a thread sleeps in    *)
(* write, submit_borrowed, flush or a submission wait, the worker or a     *)
(* writer with a frame in its hands is awake: the sleepers never wait for  *)
(* each other.  A copy that throws takes its OwnedFrame along (Conserved), *)
(* hence the hypothesis.                                                   *)
THEOREM NoCycle == "throw" \notin CopyOutcomes => (Spec => []NobodyStuck)
<1> SUFFICES ASSUME "throw" \notin CopyOutcomes PROVE Spec => []NobodyStuck
  OBVIOUS
<1>1. Spec => []FrameConserved
  BY Conserved
<1>2. Ledger /\ BarrierOK /\ TokensOK /\ AnsweredOK /\ NoLostWakeup /\ FrameConserved
        => NobodyStuck
  BY AwakeNow DEF NobodyStuck
<1> QED
  BY <1>1, <1>2, LedgerHolds, AnswersHold, Wakeups, PTL

=============================================================================
