------------------------ MODULE DecoderPrefetchProofs ------------------------
(***************************************************************************)
(* Proofs about DecoderPrefetch, for any number of callers, any capacity   *)
(* and any length of the stream: the frames reach the callers whole and in *)
(* order, the backend is not closed under the worker, the decoder          *)
(* implements OrderedPipeline, and no thread misses its wakeup.            *)
(***************************************************************************)
EXTENDS DecoderPrefetch, SequenceTheorems, FiniteSetTheorems, TLAPS

LEMMA Counts ==
    ASSUME TypeOK
    PROVE  /\ completed_frames \in Nat /\ Len(queue) \in Nat
           /\ \A i \in 1..Len(queue) : queue[i] \in Nat
<1> QED
  BY LenProperties, ElementOfSeq DEF TypeOK, completed_frames

\* What parking and reading a frame do to the sequences.
LEMMA Parked ==
    ASSUME TypeOK, WorkerParks
    PROVE  /\ queue' \in Seq(Nat) /\ Len(queue') = Len(queue) + 1
           /\ queue'[Len(queue) + 1] = decoded + 1
           /\ \A i \in 1..Len(queue) : queue'[i] = queue[i]
<1>1. decoded + 1 \in Nat
  BY DEF TypeOK
<1> QED
  BY <1>1, AppendProperties DEF TypeOK, WorkerParks

LEMMA Taken ==
    ASSUME TypeOK, queue # <<>>, TakeFrame
    PROVE  /\ queue' \in Seq(Nat) /\ Len(queue') = Len(queue) - 1
           /\ \A i \in 1..Len(queue') : queue'[i] = queue[i + 1]
           /\ Len(queue) >= 1 /\ queue[1] \in Nat
           /\ delivered' \in Seq(Nat) /\ completed_frames' = completed_frames + 1
           /\ delivered'[completed_frames + 1] = queue[1]
           /\ \A i \in 1..completed_frames : delivered'[i] = delivered[i]
<1>1. Len(queue) \in Nat \ {0} /\ Head(queue) = queue[1] /\ queue[1] \in Nat
  <2>1. Len(queue) \in Nat /\ Len(queue) # 0
    BY EmptySeq, LenProperties DEF TypeOK
  <2>2. 1 \in 1..Len(queue)
    BY <2>1
  <2> QED
    BY <2>1, <2>2, Counts
<1>2. /\ queue' \in Seq(Nat) /\ Len(queue') = Len(queue) - 1
      /\ \A i \in 1..Len(queue') : queue'[i] = queue[i + 1]
  BY HeadTailProperties DEF TypeOK, TakeFrame
<1>3. /\ delivered' \in Seq(Nat) /\ Len(delivered') = Len(delivered) + 1
      /\ delivered'[Len(delivered) + 1] = queue[1]
      /\ \A i \in 1..Len(delivered) : delivered'[i] = delivered[i]
  BY <1>1, AppendProperties DEF TypeOK, TakeFrame
<1> QED
  BY <1>1, <1>2, <1>3 DEF completed_frames

\* Steps of a client that leave the shared state and the worker alone.
Quiet(c) ==
    \/ ReadSleeps(c) \/ ReadStopped(c) \/ ReadEnds(c) \/ ReadCall(c)
    \/ \E gpu_resident \in BOOLEAN : SetCopyPolicy(c, gpu_resident)
    \/ CloseJoins(c) \/ CloseSkipsJoin(c) \/ CloseJoinRaces(c)
    \/ CloseJoined(c) \/ CloseBackend(c)

LEMMA QuietUnchanged ==
    ASSUME NEW c \in Clients, Quiet(c)
    PROVE  UNCHANGED <<shared, worker>>
<1> QED
  BY DEF Quiet, ReadSleeps, ReadStopped, ReadEnds, ReadCall, SetCopyPolicy, CloseJoins,
         CloseSkipsJoin, CloseJoinRaces, CloseJoined, CloseBackend

\* The steps there are, by what they do to frames.
LEMMA StepCases ==
    ASSUME Next
    PROVE  \/ \E c \in Clients : Quiet(c) \/ ReadFrame(c) \/ CloseStop(c) \/ CloseClears(c)
           \/ WorkerSleeps \/ WorkerStops \/ WorkerStarts \/ WorkerParks \/ WorkerDrops
           \/ \E result \in Ends : WorkerEnds(result)
           \/ Quiescent
<1> QED
  BY DEF Next, ClientStep, ClientCall, WorkerStep, Quiet

-----------------------------------------------------------------------------
(* Types.                                                                  *)

SharedTypeOK ==
    /\ queue \in Seq(Nat) /\ Len(queue) <= Capacity
    /\ stop_requested \in BOOLEAN /\ worker_finished \in BOOLEAN
    /\ worker_result \in Ends \cup {"OK"}
    /\ accepted_frames \in Nat /\ decoded \in Nat /\ delivered \in Seq(Nat)
    /\ wpc \in {"wait", "decode", "exited"}

LEMMA SharedType ==
    ASSUME Inductive, Next
    PROVE  SharedTypeOK'
<1> USE DEF Inductive, TypeOK, SharedTypeOK
<1>0. /\ Len(queue) \in Nat /\ Capacity \in Nat \ {0}
      /\ <<>> \in Seq(Nat) /\ Len(<<>>) = 0
  BY Counts, CapacityAssumption, EmptySeq
<1>1. ASSUME NEW c \in Clients, Quiet(c) \/ CloseStop(c) PROVE SharedTypeOK'
  BY <1>1, QuietUnchanged DEF CloseStop, shared, worker
<1>2. ASSUME NEW c \in Clients, ReadFrame(c) PROVE SharedTypeOK'
  <2>1. queue' \in Seq(Nat) /\ Len(queue') <= Capacity /\ delivered' \in Seq(Nat)
    BY <1>0, <1>2, Taken DEF ReadFrame
  <2> QED
    BY <1>2, <2>1 DEF ReadFrame, worker
<1>3. CASE WorkerParks
  <2>1. Len(queue) + 1 <= Capacity
    BY <1>0, <1>3 DEF WorkerParks, MayPark, ParkedOK, HasSpace
  <2> QED
    BY <1>0, <1>3, <2>1, Parked DEF WorkerParks
<1>4. CASE WorkerSleeps \/ WorkerStops \/ WorkerStarts \/ Quiescent
  BY <1>4 DEF WorkerSleeps, WorkerStops, WorkerStarts, Quiescent, shared, worker, vars
<1>5. CASE WorkerDrops
  BY <1>5 DEF WorkerDrops, shared
<1>6. ASSUME NEW result \in Ends, WorkerEnds(result) PROVE SharedTypeOK'
  BY <1>6 DEF WorkerEnds, Queue_Kept
<1>7. ASSUME NEW c \in Clients, CloseClears(c) PROVE SharedTypeOK'
  BY <1>0, <1>7 DEF CloseClears, worker
<1> QED
  BY <1>1, <1>2, <1>3, <1>4, <1>5, <1>6, <1>7, StepCases

LEMMA ThreadType ==
    ASSUME Inductive, Next
    PROVE  /\ joined' \in BOOLEAN /\ backend_closed' \in BOOLEAN
           /\ pc' \in [Clients -> {"idle", "read", "stop", "join", "clear", "backend"}]
           /\ ret' \in [Clients -> Results]
           /\ joiner' \subseteq Clients /\ asleep' \subseteq Clients \cup {Worker}
           /\ reads' \in Nat /\ calls' \in 0..MaxCalls
<1> USE DEF Inductive, TypeOK
<1>0. MaxCalls \in Nat /\ {"OK", "INVALID_STATE", "NOT_SUPPORTED", "INTERNAL", "none"} \subseteq Results
      /\ worker_result \in Results
  BY BoundAssumption DEF Results, Ends
<1>1. ASSUME NEW c \in Clients, ClientStep(c)
      PROVE  /\ joined' \in BOOLEAN /\ backend_closed' \in BOOLEAN
             /\ pc' \in [Clients -> {"idle", "read", "stop", "join", "clear", "backend"}]
             /\ ret' \in [Clients -> Results]
             /\ joiner' \subseteq Clients /\ asleep' \subseteq Clients \cup {Worker}
             /\ UNCHANGED <<reads, calls>>
  BY <1>0, <1>1, ZenonT(60)
  DEF ClientStep, ReadSleeps, ReadStopped, ReadFrame, ReadEnds, CloseJoins, CloseSkipsJoin,
      CloseJoinRaces, CloseJoined, CloseClears, CloseBackend, JoinReturns, Goto, Return,
      Sleep, Notify, Readers, ending, client
<1>2. ASSUME NEW c \in Clients, ClientCall(c)
      PROVE  /\ UNCHANGED ending
             /\ pc' \in [Clients -> {"idle", "read", "stop", "join", "clear", "backend"}]
             /\ ret' \in [Clients -> Results]
             /\ asleep' \subseteq asleep /\ reads' \in Nat /\ calls' \in 0..MaxCalls
  <2>1. Call(c) => calls' \in 0..MaxCalls
    BY <1>0 DEF Call
  <2>2. CASE ReadCall(c) \/ CloseStop(c)
    <3>1. Call(c) /\ UNCHANGED ending /\ asleep' \subseteq asleep /\ reads' \in Nat
      BY <2>2 DEF ReadCall, CloseStop, Notify
    <3>2. /\ ret' = [ret EXCEPT ![c] = "none"]
          /\ pc' = [pc EXCEPT ![c] = "read"] \/ pc' = [pc EXCEPT ![c] = "stop"]
      BY <2>2 DEF ReadCall, CloseStop, Goto
    <3> QED
      BY <1>0, <2>1, <3>1, <3>2
  <2>3. ASSUME NEW gpu_resident \in BOOLEAN, SetCopyPolicy(c, gpu_resident)
        PROVE  /\ ret' \in [Clients -> Results] /\ Call(c) /\ UNCHANGED <<ending, reads, asleep>>
               /\ pc' = [pc EXCEPT ![c] = "idle"]
    BY <1>0, <2>3 DEF SetCopyPolicy, Return
  <2> QED
    BY <1>2, <2>1, <2>2, <2>3 DEF ClientCall
<1>3. ASSUME WorkerStep
      PROVE  UNCHANGED <<ending, client>> /\ asleep' \subseteq Clients \cup {Worker}
  BY <1>3
  DEF WorkerStep, WorkerSleeps, WorkerStops, WorkerStarts, WorkerParks, WorkerDrops,
      WorkerEnds, Sleep, Notify, NotifyOneReader
<1>4. Quiescent => UNCHANGED <<ending, client, asleep>>
  BY DEF Quiescent, vars
<1> QED
  BY <1>1, <1>2, <1>3, <1>4 DEF Next, ending, client

-----------------------------------------------------------------------------
(* Who joins the worker, and when.                                         *)

LEMMA ThreadsStep ==
    ASSUME Inductive, Next
    PROVE  ThreadsOK'
<1> USE DEF ThreadsOK
<1>0. /\ ThreadsOK /\ pc \in [Clients -> {"idle", "read", "stop", "join", "clear", "backend"}]
      /\ stop_requested \in BOOLEAN
  BY DEF Inductive, TypeOK
<1>1. ASSUME NEW c \in Clients, ReadSleeps(c) \/ ReadStopped(c) \/ ReadFrame(c) \/ ReadEnds(c)
      PROVE  ThreadsOK'
  BY <1>0, <1>1
  DEF ReadSleeps, ReadStopped, ReadFrame, ReadEnds, Return, shared, worker, ending, client
<1>2. ASSUME NEW c \in Clients, CloseJoins(c) \/ CloseSkipsJoin(c) \/ CloseJoinRaces(c)
      PROVE  ThreadsOK'
  BY <1>0, <1>2
  DEF CloseJoins, CloseSkipsJoin, CloseJoinRaces, Goto, Return, shared, worker, ending
<1>3. ASSUME NEW c \in Clients, CloseJoined(c) \/ CloseClears(c) \/ CloseBackend(c)
      PROVE  ThreadsOK'
  BY <1>0, <1>3
  DEF CloseJoined, CloseClears, CloseBackend, JoinReturns, Goto, Return, shared, worker, ending
<1>4. ASSUME NEW c \in Clients, ReadCall(c) \/ CloseStop(c) PROVE ThreadsOK'
  BY <1>0, <1>4 DEF ReadCall, CloseStop, Goto, shared, worker, ending
<1>5. ASSUME NEW c \in Clients, NEW gpu_resident \in BOOLEAN, SetCopyPolicy(c, gpu_resident)
      PROVE  ThreadsOK'
  BY <1>0, <1>5 DEF SetCopyPolicy, Return, shared, worker, ending
<1>6. CASE WorkerSleeps \/ WorkerStops \/ WorkerStarts \/ Quiescent
  BY <1>0, <1>6
  DEF WorkerSleeps, WorkerStops, WorkerStarts, Quiescent, vars, shared, worker, ending, client
<1>7. CASE WorkerParks
  BY <1>0, <1>7 DEF WorkerParks, MayPark, ending, client
<1>8. CASE WorkerDrops \/ \E result \in Ends : WorkerEnds(result)
  BY <1>0, <1>8 DEF WorkerDrops, WorkerEnds, shared, ending, client
<1> QED
  BY <1>1, <1>2, <1>3, <1>4, <1>5, <1>6, <1>7, <1>8
  DEF Next, ClientStep, ClientCall, WorkerStep

-----------------------------------------------------------------------------
(* The frames.                                                             *)

Frames == ParkedOK /\ FramesKept

\* What the frames' invariant looks at.
LEMMA FramesQuiet ==
    ASSUME Inductive, UNCHANGED <<queue, accepted_frames, decoded, delivered>>,
           stop_requested => stop_requested',
           wpc' = "decode" => wpc = "decode" \/ HasSpace
    PROVE  Frames'
<1> QED
  BY DEF Inductive, Frames, ParkedOK, FramesKept, DeliveredInOrder, NothingLost, HasSpace,
         completed_frames

LEMMA FramesPark ==
    ASSUME Inductive, WorkerParks
    PROVE  Frames'
<1>1. /\ Len(queue') = Len(queue) + 1 /\ queue'[Len(queue) + 1] = decoded + 1
      /\ \A i \in 1..Len(queue) : queue'[i] = queue[i]
      /\ Len(queue) \in Nat /\ completed_frames \in Nat /\ accepted_frames \in Nat
  BY Parked, Counts DEF Inductive, TypeOK
<1>2. /\ ~stop_requested /\ decoded = accepted_frames
      /\ accepted_frames = completed_frames + Len(queue)
      /\ \A i \in 1..Len(queue) : queue[i] = completed_frames + i
  BY DEF Inductive, ParkedOK, FramesKept, NothingLost, WorkerParks, MayPark
<1>3. /\ decoded' = decoded + 1 /\ accepted_frames' = accepted_frames + 1
      /\ UNCHANGED <<completed_frames, delivered, stop_requested>> /\ wpc' = "wait"
  BY DEF WorkerParks, completed_frames
<1>4. \A i \in 1..Len(queue') : queue'[i] = completed_frames' + i
  <2> SUFFICES ASSUME NEW i \in 1..Len(queue') PROVE queue'[i] = completed_frames' + i
    OBVIOUS
  <2>1. CASE i = Len(queue) + 1
    BY <1>1, <1>2, <1>3, <2>1
  <2>2. CASE i # Len(queue) + 1
    <3>1. i \in 1..Len(queue)
      BY <1>1, <2>2
    <3> QED
      BY <1>1, <1>2, <1>3, <3>1
  <2> QED
    BY <2>1, <2>2
<1>5. ParkedOK' /\ NothingLost'
  BY <1>1, <1>2, <1>3, <1>4 DEF ParkedOK, NothingLost
<1>6. DeliveredInOrder'
  BY <1>3 DEF Inductive, FramesKept, DeliveredInOrder
<1> QED
  BY <1>5, <1>6 DEF Frames, FramesKept

LEMMA FramesRead ==
    ASSUME Inductive, NEW c \in Clients, ReadFrame(c)
    PROVE  Frames'
<1>1. /\ Len(queue') = Len(queue) - 1 /\ Len(queue) \in Nat /\ Len(queue) >= 1
      /\ \A i \in 1..Len(queue') : queue'[i] = queue[i + 1]
      /\ completed_frames' = completed_frames + 1 /\ completed_frames \in Nat
      /\ delivered' \in Seq(Nat) /\ delivered \in Seq(Nat)
      /\ delivered'[completed_frames + 1] = queue[1]
      /\ \A i \in 1..completed_frames : delivered'[i] = delivered[i]
  BY Taken, Counts DEF Inductive, TypeOK, ReadFrame
<1>2. /\ ~stop_requested /\ decoded = accepted_frames
      /\ accepted_frames = completed_frames + Len(queue)
      /\ \A i \in 1..Len(queue) : queue[i] = completed_frames + i
      /\ delivered = [i \in 1..completed_frames |-> i]
  BY DEF Inductive, ParkedOK, FramesKept, NothingLost, DeliveredInOrder, ReadFrame
<1>3. UNCHANGED <<decoded, accepted_frames, stop_requested, wpc>>
  BY DEF ReadFrame, worker
<1>4. \A i \in 1..Len(queue') : queue'[i] = completed_frames' + i
  <2> SUFFICES ASSUME NEW i \in 1..Len(queue') PROVE queue'[i] = completed_frames' + i
    OBVIOUS
  <2>1. i + 1 \in 1..Len(queue)
    BY <1>1
  <2> QED
    BY <1>1, <1>2, <2>1
<1>5. ParkedOK' /\ NothingLost'
  <2>1. HasSpace => HasSpace'
    BY <1>1, CapacityAssumption DEF HasSpace
  <2>2. (wpc = "decode" => HasSpace)
    BY DEF Inductive, ParkedOK
  <2> QED
    BY <1>1, <1>2, <1>3, <1>4, <2>1, <2>2 DEF ParkedOK, NothingLost
<1>6. DeliveredInOrder'
  <2>1. DOMAIN delivered' = 1..completed_frames' /\ delivered' = [i \in DOMAIN delivered' |-> delivered'[i]]
    BY <1>1, LenProperties DEF completed_frames
  <2>2. \A i \in 1..completed_frames' : delivered'[i] = i
    <3> SUFFICES ASSUME NEW i \in 1..completed_frames' PROVE delivered'[i] = i
      OBVIOUS
    <3>1. CASE i = completed_frames + 1
      BY <1>1, <1>2, <3>1
    <3>2. CASE i # completed_frames + 1
      <4>1. i \in 1..completed_frames
        BY <1>1, <3>2
      <4> QED
        BY <1>1, <1>2, <4>1
    <3> QED
      BY <3>1, <3>2
  <2> QED
    BY <2>1, <2>2 DEF DeliveredInOrder
<1> QED
  BY <1>5, <1>6 DEF Frames, FramesKept

LEMMA FramesStep ==
    ASSUME Inductive, Next
    PROVE  Frames'
<1>1. ASSUME NEW c \in Clients, Quiet(c) \/ CloseStop(c) PROVE Frames'
  BY <1>1, FramesQuiet, QuietUnchanged DEF CloseStop, shared, worker
<1>2. ASSUME NEW c \in Clients, CloseClears(c) PROVE Frames'
  <2>1. stop_requested /\ UNCHANGED <<stop_requested, delivered, wpc>> /\ wpc = "exited"
    BY <1>2 DEF CloseClears, worker, Inductive, ThreadsOK
  <2> QED
    BY <2>1
    DEF Inductive, Frames, ParkedOK, FramesKept, DeliveredInOrder, NothingLost, completed_frames
<1>3. CASE WorkerSleeps \/ WorkerStops \/ WorkerStarts \/ Quiescent
  BY <1>3, FramesQuiet
  DEF WorkerSleeps, WorkerStops, WorkerStarts, Quiescent, vars, shared, worker
<1>4. CASE WorkerDrops
  <2>1. stop_requested /\ UNCHANGED <<stop_requested, delivered, accepted_frames, queue>>
        /\ wpc' = "exited"
    BY <1>4 DEF WorkerDrops, shared
  <2> QED
    BY <2>1
    DEF Inductive, Frames, ParkedOK, FramesKept, DeliveredInOrder, NothingLost, completed_frames
<1>5. ASSUME NEW result \in Ends, WorkerEnds(result) PROVE Frames'
  BY <1>5, FramesQuiet DEF WorkerEnds, Queue_Kept
<1> QED
  BY <1>1, <1>2, <1>3, <1>4, <1>5, FramesPark, FramesRead, StepCases

-----------------------------------------------------------------------------
LEMMA InductiveHolds == Spec => []Inductive
<1>1. Init => Inductive
  <2> SUFFICES ASSUME Init PROVE Inductive
    OBVIOUS
  <2>1. <<>> \in Seq(Nat) /\ Len(<<>>) = 0 /\ 1..0 = {}
    BY EmptySeq
  <2>2. TypeOK
    <3>1. queue \in Seq(Nat) /\ Len(queue) <= Capacity /\ delivered \in Seq(Nat)
      BY <2>1, CapacityAssumption DEF Init
    <3>2. /\ pc \in [Clients -> {"idle", "read", "stop", "join", "clear", "backend"}]
          /\ ret \in [Clients -> Results]
      BY DEF Init, Results
    <3>3. calls \in 0..MaxCalls /\ reads \in Nat
      BY BoundAssumption DEF Init
    <3> QED
      BY <3>1, <3>2, <3>3 DEF Init, TypeOK
  <2>3. ThreadsOK /\ ParkedOK
    BY <2>1 DEF Init, ThreadsOK, ParkedOK
  <2>4. DeliveredInOrder
    <3>1. completed_frames = 0
      BY <2>1 DEF Init, completed_frames
    <3>2. <<>> = [i \in 1..0 |-> i]
      BY <2>1
    <3> QED
      BY <3>1, <3>2 DEF Init, DeliveredInOrder
  <2>5. NothingLost
    BY <2>1 DEF Init, NothingLost, completed_frames
  <2> QED
    BY <2>2, <2>3, <2>4, <2>5 DEF Inductive, FramesKept
<1>2. Inductive /\ [Next]_vars => Inductive'
  <2> SUFFICES ASSUME Inductive, [Next]_vars PROVE Inductive'
    OBVIOUS
  <2>1. CASE Next
    <3>1. TypeOK'
      BY <2>1, SharedType, ThreadType DEF SharedTypeOK, TypeOK
    <3> QED
      BY <2>1, <3>1, ThreadsStep, FramesStep DEF Inductive, Frames
  <2>2. CASE UNCHANGED vars
    <3>1. TypeOK'
      BY <2>2 DEF Inductive, TypeOK, vars, shared, worker, ending, client
    <3>2. ThreadsOK'
      BY <2>2 DEF Inductive, ThreadsOK, vars, shared, worker, ending, client
    <3>3. Frames'
      BY <2>2, FramesQuiet DEF vars, shared, worker
    <3> QED
      BY <3>1, <3>2, <3>3 DEF Inductive, Frames
  <2> QED
    BY <2>1, <2>2
<1> QED
  BY <1>1, <1>2, PTL DEF Spec


(* Every variable keeps its type and the queue keeps within prefetch: the  *)
(* worker decodes only when there is a place, and only it fills the queue  *)
(* (decoder_prefetch.cpp).                                                 *)
THEOREM TypeCorrect == Spec => []TypeOK
<1> QED
  BY InductiveHolds, PTL DEF Inductive

(* However many threads read, the callers together get the frames of the   *)
(* stream in order, each once and none skipped, and no frame is lost       *)
(* before somebody closes the decoder (decoder_prefetch.cpp).              *)
THEOREM StreamWhole == Spec => []FramesKept
<1> QED
  BY InductiveHolds, PTL DEF Inductive

(* The backend is closed only after the worker's last call of it, also     *)
(* when several threads close (decoder_prefetch.cpp, decoder_pipeline.cpp). *)
THEOREM Exclusion == Spec => []BackendExclusive
<1>1. Inductive => BackendExclusive
  BY DEF Inductive, ThreadsOK, BackendExclusive
<1> QED
  BY <1>1, InductiveHolds, PTL

-----------------------------------------------------------------------------
(* The ordered pipeline.                                                   *)

LEMMA PipelineQuiet ==
    ASSUME UNCHANGED <<accepted_frames, delivered, stop_requested>>,
           stop_requested \/ worker_finished' = worker_finished
    PROVE  UNCHANGED Pipeline!vars
<1> QED
  BY DEF Pipeline!vars, completed_frames

LEMMA PipelineStep ==
    ASSUME Inductive, Next
    PROVE  [Pipeline!Next]_(Pipeline!vars)
<1>0. /\ Len(queue) \in Nat /\ completed_frames \in Nat /\ accepted_frames \in Nat
      /\ stop_requested \in BOOLEAN
      /\ (worker_finished => wpc = "exited")
      /\ (~stop_requested => accepted_frames = completed_frames + Len(queue))
  BY Counts DEF Inductive, TypeOK, ThreadsOK, FramesKept, NothingLost
<1>1. ASSUME NEW c \in Clients, Quiet(c) PROVE UNCHANGED Pipeline!vars
  BY <1>1, QuietUnchanged, PipelineQuiet DEF shared
<1>2. ASSUME NEW c \in Clients, CloseClears(c) PROVE UNCHANGED Pipeline!vars
  BY <1>2, PipelineQuiet DEF CloseClears
<1>3. CASE WorkerSleeps \/ WorkerStops \/ WorkerStarts \/ WorkerDrops \/ Quiescent
  BY <1>3, PipelineQuiet
  DEF WorkerSleeps, WorkerStops, WorkerStarts, WorkerDrops, Quiescent, vars, shared
<1>4. ASSUME NEW c \in Clients, ReadFrame(c) PROVE Pipeline!Deliver
  <2>1. completed_frames' = completed_frames + 1 /\ Len(queue) >= 1 /\ ~stop_requested
    BY <1>4, Taken DEF ReadFrame, Inductive
  <2>2. UNCHANGED <<accepted_frames, stop_requested, worker_finished>>
    BY <1>4 DEF ReadFrame
  <2> QED
    BY <1>0, <2>1, <2>2 DEF Pipeline!Deliver, Pipeline!Alive
<1>5. ASSUME NEW c \in Clients, CloseStop(c) PROVE [Pipeline!Next]_(Pipeline!vars)
  <2>1. /\ stop_requested' /\ UNCHANGED <<accepted_frames, delivered, worker_finished>>
    BY <1>5 DEF CloseStop
  <2>2. CASE stop_requested
    BY <1>0, <2>1, <2>2, PipelineQuiet
  <2>3. CASE ~stop_requested
    <3>1. completed_frames' = completed_frames
      BY <2>1 DEF completed_frames
    <3> QED
      BY <2>1, <2>3, <3>1 DEF Pipeline!Next, Pipeline!Break, Pipeline!Alive
  <2> QED
    BY <2>2, <2>3
<1>6. CASE WorkerParks
  <2>1. /\ ~stop_requested /\ ~worker_finished
        /\ accepted_frames' = accepted_frames + 1
        /\ UNCHANGED <<stop_requested, worker_finished, delivered>>
    BY <1>0, <1>6 DEF WorkerParks, MayPark
  <2> QED
    BY <1>0, <2>1 DEF Pipeline!Next, Pipeline!Accept, completed_frames
<1>7. ASSUME NEW result \in Ends, WorkerEnds(result) PROVE [Pipeline!Next]_(Pipeline!vars)
  <2>1. /\ ~worker_finished /\ worker_finished'
        /\ UNCHANGED <<accepted_frames, stop_requested, delivered>>
    BY <1>0, <1>7 DEF WorkerEnds
  <2>2. CASE stop_requested
    BY <2>1, <2>2, PipelineQuiet
  <2>3. CASE ~stop_requested
    BY <2>1, <2>3 DEF Pipeline!Next, Pipeline!Close, completed_frames
  <2> QED
    BY <2>2, <2>3
<1> QED
  BY <1>1, <1>2, <1>3, <1>4, <1>5, <1>6, <1>7, StepCases DEF Pipeline!Next

(* Worker and callers together are an ordered pipeline: what the worker    *)
(* accepts is delivered in order until the end of the stream or a close,   *)
(* and nothing after a close (decoder_prefetch.cpp).                       *)
THEOREM PipelineRefinement == Spec => RefinesPipeline
<1>1. Init => Pipeline!Init
  BY EmptySeq DEF Init, Pipeline!Init, completed_frames
<1>2. Inductive /\ [Next]_vars => [Pipeline!Next]_(Pipeline!vars)
  <2>1. ASSUME UNCHANGED vars PROVE UNCHANGED Pipeline!vars
    BY <2>1, PipelineQuiet DEF vars, shared
  <2> QED
    BY <2>1, PipelineStep
<1> QED
  BY <1>1, <1>2, InductiveHolds, PTL DEF Spec, RefinesPipeline, Pipeline!Spec

-----------------------------------------------------------------------------
(* One wakeup per frame.                                                   *)

LEMMA AwakeFinite ==
    ASSUME TypeOK
    PROVE  /\ IsFiniteSet(Readers \ asleep) /\ Cardinality(Readers \ asleep) \in Nat
           /\ Sleepers = {} <=> Readers \cap asleep = {}
           /\ Readers \subseteq Clients /\ Worker \notin Readers
<1>1. IsFiniteSet(Readers \ asleep)
  BY ThreadAssumption, FS_Subset DEF Readers
<1> QED
  BY <1>1, FS_CardinalityType, ThreadAssumption DEF Readers, Sleepers

\* A step that changes neither the flags nor the queue, takes nobody's sleep and
\* no awake reader away.
LEMMA WakeupQuiet ==
    ASSUME TypeOK, WakeupPerFrame, UNCHANGED <<queue, stop_requested, worker_finished, asleep>>,
           wpc' = wpc \/ Worker \notin asleep,
           Readers \subseteq Readers', Readers' \subseteq Clients,
           Readers' \cap asleep = Sleepers
    PROVE  WakeupPerFrame'
<1>1. /\ Cardinality(Readers \ asleep) <= Cardinality(Readers' \ asleep)
      /\ Cardinality(Readers \ asleep) \in Nat /\ Cardinality(Readers' \ asleep) \in Nat
  <2>1. IsFiniteSet(Readers' \ asleep) /\ Readers \ asleep \subseteq Readers' \ asleep
    BY ThreadAssumption, FS_Subset
  <2> QED
    BY <2>1, AwakeFinite, FS_Subset, FS_CardinalityType
<1>2. Len(queue) \in Nat
  BY Counts
<1>3. Sleepers' = Sleepers
  BY DEF Sleepers
<1> QED
  BY <1>1, <1>2, <1>3 DEF WakeupPerFrame, HasSpace

\* Once stopped or ended, nobody sleeps.
LEMMA NobodySleeps ==
    ASSUME TypeOK, asleep' \subseteq Readers' \cup {Worker}, Sleepers' = {},
           Worker \in asleep' => wpc' = "wait" /\ ~stop_requested' /\ ~HasSpace'
    PROVE  WakeupPerFrame'
BY DEF WakeupPerFrame

\* A reader that is awake returns.
LEMMA AwakeReturns ==
    ASSUME TypeOK, WakeupPerFrame, NEW c \in Readers \ asleep, NEW r, Return(c, r)
    PROVE  /\ Readers' = Readers \ {c} /\ asleep \subseteq Readers' \cup {Worker}
           /\ Readers' \cap asleep = Sleepers
<1>1. pc \in [Clients -> {"idle", "read", "stop", "join", "clear", "backend"}] /\ c \in Clients
  BY DEF TypeOK, Readers
<1>2. Readers' = Readers \ {c}
  BY <1>1 DEF Return, Readers
<1> QED
  BY <1>2 DEF WakeupPerFrame, Sleepers

LEMMA WakeupReader ==
    ASSUME TypeOK, WakeupPerFrame, NEW c \in Clients,
           ReadSleeps(c) \/ ReadStopped(c) \/ ReadFrame(c) \/ ReadEnds(c)
    PROVE  WakeupPerFrame'
<1>0. c \notin {Worker}
  BY ThreadAssumption
<1>1. CASE ReadSleeps(c)
  <2>1. /\ asleep' = asleep \cup {c} /\ c \in Readers /\ Readers' = Readers
        /\ UNCHANGED <<queue, stop_requested, worker_finished, wpc>>
        /\ ~stop_requested /\ ~worker_finished /\ queue = <<>>
    BY <1>1 DEF ReadSleeps, Sleep, shared, worker, client, Readers, ReadWaits
  <2>2. IsFiniteSet(Readers \ asleep')
    BY ThreadAssumption, FS_Subset DEF Readers
  <2>3. Len(queue') <= Cardinality(Readers' \ asleep')
    BY <2>1, <2>2, FS_CardinalityType, EmptySeq
  <2> QED
    BY <1>0, <2>1, <2>3 DEF WakeupPerFrame, HasSpace
<1>2. CASE ReadStopped(c) \/ ReadEnds(c)
  <2>1. /\ c \in Readers \ asleep /\ \E r : Return(c, r)
        /\ UNCHANGED <<queue, stop_requested, worker_finished, wpc, asleep>>
        /\ stop_requested \/ worker_finished
    BY <1>2 DEF ReadStopped, ReadEnds, EndReached, shared, worker
  <2>2. Sleepers = {}
    BY <2>1 DEF WakeupPerFrame
  <2>3. Sleepers' = {} /\ asleep' \subseteq Readers' \cup {Worker}
    BY <2>1, <2>2, AwakeReturns DEF Sleepers
  <2> QED
    BY <2>1, <2>3, NobodySleeps DEF WakeupPerFrame, HasSpace
<1>3. CASE ReadFrame(c)
  <2>1. /\ c \in Readers \ asleep /\ Return(c, "OK") /\ asleep' = asleep \ {Worker}
        /\ UNCHANGED <<stop_requested, worker_finished>>
        /\ Len(queue') = Len(queue) - 1
    BY <1>3, Taken DEF ReadFrame, Notify, PopWakes
  <2>2. /\ Readers' = Readers \ {c} /\ asleep \subseteq Readers' \cup {Worker}
        /\ Readers' \cap asleep = Sleepers
    BY <2>1, AwakeReturns
  <2>3. /\ Readers' \ asleep' = (Readers \ asleep) \ {c} /\ Sleepers' = Sleepers
        /\ asleep' \subseteq Readers' \cup {Worker} /\ Worker \notin asleep'
    BY <2>1, <2>2, AwakeFinite DEF Sleepers
  <2>4. Cardinality(Readers' \ asleep') = Cardinality(Readers \ asleep) - 1
    BY <2>1, <2>3, AwakeFinite, FS_RemoveElement, ZenonT(60)
  <2>5. Len(queue) \in Nat /\ Cardinality(Readers \ asleep) \in Nat
    BY Counts, AwakeFinite
  <2> QED
    BY <2>1, <2>3, <2>4, <2>5 DEF WakeupPerFrame
<1> QED
  BY <1>1, <1>2, <1>3

LEMMA WakeupCaller ==
    ASSUME TypeOK, ThreadsOK, WakeupPerFrame, NEW c \in Clients,
           \/ CloseJoins(c) \/ CloseSkipsJoin(c) \/ CloseJoinRaces(c)
           \/ CloseJoined(c) \/ CloseClears(c) \/ CloseBackend(c)
           \/ ClientCall(c)
    PROVE  WakeupPerFrame'
<1>0. /\ pc \in [Clients -> {"idle", "read", "stop", "join", "clear", "backend"}]
      /\ Readers \subseteq Clients /\ c # Worker
  BY ThreadAssumption DEF TypeOK, Readers
<1>1. ASSUME \/ CloseJoins(c) \/ CloseSkipsJoin(c) \/ CloseJoinRaces(c)
             \/ CloseJoined(c) \/ CloseBackend(c)
             \/ \E gpu_resident \in BOOLEAN : SetCopyPolicy(c, gpu_resident)
      PROVE  WakeupPerFrame'
  <2>1. Readers' = Readers
    BY <1>0, <1>1 DEF CloseJoins, CloseSkipsJoin, CloseJoinRaces, CloseJoined, JoinReturns,
       CloseBackend, SetCopyPolicy, Call, Goto, Return, Readers
  <2>2. UNCHANGED <<queue, stop_requested, worker_finished, wpc, asleep>>
    BY <1>1 DEF CloseJoins, CloseSkipsJoin, CloseJoinRaces, CloseJoined,
       CloseBackend, SetCopyPolicy, shared, worker
  <2> QED
    BY <1>0, <2>1, <2>2, WakeupQuiet DEF Sleepers
<1>2. CASE ReadCall(c)
  <2>1. /\ c \notin Readers /\ Readers' = Readers \cup {c}
        /\ UNCHANGED <<queue, stop_requested, worker_finished, wpc, asleep>>
    BY <1>0, <1>2 DEF ReadCall, Call, Goto, Readers, shared, worker
  <2>2. c \notin asleep
    BY <1>0, <2>1 DEF WakeupPerFrame
  <2> QED
    BY <1>0, <2>1, <2>2, WakeupQuiet DEF Sleepers
<1>3. CASE CloseStop(c)
  <2>1. asleep' = asleep \ ({Worker} \cup Readers)
    BY <1>3 DEF CloseStop, Notify, StopWakes
  <2>2. asleep' = {}
    BY <2>1 DEF WakeupPerFrame
  <2> QED
    BY <2>2, NobodySleeps DEF Sleepers
<1>4. CASE CloseClears(c)
  <2>1. stop_requested /\ UNCHANGED <<stop_requested, worker_finished, wpc, asleep>>
        /\ Readers' = Readers
    BY <1>0, <1>4 DEF CloseClears, ThreadsOK, Goto, Readers, worker
  <2>2. Sleepers = {} /\ Worker \notin asleep
    BY <2>1 DEF WakeupPerFrame
  <2> QED
    BY <2>1, <2>2, NobodySleeps DEF WakeupPerFrame, Sleepers
<1> QED
  BY <1>1, <1>2, <1>3, <1>4 DEF ClientCall

LEMMA WakeupWorker ==
    ASSUME TypeOK, WakeupPerFrame, WorkerStep
    PROVE  WakeupPerFrame'
<1>0. Readers' = Readers /\ Worker \notin Readers
  BY AwakeFinite
  DEF WorkerStep, WorkerSleeps, WorkerStops, WorkerStarts, WorkerParks, WorkerDrops,
      WorkerEnds, client, Readers
<1>1. CASE WorkerSleeps
  <2>1. /\ asleep' = asleep \cup {Worker} /\ wpc = "wait" /\ ~stop_requested /\ ~HasSpace
        /\ UNCHANGED <<queue, stop_requested, worker_finished, wpc>>
    BY <1>1 DEF WorkerSleeps, Sleep, shared, worker
  <2>2. Sleepers' = Sleepers /\ Readers' \ asleep' = Readers \ asleep
    BY <1>0, <2>1 DEF Sleepers
  <2> QED
    BY <1>0, <2>1, <2>2 DEF WakeupPerFrame, HasSpace
<1>2. CASE WorkerStops \/ WorkerStarts
  <2>1. UNCHANGED <<queue, stop_requested, worker_finished, asleep>> /\ Worker \notin asleep
    BY <1>2 DEF WorkerStops, WorkerStarts, shared
  <2> QED
    BY <1>0, <2>1, WakeupQuiet, AwakeFinite DEF Sleepers
<1>3. CASE WorkerParks
  <2>1. /\ wpc = "decode" /\ UNCHANGED <<stop_requested, worker_finished>>
        /\ Len(queue') = Len(queue) + 1 /\ Len(queue) \in Nat /\ NotifyOneReader
    BY <1>3, Parked, Counts DEF WorkerParks, MayPark
  <2>2. Worker \notin asleep
    BY <2>1 DEF WakeupPerFrame
  <2>3. CASE Sleepers = {}
    <3>1. asleep' = asleep
      BY <2>1, <2>3 DEF NotifyOneReader
    <3>2. Sleepers' = {}
      BY <1>0, <2>3, <3>1 DEF Sleepers
    <3> QED
      BY <1>0, <2>2, <3>1, <3>2, NobodySleeps DEF WakeupPerFrame
  <2>4. CASE Sleepers # {}
    <3>1. PICK c \in Sleepers : asleep' = asleep \ {c}
      BY <2>1, <2>4 DEF NotifyOneReader
    <3>2. /\ Readers' \ asleep' = (Readers \ asleep) \cup {c} /\ c \notin Readers \ asleep
          /\ Sleepers' \subseteq Sleepers
      BY <1>0, <3>1 DEF Sleepers
    <3>3. Cardinality(Readers' \ asleep') = Cardinality(Readers \ asleep) + 1
          /\ Cardinality(Readers \ asleep) \in Nat
      BY <3>2, AwakeFinite, FS_AddElement
    <3>4. ~stop_requested /\ ~worker_finished /\ Len(queue) <= Cardinality(Readers \ asleep)
      BY <2>4 DEF WakeupPerFrame
    <3>5. Len(queue') <= Cardinality(Readers' \ asleep')
      BY <2>1, <3>3, <3>4
    <3>6. asleep' \subseteq Readers' \cup {Worker} /\ Worker \notin asleep'
      BY <1>0, <2>2, <3>1 DEF WakeupPerFrame
    <3> QED
      BY <2>1, <3>4, <3>5, <3>6 DEF WakeupPerFrame
  <2> QED
    BY <2>3, <2>4
<1>4. CASE WorkerDrops
  <2>1. stop_requested /\ UNCHANGED <<stop_requested, asleep>>
    BY <1>4 DEF WorkerDrops, shared
  <2>2. Sleepers = {} /\ Worker \notin asleep
    BY <2>1 DEF WakeupPerFrame
  <2>3. Sleepers' = {}
    BY <1>0, <2>1, <2>2 DEF Sleepers
  <2> QED
    BY <1>0, <2>1, <2>2, <2>3, NobodySleeps DEF WakeupPerFrame
<1>5. ASSUME NEW result \in Ends, WorkerEnds(result) PROVE WakeupPerFrame'
  <2>1. asleep' = asleep \ Readers /\ wpc = "decode"
    BY <1>5 DEF WorkerEnds, Notify
  <2>2. asleep' = {}
    BY <2>1 DEF WakeupPerFrame
  <2> QED
    BY <2>2, NobodySleeps DEF Sleepers
<1> QED
  BY <1>1, <1>2, <1>3, <1>4, <1>5 DEF WorkerStep

LEMMA ExitStep ==
    ASSUME ExitOK, Next
    PROVE  ExitOK'
<1>1. ASSUME NEW c \in Clients, ClientStep(c) \/ ClientCall(c) PROVE ExitOK'
  BY <1>1
  DEF ExitOK, ClientStep, ClientCall, ReadSleeps, ReadStopped, ReadFrame, ReadEnds,
      CloseJoins, CloseSkipsJoin, CloseJoinRaces, CloseJoined, CloseClears, CloseBackend,
      ReadCall, CloseStop, SetCopyPolicy, shared, worker
<1>2. CASE WorkerStep
  BY <1>2
  DEF ExitOK, WorkerStep, WorkerSleeps, WorkerStops, WorkerStarts, WorkerParks, WorkerDrops,
      WorkerEnds, shared, worker
<1>3. CASE Quiescent
  BY <1>3 DEF ExitOK, Quiescent, vars, shared, worker
<1> QED
  BY <1>1, <1>2, <1>3 DEF Next

\* A full queue and an exhausted stream have woken somebody.
LEMMA AwakeNow ==
    ASSUME TypeOK, ExitOK, WakeupPerFrame
    PROVE  NoLostWakeup
<1> SUFFICES ASSUME Sleepers # {}, Worker \in asleep \/ wpc = "exited"
             PROVE  Readers \ asleep # {}
  BY DEF NoLostWakeup
<1>1. Worker \in asleep /\ ~HasSpace /\ Len(queue) <= Cardinality(Readers \ asleep)
  BY DEF WakeupPerFrame, ExitOK
<1>2. Cardinality(Readers \ asleep) # 0
  BY <1>1, Counts, CapacityAssumption, AwakeFinite DEF HasSpace
<1> QED
  BY <1>2, FS_EmptySet

(* No thread of a prefetching decoder sleeps through what it waits for.    *)
(* The worker wakes one reader per frame (decoder_prefetch.cpp,            *)
(* not_empty.notify_one), which is enough: a parked frame always finds an  *)
(* awake reader, and the sleepers never wait for each other.               *)
THEOREM Wakeups == Spec => []NoLostWakeup
<1>1. Init => WakeupPerFrame /\ ExitOK
  BY DEF Init, WakeupPerFrame, ExitOK, Sleepers
<1>2. Inductive /\ WakeupPerFrame /\ ExitOK /\ [Next]_vars => WakeupPerFrame' /\ ExitOK'
  <2> SUFFICES ASSUME Inductive, WakeupPerFrame, ExitOK, [Next]_vars
               PROVE  WakeupPerFrame' /\ ExitOK'
    OBVIOUS
  <2>0. TypeOK /\ ThreadsOK
    BY DEF Inductive
  <2>1. CASE Quiescent \/ UNCHANGED vars
    <3>1. UNCHANGED <<queue, stop_requested, worker_finished, asleep, wpc, pc>>
      BY <2>1 DEF Quiescent, vars, shared, worker, client
    <3>2. Readers' = Readers
      BY <3>1 DEF Readers
    <3> QED
      BY <2>0, <3>1, <3>2, WakeupQuiet, AwakeFinite DEF Sleepers, ExitOK
  <2>2. CASE WorkerStep
    BY <2>0, <2>2, WakeupWorker, ExitStep DEF Next
  <2>3. ASSUME NEW c \in Clients, ClientStep(c) \/ ClientCall(c)
        PROVE  WakeupPerFrame' /\ ExitOK'
    BY <2>0, <2>3, WakeupReader, WakeupCaller, ExitStep DEF Next, ClientStep
  <2> QED
    BY <2>1, <2>2, <2>3 DEF Next
<1>3. Inductive => TypeOK
  BY DEF Inductive
<1> QED
  BY <1>1, <1>2, <1>3, AwakeNow, InductiveHolds, PTL DEF Spec

=================================================================================
