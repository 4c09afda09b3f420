--------------------------- MODULE DecoderPrefetch ---------------------------
(***************************************************************************)
(* A decoder handle with prefetch > 0: one worker thread reads frames from *)
(* the codec backend ahead of the callers and parks them in a bounded      *)
(* queue; callers read, set the copy policy and close concurrently.        *)
(*                                                                         *)
(* A step is one critical section under mkvc_decoder::mutex.  The backend  *)
(* read, the thread join and the backend close run outside it.  Waiting    *)
(* threads are in "asleep" until a notify takes them out.                  *)
(***************************************************************************)
EXTENDS Integers, Sequences, FiniteSets

CONSTANTS
    Clients,      \* threads that call the C ABI on one decoder handle
    Worker,       \* the thread start_prefetch creates
    Capacity,     \* mkvc_decoder_config.prefetch
    ReadErrors,   \* errors a backend read may return
    MaxFrames,    \* bound: frames in the input
    MaxCalls      \* bound: calls the clients make in one behaviour

ASSUME CapacityAssumption == Capacity \in Nat \ {0}
ASSUME ThreadAssumption == Worker \notin Clients /\ IsFiniteSet(Clients)
ASSUME ErrorAssumption == ReadErrors \subseteq {"IO", "CODEC"}
ASSUME BoundAssumption == MaxFrames \in Nat /\ MaxCalls \in Nat

VARIABLES
    queue,             \* numbers of the frames parked
    stop_requested, worker_finished, worker_result,
    accepted_frames,
    decoded,           \* frames the backend has produced
    delivered,         \* numbers of the frames handed to callers, in order
    wpc,               \* where the worker is
    joined,            \* the std::thread has been joined
    backend_closed,
    pc, ret,           \* client: location, last result
    joiner,            \* clients inside std::thread::join
    asleep,            \* threads blocked in a condition variable
    reads, calls       \* frame operations and calls made so far

shared == <<queue, stop_requested, worker_finished, worker_result,
            accepted_frames, delivered>>
worker == <<decoded, wpc>>
ending == <<joined, backend_closed, joiner>>
client == <<pc, ret, reads, calls>>
vars   == <<shared, worker, ending, client, asleep>>

-----------------------------------------------------------------------------
(* Definitions named X_Fault are X with the fault the suffix tells; no      *)
(* specification uses them, they show that the properties can be broken.    *)
completed_frames == Len(delivered)
Ends    == ReadErrors \cup {"END_OF_STREAM", "INTERNAL"}
Results == Ends \cup {"none", "OK", "INVALID_STATE", "NOT_SUPPORTED"}

HasSpace_OffByOne == Len(queue) <= Capacity
HasSpace == Len(queue) < Capacity

Readers  == {c \in Clients : pc[c] = "read"}    \* they wait on not_empty
Sleepers == Readers \cap asleep

NotifyOneReader_WhenEmpty ==
    IF Sleepers = {} \/ queue # <<>> THEN UNCHANGED asleep
    ELSE \E c \in Sleepers : asleep' = asleep \ {c}
NotifyOneReader ==
    IF Sleepers = {} THEN UNCHANGED asleep
    ELSE \E c \in Sleepers : asleep' = asleep \ {c}
Notify(threads) == asleep' = asleep \ threads
Sleep(thread)   == asleep' = asleep \cup {thread}

Goto(c, l) ==
    /\ pc' = [pc EXCEPT ![c] = l]
    /\ ret' = [ret EXCEPT ![c] = "none"]
Return(c, r) ==
    /\ pc' = [pc EXCEPT ![c] = "idle"]
    /\ ret' = [ret EXCEPT ![c] = r]

Call(c) == pc[c] = "idle" /\ calls < MaxCalls /\ calls' = calls + 1

-----------------------------------------------------------------------------
\* create_decoder: the worker is running before the caller has the handle.
Init ==
    /\ queue = <<>> /\ stop_requested = FALSE
    /\ worker_finished = FALSE /\ worker_result = "OK"
    /\ accepted_frames = 0 /\ decoded = 0 /\ delivered = <<>>
    /\ wpc = "wait" /\ joined = FALSE /\ backend_closed = FALSE
    /\ pc = [c \in Clients |-> "idle"] /\ ret = [c \in Clients |-> "none"]
    /\ joiner = {} /\ asleep = {} /\ reads = 0 /\ calls = 0

-----------------------------------------------------------------------------
(* The prefetch worker                                                     *)

WorkerSleeps ==
    /\ wpc = "wait" /\ Worker \notin asleep
    /\ ~stop_requested /\ ~HasSpace
    /\ Sleep(Worker)
    /\ UNCHANGED <<shared, worker, ending, client>>

WorkerStops ==
    /\ wpc = "wait" /\ Worker \notin asleep /\ stop_requested
    /\ wpc' = "exited"
    /\ UNCHANGED <<shared, decoded, ending, client, asleep>>

WorkerStarts ==
    /\ wpc = "wait" /\ Worker \notin asleep
    /\ ~stop_requested /\ HasSpace
    /\ wpc' = "decode"
    /\ UNCHANGED <<shared, decoded, ending, client, asleep>>

\* read_backend returned a frame: park it, or drop it when closing.
MayPark_IgnoresStop == wpc = "decode"
MayPark == wpc = "decode" /\ ~stop_requested

WorkerParks ==
    /\ MayPark /\ decoded < MaxFrames
    /\ decoded' = decoded + 1
    /\ queue' = Append(queue, decoded + 1)
    /\ accepted_frames' = accepted_frames + 1
    /\ NotifyOneReader
    /\ wpc' = "wait"
    /\ UNCHANGED <<stop_requested, worker_finished, worker_result, delivered,
                   ending, client>>

WorkerDrops ==
    /\ wpc = "decode" /\ stop_requested
    /\ \E n \in {decoded, decoded + 1} : n <= MaxFrames /\ decoded' = n
    /\ wpc' = "exited"
    /\ UNCHANGED <<shared, ending, client, asleep>>

\* End of stream or an error; an exception gets here even when closing.
Queue_Dropped == <<>>
Queue_Kept == queue
WorkerEnds(result) ==
    /\ wpc = "decode" /\ (~stop_requested \/ result = "INTERNAL")
    /\ worker_result' = result /\ worker_finished' = TRUE
    /\ queue' = Queue_Kept
    /\ Notify(Readers)
    /\ wpc' = "exited"
    /\ UNCHANGED <<stop_requested, accepted_frames, delivered, decoded,
                   ending, client>>

-----------------------------------------------------------------------------
(* mkvc_decoder_read: read_prefetched                                      *)

ReadCall(c) ==
    /\ Call(c) /\ reads' = reads + 1
    /\ Goto(c, "read")
    /\ UNCHANGED <<shared, worker, ending, asleep>>

ReadWaits == ~stop_requested /\ queue = <<>> /\ ~worker_finished

ReadSleeps(c) ==
    /\ c \in Readers \ asleep /\ ReadWaits
    /\ Sleep(c)
    /\ UNCHANGED <<shared, worker, ending, client>>

ReadStopped(c) ==
    /\ c \in Readers \ asleep /\ stop_requested
    /\ Return(c, "INVALID_STATE")
    /\ UNCHANGED <<shared, worker, ending, reads, calls, asleep>>

\* Only the worker waits on not_full.
PopWakes == {Worker}

TakeFrame ==
    /\ delivered' = Append(delivered, Head(queue))
    /\ queue' = Tail(queue)

ReadFrame(c) ==
    /\ c \in Readers \ asleep /\ ~stop_requested /\ queue # <<>>
    /\ TakeFrame
    /\ Notify(PopWakes)
    /\ Return(c, "OK")
    /\ UNCHANGED <<stop_requested, worker_finished, worker_result,
                   accepted_frames, worker, ending, reads, calls>>

EndReached == worker_finished /\ queue = <<>>

ReadEnds(c) ==
    /\ c \in Readers \ asleep /\ ~stop_requested /\ EndReached
    /\ Return(c, worker_result)
    /\ UNCHANGED <<shared, worker, ending, reads, calls, asleep>>

(* mkvc_decoder_set_copy_policy: a policy that prefetch cannot serve is    *)
(* refused, any other one changes nothing that a CPU read looks at.        *)
SetCopyPolicy(c, gpu_resident) ==
    /\ Call(c)
    /\ Return(c, IF accepted_frames # 0 \/ completed_frames # 0
                 THEN "INVALID_STATE"
                 ELSE IF gpu_resident THEN "NOT_SUPPORTED" ELSE "OK")
    /\ UNCHANGED <<shared, worker, ending, reads, asleep>>

-----------------------------------------------------------------------------
(* mkvc_decoder_close: stop_prefetch, then close_backend                   *)

StopWakes_NotReaders == {Worker}
StopWakes == {Worker} \cup Readers

CloseStop(c) ==
    /\ Call(c)
    /\ stop_requested' = TRUE
    /\ Notify(StopWakes)
    /\ Goto(c, "stop")
    /\ UNCHANGED <<queue, worker_finished, worker_result, accepted_frames,
                   delivered, worker, ending, reads>>

\* worker.joinable() is read without the lock.
CloseJoins(c) ==
    /\ pc[c] = "stop" /\ ~joined
    /\ joiner' = joiner \cup {c}
    /\ Goto(c, "join")
    /\ UNCHANGED <<shared, worker, joined, backend_closed, reads, calls, asleep>>

CloseSkipsJoin(c) ==
    /\ pc[c] = "stop" /\ joined
    /\ Goto(c, "clear")
    /\ UNCHANGED <<shared, worker, ending, reads, calls, asleep>>

\* Two threads that close at once may both join: undefined, see JoinRaces in
\* EncoderSession.
CloseJoinRaces(c) ==
    /\ pc[c] = "stop" /\ ~joined /\ joiner # {}
    /\ Return(c, "INTERNAL")
    /\ UNCHANGED <<shared, worker, ending, reads, calls, asleep>>

JoinReturns_Detached(c) == pc[c] = "join"
JoinReturns(c) == pc[c] = "join" /\ wpc = "exited"

CloseJoined(c) ==
    /\ JoinReturns(c)
    /\ joined' = TRUE /\ joiner' = joiner \ {c}
    /\ Goto(c, "clear")
    /\ UNCHANGED <<shared, worker, backend_closed, reads, calls, asleep>>

CloseClears(c) ==
    /\ pc[c] = "clear"
    /\ queue' = <<>>
    /\ Goto(c, "backend")
    /\ UNCHANGED <<stop_requested, worker_finished, worker_result,
                   accepted_frames, delivered, worker, ending, reads, calls,
                   asleep>>

CloseBackend(c) ==
    /\ pc[c] = "backend"
    /\ backend_closed' = TRUE
    /\ Return(c, "OK")
    /\ UNCHANGED <<shared, worker, joined, joiner, reads, calls, asleep>>

-----------------------------------------------------------------------------
WorkerStep ==
    \/ WorkerSleeps \/ WorkerStops \/ WorkerStarts \/ WorkerParks \/ WorkerDrops
    \/ \E result \in Ends : WorkerEnds(result)

ClientStep(c) ==
    \/ ReadSleeps(c) \/ ReadStopped(c) \/ ReadFrame(c) \/ ReadEnds(c)
    \/ CloseJoins(c) \/ CloseSkipsJoin(c) \/ CloseJoinRaces(c)
    \/ CloseJoined(c) \/ CloseClears(c) \/ CloseBackend(c)

ClientCall(c) ==
    \/ ReadCall(c) \/ CloseStop(c)
    \/ \E gpu_resident \in BOOLEAN : SetCopyPolicy(c, gpu_resident)

\* Every client has returned and no client calls again.
Quiescent ==
    /\ calls = MaxCalls /\ \A c \in Clients : pc[c] = "idle"
    /\ wpc = "exited" \/ Worker \in asleep
    /\ UNCHANGED vars

Next ==
    \/ WorkerStep
    \/ \E c \in Clients : ClientStep(c) \/ ClientCall(c)
    \/ Quiescent

Spec == Init /\ [][Next]_vars

\* A thread inside a call keeps running, and backend reads return.
FairSpec ==
    Spec /\ WF_vars(WorkerStep) /\ \A c \in Clients : WF_vars(ClientStep(c))

-----------------------------------------------------------------------------
(* Properties                                                              *)

(* Every variable has its type; the queue keeps within prefetch.           *)
TypeOK ==
    /\ queue \in Seq(Nat) /\ Len(queue) <= Capacity
    /\ stop_requested \in BOOLEAN /\ worker_finished \in BOOLEAN
    /\ worker_result \in Ends \cup {"OK"}
    /\ accepted_frames \in Nat /\ decoded \in Nat /\ delivered \in Seq(Nat)
    /\ wpc \in {"wait", "decode", "exited"}
    /\ joined \in BOOLEAN /\ backend_closed \in BOOLEAN
    /\ pc \in [Clients -> {"idle", "read", "stop", "join", "clear", "backend"}]
    /\ ret \in [Clients -> Results]
    /\ joiner \subseteq Clients /\ asleep \subseteq Clients \cup {Worker}
    /\ reads \in Nat /\ calls \in 0..MaxCalls

(* The callers together get the frames of the input in order, each once    *)
(* and none skipped, whatever the order in which they wait and wake.       *)
DeliveredInOrder == delivered = [i \in 1..completed_frames |-> i]

(* A frame the worker parked is handed out or still parked until somebody  *)
(* closes the decoder: the end of the stream does not overtake frames.     *)
NothingLost ==
    stop_requested \/ accepted_frames = completed_frames + Len(queue)

(* The stream reaches the callers whole and in order, through the queue.   *)
FramesKept == DeliveredInOrder /\ NothingLost

(* The backend is never closed under the worker's feet.                    *)
BackendExclusive == backend_closed => wpc # "decode"

\* The worker sleeps for lack of space only.  A parked frame wakes one reader,
\* so while some sleep there are as many awake as there are frames.
WakeupPerFrame ==
    /\ asleep \subseteq Readers \cup {Worker}
    /\ Worker \in asleep => wpc = "wait" /\ ~stop_requested /\ ~HasSpace
    /\ Sleepers # {} => /\ ~stop_requested /\ ~worker_finished
                        /\ Len(queue) <= Cardinality(Readers \ asleep)

(* No thread sleeps through what it waits for, although the worker wakes   *)
(* one reader at a time (not_empty.notify_one), and while a reader sleeps  *)
(* the worker or another reader is awake: they never wait for each other.  *)
NoLostWakeup ==
    /\ WakeupPerFrame
    /\ Sleepers # {} => \/ Worker \notin asleep /\ wpc # "exited"
                        \/ Readers \ asleep # {}

(* Every call returns: a reader blocked on an empty queue is woken by a    *)
(* frame, by the end or by a close, and close gets its worker back.        *)
CallsReturn == \A c \in Clients : pc[c] # "idle" ~> pc[c] = "idle"

\* The worker and the callers seen as an ordered pipeline: closing discards
\* what nobody has read.
Pipeline == INSTANCE OrderedPipeline WITH
    accepted  <- accepted_frames,
    delivered <- completed_frames,
    horizon   <- IF stop_requested THEN completed_frames ELSE accepted_frames,
    synced    <- 0,
    phase     <- IF stop_requested THEN "dead"
                 ELSE IF worker_finished THEN "stopping" ELSE "open"

(* Prefetching implements an ordered pipeline between backend and callers. *)
RefinesPipeline == Pipeline!Spec

-----------------------------------------------------------------------------
(* Inductive strengthening.                                                *)

\* Who joins the worker has asked it to stop, and waits for its end before it
\* touches the queue or the backend.
ThreadsOK ==
    /\ joined \/ worker_finished \/ backend_closed => wpc = "exited"
    /\ \A c \in Clients :
        /\ pc[c] \in {"stop", "join", "clear", "backend"} => stop_requested
        /\ pc[c] \in {"clear", "backend"} => wpc = "exited"

\* The queue holds the frames between the callers and the backend; a frame that
\* is being decoded has a place in it.
ParkedOK ==
    /\ wpc = "decode" => HasSpace
    /\ stop_requested \/ decoded = accepted_frames
    /\ stop_requested \/ \A i \in 1..Len(queue) : queue[i] = completed_frames + i

\* The worker is gone only after a stop or an end.
ExitOK == wpc = "exited" => stop_requested \/ worker_finished

Inductive == TypeOK /\ ThreadsOK /\ ParkedOK /\ FramesKept

=============================================================================
