--------------------------- MODULE EncoderSession ---------------------------
(***************************************************************************)
(* The asynchronous encoder session (queue_size > 0): client threads hand  *)
(* frames to a bounded queue, one worker thread gives them to the codec    *)
(* backend.  Every critical section under EncoderSession::Impl::mutex is   *)
(* one action; the unlocked stretches (own_frame, the backend calls, the   *)
(* thread join) lie between actions.                                       *)
(*                                                                         *)
(* A condition variable is modelled with its wait set: a thread that finds *)
(* its predicate false joins "asleep" and can only go on after a notify    *)
(* has taken it out, when it evaluates the predicate again.  A notify the  *)
(* code forgot is therefore a thread that never returns.                   *)
(***************************************************************************)
EXTENDS Integers, Sequences, FiniteSets

CONSTANTS
    Clients,        \* threads that call the C ABI on one encoder handle
    Worker,         \* the thread started by EncoderSession::create
    Slots,          \* the OwnedFrame objects allocated by create
    Capacity,       \* mkvc_encoder_config.queue_size
    NoSlot,         \* "no OwnedFrame"
    BackendErrors,  \* error results a backend write, flush or close may return
    CopyOutcomes,   \* what own_frame may do: "OK", an error code, or "throw"
    MaxCalls        \* bound: calls the clients make in one behaviour

ASSUME CapacityAssumption ==
    /\ Capacity \in Nat \ {0}
    /\ IsFiniteSet(Slots) /\ Cardinality(Slots) = Capacity
ASSUME ThreadAssumption == Worker \notin Clients
ASSUME SlotAssumption == NoSlot \notin Slots
ASSUME BoundAssumption == MaxCalls \in Nat
ASSUME ErrorAssumption ==
    /\ BackendErrors \subseteq {"IO", "DEVICE_LOST", "BACKEND"}
    /\ CopyOutcomes \subseteq {"OK", "INVALID_ARGUMENT", "throw"}

VARIABLES
    queue,                  \* Impl::queue
    free_frames,            \* Impl::free_frames; the order is immaterial
    accepting, close_requested, closed, failed, canceled,
    terminal_result,
    next_flush_token, completed_flush_token,
    submission,             \* accepted frame number -> its CpuSubmission
    active,                 \* the item the worker holds outside the lock
    active_submission,      \* frame number of the worker's submission, or 0
    wpc,                    \* where the worker is
    encoded,                \* frames the backend has taken, in order
    flushed,                \* Len(encoded) at the last good backend flush
    finalized,              \* the backend closed without error
    pc, ret, block,         \* client: location, last result, write or try_write
    held,                   \* client: the OwnedFrame being filled
    token, mark,            \* client: flush token; frames accepted before it
    waited,                 \* client: the submission it waits for
    asleep,                 \* threads blocked in a condition variable
    joiner,                 \* clients inside std::thread::join
    calls                   \* calls made so far

flags   == <<accepting, close_requested, closed, failed, canceled,
             terminal_result>>
tokens  == <<next_flush_token, completed_flush_token>>
session == <<queue, free_frames, flags, tokens, submission>>
backend == <<encoded, flushed, finalized>>
worker  == <<active, active_submission, wpc, backend>>
locals  == <<block, token, mark, waited>>
client  == <<pc, ret, locals, held, joiner, calls>>
vars    == <<session, worker, client, asleep>>

-----------------------------------------------------------------------------
FrameTypes == {"owned", "borrowed"}
Items == [type : FrameTypes \cup {"flush"}, no : Nat, token : Nat,
          slot : Slots \cup {NoSlot}]
NoItem == [type |-> "none", no |-> 0, token |-> 0, slot |-> NoSlot]

Failures   == BackendErrors \cup {"INTERNAL"}
Terminal   == Failures \cup {"OK", "CANCELLED"}
Results    == Terminal \cup {"none", "WOULD_BLOCK", "INVALID_STATE",
                             "INVALID_ARGUMENT"}
Statuses   == Terminal \cup {"none", "pending"}
SpaceWaits == {"reserve", "publish", "submit", "flush"}
ClientPcs  == SpaceWaits \cup
              {"idle", "copy", "flush_wait", "wait", "close", "join"}

accepted_frames  == Len(submission)
completed_frames == Len(encoded)

(* Definitions named X_Fault are X with the fault the suffix tells; no      *)
(* specification uses them, they show that the properties can be broken.    *)
IsFrame(item) == item.type \in FrameTypes
HasRoom_OffByOne == Len(queue) <= Capacity
HasRoom       == Len(queue) < Capacity
Running       == accepting /\ ~failed

\* Client threads waiting for room, for the session state, for a submission.
SpaceWaiters == {c \in Clients : pc[c] \in SpaceWaits}
StateWaiters == {c \in Clients : pc[c] = "flush_wait"}
SubmissionWaiters(numbers) ==
    {c \in Clients : pc[c] = "wait" /\ waited[c] \in numbers}

Notify(threads) == asleep' = asleep \ threads
Sleep(thread)   == asleep' = asleep \cup {thread}

StopResult == IF failed THEN terminal_result
              ELSE IF canceled THEN "CANCELLED" ELSE "INVALID_STATE"

\* A client moves on inside its call; it returns and its locals are gone.
Goto(c, l) ==
    /\ pc' = [pc EXCEPT ![c] = l]
    /\ ret' = [ret EXCEPT ![c] = "none"]
Return(c, r) ==
    /\ pc' = [pc EXCEPT ![c] = "idle"]
    /\ ret' = [ret EXCEPT ![c] = r]
    /\ block' = [block EXCEPT ![c] = TRUE]
    /\ token' = [token EXCEPT ![c] = 0]
    /\ mark' = [mark EXCEPT ![c] = 0]
    /\ waited' = [waited EXCEPT ![c] = 0]

Idle(c) == pc[c] = "idle" /\ calls < MaxCalls
Awake(c, l) == pc[c] = l /\ c \notin asleep

\* Submissions of the borrowed frames among a set of items.
BorrowedIn(items) == {i.no : i \in {x \in items : x.type = "borrowed"}}
QueuedItems == {queue[i] : i \in 1..Len(queue)}

\* CpuSubmission::complete: the first completion is the only one.
Completed(numbers, result) ==
    [n \in DOMAIN submission |->
        IF n \in numbers /\ submission[n] = "pending" THEN result
        ELSE submission[n]]

-----------------------------------------------------------------------------
Init ==
    /\ queue = <<>> /\ free_frames = Slots
    /\ accepting = TRUE /\ close_requested = FALSE /\ closed = FALSE
    /\ failed = FALSE /\ canceled = FALSE /\ terminal_result = "OK"
    /\ next_flush_token = 0 /\ completed_flush_token = 0
    /\ submission = <<>>
    /\ active = NoItem /\ active_submission = 0 /\ wpc = "loop"
    /\ encoded = <<>> /\ flushed = 0 /\ finalized = FALSE
    /\ pc = [c \in Clients |-> "idle"]
    /\ ret = [c \in Clients |-> "none"]
    /\ block = [c \in Clients |-> TRUE]
    /\ held = [c \in Clients |-> NoSlot]
    /\ token = [c \in Clients |-> 0]
    /\ mark = [c \in Clients |-> 0]
    /\ waited = [c \in Clients |-> 0]
    /\ asleep = {} /\ joiner = {} /\ calls = 0

-----------------------------------------------------------------------------
(* write and try_write: EncoderSession::write, then enqueue_owned.  The    *)
(* two admission checks read the same monotone flags that Reserve reads    *)
(* again, so they are one step.                                            *)

Write(c, blocking) ==
    /\ Idle(c) /\ calls' = calls + 1
    /\ IF Running
       THEN /\ Goto(c, "reserve")
            /\ block' = [block EXCEPT ![c] = blocking]
            /\ UNCHANGED <<token, mark, waited>>
       ELSE Return(c, StopResult)
    /\ UNCHANGED <<session, worker, held, joiner, asleep>>

ReserveWaits(c) ==
    /\ Awake(c, "reserve") /\ block[c] /\ Running
    /\ ~HasRoom \/ free_frames = {}
    /\ Sleep(c)
    /\ UNCHANGED <<session, worker, client>>

ReserveWouldBlock(c) ==
    /\ Awake(c, "reserve") /\ ~block[c]
    /\ ~HasRoom \/ free_frames = {}
    /\ Return(c, "WOULD_BLOCK")
    /\ UNCHANGED <<session, worker, held, joiner, calls, asleep>>

ReserveStopped(c) ==
    /\ Awake(c, "reserve") /\ ~Running
    /\ block[c] \/ (HasRoom /\ free_frames # {})
    /\ Return(c, StopResult)
    /\ UNCHANGED <<session, worker, held, joiner, calls, asleep>>

ReserveTakes(c) ==
    /\ Awake(c, "reserve") /\ Running /\ HasRoom
    /\ \E s \in free_frames :
        /\ free_frames' = free_frames \ {s}
        /\ held' = [held EXCEPT ![c] = s]
    /\ Goto(c, "copy")
    /\ UNCHANGED <<queue, flags, tokens, submission, worker, locals, joiner,
                   calls, asleep>>

\* own_frame runs outside the lock and may succeed, be refused or throw.
CopyDone(c) ==
    /\ pc[c] = "copy" /\ "OK" \in CopyOutcomes
    /\ Goto(c, "publish")
    /\ UNCHANGED <<session, worker, locals, held, joiner, calls, asleep>>

\* The client gives its OwnedFrame back to the session.
GiveBack(c) ==
    /\ free_frames' = free_frames \cup {held[c]}
    /\ held' = [held EXCEPT ![c] = NoSlot]
    /\ UNCHANGED <<queue, flags, tokens, submission>>

CopyRefused(c) ==
    /\ pc[c] = "copy" /\ "INVALID_ARGUMENT" \in CopyOutcomes
    /\ GiveBack(c)
    /\ Notify(SpaceWaiters)
    /\ Return(c, "INVALID_ARGUMENT")
    /\ UNCHANGED <<worker, joiner, calls>>

\* The allocation in own_frame fails: the unique_ptr dies with the stack
\* frame and the C ABI guard reports MKVC_ERROR_INTERNAL.
CopyThrows(c) ==
    /\ pc[c] = "copy" /\ "throw" \in CopyOutcomes
    /\ held' = [held EXCEPT ![c] = NoSlot]
    /\ Return(c, "INTERNAL")
    /\ UNCHANGED <<session, worker, joiner, calls, asleep>>

PublishWaits(c) ==
    /\ Awake(c, "publish") /\ block[c] /\ Running /\ ~HasRoom
    /\ Sleep(c)
    /\ UNCHANGED <<session, worker, client>>

\* The two early returns give the frame back without a notify.
PublishStopped(c) ==
    /\ Awake(c, "publish") /\ ~Running
    /\ GiveBack(c)
    /\ Return(c, StopResult)
    /\ UNCHANGED <<worker, joiner, calls, asleep>>

PublishWouldBlock(c) ==
    /\ Awake(c, "publish") /\ ~block[c] /\ Running /\ ~HasRoom
    /\ GiveBack(c)
    /\ Notify(SpaceWaiters)
    /\ Return(c, "WOULD_BLOCK")
    /\ UNCHANGED <<worker, joiner, calls>>

\* Push an item, wake the worker (the only thread that waits on has_items).
Push(item) ==
    /\ queue' = Append(queue, item)
    /\ Notify({Worker})

Publish(c) ==
    /\ Awake(c, "publish") /\ Running /\ HasRoom
    /\ Push([type |-> "owned", no |-> accepted_frames + 1, token |-> 0,
             slot |-> held[c]])
    /\ submission' = Append(submission, "none")
    /\ held' = [held EXCEPT ![c] = NoSlot]
    /\ Return(c, "OK")
    /\ UNCHANGED <<free_frames, flags, tokens, worker, joiner, calls>>

-----------------------------------------------------------------------------
(* submit_borrowed: enqueue_borrowed, the pixels stay with the caller.     *)

\* A call that first waits for room: submit_borrowed or flush.
Call(c, l) ==
    /\ Idle(c) /\ calls' = calls + 1
    /\ Goto(c, l)
    /\ UNCHANGED <<session, worker, locals, held, joiner, asleep>>

RoomWaits(c, l) ==
    /\ Awake(c, l) /\ Running /\ ~HasRoom
    /\ Sleep(c)
    /\ UNCHANGED <<session, worker, client>>

RoomStopped(c, l) ==
    /\ Awake(c, l) /\ ~Running
    /\ Return(c, StopResult)
    /\ UNCHANGED <<session, worker, held, joiner, calls, asleep>>

SubmitBorrowed(c) ==
    /\ Awake(c, "submit") /\ Running /\ HasRoom
    /\ Push([type |-> "borrowed", no |-> accepted_frames + 1, token |-> 0,
             slot |-> NoSlot])
    /\ submission' = Append(submission, "pending")
    /\ Return(c, "OK")
    /\ UNCHANGED <<free_frames, flags, tokens, worker, held, joiner, calls>>

(* mkvc_submission_wait without a deadline, and mkvc_submission_release,   *)
(* on any submission a client was given.                                   *)
WaitCall(c) ==
    /\ Idle(c) /\ calls' = calls + 1
    /\ \E n \in DOMAIN submission :
        /\ submission[n] # "none"
        /\ waited' = [waited EXCEPT ![c] = n]
    /\ Goto(c, "wait")
    /\ UNCHANGED <<session, worker, block, held, token, mark, joiner, asleep>>

WaitSleeps(c) ==
    /\ Awake(c, "wait") /\ submission[waited[c]] = "pending"
    /\ Sleep(c)
    /\ UNCHANGED <<session, worker, client>>

WaitReturns(c) ==
    /\ Awake(c, "wait") /\ submission[waited[c]] # "pending"
    /\ Return(c, submission[waited[c]])
    /\ UNCHANGED <<session, worker, held, joiner, calls, asleep>>

-----------------------------------------------------------------------------
(* flush_and_wait.  The wait for the token starts in the critical section  *)
(* that pushes the barrier; mark records what the barrier stands behind.   *)

FlushPush(c) ==
    /\ Awake(c, "flush") /\ Running /\ HasRoom
    /\ next_flush_token' = next_flush_token + 1
    /\ Push([type |-> "flush", no |-> accepted_frames,
             token |-> next_flush_token + 1, slot |-> NoSlot])
    /\ token' = [token EXCEPT ![c] = next_flush_token + 1]
    /\ mark' = [mark EXCEPT ![c] = accepted_frames]
    /\ Goto(c, "flush_wait")
    /\ UNCHANGED <<free_frames, flags, completed_flush_token, submission,
                   worker, block, held, waited, joiner, calls>>

FlushSettled_OneEarly(c) ==
    completed_flush_token + 1 >= token[c] \/ failed \/ canceled
FlushSettled(c) == completed_flush_token >= token[c] \/ failed \/ canceled

FlushSleeps(c) ==
    /\ Awake(c, "flush_wait") /\ ~FlushSettled(c)
    /\ Sleep(c)
    /\ UNCHANGED <<session, worker, client>>

FlushReturns(c) ==
    /\ Awake(c, "flush_wait") /\ FlushSettled(c)
    /\ Return(c, IF failed THEN terminal_result
                 ELSE IF canceled THEN "CANCELLED" ELSE "OK")
    /\ UNCHANGED <<session, worker, held, joiner, calls, asleep>>

-----------------------------------------------------------------------------
(* cancel: one critical section.                                           *)

CancelRefused(c) ==
    /\ Idle(c) /\ calls' = calls + 1
    /\ closed \/ canceled \/ failed
    /\ Return(c, IF closed \/ canceled THEN "OK" ELSE terminal_result)
    /\ UNCHANGED <<session, worker, held, joiner, asleep>>

\* The queued frames go back to the pool, the queued submissions end.
QueuedSlots_AndActive == {i.slot : i \in QueuedItems \cup {active}} \ {NoSlot}
QueuedSlots == {i.slot : i \in QueuedItems} \ {NoSlot}
QueuedSubmissions_AndActive == BorrowedIn(QueuedItems \cup {active})
QueuedSubmissions == BorrowedIn(QueuedItems)

Cancel(c) ==
    /\ Idle(c) /\ calls' = calls + 1
    /\ ~(closed \/ canceled \/ failed)
    /\ canceled' = TRUE /\ accepting' = FALSE /\ close_requested' = TRUE
    /\ submission' = Completed(QueuedSubmissions, "CANCELLED")
    /\ free_frames' = free_frames \cup QueuedSlots
    /\ queue' = <<>>
    /\ Notify({Worker} \cup SpaceWaiters \cup StateWaiters
              \cup SubmissionWaiters(QueuedSubmissions))
    /\ Return(c, "OK")
    /\ UNCHANGED <<closed, failed, terminal_result, tokens, worker, held,
                   joiner>>

(* close_and_join: request, join outside the lock, report.                 *)

\* Threads the close request wakes: has_items and has_space.
CloseWakes_NotWorker == SpaceWaiters
CloseWakes == {Worker} \cup SpaceWaiters

CloseRequest(c) ==
    /\ Idle(c) /\ calls' = calls + 1
    /\ Goto(c, "close")
    /\ IF close_requested
       THEN UNCHANGED <<session, asleep>>
       ELSE /\ accepting' = FALSE /\ close_requested' = TRUE
            /\ Notify(CloseWakes)
            /\ UNCHANGED <<queue, free_frames, closed, failed, canceled,
                           terminal_result, tokens, submission>>
    /\ UNCHANGED <<worker, locals, held, joiner>>

Join(c) ==
    /\ pc[c] = "close"
    /\ joiner' = joiner \cup {c}
    /\ Goto(c, "join")
    /\ UNCHANGED <<session, worker, locals, held, calls, asleep>>

\* Nothing stops a second thread from joining the same std::thread, which is
\* undefined: pthread_join answers EINVAL (Join covers a build that waits) and
\* the C ABI guard turns the system_error into MKVC_ERROR_INTERNAL.
JoinRaces(c) ==
    /\ pc[c] = "close" /\ joiner # {}
    /\ Return(c, "INTERNAL")
    /\ UNCHANGED <<session, worker, held, joiner, calls, asleep>>

CloseReturns(c) ==
    /\ pc[c] = "join" /\ wpc = "exited"
    /\ joiner' = joiner \ {c}
    /\ Return(c, IF failed THEN terminal_result ELSE "OK")
    /\ UNCHANGED <<session, worker, held, calls, asleep>>

-----------------------------------------------------------------------------
(* run_encoder_worker                                                      *)

WorkerSleeps ==
    /\ wpc = "loop" /\ Worker \notin asleep
    /\ queue = <<>> /\ ~close_requested
    /\ Sleep(Worker)
    /\ UNCHANGED <<session, worker, client>>

TakeItem == active' = Head(queue) /\ queue' = Tail(queue)

WorkerPops ==
    /\ wpc = "loop" /\ Worker \notin asleep /\ queue # <<>>
    /\ TakeItem
    /\ active_submission' = IF active'.type = "borrowed" THEN active'.no ELSE 0
    /\ wpc' = "backend"
    /\ Notify(SpaceWaiters)
    /\ UNCHANGED <<free_frames, flags, tokens, submission, backend, client>>

WorkerStops_KeepsQueue ==
    /\ wpc = "loop" /\ Worker \notin asleep
    /\ close_requested
    /\ wpc' = "closing"
    /\ UNCHANGED <<session, active, active_submission, backend, client, asleep>>

WorkerStops ==
    /\ wpc = "loop" /\ Worker \notin asleep
    /\ queue = <<>> /\ close_requested
    /\ wpc' = "closing"
    /\ UNCHANGED <<session, active, active_submission, backend, client, asleep>>

\* The OwnedFrame of the active item returns to the pool with its result.
RecycleActive == free_frames' = free_frames \cup ({active.slot} \ {NoSlot})
RecycleWaiters_Silent == {}
RecycleWaiters == IF active.slot = NoSlot THEN {} ELSE SpaceWaiters

FrameEncoded ==
    /\ wpc = "backend" /\ IsFrame(active)
    /\ encoded' = Append(encoded, active.no)
    /\ RecycleActive
    /\ submission' = Completed(BorrowedIn({active}), "OK")
    /\ Notify(RecycleWaiters \cup SubmissionWaiters(BorrowedIn({active})))
    /\ active' = NoItem /\ active_submission' = 0 /\ wpc' = "loop"
    /\ UNCHANGED <<queue, flags, tokens, flushed, finalized, client>>

FlushDone ==
    /\ wpc = "backend" /\ active.type = "flush"
    /\ flushed' = completed_frames
    /\ completed_flush_token' = active.token
    /\ Notify(StateWaiters)
    /\ active' = NoItem /\ active_submission' = 0 /\ wpc' = "loop"
    /\ UNCHANGED <<queue, free_frames, flags, next_flush_token, submission,
                   encoded, finalized, client>>

\* Submissions that a failed write or flush completes.
Doomed_NotActive == QueuedSubmissions
Doomed == BorrowedIn({active} \cup QueuedItems)
RecordFailure(error) ==
    failed' = TRUE /\ accepting' = FALSE /\ terminal_result' = error

\* The loop is left before active_submission is reset.
BackendFails(error) ==
    /\ wpc = "backend"
    /\ RecycleActive
    /\ submission' = Completed(Doomed, error)
    /\ RecordFailure(error)
    /\ queue' = <<>>
    /\ Notify(StateWaiters \cup SpaceWaiters \cup SubmissionWaiters(Doomed))
    /\ active' = NoItem /\ wpc' = "closing"
    /\ UNCHANGED <<close_requested, closed, canceled, tokens,
                   active_submission, backend, client>>

BackendCloses(result) ==
    /\ wpc = "closing"
    /\ finalized' = (result = "OK")
    /\ failed' = (failed \/ result # "OK")
    /\ terminal_result' = IF failed THEN terminal_result ELSE result
    /\ closed' = TRUE /\ accepting' = FALSE
    /\ Notify(StateWaiters \cup SpaceWaiters)
    /\ wpc' = "exited"
    /\ UNCHANGED <<queue, free_frames, close_requested, canceled, tokens,
                   submission, active, active_submission, encoded, flushed,
                   client>>

\* The catch handlers: the queue keeps its items, the active OwnedFrame is
\* destroyed with the loop body and the backend is not closed.  A submission
\* that BackendFails has answered may be completed once more.
Abandoned == QueuedSubmissions \cup ({active_submission} \ {0})

BackendThrows ==
    /\ wpc \in {"backend", "closing"}
    /\ submission' = Completed(Abandoned, "INTERNAL")
    /\ failed' = TRUE /\ closed' = TRUE /\ accepting' = FALSE
    /\ terminal_result' = "INTERNAL"
    /\ Notify(StateWaiters \cup SpaceWaiters \cup SubmissionWaiters(Abandoned))
    /\ active' = NoItem /\ wpc' = "exited"
    /\ UNCHANGED <<queue, free_frames, close_requested, canceled, tokens,
                   active_submission, backend, client>>

WorkerStep ==
    \/ WorkerSleeps \/ WorkerPops \/ WorkerStops
    \/ FrameEncoded \/ FlushDone \/ BackendThrows
    \/ \E e \in BackendErrors : BackendFails(e)
    \/ \E r \in BackendErrors \cup {"OK"} : BackendCloses(r)

\* Steps of a thread inside a call that only read the session ...
LocalStep(c) ==
    \/ ReserveWaits(c) \/ ReserveWouldBlock(c) \/ ReserveStopped(c)
    \/ CopyDone(c) \/ CopyThrows(c) \/ PublishWaits(c)
    \/ \E l \in {"submit", "flush"} : RoomWaits(c, l) \/ RoomStopped(c, l)
    \/ FlushSleeps(c) \/ FlushReturns(c)
    \/ WaitSleeps(c) \/ WaitReturns(c)
    \/ Join(c) \/ JoinRaces(c) \/ CloseReturns(c)

\* ... and those that change it.
SessionStep(c) ==
    \/ ReserveTakes(c) \/ CopyRefused(c)
    \/ PublishStopped(c) \/ PublishWouldBlock(c) \/ Publish(c)
    \/ SubmitBorrowed(c) \/ FlushPush(c)

ClientStep(c) == LocalStep(c) \/ SessionStep(c)

LocalCall(c) ==
    \/ \E blocking \in BOOLEAN : Write(c, blocking)
    \/ \E l \in {"submit", "flush"} : Call(c, l)
    \/ WaitCall(c) \/ CancelRefused(c)

ClientCall(c) == LocalCall(c) \/ Cancel(c) \/ CloseRequest(c)

\* Every client has returned and no client calls again.
Quiescent ==
    /\ calls = MaxCalls /\ \A c \in Clients : pc[c] = "idle"
    /\ wpc = "exited" \/ Worker \in asleep
    /\ UNCHANGED vars

Next ==
    \/ WorkerStep
    \/ \E c \in Clients : ClientStep(c) \/ ClientCall(c)
    \/ Quiescent

Spec == Init /\ [][Next]_vars

\* A thread inside a call keeps running, and the backend calls return.
Fairness == WF_vars(WorkerStep) /\ \A c \in Clients : WF_vars(ClientStep(c))
FairSpec == Spec /\ Fairness

-----------------------------------------------------------------------------
(* Properties                                                              *)

FlagType ==
    /\ accepting \in BOOLEAN /\ close_requested \in BOOLEAN
    /\ closed \in BOOLEAN /\ failed \in BOOLEAN /\ canceled \in BOOLEAN
    /\ finalized \in BOOLEAN /\ block \in [Clients -> BOOLEAN]

SessionType ==
    /\ queue \in Seq(Items) /\ Len(queue) <= Capacity
    /\ free_frames \subseteq Slots
    /\ terminal_result \in Failures \cup {"OK"}
    /\ next_flush_token \in Nat /\ completed_flush_token \in Nat
    /\ submission \in Seq(Statuses)

WorkerType ==
    /\ active \in Items \cup {NoItem} /\ active_submission \in Nat
    /\ wpc \in {"loop", "backend", "closing", "exited"}
    /\ encoded \in Seq(Nat) /\ flushed \in Nat

ClientType ==
    /\ pc \in [Clients -> ClientPcs] /\ ret \in [Clients -> Results]
    /\ held \in [Clients -> Slots \cup {NoSlot}]
    /\ token \in [Clients -> Nat] /\ mark \in [Clients -> Nat]
    /\ waited \in [Clients -> Nat]
    /\ asleep \subseteq Clients \cup {Worker} /\ joiner \subseteq Clients
    /\ calls \in 0..MaxCalls

(* Every variable has its type; the queue keeps within queue_size          *)
(* (encoder_queue_submission.cpp: every push is behind a size test).       *)
TypeOK == FlagType /\ SessionType /\ WorkerType /\ ClientType

\* Where an OwnedFrame can be besides the free list.
InQueue(s) == \E i \in 1..Len(queue) : queue[i].slot = s
HeldBy(s)  == {c \in Clients : held[c] = s}

Exclusive(s) ==
    /\ \A c, d \in HeldBy(s) : c = d
    /\ \A i, j \in 1..Len(queue) :
        queue[i].slot = s /\ queue[j].slot = s => i = j
    /\ s \in free_frames => HeldBy(s) = {} /\ ~InQueue(s) /\ active.slot # s
    /\ InQueue(s) => HeldBy(s) = {} /\ active.slot # s
    /\ active.slot = s => HeldBy(s) = {}

(* An OwnedFrame is in one place at a time: free, being filled by one      *)
(* writer, in one queued item, or with the worker.  Two writers never fill *)
(* the same buffer and no writer fills one the worker reads.               *)
FrameExclusive == \A s \in Slots : Exclusive(s)

(* No OwnedFrame gets lost while the session runs, or the pool of buffers  *)
(* shrinks until every blocking write waits forever.                       *)
FrameConserved ==
    failed \/ \A s \in Slots :
        s \in free_frames \/ HeldBy(s) # {} \/ InQueue(s) \/ active.slot = s

(* The backend takes the frames in the order they were accepted, each once *)
(* and none skipped, whatever flush barriers stand between them.           *)
EncodedInOrder == encoded = [i \in 1..completed_frames |-> i]

\* Frames whose item has not been answered: queued or with the worker.
Outstanding(types) ==
    {i.no : i \in {x \in QueuedItems \cup {active} : x.type \in types}}

(* Until the session fails or is cancelled an accepted frame is encoded,   *)
(* queued or with the worker: a write that returned OK is not forgotten.   *)
NothingForgotten ==
    failed \/ canceled \/
    1..accepted_frames = 1..completed_frames \cup Outstanding(FrameTypes)

(* A borrowed submission is pending exactly while the worker may still     *)
(* read the caller's pixels (mkvc.h: the caller must not modify or free    *)
(* input pixels until completion).                                         *)
PendingWhileRead ==
    \A n \in 1..accepted_frames :
        LET live == n \in Outstanding({"borrowed"}) IN
        /\ submission[n] = "pending" => live
        /\ live /\ wpc # "exited" => submission[n] = "pending"

(* The result of a submission tells what became of its frame: OK means the *)
(* backend took it, anything else that it never will.                      *)
SubmissionTruthful ==
    \A n \in 1..accepted_frames :
        /\ submission[n] = "OK" => n <= completed_frames
        /\ submission[n] \in Failures \cup {"CANCELLED"} => n > completed_frames
        /\ submission[n] = "CANCELLED" => canceled
        /\ submission[n] \in Failures => failed

\* By its place in the session and by the status its caller can ask for.
Traceable == NothingForgotten /\ PendingWhileRead /\ SubmissionTruthful

(* Every accepted frame is accounted for: encoded in its turn, still to be *)
(* encoded, or given up with a status that says so.                        *)
WorkAccounted == EncodedInOrder /\ Traceable

(* No frame is accepted once the session has failed, was cancelled or is   *)
(* closing, not even one whose copy was under way (system-design.md,       *)
(* section 6: no new submit after FAILED).                                 *)
NoLateAcceptance ==
    [][failed \/ canceled \/ close_requested
        => accepted_frames' = accepted_frames]_vars

(* A flush that returns OK has drained every frame accepted before it, and *)
(* the backend was flushed after it took the last of them.                 *)
FlushIsBarrier ==
    [][\A c \in Clients :
        pc[c] = "flush_wait" /\ pc'[c] = "idle" /\ ret'[c] = "OK"
        => mark[c] <= flushed]_vars

(* A close that returns OK leaves a finalised container that holds every   *)
(* accepted frame, unless the frames were cancelled.                       *)
CloseIsDurable ==
    [][\A c \in Clients :
        pc[c] = "join" /\ pc'[c] = "idle" /\ ret'[c] = "OK"
        => /\ finalized
           /\ canceled \/ completed_frames = accepted_frames]_vars

\* What a thread in a condition variable waits for has not come.
Blocked(c) ==
    \/ pc[c] = "reserve" /\ Running /\ (~HasRoom \/ free_frames = {})
    \/ pc[c] \in SpaceWaits \ {"reserve"} /\ Running /\ ~HasRoom
    \/ pc[c] = "flush_wait" /\ ~FlushSettled(c)
    \/ pc[c] = "wait" /\ submission[waited[c]] = "pending"

\* Whoever makes a predicate true notifies its waiters, and whoever gives a
\* frame back without a notify (enqueue_owned after a stop) has nobody to notify.
NoLostWakeup ==
    /\ Worker \in asleep => wpc = "loop" /\ queue = <<>> /\ ~close_requested
    /\ \A c \in asleep \ {Worker} : Blocked(c)

\* While a client sleeps there is somebody awake whose next steps end that wait:
\* the worker, or a writer that fills a frame.
SomebodyAwake ==
    asleep \ {Worker} # {} =>
        \/ Worker \notin asleep /\ wpc # "exited"
        \/ \E c \in Clients \ asleep : pc[c] \in {"copy", "publish"}

(* What a sleeping thread waits for is not lost: no buffer leaves the      *)
(* pool, no thread sleeps through the change it waits for, the sleepers    *)
(* never wait for each other (system-design.md, INT-PIPE-005).             *)
NobodyStuck == FrameConserved /\ NoLostWakeup /\ SomebodyAwake

(* What flush and close report is true, with several threads flushing,     *)
(* closing, cancelling and writing at once.                                *)
ResultsTruthful == FlushIsBarrier /\ CloseIsDurable

\* The session seen as an ordered pipeline: what the worker will still give to
\* the backend, and how far the session is on its way from open to closed.
Backlog == Cardinality(Outstanding(FrameTypes))
Horizon ==
    IF wpc = "exited" THEN completed_frames ELSE completed_frames + Backlog
Phase ==
    IF closed THEN IF failed THEN "dead" ELSE "done"
    ELSE IF accepting THEN "open" ELSE "stopping"

Pipeline == INSTANCE OrderedPipeline WITH
    accepted <- accepted_frames, delivered <- completed_frames,
    horizon <- Horizon, synced <- flushed, phase <- Phase

(* The session implements the ordered pipeline: acceptance order, no loss  *)
(* but by cancel or failure, nothing delivered after the end.              *)
RefinesPipeline == Pipeline!Spec

(* And it keeps the pipeline moving: what is within the horizon reaches    *)
(* the backend, and a session asked to stop gets to its end.               *)
PipelineProgress == Pipeline!FairSpec

(* Every call returns: no writer, flusher, waiter or closer stays blocked  *)
(* (system-design.md, INT-PIPE-005: close and cancel wake every thread).   *)
CallsReturn == \A c \in Clients : pc[c] # "idle" ~> pc[c] = "idle"

\* The n-th accepted frame is a borrowed one nobody has answered.
Unanswered(n) == n \in DOMAIN submission /\ submission[n] = "pending"

(* Every submission becomes terminal, so that a caller who releases one    *)
(* (mkvc.h: "a pending submission is waited before release") gets on.      *)
SubmissionsComplete == \A n \in 1..MaxCalls : Unanswered(n) ~> ~Unanswered(n)

(* Nobody waits forever, for a call or for a submission.                   *)
EverythingAnswered == CallsReturn /\ SubmissionsComplete

-----------------------------------------------------------------------------
(* Inductive strengthening: what the critical sections rely on.            *)

\* Program locations and the locals they go with.
HeldOK   == \A c \in Clients : held[c] \in Slots <=> pc[c] \in {"copy", "publish"}
WaitedOK == \A c \in Clients : pc[c] = "wait" => waited[c] \in DOMAIN submission
ActiveOK == active # NoItem <=> wpc = "backend"
ItemsOK  == \A item \in QueuedItems \cup {active} :
                item.slot \in Slots <=> item.type = "owned"
LocalsOK == HeldOK /\ WaitedOK /\ ActiveOK /\ ItemsOK

\* Whatever stops the session closes the door.
StoppedOK == failed \/ canceled \/ close_requested \/ closed => ~accepting

\* Frame numbers advance by one along the queue; a barrier carries the number
\* of the frame it stands behind.
Advance(item) == IF IsFrame(item) THEN 1 ELSE 0
Reached == completed_frames + Advance(active)

LinksOK ==
    \A i \in 1..Len(queue) - 1 :
        queue[i + 1].no = queue[i].no + Advance(queue[i + 1])

ChainOK ==
    /\ active # NoItem => active.no = Reached
    /\ LinksOK
    /\ queue # <<>> /\ wpc # "exited" =>
        queue[1].no = Reached + Advance(queue[1])
    /\ queue # <<>> => queue[Len(queue)].no = accepted_frames
    /\ queue = <<>> /\ ~failed /\ ~canceled => accepted_frames = Reached

\* Numbers rise with every frame along the queue, between what the backend has
\* and what was accepted.
SortedOK ==
    \A i, j \in 1..Len(queue) :
        i < j => queue[i].no + Advance(queue[j]) <= queue[j].no
AheadOK ==
    /\ Reached <= accepted_frames
    /\ \A item \in QueuedItems :
        Reached + Advance(item) <= item.no /\ item.no <= accepted_frames

\* How the caller of an item will hear of it.
AnswerOK ==
    /\ active.type = "borrowed" => active_submission = active.no
    /\ \A item \in QueuedItems \cup {active} :
        item.type = "owned" => submission[item.no] = "none"

\* A barrier whose token answers a waiting client stands behind the frames the
\* client waits for.
Barriers == {item \in QueuedItems \cup {active} : item.type = "flush"}
BarrierOK ==
    /\ completed_flush_token <= next_flush_token
    /\ \A item \in Barriers : item.token <= next_flush_token
    /\ \A c \in Clients : pc[c] = "flush_wait" =>
        /\ token[c] <= next_flush_token /\ mark[c] <= accepted_frames
        /\ token[c] <= completed_flush_token => mark[c] <= flushed
        /\ \A item \in Barriers : token[c] <= item.token => mark[c] <= item.no

\* Tokens rise along the queue, beyond the last one that was answered, and a
\* waiting client's barrier is still there.
TokensRise ==
    /\ \A i, j \in 1..Len(queue) :
        i < j /\ queue[i].type = "flush" /\ queue[j].type = "flush"
        => queue[i].token < queue[j].token
    /\ \A item \in QueuedItems :
        active.type = "flush" /\ item.type = "flush" => active.token < item.token
    /\ \A item \in Barriers : completed_flush_token < item.token
TokenThere(c) == token[c] \in {item.token : item \in Barriers}
TokensOK ==
    /\ TokensRise
    /\ failed \/ canceled \/ \A c \in StateWaiters :
        token[c] <= completed_flush_token \/ TokenThere(c)

\* Who ends the session answers every submission.
NonePending == \A n \in DOMAIN submission : submission[n] # "pending"
AnsweredOK  == wpc = "exited" => NonePending

\* What the worker leaves behind at each stage of its end.
StageOK ==
    /\ closed <=> wpc = "exited"
    /\ wpc = "closing" => queue = <<>> /\ (close_requested \/ failed)
    /\ wpc = "exited" /\ ~failed => queue = <<>> /\ finalized
    /\ failed => terminal_result # "OK"

Inductive ==
    /\ TypeOK /\ LocalsOK /\ StoppedOK /\ FrameExclusive
    /\ EncodedInOrder /\ ChainOK

=============================================================================
