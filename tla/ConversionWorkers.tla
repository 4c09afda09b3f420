-------------------------- MODULE ConversionWorkers --------------------------
(***************************************************************************)
(* mkvc_frame_copy_to into a packed RGB image: convert_i420_packed cuts a  *)
(* large frame into stripes, hands all but the first to the worker threads *)
(* of the process and converts the first itself.  The pool is built by the *)
(* first copy that wants it and taken down when the process exits; a new   *)
(* process starts without one.  A stripe may throw (its scratch memory).   *)
(***************************************************************************)
EXTENDS Integers, Sequences, FiniteSetsExt

CONSTANTS
    Callers,      \* threads that copy frames
    Workers,      \* min(kMaximumAuxiliaryWorkers, hardware threads - 1)
    Threshold,    \* rows from which a frame is converted in parallel
    Heights,      \* bound: heights of the frames
    MaxRequest,   \* bound: conversion_threads, 4 in the code
    MaxQueue      \* bound: tasks left in the queue when a copy begins

ASSUME WorkersAssumption ==
    /\ "none" \notin Callers
    /\ Workers \in Nat /\ Threshold \in Nat /\ Heights \subseteq Nat \ {0}
    /\ MaxRequest \in Nat /\ MaxQueue \in Nat

VARIABLES
    pool,         \* "none", "running"; "stopping" when it could not be built,
                  \* "exiting" when the process ends
    queue,        \* tasks_
    worker,       \* worker thread -> [at, task]
    copy          \* caller -> its call

workers == <<pool, queue, worker>>
convert == <<workers, copy>>

NoLine == [luma |-> -1, chroma |-> -1]
NoTask == [caller |-> "none", row |-> 0, rows |-> 0, abandoned |-> FALSE]
NoCopy == [at |-> "idle", height |-> 0, requested |-> 0, rows |-> 0, next |-> 0,
           futures |-> <<>>, result |-> "none", lines |-> <<>>]

ConvertInit ==
    /\ pool = "none" /\ queue = <<>>
    /\ worker = [w \in 1..Workers |-> [at |-> "gone", task |-> NoTask]]
    /\ copy = [c \in Callers |-> NoCopy]

-----------------------------------------------------------------------------
(* Stripes.                                                                *)

Parallelism(requested) ==
    IF requested = 0 THEN Workers + 1 ELSE Min({requested, Workers + 1})
RowsPerWorker(height, count) ==
    LET even == (height + count - 1) \div count + 1 IN even - (even % 2)

\* Rows of the frame each row of the destination is made of: libyuv counts
\* from the first row of the stripe, in luma and in chroma.
StripeLines(row, rows) ==
    [r \in row..(row + rows - 1) |->
        [luma |-> r, chroma |-> (row \div 2) + ((r - row) \div 2)]]
Write(lines, row, rows) ==
    [r \in DOMAIN lines |->
        IF r \in row..(row + rows - 1) THEN StripeLines(row, rows)[r] ELSE lines[r]]
AllLines(height, rows) ==
    [r \in 0..(height - 1) |-> StripeLines((r \div rows) * rows, rows)[r]]

-----------------------------------------------------------------------------
(* The call.                                                               *)

At(c, location) == copy[c].at = location

\* The stack unwinds: the futures go, the tasks stay.
Abandoned(task, c) == [task EXCEPT !.abandoned = @ \/ task.caller = c]
Throw(c) ==
    /\ copy' = [copy EXCEPT ![c] = [@ EXCEPT !.at = "returned", !.result = "INTERNAL"]]
    /\ queue' = [k \in DOMAIN queue |-> Abandoned(queue[k], c)]
    /\ worker' = [w \in 1..Workers |-> [worker[w] EXCEPT !.task = Abandoned(@, c)]]
    /\ UNCHANGED pool

CopyTo(c) ==
    /\ At(c, "idle") /\ pool # "exiting" /\ Len(queue) <= MaxQueue
    /\ \E height \in Heights, requested \in 0..MaxRequest :
        LET parallel == height >= Threshold /\ requested # 1
        IN  copy' = [copy EXCEPT ![c] = [@ EXCEPT
                !.at = IF parallel THEN "pool" ELSE "own",
                !.height = height, !.requested = requested,
                !.rows = IF parallel THEN 0 ELSE height,
                !.lines = [r \in 0..(height - 1) |-> NoLine]]]
    /\ UNCHANGED workers

\* conversion_workers(): whoever comes first constructs the static pool, the
\* others wait; a thread that cannot be created makes it shut down again.
Construct(c) ==
    /\ At(c, "pool") /\ pool = "none"
    /\ \E created \in 0..Workers :
        /\ worker' = [w \in 1..Workers |->
              [at |-> IF w <= created THEN "awake" ELSE "gone", task |-> NoTask]]
        /\ IF created = Workers THEN pool' = "running" /\ UNCHANGED copy
           ELSE pool' = "stopping" /\ copy' = [copy EXCEPT ![c].at = "joining"]
    /\ UNCHANGED queue
ConstructFailed(c) ==
    /\ At(c, "joining") /\ \A w \in 1..Workers : worker[w].at = "gone"
    /\ pool' = "none"
    /\ copy' = [copy EXCEPT ![c] = [@ EXCEPT !.at = "returned", !.result = "INTERNAL"]]
    /\ UNCHANGED <<queue, worker>>

Divide(c) ==
    /\ At(c, "pool") /\ pool = "running"
    /\ LET count == Parallelism(copy[c].requested)
           rows == RowsPerWorker(copy[c].height, count)
       IN  copy' = [copy EXCEPT ![c] =
                IF count = 1 THEN [@ EXCEPT !.at = "own", !.rows = copy[c].height]
                ELSE [@ EXCEPT !.at = "push", !.rows = rows, !.next = rows]]
    /\ UNCHANGED workers

\* submit: the task is queued under the mutex, a worker is notified after.
Queued(c, rows) ==
    queue' = Append(queue, [caller |-> c, row |-> copy[c].next, rows |-> rows,
                            abandoned |-> FALSE])
Clipped(c) == Min({copy[c].rows, copy[c].height - copy[c].next})
Submit_Silent(c) ==
    /\ At(c, "push") /\ copy[c].next < copy[c].height
    /\ Queued(c, Clipped(c))
    /\ copy' = [copy EXCEPT ![c] = [@ EXCEPT !.next = copy[c].next + copy[c].rows,
                                    !.futures = Append(copy[c].futures, "pending")]]
    /\ UNCHANGED <<pool, worker>>
Submit(c) ==
    /\ At(c, "push") /\ copy[c].next < copy[c].height
    /\ Queued(c, Clipped(c))
    /\ copy' = [copy EXCEPT ![c] = [@ EXCEPT !.at = "notify", !.next = copy[c].next + copy[c].rows,
                                    !.futures = Append(copy[c].futures, "pending")]]
    /\ UNCHANGED <<pool, worker>>
NotifyOne(c) ==
    LET asleep == {w \in 1..Workers : worker[w].at = "asleep"}
    IN  /\ At(c, "notify")
        /\ IF asleep = {} THEN UNCHANGED worker
           ELSE \E w \in asleep : worker' = [worker EXCEPT ![w].at = "awake"]
        /\ copy' = [copy EXCEPT ![c].at = "push"]
        /\ UNCHANGED <<pool, queue>>
SubmitFailed(c) ==
    /\ At(c, "push") /\ copy[c].next < copy[c].height
    /\ Throw(c)
Submitted(c) ==
    /\ At(c, "push") /\ copy[c].next >= copy[c].height
    /\ copy' = [copy EXCEPT ![c].at = "own"]
    /\ UNCHANGED workers

OwnStripe(c) ==
    /\ At(c, "own")
    /\ \/ /\ copy' = [copy EXCEPT ![c] = [@ EXCEPT !.at = "await",
              !.lines = Write(copy[c].lines, 0, Min({copy[c].rows, copy[c].height}))]]
          /\ UNCHANGED workers
       \/ Throw(c)

\* get() of each future in turn rethrows what its stripe has thrown.
Await(c) ==
    /\ At(c, "await")
    /\ LET waiting == {k \in DOMAIN copy[c].futures : copy[c].futures[k] # "done"}
       IN  \/ /\ waiting = {}
              /\ copy' = [copy EXCEPT ![c] = [@ EXCEPT !.at = "returned", !.result = "OK"]]
              /\ UNCHANGED workers
           \/ /\ waiting # {} /\ copy[c].futures[Min(waiting)] = "failed"
              /\ Throw(c)

\* The caller has looked at its image, and may reuse or free it.
Return(c) ==
    /\ At(c, "returned")
    /\ copy' = [copy EXCEPT ![c] = NoCopy]
    /\ UNCHANGED workers

-----------------------------------------------------------------------------
(* run() of the workers.                                                   *)

Take(w) ==
    /\ worker[w].at = "awake" /\ queue # <<>>
    /\ worker' = [worker EXCEPT ![w] = [at |-> "running", task |-> Head(queue)]]
    /\ queue' = Tail(queue)
    /\ UNCHANGED <<pool, copy>>
Sleep(w) ==
    /\ worker[w].at = "awake" /\ queue = <<>> /\ pool = "running"
    /\ worker' = [worker EXCEPT ![w].at = "asleep"]
    /\ UNCHANGED <<pool, queue, copy>>
Leave(w) ==
    /\ worker[w].at = "awake" /\ queue = <<>> /\ pool # "running"
    /\ worker' = [worker EXCEPT ![w].at = "gone"]
    /\ UNCHANGED <<pool, queue, copy>>

\* The task runs without the mutex.  One whose call has thrown finds no
\* future, and converts its rows all the same.
Stripe(w) ==
    LET task == worker[w].task   c == task.caller
    IN  /\ worker[w].at = "running"
        /\ worker' = [worker EXCEPT ![w] = [at |-> "awake", task |-> NoTask]]
        /\ IF task.abandoned THEN UNCHANGED copy
           ELSE LET k == task.row \div copy[c].rows IN
                \/ copy' = [copy EXCEPT ![c] = [@ EXCEPT !.futures[k] = "done",
                        !.lines = Write(copy[c].lines, task.row, task.rows)]]
                \/ copy' = [copy EXCEPT ![c].futures[k] = "failed"]
        /\ UNCHANGED <<pool, queue>>

-----------------------------------------------------------------------------
\* The process exits when its calls have returned: ~CpuConversionWorkerPool.
Shutdown ==
    /\ pool = "running" /\ \A c \in Callers : At(c, "idle")
    /\ pool' = "exiting"
    /\ worker' = [w \in 1..Workers |->
            [worker[w] EXCEPT !.at = IF @ = "asleep" THEN "awake" ELSE @]]
    /\ UNCHANGED <<queue, copy>>
Exited ==
    /\ pool = "exiting" /\ \A c \in Callers : At(c, "idle")
    /\ \A w \in 1..Workers : worker[w].at = "gone"
    /\ pool' = "none"
    /\ UNCHANGED <<queue, worker, copy>>

=============================================================================
