------------------------------ MODULE GpuSharing ------------------------------
(***************************************************************************)
(* Resources of the caller on their way through the library: reserved in a *)
(* GpuResourcePool or taken out of a foreign DLPack capsule, written by    *)
(* the caller's device, imported as a GPU frame, read by an encoder,       *)
(* exported as DLPack tensors, and handed back to their owner when the     *)
(* last lease is gone and all device work is done.  "output" images are    *)
(* pooled results of a Python processor, leased by SharedGpuOutputLease    *)
(* tokens instead of a frame handle.                                       *)
(*                                                                         *)
(* Threads act only on references that exist, keep the one they pass to an *)
(* encoder until the call returns, and delete a tensor when they are done  *)
(* with it.  What an encoder call does besides is in IntelEncoder,         *)
(* NvEncoder and GpuFrame.                                                 *)
(***************************************************************************)
EXTENDS GpuResourcePool, ExternalImport

CONSTANTS
    Kinds,        \* bound: image -> kinds of resource it may be
    Configs,      \* kind -> descriptors the caller passes for it
    MaxImages,    \* bound: reservations and foreign tensors
    MaxExports,   \* bound: DLPack exports
    MaxRefs       \* bound: references of the client to one frame

AllKinds == {"usm", "va", "d3d11", "cuda", "output", "foreign"}

ASSUME KindAssumption == Kinds \in [1..MaxImages -> SUBSET AllKinds]
ASSUME BoundAssumption ==
    MaxImages \in Nat /\ MaxExports \in Nat /\ MaxRefs \in Nat \ {0}

VARIABLES
    kind, stage, slot, stamp,  \* image -> what it is and where it lives
    reserved,                  \* images whose reservation exists
    work,                      \* image -> the producer's device work
    source, event,             \* image -> its completion, has a native event
    terminal,                  \* image -> State of the completion
    refs, client,              \* image -> references; those of the client
    accepted, recycled,        \* images
    tracked, reading,          \* images an encoder has a handle to; reads
    released,                  \* image -> calls of its release callback
    capsule, deletes,          \* foreign tensor -> capsule name, deleter calls
    tensor,                    \* export -> its managed tensor
    initialized,               \* the Python interpreter runs
    pc, item                   \* thread -> location, its image or export

image    == <<kind, stage, slot, stamp, reserved>>
producer == <<work, source, event, terminal>>
lease    == <<refs, client, accepted, recycled, tracked, reading>>
owner    == <<released, capsule, deletes>>
thread   == <<pc, item>>
vars == <<pool, image, producer, lease, owner, tensor, initialized, thread>>

Images  == 1..MaxImages
Exports == 1..MaxExports
Pooled(i) == kind[i] # "foreign"
NoTensor == [image |-> 0, state |-> "none", order |-> "none"]

Init ==
    /\ PoolInit
    /\ kind = [i \in Images |-> "none"] /\ stage = [i \in Images |-> "none"]
    /\ slot = [i \in Images |-> 0] /\ stamp = [i \in Images |-> 0]
    /\ reserved = {}
    /\ work = [i \in Images |-> "none"]
    /\ source = [i \in Images |-> "none"] /\ event = [i \in Images |-> FALSE]
    /\ terminal = [i \in Images |-> "pending"]
    /\ refs = [i \in Images |-> 0] /\ client = [i \in Images |-> 0]
    /\ accepted = {} /\ recycled = {} /\ tracked = {} /\ reading = {}
    /\ released = [i \in Images |-> 0]
    /\ capsule = [i \in Images |-> "none"] /\ deletes = [i \in Images |-> 0]
    /\ tensor = [e \in Exports |-> NoTensor]
    /\ initialized = TRUE
    /\ pc = [t \in Threads |-> "idle"] /\ item = [t \in Threads |-> 0]

-----------------------------------------------------------------------------
(* X_Fault is X with a fault; it is in no specification.                   *)

Fresh == {i \in Images : stage[i] = "none" /\ \A j \in 1..(i - 1) : stage[j] # "none"}
\* bound: an image is left for every thread that sleeps in acquire.
Enough ==
    Cardinality({i \in Images : stage[i] = "none"})
        > Cardinality({t \in Threads : waiting[t] # "no"})
Ready(t) == waiting[t] = "no" /\ t \notin owing
Idle(t) == pc[t] = "idle" /\ Ready(t) /\ initialized
At(t, l) == pc[t] = l /\ Ready(t)
Goto(t, l, n) == pc' = [pc EXCEPT ![t] = l] /\ item' = [item EXCEPT ![t] = n]
Return(t) == Goto(t, "idle", 0)

\* What a query of the producer completion answers now, and what it leaves.
Query_Forgets(i) == Status(source[i], work[i], i \in reading)
Query(i) ==
    IF terminal[i] # "pending" THEN terminal[i]
    ELSE Status(source[i], work[i], i \in reading)
Latch(i) ==
    terminal' = [terminal EXCEPT ![i] =
        IF source[i] \in Latching THEN Query(i) ELSE @]

\* GpuFrameCore::completions_done_locked: a failed producer is done too.
CompletionsDone_Always(i) == TRUE
CompletionsDone(i) == Query(i) \in Settled

-----------------------------------------------------------------------------
(* The pool: mkvc_gpu_resource_pool_acquire and its callers.               *)

\* IntelUsmPoolSlot, or the image of a processor that has a lease at once.
Reserve(t, i, s) ==
    /\ TakeSlot(s)
    /\ slot' = [slot EXCEPT ![i] = s]
    /\ stamp' = [stamp EXCEPT ![i] = generation'[s]]
    /\ reserved' = reserved \cup {i}
    /\ \E k \in Kinds[i] \ {"foreign"} :
        /\ kind' = [kind EXCEPT ![i] = k]
        /\ stage' = [stage EXCEPT ![i] = "writable"]
    /\ UNCHANGED <<producer, lease, owner, tensor, initialized, thread>>

AcquireNow(t) ==
    /\ Idle(t) /\ Enough /\ \E i \in Fresh, s \in Free : Reserve(t, i, s)
    /\ UNCHANGED <<waiting, woken, owing>>
AcquireWaits(t, timeout) ==
    /\ Idle(t) /\ Enough /\ Sleep(t, timeout)
    /\ UNCHANGED <<image, producer, lease, owner, tensor, initialized, thread>>
AcquireWakes(t) ==
    /\ t \in woken \/ waiting[t] = "finite"
    /\ EndSleep(t)
    /\ \E i \in Fresh, s \in Free : Reserve(t, i, s)
AcquireEnds(t) ==
    /\ SleepAgain(t) \/ TimeOut(t)
    /\ UNCHANGED <<image, producer, lease, owner, tensor, initialized, thread>>
Notify(t) ==
    /\ NotifyOne(t)
    /\ UNCHANGED <<image, producer, lease, owner, tensor, initialized, thread>>

\* The Python owner goes: its reservation, or dlpack_owner_destructor.
OwnerGone(t, i) ==
    IF Pooled(i)
    THEN /\ GiveBack(t, slot[i], stamp[i])
         /\ reserved' = reserved \ {i} /\ UNCHANGED deletes
    ELSE /\ deletes' = [deletes EXCEPT ![i] = @ + 1]
         /\ UNCHANGED <<in_use, occupied, owing, reserved>>

\* IntelUsmPoolSlot::close; the caller has waited for its own device work.
CloseSlot(t, i) ==
    /\ Idle(t) /\ stage[i] = "writable" /\ work[i] # "pending"
    /\ stage' = [stage EXCEPT ![i] = "gone"]
    /\ OwnerGone(t, i)
    /\ UNCHANGED <<generation, waiting, woken, kind, slot, stamp, producer, lease,
                   released, capsule, tensor, initialized, thread>>

-----------------------------------------------------------------------------
(* The caller's device.                                                    *)

Submit(t, i) ==
    /\ Idle(t) /\ stage[i] = "writable" /\ work[i] = "none"
    /\ work' = [work EXCEPT ![i] = "pending"]
    /\ UNCHANGED <<pool, image, source, event, terminal, lease, owner, tensor,
                   initialized, thread>>
Produce(i, outcome) ==
    /\ work[i] = "pending"
    /\ work' = [work EXCEPT ![i] = outcome]
    /\ UNCHANGED <<pool, image, source, event, terminal, lease, owner, tensor,
                   initialized, thread>>

-----------------------------------------------------------------------------
(* consume_nv12: the foreign tensor changes hands once.                    *)

\* capsule_destructor acts on unused capsules only.
DestroyCapsule(name) == IF name = "dltensor" THEN 1 ELSE 0

Consume(t, i) ==
    /\ Idle(t) /\ Enough /\ i \in Fresh
    /\ "foreign" \in Kinds[i]
    /\ kind' = [kind EXCEPT ![i] = "foreign"]
    /\ \/ \* refused, no holder, no new name: the capsule is let go unused
          /\ capsule' = [capsule EXCEPT ![i] = "dltensor"]
          /\ stage' = [stage EXCEPT ![i] = "gone"] /\ UNCHANGED work
          /\ deletes' = [deletes EXCEPT ![i] = DestroyCapsule("dltensor")]
       \/ \* no owner capsule: the deleter is called in place
          /\ capsule' = [capsule EXCEPT ![i] = "used_dltensor"]
          /\ stage' = [stage EXCEPT ![i] = "gone"] /\ UNCHANGED work
          /\ deletes' = [deletes EXCEPT ![i] = 1 + DestroyCapsule("used_dltensor")]
       \/ /\ capsule' = [capsule EXCEPT ![i] = "used_dltensor"]
          /\ stage' = [stage EXCEPT ![i] = "writable"]
          /\ \E w \in Settled \cup {"pending"} : work' = [work EXCEPT ![i] = w]
          /\ deletes' = [deletes EXCEPT ![i] = DestroyCapsule("used_dltensor")]
    /\ UNCHANGED <<pool, slot, stamp, reserved, source, event, terminal, lease,
                   released, tensor, initialized, thread>>

-----------------------------------------------------------------------------
(* Import: external_owner_create, an entry point, and cancel if it fails.  *)

MakeHandle(i, s) ==
    /\ stage' = [stage EXCEPT ![i] = "frame"]
    /\ source' = [source EXCEPT ![i] = s]
    /\ refs' = [refs EXCEPT ![i] = 1] /\ client' = [client EXCEPT ![i] = 1]

\* accepted is set when the handle exists, so a failed import releases nothing.
Accept_Early(i, made) == accepted' = accepted \cup {i}
Accept(i, made) == accepted' = IF made THEN accepted \cup {i} ELSE accepted

Import(t, i) ==
    /\ Idle(t) /\ stage[i] = "writable" /\ kind[i] # "output" /\ work[i] # "none"
    /\ \E c \in Configs[kind[i]] : \E r \in Imports(c, work[i]) :
        /\ event' = [event EXCEPT ![i] = r[1] = "ok" /\ 3 \in c.handles]
        /\ IF r[1] # "ok"
           THEN /\ stage' = [stage EXCEPT ![i] = "refused"]
                /\ Goto(t, "cancel", i)
                /\ UNCHANGED <<source, refs, client, accepted>>
           ELSE \/ MakeHandle(i, r[2]) /\ Accept(i, TRUE) /\ UNCHANGED thread
                \/ \* no memory for the handle: ~GpuFrameCore waits
                   /\ stage' = [stage EXCEPT ![i] = "refused"]
                   /\ source' = [source EXCEPT ![i] = r[2]]
                   /\ Accept(i, FALSE) /\ Goto(t, "destroy", i)
                   /\ UNCHANGED <<refs, client>>
    /\ UNCHANGED <<pool, kind, slot, stamp, reserved, work, terminal, recycled,
                   tracked, reading, owner, tensor, initialized>>

\* A processor hands out its result: the token of the GpuImage.
Output(t, i) ==
    /\ Idle(t) /\ stage[i] = "writable" /\ kind[i] = "output" /\ work[i] # "none"
    /\ MakeHandle(i, "query") /\ Accept(i, TRUE)
    /\ UNCHANGED <<pool, kind, slot, stamp, reserved, work, event, terminal,
                   recycled, tracked, reading, owner, tensor, initialized, thread>>

Cancel(t) ==
    /\ At(t, "cancel") /\ OwnerGone(t, item[t]) /\ Return(t)
    /\ UNCHANGED <<generation, waiting, woken, kind, stage, slot, stamp, producer,
                   lease, released, capsule, tensor, initialized>>

-----------------------------------------------------------------------------
(* References: mkvc_gpu_frame_retain and release, and lease tokens.        *)

Retain(t, i) ==
    /\ Idle(t) /\ client[i] \in 1..(MaxRefs - 1) /\ i \notin recycled
    /\ kind[i] # "output"
    /\ refs' = [refs EXCEPT ![i] = @ + 1] /\ client' = [client EXCEPT ![i] = @ + 1]
    /\ UNCHANGED <<pool, image, producer, accepted, recycled, tracked, reading, owner,
                   tensor, initialized, thread>>

\* The last release recycles, or deletes the handle and with it the core.
\* The last token waits for the producer.
Unref(t, i) ==
    /\ refs' = [refs EXCEPT ![i] = @ - 1]
    /\ IF refs[i] > 1 THEN Return(t) /\ UNCHANGED <<recycled, terminal>>
       ELSE IF kind[i] = "output"
       THEN recycled' = recycled \cup {i} /\ Goto(t, "destroy", i) /\ UNCHANGED terminal
       ELSE /\ Latch(i)
            /\ IF CompletionsDone(i)
               THEN recycled' = recycled \cup {i} /\ Goto(t, "callback", i)
               ELSE UNCHANGED recycled /\ Goto(t, "delete", i)

InCall(i) == Cardinality({t \in Threads : pc[t] = "encode" /\ item[t] = i})
Release(t, i) ==
    /\ Idle(t) /\ client[i] > InCall(i)
    /\ client' = [client EXCEPT ![i] = @ - 1]
    /\ Unref(t, i)
    /\ UNCHANGED <<pool, image, work, source, event, accepted, tracked, reading, owner,
                   tensor, initialized>>

Delete(t) ==
    /\ At(t, "delete") /\ Goto(t, "destroy", item[t])
    /\ UNCHANGED <<pool, image, producer, lease, owner, tensor, initialized>>

\* ~GpuFrameCore and the last token: wait for everything, whatever comes of it.
Destroy(t) ==
    /\ At(t, "destroy") /\ CompletionsDone(item[t]) /\ Latch(item[t])
    /\ recycled' = recycled \cup {item[t]}
    /\ Goto(t, "callback", item[t])
    /\ UNCHANGED <<pool, image, work, source, event, refs, client, accepted, tracked,
                   reading, owner, tensor, initialized>>

\* The recycle callback of import_with_completion: external_owner_release
\* forgets the owner when the interpreter is gone.
Callback(t) ==
    /\ At(t, "callback")
    /\ IF stage[item[t]] = "refused" THEN Goto(t, "cancel", item[t]) ELSE Return(t)
    /\ released' = IF item[t] \in accepted THEN [released EXCEPT ![item[t]] = @ + 1]
                   ELSE released
    /\ IF item[t] \in accepted /\ initialized THEN OwnerGone(t, item[t])
       ELSE UNCHANGED <<in_use, occupied, owing, reserved, deletes>>
    /\ UNCHANGED <<generation, waiting, woken, kind, stage, slot, stamp, producer,
                   lease, capsule, tensor, initialized>>

\* mkvc_gpu_frame_query_completion and wait; poll_recycle finds the lease.
Observe(t, i) ==
    /\ Idle(t) /\ client[i] > 0 /\ kind[i] # "output" /\ Latch(i)
    /\ UNCHANGED <<pool, image, work, source, event, lease, owner, tensor,
                   initialized, thread>>

-----------------------------------------------------------------------------
(* export_dlpack_impl, and RetainedDLPackProvider for processor outputs.   *)

Set(e, i, state, order) ==
    tensor' = [tensor EXCEPT ![e] = [image |-> i, state |-> state, order |-> order]]
Source(t) == tensor[item[t]].image
Leased(e, i) ==
    /\ tensor[e].image = i
    /\ \/ tensor[e].state \in {"unused", "used"}
       \/ tensor[e].state = "exporting" /\ kind[i] # "output"

\* The lease comes before the dependency; a token only after the wait.
Export(t, e, i) ==
    /\ Idle(t) /\ tensor[e].state = "none" /\ client[i] > 0 /\ i \notin recycled
    /\ kind[i] \in {"usm", "cuda", "foreign", "output"}
    /\ Set(e, i, "exporting", "none") /\ Goto(t, "export", e)
    /\ refs' = IF kind[i] = "output" THEN refs ELSE [refs EXCEPT ![i] = @ + 1]
    /\ UNCHANGED <<pool, image, producer, client, accepted, recycled, tracked, reading,
                   owner, initialized>>

\* The consumer's stream waits for the event; the callback may refuse.
ExportOrdered(t) ==
    /\ At(t, "export") /\ event[Source(t)]
    /\ kind[Source(t)] \in {"usm", "cuda", "foreign"}
    /\ Set(item[t], Source(t), "unused", "stream") /\ Return(t)
    /\ UNCHANGED <<pool, image, producer, lease, owner, initialized>>

ExportWaited(t) ==
    /\ At(t, "export") /\ kind[Source(t)] # "output"
    /\ Query(Source(t)) = "complete" /\ Latch(Source(t))
    /\ Set(item[t], Source(t), "unused", "host") /\ Return(t)
    /\ UNCHANGED <<pool, image, work, source, event, lease, owner, initialized>>

ExportOutput(t) ==
    /\ At(t, "export") /\ kind[Source(t)] = "output"
    /\ Query(Source(t)) = "complete" /\ Source(t) \notin recycled
    /\ refs' = [refs EXCEPT ![Source(t)] = @ + 1]
    /\ Set(item[t], Source(t), "unused", "host") /\ Return(t)
    /\ UNCHANGED <<pool, image, producer, client, accepted, recycled, tracked, reading,
                   owner, initialized>>
ExportReleased(t) ==
    /\ At(t, "export") /\ kind[Source(t)] = "output"
    /\ Query(Source(t)) = "failed" \/ Source(t) \in recycled
    /\ Set(item[t], 0, "none", "none") /\ Return(t)
    /\ UNCHANGED <<pool, image, producer, lease, owner, initialized>>

\* A refused dependency, a failed producer, no capsule: the lease goes back.
ExportFails(t) ==
    /\ At(t, "export") /\ kind[Source(t)] # "output"
    /\ event[Source(t)] \/ Query(Source(t)) \in Settled
    /\ Set(item[t], 0, "none", "none") /\ Unref(t, Source(t))
    /\ UNCHANGED <<pool, image, work, source, event, client, accepted, tracked, reading,
                   owner, initialized>>

\* The consumer renames the capsule, or it dies unused: the deleter runs in
\* capsule_destructor.  retained_owner_delete does nothing without Python.
Take(e) ==
    /\ initialized /\ tensor[e].state = "unused"
    /\ Set(e, tensor[e].image, "used", tensor[e].order)
    /\ UNCHANGED <<pool, image, producer, lease, owner, initialized, thread>>
DeleteTensor(t, e) ==
    /\ At(t, "idle") /\ tensor[e].state \in {"unused", "used"}
    /\ tensor[e].state = "unused" => initialized
    /\ Set(e, tensor[e].image, "none", "none")
    /\ IF kind[tensor[e].image] = "output" /\ ~initialized
       THEN UNCHANGED <<refs, recycled, terminal, thread>>
       ELSE Unref(t, tensor[e].image)
    /\ UNCHANGED <<pool, image, work, source, event, client, accepted, tracked, reading,
                   owner, initialized>>

-----------------------------------------------------------------------------
(* An encoder: it waits for the producer; Intel's has a handle of its own  *)
(* to the frame until its runtime no longer refers to the surface, NVENC   *)
(* is done with it when the call returns.                                  *)

Encode(t, i) ==
    /\ Idle(t) /\ client[i] > 0 /\ kind[i] \in {"va", "d3d11", "cuda", "foreign"}
    /\ InCall(i) = 0
    /\ Goto(t, "encode", i)
    /\ UNCHANGED <<pool, image, producer, lease, owner, tensor, initialized>>

EncodeReturns(t) ==
    /\ At(t, "encode") /\ Query(item[t]) \in Settled /\ Latch(item[t]) /\ Return(t)
    /\ \/ UNCHANGED <<refs, tracked, reading>>
       \/ /\ Query(item[t]) = "complete" /\ kind[item[t]] \in {"va", "d3d11"}
          /\ item[t] \notin tracked      \* bound: one wrapper per frame
          /\ refs' = [refs EXCEPT ![item[t]] = @ + 1]
          /\ tracked' = tracked \cup {item[t]} /\ reading' = reading \cup {item[t]}
    /\ UNCHANGED <<pool, image, work, source, event, client, accepted, recycled,
                   owner, tensor, initialized>>

RuntimeDone(i) ==
    /\ i \in reading /\ reading' = reading \ {i}
    /\ UNCHANGED <<pool, image, producer, refs, client, accepted, recycled, tracked,
                   owner, tensor, initialized, thread>>

\* retire, or the end of the sequence.
Retirable == tracked \ reading
Retire(t, i) ==
    /\ At(t, "idle") /\ i \in Retirable
    /\ tracked' = tracked \ {i} /\ Unref(t, i)
    /\ UNCHANGED <<pool, image, work, source, event, client, accepted, reading,
                   owner, tensor, initialized>>

-----------------------------------------------------------------------------
\* Py_Finalize: calls from Python have returned, native leases remain.
Finalize ==
    /\ initialized /\ initialized' = FALSE
    /\ \A t \in Threads :
        Ready(t) /\ (pc[t] = "idle" \/ (item[t] \in accepted
                       /\ pc[t] \in {"delete", "destroy", "callback"}))
    /\ UNCHANGED <<pool, image, producer, lease, owner, tensor, thread>>

Quiescent ==
    /\ \A t \in Threads : At(t, "idle")
    /\ initialized => Fresh = {} /\ \A i \in Images : client[i] = 0
    /\ UNCHANGED vars

Device == \E i \in Images : RuntimeDone(i) \/ \E o \in Settled : Produce(i, o)
Step(t) ==
    \/ AcquireWakes(t) \/ AcquireEnds(t) \/ Notify(t) \/ Cancel(t) \/ Delete(t)
    \/ Destroy(t) \/ Callback(t) \/ ExportOrdered(t) \/ ExportWaited(t)
    \/ ExportOutput(t) \/ ExportReleased(t) \/ ExportFails(t) \/ EncodeReturns(t)
Call(t) ==
    \/ AcquireNow(t) \/ AcquireWaits(t, "finite")
    \/ (\E u \in Threads \ {t} : waiting[u] = "no") /\ AcquireWaits(t, "infinite")
    \/ \E i \in Images :
        \/ CloseSlot(t, i) \/ Submit(t, i) \/ Consume(t, i) \/ Import(t, i)
        \/ Output(t, i) \/ Retain(t, i) \/ Release(t, i) \/ Observe(t, i)
        \/ Encode(t, i) \/ Retire(t, i) \/ \E e \in Exports : Export(t, e, i)
    \/ \E e \in Exports : DeleteTensor(t, e)

Next ==
    \/ Device \/ Finalize \/ Quiescent
    \/ \E e \in Exports : Take(e)
    \/ \E t \in Threads : Step(t) \/ Call(t)

Spec == Init /\ [][Next]_vars

-----------------------------------------------------------------------------
(* Properties                                                              *)

\* Somebody may touch the memory of i, other than the caller's own writes.
InUse(i) ==
    \/ client[i] > 0 \/ i \in tracked \cup reading
    \/ \E e \in Exports : Leased(e, i)
    \/ stage[i] = "frame" /\ work[i] = "pending"

(* INT-GPU-003, EXT-GPU-009: while a slot is being written, the producer's *)
(* work runs, an encoder reads or any lease or capsule is left, its        *)
(* reservation is the current one, so nobody else can be given the memory, *)
(* and a foreign tensor has not been deleted.                              *)
SlotHeld ==
    \A i \in Images : InUse(i) \/ stage[i] = "writable" =>
        IF Pooled(i)
        THEN i \in reserved /\ in_use[slot[i]] /\ generation[slot[i]] = stamp[i]
        ELSE deletes[i] = 0

Working(i) == \E t \in Threads : pc[t] # "export" /\ item[t] = i

(* INT-GPU-016, INT-GPU-010: the release callback runs once and only for   *)
(* an accepted import, a foreign deleter runs once on every path; while    *)
(* Python runs, the leases are those of the client, the encoder and the    *)
(* tensors, and nothing that is finished keeps a slot or a tensor.         *)
OwnerReleasedOnce ==
    \A i \in Images :
        /\ released[i] <= (IF i \in accepted THEN 1 ELSE 0)
        /\ deletes[i] <= 1
        /\ initialized =>
            refs[i] = client[i] + Cardinality(tracked \cap {i})
                      + Cardinality({e \in Exports : Leased(e, i)})
        /\ (initialized /\ refs[i] = 0 /\ ~Working(i)
              /\ stage[i] \in {"frame", "refused", "gone"}) =>
           IF Pooled(i) THEN i \notin reserved ELSE deletes[i] = 1

(* INT-GPU-004, INT-GPU-010: a consumer gets a tensor when the producer is *)
(* complete or its stream waits for it, and whoever waits for a producer   *)
(* never waits for a consumer of the same surface instead.                 *)
ProducerRespected ==
    /\ \A e \in Exports : tensor[e].order = "host" => work[tensor[e].image] = "complete"
    /\ \A t \in Threads :
        (pc[t] \in {"encode", "destroy"} /\ work[item[t]] \in Settled) =>
            Query(item[t]) \in Settled

-----------------------------------------------------------------------------
(* Inductive strengthening.                                                *)

Sources == {"none", "synced", "query", "fence", "va", "event", "cuda"}

TypeOK ==
    /\ PoolTypeOK
    /\ kind \in [Images -> AllKinds \cup {"none"}]
    /\ stage \in [Images -> {"none", "writable", "frame", "refused", "gone"}]
    /\ slot \in [Images -> Slots \cup {0}] /\ stamp \in [Images -> Nat]
    /\ reserved \subseteq Images
    /\ work \in [Images -> Settled \cup {"none", "pending"}]
    /\ source \in [Images -> Sources] /\ event \in [Images -> BOOLEAN]
    /\ terminal \in [Images -> Settled \cup {"pending"}]
    /\ refs \in [Images -> Nat] /\ client \in [Images -> Nat]
    /\ accepted \subseteq Images /\ recycled \subseteq Images
    /\ tracked \subseteq Images /\ reading \subseteq Images
    /\ released \in [Images -> Nat] /\ deletes \in [Images -> Nat]
    /\ capsule \in [Images -> {"none", "dltensor", "used_dltensor"}]
    /\ tensor \in [Exports -> [image : Images \cup {0},
                                state : {"none", "exporting", "unused", "used"},
                                order : {"none", "stream", "host"}]]
    /\ initialized \in BOOLEAN
    /\ pc \in [Threads -> {"idle", "cancel", "delete", "destroy", "callback",
                           "export", "encode"}]
    /\ item \in [Threads -> Nat]

\* A reservation is that of its slot, and no other image has the slot.
ReservedOK ==
    /\ \A i \in reserved :
        /\ Pooled(i) /\ slot[i] \in Slots
        /\ in_use[slot[i]] /\ generation[slot[i]] = stamp[i]
    /\ \A i, j \in reserved : slot[i] = slot[j] => i = j

\* References are leases; those a deleter left behind stay for good.
Leases(i) == client[i] + Cardinality(tracked \cap {i})
                       + Cardinality({e \in Exports : Leased(e, i)})
RefsOK ==
    \A i \in Images :
        /\ Leases(i) <= refs[i]
        /\ initialized \/ kind[i] # "output" => refs[i] = Leases(i)
        /\ refs[i] > 0 => stage[i] = "frame"

\* t gives its image back: no lease is left, the owner still is.
Finishing(t) == pc[t] \in {"cancel", "delete", "destroy", "callback"}
Finished(i) == \E t \in Threads : Finishing(t) /\ item[t] = i

FinishingOK ==
    /\ \A t \in Threads : Finishing(t) =>
        /\ item[t] \in Images /\ refs[item[t]] = 0
        /\ stage[item[t]] \in {"frame", "refused"}
        /\ pc[t] = "cancel" => stage[item[t]] = "refused"
        /\ pc[t] = "delete" => stage[item[t]] = "frame"
        /\ pc[t] = "callback" => work[item[t]] \in Settled
    /\ \A t, u \in Threads :
        Finishing(t) /\ Finishing(u) /\ item[t] = item[u] => t = u

\* A call keeps a reference of the client, or has its export to itself.
CallsOK ==
    /\ \A t \in Threads : pc[t] = "encode" =>
        item[t] \in Images /\ client[item[t]] > 0
    /\ \A t \in Threads : pc[t] = "export" =>
        item[t] \in Exports /\ tensor[item[t]].state = "exporting"
    /\ \A t, u \in Threads :
        pc[t] = "export" /\ pc[u] = "export" /\ item[t] = item[u] => t = u

\* The owner stays until the image has been given back, and goes once.
Kept(i) == IF Pooled(i) THEN i \in reserved ELSE deletes[i] = 0
Lost(i) == IF Pooled(i) THEN i \notin reserved ELSE deletes[i] = 1
Returned(i) == /\ released[i] = 1 /\ work[i] \in Settled /\ deletes[i] <= 1
               /\ initialized => Lost(i)

OwnerOK(i) ==
    /\ Pooled(i) => deletes[i] = 0
    /\ i \in accepted <=> stage[i] = "frame"
    /\ stage[i] = "none" => kind[i] = "none" /\ i \notin reserved
    /\ stage[i] = "writable" \/ refs[i] > 0 \/ Finished(i) => Kept(i)
    /\ stage[i] \in {"refused", "gone"} => Finished(i) \/ Lost(i)
    /\ stage[i] # "frame" \/ refs[i] > 0 \/ Finished(i) => released[i] = 0
    /\ stage[i] = "frame" /\ refs[i] = 0 =>
        /\ kind[i] = "output" => i \in recycled
        /\ Finished(i) \/ Returned(i)
OwnersOK == \A i \in Images : OwnerOK(i)

\* A completion says what the device did, and once an encoder reads, a
\* status that could wait for that encoder has been latched.
CompletionsOK ==
    /\ \A i \in Images :
        /\ terminal[i] # "pending" => terminal[i] = work[i]
        /\ source[i] = "synced" => work[i] = "complete"
        /\ stage[i] = "none" => work[i] = "none"
        /\ stage[i] = "frame" => work[i] # "none"
        /\ stage[i] \in {"none", "writable"} => source[i] = "none" /\ terminal[i] = "pending"
    /\ reading \subseteq tracked
    /\ \A i \in reading : source[i] \in Latching => terminal[i] # "pending"

\* A tensor is one of a frame, ordered after the frame's producer.
TensorsOK ==
    \A e \in Exports :
        /\ tensor[e].state # "none" =>
            tensor[e].image \in Images /\ stage[tensor[e].image] = "frame"
        /\ tensor[e].order = "host" =>
            tensor[e].state # "none" /\ work[tensor[e].image] = "complete"

Inductive ==
    /\ TypeOK /\ PoolOK /\ ReservedOK /\ RefsOK /\ FinishingOK /\ CallsOK
    /\ OwnersOK /\ CompletionsOK /\ TensorsOK

=============================================================================
