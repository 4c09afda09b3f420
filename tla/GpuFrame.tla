------------------------------- MODULE GpuFrame -------------------------------
(***************************************************************************)
(* The life of a GPU frame: a decoder surface wrapped in a pooled          *)
(* GpuFrameCore, leased to client threads through mkvc_gpu_frame handles,  *)
(* read by the Intel encoder queue, and returned to the decoder when the   *)
(* producer and every consumer are done and no lease is left.              *)
(*                                                                         *)
(* A core is kept alive by shared_ptrs: the decoder's list of completed    *)
(* frames, the handle, the encoder's pending items and the device anchor.  *)
(* Whoever drops the last one runs ~GpuFrameCore, which waits.  A GPU      *)
(* frame written collects the oldest item, a CPU frame written only the    *)
(* item that fills the queue: a frame may be read long after its write and *)
(* after the client's last release.                                        *)
(*                                                                         *)
(* A step is one critical section of a mutex; the recycle callback runs    *)
(* outside all of them.  One thread at a time is inside the encoder, and   *)
(* clients release only references they hold.                              *)
(***************************************************************************)
EXTENDS Integers, Sequences, FiniteSets

CONSTANTS
    Threads,      \* client threads
    NoThread,
    Capacity,     \* slots of the GpuFramePool
    AsyncDepth,   \* VplEncoderQueue::async_depth, 4 in the code
    MaxFrames     \* bound: surfaces the decoder wraps

ASSUME ThreadAssumption == NoThread \notin Threads /\ IsFiniteSet(Threads)
ASSUME CapacityAssumption == Capacity \in Nat \ {0}
ASSUME DepthAssumption == AsyncDepth \in Nat \ {0}
ASSUME BoundAssumption == MaxFrames \in Nat

VARIABLES
    in_use, generation,   \* GpuFramePool::Slot
    open,                 \* the decoder, and with it the pool, exists
    slot, stamp,          \* frame -> where and under which generation
    producer,             \* frame -> its completion
    external_leases, recycled,
    ready,                \* IntelWebmDecoder::completed_gpu
    references, handles,  \* <<thread, frame>>; frames with a live handle
    anchor,               \* VplEncoderRuntime::external_device_owner_, or 0
    queue,                \* VplEncoderQueue::pending: input_frame, or 0
    pc, frame,            \* thread: location, the frame of its call or 0
    chore, by,            \* frame -> its destructor or callback; who runs it
    surface               \* frame -> times its surface was released

pool   == <<in_use, generation, open>>
origin == <<slot, stamp>>
core   == <<external_leases, recycled>>
owners == <<ready, references, handles, anchor, queue>>
thread == <<pc, frame>>
chores == <<chore, by>>
vars == <<pool, origin, producer, core, owners, thread, chores, surface>>

Slots   == 1..Capacity
Frames  == 1..MaxFrames
Created == {f \in Frames : stamp[f] > 0}
Settled == {"complete", "failed"}

-----------------------------------------------------------------------------
Init ==
    /\ in_use = [s \in Slots |-> FALSE] /\ generation = [s \in Slots |-> 0]
    /\ open = TRUE
    /\ slot = [f \in Frames |-> 0] /\ stamp = [f \in Frames |-> 0]
    /\ producer = [f \in Frames |-> "pending"]
    /\ external_leases = [f \in Frames |-> 0]
    /\ recycled = [f \in Frames |-> FALSE]
    /\ ready = <<>> /\ references = {} /\ handles = {} /\ anchor = 0 /\ queue = <<>>
    /\ pc = [t \in Threads |-> "idle"] /\ frame = [t \in Threads |-> 0]
    /\ chore = [f \in Frames |-> "none"] /\ by = [f \in Frames |-> NoThread]
    /\ surface = [f \in Frames |-> 0]

-----------------------------------------------------------------------------
(* Definitions named X_Fault are X with a fault; they are in no             *)
(* specification and show that the properties can break.                   *)

\* The frames whose pixels a pending item is reading; close waits for all
\* items before it drops the first.
Queued == {queue[i] : i \in DOMAIN queue} \ {0}
Reading == IF \E t \in Threads : pc[t] = "clear" THEN {} ELSE Queued

\* completions_done_locked: a failed completion counts as done.  A consumer
\* completion is pending from add_consumer until its item was waited for.
CompletionsDone_Unconsumed(f, reading) == producer[f] \in Settled
CompletionsDone_NotFailed(f, reading) == producer[f] = "complete" /\ f \notin reading
CompletionsDone(f, reading) == producer[f] \in Settled /\ f \notin reading

\* maybe_recycle_locked, once external_leases', pc' and queue' are known.
MayRecycle(f) ==
    ~recycled[f] /\ external_leases'[f] = 0 /\ CompletionsDone(f, Reading')

\* t has a destructor or a callback to get through first.
Busy(t) == \E f \in Frames : by[f] = t
At(t, l) == pc[t] = l /\ ~Busy(t)
Idle(t) == At(t, "idle")
Goto(t, l) == pc' = [pc EXCEPT ![t] = l]

Assign(f, t, what) ==
    chore' = [chore EXCEPT ![f] = what] /\ by' = [by EXCEPT ![f] = t]

\* release_external and poll_recycle end with this.
RecycleIfDone(f, t) ==
    IF MayRecycle(f)
    THEN recycled' = [recycled EXCEPT ![f] = TRUE] /\ Assign(f, t, "callback")
    ELSE UNCHANGED <<recycled, chores>>

\* The completed frames, the handle, the anchor and the items of the queue are
\* shared_ptrs to the core.  So is the frame of a write, but its thread has a
\* reference anyway.
Held(f) ==
    \/ f = anchor \/ f \in handles \/ f \in Queued
    \/ \E i \in DOMAIN ready : ready[i] = f
StillHeld(f) == Held(f)'

\* ~GpuFrameCore of those nobody holds any more; it returns at once when the
\* frame has been recycled.
Destroyed_Nothing(fs) == {}
Destroyed(fs) == {f \in fs : ~StillHeld(f) /\ ~recycled[f]}
Drop(fs, t) ==
    /\ chore' = [f \in Frames |->
                    IF f \in Destroyed(fs) THEN "destroy" ELSE chore[f]]
    /\ by' = [f \in Frames |-> IF f \in Destroyed(fs) THEN t ELSE by[f]]

-----------------------------------------------------------------------------
(* The decoder: collect_gpu wraps a surface, read_gpu hands it out.        *)

FreeSlots == {s \in Slots : ~in_use[s]}

\* GpuFramePool::acquire; with no free slot the read returns WOULD_BLOCK.
Wrap ==
    /\ open
    /\ \E f \in Frames \ Created, s \in FreeSlots :
        /\ f = Cardinality(Created) + 1
        /\ \A r \in FreeSlots : s <= r
        /\ in_use' = [in_use EXCEPT ![s] = TRUE]
        /\ generation' = [generation EXCEPT ![s] = @ + 1]
        /\ slot' = [slot EXCEPT ![f] = s]
        /\ stamp' = [stamp EXCEPT ![f] = generation'[s]]
        /\ ready' = Append(ready, f)
    /\ UNCHANGED <<open, producer, core, references, handles, anchor, queue,
                   thread, chores, surface>>

\* make_handle in read_gpu: the client has the only reference.
Deliver(t) ==
    /\ Idle(t) /\ ready # <<>>
    /\ external_leases' = [external_leases EXCEPT ![Head(ready)] = @ + 1]
    /\ handles' = handles \cup {Head(ready)}
    /\ references' = references \cup {<<t, Head(ready)>>}
    /\ ready' = Tail(ready)
    /\ UNCHANGED <<pool, origin, producer, recycled, anchor, queue, thread,
                   chores, surface>>

\* The handle cannot be allocated: the lease is taken back, the core dies.
DeliverFails(t) ==
    /\ Idle(t) /\ ready # <<>>
    /\ ready' = Tail(ready)
    /\ UNCHANGED <<external_leases, handles, anchor, queue, thread>>
    /\ IF MayRecycle(Head(ready)) THEN RecycleIfDone(Head(ready), t)
       ELSE Drop({Head(ready)}, t) /\ UNCHANGED recycled
    /\ UNCHANGED <<pool, origin, producer, references, surface>>

\* IntelWebmDecoder::close: the completed frames and the pool go.
CloseDecoder(t) ==
    /\ Idle(t) /\ open
    /\ open' = FALSE /\ ready' = <<>>
    /\ UNCHANGED <<handles, anchor, queue>>
    /\ Drop({ready[i] : i \in DOMAIN ready}, t)
    /\ UNCHANGED <<in_use, generation, origin, producer, core, references,
                   thread, surface>>

\* The GPU finishes decoding, or its device is lost.
Produce(f, outcome) ==
    /\ f \in Created /\ producer[f] = "pending"
    /\ producer' = [producer EXCEPT ![f] = outcome]
    /\ UNCHANGED <<pool, origin, core, owners, thread, chores, surface>>

-----------------------------------------------------------------------------
(* The handle: mkvc_gpu_frame_retain on behalf of u, and release, which    *)
(* gives up the lease first and the handle's shared_ptr after it.          *)

\* A retain counts on the handle and takes no lease of its own.
Retained_Leased(f) == external_leases[f] + 1
Retained(f) == external_leases[f]

Retain(t, u, f) ==
    /\ Idle(t)
    /\ <<t, f>> \in references /\ ~recycled[f]
    /\ references' = references \cup {<<u, f>>}
    /\ external_leases' = [external_leases EXCEPT ![f] = Retained(f)]
    /\ UNCHANGED <<pool, origin, producer, recycled, ready, handles, anchor,
                   queue, thread, chores, surface>>

Release(t, f) ==
    /\ Idle(t) /\ <<t, f>> \in references
    /\ references' = references \ {<<t, f>>} /\ UNCHANGED queue
    /\ IF \E u \in Threads : <<u, f>> \in references'
       THEN UNCHANGED <<core, thread, chores>>
       ELSE /\ external_leases' = [external_leases EXCEPT ![f] = @ - 1]
            /\ Goto(t, "delete") /\ frame' = [frame EXCEPT ![t] = f]
            /\ RecycleIfDone(f, t)
    /\ UNCHANGED <<pool, origin, producer, ready, handles, anchor, surface>>

Delete(t) ==
    /\ At(t, "delete")
    /\ handles' = handles \ {frame[t]}
    /\ UNCHANGED <<ready, anchor, queue>>
    /\ Drop({frame[t]}, t)
    /\ Goto(t, "idle") /\ frame' = [frame EXCEPT ![t] = 0]
    /\ UNCHANGED <<pool, origin, producer, core, references, surface>>

-----------------------------------------------------------------------------
(* mkvc_encoder_write_gpu_frame down to submit_gpu_surface.                *)

EncoderFree == \A t \in Threads : pc[t] \in {"idle", "delete"}

\* The call of t is over, or goes on with the oldest item of the queue.
Returns(t, l) == Goto(t, l) /\ frame' = [frame EXCEPT ![t] = 0]

\* The first frame of a sequence stays leased as the anchor of its device.
WriteGpu(t, f) ==
    /\ Idle(t) /\ EncoderFree
    /\ <<t, f>> \in references /\ ~recycled[f]
    /\ IF anchor = 0
       THEN /\ anchor' = f
            /\ external_leases' = [external_leases EXCEPT ![f] = @ + 1]
       ELSE UNCHANGED <<anchor, external_leases>>
    /\ Goto(t, "submit") /\ frame' = [frame EXCEPT ![t] = f]
    /\ UNCHANGED <<pool, origin, producer, recycled, ready, references,
                   handles, queue, chores, surface>>

\* A failed producer or a refusing encoder is an error, and an encoder that
\* wants more data is none: the call returns.
SubmitReturns(t) ==
    /\ At(t, "submit") /\ producer[frame[t]] \in Settled
    /\ Returns(t, "idle")
    /\ UNCHANGED <<pool, origin, producer, core, owners, chores, surface>>

\* No sync point: the completion is complete before it is added.
SubmitSkips(t) ==
    /\ At(t, "submit") /\ producer[frame[t]] = "complete"
    /\ Returns(t, IF queue = <<>> THEN "idle" ELSE "collect")
    /\ UNCHANGED <<pool, origin, producer, core, owners, chores, surface>>

\* VplEncoderQueue::submit: from here on the encoder reads the surface.
SubmitQueues(t) ==
    /\ At(t, "submit") /\ producer[frame[t]] = "complete"
    /\ Goto(t, "consume")
    /\ UNCHANGED <<pool, origin, producer, core, owners, frame, chores,
                   surface>>

AddConsumer(t) ==
    /\ At(t, "consume") /\ ~recycled[frame[t]]
    /\ queue' = Append(queue, frame[t])
    /\ Returns(t, "collect")
    /\ UNCHANGED <<pool, origin, producer, core, ready, references, handles,
                   anchor, chores, surface>>

\* write_nv12 of a sequence that has had a GPU frame; without one the queue
\* holds no frame.
WriteCpu(t) ==
    /\ Idle(t) /\ EncoderFree
    /\ anchor # 0
    /\ queue' \in {queue, Append(queue, 0)}
    /\ Goto(t, IF Len(queue') >= AsyncDepth THEN "collect" ELSE "idle")
    /\ UNCHANGED <<pool, origin, producer, core, ready, references, handles,
                   anchor, frame, chores, surface>>

\* The oldest item ends: its completion is settled, and unless it failed the
\* frame is polled; then its shared_ptr goes.
Pop(t, polled) ==
    /\ queue' = Tail(queue) /\ UNCHANGED <<ready, handles, anchor, external_leases>>
    /\ LET f == Head(queue) IN
       IF polled /\ f # 0 /\ MayRecycle(f) THEN RecycleIfDone(f, t)
       ELSE Drop({f} \ {0}, t) /\ UNCHANGED recycled

\* collect_oldest at the end of a write.
Collect(t, outcome) ==
    /\ At(t, "collect") /\ Goto(t, "idle")
    /\ Pop(t, outcome = "complete")
    /\ UNCHANGED <<pool, origin, producer, references, frame, surface>>

(* flush and close of the encoder end the sequence: drain collects all     *)
(* items, unless one fails or the codec does, close waits for the others   *)
(* and drops them unpolled, and ~VplEncoderRuntime releases the anchor.    *)
Flush(t) ==
    /\ Idle(t) /\ EncoderFree
    /\ anchor # 0
    /\ Goto(t, "drain")
    /\ UNCHANGED <<pool, origin, producer, core, owners, frame, chores, surface>>

Drain(t, outcome) ==
    /\ At(t, "drain") /\ queue # <<>>
    /\ Goto(t, IF outcome = "complete" THEN "drain" ELSE "close")
    /\ Pop(t, outcome = "complete")
    /\ UNCHANGED <<pool, origin, producer, references, frame, surface>>

\* All is drained, or nothing more because the codec failed.
DrainEnds(t) ==
    /\ At(t, "drain") /\ Goto(t, "close")
    /\ UNCHANGED <<pool, origin, producer, core, owners, frame, chores, surface>>

CloseWaits(t) ==
    /\ At(t, "close") /\ Goto(t, "clear")
    /\ UNCHANGED <<pool, origin, producer, core, owners, frame, chores, surface>>

Clear(t) ==
    /\ At(t, "clear") /\ queue # <<>> /\ UNCHANGED pc
    /\ Pop(t, FALSE)
    /\ UNCHANGED <<pool, origin, producer, references, frame, surface>>

ReleaseAnchor(t) ==
    /\ At(t, "clear") /\ queue = <<>> /\ UNCHANGED queue
    /\ external_leases' = [external_leases EXCEPT ![anchor] = @ - 1]
    /\ Goto(t, "unanchor")
    /\ RecycleIfDone(anchor, t)
    /\ UNCHANGED <<pool, origin, producer, ready, references, handles, anchor,
                   frame, surface>>

AnchorGone(t) ==
    /\ At(t, "unanchor")
    /\ anchor' = 0
    /\ UNCHANGED <<ready, handles, queue>>
    /\ Drop({anchor}, t)
    /\ Goto(t, "idle")
    /\ UNCHANGED <<pool, origin, producer, core, references, frame, surface>>

-----------------------------------------------------------------------------
(* ~GpuFrameCore waits without the lock, then recycles; the callback gives *)
(* the surface back and frees the slot if the pool still exists.           *)

Destroy(t, f) ==
    /\ by[f] = t /\ chore[f] = "destroy" /\ CompletionsDone(f, Reading)
    /\ external_leases' = [external_leases EXCEPT ![f] = 0]
    /\ recycled' = [recycled EXCEPT ![f] = TRUE]
    /\ Assign(f, t, "callback")
    /\ UNCHANGED <<pool, origin, producer, owners, thread, surface>>

ReleaseSurface(t, f) ==
    /\ by[f] = t /\ chore[f] = "callback"
    /\ surface' = [surface EXCEPT ![f] = @ + 1]
    /\ Assign(f, t, "recycle")
    /\ UNCHANGED <<pool, origin, producer, core, owners, thread>>

\* GpuFramePool::recycle behind weak_ptr::lock.
RecycleSlot(t, f) ==
    /\ by[f] = t /\ chore[f] = "recycle"
    /\ in_use' = IF open /\ generation[slot[f]] = stamp[f]
                 THEN [in_use EXCEPT ![slot[f]] = FALSE] ELSE in_use
    /\ Assign(f, NoThread, "none")
    /\ UNCHANGED <<generation, open, origin, producer, core, owners, thread,
                   surface>>

-----------------------------------------------------------------------------
\* What a thread does before its call returns ...
Step(t) ==
    \/ Delete(t) \/ SubmitReturns(t) \/ SubmitSkips(t) \/ SubmitQueues(t)
    \/ AddConsumer(t) \/ \E o \in Settled : Collect(t, o) \/ Drain(t, o)
    \/ DrainEnds(t) \/ CloseWaits(t) \/ Clear(t) \/ ReleaseAnchor(t)
    \/ AnchorGone(t)
    \/ \E f \in Frames :
        Destroy(t, f) \/ ReleaseSurface(t, f) \/ RecycleSlot(t, f)

\* ... and the calls it may make.
Call(t) ==
    \/ Deliver(t) \/ DeliverFails(t) \/ CloseDecoder(t)
    \/ WriteCpu(t) \/ Flush(t)
    \/ \E f \in Frames : Release(t, f) \/ WriteGpu(t, f)
    \/ \E f \in Frames, u \in Threads : Retain(t, u, f)

Gpu == \E f \in Frames, o \in Settled : Produce(f, o)

\* Nobody has a frame or is about to get one.
Quiescent ==
    /\ \A t \in Threads : Idle(t)
    /\ references = {} /\ ready = <<>>
    /\ UNCHANGED vars

Next == Wrap \/ Gpu \/ (\E t \in Threads : Step(t) \/ Call(t)) \/ Quiescent

Spec == Init /\ [][Next]_vars

\* Threads inside calls run on and the GPU finishes what it was given.
FairSpec == Spec /\ WF_vars(Gpu) /\ \A t \in Threads : WF_vars(Step(t))

-----------------------------------------------------------------------------
(* Properties                                                              *)

(* Every variable has its type; a frame has two leases at most, the        *)
(* client's handle and the encoder's anchor, and the queue never exceeds   *)
(* the depth the codec was given.                                          *)
TypeOK ==
    /\ in_use \in [Slots -> BOOLEAN] /\ generation \in [Slots -> Nat]
    /\ open \in BOOLEAN
    /\ slot \in [Frames -> Slots \cup {0}] /\ stamp \in [Frames -> Nat]
    /\ producer \in [Frames -> Settled \cup {"pending"}]
    /\ external_leases \in [Frames -> 0..2] /\ recycled \in [Frames -> BOOLEAN]
    /\ ready \in Seq(Frames) /\ anchor \in Frames \cup {0}
    /\ queue \in Seq(Frames \cup {0}) /\ Len(queue) <= AsyncDepth
    /\ references \subseteq Threads \X Frames /\ handles \subseteq Frames
    /\ pc \in [Threads -> {"idle", "delete", "submit", "consume", "collect",
                           "drain", "close", "clear", "unanchor"}]
    /\ frame \in [Threads -> Frames \cup {0}]
    /\ chore \in [Frames -> {"none", "destroy", "callback", "recycle"}]
    /\ by \in [Frames -> Threads \cup {NoThread}]
    /\ surface \in [Frames -> Nat]

\* Somebody may touch the pixels: the decoder, a client, the encoder.
InUse(f) ==
    \/ producer[f] = "pending"
    \/ f = anchor /\ \A t \in Threads : pc[t] # "unanchor"
    \/ \E t \in Threads :
        <<t, f>> \in references \/ (frame[t] = f /\ pc[t] = "consume")
    \/ f \in Reading

(* INT-GPU-003: the surface goes back to the decoder only after producer   *)
(* and consumers are complete and the last lease is gone, also when the    *)
(* encoder still reads the frame after the last release, and while a       *)
(* release, a flush and a destructor race.  It goes back once.             *)
ReturnedWhenDone ==
    \A f \in Created :
        surface[f] <= 1 /\ (surface[f] = 1 => ~InUse(f))

(* A frame a client holds a reference to is never found recycled, so that  *)
(* valid() in the C ABI refuses no legal call.                             *)
HandleUsable ==
    \A t \in Threads, f \in Created : <<t, f>> \in references => ~recycled[f]

\* The slot of the frame has not been given back yet.
Occupies(f) == f \in Created /\ (~recycled[f] \/ chore[f] # "none")

(* While the pool exists its slots are taken by exactly the frames that    *)
(* have not been returned, one frame each.                                 *)
SlotsAgree ==
    open => \A s \in Slots :
        LET occupants == {f \in Frames : Occupies(f) /\ slot[f] = s} IN
        IF in_use[s] THEN Cardinality(occupants) = 1 ELSE occupants = {}

(* A frame nobody refers to any more has been returned or is being         *)
(* returned by some thread, though nobody polls it: no surface leaks.      *)
NoFrameLost ==
    \A f \in Created : Held(f) \/ recycled[f] \/ by[f] # NoThread

(* Slots, frames and handles agree at every moment of a release.           *)
SlotsAccounted == SlotsAgree /\ NoFrameLost /\ HandleUsable

(* Every call returns: what it or a destructor in it waits for is settled  *)
(* by the GPU, never by the thread that waits.                             *)
CallsReturn ==
    \A t \in Threads : pc[t] # "idle" \/ Busy(t) ~> pc[t] = "idle" /\ ~Busy(t)

-----------------------------------------------------------------------------
(* Inductive strengthening.                                                *)

\* One lease is the handle's, until the last reference goes; one the anchor's.
Referenced(f) == \E t \in Threads : <<t, f>> \in references
Anchored(f) == f = anchor /\ \A t \in Threads : pc[t] # "unanchor"
LeasesOK ==
    \A f \in Frames :
        external_leases[f] =
            (IF Referenced(f) THEN 1 ELSE 0) + (IF Anchored(f) THEN 1 ELSE 0)

\* A completed frame waits for its first handle and nobody else has it.
ReadyOK ==
    /\ \A i \in DOMAIN ready :
        /\ ready[i] \in Created /\ ~recycled[ready[i]]
        /\ ready[i] \notin handles \cup Queued /\ ready[i] # anchor
    /\ \A i, j \in DOMAIN ready : ready[i] = ready[j] => i = j

\* The handle lives as long as it is referenced; one thread deletes it.
HandlesOK ==
    /\ handles \subseteq Created
    /\ \A f \in Frames : Referenced(f) => f \in handles
    /\ \A t \in Threads : pc[t] = "delete" =>
        frame[t] \in handles /\ ~Referenced(frame[t])
    /\ \A t, u \in Threads :
        pc[t] = "delete" /\ pc[u] = "delete" /\ frame[t] = frame[u] => t = u

\* Who is inside the encoder is alone there and keeps its reference.
EncoderOK ==
    /\ anchor \in Created \cup {0}
    /\ \A t \in Threads :
        pc[t] \in {"drain", "close", "clear", "unanchor"} => anchor # 0
    /\ \A t \in Threads : pc[t] \in {"submit", "consume"} =>
        <<t, frame[t]>> \in references
    /\ \A t, u \in Threads :
        pc[t] \notin {"idle", "delete"} /\ pc[u] \notin {"idle", "delete"} => t = u

\* The oldest item goes when the queue is full.
QueueOK ==
    /\ Queued \subseteq Created
    /\ \A t \in Threads : pc[t] = "collect" => queue # <<>>
    /\ (\A t \in Threads : pc[t] # "collect") => Len(queue) < AsyncDepth

\* What a recycled frame has behind it, and what its destructor and its
\* callback have yet to do.
RecycledOK ==
    \A f \in Frames :
        /\ recycled[f] =>
            /\ f \in Created /\ external_leases[f] = 0
            /\ producer[f] \in Settled /\ f \notin Reading
        /\ surface[f] = IF recycled[f] /\ chore[f] # "callback" THEN 1 ELSE 0
ChoresOK ==
    \A f \in Frames :
        /\ chore[f] = "none" <=> by[f] = NoThread
        /\ chore[f] = "destroy" => f \in Created /\ ~recycled[f] /\ ~Held(f)
        /\ chore[f] \in {"callback", "recycle"} => recycled[f]

\* An occupied slot is marked, with the generation its one occupant knows.
SlotsOK ==
    /\ \A f \in Created : slot[f] \in Slots
    /\ open => \A f, g \in Frames :
        /\ Occupies(f) => in_use[slot[f]] /\ generation[slot[f]] = stamp[f]
        /\ Occupies(f) /\ Occupies(g) /\ slot[f] = slot[g] => f = g
    /\ open => \A s \in Slots : in_use[s] => \E f \in Frames : Occupies(f) /\ slot[f] = s

Owned     == ReadyOK /\ HandlesOK /\ EncoderOK /\ QueueOK /\ LeasesOK
Retired   == RecycledOK /\ ChoresOK /\ NoFrameLost
Inductive == TypeOK /\ Owned /\ Retired /\ SlotsOK

=============================================================================
