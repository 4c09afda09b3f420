---------------------------- MODULE CpuFramePool ----------------------------
(***************************************************************************)
(* The native CPU frame pool: a fixed number of slots, leased to client    *)
(* threads that may block for one, and lent on to the encoder by           *)
(* mkvc_encoder_submit_cpu_buffer until the submission completes.          *)
(*                                                                         *)
(* A CpuBufferLease is known by its slot and generation; it is destroyed,  *)
(* and its slot recycled, with its last shared_ptr: the mkvc_cpu_buffer    *)
(* handle or the owner_ of a submission.  A step is one critical section   *)
(* of the pool's or the submission's mutex.  The encoder is seen through   *)
(* the submissions only: a pending one may be read at any time.            *)
(***************************************************************************)
EXTENDS Integers, Sequences, FiniteSets

CONSTANTS
    Threads,         \* client threads
    Capacity,        \* mkvc_cpu_frame_pool_config.capacity
    MaxCalls,        \* bound: acquire and submit calls in one behaviour
    MaxSubmissions   \* bound: frames the encoder accepts

ASSUME CapacityAssumption == Capacity \in Nat \ {0}
ASSUME BoundAssumption == MaxCalls \in Nat /\ MaxSubmissions \in Nat
ASSUME ThreadAssumption == IsFiniteSet(Threads)

VARIABLES
    in_use, generation,   \* CpuFramePool::Slot
    occupied, peak,       \* in_use_, peak_in_use_
    acquisitions, rejected,
    handles,              \* leases with a live mkvc_cpu_buffer
    submission,           \* the CpuSubmissions, in order of acceptance
    pc, ret,              \* thread: location, last result
    timeout,              \* thread: timeout of its acquire
    buffer, entry,        \* thread: the lease it submits, its submission or 0
    asleep,               \* threads blocked in available_
    calls

stats  == <<occupied, peak, acquisitions, rejected>>
pool   == <<in_use, generation, stats>>
client == <<pc, ret, timeout, buffer, entry, calls>>
vars   == <<pool, handles, submission, client, asleep>>

-----------------------------------------------------------------------------
(* Definitions named X_Fault are X with the fault the suffix tells; no      *)
(* specification uses them, they show that the properties can be broken.    *)
Slots    == 1..Capacity
Leases   == [slot : Slots, generation : Nat \ {0}]
NoLease  == [slot |-> 0, generation |-> 0]
Timeouts == {"zero", "finite", "forever"}
Outcomes == {"COMPLETE", "CANCELLED", "FAILED"}
Results  == {"none", "OK", "WOULD_BLOCK", "TIMEOUT", "INVALID_STATE"}

FreeSlots == {s \in Slots : ~in_use[s]}
CurrentLease(s) == [slot |-> s, generation |-> generation[s]]

\* Submissions whose owner_ keeps the lease alive.
Owners(lease, submissions) ==
    {n \in DOMAIN submissions :
        submissions[n].owner /\ submissions[n].lease = lease}

Sleepers == {t \in asleep : pc[t] = "acquire"}

\* available_.notify_one
NotifyOne_Forgotten == UNCHANGED asleep
NotifyOne ==
    IF Sleepers = {} THEN UNCHANGED asleep
    ELSE \E t \in Sleepers : asleep' = asleep \ {t}

Recycle(lease) ==
    IF in_use[lease.slot] /\ generation[lease.slot] = lease.generation
    THEN /\ in_use' = [in_use EXCEPT ![lease.slot] = FALSE]
         /\ occupied' = IF occupied # 0 THEN occupied - 1 ELSE 0
         /\ UNCHANGED <<generation, peak, acquisitions, rejected>>
         /\ NotifyOne
    ELSE UNCHANGED <<pool, asleep>>

\* ~CpuBufferLease runs when the last shared_ptr is gone.
Unreference_HandleOnly(lease) ==
    IF lease \notin handles' THEN Recycle(lease) ELSE UNCHANGED <<pool, asleep>>
Unreference(lease) ==
    IF lease \notin handles' /\ Owners(lease, submission') = {}
    THEN Recycle(lease) ELSE UNCHANGED <<pool, asleep>>

Goto(t, l) ==
    /\ pc' = [pc EXCEPT ![t] = l]
    /\ ret' = [ret EXCEPT ![t] = "none"]
Return(t, r) ==
    /\ pc' = [pc EXCEPT ![t] = "idle"]
    /\ ret' = [ret EXCEPT ![t] = r]
    /\ buffer' = [buffer EXCEPT ![t] = NoLease]
    /\ entry' = [entry EXCEPT ![t] = 0]

Idle(t) == pc[t] = "idle" /\ calls < MaxCalls

\* Leases a thread uses inside a call: their handle must stay.
Busy == {buffer[t] : t \in Threads} \ {NoLease}

-----------------------------------------------------------------------------
Init ==
    /\ in_use = [s \in Slots |-> FALSE]
    /\ generation = [s \in Slots |-> 0]
    /\ occupied = 0 /\ peak = 0 /\ acquisitions = 0 /\ rejected = 0
    /\ handles = {} /\ submission = <<>>
    /\ pc = [t \in Threads |-> "idle"] /\ ret = [t \in Threads |-> "none"]
    /\ timeout = [t \in Threads |-> "zero"]
    /\ buffer = [t \in Threads |-> NoLease]
    /\ entry = [t \in Threads |-> 0]
    /\ asleep = {} /\ calls = 0

-----------------------------------------------------------------------------
(* mkvc_cpu_frame_pool_acquire                                             *)

AcquireCall(t, wait) ==
    /\ Idle(t) /\ calls' = calls + 1
    /\ Goto(t, "acquire")
    /\ timeout' = [timeout EXCEPT ![t] = wait]
    /\ UNCHANGED <<pool, handles, submission, buffer, entry, asleep>>

AcquireSleeps(t) ==
    /\ pc[t] = "acquire" /\ t \notin asleep
    /\ FreeSlots = {} /\ timeout[t] # "zero"
    /\ asleep' = asleep \cup {t}
    /\ UNCHANGED <<pool, handles, submission, client>>

\* The deadline passes and the predicate, evaluated again, is still false.
AcquireRejected(t) ==
    /\ pc[t] = "acquire" /\ FreeSlots = {} /\ timeout[t] # "forever"
    /\ rejected' = rejected + 1
    /\ Return(t, IF timeout[t] = "zero" THEN "WOULD_BLOCK" ELSE "TIMEOUT")
    /\ asleep' = asleep \ {t}
    /\ UNCHANGED <<in_use, generation, occupied, peak, acquisitions, handles,
                   submission, timeout, calls>>

\* The first free slot.
Chosen(s) == s \in FreeSlots /\ \A r \in FreeSlots : s <= r

NextGeneration_Same(s) == generation[s]
NextGeneration(s) == generation[s] + 1

\* peak_in_use_ = max(peak_in_use_, in_use_), after the increment.
Peak_BeforeIncrement == IF peak < occupied THEN occupied ELSE peak
Peak == IF peak < occupied + 1 THEN occupied + 1 ELSE peak

\* A thread evaluates the predicate when it enters, when it is notified and
\* when its deadline passes.
AcquireTakes(t) ==
    /\ pc[t] = "acquire" /\ (t \notin asleep \/ timeout[t] = "finite")
    /\ \E s \in Slots :
        /\ Chosen(s)
        /\ in_use' = [in_use EXCEPT ![s] = TRUE]
        /\ generation' = [generation EXCEPT ![s] = NextGeneration(s)]
        /\ handles' = handles \cup
                {[slot |-> s, generation |-> NextGeneration(s)]}
    /\ occupied' = occupied + 1 /\ peak' = Peak
    /\ acquisitions' = acquisitions + 1
    /\ Return(t, "OK")
    /\ asleep' = asleep \ {t}
    /\ UNCHANGED <<rejected, submission, timeout, calls>>

(* mkvc_cpu_buffer_release; the caller does not release a handle that      *)
(* another thread is using.                                                *)
ReleaseBuffer ==
    \E lease \in handles \ Busy :
        /\ handles' = handles \ {lease}
        /\ UNCHANGED <<submission, client>>
        /\ Unreference(lease)

-----------------------------------------------------------------------------
(* mkvc_encoder_submit_cpu_buffer                                          *)

\* get_view
SubmitCall(t, lease) ==
    /\ Idle(t) /\ calls' = calls + 1
    /\ IF in_use[lease.slot] /\ generation[lease.slot] = lease.generation
       THEN /\ Goto(t, "submit")
            /\ buffer' = [buffer EXCEPT ![t] = lease]
            /\ UNCHANGED entry
       ELSE Return(t, "INVALID_STATE")
    /\ UNCHANGED <<pool, handles, submission, timeout, asleep>>

SubmitRefused(t) ==
    /\ pc[t] = "submit"
    /\ Return(t, "INVALID_STATE")
    /\ UNCHANGED <<pool, handles, submission, timeout, calls, asleep>>

\* EncoderSession::submit_borrowed returns OK: from here on the worker reads.
SubmitAccepted(t) ==
    /\ pc[t] = "submit" /\ Len(submission) < MaxSubmissions
    /\ submission' = Append(submission,
            [lease |-> buffer[t], state |-> "pending", owner |-> FALSE])
    /\ entry' = [entry EXCEPT ![t] = Len(submission) + 1]
    /\ Goto(t, "set_owner")
    /\ UNCHANGED <<pool, handles, timeout, buffer, calls, asleep>>

\* CpuSubmission::set_owner: the submission may be complete by now.
Owned(n) == submission[n].state = "pending"

SetOwner(t) ==
    /\ pc[t] = "set_owner"
    /\ submission' = [submission EXCEPT ![entry[t]].owner = Owned(entry[t])]
    /\ Return(t, "OK")
    /\ UNCHANGED <<pool, handles, timeout, calls, asleep>>

(* CpuSubmission::complete, called by the encoder worker, by cancel or by  *)
(* the failure path.                                                       *)
Complete(n, outcome) ==
    /\ n \in DOMAIN submission /\ submission[n].state = "pending"
    /\ submission' = [submission EXCEPT ![n].state = outcome, ![n].owner = FALSE]
    /\ UNCHANGED <<handles, client>>
    /\ IF submission[n].owner THEN Unreference(submission[n].lease)
       ELSE UNCHANGED <<pool, asleep>>

Quiescent ==
    /\ calls = MaxCalls /\ handles = {}
    /\ \A t \in Threads : pc[t] = "idle"
    /\ \A n \in DOMAIN submission : submission[n].state # "pending"
    /\ UNCHANGED vars

Next ==
    \/ \E t \in Threads :
        \/ \E wait \in Timeouts : AcquireCall(t, wait)
        \/ \E lease \in handles : SubmitCall(t, lease)
        \/ AcquireSleeps(t) \/ AcquireRejected(t) \/ AcquireTakes(t)
        \/ SubmitRefused(t) \/ SubmitAccepted(t) \/ SetOwner(t)
    \/ ReleaseBuffer
    \/ \E n \in 1..MaxSubmissions, outcome \in Outcomes : Complete(n, outcome)
    \/ Quiescent

Spec == Init /\ [][Next]_vars

-----------------------------------------------------------------------------
(* Properties                                                              *)

Submissions == [lease : Leases, state : Outcomes \cup {"pending"},
                owner : BOOLEAN]

(* Every variable has its type.                                            *)
TypeOK ==
    /\ in_use \in [Slots -> BOOLEAN] /\ generation \in [Slots -> Nat]
    /\ occupied \in Nat /\ peak \in Nat
    /\ acquisitions \in Nat /\ rejected \in Nat
    /\ handles \subseteq Leases /\ submission \in Seq(Submissions)
    /\ pc \in [Threads -> {"idle", "acquire", "submit", "set_owner"}]
    /\ ret \in [Threads -> Results] /\ timeout \in [Threads -> Timeouts]
    /\ buffer \in [Threads -> Leases \cup {NoLease}]
    /\ entry \in [Threads -> Nat]
    /\ asleep \subseteq Threads /\ calls \in 0..MaxCalls

Current(lease) ==
    in_use[lease.slot] /\ generation[lease.slot] = lease.generation

(* A live lease is the current one of a slot in use, so two live leases    *)
(* never share pixels and get_view never refuses a live handle.            *)
HandleCurrent == \A lease \in handles : Current(lease)

(* The pixels of a pending submission are not leased to anyone else, also  *)
(* between submit_borrowed and set_owner and after the caller released the *)
(* buffer (system-spec.md, EXT-ENC-013; mkvc.h: "retain its slot until     *)
(* encoder completion").                                                   *)
PendingKeepsSlot ==
    \A n \in DOMAIN submission :
        submission[n].state = "pending" => Current(submission[n].lease)

(* Nothing else keeps a slot: when the caller has released the buffer and  *)
(* its submissions are complete the slot is free, whoever was first.       *)
NoSlotLeaked ==
    \A s \in Slots : in_use[s] =>
        \/ CurrentLease(s) \in handles
        \/ \E n \in DOMAIN submission :
            submission[n].state = "pending" /\ submission[n].lease = CurrentLease(s)

\* Threads that are awake and going to take a slot.
AwakeTakers == {t \in Threads : pc[t] = "acquire" /\ t \notin asleep}

(* A thread sleeps in acquire only while every free slot has a thread that *)
(* is awake and going to take it: notify_one wakes enough of them.         *)
NoLostWakeup ==
    Sleepers # {} =>
        Cardinality(FreeSlots) <= Cardinality(AwakeTakers)

(* mkvc_cpu_frame_pool_get_stats: occupancy counts the slots in use, its   *)
(* peak covers it and never exceeds the capacity.                          *)
StatsAgree ==
    /\ occupied = Cardinality({s \in Slots : in_use[s]})
    /\ occupied <= peak /\ peak <= Capacity

(* The pool's books: handles, pending submissions, slots in use and the    *)
(* statistics always tell the same story.                                  *)
SlotAccounting == HandleCurrent /\ NoSlotLeaked /\ StatsAgree

\* Who holds the current lease of a slot: its handle, and each owner_.
References == [s \in Slots |->
    Cardinality(Owners(CurrentLease(s), submission))
    + IF CurrentLease(s) \in handles THEN 1 ELSE 0]

\* The pool as a pool of shared leases.
Leasing == INSTANCE LeasePool WITH free <- FreeSlots, holders <- References

(* Slots are leased only while free, under a fresh generation, and come    *)
(* back in the very step that drops the last reference.                    *)
RefinesLeasePool == Leasing!Spec

-----------------------------------------------------------------------------
(* Inductive strengthening: who keeps a lease alive.                       *)

\* A thread inside mkvc_encoder_submit_cpu_buffer relies on the handle ...
BusyOK == \A t \in Threads :
    /\ pc[t] \in {"submit", "set_owner"} <=> buffer[t] # NoLease
    /\ buffer[t] # NoLease => buffer[t] \in handles

\* ... also on behalf of the submission that has no owner_ yet.
EntryOK == \A t \in Threads : pc[t] = "set_owner" =>
    entry[t] \in DOMAIN submission /\ submission[entry[t]].lease = buffer[t]

OwnerOK == \A n \in DOMAIN submission :
    /\ submission[n].owner => submission[n].state = "pending"
    /\ submission[n].state = "pending" =>
        \/ submission[n].owner
        \/ \E t \in Threads : pc[t] = "set_owner" /\ entry[t] = n

\* set_owner comes once for each submission.
SetOnce == \A t \in Threads : pc[t] = "set_owner" =>
    /\ ~submission[entry[t]].owner
    /\ \A u \in Threads : pc[u] = "set_owner" /\ entry[u] = entry[t] => u = t

Inductive ==
    /\ HandleCurrent /\ PendingKeepsSlot /\ NoSlotLeaked
    /\ BusyOK /\ EntryOK /\ OwnerOK

\* Only a thread in acquire sleeps in available_.
AsleepOK == \A t \in asleep : pc[t] = "acquire"

=============================================================================
