--------------------------- MODULE GpuResourcePool ---------------------------
(***************************************************************************)
(* GpuResourcePool: a fixed number of slots for resources that the caller  *)
(* has allocated, each under a reservation whose generation tells it from  *)
(* earlier ones.  acquire sleeps on the condition variable changed_ while  *)
(* no slot is free; release notifies one sleeper after it has unlocked.    *)
(* The operators below are the critical sections; GpuSharing makes steps   *)
(* of them.                                                                *)
(***************************************************************************)
EXTENDS Naturals, FiniteSets

CONSTANTS Threads, Capacity

ASSUME CapacityAssumption == Capacity \in Nat \ {0}
ASSUME ThreadAssumption == IsFiniteSet(Threads)

VARIABLES
    in_use, generation,   \* GpuResourcePool::slots_
    occupied,             \* in_use_, what the statistics report
    waiting,              \* thread -> its wait on changed_
    woken,                \* sleepers that have been notified
    owing                 \* threads between unlock and notify_one

pool == <<in_use, generation, occupied, waiting, woken, owing>>

Slots == 1..Capacity
Free == {s \in Slots : ~in_use[s]}
Sleepers == {t \in Threads : waiting[t] # "no"} \ woken

PoolInit ==
    /\ in_use = [s \in Slots |-> FALSE] /\ generation = [s \in Slots |-> 0]
    /\ occupied = 0
    /\ waiting = [t \in Threads |-> "no"] /\ woken = {} /\ owing = {}

PoolTypeOK ==
    /\ in_use \in [Slots -> BOOLEAN] /\ generation \in [Slots -> Nat]
    /\ occupied \in Nat
    /\ waiting \in [Threads -> {"no", "finite", "infinite"}]
    /\ woken \subseteq Threads /\ owing \subseteq Threads

\* The first free slot under a new generation.
TakeSlot(s) ==
    /\ s \in Free /\ \A r \in Free : s <= r
    /\ in_use' = [in_use EXCEPT ![s] = TRUE]
    /\ generation' = [generation EXCEPT ![s] = @ + 1]
    /\ occupied' = occupied + 1

\* A timeout of zero is refused at once, any other one sleeps.
Sleep(t, timeout) ==
    /\ Free = {}
    /\ waiting' = [waiting EXCEPT ![t] = timeout]
    /\ UNCHANGED <<in_use, generation, occupied, woken, owing>>

\* The predicate of wait and wait_for decides, whatever ended the sleep.
EndSleep(t) ==
    /\ waiting' = [waiting EXCEPT ![t] = "no"]
    /\ woken' = woken \ {t} /\ UNCHANGED owing
SleepAgain(t) ==
    /\ t \in woken /\ Free = {}
    /\ woken' = woken \ {t}
    /\ UNCHANGED <<in_use, generation, occupied, waiting, owing>>
TimeOut(t) ==
    /\ waiting[t] = "finite" /\ Free = {} /\ EndSleep(t)
    /\ UNCHANGED <<in_use, generation, occupied>>

\* release: a stale or unknown reservation is ignored.  (X_Fault is X with a
\* fault; it is in no specification.)
GiveBack_Silent(t, s, stamp) ==
    /\ in_use' = [in_use EXCEPT ![s] = FALSE]
    /\ occupied' = occupied - 1
    /\ UNCHANGED owing
GiveBack(t, s, stamp) ==
    IF in_use[s] /\ generation[s] = stamp
    THEN /\ in_use' = [in_use EXCEPT ![s] = FALSE]
         /\ occupied' = IF occupied # 0 THEN occupied - 1 ELSE 0
         /\ owing' = owing \cup {t}
    ELSE UNCHANGED <<in_use, occupied, owing>>

NotifyOne(t) ==
    /\ t \in owing /\ owing' = owing \ {t}
    /\ \/ Sleepers = {} /\ UNCHANGED woken
       \/ \E u \in Sleepers : woken' = woken \cup {u}
    /\ UNCHANGED <<in_use, generation, occupied, waiting>>

\* What mkvc_gpu_resource_pool_get_stats reports of the occupancy.
Snapshot == [capacity |-> Capacity, in_use |-> occupied]

(* A slot is free, somebody sleeps for one, and a wakeup is under way: the *)
(* notification after the unlock, a stolen slot and a timeout at the same  *)
(* moment lose none.  The statistics agree with the slots.                 *)
NoLostWakeup ==
    /\ Free # {} /\ Sleepers # {} => woken \cup owing # {}
    /\ Snapshot.in_use = Cardinality(Slots \ Free)

\* Inductive strengthening.  Whoever was notified still sleeps, whoever owes
\* a notification does not, and each free slot somebody sleeps for has one
\* of them on its way.
WakeupsOK ==
    /\ \A t \in woken : waiting[t] # "no"
    /\ \A t \in owing : waiting[t] = "no"
    /\ Sleepers # {} => Cardinality(Free) <= Cardinality(woken) + Cardinality(owing)
PoolOK == PoolTypeOK /\ WakeupsOK /\ occupied = Cardinality(Slots \ Free)

=============================================================================
