--------------------------- MODULE GpuSharingProofs ---------------------------
(***************************************************************************)
(* Proofs about GpuSharing and its GpuResourcePool, for any number of      *)
(* threads, slots, images, exports and references: wakeups, slots, leases, *)
(* owners and completions.                                                 *)
(***************************************************************************)
EXTENDS GpuSharing, FiniteSetTheorems, TLAPS

LEMMA Bounds ==
    /\ Slots \subseteq Nat \ {0} /\ Images \subseteq Nat \ {0} /\ Exports \subseteq Nat \ {0}
    /\ IsFiniteSet(Slots) /\ IsFiniteSet(Images) /\ IsFiniteSet(Exports)
    /\ IsFiniteSet(Threads)
<1>1. MaxImages \in Nat /\ MaxExports \in Nat /\ Capacity \in Nat
  BY BoundAssumption, CapacityAssumption
<1>2. IsFiniteSet(1..MaxImages) /\ IsFiniteSet(1..MaxExports) /\ IsFiniteSet(1..Capacity)
  BY <1>1, FS_Interval
<1> QED
  BY <1>1, <1>2, ThreadAssumption DEF Slots, Images, Exports

\* The steps there are.
LEMMA StepCases ==
    ASSUME Next
    PROVE  \/ Finalize \/ Quiescent
           \/ \E i \in Images : RuntimeDone(i) \/ \E o \in Settled : Produce(i, o)
           \/ \E e \in Exports : Take(e)
           \/ \E t \in Threads :
                \/ AcquireWakes(t) \/ AcquireEnds(t) \/ Notify(t) \/ AcquireNow(t)
                \/ AcquireWaits(t, "finite") \/ AcquireWaits(t, "infinite")
                \/ Cancel(t) \/ Delete(t) \/ Destroy(t) \/ Callback(t)
                \/ ExportOrdered(t) \/ ExportWaited(t) \/ ExportOutput(t)
                \/ ExportReleased(t) \/ ExportFails(t) \/ EncodeReturns(t)
                \/ \E i \in Images :
                    \/ CloseSlot(t, i) \/ Submit(t, i) \/ Consume(t, i) \/ Import(t, i)
                    \/ Output(t, i) \/ Retain(t, i) \/ Release(t, i) \/ Observe(t, i)
                    \/ Encode(t, i) \/ Retire(t, i) \/ \E e \in Exports : Export(t, e, i)
                \/ \E e \in Exports : DeleteTensor(t, e)
<1> QED
  BY DEF Next, Device, Step, Call

-----------------------------------------------------------------------------
(* Completions.                                                            *)

\* Whatever device answers, a settled answer is what the device did, and an
\* answer comes unless an encoder reads a surface that nobody asked about.
LEMMA QueryTrue ==
    ASSUME TypeOK, CompletionsOK, NEW i \in Images
    PROVE  /\ Query(i) \in Settled => Query(i) = work[i]
           /\ Query(i) \in Settled \cup {"none", "pending"}
           /\ Query(i) = "none" => work[i] = "none"
           /\ work[i] \in Settled /\ (i \in reading => source[i] # "va" \/ terminal[i] # "pending")
                => Query(i) = work[i]
           /\ terminal[i] # "pending" => Query(i) = terminal[i]
<1> USE DEF Status, VaStatus, LevelZeroStatus, CudaStatus, FenceStatus, FenceValue, Target,
            Removed, Settled, Query
<1>1. /\ work[i] \in Settled \cup {"none", "pending"} /\ terminal[i] \in Settled \cup {"pending"}
      /\ source[i] = "synced" => work[i] = "complete"
      /\ terminal[i] # "pending" => terminal[i] = work[i]
  BY DEF TypeOK, CompletionsOK
<1>2. CASE terminal[i] # "pending"
  BY <1>1, <1>2
<1>3. CASE terminal[i] = "pending" /\ source[i] = "synced"
  BY <1>1, <1>3
<1>4. CASE terminal[i] = "pending" /\ source[i] = "va"
  BY <1>1, <1>4
<1>5. CASE terminal[i] = "pending" /\ source[i] = "fence"
  BY <1>1, <1>5
<1>6. CASE terminal[i] = "pending" /\ source[i] = "event"
  BY <1>1, <1>6
<1>7. CASE terminal[i] = "pending" /\ source[i] \notin {"synced", "va", "fence", "event"}
  BY <1>1, <1>7
<1> QED
  BY <1>2, <1>3, <1>4, <1>5, <1>6, <1>7

\* What a query leaves: a settled status of a latching source, and no lie.
LEMMA LatchEffect ==
    ASSUME TypeOK, CompletionsOK, NEW i \in Images, Latch(i), work[i] # "none"
    PROVE  /\ terminal' \in [Images -> Settled \cup {"pending"}]
           /\ \A j \in Images \ {i} : terminal'[j] = terminal[j]
           /\ \A j \in Images : terminal'[j] # "pending" => terminal'[j] = work[j]
           /\ \A j \in Images : terminal[j] # "pending" => terminal'[j] = terminal[j]
           /\ Query(i) \in Settled /\ source[i] \in Latching => terminal'[i] # "pending"
<1>1. /\ Query(i) \in Settled \cup {"pending"} /\ (Query(i) \in Settled => Query(i) = work[i])
      /\ terminal[i] # "pending" => Query(i) = terminal[i]
  BY QueryTrue
<1>2. terminal'[i] = IF source[i] \in Latching THEN Query(i) ELSE terminal[i]
  BY DEF Latch, TypeOK
<1>3. \A j \in Images \ {i} : terminal'[j] = terminal[j]
  BY DEF Latch, TypeOK
<1>4. terminal' \in [Images -> Settled \cup {"pending"}]
  BY <1>1 DEF Latch, TypeOK
<1> QED
  BY <1>1, <1>2, <1>3, <1>4 DEF CompletionsOK, Settled

-----------------------------------------------------------------------------
(* The resource pool.                                                      *)

\* Cardinalities of the sets that the pool is counted with.
LEMMA PoolFinite ==
    ASSUME PoolTypeOK
    PROVE  /\ IsFiniteSet(Free) /\ IsFiniteSet(woken) /\ IsFiniteSet(owing)
           /\ IsFiniteSet(Slots \ Free)
           /\ Cardinality(Free) \in Nat /\ Cardinality(woken) \in Nat
           /\ Cardinality(owing) \in Nat /\ Cardinality(Slots \ Free) \in Nat
<1>1. Free \subseteq Slots /\ woken \subseteq Threads /\ owing \subseteq Threads
  BY DEF PoolTypeOK, Free
<1>2. IsFiniteSet(Free) /\ IsFiniteSet(woken) /\ IsFiniteSet(owing) /\ IsFiniteSet(Slots \ Free)
  BY <1>1, Bounds, FS_Subset
<1> QED
  BY <1>2, FS_CardinalityType

\* One of the free slots is taken.
LEMMA TakeEffect ==
    ASSUME PoolTypeOK, NEW s, TakeSlot(s)
    PROVE  /\ s \in Slots /\ ~in_use[s] /\ Free' = Free \ {s}
           /\ Cardinality(Free') = Cardinality(Free) - 1 /\ Free # {}
           /\ Cardinality((Slots \ Free)') = Cardinality(Slots \ Free) + 1
           /\ in_use' \in [Slots -> BOOLEAN] /\ generation' \in [Slots -> Nat]
           /\ in_use'[s] /\ generation'[s] = generation[s] + 1
           /\ \A r \in Slots \ {s} : in_use'[r] = in_use[r] /\ generation'[r] = generation[r]
<1>1. s \in Slots /\ ~in_use[s] /\ s \in Free
  BY DEF TakeSlot, Free
<1>2. /\ in_use' \in [Slots -> BOOLEAN] /\ generation' \in [Slots -> Nat]
      /\ in_use'[s] /\ generation'[s] = generation[s] + 1
      /\ \A r \in Slots \ {s} : in_use'[r] = in_use[r] /\ generation'[r] = generation[r]
  BY <1>1 DEF TakeSlot, PoolTypeOK
<1>3. Free' = Free \ {s} /\ (Slots \ Free)' = (Slots \ Free) \cup {s} /\ s \notin Slots \ Free
  BY <1>1, <1>2 DEF Free
<1>4. Cardinality(Free') = Cardinality(Free) - 1
  BY <1>1, <1>3, PoolFinite, FS_RemoveElement
<1>5. Cardinality((Slots \ Free)') = Cardinality(Slots \ Free) + 1
  BY <1>3, PoolFinite, FS_AddElement
<1> QED
  BY <1>1, <1>2, <1>3, <1>4, <1>5

\* The reservation of a slot in use is given back, and a wakeup is owed.
LEMMA GiveEffect ==
    ASSUME PoolOK, NEW t \in Threads \ owing, waiting[t] = "no",
           NEW s \in Slots, in_use[s], GiveBack(t, s, generation[s]),
           generation' = generation, waiting' = waiting, woken' = woken
    PROVE  /\ PoolOK'
           /\ ~in_use'[s] /\ \A r \in Slots \ {s} : in_use'[r] = in_use[r]
<1> USE DEF PoolOK
<1>1. /\ in_use' = [in_use EXCEPT ![s] = FALSE] /\ owing' = owing \cup {t}
      /\ occupied' = IF occupied # 0 THEN occupied - 1 ELSE 0
  BY DEF GiveBack
<1>2. ~in_use'[s] /\ \A r \in Slots \ {s} : in_use'[r] = in_use[r]
  BY <1>1 DEF PoolTypeOK
<1>3. Free' = Free \cup {s} /\ s \notin Free /\ (Slots \ Free)' = (Slots \ Free) \ {s}
      /\ s \in Slots \ Free
  BY <1>2 DEF Free
<1>4. Cardinality(Free') = Cardinality(Free) + 1 /\ Cardinality(owing') = Cardinality(owing) + 1
  BY <1>1, <1>3, PoolFinite, FS_AddElement
<1>5. /\ Cardinality((Slots \ Free)') = Cardinality(Slots \ Free) - 1
      /\ Cardinality((Slots \ Free)') \in Nat
  BY <1>3, PoolFinite, FS_RemoveElement, FS_CardinalityType
<1>6. PoolTypeOK'
  BY <1>1 DEF PoolTypeOK
<1>7. occupied' = Cardinality(Slots \ Free)'
  <2>1. occupied = Cardinality(Slots \ Free) /\ Cardinality(Slots \ Free) # 0
    BY <1>5, PoolFinite
  <2> QED
    BY <1>1, <1>5, <2>1
<1>8. Sleepers' = Sleepers
  BY DEF Sleepers
<1>9. WakeupsOK'
  BY <1>1, <1>4, <1>8, PoolFinite DEF WakeupsOK
<1> QED
  BY <1>2, <1>6, <1>7, <1>9

\* A free slot is taken, at once or by one who slept.
LEMMA TakeKeeps ==
    ASSUME PoolOK, NEW s, TakeSlot(s), NEW t \in Threads,
           \/ UNCHANGED <<waiting, woken, owing>>
           \/ EndSleep(t)
    PROVE  PoolOK'
<1> USE DEF PoolOK
<1>1. Free' = Free \ {s} /\ Cardinality(Free') = Cardinality(Free) - 1
  BY TakeEffect
<1>2. PoolTypeOK'
  <2>1. in_use' \in [Slots -> BOOLEAN] /\ generation' \in [Slots -> Nat]
    BY TakeEffect
  <2>3. occupied' \in Nat
    BY DEF PoolTypeOK, TakeSlot
  <2>2. /\ waiting' \in [Threads -> {"no", "finite", "infinite"}]
        /\ woken' \subseteq Threads /\ owing' \subseteq Threads
    BY DEF PoolTypeOK, EndSleep
  <2> QED
    BY <2>1, <2>2, <2>3 DEF PoolTypeOK
<1>3. occupied' = Cardinality(Slots \ Free)'
  BY TakeEffect DEF TakeSlot
<1>4. CASE UNCHANGED <<waiting, woken, owing>>
  <2>1. WakeupsOK'
    BY <1>1, <1>4, PoolFinite DEF WakeupsOK, Sleepers
  <2> QED
    BY <1>2, <1>3, <2>1
<1>5. CASE EndSleep(t)
  <2>1. /\ waiting' = [waiting EXCEPT ![t] = "no"] /\ woken' = woken \ {t} /\ owing' = owing
    BY <1>5 DEF EndSleep
  <2>2. /\ \A u \in woken' : waiting'[u] # "no"
        /\ \A u \in owing' : waiting'[u] = "no"
    BY <2>1 DEF WakeupsOK, PoolTypeOK
  <2>3. Sleepers' \subseteq Sleepers
    BY <2>1 DEF Sleepers, PoolTypeOK
  <2>4. Cardinality(woken') >= Cardinality(woken) - 1 /\ Cardinality(woken') \in Nat
    <3>1. Cardinality(woken') = IF t \in woken THEN Cardinality(woken) - 1 ELSE Cardinality(woken)
      BY <2>1, PoolFinite, FS_RemoveElement
    <3>2. Cardinality(woken) \in Nat /\ Cardinality(woken') \in Nat
      BY <2>1, PoolFinite, FS_RemoveElement, FS_CardinalityType
    <3> QED
      BY <3>1, <3>2
  <2>5. Sleepers' # {} => Cardinality(Free') <= Cardinality(woken') + Cardinality(owing')
    BY <1>1, <1>2, <2>1, <2>3, <2>4, PoolFinite DEF WakeupsOK
  <2> QED
    BY <1>2, <1>3, <2>2, <2>5 DEF WakeupsOK
<1> QED
  BY <1>4, <1>5

\* Whoever finds no free slot may sleep, and may give up.
LEMMA WaitKeeps ==
    ASSUME PoolOK, NEW t \in Threads,
           \/ /\ t \notin owing /\ waiting[t] = "no"
              /\ \E timeout \in {"finite", "infinite"} : Sleep(t, timeout)
           \/ SleepAgain(t) \/ TimeOut(t)
    PROVE  PoolOK'
<1> USE DEF PoolOK
<1>1. Free = {} /\ in_use' = in_use /\ generation' = generation /\ occupied' = occupied
  BY DEF Sleep, SleepAgain, TimeOut
<1>2. Free' = {} /\ (Slots \ Free)' = Slots \ Free
  BY <1>1 DEF Free
<1>3. /\ PoolTypeOK'
      /\ \A u \in woken' : waiting'[u] # "no"
      /\ \A u \in owing' : waiting'[u] = "no"
  <2>1. ASSUME t \notin owing, NEW timeout \in {"finite", "infinite"}, Sleep(t, timeout)
        PROVE  /\ PoolTypeOK'
               /\ \A u \in woken' : waiting'[u] # "no"
               /\ \A u \in owing' : waiting'[u] = "no"
    <3>1. waiting' = [waiting EXCEPT ![t] = timeout] /\ woken' = woken /\ owing' = owing
      BY <2>1 DEF Sleep
    <3> QED
      BY <1>1, <2>1, <3>1 DEF PoolTypeOK, WakeupsOK
  <2>2. CASE SleepAgain(t)
    BY <2>2 DEF SleepAgain, PoolTypeOK, WakeupsOK
  <2>3. CASE TimeOut(t)
    BY <2>3 DEF TimeOut, EndSleep, PoolTypeOK, WakeupsOK
  <2> QED
    BY <2>1, <2>2, <2>3
<1>4. Cardinality(Free') = 0 /\ Cardinality(woken') \in Nat /\ Cardinality(owing') \in Nat
  <2>1. IsFiniteSet(woken') /\ IsFiniteSet(owing')
    BY <1>3, Bounds, FS_Subset DEF PoolTypeOK
  <2> QED
    BY <1>2, <2>1, FS_EmptySet, FS_CardinalityType
<1>5. Cardinality(Free') <= Cardinality(woken') + Cardinality(owing')
  BY <1>4
<1>6. WakeupsOK'
  BY <1>3, <1>5 DEF WakeupsOK
<1> QED
  BY <1>1, <1>2, <1>3, <1>6

\* The notification after a release wakes a sleeper, if there is one.
LEMMA NotifyKeeps ==
    ASSUME PoolOK, NEW t \in Threads, NotifyOne(t)
    PROVE  PoolOK'
<1> USE DEF PoolOK
<1>1. /\ t \in owing /\ owing' = owing \ {t} /\ waiting' = waiting
      /\ in_use' = in_use /\ generation' = generation /\ occupied' = occupied
  BY DEF NotifyOne
<1>2. Free' = Free /\ (Slots \ Free)' = Slots \ Free
  BY <1>1 DEF Free
<1>3. Cardinality(owing') = Cardinality(owing) - 1
  BY <1>1, PoolFinite, FS_RemoveElement
<1>4. CASE Sleepers = {} /\ woken' = woken
  <2>1. Sleepers' = {}
    BY <1>1, <1>4 DEF Sleepers
  <2> QED
    BY <1>1, <1>2, <1>4, <2>1 DEF WakeupsOK, PoolTypeOK
<1>5. ASSUME NEW u \in Sleepers, woken' = woken \cup {u} PROVE PoolOK'
  <2>1. u \in Threads /\ u \notin woken /\ waiting[u] # "no"
    BY <1>5 DEF Sleepers
  <2>2. Cardinality(woken') = Cardinality(woken) + 1
    BY <1>5, <2>1, PoolFinite, FS_AddElement
  <2>3. Cardinality(Free') <= Cardinality(woken') + Cardinality(owing')
    BY <1>2, <1>3, <2>2, <1>5, PoolFinite DEF WakeupsOK
  <2>4. PoolTypeOK'
    BY <1>1, <1>5, <2>1 DEF PoolTypeOK
  <2>5. WakeupsOK'
    BY <1>1, <1>5, <2>1, <2>3 DEF WakeupsOK
  <2> QED
    BY <1>1, <1>2, <2>4, <2>5
<1> QED
  BY <1>4, <1>5 DEF NotifyOne

LEMMA PoolSame ==
    ASSUME PoolOK, UNCHANGED <<in_use, generation, occupied, waiting, woken, owing>>
    PROVE  PoolOK'
<1> QED
  BY DEF PoolOK, PoolTypeOK, WakeupsOK, Sleepers, Free, Slots

-----------------------------------------------------------------------------
(* What the parts of the actions do.                                       *)

\* The owner of an image that still has one goes: its slot or its deleter.
LEMMA OwnerGoneEffect ==
    ASSUME TypeOK, PoolOK, ReservedOK, NEW t \in Threads, Ready(t), NEW i \in Images, Kept(i),
           Pooled(i) => deletes[i] = 0, OwnerGone(t, i),
           UNCHANGED <<generation, waiting, woken, kind, slot, stamp>>
    PROVE  /\ PoolOK' /\ ReservedOK' /\ Lost(i)' /\ (Pooled(i) => deletes'[i] = 0)
           /\ reserved' \subseteq Images /\ deletes' \in [Images -> Nat]
           /\ \A j \in Images \ {i} :
                (j \in reserved' <=> j \in reserved) /\ deletes'[j] = deletes[j]
           /\ deletes'[i] <= 1
<1>1. waiting[t] = "no" /\ t \notin owing /\ kind' = kind
  BY DEF Ready
<1>2. CASE Pooled(i)
  <2>1. /\ GiveBack(t, slot[i], stamp[i]) /\ reserved' = reserved \ {i} /\ deletes' = deletes
        /\ i \in reserved
    BY <1>2 DEF OwnerGone, Kept
  <2>2. slot[i] \in Slots /\ in_use[slot[i]] /\ generation[slot[i]] = stamp[i]
    BY <2>1 DEF ReservedOK
  <2>3. /\ PoolOK'
        /\ ~in_use'[slot[i]] /\ \A r \in Slots \ {slot[i]} : in_use'[r] = in_use[r]
    BY <1>1, <2>1, <2>2, GiveEffect
  <2>4. ReservedOK'
    BY <2>1, <2>3 DEF ReservedOK, Pooled
  <2>5. Lost(i)'
    BY <1>1, <1>2, <2>1 DEF Lost, Pooled
  <2> QED
    BY <1>2, <2>1, <2>3, <2>4, <2>5 DEF TypeOK
<1>3. CASE ~Pooled(i)
  <2>1. /\ deletes' = [deletes EXCEPT ![i] = @ + 1] /\ deletes[i] = 0
        /\ UNCHANGED <<in_use, occupied, owing, reserved>>
    BY <1>3 DEF OwnerGone, Kept
  <2>2. PoolOK'
    BY <2>1, PoolSame
  <2>3. ReservedOK'
    BY <2>1 DEF ReservedOK, Pooled
  <2>4. deletes'[i] = 1 /\ deletes' \in [Images -> Nat]
        /\ \A j \in Images \ {i} : deletes'[j] = deletes[j]
    BY <2>1 DEF TypeOK
  <2>5. Lost(i)'
    BY <1>1, <1>3, <2>4 DEF Lost, Pooled
  <2> QED
    BY <1>3, <2>1, <2>2, <2>3, <2>4, <2>5 DEF TypeOK
<1> QED
  BY <1>2, <1>3

\* An image is made in a free slot.
LEMMA ReserveEffect ==
    ASSUME TypeOK, ReservedOK, NEW t \in Threads, NEW i \in Images, i \notin reserved, NEW s,
           Reserve(t, i, s)
    PROVE  /\ ReservedOK'
           /\ s \in Slots /\ slot' \in [Images -> Slots \cup {0}] /\ stamp' \in [Images -> Nat]
           /\ reserved' = reserved \cup {i}
           /\ kind' \in [Images -> AllKinds \cup {"none"}] /\ kind'[i] # "foreign"
           /\ stage' = [stage EXCEPT ![i] = "writable"]
           /\ \A j \in Images \ {i} : kind'[j] = kind[j]
<1>1. /\ TakeSlot(s) /\ slot' = [slot EXCEPT ![i] = s]
      /\ stamp' = [stamp EXCEPT ![i] = generation'[s]] /\ reserved' = reserved \cup {i}
  BY DEF Reserve
<1>2. PICK k \in Kinds[i] \ {"foreign"} :
        kind' = [kind EXCEPT ![i] = k] /\ stage' = [stage EXCEPT ![i] = "writable"]
  BY DEF Reserve
<1>3. k \in AllKinds
  BY <1>2, KindAssumption DEF Images
<1>4. kind' \in [Images -> AllKinds \cup {"none"}] /\ kind'[i] = k
      /\ \A j \in Images \ {i} : kind'[j] = kind[j]
  BY <1>2, <1>3 DEF TypeOK
<1>5. /\ s \in Slots /\ ~in_use[s] /\ in_use'[s] /\ generation' \in [Slots -> Nat]
      /\ \A r \in Slots \ {s} : in_use'[r] = in_use[r] /\ generation'[r] = generation[r]
  BY <1>1, TakeEffect DEF TypeOK
<1>6. /\ slot'[i] = s /\ stamp'[i] = generation'[s]
      /\ \A j \in Images \ {i} : slot'[j] = slot[j] /\ stamp'[j] = stamp[j]
      /\ slot' \in [Images -> Slots \cup {0}] /\ stamp' \in [Images -> Nat]
  BY <1>1, <1>5 DEF TypeOK
<1>7. \A j \in reserved : j \in Images /\ j # i /\ slot[j] # s /\ slot[j] \in Slots
  BY <1>5 DEF ReservedOK, TypeOK
<1>8. \A j \in reserved' : /\ Pooled(j)' /\ slot'[j] \in Slots
                           /\ in_use'[slot'[j]] /\ generation'[slot'[j]] = stamp'[j]
  BY <1>1, <1>2, <1>4, <1>5, <1>6, <1>7 DEF ReservedOK, Pooled
<1>9. \A j, k1 \in reserved' : slot'[j] = slot'[k1] => j = k1
  BY <1>1, <1>6, <1>7 DEF ReservedOK
<1> QED
  BY <1>1, <1>2, <1>4, <1>5, <1>6, <1>8, <1>9 DEF ReservedOK

\* A reference goes.  With the last one the thread goes on to give the image
\* back: a handle recycles at once when the completions are done.
LEMMA UnrefEffect ==
    ASSUME TypeOK, CompletionsOK, NEW t \in Threads, NEW i \in Images, refs[i] > 0,
           work[i] # "none", Unref(t, i)
    PROVE  /\ refs' \in [Images -> Nat] /\ refs'[i] = refs[i] - 1
           /\ \A j \in Images \ {i} : refs'[j] = refs[j]
           /\ recycled' \subseteq Images /\ recycled \subseteq recycled'
           /\ terminal' \in [Images -> Settled \cup {"pending"}]
           /\ \A j \in Images : terminal'[j] # "pending" => terminal'[j] = work[j]
           /\ \A j \in Images : terminal[j] # "pending" => terminal'[j] = terminal[j]
           /\ \A j \in Images \ {i} : terminal'[j] = terminal[j]
           /\ pc' = [pc EXCEPT ![t] = pc'[t]] /\ item' = [item EXCEPT ![t] = item'[t]]
           /\ \/ refs'[i] > 0 /\ pc'[t] = "idle" /\ item'[t] = 0 /\ recycled' = recycled
              \/ /\ refs'[i] = 0 /\ item'[t] = i /\ pc'[t] \in {"delete", "destroy", "callback"}
                 /\ kind[i] = "output" => i \in recycled'
                 /\ pc'[t] = "callback" => work[i] \in Settled
<1>1. refs' = [refs EXCEPT ![i] = @ - 1]
  BY DEF Unref
<1>2. /\ refs' \in [Images -> Nat] /\ refs'[i] = refs[i] - 1
      /\ \A j \in Images \ {i} : refs'[j] = refs[j]
  BY <1>1 DEF TypeOK
<1>3. CASE refs[i] > 1
  <2>1. pc' = [pc EXCEPT ![t] = "idle"] /\ item' = [item EXCEPT ![t] = 0]
        /\ recycled' = recycled /\ terminal' = terminal
    BY <1>3 DEF Unref, Return, Goto
  <2>2. pc'[t] = "idle" /\ item'[t] = 0 /\ refs'[i] > 0
    BY <1>2, <1>3, <2>1 DEF TypeOK
  <2> QED
    BY <1>2, <2>1, <2>2 DEF TypeOK, CompletionsOK
<1>4. CASE ~(refs[i] > 1) /\ kind[i] = "output"
  <2>1. pc' = [pc EXCEPT ![t] = "destroy"] /\ item' = [item EXCEPT ![t] = i]
        /\ recycled' = recycled \cup {i} /\ terminal' = terminal
    BY <1>4 DEF Unref, Goto
  <2>2. pc'[t] = "destroy" /\ item'[t] = i /\ refs'[i] = 0
    BY <1>2, <1>4, <2>1 DEF TypeOK
  <2> QED
    BY <1>2, <2>1, <2>2 DEF TypeOK, CompletionsOK
<1>5. CASE ~(refs[i] > 1) /\ kind[i] # "output"
  <2>1. Latch(i)
    BY <1>5 DEF Unref
  <2>2. /\ terminal' \in [Images -> Settled \cup {"pending"}]
        /\ \A j \in Images : terminal'[j] # "pending" => terminal'[j] = work[j]
        /\ \A j \in Images : terminal[j] # "pending" => terminal'[j] = terminal[j]
        /\ \A j \in Images \ {i} : terminal'[j] = terminal[j]
    BY <2>1, LatchEffect
  <2>3. refs'[i] = 0
    BY <1>2, <1>5 DEF TypeOK
  <2>4. CASE CompletionsDone(i)
    <3>1. pc' = [pc EXCEPT ![t] = "callback"] /\ item' = [item EXCEPT ![t] = i]
          /\ recycled' = recycled \cup {i}
      BY <1>5, <2>4 DEF Unref, Goto
    <3>2. pc'[t] = "callback" /\ item'[t] = i /\ recycled' \subseteq Images
      BY <3>1 DEF TypeOK
    <3>3. work[i] \in Settled
      BY <2>4, QueryTrue DEF CompletionsDone
    <3> QED
      BY <1>2, <1>5, <2>2, <2>3, <3>1, <3>2, <3>3
  <2>5. CASE ~CompletionsDone(i)
    <3>1. pc' = [pc EXCEPT ![t] = "delete"] /\ item' = [item EXCEPT ![t] = i]
          /\ recycled' = recycled
      BY <1>5, <2>5 DEF Unref, Goto
    <3>2. pc'[t] = "delete" /\ item'[t] = i /\ recycled' \subseteq Images
      BY <3>1 DEF TypeOK
    <3> QED
      BY <1>2, <1>5, <2>2, <2>3, <3>1, <3>2
  <2> QED
    BY <2>4, <2>5
<1> QED
  BY <1>3, <1>4, <1>5 DEF TypeOK

\* Where an import leads: no frame, a handle, or a core that must die.
LEMMA ImportSources ==
    ASSUME NEW c, NEW w, NEW r \in Imports(c, w), r[1] = "ok"
    PROVE  r[2] \in Sources /\ (r[2] = "synced" => w = "complete")
<1>1. \/ r[2] = ExternalSource(c) /\ (c.query \/ w = "complete")
      \/ r[2] \in {"fence", "va", "event", "cuda"}
  BY DEF Imports
<1> QED
  BY <1>1 DEF ExternalSource, Sources

LEMMA ImportEffect ==
    ASSUME TypeOK, NEW t \in Threads, NEW i \in Images, Import(t, i)
    PROVE  /\ Idle(t) /\ stage[i] = "writable" /\ work[i] # "none"
           /\ event' \in [Images -> BOOLEAN]
           /\ UNCHANGED <<pool, kind, slot, stamp, reserved, work, terminal, recycled,
                          tracked, reading, owner, tensor, initialized>>
           /\ \E src \in Sources :
                /\ src = "synced" => work[i] = "complete"
                /\ \/ /\ stage' = [stage EXCEPT ![i] = "refused"] /\ Goto(t, "cancel", i)
                      /\ UNCHANGED <<source, refs, client, accepted>>
                   \/ /\ MakeHandle(i, src) /\ accepted' = accepted \cup {i}
                      /\ UNCHANGED <<pc, item>>
                   \/ /\ stage' = [stage EXCEPT ![i] = "refused"] /\ Goto(t, "destroy", i)
                      /\ source' = [source EXCEPT ![i] = src]
                      /\ UNCHANGED <<refs, client, accepted>>
<1> DEFINE Outcome(c, r) ==
        /\ event' = [event EXCEPT ![i] = r[1] = "ok" /\ 3 \in c.handles]
        /\ IF r[1] # "ok"
           THEN /\ stage' = [stage EXCEPT ![i] = "refused"]
                /\ Goto(t, "cancel", i)
                /\ UNCHANGED <<source, refs, client, accepted>>
           ELSE \/ MakeHandle(i, r[2]) /\ Accept(i, TRUE) /\ UNCHANGED thread
                \/ /\ stage' = [stage EXCEPT ![i] = "refused"]
                   /\ source' = [source EXCEPT ![i] = r[2]]
                   /\ Accept(i, FALSE) /\ Goto(t, "destroy", i)
                   /\ UNCHANGED <<refs, client>>
<1>0. PICK c \in Configs[kind[i]] : \E r \in Imports(c, work[i]) : Outcome(c, r)
  BY DEF Import
<1>1. PICK r \in Imports(c, work[i]) : Outcome(c, r)
  BY <1>0
<1>2. event' \in [Images -> BOOLEAN]
  BY <1>1 DEF TypeOK
<1>3. CASE r[1] # "ok"
  <2>1. "none" \in Sources
    BY DEF Sources
  <2> QED
    BY <1>1, <1>2, <1>3, <2>1 DEF Import
<1>4. CASE r[1] = "ok"
  <2>1. r[2] \in Sources /\ (r[2] = "synced" => work[i] = "complete")
    BY <1>1, <1>4, ImportSources
  <2> QED
    BY <1>1, <1>2, <1>4, <2>1 DEF Import, Accept, thread
<1> QED
  BY <1>3, <1>4

\* A tensor changes.
LEMMA SetEffect ==
    ASSUME TypeOK, NEW e \in Exports, NEW i \in Images \cup {0},
           NEW st \in {"none", "exporting", "unused", "used"},
           NEW o \in {"none", "stream", "host"}, Set(e, i, st, o)
    PROVE  /\ tensor' \in [Exports -> [image : Images \cup {0},
                                       state : {"none", "exporting", "unused", "used"},
                                       order : {"none", "stream", "host"}]]
           /\ tensor'[e].image = i /\ tensor'[e].state = st /\ tensor'[e].order = o
           /\ \A d \in Exports \ {e} : tensor'[d] = tensor[d]
<1> QED
  BY DEF Set, TypeOK

LEMMA GotoEffect ==
    ASSUME TypeOK, NEW t \in Threads, NEW n \in Nat,
           NEW l \in {"idle", "cancel", "delete", "destroy", "callback", "export", "encode"},
           Goto(t, l, n)
    PROVE  /\ pc' \in [Threads -> {"idle", "cancel", "delete", "destroy", "callback",
                                   "export", "encode"}]
           /\ item' \in [Threads -> Nat] /\ pc'[t] = l /\ item'[t] = n
           /\ \A u \in Threads \ {t} : pc'[u] = pc[u] /\ item'[u] = item[u]
<1> QED
  BY DEF Goto, TypeOK

-----------------------------------------------------------------------------
(* The pool and the reservations.                                          *)

LEMMA ReservedSame ==
    ASSUME ReservedOK, UNCHANGED <<in_use, generation, reserved, slot, stamp>>,
           \A i \in reserved : kind'[i] = kind[i]
    PROVE  ReservedOK'
<1> QED
  BY DEF ReservedOK, Pooled, Slots

LEMMA PoolStep ==
    ASSUME TypeOK, PoolOK, ReservedOK, FinishingOK, OwnersOK, Next
    PROVE  PoolOK' /\ ReservedOK'
<1> DEFINE Untouched == UNCHANGED <<in_use, generation, occupied, waiting, woken, owing,
                                    kind, reserved, slot, stamp>>
<1>0. ASSUME Untouched PROVE PoolOK' /\ ReservedOK'
  BY <1>0, PoolSame, ReservedSame
<1>f. \A i \in Fresh : i \in Images /\ i \notin reserved
  BY DEF Fresh, OwnersOK, OwnerOK
<1>1. ASSUME NEW t \in Threads, AcquireNow(t) \/ AcquireWakes(t) PROVE PoolOK' /\ ReservedOK'
  <2>1. PICK i \in Fresh, s \in Free : Reserve(t, i, s)
    BY <1>1 DEF AcquireNow, AcquireWakes
  <2>2. ReservedOK'
    BY <1>f, <2>1, ReserveEffect
  <2>3. TakeSlot(s) /\ (EndSleep(t) \/ UNCHANGED <<waiting, woken, owing>>)
    BY <1>1, <2>1 DEF Reserve, AcquireNow, AcquireWakes
  <2> QED
    BY <2>2, <2>3, TakeKeeps
<1>2. ASSUME NEW t \in Threads,
             \/ AcquireWaits(t, "finite") \/ AcquireWaits(t, "infinite") \/ AcquireEnds(t)
      PROVE  PoolOK' /\ ReservedOK'
  <2>1. \/ /\ t \notin owing /\ waiting[t] = "no"
           /\ \E timeout \in {"finite", "infinite"} : Sleep(t, timeout)
        \/ SleepAgain(t) \/ TimeOut(t)
    BY <1>2 DEF AcquireWaits, AcquireEnds, Idle, Ready
  <2>2. UNCHANGED <<in_use, generation, reserved, slot, stamp, kind>>
    BY <1>2 DEF AcquireWaits, AcquireEnds, Sleep, SleepAgain, TimeOut, image
  <2> QED
    BY <2>1, <2>2, WaitKeeps, ReservedSame
<1>3. ASSUME NEW t \in Threads, Notify(t) PROVE PoolOK' /\ ReservedOK'
  <2>1. NotifyOne(t) /\ UNCHANGED <<in_use, generation, reserved, slot, stamp, kind>>
    BY <1>3 DEF Notify, NotifyOne, image
  <2> QED
    BY <2>1, NotifyKeeps, ReservedSame
<1>4. ASSUME NEW t \in Threads, NEW i \in Images, CloseSlot(t, i) PROVE PoolOK' /\ ReservedOK'
  <2>1. /\ Ready(t) /\ OwnerGone(t, i) /\ stage[i] = "writable"
        /\ UNCHANGED <<generation, waiting, woken, kind, slot, stamp>>
    BY <1>4 DEF CloseSlot, Idle
  <2>2. Kept(i) /\ (Pooled(i) => deletes[i] = 0)
    BY <2>1 DEF OwnersOK, OwnerOK
  <2> QED
    BY <2>1, <2>2, OwnerGoneEffect
<1>5. ASSUME NEW t \in Threads, Cancel(t) \/ Callback(t) PROVE PoolOK' /\ ReservedOK'
  <2>1. /\ Ready(t) /\ Finishing(t)
        /\ UNCHANGED <<generation, waiting, woken, kind, slot, stamp>>
        /\ \/ OwnerGone(t, item[t])
           \/ UNCHANGED <<in_use, occupied, owing, reserved, deletes>>
    BY <1>5 DEF Cancel, Callback, At, Finishing
  <2>2. item[t] \in Images /\ Kept(item[t]) /\ (Pooled(item[t]) => deletes[item[t]] = 0)
    BY <2>1 DEF FinishingOK, OwnersOK, OwnerOK, Finished
  <2>3. CASE OwnerGone(t, item[t])
    BY <2>1, <2>2, <2>3, OwnerGoneEffect
  <2>4. CASE UNCHANGED <<in_use, occupied, owing, reserved, deletes>>
    BY <1>0, <2>1, <2>4
  <2> QED
    BY <2>1, <2>3, <2>4
<1>6. ASSUME NEW t \in Threads, NEW i \in Images, Consume(t, i) PROVE PoolOK' /\ ReservedOK'
  <2>1. /\ UNCHANGED <<in_use, generation, occupied, waiting, woken, owing,
                       reserved, slot, stamp>>
        /\ i \in Fresh /\ kind' = [kind EXCEPT ![i] = "foreign"]
    BY <1>6 DEF Consume, pool
  <2>2. \A j \in reserved : kind'[j] = kind[j]
    BY <1>f, <2>1 DEF TypeOK
  <2> QED
    BY <2>1, <2>2, PoolSame, ReservedSame
<1>7. ASSUME \/ Finalize \/ Quiescent \/ \E e \in Exports : Take(e)
             \/ \E i \in Images : RuntimeDone(i) \/ \E o \in Settled : Produce(i, o)
      PROVE  PoolOK' /\ ReservedOK'
  <2>1. Untouched
    BY <1>7 DEF Finalize, Quiescent, vars, Take, RuntimeDone, Produce, pool, image
  <2> QED
    BY <1>0, <2>1
<1>8. ASSUME NEW t \in Threads,
             \/ Delete(t) \/ Destroy(t) \/ ExportOrdered(t) \/ ExportWaited(t)
             \/ ExportOutput(t) \/ ExportReleased(t) \/ ExportFails(t) \/ EncodeReturns(t)
             \/ \E e \in Exports : DeleteTensor(t, e)
      PROVE  PoolOK' /\ ReservedOK'
  <2>1. Untouched
    BY <1>8 DEF Delete, Destroy, ExportOrdered, ExportWaited, ExportOutput, ExportReleased,
                ExportFails, EncodeReturns, DeleteTensor, pool, image
  <2> QED
    BY <1>0, <2>1
<1>9. ASSUME NEW t \in Threads, NEW i \in Images,
             \/ Submit(t, i) \/ Import(t, i) \/ Output(t, i) \/ Retain(t, i)
             \/ Release(t, i) \/ Observe(t, i) \/ Encode(t, i) \/ Retire(t, i)
             \/ \E e \in Exports : Export(t, e, i)
      PROVE  PoolOK' /\ ReservedOK'
  <2>1. Untouched
    BY <1>9 DEF Submit, Import, Output, Retain, Release, Observe, Encode, Retire, Export,
                pool, image
  <2> QED
    BY <1>0, <2>1
<1> QED
  BY <1>1, <1>2, <1>3, <1>4, <1>5, <1>6, <1>7, <1>8, <1>9, StepCases

-----------------------------------------------------------------------------
(* Types.                                                                  *)

LEMMA OneOf ==
    ASSUME NEW T, NEW i
    PROVE  Cardinality(T \cap {i}) = IF i \in T THEN 1 ELSE 0
<1>1. CASE i \in T
  <2>1. T \cap {i} = {i}
    BY <1>1
  <2> QED
    BY <1>1, <2>1, FS_Singleton
<1>2. CASE i \notin T
  <2>1. T \cap {i} = {}
    BY <1>2
  <2> QED
    BY <1>2, <2>1, FS_EmptySet
<1> QED
  BY <1>1, <1>2

\* Whoever has a lease is counted.
LEMMA LeasesBound ==
    ASSUME TypeOK, RefsOK, NEW i \in Images
    PROVE  /\ Cardinality(tracked \cap {i}) = IF i \in tracked THEN 1 ELSE 0
           /\ IsFiniteSet({e \in Exports : Leased(e, i)})
           /\ Cardinality({e \in Exports : Leased(e, i)}) \in Nat
           /\ Leases(i) \in Nat /\ client[i] \in Nat /\ refs[i] \in Nat
           /\ client[i] <= refs[i] /\ Leases(i) <= refs[i]
           /\ i \in tracked => refs[i] > 0
           /\ \A e \in Exports : Leased(e, i) => refs[i] > 0
           /\ refs[i] > 0 => stage[i] = "frame"
<1>1. Cardinality(tracked \cap {i}) = IF i \in tracked THEN 1 ELSE 0
  BY OneOf
<1>2. IsFiniteSet({e \in Exports : Leased(e, i)})
  BY Bounds, FS_Subset
<1>3. Cardinality({e \in Exports : Leased(e, i)}) \in Nat
  BY <1>2, FS_CardinalityType
<1>4. \A e \in Exports : Leased(e, i) => Cardinality({d \in Exports : Leased(d, i)}) # 0
  BY <1>2, FS_EmptySet
<1>5. client[i] \in Nat /\ refs[i] \in Nat
  BY DEF TypeOK
<1>6. Leases(i) <= refs[i] /\ (refs[i] > 0 => stage[i] = "frame")
  BY DEF RefsOK
<1> HIDE DEF RefsOK
<1> QED
  BY <1>1, <1>2, <1>3, <1>4, <1>5, <1>6 DEF Leases

\* A thread inside an export or an encoder call works on a frame; only the
\* result of a processor may have been given back meanwhile.
LEMMA CallFrames ==
    ASSUME TypeOK, RefsOK, CallsOK, TensorsOK, CompletionsOK, NEW t \in Threads
    PROVE  /\ pc[t] = "export" =>
                /\ item[t] \in Exports /\ Source(t) \in Images /\ stage[Source(t)] = "frame"
                /\ work[Source(t)] # "none"
                /\ kind[Source(t)] # "output" => refs[Source(t)] > 0 /\ Leased(item[t], Source(t))
           /\ pc[t] = "encode" =>
                /\ item[t] \in Images /\ refs[item[t]] > 0 /\ stage[item[t]] = "frame"
                /\ work[item[t]] # "none"
<1>1. ASSUME pc[t] = "export"
      PROVE  /\ item[t] \in Exports /\ Source(t) \in Images /\ stage[Source(t)] = "frame"
             /\ work[Source(t)] # "none"
             /\ kind[Source(t)] # "output" => Leased(item[t], Source(t))
  BY <1>1 DEF CallsOK, TensorsOK, CompletionsOK, Source, Leased
<1>2. ASSUME pc[t] = "encode"
      PROVE  item[t] \in Images /\ refs[item[t]] > 0 /\ stage[item[t]] = "frame"
  <2>1. item[t] \in Images /\ client[item[t]] > 0
    BY <1>2 DEF CallsOK
  <2>2. client[item[t]] <= refs[item[t]] /\ (refs[item[t]] > 0 => stage[item[t]] = "frame")
        /\ client[item[t]] \in Nat /\ refs[item[t]] \in Nat
    BY <2>1, LeasesBound
  <2> QED
    BY <2>1, <2>2
<1> QED
  BY <1>1, <1>2, LeasesBound DEF CompletionsOK

\* The type invariant without the pool's part.
ImageType ==
    /\ kind \in [Images -> AllKinds \cup {"none"}]
    /\ stage \in [Images -> {"none", "writable", "frame", "refused", "gone"}]
    /\ slot \in [Images -> Slots \cup {0}] /\ stamp \in [Images -> Nat]
    /\ reserved \subseteq Images
ProducerType ==
    /\ work \in [Images -> Settled \cup {"none", "pending"}]
    /\ source \in [Images -> Sources] /\ event \in [Images -> BOOLEAN]
    /\ terminal \in [Images -> Settled \cup {"pending"}]
LeaseType ==
    /\ refs \in [Images -> Nat] /\ client \in [Images -> Nat]
    /\ accepted \subseteq Images /\ recycled \subseteq Images
    /\ tracked \subseteq Images /\ reading \subseteq Images
OwnerType ==
    /\ released \in [Images -> Nat] /\ deletes \in [Images -> Nat]
    /\ capsule \in [Images -> {"none", "dltensor", "used_dltensor"}]
TensorType ==
    tensor \in [Exports -> [image : Images \cup {0},
                            state : {"none", "exporting", "unused", "used"},
                            order : {"none", "stream", "host"}]]
ThreadType ==
    /\ pc \in [Threads -> {"idle", "cancel", "delete", "destroy", "callback",
                           "export", "encode"}]
    /\ item \in [Threads -> Nat]

LEMMA TypeParts ==
    TypeOK <=> /\ PoolTypeOK /\ ImageType /\ ProducerType /\ LeaseType /\ OwnerType
               /\ TensorType /\ ThreadType /\ initialized \in BOOLEAN
<1> QED
  BY DEF TypeOK, ImageType, ProducerType, LeaseType, OwnerType, TensorType, ThreadType

LEMMA TypeSame ==
    ASSUME TypeOK
    PROVE  /\ UNCHANGED image => ImageType'
           /\ UNCHANGED producer => ProducerType'
           /\ UNCHANGED lease => LeaseType'
           /\ UNCHANGED owner => OwnerType'
           /\ UNCHANGED tensor => TensorType'
           /\ UNCHANGED thread => ThreadType'
<1>1. UNCHANGED image => ImageType'
  BY TypeParts DEF ImageType, image
<1>2. UNCHANGED producer => ProducerType'
  BY TypeParts DEF ProducerType, producer
<1>3. UNCHANGED lease => LeaseType'
  BY TypeParts DEF LeaseType, lease
<1>4. UNCHANGED owner => OwnerType'
  BY TypeParts DEF OwnerType, owner
<1>5. UNCHANGED tensor => TensorType'
  BY TypeParts DEF TensorType
<1>6. UNCHANGED thread => ThreadType'
  BY TypeParts DEF ThreadType, thread
<1> QED
  BY <1>1, <1>2, <1>3, <1>4, <1>5, <1>6

\* Release leaves a reference to every call that has the frame.
LEMMA ReleaseGuard ==
    ASSUME TypeOK, NEW t \in Threads, NEW i \in Images, Release(t, i)
    PROVE  /\ client[i] > 0
           /\ (\E u \in Threads : pc[u] = "encode" /\ item[u] = i) => client[i] > 1
<1> DEFINE C == {u \in Threads : pc[u] = "encode" /\ item[u] = i}
<1>1. IsFiniteSet(C)
  BY Bounds, FS_Subset
<1>2. Cardinality(C) \in Nat /\ (C # {} => Cardinality(C) # 0)
  BY <1>1, FS_CardinalityType, FS_EmptySet
<1>3. client[i] > Cardinality(C) /\ client[i] \in Nat
  BY DEF Release, InCall, TypeOK
<1> HIDE DEF C
<1>4. client[i] > 0 /\ (C # {} => client[i] > 1)
  BY <1>2, <1>3
<1> QED
  BY <1>4 DEF C

\* The types of everything but the pool.
Types == /\ ImageType /\ ProducerType /\ LeaseType /\ OwnerType /\ TensorType /\ ThreadType
         /\ initialized \in BOOLEAN

LEMMA TypesStep ==
    ASSUME TypeOK, PoolOK, ReservedOK, RefsOK, FinishingOK, CallsOK, OwnersOK,
           CompletionsOK, TensorsOK, Next
    PROVE  Types'
<1> USE TypeSame, TypeParts DEF Types
<1>0. Images \subseteq Nat /\ Exports \subseteq Nat /\ 0 \in Nat
  BY Bounds
<1>1. ASSUME NEW t \in Threads, AcquireNow(t) \/ AcquireWakes(t) PROVE Types'
  <2>1. PICK i \in Fresh, s \in Free : Reserve(t, i, s)
    BY <1>1 DEF AcquireNow, AcquireWakes
  <2>2. i \in Images /\ i \notin reserved
    BY <2>1 DEF Fresh, OwnersOK, OwnerOK
  <2>3. ImageType'
    BY <2>1, <2>2, ReserveEffect DEF ImageType
  <2> QED
    BY <2>1, <2>3 DEF Reserve
<1>2. ASSUME NEW t \in Threads, \/ AcquireWaits(t, "finite") \/ AcquireWaits(t, "infinite")
                                \/ AcquireEnds(t) \/ Notify(t)
      PROVE  Types'
  BY <1>2 DEF AcquireWaits, AcquireEnds, Notify
<1>3. ASSUME NEW t \in Threads, NEW i \in Images, CloseSlot(t, i) PROVE Types'
  <2>1. Ready(t) /\ Kept(i) /\ (Pooled(i) => deletes[i] = 0)
    BY <1>3 DEF CloseSlot, Idle, OwnersOK, OwnerOK
  <2>2. reserved' \subseteq Images /\ deletes' \in [Images -> Nat]
    BY <1>3, <2>1, OwnerGoneEffect DEF CloseSlot
  <2>3. ImageType' /\ OwnerType'
    BY <1>3, <2>2 DEF CloseSlot, ImageType, OwnerType
  <2> QED
    BY <1>3, <2>3 DEF CloseSlot
<1>4. ASSUME NEW t \in Threads, NEW i \in Images, Submit(t, i) PROVE Types'
  <2>1. ProducerType'
    BY <1>4 DEF Submit, ProducerType
  <2> QED
    BY <1>4, <2>1 DEF Submit
<1>5. ASSUME NEW i \in Images, NEW o \in Settled, Produce(i, o) PROVE Types'
  <2>1. ProducerType'
    BY <1>5 DEF Produce, ProducerType
  <2> QED
    BY <1>5, <2>1 DEF Produce
<1>6. ASSUME NEW t \in Threads, NEW i \in Images, Consume(t, i) PROVE Types'
  <2>1. ImageType'
    BY <1>6 DEF Consume, ImageType, AllKinds
  <2>2. OwnerType'
    BY <1>6 DEF Consume, OwnerType, DestroyCapsule
  <2>3. ProducerType'
    BY <1>6 DEF Consume, ProducerType
  <2> QED
    BY <1>6, <2>1, <2>2, <2>3 DEF Consume
<1>7. ASSUME NEW t \in Threads, NEW i \in Images, Import(t, i) PROVE Types'
  <2>1. /\ event' \in [Images -> BOOLEAN]
        /\ UNCHANGED <<pool, kind, slot, stamp, reserved, work, terminal, recycled,
                       tracked, reading, owner, tensor, initialized>>
    BY <1>7, ImportEffect
  <2>2. PICK src \in Sources :
          \/ /\ stage' = [stage EXCEPT ![i] = "refused"] /\ Goto(t, "cancel", i)
             /\ UNCHANGED <<source, refs, client, accepted>>
          \/ /\ MakeHandle(i, src) /\ accepted' = accepted \cup {i}
             /\ UNCHANGED <<pc, item>>
          \/ /\ stage' = [stage EXCEPT ![i] = "refused"] /\ Goto(t, "destroy", i)
             /\ source' = [source EXCEPT ![i] = src]
             /\ UNCHANGED <<refs, client, accepted>>
    BY <1>7, ImportEffect
  <2>3. ImageType'
    BY <2>1, <2>2 DEF ImageType, MakeHandle
  <2>4. ProducerType'
    BY <2>1, <2>2 DEF ProducerType, MakeHandle
  <2>5. LeaseType'
    BY <2>1, <2>2 DEF LeaseType, MakeHandle
  <2>6. ThreadType'
    BY <1>0, <2>2, GotoEffect DEF ThreadType
  <2> QED
    BY <2>1, <2>3, <2>4, <2>5, <2>6
<1>8. ASSUME NEW t \in Threads, NEW i \in Images, Output(t, i) PROVE Types'
  <2>1. ImageType'
    BY <1>8 DEF ImageType, Output, MakeHandle
  <2>2. ProducerType'
    BY <1>8 DEF ProducerType, Output, MakeHandle, Sources
  <2>3. LeaseType'
    BY <1>8 DEF LeaseType, Output, MakeHandle, Accept
  <2> QED
    BY <1>8, <2>1, <2>2, <2>3 DEF Output
<1>9. ASSUME NEW t \in Threads, Cancel(t) \/ Callback(t) PROVE Types'
  <2>1. /\ Ready(t) /\ Finishing(t)
        /\ \/ OwnerGone(t, item[t])
           \/ UNCHANGED <<in_use, occupied, owing, reserved, deletes>>
    BY <1>9 DEF Cancel, Callback, At, Finishing
  <2>2. item[t] \in Images /\ Kept(item[t]) /\ (Pooled(item[t]) => deletes[item[t]] = 0)
    BY <2>1 DEF FinishingOK, OwnersOK, OwnerOK, Finished
  <2>3. UNCHANGED <<generation, waiting, woken, kind, stage, slot, stamp, producer, lease,
                    capsule, tensor, initialized>>
    BY <1>9 DEF Cancel, Callback
  <2>4. reserved' \subseteq Images /\ deletes' \in [Images -> Nat]
    <3>1. CASE OwnerGone(t, item[t])
      BY <2>1, <2>2, <2>3, <3>1, OwnerGoneEffect
    <3>2. CASE UNCHANGED <<in_use, occupied, owing, reserved, deletes>>
      BY <3>2 DEF ImageType, OwnerType
    <3> QED
      BY <2>1, <3>1, <3>2
  <2>5. released' \in [Images -> Nat]
    BY <1>9 DEF Cancel, Callback, OwnerType
  <2>6. ThreadType'
    BY <1>0, <1>9, <2>2, GotoEffect DEF Cancel, Callback, Return, ThreadType
  <2>7. ImageType' /\ OwnerType'
    BY <2>3, <2>4, <2>5 DEF ImageType, OwnerType
  <2> QED
    BY <2>3, <2>6, <2>7
<1>10. ASSUME NEW t \in Threads, NEW i \in Images, Retain(t, i) PROVE Types'
  <2>1. LeaseType'
    BY <1>10 DEF Retain, LeaseType
  <2> QED
    BY <1>10, <2>1 DEF Retain
<1>11. ASSUME NEW t \in Threads, NEW i \in Images, Unref(t, i), refs[i] > 0,
              UNCHANGED <<image, work, source, event, accepted, reading, owner, initialized>>,
              client' \in [Images -> Nat], tracked' \subseteq Images, TensorType'
       PROVE  Types'
  <2>1. stage[i] = "frame" /\ work[i] # "none"
    BY <1>11, LeasesBound DEF CompletionsOK
  <2>2. LeaseType'
    BY <1>11, <2>1, UnrefEffect DEF LeaseType
  <2>3. ProducerType'
    BY <1>11, <2>1, UnrefEffect DEF ProducerType
  <2>4. ThreadType'
    <3>1. pc' = [pc EXCEPT ![t] = pc'[t]] /\ item' = [item EXCEPT ![t] = item'[t]]
          /\ pc'[t] \in {"idle", "delete", "destroy", "callback"} /\ item'[t] \in {0, i}
      BY <1>11, <2>1, UnrefEffect
    <3> QED
      BY <1>0, <3>1 DEF ThreadType
  <2> QED
    BY <1>11, <2>2, <2>3, <2>4
<1>12. ASSUME NEW t \in Threads, NEW i \in Images, Release(t, i) PROVE Types'
  <2>2. client[i] > 0 /\ refs[i] > 0
    <3>1. client[i] > 0
      BY <1>12, ReleaseGuard
    <3>2. client[i] <= refs[i] /\ client[i] \in Nat /\ refs[i] \in Nat
      BY LeasesBound
    <3> QED
      BY <3>1, <3>2
  <2>3. client' \in [Images -> Nat]
    BY <1>12, <2>2 DEF Release, LeaseType
  <2> QED
    BY <1>11, <1>12, <2>2, <2>3 DEF Release, LeaseType
<1>13. ASSUME NEW t \in Threads, Delete(t) PROVE Types'
  <2>1. ThreadType'
    BY <1>13, GotoEffect DEF Delete, ThreadType
  <2> QED
    BY <1>13, <2>1 DEF Delete
<1>14. ASSUME NEW t \in Threads, Destroy(t) PROVE Types'
  <2>1. item[t] \in Images
    BY <1>14 DEF Destroy, At, FinishingOK, Finishing
  <2>2. ThreadType' /\ LeaseType'
    BY <1>14, <2>1, GotoEffect DEF Destroy, ThreadType, LeaseType
  <2>3. work[item[t]] # "none"
    BY <1>14, <2>1, QueryTrue DEF Destroy, CompletionsDone, Settled
  <2>4. ProducerType'
    BY <1>14, <2>1, <2>3, LatchEffect DEF Destroy, ProducerType
  <2> QED
    BY <1>14, <2>2, <2>4 DEF Destroy
<1>15. ASSUME NEW t \in Threads, NEW i \in Images, Observe(t, i) PROVE Types'
  <2>1. work[i] # "none"
    <3>1. client[i] > 0
      BY <1>15 DEF Observe
    <3>2. client[i] <= refs[i] /\ refs[i] \in Nat /\ client[i] \in Nat
          /\ (refs[i] > 0 => stage[i] = "frame")
      BY LeasesBound
    <3>3. stage[i] = "frame"
      BY <3>1, <3>2
    <3> QED
      BY <3>3 DEF CompletionsOK
  <2>2. ProducerType'
    BY <1>15, <2>1, LatchEffect DEF Observe, ProducerType
  <2> QED
    BY <1>15, <2>2 DEF Observe
<1>16. ASSUME NEW t \in Threads, NEW e \in Exports, NEW i \in Images, Export(t, e, i)
       PROVE  Types'
  <2>1. ThreadType'
    BY <1>0, <1>16, GotoEffect DEF Export, ThreadType
  <2>2. TensorType'
    BY <1>16, SetEffect DEF Export, TensorType
  <2>3. LeaseType'
    BY <1>16 DEF Export, LeaseType
  <2> QED
    BY <1>16, <2>1, <2>2, <2>3 DEF Export
<1>17. ASSUME NEW t \in Threads, \/ ExportOrdered(t) \/ ExportWaited(t) \/ ExportOutput(t)
                                 \/ ExportReleased(t)
       PROVE  Types'
  <2>1. item[t] \in Exports /\ Source(t) \in Images /\ work[Source(t)] # "none"
    BY <1>17, CallFrames DEF ExportOrdered, ExportWaited, ExportOutput, ExportReleased, At
  <2>2. TensorType'
    BY <1>17, <2>1, SetEffect
    DEF ExportOrdered, ExportWaited, ExportOutput, ExportReleased, TensorType
  <2>3. ThreadType'
    BY <1>0, <1>17, GotoEffect
    DEF ExportOrdered, ExportWaited, ExportOutput, ExportReleased, Return, ThreadType
  <2>4. LeaseType'
    BY <1>17 DEF ExportOrdered, ExportWaited, ExportOutput, ExportReleased, LeaseType, lease
  <2>5. ProducerType'
    BY <1>17, <2>1, LatchEffect
    DEF ExportOrdered, ExportWaited, ExportOutput, ExportReleased, ProducerType, producer
  <2> QED
    BY <1>17, <2>2, <2>3, <2>4, <2>5
    DEF ExportOrdered, ExportWaited, ExportOutput, ExportReleased
<1>18. ASSUME NEW t \in Threads, ExportFails(t) PROVE Types'
  <2>1. item[t] \in Exports /\ Source(t) \in Images /\ refs[Source(t)] > 0
    BY <1>18, CallFrames DEF ExportFails, At
  <2>2. TensorType'
    BY <1>18, <2>1, SetEffect DEF ExportFails, TensorType
  <2> QED
    BY <1>11, <1>18, <2>1, <2>2 DEF ExportFails, LeaseType
<1>19. ASSUME NEW e \in Exports, Take(e) PROVE Types'
  <2>1. TensorType'
    BY <1>19, SetEffect DEF Take, TensorType
  <2> QED
    BY <1>19, <2>1 DEF Take
<1>20. ASSUME NEW t \in Threads, NEW e \in Exports, DeleteTensor(t, e) PROVE Types'
  <2> DEFINE i == tensor[e].image
  <2>1. i \in Images /\ Leased(e, i) /\ Set(e, i, "none", "none")
    BY <1>20 DEF DeleteTensor, TensorsOK, Leased
  <2>2. TensorType'
    BY <2>1, SetEffect DEF TensorType
  <2>3. refs[i] > 0
    BY <2>1, LeasesBound
  <2>4. CASE kind[i] = "output" /\ ~initialized
    <3>1. LeaseType' /\ ProducerType' /\ ThreadType'
      BY <1>20, <2>4 DEF DeleteTensor, LeaseType, ProducerType, ThreadType, thread
    <3> QED
      BY <1>20, <2>2, <3>1 DEF DeleteTensor
  <2>5. CASE ~(kind[i] = "output" /\ ~initialized)
    <3>1. Unref(t, i)
      BY <1>20, <2>5 DEF DeleteTensor
    <3> HIDE DEF i
    <3> QED
      BY <1>11, <1>20, <2>1, <2>2, <2>3, <3>1 DEF DeleteTensor, LeaseType
  <2> QED
    BY <2>4, <2>5
<1>21. ASSUME NEW t \in Threads, NEW i \in Images, Encode(t, i) PROVE Types'
  <2>1. ThreadType'
    BY <1>0, <1>21, GotoEffect DEF Encode, ThreadType
  <2> QED
    BY <1>21, <2>1 DEF Encode
<1>22. ASSUME NEW t \in Threads, EncodeReturns(t) PROVE Types'
  <2>1. item[t] \in Images /\ work[item[t]] # "none"
    BY <1>22, CallFrames DEF EncodeReturns, At
  <2>2. ThreadType'
    BY <1>0, <1>22, GotoEffect DEF EncodeReturns, Return, ThreadType
  <2>3. LeaseType'
    BY <1>22, <2>1 DEF EncodeReturns, LeaseType
  <2>4. ProducerType'
    BY <1>22, <2>1, LatchEffect DEF EncodeReturns, ProducerType
  <2> QED
    BY <1>22, <2>2, <2>3, <2>4 DEF EncodeReturns
<1>23. ASSUME NEW i \in Images, RuntimeDone(i) PROVE Types'
  <2>1. LeaseType'
    BY <1>23 DEF RuntimeDone, LeaseType
  <2> QED
    BY <1>23, <2>1 DEF RuntimeDone
<1>24. ASSUME NEW t \in Threads, NEW i \in Images, Retire(t, i) PROVE Types'
  <2>1. refs[i] > 0
    BY <1>24, LeasesBound DEF Retire, Retirable
  <2> QED
    BY <1>11, <1>24, <2>1 DEF Retire, LeaseType
<1>25. CASE Finalize
  BY <1>25 DEF Finalize
<1>26. CASE Quiescent
  BY <1>26 DEF Quiescent, vars
<1> QED
  BY <1>1, <1>2, <1>3, <1>4, <1>5, <1>6, <1>7, <1>8, <1>9, <1>10, <1>12, <1>13, <1>14,
     <1>15, <1>16, <1>17, <1>18, <1>19, <1>20, <1>21, <1>22, <1>23, <1>24, <1>25, <1>26,
     StepCases

LEMMA TypeStep ==
    ASSUME Inductive, Next
    PROVE  TypeOK'
<1>1. Types' /\ PoolTypeOK'
  BY TypesStep, PoolStep DEF Inductive, PoolOK
<1> QED
  BY <1>1 DEF Types, TypeOK, ImageType, ProducerType, LeaseType, OwnerType, TensorType,
              ThreadType


-----------------------------------------------------------------------------
(* References.                                                             *)

RefOK(i) ==
    /\ Leases(i) <= refs[i]
    /\ initialized \/ kind[i] # "output" => refs[i] = Leases(i)
    /\ refs[i] > 0 => stage[i] = "frame"
LeasedBy(i) == {e \in Exports : Leased(e, i)}

\* How the leases of an image are counted, before and after a step.
LEMMA LeasesChange ==
    ASSUME NEW i
    PROVE  /\ Leases(i) = client[i] + (IF i \in tracked THEN 1 ELSE 0) + Cardinality(LeasedBy(i))
           /\ Leases(i)' = client'[i] + (IF i \in tracked' THEN 1 ELSE 0)
                             + Cardinality(LeasedBy(i)')
           /\ Cardinality(LeasedBy(i)) \in Nat /\ Cardinality(LeasedBy(i)') \in Nat
           /\ (\A e \in Exports : Leased(e, i)' <=> Leased(e, i)) => LeasedBy(i)' = LeasedBy(i)
           /\ \A e \in Exports :
                (/\ Leased(e, i)' /\ ~Leased(e, i)
                 /\ \A d \in Exports \ {e} : Leased(d, i)' <=> Leased(d, i))
                => Cardinality(LeasedBy(i)') = Cardinality(LeasedBy(i)) + 1
           /\ \A e \in Exports :
                (/\ ~Leased(e, i)' /\ Leased(e, i)
                 /\ \A d \in Exports \ {e} : Leased(d, i)' <=> Leased(d, i))
                => Cardinality(LeasedBy(i)') = Cardinality(LeasedBy(i)) - 1
<1>1. IsFiniteSet(LeasedBy(i)) /\ IsFiniteSet(LeasedBy(i)')
  <2>1. LeasedBy(i) \subseteq Exports /\ LeasedBy(i)' \subseteq Exports
    BY DEF LeasedBy
  <2> QED
    BY <2>1, Bounds, FS_Subset
<1>2. Cardinality(LeasedBy(i)) \in Nat /\ Cardinality(LeasedBy(i)') \in Nat
  BY <1>1, FS_CardinalityType
<1>3. Leases(i) = client[i] + (IF i \in tracked THEN 1 ELSE 0) + Cardinality(LeasedBy(i))
  BY OneOf DEF Leases, LeasedBy
<1>4. Leases(i)' = client'[i] + (IF i \in tracked' THEN 1 ELSE 0) + Cardinality(LeasedBy(i)')
  BY OneOf DEF Leases, LeasedBy
<1>5. (\A e \in Exports : Leased(e, i)' <=> Leased(e, i)) => LeasedBy(i)' = LeasedBy(i)
  BY DEF LeasedBy
<1>6. ASSUME NEW e \in Exports, Leased(e, i)', ~Leased(e, i),
             \A d \in Exports \ {e} : Leased(d, i)' <=> Leased(d, i)
      PROVE  Cardinality(LeasedBy(i)') = Cardinality(LeasedBy(i)) + 1
  <2>1. LeasedBy(i)' = LeasedBy(i) \cup {e} /\ e \notin LeasedBy(i)
    BY <1>6 DEF LeasedBy
  <2> QED
    BY <1>1, <2>1, FS_AddElement
<1>7. ASSUME NEW e \in Exports, ~Leased(e, i)', Leased(e, i),
             \A d \in Exports \ {e} : Leased(d, i)' <=> Leased(d, i)
      PROVE  Cardinality(LeasedBy(i)') = Cardinality(LeasedBy(i)) - 1
  <2>1. LeasedBy(i)' = LeasedBy(i) \ {e} /\ e \in LeasedBy(i)
    BY <1>7 DEF LeasedBy
  <2> QED
    BY <1>1, <2>1, FS_RemoveElement
<1> QED
  BY <1>2, <1>3, <1>4, <1>5, <1>6, <1>7

\* An image that is no frame has no lease.
LEMMA LeaseFrames ==
    ASSUME TypeOK, RefsOK, NEW i \in Images
    PROVE  /\ client[i] \in Nat /\ refs[i] \in Nat
           /\ client[i] > 0 => refs[i] > 0 /\ stage[i] = "frame"
           /\ refs[i] > 0 => stage[i] = "frame"
           /\ i \in tracked => refs[i] > 0 /\ stage[i] = "frame"
           /\ \A e \in Exports : Leased(e, i) => refs[i] > 0 /\ stage[i] = "frame"
           /\ stage[i] # "frame" => refs[i] = 0 /\ client[i] = 0 /\ Leases(i) = 0
<1>1. /\ Leases(i) \in Nat /\ client[i] \in Nat /\ refs[i] \in Nat
      /\ client[i] <= refs[i] /\ Leases(i) <= refs[i]
      /\ refs[i] > 0 => stage[i] = "frame"
  BY LeasesBound
<1>2. client[i] > 0 => refs[i] > 0
  BY <1>1
<1>3. stage[i] # "frame" => refs[i] = 0 /\ client[i] = 0 /\ Leases(i) = 0
  BY <1>1
<1>4. /\ i \in tracked => refs[i] > 0
      /\ \A e \in Exports : Leased(e, i) => refs[i] > 0
  BY LeasesBound
<1> QED
  BY <1>1, <1>2, <1>3, <1>4

\* How the count moves with one of its parts.
LEMMA LeasesMove ==
    ASSUME TypeOK, TypeOK', NEW i \in Images
    PROVE  /\ \A d \in {-1, 0, 1} :
                (/\ client'[i] = client[i] + d /\ (i \in tracked' <=> i \in tracked)
                 /\ \A e \in Exports : Leased(e, i)' <=> Leased(e, i))
                => Leases(i)' = Leases(i) + d
           /\ (/\ client'[i] = client[i] /\ \A e \in Exports : Leased(e, i)' <=> Leased(e, i))
              => /\ i \notin tracked /\ i \in tracked' => Leases(i)' = Leases(i) + 1
                 /\ i \in tracked /\ i \notin tracked' => Leases(i)' = Leases(i) - 1
           /\ \A e \in Exports :
                (/\ client'[i] = client[i] /\ (i \in tracked' <=> i \in tracked)
                 /\ \A d \in Exports \ {e} : Leased(d, i)' <=> Leased(d, i))
                => /\ Leased(e, i)' /\ ~Leased(e, i) => Leases(i)' = Leases(i) + 1
                   /\ ~Leased(e, i)' /\ Leased(e, i) => Leases(i)' = Leases(i) - 1
<1> DEFINE m == IF i \in tracked THEN 1 ELSE 0
           n == IF i \in tracked' THEN 1 ELSE 0
           h == Cardinality(LeasedBy(i))
           k == Cardinality(LeasedBy(i)')
<1>1. /\ Leases(i) = client[i] + m + h /\ Leases(i)' = client'[i] + n + k
      /\ h \in Nat /\ k \in Nat
  BY LeasesChange
<1>2. m \in {0, 1} /\ n \in {0, 1} /\ client[i] \in Nat /\ client'[i] \in Nat
      /\ ((i \in tracked' <=> i \in tracked) => m = n)
      /\ (i \notin tracked /\ i \in tracked' => n = m + 1)
      /\ (i \in tracked /\ i \notin tracked' => n = m - 1)
  BY DEF TypeOK
<1>3. (\A e \in Exports : Leased(e, i)' <=> Leased(e, i)) => k = h
  BY LeasesChange
<1>4. ASSUME NEW e \in Exports, \A d \in Exports \ {e} : Leased(d, i)' <=> Leased(d, i)
      PROVE  /\ Leased(e, i)' /\ ~Leased(e, i) => k = h + 1
             /\ ~Leased(e, i)' /\ Leased(e, i) => k = h - 1
  BY <1>4, LeasesChange
<1> HIDE DEF m, n, h, k
<1>5. ASSUME NEW d \in {-1, 0, 1}, client'[i] = client[i] + d, i \in tracked' <=> i \in tracked,
             \A e \in Exports : Leased(e, i)' <=> Leased(e, i)
      PROVE  Leases(i)' = Leases(i) + d
  BY <1>1, <1>2, <1>3, <1>5
<1>6. ASSUME client'[i] = client[i], \A e \in Exports : Leased(e, i)' <=> Leased(e, i)
      PROVE  /\ i \notin tracked /\ i \in tracked' => Leases(i)' = Leases(i) + 1
             /\ i \in tracked /\ i \notin tracked' => Leases(i)' = Leases(i) - 1
  BY <1>1, <1>2, <1>3, <1>6
<1>7. ASSUME NEW e \in Exports, client'[i] = client[i], i \in tracked' <=> i \in tracked,
             \A d \in Exports \ {e} : Leased(d, i)' <=> Leased(d, i)
      PROVE  /\ Leased(e, i)' /\ ~Leased(e, i) => Leases(i)' = Leases(i) + 1
             /\ ~Leased(e, i)' /\ Leased(e, i) => Leases(i)' = Leases(i) - 1
  BY <1>1, <1>2, <1>4, <1>7
<1> QED
  BY <1>5, <1>6, <1>7

LEMMA RefKept ==
    ASSUME RefsOK, NEW i \in Images, refs'[i] = refs[i], client'[i] = client[i],
           i \in tracked' <=> i \in tracked,
           \A e \in Exports : Leased(e, i)' <=> Leased(e, i),
           refs[i] > 0 => stage'[i] = "frame",
           kind'[i] = kind[i] \/ kind[i] # "output", initialized' => initialized
    PROVE  RefOK(i)'
<1>1. Leases(i)' = Leases(i)
  BY LeasesChange
<1> QED
  BY <1>1 DEF RefsOK, RefOK

\* A reference and a lease come or go together.
LEMMA RefMoves ==
    ASSUME RefsOK, TypeOK, TypeOK', NEW i \in Images, NEW d \in {-1, 1},
           refs'[i] = refs[i] + d, Leases(i)' = Leases(i) + d,
           stage'[i] = "frame", kind'[i] = kind[i], initialized' = initialized
    PROVE  RefOK(i)'
<1>1. refs[i] \in Nat /\ refs'[i] \in Nat
  BY DEF TypeOK
<1>2. Leases(i) \in Nat
  BY LeasesBound
<1> QED
  BY <1>1, <1>2 DEF RefsOK, RefOK

\* Tensors of one export changed: the leases of the other ones stay.
LEMMA OtherLeases ==
    ASSUME NEW e \in Exports, \A d \in Exports \ {e} : tensor'[d] = tensor[d],
           NEW i, kind'[i] = kind[i]
    PROVE  \A d \in Exports \ {e} : Leased(d, i)' <=> Leased(d, i)
<1> QED
  BY DEF Leased

LEMMA RefsStep ==
    ASSUME Inductive, TypeOK', Next
    PROVE  RefsOK'
<1>0. /\ TypeOK /\ PoolOK /\ ReservedOK /\ RefsOK /\ FinishingOK /\ CallsOK
      /\ OwnersOK /\ CompletionsOK /\ TensorsOK
  BY DEF Inductive
<1>q. SUFFICES ASSUME NEW j \in Images PROVE RefOK(j)'
  BY DEF RefsOK, RefOK
<1>a. ASSUME UNCHANGED <<refs, client, tracked, tensor>>,
             kind'[j] = kind[j] \/ stage[j] = "none",
             stage[j] = "frame" => stage'[j] = "frame", initialized' => initialized
      PROVE  RefOK(j)'
  <2>1. \A e \in Exports : Leased(e, j)' <=> Leased(e, j)
    <3>1. CASE kind'[j] = kind[j]
      BY <1>a, <3>1 DEF Leased
    <3>2. CASE stage[j] = "none"
      BY <1>0, <1>a, <3>2 DEF Leased, TensorsOK
    <3> QED
      BY <1>a, <3>1, <3>2
  <2>2. kind'[j] = kind[j] \/ kind[j] # "output"
    BY <1>0, <1>a DEF OwnersOK, OwnerOK
  <2>3. refs[j] > 0 => stage'[j] = "frame"
    BY <1>0, <1>a DEF RefsOK
  <2> QED
    BY <1>0, <1>a, <2>1, <2>2, <2>3, RefKept
<1>b. ASSUME \A e \in Exports : Leased(e, j)' <=> Leased(e, j),
             refs'[j] = refs[j], client'[j] = client[j], tracked' = tracked,
             UNCHANGED <<kind, stage>>, initialized' => initialized
      PROVE  RefOK(j)'
  BY <1>0, <1>b, RefKept DEF RefsOK
<1>1. ASSUME NEW t \in Threads, AcquireNow(t) \/ AcquireWakes(t) PROVE RefOK(j)'
  <2>1. PICK i \in Fresh, s \in Free : Reserve(t, i, s)
    BY <1>1 DEF AcquireNow, AcquireWakes
  <2>2. i \in Images /\ stage[i] = "none" /\ i \notin reserved
    BY <1>0, <2>1 DEF Fresh, OwnersOK, OwnerOK
  <2>3. (j # i => kind'[j] = kind[j]) /\ (stage[j] = "frame" => stage'[j] = "frame")
    BY <1>0, <2>1, <2>2, ReserveEffect DEF TypeOK
  <2>4. UNCHANGED <<refs, client, tracked, tensor, initialized>>
    BY <2>1 DEF Reserve, lease
  <2> QED
    BY <1>a, <2>2, <2>3, <2>4
<1>2. ASSUME NEW t \in Threads,
             \/ AcquireWaits(t, "finite") \/ AcquireWaits(t, "infinite") \/ AcquireEnds(t)
             \/ Notify(t) \/ Cancel(t) \/ Delete(t) \/ Destroy(t) \/ Callback(t)
      PROVE  RefOK(j)'
  <2>1. UNCHANGED <<refs, client, tracked, tensor, kind, stage, initialized>>
    BY <1>2 DEF AcquireWaits, AcquireEnds, Notify, Cancel, Delete, Destroy, Callback, lease, image
  <2> QED
    BY <1>a, <2>1
<1>3. ASSUME NEW t \in Threads, NEW i \in Images, CloseSlot(t, i) PROVE RefOK(j)'
  <2>1. stage[j] = "frame" => stage'[j] = "frame"
    BY <1>0, <1>3 DEF CloseSlot, TypeOK
  <2>2. UNCHANGED <<refs, client, tracked, tensor, kind, initialized>>
    BY <1>3 DEF CloseSlot, lease
  <2> QED
    BY <1>a, <2>1, <2>2
<1>4. ASSUME NEW t \in Threads, NEW i \in Images,
             Submit(t, i) \/ Observe(t, i) \/ Encode(t, i)
      PROVE  RefOK(j)'
  <2>1. UNCHANGED <<refs, client, tracked, tensor, kind, stage, initialized>>
    BY <1>4 DEF Submit, Observe, Encode, lease, image
  <2> QED
    BY <1>a, <2>1
<1>5. ASSUME \/ Quiescent \/ Finalize
             \/ \E i \in Images : RuntimeDone(i) \/ \E o \in Settled : Produce(i, o)
      PROVE  RefOK(j)'
  <2>1. UNCHANGED <<refs, client, tracked, tensor, kind, stage>> /\ (initialized' => initialized)
    BY <1>5 DEF Finalize, Quiescent, vars, RuntimeDone, Produce, lease, image
  <2> QED
    BY <1>a, <2>1
<1>6. ASSUME NEW t \in Threads, NEW i \in Images, Consume(t, i) PROVE RefOK(j)'
  <2>1. i \in Fresh /\ kind' = [kind EXCEPT ![i] = "foreign"] /\ stage[i] = "none"
        /\ \E l \in {"gone", "writable"} : stage' = [stage EXCEPT ![i] = l]
    BY <1>6 DEF Consume, Fresh
  <2>2. (j # i => kind'[j] = kind[j]) /\ (stage[j] = "frame" => stage'[j] = "frame")
    BY <1>0, <2>1 DEF TypeOK
  <2>3. UNCHANGED <<refs, client, tracked, tensor, initialized>>
    BY <1>6 DEF Consume, lease
  <2> QED
    BY <1>a, <2>1, <2>2, <2>3
<1>7. ASSUME NEW t \in Threads, NEW i \in Images, Import(t, i) \/ Output(t, i) PROVE RefOK(j)'
  <2>1. UNCHANGED <<kind, tracked, tensor, initialized>> /\ stage[i] = "writable"
    BY <1>0, <1>7, ImportEffect DEF Output
  <2>2. \/ /\ refs' = [refs EXCEPT ![i] = 1] /\ client' = [client EXCEPT ![i] = 1]
           /\ stage' = [stage EXCEPT ![i] = "frame"]
        \/ refs' = refs /\ client' = client /\ stage' = [stage EXCEPT ![i] = "refused"]
    BY <1>0, <1>7, ImportEffect DEF Output, MakeHandle
  <2>3. CASE j # i \/ (refs' = refs /\ client' = client /\ stage' = [stage EXCEPT ![i] = "refused"])
    <3>1. refs'[j] = refs[j] /\ client'[j] = client[j] /\ (stage[j] = "frame" => stage'[j] = "frame")
      BY <1>0, <2>1, <2>2, <2>3 DEF TypeOK
    <3>2. \A e \in Exports : Leased(e, j)' <=> Leased(e, j)
      BY <2>1 DEF Leased
    <3> QED
      BY <1>0, <2>1, <3>1, <3>2, RefKept DEF RefsOK
  <2>4. CASE j = i /\ refs' = [refs EXCEPT ![i] = 1] /\ client' = [client EXCEPT ![i] = 1]
             /\ stage' = [stage EXCEPT ![i] = "frame"]
    <3>1. refs'[j] = 1 /\ client'[j] = 1 /\ stage'[j] = "frame"
      BY <1>0, <2>4 DEF TypeOK
    <3>2. refs[j] = 0 /\ client[j] = 0 /\ Leases(j) = 0
      BY <1>0, <2>1, <2>4, LeaseFrames
    <3>3. \A e \in Exports : Leased(e, j)' <=> Leased(e, j)
      BY <2>1 DEF Leased
    <3>4. Leases(j)' = Leases(j) + 1
      BY <1>0, <2>1, <3>1, <3>2, <3>3, LeasesMove
    <3> QED
      BY <1>0, <2>1, <3>1, <3>2, <3>4, RefMoves
  <2> QED
    BY <2>2, <2>3, <2>4

<1>8. ASSUME NEW i \in Images, NEW d \in {-1, 1}, UNCHANGED <<kind, stage, initialized>>,
             \A k \in Images \ {i} :
                /\ refs'[k] = refs[k] /\ client'[k] = client[k] /\ (k \in tracked' <=> k \in tracked)
                /\ \A e \in Exports : Leased(e, k)' <=> Leased(e, k),
             refs'[i] = refs[i] + d, Leases(i)' = Leases(i) + d, stage[i] = "frame"
      PROVE  RefOK(j)'
  <2>1. CASE j = i
    BY <1>0, <1>8, <2>1, RefMoves
  <2>2. CASE j # i
    BY <1>0, <1>8, <2>2, RefKept DEF RefsOK
  <2> QED
    BY <2>1, <2>2
<1>9. ASSUME NEW t \in Threads, NEW i \in Images, Retain(t, i) PROVE RefOK(j)'
  <2>1. /\ refs' = [refs EXCEPT ![i] = @ + 1] /\ client' = [client EXCEPT ![i] = @ + 1]
        /\ UNCHANGED <<kind, stage, tracked, tensor, initialized>> /\ client[i] \in 1..(MaxRefs - 1)
    BY <1>9 DEF Retain, image
  <2>2. \A k \in Images, e \in Exports : Leased(e, k)' <=> Leased(e, k)
    BY <2>1 DEF Leased
  <2>3. refs'[i] = refs[i] + 1 /\ client'[i] = client[i] + 1
        /\ \A k \in Images \ {i} : refs'[k] = refs[k] /\ client'[k] = client[k]
    BY <1>0, <2>1 DEF TypeOK
  <2>4. stage[i] = "frame" /\ client[i] \in Nat
    <3>1. client[i] > 0
      BY <2>1, BoundAssumption
    <3> QED
      BY <1>0, <3>1, LeaseFrames
  <2>5. Leases(i)' = Leases(i) + 1
    BY <1>0, <2>1, <2>2, <2>3, <2>4, LeasesMove
  <2> QED
    BY <1>8, <2>1, <2>2, <2>3, <2>4, <2>5
<1>10. ASSUME NEW t \in Threads, NEW i \in Images, Release(t, i) PROVE RefOK(j)'
  <2>1. /\ refs' = [refs EXCEPT ![i] = @ - 1] /\ client' = [client EXCEPT ![i] = @ - 1]
        /\ UNCHANGED <<kind, stage, tracked, tensor, initialized>>
    BY <1>10 DEF Release, Unref, image
  <2>2. \A k \in Images, e \in Exports : Leased(e, k)' <=> Leased(e, k)
    BY <2>1 DEF Leased
  <2>3. refs'[i] = refs[i] - 1 /\ client'[i] = client[i] - 1
        /\ \A k \in Images \ {i} : refs'[k] = refs[k] /\ client'[k] = client[k]
    BY <1>0, <2>1 DEF TypeOK
  <2>4. stage[i] = "frame" /\ client[i] \in Nat
    <3>1. client'[i] \in Nat /\ client[i] \in Nat /\ refs[i] \in Nat
      BY <1>0 DEF TypeOK
    <3> QED
      BY <1>0, <2>3, <3>1, LeaseFrames
  <2>5. Leases(i)' = Leases(i) - 1
    BY <1>0, <2>1, <2>2, <2>3, <2>4, LeasesMove
  <2> QED
    BY <1>8, <2>1, <2>2, <2>3, <2>4, <2>5
<1>11. ASSUME NEW t \in Threads, NEW i \in Images, Retire(t, i) PROVE RefOK(j)'
  <2>1. /\ refs' = [refs EXCEPT ![i] = @ - 1] /\ tracked' = tracked \ {i} /\ i \in tracked
        /\ UNCHANGED <<kind, stage, client, tensor, initialized>>
    BY <1>11 DEF Retire, Retirable, Unref, image
  <2>2. \A k \in Images, e \in Exports : Leased(e, k)' <=> Leased(e, k)
    BY <2>1 DEF Leased
  <2>3. refs'[i] = refs[i] - 1 /\ \A k \in Images \ {i} : refs'[k] = refs[k]
    BY <1>0, <2>1 DEF TypeOK
  <2>4. stage[i] = "frame" /\ client[i] \in Nat
    BY <1>0, <2>1, LeaseFrames
  <2>5. Leases(i)' = Leases(i) - 1
    BY <1>0, <2>1, <2>2, <2>3, <2>4, LeasesMove
  <2> QED
    BY <1>8, <2>1, <2>2, <2>3, <2>4, <2>5
<1>12. ASSUME NEW t \in Threads, EncodeReturns(t) PROVE RefOK(j)'
  <2>1. UNCHANGED <<kind, stage, client, tensor, initialized>>
    BY <1>12 DEF EncodeReturns, image
  <2>2. \A k \in Images, e \in Exports : Leased(e, k)' <=> Leased(e, k)
    BY <2>1 DEF Leased
  <2>3. PICK i \in Images : i = item[t] /\ stage[i] = "frame"
    BY <1>0, <1>12, CallFrames DEF EncodeReturns, At
  <2>4. CASE UNCHANGED <<refs, tracked>>
    BY <1>b, <2>1, <2>2, <2>4
  <2>5. CASE i \notin tracked /\ refs' = [refs EXCEPT ![i] = @ + 1] /\ tracked' = tracked \cup {i}
    <3>1. refs'[i] = refs[i] + 1 /\ \A k \in Images \ {i} : refs'[k] = refs[k]
      BY <1>0, <2>3, <2>5 DEF TypeOK
    <3>2. Leases(i)' = Leases(i) + 1
      BY <1>0, <2>1, <2>2, <2>3, <2>5, LeasesMove
    <3>3. \A k \in Images \ {i} : client'[k] = client[k] /\ (k \in tracked' <=> k \in tracked)
      BY <2>1, <2>5
    <3> QED
      BY <1>8, <2>1, <2>2, <2>3, <3>1, <3>2, <3>3
  <2> QED
    BY <1>12, <2>3, <2>4, <2>5 DEF EncodeReturns

<1>13. ASSUME NEW t \in Threads, NEW e \in Exports, NEW i \in Images, Export(t, e, i)
       PROVE  RefOK(j)'
  <2>1. /\ tensor[e].state = "none" /\ client[i] > 0 /\ Set(e, i, "exporting", "none")
        /\ refs' = IF kind[i] = "output" THEN refs ELSE [refs EXCEPT ![i] = @ + 1]
        /\ UNCHANGED <<kind, stage, client, tracked, initialized>>
    BY <1>13 DEF Export, image
  <2>2. /\ tensor'[e].image = i /\ tensor'[e].state = "exporting"
        /\ \A d \in Exports \ {e} : tensor'[d] = tensor[d]
    BY <1>0, <2>1, SetEffect
  <2>3. \A k \in Images \ {i}, d \in Exports : Leased(d, k)' <=> Leased(d, k)
    BY <2>1, <2>2 DEF Leased
  <2>4. ~Leased(e, i) /\ (Leased(e, i)' <=> kind[i] # "output")
        /\ \A d \in Exports \ {e} : Leased(d, i)' <=> Leased(d, i)
    BY <2>1, <2>2 DEF Leased
  <2>5. CASE kind[i] = "output"
    BY <1>b, <2>1, <2>3, <2>4, <2>5
  <2>6. CASE kind[i] # "output"
    <3>1. refs'[i] = refs[i] + 1 /\ \A k \in Images \ {i} : refs'[k] = refs[k]
      BY <1>0, <2>1, <2>6 DEF TypeOK
    <3>2. client[i] \in Nat /\ stage[i] = "frame"
      BY <1>0, <2>1, LeaseFrames
    <3>3. Leases(i)' = Leases(i) + 1
      BY <1>0, <2>1, <2>4, <2>6, LeasesMove
    <3> QED
      BY <1>8, <2>1, <2>3, <3>1, <3>2, <3>3
  <2> QED
    BY <2>5, <2>6
<1>14. ASSUME NEW t \in Threads, ExportOrdered(t) \/ ExportWaited(t) \/ ExportReleased(t)
       PROVE  RefOK(j)'
  <2>1. /\ item[t] \in Exports /\ Source(t) \in Images
        /\ tensor[item[t]].state = "exporting" /\ tensor[item[t]].image = Source(t)
    <3>1. pc[t] = "export"
      BY <1>14 DEF ExportOrdered, ExportWaited, ExportReleased, At
    <3> QED
      BY <1>0, <3>1, CallFrames DEF CallsOK, Source
  <2>2. UNCHANGED <<kind, stage, client, refs, tracked, initialized>>
    BY <1>14 DEF ExportOrdered, ExportWaited, ExportReleased, image, lease
  <2>3. CASE kind[Source(t)] # "output" /\ \E o \in {"stream", "host"} :
                Set(item[t], Source(t), "unused", o)
    <3>1. /\ tensor'[item[t]].image = Source(t) /\ tensor'[item[t]].state = "unused"
          /\ \A d \in Exports \ {item[t]} : tensor'[d] = tensor[d]
      BY <1>0, <2>1, <2>3, SetEffect
    <3>2. \A d \in Exports : Leased(d, j)' <=> Leased(d, j)
      BY <2>1, <2>2, <2>3, <3>1 DEF Leased
    <3> QED
      BY <1>b, <2>2, <3>2
  <2>4. CASE kind[Source(t)] = "output" /\ Set(item[t], 0, "none", "none")
    <3>1. /\ tensor'[item[t]].image = 0 /\ tensor'[item[t]].state = "none"
          /\ \A d \in Exports \ {item[t]} : tensor'[d] = tensor[d]
      BY <1>0, <2>1, <2>4, SetEffect
    <3>2. \A d \in Exports : Leased(d, j)' <=> Leased(d, j)
      BY <2>1, <2>2, <2>4, <3>1 DEF Leased
    <3> QED
      BY <1>b, <2>2, <3>2
  <2> QED
    BY <1>14, <2>3, <2>4 DEF ExportOrdered, ExportWaited, ExportReleased
<1>15. ASSUME NEW t \in Threads, ExportOutput(t) PROVE RefOK(j)'
  <2>a. pc[t] = "export" /\ item[t] \in Exports /\ Source(t) \in Images
    BY <1>0, <1>15, CallFrames DEF ExportOutput, At
  <2>b. PICK e \in Exports, i \in Images : e = item[t] /\ i = Source(t)
    BY <2>a
  <2>1. /\ kind[i] = "output" /\ Set(e, i, "unused", "host")
        /\ refs' = [refs EXCEPT ![i] = @ + 1]
        /\ UNCHANGED <<kind, stage, client, tracked, initialized>>
    BY <1>15, <2>b DEF ExportOutput, image
  <2>2. /\ stage[i] = "frame" /\ tensor[e].state = "exporting" /\ tensor[e].image = i
    BY <1>0, <2>a, <2>b, CallFrames DEF CallsOK, Source
  <2>3. /\ tensor'[e].image = i /\ tensor'[e].state = "unused"
        /\ \A d \in Exports \ {e} : tensor'[d] = tensor[d]
    BY <1>0, <2>1, <2>2, SetEffect
  <2>4. \A k \in Images \ {i}, d \in Exports : Leased(d, k)' <=> Leased(d, k)
    BY <2>1, <2>2, <2>3 DEF Leased
  <2>5. ~Leased(e, i) /\ Leased(e, i)' /\ \A d \in Exports \ {e} : Leased(d, i)' <=> Leased(d, i)
    BY <2>1, <2>2, <2>3 DEF Leased
  <2>6. refs'[i] = refs[i] + 1 /\ \A k \in Images \ {i} : refs'[k] = refs[k]
    BY <1>0, <2>1, <2>2 DEF TypeOK
  <2>7. Leases(i)' = Leases(i) + 1
    BY <1>0, <2>1, <2>2, <2>5, LeasesMove
  <2> QED
    BY <1>8, <2>1, <2>2, <2>4, <2>6, <2>7
<1>16. ASSUME NEW e \in Exports, NEW i \in Images, tensor[e].image = i, Leased(e, i),
              refs' = [refs EXCEPT ![i] = @ - 1], UNCHANGED <<kind, stage, client, tracked, initialized>>,
              \E k \in {0, i} : Set(e, k, "none", "none")
       PROVE  RefOK(j)'
  <2>1. tensor'[e].state = "none" /\ \A d \in Exports \ {e} : tensor'[d] = tensor[d]
    BY <1>0, <1>16, SetEffect
  <2>2. \A k \in Images \ {i}, d \in Exports : Leased(d, k)' <=> Leased(d, k)
    BY <1>16, <2>1 DEF Leased
  <2>3. ~Leased(e, i)' /\ \A d \in Exports \ {e} : Leased(d, i)' <=> Leased(d, i)
    BY <1>16, <2>1 DEF Leased
  <2>4. refs'[i] = refs[i] - 1 /\ \A k \in Images \ {i} : refs'[k] = refs[k]
    BY <1>0, <1>16 DEF TypeOK
  <2>5. client[i] \in Nat /\ stage[i] = "frame"
    BY <1>0, <1>16, LeaseFrames
  <2>6. Leases(i)' = Leases(i) - 1
    BY <1>0, <1>16, <2>3, LeasesMove
  <2> QED
    BY <1>8, <1>16, <2>2, <2>4, <2>5, <2>6
<1>17. ASSUME NEW t \in Threads, ExportFails(t) PROVE RefOK(j)'
  <2>1. /\ pc[t] = "export" /\ kind[Source(t)] # "output" /\ Set(item[t], 0, "none", "none")
        /\ refs' = [refs EXCEPT ![Source(t)] = @ - 1]
        /\ UNCHANGED <<kind, stage, client, tracked, initialized>>
    BY <1>17 DEF ExportFails, Unref, At, image
  <2>2. item[t] \in Exports /\ Source(t) \in Images /\ Leased(item[t], Source(t))
        /\ tensor[item[t]].image = Source(t)
    BY <1>0, <2>1, CallFrames DEF Source
  <2> QED
    BY <1>16, <2>1, <2>2
<1>18. ASSUME NEW e \in Exports, Take(e) PROVE RefOK(j)'
  <2>1. /\ tensor[e].state = "unused" /\ Set(e, tensor[e].image, "used", tensor[e].order)
        /\ UNCHANGED <<kind, stage, client, refs, tracked, initialized>>
    BY <1>18 DEF Take, lease, image
  <2>2. /\ tensor'[e].image = tensor[e].image /\ tensor'[e].state = "used"
        /\ \A d \in Exports \ {e} : tensor'[d] = tensor[d]
    BY <1>0, <2>1 DEF Set, TypeOK
  <2>3. \A d \in Exports : Leased(d, j)' <=> Leased(d, j)
    BY <2>1, <2>2 DEF Leased
  <2> QED
    BY <1>b, <2>1, <2>3
<1>19. ASSUME NEW t \in Threads, NEW e \in Exports, DeleteTensor(t, e) PROVE RefOK(j)'
  <2> DEFINE i == tensor[e].image
  <2>1. /\ tensor[e].state \in {"unused", "used"} /\ Set(e, i, "none", "none")
        /\ UNCHANGED <<kind, stage, client, tracked, initialized>>
    BY <1>19 DEF DeleteTensor, image
  <2>2. i \in Images /\ Leased(e, i)
    BY <1>0, <2>1 DEF TensorsOK, Leased
  <2>3. CASE kind[i] = "output" /\ ~initialized
    <3>1. refs' = refs
      BY <1>19, <2>3 DEF DeleteTensor
    <3>2. tensor'[e].state = "none" /\ \A d \in Exports \ {e} : tensor'[d] = tensor[d]
      BY <1>0, <2>1, <2>2, SetEffect
    <3>3. CASE j # i
      <4>1. \A d \in Exports : Leased(d, j)' <=> Leased(d, j)
        BY <2>1, <3>2, <3>3 DEF Leased
      <4> QED
        BY <1>b, <2>1, <3>1, <4>1
    <3>4. CASE j = i
      <4>1. ~Leased(e, j)' /\ \A d \in Exports \ {e} : Leased(d, j)' <=> Leased(d, j)
        BY <2>1, <3>2 DEF Leased
      <4>3. Leases(j)' = Leases(j) - 1
        BY <1>0, <2>1, <2>2, <3>4, <4>1, LeasesMove
      <4>4. Leases(j) <= refs[j] /\ refs[j] \in Nat /\ Leases(j) \in Nat
            /\ (refs[j] > 0 => stage[j] = "frame")
        BY <1>0, LeasesBound
      <4>5. ~initialized' /\ kind'[j] = "output" /\ refs'[j] = refs[j] /\ stage'[j] = stage[j]
        BY <2>1, <2>3, <3>1, <3>4
      <4> QED
        BY <4>3, <4>4, <4>5 DEF RefOK
    <3> QED
      BY <3>3, <3>4
  <2>4. CASE ~(kind[i] = "output" /\ ~initialized)
    <3>1. refs' = [refs EXCEPT ![i] = @ - 1]
      BY <1>19, <2>4 DEF DeleteTensor, Unref
    <3> QED
      BY <1>16, <2>1, <2>2, <3>1
  <2> QED
    BY <2>3, <2>4
<1> QED
  BY <1>1, <1>2, <1>3, <1>4, <1>5, <1>6, <1>7, <1>9, <1>10, <1>11, <1>12, <1>13, <1>14,
     <1>15, <1>17, <1>18, <1>19, StepCases

-----------------------------------------------------------------------------
(* Threads that give an image back.                                        *)

\* Nobody's location changes, and images that are given back stay so.
LEMMA FinishKept ==
    ASSUME FinishingOK, UNCHANGED <<pc, item>>,
           \A j \in Images : Finished(j) =>
                /\ refs'[j] = 0 /\ stage'[j] = stage[j]
                /\ work[j] \in Settled => work'[j] = work[j]
    PROVE  FinishingOK' /\ \A j \in Images : Finished(j)' <=> Finished(j)
<1>1. \A t \in Threads : Finishing(t)' <=> Finishing(t)
  BY DEF Finishing
<1>2. \A t \in Threads : Finishing(t) => Finished(item[t])
  BY DEF Finished
<1>3. \A j : Finished(j)' <=> Finished(j)
  BY <1>1 DEF Finished
<1> QED
  BY <1>1, <1>2, <1>3 DEF FinishingOK

\* One thread's location changes.
LEMMA FinishStep ==
    ASSUME FinishingOK, NEW t \in Threads,
           \A u \in Threads \ {t} : pc'[u] = pc[u] /\ item'[u] = item[u],
           \A j \in Images : Finished(j) =>
                /\ refs'[j] = 0 /\ stage'[j] = stage[j]
                /\ work[j] \in Settled => work'[j] = work[j],
           pc'[t] \in {"cancel", "delete", "destroy", "callback"} =>
                /\ item'[t] \in Images /\ refs'[item'[t]] = 0
                /\ stage'[item'[t]] \in {"frame", "refused"}
                /\ pc'[t] = "cancel" => stage'[item'[t]] = "refused"
                /\ pc'[t] = "delete" => stage'[item'[t]] = "frame"
                /\ pc'[t] = "callback" => work'[item'[t]] \in Settled
                /\ (Finishing(t) /\ item[t] = item'[t]) \/ ~Finished(item'[t])
    PROVE  FinishingOK'
<1>1. \A u \in Threads \ {t} : Finishing(u)' <=> Finishing(u)
  BY DEF Finishing
<1>2. \A u \in Threads : Finishing(u) => Finished(item[u])
  BY DEF Finished
<1>3. Finishing(t)' <=> pc'[t] \in {"cancel", "delete", "destroy", "callback"}
  BY DEF Finishing
<1>4. ASSUME NEW u \in Threads, Finishing(u)'
      PROVE  /\ item'[u] \in Images /\ refs'[item'[u]] = 0
             /\ stage'[item'[u]] \in {"frame", "refused"}
             /\ pc'[u] = "cancel" => stage'[item'[u]] = "refused"
             /\ pc'[u] = "delete" => stage'[item'[u]] = "frame"
             /\ pc'[u] = "callback" => work'[item'[u]] \in Settled
  <2>1. CASE u = t
    BY <1>3, <1>4, <2>1
  <2>2. CASE u # t
    <3>1. Finishing(u) /\ Finished(item[u]) /\ pc'[u] = pc[u] /\ item'[u] = item[u]
      BY <1>1, <1>2, <1>4, <2>2
    <3> QED
      BY <3>1 DEF FinishingOK
  <2> QED
    BY <2>1, <2>2
<1>5. ASSUME NEW u \in Threads \ {t}, Finishing(u)', Finishing(t)', item'[u] = item'[t]
      PROVE  FALSE
  <2>1. Finishing(u) /\ Finished(item[u]) /\ item[u] = item'[t]
    BY <1>1, <1>2, <1>5
  <2>2. Finishing(t) /\ item[t] = item[u]
    BY <1>3, <1>5, <2>1
  <2> QED
    BY <2>1, <2>2 DEF FinishingOK
<1>6. ASSUME NEW u \in Threads, NEW v \in Threads, Finishing(u)', Finishing(v)',
             item'[u] = item'[v]
      PROVE  u = v
  <2>1. CASE u # t /\ v # t
    BY <1>1, <1>6, <2>1 DEF FinishingOK
  <2> QED
    BY <1>5, <1>6, <2>1
<1> QED
  BY <1>4, <1>6 DEF FinishingOK

LEMMA FinishingStep ==
    ASSUME Inductive, Next
    PROVE  FinishingOK'
<1>0. /\ TypeOK /\ PoolOK /\ ReservedOK /\ RefsOK /\ FinishingOK /\ CallsOK
      /\ OwnersOK /\ CompletionsOK /\ TensorsOK
  BY DEF Inductive
<1>f. \A j \in Images : Finished(j) => refs[j] = 0 /\ stage[j] \in {"frame", "refused"}
  BY <1>0 DEF Finished, FinishingOK
<1>n. \A j \in Images : refs[j] > 0 \/ stage[j] \in {"none", "writable"} => ~Finished(j)
  <2>1. \A j \in Images : refs[j] \in Nat
    BY <1>0 DEF TypeOK
  <2> QED
    BY <1>f, <2>1
<1>1. ASSUME NEW t \in Threads, AcquireNow(t) \/ AcquireWakes(t) PROVE FinishingOK'
  <2>1. PICK i \in Fresh, s \in Free : Reserve(t, i, s)
    BY <1>1 DEF AcquireNow, AcquireWakes
  <2>2. i \in Images /\ ~Finished(i) /\ \E l \in {"writable"} : stage' = [stage EXCEPT ![i] = l]
    BY <1>n, <2>1 DEF Fresh, Reserve
  <2>3. UNCHANGED <<refs, work, pc, item>>
    BY <2>1 DEF Reserve, lease, producer, thread
  <2> QED
    BY <1>0, <1>f, <2>2, <2>3, FinishKept DEF TypeOK
<1>2. ASSUME NEW t \in Threads,
             \/ AcquireWaits(t, "finite") \/ AcquireWaits(t, "infinite") \/ AcquireEnds(t)
             \/ Notify(t)
      PROVE  FinishingOK'
  <2>1. UNCHANGED <<refs, stage, work, pc, item>>
    BY <1>2 DEF AcquireWaits, AcquireEnds, Notify, lease, image, producer, thread
  <2> QED
    BY <1>0, <1>f, <2>1, FinishKept
<1>3. ASSUME NEW t \in Threads, NEW i \in Images, CloseSlot(t, i) \/ Output(t, i)
      PROVE  FinishingOK'
  <2>1. stage[i] = "writable" /\ ~Finished(i) /\ UNCHANGED <<work, pc, item>>
    BY <1>3, <1>n DEF CloseSlot, Output, producer, thread
  <2>2. /\ \E l \in {"gone", "frame"} : stage' = [stage EXCEPT ![i] = l]
        /\ refs' = refs \/ refs' = [refs EXCEPT ![i] = 1]
    BY <1>3 DEF CloseSlot, Output, MakeHandle, lease
  <2>3. \A j \in Images : Finished(j) => refs'[j] = 0 /\ stage'[j] = stage[j]
    BY <1>0, <1>f, <2>1, <2>2 DEF TypeOK
  <2> QED
    BY <1>0, <2>1, <2>3, FinishKept
<1>4. ASSUME NEW i \in Images, \/ \E t \in Threads : Submit(t, i)
                               \/ \E o \in Settled : Produce(i, o)
      PROVE  FinishingOK'
  <2>1. /\ UNCHANGED <<refs, stage, pc, item>> /\ work[i] \in {"none", "pending"}
        /\ \E w : work' = [work EXCEPT ![i] = w]
    BY <1>4 DEF Submit, Produce, lease, image, thread
  <2>2. \A j \in Images : work[j] \in Settled => work'[j] = work[j]
    BY <1>0, <2>1 DEF TypeOK, Settled
  <2> QED
    BY <1>0, <1>f, <2>1, <2>2, FinishKept
<1>5. ASSUME NEW t \in Threads, NEW i \in Images, Consume(t, i) PROVE FinishingOK'
  <2>1. i \in Fresh /\ UNCHANGED <<refs, pc, item>>
        /\ \E l \in {"gone", "writable"} : stage' = [stage EXCEPT ![i] = l]
        /\ (work' = work \/ \E w : work' = [work EXCEPT ![i] = w])
    BY <1>5 DEF Consume, lease, thread
  <2>2. ~Finished(i)
    BY <1>n, <2>1 DEF Fresh
  <2>3. \A j \in Images : Finished(j) => stage'[j] = stage[j] /\ work'[j] = work[j]
    BY <1>0, <2>1, <2>2 DEF TypeOK
  <2> QED
    BY <1>0, <1>f, <2>1, <2>3, FinishKept
<1>6. ASSUME NEW t \in Threads, NEW i \in Images, Import(t, i) PROVE FinishingOK'
  <2>1. stage[i] = "writable" /\ ~Finished(i) /\ work' = work
    BY <1>0, <1>6, <1>n, ImportEffect
  <2>2. \/ /\ stage' = [stage EXCEPT ![i] = "frame"] /\ refs' = [refs EXCEPT ![i] = 1]
           /\ UNCHANGED <<pc, item>>
        \/ /\ stage' = [stage EXCEPT ![i] = "refused"] /\ refs' = refs
           /\ \E l \in {"cancel", "destroy"} : Goto(t, l, i)
    BY <1>0, <1>6, ImportEffect DEF MakeHandle
  <2>3. \A j \in Images : Finished(j) => refs'[j] = 0 /\ stage'[j] = stage[j]
    BY <1>0, <1>f, <2>1, <2>2 DEF TypeOK
  <2>4. CASE UNCHANGED <<pc, item>>
    BY <1>0, <2>1, <2>3, <2>4, FinishKept
  <2>5. ASSUME NEW l \in {"cancel", "destroy"}, Goto(t, l, i), refs' = refs,
               stage' = [stage EXCEPT ![i] = "refused"]
        PROVE  FinishingOK'
    <3>1. /\ pc'[t] = l /\ item'[t] = i
          /\ \A u \in Threads \ {t} : pc'[u] = pc[u] /\ item'[u] = item[u]
      BY <1>0, <2>5, GotoEffect, Bounds
    <3>2. stage'[i] = "refused" /\ refs'[i] = 0
      BY <1>0, <2>1, <2>5, LeaseFrames DEF TypeOK
    <3> QED
      BY <1>0, <2>1, <2>3, <3>1, <3>2, FinishStep
  <2> QED
    BY <2>2, <2>4, <2>5
<1>7. ASSUME NEW t \in Threads, NEW i \in Images, Retain(t, i) \/ Observe(t, i)
      PROVE  FinishingOK'
  <2>1. client[i] > 0
    <3>1. ASSUME client[i] \in 1..(MaxRefs - 1) PROVE client[i] > 0
      BY <3>1, BoundAssumption
    <3> QED
      BY <1>7, <3>1 DEF Retain, Observe
  <2>2. ~Finished(i) /\ UNCHANGED <<pc, item, work, stage>>
        /\ (refs' = refs \/ refs' = [refs EXCEPT ![i] = @ + 1])
    <3>1. ~Finished(i)
      BY <1>0, <1>n, <2>1, LeaseFrames
    <3> QED
      BY <1>7, <3>1 DEF Retain, Observe, image, producer, lease, thread
  <2>3. \A j \in Images : Finished(j) => refs'[j] = 0
    BY <1>0, <1>f, <2>2 DEF TypeOK
  <2> QED
    BY <1>0, <2>2, <2>3, FinishKept
<1>8. ASSUME \/ Quiescent \/ Finalize \/ \E e \in Exports : Take(e)
             \/ \E i \in Images : RuntimeDone(i)
      PROVE  FinishingOK'
  <2>1. UNCHANGED <<refs, stage, work, pc, item>>
    BY <1>8 DEF Quiescent, Finalize, Take, RuntimeDone, vars, lease, image, producer, thread
  <2> QED
    BY <1>0, <1>f, <2>1, FinishKept
<1>9. ASSUME NEW t \in Threads, NEW i \in Images,
             Encode(t, i) \/ \E e \in Exports : Export(t, e, i)
      PROVE  FinishingOK'
  <2>1. /\ UNCHANGED <<stage, work>> /\ client[i] > 0
        /\ \E l \in {"encode", "export"}, n \in Nat : Goto(t, l, n)
        /\ refs' = refs \/ refs' = [refs EXCEPT ![i] = @ + 1]
    BY <1>9, Bounds DEF Encode, Export, image, producer, lease
  <2>2. /\ pc'[t] \in {"encode", "export"}
        /\ \A u \in Threads \ {t} : pc'[u] = pc[u] /\ item'[u] = item[u]
    BY <1>0, <2>1, GotoEffect
  <2>3. ~Finished(i)
    BY <1>0, <1>n, <2>1, LeaseFrames
  <2>4. \A j \in Images : Finished(j) => refs'[j] = 0
    BY <1>0, <1>f, <2>1, <2>3 DEF TypeOK
  <2> QED
    BY <1>0, <2>1, <2>2, <2>4, FinishStep
<1>10. ASSUME NEW t \in Threads, \/ ExportOrdered(t) \/ ExportWaited(t) \/ ExportReleased(t)
                                 \/ Cancel(t)
       PROVE  FinishingOK'
  <2>1. UNCHANGED <<refs, stage, work>> /\ Goto(t, "idle", 0)
    BY <1>10 DEF ExportOrdered, ExportWaited, ExportReleased, Cancel, Return, image, lease, producer
  <2>2. /\ pc'[t] = "idle"
        /\ \A u \in Threads \ {t} : pc'[u] = pc[u] /\ item'[u] = item[u]
    BY <1>0, <2>1, GotoEffect
  <2> QED
    BY <1>0, <1>f, <2>1, <2>2, FinishStep
<1>11. ASSUME NEW t \in Threads, ExportOutput(t) \/ EncodeReturns(t) PROVE FinishingOK'
  <2>1. PICK i \in Images :
            /\ ~Finished(i) /\ UNCHANGED <<stage, work>> /\ Goto(t, "idle", 0)
            /\ refs' = refs \/ refs' = [refs EXCEPT ![i] = @ + 1]
    <3>1. CASE ExportOutput(t)
      <4>1. /\ Source(t) \in Images /\ stage[Source(t)] = "frame" /\ kind[Source(t)] = "output"
            /\ Source(t) \notin recycled
        BY <1>0, <3>1, CallFrames DEF ExportOutput, At
      <4>2. refs[Source(t)] > 0
        BY <1>0, <4>1 DEF OwnersOK, OwnerOK, TypeOK
      <4> QED
        BY <1>n, <3>1, <4>1, <4>2 DEF ExportOutput, Return, image, producer
    <3>2. CASE EncodeReturns(t)
      <4>1. item[t] \in Images /\ refs[item[t]] > 0
        BY <1>0, <3>2, CallFrames DEF EncodeReturns, At
      <4> QED
        BY <1>n, <3>2, <4>1 DEF EncodeReturns, Return, image
    <3> QED
      BY <1>11, <3>1, <3>2
  <2>2. /\ pc'[t] = "idle"
        /\ \A u \in Threads \ {t} : pc'[u] = pc[u] /\ item'[u] = item[u]
    BY <1>0, <2>1, GotoEffect
  <2>3. \A j \in Images : Finished(j) => refs'[j] = 0
    BY <1>0, <1>f, <2>1 DEF TypeOK
  <2> QED
    BY <1>0, <2>1, <2>2, <2>3, FinishStep
<1>12. ASSUME NEW t \in Threads, NEW i \in Images, Unref(t, i), refs[i] > 0,
              UNCHANGED <<stage, work>>
       PROVE  FinishingOK'
  <2>1. stage[i] = "frame" /\ work[i] # "none" /\ ~Finished(i)
    BY <1>0, <1>12, <1>n, LeaseFrames DEF CompletionsOK
  <2>2. /\ \A j \in Images \ {i} : refs'[j] = refs[j]
        /\ pc' = [pc EXCEPT ![t] = pc'[t]] /\ item' = [item EXCEPT ![t] = item'[t]]
        /\ \/ pc'[t] = "idle"
           \/ /\ refs'[i] = 0 /\ item'[t] = i /\ pc'[t] \in {"delete", "destroy", "callback"}
              /\ pc'[t] = "callback" => work[i] \in Settled
    BY <1>0, <1>12, <2>1, UnrefEffect
  <2>3. \A u \in Threads \ {t} : pc'[u] = pc[u] /\ item'[u] = item[u]
    BY <1>0, <2>2 DEF TypeOK
  <2>4. \A j \in Images : Finished(j) => refs'[j] = 0
    BY <1>f, <2>1, <2>2
  <2>5. pc'[t] \in {"cancel", "delete", "destroy", "callback"} =>
            /\ item'[t] = i /\ refs'[i] = 0 /\ pc'[t] # "cancel"
            /\ pc'[t] = "callback" => work[i] \in Settled
    BY <2>2
  <2> QED
    BY <1>0, <1>12, <2>1, <2>3, <2>4, <2>5, FinishStep
<1>13. ASSUME NEW t \in Threads, NEW i \in Images, Release(t, i) \/ Retire(t, i)
       PROVE  FinishingOK'
  <2>1. Unref(t, i) /\ UNCHANGED <<stage, work>>
    BY <1>13 DEF Release, Retire, image
  <2>2. refs[i] > 0
    <3>1. CASE Retire(t, i)
      BY <1>0, <3>1, LeaseFrames DEF Retire, Retirable
    <3>2. CASE Release(t, i)
      <4>1. client[i] > 0
        BY <1>0, <3>2, ReleaseGuard
      <4> QED
        BY <1>0, <4>1, LeaseFrames
    <3> QED
      BY <1>13, <3>1, <3>2
  <2> QED
    BY <1>12, <2>1, <2>2
<1>14. ASSUME NEW t \in Threads, ExportFails(t) PROVE FinishingOK'
  <2>1. Unref(t, Source(t)) /\ UNCHANGED <<stage, work>>
    BY <1>14 DEF ExportFails, image
  <2>2. Source(t) \in Images /\ refs[Source(t)] > 0
    BY <1>0, <1>14, CallFrames DEF ExportFails, At
  <2> QED
    BY <1>12, <2>1, <2>2
<1>15. ASSUME NEW t \in Threads, NEW e \in Exports, DeleteTensor(t, e) PROVE FinishingOK'
  <2>1. /\ UNCHANGED <<stage, work>> /\ tensor[e].image \in Images
        /\ UNCHANGED <<refs, pc, item>> \/ Unref(t, tensor[e].image)
        /\ Leased(e, tensor[e].image)
    BY <1>0, <1>15 DEF DeleteTensor, TensorsOK, Leased, image, thread
  <2>2. refs[tensor[e].image] > 0
    BY <1>0, <2>1, LeaseFrames
  <2>3. CASE UNCHANGED <<refs, pc, item>>
    BY <1>0, <1>f, <2>1, <2>3, FinishKept
  <2> QED
    BY <1>12, <2>1, <2>2, <2>3
<1>16. ASSUME NEW t \in Threads, Delete(t) \/ Destroy(t) \/ Callback(t) PROVE FinishingOK'
  <2>1. /\ UNCHANGED <<refs, stage, work>> /\ Finishing(t) /\ item[t] \in Images
        /\ refs[item[t]] = 0 /\ stage[item[t]] \in {"frame", "refused"}
    BY <1>0, <1>16
    DEF Delete, Destroy, Callback, At, Finishing, FinishingOK, image, lease, producer
  <2>2. PICK l \in {"destroy", "callback", "cancel", "idle"}, n \in Nat :
            /\ Goto(t, l, n) /\ (l # "idle" => n = item[t])
            /\ l = "callback" => work[item[t]] \in Settled
            /\ l = "cancel" => stage[item[t]] = "refused"
    <3>1. item[t] \in Nat /\ 0 \in Nat
      BY <2>1, Bounds
    <3>2. CASE Delete(t)
      BY <3>1, <3>2 DEF Delete
    <3>3. CASE Destroy(t)
      <4>1. Query(item[t]) \in Settled
        BY <3>3 DEF Destroy, CompletionsDone
      <4>2. work[item[t]] \in Settled
        BY <1>0, <2>1, <4>1, QueryTrue
      <4> QED
        BY <3>1, <3>3, <4>2 DEF Destroy
    <3>4. CASE Callback(t)
      BY <3>1, <3>4 DEF Callback, Return
    <3> QED
      BY <1>16, <3>2, <3>3, <3>4
  <2>3. /\ pc'[t] = l /\ item'[t] = n
        /\ \A u \in Threads \ {t} : pc'[u] = pc[u] /\ item'[u] = item[u]
    BY <1>0, <2>2, GotoEffect
  <2> QED
    BY <1>0, <1>f, <2>1, <2>2, <2>3, FinishStep
<1> QED
  BY <1>1, <1>2, <1>3, <1>4, <1>5, <1>6, <1>7, <1>8, <1>9, <1>10, <1>11, <1>13, <1>14,
     <1>15, <1>16, StepCases

-----------------------------------------------------------------------------
(* Threads inside an encoder call or an export.                            *)

\* One thread's location changes, or none's.
LEMMA CallKept ==
    ASSUME CallsOK, UNCHANGED <<pc, item>>,
           \A i \in Images : client[i] > 0 => client'[i] > 0,
           \A e \in Exports : tensor[e].state = "exporting" => tensor'[e].state = "exporting"
    PROVE  CallsOK'
<1> QED
  BY DEF CallsOK

LEMMA CallMoves ==
    ASSUME CallsOK, NEW t \in Threads,
           \A u \in Threads \ {t} :
                /\ pc'[u] = pc[u] /\ item'[u] = item[u]
                /\ pc[u] = "encode" => client'[item[u]] > 0
                /\ pc[u] = "export" => tensor'[item[u]].state = "exporting",
           pc'[t] = "encode" => item'[t] \in Images /\ client'[item'[t]] > 0,
           pc'[t] = "export" => /\ item'[t] \in Exports /\ tensor'[item'[t]].state = "exporting"
                                /\ tensor[item'[t]].state # "exporting"
    PROVE  CallsOK'
<1>1. \A u \in Threads : pc'[u] = "encode" => item'[u] \in Images /\ client'[item'[u]] > 0
  BY DEF CallsOK
<1>2. \A u \in Threads : pc'[u] = "export" =>
            item'[u] \in Exports /\ tensor'[item'[u]].state = "exporting"
  BY DEF CallsOK
<1>3. \A u, v \in Threads : pc'[u] = "export" /\ pc'[v] = "export" /\ item'[u] = item'[v] => u = v
  BY DEF CallsOK
<1> QED
  BY <1>1, <1>2, <1>3 DEF CallsOK

LEMMA CallsStep ==
    ASSUME Inductive, TypeOK', Next
    PROVE  CallsOK'
<1>0. /\ TypeOK /\ PoolOK /\ ReservedOK /\ RefsOK /\ FinishingOK /\ CallsOK
      /\ OwnersOK /\ CompletionsOK /\ TensorsOK
  BY DEF Inductive
<1>1. ASSUME NEW t \in Threads,
             \/ AcquireNow(t) \/ AcquireWakes(t) \/ AcquireWaits(t, "finite")
             \/ AcquireWaits(t, "infinite") \/ AcquireEnds(t) \/ Notify(t)
      PROVE  CallsOK'
  <2>1. UNCHANGED <<pc, item, client, tensor>>
    BY <1>1 DEF AcquireNow, AcquireWakes, Reserve, AcquireWaits, AcquireEnds, Notify, lease, thread
  <2> QED
    BY <1>0, <2>1, CallKept
<1>2. ASSUME NEW i \in Images,
             \/ RuntimeDone(i) \/ \E o \in Settled : Produce(i, o)
             \/ \E t \in Threads : CloseSlot(t, i) \/ Submit(t, i) \/ Consume(t, i) \/ Observe(t, i)
      PROVE  CallsOK'
  <2>1. UNCHANGED <<pc, item, client, tensor>>
    BY <1>2 DEF CloseSlot, Submit, Produce, Consume, Observe, RuntimeDone, lease, thread
  <2> QED
    BY <1>0, <2>1, CallKept
<1>3. ASSUME Finalize \/ Quiescent PROVE CallsOK'
  <2>1. UNCHANGED <<pc, item, client, tensor>>
    BY <1>3 DEF Finalize, Quiescent, vars, lease, thread
  <2> QED
    BY <1>0, <2>1, CallKept
<1>4. ASSUME NEW t \in Threads, NEW i \in Images, Output(t, i) \/ Retain(t, i)
      PROVE  CallsOK'
  <2>1. UNCHANGED <<pc, item, tensor>>
        /\ (client' = [client EXCEPT ![i] = 1] \/ client' = [client EXCEPT ![i] = @ + 1])
    BY <1>4 DEF Output, MakeHandle, Retain, thread
  <2>2. \A j \in Images : client[j] > 0 => client'[j] > 0
    BY <1>0, <2>1 DEF TypeOK
  <2> QED
    BY <1>0, <2>1, <2>2, CallKept
<1>5. ASSUME NEW t \in Threads, NEW l \in {"idle", "cancel", "delete", "destroy", "callback"},
             NEW n \in Nat, Goto(t, l, n), UNCHANGED <<client, tensor>>
      PROVE  CallsOK'
  <2>1. /\ pc'[t] = l /\ \A u \in Threads \ {t} : pc'[u] = pc[u] /\ item'[u] = item[u]
    BY <1>0, <1>5, GotoEffect
  <2> QED
    BY <1>0, <1>5, <2>1, CallMoves DEF CallsOK
<1>6. ASSUME NEW t \in Threads, NEW i \in Images, Import(t, i) PROVE CallsOK'
  <2>1. \/ client' = [client EXCEPT ![i] = 1] /\ UNCHANGED <<pc, item>>
        \/ client' = client /\ \E l \in {"cancel", "destroy"} : Goto(t, l, i)
    BY <1>0, <1>6, ImportEffect DEF MakeHandle
  <2>2. tensor' = tensor /\ i \in Nat
    BY <1>0, <1>6, ImportEffect, Bounds
  <2>3. CASE client' = [client EXCEPT ![i] = 1] /\ UNCHANGED <<pc, item>>
    <3>1. \A j \in Images : client[j] > 0 => client'[j] > 0
      BY <1>0, <2>3 DEF TypeOK
    <3> QED
      BY <1>0, <2>2, <2>3, <3>1, CallKept
  <2> QED
    BY <1>5, <2>1, <2>2, <2>3
<1>7. ASSUME NEW t \in Threads, \/ Cancel(t) \/ Delete(t) \/ Destroy(t) \/ Callback(t)
                                \/ EncodeReturns(t)
      PROVE  CallsOK'
  <2>1. 0 \in Nat /\ item[t] \in Nat
    BY <1>0 DEF TypeOK
  <2>2. /\ UNCHANGED <<client, tensor>>
        /\ \E l \in {"idle", "cancel", "delete", "destroy", "callback"}, n \in Nat : Goto(t, l, n)
    BY <1>7, <2>1 DEF Cancel, Delete, Destroy, Callback, EncodeReturns, Return, lease
  <2> QED
    BY <1>5, <2>2
<1>8. ASSUME NEW t \in Threads, NEW i \in Images, Encode(t, i) PROVE CallsOK'
  <2>1. Goto(t, "encode", i) /\ client[i] > 0 /\ UNCHANGED <<client, tensor>> /\ i \in Nat
    BY <1>8, Bounds DEF Encode, lease
  <2>2. /\ pc'[t] = "encode" /\ item'[t] = i
        /\ \A u \in Threads \ {t} : pc'[u] = pc[u] /\ item'[u] = item[u]
    BY <1>0, <2>1, GotoEffect
  <2> QED
    BY <1>0, <2>1, <2>2, CallMoves DEF CallsOK
<1>9. ASSUME NEW t \in Threads, NEW i \in Images, NEW e \in Exports, Export(t, e, i)
      PROVE  CallsOK'
  <2>1. /\ Goto(t, "export", e) /\ e \in Nat /\ client' = client
        /\ tensor[e].state = "none" /\ Set(e, i, "exporting", "none")
    BY <1>9, Bounds DEF Export
  <2>2. /\ pc'[t] = "export" /\ item'[t] = e
        /\ \A u \in Threads \ {t} : pc'[u] = pc[u] /\ item'[u] = item[u]
    BY <1>0, <2>1, GotoEffect
  <2>3. tensor'[e].state = "exporting" /\ \A d \in Exports \ {e} : tensor'[d] = tensor[d]
    BY <1>0, <2>1, SetEffect
  <2>4. \A u \in Threads \ {t} : pc[u] = "export" => tensor'[item[u]].state = "exporting"
    BY <1>0, <2>1, <2>3 DEF CallsOK
  <2>5. \A u \in Threads \ {t} : pc[u] = "encode" => client'[item[u]] > 0
    BY <1>0, <2>1 DEF CallsOK
  <2> QED
    BY <1>0, <2>1, <2>2, <2>3, <2>4, <2>5, CallMoves
<1>10. ASSUME NEW t \in Threads, NEW i \in Images, Unref(t, i), refs[i] > 0
       PROVE  /\ pc'[t] \in {"idle", "delete", "destroy", "callback"}
              /\ \A u \in Threads \ {t} : pc'[u] = pc[u] /\ item'[u] = item[u]
  <2>1. work[i] # "none"
    BY <1>0, <1>10, LeaseFrames DEF CompletionsOK
  <2>2. /\ pc'[t] \in {"idle", "delete", "destroy", "callback"}
        /\ pc' = [pc EXCEPT ![t] = pc'[t]] /\ item' = [item EXCEPT ![t] = item'[t]]
    BY <1>0, <1>10, <2>1, UnrefEffect
  <2> QED
    BY <1>0, <2>2 DEF TypeOK
<1>11. ASSUME NEW t \in Threads,
              \/ ExportOrdered(t) \/ ExportWaited(t) \/ ExportOutput(t) \/ ExportReleased(t)
              \/ ExportFails(t)
       PROVE  CallsOK'
  <2>1. /\ pc[t] = "export" /\ item[t] \in Exports /\ Source(t) \in Images
        /\ kind[Source(t)] # "output" => refs[Source(t)] > 0
    <3>1. pc[t] = "export"
      BY <1>11
      DEF ExportOrdered, ExportWaited, ExportOutput, ExportReleased, ExportFails, At
    <3> QED
      BY <1>0, <3>1, CallFrames
  <2>2. /\ client' = client
        /\ \E i \in Images \cup {0}, o \in {"none", "stream", "host"},
              st \in {"none", "exporting", "unused", "used"} : Set(item[t], i, st, o)
    BY <1>11, <2>1
    DEF ExportOrdered, ExportWaited, ExportOutput, ExportReleased, ExportFails, lease
  <2>3. \A d \in Exports \ {item[t]} : tensor'[d] = tensor[d]
    BY <1>0, <2>1, <2>2, SetEffect
  <2>4. /\ pc'[t] \in {"idle", "delete", "destroy", "callback"}
        /\ \A u \in Threads \ {t} : pc'[u] = pc[u] /\ item'[u] = item[u]
    <3>1. CASE Goto(t, "idle", 0)
      BY <1>0, <3>1, GotoEffect
    <3>2. CASE ExportFails(t)
      BY <1>10, <2>1, <3>2 DEF ExportFails
    <3> QED
      BY <1>11, <3>1, <3>2 DEF ExportOrdered, ExportWaited, ExportOutput, ExportReleased, Return
  <2>5. \A u \in Threads \ {t} : pc[u] = "export" => tensor'[item[u]].state = "exporting"
    BY <1>0, <2>1, <2>3 DEF CallsOK
  <2> QED
    BY <1>0, <2>2, <2>4, <2>5, CallMoves DEF CallsOK
<1>12. ASSUME NEW e \in Exports, Take(e) PROVE CallsOK'
  <2>1. /\ tensor[e].state = "unused" /\ Set(e, tensor[e].image, "used", tensor[e].order)
        /\ UNCHANGED <<pc, item, client>>
    BY <1>12 DEF Take, lease, thread
  <2>2. \A d \in Exports \ {e} : tensor'[d] = tensor[d]
    BY <1>0, <2>1 DEF Set, TypeOK
  <2> QED
    BY <1>0, <2>1, <2>2, CallKept
<1>13. ASSUME NEW t \in Threads, NEW e \in Exports, DeleteTensor(t, e) PROVE CallsOK'
  <2>1. /\ tensor[e].state \in {"unused", "used"} /\ Set(e, tensor[e].image, "none", "none")
        /\ client' = client /\ tensor[e].image \in Images /\ Leased(e, tensor[e].image)
        /\ UNCHANGED <<pc, item>> \/ Unref(t, tensor[e].image)
    BY <1>0, <1>13 DEF DeleteTensor, TensorsOK, Leased, thread
  <2>2. \A d \in Exports \ {e} : tensor'[d] = tensor[d]
    BY <1>0, <2>1, SetEffect
  <2>3. refs[tensor[e].image] > 0
    BY <1>0, <2>1, LeaseFrames
  <2>4. CASE UNCHANGED <<pc, item>>
    BY <1>0, <2>1, <2>2, <2>4, CallKept
  <2>5. CASE Unref(t, tensor[e].image)
    <3>1. /\ pc'[t] \in {"idle", "delete", "destroy", "callback"}
          /\ \A u \in Threads \ {t} : pc'[u] = pc[u] /\ item'[u] = item[u]
      BY <1>10, <2>1, <2>3, <2>5
    <3>2. \A u \in Threads \ {t} : pc[u] = "export" => tensor'[item[u]].state = "exporting"
      BY <1>0, <2>1, <2>2 DEF CallsOK
    <3> QED
      BY <1>0, <2>1, <3>1, <3>2, CallMoves DEF CallsOK
  <2> QED
    BY <2>1, <2>4, <2>5
<1>14. ASSUME NEW t \in Threads, NEW i \in Images, Release(t, i) \/ Retire(t, i)
       PROVE  CallsOK'
  <2>1. /\ Unref(t, i) /\ tensor' = tensor
        /\ \/ client' = client
           \/ client' = [client EXCEPT ![i] = @ - 1] /\ Release(t, i)
    BY <1>14 DEF Release, Retire
  <2>2. refs[i] > 0
    <3>1. CASE Retire(t, i)
      BY <1>0, <3>1, LeaseFrames DEF Retire, Retirable
    <3>2. CASE Release(t, i)
      <4>1. client[i] > 0
        BY <1>0, <3>2, ReleaseGuard
      <4> QED
        BY <1>0, <4>1, LeaseFrames
    <3> QED
      BY <1>14, <3>1, <3>2
  <2>3. /\ pc'[t] \in {"idle", "delete", "destroy", "callback"}
        /\ \A u \in Threads \ {t} : pc'[u] = pc[u] /\ item'[u] = item[u]
    BY <1>10, <2>1, <2>2
  <2>4. \A u \in Threads : pc[u] = "encode" => client'[item[u]] > 0
    <3>1. CASE client' = client
      BY <1>0, <3>1 DEF CallsOK
    <3>2. CASE client' = [client EXCEPT ![i] = @ - 1] /\ Release(t, i)
      <4>1. \A u \in Threads : pc[u] = "encode" /\ item[u] = i => client[i] > 1
        BY <1>0, <3>2, ReleaseGuard
      <4>2. client'[i] = client[i] - 1 /\ client[i] \in Nat
            /\ \A j \in Images \ {i} : client'[j] = client[j]
        BY <1>0, <3>2 DEF TypeOK
      <4>3. \A u \in Threads : pc[u] = "encode" /\ item[u] = i => client'[i] > 0
        BY <4>1, <4>2
      <4> QED
        BY <1>0, <4>2, <4>3 DEF CallsOK
    <3> QED
      BY <2>1, <3>1, <3>2
  <2> QED
    BY <1>0, <2>1, <2>3, <2>4, CallMoves DEF CallsOK
<1> QED
  BY <1>1, <1>2, <1>3, <1>4, <1>6, <1>7, <1>8, <1>9, <1>11, <1>12, <1>13, <1>14, StepCases

-----------------------------------------------------------------------------
(* Completions and tensors.                                                *)

\* Which actions change where an image is or what its producer did.
LEMMA FramesStay ==
    ASSUME TypeOK, Next, NEW j \in Images
    PROVE  /\ stage[j] = "frame" => stage'[j] = "frame"
           /\ work[j] \in Settled => work'[j] = work[j] \/ stage[j] = "none"
<1>1. ASSUME NEW i \in Images, stage[i] \in {"none", "writable"},
             NEW l, stage' = [stage EXCEPT ![i] = l]
      PROVE  stage[j] = "frame" => stage'[j] = "frame"
  BY <1>1 DEF TypeOK
<1>2. ASSUME NEW i \in Images, work[i] \in {"none", "pending"} \/ stage[i] = "none",
             NEW w, work' = [work EXCEPT ![i] = w]
      PROVE  work[j] \in Settled => work'[j] = work[j] \/ stage[j] = "none"
  BY <1>2 DEF TypeOK, Settled
<1> QED
  <2>1. ASSUME NEW t \in Threads, AcquireNow(t) \/ AcquireWakes(t)
        PROVE  /\ stage[j] = "frame" => stage'[j] = "frame"
               /\ work'[j] = work[j]
    <3>1. PICK i \in Fresh, s \in Free : Reserve(t, i, s)
      BY <2>1 DEF AcquireNow, AcquireWakes
    <3>2. i \in Images /\ stage[i] = "none" /\ stage' = [stage EXCEPT ![i] = "writable"]
      BY <3>1 DEF Fresh, Reserve
    <3> QED
      BY <1>1, <3>1, <3>2 DEF Reserve, producer
  <2>2. ASSUME NEW t \in Threads, NEW i \in Images,
               CloseSlot(t, i) \/ Import(t, i) \/ Output(t, i)
        PROVE  /\ stage[j] = "frame" => stage'[j] = "frame"
               /\ work'[j] = work[j]
    <3>1. /\ work' = work /\ stage[i] = "writable"
          /\ \E l : stage' = [stage EXCEPT ![i] = l]
      <4>1. CASE Import(t, i)
        BY <4>1, ImportEffect DEF MakeHandle
      <4>2. CASE CloseSlot(t, i) \/ Output(t, i)
        BY <4>2 DEF CloseSlot, Output, MakeHandle, producer
      <4> QED
        BY <2>2, <4>1, <4>2
    <3> QED
      BY <1>1, <3>1
  <2>3. ASSUME NEW t \in Threads, NEW i \in Images, Consume(t, i)
        PROVE  /\ stage[j] = "frame" => stage'[j] = "frame"
               /\ work[j] \in Settled => work'[j] = work[j] \/ stage[j] = "none"
    <3>1. /\ stage[i] = "none" /\ \E l : stage' = [stage EXCEPT ![i] = l]
          /\ work' = work \/ \E w : work' = [work EXCEPT ![i] = w]
      BY <2>3 DEF Consume, Fresh
    <3>2. stage[j] = "frame" => stage'[j] = "frame"
      BY <1>1, <3>1
    <3>3. work[j] \in Settled => work'[j] = work[j] \/ stage[j] = "none"
      BY <1>2, <3>1
    <3> QED
      BY <3>2, <3>3
  <2>4. ASSUME NEW i \in Images, \/ \E t \in Threads : Submit(t, i)
                                 \/ \E o \in Settled : Produce(i, o)
        PROVE  /\ stage[j] = "frame" => stage'[j] = "frame"
               /\ work[j] \in Settled => work'[j] = work[j] \/ stage[j] = "none"
    <3>1. /\ stage' = stage /\ work[i] \in {"none", "pending"}
          /\ \E w : work' = [work EXCEPT ![i] = w]
      BY <2>4 DEF Submit, Produce, image
    <3> QED
      BY <1>2, <3>1
  <2>5. ASSUME UNCHANGED <<stage, work>>
        PROVE  /\ stage[j] = "frame" => stage'[j] = "frame"
               /\ work[j] \in Settled => work'[j] = work[j] \/ stage[j] = "none"
    BY <2>5
  <2>6. ASSUME \/ Finalize \/ Quiescent \/ \E e \in Exports : Take(e)
               \/ \E i \in Images : RuntimeDone(i)
        PROVE  UNCHANGED <<stage, work>>
    BY <2>6 DEF Finalize, Quiescent, Take, RuntimeDone, vars, image, producer
  <2>7. ASSUME NEW t \in Threads,
               \/ AcquireEnds(t) \/ Notify(t) \/ AcquireWaits(t, "finite")
               \/ AcquireWaits(t, "infinite") \/ Cancel(t) \/ Delete(t) \/ Destroy(t)
               \/ Callback(t) \/ EncodeReturns(t)
        PROVE  UNCHANGED <<stage, work>>
    BY <2>7 DEF AcquireEnds, Notify, AcquireWaits, Cancel, Delete, Destroy, Callback,
                EncodeReturns, image, producer
  <2>8. ASSUME NEW t \in Threads,
               \/ ExportOrdered(t) \/ ExportWaited(t) \/ ExportOutput(t)
               \/ ExportReleased(t) \/ ExportFails(t)
               \/ \E e \in Exports : DeleteTensor(t, e)
        PROVE  UNCHANGED <<stage, work>>
    BY <2>8 DEF ExportOrdered, ExportWaited, ExportOutput, ExportReleased, ExportFails,
                DeleteTensor, image, producer
  <2>9. ASSUME NEW t \in Threads, NEW i \in Images,
               \/ Retain(t, i) \/ Release(t, i) \/ Observe(t, i) \/ Encode(t, i)
               \/ Retire(t, i) \/ \E e \in Exports : Export(t, e, i)
        PROVE  UNCHANGED <<stage, work>>
    BY <2>9 DEF Retain, Release, Observe, Encode, Retire, Export, image, producer
  <2> QED
    BY <2>1, <2>2, <2>3, <2>4, <2>5, <2>6, <2>7, <2>8, <2>9, StepCases

TensorOK(e) ==
    /\ tensor[e].state # "none" =>
        tensor[e].image \in Images /\ stage[tensor[e].image] = "frame"
    /\ tensor[e].order = "host" =>
        tensor[e].state # "none" /\ work[tensor[e].image] = "complete"

LEMMA TensorsStep ==
    ASSUME Inductive, TypeOK', Next
    PROVE  TensorsOK'
<1>0. /\ TypeOK /\ PoolOK /\ ReservedOK /\ RefsOK /\ FinishingOK /\ CallsOK
      /\ OwnersOK /\ CompletionsOK /\ TensorsOK
  BY DEF Inductive
<1>k. ASSUME NEW d \in Exports, tensor'[d] = tensor[d] PROVE TensorOK(d)'
  <2>1. TensorOK(d)
    BY <1>0 DEF TensorsOK, TensorOK
  <2>2. CASE tensor[d].state = "none"
    BY <1>k, <2>1, <2>2 DEF TensorOK
  <2>3. CASE tensor[d].state # "none"
    <3>1. tensor[d].image \in Images /\ stage[tensor[d].image] = "frame"
      BY <2>1, <2>3 DEF TensorOK
    <3>2. /\ stage'[tensor[d].image] = "frame"
          /\ work[tensor[d].image] = "complete" => work'[tensor[d].image] = "complete"
      BY <1>0, <3>1, FramesStay DEF Settled
    <3> QED
      BY <1>k, <2>1, <2>3, <3>1, <3>2 DEF TensorOK
  <2> QED
    BY <2>2, <2>3
<1>s. ASSUME NEW e \in Exports, \A d \in Exports \ {e} : tensor'[d] = tensor[d], TensorOK(e)'
      PROVE  TensorsOK'
  BY <1>k, <1>s DEF TensorsOK, TensorOK
<1>1. CASE tensor' = tensor
  <2>1. \A d \in Exports : TensorOK(d)'
    BY <1>1, <1>k
  <2> QED
    BY <2>1 DEF TensorsOK, TensorOK
<1>2. ASSUME NEW t \in Threads, NEW i \in Images, NEW e \in Exports, Export(t, e, i)
      PROVE  TensorsOK'
  <2>1. client[i] > 0 /\ Set(e, i, "exporting", "none") /\ stage' = stage
    BY <1>2 DEF Export, image
  <2>2. stage[i] = "frame"
    BY <1>0, <2>1, LeaseFrames
  <2>3. /\ tensor'[e].image = i /\ tensor'[e].order = "none"
        /\ \A d \in Exports \ {e} : tensor'[d] = tensor[d]
    BY <1>0, <2>1, SetEffect
  <2> QED
    BY <1>s, <2>1, <2>2, <2>3 DEF TensorOK
<1>3. ASSUME NEW t \in Threads,
             ExportOrdered(t) \/ ExportWaited(t) \/ ExportOutput(t)
      PROVE  TensorsOK'
  <2>1. item[t] \in Exports /\ Source(t) \in Images /\ stage[Source(t)] = "frame"
    BY <1>0, <1>3, CallFrames DEF ExportOrdered, ExportWaited, ExportOutput, At
  <2>2. PICK o \in {"stream", "host"} :
            /\ Set(item[t], Source(t), "unused", o) /\ UNCHANGED <<stage, work>>
            /\ o = "host" => Query(Source(t)) = "complete"
    BY <1>3 DEF ExportOrdered, ExportWaited, ExportOutput, image, producer
  <2>3. o = "host" => work[Source(t)] = "complete"
    BY <1>0, <2>1, <2>2, QueryTrue DEF Settled
  <2>4. /\ tensor'[item[t]].image = Source(t) /\ tensor'[item[t]].order = o
        /\ tensor'[item[t]].state = "unused"
        /\ \A d \in Exports \ {item[t]} : tensor'[d] = tensor[d]
    BY <1>0, <2>1, <2>2, SetEffect
  <2>5. PICK e \in Exports : e = item[t]
    BY <2>1
  <2>6. TensorOK(e)'
    BY <2>1, <2>2, <2>3, <2>4, <2>5 DEF TensorOK
  <2> QED
    BY <1>s, <2>4, <2>5, <2>6
<1>4. ASSUME NEW e \in Exports, NEW i \in Images \cup {0}, Set(e, i, "none", "none")
      PROVE  TensorsOK'
  <2>1. /\ tensor'[e].state = "none" /\ tensor'[e].order = "none"
        /\ \A d \in Exports \ {e} : tensor'[d] = tensor[d]
    BY <1>0, <1>4, SetEffect
  <2> QED
    BY <1>s, <2>1 DEF TensorOK
<1>5. ASSUME NEW t \in Threads, ExportReleased(t) \/ ExportFails(t) PROVE TensorsOK'
  <2>1. item[t] \in Exports
    BY <1>0, <1>5, CallFrames DEF ExportReleased, ExportFails, At
  <2> QED
    BY <1>4, <1>5, <2>1 DEF ExportReleased, ExportFails
<1>6. ASSUME NEW e \in Exports, Take(e) PROVE TensorsOK'
  <2>1. /\ tensor[e].state = "unused" /\ Set(e, tensor[e].image, "used", tensor[e].order)
        /\ UNCHANGED <<stage, work>>
    BY <1>6 DEF Take, image, producer
  <2>2. /\ tensor'[e].image = tensor[e].image /\ tensor'[e].order = tensor[e].order
        /\ tensor'[e].state = "used"
        /\ \A d \in Exports \ {e} : tensor'[d] = tensor[d]
    BY <1>0, <2>1 DEF Set, TypeOK
  <2>3. TensorOK(e)'
    BY <1>0, <2>1, <2>2 DEF TensorOK, TensorsOK
  <2> QED
    BY <1>s, <2>2, <2>3
<1>7. ASSUME NEW t \in Threads, NEW e \in Exports, DeleteTensor(t, e) PROVE TensorsOK'
  <2>1. Set(e, tensor[e].image, "none", "none") /\ tensor[e].image \in Images \cup {0}
    BY <1>0, <1>7 DEF DeleteTensor, TypeOK
  <2> QED
    BY <1>4, <2>1
<1>8. ASSUME NEW t \in Threads,
             \/ AcquireWakes(t) \/ AcquireEnds(t) \/ Notify(t) \/ AcquireNow(t)
             \/ AcquireWaits(t, "finite") \/ AcquireWaits(t, "infinite")
             \/ Cancel(t) \/ Delete(t) \/ Destroy(t) \/ Callback(t) \/ EncodeReturns(t)
      PROVE  tensor' = tensor
  BY <1>8 DEF AcquireWakes, AcquireEnds, Notify, AcquireNow, AcquireWaits, Reserve, Cancel,
              Delete, Destroy, Callback, EncodeReturns
<1>9. ASSUME NEW t \in Threads, NEW i \in Images,
             \/ CloseSlot(t, i) \/ Submit(t, i) \/ Consume(t, i) \/ Import(t, i)
             \/ Output(t, i) \/ Retain(t, i) \/ Release(t, i) \/ Observe(t, i)
             \/ Encode(t, i) \/ Retire(t, i)
      PROVE  tensor' = tensor
  BY <1>9 DEF CloseSlot, Submit, Consume, Import, Output, Retain, Release, Observe, Encode, Retire
<1>10. ASSUME \/ Finalize \/ Quiescent
              \/ \E i \in Images : RuntimeDone(i) \/ \E o \in Settled : Produce(i, o)
       PROVE  tensor' = tensor
  BY <1>10 DEF Finalize, Quiescent, vars, RuntimeDone, Produce
<1> QED
  BY <1>1, <1>2, <1>3, <1>5, <1>6, <1>7, <1>8, <1>9, <1>10, StepCases

CompletionOK(i) ==
    /\ terminal[i] # "pending" => terminal[i] = work[i]
    /\ source[i] = "synced" => work[i] = "complete"
    /\ stage[i] = "none" => work[i] = "none"
    /\ stage[i] = "frame" => work[i] # "none"
    /\ stage[i] \in {"none", "writable"} => source[i] = "none" /\ terminal[i] = "pending"
    /\ i \in reading => i \in tracked /\ (source[i] \in Latching => terminal[i] # "pending")

LEMMA CompletionsStep ==
    ASSUME Inductive, TypeOK', Next
    PROVE  CompletionsOK'
<1>0. /\ TypeOK /\ PoolOK /\ ReservedOK /\ RefsOK /\ FinishingOK /\ CallsOK
      /\ OwnersOK /\ CompletionsOK /\ TensorsOK
  BY DEF Inductive
<1>q. SUFFICES ASSUME NEW j \in Images PROVE CompletionOK(j)'
  <2>1. reading' \subseteq Images
    BY DEF TypeOK
  <2> QED
    BY <2>1 DEF CompletionsOK, CompletionOK
<1>j. CompletionOK(j)
  BY <1>0 DEF CompletionsOK, CompletionOK
\* A query may have latched the status of an image that is past writing.
<1>a. ASSUME stage'[j] = stage[j], source'[j] = source[j], work'[j] = work[j],
             terminal'[j] # "pending" => terminal'[j] = work[j],
             terminal[j] # "pending" => terminal'[j] = terminal[j],
             stage[j] \in {"none", "writable"} => terminal'[j] = terminal[j],
             j \in reading' => /\ j \in tracked'
                               /\ j \in reading \/ source[j] \notin Latching \/ terminal'[j] # "pending"
      PROVE  CompletionOK(j)'
  BY <1>a, <1>j DEF CompletionOK
<1>b. ASSUME UNCHANGED <<stage, source, work, terminal, reading, tracked>> PROVE CompletionOK(j)'
  BY <1>b, <1>j DEF CompletionOK
<1>c. ASSUME NEW i \in Images, Latch(i), work[i] # "none", stage[i] \notin {"none", "writable"},
             UNCHANGED <<stage, source, work, reading, tracked>>
      PROVE  CompletionOK(j)'
  <2>1. /\ \A k \in Images \ {i} : terminal'[k] = terminal[k]
        /\ terminal'[j] # "pending" => terminal'[j] = work[j]
        /\ terminal[j] # "pending" => terminal'[j] = terminal[j]
    BY <1>0, <1>c, LatchEffect
  <2>2. j \in reading' => j \in tracked' /\ j \in reading
    BY <1>c, <1>j DEF CompletionOK
  <2> QED
    BY <1>a, <1>c, <2>1, <2>2
<1>d. ASSUME NEW t \in Threads, NEW i \in Images, Unref(t, i), refs[i] > 0,
             UNCHANGED <<stage, source, work, reading>>,
             tracked' = tracked \/ (tracked' = tracked \ {i} /\ i \notin reading)
      PROVE  CompletionOK(j)'
  <2>1. stage[i] = "frame" /\ work[i] # "none"
    BY <1>0, <1>d, LeaseFrames DEF CompletionsOK
  <2>2. /\ \A k \in Images \ {i} : terminal'[k] = terminal[k]
        /\ terminal'[j] # "pending" => terminal'[j] = work[j]
        /\ terminal[j] # "pending" => terminal'[j] = terminal[j]
    BY <1>0, <1>d, <2>1, UnrefEffect
  <2>3. j \in reading' => j \in tracked' /\ j \in reading
    BY <1>d, <1>j DEF CompletionOK
  <2> QED
    BY <1>a, <1>d, <2>1, <2>2, <2>3
<1>1. ASSUME NEW t \in Threads, AcquireNow(t) \/ AcquireWakes(t) PROVE CompletionOK(j)'
  <2>1. PICK i \in Fresh, s \in Free : Reserve(t, i, s)
    BY <1>1 DEF AcquireNow, AcquireWakes
  <2>2. i \in Images /\ stage[i] = "none" /\ stage' = [stage EXCEPT ![i] = "writable"]
    BY <2>1 DEF Fresh, Reserve
  <2>3. (stage'[j] = stage[j]) \/ (stage[j] = "none" /\ stage'[j] = "writable")
    BY <1>0, <2>2 DEF TypeOK
  <2>4. UNCHANGED <<source, work, terminal, reading, tracked>>
    BY <2>1 DEF Reserve, producer, lease
  <2> QED
    BY <1>j, <2>3, <2>4 DEF CompletionOK
<1>2. ASSUME NEW t \in Threads,
             \/ AcquireEnds(t) \/ Notify(t) \/ AcquireWaits(t, "finite")
             \/ AcquireWaits(t, "infinite") \/ Cancel(t) \/ Delete(t) \/ Callback(t)
             \/ ExportOrdered(t) \/ ExportOutput(t) \/ ExportReleased(t)
      PROVE  CompletionOK(j)'
  <2>1. UNCHANGED <<stage, source, work, terminal, reading, tracked>>
    BY <1>2 DEF AcquireEnds, Notify, AcquireWaits, Cancel, Delete, Callback, ExportOrdered,
                ExportOutput, ExportReleased, image, producer, lease
  <2> QED
    BY <1>b, <2>1
<1>3. ASSUME NEW t \in Threads, NEW i \in Images,
             Retain(t, i) \/ Encode(t, i) \/ \E e \in Exports : Export(t, e, i)
      PROVE  CompletionOK(j)'
  <2>1. UNCHANGED <<stage, source, work, terminal, reading, tracked>>
    BY <1>3 DEF Retain, Encode, Export, image, producer, lease
  <2> QED
    BY <1>b, <2>1
<1>4. ASSUME Finalize \/ Quiescent \/ \E e \in Exports : Take(e) PROVE CompletionOK(j)'
  <2>1. UNCHANGED <<stage, source, work, terminal, reading, tracked>>
    BY <1>4 DEF Finalize, Quiescent, Take, vars, image, producer, lease
  <2> QED
    BY <1>b, <2>1
<1>5. ASSUME NEW i \in Images, RuntimeDone(i) PROVE CompletionOK(j)'
  <2>1. UNCHANGED <<stage, source, work, terminal, tracked>> /\ reading' = reading \ {i}
    BY <1>5 DEF RuntimeDone, image, producer
  <2> QED
    BY <1>j, <2>1 DEF CompletionOK
<1>6. ASSUME NEW t \in Threads, NEW i \in Images, CloseSlot(t, i) PROVE CompletionOK(j)'
  <2>1. /\ stage[i] = "writable" /\ stage' = [stage EXCEPT ![i] = "gone"]
        /\ UNCHANGED <<source, work, terminal, reading, tracked>>
    BY <1>6 DEF CloseSlot, producer, lease
  <2>2. (stage'[j] = stage[j]) \/ (stage[j] = "writable" /\ stage'[j] = "gone")
    BY <1>0, <2>1 DEF TypeOK
  <2> QED
    BY <1>j, <2>1, <2>2 DEF CompletionOK
<1>7. ASSUME NEW t \in Threads, NEW i \in Images, Submit(t, i) PROVE CompletionOK(j)'
  <2>1. /\ stage[i] = "writable" /\ work[i] = "none" /\ work' = [work EXCEPT ![i] = "pending"]
        /\ UNCHANGED <<stage, source, terminal, reading, tracked>>
    BY <1>7 DEF Submit, image, lease
  <2>2. (work'[j] = work[j]) \/ (stage[j] = "writable" /\ work[j] = "none" /\ work'[j] = "pending")
    BY <1>0, <2>1 DEF TypeOK
  <2> QED
    BY <1>j, <2>1, <2>2 DEF CompletionOK
<1>8. ASSUME NEW i \in Images, NEW o \in Settled, Produce(i, o) PROVE CompletionOK(j)'
  <2>1. /\ work[i] = "pending" /\ work' = [work EXCEPT ![i] = o] /\ o # "none"
        /\ UNCHANGED <<stage, source, terminal, reading, tracked>>
    BY <1>8 DEF Produce, Settled, image, lease
  <2>2. (work'[j] = work[j]) \/ (work[j] = "pending" /\ work'[j] # "none")
    BY <1>0, <2>1 DEF TypeOK
  <2>3. terminal[j] # "pending" => work[j] # "pending"
    BY <1>j DEF CompletionOK
  <2> QED
    BY <1>j, <2>1, <2>2, <2>3 DEF CompletionOK
<1>9. ASSUME NEW t \in Threads, NEW i \in Images, Consume(t, i) PROVE CompletionOK(j)'
  <2>1. /\ stage[i] = "none" /\ UNCHANGED <<source, terminal, reading, tracked>>
        /\ \/ work' = work /\ stage' = [stage EXCEPT ![i] = "gone"]
           \/ /\ stage' = [stage EXCEPT ![i] = "writable"]
              /\ \E w \in Settled \cup {"pending"} : work' = [work EXCEPT ![i] = w]
    BY <1>9 DEF Consume, Fresh, lease
  <2>2. \/ stage'[j] = stage[j] /\ work'[j] = work[j]
        \/ stage[j] = "none" /\ stage'[j] \in {"gone", "writable"}
    BY <1>0, <2>1 DEF TypeOK
  <2> QED
    BY <1>j, <2>1, <2>2 DEF CompletionOK
<1>10. ASSUME NEW t \in Threads, NEW i \in Images, Import(t, i) \/ Output(t, i)
       PROVE  CompletionOK(j)'
  <2>1. /\ stage[i] = "writable" /\ work[i] # "none"
        /\ UNCHANGED <<work, terminal, tracked, reading>>
    BY <1>0, <1>10, ImportEffect DEF Output
  <2>2. PICK src \in Sources :
            /\ src = "synced" => work[i] = "complete"
            /\ source' = source \/ source' = [source EXCEPT ![i] = src]
            /\ stage' = [stage EXCEPT ![i] = "refused"] \/ stage' = [stage EXCEPT ![i] = "frame"]
    <3>1. CASE Import(t, i)
      BY <1>0, <3>1, ImportEffect DEF MakeHandle
    <3>2. CASE Output(t, i)
      <4>1. "query" \in Sources
        BY DEF Sources
      <4> QED
        BY <3>2, <4>1 DEF Output, MakeHandle
    <3> QED
      BY <1>10, <3>1, <3>2
  <2>3. i \notin reading
    <3>1. i \notin tracked
      BY <1>0, <2>1, LeaseFrames
    <3> QED
      BY <1>0, <3>1 DEF CompletionsOK
  <2>4. CASE j # i
    <3>1. stage'[j] = stage[j] /\ source'[j] = source[j]
      BY <1>0, <2>2, <2>4 DEF TypeOK
    <3> QED
      BY <1>j, <2>1, <3>1 DEF CompletionOK
  <2>5. CASE j = i
    <3>1. stage'[j] \in {"refused", "frame"} /\ (source'[j] = source[j] \/ source'[j] = src)
      BY <1>0, <2>2, <2>5 DEF TypeOK
    <3> QED
      BY <1>j, <2>1, <2>2, <2>3, <2>5, <3>1 DEF CompletionOK
  <2> QED
    BY <2>4, <2>5
<1>11. ASSUME NEW t \in Threads, NEW i \in Images, Observe(t, i) PROVE CompletionOK(j)'
  <2>1. Latch(i) /\ client[i] > 0 /\ UNCHANGED <<stage, source, work, reading, tracked>>
    BY <1>11 DEF Observe, image, lease
  <2>2. stage[i] = "frame" /\ work[i] # "none"
    BY <1>0, <2>1, LeaseFrames DEF CompletionsOK
  <2> QED
    BY <1>c, <2>1, <2>2
<1>12. ASSUME NEW t \in Threads, Destroy(t) PROVE CompletionOK(j)'
  <2>1. /\ Latch(item[t]) /\ Query(item[t]) \in Settled
        /\ UNCHANGED <<stage, source, work, reading, tracked>>
    BY <1>12 DEF Destroy, CompletionsDone, image
  <2>2. item[t] \in Images /\ stage[item[t]] \in {"frame", "refused"}
    BY <1>0, <1>12 DEF Destroy, At, FinishingOK, Finishing
  <2>3. work[item[t]] # "none"
    BY <1>0, <2>1, <2>2, QueryTrue DEF Settled
  <2> QED
    BY <1>c, <2>1, <2>2, <2>3
<1>13. ASSUME NEW t \in Threads, ExportWaited(t) PROVE CompletionOK(j)'
  <2>1. Latch(Source(t)) /\ UNCHANGED <<stage, source, work, reading, tracked>>
    BY <1>13 DEF ExportWaited, image, lease
  <2>2. Source(t) \in Images /\ stage[Source(t)] = "frame" /\ work[Source(t)] # "none"
    BY <1>0, <1>13, CallFrames DEF ExportWaited, At
  <2> QED
    BY <1>c, <2>1, <2>2
<1>14. ASSUME NEW t \in Threads, EncodeReturns(t) PROVE CompletionOK(j)'
  <2>1. PICK i \in Images : i = item[t] /\ stage[i] = "frame" /\ work[i] # "none"
    BY <1>0, <1>14, CallFrames DEF EncodeReturns, At
  <2>2. Latch(i) /\ Query(i) \in Settled /\ UNCHANGED <<stage, source, work>>
    BY <1>14, <2>1 DEF EncodeReturns, image
  <2>3. CASE UNCHANGED <<tracked, reading>>
    BY <1>c, <2>1, <2>2, <2>3
  <2>4. CASE tracked' = tracked \cup {i} /\ reading' = reading \cup {i}
    <3>1. /\ \A k \in Images \ {i} : terminal'[k] = terminal[k]
          /\ terminal'[j] # "pending" => terminal'[j] = work[j]
          /\ terminal[j] # "pending" => terminal'[j] = terminal[j]
          /\ source[i] \in Latching => terminal'[i] # "pending"
      BY <1>0, <2>1, <2>2, LatchEffect
    <3>2. j \in reading => j \in tracked
      BY <1>j DEF CompletionOK
    <3> QED
      BY <1>a, <2>1, <2>2, <2>4, <3>1, <3>2
  <2> QED
    BY <1>14, <2>1, <2>3, <2>4 DEF EncodeReturns
<1>15. ASSUME NEW t \in Threads, NEW i \in Images, Release(t, i) PROVE CompletionOK(j)'
  <2>1. client[i] > 0
    BY <1>0, <1>15, ReleaseGuard
  <2>2. refs[i] > 0
    BY <1>0, <2>1, LeaseFrames
  <2>3. Unref(t, i) /\ UNCHANGED <<stage, source, work, reading, tracked>>
    BY <1>15 DEF Release, image
  <2> QED
    BY <1>d, <2>2, <2>3
<1>16. ASSUME NEW t \in Threads, NEW i \in Images, Retire(t, i) PROVE CompletionOK(j)'
  <2>1. /\ i \in tracked /\ i \notin reading /\ tracked' = tracked \ {i} /\ Unref(t, i)
        /\ UNCHANGED <<stage, source, work, reading>>
    BY <1>16 DEF Retire, Retirable, image
  <2>2. refs[i] > 0
    BY <1>0, <2>1, LeaseFrames
  <2> QED
    BY <1>d, <2>1, <2>2
<1>17. ASSUME NEW t \in Threads, ExportFails(t) PROVE CompletionOK(j)'
  <2>1. Source(t) \in Images /\ refs[Source(t)] > 0
    BY <1>0, <1>17, CallFrames DEF ExportFails, At
  <2>2. Unref(t, Source(t)) /\ UNCHANGED <<stage, source, work, reading, tracked>>
    BY <1>17 DEF ExportFails, image
  <2> QED
    BY <1>d, <2>1, <2>2
<1>18. ASSUME NEW t \in Threads, NEW e \in Exports, DeleteTensor(t, e) PROVE CompletionOK(j)'
  <2>1. /\ tensor[e].image \in Images /\ Leased(e, tensor[e].image)
        /\ UNCHANGED <<stage, source, work, reading, tracked>>
        /\ Unref(t, tensor[e].image) \/ terminal' = terminal
    BY <1>0, <1>18 DEF DeleteTensor, TensorsOK, Leased, image
  <2>2. refs[tensor[e].image] > 0
    BY <1>0, <2>1, LeaseFrames
  <2> QED
    BY <1>b, <1>d, <2>1, <2>2
<1> QED
  BY <1>1, <1>2, <1>3, <1>4, <1>5, <1>6, <1>7, <1>8, <1>9, <1>10, <1>11, <1>12, <1>13,
     <1>14, <1>15, <1>16, <1>17, <1>18, StepCases

-----------------------------------------------------------------------------
(* Owners.                                                                 *)

Closing == {"cancel", "delete", "destroy", "callback"}

\* Which images are being given back when one thread moves.
LEMMA FinishedMoves ==
    ASSUME FinishingOK, NEW t \in Threads,
           \A u \in Threads \ {t} : pc'[u] = pc[u] /\ item'[u] = item[u]
    PROVE  /\ pc[t] \notin Closing /\ pc'[t] \notin Closing =>
                \A j : Finished(j)' <=> Finished(j)
           /\ pc[t] \notin Closing /\ pc'[t] \in Closing =>
                \A j : IF j = item'[t] THEN Finished(j)' ELSE Finished(j)' <=> Finished(j)
           /\ pc[t] \in Closing /\ pc'[t] \in Closing /\ item'[t] = item[t] =>
                \A j : Finished(j)' <=> Finished(j)
           /\ pc[t] \in Closing /\ pc'[t] \notin Closing =>
                \A j : IF j = item[t] THEN ~Finished(j)' ELSE Finished(j)' <=> Finished(j)
<1>1. \A u \in Threads \ {t} : Finishing(u)' <=> Finishing(u)
  BY DEF Finishing
<1>2. /\ Finishing(t) <=> pc[t] \in Closing
      /\ Finishing(t)' <=> pc'[t] \in Closing
  BY DEF Finishing, Closing
<1>3. ASSUME NEW j PROVE Finished(j)' <=> \E u \in Threads : Finishing(u)' /\ item'[u] = j
  BY DEF Finished
<1>4. ASSUME NEW j PROVE Finished(j) <=> \E u \in Threads : Finishing(u) /\ item[u] = j
  BY DEF Finished
<1>5. ASSUME pc[t] \in Closing, pc'[t] \notin Closing, NEW j, j = item[t] PROVE ~Finished(j)'
  <2>1. ASSUME NEW u \in Threads, Finishing(u)', item'[u] = j PROVE FALSE
    <3>1. u # t /\ Finishing(u) /\ item[u] = item[t]
      BY <1>1, <1>2, <1>5, <2>1
    <3> QED
      BY <1>2, <1>5, <3>1 DEF FinishingOK
  <2> QED
    BY <1>3, <2>1
<1>6. \A j : (\E u \in Threads \ {t} : Finishing(u)' /\ item'[u] = j)
                <=> (\E u \in Threads \ {t} : Finishing(u) /\ item[u] = j)
  BY <1>1
<1>7. ASSUME NEW j, ~(Finishing(t) /\ item[t] = j), ~(Finishing(t)' /\ item'[t] = j)
      PROVE  Finished(j)' <=> Finished(j)
  BY <1>3, <1>4, <1>6, <1>7
<1>8. ASSUME pc'[t] \in Closing, NEW j, j = item'[t] PROVE Finished(j)'
  BY <1>2, <1>3, <1>8
<1>9. ASSUME pc[t] \in Closing, pc'[t] \in Closing, item'[t] = item[t], NEW j
      PROVE  Finished(j)' <=> Finished(j)
  BY <1>2, <1>3, <1>4, <1>6, <1>9
<1> QED
  BY <1>2, <1>5, <1>7, <1>8, <1>9

LEMMA OwnerKept ==
    ASSUME NEW j \in Images, OwnerOK(j), UNCHANGED <<kind[j], stage[j], deletes[j], released[j]>>,
           j \in reserved' <=> j \in reserved, j \in accepted' <=> j \in accepted,
           j \in recycled => j \in recycled', refs'[j] > 0 <=> refs[j] > 0,
           refs'[j] = 0 <=> refs[j] = 0, Finished(j)' <=> Finished(j),
           stage[j] = "frame" /\ work[j] \in Settled => work'[j] = work[j],
           initialized' => initialized
    PROVE  OwnerOK(j)'
<1>1. /\ Pooled(j)' <=> Pooled(j)
      /\ Kept(j)' <=> Kept(j)
      /\ Lost(j)' <=> Lost(j)
  BY DEF Pooled, Kept, Lost
<1>2. stage[j] = "frame" /\ Returned(j) => Returned(j)'
  BY <1>1 DEF Returned
<1>3. stage[j] = "none" => kind[j] = "none" /\ j \notin reserved
  BY DEF OwnerOK
<1> QED
  BY <1>1, <1>2 DEF OwnerOK

LEMMA OwnersStep ==
    ASSUME Inductive, TypeOK', Next
    PROVE  OwnersOK'
<1>0. /\ TypeOK /\ PoolOK /\ ReservedOK /\ RefsOK /\ FinishingOK /\ CallsOK
      /\ OwnersOK /\ CompletionsOK /\ TensorsOK
  BY DEF Inductive
<1>q. SUFFICES ASSUME NEW j \in Images PROVE OwnerOK(j)'
  BY DEF OwnersOK
<1>j. OwnerOK(j) /\ refs[j] \in Nat /\ refs'[j] \in Nat
  BY <1>0 DEF OwnersOK, TypeOK
<1>n. \A i \in Images : refs[i] > 0 \/ stage[i] \in {"none", "writable", "gone"} => ~Finished(i)
  <2>1. \A i \in Images : refs[i] \in Nat
    BY <1>0 DEF TypeOK
  <2> QED
    BY <1>0, <2>1 DEF Finished, FinishingOK
<1>w. stage[j] = "frame" /\ work[j] \in Settled => work'[j] = work[j]
  BY <1>0, FramesStay
<1>u. ASSUME UNCHANGED <<pc, item>> PROVE Finished(j)' <=> Finished(j)
  BY <1>u DEF Finished, Finishing
\* Nothing that the owner's fate depends on changes.
<1>a. ASSUME UNCHANGED <<kind, stage, deletes, released, reserved, accepted>>,
             j \in recycled => j \in recycled', initialized' => initialized,
             refs'[j] = refs[j] \/ (refs[j] > 0 /\ refs'[j] > 0),
             Finished(j)' <=> Finished(j)
      PROVE  OwnerOK(j)'
  <2>1. (refs'[j] > 0 <=> refs[j] > 0) /\ (refs'[j] = 0 <=> refs[j] = 0)
    BY <1>a, <1>j
  <2> QED
    BY <1>a, <1>j, <1>w, <2>1, OwnerKept
\* Another image than j gets or loses its owner.
<1>b. ASSUME UNCHANGED <<kind[j], stage[j], deletes[j], released[j], refs[j], recycled, initialized>>,
             j \in reserved' <=> j \in reserved, j \in accepted' <=> j \in accepted,
             Finished(j)' <=> Finished(j)
      PROVE  OwnerOK(j)'
  BY <1>b, <1>j, <1>w, OwnerKept
<1>1. ASSUME NEW t \in Threads, AcquireNow(t) \/ AcquireWakes(t) PROVE OwnerOK(j)'
  <2>1. PICK i \in Fresh, s \in Free : Reserve(t, i, s)
    BY <1>1 DEF AcquireNow, AcquireWakes
  <2>2. i \in Images /\ stage[i] = "none" /\ i \notin reserved
    BY <1>0, <2>1 DEF Fresh, OwnersOK, OwnerOK
  <2>3. /\ kind'[i] # "foreign" /\ reserved' = reserved \cup {i}
        /\ stage' = [stage EXCEPT ![i] = "writable"]
        /\ \A k \in Images \ {i} : kind'[k] = kind[k]
    BY <1>0, <2>1, <2>2, ReserveEffect
  <2>4. UNCHANGED <<deletes, released, refs, recycled, accepted, initialized, pc, item>>
    BY <2>1 DEF Reserve, owner, lease, thread
  <2>5. CASE j # i
    <3>1. stage'[j] = stage[j]
      BY <1>0, <2>3, <2>5 DEF TypeOK
    <3> QED
      BY <1>b, <1>u, <2>3, <2>4, <2>5, <3>1
  <2>6. CASE j = i
    <3>1. stage'[j] = "writable" /\ Pooled(j)' /\ Kept(j)' /\ refs'[j] = refs[j] /\ ~Finished(j)'
      BY <1>0, <1>n, <1>u, <2>2, <2>3, <2>4, <2>6 DEF TypeOK, Pooled, Kept
    <3>2. deletes[j] = 0 /\ j \notin accepted /\ released[j] = 0
      BY <1>j, <2>2, <2>6 DEF OwnerOK, Pooled
    <3> QED
      BY <2>4, <3>1, <3>2 DEF OwnerOK
  <2> QED
    BY <2>5, <2>6
<1>2. ASSUME NEW t \in Threads, NEW i \in Images, CloseSlot(t, i) PROVE OwnerOK(j)'
  <2>1. /\ Ready(t) /\ OwnerGone(t, i) /\ stage[i] = "writable"
        /\ stage' = [stage EXCEPT ![i] = "gone"]
        /\ UNCHANGED <<generation, waiting, woken, kind, slot, stamp, released, refs,
                       recycled, accepted, initialized, pc, item>>
    BY <1>2 DEF CloseSlot, Idle, lease, thread
  <2>2. Kept(i) /\ (Pooled(i) => deletes[i] = 0)
    BY <1>0, <2>1 DEF OwnersOK, OwnerOK
  <2>3. /\ Lost(i)' /\ (Pooled(i) => deletes'[i] = 0)
        /\ \A k \in Images \ {i} :
                (k \in reserved' <=> k \in reserved) /\ deletes'[k] = deletes[k]
    BY <1>0, <2>1, <2>2, OwnerGoneEffect
  <2>4. CASE j # i
    <3>1. stage'[j] = stage[j]
      BY <1>0, <2>1, <2>4 DEF TypeOK
    <3> QED
      BY <1>b, <1>u, <2>1, <2>3, <2>4, <3>1
  <2>5. CASE j = i
    <3>1. stage'[j] = "gone" /\ ~Finished(j)' /\ refs'[j] = 0
      BY <1>0, <1>n, <1>u, <2>1, <2>5, LeaseFrames DEF TypeOK
    <3>2. j \notin accepted' /\ released'[j] = 0 /\ (Pooled(j)' <=> Pooled(j))
      BY <1>j, <2>1, <2>5 DEF OwnerOK, Pooled
    <3>3. stage'[j] # "none" /\ stage'[j] # "writable" /\ stage'[j] # "frame" /\ ~(refs'[j] > 0)
      BY <3>1
    <3> QED
      BY <2>3, <2>5, <3>1, <3>2, <3>3 DEF OwnerOK
  <2> QED
    BY <2>4, <2>5
<1>3. ASSUME NEW t \in Threads, NEW i \in Images, Consume(t, i) PROVE OwnerOK(j)'
  <2>1. /\ stage[i] = "none" /\ kind' = [kind EXCEPT ![i] = "foreign"]
        /\ \/ /\ stage' = [stage EXCEPT ![i] = "gone"]
              /\ deletes' = [deletes EXCEPT ![i] = 1]
           \/ /\ stage' = [stage EXCEPT ![i] = "writable"]
              /\ deletes' = [deletes EXCEPT ![i] = 0]
        /\ UNCHANGED <<reserved, released, refs, recycled, accepted, initialized, pc, item>>
    BY <1>3 DEF Consume, Fresh, DestroyCapsule, lease, thread
  <2>2. CASE j # i
    <3>1. kind'[j] = kind[j] /\ stage'[j] = stage[j] /\ deletes'[j] = deletes[j]
      BY <1>0, <2>1, <2>2 DEF TypeOK
    <3> QED
      BY <1>b, <1>u, <2>1, <3>1
  <2>3. CASE j = i
    <3>1. /\ kind'[j] = "foreign"
          /\ \/ stage'[j] = "gone" /\ deletes'[j] = 1
             \/ stage'[j] = "writable" /\ deletes'[j] = 0
      BY <1>0, <2>1, <2>3 DEF TypeOK
    <3>2. ~Finished(j)' /\ refs'[j] = 0
      BY <1>0, <1>n, <1>u, <2>1, <2>3, LeaseFrames
    <3>3. j \notin accepted' /\ released'[j] = 0 /\ ~Pooled(j)'
      BY <1>j, <2>1, <2>3, <3>1 DEF OwnerOK, Pooled
    <3> QED
      BY <3>1, <3>2, <3>3 DEF OwnerOK, Kept, Lost
  <2> QED
    BY <2>2, <2>3
<1>4. ASSUME NEW t \in Threads, NEW i \in Images, Import(t, i) \/ Output(t, i)
      PROVE  OwnerOK(j)'
  <2>1. /\ stage[i] = "writable"
        /\ UNCHANGED <<kind, deletes, released, reserved, recycled, initialized>>
    BY <1>0, <1>4, ImportEffect DEF Output, owner
  <2>2. \/ /\ stage' = [stage EXCEPT ![i] = "refused"] /\ UNCHANGED <<refs, accepted>>
           /\ \E l \in {"cancel", "destroy"} : Goto(t, l, i) /\ pc[t] = "idle"
        \/ /\ stage' = [stage EXCEPT ![i] = "frame"] /\ accepted' = accepted \cup {i}
           /\ refs' = [refs EXCEPT ![i] = 1] /\ UNCHANGED <<pc, item>>
    BY <1>0, <1>4, ImportEffect DEF Output, MakeHandle, Accept, thread, Idle
  <2>3. Kept(i) /\ released[i] = 0 /\ i \notin accepted /\ (Pooled(i) => deletes[i] = 0)
    BY <1>0, <2>1 DEF OwnersOK, OwnerOK
  <2>4. CASE /\ stage' = [stage EXCEPT ![i] = "frame"] /\ accepted' = accepted \cup {i}
             /\ refs' = [refs EXCEPT ![i] = 1] /\ UNCHANGED <<pc, item>>
    <3>1. CASE j # i
      <4>1. stage'[j] = stage[j] /\ refs'[j] = refs[j]
        BY <1>0, <2>4, <3>1 DEF TypeOK
      <4> QED
        BY <1>b, <1>u, <2>1, <2>4, <3>1, <4>1
    <3>2. CASE j = i
      <4>1. stage'[j] = "frame" /\ refs'[j] = 1 /\ j \in accepted'
        BY <1>0, <2>4, <3>2 DEF TypeOK
      <4>2. Kept(j)' /\ released'[j] = 0 /\ (Pooled(j)' => deletes'[j] = 0)
        BY <2>1, <2>3, <3>2 DEF Kept, Pooled
      <4> QED
        BY <4>1, <4>2 DEF OwnerOK
    <3> QED
      BY <3>1, <3>2
  <2>5. ASSUME NEW l \in {"cancel", "destroy"}, Goto(t, l, i), pc[t] = "idle",
               stage' = [stage EXCEPT ![i] = "refused"], UNCHANGED <<refs, accepted>>
        PROVE  OwnerOK(j)'
    <3>1. /\ pc'[t] = l /\ item'[t] = i
          /\ \A u \in Threads \ {t} : pc'[u] = pc[u] /\ item'[u] = item[u]
      BY <1>0, <2>5, GotoEffect, Bounds
    <3>2. \A k : IF k = i THEN Finished(k)' ELSE Finished(k)' <=> Finished(k)
      BY <1>0, <2>5, <3>1, FinishedMoves DEF Closing
    <3>3. CASE j # i
      <4>1. stage'[j] = stage[j]
        BY <1>0, <2>5, <3>3 DEF TypeOK
      <4> QED
        BY <1>b, <2>1, <2>5, <3>2, <3>3, <4>1
    <3>4. CASE j = i
      <4>1. stage'[j] = "refused" /\ j \notin accepted' /\ Finished(j)'
        BY <1>0, <2>3, <2>5, <3>2, <3>4 DEF TypeOK
      <4>2. Kept(j)' /\ released'[j] = 0 /\ (Pooled(j)' => deletes'[j] = 0)
        BY <2>1, <2>3, <3>4 DEF Kept, Pooled
      <4> QED
        BY <4>1, <4>2 DEF OwnerOK
    <3> QED
      BY <3>3, <3>4
  <2> QED
    BY <2>2, <2>4, <2>5

<1>5. ASSUME NEW t \in Threads,
             \/ AcquireWaits(t, "finite") \/ AcquireWaits(t, "infinite") \/ AcquireEnds(t)
             \/ Notify(t)
      PROVE  OwnerOK(j)'
  <2>1. UNCHANGED <<kind, stage, deletes, released, reserved, accepted, recycled, initialized,
                    refs, pc, item>>
    BY <1>5 DEF AcquireWaits, AcquireEnds, Notify, image, owner, lease, thread
  <2> QED
    BY <1>a, <1>u, <2>1
<1>6. ASSUME NEW i \in Images,
             \/ RuntimeDone(i) \/ \E o \in Settled : Produce(i, o)
             \/ \E t \in Threads : Submit(t, i) \/ Observe(t, i)
      PROVE  OwnerOK(j)'
  <2>1. UNCHANGED <<kind, stage, deletes, released, reserved, accepted, recycled, initialized,
                    refs, pc, item>>
    BY <1>6 DEF RuntimeDone, Produce, Submit, Observe, image, owner, lease, thread
  <2> QED
    BY <1>a, <1>u, <2>1
<1>7. ASSUME Finalize \/ Quiescent \/ \E e \in Exports : Take(e) PROVE OwnerOK(j)'
  <2>1. UNCHANGED <<kind, stage, deletes, released, reserved, accepted, recycled, refs, pc, item>>
        /\ (initialized' => initialized)
    BY <1>7 DEF Finalize, Quiescent, Take, vars, image, owner, lease, thread
  <2> QED
    BY <1>a, <1>u, <2>1
<1>8. ASSUME NEW t \in Threads, NEW i \in Images, Retain(t, i) PROVE OwnerOK(j)'
  <2>1. /\ UNCHANGED <<kind, stage, deletes, released, reserved, accepted, recycled, initialized,
                       pc, item>>
        /\ refs' = [refs EXCEPT ![i] = @ + 1] /\ client[i] \in 1..(MaxRefs - 1)
    BY <1>8 DEF Retain, image, owner, thread
  <2>2. client[i] > 0
    BY <2>1, BoundAssumption
  <2>3. refs[i] > 0 /\ refs[i] \in Nat
    BY <1>0, <2>2, LeaseFrames
  <2>4. refs'[j] = refs[j] \/ (refs[j] > 0 /\ refs'[j] > 0)
    BY <1>0, <2>1, <2>3 DEF TypeOK
  <2> QED
    BY <1>a, <1>u, <2>1, <2>4
\* A thread that gives nothing back goes from one call to the next.
<1>c. ASSUME NEW t \in Threads, pc[t] \notin Closing, NEW l \in {"idle", "encode", "export"},
             NEW n \in Nat, Goto(t, l, n), NEW i \in Images,
             UNCHANGED <<kind, stage, deletes, released, reserved, accepted, recycled, initialized>>,
             refs' = refs \/ (refs[i] > 0 /\ refs' = [refs EXCEPT ![i] = @ + 1])
      PROVE  OwnerOK(j)'
  <2>1. pc'[t] = l /\ \A u \in Threads \ {t} : pc'[u] = pc[u] /\ item'[u] = item[u]
    BY <1>0, <1>c, GotoEffect
  <2>2. Finished(j)' <=> Finished(j)
    BY <1>0, <1>c, <2>1, FinishedMoves DEF Closing
  <2>3. refs'[j] = refs[j] \/ (refs[j] > 0 /\ refs'[j] > 0)
    BY <1>0, <1>c DEF TypeOK
  <2> QED
    BY <1>a, <1>c, <2>2, <2>3
<1>9. ASSUME NEW t \in Threads, NEW i \in Images,
             Encode(t, i) \/ \E e \in Exports : Export(t, e, i)
      PROVE  OwnerOK(j)'
  <2>1. /\ client[i] > 0 /\ pc[t] \notin Closing
        /\ \E l \in {"encode", "export"}, n \in Nat : Goto(t, l, n)
        /\ refs' = refs \/ refs' = [refs EXCEPT ![i] = @ + 1]
        /\ UNCHANGED <<kind, stage, deletes, released, reserved, accepted, recycled, initialized>>
    BY <1>9, Bounds DEF Encode, Export, Idle, Closing, image, owner, lease
  <2>2. refs[i] > 0
    BY <1>0, <2>1, LeaseFrames
  <2> QED
    BY <1>c, <2>1, <2>2
<1>10. ASSUME NEW t \in Threads,
              \/ ExportOrdered(t) \/ ExportWaited(t) \/ ExportReleased(t)
              \/ ExportOutput(t) \/ EncodeReturns(t)
       PROVE  OwnerOK(j)'
  <2>1. pc[t] \in {"export", "encode"} /\ Goto(t, "idle", 0)
        /\ UNCHANGED <<kind, stage, deletes, released, reserved, accepted, recycled, initialized>>
    BY <1>10
    DEF ExportOrdered, ExportWaited, ExportReleased, ExportOutput, EncodeReturns, At, Return,
        image, owner, lease
  <2>2. pc[t] \notin Closing /\ 0 \in Nat
    BY <2>1 DEF Closing
  <2>3. CASE ExportOrdered(t) \/ ExportWaited(t) \/ ExportReleased(t)
    <3>1. refs' = refs
      BY <2>3 DEF ExportOrdered, ExportWaited, ExportReleased, lease
    <3> QED
      BY <1>c, <2>1, <2>2, <3>1
  <2>4. CASE ExportOutput(t)
    <3>1. /\ Source(t) \in Images /\ stage[Source(t)] = "frame" /\ kind[Source(t)] = "output"
          /\ Source(t) \notin recycled
      BY <1>0, <2>4, CallFrames DEF ExportOutput, At
    <3>2. refs[Source(t)] > 0
      BY <1>0, <3>1 DEF OwnersOK, OwnerOK, TypeOK
    <3>3. refs' = [refs EXCEPT ![Source(t)] = @ + 1]
      BY <2>4 DEF ExportOutput
    <3> QED
      BY <1>c, <2>1, <2>2, <3>1, <3>2, <3>3
  <2>5. CASE EncodeReturns(t)
    <3>1. item[t] \in Images /\ refs[item[t]] > 0
      BY <1>0, <2>5, CallFrames DEF EncodeReturns, At
    <3>2. refs' = refs \/ refs' = [refs EXCEPT ![item[t]] = @ + 1]
      BY <2>5 DEF EncodeReturns
    <3> QED
      BY <1>c, <2>1, <2>2, <3>1, <3>2
  <2> QED
    BY <1>10, <2>3, <2>4, <2>5
\* With the last reference the image is on its way back.
<1>d. ASSUME NEW t \in Threads, pc[t] \notin Closing, NEW i \in Images, Unref(t, i), refs[i] > 0,
             UNCHANGED <<kind, stage, deletes, released, reserved, accepted, initialized>>
      PROVE  OwnerOK(j)'
  <2>1. stage[i] = "frame" /\ work[i] # "none" /\ ~Finished(i)
    BY <1>0, <1>d, <1>n, LeaseFrames DEF CompletionsOK
  <2>2. /\ \A k \in Images \ {i} : refs'[k] = refs[k]
        /\ recycled \subseteq recycled'
        /\ pc' = [pc EXCEPT ![t] = pc'[t]] /\ item' = [item EXCEPT ![t] = item'[t]]
        /\ \/ refs'[i] > 0 /\ pc'[t] = "idle"
           \/ /\ refs'[i] = 0 /\ item'[t] = i /\ pc'[t] \in {"delete", "destroy", "callback"}
              /\ kind[i] = "output" => i \in recycled'
    BY <1>0, <1>d, <2>1, UnrefEffect
  <2>3. \A u \in Threads \ {t} : pc'[u] = pc[u] /\ item'[u] = item[u]
    BY <1>0, <2>2 DEF TypeOK
  <2>4. CASE refs'[i] > 0 /\ pc'[t] = "idle"
    <3>1. Finished(j)' <=> Finished(j)
      BY <1>0, <1>d, <2>3, <2>4, FinishedMoves DEF Closing
    <3>2. refs'[j] = refs[j] \/ (refs[j] > 0 /\ refs'[j] > 0)
      BY <1>d, <2>2, <2>4
    <3> QED
      BY <1>a, <1>d, <2>2, <3>1, <3>2
  <2>5. CASE /\ refs'[i] = 0 /\ item'[t] = i /\ pc'[t] \in {"delete", "destroy", "callback"}
             /\ kind[i] = "output" => i \in recycled'
    <3>1. \A k : IF k = i THEN Finished(k)' ELSE Finished(k)' <=> Finished(k)
      BY <1>0, <1>d, <2>3, <2>5, FinishedMoves DEF Closing
    <3>2. CASE j # i
      BY <1>a, <1>d, <2>2, <3>1, <3>2
    <3>3. CASE j = i
      <4>1. Finished(j)' /\ stage'[j] = "frame" /\ refs'[j] = 0
        BY <1>d, <2>1, <2>5, <3>1, <3>3
      <4>2. Kept(j) /\ released[j] = 0 /\ j \in accepted /\ (Pooled(j) => deletes[j] = 0)
        BY <1>d, <1>j, <2>1, <3>3 DEF OwnerOK
      <4>3. Kept(j)' /\ released'[j] = 0 /\ j \in accepted' /\ (Pooled(j)' => deletes'[j] = 0)
        BY <1>d, <4>2 DEF Kept, Pooled
      <4> QED
        BY <1>d, <2>5, <3>3, <4>1, <4>3 DEF OwnerOK
    <3> QED
      BY <3>2, <3>3
  <2> QED
    BY <2>2, <2>4, <2>5
<1>11. ASSUME NEW t \in Threads, NEW i \in Images, Release(t, i) \/ Retire(t, i)
       PROVE  OwnerOK(j)'
  <2>1. /\ Unref(t, i) /\ pc[t] \notin Closing
        /\ UNCHANGED <<kind, stage, deletes, released, reserved, accepted, initialized>>
    BY <1>11 DEF Release, Retire, Idle, At, Closing, image, owner
  <2>2. refs[i] > 0
    <3>1. CASE Retire(t, i)
      BY <1>0, <3>1, LeaseFrames DEF Retire, Retirable
    <3>2. CASE Release(t, i)
      <4>1. client[i] > 0
        BY <1>0, <3>2, ReleaseGuard
      <4> QED
        BY <1>0, <4>1, LeaseFrames
    <3> QED
      BY <1>11, <3>1, <3>2
  <2> QED
    BY <1>d, <2>1, <2>2
<1>12. ASSUME NEW t \in Threads, ExportFails(t) PROVE OwnerOK(j)'
  <2>1. /\ Unref(t, Source(t)) /\ pc[t] \notin Closing
        /\ UNCHANGED <<kind, stage, deletes, released, reserved, accepted, initialized>>
    BY <1>12 DEF ExportFails, At, Closing, image, owner
  <2>2. Source(t) \in Images /\ refs[Source(t)] > 0
    BY <1>0, <1>12, CallFrames DEF ExportFails, At
  <2> QED
    BY <1>d, <2>1, <2>2
<1>13. ASSUME NEW t \in Threads, NEW e \in Exports, DeleteTensor(t, e) PROVE OwnerOK(j)'
  <2>1. /\ tensor[e].image \in Images /\ Leased(e, tensor[e].image) /\ pc[t] \notin Closing
        /\ UNCHANGED <<kind, stage, deletes, released, reserved, accepted, initialized>>
        /\ Unref(t, tensor[e].image) \/ UNCHANGED <<refs, recycled, pc, item>>
    BY <1>0, <1>13 DEF DeleteTensor, TensorsOK, Leased, At, Closing, image, owner, thread
  <2>2. refs[tensor[e].image] > 0
    BY <1>0, <2>1, LeaseFrames
  <2> QED
    BY <1>a, <1>d, <1>u, <2>1, <2>2
<1>14. ASSUME NEW t \in Threads, Delete(t) \/ Destroy(t) PROVE OwnerOK(j)'
  <2>1. /\ pc[t] \in Closing
        /\ \E l \in {"destroy", "callback"} : Goto(t, l, item[t])
        /\ UNCHANGED <<kind, stage, deletes, released, reserved, accepted, initialized, refs>>
        /\ recycled \subseteq recycled'
    BY <1>14 DEF Delete, Destroy, At, Closing, image, owner, lease
  <2>2. item[t] \in Nat
    BY <1>0 DEF TypeOK
  <2>3. /\ pc'[t] \in Closing /\ item'[t] = item[t]
        /\ \A u \in Threads \ {t} : pc'[u] = pc[u] /\ item'[u] = item[u]
    BY <1>0, <2>1, <2>2, GotoEffect DEF Closing
  <2>4. Finished(j)' <=> Finished(j)
    BY <1>0, <2>1, <2>3, FinishedMoves
  <2> QED
    BY <1>a, <2>1, <2>4
<1>15. ASSUME NEW t \in Threads, Cancel(t) \/ Callback(t) PROVE OwnerOK(j)'
  <2>1. PICK i \in Images :
            /\ i = item[t] /\ Finished(i) /\ refs[i] = 0
            /\ stage[i] \in {"frame", "refused"}
            /\ pc[t] = "cancel" => stage[i] = "refused"
            /\ pc[t] = "callback" => work[i] \in Settled
    BY <1>0, <1>15 DEF Cancel, Callback, At, FinishingOK, Finishing, Finished
  <2>2. Kept(i) /\ (Pooled(i) => deletes[i] = 0) /\ released[i] = 0
        /\ (i \in accepted <=> stage[i] = "frame")
        /\ (stage[i] = "frame" /\ kind[i] = "output" => i \in recycled)
    BY <1>0, <2>1 DEF OwnersOK, OwnerOK
  <2>3. /\ UNCHANGED <<generation, waiting, woken, kind, stage, slot, stamp, work, refs,
                       accepted, recycled, initialized>>
        /\ pc[t] \in Closing /\ Ready(t)
    BY <1>15 DEF Cancel, Callback, At, Closing, producer, lease
  <2>4. CASE Callback(t) /\ stage[i] = "refused"
    <3>1. /\ Goto(t, "cancel", item[t]) /\ UNCHANGED <<released, reserved, deletes>>
          /\ item[t] \in Nat
      BY <1>0, <2>1, <2>2, <2>4 DEF Callback, TypeOK
    <3>2. /\ pc'[t] \in Closing /\ item'[t] = item[t]
          /\ \A u \in Threads \ {t} : pc'[u] = pc[u] /\ item'[u] = item[u]
      BY <1>0, <3>1, GotoEffect DEF Closing
    <3>3. Finished(j)' <=> Finished(j)
      BY <1>0, <2>3, <3>2, FinishedMoves
    <3> QED
      BY <1>a, <2>3, <3>1, <3>3
  <2>5. ASSUME Goto(t, "idle", 0)
        PROVE  \A k : IF k = i THEN ~Finished(k)' ELSE Finished(k)' <=> Finished(k)
    <3>1. /\ pc'[t] \notin Closing
          /\ \A u \in Threads \ {t} : pc'[u] = pc[u] /\ item'[u] = item[u]
      BY <1>0, <2>5, GotoEffect DEF Closing
    <3> QED
      BY <1>0, <2>1, <2>3, <3>1, FinishedMoves
  <2>6. ASSUME OwnerGone(t, i)
        PROVE  /\ Lost(i)' /\ (Pooled(i) => deletes'[i] = 0) /\ deletes'[i] <= 1
               /\ \A k \in Images \ {i} :
                    (k \in reserved' <=> k \in reserved) /\ deletes'[k] = deletes[k]
    BY <1>0, <2>2, <2>3, <2>6, OwnerGoneEffect
  <2>7. CASE Cancel(t)
    <3>1. /\ Goto(t, "idle", 0) /\ OwnerGone(t, i) /\ released' = released
          /\ stage[i] = "refused"
      BY <2>1, <2>7 DEF Cancel, Return, At
    <3>2. CASE j # i
      BY <1>b, <2>3, <2>5, <2>6, <3>1, <3>2
    <3>3. CASE j = i
      <4>1. ~Finished(j)' /\ stage'[j] = "refused" /\ refs'[j] = 0 /\ released'[j] = 0
            /\ j \notin accepted' /\ Lost(j)' /\ (Pooled(j)' => deletes'[j] = 0)
        BY <2>1, <2>2, <2>3, <2>5, <2>6, <3>1, <3>3 DEF Pooled
      <4>2. ~(refs'[j] > 0)
        BY <4>1
      <4> QED
        BY <4>1, <4>2 DEF OwnerOK
    <3> QED
      BY <3>2, <3>3
  <2>8. CASE Callback(t) /\ stage[i] = "frame"
    <3>1. /\ Goto(t, "idle", 0) /\ pc[t] = "callback"
          /\ released' = [released EXCEPT ![i] = @ + 1]
          /\ IF initialized THEN OwnerGone(t, i) ELSE UNCHANGED <<reserved, deletes>>
      BY <2>1, <2>2, <2>8 DEF Callback, Return, At
    <3>2. released'[i] = 1 /\ \A k \in Images \ {i} : released'[k] = released[k]
      BY <1>0, <2>2, <3>1 DEF TypeOK
    <3>3. CASE j # i
      <4>1. (j \in reserved' <=> j \in reserved) /\ deletes'[j] = deletes[j]
        BY <2>6, <3>1, <3>3
      <4> QED
        BY <1>b, <2>3, <2>5, <3>1, <3>2, <3>3, <4>1
    <3>4. CASE j = i
      <4>1. ~Finished(j)' /\ stage'[j] = "frame" /\ refs'[j] = 0 /\ released'[j] = 1
            /\ j \in accepted' /\ work'[j] \in Settled
            /\ (kind'[j] = "output" => j \in recycled')
        BY <2>1, <2>2, <2>3, <2>5, <2>8, <3>1, <3>2, <3>4
      <4>2. (initialized' => Lost(j)') /\ (Pooled(j)' => deletes'[j] = 0) /\ deletes'[j] <= 1
        <5>1. deletes[j] = 0
          BY <2>2, <3>4 DEF Kept
        <5> QED
          BY <2>2, <2>3, <2>6, <3>1, <3>4, <5>1 DEF Pooled
      <4>3. ~(refs'[j] > 0)
        BY <4>1
      <4>4. Returned(j)'
        BY <4>1, <4>2 DEF Returned
      <4> QED
        BY <4>1, <4>2, <4>3, <4>4 DEF OwnerOK
    <3> QED
      BY <3>3, <3>4
  <2> QED
    BY <1>15, <2>1, <2>4, <2>7, <2>8
<1> QED
  BY <1>1, <1>2, <1>3, <1>4, <1>5, <1>6, <1>7, <1>8, <1>9, <1>10, <1>11, <1>12, <1>13,
     <1>14, <1>15, StepCases

-----------------------------------------------------------------------------
(* The inductive invariant and what follows from it.                       *)

LEMMA InductiveInit == Init => Inductive
<1> SUFFICES ASSUME Init PROVE Inductive
  OBVIOUS
<1>1. TypeOK
  <2>1. Images \subseteq Nat /\ 0 \in Nat
    BY Bounds
  <2>2. PoolTypeOK
    BY DEF Init, PoolInit, PoolTypeOK
  <2>3. ImageType /\ ProducerType /\ LeaseType
    BY DEF Init, ImageType, ProducerType, LeaseType, Sources
  <2>4. OwnerType /\ TensorType /\ ThreadType /\ initialized \in BOOLEAN
    BY <2>1 DEF Init, OwnerType, TensorType, ThreadType, NoTensor
  <2> QED
    BY <2>2, <2>3, <2>4, TypeParts
<1>2. PoolOK
  <2>1. PoolTypeOK
    BY <1>1 DEF TypeOK
  <2>2. Slots \ Free = {} /\ Sleepers = {}
    BY DEF Init, PoolInit, Free, Sleepers
  <2>3. occupied = Cardinality(Slots \ Free)
    BY <2>2, FS_EmptySet DEF Init, PoolInit
  <2>4. WakeupsOK
    BY <2>2 DEF WakeupsOK, Init, PoolInit
  <2> QED
    BY <2>1, <2>3, <2>4 DEF PoolOK
<1>3. ReservedOK
  BY DEF Init, ReservedOK
<1>4. \A t \in Threads : pc[t] = "idle"
  BY DEF Init
<1>5. \A i \in Images : ~Finished(i)
  BY <1>4 DEF Finished, Finishing
<1>6. FinishingOK /\ CallsOK
  BY <1>4 DEF FinishingOK, Finishing, CallsOK
<1>7. RefsOK
  <2> SUFFICES ASSUME NEW i \in Images PROVE RefOK(i)
    BY DEF RefsOK, RefOK
  <2>1. refs[i] = 0 /\ client[i] = 0 /\ i \notin tracked
    BY DEF Init
  <2>2. LeasedBy(i) = {}
    BY DEF Init, LeasedBy, Leased, NoTensor
  <2>3. Cardinality(LeasedBy(i)) = 0
    BY <2>2, FS_EmptySet
  <2>4. Leases(i) = 0
    BY <2>1, <2>3, LeasesChange
  <2> QED
    BY <2>1, <2>4 DEF RefOK
<1>8. OwnersOK
  BY <1>5 DEF Init, OwnersOK, OwnerOK, Pooled
<1>9. CompletionsOK
  BY DEF Init, CompletionsOK
<1>10. TensorsOK
  BY DEF Init, TensorsOK, NoTensor
<1> QED
  BY <1>1, <1>2, <1>3, <1>6, <1>7, <1>8, <1>9, <1>10 DEF Inductive

LEMMA InductiveStep == Inductive /\ [Next]_vars => Inductive'
<1> SUFFICES ASSUME Inductive, [Next]_vars PROVE Inductive'
  OBVIOUS
<1>1. CASE Next
  <2>1. TypeOK'
    BY <1>1, TypeStep
  <2>2. PoolOK' /\ ReservedOK'
    BY <1>1, PoolStep DEF Inductive
  <2>3. RefsOK' /\ FinishingOK' /\ CallsOK' /\ OwnersOK' /\ CompletionsOK' /\ TensorsOK'
    BY <1>1, <2>1, RefsStep, FinishingStep, CallsStep, OwnersStep, CompletionsStep, TensorsStep
  <2> QED
    BY <2>1, <2>2, <2>3 DEF Inductive
<1>2. CASE UNCHANGED vars
  <2>2. PoolOK' /\ ReservedOK'
    <3>1. UNCHANGED <<in_use, generation, occupied, waiting, woken, owing>>
      BY <1>2 DEF vars, pool
    <3>2. UNCHANGED <<kind, slot, stamp, reserved>>
      BY <1>2 DEF vars, image
    <3> QED
      BY <3>1, <3>2, PoolSame, ReservedSame DEF Inductive
  <2>3. UNCHANGED <<kind, stage, slot, stamp, reserved>> /\ UNCHANGED <<work, source, event, terminal>>
    BY <1>2 DEF vars, image, producer
  <2>4. UNCHANGED <<refs, client, accepted, recycled, tracked, reading>>
        /\ UNCHANGED <<released, capsule, deletes>> /\ UNCHANGED <<tensor, initialized, pc, item>>
    BY <1>2 DEF vars, lease, owner, thread
  <2>5. TypeOK'
    BY <2>2, <2>3, <2>4 DEF Inductive, PoolOK, TypeOK
  <2>6. RefsOK'
    <3>1. \A i \in Images : RefOK(i)'
      BY <2>3, <2>4, RefKept DEF Inductive, RefsOK, Leased
    <3> QED
      BY <3>1 DEF RefsOK, RefOK
  <2>7. FinishingOK' /\ \A i \in Images : Finished(i)' <=> Finished(i)
    <3>1. \A i \in Images : Finished(i) => refs[i] = 0
      BY DEF Inductive, FinishingOK, Finished
    <3> QED
      BY <2>3, <2>4, <3>1, FinishKept DEF Inductive
  <2>8. CallsOK'
    BY <2>3, <2>4, CallKept DEF Inductive
  <2>9. OwnersOK'
    <3>1. \A i \in Images : OwnerOK(i)'
      BY <2>3, <2>4, <2>7, OwnerKept DEF Inductive, OwnersOK
    <3> QED
      BY <3>1 DEF OwnersOK
  <2>10. CompletionsOK'
    BY <2>3, <2>4 DEF Inductive, CompletionsOK
  <2>11. TensorsOK'
    BY <2>3, <2>4 DEF Inductive, TensorsOK
  <2> QED
    BY <2>2, <2>5, <2>6, <2>7, <2>8, <2>9, <2>10, <2>11 DEF Inductive
<1> QED
  BY <1>1, <1>2

LEMMA InductiveHolds == Spec => []Inductive
<1> QED
  BY InductiveInit, InductiveStep, PTL DEF Spec

\* In every state the variables of the pool, the images, the tensors and
\* the threads have the values the code gives them.
THEOREM TypeCorrect == Spec => []TypeOK
<1>1. Inductive => TypeOK
  BY DEF Inductive
<1> QED
  BY <1>1, InductiveHolds, PTL

\* acquire and release of the resource pool: with any number of threads that
\* sleep, are notified, time out or take a slot under a sleeper's nose, no
\* wakeup is lost, and the statistics count the slots in use.
THEOREM Wakeups == Spec => []NoLostWakeup
<1>1. Inductive => NoLostWakeup
  <2> SUFFICES ASSUME Inductive PROVE NoLostWakeup
    OBVIOUS
  <2>1. PoolTypeOK /\ WakeupsOK /\ occupied = Cardinality(Slots \ Free)
    BY DEF Inductive, PoolOK
  <2>2. ASSUME Free # {}, Sleepers # {} PROVE woken \cup owing # {}
    <3>1. Cardinality(Free) # 0 /\ Cardinality(Free) \in Nat
      BY <2>1, <2>2, PoolFinite, FS_EmptySet
    <3>2. Cardinality(Free) <= Cardinality(woken) + Cardinality(owing)
      BY <2>1, <2>2 DEF WakeupsOK
    <3>3. Cardinality({}) = 0
      BY FS_EmptySet
    <3>4. ASSUME woken = {}, owing = {} PROVE FALSE
      BY <3>1, <3>2, <3>3, <3>4
    <3> QED
      BY <3>4
  <2> QED
    BY <2>1, <2>2 DEF NoLostWakeup, Snapshot
<1> QED
  BY <1>1, InductiveHolds, PTL

\* A slot that is written, whose producer's work runs, that an encoder reads
\* or that any lease or capsule refers to keeps its reservation, so that
\* acquire cannot hand the memory out again; a foreign tensor of such an
\* image has not been deleted.
THEOREM Held == Spec => []SlotHeld
<1>1. Inductive => SlotHeld
  <2> SUFFICES ASSUME Inductive PROVE SlotHeld
    OBVIOUS
  <2> SUFFICES ASSUME NEW i \in Images, InUse(i) \/ stage[i] = "writable" PROVE Kept(i)
    <3>1. \A k \in reserved : in_use[slot[k]] /\ generation[slot[k]] = stamp[k]
      BY DEF Inductive, ReservedOK
    <3> QED
      BY <3>1 DEF SlotHeld, Kept
  <2>1. TypeOK /\ RefsOK /\ OwnerOK(i) /\ reading \subseteq tracked
    BY DEF Inductive, OwnersOK, CompletionsOK
  <2>2. CASE refs[i] > 0 \/ stage[i] = "writable"
    BY <2>1, <2>2 DEF OwnerOK
  <2>3. CASE ~(refs[i] > 0) /\ stage[i] # "writable"
    <3>1. stage[i] = "frame" /\ work[i] = "pending" /\ refs[i] = 0
      BY <2>1, <2>3, LeaseFrames DEF InUse
    <3>2. ~Returned(i)
      BY <3>1 DEF Returned, Settled
    <3> QED
      BY <2>1, <3>1, <3>2 DEF OwnerOK
  <2> QED
    BY <2>2, <2>3
<1> QED
  BY <1>1, InductiveHolds, PTL

\* The release callback of an import runs once and only for an accepted one,
\* a foreign deleter runs once on every path; while Python runs, each
\* reference is that of a lease, and what is finished keeps nothing.
THEOREM ReleasedOnce == Spec => []OwnerReleasedOnce
<1>1. Inductive => OwnerReleasedOnce
  <2> SUFFICES ASSUME Inductive, NEW i \in Images
               PROVE  /\ released[i] <= (IF i \in accepted THEN 1 ELSE 0)
                      /\ deletes[i] <= 1
                      /\ initialized =>
                          refs[i] = client[i] + Cardinality(tracked \cap {i})
                                    + Cardinality({e \in Exports : Leased(e, i)})
                      /\ (initialized /\ refs[i] = 0 /\ ~Working(i)
                            /\ stage[i] \in {"frame", "refused", "gone"}) => Lost(i)
    BY DEF OwnerReleasedOnce, Lost
  <2>1. TypeOK /\ RefsOK /\ OwnerOK(i) /\ refs[i] \in Nat
    BY DEF Inductive, OwnersOK, TypeOK
  <2>2. stage[i] \in {"none", "writable", "frame", "refused", "gone"}
    BY <2>1 DEF TypeOK
  <2>3. refs[i] > 0 \/ refs[i] = 0
    BY <2>1
  <2>4. released[i] <= (IF i \in accepted THEN 1 ELSE 0)
    <3>1. released[i] = 0 \/ (released[i] = 1 /\ i \in accepted)
      BY <2>1, <2>3 DEF OwnerOK, Returned
    <3> QED
      BY <3>1
  <2>5. deletes[i] <= 1
    <3>1. Kept(i) \/ Lost(i) => deletes[i] \in {0, 1}
      BY <2>1 DEF OwnerOK, Kept, Lost
    <3>2. CASE stage[i] = "none"
      BY <2>1, <3>2 DEF OwnerOK, Pooled
    <3>3. CASE stage[i] # "none"
      <4>1. Kept(i) \/ Lost(i) \/ Returned(i)
        BY <2>1, <2>2, <2>3, <3>3 DEF OwnerOK
      <4> QED
        BY <3>1, <4>1 DEF Returned
    <3> QED
      BY <3>2, <3>3
  <2>6. initialized => refs[i] = client[i] + Cardinality(tracked \cap {i})
                                 + Cardinality({e \in Exports : Leased(e, i)})
    BY <2>1 DEF RefsOK, Leases
  <2>7. ASSUME initialized, refs[i] = 0, ~Working(i), stage[i] \in {"frame", "refused", "gone"}
        PROVE  Lost(i)
    <3>1. ~Finished(i)
      BY <2>7 DEF Working, Finished, Finishing
    <3> QED
      BY <2>1, <2>7, <3>1 DEF OwnerOK, Returned
  <2> QED
    BY <2>4, <2>5, <2>6, <2>7
<1> QED
  BY <1>1, InductiveHolds, PTL

\* A consumer gets a tensor when its producer is complete or its stream waits
\* for it; an encoder call, a destructor and the last token that wait for a
\* producer never wait for the encoder that reads the same surface instead.
THEOREM Respected == Spec => []ProducerRespected
<1>1. Inductive => ProducerRespected
  <2> SUFFICES ASSUME Inductive PROVE ProducerRespected
    OBVIOUS
  <2>1. \A e \in Exports : tensor[e].order = "host" => work[tensor[e].image] = "complete"
    BY DEF Inductive, TensorsOK
  <2>2. ASSUME NEW t \in Threads, pc[t] \in {"encode", "destroy"}, work[item[t]] \in Settled
        PROVE  Query(item[t]) \in Settled
    <3>1. item[t] \in Images
      BY <2>2 DEF Inductive, CallsOK, FinishingOK, Finishing
    <3>2. item[t] \in reading => source[item[t]] # "va" \/ terminal[item[t]] # "pending"
      BY <3>1 DEF Inductive, CompletionsOK, Latching
    <3> QED
      BY <2>2, <3>1, <3>2, QueryTrue DEF Inductive
  <2> QED
    BY <2>1, <2>2 DEF ProducerRespected
<1> QED
  BY <1>1, InductiveHolds, PTL

=============================================================================
