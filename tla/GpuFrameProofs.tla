--------------------------- MODULE GpuFrameProofs ---------------------------
(***************************************************************************)
(* Proofs about GpuFrame, for any number of threads, slots and frames:     *)
(* types, leases and references, when a surface goes back, and how slots,  *)
(* frames and handles agree.                                               *)
(***************************************************************************)
EXTENDS GpuFrame, SequenceTheorems, FiniteSetTheorems, TLAPS

Locations == {"idle", "delete", "submit", "consume", "collect", "drain", "close", "clear",
              "unanchor"}
Chores    == {"none", "destroy", "callback", "recycle"}

LEMMA Bounds ==
    /\ Frames \subseteq Nat \ {0} /\ Slots \subseteq Nat \ {0} /\ IsFiniteSet(Frames)
    /\ 0 \notin Frames /\ 0 \notin Slots /\ Created \subseteq Frames
<1>1. MaxFrames \in Nat /\ Capacity \in Nat
  BY BoundAssumption, CapacityAssumption
<1>2. IsFiniteSet(1..MaxFrames)
  BY <1>1, FS_Interval
<1> QED
  BY <1>1, <1>2 DEF Frames, Slots, Created

\* The list of completed frames.
ReadySet == {ready[i] : i \in DOMAIN ready}

LEMMA ReadyType ==
    ASSUME TypeOK
    PROVE  /\ Len(ready) \in Nat /\ DOMAIN ready = 1..Len(ready)
           /\ \A i \in DOMAIN ready : ready[i] \in Frames
           /\ \A f : Held(f) <=> f = anchor \/ f \in handles \/ f \in Queued \/ f \in ReadySet
<1> QED
  BY LenProperties, ElementOfSeq DEF TypeOK, Held, ReadySet

LEMMA ReadyAppend ==
    ASSUME TypeOK, NEW f \in Frames, ready' = Append(ready, f)
    PROVE  /\ ready' \in Seq(Frames) /\ DOMAIN ready' = DOMAIN ready \cup {Len(ready) + 1}
           /\ Len(ready) + 1 \notin DOMAIN ready
           /\ ready'[Len(ready) + 1] = f /\ \A i \in DOMAIN ready : ready'[i] = ready[i]
           /\ ReadySet' = ReadySet \cup {f}
<1>1. /\ ready' \in Seq(Frames) /\ Len(ready') = Len(ready) + 1 /\ Len(ready) \in Nat
      /\ \A i \in 1..Len(ready) : ready'[i] = ready[i]
      /\ ready'[Len(ready) + 1] = f /\ DOMAIN ready = 1..Len(ready)
  BY AppendProperties, ReadyType DEF TypeOK
<1>2. DOMAIN ready' = 1..(Len(ready) + 1)
  BY <1>1, LenProperties
<1>3. DOMAIN ready' = DOMAIN ready \cup {Len(ready) + 1}
  BY <1>1, <1>2
<1> QED
  BY <1>1, <1>3 DEF ReadySet

LEMMA ReadyTail ==
    ASSUME TypeOK, ready # <<>>, ready' = Tail(ready)
    PROVE  /\ ready' \in Seq(Frames) /\ Head(ready) = ready[1] /\ 1 \in DOMAIN ready
           /\ \A i \in DOMAIN ready' : i + 1 \in DOMAIN ready /\ i + 1 # 1
                                       /\ ready'[i] = ready[i + 1] /\ i \in Nat
           /\ ReadySet = ReadySet' \cup {Head(ready)}
<1>1. Len(ready) \in Nat \ {0} /\ Head(ready) = ready[1] /\ DOMAIN ready = 1..Len(ready)
  BY EmptySeq, LenProperties DEF TypeOK
<1>2. /\ ready' \in Seq(Frames) /\ Len(ready') = Len(ready) - 1
      /\ \A i \in 1..Len(ready') : ready'[i] = ready[i + 1]
  BY HeadTailProperties DEF TypeOK
<1>3. DOMAIN ready' = 1..(Len(ready) - 1)
  BY <1>2, LenProperties
<1>4. \A i \in DOMAIN ready' : i + 1 \in DOMAIN ready /\ i + 1 # 1
                               /\ ready'[i] = ready[i + 1] /\ i \in Nat
  BY <1>1, <1>2, <1>3
<1>5. \A i \in DOMAIN ready : i = 1 \/ (i - 1 \in DOMAIN ready' /\ ready[i] = ready'[i - 1])
  BY <1>1, <1>2, <1>3
<1>6. ReadySet = ReadySet' \cup {Head(ready)}
  BY <1>1, <1>4, <1>5 DEF ReadySet
<1> QED
  BY <1>1, <1>2, <1>4, <1>6

\* The queue of the encoder.
LEMMA QueueType ==
    ASSUME TypeOK
    PROVE  /\ Len(queue) \in Nat /\ DOMAIN queue = 1..Len(queue) /\ Queued \subseteq Frames
           /\ queue # <<>> => Len(queue) >= 1
<1> QED
  BY LenProperties, ElementOfSeq, EmptySeq DEF TypeOK, Queued

LEMMA QueueAppend ==
    ASSUME TypeOK, NEW f \in Frames \cup {0}, queue' = Append(queue, f)
    PROVE  /\ queue' \in Seq(Frames \cup {0}) /\ Len(queue') = Len(queue) + 1
           /\ queue' # <<>> /\ Queued' = Queued \cup ({f} \ {0})
<1>1. /\ queue' \in Seq(Frames \cup {0}) /\ Len(queue') = Len(queue) + 1
      /\ \A i \in 1..Len(queue) : queue'[i] = queue[i]
      /\ queue'[Len(queue) + 1] = f
  BY AppendProperties DEF TypeOK
<1>2. /\ DOMAIN queue = 1..Len(queue) /\ Len(queue) \in Nat
      /\ DOMAIN queue' = 1..(Len(queue) + 1)
  BY <1>1, LenProperties, QueueType
<1>3. DOMAIN queue' = DOMAIN queue \cup {Len(queue) + 1}
  BY <1>2
<1>4. queue' # <<>>
  BY <1>1, <1>2
<1> QED
  BY <1>1, <1>2, <1>3, <1>4 DEF Queued

LEMMA QueueTail ==
    ASSUME TypeOK, queue # <<>>, queue' = Tail(queue)
    PROVE  /\ queue' \in Seq(Frames \cup {0}) /\ Len(queue') = Len(queue) - 1
           /\ Head(queue) \in Frames \cup {0}
           /\ Queued' \subseteq Queued /\ {Head(queue)} \ {0} \subseteq Queued
           /\ Queued \subseteq Queued' \cup {Head(queue)}
<1>1. /\ Len(queue) \in Nat \ {0} /\ Head(queue) = queue[1] /\ DOMAIN queue = 1..Len(queue)
      /\ Head(queue) \in Frames \cup {0}
  BY EmptySeq, LenProperties, QueueType, ElementOfSeq DEF TypeOK
<1>2. /\ queue' \in Seq(Frames \cup {0}) /\ Len(queue') = Len(queue) - 1
      /\ \A i \in 1..Len(queue') : queue'[i] = queue[i + 1]
  BY HeadTailProperties DEF TypeOK
<1>3. DOMAIN queue' = 1..(Len(queue) - 1)
  BY <1>2, LenProperties
<1>4. \A i \in DOMAIN queue' : i + 1 \in DOMAIN queue /\ queue'[i] = queue[i + 1]
  BY <1>1, <1>2, <1>3
<1>5. \A i \in DOMAIN queue : i = 1 \/ (i - 1 \in DOMAIN queue' /\ queue[i] = queue'[i - 1])
  BY <1>1, <1>2, <1>3
<1>6. 1 \in DOMAIN queue
  BY <1>1
<1>7. Queued' \subseteq Queued
  BY <1>4 DEF Queued
<1>8. {Head(queue)} \ {0} \subseteq Queued
  BY <1>1, <1>6 DEF Queued
<1>9. Queued \subseteq Queued' \cup {Head(queue)}
  BY <1>1, <1>5 DEF Queued
<1> QED
  BY <1>1, <1>2, <1>7, <1>8, <1>9

\* What is held after a step.
LEMMA HeldAfter ==
    ASSUME NEW f
    PROVE  /\ Held(f)' <=> f = anchor' \/ f \in handles' \/ f \in Queued' \/ f \in ReadySet'
           /\ StillHeld(f) <=> Held(f)'
<1> QED
  BY DEF Held, StillHeld, ReadySet

-----------------------------------------------------------------------------
(* Types.                                                                  *)

LEMMA AssignType ==
    ASSUME TypeOK, NEW f \in Frames, NEW t \in Threads \cup {NoThread}, NEW w \in Chores,
           Assign(f, t, w)
    PROVE  chore' \in [Frames -> Chores] /\ by' \in [Frames -> Threads \cup {NoThread}]
<1> QED
  BY DEF TypeOK, Assign, Chores

LEMMA RecycleType ==
    ASSUME TypeOK, NEW f \in Frames, NEW t \in Threads, RecycleIfDone(f, t)
    PROVE  /\ chore' \in [Frames -> Chores] /\ by' \in [Frames -> Threads \cup {NoThread}]
           /\ recycled' \in [Frames -> BOOLEAN]
<1> QED
  BY AssignType DEF TypeOK, RecycleIfDone, Chores, chores

LEMMA DropType ==
    ASSUME TypeOK, NEW fs, NEW t \in Threads, Drop(fs, t)
    PROVE  chore' \in [Frames -> Chores] /\ by' \in [Frames -> Threads \cup {NoThread}]
<1> QED
  BY DEF TypeOK, Drop, Chores

LEMMA GotoType ==
    ASSUME TypeOK, NEW t \in Threads, NEW l \in Locations, Goto(t, l)
    PROVE  pc' \in [Threads -> Locations]
<1> QED
  BY DEF TypeOK, Goto, Locations

\* Whom a lease belongs to bounds the number of leases.
LEMMA LeaseBound ==
    ASSUME TypeOK, LeasesOK
    PROVE  /\ \A f \in Frames : external_leases[f] \in 0..2
           /\ \A f \in Frames : Referenced(f) => external_leases[f] >= 1
           /\ \A f \in Frames : Anchored(f) => external_leases[f] >= 1
           /\ \A f \in Frames : ~Anchored(f) => external_leases[f] <= 1
           /\ \A f \in Frames : ~Referenced(f) => external_leases[f] <= 1
<1> QED
  BY DEF LeasesOK

\* Steps inside the encoder that only move on, and those that end the oldest
\* item of its queue.
Moves(t) ==
    \/ SubmitReturns(t) \/ SubmitSkips(t) \/ SubmitQueues(t)
    \/ Flush(t) \/ DrainEnds(t) \/ CloseWaits(t)
Pops(t) == Clear(t) \/ \E o \in Settled : Collect(t, o) \/ Drain(t, o)

LEMMA MovesEffect ==
    ASSUME TypeOK, NEW t \in Threads, Moves(t)
    PROVE  /\ UNCHANGED <<in_use, generation, open, slot, stamp, producer, core,
                          external_leases, recycled, owners, ready, references, handles,
                          anchor, queue, chores, chore, by, surface>>
           /\ frame' = frame \/ (frame' = [frame EXCEPT ![t] = 0] /\ pc[t] = "submit")
           /\ \A u \in Threads \ {t} : pc'[u] = pc[u]
           /\ pc' \in [Threads -> Locations]
           /\ \/ pc[t] = "submit" /\ pc'[t] = "idle"
              \/ pc[t] = "submit" /\ pc'[t] = "consume" /\ frame' = frame
              \/ pc[t] = "submit" /\ pc'[t] = "collect" /\ queue # <<>>
              \/ pc[t] = "idle" /\ pc'[t] = "drain" /\ EncoderFree /\ anchor # 0
              \/ pc[t] \in {"drain", "close"} /\ pc'[t] \in {"close", "clear"}
<1> USE DEF pool, origin, core, owners, chores
<1>1. CASE SubmitReturns(t)
  BY <1>1 DEF SubmitReturns, Returns, Goto, At, TypeOK, Locations
<1>2. CASE SubmitSkips(t)
  <2>1. pc' = [pc EXCEPT ![t] = "idle"] \/ (pc' = [pc EXCEPT ![t] = "collect"] /\ queue # <<>>)
    BY <1>2 DEF SubmitSkips, Returns, Goto
  <2> QED
    BY <1>2, <2>1 DEF SubmitSkips, Returns, At, TypeOK, Locations
<1>3. CASE SubmitQueues(t)
  BY <1>3 DEF SubmitQueues, Goto, At, TypeOK, Locations
<1>4. CASE Flush(t)
  BY <1>4 DEF Flush, Goto, Idle, At, TypeOK, Locations
<1>5. CASE DrainEnds(t) \/ CloseWaits(t)
  BY <1>5 DEF DrainEnds, CloseWaits, Goto, At, TypeOK, Locations
<1> QED
  BY <1>1, <1>2, <1>3, <1>4, <1>5 DEF Moves

LEMMA PopsEffect ==
    ASSUME TypeOK, Owned, NEW t \in Threads, Pops(t)
    PROVE  /\ UNCHANGED <<in_use, generation, open, slot, stamp, producer, external_leases,
                          ready, references, handles, anchor, frame, surface>>
           /\ queue # <<>> /\ queue' = Tail(queue)
           /\ {Head(queue)} \ {0} \subseteq Created /\ {Head(queue)} \ {0} \subseteq Frames
           /\ \/ Head(queue) \in Created /\ MayRecycle(Head(queue)) /\ RecycleIfDone(Head(queue), t)
              \/ Drop({Head(queue)} \ {0}, t) /\ recycled' = recycled
           /\ \A u \in Threads \ {t} : pc'[u] = pc[u]
           /\ pc' \in [Threads -> Locations]
           /\ \/ pc[t] = "collect" /\ pc'[t] = "idle"
              \/ pc[t] = "drain" /\ pc'[t] \in {"drain", "close"}
              \/ pc[t] = "clear" /\ pc'[t] = "clear"
<1>1. \E p \in BOOLEAN : Pop(t, p)
  BY DEF Pops, Clear, Collect, Drain
<1>2. UNCHANGED <<in_use, generation, open, slot, stamp, producer, external_leases, ready,
                  references, handles, anchor, frame, surface>>
  BY DEF Pops, Clear, Collect, Drain, Pop, pool, origin
<1>3. /\ \A u \in Threads \ {t} : pc'[u] = pc[u]
      /\ pc' \in [Threads -> Locations]
      /\ \/ pc[t] = "collect" /\ pc'[t] = "idle"
         \/ pc[t] = "drain" /\ pc'[t] \in {"drain", "close"} /\ queue # <<>>
         \/ pc[t] = "clear" /\ pc'[t] = "clear" /\ queue # <<>>
  <2>1. CASE Clear(t)
    BY <2>1 DEF Clear, At, TypeOK, Locations
  <2>2. ASSUME NEW o \in Settled, Collect(t, o)
        PROVE  pc[t] = "collect" /\ pc' = [pc EXCEPT ![t] = "idle"]
    BY <2>2 DEF Collect, At, Goto
  <2>3. ASSUME NEW o \in Settled, Drain(t, o)
        PROVE  /\ pc[t] = "drain" /\ queue # <<>>
               /\ \E l \in {"drain", "close"} : pc' = [pc EXCEPT ![t] = l]
    BY <2>3 DEF Drain, At, Goto
  <2> QED
    BY <2>1, <2>2, <2>3 DEF Pops, TypeOK, Locations
<1>4. queue # <<>> /\ queue' = Tail(queue)
  BY <1>1, <1>3 DEF Pop, Owned, QueueOK
<1>5. {Head(queue)} \ {0} \subseteq Created /\ {Head(queue)} \ {0} \subseteq Frames
  BY <1>4, QueueTail, Bounds DEF Owned, QueueOK
<1>6. \/ Head(queue) # 0 /\ MayRecycle(Head(queue)) /\ RecycleIfDone(Head(queue), t)
      \/ Drop({Head(queue)} \ {0}, t) /\ recycled' = recycled
  BY <1>1 DEF Pop
<1> QED
  BY <1>2, <1>3, <1>4, <1>5, <1>6

\* The steps there are.
LEMMA StepCases ==
    ASSUME Next
    PROVE  \/ Wrap \/ Quiescent
           \/ \E f \in Frames, o \in Settled : Produce(f, o)
           \/ \E t \in Threads :
                \/ Deliver(t) \/ DeliverFails(t) \/ CloseDecoder(t) \/ Delete(t)
                \/ Moves(t) \/ Pops(t) \/ AddConsumer(t) \/ WriteCpu(t)
                \/ ReleaseAnchor(t) \/ AnchorGone(t)
                \/ \E f \in Frames :
                    \/ Release(t, f) \/ WriteGpu(t, f) \/ Destroy(t, f)
                    \/ ReleaseSurface(t, f) \/ RecycleSlot(t, f)
                    \/ \E u \in Threads : Retain(t, u, f)
<1>1. CASE Wrap \/ Quiescent \/ Gpu
  BY <1>1 DEF Gpu
<1>2. ASSUME NEW t \in Threads, Step(t)
      PROVE  \/ Delete(t) \/ Moves(t) \/ Pops(t) \/ AddConsumer(t)
             \/ ReleaseAnchor(t) \/ AnchorGone(t)
             \/ \E f \in Frames : Destroy(t, f) \/ ReleaseSurface(t, f) \/ RecycleSlot(t, f)
  BY <1>2 DEF Step, Moves, Pops
<1>3. ASSUME NEW t \in Threads, Call(t)
      PROVE  \/ Deliver(t) \/ DeliverFails(t) \/ CloseDecoder(t) \/ Moves(t) \/ WriteCpu(t)
             \/ \E f \in Frames :
                 \/ Release(t, f) \/ WriteGpu(t, f) \/ \E u \in Threads : Retain(t, u, f)
  BY <1>3 DEF Call, Moves
<1> QED
  BY <1>1, <1>2, <1>3 DEF Next

LEMMA TypeStep ==
    ASSUME TypeOK, Owned, Next
    PROVE  TypeOK'
<1> USE DEF TypeOK, Owned, Locations, Chores
<1>0. /\ Frames \subseteq Nat \ {0} /\ 0 \notin Frames
      /\ \A f \in Frames : external_leases[f] \in 0..2
  BY Bounds, LeaseBound, BoundAssumption
<1>1. CASE Wrap
  <2>1. PICK f \in Frames \ Created, s \in FreeSlots :
            /\ in_use' = [in_use EXCEPT ![s] = TRUE]
            /\ generation' = [generation EXCEPT ![s] = @ + 1]
            /\ slot' = [slot EXCEPT ![f] = s]
            /\ stamp' = [stamp EXCEPT ![f] = generation'[s]]
            /\ ready' = Append(ready, f)
    BY <1>1 DEF Wrap
  <2>2. s \in Slots /\ generation'[s] \in Nat
    BY <2>1 DEF FreeSlots
  <2>3. ready' \in Seq(Frames)
    BY <2>1, ReadyAppend
  <2> QED
    BY <1>1, <2>1, <2>2, <2>3 DEF Wrap, core, thread, chores
<1>2. ASSUME NEW f \in Frames, NEW o \in Settled, Produce(f, o) PROVE TypeOK'
  BY <1>2 DEF Produce, pool, origin, core, owners, thread, chores, Settled
<1>3. ASSUME NEW t \in Threads, Deliver(t) PROVE TypeOK'
  <2>1. ready' \in Seq(Frames) /\ Head(ready) \in Frames
    BY <1>3, ReadyTail, ReadyType DEF Deliver
  <2>2. external_leases[Head(ready)] = 0
    <3>1. Head(ready) \notin handles /\ Head(ready) # anchor
      BY <1>3, ReadyTail DEF Deliver, ReadyOK
    <3> QED
      BY <2>1, <3>1 DEF LeasesOK, HandlesOK, Anchored
  <2> QED
    BY <1>3, <2>1, <2>2 DEF Deliver, pool, origin, thread, chores
<1>4. ASSUME NEW t \in Threads, DeliverFails(t) PROVE TypeOK'
  <2>1. ready' \in Seq(Frames) /\ Head(ready) \in Frames
    BY <1>4, ReadyTail, ReadyType DEF DeliverFails
  <2>2. /\ chore' \in [Frames -> Chores] /\ by' \in [Frames -> Threads \cup {NoThread}]
        /\ recycled' \in [Frames -> BOOLEAN]
    BY <1>4, <2>1, RecycleType, DropType DEF DeliverFails
  <2> QED
    BY <1>4, <2>1, <2>2 DEF DeliverFails, pool, origin, thread
<1>5. ASSUME NEW t \in Threads, CloseDecoder(t) PROVE TypeOK'
  <2>1. <<>> \in Seq(Frames)
    BY EmptySeq
  <2>2. chore' \in [Frames -> Chores] /\ by' \in [Frames -> Threads \cup {NoThread}]
    BY <1>5, DropType DEF CloseDecoder
  <2> QED
    BY <1>5, <2>1, <2>2 DEF CloseDecoder, origin, core, thread
<1>6. ASSUME NEW t \in Threads, ReleaseAnchor(t) PROVE TypeOK'
  <2>1. anchor \in Frames /\ external_leases[anchor] >= 1
    <3>1. pc[t] = "clear"
      BY <1>6 DEF ReleaseAnchor, At
    <3>2. anchor \in Frames /\ Anchored(anchor)
      BY <3>1, Bounds DEF EncoderOK, Anchored
    <3> QED
      BY <3>2, LeaseBound
  <2>2. /\ chore' \in [Frames -> Chores] /\ by' \in [Frames -> Threads \cup {NoThread}]
        /\ recycled' \in [Frames -> BOOLEAN]
    BY <1>6, <2>1, RecycleType DEF ReleaseAnchor
  <2>3. pc' \in [Threads -> Locations]
    BY <1>6, GotoType DEF ReleaseAnchor
  <2>4. external_leases' \in [Frames -> 0..2]
    BY <1>0, <1>6, <2>1 DEF ReleaseAnchor
  <2> QED
    BY <1>6, <2>2, <2>3, <2>4 DEF ReleaseAnchor, pool, origin
<1>7. ASSUME NEW t \in Threads, Delete(t) \/ AnchorGone(t) PROVE TypeOK'
  <2>1. /\ chore' \in [Frames -> Chores] /\ by' \in [Frames -> Threads \cup {NoThread}]
        /\ pc' \in [Threads -> Locations]
    BY <1>7, DropType, GotoType DEF Delete, AnchorGone
  <2> QED
    BY <1>7, <2>1 DEF Delete, AnchorGone, pool, origin, core
<1>8. ASSUME NEW t \in Threads, Moves(t) PROVE TypeOK'
  <2>1. frame' \in [Threads -> Frames \cup {0}]
    BY <1>8, MovesEffect
  <2> QED
    BY <1>8, <2>1, MovesEffect
<1>9. ASSUME NEW t \in Threads, Pops(t) PROVE TypeOK'
  <2>3. queue # <<>> /\ queue' = Tail(queue)
    BY <1>9, PopsEffect
  <2>4. queue' \in Seq(Frames \cup {0}) /\ Len(queue') = Len(queue) - 1
    BY <2>3, QueueTail
  <2>1. queue' \in Seq(Frames \cup {0}) /\ Len(queue') <= AsyncDepth
    BY <2>4, QueueType, DepthAssumption
  <2>2. /\ chore' \in [Frames -> Chores] /\ by' \in [Frames -> Threads \cup {NoThread}]
        /\ recycled' \in [Frames -> BOOLEAN]
    BY <1>9, PopsEffect, RecycleType, DropType, Bounds
  <2> QED
    BY <1>9, <2>1, <2>2, PopsEffect
<1>15. ASSUME NEW t \in Threads, AddConsumer(t) PROVE TypeOK'
  <2>1. pc[t] = "consume" /\ frame[t] \in Frames
    BY <1>15 DEF AddConsumer, At, EncoderOK
  <2>2. Len(queue) < AsyncDepth
    BY <2>1 DEF QueueOK, EncoderOK
  <2>3. queue' \in Seq(Frames \cup {0}) /\ Len(queue') <= AsyncDepth
    BY <1>15, <2>1, <2>2, QueueAppend, QueueType, DepthAssumption DEF AddConsumer
  <2>4. pc' \in [Threads -> Locations] /\ frame' \in [Threads -> Frames \cup {0}]
    BY <1>15, GotoType DEF AddConsumer, Returns
  <2> QED
    BY <1>15, <2>3, <2>4 DEF AddConsumer, pool, origin, core, chores
<1>16. ASSUME NEW t \in Threads, WriteCpu(t) PROVE TypeOK'
  <2>1. Len(queue) < AsyncDepth
    BY <1>16 DEF WriteCpu, EncoderFree, QueueOK
  <2>5. queue' = queue \/ (queue' \in Seq(Frames \cup {0}) /\ Len(queue') = Len(queue) + 1)
    BY <1>16, QueueAppend DEF WriteCpu
  <2>2. queue' \in Seq(Frames \cup {0}) /\ Len(queue') <= AsyncDepth
    BY <2>1, <2>5, QueueType, DepthAssumption
  <2>3. pc' \in [Threads -> Locations]
    BY <1>16, GotoType DEF WriteCpu
  <2> QED
    BY <1>16, <2>2, <2>3 DEF WriteCpu, pool, origin, core, chores
<1>10. ASSUME NEW t \in Threads, NEW f \in Frames, Release(t, f) PROVE TypeOK'
  <2>1. references' \subseteq Threads \X Frames
    BY <1>10 DEF Release
  <2>2. CASE \E u \in Threads : <<u, f>> \in references'
    BY <1>10, <2>1, <2>2 DEF Release, pool, origin, core, thread, chores
  <2>3. CASE ~ \E u \in Threads : <<u, f>> \in references'
    <3>1. external_leases[f] >= 1
      BY <1>10, LeaseBound DEF Release, Referenced
    <3>2. pc' \in [Threads -> Locations]
      BY <1>10, <2>3, GotoType DEF Release
    <3>5. external_leases' \in [Frames -> 0..2]
      BY <1>0, <1>10, <2>3, <3>1 DEF Release
    <3>3. /\ chore' \in [Frames -> Chores] /\ by' \in [Frames -> Threads \cup {NoThread}]
          /\ recycled' \in [Frames -> BOOLEAN]
      BY <1>10, <2>3, RecycleType DEF Release
    <3>4. frame' \in [Threads -> Frames \cup {0}]
      BY <1>10, <2>3 DEF Release
    <3> QED
      BY <1>10, <2>1, <3>2, <3>5, <3>3, <3>4 DEF Release, pool, origin
  <2> QED
    BY <2>2, <2>3
<1>11. ASSUME NEW t \in Threads, NEW f \in Frames, WriteGpu(t, f) PROVE TypeOK'
  <2>1. pc' \in [Threads -> Locations]
    BY <1>11, GotoType DEF WriteGpu
  <2>4. frame' \in [Threads -> Frames \cup {0}]
    BY <1>0, <1>11 DEF WriteGpu
  <2>2. anchor = 0 => external_leases[f] <= 1
    BY <1>0, LeaseBound DEF Anchored
  <2>3. external_leases' \in [Frames -> 0..2] /\ anchor' \in Frames \cup {0}
    BY <1>0, <1>11, <2>2 DEF WriteGpu
  <2> QED
    BY <1>11, <2>1, <2>4, <2>3 DEF WriteGpu, pool, origin, chores
<1>12. ASSUME NEW t \in Threads, NEW f \in Frames,
              Destroy(t, f) \/ ReleaseSurface(t, f) \/ RecycleSlot(t, f)
       PROVE  TypeOK'
  <2>1. chore' \in [Frames -> Chores] /\ by' \in [Frames -> Threads \cup {NoThread}]
    BY <1>12, AssignType DEF Destroy, ReleaseSurface, RecycleSlot
  <2>2. CASE Destroy(t, f)
    <3>1. external_leases' \in [Frames -> 0..2] /\ recycled' \in [Frames -> BOOLEAN]
      BY <2>2 DEF Destroy
    <3> QED
      BY <2>1, <2>2, <3>1 DEF Destroy, pool, origin, owners, thread
  <2>3. CASE ReleaseSurface(t, f)
    <3>1. surface' \in [Frames -> Nat]
      BY <2>3 DEF ReleaseSurface
    <3> QED
      BY <2>1, <2>3, <3>1 DEF ReleaseSurface, pool, origin, core, owners, thread
  <2>4. CASE RecycleSlot(t, f)
    <3>1. in_use' \in [Slots -> BOOLEAN]
      BY <2>4 DEF RecycleSlot
    <3> QED
      BY <2>1, <2>4, <3>1 DEF RecycleSlot, origin, core, owners, thread
  <2> QED
    BY <1>12, <2>2, <2>3, <2>4
<1>13. ASSUME NEW t \in Threads, NEW u \in Threads, NEW f \in Frames, Retain(t, u, f)
       PROVE  TypeOK'
  <2>1. external_leases' \in [Frames -> 0..2]
    BY <1>0, <1>13 DEF Retain, Retained
  <2> QED
    BY <1>13, <2>1 DEF Retain, pool, origin, thread, chores
<1>14. CASE Quiescent
  BY <1>14 DEF Quiescent, vars, pool, origin, core, owners, thread, chores
<1> QED
  BY <1>1, <1>2, <1>3, <1>4, <1>5, <1>6, <1>7, <1>8, <1>9, <1>10, <1>11, <1>12, <1>13,
     <1>14, <1>15, <1>16, StepCases


-----------------------------------------------------------------------------
(* Who owns a frame.                                                       *)

\* A recycle touches the frame it is for and no other.
LEMMA RecycleOnly ==
    ASSUME TypeOK, NEW f \in Frames, NEW t \in Threads, RecycleIfDone(f, t)
    PROVE  /\ \A g \in Frames \ {f} :
                recycled'[g] = recycled[g] /\ chore'[g] = chore[g] /\ by'[g] = by[g]
           /\ MayRecycle(f) => recycled'[f] /\ chore'[f] = "callback" /\ by'[f] = t
           /\ ~MayRecycle(f) => recycled' = recycled /\ chore' = chore /\ by' = by
<1> QED
  BY DEF TypeOK, RecycleIfDone, Assign, chores

\* The list of completed frames stays in order when it and what it is
\* compared with change in none of its frames.
LEMMA ReadyKept ==
    ASSUME TypeOK, ReadyOK, ready' = ready, stamp' = stamp,
           \A f \in ReadySet :
             ~recycled'[f] /\ f \notin handles' \cup Queued' /\ f # anchor'
    PROVE  ReadyOK'
<1>1. \A i \in DOMAIN ready : ready[i] \in ReadySet
  BY DEF ReadySet
<1> QED
  BY <1>1 DEF ReadyOK, Created, Frames

\* A frame in the list is nobody's yet.
LEMMA ReadyAlone ==
    ASSUME TypeOK, Owned, NEW f \in ReadySet
    PROVE  /\ f \in Frames /\ f \in Created /\ ~recycled[f] /\ f \notin handles /\ f # anchor
           /\ f \notin Queued /\ ~Referenced(f)
<1>1. f \in Created /\ ~recycled[f] /\ f \notin handles \cup Queued /\ f # anchor
  BY DEF Owned, ReadyOK, ReadySet
<1>2. f \in Frames
  BY <1>1 DEF Created
<1>3. ~Referenced(f)
  BY <1>1, <1>2 DEF Owned, HandlesOK
<1> QED
  BY <1>1, <1>2, <1>3

LEMMA ReadyStep ==
    ASSUME TypeOK, Owned, Retired, Next
    PROVE  ReadyOK'
<1>0. ReadyOK /\ \A f \in ReadySet :
        /\ f \in Frames /\ ~recycled[f] /\ ~Referenced(f)
        /\ f \notin handles \cup Queued /\ f # anchor
  BY ReadyAlone DEF Owned
<1>1. CASE Wrap
  <2>1. PICK f \in Frames \ Created, s \in FreeSlots :
            /\ generation' = [generation EXCEPT ![s] = @ + 1]
            /\ stamp' = [stamp EXCEPT ![f] = generation'[s]]
            /\ ready' = Append(ready, f)
    BY <1>1 DEF Wrap
  <2>2. generation'[s] \in Nat \ {0}
    BY <2>1 DEF FreeSlots, TypeOK
  <2>3. Created' = Created \cup {f}
    BY <2>1, <2>2 DEF Created, TypeOK, Frames
  <2>4. ~recycled[f] /\ f \notin handles \cup Queued /\ f # anchor
    BY <2>1, Bounds DEF Retired, RecycledOK, Owned, HandlesOK, EncoderOK, QueueOK
  <2>5. /\ recycled' = recycled /\ handles' = handles /\ anchor' = anchor
        /\ Queued' = Queued
    BY <1>1 DEF Wrap, core, Queued
  <2>6. /\ DOMAIN ready' = DOMAIN ready \cup {Len(ready) + 1}
        /\ ready'[Len(ready) + 1] = f /\ \A i \in DOMAIN ready : ready'[i] = ready[i]
    BY <2>1, ReadyAppend
  <2>7. \A i \in DOMAIN ready : ready[i] # f
    BY <1>0, <2>1 DEF ReadyOK
  <2> QED
    BY <1>0, <2>3, <2>4, <2>5, <2>6, <2>7 DEF ReadyOK
<1>2. ASSUME NEW t \in Threads, Deliver(t) \/ DeliverFails(t) PROVE ReadyOK'
  <2> DEFINE g == Head(ready)
  <2>1. /\ ready # <<>> /\ ready' = Tail(ready) /\ stamp' = stamp /\ anchor' = anchor
        /\ Queued' = Queued
    BY <1>2 DEF Deliver, DeliverFails, origin, Queued
  <2>2. /\ g = ready[1] /\ 1 \in DOMAIN ready
        /\ \A i \in DOMAIN ready' : i + 1 \in DOMAIN ready /\ i + 1 # 1
                                    /\ ready'[i] = ready[i + 1] /\ i \in Nat
    BY <2>1, ReadyTail
  <2>3. g \in Frames
    BY <2>2, ReadyType
  <2>4. \A h \in Frames \ {g} : recycled'[h] = recycled[h] /\ (h \in handles' <=> h \in handles)
    <3>1. CASE Deliver(t)
      BY <3>1 DEF Deliver
    <3>2. CASE DeliverFails(t)
      BY <2>3, <3>2, RecycleOnly DEF DeliverFails
    <3> QED
      BY <1>2, <3>1, <3>2
  <2>5. \A i \in DOMAIN ready' : ready'[i] # g
    BY <1>0, <2>2 DEF ReadyOK
  <2>6. \A i \in DOMAIN ready' : ready'[i] \in Created /\ ~recycled[ready'[i]]
                                 /\ ready'[i] \notin handles \cup Queued
                                 /\ ready'[i] # anchor
    BY <1>0, <2>2 DEF ReadyOK
  <2>7. \A i, j \in DOMAIN ready' : ready'[i] = ready'[j] => i = j
    <3>1. \A i, j \in DOMAIN ready' : ready'[i] = ready'[j] => i + 1 = j + 1
      BY <1>0, <2>2 DEF ReadyOK
    <3> QED
      BY <2>2, <3>1
  <2>8. Created' = Created /\ Created \subseteq Frames
    BY <2>1 DEF Created, Frames
  <2> HIDE DEF g
  <2> QED
    BY <2>1, <2>4, <2>5, <2>6, <2>7, <2>8 DEF ReadyOK
<1>3. ASSUME NEW t \in Threads, CloseDecoder(t) PROVE ReadyOK'
  BY <1>3 DEF CloseDecoder, ReadyOK
<1>4. ASSUME NEW t \in Threads, NEW f \in Frames, Release(t, f) PROVE ReadyOK'
  <2>1. /\ ready' = ready /\ stamp' = stamp /\ handles' = handles /\ anchor' = anchor
        /\ Referenced(f) /\ Queued' = Queued
    BY <1>4 DEF Release, origin, Referenced, Queued
  <2>2. \A h \in Frames \ {f} : recycled'[h] = recycled[h]
    BY <1>4, RecycleOnly DEF Release, core
  <2>3. f \notin ReadySet
    BY <1>0, <2>1
  <2> QED
    BY <1>0, <2>1, <2>2, <2>3, ReadyKept
<1>5. ASSUME NEW t \in Threads, Pops(t) PROVE ReadyOK'
  <2> DEFINE g == Head(queue)
  <2>1. /\ ready' = ready /\ stamp' = stamp /\ handles' = handles /\ anchor' = anchor
        /\ Queued' \subseteq Queued /\ {g} \ {0} \subseteq Queued
    BY <1>5, PopsEffect, QueueTail
  <2>2. \A h \in Frames \ {g} : recycled'[h] = recycled[h]
    BY <1>5, PopsEffect, RecycleOnly, Bounds
  <2>3. g \notin ReadySet
    BY <1>0, <2>1, Bounds
  <2> HIDE DEF g
  <2> QED
    BY <1>0, <2>1, <2>2, <2>3, ReadyKept
<1>6. ASSUME NEW t \in Threads, ReleaseAnchor(t) PROVE ReadyOK'
  <2>1. /\ ready' = ready /\ stamp' = stamp /\ handles' = handles /\ anchor' = anchor
        /\ Queued' = Queued /\ anchor \in Frames
    BY <1>6, Bounds DEF ReleaseAnchor, At, origin, Owned, EncoderOK, Queued
  <2>2. \A h \in Frames \ {anchor} : recycled'[h] = recycled[h]
    BY <1>6, <2>1, RecycleOnly DEF ReleaseAnchor
  <2> QED
    BY <1>0, <2>1, <2>2, ReadyKept
<1>7. ASSUME NEW t \in Threads, NEW f \in Frames, WriteGpu(t, f) PROVE ReadyOK'
  <2>1. /\ ready' = ready /\ stamp' = stamp /\ handles' = handles /\ recycled' = recycled
        /\ (anchor' = anchor \/ anchor' = f) /\ Referenced(f) /\ Queued' = Queued
    BY <1>7 DEF WriteGpu, origin, Referenced, Queued
  <2> QED
    BY <1>0, <2>1, ReadyKept
<1>8. ASSUME NEW t \in Threads, Delete(t) \/ AnchorGone(t) PROVE ReadyOK'
  <2>1. /\ ready' = ready /\ stamp' = stamp /\ handles' \subseteq handles /\ recycled' = recycled
        /\ (anchor' = anchor \/ anchor' = 0) /\ Queued' = Queued
    BY <1>8 DEF Delete, AnchorGone, origin, core, Queued
  <2> QED
    BY <1>0, <2>1, ReadyKept, Bounds
<1>9. ASSUME NEW t \in Threads, NEW f \in Frames,
             Destroy(t, f) \/ ReleaseSurface(t, f) \/ RecycleSlot(t, f)
      PROVE  ReadyOK'
  <2>1. /\ ready' = ready /\ stamp' = stamp /\ handles' = handles /\ anchor' = anchor
        /\ Queued' = Queued
    BY <1>9 DEF Destroy, ReleaseSurface, RecycleSlot, origin, owners, Queued
  <2>2. \A h \in ReadySet : recycled'[h] = recycled[h]
    <3>1. CASE Destroy(t, f)
      <4>1. f \notin ReadySet
        BY <3>1, ReadyType DEF Destroy, Retired, ChoresOK
      <4> QED
        BY <3>1, <4>1, <1>0 DEF Destroy, TypeOK
    <3>2. CASE ReleaseSurface(t, f) \/ RecycleSlot(t, f)
      BY <3>2 DEF ReleaseSurface, RecycleSlot, core
    <3> QED
      BY <1>9, <3>1, <3>2
  <2> QED
    BY <1>0, <2>1, <2>2, ReadyKept
<1>10. ASSUME \/ Quiescent \/ \E f \in Frames, o \in Settled : Produce(f, o)
              \/ \E t, u \in Threads, f \in Frames : Retain(t, u, f)
       PROVE  ReadyOK'
  <2>1. /\ ready' = ready /\ stamp' = stamp /\ handles' = handles /\ anchor' = anchor
        /\ recycled' = recycled /\ Queued' = Queued
    BY <1>10 DEF Quiescent, vars, Produce, Retain, origin, core, owners, Queued
  <2> QED
    BY <1>0, <2>1, ReadyKept
<1>11. ASSUME NEW t \in Threads, Moves(t) PROVE ReadyOK'
  <2>1. Queued' = Queued
    BY <1>11, MovesEffect DEF Queued
  <2> QED
    BY <1>0, <1>11, <2>1, MovesEffect, ReadyKept
<1>12. ASSUME NEW t \in Threads, AddConsumer(t) \/ WriteCpu(t) PROVE ReadyOK'
  <2>1. /\ ready' = ready /\ stamp' = stamp /\ handles' = handles /\ anchor' = anchor
        /\ recycled' = recycled
    BY <1>12 DEF AddConsumer, WriteCpu, origin, core
  <2>2. \A f \in Queued' : f \in Queued \/ f \in handles
    <3>1. CASE AddConsumer(t)
      <4>1. frame[t] \in Frames /\ frame[t] \in handles /\ queue' = Append(queue, frame[t])
        BY <3>1 DEF AddConsumer, At, Owned, EncoderOK, HandlesOK, Referenced, TypeOK
      <4> QED
        BY <4>1, QueueAppend
    <3>2. CASE WriteCpu(t)
      <4>1. Queued' = Queued
        BY <3>2, QueueAppend DEF WriteCpu, Queued
      <4> QED
        BY <4>1
    <3> QED
      BY <1>12, <3>1, <3>2
  <2> QED
    BY <1>0, <2>1, <2>2, ReadyKept
<1> QED
  BY <1>1, <1>2, <1>3, <1>4, <1>5, <1>6, <1>7, <1>8, <1>9, <1>10, <1>11, <1>12, StepCases

\* Frames are created by Wrap alone and never forgotten.
LEMMA CreatedStep ==
    ASSUME TypeOK, Next
    PROVE  Created \subseteq Created'
<1>1. CASE Wrap
  <2>1. PICK f \in Frames \ Created, s \in FreeSlots :
            /\ generation' = [generation EXCEPT ![s] = @ + 1]
            /\ stamp' = [stamp EXCEPT ![f] = generation'[s]]
    BY <1>1 DEF Wrap
  <2> QED
    BY <2>1 DEF Created, TypeOK, Frames
<1>2. CASE ~Wrap
  <2>1. stamp' = stamp
    <3>1. ASSUME Quiescent \/ \E f \in Frames, o \in Settled : Produce(f, o) PROVE stamp' = stamp
      BY <3>1 DEF Quiescent, vars, origin, Produce
    <3>2. ASSUME NEW t \in Threads, \/ Deliver(t) \/ DeliverFails(t) \/ CloseDecoder(t)
                                    \/ WriteCpu(t)
          PROVE  stamp' = stamp
      BY <3>2 DEF Deliver, DeliverFails, CloseDecoder, WriteCpu, origin
    <3>3. ASSUME NEW t \in Threads, \/ Delete(t) \/ AddConsumer(t) \/ ReleaseAnchor(t)
                                    \/ AnchorGone(t)
          PROVE  stamp' = stamp
      BY <3>3 DEF Delete, AddConsumer, ReleaseAnchor, AnchorGone, origin
    <3>4. ASSUME NEW t \in Threads, Moves(t) \/ Pops(t) PROVE stamp' = stamp
      BY <3>4 DEF Moves, SubmitReturns, SubmitSkips, SubmitQueues, Flush, DrainEnds, CloseWaits,
                  Pops, Clear, Collect, Drain, origin
    <3>5. ASSUME NEW t \in Threads, NEW f \in Frames,
                 \/ Release(t, f) \/ WriteGpu(t, f) \/ Destroy(t, f)
                 \/ ReleaseSurface(t, f) \/ RecycleSlot(t, f)
                 \/ \E u \in Threads : Retain(t, u, f)
          PROVE  stamp' = stamp
      BY <3>5 DEF Release, WriteGpu, Destroy, ReleaseSurface, RecycleSlot, Retain, origin
    <3> QED
      BY <1>2, <3>1, <3>2, <3>3, <3>4, <3>5, StepCases
  <2> QED
    BY <2>1 DEF Created, Frames
<1> QED
  BY <1>1, <1>2

\* Handles stay in order when references, handles and deletions do.
LEMMA HandlesKept ==
    ASSUME HandlesOK, Created \subseteq Created', references' = references,
           handles' = handles, \A t \in Threads :
             /\ pc'[t] = "delete" <=> pc[t] = "delete"
             /\ pc[t] = "delete" => frame'[t] = frame[t]
    PROVE  HandlesOK'
<1> QED
  BY DEF HandlesOK, Referenced

LEMMA HandlesStep ==
    ASSUME TypeOK, Owned, Next
    PROVE  HandlesOK'
<1>0. HandlesOK /\ Created \subseteq Created'
  BY CreatedStep DEF Owned
<1>1. ASSUME \/ Wrap \/ Quiescent \/ \E f \in Frames, o \in Settled : Produce(f, o)
             \/ \E t \in Threads : DeliverFails(t) \/ CloseDecoder(t)
             \/ \E t \in Threads, f \in Frames :
                 Destroy(t, f) \/ ReleaseSurface(t, f) \/ RecycleSlot(t, f)
      PROVE  HandlesOK'
  <2>1. references' = references /\ handles' = handles /\ pc' = pc /\ frame' = frame
    BY <1>1 DEF Wrap, Quiescent, vars, Produce, DeliverFails, CloseDecoder, Destroy,
                ReleaseSurface, RecycleSlot, owners, thread
  <2> QED
    BY <1>0, <2>1, HandlesKept
<1>2. ASSUME NEW t \in Threads, AddConsumer(t) \/ WriteCpu(t) \/ ReleaseAnchor(t)
                                \/ AnchorGone(t)
      PROVE  HandlesOK'
  <2>1. references' = references /\ handles' = handles
    BY <1>2 DEF AddConsumer, WriteCpu, ReleaseAnchor, AnchorGone
  <2>2. \E l \in Locations \ {"delete"} : pc' = [pc EXCEPT ![t] = l]
    BY <1>2 DEF AddConsumer, WriteCpu, ReleaseAnchor, AnchorGone, Returns, Goto, Locations
  <2>3. pc[t] # "delete" /\ (frame' = frame \/ frame' = [frame EXCEPT ![t] = 0])
    BY <1>2 DEF AddConsumer, WriteCpu, ReleaseAnchor, AnchorGone, Returns, Idle, At
  <2> QED
    BY <1>0, <2>1, <2>2, <2>3, HandlesKept DEF TypeOK
<1>3. ASSUME NEW t \in Threads, Moves(t) \/ Pops(t) PROVE HandlesOK'
  <2>1. /\ references' = references /\ handles' = handles
        /\ pc[t] # "delete" /\ pc'[t] # "delete" /\ \A u \in Threads \ {t} : pc'[u] = pc[u]
        /\ frame' = frame \/ frame' = [frame EXCEPT ![t] = 0]
    BY <1>3, MovesEffect, PopsEffect
  <2> QED
    BY <1>0, <2>1, HandlesKept DEF TypeOK
<1>4. ASSUME NEW t \in Threads, NEW f \in Frames, WriteGpu(t, f) PROVE HandlesOK'
  <2>1. /\ references' = references /\ handles' = handles /\ pc[t] = "idle"
        /\ pc' = [pc EXCEPT ![t] = "submit"] /\ frame' = [frame EXCEPT ![t] = f]
    BY <1>4 DEF WriteGpu, At, Goto, Idle
  <2> QED
    BY <1>0, <2>1, HandlesKept DEF TypeOK
<1>5. ASSUME NEW t \in Threads, Deliver(t) PROVE HandlesOK'
  <2> DEFINE g == Head(ready)
  <2>1. g \in Created /\ g \notin handles /\ g \in Frames
    BY <1>5, ReadyTail, ReadyType DEF Deliver, Owned, ReadyOK
  <2>2. /\ handles' = handles \cup {g} /\ references' = references \cup {<<t, g>>}
        /\ pc' = pc /\ frame' = frame
    BY <1>5 DEF Deliver, thread
  <2> HIDE DEF g
  <2>3. \A f : Referenced(f)' <=> Referenced(f) \/ f = g
    BY <2>2 DEF Referenced
  <2> QED
    BY <1>0, <2>1, <2>2, <2>3 DEF HandlesOK
<1>6. ASSUME NEW t \in Threads, NEW u \in Threads, NEW f \in Frames, Retain(t, u, f)
      PROVE  HandlesOK'
  <2>1. /\ handles' = handles /\ references' = references \cup {<<u, f>>} /\ Referenced(f)
        /\ pc' = pc /\ frame' = frame
    BY <1>6 DEF Retain, thread, Referenced
  <2>2. \A h : Referenced(h)' <=> Referenced(h)
    BY <2>1 DEF Referenced
  <2> QED
    BY <1>0, <2>1, <2>2 DEF HandlesOK
<1>7. ASSUME NEW t \in Threads, NEW f \in Frames, Release(t, f) PROVE HandlesOK'
  <2>1. /\ handles' = handles /\ references' = references \ {<<t, f>>} /\ Referenced(f)
        /\ pc[t] = "idle"
    BY <1>7 DEF Release, Referenced, Idle, At
  <2>2. \A h : Referenced(h)' => Referenced(h)
    BY <2>1 DEF Referenced
  <2>3. f \in handles
    BY <1>0, <2>1 DEF HandlesOK
  <2>4. CASE \E u \in Threads : <<u, f>> \in references'
    <3>1. pc' = pc /\ frame' = frame
      BY <1>7, <2>4 DEF Release, thread
    <3> QED
      BY <1>0, <2>1, <2>2, <3>1 DEF HandlesOK
  <2>5. CASE ~ \E u \in Threads : <<u, f>> \in references'
    <3>1. pc' = [pc EXCEPT ![t] = "delete"] /\ frame' = [frame EXCEPT ![t] = f]
      BY <1>7, <2>5 DEF Release, Goto
    <3>3. \A u \in Threads \ {t} : pc'[u] = pc[u] /\ frame'[u] = frame[u]
      BY <3>1 DEF TypeOK
    <3>4. pc'[t] = "delete" /\ frame'[t] = f
      BY <3>1 DEF TypeOK
    <3>5. \A u \in Threads : pc'[u] = "delete" =>
            frame'[u] \in handles' /\ ~ \E v \in Threads : <<v, frame'[u]>> \in references'
      BY <1>0, <2>1, <2>3, <2>5, <3>3, <3>4 DEF HandlesOK, Referenced
    <3>6. \A u \in Threads \ {t} : pc[u] = "delete" => frame[u] # f
      BY <1>0, <2>1 DEF HandlesOK
    <3>7. \A u, v \in Threads :
            pc'[u] = "delete" /\ pc'[v] = "delete" /\ frame'[u] = frame'[v] => u = v
      BY <1>0, <3>3, <3>4, <3>6 DEF HandlesOK
    <3>8. \A h \in Frames : Referenced(h)' => h \in handles'
      BY <1>0, <2>1, <2>2 DEF HandlesOK
    <3> QED
      BY <1>0, <2>1, <3>5, <3>7, <3>8 DEF HandlesOK, Referenced
  <2> QED
    BY <2>4, <2>5
<1>8. ASSUME NEW t \in Threads, Delete(t) PROVE HandlesOK'
  <2>1. /\ handles' = handles \ {frame[t]} /\ references' = references /\ pc[t] = "delete"
        /\ pc' = [pc EXCEPT ![t] = "idle"] /\ frame' = [frame EXCEPT ![t] = 0]
    BY <1>8 DEF Delete, At, Goto
  <2>2. ~Referenced(frame[t]) /\ \A h : Referenced(h)' <=> Referenced(h)
    BY <1>0, <2>1 DEF HandlesOK, Referenced
  <2>3. pc'[t] = "idle" /\ \A u \in Threads \ {t} : pc'[u] = pc[u] /\ frame'[u] = frame[u]
    BY <2>1 DEF TypeOK
  <2>4. \A u \in Threads \ {t} : pc[u] = "delete" => frame[u] # frame[t]
    BY <1>0, <2>1 DEF HandlesOK
  <2> QED
    BY <1>0, <2>1, <2>2, <2>3, <2>4 DEF HandlesOK
<1> QED
  BY <1>1, <1>2, <1>3, <1>4, <1>5, <1>6, <1>7, <1>8, StepCases


\* The encoder stays in order when nobody enters it and the one inside it
\* keeps what it has.
LEMMA EncoderKept ==
    ASSUME EncoderOK, Created \subseteq Created', anchor' = anchor,
           \A t \in Threads : pc[t] \in {"submit", "consume"} =>
             (<<t, frame[t]>> \in references => <<t, frame[t]>> \in references'),
           \A t \in Threads :
             \/ pc'[t] \in {"idle", "delete"}
             \/ pc'[t] = pc[t] /\ frame'[t] = frame[t]
             \/ pc[t] = "submit" /\ pc'[t] = "consume" /\ frame'[t] = frame[t]
             \/ pc[t] \in {"submit", "consume"} /\ pc'[t] = "collect"
             \/ {pc[t], pc'[t]} \subseteq {"drain", "close", "clear", "unanchor"}
    PROVE  EncoderOK'
<1>1. \A t \in Threads : pc'[t] \notin {"idle", "delete"} => pc[t] \notin {"idle", "delete"}
  OBVIOUS
<1>2. \A t \in Threads : pc'[t] \in {"submit", "consume"} =>
        pc[t] \in {"submit", "consume"} /\ frame'[t] = frame[t]
  OBVIOUS
<1>3. \A t \in Threads : pc'[t] \in {"drain", "close", "clear", "unanchor"} =>
        pc[t] \in {"drain", "close", "clear", "unanchor"}
  OBVIOUS
<1> QED
  BY <1>1, <1>2, <1>3 DEF EncoderOK

\* Who enters the encoder is alone there.
LEMMA EncoderEntered ==
    ASSUME TypeOK, EncoderOK, EncoderFree, Created \subseteq Created', NEW t \in Threads,
           \A u \in Threads \ {t} : pc'[u] = pc[u],
           anchor' \in Created', pc'[t] = "submit" => <<t, frame'[t]>> \in references',
           pc'[t] # "consume"
    PROVE  EncoderOK'
<1>1. \A u \in Threads \ {t} : pc'[u] \in {"idle", "delete"}
  BY DEF EncoderFree
<1> QED
  BY <1>1, Bounds DEF EncoderOK, Created, Frames

LEMMA EncoderStep ==
    ASSUME TypeOK, Owned, Next
    PROVE  EncoderOK'
<1>0. EncoderOK /\ Created \subseteq Created'
  BY CreatedStep DEF Owned
<1>1. ASSUME \/ Wrap \/ Quiescent \/ \E f \in Frames, o \in Settled : Produce(f, o)
             \/ \E t \in Threads : DeliverFails(t) \/ CloseDecoder(t)
             \/ \E t \in Threads, f \in Frames :
                 Destroy(t, f) \/ ReleaseSurface(t, f) \/ RecycleSlot(t, f)
      PROVE  EncoderOK'
  <2>1. references' = references /\ anchor' = anchor /\ pc' = pc /\ frame' = frame
    BY <1>1 DEF Wrap, Quiescent, vars, Produce, DeliverFails, CloseDecoder, Destroy,
                ReleaseSurface, RecycleSlot, owners, thread
  <2> QED
    BY <1>0, <2>1, EncoderKept
<1>2. ASSUME NEW t \in Threads, Deliver(t) \/ \E u \in Threads, f \in Frames : Retain(t, u, f)
      PROVE  EncoderOK'
  <2>1. references \subseteq references' /\ anchor' = anchor /\ pc' = pc /\ frame' = frame
    BY <1>2 DEF Deliver, Retain, thread
  <2> QED
    BY <1>0, <2>1, EncoderKept
<1>3. ASSUME NEW t \in Threads, Delete(t) PROVE EncoderOK'
  <2>1. /\ references' = references /\ anchor' = anchor
        /\ pc' = [pc EXCEPT ![t] = "idle"] /\ frame' = [frame EXCEPT ![t] = 0]
    BY <1>3 DEF Delete, Goto
  <2> QED
    BY <1>0, <2>1, EncoderKept DEF TypeOK
<1>4. ASSUME NEW t \in Threads, Pops(t) PROVE EncoderOK'
  <2>1. \A u \in Threads : \/ pc'[u] \in {"idle", "delete"}
                            \/ pc'[u] = pc[u]
                            \/ {pc[u], pc'[u]} \subseteq {"drain", "close", "clear", "unanchor"}
    BY <1>4, PopsEffect
  <2> QED
    BY <1>0, <1>4, <2>1, PopsEffect, EncoderKept
<1>5. ASSUME NEW t \in Threads, AddConsumer(t) PROVE EncoderOK'
  <2>1. /\ references' = references /\ anchor' = anchor /\ pc[t] = "consume"
        /\ pc' = [pc EXCEPT ![t] = "collect"] /\ frame' = [frame EXCEPT ![t] = 0]
    BY <1>5 DEF AddConsumer, Returns, Goto, At
  <2>2. pc'[t] = "collect" /\ \A u \in Threads \ {t} : pc'[u] = pc[u] /\ frame'[u] = frame[u]
    BY <2>1 DEF TypeOK
  <2> QED
    BY <1>0, <2>1, <2>2, EncoderKept
<1>10. ASSUME NEW t \in Threads, Moves(t) PROVE EncoderOK'
  <2>1. CASE EncoderFree /\ pc[t] = "idle"
    <3>1. anchor \in Created /\ anchor' = anchor /\ pc'[t] = "drain"
      BY <1>0, <1>10, <2>1, MovesEffect DEF EncoderOK
    <3> QED
      BY <1>0, <1>10, <2>1, <3>1, MovesEffect, EncoderEntered
  <2>2. CASE pc[t] # "idle"
    <3>1. \A u \in Threads \ {t} : frame'[u] = frame[u]
      BY <1>10, MovesEffect DEF TypeOK
    <3> QED
      BY <1>0, <1>10, <2>2, <3>1, MovesEffect, EncoderKept
  <2> QED
    BY <1>10, <2>1, <2>2, MovesEffect
<1>11. ASSUME NEW t \in Threads, WriteCpu(t) PROVE EncoderOK'
  <2>1. /\ EncoderFree /\ anchor \in Created /\ anchor' = anchor
        /\ \E l \in {"idle", "collect"} : pc' = [pc EXCEPT ![t] = l]
    BY <1>0, <1>11 DEF WriteCpu, EncoderOK, Goto
  <2>2. pc'[t] \in {"idle", "collect"} /\ \A u \in Threads \ {t} : pc'[u] = pc[u]
    BY <2>1 DEF TypeOK
  <2> QED
    BY <1>0, <2>1, <2>2, EncoderEntered
<1>6. ASSUME NEW t \in Threads, NEW f \in Frames, Release(t, f) PROVE EncoderOK'
  <2>1. /\ references' = references \ {<<t, f>>} /\ anchor' = anchor /\ pc[t] = "idle"
    BY <1>6 DEF Release, Idle, At
  <2>2. \/ pc' = pc /\ frame' = frame
        \/ pc' = [pc EXCEPT ![t] = "delete"] /\ frame' = [frame EXCEPT ![t] = f]
    BY <1>6 DEF Release, Goto, thread
  <2>3. \A u \in Threads : pc'[u] = "delete" \/ (pc'[u] = pc[u] /\ frame'[u] = frame[u])
    BY <2>2 DEF TypeOK
  <2>4. \A u \in Threads : pc[u] \in {"submit", "consume"} => u # t
    BY <2>1
  <2> QED
    BY <1>0, <2>1, <2>3, <2>4, EncoderKept
<1>7. ASSUME NEW t \in Threads, NEW f \in Frames, WriteGpu(t, f) PROVE EncoderOK'
  <2>1. /\ references' = references /\ EncoderFree /\ <<t, f>> \in references
        /\ (anchor' = anchor \/ anchor' = f)
        /\ pc' = [pc EXCEPT ![t] = "submit"] /\ frame' = [frame EXCEPT ![t] = f]
    BY <1>7 DEF WriteGpu, Goto
  <2>2. pc'[t] = "submit" /\ frame'[t] = f /\ \A u \in Threads \ {t} : pc'[u] = pc[u]
    BY <2>1 DEF TypeOK
  <2>3. f \in Created
    BY <2>1 DEF Owned, HandlesOK, Referenced
  <2>4. anchor' \in Created
    BY <1>0, <1>7, <2>3 DEF EncoderOK, WriteGpu
  <2> QED
    BY <1>0, <2>1, <2>2, <2>4, EncoderEntered
<1>8. ASSUME NEW t \in Threads, ReleaseAnchor(t) PROVE EncoderOK'
  <2>1. /\ references' = references /\ anchor' = anchor /\ pc[t] = "clear"
        /\ pc' = [pc EXCEPT ![t] = "unanchor"] /\ frame' = frame
    BY <1>8 DEF ReleaseAnchor, Goto, At
  <2>2. pc'[t] = "unanchor" /\ \A u \in Threads \ {t} : pc'[u] = pc[u]
    BY <2>1 DEF TypeOK
  <2> QED
    BY <1>0, <2>1, <2>2, EncoderKept
<1>9. ASSUME NEW t \in Threads, AnchorGone(t) PROVE EncoderOK'
  <2>1. /\ references' = references /\ anchor' = 0 /\ pc[t] = "unanchor"
        /\ pc' = [pc EXCEPT ![t] = "idle"] /\ frame' = frame
    BY <1>9 DEF AnchorGone, Goto, At
  <2>2. \A u \in Threads \ {t} : pc[u] \in {"idle", "delete"}
    BY <1>0, <2>1 DEF EncoderOK
  <2>3. \A u \in Threads : pc'[u] \in {"idle", "delete"}
    BY <2>1, <2>2 DEF TypeOK
  <2> QED
    BY <1>0, <2>1, <2>3 DEF EncoderOK
<1> QED
  BY <1>1, <1>2, <1>3, <1>4, <1>5, <1>6, <1>7, <1>8, <1>9, <1>10, <1>11, StepCases

\* The queue stays in order when nothing is added and it is not waited for.
LEMMA QueueKept ==
    ASSUME QueueOK, Created \subseteq Created', queue' = queue, pc' = pc
    PROVE  QueueOK'
<1> QED
  BY DEF QueueOK, Queued

LEMMA QueueStep ==
    ASSUME TypeOK, Owned, Next
    PROVE  QueueOK'
<1>0. /\ QueueOK /\ EncoderOK /\ Created \subseteq Created'
      /\ Len(queue) \in Nat /\ AsyncDepth \in Nat \ {0} /\ Len(queue) <= AsyncDepth
  BY CreatedStep, QueueType, DepthAssumption DEF Owned, TypeOK
<1>1. ASSUME \/ Wrap \/ Quiescent \/ \E f \in Frames, o \in Settled : Produce(f, o)
             \/ \E t \in Threads : Deliver(t) \/ DeliverFails(t) \/ CloseDecoder(t)
             \/ \E t, u \in Threads, f \in Frames : Retain(t, u, f)
             \/ \E t \in Threads, f \in Frames :
                 Destroy(t, f) \/ ReleaseSurface(t, f) \/ RecycleSlot(t, f)
      PROVE  QueueOK'
  <2>1. queue' = queue /\ pc' = pc
    BY <1>1 DEF Wrap, Quiescent, vars, Produce, Deliver, DeliverFails, CloseDecoder, Retain,
                Destroy, ReleaseSurface, RecycleSlot, owners, thread
  <2> QED
    BY <1>0, <2>1, QueueKept
<1>2. ASSUME NEW t \in Threads, \/ Delete(t) \/ AnchorGone(t) \/ ReleaseAnchor(t)
                                \/ \E f \in Frames : Release(t, f) \/ WriteGpu(t, f)
      PROVE  QueueOK'
  <2>1. /\ queue' = queue /\ pc[t] # "collect"
        /\ pc' = pc \/ \E l \in Locations \ {"collect"} : pc' = [pc EXCEPT ![t] = l]
    BY <1>2 DEF Delete, AnchorGone, ReleaseAnchor, Release, WriteGpu, Goto, Idle, At, thread,
                Locations
  <2>2. \A u \in Threads : pc'[u] = "collect" <=> pc[u] = "collect"
    BY <2>1 DEF TypeOK
  <2> QED
    BY <1>0, <2>1, <2>2 DEF QueueOK, Queued
<1>3. ASSUME NEW t \in Threads, Moves(t) PROVE QueueOK'
  <2>1. queue' = queue /\ pc[t] # "collect" /\ (pc'[t] = "collect" => queue # <<>>)
        /\ \A u \in Threads \ {t} : pc'[u] = pc[u]
    BY <1>3, MovesEffect
  <2> QED
    BY <1>0, <2>1 DEF QueueOK, Queued
<1>4. ASSUME NEW t \in Threads, Pops(t) PROVE QueueOK'
  <2>1. /\ Queued' \subseteq Queued /\ Len(queue') = Len(queue) - 1
        /\ \A u \in Threads \ {t} : pc'[u] = pc[u]
        /\ pc[t] \notin {"idle", "delete"} /\ pc'[t] # "collect"
    BY <1>4, PopsEffect, QueueTail
  <2>2. \A u \in Threads : pc'[u] # "collect"
    BY <1>0, <2>1 DEF EncoderOK
  <2>3. Len(queue') < AsyncDepth
    BY <1>0, <2>1
  <2> QED
    BY <1>0, <2>1, <2>2, <2>3 DEF QueueOK
<1>5. ASSUME NEW t \in Threads, AddConsumer(t) PROVE QueueOK'
  <2>1. /\ pc[t] = "consume" /\ pc' = [pc EXCEPT ![t] = "collect"]
        /\ queue' = Append(queue, frame[t]) /\ frame[t] \in Frames
    BY <1>5 DEF AddConsumer, At, Returns, Goto, EncoderOK, Owned, TypeOK
  <2>2. frame[t] \in Created
    BY <2>1 DEF Owned, EncoderOK, HandlesOK, Referenced
  <2>3. queue' # <<>> /\ Queued' \subseteq Created
    BY <1>0, <2>1, <2>2, QueueAppend DEF QueueOK
  <2>4. pc'[t] = "collect"
    BY <2>1 DEF TypeOK
  <2> QED
    BY <1>0, <2>3, <2>4 DEF QueueOK
<1>6. ASSUME NEW t \in Threads, WriteCpu(t) PROVE QueueOK'
  <2>1. /\ queue' = queue \/ queue' = Append(queue, 0)
        /\ pc' = [pc EXCEPT ![t] = IF Len(queue') >= AsyncDepth THEN "collect" ELSE "idle"]
        /\ \A u \in Threads : pc[u] # "collect"
    BY <1>6 DEF WriteCpu, Goto, EncoderFree
  <2>2. Queued' = Queued /\ Len(queue') \in Nat
    BY <1>0, <2>1, QueueAppend DEF Queued
  <2>3. Len(queue') >= AsyncDepth => queue' # <<>>
    BY <1>0, <2>1, QueueType, QueueAppend
  <2>4. \A u \in Threads : pc'[u] = "collect" <=> u = t /\ Len(queue') >= AsyncDepth
    BY <2>1 DEF TypeOK
  <2>5. ~(Len(queue') >= AsyncDepth) => Len(queue') < AsyncDepth
    BY <1>0, <2>2
  <2> QED
    BY <1>0, <2>2, <2>3, <2>4, <2>5 DEF QueueOK
<1> QED
  BY <1>1, <1>2, <1>3, <1>4, <1>5, <1>6, StepCases

\* Leases agree with references and anchor as long as neither changes.
LEMMA LeasesKept ==
    ASSUME LeasesOK, external_leases' = external_leases, anchor' = anchor,
           \A f \in Frames : Referenced(f)' <=> Referenced(f),
           \A t \in Threads : pc'[t] = "unanchor" <=> pc[t] = "unanchor"
    PROVE  LeasesOK'
<1>1. \A f \in Frames : Anchored(f)' <=> Anchored(f)
  BY DEF Anchored
<1> QED
  BY <1>1 DEF LeasesOK

LEMMA LeasesStep ==
    ASSUME TypeOK, Owned, Retired, Next
    PROVE  LeasesOK'
<1>0. LeasesOK /\ \A f \in Frames : external_leases[f] \in 0..2
  BY LeaseBound DEF Owned
<1>1. ASSUME \/ Wrap \/ Quiescent \/ \E f \in Frames, o \in Settled : Produce(f, o)
             \/ \E t \in Threads : DeliverFails(t) \/ CloseDecoder(t)
             \/ \E t \in Threads, f \in Frames : ReleaseSurface(t, f) \/ RecycleSlot(t, f)
      PROVE  LeasesOK'
  <2>1. /\ references' = references /\ anchor' = anchor /\ pc' = pc
        /\ external_leases' = external_leases
    BY <1>1 DEF Wrap, Quiescent, vars, Produce, DeliverFails, CloseDecoder,
                ReleaseSurface, RecycleSlot, owners, thread, core
  <2> QED
    BY <1>0, <2>1, LeasesKept DEF Referenced
<1>2. ASSUME NEW t \in Threads, NEW f \in Frames, Destroy(t, f) PROVE LeasesOK'
  <2>1. /\ references' = references /\ anchor' = anchor /\ pc' = pc
        /\ external_leases' = [external_leases EXCEPT ![f] = 0]
    BY <1>2 DEF Destroy, owners, thread
  <2>2. ~Referenced(f) /\ f # anchor
    BY <1>2 DEF Destroy, Retired, ChoresOK, Held, Owned, HandlesOK
  <2>3. external_leases[f] = 0
    BY <1>0, <2>2 DEF LeasesOK, Anchored
  <2>4. external_leases' = external_leases
    BY <2>1, <2>3 DEF TypeOK
  <2> QED
    BY <1>0, <2>1, <2>4, LeasesKept DEF Referenced
<1>3. ASSUME NEW t \in Threads, NEW u \in Threads, NEW f \in Frames, Retain(t, u, f)
      PROVE  LeasesOK'
  <2>1. /\ external_leases' = [external_leases EXCEPT ![f] = external_leases[f]] /\ Referenced(f)
        /\ references' = references \cup {<<u, f>>} /\ anchor' = anchor /\ pc' = pc
    BY <1>3 DEF Retain, Retained, thread, Referenced
  <2>2. external_leases' = external_leases /\ \A h : Referenced(h)' <=> Referenced(h)
    BY <2>1 DEF TypeOK, Referenced
  <2> QED
    BY <1>0, <2>1, <2>2, LeasesKept
<1>4. ASSUME NEW t \in Threads, AddConsumer(t) \/ WriteCpu(t) \/ Delete(t) PROVE LeasesOK'
  <2>1. /\ references' = references /\ anchor' = anchor /\ external_leases' = external_leases
        /\ pc[t] # "unanchor" /\ \E l \in Locations \ {"unanchor"} : pc' = [pc EXCEPT ![t] = l]
    BY <1>4 DEF AddConsumer, WriteCpu, Delete, Returns, Goto, Idle, At, core, Locations
  <2> QED
    BY <1>0, <2>1, LeasesKept DEF TypeOK, Referenced
<1>10. ASSUME NEW t \in Threads, Moves(t) \/ Pops(t) PROVE LeasesOK'
  <2>1. /\ references' = references /\ anchor' = anchor /\ external_leases' = external_leases
        /\ pc[t] # "unanchor" /\ pc'[t] # "unanchor" /\ \A u \in Threads \ {t} : pc'[u] = pc[u]
    BY <1>10, MovesEffect, PopsEffect
  <2> QED
    BY <1>0, <2>1, LeasesKept DEF Referenced
<1>5. ASSUME NEW t \in Threads, Deliver(t) PROVE LeasesOK'
  <2> DEFINE g == Head(ready)
  <2>1. g \in Frames /\ g \in ReadySet
    BY <1>5, ReadyTail DEF Deliver, ReadySet, TypeOK
  <2>2. /\ external_leases' = [external_leases EXCEPT ![g] = @ + 1]
        /\ references' = references \cup {<<t, g>>} /\ anchor' = anchor /\ pc' = pc
    BY <1>5 DEF Deliver, thread
  <2> HIDE DEF g
  <2>3. ~Referenced(g) /\ ~Anchored(g)
    BY <2>1, ReadyAlone DEF Anchored
  <2>4. \A h \in Frames : Referenced(h)' <=> Referenced(h) \/ h = g
    BY <2>2 DEF Referenced
  <2>5. \A h \in Frames : Anchored(h)' <=> Anchored(h)
    BY <2>2 DEF Anchored
  <2>6. \A h \in Frames : external_leases'[h] = IF h = g THEN external_leases[h] + 1
                                                ELSE external_leases[h]
    BY <2>1, <2>2 DEF TypeOK
  <2> QED
    BY <1>0, <2>3, <2>4, <2>5, <2>6 DEF LeasesOK
<1>6. ASSUME NEW t \in Threads, NEW f \in Frames, Release(t, f) PROVE LeasesOK'
  <2>1. /\ references' = references \ {<<t, f>>} /\ anchor' = anchor /\ pc[t] = "idle"
        /\ Referenced(f)
    BY <1>6 DEF Release, Idle, At, Referenced
  <2>2. \A h \in Frames \ {f} : Referenced(h)' <=> Referenced(h)
    BY <2>1 DEF Referenced
  <2>3. CASE \E u \in Threads : <<u, f>> \in references'
    <3>1. external_leases' = external_leases /\ pc' = pc
      BY <1>6, <2>3 DEF Release, core, thread
    <3>2. Referenced(f)'
      BY <2>3 DEF Referenced
    <3> QED
      BY <1>0, <2>1, <2>2, <3>1, <3>2, LeasesKept
  <2>4. CASE ~ \E u \in Threads : <<u, f>> \in references'
    <3>1. /\ external_leases' = [external_leases EXCEPT ![f] = @ - 1]
          /\ pc' = [pc EXCEPT ![t] = "delete"]
      BY <1>6, <2>4 DEF Release, Goto
    <3>2. ~Referenced(f)'
      BY <2>4 DEF Referenced
    <3>3. \A h \in Frames : Anchored(h)' <=> Anchored(h)
      BY <2>1, <3>1 DEF Anchored, TypeOK
    <3>4. \A h \in Frames : external_leases'[h] = IF h = f THEN external_leases[h] - 1
                                                  ELSE external_leases[h]
      BY <3>1 DEF TypeOK
    <3> QED
      BY <1>0, <2>1, <2>2, <3>2, <3>3, <3>4 DEF LeasesOK
  <2> QED
    BY <2>3, <2>4
<1>7. ASSUME NEW t \in Threads, NEW f \in Frames, WriteGpu(t, f) PROVE LeasesOK'
  <2>1. /\ references' = references /\ EncoderFree /\ pc' = [pc EXCEPT ![t] = "submit"]
    BY <1>7 DEF WriteGpu, Goto
  <2>2. /\ \A u \in Threads : pc[u] # "unanchor" /\ pc'[u] # "unanchor"
        /\ \A h : Referenced(h)' <=> Referenced(h)
    BY <2>1 DEF EncoderFree, TypeOK, Referenced
  <2>3. CASE anchor = 0
    <3>1. anchor' = f /\ external_leases' = [external_leases EXCEPT ![f] = @ + 1]
      BY <1>7, <2>3 DEF WriteGpu
    <3>2. \A h \in Frames : ~Anchored(h) /\ (Anchored(h)' <=> h = f)
      BY <2>2, <2>3, <3>1, Bounds DEF Anchored
    <3>3. \A h \in Frames : external_leases'[h] = IF h = f THEN external_leases[h] + 1
                                                  ELSE external_leases[h]
      BY <3>1 DEF TypeOK
    <3> QED
      BY <1>0, <2>2, <3>2, <3>3 DEF LeasesOK
  <2>4. CASE anchor # 0
    <3>1. anchor' = anchor /\ external_leases' = external_leases
      BY <1>7, <2>4 DEF WriteGpu
    <3> QED
      BY <1>0, <2>2, <3>1, LeasesKept
  <2> QED
    BY <2>3, <2>4
<1>8. ASSUME NEW t \in Threads, ReleaseAnchor(t) PROVE LeasesOK'
  <2>1. /\ references' = references /\ pc[t] = "clear" /\ anchor' = anchor /\ anchor \in Frames
        /\ pc' = [pc EXCEPT ![t] = "unanchor"]
        /\ external_leases' = [external_leases EXCEPT ![anchor] = @ - 1]
    BY <1>8, Bounds DEF ReleaseAnchor, At, Goto, Owned, EncoderOK
  <2>4. (\A u \in Threads : pc[u] # "unanchor") /\ pc'[t] = "unanchor"
    BY <2>1 DEF Owned, EncoderOK, TypeOK
  <2>2. /\ \A h \in Frames : ~Anchored(h)' /\ (Anchored(h) <=> h = anchor)
        /\ \A h : Referenced(h)' <=> Referenced(h)
    BY <2>1, <2>4 DEF Referenced, Anchored
  <2>3. \A h \in Frames : external_leases'[h] = IF h = anchor THEN external_leases[h] - 1
                                                ELSE external_leases[h]
    BY <2>1 DEF TypeOK
  <2> QED
    BY <1>0, <2>2, <2>3 DEF LeasesOK
<1>9. ASSUME NEW t \in Threads, AnchorGone(t) PROVE LeasesOK'
  <2>1. /\ references' = references /\ anchor' = 0 /\ pc[t] = "unanchor"
        /\ external_leases' = external_leases
    BY <1>9 DEF AnchorGone, At, core
  <2>2. \A h \in Frames : ~Anchored(h)' /\ ~Anchored(h) /\ (Referenced(h)' <=> Referenced(h))
    BY <2>1, Bounds DEF Referenced, Anchored
  <2> QED
    BY <1>0, <2>1, <2>2 DEF LeasesOK
<1> QED
  BY <1>1, <1>2, <1>3, <1>4, <1>5, <1>6, <1>7, <1>8, <1>9, <1>10, StepCases

LEMMA OwnedStep ==
    ASSUME TypeOK, Owned, Retired, Next
    PROVE  Owned'
<1> QED
  BY ReadyStep, HandlesStep, EncoderStep, QueueStep, LeasesStep DEF Owned


-----------------------------------------------------------------------------
(* When a frame is retired.                                                *)

\* The encoder begins to read no frame but the one a write adds.
LEMMA ReadingStep ==
    ASSUME TypeOK, Owned, Next
    PROVE  \A f \in Reading' : f \in Reading \/ \E t \in Threads : AddConsumer(t) /\ f = frame[t]
<1>0. Reading \subseteq Queued /\ Reading' \subseteq Queued' /\ EncoderOK
  BY DEF Reading, Owned
<1>1. ASSUME Queued' \subseteq Queued, \A t \in Threads : pc[t] = "clear" => pc'[t] = "clear"
      PROVE  Reading' \subseteq Reading
  BY <1>1 DEF Reading
<1>2. ASSUME \/ Wrap \/ Quiescent \/ \E f \in Frames, o \in Settled : Produce(f, o)
             \/ \E t \in Threads : Deliver(t) \/ DeliverFails(t) \/ CloseDecoder(t)
             \/ \E t, u \in Threads, f \in Frames : Retain(t, u, f)
             \/ \E t \in Threads, f \in Frames :
                 Destroy(t, f) \/ ReleaseSurface(t, f) \/ RecycleSlot(t, f)
      PROVE  Reading' \subseteq Reading
  <2>1. queue' = queue /\ pc' = pc
    BY <1>2 DEF Wrap, Quiescent, vars, Produce, Deliver, DeliverFails, CloseDecoder, Retain,
                Destroy, ReleaseSurface, RecycleSlot, owners, thread
  <2> QED
    BY <1>1, <2>1 DEF Queued
<1>3. ASSUME NEW t \in Threads, \/ Delete(t) \/ AnchorGone(t)
                                \/ \E f \in Frames : Release(t, f) \/ WriteGpu(t, f)
      PROVE  Reading' \subseteq Reading
  <2>1. /\ queue' = queue /\ pc[t] # "clear"
        /\ pc' = pc \/ \E l \in Locations : pc' = [pc EXCEPT ![t] = l]
    BY <1>3 DEF Delete, AnchorGone, Release, WriteGpu, Goto, Idle, At, thread, Locations
  <2>2. \A u \in Threads : pc[u] = "clear" => pc'[u] = "clear"
    BY <2>1 DEF TypeOK
  <2> QED
    BY <1>1, <2>1, <2>2 DEF Queued
<1>4. ASSUME NEW t \in Threads, Moves(t) \/ Pops(t) PROVE Reading' \subseteq Reading
  <2>1. \A u \in Threads : pc[u] = "clear" => pc'[u] = "clear"
    BY <1>4, MovesEffect, PopsEffect
  <2>2. Queued' \subseteq Queued
    <3>1. CASE Moves(t)
      BY <3>1, MovesEffect DEF Queued
    <3>2. CASE Pops(t)
      BY <3>2, PopsEffect, QueueTail
    <3> QED
      BY <1>4, <3>1, <3>2
  <2> QED
    BY <1>1, <2>1, <2>2
<1>5. ASSUME NEW t \in Threads, AddConsumer(t)
      PROVE  \A f \in Reading' : f \in Reading \/ f = frame[t]
  <2>1. /\ pc[t] = "consume" /\ queue' = Append(queue, frame[t]) /\ frame[t] \in Frames
    BY <1>5, <1>0 DEF AddConsumer, At, EncoderOK, TypeOK
  <2>2. \A u \in Threads : pc[u] # "clear"
    BY <1>0, <2>1 DEF EncoderOK
  <2>3. Reading = Queued /\ Queued' \subseteq Queued \cup {frame[t]}
    BY <2>1, <2>2, QueueAppend DEF Reading
  <2> QED
    BY <1>0, <2>3
<1>6. ASSUME NEW t \in Threads, WriteCpu(t) PROVE Reading' \subseteq Reading
  <2>1. Queued' = Queued
    BY <1>6, QueueAppend DEF WriteCpu, Queued
  <2>2. \A u \in Threads : pc[u] # "clear"
    BY <1>6 DEF WriteCpu, EncoderFree
  <2> QED
    BY <1>1, <2>1, <2>2
<1>7. ASSUME NEW t \in Threads, ReleaseAnchor(t) PROVE Reading' \subseteq Reading
  <2>1. queue' = <<>>
    BY <1>7 DEF ReleaseAnchor
  <2>2. Queued' = {}
    BY <2>1 DEF Queued
  <2> QED
    BY <1>0, <2>2
<1> QED
  BY <1>2, <1>3, <1>4, <1>5, <1>6, <1>7, StepCases

\* Nothing is retired by a step that leaves chores and recycling alone and
\* neither leases or reads a recycled frame nor changes who is held.
LEMMA RetiredKept ==
    ASSUME TypeOK, Retired, stamp' = stamp, surface' = surface, chores' = chores,
           recycled' = recycled,
           \A f \in Frames : recycled[f] =>
             /\ external_leases'[f] = external_leases[f] /\ producer'[f] = producer[f]
             /\ f \notin Reading',
           \A f \in Frames : Held(f)' <=> Held(f)
    PROVE  Retired'
<1>1. chore' = chore /\ by' = by /\ Created' = Created /\ Created \subseteq Frames
  BY DEF chores, Created, Frames
<1>2. RecycledOK'
  BY <1>1 DEF Retired, RecycledOK
<1>3. ChoresOK'
  BY <1>1 DEF Retired, ChoresOK
<1>4. NoFrameLost'
  BY <1>1 DEF Retired, NoFrameLost
<1> QED
  BY <1>2, <1>3, <1>4 DEF Retired

\* A recycle retires its frame, which has no lease left.
LEMMA RetiredRecycle ==
    ASSUME TypeOK, Retired, NEW f \in Created, NEW t \in Threads, RecycleIfDone(f, t),
           stamp' = stamp, producer' = producer, surface' = surface, Reading' \subseteq Reading,
           \A g \in Frames \ {f} : external_leases'[g] = external_leases[g],
           recycled[f] => external_leases'[f] = 0,
           \A g \in Frames : Held(g)' => Held(g),
           \A g \in Frames : Held(g) => Held(g)' \/ (g = f /\ MayRecycle(f))
    PROVE  Retired'
<1>1. Created' = Created /\ Created \subseteq Frames /\ f \in Frames /\ t # NoThread
  BY Bounds, ThreadAssumption DEF Created, Frames
<1>2. CASE MayRecycle(f)
  <2>1. /\ ~recycled[f] /\ external_leases'[f] = 0 /\ producer[f] \in Settled
        /\ f \notin Reading'
        /\ recycled' = [recycled EXCEPT ![f] = TRUE]
        /\ chore' = [chore EXCEPT ![f] = "callback"] /\ by' = [by EXCEPT ![f] = t]
    BY <1>2 DEF MayRecycle, CompletionsDone, RecycleIfDone, Assign
  <2>2. /\ recycled'[f] /\ chore'[f] = "callback" /\ by'[f] = t
        /\ \A g \in Frames \ {f} :
             recycled'[g] = recycled[g] /\ chore'[g] = chore[g] /\ by'[g] = by[g]
    BY <1>1, <2>1 DEF TypeOK
  <2>3. RecycledOK'
    BY <1>1, <2>1, <2>2 DEF Retired, RecycledOK
  <2>4. ChoresOK'
    BY <1>1, <2>2 DEF Retired, ChoresOK
  <2>5. NoFrameLost'
    BY <1>1, <2>2 DEF Retired, NoFrameLost
  <2> QED
    BY <2>3, <2>4, <2>5 DEF Retired
<1>3. CASE ~MayRecycle(f)
  <2>1. recycled' = recycled /\ chore' = chore /\ by' = by
    BY <1>1, <1>3, RecycleOnly
  <2>2. RecycledOK'
    BY <1>1, <2>1 DEF Retired, RecycledOK
  <2>3. ChoresOK'
    BY <1>1, <2>1 DEF Retired, ChoresOK
  <2>4. NoFrameLost'
    BY <1>1, <1>3, <2>1 DEF Retired, NoFrameLost
  <2> QED
    BY <2>2, <2>3, <2>4 DEF Retired
<1> QED
  BY <1>2, <1>3

\* Who drops the last owner of a frame has it to destroy.
LEMMA RetiredDrop ==
    ASSUME TypeOK, Retired, NEW fs \in SUBSET Created, NEW t \in Threads, Drop(fs, t),
           stamp' = stamp, producer' = producer, surface' = surface, Reading' \subseteq Reading,
           recycled' = recycled, external_leases' = external_leases,
           \A g \in Frames : Held(g)' => Held(g),
           \A g \in Frames : Held(g) => Held(g)' \/ g \in fs
    PROVE  Retired'
<1>1. Created' = Created /\ Created \subseteq Frames /\ t # NoThread
  BY ThreadAssumption DEF Created, Frames
<1>2. \A g \in Frames :
        /\ g \in Destroyed(fs) <=> g \in fs /\ ~Held(g)' /\ ~recycled[g]
        /\ chore'[g] = IF g \in Destroyed(fs) THEN "destroy" ELSE chore[g]
        /\ by'[g] = IF g \in Destroyed(fs) THEN t ELSE by[g]
  BY HeldAfter DEF Drop, Destroyed
<1>3. RecycledOK'
  BY <1>1, <1>2 DEF Retired, RecycledOK
<1>4. ChoresOK'
  BY <1>1, <1>2 DEF Retired, ChoresOK
<1>5. NoFrameLost'
  BY <1>1, <1>2 DEF Retired, NoFrameLost
<1> QED
  BY <1>3, <1>4, <1>5 DEF Retired

\* A referenced frame is held, was created and has a lease.
LEMMA ReferencedHeld ==
    ASSUME TypeOK, Owned, Retired, NEW f \in Frames, Referenced(f)
    PROVE  Held(f) /\ f \in handles /\ f \in Created /\ ~recycled[f]
<1>1. f \in handles /\ f \in Created
  BY DEF Owned, HandlesOK
<1>2. external_leases[f] >= 1
  BY LeaseBound DEF Owned
<1> QED
  BY <1>1, <1>2 DEF Held, Retired, RecycledOK


LEMMA RetiredStep ==
    ASSUME TypeOK, Owned, Retired, Next
    PROVE  Retired'
<1>0. Created \subseteq Frames /\ 0 \notin Frames
  BY Bounds
<1>15. ASSUME ~ \E t \in Threads : AddConsumer(t) PROVE Reading' \subseteq Reading
  BY <1>15, ReadingStep
<1>16. ASSUME queue' = queue PROVE Reading' \subseteq Reading /\ Queued' = Queued
  <2>1. ASSUME NEW u \in Threads, AddConsumer(u) PROVE FALSE
    <3>1. queue' = Append(queue, frame[u]) /\ frame[u] \in Frames
      BY <2>1 DEF AddConsumer, At, Owned, EncoderOK, TypeOK
    <3>2. Len(queue') = Len(queue) + 1 /\ Len(queue) \in Nat
      BY <3>1, QueueAppend, QueueType
    <3> QED
      BY <1>16, <3>2
  <2> QED
    BY <1>15, <1>16, <2>1 DEF Queued
<1>1. CASE Wrap
  <2>1. PICK f \in Frames \ Created, s \in FreeSlots :
            /\ generation' = [generation EXCEPT ![s] = @ + 1]
            /\ stamp' = [stamp EXCEPT ![f] = generation'[s]]
            /\ ready' = Append(ready, f)
    BY <1>1 DEF Wrap
  <2>2. generation'[s] \in Nat \ {0}
    BY <2>1 DEF FreeSlots, TypeOK
  <2>3. Created' = Created \cup {f}
    BY <2>1, <2>2 DEF Created, TypeOK, Frames
  <2>4. /\ recycled' = recycled /\ handles' = handles /\ anchor' = anchor /\ chore' = chore
        /\ by' = by /\ external_leases' = external_leases /\ producer' = producer
        /\ surface' = surface /\ Queued' = Queued /\ Reading' = Reading
    BY <1>1 DEF Wrap, core, chores, thread, Queued, Reading
  <2>5. \A g \in Frames : Held(g)' <=> Held(g) \/ g = f
    BY <2>1, <2>4, ReadyAppend, HeldAfter, ReadyType
  <2>6. RecycledOK'
    BY <2>3, <2>4 DEF Retired, RecycledOK
  <2>7. ChoresOK'
    BY <2>1, <2>3, <2>4, <2>5 DEF Retired, ChoresOK
  <2>8. NoFrameLost'
    BY <1>0, <2>1, <2>3, <2>4, <2>5 DEF Retired, NoFrameLost
  <2> QED
    BY <2>6, <2>7, <2>8 DEF Retired
<1>2. ASSUME \/ Quiescent \/ \E f \in Frames, o \in Settled : Produce(f, o)
             \/ \E t, u \in Threads, f \in Frames : Retain(t, u, f)
      PROVE  Retired'
  <2>1. /\ stamp' = stamp /\ surface' = surface /\ chores' = chores /\ recycled' = recycled
        /\ handles' = handles /\ anchor' = anchor /\ ready' = ready
        /\ queue' = queue /\ pc' = pc
    BY <1>2 DEF Quiescent, vars, Produce, Retain, origin, core, owners, thread
  <2>2. \A f \in Frames : recycled[f] =>
          external_leases'[f] = external_leases[f] /\ producer'[f] = producer[f]
    <3>1. ASSUME NEW f \in Frames, NEW o \in Settled, Produce(f, o)
          PROVE  \A g \in Frames : recycled[g] =>
                   external_leases'[g] = external_leases[g] /\ producer'[g] = producer[g]
      <4>1. ~recycled[f]
        BY <3>1 DEF Produce, Retired, RecycledOK, Settled
      <4> QED
        BY <3>1, <4>1 DEF Produce, core, TypeOK
    <3>2. CASE Quiescent
      BY <3>2 DEF Quiescent, vars, core
    <3>3. ASSUME NEW t \in Threads, NEW u \in Threads, NEW f \in Frames, Retain(t, u, f)
          PROVE  external_leases' = external_leases /\ producer' = producer
      BY <3>3 DEF Retain, Retained, TypeOK
    <3> QED
      BY <1>2, <3>1, <3>2, <3>3
  <2>3. \A f \in Frames : Held(f)' <=> Held(f)
    BY <2>1 DEF Held, Queued
  <2>4. \A f \in Frames : recycled[f] => f \notin Reading'
    BY <1>16, <2>1 DEF Retired, RecycledOK
  <2> QED
    BY <2>1, <2>2, <2>3, <2>4, RetiredKept
<1>13. ASSUME NEW t \in Threads, Moves(t) PROVE Retired'
  <2>1. /\ stamp' = stamp /\ surface' = surface /\ chores' = chores /\ recycled' = recycled
        /\ handles' = handles /\ anchor' = anchor /\ ready' = ready /\ producer' = producer
        /\ external_leases' = external_leases /\ queue' = queue
    BY <1>13, MovesEffect
  <2>3. \A f \in Frames : Held(f)' <=> Held(f)
    BY <2>1 DEF Held, Queued
  <2>4. \A f \in Frames : recycled[f] => f \notin Reading'
    BY <1>16, <2>1 DEF Retired, RecycledOK
  <2> QED
    BY <2>1, <2>3, <2>4, RetiredKept
<1>14. ASSUME NEW t \in Threads, AddConsumer(t) \/ WriteCpu(t) PROVE Retired'
  <2>1. /\ stamp' = stamp /\ surface' = surface /\ chores' = chores /\ recycled' = recycled
        /\ handles' = handles /\ anchor' = anchor /\ ready' = ready /\ producer' = producer
        /\ external_leases' = external_leases
    BY <1>14 DEF AddConsumer, WriteCpu, origin, core
  <2>2. \A f \in Frames : recycled[f] => f \notin Reading'
    <3>1. ASSUME NEW u \in Threads, AddConsumer(u) PROVE ~recycled[frame[u]]
      BY <3>1 DEF AddConsumer
    <3> QED
      BY <3>1, ReadingStep DEF Retired, RecycledOK
  <2>3. Queued \subseteq Queued' /\ \A f \in Queued' : f \in Queued \/ f \in handles
    <3>1. CASE AddConsumer(t)
      <4>1. frame[t] \in Frames /\ frame[t] \in handles /\ queue' = Append(queue, frame[t])
        BY <3>1 DEF AddConsumer, At, Owned, EncoderOK, HandlesOK, Referenced, TypeOK
      <4> QED
        BY <4>1, QueueAppend
    <3>2. CASE WriteCpu(t)
      <4>1. Queued' = Queued
        BY <3>2, QueueAppend DEF WriteCpu, Queued
      <4> QED
        BY <4>1
    <3> QED
      BY <1>14, <3>1, <3>2
  <2>4. \A f \in Frames : Held(f)' <=> Held(f)
    BY <2>1, <2>3 DEF Held
  <2> QED
    BY <2>1, <2>2, <2>4, RetiredKept
<1>3. ASSUME NEW t \in Threads, Deliver(t) PROVE Retired'
  <2> DEFINE g == Head(ready)
  <2>1. /\ stamp' = stamp /\ surface' = surface /\ chores' = chores /\ recycled' = recycled
        /\ producer' = producer /\ anchor' = anchor /\ handles' = handles \cup {g}
        /\ ready # <<>> /\ ready' = Tail(ready) /\ queue' = queue
        /\ external_leases' = [external_leases EXCEPT ![g] = @ + 1]
    BY <1>3 DEF Deliver, origin
  <2>2. g \in ReadySet /\ ReadySet = ReadySet' \cup {g}
    BY <2>1, ReadyTail DEF ReadySet
  <2>3. g \in Frames /\ ~recycled[g]
    BY <2>2, ReadyAlone
  <2>4. \A f \in Frames : Held(f)' <=> Held(f)
    BY <1>16, <2>1, <2>2, HeldAfter, ReadyType
  <2>5. \A f \in Frames : recycled[f] => external_leases'[f] = external_leases[f]
    BY <2>1, <2>3 DEF TypeOK
  <2>6. \A f \in Frames : recycled[f] => f \notin Reading'
    BY <1>16, <2>1 DEF Retired, RecycledOK
  <2> HIDE DEF g
  <2> QED
    BY <2>1, <2>4, <2>5, <2>6, RetiredKept
<1>4. ASSUME NEW t \in Threads, DeliverFails(t) PROVE Retired'
  <2> DEFINE g == Head(ready)
  <2>1. /\ stamp' = stamp /\ surface' = surface /\ producer' = producer /\ anchor' = anchor
        /\ handles' = handles /\ ready # <<>> /\ ready' = Tail(ready)
        /\ external_leases' = external_leases /\ queue' = queue
    BY <1>4 DEF DeliverFails, origin
  <2>2. g \in ReadySet /\ ReadySet = ReadySet' \cup {g}
    BY <2>1, ReadyTail DEF ReadySet
  <2>3. g \in Frames /\ g \in Created /\ ~recycled[g]
    BY <2>2, ReadyAlone
  <2>4. \A f \in Frames : (Held(f)' => Held(f)) /\ (Held(f) => Held(f)' \/ f = g)
    BY <1>16, <2>1, <2>2, HeldAfter, ReadyType
  <2>5. CASE MayRecycle(g)
    <3>1. RecycleIfDone(g, t)
      BY <1>4, <2>5 DEF DeliverFails
    <3> HIDE DEF g
    <3> QED
      BY <1>16, <2>1, <2>3, <2>4, <2>5, <3>1, RetiredRecycle
  <2>6. CASE ~MayRecycle(g)
    <3>1. Drop({g}, t) /\ recycled' = recycled
      BY <1>4, <2>6 DEF DeliverFails
    <3> HIDE DEF g
    <3> QED
      BY <1>16, <2>1, <2>3, <2>4, <3>1, RetiredDrop
  <2> QED
    BY <2>5, <2>6
<1>5. ASSUME NEW t \in Threads, CloseDecoder(t) PROVE Retired'
  <2>1. /\ stamp' = stamp /\ surface' = surface /\ producer' = producer /\ anchor' = anchor
        /\ handles' = handles /\ ready' = <<>> /\ recycled' = recycled
        /\ external_leases' = external_leases /\ Drop(ReadySet, t) /\ queue' = queue
    BY <1>5 DEF CloseDecoder, origin, core, ReadySet
  <2>2. ReadySet \subseteq Created
    BY ReadyAlone
  <2>3. \A f \in Frames : (Held(f)' => Held(f)) /\ (Held(f) => Held(f)' \/ f \in ReadySet)
    BY <2>1, ReadyType DEF Held, Queued
  <2> QED
    BY <1>16, <2>1, <2>2, <2>3, RetiredDrop
<1>6. ASSUME NEW t \in Threads, NEW f \in Frames, Release(t, f) PROVE Retired'
  <2>1. /\ stamp' = stamp /\ surface' = surface /\ producer' = producer /\ anchor' = anchor
        /\ handles' = handles /\ ready' = ready /\ Referenced(f) /\ queue' = queue
    BY <1>6 DEF Release, origin, Referenced
  <2>2. \A g \in Frames : Held(g)' <=> Held(g)
    BY <2>1 DEF Held, Queued
  <2>6. \A g \in Frames : recycled[g] => g \notin Reading'
    BY <1>16, <2>1 DEF Retired, RecycledOK
  <2>3. f \in Created /\ ~recycled[f]
    BY <2>1, ReferencedHeld
  <2>4. CASE \E u \in Threads : <<u, f>> \in references'
    BY <1>6, <2>1, <2>2, <2>4, <2>6, RetiredKept DEF Release, core
  <2>5. CASE ~ \E u \in Threads : <<u, f>> \in references'
    <3>1. RecycleIfDone(f, t) /\ external_leases' = [external_leases EXCEPT ![f] = @ - 1]
      BY <1>6, <2>5 DEF Release
    <3>2. \A g \in Frames \ {f} : external_leases'[g] = external_leases[g]
      BY <3>1 DEF TypeOK
    <3> QED
      BY <1>16, <2>1, <2>2, <2>3, <3>1, <3>2, RetiredRecycle
  <2> QED
    BY <2>4, <2>5
<1>7. ASSUME NEW t \in Threads, ReleaseAnchor(t) PROVE Retired'
  <2>1. /\ stamp' = stamp /\ surface' = surface /\ producer' = producer /\ anchor' = anchor
        /\ handles' = handles /\ ready' = ready /\ anchor \in Created /\ pc[t] = "clear"
        /\ RecycleIfDone(anchor, t) /\ external_leases' = [external_leases EXCEPT ![anchor] = @ - 1]
        /\ queue' = queue
    BY <1>0, <1>7 DEF ReleaseAnchor, At, origin, Owned, EncoderOK
  <2>2. \A g \in Frames : Held(g)' <=> Held(g)
    BY <2>1 DEF Held, Queued
  <2>3. Anchored(anchor) /\ anchor \in Frames
    BY <1>0, <2>1 DEF Anchored, Owned, EncoderOK
  <2>4. ~recycled[anchor]
    BY <2>3, LeaseBound DEF Owned, Retired, RecycledOK
  <2>5. \A g \in Frames \ {anchor} : external_leases'[g] = external_leases[g]
    BY <2>1 DEF TypeOK
  <2> QED
    BY <1>16, <2>1, <2>2, <2>4, <2>5, RetiredRecycle
<1>8. ASSUME NEW t \in Threads, Pops(t) PROVE Retired'
  <2> DEFINE g == Head(queue)
  <2>1. /\ stamp' = stamp /\ surface' = surface /\ producer' = producer /\ anchor' = anchor
        /\ handles' = handles /\ ready' = ready /\ external_leases' = external_leases
        /\ Queued' \subseteq Queued /\ Queued \subseteq Queued' \cup {g}
        /\ {g} \ {0} \in SUBSET Created
    BY <1>8, PopsEffect, QueueTail
  <2>2. Reading' \subseteq Reading
    <3>1. ASSUME NEW u \in Threads, AddConsumer(u) PROVE FALSE
      <4>1. queue' = Append(queue, frame[u]) /\ frame[u] \in Frames
        BY <3>1 DEF AddConsumer, At, Owned, EncoderOK, TypeOK
      <4>2. Len(queue') = Len(queue) + 1 /\ Len(queue) \in Nat
        BY <4>1, QueueAppend, QueueType
      <4>3. Len(queue') = Len(queue) - 1
        BY <1>8, PopsEffect, QueueTail
      <4> QED
        BY <4>2, <4>3
    <3> QED
      BY <1>15, <3>1
  <2>3. \A f \in Frames : (Held(f)' => Held(f)) /\ (Held(f) => Held(f)' \/ f \in {g} \ {0})
    BY <1>0, <2>1 DEF Held
  <2>4. CASE g \in Created /\ MayRecycle(g) /\ RecycleIfDone(g, t)
    <3>1. ~recycled[g]
      BY <2>4 DEF MayRecycle
    <3> HIDE DEF g
    <3> QED
      BY <2>1, <2>2, <2>3, <2>4, <3>1, RetiredRecycle
  <2>5. CASE Drop({g} \ {0}, t) /\ recycled' = recycled
    <3> HIDE DEF g
    <3> QED
      BY <2>1, <2>2, <2>3, <2>5, RetiredDrop
  <2> QED
    BY <1>8, <2>4, <2>5, PopsEffect
<1>9. ASSUME NEW t \in Threads, NEW f \in Frames, WriteGpu(t, f) PROVE Retired'
  <2>1. /\ stamp' = stamp /\ surface' = surface /\ producer' = producer /\ recycled' = recycled
        /\ handles' = handles /\ ready' = ready /\ chores' = chores /\ Referenced(f)
        /\ ~recycled[f] /\ (anchor' = anchor \/ (anchor = 0 /\ anchor' = f)) /\ queue' = queue
    BY <1>9 DEF WriteGpu, origin, Referenced
  <2>2. Held(f) /\ f \in handles
    BY <2>1, ReferencedHeld
  <2>3. \A g \in Frames : Held(g)' <=> Held(g)
    BY <1>0, <2>1, <2>2 DEF Held, Queued
  <2>4. \A g \in Frames \ {f} : external_leases'[g] = external_leases[g]
    BY <1>9 DEF WriteGpu, TypeOK
  <2>5. \A g \in Frames : recycled[g] => g \notin Reading'
    BY <1>16, <2>1 DEF Retired, RecycledOK
  <2> QED
    BY <2>1, <2>3, <2>4, <2>5, RetiredKept
<1>10. ASSUME NEW t \in Threads, Delete(t) PROVE Retired'
  <2>1. /\ stamp' = stamp /\ surface' = surface /\ producer' = producer /\ recycled' = recycled
        /\ handles' = handles \ {frame[t]} /\ ready' = ready /\ anchor' = anchor
        /\ external_leases' = external_leases /\ Drop({frame[t]}, t) /\ pc[t] = "delete"
        /\ queue' = queue
    BY <1>10 DEF Delete, At, origin, core
  <2>2. frame[t] \in Created
    BY <2>1 DEF Owned, HandlesOK
  <2>3. \A f \in Frames : (Held(f)' => Held(f)) /\ (Held(f) => Held(f)' \/ f = frame[t])
    BY <2>1 DEF Held, Queued
  <2> QED
    BY <1>16, <2>1, <2>2, <2>3, RetiredDrop
<1>11. ASSUME NEW t \in Threads, AnchorGone(t) PROVE Retired'
  <2>1. /\ stamp' = stamp /\ surface' = surface /\ producer' = producer /\ recycled' = recycled
        /\ handles' = handles /\ ready' = ready /\ anchor' = 0
        /\ external_leases' = external_leases /\ Drop({anchor}, t) /\ pc[t] = "unanchor"
        /\ queue' = queue
    BY <1>11 DEF AnchorGone, At, origin, core
  <2>2. anchor \in Created
    BY <2>1 DEF Owned, EncoderOK
  <2>3. \A f \in Frames : (Held(f)' => Held(f)) /\ (Held(f) => Held(f)' \/ f = anchor)
    BY <1>0, <2>1 DEF Held, Queued
  <2> QED
    BY <1>16, <2>1, <2>2, <2>3, RetiredDrop
<1>12. ASSUME NEW t \in Threads, NEW f \in Frames,
              Destroy(t, f) \/ ReleaseSurface(t, f) \/ RecycleSlot(t, f)
       PROVE  Retired'
  <2>1. /\ stamp' = stamp /\ producer' = producer /\ anchor' = anchor /\ handles' = handles
        /\ ready' = ready /\ Queued' = Queued /\ Reading' = Reading
    BY <1>12 DEF Destroy, ReleaseSurface, RecycleSlot, origin, owners, thread, Queued, Reading
  <2>2. /\ \A g \in Frames : Held(g)' <=> Held(g)
        /\ Created' = Created /\ t # NoThread
    BY <2>1, ThreadAssumption DEF Held, Created, Frames
  <2>3. CASE Destroy(t, f)
    <3>1. /\ external_leases'[f] = 0 /\ recycled'[f] /\ chore'[f] = "callback" /\ by'[f] = t
          /\ producer[f] \in Settled /\ chore[f] = "destroy" /\ surface' = surface
          /\ f \notin Reading
      BY <2>3 DEF Destroy, CompletionsDone, Assign, TypeOK
    <3>2. \A g \in Frames \ {f} :
            /\ external_leases'[g] = external_leases[g] /\ recycled'[g] = recycled[g]
            /\ chore'[g] = chore[g] /\ by'[g] = by[g]
      BY <2>3 DEF Destroy, Assign, TypeOK
    <3>3. f \in Created /\ ~recycled[f]
      BY <3>1 DEF Retired, ChoresOK
    <3>4. RecycledOK'
      BY <2>1, <2>2, <3>1, <3>2, <3>3 DEF Retired, RecycledOK
    <3>5. ChoresOK'
      BY <2>2, <3>1, <3>2 DEF Retired, ChoresOK
    <3>6. NoFrameLost'
      BY <1>0, <2>2, <3>1, <3>2 DEF Retired, NoFrameLost
    <3> QED
      BY <3>4, <3>5, <3>6 DEF Retired
  <2>4. CASE ReleaseSurface(t, f)
    <3>1. /\ chore'[f] = "recycle" /\ by'[f] = t /\ surface'[f] = surface[f] + 1
          /\ chore[f] = "callback" /\ external_leases' = external_leases /\ recycled' = recycled
      BY <2>4 DEF ReleaseSurface, Assign, TypeOK, core
    <3>2. \A g \in Frames \ {f} :
            surface'[g] = surface[g] /\ chore'[g] = chore[g] /\ by'[g] = by[g]
      BY <2>4 DEF ReleaseSurface, Assign, TypeOK
    <3>3. recycled[f]
      BY <3>1 DEF Retired, ChoresOK
    <3>4. RecycledOK'
      BY <2>1, <2>2, <3>1, <3>2, <3>3 DEF Retired, RecycledOK
    <3>5. ChoresOK'
      BY <2>2, <3>1, <3>2, <3>3 DEF Retired, ChoresOK
    <3>6. NoFrameLost'
      BY <1>0, <2>2, <3>1, <3>2, <3>3 DEF Retired, NoFrameLost
    <3> QED
      BY <3>4, <3>5, <3>6 DEF Retired
  <2>5. CASE RecycleSlot(t, f)
    <3>1. /\ chore'[f] = "none" /\ by'[f] = NoThread /\ surface' = surface
          /\ chore[f] = "recycle" /\ external_leases' = external_leases /\ recycled' = recycled
      BY <2>5 DEF RecycleSlot, Assign, TypeOK, core
    <3>2. \A g \in Frames \ {f} : chore'[g] = chore[g] /\ by'[g] = by[g]
      BY <2>5 DEF RecycleSlot, Assign, TypeOK
    <3>3. recycled[f]
      BY <3>1 DEF Retired, ChoresOK
    <3>4. RecycledOK'
      BY <2>1, <2>2, <3>1, <3>2, <3>3 DEF Retired, RecycledOK
    <3>5. ChoresOK'
      BY <2>2, <3>1, <3>2, <3>3 DEF Retired, ChoresOK
    <3>6. NoFrameLost'
      BY <1>0, <2>2, <3>1, <3>2, <3>3 DEF Retired, NoFrameLost
    <3> QED
      BY <3>4, <3>5, <3>6 DEF Retired
  <2> QED
    BY <1>12, <2>3, <2>4, <2>5
<1> QED
  BY <1>1, <1>2, <1>3, <1>4, <1>5, <1>6, <1>7, <1>8, <1>9, <1>10, <1>11, <1>12, <1>13, <1>14,
     StepCases


-----------------------------------------------------------------------------
(* Slots and the frames in them.                                           *)

\* A frame keeps its slot from the wrap to the end of its callback.
LEMMA OccupiesKept ==
    ASSUME TypeOK, Owned, Retired, Next, ~Wrap, NEW h \in Frames,
           ~ \E t \in Threads, f \in Frames : RecycleSlot(t, f)
    PROVE  Occupies(h)' <=> Occupies(h)
<1>1. ASSUME stamp' = stamp, recycled' = recycled, chores' = chores
      PROVE  Occupies(h)' <=> Occupies(h)
  BY <1>1 DEF Occupies, Created, Frames, chores
<1>2. ASSUME stamp' = stamp, NEW f \in Frames, NEW t \in Threads, RecycleIfDone(f, t)
      PROVE  Occupies(h)' <=> Occupies(h)
  <2>1. \/ recycled'[h] = recycled[h] /\ chore'[h] = chore[h]
        \/ ~recycled[h] /\ chore'[h] # "none"
    BY <1>2, RecycleOnly DEF MayRecycle
  <2> QED
    BY <1>2, <2>1 DEF Occupies, Created, Frames
<1>3. ASSUME stamp' = stamp, recycled' = recycled, NEW fs, NEW t \in Threads, Drop(fs, t)
      PROVE  Occupies(h)' <=> Occupies(h)
  <2>1. chore'[h] = chore[h] \/ ~recycled[h]
    BY <1>3 DEF Drop, Destroyed
  <2> QED
    BY <1>3, <2>1 DEF Occupies, Created, Frames
<1>4. ASSUME Quiescent \/ \E f \in Frames, o \in Settled : Produce(f, o)
      PROVE  Occupies(h)' <=> Occupies(h)
  BY <1>1, <1>4 DEF Quiescent, vars, Produce, origin, core
<1>5. ASSUME NEW t \in Threads, Deliver(t) \/ AddConsumer(t) \/ WriteCpu(t)
      PROVE  Occupies(h)' <=> Occupies(h)
  BY <1>1, <1>5 DEF Deliver, AddConsumer, WriteCpu, origin, core
<1>16. ASSUME NEW t \in Threads, Moves(t) PROVE Occupies(h)' <=> Occupies(h)
  BY <1>1, <1>16, MovesEffect
<1>6. ASSUME NEW t \in Threads, NEW f \in Frames,
             WriteGpu(t, f) \/ \E u \in Threads : Retain(t, u, f)
      PROVE  Occupies(h)' <=> Occupies(h)
  BY <1>1, <1>6 DEF WriteGpu, Retain, origin
<1>7. ASSUME NEW t \in Threads, DeliverFails(t) PROVE Occupies(h)' <=> Occupies(h)
  <2>1. Head(ready) \in Frames
    BY <1>7, ReadyTail, ReadyType DEF DeliverFails
  <2> QED
    BY <1>2, <1>3, <1>7, <2>1 DEF DeliverFails, origin
<1>8. ASSUME NEW t \in Threads, CloseDecoder(t) PROVE Occupies(h)' <=> Occupies(h)
  BY <1>3, <1>8 DEF CloseDecoder, origin, core
<1>9. ASSUME NEW t \in Threads, ReleaseAnchor(t) PROVE Occupies(h)' <=> Occupies(h)
  <2>1. anchor \in Frames /\ stamp' = stamp
    BY <1>9, Bounds DEF ReleaseAnchor, At, origin, Owned, EncoderOK
  <2> QED
    BY <1>2, <1>9, <2>1 DEF ReleaseAnchor
<1>10. ASSUME NEW t \in Threads, Delete(t) PROVE Occupies(h)' <=> Occupies(h)
  BY <1>3, <1>10 DEF Delete, origin, core
<1>11. ASSUME NEW t \in Threads, AnchorGone(t) PROVE Occupies(h)' <=> Occupies(h)
  BY <1>3, <1>11 DEF AnchorGone, origin, core
<1>12. ASSUME NEW t \in Threads, Pops(t) PROVE Occupies(h)' <=> Occupies(h)
  <2>1. stamp' = stamp
    BY <1>12, PopsEffect
  <2>2. CASE Head(queue) \in Created /\ RecycleIfDone(Head(queue), t)
    BY <1>2, <2>1, <2>2, Bounds
  <2>3. CASE Drop({Head(queue)} \ {0}, t) /\ recycled' = recycled
    BY <1>3, <2>1, <2>3
  <2> QED
    BY <1>12, <2>2, <2>3, PopsEffect
<1>13. ASSUME NEW t \in Threads, NEW f \in Frames, Release(t, f)
       PROVE  Occupies(h)' <=> Occupies(h)
  BY <1>1, <1>2, <1>13 DEF Release, origin, core
<1>14. ASSUME NEW t \in Threads, NEW f \in Frames, Destroy(t, f)
       PROVE  Occupies(h)' <=> Occupies(h)
  <2>1. /\ recycled' = [recycled EXCEPT ![f] = TRUE] /\ stamp' = stamp /\ ~recycled[f]
        /\ chore' = [chore EXCEPT ![f] = "callback"]
    BY <1>14 DEF Destroy, Assign, Retired, ChoresOK, origin
  <2> QED
    BY <2>1 DEF Occupies, Created, Frames, TypeOK
<1>15. ASSUME NEW t \in Threads, NEW f \in Frames, ReleaseSurface(t, f)
       PROVE  Occupies(h)' <=> Occupies(h)
  <2>1. /\ recycled' = recycled /\ stamp' = stamp /\ chore[f] = "callback"
        /\ chore' = [chore EXCEPT ![f] = "recycle"]
    BY <1>15 DEF ReleaseSurface, Assign, origin, core
  <2> QED
    BY <2>1 DEF Occupies, Created, Frames, TypeOK
<1> QED
  BY <1>4, <1>5, <1>6, <1>7, <1>8, <1>9, <1>10, <1>11, <1>12, <1>13, <1>14, <1>15, <1>16,
     StepCases

\* Every other step leaves the slots alone, or closes the pool.
LEMMA PoolKept ==
    ASSUME Next, ~Wrap, ~ \E t \in Threads, f \in Frames : RecycleSlot(t, f)
    PROVE  /\ in_use' = in_use /\ generation' = generation /\ slot' = slot /\ stamp' = stamp
           /\ open' = open \/ open' = FALSE
<1> DEFINE Kept == /\ in_use' = in_use /\ generation' = generation /\ slot' = slot
                   /\ stamp' = stamp /\ (open' = open \/ open' = FALSE)
<1>1. ASSUME Quiescent \/ \E f \in Frames, o \in Settled : Produce(f, o) PROVE Kept
  BY <1>1 DEF Quiescent, vars, origin, pool, Produce
<1>2. ASSUME NEW t \in Threads, Deliver(t) \/ DeliverFails(t) \/ CloseDecoder(t) \/ WriteCpu(t)
      PROVE  Kept
  BY <1>2 DEF Deliver, DeliverFails, CloseDecoder, WriteCpu, origin, pool
<1>3. ASSUME NEW t \in Threads, \/ Delete(t) \/ AddConsumer(t) \/ ReleaseAnchor(t)
                                \/ AnchorGone(t)
      PROVE  Kept
  BY <1>3 DEF Delete, AddConsumer, ReleaseAnchor, AnchorGone, origin, pool
<1>4. ASSUME NEW t \in Threads, Moves(t) \/ Pops(t) PROVE Kept
  BY <1>4 DEF Moves, SubmitReturns, SubmitSkips, SubmitQueues, Flush, DrainEnds, CloseWaits,
              Pops, Clear, Collect, Drain, origin, pool
<1>5. ASSUME NEW t \in Threads, NEW f \in Frames,
             \/ Release(t, f) \/ WriteGpu(t, f) \/ Destroy(t, f) \/ ReleaseSurface(t, f)
             \/ \E u \in Threads : Retain(t, u, f)
      PROVE  Kept
  BY <1>5 DEF Release, WriteGpu, Destroy, ReleaseSurface, Retain, origin, pool
<1> QED
  BY <1>1, <1>2, <1>3, <1>4, <1>5, StepCases

LEMMA SlotsStep ==
    ASSUME TypeOK, Owned, Retired, SlotsOK, Next
    PROVE  SlotsOK'
<1>1. CASE Wrap
  <2>1. PICK f \in Frames \ Created, s \in FreeSlots :
            /\ in_use' = [in_use EXCEPT ![s] = TRUE]
            /\ generation' = [generation EXCEPT ![s] = @ + 1]
            /\ slot' = [slot EXCEPT ![f] = s]
            /\ stamp' = [stamp EXCEPT ![f] = generation'[s]]
    BY <1>1 DEF Wrap
  <2>2. s \in Slots /\ ~in_use[s] /\ generation'[s] \in Nat \ {0} /\ f \notin Created
    BY <2>1 DEF FreeSlots, TypeOK
  <2>3. Created' = Created \cup {f} /\ Created \subseteq Frames
    BY <2>1, <2>2 DEF Created, TypeOK, Frames
  <2>4. recycled' = recycled /\ chore' = chore /\ open' = open /\ open /\ ~recycled[f]
    BY <1>1, <2>1 DEF Wrap, core, chores, Retired, RecycledOK
  <2>5. \A g \in Frames : Occupies(g)' <=> Occupies(g) \/ g = f
    BY <2>3, <2>4 DEF Occupies
  <2>6. /\ slot'[f] = s /\ in_use'[s] /\ stamp'[f] = generation'[s]
        /\ \A g \in Frames \ {f} : slot'[g] = slot[g] /\ stamp'[g] = stamp[g]
        /\ \A r \in Slots \ {s} : in_use'[r] = in_use[r] /\ generation'[r] = generation[r]
    BY <2>1, <2>2 DEF TypeOK
  <2>7. \A g \in Frames : Occupies(g) => g # f /\ slot[g] # s /\ slot[g] \in Slots
    BY <2>2, <2>4 DEF SlotsOK, Occupies
  <2>8. \A g \in Created' : slot'[g] \in Slots
    BY <2>2, <2>3, <2>6 DEF SlotsOK
  <2>9. \A g \in Frames : Occupies(g)' =>
          in_use'[slot'[g]] /\ generation'[slot'[g]] = stamp'[g]
    BY <2>4, <2>5, <2>6, <2>7 DEF SlotsOK
  <2>10. \A g, h \in Frames : Occupies(g)' /\ Occupies(h)' /\ slot'[g] = slot'[h] => g = h
    BY <2>4, <2>5, <2>6, <2>7 DEF SlotsOK
  <2>11. \A r \in Slots : in_use'[r] => \E g \in Frames : Occupies(g)' /\ slot'[g] = r
    <3>1. ASSUME NEW r \in Slots, in_use'[r], r # s
          PROVE  \E g \in Frames : Occupies(g)' /\ slot'[g] = r
      <4>1. PICK g \in Frames : Occupies(g) /\ slot[g] = r
        BY <2>4, <2>6, <3>1 DEF SlotsOK
      <4> QED
        BY <2>5, <2>6, <2>7, <4>1
    <3> QED
      BY <2>1, <2>5, <2>6, <3>1
  <2> QED
    BY <2>8, <2>9, <2>10, <2>11 DEF SlotsOK
<1>2. ASSUME NEW t \in Threads, NEW f \in Frames, RecycleSlot(t, f) PROVE SlotsOK'
  <2>1. /\ chore[f] = "recycle" /\ chore' = [chore EXCEPT ![f] = "none"] /\ open' = open
        /\ recycled' = recycled /\ slot' = slot /\ stamp' = stamp /\ generation' = generation
        /\ in_use' = IF open /\ generation[slot[f]] = stamp[f]
                     THEN [in_use EXCEPT ![slot[f]] = FALSE] ELSE in_use
    BY <1>2 DEF RecycleSlot, Assign, core, origin
  <2>2. recycled[f] /\ f \in Created /\ Created' = Created
    BY <2>1 DEF Retired, ChoresOK, RecycledOK, Created, Frames
  <2>3. Occupies(f)
    BY <2>1, <2>2 DEF Occupies
  <2>4. \A g \in Frames : Occupies(g)' <=> Occupies(g) /\ g # f
    BY <2>1, <2>2 DEF Occupies, TypeOK
  <2>5. \A g \in Created' : slot'[g] \in Slots
    BY <2>1, <2>2 DEF SlotsOK
  <2>6. CASE open
    <3>1. in_use' = [in_use EXCEPT ![slot[f]] = FALSE]
      BY <2>1, <2>3, <2>6 DEF SlotsOK
    <3>2. \A r \in Slots : in_use'[r] <=> in_use[r] /\ r # slot[f]
      BY <3>1 DEF TypeOK
    <3>3. \A g \in Frames : Occupies(g) => slot[g] \in Slots
      BY DEF SlotsOK, Occupies
    <3>4. \A g \in Frames : Occupies(g)' =>
            in_use'[slot'[g]] /\ generation'[slot'[g]] = stamp'[g]
      BY <2>1, <2>3, <2>4, <2>6, <3>2, <3>3 DEF SlotsOK
    <3>5. \A g, h \in Frames : Occupies(g)' /\ Occupies(h)' /\ slot'[g] = slot'[h] => g = h
      BY <2>1, <2>4, <2>6 DEF SlotsOK
    <3>6. \A r \in Slots : in_use'[r] => \E g \in Frames : Occupies(g)' /\ slot'[g] = r
      BY <2>1, <2>4, <2>6, <3>2 DEF SlotsOK
    <3> QED
      BY <2>5, <3>4, <3>5, <3>6 DEF SlotsOK
  <2>7. CASE ~open
    BY <2>1, <2>5, <2>7 DEF SlotsOK
  <2> QED
    BY <2>6, <2>7
<1>3. ASSUME ~Wrap, ~ \E t \in Threads, f \in Frames : RecycleSlot(t, f) PROVE SlotsOK'
  <2>1. /\ in_use' = in_use /\ generation' = generation /\ slot' = slot /\ stamp' = stamp
        /\ open' = open \/ open' = FALSE
    BY <1>3, PoolKept
  <2>2. \A g \in Frames : Occupies(g)' <=> Occupies(g)
    BY <1>3, OccupiesKept
  <2>3. Created' = Created
    BY <2>1 DEF Created, Frames
  <2> QED
    BY <2>1, <2>2, <2>3 DEF SlotsOK
<1> QED
  BY <1>1, <1>2, <1>3

-----------------------------------------------------------------------------
(* The invariant holds initially and is inductive.                         *)

LEMMA InductiveInit ==
    ASSUME Init
    PROVE  Inductive
<1> USE DEF Init
<1>1. /\ 0 \in Nat /\ <<>> \in Seq(Frames) /\ Created = {}
  BY EmptySeq, BoundAssumption DEF Created, Frames
<1>9. /\ <<>> \in Seq(Frames \cup {0}) /\ Len(<<>>) = 0 /\ AsyncDepth \in Nat \ {0}
      /\ Queued = {} /\ Reading = {}
  BY EmptySeq, DepthAssumption DEF Queued, Reading
<1>2. TypeOK
  BY <1>1, <1>9 DEF TypeOK, Settled
<1>10. QueueOK
  BY <1>1, <1>9 DEF QueueOK
<1>3. ReadyOK
  BY DEF ReadyOK
<1>4. HandlesOK /\ EncoderOK
  BY DEF HandlesOK, EncoderOK, Referenced
<1>5. LeasesOK
  BY Bounds DEF LeasesOK, Referenced, Anchored
<1>6. RecycledOK /\ ChoresOK
  BY DEF RecycledOK, ChoresOK
<1>7. NoFrameLost
  BY <1>1 DEF NoFrameLost
<1>8. SlotsOK
  BY <1>1 DEF SlotsOK, Occupies
<1> QED
  BY <1>2, <1>3, <1>4, <1>5, <1>6, <1>7, <1>8, <1>10 DEF Inductive, Owned, Retired

LEMMA InductiveStep ==
    ASSUME Inductive, [Next]_vars
    PROVE  Inductive'
<1> USE DEF Inductive
<1>1. CASE Next
  BY <1>1, TypeStep, OwnedStep, RetiredStep, SlotsStep
<1>2. CASE UNCHANGED vars
  <2>1. TypeOK'
    BY <1>2 DEF vars, pool, origin, core, owners, thread, chores, TypeOK
  <2>2. ReadyOK' /\ HandlesOK'
    BY <1>2 DEF vars, origin, core, owners, thread, Owned, ReadyOK, HandlesOK, Created,
                Referenced, Frames, Queued
  <2>6. QueueOK'
    BY <1>2 DEF vars, origin, owners, thread, Owned, QueueOK, Queued, Created, Frames
  <2>3. EncoderOK' /\ LeasesOK'
    BY <1>2 DEF vars, origin, core, owners, thread, Owned, EncoderOK, LeasesOK, Created,
                Referenced, Anchored, Frames
  <2>4. Retired'
    <3>1. Reading' = Reading /\ Created' = Created /\ \A f \in Frames : Held(f)' <=> Held(f)
      BY <1>2 DEF vars, origin, owners, thread, Reading, Queued, Created, Frames, Held
    <3>2. /\ recycled' = recycled /\ external_leases' = external_leases /\ producer' = producer
          /\ surface' = surface /\ chore' = chore /\ by' = by
      BY <1>2 DEF vars, core, chores
    <3>3. RecycledOK'
      BY <3>1, <3>2 DEF Retired, RecycledOK
    <3>4. ChoresOK'
      BY <3>1, <3>2 DEF Retired, ChoresOK
    <3>5. NoFrameLost'
      BY <3>1, <3>2, Bounds DEF Retired, NoFrameLost
    <3> QED
      BY <3>3, <3>4, <3>5 DEF Retired
  <2>5. SlotsOK'
    BY <1>2 DEF vars, pool, origin, core, chores, SlotsOK, Occupies, Created, Frames
  <2> QED
    BY <2>1, <2>2, <2>3, <2>4, <2>5, <2>6 DEF Owned
<1> QED
  BY <1>1, <1>2

LEMMA InductiveHolds == Spec => []Inductive
<1> QED
  BY InductiveInit, InductiveStep, PTL DEF Spec

-----------------------------------------------------------------------------
(* The theorems.                                                           *)

\* Every variable has its type, and a frame has two leases at most: that of
\* its handle and that of the encoder's device anchor (gpu_frame.cpp).
THEOREM TypeCorrect == Spec => []TypeOK
<1>1. Inductive => TypeOK
  BY DEF Inductive
<1> QED
  BY <1>1, InductiveHolds, PTL

\* maybe_recycle_locked, poll_recycle and ~GpuFrameCore give the surface back
\* to the decoder once, after the producer and the consumers are complete, also
\* when the encoder reads the frame long after the last release, and when no
\* client, no anchor and no encoder call can reach the pixels any more.
THEOREM Returned == Spec => []ReturnedWhenDone
<1>1. ASSUME Inductive, NEW f \in Created
      PROVE  surface[f] <= 1 /\ (surface[f] = 1 => ~InUse(f))
  <2>1. f \in Frames /\ surface[f] = IF recycled[f] /\ chore[f] # "callback" THEN 1 ELSE 0
    BY <1>1, Bounds DEF Inductive, Retired, RecycledOK
  <2>2. ASSUME recycled[f] PROVE ~InUse(f)
    <3>1. external_leases[f] = 0 /\ producer[f] # "pending" /\ f \notin Reading
      BY <1>1, <2>1, <2>2 DEF Inductive, Retired, RecycledOK, Settled
    <3>2. ~Referenced(f) /\ ~Anchored(f)
      BY <1>1, <2>1, <3>1 DEF Inductive, Owned, LeasesOK
    <3>3. \A t \in Threads : pc[t] = "consume" => frame[t] # f
      BY <1>1, <3>2 DEF Inductive, Owned, EncoderOK, Referenced
    <3> QED
      BY <3>1, <3>2, <3>3 DEF InUse, Referenced, Anchored
  <2> QED
    BY <2>1, <2>2
<1>2. Inductive => ReturnedWhenDone
  BY <1>1 DEF ReturnedWhenDone
<1> QED
  BY <1>2, InductiveHolds, PTL

\* GpuFramePool::acquire and recycle, mkvc_gpu_frame_retain and release: a
\* slot in use has one frame that is not returned, no frame is forgotten and
\* a handle somebody refers to is never found recycled.
THEOREM Accounted == Spec => []SlotsAccounted
<1>1. ASSUME Inductive, open, NEW s \in Slots
      PROVE  LET occupants == {f \in Frames : Occupies(f) /\ slot[f] = s} IN
             IF in_use[s] THEN Cardinality(occupants) = 1 ELSE occupants = {}
  <2> DEFINE occupants == {f \in Frames : Occupies(f) /\ slot[f] = s}
  <2>1. CASE in_use[s]
    <3>1. PICK f \in Frames : Occupies(f) /\ slot[f] = s
      BY <1>1, <2>1 DEF Inductive, SlotsOK
    <3>2. occupants = {f}
      BY <1>1, <3>1 DEF Inductive, SlotsOK
    <3> QED
      BY <2>1, <3>2, FS_Singleton
  <2>2. CASE ~in_use[s]
    BY <1>1, <2>2 DEF Inductive, SlotsOK
  <2> QED
    BY <2>1, <2>2
<1>2. Inductive => SlotsAgree
  BY <1>1 DEF SlotsAgree
<1>3. ASSUME Inductive PROVE HandleUsable
  <2>1. \A f \in Created : Referenced(f) => ~recycled[f]
    BY <1>3, Bounds, ReferencedHeld DEF Inductive
  <2> QED
    BY <2>1 DEF HandleUsable, Referenced
<1>4. Inductive => SlotsAccounted
  BY <1>2, <1>3 DEF SlotsAccounted, Inductive, Retired
<1> QED
  BY <1>4, InductiveHolds, PTL


=============================================================================
