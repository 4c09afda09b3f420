------------------------- MODULE CpuFramePoolProofs -------------------------
(***************************************************************************)
(* Proofs about CpuFramePool for any capacity, any number of threads and   *)
(* any number of submissions.                                              *)
(***************************************************************************)
EXTENDS CpuFramePool, SequenceTheorems, FiniteSetTheorems, TLAPS

\* What the helpers do to the pool.
LEMMA UnreferenceType ==
    ASSUME TypeOK, NEW lease \in Leases, Unreference(lease)
    PROVE  /\ in_use' \in [Slots -> BOOLEAN] /\ generation' \in [Slots -> Nat]
           /\ occupied' \in Nat /\ peak' \in Nat /\ acquisitions' \in Nat /\ rejected' \in Nat
           /\ asleep' \subseteq Threads
<1>1. CASE Recycle(lease)
  <2>1. in_use' \in [Slots -> BOOLEAN] /\ generation' \in [Slots -> Nat]
    BY <1>1 DEF Recycle, TypeOK, pool, stats
  <2>2. occupied' \in Nat /\ peak' \in Nat /\ acquisitions' \in Nat /\ rejected' \in Nat
    BY <1>1 DEF Recycle, TypeOK, pool, stats
  <2>3. asleep' \subseteq Threads
    BY <1>1 DEF Recycle, NotifyOne, Sleepers, TypeOK
  <2> QED
    BY <2>1, <2>2, <2>3
<1>2. CASE UNCHANGED <<pool, asleep>>
  BY <1>2 DEF TypeOK, pool, stats
<1> QED
  BY <1>1, <1>2 DEF Unreference

LEMMA ReturnType ==
    ASSUME TypeOK, NEW t \in Threads, NEW r \in Results, Return(t, r)
    PROVE  /\ pc' \in [Threads -> {"idle", "acquire", "submit", "set_owner"}]
           /\ ret' \in [Threads -> Results]
           /\ buffer' \in [Threads -> Leases \cup {NoLease}]
           /\ entry' \in [Threads -> Nat]
<1> QED
  BY DEF Return, TypeOK

LEMMA GotoType ==
    ASSUME TypeOK, NEW t \in Threads, NEW l \in {"acquire", "submit", "set_owner"},
           Goto(t, l)
    PROVE  /\ pc' \in [Threads -> {"idle", "acquire", "submit", "set_owner"}]
           /\ ret' \in [Threads -> Results]
<1> QED
  BY DEF Goto, TypeOK, Results

\* What the two steps that change a submission leave of it.
LEMMA SetOwnerEffect ==
    ASSUME TypeOK, EntryOK, NEW t \in Threads, SetOwner(t)
    PROVE  /\ submission' \in Seq(Submissions) /\ Len(submission') = Len(submission)
           /\ \A m \in DOMAIN submission :
                /\ submission'[m].lease = submission[m].lease
                /\ submission'[m].state = submission[m].state
                /\ submission'[m].owner =
                     IF m = entry[t] THEN Owned(m) ELSE submission[m].owner
<1> DEFINE n == entry[t]
           e == [submission[n] EXCEPT !.owner = Owned(n)]
<1>1. n \in 1..Len(submission) /\ DOMAIN submission = 1..Len(submission)
  BY LenProperties DEF SetOwner, EntryOK, TypeOK
<1>2. submission[n] \in Submissions /\ Owned(n) \in BOOLEAN
  BY <1>1, ElementOfSeq DEF TypeOK, Owned
<1>3. /\ e \in Submissions /\ e.lease = submission[n].lease
      /\ e.state = submission[n].state
  BY <1>2 DEF Submissions
<1>4. e.owner = Owned(n)
  BY <1>2 DEF Submissions
<1>5. submission' = [submission EXCEPT ![n] = e]
  BY DEF SetOwner
<1> QED
  BY <1>1, <1>3, <1>4, <1>5, ExceptSeq DEF TypeOK

LEMMA CompleteEffect ==
    ASSUME TypeOK, NEW n \in Nat, NEW outcome \in Outcomes, Complete(n, outcome)
    PROVE  /\ submission' \in Seq(Submissions) /\ Len(submission') = Len(submission)
           /\ n \in DOMAIN submission /\ submission[n].lease \in Leases
           /\ submission'[n].lease = submission[n].lease
           /\ submission'[n].state = outcome /\ submission'[n].owner = FALSE
           /\ \A m \in DOMAIN submission \ {n} : submission'[m] = submission[m]
<1> DEFINE e == [submission[n] EXCEPT !.state = outcome, !.owner = FALSE]
<1>1. n \in 1..Len(submission) /\ DOMAIN submission = 1..Len(submission)
  BY LenProperties DEF Complete, TypeOK
<1>2. submission[n] \in Submissions
  BY <1>1, ElementOfSeq DEF TypeOK
<1>3. /\ e \in Submissions /\ e.lease = submission[n].lease
      /\ e.state = outcome /\ e.owner = FALSE
  BY <1>2 DEF Submissions
<1>4. submission' = [submission EXCEPT ![n] = e]
  BY DEF Complete
<1> QED
  BY <1>1, <1>2, <1>3, <1>4, ExceptSeq DEF TypeOK, Submissions

LEMMA AcceptEffect ==
    ASSUME TypeOK, BusyOK, NEW t \in Threads, SubmitAccepted(t)
    PROVE  LET entered == [lease |-> buffer[t], state |-> "pending", owner |-> FALSE]
           IN  /\ submission' \in Seq(Submissions)
               /\ Len(submission') = Len(submission) + 1
               /\ DOMAIN submission = 1..Len(submission) /\ Len(submission) \in Nat
               /\ DOMAIN submission' = 1..Len(submission')
               /\ submission'[Len(submission) + 1] = entered
               /\ \A m \in DOMAIN submission : submission'[m] = submission[m]
<1> DEFINE entered == [lease |-> buffer[t], state |-> "pending", owner |-> FALSE]
<1>1. entered \in Submissions
  BY DEF SubmitAccepted, BusyOK, TypeOK, Submissions
<1> QED
  BY <1>1, AppendProperties, LenProperties DEF SubmitAccepted, TypeOK

-----------------------------------------------------------------------------
(* Type correctness, with the facts about threads it rests on.             *)

LEMMA InitPool == Init => TypeOK /\ Inductive
<1> SUFFICES ASSUME Init PROVE TypeOK /\ Inductive
  OBVIOUS
<1>1. <<>> \in Seq(Submissions) /\ DOMAIN <<>> = {}
  BY EmptySeq, LenProperties
<1>2. TypeOK
  BY <1>1, BoundAssumption DEF Init, TypeOK, Results, Timeouts
<1>3. \A t \in Threads : pc[t] = "idle" /\ buffer[t] = NoLease
  BY DEF Init
<1>4. \A s \in Slots : ~in_use[s]
  BY DEF Init
<1> QED
  BY <1>1, <1>2, <1>3, <1>4
  DEF Init, Inductive, HandleCurrent, PendingKeepsSlot, NoSlotLeaked, BusyOK,
      EntryOK, OwnerOK

LEMMA NoLeaseType == NoLease \notin Leases
<1> QED
  BY DEF NoLease, Leases

LEMMA TypeStep ==
    ASSUME TypeOK, EntryOK, BusyOK, Next
    PROVE  TypeOK'
<1>1. ASSUME NEW t \in Threads, NEW wait \in Timeouts, AcquireCall(t, wait)
      PROVE  TypeOK'
  <2>1. calls' \in 0..MaxCalls /\ timeout' \in [Threads -> Timeouts]
    BY <1>1, BoundAssumption DEF AcquireCall, Idle, TypeOK
  <2> QED
    BY <1>1, <2>1, GotoType DEF AcquireCall, TypeOK, pool, stats
<1>2. ASSUME NEW t \in Threads, NEW lease \in handles, SubmitCall(t, lease)
      PROVE  TypeOK'
  <2>1. calls' \in 0..MaxCalls
    BY <1>2, BoundAssumption DEF SubmitCall, Idle, TypeOK
  <2>2. CASE Goto(t, "submit") /\ buffer' = [buffer EXCEPT ![t] = lease]
             /\ UNCHANGED entry
    BY <1>2, <2>1, <2>2, GotoType DEF SubmitCall, TypeOK, pool, stats
  <2>3. CASE Return(t, "INVALID_STATE")
    BY <1>2, <2>1, <2>3, ReturnType DEF SubmitCall, TypeOK, pool, stats, Results
  <2> QED
    BY <1>2, <2>2, <2>3 DEF SubmitCall
<1>3. ASSUME NEW t \in Threads, AcquireSleeps(t) PROVE TypeOK'
  BY <1>3 DEF AcquireSleeps, TypeOK, pool, stats, client
<1>4. ASSUME NEW t \in Threads, AcquireRejected(t) PROVE TypeOK'
  <2>1. PICK r \in {"WOULD_BLOCK", "TIMEOUT"} : Return(t, r)
    BY <1>4 DEF AcquireRejected
  <2>2. rejected' \in Nat
    BY <1>4 DEF AcquireRejected, TypeOK
  <2>3. r \in Results
    BY DEF Results
  <2> QED
    BY <1>4, <2>1, <2>2, <2>3, ReturnType DEF AcquireRejected, TypeOK
<1>5. ASSUME NEW t \in Threads, AcquireTakes(t) PROVE TypeOK'
  <2>1. PICK s \in Slots :
          /\ in_use' = [in_use EXCEPT ![s] = TRUE]
          /\ generation' = [generation EXCEPT ![s] = @ + 1]
          /\ handles' = handles \cup {[slot |-> s, generation |-> generation[s] + 1]}
    BY <1>5 DEF AcquireTakes, NextGeneration
  <2>2. [slot |-> s, generation |-> generation[s] + 1] \in Leases
    <3>1. generation[s] + 1 \in Nat \ {0}
      BY DEF TypeOK
    <3> QED
      BY <3>1 DEF Leases
  <2>3. /\ in_use' \in [Slots -> BOOLEAN] /\ generation' \in [Slots -> Nat]
        /\ handles' \subseteq Leases
    BY <2>1, <2>2 DEF TypeOK
  <2>4. occupied' \in Nat /\ peak' \in Nat /\ acquisitions' \in Nat
    BY <1>5 DEF AcquireTakes, Peak, TypeOK
  <2> QED
    BY <1>5, <2>3, <2>4, ReturnType DEF AcquireTakes, TypeOK, Results
<1>6. ASSUME NEW t \in Threads, SubmitRefused(t) PROVE TypeOK'
  BY <1>6, ReturnType DEF SubmitRefused, TypeOK, pool, stats, Results
<1>7. ASSUME NEW t \in Threads, SubmitAccepted(t) PROVE TypeOK'
  <2>1. submission' \in Seq(Submissions) /\ Len(submission) \in Nat
    BY <1>7, AcceptEffect
  <2>2. entry' \in [Threads -> Nat]
    BY <1>7, <2>1 DEF SubmitAccepted, TypeOK
  <2> QED
    BY <1>7, <2>1, <2>2, GotoType DEF SubmitAccepted, TypeOK, pool, stats
<1>8. ASSUME NEW t \in Threads, SetOwner(t) PROVE TypeOK'
  BY <1>8, SetOwnerEffect, ReturnType DEF SetOwner, TypeOK, pool, stats, Results
<1>9. ASSUME ReleaseBuffer PROVE TypeOK'
  BY <1>9, UnreferenceType DEF ReleaseBuffer, TypeOK, client
<1>10. ASSUME NEW n \in 1..MaxSubmissions, NEW outcome \in Outcomes,
              Complete(n, outcome)
       PROVE  TypeOK'
  <2>1. submission' \in Seq(Submissions) /\ submission[n].lease \in Leases
    BY <1>10, CompleteEffect, n \in Nat
  <2> QED
    BY <1>10, <2>1, UnreferenceType DEF Complete, TypeOK, client, pool, stats
<1>11. ASSUME Quiescent PROVE TypeOK'
  BY <1>11 DEF Quiescent, vars, pool, stats, client, TypeOK
<1> QED
  BY <1>1, <1>2, <1>3, <1>4, <1>5, <1>6, <1>7, <1>8, <1>9, <1>10, <1>11 DEF Next

-----------------------------------------------------------------------------
(* Leases.                                                                 *)

\* The lease is current after the step.
Stays(l) == in_use'[l.slot] /\ generation'[l.slot] = l.generation

\* A slot has one current lease.
LEMMA OneCurrent ==
    ASSUME NEW l \in Leases, NEW m \in Leases, Current(l), Current(m),
           l.slot = m.slot
    PROVE  l = m
<1> QED
  BY DEF Current, Leases

LEMMA CurrentIsLease ==
    ASSUME TypeOK, NEW l \in Leases, Current(l)
    PROVE  l = CurrentLease(l.slot) /\ l.slot \in Slots
<1> QED
  BY DEF Current, CurrentLease, Leases

\* Leases of submissions.
LEMMA SubmissionLease ==
    ASSUME TypeOK, NEW n \in DOMAIN submission
    PROVE  submission[n].lease \in Leases
<1>1. submission[n] \in Submissions
  BY ElementOfSeq, LenProperties DEF TypeOK
<1> QED
  BY <1>1 DEF Submissions

\* Dropping one reference to a lease: its slot is freed exactly when no
\* reference is left, the other slots keep their leases.
LEMMA UnreferenceEffect ==
    ASSUME TypeOK, NEW lease \in Leases, Current(lease), Unreference(lease)
    PROVE  /\ generation' = generation
           /\ \A s \in Slots \ {lease.slot} : in_use'[s] = in_use[s]
           /\ lease \in handles' \/ Owners(lease, submission') # {}
                => in_use' = in_use
           /\ lease \notin handles' /\ Owners(lease, submission') = {}
                => ~in_use'[lease.slot]
<1>1. lease.slot \in Slots /\ in_use \in [Slots -> BOOLEAN]
  BY DEF Leases, TypeOK
<1>2. CASE lease \notin handles' /\ Owners(lease, submission') = {}
  BY <1>1, <1>2 DEF Unreference, Recycle, Current
<1>3. CASE lease \in handles' \/ Owners(lease, submission') # {}
  BY <1>3 DEF Unreference, pool, stats
<1> QED
  BY <1>2, <1>3

\* Steps that leave the leases and the submissions alone.
LEMMA QuietStep ==
    ASSUME TypeOK, Inductive,
           UNCHANGED <<in_use, generation, handles, submission>>,
           BusyOK',
           \A t \in Threads : pc'[t] = "set_owner" <=> pc[t] = "set_owner",
           \A t \in Threads : pc[t] = "set_owner" =>
               entry'[t] = entry[t] /\ buffer'[t] = buffer[t]
    PROVE  Inductive'
<1>1. HandleCurrent' /\ PendingKeepsSlot' /\ NoSlotLeaked'
  BY DEF Inductive, HandleCurrent, PendingKeepsSlot, NoSlotLeaked, Current,
         CurrentLease
<1>2. EntryOK' /\ OwnerOK'
  BY DEF Inductive, EntryOK, OwnerOK
<1> QED
  BY <1>1, <1>2 DEF Inductive

LEMMA TakeStep ==
    ASSUME TypeOK, Inductive, NEW t \in Threads, AcquireTakes(t)
    PROVE  Inductive'
<1>1. PICK s \in Slots :
        /\ ~in_use[s]
        /\ in_use' = [in_use EXCEPT ![s] = TRUE]
        /\ generation' = [generation EXCEPT ![s] = @ + 1]
        /\ handles' = handles \cup {[slot |-> s, generation |-> generation[s] + 1]}
  BY DEF AcquireTakes, Chosen, FreeSlots, NextGeneration
<1>2. /\ in_use \in [Slots -> BOOLEAN] /\ generation \in [Slots -> Nat]
      /\ handles \subseteq Leases /\ submission' = submission
  BY DEF TypeOK, AcquireTakes
<1>3. \A l \in Leases : Current(l) => l.slot # s /\ l.slot \in Slots /\ Stays(l)
  BY <1>1, <1>2 DEF Current, Stays, Leases
<1>4. HandleCurrent'
  <2>1. in_use'[s] /\ generation'[s] = generation[s] + 1
    BY <1>1, <1>2
  <2>2. \A l \in handles : Stays(l)
    BY <1>2, <1>3 DEF Inductive, HandleCurrent
  <2> QED
    BY <1>1, <2>1, <2>2 DEF HandleCurrent, Current, Stays
<1>5. PendingKeepsSlot'
  <2>1. \A n \in DOMAIN submission : submission[n].state = "pending"
           => Stays(submission[n].lease)
    BY <1>3, SubmissionLease DEF Inductive, PendingKeepsSlot
  <2> QED
    BY <1>2, <2>1 DEF PendingKeepsSlot, Current, Stays
<1>6. NoSlotLeaked'
  <2> SUFFICES ASSUME NEW r \in Slots, in_use'[r]
               PROVE  \/ CurrentLease(r)' \in handles'
                      \/ \E n \in DOMAIN submission' :
                          /\ submission'[n].state = "pending"
                          /\ submission'[n].lease = CurrentLease(r)'
    BY DEF NoSlotLeaked
  <2>1. CASE r = s
    BY <1>1, <1>2, <2>1 DEF CurrentLease
  <2>2. CASE r # s
    <3>1. in_use[r] /\ CurrentLease(r)' = CurrentLease(r)
      BY <1>1, <1>2, <2>2 DEF CurrentLease
    <3> QED
      BY <1>1, <1>2, <3>1 DEF Inductive, NoSlotLeaked
  <2> QED
    BY <2>1, <2>2
<1>7. BusyOK' /\ EntryOK' /\ OwnerOK'
  BY <1>1, <1>2
  DEF Inductive, AcquireTakes, Return, TypeOK, BusyOK, EntryOK, OwnerOK
<1> QED
  BY <1>4, <1>5, <1>6, <1>7 DEF Inductive

LEMMA AcceptStep ==
    ASSUME TypeOK, Inductive, NEW t \in Threads, SubmitAccepted(t)
    PROVE  Inductive'
<1> DEFINE entered == [lease |-> buffer[t], state |-> "pending", owner |-> FALSE]
           last == Len(submission) + 1
<1>0. BusyOK
  BY DEF Inductive
<1>1. /\ Len(submission) \in Nat /\ DOMAIN submission = 1..Len(submission)
      /\ DOMAIN submission' = DOMAIN submission \cup {last}
      /\ submission'[last] = entered
      /\ \A m \in DOMAIN submission : submission'[m] = submission[m]
  <2>1. \A k \in Nat : 1..k + 1 = 1..k \cup {k + 1}
    OBVIOUS
  <2> QED
    BY <1>0, <2>1, AcceptEffect
<1>2. /\ UNCHANGED <<in_use, generation, handles, buffer>> /\ pc[t] = "submit"
      /\ pc' = [pc EXCEPT ![t] = "set_owner"] /\ entry' = [entry EXCEPT ![t] = last]
  BY DEF SubmitAccepted, Goto, pool
<1>3. buffer[t] \in handles
  BY <1>0, <1>2 DEF BusyOK
<1>4. HandleCurrent' /\ PendingKeepsSlot' /\ NoSlotLeaked'
  BY <1>1, <1>2, <1>3
  DEF Inductive, HandleCurrent, PendingKeepsSlot, NoSlotLeaked, Current, CurrentLease
<1>5. pc \in [Threads -> {"idle", "acquire", "submit", "set_owner"}]
      /\ entry \in [Threads -> Nat]
  BY DEF TypeOK
<1>6. BusyOK'
  BY <1>0, <1>2, <1>5 DEF BusyOK
<1>7. EntryOK'
  BY <1>1, <1>2, <1>5 DEF Inductive, EntryOK
<1>8. OwnerOK'
  <2> SUFFICES ASSUME NEW n \in DOMAIN submission'
               PROVE  /\ submission'[n].owner => submission'[n].state = "pending"
                      /\ submission'[n].state = "pending" =>
                          \/ submission'[n].owner
                          \/ \E u \in Threads : pc'[u] = "set_owner" /\ entry'[u] = n
    BY DEF OwnerOK
  <2>1. CASE n = last
    BY <1>1, <1>2, <1>5, <2>1
  <2>2. CASE n # last
    <3>1. n \in DOMAIN submission /\ submission'[n] = submission[n]
      BY <1>1, <2>2
    <3>2. \A u \in Threads : pc[u] = "set_owner" =>
            u # t /\ pc'[u] = "set_owner" /\ entry'[u] = entry[u]
      BY <1>2, <1>5
    <3> QED
      BY <3>1, <3>2 DEF Inductive, OwnerOK
  <2> QED
    BY <2>1, <2>2
<1> QED
  BY <1>4, <1>6, <1>7, <1>8 DEF Inductive

LEMMA SetOwnerStep ==
    ASSUME TypeOK, Inductive, NEW t \in Threads, SetOwner(t)
    PROVE  Inductive'
<1>0. EntryOK
  BY DEF Inductive
<1>1. /\ DOMAIN submission' = DOMAIN submission
      /\ \A m \in DOMAIN submission :
           /\ submission'[m].lease = submission[m].lease
           /\ submission'[m].state = submission[m].state
           /\ submission'[m].owner =
                IF m = entry[t] THEN submission[m].state = "pending"
                ELSE submission[m].owner
  BY <1>0, SetOwnerEffect, LenProperties DEF Owned, TypeOK
<1>2. /\ UNCHANGED <<in_use, generation, handles>> /\ pc[t] = "set_owner"
      /\ pc' = [pc EXCEPT ![t] = "idle"]
      /\ buffer' = [buffer EXCEPT ![t] = NoLease]
      /\ entry' = [entry EXCEPT ![t] = 0]
  BY DEF SetOwner, Return, pool
<1>3. HandleCurrent' /\ PendingKeepsSlot' /\ NoSlotLeaked'
  BY <1>1, <1>2
  DEF Inductive, HandleCurrent, PendingKeepsSlot, NoSlotLeaked, Current, CurrentLease
<1>4. BusyOK' /\ EntryOK'
  BY <1>1, <1>2 DEF Inductive, BusyOK, EntryOK, TypeOK
<1>5. OwnerOK'
  <2> SUFFICES ASSUME NEW n \in DOMAIN submission
               PROVE  /\ submission'[n].owner => submission'[n].state = "pending"
                      /\ submission'[n].state = "pending" =>
                          \/ submission'[n].owner
                          \/ \E u \in Threads : pc'[u] = "set_owner" /\ entry'[u] = n
    BY <1>1 DEF OwnerOK
  <2>1. CASE n = entry[t]
    BY <1>1, <2>1
  <2>2. CASE n # entry[t]
    <3>1. \A u \in Threads : pc[u] = "set_owner" /\ entry[u] = n =>
            pc'[u] = "set_owner" /\ entry'[u] = n
      BY <1>2, <2>2 DEF TypeOK
    <3>2. submission'[n].owner = submission[n].owner
          /\ submission'[n].state = submission[n].state
      BY <1>1, <2>2
    <3> QED
      BY <3>1, <3>2 DEF Inductive, OwnerOK
  <2> QED
    BY <2>1, <2>2
<1> QED
  BY <1>3, <1>4, <1>5 DEF Inductive

LEMMA ReleaseStep ==
    ASSUME TypeOK, Inductive, ReleaseBuffer
    PROVE  Inductive'
<1>1. PICK lease \in handles \ Busy :
        /\ handles' = handles \ {lease} /\ UNCHANGED <<submission, client>>
        /\ Unreference(lease)
  BY DEF ReleaseBuffer
<1>2. lease \in Leases /\ Current(lease)
  BY <1>1 DEF TypeOK, Inductive, HandleCurrent
<1>3. /\ generation' = generation
      /\ \A s \in Slots \ {lease.slot} : in_use'[s] = in_use[s]
      /\ Owners(lease, submission) # {} => in_use' = in_use
      /\ Owners(lease, submission) = {} => ~in_use'[lease.slot]
  BY <1>1, <1>2, UnreferenceEffect
<1>4. BusyOK' /\ EntryOK' /\ OwnerOK'
  BY <1>1 DEF Inductive, BusyOK, EntryOK, OwnerOK, Busy, client
<1>5. ASSUME NEW l \in Leases, Current(l), l # lease \/ Owners(lease, submission) # {}
      PROVE  Stays(l)
  <2>1. l # lease => l.slot # lease.slot
    BY <1>2, <1>5, OneCurrent
  <2> QED
    BY <1>3, <1>5, <2>1 DEF Current, Stays, Leases
<1>6. HandleCurrent'
  <2>1. \A l \in handles \ {lease} : Stays(l)
    BY <1>5 DEF Inductive, HandleCurrent, TypeOK
  <2> QED
    BY <1>1, <2>1 DEF HandleCurrent, Current, Stays
<1>7. PendingKeepsSlot'
  <2> SUFFICES ASSUME NEW n \in DOMAIN submission, submission[n].state = "pending"
               PROVE  Stays(submission[n].lease)
    BY <1>1 DEF PendingKeepsSlot, Current, Stays
  <2>1. submission[n].lease \in Leases /\ Current(submission[n].lease)
    BY SubmissionLease DEF Inductive, PendingKeepsSlot
  <2>2. CASE submission[n].lease = lease
    <3>1. submission[n].owner
      BY <1>1, <2>2 DEF Inductive, OwnerOK, EntryOK, BusyOK, Busy
    <3>2. n \in Owners(lease, submission)
      BY <2>2, <3>1 DEF Owners
    <3> QED
      BY <1>5, <2>1, <3>2
  <2> QED
    BY <1>5, <2>1, <2>2
<1>8. NoSlotLeaked'
  <2> SUFFICES ASSUME NEW s \in Slots, in_use'[s]
               PROVE  \/ CurrentLease(s) \in handles \ {lease}
                      \/ \E n \in DOMAIN submission :
                          /\ submission[n].state = "pending"
                          /\ submission[n].lease = CurrentLease(s)
    BY <1>1, <1>3 DEF NoSlotLeaked, CurrentLease
  <2>1. CASE s = lease.slot
    <3>1. PICK n \in DOMAIN submission :
            submission[n].owner /\ submission[n].lease = lease
      BY <1>3, <2>1 DEF Owners
    <3> QED
      BY <1>2, <2>1, <3>1, CurrentIsLease DEF Inductive, OwnerOK
  <2>2. CASE s # lease.slot
    <3>1. in_use[s] /\ CurrentLease(s) # lease
      BY <1>3, <2>2 DEF CurrentLease
    <3> QED
      BY <3>1 DEF Inductive, NoSlotLeaked
  <2> QED
    BY <2>1, <2>2
<1> QED
  BY <1>4, <1>6, <1>7, <1>8 DEF Inductive

LEMMA CompleteStep ==
    ASSUME TypeOK, Inductive, NEW n \in Nat, NEW outcome \in Outcomes,
           Complete(n, outcome)
    PROVE  Inductive'
<1> DEFINE lease == submission[n].lease
<1>1. /\ DOMAIN submission' = DOMAIN submission /\ n \in DOMAIN submission
      /\ lease \in Leases /\ submission'[n].lease = lease
      /\ submission'[n].state # "pending" /\ submission'[n].owner = FALSE
      /\ \A m \in DOMAIN submission \ {n} : submission'[m] = submission[m]
  BY CompleteEffect, LenProperties DEF TypeOK, Outcomes
<1>2. /\ UNCHANGED <<handles, client>> /\ Current(lease)
      /\ submission[n].state = "pending"
  BY DEF Complete, Inductive, PendingKeepsSlot
<1>3. BusyOK' /\ EntryOK' /\ OwnerOK'
  BY <1>1, <1>2 DEF Inductive, BusyOK, EntryOK, OwnerOK, client
<1>4. CASE submission[n].owner
  <2>1. Unreference(lease)
    BY <1>4 DEF Complete
  <2>2. /\ generation' = generation
        /\ \A s \in Slots \ {lease.slot} : in_use'[s] = in_use[s]
        /\ lease \in handles \/ Owners(lease, submission') # {} => in_use' = in_use
        /\ lease \notin handles /\ Owners(lease, submission') = {}
             => ~in_use'[lease.slot]
    BY <1>1, <1>2, <2>1, UnreferenceEffect
  <2>3. ASSUME NEW l \in Leases, Current(l),
               l # lease \/ lease \in handles \/ Owners(lease, submission') # {}
        PROVE  Stays(l)
    <3>1. l # lease => l.slot # lease.slot
      BY <1>1, <1>2, <2>3, OneCurrent
    <3> QED
      BY <2>2, <2>3, <3>1 DEF Current, Stays, Leases
  <2>4. HandleCurrent'
    <3>1. \A l \in handles : Stays(l)
      BY <2>3 DEF Inductive, HandleCurrent, TypeOK
    <3> QED
      BY <1>2, <3>1 DEF HandleCurrent, Current, Stays
  <2>5. PendingKeepsSlot'
    <3> SUFFICES ASSUME NEW m \in DOMAIN submission, submission'[m].state = "pending"
                 PROVE  Stays(submission'[m].lease)
      BY <1>1 DEF PendingKeepsSlot, Current, Stays
    <3>1. m # n /\ submission'[m] = submission[m]
      BY <1>1
    <3>2. submission[m].lease \in Leases /\ Current(submission[m].lease)
      BY <3>1, SubmissionLease DEF Inductive, PendingKeepsSlot
    <3>3. CASE submission[m].lease = lease
      <4>1. submission[m].owner \/ lease \in handles
        BY <3>1, <3>3 DEF Inductive, OwnerOK, EntryOK, BusyOK, Leases, NoLease
      <4>2. submission[m].owner => m \in Owners(lease, submission')
        BY <1>1, <3>1, <3>3 DEF Owners
      <4> QED
        BY <2>3, <3>1, <3>2, <3>3, <4>1, <4>2
    <3> QED
      BY <2>3, <3>1, <3>2, <3>3
  <2>6. NoSlotLeaked'
    <3> SUFFICES ASSUME NEW s \in Slots, in_use'[s]
                 PROVE  \/ CurrentLease(s) \in handles
                        \/ \E m \in DOMAIN submission :
                            /\ submission'[m].state = "pending"
                            /\ submission'[m].lease = CurrentLease(s)
      BY <1>1, <1>2, <2>2 DEF NoSlotLeaked, CurrentLease
    <3>1. CASE s = lease.slot
      <4>1. lease = CurrentLease(s)
        BY <1>1, <1>2, <3>1, CurrentIsLease
      <4>2. CASE lease \in handles
        BY <4>1, <4>2
      <4>3. CASE Owners(lease, submission') # {}
        <5>1. PICK m \in DOMAIN submission :
                submission'[m].owner /\ submission'[m].lease = lease
          BY <1>1, <4>3 DEF Owners
        <5> QED
          BY <1>1, <4>1, <5>1 DEF Inductive, OwnerOK
      <4> QED
        BY <2>2, <3>1, <4>2, <4>3
    <3>2. CASE s # lease.slot
      <4>1. in_use[s] /\ CurrentLease(s) # lease
        BY <2>2, <3>2 DEF CurrentLease
      <4> QED
        BY <1>1, <4>1 DEF Inductive, NoSlotLeaked
    <3> QED
      BY <3>1, <3>2
  <2> QED
    BY <1>3, <2>4, <2>5, <2>6 DEF Inductive
<1>5. CASE ~submission[n].owner
  <2>1. UNCHANGED <<in_use, generation>>
    BY <1>5 DEF Complete, pool
  <2>2. lease \in handles
    BY <1>1, <1>2, <1>5 DEF Inductive, OwnerOK, EntryOK, BusyOK, Leases, NoLease
  <2>3. HandleCurrent' /\ PendingKeepsSlot'
    BY <1>1, <1>2, <2>1 DEF Inductive, HandleCurrent, PendingKeepsSlot, Current
  <2>4. NoSlotLeaked'
    BY <1>1, <1>2, <2>1, <2>2 DEF Inductive, NoSlotLeaked, CurrentLease
  <2> QED
    BY <1>3, <2>3, <2>4 DEF Inductive
<1> QED
  BY <1>4, <1>5

LEMMA InductiveStep ==
    ASSUME TypeOK, Inductive, Next
    PROVE  Inductive'
<1>0. BusyOK /\ pc \in [Threads -> {"idle", "acquire", "submit", "set_owner"}]
      /\ buffer \in [Threads -> Leases \cup {NoLease}]
      /\ entry \in [Threads -> Nat] /\ handles \subseteq Leases
  BY DEF Inductive, TypeOK
<1>1. ASSUME NEW t \in Threads, NEW wait \in Timeouts, AcquireCall(t, wait)
      PROVE  Inductive'
  BY <1>0, <1>1, QuietStep DEF AcquireCall, Idle, Goto, BusyOK, pool
<1>2. ASSUME NEW t \in Threads, NEW lease \in handles, SubmitCall(t, lease)
      PROVE  Inductive'
  BY <1>0, <1>2, QuietStep, NoLeaseType
  DEF SubmitCall, Idle, Goto, Return, BusyOK, pool
<1>3. ASSUME NEW t \in Threads, AcquireSleeps(t) \/ Quiescent PROVE Inductive'
  BY <1>0, <1>3, QuietStep DEF AcquireSleeps, Quiescent, vars, pool, client, BusyOK
<1>4. ASSUME NEW t \in Threads, AcquireRejected(t) PROVE Inductive'
  BY <1>0, <1>4, QuietStep DEF AcquireRejected, Return, BusyOK
<1>5. ASSUME NEW t \in Threads, SubmitRefused(t) PROVE Inductive'
  BY <1>0, <1>5, QuietStep DEF SubmitRefused, Return, BusyOK, pool
<1>6. ASSUME Quiescent PROVE Inductive'
  BY <1>0, <1>6, QuietStep DEF Quiescent, vars, pool, client, BusyOK
<1> QED
  BY <1>1, <1>2, <1>3, <1>4, <1>5, <1>6, TakeStep, AcceptStep, SetOwnerStep,
     ReleaseStep, CompleteStep
  DEF Next

-----------------------------------------------------------------------------
(* The books: occupancy, wakeups.                                          *)

InUse == {s \in Slots : in_use[s]}

LEMMA SlotsFinite ==
    /\ IsFiniteSet(Slots) /\ Cardinality(Slots) = Capacity
    /\ \A S \in SUBSET Slots : IsFiniteSet(S) /\ Cardinality(S) \in 0..Capacity
<1>1. IsFiniteSet(Slots) /\ Cardinality(Slots) = Capacity
  BY FS_Interval, CapacityAssumption DEF Slots
<1>2. ASSUME NEW S \in SUBSET Slots
      PROVE  IsFiniteSet(S) /\ Cardinality(S) \in 0..Capacity
  BY <1>1, FS_Subset, FS_CardinalityType
<1> QED
  BY <1>1, <1>2

\* A critical section of the pool takes a slot, frees one or leaves them.
Takes == \E s \in Slots :
    /\ ~in_use[s] /\ in_use' = [in_use EXCEPT ![s] = TRUE]
    /\ occupied' = occupied + 1 /\ peak' = Peak
Frees == \E s \in Slots :
    /\ in_use[s] /\ in_use' = [in_use EXCEPT ![s] = FALSE]
    /\ occupied' = IF occupied # 0 THEN occupied - 1 ELSE 0
    /\ peak' = peak /\ NotifyOne
Leaves == UNCHANGED <<in_use, occupied, peak>>

LEMMA UnreferenceFrees ==
    ASSUME TypeOK, NEW lease \in Leases, Unreference(lease)
    PROVE  Frees \/ (Leaves /\ UNCHANGED asleep)
<1>1. lease.slot \in Slots
  BY DEF Leases
<1> QED
  BY <1>1 DEF Unreference, Recycle, Frees, Leaves, pool, stats

LEMMA StatsStep ==
    ASSUME TypeOK, StatsAgree, Takes \/ Frees \/ Leaves
    PROVE  StatsAgree'
<1>1. /\ in_use \in [Slots -> BOOLEAN] /\ occupied \in Nat /\ peak \in Nat
      /\ Capacity \in Nat
  BY CapacityAssumption DEF TypeOK
<1>2. /\ IsFiniteSet(InUse) /\ occupied = Cardinality(InUse)
      /\ occupied <= peak /\ peak <= Capacity
  BY SlotsFinite DEF StatsAgree, InUse
<1>3. CASE Takes
  <2>1. PICK s \in Slots :
          /\ ~in_use[s] /\ in_use' = [in_use EXCEPT ![s] = TRUE]
          /\ occupied' = occupied + 1 /\ peak' = Peak
    BY <1>3 DEF Takes
  <2>2. InUse' = InUse \cup {s} /\ s \notin InUse /\ InUse' \in SUBSET Slots
    BY <1>1, <2>1 DEF InUse
  <2>3. Cardinality(InUse') = occupied + 1
    BY <1>2, <2>2, FS_AddElement
  <2>4. occupied + 1 <= Capacity
    BY <2>2, <2>3, SlotsFinite
  <2> QED
    BY <1>1, <1>2, <2>1, <2>3, <2>4 DEF StatsAgree, InUse, Peak
<1>4. CASE Frees
  <2>1. PICK s \in Slots :
          /\ in_use[s] /\ in_use' = [in_use EXCEPT ![s] = FALSE]
          /\ occupied' = IF occupied # 0 THEN occupied - 1 ELSE 0
          /\ peak' = peak
    BY <1>4 DEF Frees
  <2>2. InUse' = InUse \ {s} /\ s \in InUse
    BY <1>1, <2>1 DEF InUse
  <2>3. Cardinality(InUse') = occupied - 1 /\ occupied # 0
    <3>1. Cardinality(InUse') = occupied - 1 /\ IsFiniteSet(InUse')
      BY <1>2, <2>2, FS_RemoveElement
    <3>2. Cardinality(InUse') \in Nat
      BY <3>1, FS_CardinalityType
    <3> QED
      BY <1>1, <3>1, <3>2
  <2> QED
    BY <1>1, <1>2, <2>1, <2>3 DEF StatsAgree, InUse
<1>5. CASE Leaves
  BY <1>5 DEF Leaves, StatsAgree
<1> QED
  BY <1>3, <1>4, <1>5

\* A taken slot needs no wakeup; a freed one is worth one sleeper.
LEMMA TakenSlot ==
    ASSUME TypeOK, AsleepOK, NoLostWakeup, NEW t \in Threads, AcquireTakes(t)
    PROVE  AsleepOK' /\ NoLostWakeup'
<1>1. PICK s \in Slots : ~in_use[s] /\ in_use' = [in_use EXCEPT ![s] = TRUE]
  BY DEF AcquireTakes, Chosen, FreeSlots
<1>2. /\ pc[t] = "acquire" /\ pc' = [pc EXCEPT ![t] = "idle"]
      /\ asleep' = asleep \ {t}
      /\ pc \in [Threads -> {"idle", "acquire", "submit", "set_owner"}]
      /\ in_use \in [Slots -> BOOLEAN]
  BY DEF AcquireTakes, Return, TypeOK
<1>3. AsleepOK'
  BY <1>2 DEF AsleepOK, TypeOK
<1>4. ASSUME Sleepers' # {} PROVE Cardinality(FreeSlots') <= Cardinality(AwakeTakers')
  <2>1. /\ IsFiniteSet(FreeSlots) /\ Cardinality(FreeSlots) \in Nat
        /\ IsFiniteSet(AwakeTakers) /\ Cardinality(AwakeTakers) \in Nat
    BY SlotsFinite, ThreadAssumption, FS_Subset, FS_CardinalityType
    DEF FreeSlots, AwakeTakers
  <2>2. Cardinality(FreeSlots) <= Cardinality(AwakeTakers)
    BY <1>2, <1>4 DEF Sleepers, NoLostWakeup
  <2>3. FreeSlots' = FreeSlots \ {s} /\ s \in FreeSlots
    BY <1>1, <1>2 DEF FreeSlots
  <2>4. AwakeTakers' = AwakeTakers \ {t}
    BY <1>2 DEF AwakeTakers
  <2>5. Cardinality(FreeSlots') = Cardinality(FreeSlots) - 1
    BY <2>1, <2>3, FS_RemoveElement
  <2>6. Cardinality(AwakeTakers') \in {Cardinality(AwakeTakers), Cardinality(AwakeTakers) - 1}
    BY <2>1, <2>4, FS_RemoveElement
  <2> QED
    BY <2>1, <2>2, <2>5, <2>6
<1> QED
  BY <1>3, <1>4 DEF NoLostWakeup

LEMMA FreedSlot ==
    ASSUME TypeOK, AsleepOK, NoLostWakeup, Frees, UNCHANGED pc
    PROVE  AsleepOK' /\ NoLostWakeup'
<1>1. PICK s \in Slots : in_use[s] /\ in_use' = [in_use EXCEPT ![s] = FALSE]
  BY DEF Frees
<1>2. in_use \in [Slots -> BOOLEAN] /\ asleep \subseteq Threads
  BY DEF TypeOK
<1>3. CASE Sleepers = {}
  BY <1>3 DEF Frees, NotifyOne, AsleepOK, NoLostWakeup, Sleepers
<1>4. CASE Sleepers # {}
  <2>1. PICK t \in Sleepers : asleep' = asleep \ {t}
    BY <1>4 DEF Frees, NotifyOne
  <2>2. /\ IsFiniteSet(FreeSlots) /\ Cardinality(FreeSlots) \in Nat
        /\ IsFiniteSet(AwakeTakers) /\ Cardinality(AwakeTakers) \in Nat
    BY SlotsFinite, ThreadAssumption, FS_Subset, FS_CardinalityType
    DEF FreeSlots, AwakeTakers
  <2>3. FreeSlots' = FreeSlots \cup {s} /\ s \notin FreeSlots
    BY <1>1, <1>2 DEF FreeSlots
  <2>4. AwakeTakers' = AwakeTakers \cup {t} /\ t \notin AwakeTakers
    BY <1>2, <2>1 DEF AwakeTakers, Sleepers
  <2>5. Cardinality(FreeSlots') = Cardinality(FreeSlots) + 1
    BY <2>2, <2>3, FS_AddElement
  <2>6. Cardinality(AwakeTakers') = Cardinality(AwakeTakers) + 1
    BY <2>2, <2>4, FS_AddElement
  <2>7. Cardinality(FreeSlots) <= Cardinality(AwakeTakers)
    BY <1>4 DEF NoLostWakeup
  <2>8. AsleepOK'
    BY <2>1 DEF AsleepOK
  <2> QED
    BY <2>2, <2>5, <2>6, <2>7, <2>8 DEF NoLostWakeup
<1> QED
  BY <1>3, <1>4

\* Steps that leave the slots alone: either nobody sleeps with a slot free,
\* or the threads awake in acquire stay there.
LEMMA WaitStep ==
    ASSUME TypeOK, AsleepOK, NoLostWakeup, UNCHANGED in_use,
           AsleepOK',
           \/ FreeSlots = {}
           \/ /\ asleep' = asleep
              /\ \A t \in Threads : pc[t] = "acquire" => pc'[t] = "acquire"
    PROVE  NoLostWakeup'
<1>1. /\ FreeSlots' = FreeSlots /\ Cardinality(FreeSlots) \in Nat
      /\ IsFiniteSet(AwakeTakers') /\ Cardinality(AwakeTakers') \in Nat
  BY SlotsFinite, ThreadAssumption, FS_Subset, FS_CardinalityType
  DEF FreeSlots, AwakeTakers
<1>2. CASE FreeSlots = {}
  BY <1>1, <1>2, FS_EmptySet DEF NoLostWakeup
<1>3. CASE /\ asleep' = asleep
           /\ \A t \in Threads : pc[t] = "acquire" => pc'[t] = "acquire"
  <2>1. Sleepers' # {} => Sleepers # {}
    BY <1>3 DEF AsleepOK, Sleepers
  <2>2. AwakeTakers \subseteq AwakeTakers'
    BY <1>3 DEF AwakeTakers
  <2>3. Cardinality(AwakeTakers) <= Cardinality(AwakeTakers')
        /\ Cardinality(AwakeTakers) \in Nat
    BY <1>1, <2>2, FS_Subset, FS_CardinalityType
  <2> QED
    BY <1>1, <2>1, <2>3 DEF NoLostWakeup
<1> QED
  BY <1>2, <1>3

WaitBooks == StatsAgree /\ AsleepOK /\ NoLostWakeup

LEMMA ReleaseBooks ==
    ASSUME TypeOK, WaitBooks, NEW lease \in Leases, Unreference(lease), UNCHANGED pc
    PROVE  WaitBooks'
<1>1. CASE Frees
  BY <1>1, StatsStep, FreedSlot DEF WaitBooks
<1>2. CASE Leaves /\ UNCHANGED asleep
  BY <1>2, StatsStep, WaitStep DEF WaitBooks, Leaves, AsleepOK
<1> QED
  BY <1>1, <1>2, UnreferenceFrees

LEMMA BooksStep ==
    ASSUME TypeOK, WaitBooks, Next
    PROVE  WaitBooks'
<1>0. /\ pc \in [Threads -> {"idle", "acquire", "submit", "set_owner"}]
      /\ asleep \subseteq Threads
  BY DEF TypeOK
\* What a step does that neither takes a slot nor drops a reference.
<1>1. ASSUME UNCHANGED <<in_use, occupied, peak>>, AsleepOK',
             \/ FreeSlots = {}
             \/ /\ asleep' = asleep
                /\ \A u \in Threads : pc[u] = "acquire" => pc'[u] = "acquire"
      PROVE  WaitBooks'
  BY <1>1, StatsStep, WaitStep DEF WaitBooks, Leaves
<1>2. ASSUME NEW t \in Threads, NEW wait \in Timeouts, AcquireCall(t, wait)
      PROVE  WaitBooks'
  BY <1>0, <1>1, <1>2 DEF AcquireCall, Idle, Goto, pool, stats, WaitBooks, AsleepOK
<1>3. ASSUME NEW t \in Threads, NEW lease \in handles, SubmitCall(t, lease)
      PROVE  WaitBooks'
  BY <1>0, <1>1, <1>3
  DEF SubmitCall, Idle, Goto, Return, pool, stats, WaitBooks, AsleepOK
<1>4. ASSUME NEW t \in Threads, AcquireSleeps(t) PROVE WaitBooks'
  BY <1>0, <1>1, <1>4 DEF AcquireSleeps, pool, stats, client, WaitBooks, AsleepOK
<1>5. ASSUME NEW t \in Threads, AcquireRejected(t) PROVE WaitBooks'
  BY <1>0, <1>1, <1>5 DEF AcquireRejected, Return, WaitBooks, AsleepOK
<1>6. ASSUME NEW t \in Threads, AcquireTakes(t) PROVE WaitBooks'
  <2>1. Takes
    BY <1>6 DEF AcquireTakes, Chosen, FreeSlots, Takes
  <2> QED
    BY <1>6, <2>1, StatsStep, TakenSlot DEF WaitBooks
<1>7. ASSUME NEW t \in Threads, SubmitRefused(t) \/ SubmitAccepted(t) \/ SetOwner(t)
      PROVE  WaitBooks'
  BY <1>0, <1>1, <1>7
  DEF SubmitRefused, SubmitAccepted, SetOwner, Goto, Return, pool, stats,
      WaitBooks, AsleepOK
<1>8. ASSUME ReleaseBuffer PROVE WaitBooks'
  <2>1. PICK lease \in handles : Unreference(lease) /\ UNCHANGED client
    BY <1>8 DEF ReleaseBuffer
  <2> QED
    BY <2>1, ReleaseBooks DEF TypeOK, client
<1>9. ASSUME NEW n \in 1..MaxSubmissions, NEW outcome \in Outcomes, Complete(n, outcome)
      PROVE  WaitBooks'
  <2>1. submission[n].lease \in Leases
    BY <1>9, CompleteEffect, n \in Nat
  <2>2. CASE Unreference(submission[n].lease)
    BY <1>9, <2>1, <2>2, ReleaseBooks DEF Complete, client
  <2>3. CASE UNCHANGED <<pool, asleep>>
    BY <1>0, <1>1, <1>9, <2>3 DEF Complete, client, pool, stats, WaitBooks, AsleepOK
  <2> QED
    BY <1>9, <2>2, <2>3 DEF Complete
<1>10. ASSUME Quiescent PROVE WaitBooks'
  BY <1>0, <1>1, <1>10 DEF Quiescent, vars, pool, stats, client, WaitBooks, AsleepOK
<1> QED
  BY <1>2, <1>3, <1>4, <1>5, <1>6, <1>7, <1>8, <1>9, <1>10 DEF Next

(* The whole inductive invariant of the pool.                              *)
PoolInvariant == TypeOK /\ Inductive /\ WaitBooks

LEMMA PoolInvariantHolds == Spec => []PoolInvariant
<1>1. Init => PoolInvariant
  <2> SUFFICES ASSUME Init PROVE WaitBooks
    BY InitPool DEF PoolInvariant
  <2>1. {s \in Slots : in_use[s]} = {}
    BY DEF Init
  <2>2. Cardinality({s \in Slots : in_use[s]}) = 0
    BY <2>1, FS_EmptySet
  <2>3. StatsAgree
    BY <2>2, CapacityAssumption DEF Init, StatsAgree
  <2>4. AsleepOK /\ Sleepers = {}
    BY DEF Init, AsleepOK, Sleepers
  <2> QED
    BY <2>3, <2>4 DEF WaitBooks, NoLostWakeup
<1>2. PoolInvariant /\ [Next]_vars => PoolInvariant'
  <2>1. ASSUME PoolInvariant, UNCHANGED vars PROVE PoolInvariant'
    <3>1. TypeOK'
      BY <2>1 DEF PoolInvariant, vars, pool, stats, client, TypeOK
    <3>2. Inductive'
      BY <2>1, QuietStep DEF PoolInvariant, vars, pool, client, Inductive, BusyOK
    <3>3. WaitBooks'
      BY <2>1 DEF PoolInvariant, vars, pool, stats, client, WaitBooks, StatsAgree,
         AsleepOK, NoLostWakeup, Sleepers, FreeSlots, AwakeTakers
    <3> QED
      BY <3>1, <3>2, <3>3 DEF PoolInvariant
  <2>2. ASSUME PoolInvariant, Next PROVE PoolInvariant'
    BY <2>2, TypeStep, InductiveStep, BooksStep DEF PoolInvariant, Inductive
  <2> QED
    BY <2>1, <2>2
<1> QED
  BY <1>1, <1>2, PTL DEF Spec

(* Every variable of the pool and of its clients keeps its type, for any   *)
(* capacity and any number of threads.                                     *)
THEOREM TypeCorrect == Spec => []TypeOK
<1>1. PoolInvariant => TypeOK
  BY DEF PoolInvariant
<1> QED
  BY <1>1, PoolInvariantHolds, PTL

(* The books of the pool agree in every state: a live handle is current, a *)
(* slot in use has somebody, in_use_ counts the slots in use and           *)
(* peak_in_use_ covers it within the capacity.                             *)
THEOREM Accounting == Spec => []SlotAccounting
<1>1. PoolInvariant => SlotAccounting
  BY DEF PoolInvariant, Inductive, WaitBooks, SlotAccounting
<1> QED
  BY <1>1, PoolInvariantHolds, PTL

(* notify_one is enough: while somebody sleeps in acquire every free slot  *)
(* has a thread awake that will take it.                                   *)
THEOREM Wakeups == Spec => []NoLostWakeup
<1>1. PoolInvariant => NoLostWakeup
  BY DEF PoolInvariant, WaitBooks
<1> QED
  BY <1>1, PoolInvariantHolds, PTL

(* The pixels a submission lends to the encoder stay leased until it is    *)
(* complete; live handles are current; and no slot stays in use for        *)
(* nobody (EXT-ENC-013), whatever the order in which the encoder completes *)
(* the submission, set_owner runs and the caller releases the buffer.      *)
THEOREM Leased ==
    Spec => [](TypeOK /\ HandleCurrent /\ PendingKeepsSlot /\ NoSlotLeaked)
<1>1. PoolInvariant => TypeOK /\ HandleCurrent /\ PendingKeepsSlot /\ NoSlotLeaked
  BY DEF PoolInvariant, Inductive
<1> QED
  BY <1>1, PoolInvariantHolds, PTL

-----------------------------------------------------------------------------
(* The pool implements LeasePool.                                          *)

LEMMA SetOnceStep ==
    ASSUME TypeOK, Inductive, SetOnce, Next
    PROVE  SetOnce'
<1>0. /\ pc \in [Threads -> {"idle", "acquire", "submit", "set_owner"}]
      /\ entry \in [Threads -> Nat] /\ EntryOK /\ BusyOK
  BY DEF TypeOK, Inductive
\* Nobody enters set_owner and no submission gets an owner.
<1>1. ASSUME \A u \in Threads : pc'[u] = "set_owner" =>
                /\ pc[u] = "set_owner" /\ entry'[u] = entry[u]
                /\ submission'[entry[u]].owner => submission[entry[u]].owner
      PROVE  SetOnce'
  BY <1>1 DEF SetOnce
<1>2. ASSUME NEW t \in Threads,
             \/ \E wait \in Timeouts : AcquireCall(t, wait)
             \/ \E lease \in handles : SubmitCall(t, lease)
             \/ AcquireSleeps(t) \/ AcquireRejected(t) \/ AcquireTakes(t)
             \/ SubmitRefused(t)
      PROVE  SetOnce'
  <2>1. submission' = submission
    BY <1>2 DEF AcquireCall, SubmitCall, AcquireSleeps, AcquireRejected, AcquireTakes,
       SubmitRefused
  <2>2. \A u \in Threads : pc'[u] = "set_owner" =>
            pc[u] = "set_owner" /\ entry'[u] = entry[u]
    BY <1>0, <1>2 DEF AcquireCall, SubmitCall, AcquireSleeps, AcquireRejected,
       AcquireTakes, SubmitRefused, Goto, Return, client
  <2> QED
    BY <1>1, <2>1, <2>2
<1>3. ASSUME NEW t \in Threads, SubmitAccepted(t) PROVE SetOnce'
  <2> DEFINE last == Len(submission) + 1
  <2>1. /\ DOMAIN submission = 1..Len(submission) /\ Len(submission) \in Nat
        /\ submission'[last] =
             [lease |-> buffer[t], state |-> "pending", owner |-> FALSE]
        /\ \A m \in DOMAIN submission : submission'[m] = submission[m]
    BY <1>0, <1>3, AcceptEffect
  <2>2. /\ pc' = [pc EXCEPT ![t] = "set_owner"] /\ entry' = [entry EXCEPT ![t] = last]
    BY <1>3 DEF SubmitAccepted, Goto
  <2>3. \A u \in Threads : pc[u] = "set_owner" =>
            entry[u] \in DOMAIN submission /\ entry[u] # last
    BY <1>0, <2>1 DEF EntryOK
  <2> QED
    BY <1>0, <2>1, <2>2, <2>3 DEF SetOnce
<1>4. ASSUME NEW t \in Threads, SetOwner(t) PROVE SetOnce'
  <2>1. /\ pc' = [pc EXCEPT ![t] = "idle"] /\ entry' = [entry EXCEPT ![t] = 0]
        /\ pc[t] = "set_owner"
    BY <1>4 DEF SetOwner, Return
  <2>2. \A m \in DOMAIN submission : m # entry[t] =>
            submission'[m].owner = submission[m].owner
    BY <1>0, <1>4, SetOwnerEffect
  <2> QED
    BY <1>0, <1>1, <2>1, <2>2 DEF SetOnce, EntryOK
<1>5. ASSUME ReleaseBuffer PROVE SetOnce'
  BY <1>1, <1>5 DEF ReleaseBuffer, client
<1>6. ASSUME NEW n \in 1..MaxSubmissions, NEW outcome \in Outcomes, Complete(n, outcome)
      PROVE  SetOnce'
  <2>1. /\ submission'[n].owner = FALSE
        /\ \A m \in DOMAIN submission \ {n} : submission'[m] = submission[m]
    BY <1>6, CompleteEffect, n \in Nat
  <2> QED
    BY <1>0, <1>1, <1>6, <2>1 DEF Complete, client, EntryOK
<1>7. ASSUME Quiescent PROVE SetOnce'
  BY <1>1, <1>7 DEF Quiescent, vars, client
<1> QED
  BY <1>2, <1>3, <1>4, <1>5, <1>6, <1>7 DEF Next

LEMMA OwnersFinite ==
    ASSUME TypeOK, NEW lease
    PROVE  /\ IsFiniteSet(Owners(lease, submission))
           /\ Cardinality(Owners(lease, submission)) \in Nat
<1>1. IsFiniteSet(DOMAIN submission)
  BY LenProperties, FS_Interval DEF TypeOK
<1> QED
  BY <1>1, FS_Subset, FS_CardinalityType DEF Owners

\* The references of a slot depend on its current lease only.
LEMMA SameReferences ==
    ASSUME NEW s \in Slots, generation'[s] = generation[s],
           Owners(CurrentLease(s), submission') = Owners(CurrentLease(s), submission),
           CurrentLease(s) \in handles' <=> CurrentLease(s) \in handles
    PROVE  References'[s] = References[s]
<1>1. CurrentLease(s)' = CurrentLease(s)
  BY DEF CurrentLease
<1>2. Owners(CurrentLease(s), submission)' = Owners(CurrentLease(s), submission)
  BY <1>1 DEF Owners
<1> QED
  BY <1>1, <1>2 DEF References

\* Nothing happens to the slots.
LEMMA LeasesStutter ==
    ASSUME UNCHANGED <<in_use, generation, handles>>,
           \A s \in Slots :
               Owners(CurrentLease(s), submission') = Owners(CurrentLease(s), submission)
    PROVE  UNCHANGED Leasing!vars
<1>1. \A s \in Slots : References'[s] = References[s]
  BY SameReferences
<1>2. References' = References
  BY <1>1 DEF References
<1> QED
  BY <1>2 DEF Leasing!vars, FreeSlots

LEMMA TakeLeases ==
    ASSUME TypeOK, Inductive, NEW t \in Threads, AcquireTakes(t)
    PROVE  Leasing!Next
<1>1. PICK s \in Slots :
        /\ ~in_use[s]
        /\ in_use' = [in_use EXCEPT ![s] = TRUE]
        /\ generation' = [generation EXCEPT ![s] = @ + 1]
        /\ handles' = handles \cup {[slot |-> s, generation |-> generation[s] + 1]}
  BY DEF AcquireTakes, Chosen, FreeSlots, NextGeneration
<1>2. /\ in_use \in [Slots -> BOOLEAN] /\ generation \in [Slots -> Nat]
      /\ handles \subseteq Leases /\ submission' = submission
  BY DEF TypeOK, AcquireTakes
<1>3. CurrentLease(s)' = [slot |-> s, generation |-> generation[s] + 1]
  BY <1>1, <1>2 DEF CurrentLease
<1>4. Owners(CurrentLease(s), submission)' = {}
  <2>1. ASSUME NEW n \in DOMAIN submission, submission[n].owner
        PROVE  submission[n].lease # CurrentLease(s)'
    <3>1. Current(submission[n].lease)
      BY <2>1 DEF Inductive, OwnerOK, PendingKeepsSlot
    <3> QED
      BY <1>1, <1>3, <3>1 DEF Current
  <2> QED
    BY <1>2, <2>1 DEF Owners
<1>5. References'[s] = 1
  <2>1. CurrentLease(s)' \in handles'
    BY <1>1, <1>3
  <2> QED
    BY <1>4, <2>1, FS_EmptySet DEF References
<1>6. ASSUME NEW r \in Slots, r # s PROVE References'[r] = References[r]
  <2>1. generation'[r] = generation[r]
    BY <1>1, <1>2, <1>6
  <2>2. CurrentLease(r) \in handles' <=> CurrentLease(r) \in handles
    BY <1>1, <1>6 DEF CurrentLease
  <2> QED
    BY <1>2, <2>1, <2>2, SameReferences
<1>7. References' = [References EXCEPT ![s] = 1]
  BY <1>5, <1>6 DEF References
<1>8. FreeSlots' = FreeSlots \ {s} /\ s \in FreeSlots
  BY <1>1, <1>2 DEF FreeSlots
<1> QED
  BY <1>1, <1>7, <1>8 DEF Leasing!Next, Leasing!Lease

\* One reference less to a current lease, by the handle or by an owner_.
LEMMA DropLeases ==
    ASSUME TypeOK, NEW lease \in Leases, Current(lease), Unreference(lease),
           References'[lease.slot] = References[lease.slot] - 1,
           References[lease.slot] \in Nat \ {0},
           References[lease.slot] = 1 <=>
               lease \notin handles' /\ Owners(lease, submission') = {},
           \A r \in Slots \ {lease.slot} :
               generation' = generation => References'[r] = References[r]
    PROVE  Leasing!Next
<1> DEFINE s == lease.slot
<1>1. s \in Slots /\ in_use \in [Slots -> BOOLEAN] /\ in_use[s]
  BY DEF Leases, TypeOK, Current
<1>2. /\ generation' = generation
      /\ \A r \in Slots \ {s} : in_use'[r] = in_use[r]
      /\ References[s] = 1 => ~in_use'[s]
      /\ References[s] # 1 => in_use' = in_use
  BY UnreferenceEffect
<1>3. References' = [References EXCEPT ![s] = @ - 1]
  BY <1>1, <1>2 DEF References
<1>4. FreeSlots' = IF References[s] = 1 THEN FreeSlots \cup {s} ELSE FreeSlots
  BY <1>1, <1>2 DEF FreeSlots
<1>5. References[s] > 0
  OBVIOUS
<1>6. Leasing!Drop(s)
  BY <1>2, <1>3, <1>4, <1>5 DEF Leasing!Drop
<1> QED
  BY <1>1, <1>6 DEF Leasing!Next

LEMMA ReleaseLeases ==
    ASSUME TypeOK, Inductive, ReleaseBuffer
    PROVE  Leasing!Next
<1>1. PICK lease \in handles :
        /\ handles' = handles \ {lease} /\ submission' = submission
        /\ Unreference(lease)
  BY DEF ReleaseBuffer
<1>2. lease \in Leases /\ Current(lease) /\ lease = CurrentLease(lease.slot)
      /\ lease.slot \in Slots
  BY <1>1, CurrentIsLease DEF TypeOK, Inductive, HandleCurrent
<1>3. generation' = generation
  BY <1>1, <1>2, UnreferenceEffect
<1>4. References[lease.slot] = Cardinality(Owners(lease, submission)) + 1
  BY <1>1, <1>2 DEF References
<1>5. References'[lease.slot] = Cardinality(Owners(lease, submission))
  <2>1. CurrentLease(lease.slot)' = lease
    BY <1>2, <1>3 DEF CurrentLease
  <2>2. Owners(CurrentLease(lease.slot), submission)' = Owners(lease, submission)
    BY <1>1, <2>1 DEF Owners
  <2>3. References'[lease.slot] = Cardinality(Owners(lease, submission)) + 0
    BY <1>1, <1>2, <2>1, <2>2 DEF References
  <2> QED
    BY <2>3, OwnersFinite
<1>6. Cardinality(Owners(lease, submission)) = 0 <=> Owners(lease, submission) = {}
  BY OwnersFinite, FS_EmptySet
<1>7. ASSUME NEW r \in Slots \ {lease.slot} PROVE References'[r] = References[r]
  <2>1. CurrentLease(r) # lease
    BY <1>7 DEF CurrentLease
  <2> QED
    BY <1>1, <1>3, <2>1, SameReferences
<1> QED
  BY <1>1, <1>2, <1>4, <1>5, <1>6, <1>7, OwnersFinite, DropLeases

LEMMA CompleteLeases ==
    ASSUME TypeOK, Inductive, NEW n \in Nat, NEW outcome \in Outcomes,
           Complete(n, outcome)
    PROVE  Leasing!Next \/ UNCHANGED Leasing!vars
<1>0. PICK lease : lease = submission[n].lease
  OBVIOUS
<1> DEFINE s == lease.slot
           before == Owners(lease, submission)
           after == Owners(lease, submission')
<1>1. /\ DOMAIN submission' = DOMAIN submission /\ n \in DOMAIN submission
      /\ lease \in Leases /\ submission'[n].lease = lease
      /\ submission'[n].owner = FALSE
      /\ \A m \in DOMAIN submission \ {n} : submission'[m] = submission[m]
  BY <1>0, CompleteEffect, LenProperties DEF TypeOK
<1>2. /\ handles' = handles /\ Current(lease)
  BY <1>0 DEF Complete, Inductive, PendingKeepsSlot
<1>3. \A l : l # lease => Owners(l, submission') = Owners(l, submission)
  BY <1>0, <1>1 DEF Owners
<1>4. after = before \ {n}
  BY <1>0, <1>1 DEF Owners
<1>5. CASE submission[n].owner
  <2>1. Unreference(lease)
    BY <1>0, <1>5 DEF Complete
  <2>2. generation' = generation /\ lease = CurrentLease(s) /\ s \in Slots
    BY <1>1, <1>2, <2>1, UnreferenceEffect, CurrentIsLease
  <2>3. /\ IsFiniteSet(before) /\ Cardinality(before) \in Nat
        /\ IsFiniteSet(after) /\ Cardinality(after) \in Nat
        /\ Cardinality(after) = Cardinality(before) - 1
    <3>1. n \in before
      BY <1>0, <1>1, <1>5 DEF Owners
    <3>2. IsFiniteSet(before) /\ Cardinality(before) \in Nat
      BY OwnersFinite
    <3> HIDE DEF before, after
    <3>3. IsFiniteSet(after) /\ Cardinality(after) = Cardinality(before) - 1
      BY <1>4, <3>1, <3>2, FS_RemoveElement
    <3> QED
      BY <3>2, <3>3, FS_CardinalityType
  <2>4. Cardinality(after) = 0 <=> after = {}
    BY <2>3, FS_EmptySet
  <2>5. References[s] = Cardinality(before) + IF lease \in handles THEN 1 ELSE 0
    BY <2>2 DEF References
  <2>6. References'[s] = Cardinality(after) + IF lease \in handles THEN 1 ELSE 0
    <3>1. CurrentLease(s)' = lease
      BY <2>2 DEF CurrentLease
    <3>2. Owners(CurrentLease(s), submission)' = after
      BY <3>1 DEF Owners
    <3> QED
      BY <1>2, <2>2, <3>1, <3>2 DEF References
  <2>7. ASSUME NEW r \in Slots \ {s} PROVE References'[r] = References[r]
    <3>1. CurrentLease(r) # lease
      BY <2>7 DEF CurrentLease
    <3> QED
      BY <1>2, <1>3, <2>2, <3>1, SameReferences
  <2>8. /\ References'[s] = References[s] - 1 /\ References[s] \in Nat \ {0}
        /\ References[s] = 1 <=> lease \notin handles' /\ after = {}
    BY <1>2, <2>3, <2>4, <2>5, <2>6
  <2> QED
    BY <1>1, <1>2, <2>1, <2>7, <2>8, DropLeases
<1>6. CASE ~submission[n].owner
  <2>1. UNCHANGED <<in_use, generation>>
    BY <1>6 DEF Complete, pool
  <2>2. after = before
    BY <1>0, <1>4, <1>6 DEF Owners
  <2> QED
    BY <1>2, <1>3, <2>1, <2>2, LeasesStutter
<1> QED
  BY <1>5, <1>6

LEMMA SetOwnerLeases ==
    ASSUME TypeOK, Inductive, SetOnce, NEW t \in Threads, SetOwner(t)
    PROVE  Leasing!Next \/ UNCHANGED Leasing!vars
<1> DEFINE n == entry[t]
<1>0. PICK lease : lease = submission[n].lease
  OBVIOUS
<1> DEFINE s == lease.slot
           before == Owners(lease, submission)
           after == Owners(lease, submission')
<1>1. /\ DOMAIN submission' = DOMAIN submission /\ n \in DOMAIN submission
      /\ \A m \in DOMAIN submission :
           /\ submission'[m].lease = submission[m].lease
           /\ submission'[m].owner =
                IF m = n THEN submission[m].state = "pending"
                ELSE submission[m].owner
  BY SetOwnerEffect, LenProperties DEF Owned, TypeOK, Inductive, EntryOK, SetOwner
<1>2. UNCHANGED <<in_use, generation, handles>> /\ ~submission[n].owner
  BY DEF SetOwner, pool, stats, SetOnce
<1>3. \A l : l # lease => Owners(l, submission') = Owners(l, submission)
  BY <1>0, <1>1 DEF Owners
<1>4. CASE submission[n].state = "pending"
  <2>1. lease \in Leases /\ Current(lease)
    BY <1>0, <1>1, <1>4, SubmissionLease DEF Inductive, PendingKeepsSlot
  <2>2. lease = CurrentLease(s) /\ s \in Slots /\ in_use[s]
    BY <2>1, CurrentIsLease DEF Current
  <2>3. Cardinality(after) = Cardinality(before) + 1 /\ Cardinality(before) \in Nat
    <3>1. n \notin before /\ after = before \cup {n}
      BY <1>0, <1>1, <1>2, <1>4 DEF Owners
    <3>2. IsFiniteSet(before) /\ Cardinality(before) \in Nat
      BY OwnersFinite
    <3> HIDE DEF before, after
    <3> QED
      BY <3>1, <3>2, FS_AddElement
  <2>4. References[s] = Cardinality(before) + IF lease \in handles THEN 1 ELSE 0
    BY <2>2 DEF References
  <2>5. References'[s] = Cardinality(after) + IF lease \in handles THEN 1 ELSE 0
    <3>1. CurrentLease(s)' = lease
      BY <1>2, <2>2 DEF CurrentLease
    <3>2. Owners(CurrentLease(s), submission)' = after
      BY <3>1 DEF Owners
    <3> QED
      BY <1>2, <2>2, <3>1, <3>2 DEF References
  <2>6. ASSUME NEW r \in Slots \ {s} PROVE References'[r] = References[r]
    <3>1. CurrentLease(r) # lease
      BY <2>6 DEF CurrentLease
    <3> QED
      BY <1>2, <1>3, <3>1, SameReferences
  <2>7. References'[s] = References[s] + 1
    BY <2>3, <2>4, <2>5
  <2>8. References' = [References EXCEPT ![s] = @ + 1]
    BY <2>2, <2>6, <2>7 DEF References
  <2>9. s \notin FreeSlots /\ FreeSlots' = FreeSlots
    BY <1>2, <2>2 DEF FreeSlots
  <2> QED
    BY <1>2, <2>2, <2>8, <2>9 DEF Leasing!Next, Leasing!Share
<1>5. CASE submission[n].state # "pending"
  <2>1. after = before
    BY <1>0, <1>1, <1>2, <1>5 DEF Owners
  <2> QED
    BY <1>2, <1>3, <2>1, LeasesStutter
<1> QED
  BY <1>4, <1>5

\* submit_borrowed alone keeps nothing alive: the owner_ comes later.
LEMMA AcceptLeases ==
    ASSUME TypeOK, Inductive, NEW t \in Threads, SubmitAccepted(t)
    PROVE  UNCHANGED Leasing!vars
<1> DEFINE last == Len(submission) + 1
<1>1. /\ DOMAIN submission = 1..Len(submission) /\ Len(submission) \in Nat
      /\ DOMAIN submission' = 1..last
      /\ submission'[last] =
           [lease |-> buffer[t], state |-> "pending", owner |-> FALSE]
      /\ \A m \in DOMAIN submission : submission'[m] = submission[m]
  BY AcceptEffect DEF Inductive
<1>2. \A l : Owners(l, submission') = Owners(l, submission)
  BY <1>1 DEF Owners
<1> QED
  BY <1>2, LeasesStutter DEF SubmitAccepted, pool

(* Slots are leased only while free, each lease has a fresh generation,    *)
(* handle and owner_ share it, and the slot is free in the very step that  *)
(* drops the last of them: the pool implements LeasePool.                  *)
THEOREM LeaseRefinement == Spec => RefinesLeasePool
<1>1. Init => SetOnce /\ Leasing!Init
  <2> SUFFICES ASSUME Init PROVE SetOnce /\ Leasing!Init
    OBVIOUS
  <2>1. SetOnce
    BY DEF Init, SetOnce
  <2>2. FreeSlots = Slots
    BY DEF Init, FreeSlots
  <2>3. ASSUME NEW s \in Slots PROVE References[s] = 0
    <3>1. Owners(CurrentLease(s), submission) = {}
      BY EmptySeq, LenProperties DEF Init, Owners
    <3>2. Cardinality(Owners(CurrentLease(s), submission)) = 0
      BY <3>1, FS_EmptySet
    <3>3. CurrentLease(s) \notin handles
      BY DEF Init
    <3> QED
      BY <3>2, <3>3 DEF References
  <2>4. References = [s \in Slots |-> 0]
    BY <2>3 DEF References
  <2> QED
    BY <2>1, <2>2, <2>4 DEF Init, Leasing!Init
<1>2. PoolInvariant /\ SetOnce /\ [Next]_vars
        => SetOnce' /\ [Leasing!Next]_(Leasing!vars)
  <2> SUFFICES ASSUME TypeOK, Inductive, SetOnce, [Next]_vars
               PROVE  SetOnce' /\ (Leasing!Next \/ UNCHANGED Leasing!vars)
    BY DEF PoolInvariant
  <2>0. ASSUME UNCHANGED <<in_use, generation, handles, submission>>
        PROVE  UNCHANGED Leasing!vars
    BY <2>0, LeasesStutter DEF Owners
  <2>1. CASE UNCHANGED vars
    BY <2>0, <2>1 DEF vars, pool, client, SetOnce
  <2>2. CASE Next
    <3>1. SetOnce'
      BY <2>2, SetOnceStep
    <3>2. ASSUME NEW t \in Threads,
                 \/ \E wait \in Timeouts : AcquireCall(t, wait)
                 \/ \E lease \in handles : SubmitCall(t, lease)
                 \/ AcquireSleeps(t) \/ AcquireRejected(t) \/ SubmitRefused(t)
          PROVE  UNCHANGED Leasing!vars
      BY <2>0, <3>2 DEF AcquireCall, SubmitCall, AcquireSleeps, AcquireRejected,
         SubmitRefused, pool
    <3>3. ASSUME Quiescent PROVE UNCHANGED Leasing!vars
      BY <2>0, <3>3 DEF Quiescent, vars, pool
    <3>4. ASSUME NEW n \in 1..MaxSubmissions, NEW outcome \in Outcomes,
                 Complete(n, outcome)
          PROVE  Leasing!Next \/ UNCHANGED Leasing!vars
      BY <3>4, CompleteLeases, n \in Nat
    <3> QED
      BY <2>2, <3>1, <3>2, <3>3, <3>4, TakeLeases, AcceptLeases, SetOwnerLeases,
         ReleaseLeases
      DEF Next
  <2> QED
    BY <2>1, <2>2
<1> QED
  BY <1>1, <1>2, PoolInvariantHolds, PTL DEF Spec, RefinesLeasePool, Leasing!Spec

=============================================================================
