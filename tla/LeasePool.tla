------------------------------ MODULE LeasePool ------------------------------
(***************************************************************************)
(* What a fixed pool of reusable frame buffers promises: a slot is leased  *)
(* only while it is free, every lease has a generation of its own, a lease *)
(* may be shared by several holders, and the slot is free again in the     *)
(* step in which its last holder lets go - neither earlier nor later.      *)
(***************************************************************************)
EXTENDS Naturals

CONSTANT Slots

VARIABLES
    free,        \* slots that may be leased
    holders,     \* slot -> number of holders of its current lease
    generation   \* slot -> number of leases it has had

vars == <<free, holders, generation>>

Init ==
    /\ free = Slots
    /\ holders = [s \in Slots |-> 0]
    /\ generation = [s \in Slots |-> 0]

Lease(s) ==
    /\ s \in free
    /\ free' = free \ {s}
    /\ holders' = [holders EXCEPT ![s] = 1]
    /\ generation' = [generation EXCEPT ![s] = @ + 1]

Share(s) ==
    /\ s \notin free
    /\ holders' = [holders EXCEPT ![s] = @ + 1]
    /\ UNCHANGED <<free, generation>>

Drop(s) ==
    /\ holders[s] > 0
    /\ holders' = [holders EXCEPT ![s] = @ - 1]
    /\ free' = IF holders[s] = 1 THEN free \cup {s} ELSE free
    /\ UNCHANGED generation

Next == \E s \in Slots : Lease(s) \/ Share(s) \/ Drop(s)

Spec == Init /\ [][Next]_vars

=============================================================================
