--------------------------- MODULE OrderedPipeline ---------------------------
(***************************************************************************)
(* What the encoder session promises its callers, without queue, threads,  *)
(* buffers or locks.  Frames are numbered in the order they are accepted   *)
(* and delivered in that order.  Frames up to the horizon will still be    *)
(* delivered; an abort (cancel or a failure) pulls the horizon back, a     *)
(* close does not.  Nothing is accepted once the pipeline leaves "open".   *)
(* It ends "done" with everything up to the horizon delivered, or "dead".  *)
(***************************************************************************)
EXTENDS Naturals

VARIABLES accepted, delivered, horizon, synced, phase

Alive == phase \in {"open", "stopping"}

vars == <<accepted, delivered, horizon, synced, phase>>

Init ==
    /\ accepted = 0 /\ delivered = 0 /\ horizon = 0 /\ synced = 0
    /\ phase = "open"

Accept ==
    /\ phase = "open"
    /\ accepted' = accepted + 1 /\ horizon' = horizon + 1
    /\ UNCHANGED <<delivered, synced, phase>>

Deliver ==
    /\ Alive /\ delivered < horizon
    /\ delivered' = delivered + 1
    /\ UNCHANGED <<accepted, horizon, synced, phase>>

\* What was delivered so far becomes durable (a flush barrier).
Sync ==
    /\ Alive
    /\ synced' = delivered
    /\ UNCHANGED <<accepted, delivered, horizon, phase>>

Close ==
    /\ phase = "open" /\ phase' = "stopping"
    /\ UNCHANGED <<accepted, delivered, horizon, synced>>

\* The frames beyond the new horizon are discarded.
Abort ==
    /\ Alive /\ phase' = "stopping"
    /\ horizon' \in delivered..horizon
    /\ UNCHANGED <<accepted, delivered, synced>>

Finish ==
    /\ phase = "stopping" /\ delivered = horizon
    /\ phase' = "done"
    /\ UNCHANGED <<accepted, delivered, horizon, synced>>

\* The pipeline breaks: what is not delivered is discarded at once.
Break ==
    /\ Alive /\ phase' = "dead"
    /\ horizon' = delivered
    /\ UNCHANGED <<accepted, delivered, synced>>

Next == Accept \/ Deliver \/ Sync \/ Close \/ Abort \/ Finish \/ Break

Spec == Init /\ [][Next]_vars
FairSpec == Spec /\ WF_vars(Deliver) /\ WF_vars(Finish)

=============================================================================
