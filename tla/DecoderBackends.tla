---------------------------- MODULE DecoderBackends ----------------------------
(***************************************************************************)
(* A decoder handle without prefetch over whichever backend create_backend *)
(* made for it: the calls of SyncDecoder composed with the steps of        *)
(* CpuDecoder, IntelDecoder or NvDecoder.                                  *)
(***************************************************************************)
EXTENDS CpuDecoder, IntelDecoder, NvDecoder

vars == <<shared, nvdec>>

Init == InitShared /\ InitNv

Quiescent ==
    /\ pc = "idle" /\ calls = MaxCalls /\ held = {} /\ releasing = {}
    /\ UNCHANGED vars

HandleNext == Read \/ ReadGpu \/ SetCopyPolicy \/ Close

Next ==
    \/ HandleNext /\ UNCHANGED nvdec
    \/ CpuNext /\ UNCHANGED nvdec
    \/ IntelNext /\ UNCHANGED nvdec
    \/ NvNext
    \/ Quiescent

Spec == Init /\ [][Next]_vars

-----------------------------------------------------------------------------
(* Properties                                                              *)

Queued == Items(ready) \cup Items(out) \cup Items(completed) \cup Items(completed_gpu)
DeliveredFrames == {delivered[i].frame : i \in DOMAIN delivered}

(* EXT-DEC-003: each way of reading gives the frames in display order, and *)
(* no frame is given twice, whatever failed and was retried in between.    *)
DeliveredInOrder ==
    \A i, j \in DOMAIN delivered :
        i < j => /\ delivered[i].frame # delivered[j].frame
                 /\ delivered[i].how = delivered[j].how =>
                        delivered[i].frame < delivered[j].frame

\* A caller who got END and none of these failures has all but what was
\* dropped.
Complete(failures, dropped) ==
    ret = "END" /\ ~closed /\ reported \cap failures = {} =>
        AllFrames \ dropped \subseteq DeliveredFrames \cup Queued

(* The results after which a frame may be missing.                         *)
Losses == IF kind = "nvidia" THEN Failures \ {"WOULD_BLOCK"} ELSE Failures

(* END is only said when every frame was delivered, unless a read reported *)
(* a failure: no frame is left in the file, the codec or the queues.  For  *)
(* NVDEC a full pool is no failure: the read did nothing.  The one loss    *)
(* nobody reports is what oneVPL gave up with a warning: the frames of the *)
(* rest of that packet, or the surface without a sync point, and no other. *)
EndIsComplete ==
    /\ DeliveredInOrder
    /\ Complete(Losses, lost)

(* mkvc.h on MKVC_END_OF_STREAM: "Decoder reached a clean end of stream."  *)
(* The pump takes a submit that consumed nothing for the end of its packet.*)
CleanEnd == Complete(Losses, {})

(* A leased frame keeps its surface mapped and its codec alive, also after *)
(* close and while others are released by other threads.                   *)
HeldUsable == held \subseteq mapped /\ (mapped # {} => alive)

(* After close and the last release the codec's context is gone, unless    *)
(* the driver refused to destroy it.                                       *)
RuntimeGone ==
    closed /\ held = {} /\ releasing = {} /\ ~cleanup_failed =>
        ~alive /\ mapped = {} /\ slots = {}

(* A full frame pool is only reported to a caller that can do something    *)
(* about it: it has leases to give back, or a release of its own is under  *)
(* way.  A read that ended in the middle may leave the backend with more   *)
(* frames than the pool has slots; for Intel that is one blocked before.   *)
(* oneVPL's own want of surfaces, at submit, is passed on to any caller.   *)
Undisturbed == (IF kind = "intel" THEN "WOULD_BLOCK" ELSE "CODEC") \notin reported

WouldBlockIsHelpful ==
    [][pc \notin {"idle", "submit"} /\ ret' = "WOULD_BLOCK" /\ Undisturbed
        => held \cup releasing # {}]_vars

(* The external specification on decoding, "the decoder guarantees         *)
(* sequential reading from the start to the end of the stream", and        *)
(* mkvc.h, MKVC_WOULD_BLOCK: "Nonblocking operation cannot complete yet":  *)
(* a caller that releases a frame and reads again gets every frame.        *)
RetryLosesNothing == Complete(Failures \ {"WOULD_BLOCK"}, lost)

-----------------------------------------------------------------------------
(* Inductive strengthening                                                 *)

Locations ==
    {"idle", "select", "pump", "close"}
        \cup (IF kind = "intel" THEN {"submit", "collect"}
              ELSE IF kind = "nvidia" THEN {"parse", "destroy"} ELSE {})

Deliveries == [frame : AllFrames, how : {"cpu", "gpu"}]

TypeOK ==
    /\ kind \in Kinds /\ policy \in Policies
    /\ delivered \in Seq(Deliveries)
    /\ pc \in Locations /\ how \in {"cpu", "gpu"} /\ ret \in Results
    /\ reported \subseteq Failures /\ faults \in Nat /\ calls \in Nat
    /\ closed \in BOOLEAN /\ next \in 0..Len(Stream) /\ demux_eos \in BOOLEAN
    /\ lost \subseteq AllFrames
    /\ packet \in Seq(AllFrames) /\ inside \in Seq(AllFrames)
    /\ ready \in Seq(AllFrames) /\ out \in Seq(AllFrames)
    /\ completed \in Seq(AllFrames) /\ completed_gpu \in Seq(AllFrames)
    /\ drained \in BOOLEAN /\ alive \in BOOLEAN
    /\ slots \subseteq AllFrames /\ mapped \subseteq AllFrames
    /\ held \subseteq AllFrames /\ releasing \subseteq AllFrames
    /\ output_mode \in {"unset", "cpu", "gpu"} /\ displayed_any \in BOOLEAN
    /\ outstanding_mappings \in Nat /\ cleanup_failed \in BOOLEAN

(* The frames still to come, in the order in which they pass the decoder:  *)
(* what follows each queue.                                                *)
FileAfter(n) == UNION {Items(Stream[p]) : p \in n + 1..Len(Stream)}
InFile == FileAfter(next)
AfterInside == Items(packet) \cup InFile
AfterReady == Items(inside) \cup AfterInside
AfterOut == Items(ready) \cup AfterReady
Coming == Items(out) \cup AfterOut

\* s rises, and all of it is before the frames of rest.
Ordered(s, rest) ==
    /\ \A i, j \in DOMAIN s : i < j => s[i] < s[j]
    /\ \A i \in DOMAIN s : \A f \in rest : s[i] < f

LineOK ==
    /\ Ordered(packet, InFile) /\ Ordered(inside, AfterInside)
    /\ Ordered(ready, AfterReady) /\ Ordered(out, AfterOut)
    /\ Ordered(completed, Coming) /\ Ordered(completed_gpu, Coming)
    /\ Items(completed) \cap Items(completed_gpu) = {}

\* What was delivered is behind everything that comes by the same way.
DeliveredOK ==
    \A i \in DOMAIN delivered :
        /\ \A f \in Coming : delivered[i].frame < f
        /\ delivered[i].frame \notin Items(completed) \cup Items(completed_gpu)
        /\ delivered[i].how = "cpu" =>
                \A f \in Items(completed) : delivered[i].frame < f
        /\ delivered[i].how = "gpu" =>
                \A f \in Items(completed_gpu) : delivered[i].frame < f

\* Nothing else is lost silently.
NoneMissing ==
    reported \cap Losses = {} /\ ~closed /\ pc # "destroy" =>
        AllFrames \subseteq lost \cup DeliveredFrames \cup Items(completed)
                            \cup Items(completed_gpu) \cup Coming

EndOK ==
    /\ demux_eos => next = Len(Stream)
    /\ ret = "END" =>
        /\ pc = "idle" /\ packet = <<>> /\ next = Len(Stream)
        /\ reported \cap Losses = {} => inside = <<>>

LeasesOK ==
    /\ held \cup releasing \subseteq DeliveredFrames
    /\ held \cap releasing = {}
    /\ closed => /\ pc = "idle" /\ ready = <<>> /\ out = <<>>
                 /\ completed = <<>> /\ completed_gpu = <<>>

CpuOK ==
    /\ how = "cpu" /\ packet = <<>> /\ out = <<>>
    /\ completed = <<>> /\ completed_gpu = <<>>
    /\ slots = {} /\ mapped = {} /\ held = {} /\ releasing = {}
    /\ alive = ~closed
    /\ kind = "av1" => inside = <<>>
    /\ drained => demux_eos
    /\ drained /\ "CODEC" \notin reported => inside = <<>>

\* Surfaces collected for a GPU read that is not finished.
Collected == IF how = "gpu" THEN Items(out) ELSE {}

IntelOK ==
    /\ pc \notin {"submit", "collect"} => packet = <<>> /\ out = <<>>
    /\ pc = "collect" => ready # <<>>
    /\ demux_eos => packet = <<>>
    /\ drained => /\ demux_eos /\ inside = <<>> /\ ready = <<>>
                  /\ pc \notin {"submit", "collect"}
    /\ slots = Items(completed_gpu) \cup Collected \cup held \cup releasing
    /\ mapped = Items(ready) \cup Items(completed_gpu) \cup Collected \cup held
    /\ alive = (~closed \/ slots # {})

NvOK ==
    /\ packet = <<>> /\ ready = <<>> /\ out = <<>>
    /\ pc = "destroy" => inside = <<>> /\ completed = <<>> /\ completed_gpu = <<>>
    /\ demux_eos /\ pc # "parse" /\ "CODEC" \notin reported => inside = <<>>
    /\ mapped = held \cup Items(completed_gpu)
    /\ slots = mapped \cup releasing
    /\ IsFiniteSet(held)
    /\ outstanding_mappings = Cardinality(held) + Len(completed_gpu)
    /\ (~closed \/ mapped # {}) => alive
    /\ closed /\ mapped = {} /\ ~cleanup_failed => ~alive

Inductive ==
    /\ TypeOK /\ LineOK /\ DeliveredOK /\ NoneMissing /\ EndOK /\ LeasesOK
    /\ kind \in CpuKinds => CpuOK
    /\ kind = "intel" => IntelOK
    /\ kind = "nvidia" => NvOK
    /\ DeliveredInOrder

(* What one packet completes and what the codec held back before it fit in *)
(* the pool together with the surfaces that wait in the queue.             *)
Bursts == {MaxDelay} \cup {MaxDelay + Len(Stream[p]) : p \in DOMAIN Stream}
BurstsFit ==
    \A burst \in Bursts : /\ AsyncDepth - 1 + burst <= PoolCapacity
                          /\ burst <= PoolSize

\* While no read was blocked no call collects more than the pool can hold.
IntelFlow ==
    /\ Len(inside) <= MaxDelay
    /\ Len(ready) < AsyncDepth + (IF pc = "collect" THEN 1 ELSE 0)
    /\ pc \in {"submit", "collect"} /\ how = "gpu" =>
        /\ completed_gpu = <<>>
        /\ Len(out) + Len(ready) + Len(inside) + Len(packet) <= PoolCapacity

\* While no callback failed a read leaves less than the pool can hold.
NvFlow ==
    /\ pc # "parse" => Len(inside) <= MaxDelay
    /\ pc \in {"pump", "parse"} => output_mode = how
    /\ output_mode # "gpu" => completed_gpu = <<>>
    /\ Len(completed_gpu) + (IF pc = "parse" THEN Len(inside) ELSE 0)
            < PoolSize + (IF pc \in {"pump", "parse"} THEN 1 ELSE 0)

FlowOK ==
    /\ pc # "idle" => ret = "none"
    /\ kind = "intel" /\ Undisturbed => IntelFlow
    /\ kind = "nvidia" /\ Undisturbed => NvFlow

=============================================================================
