---------------------------- MODULE EncoderBackends ---------------------------
(***************************************************************************)
(* A synchronous session over whichever backend create_backend made for    *)
(* it: the session's calls of SyncEncoder composed with the steps of       *)
(* CpuEncoder, IntelEncoder or NvEncoder.                                  *)
(***************************************************************************)
EXTENDS CpuEncoder, IntelEncoder, NvEncoder

vars == <<shared, intel>>

Init == InitShared /\ InitIntel

Quiescent ==
    /\ pc = "crashed" \/ (pc = "idle" /\ calls = MaxCalls)
    /\ UNCHANGED vars

\* What the session does itself, and what does not depend on the backend.
SessionNext ==
    \/ Write \/ WriteBorrowed \/ WriteGpu \/ SetCopyPolicy
    \/ Flush \/ Close \/ Cancel \/ WriteClosed \/ CloseAgain

Next ==
    \/ SessionNext /\ UNCHANGED intel
    \/ CpuNext /\ UNCHANGED intel
    \/ IntelNext
    \/ NvNext /\ UNCHANGED intel
    \/ Quiescent

Spec == Init /\ [][Next]_vars

-----------------------------------------------------------------------------
(* Properties                                                              *)

(* A caller that has seen no error has lost nothing: what the codec took   *)
(* is in the file or still in the codec, in order, however many flushes,   *)
(* restarts and changes between CPU and GPU input came between; and after  *)
(* close it is all in a finalized file.                                    *)
NothingLostSilently ==
    reported = {} =>
        /\ packets \o pending = taken
        /\ closed => finalized /\ pending = <<>>

(* "Drain currently submitted encoder work": when flush says OK, all that  *)
(* the codec held is in the file, also after earlier errors.               *)
FlushIsBarrier ==
    [][pc = "flush" /\ ret' = "OK" => packets' = packets \o pending]_vars

(* An automatic timestamp is later than every one the codec ever took, so  *)
(* that it is not refused as a step back in time.  On the CPU this also    *)
(* holds after a failed write; the hardware backends commit a timestamp    *)
(* only with the result.                                                   *)
AutoPtsFresh ==
    kind \in CpuKinds \/ reported = {} =>
        \A i \in DOMAIN taken : taken[i] < next_pts

(* The frames of one sequence live on the device of the anchor, the frame  *)
(* whose lease keeps that device alive, across refused and failed writes.  *)
OneDevice ==
    [][pc = "write_gpu" /\ taken' # taken =>
            anchor' # NoFrame /\ SameDevice(request.frame, anchor')]_vars

(* oneVPL never refers to a wrapper whose frame lease was given up, and    *)
(* the leases end with the encoder they were taken for.                    *)
SurfacesHeld ==
    /\ in_use \subseteq inputs
    /\ component # "gpu" => anchor = NoFrame /\ inputs = {}

(* A completion is pending only while its submission is in the queue, and  *)
(* write_gpu collects as much as it submits, also when it fails: with GPU  *)
(* frames only nothing is left pending, and a CPU frame in between leaves  *)
(* one behind, never more than the encoder's depth.                        *)
CompletionsResolved ==
    [][/\ waiting' \subseteq {queue'[i] : i \in DOMAIN queue'}
       /\ pc = "write_gpu" => Len(queue') <= Len(queue)]_vars

(* What flush and write_gpu do to a sequence of frames.                    *)
SequenceRules == FlushIsBarrier /\ OneDevice /\ CompletionsResolved

=============================================================================
