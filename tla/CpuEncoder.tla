------------------------------ MODULE CpuEncoder ------------------------------
(***************************************************************************)
(* The CPU backends of a synchronous session: CpuVp9Encoder over libvpx    *)
(* and CpuAv1Encoder over SVT-AV1.  libvpx is run without lag; SVT-AV1     *)
(* keeps frames and is replaced by every flush.                            *)
(***************************************************************************)
EXTENDS SyncEncoder

(* The codec (external): packets leave it in the order of the frames.      *)

\* collect_packets: n of the frames reach the file, then the codec has no
\* more to give (OK), the muxer refuses the next packet, which is gone (IO),
\* or the codec fails (SVT-AV1 only).  "left" is what the codec then holds.
Collect(frames, n, result, left) ==
    /\ packets' = packets \o SubSeq(frames, 1, n)
    /\ InFileOrder(packets')
    /\ \/ result = "OK" /\ left = SubSeq(frames, n + 1, Len(frames))
       \/ /\ result = "IO" /\ n < Len(frames)
          /\ left = SubSeq(frames, n + 2, Len(frames))
       \/ /\ result = "CODEC" /\ kind = "av1"
          /\ left = SubSeq(frames, n + 1, Len(frames))

\* A drain gives everything out; libvpx and SVT-AV1 may refuse to start one.
Remains == {SubSeq(pending, i, Len(pending)) : i \in 1..Len(pending) + 1}
Drain_Partial(n, result, left) == Collect(pending, n, result, left)
Drain(n, result, left) ==
    \/ Collect(pending, n, result, left) /\ (result = "OK" => left = <<>>)
    \/ /\ result = "CODEC" /\ n = 0 /\ left = pending
       /\ UNCHANGED packets

-----------------------------------------------------------------------------
(* write                                                                   *)

\* The codec or the conversion rejects the frame.
CpuWriteRejected ==
    /\ pc = "write" /\ kind \in CpuKinds /\ component # "none"
    /\ Rejected("CODEC")

\* svt_av1_enc_send_picture on a null handle is undefined.
CpuWriteWithoutCodec ==
    /\ pc = "write" /\ kind \in CpuKinds /\ ~closed /\ component = "none"
    /\ \/ Return("CODEC")
       \/ pc' = "crashed" /\ UNCHANGED <<ret, reported>>
    /\ UNCHANGED <<session, accepted_frames, backend, request, calls>>

CommitWhen_Muxed(pts, result) ==
    IF result = "OK" THEN Commit(pts) ELSE UNCHANGED next_pts
CommitWhen(pts, result) == Commit(pts)

\* With g_lag_in_frames = 0 libvpx gives the packet out at once.
CpuWrite ==
    /\ pc = "write" /\ kind \in CpuKinds /\ ~closed /\ component # "none"
    /\ \E pts \in {Select(request.pts)}, n \in 0..Len(pending) + 1,
          result \in {"OK"} \cup Errors :
        /\ Collect(Append(pending, pts), n, result, pending')
        /\ kind = "vp9" => pending' = <<>>
        /\ CommitWhen(pts, result)
        /\ taken' = Append(taken, pts)
        /\ CountIf(result) /\ Return(result)
    /\ frames_in_sequence' = IF kind = "av1" THEN frames_in_sequence + 1 ELSE 0
    /\ UNCHANGED <<session, closed, component, anchor, finalized, request,
                   calls>>

-----------------------------------------------------------------------------
(* flush                                                                   *)

FlushNothing ==
    /\ pc = "flush" /\ kind = "av1" /\ frames_in_sequence = 0
    /\ Rejected("OK")

FlushVp9 ==
    /\ pc = "flush" /\ ~closed /\ kind = "vp9"
    /\ \E n \in 0..Len(pending), result \in {"OK"} \cup Errors :
        Drain(n, result, pending') /\ Return(result)
    /\ UNCHANGED <<session, accepted_frames, closed, codec, next_pts,
                   finalized, taken, request, calls>>

\* End the sequence, destroy the codec, and make a new one if that went well.
FlushAv1 ==
    /\ pc = "flush" /\ ~closed /\ kind = "av1" /\ frames_in_sequence # 0
    /\ \E n \in 0..Len(pending), left \in Remains,
          result \in {"OK"} \cup Errors, restarted \in BOOLEAN :
        /\ Drain(n, result, left)
        /\ restarted => result = "OK"
        /\ component' = IF restarted THEN "cpu" ELSE "none"
        /\ Return(IF result = "OK" /\ ~restarted THEN "CODEC" ELSE result)
    /\ pending' = <<>> /\ frames_in_sequence' = 0
    /\ UNCHANGED <<session, accepted_frames, closed, anchor, next_pts,
                   finalized, taken, request, calls>>

-----------------------------------------------------------------------------
(* close                                                                   *)

\* What end_sequence (AV1) or flush (VP9) does inside close.
Ending(n, result, left) ==
    IF component # "none" /\ (kind = "av1" => frames_in_sequence # 0)
    THEN Drain(n, result, left)
    ELSE n = 0 /\ result = "OK" /\ left = pending /\ UNCHANGED packets

CpuClose ==
    /\ pc = "close" /\ kind \in CpuKinds /\ ~closed
    /\ \E n \in 0..Len(pending), left \in Remains,
          result \in {"OK"} \cup Errors :
        /\ Ending(n, result, left)
        /\ Finalize(result)
        /\ Return(CloseResult(result))
    /\ pending' = <<>> /\ frames_in_sequence' = 0
    /\ component' = "none" /\ closed' = TRUE
    /\ UNCHANGED <<session, accepted_frames, anchor, next_pts, taken, request,
                   calls>>

CpuNext ==
    \/ CpuWriteRejected \/ CpuWriteWithoutCodec \/ CpuWrite
    \/ FlushNothing \/ FlushVp9 \/ FlushAv1 \/ CpuClose

=============================================================================
