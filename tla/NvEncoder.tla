------------------------------ MODULE NvEncoder -------------------------------
(***************************************************************************)
(* The NVIDIA backend of a synchronous session: NvidiaWebmEncoder over one *)
(* NVENC session, which encodes and muxes every picture before the call    *)
(* returns.  frames_in_sequence is frame_index, anchor the frame whose     *)
(* CUDA context the session borrows.  Timestamps are nanoseconds here, of  *)
(* which a frame lasts Duration.                                           *)
(***************************************************************************)
EXTENDS SyncEncoder

Duration == 2

\* The picture's timestamp moves next_pts and the frame counts only when the
\* packet is in the file.
Committed(pts, result) ==
    next_pts' = IF result = "OK" THEN Latest(next_pts, pts + Duration)
                ELSE next_pts

\* Registering, mapping or nvEncEncodePicture fails; what was registered is
\* undone.
PictureFails ==
    /\ Return("CODEC")
    /\ UNCHANGED <<accepted_frames, next_pts, frames_in_sequence, packets, taken>>

\* The picture, its bitstream, and the muxer.
Encode(pts) ==
    \/ PictureFails
    \/ \E n \in 0..1, result \in {"OK"} \cup Errors :
        /\ \/ Mux(<<pts>>, n, result)
           \/ n = 0 /\ result = "CODEC" /\ UNCHANGED packets
        /\ taken' = Append(taken, pts)
        /\ Committed(pts, result)
        /\ frames_in_sequence' = IF result = "OK" THEN frames_in_sequence + 1
                                 ELSE frames_in_sequence
        /\ CountIf(result) /\ Return(result)

NvWriteRejected ==
    /\ pc = "write" /\ kind = "nvidia"
    /\ \E result \in {"INVALID_ARGUMENT", "CODEC"} : Rejected(result)

\* A session bound to a GPU frame's context takes CPU frames, too.  Without a
\* session NVENC refuses the null encoder.
NvWrite ==
    /\ pc = "write" /\ kind = "nvidia" /\ ~closed /\ component # "none"
    /\ Encode(Select(request.pts))
    /\ UNCHANGED <<session, closed, component, anchor, pending, finalized,
                   request, calls>>

\* prepare_nvenc_cuda_frame: format, geometry, producer, native handle; then
\* another context, or CPU pictures in the session.
NvGpuRefused ==
    /\ pc = "write_gpu" /\ kind = "nvidia"
    /\ \/ \E result \in {"INVALID_ARGUMENT", "NOT_SUPPORTED", "CODEC"} :
            Rejected(result)
       \/ /\ anchor = NoFrame /\ frames_in_sequence # 0
          /\ Rejected("INVALID_STATE")

\* A session is made completely or destroyed again.
SessionMade(input) == {input, "none"}

\* bind_cuda_context: the old session is destroyed first.
BindFails ==
    /\ pc = "write_gpu" /\ kind = "nvidia" /\ ~closed
    /\ anchor = NoFrame /\ frames_in_sequence = 0
    /\ component' = "none" /\ Return("CODEC")
    /\ UNCHANGED <<session, accepted_frames, closed, anchor, frames_in_sequence,
                   next_pts, output, request, calls>>

Bound == IF anchor = NoFrame THEN frames_in_sequence = 0
         ELSE SameDevice(anchor, request.frame)
NvWriteGpu ==
    /\ pc = "write_gpu" /\ kind = "nvidia" /\ ~closed
    /\ Bound
    /\ anchor' = IF anchor = NoFrame THEN request.frame ELSE anchor
    /\ component' = "gpu"
    /\ Encode(request.pts)
    /\ UNCHANGED <<session, closed, pending, finalized, request, calls>>

-----------------------------------------------------------------------------
\* Also with a context bound, or without a session.
NvFlushNothing ==
    /\ pc = "flush" /\ kind = "nvidia" /\ frames_in_sequence = 0
    /\ Rejected("OK")

NvFlush ==
    /\ pc = "flush" /\ kind = "nvidia" /\ ~closed /\ frames_in_sequence # 0
    /\ \/ /\ Return("CODEC")                          \* drain_nvenc_session
          /\ UNCHANGED codec
       \/ /\ component' \in SessionMade("cpu")
          /\ Return(IF component' = "none" THEN "CODEC" ELSE "OK")
          /\ frames_in_sequence' = 0 /\ anchor' = NoFrame
    /\ UNCHANGED <<session, accepted_frames, closed, next_pts, output, request,
                   calls>>

NvClose ==
    /\ pc = "close" /\ kind = "nvidia" /\ ~closed
    /\ \E drained \in {"OK", "CODEC"} :
        /\ drained = "CODEC" => component # "none" /\ frames_in_sequence > 0
        /\ Finalize(drained) /\ Return(CloseResult(drained))
    /\ component' = "none" /\ anchor' = NoFrame /\ closed' = TRUE
    /\ UNCHANGED <<session, accepted_frames, frames_in_sequence, next_pts,
                   pending, packets, taken, request, calls>>

NvNext ==
    \/ NvWriteRejected \/ NvWrite \/ NvGpuRefused \/ BindFails \/ NvWriteGpu
    \/ NvFlushNothing \/ NvFlush \/ NvClose

=============================================================================
