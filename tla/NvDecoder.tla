------------------------------- MODULE NvDecoder -------------------------------
(***************************************************************************)
(* NvidiaWebmDecoder over NvdecPacketPump, NvdecCallbackState and          *)
(* NvdecRuntimeOwner.  A packet is parsed in one call of the driver, which *)
(* calls back for each frame to display: it is copied and unmapped, or     *)
(* leased as a mapped surface in a slot of the pool.  A callback that      *)
(* fails ends the parse.  A decoder reads to the CPU or to the GPU, never  *)
(* both.  The CUDA context is destroyed by whoever comes last: close, or   *)
(* the release of the last mapped frame.                                   *)
(***************************************************************************)
EXTENDS SyncDecoder

CONSTANT PoolSize      \* NvdecCallbackState's frame pool, 8 in the code

ASSUME PoolAssumption == PoolSize \in Nat \ {0}

VARIABLES
    output_mode,
    displayed_any,
    outstanding_mappings,
    cleanup_failed        \* history: a driver call of the cleanup failed

nvdec == <<output_mode, displayed_any, outstanding_mappings, cleanup_failed>>

InitNv ==
    /\ output_mode = "unset" /\ displayed_any = FALSE
    /\ outstanding_mappings = 0 /\ cleanup_failed = FALSE

AtNv(location) == kind = "nvidia" /\ pc = location

SlotsFull == Cardinality(slots) >= PoolSize

\* select_cpu and select_gpu, then the CUDA context of the pump.
NvSelect ==
    /\ AtNv("select")
    /\ \/ /\ output_mode \notin {"unset", how} /\ Return("INVALID_STATE")
          /\ UNCHANGED <<output_mode, faults>>
       \/ /\ output_mode \in {"unset", how} /\ output_mode' = how
          /\ IF how = "gpu" /\ SlotsFull
             THEN Return("WOULD_BLOCK") /\ UNCHANGED faults
             ELSE \/ pc' = "pump" /\ UNCHANGED <<ret, reported, faults>>
                  \/ Fault /\ Return("CODEC")
    /\ UNCHANGED <<session, delivered, how, calls, closed, demux, queues, codec,
                   memory, leases, displayed_any, outstanding_mappings,
                   cleanup_failed>>

Outputs == IF how = "cpu" THEN completed ELSE completed_gpu

\* A context that cannot be released leaves the frame for the next read.
NvDeliver ==
    /\ AtNv("pump") /\ Outputs # <<>>
    /\ \/ /\ Deliver(Head(Outputs)) /\ UNCHANGED faults
          /\ IF how = "cpu"
             THEN completed' = Tail(completed) /\ UNCHANGED completed_gpu
             ELSE completed_gpu' = Tail(completed_gpu) /\ UNCHANGED completed
       \/ /\ Fault /\ Return("CODEC")
          /\ UNCHANGED <<delivered, held, completed, completed_gpu>>
    /\ UNCHANGED <<session, how, calls, closed, demux, inside, ready, out, codec,
                   memory, releasing, nvdec>>

\* The next packet, or the end of the stream, goes to the parser.  The
\* sequence and the decode callback may refuse the packet.
NvPacket ==
    /\ AtNv("pump") /\ Outputs = <<>> /\ ~demux_eos
    /\ \/ /\ DemuxFails /\ UNCHANGED nvdec
       \/ /\ next < Len(Stream) /\ next' = next + 1
          /\ \/ /\ inside' = inside \o Stream[next + 1] /\ pc' = "parse"
                /\ UNCHANGED <<ret, reported, faults>>
             \/ Fault /\ Return("CODEC") /\ UNCHANGED inside
          /\ UNCHANGED <<session, delivered, how, calls, closed, demux_eos, packet,
                         lost, ready, out, completed, completed_gpu, codec, memory,
                         leases, nvdec>>
       \/ /\ DemuxEnds /\ drained' = TRUE
          /\ \/ pc' = "parse" /\ UNCHANGED <<ret, reported, faults>>
             \/ Fault /\ Return("CODEC")
          /\ UNCHANGED <<session, delivered, how, calls, closed, queues, alive,
                         memory, leases, nvdec>>

\* The parse ends with the callback that failed; what the parser held back
\* may be gone.
ParseFails ==
    /\ Return("CODEC")
    /\ inside' \in {Tail(inside), <<>>}

\* NvdecCallbackState::display
NvDisplay ==
    /\ AtNv("parse") /\ inside # <<>>
    /\ displayed_any' = TRUE
    /\ \/ /\ how = "cpu"
          /\ completed' = Append(completed, Head(inside)) /\ inside' = Tail(inside)
          /\ UNCHANGED <<pc, ret, reported, faults, completed_gpu, memory,
                         outstanding_mappings>>
       \/ /\ how = "gpu" /\ ~SlotsFull
          /\ completed_gpu' = Append(completed_gpu, Head(inside))
          /\ inside' = Tail(inside)
          /\ slots' = slots \cup {Head(inside)}
          /\ mapped' = mapped \cup {Head(inside)}
          /\ outstanding_mappings' = outstanding_mappings + 1
          /\ UNCHANGED <<pc, ret, reported, faults, completed>>
       \/ /\ (how = "gpu" /\ SlotsFull /\ UNCHANGED faults) \/ Fault
          /\ ParseFails
          /\ UNCHANGED <<completed, completed_gpu, memory, outstanding_mappings>>
    /\ UNCHANGED <<session, delivered, how, calls, closed, demux, ready, out, codec,
                   leases, output_mode, cleanup_failed>>

\* The parser keeps at most MaxDelay frames (ulMaxDisplayDelay, 2 in the
\* code), and none at the end.
NvParsed ==
    /\ AtNv("parse") /\ Len(inside) <= (IF demux_eos THEN 0 ELSE MaxDelay)
    /\ pc' = "pump"
    /\ UNCHANGED <<session, delivered, how, ret, reported, calls, faults, closed,
                   demux, queues, codec, memory, leases, nvdec>>

NvEnd ==
    /\ AtNv("pump") /\ Outputs = <<>> /\ demux_eos /\ drained
    /\ Return(IF displayed_any THEN "END" ELSE "CODEC")
    /\ UNCHANGED <<session, delivered, how, calls, faults, closed, demux, queues,
                   codec, memory, leases, nvdec>>

-----------------------------------------------------------------------------
(* NvdecRuntimeOwner                                                       *)

\* destroy_decoder_if_ready, once closed' and outstanding_mappings' are known.
ContextDue_Counted == closed' /\ outstanding_mappings = 0 /\ alive
ContextDue == closed' /\ outstanding_mappings' = 0 /\ alive

DestroyIfReady(failed) == alive' = (alive /\ ~(ContextDue /\ ~failed))

\* clear_outputs
NvClose ==
    /\ AtNv("close") /\ pc' = "destroy"
    /\ completed' = <<>> /\ completed_gpu' = <<>> /\ inside' = <<>>
    /\ Discard(Items(completed_gpu))
    /\ outstanding_mappings' = outstanding_mappings - Len(completed_gpu)
    /\ UNCHANGED <<session, delivered, how, ret, reported, calls, faults, closed,
                   demux, ready, out, codec, leases, output_mode, displayed_any,
                   cleanup_failed>>

\* NvdecRuntimeOwner::close; a parser or context that fails to go is leaked.
NvDestroy ==
    /\ AtNv("destroy")
    /\ closed' = TRUE /\ UNCHANGED outstanding_mappings
    /\ \/ DestroyIfReady(FALSE) /\ Return("OK") /\ UNCHANGED <<faults, cleanup_failed>>
       \/ \E context \in BOOLEAN :
            /\ context => ContextDue
            /\ Fault /\ DestroyIfReady(context) /\ Return("CODEC")
            /\ cleanup_failed' = TRUE
    /\ UNCHANGED <<session, delivered, how, calls, demux, queues, drained, memory,
                   leases, output_mode, displayed_any>>

\* release_mapping, then GpuFramePool recycles the slot.
NvReleases ==
    /\ kind = "nvidia"
    /\ \E f \in AllFrames :
        \/ /\ ReleaseBegins(f) /\ UNCHANGED <<slots, closed>>
           /\ outstanding_mappings' =
                IF outstanding_mappings = 0 THEN 0 ELSE outstanding_mappings - 1
           /\ \/ DestroyIfReady(FALSE) /\ UNCHANGED <<faults, cleanup_failed>>
              \/ Fault /\ DestroyIfReady(TRUE) /\ cleanup_failed' = TRUE
        \/ /\ ReleaseEnds(f)
           /\ UNCHANGED <<held, mapped, closed, alive, faults, cleanup_failed,
                          outstanding_mappings>>
    /\ UNCHANGED <<session, caller, demux, queues, drained, output_mode,
                   displayed_any>>

NvNext ==
    \/ NvSelect \/ NvDeliver \/ NvPacket \/ NvDisplay \/ NvParsed \/ NvEnd
    \/ NvClose \/ NvDestroy \/ NvReleases

=============================================================================
