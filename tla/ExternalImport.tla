---------------------------- MODULE ExternalImport ----------------------------
(***************************************************************************)
(* The entry points that turn a resource of the caller into a GPU frame:   *)
(* which descriptors each accepts, what it loads to follow the producer,   *)
(* and how a status of the producer's device is read.  A descriptor is a   *)
(* record: the set of its nonzero native handles, the memory and native    *)
(* handle types, whether it has a query callback, and one flag for each    *)
(* group of numbers that is checked together.                              *)
(***************************************************************************)
EXTENDS Naturals

Settled == {"complete", "failed"}

Versioned(c) == c.versions /\ c.release /\ c.geometry

\* Contiguous NV12 with one pitch, not below the width.
Linear(c) == c.nv12 /\ c.pitch \in {"packed", "padded"}

ValidNvidia(c) ==
    /\ c.memory \in {"cuda_pointer", "cuda_array"} /\ c.native = c.memory
    /\ {0, 1} \subseteq c.handles
    /\ Linear(c) /\ (c.memory = "cuda_array" => c.pitch = "packed")

ValidIntel(c, allow_usm_level_zero_event) ==
    /\ c.memory \in {"d3d11", "va", "usm"} /\ c.native = c.memory
    /\ 0 \in c.handles /\ c.nv12
    /\ c.memory = "usm" =>
        /\ {1, 2} \subseteq c.handles /\ Linear(c) /\ ~c.query
        /\ (3 \in c.handles => allow_usm_level_zero_event)

ValidLayout(c, allow_usm_level_zero_event) ==
    /\ Versioned(c)
    /\ \/ c.backend = "nvidia" /\ ValidNvidia(c)
       \/ c.backend = "intel" /\ ValidIntel(c, allow_usm_level_zero_event)

\* mkvc_gpu_frame_import_external: without a query the producer is done.
AcceptsExternal(c) == ValidLayout(c, FALSE)
ExternalSource(c) == IF c.query THEN "query" ELSE "synced"

AcceptsD3d11Fence(c) ==
    ValidLayout(c, FALSE) /\ c.backend = "intel" /\ c.memory = "d3d11" /\ ~c.query
AcceptsVaSurface(c) ==
    ValidLayout(c, FALSE) /\ c.backend = "intel" /\ c.memory = "va" /\ ~c.query
AcceptsLevelZeroEvent(c) ==
    /\ ValidLayout(c, TRUE) /\ c.backend = "intel" /\ c.memory = "usm"
    /\ 3 \in c.handles /\ ~c.query
AcceptsCudaEvent(c) ==
    ValidLayout(c, FALSE) /\ c.backend = "nvidia" /\ ~c.query /\ 3 \in c.handles

-----------------------------------------------------------------------------
(* What the producer's device answers.  UINT64_MAX from a D3D11 fence says *)
(* that the device was removed.                                            *)
Target == 1
Removed == 2
FenceValue(work) == CASE work = "complete" -> Target [] work = "failed" -> Removed
                      [] OTHER -> Target - 1
FenceStatus(value, target) ==
    IF value = Removed THEN "failed"
    ELSE IF value < target THEN "pending" ELSE "complete"

\* vaSyncSurface2 with a zero timeout: any work on the surface is waited for.
VaStatus(work, consumer_busy) == IF consumer_busy THEN "pending" ELSE work
LevelZeroStatus(work) == work
CudaStatus(work) == work

\* These keep a terminal status; the others ask again each time.
Latching == {"va", "fence", "event"}

Status(source, work, consumer_busy) ==
    CASE source = "synced" -> "complete"
      [] source = "va" -> VaStatus(work, consumer_busy)
      [] source = "fence" -> FenceStatus(FenceValue(work), Target)
      [] source = "event" -> LevelZeroStatus(work)
      [] OTHER -> CudaStatus(work)

\* A probe accepts what is pending.
Probe(status) == IF status = "failed" THEN {"codec"} ELSE {"ok"}

LoadD3d11Fence(c, work) ==
    IF 1 \notin c.handles /\ {2, 3} \subseteq c.handles
    THEN {"unsupported"} \cup Probe(FenceStatus(FenceValue(work), Target))
    ELSE {"invalid"}
LoadVaSurface(c, work) == {"unsupported"} \cup Probe(VaStatus(work, FALSE))
LoadLevelZeroEvent(c, work) == {"unsupported"} \cup Probe(LevelZeroStatus(work))
\* Nobody probes a CUDA event.
LoadCudaEvent(c, work) == {"unsupported", "ok"}

\* Every way to import a resource, as <<result, source of its completion>>.
Imports(c, work) ==
    (IF AcceptsExternal(c) /\ (c.query \/ work = "complete")
     THEN {<<"ok", ExternalSource(c)>>} ELSE {})
    \cup (IF AcceptsD3d11Fence(c)
          THEN LoadD3d11Fence(c, work) \X {"fence"} ELSE {})
    \cup (IF AcceptsVaSurface(c) THEN LoadVaSurface(c, work) \X {"va"} ELSE {})
    \cup (IF AcceptsLevelZeroEvent(c)
          THEN LoadLevelZeroEvent(c, work) \X {"event"} ELSE {})
    \cup (IF AcceptsCudaEvent(c) THEN LoadCudaEvent(c, work) \X {"cuda"} ELSE {})
    \cup {<<"invalid", "none">>}

=============================================================================
