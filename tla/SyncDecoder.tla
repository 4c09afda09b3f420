------------------------------ MODULE SyncDecoder ------------------------------
(***************************************************************************)
(* A decoder handle without prefetch: mkvc_decoder_read and _read_gpu run  *)
(* the backend on the caller's thread until it has a frame to give.  This  *)
(* module has what the four backends share - the policy, the demuxer, the  *)
(* pool slots and surfaces behind GPU frames - and CpuDecoder,             *)
(* IntelDecoder and NvDecoder have the rest.                               *)
(*                                                                         *)
(* A frame is its place in display order; Stream gives the frames each     *)
(* packet completes.  One thread reads and closes.  GPU frames it got may  *)
(* be released by any thread at any time, also after close: the release    *)
(* gives the surface back to the codec, then frees the slot of the pool.   *)
(***************************************************************************)
EXTENDS Integers, Sequences, FiniteSets

CONSTANTS
    Kinds,        \* the backends a decoder handle may own
    Stream,       \* packet -> sequence of the frames it completes
    MaxDelay,     \* frames a codec may hold back before it is drained
    MaxFaults,    \* bound: failures of file, codec or driver
    MaxCalls      \* bound: calls in one behaviour

CpuKinds == {"vp9", "av1"}
GpuKinds == {"intel", "nvidia"}

ASSUME KindAssumption == Kinds \subseteq CpuKinds \cup GpuKinds
ASSUME StreamAssumption == Stream \in Seq(Seq(Nat \ {0}))
\* A packet completes the frames that follow those of the packet before it.
ASSUME DisplayAssumption ==
    \A p, q \in DOMAIN Stream : \A i \in DOMAIN Stream[p], j \in DOMAIN Stream[q] :
        p < q \/ (p = q /\ i < j) => Stream[p][i] < Stream[q][j]
ASSUME DelayAssumption == MaxDelay \in Nat
ASSUME BoundAssumption == MaxFaults \in Nat /\ MaxCalls \in Nat

VARIABLES
    kind,            \* which backend this handle owns
    policy,          \* require_gpu_resident, allow_cpu_copy
    delivered,       \* history: frames handed out and by which read
    pc, how, ret,    \* the caller: location, which read, last result
    reported,        \* history: every failure a caller has seen
    faults, calls,
    closed,
    next, demux_eos, \* WebmPacketReader: packets read
    packet,          \* frames in the part of the packet not yet consumed
    lost,            \* history: frames the codec dropped with a warning
    inside,          \* decoded frames the codec has not given out
    ready,           \* given out: images, or surfaces waiting in the queue
    out,             \* collected by this call, not queued yet
    completed, completed_gpu,
    drained,         \* the codec was told that the stream has ended
    alive,           \* the codec's session or context exists
    slots,           \* frames that occupy a slot of the GPU frame pool
    mapped,          \* frames that hold a surface of the codec
    held, releasing  \* frames with a lease; released, slot not yet free

session == <<kind, policy>>
demux   == <<next, demux_eos, packet, lost>>
queues  == <<inside, ready, out, completed, completed_gpu>>
memory  == <<slots, mapped>>
leases  == <<held, releasing>>
codec   == <<drained, alive>>
caller  == <<delivered, pc, how, ret, reported, calls>>
shared  == <<session, caller, faults, closed, demux, queues, codec, memory, leases>>

Items(s) == {s[i] : i \in DOMAIN s}
AllFrames == UNION {Items(Stream[p]) : p \in DOMAIN Stream}
Failures == {"IO", "CODEC", "NOT_SUPPORTED", "WOULD_BLOCK"}
Results == Failures \cup {"none", "OK", "END", "INVALID_STATE",
                          "INVALID_ARGUMENT"}
Policies == [gpu_only : BOOLEAN, allow_cpu_copy : BOOLEAN]

\* read_cpu_sync and read_gpu_sync count a frame with its result.
accepted_frames == Len(delivered)

InitShared ==
    /\ kind \in Kinds /\ policy = [gpu_only |-> FALSE, allow_cpu_copy |-> TRUE]
    /\ delivered = <<>> /\ pc = "idle" /\ how = "cpu" /\ ret = "none"
    /\ reported = {} /\ faults = 0 /\ calls = 0 /\ closed = FALSE
    /\ next = 0 /\ demux_eos = FALSE /\ packet = <<>> /\ lost = {}
    /\ inside = <<>> /\ ready = <<>> /\ out = <<>>
    /\ completed = <<>> /\ completed_gpu = <<>>
    /\ drained = FALSE /\ alive = TRUE
    /\ slots = {} /\ mapped = {} /\ held = {} /\ releasing = {}

-----------------------------------------------------------------------------
(* The handle                                                              *)

Return(result) ==
    /\ pc' = "idle" /\ ret' = result
    /\ reported' = reported \cup ({result} \cap Failures)

\* A call that ends in the handle's own checks: nothing was read.
Refuse(result) ==
    /\ pc = "idle" /\ calls < MaxCalls /\ calls' = calls + 1
    /\ pc' = "idle" /\ ret' = result
    /\ UNCHANGED <<session, delivered, how, reported, faults, closed, demux,
                   queues, codec, memory, leases>>

Enter(location, read) ==
    /\ pc = "idle" /\ calls < MaxCalls /\ calls' = calls + 1
    /\ pc' = location /\ how' = read /\ ret' = "none"
    /\ UNCHANGED <<session, delivered, reported, faults, closed, demux, queues,
                   codec, memory, leases>>

\* check_cpu_read
CpuReadAllowed == ~policy.gpu_only /\ policy.allow_cpu_copy

Read ==
    \/ ~CpuReadAllowed /\ Refuse("NOT_SUPPORTED")
    \/ CpuReadAllowed /\ closed /\ Refuse("INVALID_STATE")
    \/ CpuReadAllowed /\ ~closed /\ Enter("select", "cpu")

\* check_gpu_read
ReadGpu ==
    \/ kind \in CpuKinds /\ Refuse("NOT_SUPPORTED")
    \/ kind \in GpuKinds /\ closed /\ Refuse("INVALID_STATE")
    \/ kind \in GpuKinds /\ ~closed /\ Enter("select", "gpu")

PolicyOpen == accepted_frames = 0
SetCopyPolicy ==
    \/ ~PolicyOpen /\ Refuse("INVALID_STATE")
    \/ PolicyOpen /\ Refuse("INVALID_ARGUMENT")          \* conflicting fields
    \/ PolicyOpen /\ kind \in CpuKinds /\ Refuse("NOT_SUPPORTED")
    \/ /\ pc = "idle" /\ calls < MaxCalls /\ calls' = calls + 1
       /\ PolicyOpen
       /\ \E p \in Policies :
            /\ p.gpu_only => kind \in GpuKinds /\ ~p.allow_cpu_copy
            /\ policy' = p
       /\ ret' = "OK"
       /\ UNCHANGED <<kind, delivered, pc, how, reported, faults, closed, demux,
                      queues, codec, memory, leases>>

Close ==
    \/ closed /\ Refuse("OK")
    \/ ~closed /\ Enter("close", how)

\* A read hands out the head of the queue its kind of read uses.
Deliver(frame) ==
    /\ delivered' = Append(delivered, [frame |-> frame, how |-> how])
    /\ held' = IF how = "gpu" THEN held \cup {frame} ELSE held
    /\ Return("OK")

-----------------------------------------------------------------------------
(* The file                                                                *)

Fault == faults < MaxFaults /\ faults' = faults + 1

\* WebmPacketReader::read.  A packet of an invalid size is skipped, a failed
\* step to the next block is tried again by the next read.
DemuxPacket ==
    /\ next < Len(Stream) /\ next' = next + 1
    /\ packet' = Stream[next + 1] /\ UNCHANGED <<demux_eos, lost>>

DemuxEnds ==
    /\ next = Len(Stream) /\ demux_eos' = TRUE /\ packet' = <<>>
    /\ UNCHANGED <<next, lost>>

DemuxFails ==
    /\ next < Len(Stream) /\ Fault /\ Return("IO")
    /\ next' \in {next, next + 1}
    /\ UNCHANGED <<demux_eos, packet, lost, session, delivered, how, calls, closed,
                   queues, codec, memory, leases>>

-----------------------------------------------------------------------------
(* GPU frames.  Definitions named X_Fault are X with a fault; they are in  *)
(* no specification and show that the properties can break.                *)

\* Frames whose GpuFrameCore is destroyed: surface back, then slot free.
Discard(frames) ==
    /\ slots' = slots \ frames /\ mapped' = mapped \ frames

ReleaseBegins(f) ==
    /\ f \in held
    /\ held' = held \ {f} /\ releasing' = releasing \cup {f}
    /\ mapped' = mapped \ {f}

ReleaseEnds(f) ==
    /\ f \in releasing
    /\ releasing' = releasing \ {f} /\ slots' = slots \ {f}

=============================================================================
