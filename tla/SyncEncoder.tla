----------------------------- MODULE SyncEncoder ------------------------------
(***************************************************************************)
(* A synchronous encoder session (queue_size = 0): write, write_borrowed,  *)
(* write_gpu, flush and close run the backend on the caller's thread.  The *)
(* session owns one backend, made by create_backend; this module has what  *)
(* the four backends share - the session's checks, the timestamps and the  *)
(* WebM muxer - and CpuEncoder, IntelEncoder and NvEncoder have the rest.  *)
(*                                                                         *)
(* A frame is its pts; the file is the sequence of pts muxed.  A backend   *)
(* has one caller at a time (only write_gpu runs it under the session      *)
(* mutex); another thread may cancel.  The result CODEC stands for every   *)
(* backend error that is neither an argument, a state nor an I/O error.    *)
(***************************************************************************)
EXTENDS Integers, Sequences

CONSTANTS
    Kinds,        \* the backends a session may own
    MaxPts,       \* bound: explicit timestamps a caller asks for
    MaxFrames,    \* bound: GPU frames
    MaxCalls      \* bound: calls in one behaviour

CpuKinds == {"vp9", "av1"}
GpuKinds == {"intel", "nvidia"}

ASSUME KindAssumption == Kinds \subseteq CpuKinds \cup GpuKinds
ASSUME BoundAssumption ==
    MaxPts \in Nat /\ MaxFrames \in Nat /\ MaxCalls \in Nat

VARIABLES
    kind,                \* which backend this session owns
    canceled,            \* accepting is its negation: close leaves both alone
    accepted_frames,     \* equal to completed_frames in this mode
    policy,              \* require_gpu_resident and allow_cpu_copy
    closed,              \* the backend's flag
    component,           \* the codec: "none", or what input it was made for
    anchor,              \* GPU frame leased for the codec's device, or NoFrame
    frames_in_sequence,  \* since the codec was made; not counted by VP9
    next_pts,
    pending,             \* pts the codec has taken and not given out
    packets,             \* pts muxed, in file order
    finalized,           \* WebmMuxer
    pc, request, ret,    \* the caller: location, what it asked, last result
    taken,               \* history: pts the codec took, in order
    reported,            \* history: errors about the output a caller saw
    calls

session == <<kind, canceled, policy>>
codec   == <<component, anchor, frames_in_sequence>>
output  == <<pending, packets, finalized, taken>>
backend == <<closed, codec, next_pts, output>>
caller  == <<pc, request, ret, reported, calls>>
shared  == <<session, accepted_frames, backend, caller>>

AUTO == -1                       \* "take the next timestamp"
Frames == 1..MaxFrames
NoFrame == 0
Errors == {"IO", "CODEC"}
Results == Errors \cup {"none", "OK", "INVALID_ARGUMENT", "INVALID_STATE",
                        "NOT_SUPPORTED", "WOULD_BLOCK", "CANCELLED"}
Requests == [pts : {AUTO} \cup 0..MaxPts, frame : {NoFrame} \cup Frames]
Policies == [gpu_only : BOOLEAN, allow_cpu_copy : BOOLEAN]

\* GPU frames f and g live on the same device.
SameDevice(f, g) == f = g

InitShared ==
    /\ kind \in Kinds /\ canceled = FALSE /\ accepted_frames = 0
    /\ policy = [gpu_only |-> FALSE, allow_cpu_copy |-> TRUE]
    /\ closed = FALSE /\ component = "cpu" /\ anchor = NoFrame
    /\ frames_in_sequence = 0 /\ next_pts = 0
    /\ pending = <<>> /\ packets = <<>> /\ finalized = FALSE
    /\ pc = "idle" /\ request = [pts |-> AUTO, frame |-> NoFrame]
    /\ ret = "none" /\ taken = <<>> /\ reported = {} /\ calls = 0

-----------------------------------------------------------------------------
(* Calls                                                                   *)

Return(result) ==
    /\ pc' = "idle" /\ ret' = result
    /\ reported' = reported \cup ({result} \cap Errors)

Call(location, pts, frame) ==
    /\ pc = "idle" /\ calls < MaxCalls /\ calls' = calls + 1
    /\ pc' = location /\ request' = [pts |-> pts, frame |-> frame]
    /\ ret' = "none" /\ UNCHANGED <<session, accepted_frames, backend, reported>>

\* A call that ends in the session's own checks.
Refuse(result) ==
    /\ pc = "idle" /\ calls < MaxCalls /\ calls' = calls + 1
    /\ Return(result)
    /\ UNCHANGED <<session, accepted_frames, backend, request>>

\* A frame counts when the backend call has returned OK.
CountIf(result) ==
    accepted_frames' = IF result = "OK" THEN accepted_frames + 1
                       ELSE accepted_frames

CpuRefused == policy.gpu_only \/ ~policy.allow_cpu_copy

\* write
Write ==
    \/ CpuRefused /\ Refuse("NOT_SUPPORTED")
    \/ ~CpuRefused /\ canceled /\ Refuse("CANCELLED")
    \/ ~CpuRefused /\ ~canceled /\ Refuse("INVALID_ARGUMENT")    \* layout
    \/ /\ ~CpuRefused /\ ~canceled
       /\ \E pts \in {AUTO} \cup 0..MaxPts : Call("write", pts, NoFrame)

\* write_borrowed does not read the policy.
WriteBorrowed ==
    \/ canceled /\ Refuse("CANCELLED")
    \/ ~canceled /\ \E pts \in {AUTO} \cup 0..MaxPts :
                        Call("write", pts, NoFrame)

\* write_gpu.  The frame carries a timestamp of its own.
WriteGpu ==
    \/ canceled /\ Refuse("CANCELLED")
    \/ ~canceled /\ kind \in CpuKinds /\ Refuse("NOT_SUPPORTED")
    \/ /\ ~canceled /\ kind \in GpuKinds
       /\ \E pts \in 0..MaxPts, f \in Frames : Call("write_gpu", pts, f)

SetCopyPolicy ==
    \/ accepted_frames # 0 /\ Refuse("INVALID_STATE")
    \/ accepted_frames = 0 /\ kind \in CpuKinds /\ Refuse("NOT_SUPPORTED")
    \/ accepted_frames = 0 /\ kind \in GpuKinds /\ Refuse("INVALID_ARGUMENT")
    \/ /\ pc = "idle" /\ calls < MaxCalls /\ calls' = calls + 1
       /\ accepted_frames = 0
       /\ \E p \in Policies :
            /\ p.gpu_only => kind \in GpuKinds /\ ~p.allow_cpu_copy
            /\ policy' = p
       /\ Return("OK")
       /\ UNCHANGED <<kind, canceled, accepted_frames, backend, request>>

Flush ==
    \/ canceled /\ Refuse("CANCELLED")
    \/ ~canceled /\ Call("flush", AUTO, NoFrame)

Close == Call("close", AUTO, NoFrame)

\* From any thread, at any time write_gpu does not hold the mutex.
Cancel ==
    /\ ~canceled /\ pc \notin {"crashed", "write_gpu"}
    /\ canceled' = TRUE
    /\ UNCHANGED <<kind, policy, accepted_frames, backend, caller>>

-----------------------------------------------------------------------------
(* What the backends have in common.  Definitions named X_Fault are X with *)
(* a fault; they are in no specification and show that the properties can  *)
(* break.                                                                  *)

WriteClosed ==
    /\ pc \in {"write", "write_gpu"} /\ closed
    /\ Return("INVALID_STATE")
    /\ UNCHANGED <<session, accepted_frames, backend, request, calls>>

CloseAgain ==
    /\ pc \in {"flush", "close"} /\ closed
    /\ Return("OK")
    /\ UNCHANGED <<session, accepted_frames, backend, request, calls>>

\* The backend refuses the frame and keeps its state.
Rejected(result) ==
    /\ ~closed /\ Return(result)
    /\ UNCHANGED <<session, accepted_frames, backend, request, calls>>

(* FrameTiming                                                             *)
Select(requested) == IF requested >= 0 THEN requested ELSE next_pts
Latest(a, b) == IF a > b THEN a ELSE b
Commit(pts) == next_pts' = Latest(next_pts, pts + 1)

\* libwebm (external) refuses a packet older than the last one it wrote.
InFileOrder(file) == \A i \in 2..Len(file) : file[i - 1] <= file[i]

\* Packets are muxed in order until one is refused; that one and those after
\* it are gone.
Mux_Dropping(out, n, result) ==
    /\ packets' = packets \o SubSeq(out, 1, n) /\ result = "OK"
Mux(out, n, result) ==
    /\ n \in 0..Len(out)
    /\ packets' = packets \o SubSeq(out, 1, n)
    /\ InFileOrder(packets')
    /\ result = IF n = Len(out) THEN "OK" ELSE "IO"

\* WebmMuxer::finalize, which may fail; not reached after a failed drain.
Finalize(ended) == finalized' \in (IF ended = "OK" THEN BOOLEAN ELSE {FALSE})

CloseResult(ended) == IF ended = "OK" /\ ~finalized' THEN "IO" ELSE ended

=============================================================================
