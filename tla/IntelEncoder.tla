----------------------------- MODULE IntelEncoder -----------------------------
(***************************************************************************)
(* The Intel backend of a synchronous session: IntelWebmEncoder over a     *)
(* VplEncoderSequence, which replaces its oneVPL encoder at every flush    *)
(* and when input moves from CPU frames to GPU frames.                     *)
(*                                                                         *)
(* pending starts with the packets that have a sync point (queue holds who *)
(* waits for each: the GPU submission whose completion it resolves, or     *)
(* Nobody) and ends with the frames the codec holds back.  A surface that  *)
(* is not oneVPL's own is imported, and its frame leased, until oneVPL has *)
(* let go of the wrapper.                                                  *)
(***************************************************************************)
EXTENDS SyncEncoder, FiniteSets

CONSTANTS
    AsyncDepth,   \* 4 in the code
    MaxImports,   \* kMaxImportedInputs: 64 in the code
    MaxHeld,      \* bound: frames the codec holds back
    External      \* the GPU frames that are not oneVPL surfaces

ASSUME DepthAssumption == AsyncDepth \in Nat \ {0} /\ MaxImports \in Nat \ {0}

VARIABLES
    queue,        \* who waits for each of the first packets of pending
    waiting,      \* GPU submissions whose completion is pending
    inputs,       \* ImportedInput: submissions with a wrapper and a lease
    in_use        \* wrappers the oneVPL runtime still refers to

intel == <<queue, waiting, inputs, in_use>>

\* A GPU submission is known by its call and its frame.
Nobody == [call |-> 0, frame |-> NoFrame]

InitIntel == queue = <<>> /\ waiting = {} /\ inputs = {} /\ in_use = {}

-----------------------------------------------------------------------------
(* VplEncoderQueue, as functions of its state                              *)

Untouched == [result |-> "OK", pending |-> pending, queue |-> queue,
              out |-> <<>>, resolved |-> {}, took |-> FALSE]

\* submit: the frame is encoded and something has a sync point; it is held
\* back; it is skipped (no sync point); or it is refused.
Submitted(pts, who) ==
    LET took == [Untouched EXCEPT !.pending = Append(@, pts), !.took = TRUE]
        done == [Untouched EXCEPT !.resolved = {who}]
    IN  {[took EXCEPT !.queue = Append(@, who)]}
        \cup {[done EXCEPT !.result = r] : r \in {"OK"} \cup Errors}
        \cup {[took EXCEPT !.result = "END_OF_STREAM", !.resolved = {who}]
              : h \in {n \in {Len(pending) - Len(queue)} : n < MaxHeld}}

\* collect_oldest: a packet whose synchronization or parsing fails is gone,
\* and its completion fails.
Collected(w) ==
    IF w.queue = <<>> THEN {w}
    ELSE {[w EXCEPT !.result = r, !.pending = Tail(@), !.queue = Tail(@),
                    !.out = IF r = "OK" THEN <<Head(w.pending)>> ELSE <<>>,
                    !.resolved = @ \cup {Head(w.queue)}]
          : r \in {"OK"} \cup Errors}

\* drain: everything comes out in order, or an error ends it after n packets
\* and the encoder goes with the rest.
Drained(out, result) ==
    \/ out = pending /\ result = "OK"
    \/ /\ result \in Errors
       /\ \E n \in 0..Len(pending) : out = SubSeq(pending, 1, n)

Encoded(w) == w.result \in {"OK", "END_OF_STREAM"}

\* The encoder is destroyed: every completion is resolved, the wrappers and
\* then the leases and the anchor are released.
DestroyEncoder ==
    /\ pending' = <<>> /\ queue' = <<>> /\ waiting' = {}
    /\ inputs' = {} /\ in_use' = {}
    /\ anchor' = NoFrame /\ frames_in_sequence' = 0

\* next_pts_ and frames_in_sequence_ move only when the encoder said OK; the
\* packets are muxed after that.
Finish(w, pts) ==
    /\ taken' = IF w.took THEN Append(taken, pts) ELSE taken
    /\ pending' = w.pending /\ queue' = w.queue
    /\ IF Encoded(w)
       THEN \E n \in 0..Len(w.out), result \in {"OK", "IO"} :
                /\ Mux(w.out, n, result)
                /\ CountIf(result) /\ Return(result)
       ELSE /\ Return(w.result)
            /\ UNCHANGED <<packets, accepted_frames>>
    /\ next_pts' = IF Encoded(w) THEN Latest(next_pts, pts + 1) ELSE next_pts

-----------------------------------------------------------------------------
(* write                                                                   *)

IntelWriteRejected ==
    /\ pc = "write" /\ kind = "intel" /\ component # "none"
    /\ \E result \in {"INVALID_ARGUMENT", "CODEC"} : Rejected(result)
    /\ UNCHANGED intel

\* write_nv12 goes through a null pointer.
IntelWriteWithoutEncoder ==
    /\ pc = "write" /\ kind = "intel" /\ ~closed /\ component = "none"
    /\ pc' = "crashed"
    /\ UNCHANGED <<session, accepted_frames, backend, request, ret, reported,
                   calls, intel>>

\* Also taken by an encoder made for GPU frames.
IntelWrite ==
    /\ pc = "write" /\ kind = "intel" /\ ~closed /\ component # "none"
    /\ \E pts \in {Select(request.pts)} :
       \E s \in Submitted(pts, Nobody) :
       \E w \in (IF s.result = "OK" /\ Len(s.queue) >= AsyncDepth
                 THEN Collected(s) ELSE {s}) :
        /\ Finish(w, pts) /\ waiting' = waiting \ w.resolved
        /\ frames_in_sequence' = IF Encoded(w) THEN frames_in_sequence + 1
                                 ELSE frames_in_sequence
    /\ UNCHANGED <<session, closed, component, anchor, finalized, request,
                   calls, inputs, in_use>>

-----------------------------------------------------------------------------
(* write_gpu                                                               *)

\* An encoder on the frame's device is made, through a dozen calls any of
\* which may fail, before the old one is destroyed.
NotMade == "NOT_SUPPORTED"

\* Dimensions, frames of the sequence in CPU mode, or no such encoder.
IntelGpuRefused ==
    /\ pc = "write_gpu" /\ kind = "intel"
    /\ \/ Rejected("INVALID_ARGUMENT")
       \/ component # "gpu" /\ frames_in_sequence # 0 /\ Rejected("INVALID_STATE")
       \/ component # "gpu" /\ frames_in_sequence = 0 /\ Rejected(NotMade)
    /\ UNCHANGED intel

\* The encoder of an empty sequence is replaced by one on the frame's device.
BindGpu ==
    IF component = "gpu" THEN UNCHANGED <<component, anchor>>
    ELSE component' = "gpu" /\ anchor' = request.frame

\* retire: wrappers only the tracker refers to, and their leases, go.
Retired_Collected(imported, used) == {i \in imported : i \in waiting}
Retired(imported, used) == imported \cap used

\* acquire fails: another device, the producer, a full tracker or an import.
\* The encoder may already have been replaced.
DeviceAccepted == component # "gpu" \/ SameDevice(request.frame, anchor)
KeptImports == IF component = "gpu" THEN Retired(inputs, in_use) ELSE {}
NoRoom == Cardinality(KeptImports) >= MaxImports
ImportErrors == {"NOT_SUPPORTED", "INVALID_ARGUMENT", "CODEC"}
AcquireFails ==
    /\ pc = "write_gpu" /\ kind = "intel" /\ ~closed
    /\ component = "gpu" \/ frames_in_sequence = 0
    /\ BindGpu
    /\ \/ ~DeviceAccepted /\ Return("INVALID_ARGUMENT")
       \/ DeviceAccepted /\ Return("CODEC")
       \/ /\ DeviceAccepted /\ request.frame \in External
          /\ IF NoRoom THEN Return("WOULD_BLOCK")
             ELSE \E result \in ImportErrors : Return(result)
    /\ inputs' = KeptImports /\ in_use' = in_use \cap KeptImports
    /\ UNCHANGED <<session, accepted_frames, closed, frames_in_sequence,
                   next_pts, output, request, calls, queue, waiting>>

\* One dependency is collected per call, whatever the depth, so that the
\* producer's pool always moves on.
AfterSubmit(s) == IF s.result = "OK" THEN Collected(s) ELSE {s}

IntelWriteGpu ==
    /\ pc = "write_gpu" /\ kind = "intel" /\ ~closed
    /\ component = "gpu" \/ frames_in_sequence = 0
    /\ BindGpu /\ DeviceAccepted
    /\ request.frame \in External => ~NoRoom
    /\ \E who \in {[call |-> calls, frame |-> request.frame]} :
       \E s \in Submitted(next_pts, who) : \E w \in AfterSubmit(s) :
        /\ Finish(w, next_pts)
        /\ waiting' = (waiting \cup {who}) \ w.resolved
        /\ frames_in_sequence' = IF Encoded(w) THEN frames_in_sequence + 1
                                 ELSE frames_in_sequence
        /\ \E still_used \in BOOLEAN :
            LET new == IF request.frame \in External THEN {who} ELSE {} IN
            /\ in_use' = (in_use \cap KeptImports)
                         \cup (IF still_used THEN new ELSE {})
            /\ inputs' = IF new # {} /\ s.result \notin Errors
                         THEN Retired(KeptImports \cup new, in_use')
                         ELSE KeptImports \cup new
    /\ UNCHANGED <<session, closed, finalized, request, calls>>

\* oneVPL (external) drops its reference to a wrapper in its own time.
RuntimeReleases ==
    /\ pc # "crashed"
    /\ \E i \in in_use : in_use' = in_use \ {i}
    /\ UNCHANGED <<shared, queue, waiting, inputs>>

-----------------------------------------------------------------------------
(* flush and close                                                         *)

Restarted(ok) == IF ok THEN "cpu" ELSE "none"

\* Nothing to drain: only a missing encoder is made again.
IntelFlushNothing ==
    /\ pc = "flush" /\ kind = "intel" /\ ~closed
    /\ frames_in_sequence = 0 /\ component # "gpu"
    /\ \E ok \in BOOLEAN :
        /\ component = "cpu" => ok
        /\ component' = Restarted(ok)
        /\ Return(IF ok THEN "OK" ELSE "CODEC")
    /\ UNCHANGED <<session, accepted_frames, closed, anchor, frames_in_sequence,
                   next_pts, output, request, calls, intel>>

\* The encoder is destroyed whatever draining returned, and made again only
\* when its packets are in the file.
IntelFlush ==
    /\ pc = "flush" /\ kind = "intel" /\ ~closed
    /\ frames_in_sequence # 0 \/ component = "gpu"
    /\ \E n \in 0..Len(pending), out \in {SubSeq(pending, 1, i) : i \in 0..Len(pending)},
          drained \in {"OK"} \cup Errors, ok \in BOOLEAN :
        /\ Drained(out, drained)
        /\ \/ drained # "OK" /\ n = 0 /\ ~ok /\ UNCHANGED packets
              /\ Return(drained)
           \/ /\ drained = "OK"
              /\ \E muxed \in {"OK", "IO"} :
                    /\ Mux(out, n, muxed) /\ (ok => muxed = "OK")
                    /\ Return(IF muxed # "OK" THEN muxed
                              ELSE IF ok THEN "OK" ELSE "CODEC")
        /\ component' = Restarted(ok)
    /\ DestroyEncoder
    /\ UNCHANGED <<session, accepted_frames, closed, next_pts, finalized, taken,
                   request, calls>>

\* close drains only a sequence with frames in it.
IntelClose ==
    /\ pc = "close" /\ kind = "intel" /\ ~closed
    /\ \E n \in 0..Len(pending), out \in {SubSeq(pending, 1, i) : i \in 0..Len(pending)},
          drained \in {"OK"} \cup Errors, muxed \in {"OK", "IO"} :
        /\ IF component # "none" /\ frames_in_sequence > 0
           THEN Drained(out, drained) ELSE out = <<>> /\ drained = "OK"
        /\ IF drained = "OK" THEN Mux(out, n, muxed)
           ELSE n = 0 /\ muxed = "OK" /\ UNCHANGED packets
        /\ Finalize(IF drained = "OK" THEN muxed ELSE drained)
        /\ Return(CloseResult(IF drained = "OK" THEN muxed ELSE drained))
    /\ DestroyEncoder
    /\ component' = "none" /\ closed' = TRUE
    /\ UNCHANGED <<session, accepted_frames, next_pts, taken, request, calls>>

IntelNext ==
    \/ IntelWriteRejected \/ IntelWriteWithoutEncoder \/ IntelWrite
    \/ IntelGpuRefused \/ AcquireFails \/ IntelWriteGpu \/ RuntimeReleases
    \/ IntelFlushNothing \/ IntelFlush \/ IntelClose

=============================================================================
