------------------------------ MODULE IntelDecoder -----------------------------
(***************************************************************************)
(* IntelWebmDecoder over IntelVplDecoder, VplDecoderPump and               *)
(* VplDecoderQueue.  A packet is submitted piece by piece; a surface the   *)
(* codec gives out waits in the queue until AsyncDepth of them are there,  *)
(* then the oldest is collected: copied for read, wrapped into a slot of   *)
(* the frame pool for read_gpu.  Frames collected during one packet or one *)
(* drain are only queued for the caller when all of it went well.          *)
(* Outstanding GPU frames keep the session alive after close.              *)
(***************************************************************************)
EXTENDS SyncDecoder

CONSTANT AsyncDepth     \* VplDecoderQueue::async_depth, 4 in the code

ASSUME DepthAssumption == AsyncDepth \in Nat \ {0}

PoolCapacity_Depth == AsyncDepth
PoolCapacity == AsyncDepth + 2

AtIntel(location) == kind = "intel" /\ pc = location

Goto(location) == pc' = location /\ UNCHANGED <<ret, reported>>

\* The frames that wait for this kind of read.
Queue == IF how = "cpu" THEN completed ELSE completed_gpu

IntelSelect ==
    /\ AtIntel("select") /\ Goto("pump")
    /\ UNCHANGED <<session, delivered, how, calls, faults, closed, demux, queues,
                   codec, memory, leases>>

IntelDeliver ==
    /\ AtIntel("pump") /\ Queue # <<>>
    /\ Deliver(Head(Queue))
    /\ IF how = "cpu"
       THEN completed' = Tail(completed) /\ UNCHANGED completed_gpu
       ELSE completed_gpu' = Tail(completed_gpu) /\ UNCHANGED completed
    /\ UNCHANGED <<session, how, calls, faults, closed, demux, inside, ready, out,
                   codec, memory, releasing>>

IntelPacket ==
    /\ AtIntel("pump") /\ Queue = <<>> /\ ~demux_eos
    /\ \/ DemuxFails
       \/ /\ DemuxPacket /\ Goto("submit")
          /\ UNCHANGED <<session, delivered, how, calls, faults, closed, queues,
                         codec, memory, leases>>
       \/ /\ DemuxEnds
          /\ UNCHANGED <<session, caller, faults, closed, queues, codec, memory,
                         leases>>

\* enqueue, enqueue_gpu
Enqueue ==
    /\ IF how = "cpu"
       THEN completed' = completed \o out /\ UNCHANGED completed_gpu
       ELSE completed_gpu' = completed_gpu \o out /\ UNCHANGED completed
    /\ out' = <<>>

\* The call ends early: the rest of the packet is gone with what was
\* collected so far.
AbandonCall(result) ==
    /\ Return(result)
    /\ packet' = <<>> /\ out' = <<>>
    /\ Discard(Items(out))

CanSubmit == AtIntel("submit") /\ (packet # <<>> \/ (demux_eos /\ inside # <<>>))

\* The frames the codec has once it took the next piece of the packet; the
\* pump collects after a submit that said OK to a queue as long as this.
Frames == inside \o SubSeq(packet, 1, IF packet = <<>> THEN 0 ELSE 1)
Rest == IF packet = <<>> THEN <<>> ELSE Tail(packet)
AfterSubmit(pending) == IF Len(pending) >= AsyncDepth THEN "collect" ELSE "submit"

GivesOut(frames) ==
    /\ inside' = Tail(frames) /\ ready' = Append(ready, Head(frames))
    /\ mapped' = mapped \cup {Head(frames)}
    /\ pc' = AfterSubmit(ready')

\* VplDecoderQueue::submit with the next piece of the packet, or without one
\* to drain.  The codec may keep what it decoded (and ask for more data, or
\* say OK) or give out one surface.
Submit ==
    /\ CanSubmit
    /\ packet' = Rest
    /\ \/ /\ packet # <<>> /\ Len(Frames) <= MaxDelay
          /\ inside' = Frames /\ pc' \in {pc, AfterSubmit(ready)}
          /\ UNCHANGED <<ready, mapped>>
       \/ GivesOut(Frames)
    /\ UNCHANGED <<session, delivered, how, ret, reported, calls, faults, closed,
                   next, demux_eos, lost, out, completed, completed_gpu, codec,
                   slots, leases>>

\* A warning is an OK to the queue.  A codec that took no data makes the pump
\* leave the rest of the packet; a surface without a sync point is given back
\* unseen.
Stalls ==
    /\ packet' = <<>> /\ lost' = lost \cup Items(packet)
    /\ \/ inside # <<>> /\ GivesOut(inside)
       \/ /\ pc' \in {pc, AfterSubmit(ready)}
          /\ UNCHANGED <<inside, ready, mapped>>

Unsynced ==
    /\ packet' = Rest /\ lost' = lost \cup {Head(Frames)}
    /\ inside' = Tail(Frames) /\ pc' = AfterSubmit(ready)
    /\ UNCHANGED <<ready, mapped>>

SubmitWarns ==
    /\ CanSubmit /\ Fault /\ (Stalls \/ Unsynced)
    /\ UNCHANGED <<session, delivered, how, ret, reported, calls, closed, next,
                   demux_eos, out, completed, completed_gpu, codec, slots, leases>>

\* The codec is out of surfaces: in the queue, with callers, or among the
\* frames this very call has collected.
SubmitBlocked ==
    /\ AtIntel("submit") /\ Fault
    /\ IF ready # <<>>
       THEN Goto("collect") /\ UNCHANGED <<packet, out, slots, mapped>>
       ELSE AbandonCall("WOULD_BLOCK")
    /\ UNCHANGED <<session, delivered, how, calls, closed, next, demux_eos, lost,
                   inside, ready, completed, completed_gpu, codec, leases>>

\* DecodeHeader, Init or DecodeFrameAsync fails.
SubmitFails ==
    /\ AtIntel("submit") /\ Fault
    /\ \E result \in {"IO", "CODEC", "NOT_SUPPORTED"} : AbandonCall(result)
    /\ UNCHANGED <<session, delivered, how, calls, closed, next, demux_eos, lost,
                   inside, ready, completed, completed_gpu, codec, leases>>

PoolFull == Cardinality(slots) >= PoolCapacity

\* collect_cpu pops first; collect_gpu looks for room first and leaves the
\* surface in the queue when there is none.
Collect ==
    /\ AtIntel("collect")
    /\ \/ /\ how = "gpu" /\ PoolFull /\ AbandonCall("WOULD_BLOCK")
          /\ UNCHANGED <<ready, faults>>
       \/ /\ how = "gpu" => ~PoolFull
          /\ ready' = Tail(ready) /\ out' = Append(out, Head(ready))
          /\ IF how = "gpu"
             THEN slots' = slots \cup {Head(ready)} /\ UNCHANGED mapped
             ELSE mapped' = mapped \ {Head(ready)} /\ UNCHANGED slots
          /\ Goto("submit") /\ UNCHANGED <<packet, faults>>
       \/ /\ how = "gpu" => ~PoolFull
          /\ Fault
          /\ \E result \in {"IO", "CODEC", "NOT_SUPPORTED"} : Return(result)
          /\ ready' = Tail(ready) /\ packet' = <<>> /\ out' = <<>>
          /\ Discard(Items(out) \cup {Head(ready)})
    /\ UNCHANGED <<session, delivered, how, calls, closed, next, demux_eos, lost,
                   inside, completed, completed_gpu, codec, leases>>

\* The packet is used up: what was collected is queued for the caller.
PacketDone ==
    /\ AtIntel("submit") /\ ~demux_eos /\ packet = <<>>
    /\ Enqueue /\ Goto("pump")
    /\ UNCHANGED <<session, delivered, how, calls, faults, closed, demux, inside,
                   ready, codec, memory, leases>>

\* drain_queue: after the codec, the queue is collected to the end.
DrainDone == inside = <<>> /\ ready = <<>>

IntelDrain ==
    /\ AtIntel("pump") /\ Queue = <<>> /\ demux_eos /\ ~drained
    /\ Goto("submit")
    /\ UNCHANGED <<session, delivered, how, calls, faults, closed, demux, queues,
                   codec, memory, leases>>

DrainCollects ==
    /\ AtIntel("submit") /\ demux_eos /\ inside = <<>> /\ ~DrainDone
    /\ Goto("collect")
    /\ UNCHANGED <<session, delivered, how, calls, faults, closed, demux, queues,
                   codec, memory, leases>>

DrainEnds ==
    /\ AtIntel("submit") /\ demux_eos /\ DrainDone
    /\ Enqueue /\ drained' = TRUE /\ Goto("pump")
    /\ UNCHANGED <<session, delivered, how, calls, faults, closed, demux, inside,
                   ready, alive, memory, leases>>

IntelEnd ==
    /\ AtIntel("pump") /\ Queue = <<>> /\ demux_eos /\ drained
    /\ Return("END")
    /\ UNCHANGED <<session, delivered, how, calls, faults, closed, demux, queues,
                   codec, memory, leases>>

\* The session lives as long as the decoder or a frame has a share of it.
SessionAlive_Decoder == ~closed'
SessionAlive == ~closed' \/ slots' # {}

\* IntelVplDecoder::close waits for the queue and returns its surfaces.
IntelClose ==
    /\ AtIntel("close")
    /\ closed' = TRUE
    /\ Discard(Items(ready) \cup Items(completed_gpu))
    /\ inside' = <<>> /\ ready' = <<>> /\ completed' = <<>> /\ completed_gpu' = <<>>
    /\ alive' = SessionAlive
    /\ Return("OK")
    /\ UNCHANGED <<session, delivered, how, calls, faults, demux, out, drained,
                   leases>>

\* The release callback of wrap_vpl_surface, then ~GpuFrameCore drops the
\* keepalive.
IntelReleases ==
    /\ kind = "intel"
    /\ \E f \in AllFrames :
        \/ ReleaseBegins(f) /\ UNCHANGED <<slots, closed, alive>>
        \/ /\ ReleaseEnds(f) /\ UNCHANGED <<held, mapped, closed>>
           /\ alive' = SessionAlive
    /\ UNCHANGED <<session, caller, faults, demux, queues, drained>>

IntelNext ==
    \/ IntelSelect \/ IntelDeliver \/ IntelPacket
    \/ Submit \/ SubmitWarns \/ SubmitBlocked \/ SubmitFails \/ Collect \/ PacketDone
    \/ IntelDrain \/ DrainCollects \/ DrainEnds \/ IntelEnd
    \/ IntelClose \/ IntelReleases

=============================================================================
