------------------------------- MODULE CpuDecoder ------------------------------
(***************************************************************************)
(* CpuVp9Decoder and CpuAv1Decoder: a read alternates between the codec's  *)
(* images, the next packet and the end of the stream until it has a frame. *)
(* libvpx may keep frames until it is drained; libaom gives out all frames *)
(* of a packet before the next packet is read.                             *)
(***************************************************************************)
EXTENDS SyncDecoder

AtCpu(location) == kind \in CpuKinds /\ pc = location

CpuSelect ==
    /\ AtCpu("select") /\ pc' = "pump"
    /\ UNCHANGED <<session, delivered, how, ret, reported, calls, faults, closed,
                   demux, queues, codec, memory, leases>>

\* get_frame and copy_image: an image that cannot be copied is consumed.
CpuImage ==
    /\ AtCpu("pump") /\ ready # <<>>
    /\ ready' = Tail(ready)
    /\ \/ Deliver(Head(ready)) /\ UNCHANGED faults
       \/ Fault /\ Return("NOT_SUPPORTED") /\ UNCHANGED <<delivered, held>>
    /\ UNCHANGED <<session, how, calls, closed, demux, inside, out, completed,
                   completed_gpu, codec, memory, releasing>>

\* How many frames the codec may keep back after a packet.
MayKeep(frames) == IF kind = "av1" THEN {0} ELSE {n \in 0..Len(frames) : n <= MaxDelay}

\* vpx_codec_decode, aom_codec_decode
CpuDecodes(frames) ==
    \/ \E n \in MayKeep(frames) :
        /\ ready' = SubSeq(frames, 1, Len(frames) - n)
        /\ inside' = SubSeq(frames, Len(frames) - n + 1, Len(frames))
        /\ UNCHANGED <<pc, ret, reported, faults>>
    \/ /\ Fault /\ Return("CODEC") /\ UNCHANGED <<inside, ready>>

CpuNeedsPacket == ready = <<>> /\ ~demux_eos

CpuPacket ==
    /\ AtCpu("pump") /\ CpuNeedsPacket
    /\ \/ DemuxFails
       \/ /\ DemuxEnds
          /\ UNCHANGED <<session, caller, faults, closed, queues, codec, memory,
                         leases>>
       \/ /\ next < Len(Stream) /\ next' = next + 1 /\ packet' = <<>>
          /\ UNCHANGED <<demux_eos, lost>>
          /\ CpuDecodes(inside \o Stream[next + 1])
          /\ UNCHANGED <<session, delivered, how, calls, closed, out, completed,
                         completed_gpu, codec, memory, leases>>

\* Only VP9 drains its codec; drained is set before the call that may fail.
VpxDrains == demux_eos /\ ready = <<>> /\ ~drained
CpuDrain ==
    /\ AtCpu("pump") /\ kind = "vp9" /\ VpxDrains
    /\ drained' = TRUE
    /\ \/ ready' = inside /\ inside' = <<>> /\ UNCHANGED <<pc, ret, reported, faults>>
       \/ Fault /\ Return("CODEC") /\ UNCHANGED <<inside, ready>>
    /\ UNCHANGED <<session, delivered, how, calls, closed, demux, out, completed,
                   completed_gpu, alive, memory, leases>>

CpuAtEnd_Undrained == demux_eos /\ ready = <<>>
CpuAtEnd == demux_eos /\ ready = <<>> /\ (kind = "vp9" => drained)
CpuEnd ==
    /\ AtCpu("pump") /\ CpuAtEnd
    /\ Return("END")
    /\ UNCHANGED <<session, delivered, how, calls, faults, closed, demux, queues,
                   codec, memory, leases>>

\* destroy
CpuClose ==
    /\ AtCpu("close")
    /\ closed' = TRUE /\ alive' = FALSE /\ inside' = <<>> /\ ready' = <<>>
    /\ Return("OK")
    /\ UNCHANGED <<session, delivered, how, calls, faults, demux, out, completed,
                   completed_gpu, drained, memory, leases>>

CpuNext ==
    CpuSelect \/ CpuImage \/ CpuPacket \/ CpuDrain \/ CpuEnd \/ CpuClose

=============================================================================
