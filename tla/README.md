# MKVCodec: TLA+ models, checks and proofs

MKVCodec is a C++ library (`src/src`, public headers in `src/include/mkvcodec`)
that encodes and decodes VP9 and AV1 video in WebM and Matroska files on the CPU
(libvpx, SVT-AV1, libaom), on Intel GPUs (oneVPL) and on NVIDIA GPUs (NVENC,
NVDEC), with a C ABI, a Python binding (`src/python`) and a .NET SDK
(`src/dotnet`). Its own logic is about who owns a frame, which thread may do
what next and where each sample goes, and that is what is specified here. Paths
below are relative to `src/`; `enc/` stands for `src/encoder/` and `gpu/` for
`src/gpu/`.

## 1. Inventory

| Component | State it keeps | Operations | What makes it correct |
|---|---|---|---|
| Asynchronous encoder session: `src/encoder_session.cpp`, `enc/encoder_worker.cpp`, `enc/encoder_queue_*.cpp` | bounded queue of frames and flush items, free `OwnedFrame`s, flags (accepting, close_requested, closed, failed, canceled), flush tokens, worker thread | write, try_write, submit_borrowed, flush, cancel, close; worker loop | frames reach the backend once and in order; a buffer has one owner; a flush is a barrier; failure, cancel and close reach everybody who waits; nothing is accepted behind the end |
| `CpuSubmission`: `enc/cpu_submission.cpp` | result, owner of the pixels | query, wait, complete, set_owner | terminal once; truthful; pending as long as the pixels are read |
| Synchronous session: `src/encoder_session.cpp`, `enc/encoder_backend_execution.cpp` | flags, copy policy, the backend | write, write_borrowed, write_gpu, flush, close on the caller's thread; cancel from another | errors reported, nothing lost silently, the policy kept |
| CPU VP9/AV1 encoders, `FrameTiming`, `WebmMuxer` | codec handle, frames inside it, next timestamp, file | write, flush (AV1: drain, destroy, make again), close | timestamps rise, packets in order, the file is finalized |
| Intel encoder: `src/intel_*encoder.cpp`, `gpu/intel/vpl_encoder_*`, `vpl_imported_surface_tracker.cpp` | oneVPL session, queue of sync points, device anchor, imported surfaces and their leases | write, write_gpu, flush, close | every completion is resolved; surfaces outlive their use; one device per sequence |
| NVIDIA encoder: `src/nvidia_webm_encoder.cpp`, `gpu/nvidia/nvenc_*` | NVENC session, CUDA context, frame index | write, write_gpu, flush, close | each picture is in the file when the call returns |
| CPU frame pool: `src/cpu_frame_pool.cpp`, `src/c_api_cpu_*.cpp` | slots with generation, shared leases, waiters, statistics | acquire with timeout, submit to the encoder, set_owner, release | a slot has one current lease, returns with the last reference, wakes somebody |
| Decoder pipeline with prefetch: `src/decoder/` | prefetch queue, worker, end-of-stream result, policy | read, set_copy_policy, close | order, no loss at the end, bounded memory, close waits for the worker |
| Synchronous reads: `src/decoder/decoder_sync_read.cpp` | policy, backend | read, read_gpu, set_copy_policy, close | order, END is complete |
| CPU, Intel and NVIDIA decoders: `src/cpu_*_decoder*.cpp`, `src/intel_*decoder.cpp`, `gpu/intel/vpl_decoder_*`, `src/nvidia_webm_decoder.cpp`, `gpu/nvidia/nvdec_*` | packet, frames inside the codec, queue of surfaces, output queues, mapped surfaces, frame pool | decode, drain, collect, parser callbacks, release, close | a failed or blocked read loses nothing silently; a leased surface stays usable; the runtime is destroyed by whoever comes last |
| GPU frame core, pool, handles: `gpu/gpu_frame*.cpp` | leases, references, producer and consumer completions, recycled flag, pool slots | retain, release, add_consumer, poll, wait, destroy | the surface goes back once, not before GPU and holders are done, and always |
| GPU resource pool: `gpu/gpu_resource_pool*.cpp` | slots, generation, waiters | acquire, release, snapshot | as the CPU pool |
| External import, completions, DLPack: `gpu/gpu_external_import*.cpp`, `gpu/*/..._completion.cpp`, `gpu/dlpack_adapter.cpp`, `python/mkvcodec/_dlpack_module.c`, Python output leases | imported owner, completions, capsules | import, query, wait, export, consume, release | owner released once, after the GPU; producers are waited for |
| Container: `src/container_*.cpp`, `src/webm_packet_reader.cpp`, `src/input_video_probe.cpp` | file, replacement file, reading position | finalize, open, read, probe | the file is whole; probe and reader agree; no frame of the track is skipped |
| Frame copy, layout, conversion, processing: `enc/cpu_frame_*.cpp`, `src/frame_conversion.cpp`, `src/packed_pixel_conversion.cpp`, `src/frame_processor*.cpp` | none | pure functions over planes | every sample lands where it belongs |
| CPU conversion workers: `src/cpu_conversion_workers.cpp` | task queue, threads | submit, shutdown | every future is fulfilled; no stripe outlives its call |
| Registry, probes, metrics, page lock, C ABI validation | tables, counters | look-ups | - |
| Python binding, .NET SDK | wrapper handles | wrap, wait, close | a handle is released once and not used after |

**Interactions.** Client threads enter through the C ABI. An asynchronous
encoder session owns one worker that alone calls the backend; the CPU pool lends
slots to a session through submissions, whose completion gives the slot back. A
decoder owns one prefetch worker (only with `prefetch > 0`); GPU reads are
synchronous and hand out frames that an encoder may consume directly, so that
decoder, client and encoder share one `GpuFrameCore`. Frames of the caller come
in the same way through an import, and leave again as DLPack tensors. Mutexes
are per object; backends, pixel copies, thread joins and recycle callbacks run
outside of them, and it is there that the hard behaviours are: an operation
reads a flag, unlocks, works and locks again. The only thing that outlives a
process is the output file; its one replacement step is modelled with crashes.
PROJECT.json lists the hazards line by line, with the properties that look for
them or why none does.

## 2. Modules

| Module | What it is |
|---|---|
| `OrderedPipeline` | abstract: numbered frames accepted, delivered in order up to a horizon, which an abort pulls back; ends done (all delivered) or dead. Implemented by the encoder session and the decoder prefetch |
| `LeasePool` | abstract: slots leased when free, shared, free again with the last holder. Implemented by the CPU frame pool |
| `EncoderSession` | the asynchronous session with its worker and submissions |
| `CpuFramePool` | pool, leases and submissions seen from the pool |
| `DecoderPrefetch` | prefetch worker, readers, copy policy, close |
| `GpuFrame` | frame core, frame pool, C handles, what encoder and decoder do to frames; liveness |
| `SyncEncoder`, `CpuEncoder`, `IntelEncoder`, `NvEncoder`, `EncoderBackends` | the synchronous session, the backends behind it, and their composition |
| `SyncDecoder`, `CpuDecoder`, `IntelDecoder`, `NvDecoder`, `DecoderBackends` | the synchronous decoder handle, its backends, and their composition |
| `GpuResourcePool`, `ExternalImport`, `GpuSharing` | critical sections of the pool, rules of the import entry points, and the life of a resource through reservation, import, encoding, DLPack and release |
| `ContainerFile`, `FrameLayout`, `FrameProcessor`, `ConversionWorkers`, `CpuMedia` | pure operators on headers, tracks and blocks; on planes; on geometry; the worker pool; and the steps over them |
| `EncoderSessionProofs`, `CpuFramePoolProofs`, `DecoderPrefetchProofs`, `DecoderBackendsProofs`, `EncoderBackendsProofs`, `GpuFrameProofs`, `GpuSharingProofs`, `CpuMediaProofs` | theorems, see section 4 |
| `MC*` | symmetry sets and inputs for the runs |

**From code to actions.** One action is one critical section of the object's
mutex, with everything it changes, or one unlocked stretch that nobody else can
observe half done. `pc[c]` tells between which two critical sections a thread
is; a field of the C++ object keeps its name as a variable. PROJECT.json `map`
gives the lines of every definition. A condition variable is its wait set: a
thread whose predicate is false enters `asleep` and does nothing until a
notify takes it out; then it evaluates the predicate again. A forgotten notify
is thus a thread that never returns, and spurious wakeups are covered because a
thread that is awake may always find its predicate false again. Results are
strings (`"OK"`, `"IO"`, ...), frames and timestamps are numbers. History
variables (`encoded`, `flushed`, `mark`, `taken`, `reported`, `delivered`,
`lost`, `muxed`) record what happened; no action of the code reads them.

* `EncoderSession`. write reserves a buffer (`Reserve*`), copies without the
  lock (`CopyDone`, `CopyRefused`, `CopyThrows`) and queues (`Publish*`), each
  with its own check of the flags. `Worker*`, `FrameEncoded`, `FlushDone`,
  `BackendFails`, `BackendCloses` and `BackendThrows` are `run_encoder_worker`,
  its failure path and its catch handlers.
* `CpuFramePool`. A lease is a slot and a generation. The shared_ptr count of the
  code is the handle plus the submissions whose `owner_` is set; the drop of the
  last one is `Recycle`, in the step that drops it. The encoder is a step that
  may complete a pending submission at any time, in particular before
  `set_owner`.
* `DecoderPrefetch`. Between `WorkerStarts` and `WorkerParks`, `WorkerDrops` or
  `WorkerEnds` the backend runs unlocked. close is stop, join, clear and backend
  close, by several threads at once.
* `EncoderBackends`. `kind` is the backend `create_backend` chose. The session's
  checks (`SyncEncoder`) move the call to `pc = "write"`, `"write_gpu"`,
  `"flush"` or `"close"`; the step of the backend at that location is the whole
  backend call and ends it with a result. A codec is what it lets the code see:
  it takes a timestamp (`taken`, `pending`) and gives packets out later
  (`packets`), any number at a time and in order. libvpx keeps its context over
  a flush, SVT-AV1 and oneVPL are replaced by it, NVENC restarts its sequence.
  `IntelEncoder` writes the queue of sync points as functions of a record
  (submit, collect, drain), so that a call that collects several packets and
  fails half way is one action with every possible cut.
* `DecoderBackends`. A read is a loop in the code and so several steps here:
  take a queued frame, fetch a packet, submit it, collect, drain, end. Other
  threads release GPU frames between any two of them (`IntelReleases`,
  `NvReleases`), and after close. A fault of file, codec or driver may strike at
  each of these steps. A warning of oneVPL is a fault too (`SubmitWarns`): the pump
  takes a submit that used no data for the end of its packet, and the queue gives a
  surface without a sync point back; `lost` records the frames that go this way.
  `SubmitBlocked`, oneVPL's want of surfaces, may strike whatever the caller holds.
* `GpuFrame`. Producer completions are settled by the GPU at any time; a consumer
  completion is pending from `AddConsumer` until its item leaves `queue`. A GPU write
  that has queued its item collects the *oldest* one, a CPU write (`WriteCpu`, an item
  without a frame) only the one that fills the queue: behind a CPU frame a GPU frame
  is read long after its write, and after the last release. Then the queue alone
  keeps the core, and the poll of `Collect` or `Drain` is what recycles it (`Pop`). A
  collect that fails drops the item unpolled and leaves the wait to the destructor.
  Flush and close end the sequence alike: `Drain`, then `CloseWaits` for whatever is
  left (one step: the items keep their frames until all are settled, and nobody looks
  in between), `Clear`, and at last the anchor, the first frame of the sequence,
  leased for its device (`ReleaseAnchor`). `chore` is what the last owner of a core
  still has to do: wait, release the surface, recycle the slot.
* `GpuSharing`. An image is a reservation of the pool, an allocation of the
  caller or a foreign tensor, and goes through `stage`: writable, frame, gone.
  `ExternalImport` says which descriptors an entry point takes and how it reads
  the status of a D3D11 fence, a VA surface, a Level Zero or a CUDA event, and
  `Latch` which of these remember the answer. Retain, release, delete, destroy
  and the release callback are separate steps, as they are under separate
  mutexes or none. Python's output leases and capsule destructors are part of
  it, including what they skip once the interpreter is gone (`Finalize`).
* `CpuMedia`. Four parts that share no state, one under way at a time: a file is
  finished (`FinalizeMatroska`, `CopyChunk`, `Install`, with `Crash`) and read
  back (`Open`, `ReadPacket`); a picture is processed (`ProcessFrame`); a frame
  goes from decoder image to caller planes to encoder staging (`Decode`,
  `CopyFrame` or `GetView`, `WriteFrame`); large frames are converted by stripes
  (`ConversionWorkers`). A sample is known by where it came from, `<<component, x,
  y>>`, so that a pixel in the wrong place is seen whatever its value. A header
  is a list of elements with the widths of their size fields.

## 3. Runs

Every run ends in seconds to a few minutes. Bounds are constants named `Max*`;
they bound how often clients call and how much fails, not what the code may do.

| Run | Instance | Shows |
|---|---|---|
| `encoder_safety` | 3 clients, queue of 2, 4 calls, I/O errors, exceptions, refused and throwing copies | buffers exclusive (`FrameExclusive`), every frame encoded in order or accounted for, failures and submissions included (`WorkAccounted`), flush and close truthful (`ResultsTruthful`), implements `OrderedPipeline` |
| `encoder_live` | 2 clients, queue of 1, 4 calls, fairness, no failing allocation | no buffer and no wakeup lost, sleepers never wait for each other (`NobodyStuck`), every call returns and every submission ends (`EverythingAnswered`), the pipeline moves on |
| `pool_safety` | 3 threads, 2 slots, 5 calls, 2 submissions, three kinds of timeout | pending frames keep their slot, slots, leases and statistics agree (`SlotAccounting`), no lost wakeup, implements `LeasePool` |
| `decoder_all` | 3 clients, prefetch 2, 3 frames, 4 calls, fairness | order and completeness (`FramesKept`), close against worker, no lost wakeup, every call returns, implements `OrderedPipeline` |
| `gpu_all` | 2 threads, 2 slots, 3 frames, encoder queue of 2, any number of calls, fairness | surface returned once, after client, producer and encoder (`ReturnedWhenDone`), and never forgotten; pool agrees with frames (`SlotsAccounted`); every call returns |
| `sync_safety` | all four encoder backends, timestamps up to 1, 2 GPU frames of which one needs an import, 4 calls, depth 2, 1 import | no silent loss up to a finalized file, fresh timestamps, imported surfaces held, flush a barrier, one device, completions resolved (`SequenceRules`) |
| `decoder_backends` | all four decoder backends, 5 packets with an altref packet and one of two frames, 7 calls, 1 fault, depth 2, NVDEC pool 4 | order, END means complete but for what oneVPL drops with a warning, held frames usable, context destroyed by the last, a full frame pool only reported to somebody who can release |
| `gpu_sharing` | 3 threads, pool of 1, 3 images of six kinds, 1 export, 2 references | memory not handed on while used, owner released once, producers respected, no lost wakeup |
| `cpu_media` | 288 files, 6912 processing requests, 11 images, 40 layouts, 2 callers and 2 workers | finished files intact, read back complete, geometry right, every sample carried, no stripe forgotten |
| `decoder_retry`, `decoder_warning`, `frame_copy` | subsets of the above | *violations*: see section 5 |

**Why these bounds.** The encoder's races need a producer between its two
critical sections, a second thread that flushes, cancels or closes, and a third
that waits: three clients, four calls. Two buffers are enough for two producers
to hold different ones and for order to be lost; one buffer makes every wait
contended. In the pool two slots and three threads make one sleep behind
two holders; five calls let a slot be leased a second time while an old
submission is pending. Three decoded frames fill a queue of two with the worker
asleep. Three GPU frames over two slots force reuse of a slot under a new
generation. Calls are not bounded there. A queue of two (4 in the code) lets a
GPU frame wait behind a CPU frame, survive its last release there, and be collected
by a later write, by the drain or by the close.

`sync_safety`: `MaxPts = 1` gives an equal, an earlier and a later timestamp; in
four calls fit a GPU frame, a CPU frame, a flush and a close in any order; depth
2 and one held frame (`MaxHeld`) leave packets in the queue and frames in the
codec at once; one import (64 in the code) makes the tracker overflow; of the two
GPU frames one is external and both have their device. `IntelEncoder` is for
frame rates whose timestamps survive the 90 kHz clock (see section 5).

`decoder_backends`: depth 2 (4 in the code) with a pool of depth + 2 surfaces as
in the code, and an NVDEC pool of 4 (8 in the code). `WouldBlockIsHelpful` holds
because one display burst of the parser, or one packet or drain on top of the
surfaces that wait, fits the pool (`BurstsFit`); the run keeps that proportion: a
codec holds back at most `MaxDelay` frames and a packet completes at most two. It
speaks of the frame pool, and of reads before the first one that ended in the middle
(`Undisturbed`); section 5 says what repeated WOULD_BLOCKs do, and what oneVPL's own
want of surfaces does. Seven calls read all five frames,
see the end and close.

`gpu_sharing`: one slot makes every acquire contended, three threads give a
sleeper, a releaser and a thief that takes the slot between unlock and
notification; one image is an output of a processor, one a D3D11 texture, and
one a USM slot, a VA surface, a CUDA allocation or a foreign tensor.

`cpu_media`: three blocks, one of two laced frames, over lists of up to three
tracks, headers with and without room for the longer DocType, and a file cut or
damaged anywhere; `MaxTracks = 2` drops the third track as the limit of the
code does. Frames of 4 by 2 and 4 by 6 samples let a swapped axis, an odd stripe
and an odd margin show. A scale takes the nearest sample (libyuv's filter is
external), so `GeometryRight` is about position. `Threshold = 4` rows and heights
of 2 and 6 take the serial and the parallel path, with two stripes and with
three that end early. `MaxQueue = 0` lets a conversion begin when no stripe of an
earlier one is queued, `MaxRequest` is the parallelism a caller may ask for.

**Deadlock** is checked in every run but `encoder_safety`: there a throwing copy
destroys buffers, and once all are gone every blocking writer waits for ever.
`Quiescent` stutters only where the clients have nothing left to do.

**Fairness** is weak fairness of a thread's steps inside a call and of the
worker: the operating system schedules runnable threads, the mutexes are held
for bounded stretches, and backend calls and copies return. That clients call at
all is never assumed. In `GpuFrame` the GPU settles what it was given, with
success or failure; the code waits for it without a deadline and cannot do
without that assumption. The other runs check safety only.

**Mutants.** Definitions with a suffix (`HasRoom_OffByOne`) are the same
definition with a plausible fault. No specification uses them; put in place of
the original each makes TLC report the property named in PROJECT.json.

## 4. Proofs

Eight modules prove 47 theorems for every value of the constants: any number of
threads, slots, frames, streams, calls and faults, files of any length and pictures
of any size. They state every safety and refinement property of the passing runs.
What is assumed about the constants is named where they are declared, and evaluated
by every run: bounds are natural numbers and capacities are not 0; an asynchronous
session has as many buffers as its queue has places; threads are finitely many where
they are counted, and a worker is not a client (`ThreadAssumption`); a handle owns
one of the four backends (`KindAssumption`); the packets of a stream complete frames
in display order (`DisplayAssumption`); the inputs of `CpuMedia` have their types
(`MediaAssumption`, below). Three theorems have a hypothesis of their own, named below.

Each proof rests on an invariant that is stated next to the model (`Inductive` or
the parts named here), was checked by TLC first, and is proved with one step per
action. The properties themselves are seldom inductive; what had to be added says
why the code is right:

* **Asynchronous session** (`EncoderSessionProofs`). That an item put back into the
  free list is a buffer depends on where the thread is, which `LocalsOK` adds: a
  client holds a buffer exactly in copy and publish, the worker an item exactly
  while it is in the backend. `StoppedOK` (whatever stops the session clears
  `accepting`) gives `LateAcceptance`, which no run checks by itself, and
  `FrameExclusive` is inductive with it (`Exclusion`). `Order` needs `ChainOK`: frame
  numbers rise by one along backend, active item and queue, a flush item carrying
  the number of the frame it stands behind.
* **What becomes of accepted work** (the second half of that module).
  `Accounted`: every frame is in one of four places, and the status of a submission
  says which. `Truthful`: a flusher that is answered has its mark behind every
  frame accepted before it, because tokens are answered in the order of the chain
  and a failure answers all of them. `PipelineRefinement`: each step maps to a step
  of `OrderedPipeline` or to a stutter; the horizon is what cancel or failure leaves
  of the queue. `Conserved` counts buffers: free, queued, held, with the worker. It
  holds *if no copy throws* (`"throw" \notin CopyOutcomes`); a copy that throws
  loses its buffer, see section 5.
* **Nobody stuck** (its last part). `Wakeups`: whoever sleeps is `Blocked`. The step
  that changes a predicate notifies its waiters, or has none: a writer that gives its
  buffer back to a stopped session notifies nobody, and is right because a stopped
  session has no sleeper that waits for room (`NoSpaceSleepers`). `NoCycle`: with the
  worker asleep the queue is empty, so a sleeping flusher would have an answered
  token or a barrier in the queue (`TokensOK`: tokens rise along the queue from the
  last one answered), a sleeping submission waiter a finished submission
  (`AnsweredOK`: whoever ends the worker answers what is pending), and a writer can
  only wait for a buffer that another writer, awake, is filling. The last is
  `FrameConserved`, so `NoCycle` has the hypothesis of `Conserved`.
* **CPU frame pool** (`CpuFramePoolProofs`). `PendingKeepsSlot` needs to know who
  keeps a lease alive between `submit_borrowed` and `set_owner`: the thread inside
  the call, by the handle it was given (`BusyOK`, `EntryOK`, `OwnerOK`). `Accounting`
  ties `in_use_` to the cardinality of the slots that somebody refers to. `Wakeups`:
  while a thread sleeps, the free slots are not more than the threads awake that
  will look again, so one `notify_one` per release is enough. `LeaseRefinement`: the
  pool implements `LeasePool`, the drop of the last reference being the release.
* **Decoder with prefetch** (`DecoderPrefetchProofs`). Delivered, queued and parked
  frames form one chain without a gap (`StreamWhole`); close is finished only when
  the worker has left the backend (`Exclusion`), by the locations of worker and
  closers; `PipelineRefinement` as for the session. `Wakeups`: the worker wakes one
  reader per frame, and while readers sleep there are as many awake as there are frames
  (`WakeupPerFrame`); a full queue therefore has a reader awake, and an exhausted stream
  nobody asleep.
* **Synchronous decoder** (`DecoderBackendsProofs`). File, packet, codec, queue of
  surfaces, collected frames and output queues are one line, and each backend uses a
  part of it. `LineOK` says that along it frames rise, `DeliveredOK` that what was
  delivered is behind it, `NoneMissing` that nothing disappears from it unless a
  read reports a failure; the lemmas `LineMoves`, `LineDrops` and `LineDelivers` treat
  a step once for all backends. The backends' own books are `CpuOK`, `IntelOK` (slots
  and mappings are those of the queued, collected, held and releasing frames; the
  session lives as long as the decoder or a slot) and `NvOK` (the runtime's count of
  mappings is the number of held and queued frames, so that it is 0 exactly when
  the context may go). From them `Ends`, `Usable` and `Gone`. `NoneMissing`, and so
  `Ends`, excuses the frames in `lost` and no others: only a warning of oneVPL puts
  frames there. `Helpful` speaks of the full frame pool: nothing in the model or in
  the invariant lets a submit return WOULD_BLOCK only to a holder. It has the
  hypothesis `BurstsFit` (section 3) and the invariant `FlowOK`: what one call
  collects, together with what waits in the queue, the codec and the packet, never
  exceeds the pool, so that a full pool includes a slot of the caller's.
* **Synchronous encoder** (`EncoderBackendsProofs`). `Lossless` and the barrier in
  `Rules` rest on what the code relies on when it throws a codec away without
  draining it: a missing codec, or a sequence that counts no frames, holds nothing
  back (`EmptySequence`). It survives errors, because a submission that fails leaves
  no more frames behind than it found, and it makes `IntelFlushNothing` and the
  close of an empty sequence correct. The Intel queue is a record that submit and
  collect hand on; `Handled` says of such a record what a write needs from it
  (a place for whoever waits, nothing missing unless there was an error), and
  `FinishKeeps` ends every write from there. `QueueOK` keeps each place of the queue
  together with its packet; `WithinLimits` follows from it for the packets in flight and
  from `TrackerOK` for the imports, and is checked by no run of its own.
* **GPU frames** (`GpuFrameProofs`). `Returned` and `Accounted` need the number of
  leases to be the number of those who have one (handle and device anchor),
  the duty of the last owner (`chore`) to be with one thread, slots to
  refer to frames and frames to slots in both directions, and a recycled frame to be
  under no item the encoder still reads (`RecycledOK`). A frame collected for a client
  is not in the queue before its first write (`ReadyOK`), and one thread at a time is
  inside the encoder, so that `queue` has room again whenever nobody collects
  (`QueueOK`). The steps share two shapes: dropping owners (`Moves`), and ending the
  oldest item, polled or not (`Pops`).
* **GPU sharing** (`GpuSharingProofs`). `Held`, `ReleasedOnce` and `Respected` are
  one induction: references, leases and capsules are counted, the stage of an image
  says which of them may exist, and a thread's location what it still has to undo.
  `Wakeups` is the argument of the CPU pool for the resource pool.

* **Media on the CPU** (`CpuMediaProofs`, one invariant for each of the four parts).
  `PoolInv`: a worker sleeps or leaves only when the queue is empty and a pool that
  could not be built has no callers, hence `Forgotten`. `StripeInv`: the stripes of a
  call that are queued, running or written tile its rows, which is the arithmetic of
  `RowsPerWorker`; hence `StripesFit` and `StripesDone`. `FrameInv` says of a frame
  what its planes contain at each stage (`Tidy`, `Carried`, `ToNV12`), and one lemma
  per format and direction that a copy or conversion leads from one to the next.
  `GeometryHolds` needs no invariant: the picture is made in one step, and the proof
  goes through crop, rotation, mirror, flip, scale and bars, one lemma each about the
  source of a sample, which composed are `Origin`. `FileInv`: the file is the
  muxer's, or that with a renamed header and no longer body; `RenamedRight` is about
  headers with any number of elements. `ReadInv`: what the reader has returned is
  listed by rank, one frame of the track for each place up to `last`.
  `MediaAssumption` says that images are as the codec APIs hand them out (a pitch is
  not below the width, the formats are those of `Apis`), requests are the fields of
  `mkvc_frame_process_config`, strides are byte counts, stripes are even as
  `RowsPerWorker` makes them, and a file has at least as many blocks as it has body;
  `MaxLacing` bounds the frames of a block.

Induction over data is done by hand where it is needed: `SumTo` is a recursive function,
and its existence, its equation and the sums of header sizes and frame counts are shown
with `Climb`, induction on a set of natural numbers, from the well-foundedness of `<`.

Only model-checked, and why: the liveness properties `EverythingAnswered`,
`PipelineProgress` and both `CallsReturn` (the prover has no rule for fairness). Their
safety half is proved for the session and the decoder: nobody sleeps through what
it waits for, and somebody is always awake to bring it. What
the three violation runs deny is of course not provable.

## 5. Where code and documents differ

Shown by a run:

* `decoder_retry`: the Intel decoder says WOULD_BLOCK in the middle of a packet and
  drops what it had collected and the rest of the packet
  (`gpu/intel/vpl_decoder_queue_collect.cpp:76`).
* `decoder_warning`: the Intel decoder says END, "a clean end of stream"
  (mkvc.h:42), without the frames oneVPL gave up with a warning. A submit that used no
  data ends its packet with OK (`gpu/intel/vpl_decoder_pump.cpp:31`), every warning is
  an OK (`gpu/intel/vpl_decoder_queue_submit.cpp:23`), and a surface without a sync
  point is released unseen (line 35).
* `frame_copy`: a conversion that fails leaves its other stripes running on the
  caller's memory (`src/frame_conversion.cpp:99`).

Visible in the models, not the subject of a run:

* `write_borrowed` reads no copy policy (`src/encoder_session.cpp:114`): it takes CPU
  pixels under a policy that is to "reject every CPU pixel path" (mkvc.h:309).
* After a WOULD_BLOCK in the middle of a packet each read submits another packet and
  collects at most as much as it submits, so every blocked read leaves one more
  surface in the Intel queue (`gpu/intel/vpl_decoder_pump.cpp:27`). After enough of
  them the drain finds more surfaces than the pool has slots and says WOULD_BLOCK to
  a caller that holds nothing. `WouldBlockIsHelpful` is therefore stated up to the
  first WOULD_BLOCK (NVDEC: the first CODEC).
* When oneVPL itself lacks surfaces and the queue is empty, the read says WOULD_BLOCK
  whatever the caller holds (`gpu/intel/vpl_decoder_pump.cpp:26`): the surfaces may be
  with the frames this very call has collected and now drops, and the caller has
  nothing to give back. `WouldBlockIsHelpful` does not speak of it.
* With prefetch the worker counts a frame before any read, and the copy policy is
  refused to a caller that has not read yet (`src/decoder/decoder_c_api_support.cpp:45`;
  mkvc.h:649 "before the first decoder frame operation").
* A synchronous session goes on writing after an I/O error
  (`enc/encoder_backend_execution.cpp:58`; INT-ERR-007, system-design.md:203).
* A flush whose drain fails leaves an open encoder without a codec (AV1
  `src/cpu_av1_encoder.cpp:79`, Intel `gpu/intel/vpl_encoder_sequence.cpp:86`;
  encoder_backend.hpp:21 "while keeping the backend usable"), and the packets a failed
  Intel drain had collected are dropped. A failed bind leaves NVENC without a session; a
  flush at frame index 0 then says OK and does nothing.
* An allocation failure while a frame is copied destroys the reserved
  `OwnedFrame`; the asynchronous session has one buffer less from then on.
* A second close after a failed close says OK (`src/cpu_av1_encoder.cpp:97`).
* Intel does not commit an automatic timestamp when a packet fails after the
  submission; NVENC does so only when the packet is in the file. `AutoPtsFresh`
  says it for the CPU, and for hardware until the first error.
* NVENC takes the pts of a CPU frame for nanoseconds, mkvc.h:441 says "Input timebase
  units or decoded nanoseconds"; Intel's `write_gpu` ignores the pts of the frame.
* Intel's timestamps go through 90 kHz and back, both rounded down: at 24000/1001
  frame 1 comes out as 0 (`gpu/intel/vpl_bitstream.cpp:48`; EXT-CONT-003).
* A CPU frame between GPU frames leaves one Intel completion pending until the next
  flush or close (`gpu/intel/vpl_gpu_submission.cpp:55` collects the oldest item):
  the decoder surface comes back that much later. `GpuFrame` has it; nothing is lost.
* NVDEC: a CPU read that fails fixes the output mode; if the policy is then
  made GPU-only neither read works. A parser the driver refuses to destroy is leaked.
* `finalize_container_doc_type` ends its copy on a read error without noticing and
  installs a cut file (`src/container_format.cpp:83`); a crash or a failed open leaves the
  temporary file; a `.mkv` whose header has no room keeps DocType webm and is refused
  by the readers.
* CUDA event completions do not latch and are not probed when loaded, others are.
* Deleters that run after Python has ended free nothing, on purpose.
* `even_floor` narrows to 32 bits after a 64-bit product (`src/frame_processor.cpp:90`):
  beyond the sizes the library accepts elsewhere, but not checked here.
* If the control block of a lease cannot be allocated, `shared_ptr` deletes it under the
  mutex its destructor locks (`src/cpu_frame_pool.cpp:149`).

## 6. Not modelled

Codec settings, bitstreams, sample arithmetic (libyuv) and cluster parsing (libwebm);
time other than "a timeout may expire"; statistics nobody decides on and setters
that only store a value for the layout check; integer widths of 64 bits; allocation
failures except in the frame copy, the GPU handle and the stripes; two callers
inside one synchronous encoder (the backends are not locked and expect one
caller); destroying a pool under a sleeper; the 4096 bytes in which the header must
lie. Two threads joining one `std::thread` is undefined in C++; the models let the
second join wait or fail. `intel_usm_slot.py` closing its reservation after a failed import
while producer work runs is left out of `GpuSharing`.

Components with status `not_modelled` in PROJECT.json: metrics and page locking have
no state a decision reads; the registry and the probes are table look-ups made
before a session exists; the .NET SDK leaves handle life cycles to SafeHandle; tools,
tests and documents are the reference. Of the C ABI the struct checks and error
strings are missing, of the Python binding the one-to-one wrappers.

## 7. Plan

The components with status `modelled` are modelled whole, and every safety property of
the runs is proved. What is left is breadth: `c_api_encoder.cpp` and the C++ wrappers of
`mkvcodec.hpp` (thin, see section 6), the page lock, and two callers inside one
synchronous encoder.
