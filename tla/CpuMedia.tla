------------------------------- MODULE CpuMedia -------------------------------
(***************************************************************************)
(* What the library does with media on the CPU, outside of the codecs: it  *)
(* finishes the container file an encoder has written and reads it back,   *)
(* reshapes decoded frames, carries their pixels through the caller's      *)
(* formats into an encoder, and converts large frames on several threads.  *)
(* The four share no state; one at a time is under way.                    *)
(***************************************************************************)
EXTENDS ContainerFile, FrameLayout, FrameProcessor, ConversionWorkers

CONSTANTS
    Files,        \* bound: container files
    Sources,      \* bound: sizes of the frames to process
    Requests,     \* bound: process requests
    Images,       \* bound: images a codec puts out
    Views,        \* bound: layouts of the caller's planes
    Stripes       \* bound: stripes of a packed conversion

\* The body of a file is its blocks as far as they were written, and lacing
\* puts at most MaxLacing frames into one.  A stride is a count of bytes;
\* stripes are even (see RowsPerWorker), and a conversion on one thread has the
\* whole frame for its stripe, which is even.
ASSUME MediaAssumption ==
    /\ \A f \in Files :
        /\ f \in Containers /\ f.body <= Len(f.blocks)
        /\ \A b \in DOMAIN f.blocks : Len(f.blocks[b].frames) <= MaxLacing
    /\ Sources \subseteq Nat \X Nat /\ Requests \subseteq ProcessConfigs
    /\ \A image \in Images : Readable(image)
    /\ \A view \in Views :
        /\ view = [format |-> view.format, width |-> view.width, height |-> view.height,
                   strides |-> view.strides, aligned |-> view.aligned]
        /\ \A i \in DOMAIN view.strides : view.strides[i] \in Nat
    /\ \A rows \in Stripes : rows \in Nat \ {0} /\ rows % 2 = 0

VARIABLES
    file, muxed,  \* the file, and what the muxer or another program wrote
    temporary,    \* the Matroska replacement
    step,         \* of finalize_container_doc_type
    reader,       \* a WebmPacketReader and what it has returned
    picture,      \* the last frame processed
    frame         \* a decoded frame on its way to an encoder

media == <<file, muxed, temporary, step, reader>>
vars == <<media, picture, frame, convert>>

NoFile == [extension |-> "none"]
NoTemporary == [body |-> 0]
NoReader == [at |-> "closed", codec |-> "none", track |-> 0, last |-> <<0, 0>>, frames |-> <<>>]
NoFrame == [at |-> "none"]
NoPicture == [at |-> "none"]

Init ==
    /\ file = NoFile /\ muxed = NoFile /\ temporary = NoTemporary /\ step = "none"
    /\ reader = NoReader /\ picture = NoPicture /\ frame = NoFrame
    /\ ConvertInit

MediaIdle == step = "none" /\ reader = NoReader
ConvertIdle == pool = "none" /\ \A c \in Callers : At(c, "idle")
Idle == MediaIdle /\ picture = NoPicture /\ frame = NoFrame /\ ConvertIdle

-----------------------------------------------------------------------------
(* The file.                                                               *)

Muxed ==
    /\ Idle
    /\ \E f \in Files : file' = f /\ muxed' = f
    /\ step' = "muxed"
    /\ UNCHANGED <<temporary, reader, picture, frame, convert>>

\* Close of the muxer, or a file of another program.
FinalizeWebm ==
    /\ step = "muxed" /\ ResolveFormat(file.extension) = "webm"
    /\ step' = IF ValidDocType(file) THEN "OK" ELSE "FAILED"
    /\ UNCHANGED <<file, muxed, temporary, reader, picture, frame, convert>>
FinalizeMatroska ==
    /\ step = "muxed" /\ ResolveFormat(file.extension) = "matroska"
    /\ \/ /\ CanRename(file.header)
          /\ temporary' = [header |-> Renamed(file.header), body |-> 0, written |-> TRUE]
          /\ step' = "copying"
       \/ \* the header does not do, or a file cannot be opened
          step' = "FAILED" /\ UNCHANGED temporary
    /\ UNCHANGED <<file, muxed, reader, picture, frame, convert>>
Foreign ==
    /\ step = "muxed"
    /\ step' = "foreign"
    /\ UNCHANGED <<file, muxed, temporary, reader, picture, frame, convert>>

\* The loop ends when a read fails, at the end of the input or before it; a
\* write that failed shows in the state of the output.
CopyChunk ==
    /\ step = "copying" /\ temporary.body < file.body /\ temporary.written
    /\ \E written \in BOOLEAN :
        temporary' = [temporary EXCEPT !.body = @ + 1, !.written = written]
    /\ UNCHANGED <<file, muxed, step, reader, picture, frame, convert>>
CopyEnds ==
    /\ step = "copying"
    /\ step' = "copied"
    /\ UNCHANGED <<file, muxed, temporary, reader, picture, frame, convert>>
Install ==
    /\ step = "copied" /\ temporary.written
    /\ temporary' = NoTemporary
    /\ \E damaged \in {file.damaged, temporary.body} :
        /\ damaged = temporary.body => temporary.body < file.body
        /\ file' = [file EXCEPT !.header = temporary.header, !.body = temporary.body,
                                !.damaged = damaged]
    /\ step' = "installed"
    /\ UNCHANGED <<muxed, reader, picture, frame, convert>>
InstallFails ==
    /\ step = "copied"
    /\ temporary' = NoTemporary
    /\ step' = "FAILED"
    /\ UNCHANGED <<file, muxed, reader, picture, frame, convert>>
InstallChecked ==
    /\ step = "installed"
    /\ step' = IF ValidDocType(file) THEN "OK" ELSE "FAILED"
    /\ UNCHANGED <<file, muxed, temporary, reader, picture, frame, convert>>
Crash ==
    /\ step \in {"muxed", "copying", "copied", "installed"}
    /\ step' = "crashed"
    /\ UNCHANGED <<file, muxed, temporary, reader, picture, frame, convert>>

\* Whoever reads it does so after that, and the encoder can try again.
ReadableNow == step \in {"OK", "FAILED", "crashed", "foreign"}
Forget ==
    /\ ReadableNow /\ reader = NoReader
    /\ file' = NoFile /\ muxed' = NoFile /\ temporary' = NoTemporary /\ step' = "none"
    /\ UNCHANGED <<reader, picture, frame, convert>>

ProbeResult(f) ==
    LET i == ProbedTrack(f)
    IN  IF ~Openable(f) THEN "IO"
        ELSE IF i = 0 THEN "NOT_SUPPORTED"
        ELSE IF ~Accepted(f, i) \/ Damaged(f) THEN "IO" ELSE "OK"

Open ==
    /\ ReadableNow /\ reader = NoReader
    /\ \E codec \in Codecs :
        LET i == OpenedTrack(file, codec)
        IN  /\ Openable(file) /\ Accepted(file, i)
            /\ reader' = [NoReader EXCEPT !.at = "open", !.codec = codec, !.track = i]
    /\ UNCHANGED <<file, muxed, temporary, step, picture, frame, convert>>
ReadPacket ==
    /\ reader.at = "open"
    /\ LET packet == Packet(file, reader.track, reader.last)
       IN  reader' = [reader EXCEPT
                !.at = IF packet.result = "END_OF_STREAM" THEN "ended" ELSE @,
                !.last = packet.last,
                !.frames = IF packet.result = "OK" THEN Append(@, FrameAt(file, packet.last))
                           ELSE @]
    /\ UNCHANGED <<file, muxed, temporary, step, picture, frame, convert>>
CloseReader ==
    /\ reader # NoReader
    /\ reader' = NoReader
    /\ UNCHANGED <<file, muxed, temporary, step, picture, frame, convert>>

-----------------------------------------------------------------------------
(* Pictures and pixels.                                                    *)

ProcessFrame ==
    /\ Idle
    /\ \E size \in Sources, r \in Requests :
        LET source == Source(size[1], size[2])
            result == ProcessResult(source, r)
        IN  picture' = [at |-> "done", source |-> size, request |-> r, result |-> result,
                        image |-> IF result = "OK" THEN Process(source, r) ELSE source]
    /\ UNCHANGED <<media, frame, convert>>
DropPicture ==
    /\ picture # NoPicture
    /\ picture' = NoPicture
    /\ UNCHANGED <<media, frame, convert>>

Decode ==
    /\ Idle
    /\ \E image \in Images :
        /\ ~Refused(image)
        /\ frame' = [at |-> "decoded", image |-> image, planes |->
                CASE image.api = "vpx" -> CopyImage(image)
                  [] image.api \in {"aom", "aom16"} -> CopyImageAv1(image)
                  [] image.api = "vpl" -> CopySurface(image)
                  [] OTHER -> CopyNvdec(image)]
    /\ UNCHANGED <<media, picture, convert>>

\* mkvc_frame_get_view, or mkvc_frame_copy_to into planes of the caller.
GetView ==
    /\ frame.at = "decoded"
    /\ LET w == frame.image.width
       IN  frame' = [at |-> "copied", image |-> frame.image, planes |-> frame.planes,
                view |-> [format |-> "I420", width |-> w, height |-> frame.image.height,
                          strides |-> RowBytes("I420", w), aligned |-> TRUE]]
    /\ UNCHANGED <<media, picture, convert>>
CopyFrame ==
    /\ frame.at = "decoded"
    /\ \E view \in Views, rows \in Stripes :
        LET lines == AllLines(view.height, rows)
        IN  /\ ValidDestination(view, frame.image.width, frame.image.height)
            /\ view.format \notin Packed => rows = Min(Stripes)
            /\ frame' = [at |-> "copied", image |-> frame.image, view |-> view,
                planes |-> [i \in Planes(view) |-> Written(view, i, frame.planes, lines)]]
    /\ UNCHANGED <<media, picture, convert>>

\* The encoder looks at the planes, keeps a copy if it is asynchronous, and
\* stages them in the format its device wants.
WriteFrame ==
    /\ frame.at = "copied"
    /\ \E mode \in {"copy", "strict"}, own \in BOOLEAN, device \in {"i420", "nv12"} :
        LET view == IF own THEN OwnView(frame.view) ELSE frame.view
            planes == IF own THEN Own(frame.view, frame.planes) ELSE frame.planes
        IN  /\ ValidLayout(frame.view, mode)
            /\ frame' = [at |-> "staged", image |-> frame.image, device |-> device,
                staged |-> IF device = "i420" THEN ConvertToI420(view, planes)
                           ELSE ConvertToNV12(view, planes)]
    /\ UNCHANGED <<media, picture, convert>>
DropFrame ==
    /\ frame # NoFrame
    /\ frame' = NoFrame
    /\ UNCHANGED <<media, picture, convert>>

BeginCopy(c) ==
    /\ MediaIdle /\ picture = NoPicture /\ frame = NoFrame
    /\ CopyTo(c)
CopyStep(c) ==
    \/ Construct(c) \/ ConstructFailed(c) \/ Divide(c) \/ Submit(c) \/ NotifyOne(c)
    \/ SubmitFailed(c) \/ Submitted(c) \/ OwnStripe(c) \/ Await(c) \/ Return(c)
WorkerStep(w) == Take(w) \/ Sleep(w) \/ Leave(w) \/ Stripe(w)

FileStep ==
    \/ Muxed \/ FinalizeWebm \/ FinalizeMatroska \/ Foreign \/ CopyChunk \/ CopyEnds
    \/ Install \/ InstallFails \/ InstallChecked \/ Crash \/ Forget
    \/ Open \/ ReadPacket \/ CloseReader
FrameStep ==
    \/ ProcessFrame \/ DropPicture
    \/ Decode \/ GetView \/ CopyFrame \/ WriteFrame \/ DropFrame
ConvertStep ==
    \/ \E c \in Callers : BeginCopy(c) \/ CopyStep(c)
    \/ \E w \in 1..Workers : WorkerStep(w)
    \/ Shutdown \/ Exited

Next == FileStep \/ FrameStep \/ (ConvertStep /\ UNCHANGED <<media, picture, frame>>)

Spec == Init /\ [][Next]_vars

-----------------------------------------------------------------------------
(* Properties.                                                             *)

\* Whatever happens to finalize_container_doc_type, and wherever the process
\* dies, the destination is the file of the muxer or a Matroska file that has
\* the same elements behind a header size that agrees with them; if finalize
\* reports success, extension and DocType agree.
HeaderClosed(header) == header.payload = Start(header, Len(header.elements) + 1)
FileIntact ==
    file # NoFile =>
        /\ step = "OK" => ValidDocType(file)
        /\ file.header # muxed.header =>
            /\ DocType(file.header) = "matroska" /\ file.extension \in {".mkv", ".MKV"}
            /\ HeaderClosed(muxed.header) => HeaderClosed(file.header)
            /\ \A i \in DOMAIN muxed.header.elements :
                \/ i = DocIndex(muxed.header)
                \/ file.header.elements[i] = muxed.header.elements[i]

\* A reader that has come to the end has returned every frame of its track
\* that the file still has and that has a valid size, each at its place in the
\* order they were muxed, and nothing else; and the probe has counted as many
\* as there are, when it chose the same track.
ReadsWhatWasMuxed ==
    reader.at = "ended" =>
        LET track == muxed.tracks[reader.track]
            FrameOf(p) == muxed.blocks[p[1]].frames[p[2]]
            all == UNION {{b} \X DOMAIN muxed.blocks[b].frames :
                            b \in {b \in 1..file.body : muxed.blocks[b].track = track.number}}
            whole == {p \in all : FrameOf(p) \notin muxed.broken}
        IN  /\ Len(reader.frames) = Cardinality(whole)
            /\ \A p \in whole :
                reader.frames[Cardinality({q \in whole : Before(q, p)}) + 1] = FrameOf(p)
            /\ track.codec = reader.codec
            /\ ProbedTrack(file) = reader.track =>
                /\ ProbeResult(file) = "OK"
                /\ CountFrames(file, reader.track) = Cardinality(all)

\* Where a sample of the processed picture has to come from: back through
\* the bars or the overhang, the scale, the flips, the rotation and the crop.
Margin(out, scaled) ==
    IF scaled <= out THEN EvenFloor((out - scaled) \div 2) ELSE -EvenFloor((scaled - out) \div 2)
Proportional(this, other, outThis, outOther, fit) ==
    LET kept == (this * outOther) \div other
    IN  CASE fit = "stretch" -> outThis
          [] fit = "contain" -> Max({2, EvenFloor(Min({outThis, kept}))})
          [] OTHER -> Max({outThis, EvenFloor(kept)})
Origin(size, r, s, x, y) ==
    LET w == IF r.crop_width = 0 THEN size[1] ELSE r.crop_width
        h == IF r.crop_height = 0 THEN size[2] ELSE r.crop_height
        turned == r.rotation \in {90, 270}
        ow == IF turned THEN h ELSE w     oh == IF turned THEN w ELSE h
        outw == IF r.width = 0 THEN ow ELSE r.width
        outh == IF r.height = 0 THEN oh ELSE r.height
        sw == Proportional(ow, oh, outw, outh, r.fit)
        sh == Proportional(oh, ow, outh, outw, r.fit)
        u == x - (Margin(outw, sw) \div s)
        v == y - (Margin(outh, sh) \div s)
        fx == (u * ow) \div sw     fy == (v * oh) \div sh
        a == IF r.horizontal THEN (ow \div s) - 1 - fx ELSE fx
        b == IF r.vertical THEN (oh \div s) - 1 - fy ELSE fy
        p == CASE r.rotation = 0 -> <<a, b>>
               [] r.rotation = 90 -> <<b, (h \div s) - 1 - a>>
               [] r.rotation = 180 -> <<(w \div s) - 1 - a, (h \div s) - 1 - b>>
               [] r.rotation = 270 -> <<(w \div s) - 1 - b, a>>
    IN  IF u \in 0..((sw \div s) - 1) /\ v \in 0..((sh \div s) - 1)
        THEN <<r.crop_x + s * p[1], r.crop_y + s * p[2]>> ELSE <<>>

\* process_frame_cpu: luma and chroma of each pixel come from where the
\* request says, to the sample, and "cover" leaves no background.
GeometryRight ==
    picture.at = "done" /\ picture.result = "OK" =>
        \A s \in {1, 2} : \A p \in Area(picture.image.width, picture.image.height, s) :
            LET origin == Origin(picture.source, picture.request, s, p[1], p[2])
            IN  /\ picture.image.plane[s][p] = origin
                /\ picture.request.fit = "cover" => origin # <<>>

\* What an encoder stages of a frame that was decoded, copied out in any
\* format and written in that format is the visible image of the decoder, to
\* the sample, whatever the pitches, strides, crops and stripes on the way.
PixelsCarried ==
    frame.at = "staged" =>
        LET image == frame.image
            Sample(c, x, y) ==
                IF c = 1 THEN <<1, image.crop_x + x, image.crop_y + y>>
                ELSE <<c, (image.crop_x \div 2) + x, (image.crop_y \div 2) + y>>
            half == image.width \div 2
            Expected(i, k) ==
                CASE i = 1 -> Sample(1, k % image.width, k \div image.width)
                  [] i # 1 /\ frame.device = "nv12" ->
                        Sample(2 + (k % 2), (k % image.width) \div 2, k \div image.width)
                  [] OTHER -> Sample(i, k % half, k \div half)
        IN  \A i \in DOMAIN frame.staged : \A k \in DOMAIN frame.staged[i] :
                frame.staged[i][k] = Expected(i, k)

\* A parallel copy that reports success has written every row once all
\* stripes are done, each from the luma row and the chroma row it belongs to.
StripesComplete ==
    \A c \in Callers : copy[c].result = "OK" =>
        copy[c].lines = [r \in 0..(copy[c].height - 1) |-> [luma |-> r, chroma |-> r \div 2]]

\* A stripe lies in the frame of the call that waits for it.
StripesInside ==
    \A task \in {queue[k] : k \in DOMAIN queue} \cup {worker[w].task : w \in 1..Workers} :
        task # NoTask /\ ~task.abandoned =>
            task.rows > 0 /\ task.row + task.rows <= copy[task.caller].height

\* No pixel is lost, displaced or taken from another place between the decoder
\* and the encoder, whatever the format, the layout and the threads.
PixelsKept == PixelsCarried /\ StripesComplete /\ StripesInside

\* No stripe waits for a worker that nobody is going to wake, and the pool is
\* not destroyed around one.
NoTaskForgotten ==
    /\ pool = "running" /\ queue # <<>> =>
        \/ \E w \in 1..Workers : worker[w].at \in {"awake", "running"}
        \/ \E c \in Callers : At(c, "notify")
    /\ pool = "none" => queue = <<>>

\* mkvc.h of mkvc_frame_copy_to: "Pointers are never retained after" the call.
PointersNotRetained ==
    /\ \A k \in DOMAIN queue : ~queue[k].abandoned
    /\ \A w \in 1..Workers : ~worker[w].task.abandoned

=============================================================================
