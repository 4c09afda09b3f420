---------------------------- MODULE ContainerFile ----------------------------
(***************************************************************************)
(* A WebM or Matroska file as the library looks at it: the EBML header is  *)
(* a sequence of elements behind a payload size, the rest are the tracks   *)
(* and the blocks of the segment in file order.  A block has the frames of *)
(* one track; a frame is its own number, and those in "broken" have a size *)
(* no packet may have.                                                     *)
(***************************************************************************)
EXTENDS Integers, Sequences

CONSTANTS
    MaxTracks,    \* input_limits::kMaxTracks
    MaxLacing     \* bound: frames of a block

ASSUME ContainerAssumption == MaxTracks \in Nat \ {0} /\ MaxLacing \in Nat \ {0}

\* add[1] + ... + add[n].
SumTo(add, n) ==
    LET sum[k \in 0..n] == IF k = 0 THEN 0 ELSE sum[k - 1] + add[k]
    IN  sum[n]

ResolveFormat(extension) ==
    CASE extension \in {".webm", ".WebM"} -> "webm"
      [] extension \in {".mkv", ".MKV"} -> "matroska"
      [] OTHER -> "none"

-----------------------------------------------------------------------------
(* The header.  An element is [id, head, width, size, value]: head bytes   *)
(* of identifier and size field, the size field being width bytes wide.    *)
(* Of the values only the two DocTypes matter, the others are "other".     *)

Values == {"webm", "matroska", "other"}
EbmlHeaders ==
    [payload : Nat, width : Nat,
     elements : Seq([id : STRING, head : Nat, width : Nat, size : Nat, value : Values])]

Start(header, i) ==
    SumTo([n \in DOMAIN header.elements |->
            header.elements[n].head + header.elements[n].size], i - 1)

\* parse_header_bytes: every element up to DocType lies in the payload.
Inside(header, i) ==
    LET e == header.elements[i]
    IN  /\ Start(header, i) + e.head <= header.payload
        /\ e.size <= header.payload - Start(header, i) - e.head
DocIndex(header) ==
    LET Is(i) == /\ header.elements[i].id = "DocType"
                 /\ \A j \in 1..i : Inside(header, j)
        found == {i \in DOMAIN header.elements : Is(i)}
    IN  IF found = {} THEN 0 ELSE CHOOSE i \in found : \A j \in found : i <= j
DocType(header) ==
    IF DocIndex(header) = 0 THEN "none" ELSE header.elements[DocIndex(header)].value

ValidDocType(file) ==
    ResolveFormat(file.extension) = DocType(file.header)

\* write_size: all ones means an unknown size.
SizeFits(value, width) == value < 2 ^ (7 * width) - 1

\* finalize_container_doc_type: the new DocType and the sizes that follow.
Delta(header) == 8 - header.elements[DocIndex(header)].size
CanRename(header) ==
    /\ DocType(header) = "webm"
    /\ SizeFits(8, header.elements[DocIndex(header)].width)
    /\ SizeFits(header.payload + Delta(header), header.width)
Renamed_Inner(header) ==
    [header EXCEPT !.elements[DocIndex(header)] = [@ EXCEPT !.size = 8, !.value = "matroska"]]
Renamed(header) ==
    [header EXCEPT
        !.elements[DocIndex(header)] = [@ EXCEPT !.size = 8, !.value = "matroska"],
        !.payload = @ + Delta(header)]

-----------------------------------------------------------------------------
(* The tracks, of which our limits admit those whose dimensions fit.       *)

Containers ==
    [extension : STRING, header : EbmlHeaders,
     tracks : Seq([kind : STRING, codec : STRING, number : Nat, fits : BOOLEAN]),
     blocks : Seq([track : Nat, frames : Seq(Nat)]),
     body : Nat, broken : SUBSET Nat, damaged : Nat]

Codecs == {"vp9", "av1"}
FirstTrack(file, codecs) ==
    LET found == {i \in DOMAIN file.tracks :
                    file.tracks[i].kind = "video" /\ file.tracks[i].codec \in codecs}
    IN  IF found = {} THEN 0 ELSE CHOOSE i \in found : \A j \in found : i <= j

\* What may go wrong before a track is chosen: the parser, and our limits.
Openable(file) ==
    /\ ResolveFormat(file.extension) # "none" /\ ValidDocType(file)
    /\ Len(file.tracks) <= MaxTracks

\* probe_input_video takes the first track it knows, WebmPacketReader::open
\* the first of the codec it was asked for.
ProbedTrack(file) == FirstTrack(file, Codecs)
OpenedTrack(file, codec) == FirstTrack(file, {codec})
Accepted(file, i) == i # 0 /\ file.tracks[i].fits

\* Positions of the frames of a track, <<block, frame>>, as far as the parser
\* gets: it cannot pass block number "damaged".
Reachable(file) ==
    IF file.damaged = 0 \/ file.damaged > file.body THEN file.body ELSE file.damaged - 1
Damaged(file) == Reachable(file) # file.body
Positions(file, i) ==
    {p \in (1..Reachable(file)) \X (1..MaxLacing) :
        /\ file.blocks[p[1]].track = file.tracks[i].number
        /\ p[2] \in DOMAIN file.blocks[p[1]].frames}
FrameAt(file, p) == file.blocks[p[1]].frames[p[2]]

\* count_frames, and the variant that forgets to look at the track.
CountFrames_All(file, i) ==
    SumTo([b \in DOMAIN file.blocks |-> Len(file.blocks[b].frames)], Reachable(file))
CountFrames(file, i) ==
    SumTo([b \in DOMAIN file.blocks |->
            IF file.blocks[b].track = file.tracks[i].number THEN Len(file.blocks[b].frames)
            ELSE 0], Reachable(file))

\* WebmPacketReader::read after the frame at last: a frame of a bad size is
\* passed over for good, a block that cannot be passed stays in the way.
Before(p, q) == p[1] < q[1] \/ (p[1] = q[1] /\ p[2] < q[2])
Packet(file, i, last) ==
    LET left == {p \in Positions(file, i) : Before(last, p)}
        next == CHOOSE p \in left : \A q \in left \ {p} : Before(p, q)
    IN  IF left = {}
        THEN [result |-> IF Damaged(file) THEN "IO" ELSE "END_OF_STREAM", last |-> last]
        ELSE [result |-> IF FrameAt(file, next) \in file.broken THEN "IO" ELSE "OK",
              last |-> next]

=============================================================================
