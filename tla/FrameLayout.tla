----------------------------- MODULE FrameLayout -----------------------------
(***************************************************************************)
(* Pixels of a CPU frame on their way through the library: out of the      *)
(* image of a codec into a DecodedFrame, into the planes of a caller, and  *)
(* from the planes of a caller into the staging buffer of an encoder.  A   *)
(* plane is a function from byte offsets; what a byte holds is the sample  *)
(* it came from, <<component, x, y>>, components 1 to 3 being Y, U and V.  *)
(***************************************************************************)
EXTENDS Integers, Sequences, FiniteSets

Packed == {"BGR24", "RGB24", "BGRA32"}
Formats == {"I420", "NV12"} \cup Packed

RowBytes(format, width) ==
    CASE format = "I420" -> <<width, width \div 2, width \div 2>>
      [] format = "NV12" -> <<width, width>>
      [] format = "BGRA32" -> <<width * 4>>
      [] format \in {"BGR24", "RGB24"} -> <<width * 3>>
      [] OTHER -> <<>>
Rows(plane, height) == IF plane = 1 THEN height ELSE height \div 2

Even(width, height) == width > 0 /\ height > 0 /\ width % 2 = 0 /\ height % 2 = 0

\* A view: format, width, height, a stride for each plane that has a pointer,
\* and whether the caller keeps to the alignment.
Plane(view, i) ==
    /\ i \in DOMAIN view.strides
    /\ view.strides[i] >= RowBytes(view.format, view.width)[i]
Planes(view) == DOMAIN RowBytes(view.format, view.width)

\* validate_borrowed_frame, and ALLOW_COPY of validate_cpu_frame_layout.
ValidFrame(view) ==
    /\ Even(view.width, view.height)
    /\ view.format \in Formats /\ \A i \in Planes(view) : Plane(view, i)
ValidLayout(view, mode) ==
    /\ ValidFrame(view)
    /\ mode = "strict" =>
        /\ view.strides = RowBytes(view.format, view.width) /\ view.aligned
ValidDestination(view, width, height) ==
    /\ view.width = width /\ view.height = height
    /\ view.format \in Formats /\ \A i \in Planes(view) : Plane(view, i)

-----------------------------------------------------------------------------
(* Copies.                                                                 *)

CopyPlane_Packed(source, from, stride, bytes, rows) ==
    [k \in 0..(bytes * rows - 1) |-> source[from + k]]
CopyPlane(source, from, stride, bytes, rows) ==
    [k \in 0..(bytes * rows - 1) |-> source[from + (k \div bytes) * stride + (k % bytes)]]

\* Every second byte, as NVDEC's read back does, and what libyuv does.
Component(uv, c) ==
    [k \in 0..((Cardinality(DOMAIN uv) \div 2) - 1) |-> uv[2 * k + c]]
Interleaved(u, v, bytes) ==
    [k \in 0..(bytes - 1) |-> IF k % 2 = 0 THEN u[k \div 2] ELSE v[k \div 2]]

\* The memory of a codec's image: pitch bytes a row, NV12 for the hardware,
\* and words where libaom was built for deep samples.
Memory(c, pitch, rows) ==
    [k \in 0..(pitch * rows - 1) |-> <<c, k % pitch, k \div pitch>>]
MemoryUV(pitch, rows) ==
    [k \in 0..(pitch * rows - 1) |-> <<2 + (k % 2), (k % pitch) \div 2, k \div pitch>>]
MemoryWords(c, pitch, rows) ==
    [k \in 0..(pitch * rows - 1) |->
        IF k % 2 = 0 THEN <<c, (k % pitch) \div 2, k \div pitch>> ELSE "high byte"]

\* Which images are refused: odd sizes, and crops NVDEC would have to apply.
Refused(image) ==
    \/ ~Even(image.width, image.height)
    \/ image.api = "nvdec" /\ (image.crop_x # 0 \/ image.crop_y # 0)

\* What the codecs promise of the others: the image lies in the memory, rows
\* of 16-bit samples and of NV12 pairs begin at a sample, and only oneVPL
\* crops, whole chroma samples.  Our decoders do not look at this again.
Apis == {"vpx", "aom", "aom16", "vpl", "nvdec"}
Readable(image) ==
    /\ image.api \in Apis
    /\ {image.width, image.height, image.pitch, image.rows, image.crop_x, image.crop_y}
            \subseteq Nat
    /\ ~Refused(image) =>
        /\ image.crop_y + image.height <= image.rows
        /\ image.crop_x + image.width <= image.pitch
        /\ image.crop_x % 2 = 0 /\ image.crop_y % 2 = 0
        /\ image.api # "vpl" => image.crop_x = 0 /\ image.crop_y = 0
        /\ image.api \in {"vpl", "nvdec"} => image.pitch % 2 = 0
        /\ image.api = "aom16" => 2 * image.width <= image.pitch /\ image.pitch % 4 = 0

CopyImage(image) ==
    LET half == image.pitch \div 2
    IN  <<CopyPlane(Memory(1, image.pitch, image.rows), 0, image.pitch,
                    image.width, image.height),
          CopyPlane(Memory(2, half, image.rows \div 2), 0, half,
                    image.width \div 2, image.height \div 2),
          CopyPlane(Memory(3, half, image.rows \div 2), 0, half,
                    image.width \div 2, image.height \div 2)>>
\* copy_image of the AV1 decoder narrows the words of an 8-bit image.
CopyImageAv1(image) ==
    LET half == image.pitch \div 2
        Narrow(c, pitch, width, height) ==
            [k \in 0..(width * height - 1) |->
                MemoryWords(c, pitch, height)[(k \div width) * pitch + 2 * (k % width)]]
    IN  IF image.api = "aom" THEN CopyImage(image)
        ELSE <<Narrow(1, image.pitch, image.width, image.height),
               Narrow(2, half, image.width \div 2, image.height \div 2),
               Narrow(3, half, image.width \div 2, image.height \div 2)>>
CopySurface(image) ==
    LET y == image.crop_y * image.pitch + image.crop_x
        uv == CopyPlane(MemoryUV(image.pitch, image.rows \div 2),
                        (image.crop_y \div 2) * image.pitch + image.crop_x,
                        image.pitch, image.width, image.height \div 2)
    IN  <<CopyPlane(Memory(1, image.pitch, image.rows), y, image.pitch,
                    image.width, image.height), Component(uv, 0), Component(uv, 1)>>
\* NVDEC's surface ends with the visible rows, its chroma follows at once.
CopyNvdec(image) ==
    LET size == image.pitch * image.height
        surface == [k \in 0..(size + size \div 2 - 1) |->
            IF k < size THEN Memory(1, image.pitch, image.height)[k]
            ELSE MemoryUV(image.pitch, image.height \div 2)[k - size]]
        uv == CopyPlane(surface, size, image.pitch, image.width, image.height \div 2)
    IN  <<CopyPlane(surface, 0, image.pitch, image.width, image.height),
          Component(uv, 0), Component(uv, 1)>>

-----------------------------------------------------------------------------
(* Into the caller's planes.  lines says from which rows of the frame each *)
(* row of a packed destination was made; libyuv does the rest.  A packed   *)
(* byte holds <<channel, luma sample, chroma samples>>.                    *)

Order(format) ==
    CASE format = "RGB24" -> <<"R", "G", "B">>
      [] format = "BGR24" -> <<"B", "G", "R">>
      [] OTHER -> <<"B", "G", "R", "A">>

\* I420ToARGB and I420ToABGR write four bytes, pack_four_to_three keeps three.
FourChannels(format) ==
    IF format = "RGB24" THEN <<"R", "G", "B", "A">> ELSE <<"B", "G", "R", "A">>
PackFourToThree(pixel) == <<pixel[1], pixel[2], pixel[3]>>
Channels(format) ==
    IF format = "BGRA32" THEN FourChannels(format) ELSE PackFourToThree(FourChannels(format))

PackedByte(format, frame, width, line, k) ==
    LET per == Len(Channels(format))
        x == k \div per
        chroma == line.chroma * (width \div 2) + (x \div 2)
    IN  <<Channels(format)[1 + (k % per)],
          frame[1][line.luma * width + x], frame[2][chroma], frame[3][chroma]>>

\* copy_frame_to: plane i of the destination; "pad" is what it leaves alone.
Written(view, i, frame, lines) ==
    LET w == view.width
        bytes == RowBytes(view.format, w)[i]
        Byte(row, k) ==
            CASE view.format \in Packed -> PackedByte(view.format, frame, w, lines[row], k)
              [] view.format = "NV12" /\ i = 2 ->
                    Interleaved(frame[2], frame[3], (w * view.height) \div 2)[row * w + k]
              [] OTHER -> frame[i][row * bytes + k]
    IN  [n \in 0..(view.strides[i] * Rows(i, view.height) - 1) |->
            IF n % view.strides[i] < bytes
            THEN Byte(n \div view.strides[i], n % view.strides[i]) ELSE "pad"]

-----------------------------------------------------------------------------
(* Into the encoder's staging buffer.                                      *)

\* own_frame: the queue's copy, and its view.
Own(view, planes) ==
    [i \in Planes(view) |->
        CopyPlane(planes[i], 0, view.strides[i], RowBytes(view.format, view.width)[i],
                  Rows(i, view.height))]
OwnView(view) == [view EXCEPT !.strides = RowBytes(view.format, view.width)]

\* libyuv: the luma of each pixel, the chroma of the first of each block, if
\* the bytes are in the order the function wants.
FromPacked(view, plane, c) ==
    LET per == Len(Order(view.format))
        w == IF c = 1 THEN view.width ELSE view.width \div 2
        At(k) == LET x == IF c = 1 THEN k % w ELSE 2 * (k % w)
                     y == IF c = 1 THEN k \div w ELSE 2 * (k \div w)
                 IN  y * view.strides[1] + x * per
        Ordered(n) == \A b \in 1..per : plane[n + b - 1][1] = Order(view.format)[b]
    IN  [k \in 0..(w * Rows(c, view.height) - 1) |->
            IF Ordered(At(k)) THEN plane[At(k)][1 + c] ELSE "garbled"]

\* convert_cpu_frame_to_i420; ConvertToNV12 goes through it for packed input.
Tight(view, planes, i) ==
    CopyPlane(planes[i], 0, view.strides[i], RowBytes(view.format, view.width)[i],
              Rows(i, view.height))
ConvertToI420(view, planes) ==
    CASE view.format = "I420" -> [i \in 1..3 |-> Tight(view, planes, i)]
      [] view.format = "NV12" ->
            <<Tight(view, planes, 1), Component(Tight(view, planes, 2), 0),
              Component(Tight(view, planes, 2), 1)>>
      [] OTHER -> [c \in 1..3 |-> FromPacked(view, planes[1], c)]
ConvertToNV12(view, planes) ==
    IF view.format = "NV12" THEN [i \in 1..2 |-> Tight(view, planes, i)]
    ELSE LET yuv == ConvertToI420(view, planes)
         IN  <<yuv[1], Interleaved(yuv[2], yuv[3], (view.width * view.height) \div 2)>>

=============================================================================
