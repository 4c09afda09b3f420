--------------------------- MODULE FrameProcessor ---------------------------
(***************************************************************************)
(* process_frame_cpu on an I420 frame.  A picture is its width and height  *)
(* and the samples of plane 1 (luma) and plane 2 (U and V, which undergo   *)
(* the same); a sample is the luma position of the source it came from, or *)
(* <<>> for the background.                                                *)
(***************************************************************************)
EXTENDS Integers, FiniteSetsExt

Fits == {"stretch", "contain", "cover"}

Area(width, height, s) == (0..(width \div s - 1)) \X (0..(height \div s - 1))
EvenNonzero(value) == value # 0 /\ value % 2 = 0
EvenFloor(value) == value - (value % 2)

Blank(width, height, Sample(_, _, _)) ==
    [width |-> width, height |-> height,
     plane |-> [s \in {1, 2} |->
        [p \in Area(width, height, s) |-> Sample(s, p[1], p[2])]]]
Source(width, height) == Blank(width, height, LAMBDA s, x, y : <<s * x, s * y>>)
Background(width, height) == Blank(width, height, LAMBDA s, x, y : <<>>)

CopyI420(from, to, src_x, src_y, dst_x, dst_y) ==
    LET width == Min({from.width - src_x, to.width - dst_x})
        height == Min({from.height - src_y, to.height - dst_y})
        Copied(s, x, y) ==
            LET c == x - (dst_x \div s)   r == y - (dst_y \div s)
            IN  IF <<c, r>> \in Area(width, height, s)
                THEN from.plane[s][<<c + (src_x \div s), r + (src_y \div s)>>]
                ELSE to.plane[s][<<x, y>>]
    IN  Blank(to.width, to.height, Copied)

Crop(picture, x, y, width, height) ==
    CopyI420(picture, Background(width, height), x, y, 0, 0)

\* libyuv rotates clockwise.
Rotate(picture, rotation) ==
    LET w == picture.width   h == picture.height
        From(s, x, y) == picture.plane[s][
            CASE rotation = 90 -> <<y, h \div s - 1 - x>>
              [] rotation = 180 -> <<w \div s - 1 - x, h \div s - 1 - y>>
              [] OTHER -> <<w \div s - 1 - y, x>>]
    IN  IF rotation = 180 THEN Blank(w, h, From) ELSE Blank(h, w, From)
Mirror(picture) ==
    Blank(picture.width, picture.height,
          LAMBDA s, x, y : picture.plane[s][<<picture.width \div s - 1 - x, y>>])

\* libyuv mixes the samples around this one.
Scale(picture, width, height) ==
    Blank(width, height, LAMBDA s, x, y :
        picture.plane[s][<<(x * picture.width) \div width, (y * picture.height) \div height>>])

-----------------------------------------------------------------------------
\* A request: crop_x, crop_y, crop_width, crop_height, rotation, horizontal,
\* vertical, width, height (0: as it is) and fit.
ProcessConfigs ==
    [crop_x : Nat, crop_y : Nat, crop_width : Nat, crop_height : Nat, rotation : Nat,
     horizontal : BOOLEAN, vertical : BOOLEAN, width : Nat, height : Nat, fit : STRING]

CropSize(source, r) ==
    [width |-> IF r.crop_width = 0 THEN source.width ELSE r.crop_width,
     height |-> IF r.crop_height = 0 THEN source.height ELSE r.crop_height]
CropInside(source, r) ==
    LET crop == CropSize(source, r)
    IN  /\ EvenNonzero(crop.width) /\ EvenNonzero(crop.height)
        /\ r.crop_x % 2 = 0 /\ r.crop_y % 2 = 0
        /\ r.crop_x + crop.width <= source.width
        /\ r.crop_y + crop.height <= source.height

FlipVertical_Turned(picture) == Rotate(picture, 180)
FlipVertical(picture) == Mirror(Rotate(picture, 180))

Oriented(source, r) ==
    LET crop == CropSize(source, r)
        cropped == Crop(source, r.crop_x, r.crop_y, crop.width, crop.height)
        rotated == IF r.rotation = 0 THEN cropped ELSE Rotate(cropped, r.rotation)
        flipped == IF r.horizontal THEN Mirror(rotated) ELSE rotated
    IN  IF r.vertical THEN FlipVertical(flipped) ELSE flipped
OutputSize(picture, r) ==
    [width |-> IF r.width = 0 THEN picture.width ELSE r.width,
     height |-> IF r.height = 0 THEN picture.height ELSE r.height]

\* The size that keeps the proportions and just fits into, or just covers, out.
ScaledSize(picture, out, fit) ==
    LET wide == out.width * picture.height   high == out.height * picture.width
        AtLeast2(value) == Max({2, EvenFloor(value)})
    IN  IF IF fit = "contain" THEN wide <= high ELSE wide >= high
        THEN [width |-> Max({2, out.width}),
              height |-> AtLeast2((picture.height * out.width) \div picture.width)]
        ELSE [width |-> AtLeast2((picture.width * out.height) \div picture.height),
              height |-> Max({2, out.height})]

Composed(picture, out, fit) ==
    LET size == ScaledSize(picture, out, fit)
        scaled == Scale(picture, size.width, size.height)
        canvas == Background(out.width, out.height)
    IN  IF fit = "contain"
        THEN CopyI420(scaled, canvas, 0, 0, EvenFloor((out.width - size.width) \div 2),
                      EvenFloor((out.height - size.height) \div 2))
        ELSE CopyI420(scaled, canvas, EvenFloor((size.width - out.width) \div 2),
                      EvenFloor((size.height - out.height) \div 2), 0, 0)

ProcessResult(source, r) ==
    IF /\ r.rotation \in {0, 90, 180, 270} /\ r.fit \in Fits /\ CropInside(source, r)
       /\ LET out == OutputSize(Oriented(source, r), r)
          IN  EvenNonzero(out.width) /\ EvenNonzero(out.height)
    THEN "OK" ELSE "INVALID_ARGUMENT"
Process(source, r) ==
    LET picture == Oriented(source, r)
        out == OutputSize(picture, r)
    IN  IF r.fit = "stretch" THEN Scale(picture, out.width, out.height)
        ELSE Composed(picture, out, r.fit)

=============================================================================
