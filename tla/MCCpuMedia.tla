----------------------------- MODULE MCCpuMedia -----------------------------
(* Instances of CpuMedia for TLC.                                          *)
EXTENDS CpuMedia, TLC

CONSTANTS c1, c2

Symmetry == Permutations(Callers)

Element(id, size, value) ==
    [id |-> id, head |-> 3, width |-> 1, size |-> size, value |-> value]
Header(payload, elements) == [payload |-> payload, width |-> 1, elements |-> elements]
WebmElements == <<Element("EBMLVersion", 1, "other"), Element("DocType", 4, "webm"),
                  Element("DocTypeVersion", 1, "other")>>
Headers == {
    Header(15, WebmElements),                     \* what libwebm writes
    Header(125, Append(WebmElements, Element("Void", 107, "other"))),  \* no room to grow
    Header(10, WebmElements),                     \* ends in the DocType
    Header(19, <<Element("EBMLVersion", 1, "other"), Element("DocType", 8, "matroska"),
                 Element("DocTypeVersion", 1, "other")>>)}

Track(kind, codec, number, fits) ==
    [kind |-> kind, codec |-> codec, number |-> number, fits |-> fits]
TrackLists == {
    <<Track("video", "vp9", 1, TRUE)>>,
    <<Track("audio", "opus", 2, TRUE), Track("video", "av1", 1, TRUE)>>,
    <<Track("video", "vp9", 2, FALSE), Track("video", "av1", 1, TRUE)>>,
    <<Track("video", "av1", 1, TRUE), Track("video", "vp9", 2, TRUE)>>,
    <<Track("audio", "opus", 1, TRUE)>>,
    <<Track("video", "vp9", 1, TRUE), Track("video", "av1", 2, TRUE),
      Track("audio", "opus", 3, TRUE)>>}

Block(track, frames) == [track |-> track, frames |-> frames]
MCFiles ==
    {[extension |-> e, header |-> h, tracks |-> t, body |-> 3, broken |-> b, damaged |-> d,
      blocks |-> <<Block(1, <<1, 2>>), Block(2, <<3>>), Block(1, <<4>>)>>] :
        e \in {".webm", ".MKV", ".avi"}, h \in Headers, t \in TrackLists,
        b \in {{}, {2}}, d \in {0, 3}}

MCSources == {<<4, 2>>, <<4, 6>>}
MCRequests ==
    [crop_x : {0, 2}, crop_y : {0, 2}, crop_width : {0, 2}, crop_height : {0, 2},
     rotation : {0, 90, 180, 270}, horizontal : BOOLEAN, vertical : BOOLEAN,
     width : {0, 2, 6}, height : {0, 4, 3}, fit : Fits]

Image(api, width, height, pitch, rows, x, y) ==
    [api |-> api, width |-> width, height |-> height, pitch |-> pitch, rows |-> rows,
     crop_x |-> x, crop_y |-> y]
MCImages ==
    {Image("vpx", 4, 6, 6, 6, 0, 0), Image("vpx", 4, 2, 8, 4, 0, 0), Image("vpx", 3, 2, 4, 2, 0, 0),
     Image("aom", 4, 6, 8, 6, 0, 0), Image("aom16", 4, 6, 8, 6, 0, 0), Image("aom16", 4, 2, 12, 2, 0, 0),
     Image("vpl", 4, 2, 8, 6, 2, 2), Image("vpl", 4, 6, 6, 8, 0, 2), Image("vpl", 4, 2, 4, 2, 0, 0),
     Image("nvdec", 4, 6, 8, 6, 0, 0), Image("nvdec", 4, 2, 6, 2, 2, 0)}
MCViews ==
    {[format |-> f, width |-> 4, height |-> h, aligned |-> a,
      strides |-> [i \in DOMAIN RowBytes(f, 4) |-> RowBytes(f, 4)[i] + pad]] :
        f \in Formats, h \in {2, 6}, a \in BOOLEAN, pad \in {0, 1}}

=============================================================================
