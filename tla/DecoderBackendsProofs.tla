------------------------- MODULE DecoderBackendsProofs -------------------------
(***************************************************************************)
(* What the synchronous decoder promises whichever backend it owns, proved *)
(* for every stream, every number of calls and every capacity.             *)
(*                                                                         *)
(* The line of queues between the file and the caller is treated once for  *)
(* all backends: Passing says that the frames in it are in display order,  *)
(* that what was delivered is behind them, and that none is missing unless *)
(* a read said so.  Each step then has to show how it moves the line, and  *)
(* what it does to the backend's own books of slots and surfaces.          *)
(***************************************************************************)
EXTENDS DecoderBackends, FiniteSetTheorems, TLAPS

line == <<delivered, completed, completed_gpu, out, ready, inside, packet, next, lost>>

Waiting == Items(completed) \cup Items(completed_gpu) \cup Coming

Passing == LineOK /\ DeliveredOK /\ NoneMissing /\ DeliveredInOrder

-----------------------------------------------------------------------------
(* Queues of frames                                                        *)

LEMMA NothingInEmpty ==
    ASSUME NEW R PROVE Items(<<>>) = {} /\ Ordered(<<>>, R)
  BY DEF Items, Ordered

LEMMA OrderedBeforeFewer ==
    ASSUME NEW s, NEW R, NEW Q, Q \subseteq R, Ordered(s, R) PROVE Ordered(s, Q)
  BY DEF Ordered

LEMMA FramesAreNat == AllFrames \subseteq Nat
<1>1. ASSUME NEW p \in DOMAIN Stream PROVE Items(Stream[p]) \subseteq Nat
  <2>1. Stream[p] \in Seq(Nat \ {0})
    BY StreamAssumption
  <2> QED
    BY <2>1 DEF Items
<1> QED
  BY <1>1 DEF AllFrames

LEMMA ItemsAreFrames ==
    ASSUME NEW s \in Seq(AllFrames) PROVE Items(s) \subseteq AllFrames
  BY DEF Items

\* The head of a queue is before the rest of it and what follows.
LEMMA TakeHead ==
    ASSUME NEW s \in Seq(AllFrames), NEW R, Ordered(s, R), s # <<>>
    PROVE  /\ Head(s) \in AllFrames /\ Tail(s) \in Seq(AllFrames)
           /\ Ordered(Tail(s), R)
           /\ Items(s) = {Head(s)} \cup Items(Tail(s))
           /\ \A f \in Items(Tail(s)) \cup R : Head(s) < f
           /\ Head(s) \notin Items(Tail(s)) \cup R
<1>1. Len(s) \in Nat /\ Len(s) > 0 /\ DOMAIN s = 1..Len(s) /\ Head(s) = s[1]
  OBVIOUS
<1>2. /\ Tail(s) \in Seq(AllFrames) /\ DOMAIN Tail(s) = 1..(Len(s) - 1)
      /\ \A i \in 1..(Len(s) - 1) : Tail(s)[i] = s[i + 1]
  BY <1>1
<1>3. Ordered(Tail(s), R)
  <2>1. ASSUME NEW i \in DOMAIN Tail(s), NEW j \in DOMAIN Tail(s), i < j
        PROVE  Tail(s)[i] < Tail(s)[j]
    <3>1. i + 1 \in DOMAIN s /\ j + 1 \in DOMAIN s /\ i + 1 < j + 1
      BY <1>1, <1>2, <2>1
    <3> QED
      BY <1>2, <2>1, <3>1 DEF Ordered
  <2>2. ASSUME NEW i \in DOMAIN Tail(s), NEW f \in R PROVE Tail(s)[i] < f
    <3>1. i + 1 \in DOMAIN s
      BY <1>1, <1>2
    <3> QED
      BY <1>2, <3>1 DEF Ordered
  <2> QED
    BY <2>1, <2>2 DEF Ordered
<1>4. Items(s) = {Head(s)} \cup Items(Tail(s))
  <2>1. ASSUME NEW i \in DOMAIN s PROVE s[i] \in {Head(s)} \cup Items(Tail(s))
    <3>1. CASE i = 1
      BY <1>1, <3>1
    <3>2. CASE i # 1
      <4>1. i - 1 \in DOMAIN Tail(s) /\ Tail(s)[i - 1] = s[i]
        BY <1>1, <1>2, <3>2
      <4> QED
        BY <4>1 DEF Items
    <3> QED
      BY <3>1, <3>2
  <2>2. ASSUME NEW i \in DOMAIN Tail(s) PROVE Tail(s)[i] \in Items(s)
    <3>1. i + 1 \in DOMAIN s /\ Tail(s)[i] = s[i + 1]
      BY <1>1, <1>2
    <3> QED
      BY <3>1 DEF Items
  <2>3. Head(s) \in Items(s)
    BY <1>1 DEF Items
  <2> QED
    BY <2>1, <2>2, <2>3 DEF Items
<1>5. \A f \in Items(Tail(s)) \cup R : Head(s) < f
  <2>1. ASSUME NEW i \in DOMAIN Tail(s) PROVE s[1] < Tail(s)[i]
    <3>1. i + 1 \in DOMAIN s /\ 1 \in DOMAIN s /\ 1 < i + 1 /\ Tail(s)[i] = s[i + 1]
      BY <1>1, <1>2
    <3> QED
      BY <3>1 DEF Ordered
  <2>2. \A f \in R : s[1] < f
    BY <1>1 DEF Ordered
  <2> QED
    BY <1>1, <2>1, <2>2 DEF Items
<1>6. Head(s) \in AllFrames
  BY <1>1
<1>7. Head(s) \notin Items(Tail(s)) \cup R
  <2>1. Head(s) \in Nat
    BY <1>6, FramesAreNat
  <2>2. ~(Head(s) < Head(s))
    BY <2>1
  <2> QED
    BY <1>5, <2>2
<1> QED
  BY <1>2, <1>3, <1>4, <1>5, <1>6, <1>7

\* A frame that is before rest goes to the end of a queue before both.
LEMMA AppendFrame ==
    ASSUME NEW s \in Seq(AllFrames), NEW x \in AllFrames, NEW R,
           Ordered(s, {x} \cup R), \A f \in R : x < f
    PROVE  /\ Append(s, x) \in Seq(AllFrames) /\ Ordered(Append(s, x), R)
           /\ Items(Append(s, x)) = Items(s) \cup {x}
           /\ Append(s, x) # <<>>
<1>1. /\ Append(s, x) \in Seq(AllFrames) /\ Len(s) \in Nat /\ DOMAIN s = 1..Len(s)
      /\ DOMAIN Append(s, x) = 1..(Len(s) + 1)
      /\ \A i \in 1..Len(s) : Append(s, x)[i] = s[i]
      /\ Append(s, x)[Len(s) + 1] = x
  OBVIOUS
<1>2. ASSUME NEW i \in DOMAIN Append(s, x) PROVE i \in DOMAIN s \/ i = Len(s) + 1
  BY <1>1
<1>3. ASSUME NEW i \in DOMAIN Append(s, x), NEW j \in DOMAIN Append(s, x), i < j
      PROVE  Append(s, x)[i] < Append(s, x)[j]
  <2>1. i \in DOMAIN s
    BY <1>1, <1>3
  <2>2. CASE j \in DOMAIN s
    BY <1>1, <1>3, <2>1, <2>2 DEF Ordered
  <2>3. CASE j = Len(s) + 1
    BY <1>1, <2>1, <2>3 DEF Ordered
  <2> QED
    BY <1>2, <2>2, <2>3
<1>4. ASSUME NEW i \in DOMAIN Append(s, x), NEW f \in R PROVE Append(s, x)[i] < f
  <2>1. CASE i \in DOMAIN s
    BY <1>1, <2>1 DEF Ordered
  <2>2. CASE i = Len(s) + 1
    BY <1>1, <2>2
  <2> QED
    BY <1>2, <2>1, <2>2
<1>5. Items(Append(s, x)) = Items(s) \cup {x}
  <2>1. ASSUME NEW i \in DOMAIN s PROVE s[i] \in Items(Append(s, x))
    BY <1>1 DEF Items
  <2>2. x \in Items(Append(s, x))
    <3>1. Len(s) + 1 \in DOMAIN Append(s, x)
      BY <1>1
    <3> QED
      BY <1>1, <3>1 DEF Items
  <2> QED
    BY <1>1, <1>2, <2>1, <2>2 DEF Items
<1>6. Append(s, x) # <<>>
  BY <1>1
<1> QED
  BY <1>1, <1>3, <1>4, <1>5, <1>6 DEF Ordered

\* Two queues in a row are one.
LEMMA JoinQueues ==
    ASSUME NEW s \in Seq(AllFrames), NEW t \in Seq(AllFrames), NEW R,
           Ordered(s, Items(t) \cup R), Ordered(t, R)
    PROVE  /\ s \o t \in Seq(AllFrames) /\ Ordered(s \o t, R)
           /\ Items(s \o t) = Items(s) \cup Items(t)
<1> DEFINE u == s \o t
<1>1. /\ u \in Seq(AllFrames) /\ Len(s) \in Nat /\ Len(t) \in Nat
      /\ DOMAIN s = 1..Len(s) /\ DOMAIN t = 1..Len(t)
      /\ DOMAIN u = 1..(Len(s) + Len(t))
      /\ \A i \in 1..Len(s) : u[i] = s[i]
      /\ \A i \in 1..Len(t) : u[Len(s) + i] = t[i]
  OBVIOUS
<1>2. ASSUME NEW i \in DOMAIN u
      PROVE  \/ i \in DOMAIN s /\ u[i] = s[i]
             \/ i > Len(s) /\ i - Len(s) \in DOMAIN t /\ u[i] = t[i - Len(s)]
  <2>1. CASE i <= Len(s)
    BY <1>1, <2>1
  <2>2. CASE i > Len(s)
    <3>1. i - Len(s) \in 1..Len(t) /\ Len(s) + (i - Len(s)) = i
      BY <1>1, <2>2
    <3> QED
      BY <1>1, <2>2, <3>1
  <2> QED
    BY <1>1, <2>1, <2>2
<1>3. ASSUME NEW i \in DOMAIN u, NEW j \in DOMAIN u, i < j PROVE u[i] < u[j]
  <2>1. CASE j \in DOMAIN s /\ u[j] = s[j]
    <3>1. i \in DOMAIN s /\ u[i] = s[i]
      BY <1>1, <1>3, <2>1
    <3> QED
      BY <1>3, <2>1, <3>1 DEF Ordered
  <2>2. CASE j > Len(s) /\ j - Len(s) \in DOMAIN t /\ u[j] = t[j - Len(s)]
    <3>1. CASE i \in DOMAIN s /\ u[i] = s[i]
      <4>1. u[j] \in Items(t)
        BY <2>2 DEF Items
      <4> QED
        BY <3>1, <4>1 DEF Ordered
    <3>2. CASE i > Len(s) /\ i - Len(s) \in DOMAIN t /\ u[i] = t[i - Len(s)]
      <4>1. i - Len(s) < j - Len(s)
        BY <1>1, <1>3, <2>2, <3>2
      <4> QED
        BY <2>2, <3>2, <4>1 DEF Ordered
    <3> QED
      BY <1>2, <3>1, <3>2
  <2> QED
    BY <1>2, <2>1, <2>2
<1>4. ASSUME NEW i \in DOMAIN u, NEW f \in R PROVE u[i] < f
  BY <1>2 DEF Ordered
<1>5. Items(u) = Items(s) \cup Items(t)
  <2>1. ASSUME NEW i \in DOMAIN s PROVE s[i] \in Items(u)
    <3>1. i \in DOMAIN u /\ u[i] = s[i]
      BY <1>1
    <3> QED
      BY <3>1 DEF Items
  <2>2. ASSUME NEW i \in DOMAIN t PROVE t[i] \in Items(u)
    <3>1. i \in 1..Len(t) /\ Len(s) + i \in 1..(Len(s) + Len(t))
      BY <1>1
    <3>2. Len(s) + i \in DOMAIN u /\ u[Len(s) + i] = t[i]
      BY <1>1, <3>1
    <3> HIDE DEF u
    <3> QED
      BY <3>2 DEF Items
  <2>3. Items(u) \subseteq Items(s) \cup Items(t)
    BY <1>2 DEF Items
  <2> QED
    BY <2>1, <2>2, <2>3 DEF Items
<1> QED
  BY <1>1, <1>3, <1>4, <1>5 DEF Ordered

\* A queue cut in two is two queues in a row.
LEMMA CutQueue ==
    ASSUME NEW s \in Seq(AllFrames), NEW R, Ordered(s, R), NEW n \in 0..Len(s)
    PROVE  LET front == SubSeq(s, 1, n)  back == SubSeq(s, n + 1, Len(s))
           IN  /\ front \in Seq(AllFrames) /\ back \in Seq(AllFrames)
               /\ Ordered(front, Items(back) \cup R) /\ Ordered(back, R)
               /\ Items(s) = Items(front) \cup Items(back)
<1> DEFINE front == SubSeq(s, 1, n)
           back == SubSeq(s, n + 1, Len(s))
<1>1. /\ Len(s) \in Nat /\ n \in Nat /\ n <= Len(s) /\ DOMAIN s = 1..Len(s)
      /\ front \in Seq(AllFrames) /\ back \in Seq(AllFrames)
      /\ DOMAIN front = 1..n /\ DOMAIN back = 1..(Len(s) - n)
      /\ \A i \in 1..n : front[i] = s[i]
      /\ \A i \in 1..(Len(s) - n) : back[i] = s[n + i]
  OBVIOUS
<1>2. ASSUME NEW i \in DOMAIN back PROVE n + i \in DOMAIN s /\ n < n + i /\ back[i] = s[n + i]
  BY <1>1
<1>3. ASSUME NEW i \in DOMAIN front PROVE i \in DOMAIN s /\ i <= n /\ front[i] = s[i]
  BY <1>1
<1>4. Ordered(back, R)
  <2>1. ASSUME NEW i \in DOMAIN back, NEW j \in DOMAIN back, i < j PROVE back[i] < back[j]
    <3>1. n + i < n + j
      BY <1>1, <2>1
    <3> QED
      BY <1>2, <3>1 DEF Ordered
  <2> QED
    BY <1>2, <2>1 DEF Ordered
<1>5. Ordered(front, Items(back) \cup R)
  <2>1. ASSUME NEW i \in DOMAIN front, NEW j \in DOMAIN back PROVE front[i] < back[j]
    <3>1. i < n + j
      BY <1>1, <1>3
    <3> QED
      BY <1>2, <1>3, <3>1 DEF Ordered
  <2>2. ASSUME NEW i \in DOMAIN front, NEW j \in DOMAIN front, i < j PROVE front[i] < front[j]
    BY <1>3, <2>2 DEF Ordered
  <2> QED
    BY <1>3, <2>1, <2>2 DEF Ordered, Items
<1>6. Items(s) = Items(front) \cup Items(back)
  <2>1. ASSUME NEW i \in DOMAIN s PROVE s[i] \in Items(front) \cup Items(back)
    <3>1. CASE i <= n
      <4>1. i \in DOMAIN front /\ front[i] = s[i]
        BY <1>1, <3>1
      <4> QED
        BY <4>1 DEF Items
    <3>2. CASE i > n
      <4>1. i - n \in DOMAIN back /\ back[i - n] = s[i]
        <5>1. i - n \in 1..(Len(s) - n) /\ n + (i - n) = i
          BY <1>1, <3>2
        <5> QED
          BY <1>1, <5>1
      <4> QED
        BY <4>1 DEF Items
    <3> QED
      BY <1>1, <3>1, <3>2
  <2>2. Items(s) \subseteq Items(front) \cup Items(back)
    BY <2>1 DEF Items
  <2>3. Items(front) \subseteq Items(s)
    BY <1>3 DEF Items
  <2>4. Items(back) \subseteq Items(s)
    BY <1>2 DEF Items
  <2> QED
    BY <2>2, <2>3, <2>4
<1> QED
  BY <1>1, <1>4, <1>5, <1>6

-----------------------------------------------------------------------------
(* The file                                                                *)

LEMMA FileStep ==
    ASSUME NEW n \in 0..Len(Stream), n < Len(Stream)
    PROVE  /\ Stream[n + 1] \in Seq(AllFrames)
           /\ FileAfter(n) = Items(Stream[n + 1]) \cup FileAfter(n + 1)
           /\ Ordered(Stream[n + 1], FileAfter(n + 1))
<1>1. /\ Len(Stream) \in Nat /\ n \in Nat /\ DOMAIN Stream = 1..Len(Stream)
      /\ n + 1 \in DOMAIN Stream
      /\ \A p \in DOMAIN Stream : Stream[p] \in Seq(Nat \ {0})
  BY StreamAssumption
<1>2. Stream[n + 1] \in Seq(AllFrames)
  <2>1. \A i \in DOMAIN Stream[n + 1] : Stream[n + 1][i] \in AllFrames
    BY <1>1 DEF AllFrames, Items
  <2>2. Stream[n + 1] \in Seq(Nat \ {0})
    BY <1>1
  <2> QED
    BY <2>1, <2>2
<1>3. \A p : p \in n + 1..Len(Stream) <=> p = n + 1 \/ p \in n + 2..Len(Stream)
  BY <1>1
<1>4. FileAfter(n) = Items(Stream[n + 1]) \cup FileAfter(n + 1)
  <2>1. n + 1 + 1 = n + 2
    BY <1>1
  <2> QED
    BY <1>3, <2>1 DEF FileAfter
<1>5. Ordered(Stream[n + 1], FileAfter(n + 1))
  <2>1. \A i, j \in DOMAIN Stream[n + 1] : i < j => Stream[n + 1][i] < Stream[n + 1][j]
    BY <1>1, DisplayAssumption
  <2>2. ASSUME NEW i \in DOMAIN Stream[n + 1], NEW p \in n + 1 + 1..Len(Stream),
               NEW j \in DOMAIN Stream[p]
        PROVE  Stream[n + 1][i] < Stream[p][j]
    <3>1. p \in DOMAIN Stream /\ n + 1 < p
      BY <1>1
    <3> QED
      BY <1>1, <3>1, DisplayAssumption
  <2> QED
    BY <2>1, <2>2 DEF Ordered, FileAfter, Items
<1> QED
  BY <1>2, <1>4, <1>5

LEMMA FileEnds ==
    FileAfter(Len(Stream)) = {} /\ FileAfter(0) = AllFrames
<1>1. Len(Stream) \in Nat /\ DOMAIN Stream = 1..Len(Stream)
  BY StreamAssumption
<1> QED
  BY <1>1 DEF FileAfter, AllFrames

-----------------------------------------------------------------------------
(* How the line moves                                                      *)

LEMMA LineFrames ==
    ASSUME TypeOK
    PROVE  /\ Coming \subseteq AllFrames /\ Waiting \subseteq AllFrames
           /\ InFile \subseteq AllFrames
           /\ \A i \in DOMAIN delivered : delivered[i].frame \in AllFrames
           /\ DeliveredFrames \subseteq AllFrames
<1>1. InFile \subseteq AllFrames
  <2>1. next \in Nat /\ Len(Stream) \in Nat /\ DOMAIN Stream = 1..Len(Stream)
    BY StreamAssumption DEF TypeOK
  <2>2. \A p \in next + 1..Len(Stream) : p \in DOMAIN Stream
    BY <2>1
  <2> QED
    BY <2>2 DEF InFile, FileAfter, AllFrames
<1>2. Coming \subseteq AllFrames /\ Waiting \subseteq AllFrames
  BY <1>1, ItemsAreFrames DEF Coming, Waiting, AfterOut, AfterReady, AfterInside, TypeOK
<1>3. \A i \in DOMAIN delivered : delivered[i] \in [frame : AllFrames, how : {"cpu", "gpu"}]
  <2>1. delivered \in Seq(Deliveries)
    BY DEF TypeOK
  <2>2. \A i \in DOMAIN delivered : delivered[i] \in Deliveries
    BY <2>1
  <2> QED
    BY <2>2 DEF Deliveries
<1> QED
  BY <1>1, <1>2, <1>3 DEF DeliveredFrames

\* Delivered frames are different from those that wait.
LEMMA DeliveredAreOut ==
    ASSUME TypeOK, DeliveredOK PROVE DeliveredFrames \cap Waiting = {}
<1> SUFFICES ASSUME NEW i \in DOMAIN delivered, delivered[i].frame \in Waiting PROVE FALSE
  BY DEF DeliveredFrames
<1>1. delivered[i].frame \in Nat
  BY LineFrames, FramesAreNat
<1>2. ~(delivered[i].frame < delivered[i].frame)
  BY <1>1
<1> QED
  BY <1>2 DEF DeliveredOK, Waiting

\* Frames move on towards the caller, or are lost and it is told.
LEMMA LineMoves ==
    ASSUME TypeOK, Passing, LineOK', UNCHANGED <<delivered, kind>>,
           reported \subseteq reported', lost \subseteq lost', Coming' \subseteq Coming,
           Items(completed') \subseteq Items(completed) \cup Coming,
           Items(completed_gpu') \subseteq Items(completed_gpu) \cup Coming,
           reported' \cap Losses = {} /\ ~closed' /\ pc' # "destroy"
                => ~closed /\ pc # "destroy" /\ Waiting \subseteq Waiting' \cup lost'
    PROVE  Passing'
<1>1. DeliveredOK'
  <2> SUFFICES ASSUME NEW i \in DOMAIN delivered
               PROVE  /\ \A f \in Coming' : delivered[i].frame < f
                      /\ delivered[i].frame \notin Items(completed') \cup Items(completed_gpu')
                      /\ delivered[i].how = "cpu" =>
                            \A f \in Items(completed') : delivered[i].frame < f
                      /\ delivered[i].how = "gpu" =>
                            \A f \in Items(completed_gpu') : delivered[i].frame < f
    BY DEF DeliveredOK
  <2>1. DeliveredOK /\ DeliveredFrames \cap Waiting = {}
    BY DeliveredAreOut DEF Passing
  <2>2. delivered[i].frame \notin Waiting
    BY <2>1 DEF DeliveredFrames
  <2> QED
    BY <2>1, <2>2 DEF DeliveredOK, Waiting
<1>2. NoneMissing'
  <2>1. DeliveredFrames' = DeliveredFrames /\ Losses' = Losses
    BY DEF DeliveredFrames, Losses
  <2> SUFFICES ASSUME reported' \cap Losses = {}, ~closed', pc' # "destroy"
               PROVE  AllFrames \subseteq lost' \cup DeliveredFrames \cup Waiting'
    BY <2>1 DEF NoneMissing, Waiting
  <2> QED
    BY DEF NoneMissing, Waiting, Passing
<1>3. DeliveredInOrder'
  BY DEF DeliveredInOrder, Passing
<1> QED
  BY <1>1, <1>2, <1>3 DEF Passing

LEMMA LineStays ==
    ASSUME TypeOK, Passing, UNCHANGED <<line, kind>>, reported \subseteq reported',
           ~closed' /\ pc' # "destroy" => ~closed /\ pc # "destroy"
    PROVE  Passing'
<1>1. LineOK' /\ Coming' = Coming /\ Waiting' = Waiting
  BY DEF line, LineOK, Waiting, Coming, AfterOut, AfterReady, AfterInside, InFile, Passing
<1> QED
  BY <1>1, LineMoves DEF line

\* A frame at the head of its queue is handed out.
LEMMA LineDelivers ==
    ASSUME TypeOK, Passing, LineOK', UNCHANGED <<kind, closed>>, pc # "destroy", ~closed,
           NEW x \in Waiting, reported \subseteq reported', lost' = lost,
           delivered' = Append(delivered, [frame |-> x, how |-> how]),
           Coming' \subseteq Coming, Waiting \subseteq Waiting' \cup {x}, x \notin Waiting',
           Items(completed') \subseteq Items(completed),
           Items(completed_gpu') \subseteq Items(completed_gpu),
           \A f \in Coming' : x < f,
           how = "cpu" => (x \in Items(completed) \cup Coming /\ \A f \in Items(completed') : x < f),
           how = "gpu" => (x \in Items(completed_gpu) \cup Coming
                              /\ \A f \in Items(completed_gpu') : x < f)
    PROVE  Passing' /\ DeliveredFrames' = DeliveredFrames \cup {x}
<1> DEFINE e == [frame |-> x, how |-> how]
<1>1. /\ delivered \in Seq(Deliveries)
      /\ how \in {"cpu", "gpu"} /\ x \in AllFrames
  BY LineFrames DEF TypeOK
<1>2. /\ Len(delivered) \in Nat /\ DOMAIN delivered = 1..Len(delivered)
      /\ DOMAIN delivered' = 1..(Len(delivered) + 1)
      /\ \A i \in DOMAIN delivered : delivered'[i] = delivered[i]
      /\ delivered'[Len(delivered) + 1] = e
  BY <1>1
<1>3. \A i \in DOMAIN delivered' : i \in DOMAIN delivered \/ i = Len(delivered) + 1
  BY <1>2
<1>4. DeliveredFrames' = DeliveredFrames \cup {x}
  <2>1. ASSUME NEW i \in DOMAIN delivered' PROVE delivered'[i].frame \in DeliveredFrames \cup {x}
    BY <1>2, <1>3 DEF DeliveredFrames
  <2>2. ASSUME NEW i \in DOMAIN delivered PROVE delivered[i].frame \in DeliveredFrames'
    <3>1. i \in DOMAIN delivered' /\ delivered'[i] = delivered[i]
      BY <1>2
    <3> QED
      BY <3>1 DEF DeliveredFrames
  <2>3. x \in DeliveredFrames'
    <3>1. Len(delivered) + 1 \in DOMAIN delivered' /\ delivered'[Len(delivered) + 1].frame = x
      BY <1>2
    <3> QED
      BY <3>1 DEF DeliveredFrames
  <2> QED
    BY <2>1, <2>2, <2>3 DEF DeliveredFrames
<1>5. ASSUME NEW i \in DOMAIN delivered
      PROVE  /\ delivered[i].frame # x
             /\ delivered[i].how = how => delivered[i].frame < x
  <2>1. delivered[i].frame \notin Waiting
    BY DeliveredAreOut DEF DeliveredFrames, Passing
  <2> QED
    BY <1>1, <2>1 DEF DeliveredOK, Passing
<1>6. DeliveredOK'
  <2> SUFFICES ASSUME NEW i \in DOMAIN delivered'
               PROVE  /\ \A f \in Coming' : delivered'[i].frame < f
                      /\ delivered'[i].frame \notin Items(completed') \cup Items(completed_gpu')
                      /\ delivered'[i].how = "cpu" =>
                            \A f \in Items(completed') : delivered'[i].frame < f
                      /\ delivered'[i].how = "gpu" =>
                            \A f \in Items(completed_gpu') : delivered'[i].frame < f
    BY DEF DeliveredOK
  <2>1. CASE i \in DOMAIN delivered
    BY <1>2, <2>1 DEF DeliveredOK, Passing
  <2>2. CASE i = Len(delivered) + 1
    <3>1. delivered'[i].frame = x /\ delivered'[i].how = how
      BY <1>2, <2>2
    <3>2. x \notin Items(completed') \cup Items(completed_gpu')
      BY DEF Waiting
    <3> QED
      BY <3>1, <3>2
  <2> QED
    BY <1>3, <2>1, <2>2
<1>7. DeliveredInOrder'
  <2> SUFFICES ASSUME NEW i \in DOMAIN delivered', NEW j \in DOMAIN delivered', i < j
               PROVE  /\ delivered'[i].frame # delivered'[j].frame
                      /\ delivered'[i].how = delivered'[j].how =>
                            delivered'[i].frame < delivered'[j].frame
    BY DEF DeliveredInOrder
  <2>1. i \in DOMAIN delivered
    BY <1>2
  <2>2. CASE j \in DOMAIN delivered
    BY <1>2, <2>1, <2>2 DEF DeliveredInOrder, Passing
  <2>3. CASE j = Len(delivered) + 1
    <3>1. delivered'[j].frame = x /\ delivered'[j].how = how
      BY <1>2, <2>3
    <3> QED
      BY <1>2, <1>5, <2>1, <3>1
  <2> QED
    BY <1>3, <2>2, <2>3
<1>8. NoneMissing'
  <2>1. Losses' = Losses
    BY DEF Losses
  <2> SUFFICES ASSUME reported' \cap Losses = {}
               PROVE  AllFrames \subseteq lost \cup DeliveredFrames' \cup Waiting'
    BY <2>1 DEF NoneMissing, Waiting
  <2> QED
    BY <1>4 DEF NoneMissing, Waiting, Passing
<1> QED
  BY <1>4, <1>6, <1>7, <1>8 DEF Passing

-----------------------------------------------------------------------------
(* The handle                                                              *)

\* What each backend keeps besides the line.
Books ==
    /\ EndOK /\ LeasesOK
    /\ kind \in CpuKinds => CpuOK
    /\ kind = "intel" => IntelOK
    /\ kind = "nvidia" => NvOK

LEMMA Parts == Inductive <=> TypeOK /\ Passing /\ Books
  BY DEF Inductive, Passing, Books

LEMMA KindCases == TypeOK => kind \in CpuKinds \/ kind = "intel" \/ kind = "nvidia"
  BY KindAssumption DEF TypeOK, CpuKinds, GpuKinds

LEMMA InductiveInit == Init => Inductive
<1> SUFFICES ASSUME Init PROVE Inductive
  OBVIOUS
<1> USE DEF Init, InitShared, InitNv
<1>1. Len(Stream) \in Nat
  BY StreamAssumption
<1>2. Items(<<>>) = {} /\ \A R : Ordered(<<>>, R)
  BY NothingInEmpty
<1>3. TypeOK
  <2>1. <<>> \in Seq(AllFrames)
    OBVIOUS
  <2>2. delivered \in Seq(Deliveries)
    OBVIOUS
  <2>3. policy \in Policies
    BY DEF Policies
  <2>4. next \in 0..Len(Stream) /\ ret \in Results /\ pc \in Locations
    BY <1>1 DEF Results, Locations
  <2>5. /\ packet \in Seq(AllFrames) /\ inside \in Seq(AllFrames)
        /\ ready \in Seq(AllFrames) /\ out \in Seq(AllFrames)
        /\ completed \in Seq(AllFrames) /\ completed_gpu \in Seq(AllFrames)
    OBVIOUS
  <2>6. /\ slots \subseteq AllFrames /\ mapped \subseteq AllFrames
        /\ held \subseteq AllFrames /\ releasing \subseteq AllFrames
    OBVIOUS
  <2> QED
    BY <2>2, <2>3, <2>4, <2>5, <2>6 DEF TypeOK
<1>4. Coming = AllFrames /\ DeliveredFrames = {}
  BY <1>2, FileEnds
  DEF Coming, AfterOut, AfterReady, AfterInside, InFile, DeliveredFrames
<1>5. Passing
  BY <1>2, <1>4 DEF Passing, LineOK, DeliveredOK, NoneMissing, DeliveredInOrder
<1>6. Books
  <2>1. IsFiniteSet({}) /\ Cardinality({}) = 0 /\ Len(completed_gpu) = 0
    BY FS_EmptySet
  <2>2. EndOK /\ LeasesOK
    BY DEF EndOK, LeasesOK
  <2>3. kind \in CpuKinds => CpuOK
    BY DEF CpuOK
  <2>4. IntelOK
    BY <1>2 DEF IntelOK, Collected
  <2>5. NvOK
    <3>1. outstanding_mappings = Cardinality(held) + Len(completed_gpu)
      BY <2>1
    <3> QED
      BY <1>2, <2>1, <3>1 DEF NvOK
  <2> QED
    BY <2>2, <2>3, <2>4, <2>5 DEF Books
<1> QED
  BY <1>3, <1>5, <1>6, Parts

LEMMA RefuseStep ==
    ASSUME Inductive, UNCHANGED nvdec, NEW result \in Results, result # "END",
           Refuse(result)
    PROVE  Inductive'
<1> USE DEF Refuse, session, demux, queues, memory, leases, codec, nvdec
<1>1. TypeOK /\ Passing /\ Books
  BY Parts
<1>2. TypeOK'
  BY <1>1 DEF TypeOK, Locations
<1>3. Passing'
  BY <1>1, LineStays DEF line
<1>4. Books'
  BY <1>1 DEF Books, EndOK, LeasesOK, CpuOK, IntelOK, NvOK, Collected, DeliveredFrames,
              Losses
<1> QED
  BY <1>2, <1>3, <1>4 DEF Inductive, Passing, Books

LEMMA EnterStep ==
    ASSUME Inductive, UNCHANGED nvdec, NEW location \in {"select", "close"},
           NEW read \in {"cpu", "gpu"}, kind \in CpuKinds => read = "cpu",
           ~closed, Enter(location, read)
    PROVE  Inductive'
<1> USE DEF Enter, session, demux, queues, memory, leases, codec, nvdec
<1>1. TypeOK /\ Passing /\ Books
  BY Parts
<1>2. TypeOK'
  BY <1>1 DEF TypeOK, Locations, Results
<1>3. Passing'
  BY <1>1, LineStays DEF line
<1>4. Items(<<>>) = {}
  BY NothingInEmpty
<1>5. Books'
  BY <1>1, <1>4 DEF Books, EndOK, LeasesOK, CpuOK, IntelOK, NvOK, Collected,
                    DeliveredFrames, Losses
<1> QED
  BY <1>2, <1>3, <1>5 DEF Inductive, Passing, Books

LEMMA HandleStep ==
    ASSUME Inductive, HandleNext, UNCHANGED nvdec PROVE Inductive'
<1>1. TypeOK /\ Passing /\ Books
  BY Parts
<1>2. {"OK", "NOT_SUPPORTED", "INVALID_STATE", "INVALID_ARGUMENT"} \subseteq Results
  BY DEF Results, Failures
<1>3. CASE \E result \in {"OK", "NOT_SUPPORTED", "INVALID_STATE", "INVALID_ARGUMENT"} :
             Refuse(result)
  BY <1>2, <1>3, RefuseStep
<1>4. CASE ~closed /\ Enter("select", "cpu")
  BY <1>4, EnterStep
<1>5. CASE kind \in GpuKinds /\ ~closed /\ Enter("select", "gpu")
  BY <1>5, EnterStep DEF CpuKinds, GpuKinds
<1>6. CASE ~closed /\ Enter("close", how)
  <2>1. how \in {"cpu", "gpu"} /\ (kind \in CpuKinds => how = "cpu")
    BY <1>1 DEF TypeOK, Books, CpuOK
  <2> QED
    BY <1>6, <2>1, EnterStep
<1>7. CASE /\ pc = "idle" /\ calls' = calls + 1 /\ policy' \in Policies /\ ret' = "OK"
           /\ UNCHANGED <<kind, delivered, pc, how, reported, faults, closed, demux,
                          queues, codec, memory, leases>>
  <2> USE DEF demux, queues, memory, leases, codec, nvdec
  <2>1. TypeOK'
    BY <1>1, <1>7 DEF TypeOK, Locations, Results
  <2>2. Passing'
    BY <1>1, <1>7, LineStays DEF line
  <2>3. Books'
    BY <1>1, <1>7 DEF Books, EndOK, LeasesOK, CpuOK, IntelOK, NvOK, Collected,
                      DeliveredFrames, Losses
  <2> QED
    BY <2>1, <2>2, <2>3 DEF Inductive, Passing, Books
<1> QED
  BY <1>3, <1>4, <1>5, <1>6, <1>7 DEF HandleNext, Read, ReadGpu, SetCopyPolicy, Close

-----------------------------------------------------------------------------
(* CPU decoders                                                            *)

\* On the CPU the line is: images, frames inside the codec, the file.
LEMMA CpuLine ==
    ASSUME TypeOK, CpuOK
    PROVE  /\ Items(<<>>) = {} /\ AfterInside = InFile
           /\ Coming = Items(ready) \cup Items(inside) \cup InFile
           /\ AfterOut = Coming /\ Waiting = Coming
           /\ AfterReady = Items(inside) \cup InFile
  BY NothingInEmpty
  DEF CpuOK, Coming, AfterOut, AfterReady, AfterInside, Waiting

\* What a step of the CPU decoder has to show about the line.
LEMMA CpuLineMoves ==
    ASSUME Inductive, kind \in CpuKinds, UNCHANGED <<kind, delivered>>,
           reported \subseteq reported', lost' = lost,
           packet' = <<>>, out' = <<>>, completed' = <<>>, completed_gpu' = <<>>,
           Ordered(ready', Items(inside') \cup InFile'), Ordered(inside', InFile'),
           Items(ready') \cup Items(inside') \cup InFile' \subseteq Coming,
           reported' \cap Losses = {} /\ ~closed' =>
                ~closed /\ Coming \subseteq Items(ready') \cup Items(inside') \cup InFile'
    PROVE  Passing'
<1>1. TypeOK /\ Passing /\ CpuOK /\ pc # "destroy"
  BY DEF Inductive, Passing, TypeOK, Locations, CpuKinds
<1>2. /\ Items(<<>>) = {} /\ \A R : Ordered(<<>>, R)
      /\ Waiting = Coming
  BY <1>1, NothingInEmpty, CpuLine
<1>3. /\ AfterInside' = InFile' /\ AfterReady' = Items(inside') \cup InFile'
      /\ Coming' = Items(ready') \cup Items(inside') \cup InFile' /\ Waiting' = Coming'
      /\ AfterOut' = Coming'
  BY <1>2 DEF Coming, AfterOut, AfterReady, AfterInside, Waiting
<1>4. LineOK'
  BY <1>2, <1>3 DEF LineOK
<1> QED
  BY <1>1, <1>2, <1>3, <1>4, LineMoves

LEMMA CpuImageStep ==
    ASSUME Inductive, kind \in CpuKinds, CpuImage, UNCHANGED nvdec PROVE Inductive'
<1> USE DEF CpuImage, AtCpu, session, demux, leases, codec, memory, nvdec
<1>1. TypeOK /\ Passing /\ CpuOK /\ Books /\ LineOK
  BY DEF Inductive, Passing, Books
<1>2. /\ Items(<<>>) = {} /\ AfterInside = InFile /\ AfterOut = Coming
      /\ Coming = Items(ready) \cup Items(inside) \cup InFile /\ Waiting = Coming
      /\ AfterReady = Items(inside) \cup InFile
  BY <1>1, CpuLine
<1>3. /\ ready \in Seq(AllFrames) /\ ready # <<>>
      /\ Ordered(ready, Items(inside) \cup InFile) /\ Ordered(inside, InFile)
  BY <1>1, <1>2 DEF TypeOK, LineOK
<1>4. /\ Head(ready) \in AllFrames /\ Tail(ready) \in Seq(AllFrames)
      /\ Ordered(Tail(ready), Items(inside) \cup InFile)
      /\ Items(ready) = {Head(ready)} \cup Items(Tail(ready))
      /\ \A f \in Items(Tail(ready)) \cup Items(inside) \cup InFile : Head(ready) < f
      /\ Head(ready) \notin Items(Tail(ready)) \cup Items(inside) \cup InFile
  BY <1>3, TakeHead
<1>5. ready' = Tail(ready) /\ inside' = inside /\ InFile' = InFile
  BY DEF InFile
<1>6. CASE Fault /\ Return("NOT_SUPPORTED") /\ UNCHANGED <<delivered, held>>
  <2> USE DEF Fault, Return
  <2>1. "NOT_SUPPORTED" \in Losses
    BY DEF Losses, Failures
  <2>2. reported' = reported \cup {"NOT_SUPPORTED"}
    BY <1>6 DEF Failures
  <2>3. TypeOK'
    BY <1>1, <1>4, <1>6 DEF TypeOK, Locations, Results, Failures
  <2>4. Passing'
    BY <1>1, <1>2, <1>3, <1>4, <1>5, <1>6, <2>1, <2>2, CpuLineMoves DEF CpuOK
  <2>5. Books'
    BY <1>1, <1>6, <2>2 DEF Books, EndOK, LeasesOK, CpuOK, DeliveredFrames, CpuKinds, Losses, TypeOK
  <2> QED
    BY <2>3, <2>4, <2>5 DEF Inductive, Passing, Books
<1>7. CASE Deliver(Head(ready)) /\ UNCHANGED faults
  <2> USE DEF Deliver, Return
  <2>1. reported' = reported /\ held' = held /\ how = "cpu"
    BY <1>1, <1>7 DEF Failures, CpuOK
  <2>2. TypeOK'
    <3>1. Append(delivered, [frame |-> Head(ready), how |-> how]) \in Seq(Deliveries)
      <4>1. [frame |-> Head(ready), how |-> how] \in Deliveries
        BY <1>4, <2>1 DEF Deliveries
      <4>2. delivered \in Seq(Deliveries)
        BY <1>1 DEF TypeOK
      <4> QED
        BY <4>1, <4>2
    <3> QED
      BY <1>1, <1>4, <1>7, <2>1, <3>1 DEF TypeOK, Locations, Results
  <2>3. /\ AfterInside' = InFile /\ AfterReady' = Items(inside) \cup InFile
        /\ Coming' = Items(Tail(ready)) \cup Items(inside) \cup InFile /\ Waiting' = Coming'
        /\ AfterOut' = Coming'
    BY <1>1, <1>2, <1>5 DEF Coming, AfterOut, AfterReady, AfterInside, Waiting, CpuOK
  <2>4. LineOK'
    BY <1>1, <1>2, <1>3, <1>4, <1>5, <2>3, NothingInEmpty DEF LineOK, CpuOK
  <2>5. pc # "destroy" /\ ~closed
    BY <1>1 DEF Books, LeasesOK
  <2>6. delivered' = Append(delivered, [frame |-> Head(ready), how |-> how])
    BY <1>7
  <2>7. /\ Head(ready) \in Waiting /\ Head(ready) \in Items(completed) \cup Coming
        /\ Head(ready) \notin Waiting' /\ Coming' \subseteq Coming
        /\ Waiting \subseteq Waiting' \cup {Head(ready)}
        /\ \A f \in Coming' : Head(ready) < f
    BY <1>2, <1>4, <2>3
  <2>8. Items(completed') = {} /\ Items(completed_gpu') = {}
    BY <1>1, <1>2 DEF CpuOK
  <2>9. Passing' /\ DeliveredFrames' = DeliveredFrames \cup {Head(ready)}
    BY <1>1, <2>1, <2>4, <2>5, <2>6, <2>7, <2>8, LineDelivers
  <2>10. Books'
    BY <1>1, <1>7, <2>1, <2>5, <2>9
    DEF Books, EndOK, LeasesOK, CpuOK, CpuKinds, Losses, TypeOK
  <2> QED
    BY <2>2, <2>9, <2>10 DEF Inductive, Passing, Books
<1> QED
  BY <1>6, <1>7

\* A packet is read: the codec takes its frames behind those it has kept and
\* gives out the first of them.
LEMMA CpuPacketStep ==
    ASSUME Inductive, kind \in CpuKinds, CpuPacket, UNCHANGED nvdec PROVE Inductive'
<1> USE DEF CpuPacket, AtCpu, CpuNeedsPacket, session, demux, leases, codec, memory,
            queues, caller, nvdec
<1>1. /\ TypeOK /\ Passing /\ CpuOK /\ Books /\ LineOK
      /\ ~closed /\ ready = <<>> /\ packet = <<>> /\ ~drained
  BY DEF Inductive, Passing, Books, LeasesOK, CpuOK
<1>2. /\ Items(<<>>) = {} /\ AfterInside = InFile
      /\ Coming = Items(inside) \cup InFile /\ \A R : Ordered(<<>>, R)
  BY <1>1, CpuLine, NothingInEmpty
<1>3. inside \in Seq(AllFrames) /\ Ordered(inside, InFile)
  BY <1>1, <1>2 DEF TypeOK, LineOK
<1>4. next \in 0..Len(Stream) /\ next \in Nat /\ Len(Stream) \in Nat /\ InFile = FileAfter(next)
  BY <1>1, StreamAssumption DEF TypeOK, InFile
<1>5. CASE DemuxFails
  <2> USE DEF DemuxFails, Fault, Return
  <2>1. reported' = reported \cup {"IO"} /\ "IO" \in Losses
    BY <1>5 DEF Failures, Losses
  <2>2. TypeOK'
    BY <1>1, <1>4, <1>5 DEF TypeOK, Locations, Results, Failures
  <2>3. InFile' \subseteq InFile
    <3>1. CASE next' = next
      BY <3>1 DEF InFile
    <3>2. CASE next' = next + 1
      BY <1>4, <1>5, <3>2, FileStep DEF InFile
    <3> QED
      BY <1>5, <3>1, <3>2
  <2>4. Ordered(inside, InFile')
    BY <1>3, <2>3, OrderedBeforeFewer
  <2>5. Passing'
    BY <1>1, <1>2, <1>5, <2>1, <2>3, <2>4, CpuLineMoves DEF CpuOK
  <2>6. Books'
    BY <1>1, <1>5, <2>1 DEF Books, EndOK, LeasesOK, CpuOK, DeliveredFrames, CpuKinds,
                            Losses, TypeOK
  <2> QED
    BY <2>2, <2>5, <2>6 DEF Inductive, Passing, Books
<1>6. CASE /\ DemuxEnds
           /\ UNCHANGED <<session, caller, faults, closed, queues, codec, memory, leases>>
  <2> USE DEF DemuxEnds
  <2>1. TypeOK'
    BY <1>1, <1>6 DEF TypeOK, Locations
  <2>2. Passing'
    BY <1>1, <1>6, LineStays DEF line
  <2>3. Books'
    BY <1>1, <1>6 DEF Books, EndOK, LeasesOK, CpuOK, DeliveredFrames, CpuKinds, Losses
  <2> QED
    BY <2>1, <2>2, <2>3 DEF Inductive, Passing, Books
<1>7. CASE /\ next < Len(Stream) /\ next' = next + 1 /\ UNCHANGED <<demux_eos, lost>>
           /\ packet' = <<>>
           /\ CpuDecodes(inside \o Stream[next + 1])
           /\ UNCHANGED <<session, delivered, how, calls, closed, out, completed,
                          completed_gpu, codec, memory, leases>>
  <2> DEFINE frames == inside \o Stream[next + 1]
  <2>1. /\ Stream[next + 1] \in Seq(AllFrames)
        /\ InFile = Items(Stream[next + 1]) \cup InFile'
        /\ Ordered(Stream[next + 1], InFile')
    BY <1>4, <1>7, FileStep DEF InFile
  <2>2. Ordered(inside, Items(Stream[next + 1]) \cup InFile') /\ Ordered(inside, InFile')
    BY <1>3, <2>1, OrderedBeforeFewer
  <2>3. /\ frames \in Seq(AllFrames) /\ Ordered(frames, InFile')
        /\ Items(frames) = Items(inside) \cup Items(Stream[next + 1])
    BY <1>3, <2>1, <2>2, JoinQueues
  <2>4. next' \in 0..Len(Stream)
    BY <1>4, <1>7
  <2>5. CASE Fault /\ Return("CODEC") /\ UNCHANGED <<inside, ready>>
    <3> USE DEF Fault, Return
    <3>1. reported' = reported \cup {"CODEC"} /\ "CODEC" \in Losses
      BY <2>5, <1>1 DEF Failures, Losses, CpuKinds
    <3>2. TypeOK'
      BY <1>1, <1>7, <2>4, <2>5 DEF TypeOK, Locations, Results, Failures
    <3>3. Passing'
      BY <1>1, <1>2, <1>7, <2>1, <2>2, <2>5, <3>1, CpuLineMoves DEF CpuOK
    <3>4. Books'
      BY <1>1, <1>7, <2>5, <3>1 DEF Books, EndOK, LeasesOK, CpuOK, DeliveredFrames,
                                    CpuKinds, Losses, TypeOK
    <3> QED
      BY <3>2, <3>3, <3>4 DEF Inductive, Passing, Books
  <2>6. CASE \E n \in MayKeep(frames) :
                /\ ready' = SubSeq(frames, 1, Len(frames) - n)
                /\ inside' = SubSeq(frames, Len(frames) - n + 1, Len(frames))
                /\ UNCHANGED <<pc, ret, reported, faults>>
    <3> HIDE DEF frames
    <3>1. PICK n \in MayKeep(frames) :
                /\ ready' = SubSeq(frames, 1, Len(frames) - n)
                /\ inside' = SubSeq(frames, Len(frames) - n + 1, Len(frames))
      BY <2>6
    <3>2. UNCHANGED <<pc, ret, reported, faults>>
      BY <2>6
    <3>3. Len(frames) - n \in 0..Len(frames) /\ (kind = "av1" => n = 0)
      <4>1. Len(frames) \in Nat
        BY <2>3
      <4> QED
        BY <4>1 DEF MayKeep
    <3>4. /\ ready' \in Seq(AllFrames) /\ inside' \in Seq(AllFrames)
          /\ Ordered(ready', Items(inside') \cup InFile') /\ Ordered(inside', InFile')
          /\ Items(frames) = Items(ready') \cup Items(inside')
      BY <2>3, <3>1, <3>3, CutQueue
    <3>5. kind = "av1" => inside' = <<>>
      BY <2>3, <3>1, <3>3
    <3>6. TypeOK'
      BY <1>1, <1>7, <2>4, <3>2, <3>4 DEF TypeOK, Locations
    <3>7. Passing'
      BY <1>1, <1>2, <1>7, <2>1, <2>3, <3>2, <3>4, CpuLineMoves DEF CpuOK
    <3>8. Books'
      BY <1>1, <1>7, <3>2, <3>5 DEF Books, EndOK, LeasesOK, CpuOK, DeliveredFrames,
                                    CpuKinds, Losses, TypeOK
    <3> QED
      BY <3>6, <3>7, <3>8 DEF Inductive, Passing, Books
  <2> QED
    BY <1>7, <2>5, <2>6 DEF CpuDecodes
<1> QED
  BY <1>5, <1>6, <1>7

LEMMA CpuDrainStep ==
    ASSUME Inductive, kind \in CpuKinds, CpuDrain, UNCHANGED nvdec PROVE Inductive'
<1> USE DEF CpuDrain, AtCpu, VpxDrains, session, demux, leases, memory, nvdec
<1>1. /\ TypeOK /\ Passing /\ CpuOK /\ Books /\ LineOK
      /\ ~closed /\ ready = <<>> /\ kind # "av1" /\ demux_eos
  BY DEF Inductive, Passing, Books, LeasesOK
<1>2. /\ Items(<<>>) = {} /\ AfterInside = InFile /\ InFile' = InFile
      /\ Coming = Items(inside) \cup InFile /\ \A R : Ordered(<<>>, R)
  BY <1>1, CpuLine, NothingInEmpty DEF InFile
<1>3. inside \in Seq(AllFrames) /\ Ordered(inside, InFile)
  BY <1>1, <1>2 DEF TypeOK, LineOK
<1>4. Ordered(inside, {} \cup InFile)
  BY <1>3, OrderedBeforeFewer
<1>5. CASE ready' = inside /\ inside' = <<>> /\ UNCHANGED <<pc, ret, reported, faults>>
  <2>1. TypeOK'
    BY <1>1, <1>5 DEF TypeOK, Locations
  <2>2. Passing'
    BY <1>1, <1>2, <1>4, <1>5, CpuLineMoves DEF CpuOK
  <2>3. Books'
    BY <1>1, <1>5 DEF Books, EndOK, LeasesOK, CpuOK, DeliveredFrames, CpuKinds,
                      Losses, TypeOK
  <2> QED
    BY <2>1, <2>2, <2>3 DEF Inductive, Passing, Books
<1>6. CASE Fault /\ Return("CODEC") /\ UNCHANGED <<inside, ready>>
  <2> USE DEF Fault, Return
  <2>1. reported' = reported \cup {"CODEC"} /\ "CODEC" \in Losses
    BY <1>6, <1>1 DEF Failures, Losses, CpuKinds
  <2>2. TypeOK'
    BY <1>1, <1>6 DEF TypeOK, Locations, Results, Failures
  <2>3. Passing'
    BY <1>1, <1>2, <1>3, <1>6, <2>1, CpuLineMoves DEF CpuOK
  <2>4. Books'
    BY <1>1, <1>6, <2>1 DEF Books, EndOK, LeasesOK, CpuOK, DeliveredFrames, CpuKinds,
                            Losses, TypeOK
  <2> QED
    BY <2>2, <2>3, <2>4 DEF Inductive, Passing, Books
<1> QED
  BY <1>5, <1>6

LEMMA CpuCloseStep ==
    ASSUME Inductive, kind \in CpuKinds, CpuClose, UNCHANGED nvdec PROVE Inductive'
<1> USE DEF CpuClose, AtCpu, Return, session, demux, leases, memory, nvdec
<1>1. TypeOK /\ Passing /\ CpuOK /\ Books /\ LineOK
  BY DEF Inductive, Passing, Books
<1>2. /\ Items(<<>>) = {} /\ InFile' = InFile /\ \A R : Ordered(<<>>, R)
      /\ Coming = Items(ready) \cup Items(inside) \cup InFile
  BY <1>1, CpuLine, NothingInEmpty DEF InFile
<1>3. TypeOK'
  <2>1. <<>> \in Seq(AllFrames) /\ "OK" \in Results /\ "idle" \in Locations
    BY DEF Locations, Results
  <2>2. reported' = reported /\ Locations' = Locations
    BY DEF Failures, Locations
  <2> QED
    BY <1>1, <2>1, <2>2 DEF TypeOK
<1>4. Passing'
  BY <1>1, <1>2, CpuLineMoves DEF CpuOK
<1>5. Books'
  BY <1>1 DEF Books, EndOK, LeasesOK, CpuOK, DeliveredFrames, CpuKinds, Losses, TypeOK
<1> QED
  BY <1>3, <1>4, <1>5 DEF Inductive, Passing, Books

LEMMA CpuStep ==
    ASSUME Inductive, CpuNext, UNCHANGED nvdec PROVE Inductive'
<1>1. kind \in CpuKinds
  BY DEF CpuNext, CpuSelect, CpuImage, CpuPacket, CpuDrain, CpuEnd, CpuClose, AtCpu
<1>2. TypeOK /\ Passing /\ CpuOK /\ Books
  BY <1>1 DEF Inductive, Passing, Books
<1> USE DEF session, demux, queues, leases, codec, memory, nvdec
<1>3. CASE CpuSelect
  <2> USE DEF CpuSelect, AtCpu
  <2>1. TypeOK'
    BY <1>2, <1>3 DEF TypeOK, Locations
  <2>2. Passing'
    BY <1>2, <1>3, LineStays DEF line
  <2>3. Books'
    BY <1>1, <1>2, <1>3 DEF Books, EndOK, LeasesOK, CpuOK, DeliveredFrames, CpuKinds, Losses
  <2> QED
    BY <2>1, <2>2, <2>3 DEF Inductive, Passing, Books
<1>4. CASE CpuEnd
  <2> USE DEF CpuEnd, AtCpu, CpuAtEnd, Return
  <2>1. reported' = reported
    BY <1>4 DEF Failures
  <2>2. TypeOK'
    BY <1>2, <1>4 DEF TypeOK, Locations, Results
  <2>3. Passing'
    BY <1>2, <1>4, LineStays DEF line
  <2>4. Books'
    BY <1>1, <1>2, <1>4, <2>1
    DEF Books, EndOK, LeasesOK, CpuOK, DeliveredFrames, CpuKinds, Losses, Failures
  <2> QED
    BY <2>2, <2>3, <2>4 DEF Inductive, Passing, Books
<1> QED
  BY <1>1, <1>3, <1>4, CpuImageStep, CpuPacketStep, CpuDrainStep, CpuCloseStep DEF CpuNext

-----------------------------------------------------------------------------
(* Intel decoder                                                           *)

LEMMA OrderedApart ==
    ASSUME NEW s \in Seq(AllFrames), NEW R, Ordered(s, R) PROVE Items(s) \cap R = {}
<1> SUFFICES ASSUME NEW i \in DOMAIN s, s[i] \in R PROVE FALSE
  BY DEF Items
<1>1. s[i] \in Nat
  <2>1. s[i] \in AllFrames
    OBVIOUS
  <2> QED
    BY <2>1, FramesAreNat
<1>2. ~(s[i] < s[i])
  BY <1>1
<1> QED
  BY <1>2 DEF Ordered

\* A frame is at one place of the line, and nowhere when it was delivered.
LEMMA Apart ==
    ASSUME Inductive
    PROVE  /\ (held \cup releasing) \cap Waiting = {}
           /\ Items(out) \cap AfterOut = {}
           /\ Items(completed) \cap Coming = {} /\ Items(completed_gpu) \cap Coming = {}
           /\ Items(completed) \cap Items(completed_gpu) = {}
<1>1. TypeOK /\ LineOK /\ DeliveredOK /\ LeasesOK
  BY DEF Inductive
<1>2. DeliveredFrames \cap Waiting = {} /\ held \cup releasing \subseteq DeliveredFrames
  BY <1>1, DeliveredAreOut DEF LeasesOK
<1> QED
  BY <1>1, <1>2, OrderedApart DEF TypeOK, LineOK

\* Queues that are left alone or emptied keep the order.
LEMMA LineDrops ==
    ASSUME LineOK, InFile' \subseteq InFile,
           packet' \in {packet, <<>>}, inside' \in {inside, <<>>}, ready' \in {ready, <<>>},
           out' \in {out, <<>>}, completed' \in {completed, <<>>},
           completed_gpu' \in {completed_gpu, <<>>}
    PROVE  /\ LineOK' /\ Coming' \subseteq Coming
           /\ Items(completed') \subseteq Items(completed)
           /\ Items(completed_gpu') \subseteq Items(completed_gpu)
<1>1. Items(<<>>) = {} /\ \A R : Ordered(<<>>, R)
  BY NothingInEmpty
<1>2. /\ AfterInside' \subseteq AfterInside /\ AfterReady' \subseteq AfterReady
      /\ AfterOut' \subseteq AfterOut /\ Coming' \subseteq Coming
      /\ Items(completed') \subseteq Items(completed)
      /\ Items(completed_gpu') \subseteq Items(completed_gpu)
  BY <1>1 DEF AfterInside, AfterReady, AfterOut, Coming
<1>3. Ordered(packet', InFile') /\ Ordered(inside', AfterInside')
  BY <1>1, <1>2, OrderedBeforeFewer DEF LineOK
<1>4. Ordered(ready', AfterReady') /\ Ordered(out', AfterOut')
  BY <1>1, <1>2, OrderedBeforeFewer DEF LineOK
<1>5. Ordered(completed', Coming') /\ Ordered(completed_gpu', Coming')
  BY <1>1, <1>2, OrderedBeforeFewer DEF LineOK
<1> QED
  BY <1>2, <1>3, <1>4, <1>5 DEF LineOK

LEMMA IntelAbandons ==
    ASSUME Inductive, kind = "intel", pc \in {"submit", "collect"}, faults' \in Nat,
           NEW result \in Failures, AbandonCall(result), UNCHANGED nvdec,
           UNCHANGED <<session, delivered, how, calls, closed, next, demux_eos, lost,
                       inside, ready, completed, completed_gpu, codec, leases>>
    PROVE  Inductive'
<1> USE DEF AbandonCall, Discard, Return, session, leases, codec, nvdec
<1>1. TypeOK /\ Passing /\ IntelOK /\ Books /\ LineOK /\ ~closed
  BY DEF Inductive, Passing, Books, LeasesOK
<1>2. Items(<<>>) = {} /\ InFile' = InFile
  BY NothingInEmpty DEF InFile
<1>3. reported' = reported \cup {result} /\ result \in Losses
  BY DEF Losses
<1>4. TypeOK'
  <2>1. <<>> \in Seq(AllFrames) /\ result \in Results /\ "idle" \in Locations
    BY DEF Locations, Results
  <2>2. Locations' = Locations
    BY DEF Locations
  <2> QED
    BY <1>1, <1>3, <2>1, <2>2 DEF TypeOK
<1>5. Passing'
  <2>1. /\ LineOK' /\ Coming' \subseteq Coming
        /\ Items(completed') \subseteq Items(completed)
        /\ Items(completed_gpu') \subseteq Items(completed_gpu)
    BY <1>1, <1>2, LineDrops
  <2> QED
    BY <1>1, <1>3, <2>1, LineMoves DEF Losses
<1>6. EndOK' /\ LeasesOK'
  BY <1>1, <1>3 DEF Books, EndOK, LeasesOK, DeliveredFrames, Losses, Failures
<1>7. IntelOK'
  <2>1. Items(out) \cap (held \cup releasing \cup Items(ready) \cup Items(completed_gpu)) = {}
    BY Apart DEF Waiting, Coming, AfterOut
  <2> QED
    BY <1>1, <1>2, <2>1 DEF IntelOK, Collected
<1> QED
  BY <1>1, <1>4, <1>5, <1>6, <1>7 DEF Inductive, Passing, CpuKinds

LEMMA IntelDeliverStep ==
    ASSUME Inductive, IntelDeliver, UNCHANGED nvdec PROVE Inductive'
<1> USE DEF IntelDeliver, AtIntel, Deliver, Return, session, demux, codec, memory, nvdec
<1>1. /\ TypeOK /\ Passing /\ IntelOK /\ Books /\ LineOK /\ kind = "intel"
      /\ ~closed /\ how \in {"cpu", "gpu"}
  BY DEF Inductive, Passing, Books, LeasesOK, TypeOK
<1> DEFINE x == Head(Queue)
<1>2. /\ Queue \in Seq(AllFrames) /\ Queue # <<>> /\ Ordered(Queue, Coming)
      /\ Items(Queue) \subseteq Waiting
  BY <1>1 DEF Queue, TypeOK, LineOK, Waiting
<1>3. /\ x \in AllFrames /\ Tail(Queue) \in Seq(AllFrames)
      /\ Ordered(Tail(Queue), Coming)
      /\ Items(Queue) = {x} \cup Items(Tail(Queue))
      /\ \A f \in Items(Tail(Queue)) \cup Coming : x < f
      /\ x \notin Items(Tail(Queue)) \cup Coming
  BY <1>2, TakeHead
<1>4. reported' = reported
  BY DEF Failures
<1>5. /\ Coming' = Coming /\ AfterOut' = AfterOut /\ AfterReady' = AfterReady
      /\ AfterInside' = AfterInside /\ InFile' = InFile
  BY DEF Coming, AfterOut, AfterReady, AfterInside, InFile
<1>6. /\ how = "cpu" => completed' = Tail(Queue) /\ completed_gpu' = completed_gpu
                        /\ Queue = completed /\ held' = held
      /\ how = "gpu" => completed_gpu' = Tail(Queue) /\ completed' = completed
                        /\ Queue = completed_gpu /\ held' = held \cup {x}
  BY DEF Queue
<1>7. delivered' = Append(delivered, [frame |-> x, how |-> how])
  OBVIOUS
<1>8. pc' = "idle" /\ ret' = "OK"
  OBVIOUS
<1> HIDE DEF x, IntelDeliver, Deliver
<1>9. UNCHANGED <<session, how, calls, faults, closed, demux, inside, ready, out,
                  codec, memory, releasing>>
  BY DEF IntelDeliver
<1>10. TypeOK'
  <2>1. Append(delivered, [frame |-> x, how |-> how]) \in Seq(Deliveries)
    <3>1. [frame |-> x, how |-> how] \in Deliveries
      BY <1>1, <1>3 DEF Deliveries
    <3>2. delivered \in Seq(Deliveries)
      BY <1>1 DEF TypeOK
    <3> QED
      BY <3>1, <3>2
  <2>2. "OK" \in Results /\ "idle" \in Locations /\ Locations' = Locations
    BY <1>9 DEF Locations, Results
  <2>3. /\ completed' \in Seq(AllFrames) /\ completed_gpu' \in Seq(AllFrames)
        /\ held' \subseteq AllFrames
    BY <1>1, <1>3, <1>6 DEF TypeOK
  <2> QED
    BY <1>1, <1>4, <1>7, <1>8, <1>9, <2>1, <2>2, <2>3 DEF TypeOK
<1>11. LineOK'
  BY <1>1, <1>3, <1>5, <1>6, <1>9 DEF LineOK
<1>12. Passing' /\ DeliveredFrames' = DeliveredFrames \cup {x}
  <2>1. pc # "destroy"
    BY <1>1 DEF TypeOK, Locations
  <2>2. /\ x \in Waiting /\ x \notin Waiting' /\ Waiting \subseteq Waiting' \cup {x}
        /\ Items(completed') \subseteq Items(completed)
        /\ Items(completed_gpu') \subseteq Items(completed_gpu)
    BY <1>1, <1>2, <1>3, <1>5, <1>6, Apart DEF Waiting
  <2>3. /\ how = "cpu" => x \in Items(completed) \cup Coming
                          /\ \A f \in Items(completed') : x < f
        /\ how = "gpu" => x \in Items(completed_gpu) \cup Coming
                          /\ \A f \in Items(completed_gpu') : x < f
    BY <1>3, <1>6
  <2>4. \A f \in Coming' : x < f
    BY <1>3, <1>5
  <2> QED
    BY <1>1, <1>4, <1>5, <1>7, <1>9, <1>11, <2>1, <2>2, <2>3, <2>4, LineDelivers
<1>13. EndOK' /\ LeasesOK'
  <2>1. x \notin releasing
    BY <1>2, <1>3, Apart
  <2> QED
    BY <1>1, <1>6, <1>8, <1>9, <1>12, <2>1 DEF Books, EndOK, LeasesOK
<1>14. IntelOK'
  <2>1. Items(out) = {} /\ packet = <<>> /\ out = <<>> /\ pc = "pump"
    BY <1>1, NothingInEmpty DEF IntelOK, IntelDeliver
  <2>2. Items(completed_gpu) \cup held = Items(completed_gpu') \cup held'
    BY <1>1, <1>3, <1>6
  <2>3. Collected = {} /\ Collected' = {}
    BY <1>9, <2>1 DEF Collected
  <2> QED
    BY <1>1, <1>8, <1>9, <2>1, <2>2, <2>3 DEF IntelOK
<1> QED
  BY <1>1, <1>9, <1>10, <1>12, <1>13, <1>14 DEF Inductive, Passing, CpuKinds

\* A packet of the file is taken for submission, the file ends, or the
\* demuxer fails.
LEMMA IntelPacketStep ==
    ASSUME Inductive, IntelPacket, UNCHANGED nvdec PROVE Inductive'
<1> USE DEF IntelPacket, AtIntel, Goto, session, leases, codec, memory, queues, nvdec
<1>1. /\ TypeOK /\ Passing /\ IntelOK /\ Books /\ LineOK /\ kind = "intel"
      /\ ~closed /\ packet = <<>> /\ out = <<>> /\ ~demux_eos /\ pc = "pump"
      /\ Items(<<>>) = {} /\ \A R : Ordered(<<>>, R)
  BY NothingInEmpty DEF Inductive, Passing, Books, LeasesOK, IntelOK
<1>2. next \in 0..Len(Stream) /\ next \in Nat /\ Len(Stream) \in Nat /\ InFile = FileAfter(next)
  BY <1>1, StreamAssumption DEF TypeOK, InFile
<1>3. CASE DemuxFails
  <2> USE DEF DemuxFails, Fault, Return
  <2>1. reported' = reported \cup {"IO"} /\ "IO" \in Losses
    BY <1>3 DEF Failures, Losses
  <2>2. TypeOK'
    BY <1>1, <1>2, <1>3 DEF TypeOK, Locations, Results, Failures
  <2>3. InFile' \subseteq InFile
    <3>1. CASE next' = next
      BY <3>1 DEF InFile
    <3>2. CASE next' = next + 1
      BY <1>2, <1>3, <3>2, FileStep DEF InFile
    <3> QED
      BY <1>3, <3>1, <3>2
  <2>4. /\ LineOK' /\ Coming' \subseteq Coming
        /\ Items(completed') \subseteq Items(completed)
        /\ Items(completed_gpu') \subseteq Items(completed_gpu)
    BY <1>1, <1>3, <2>3, LineDrops
  <2>5. Passing'
    BY <1>1, <1>3, <2>1, <2>4, LineMoves DEF Losses
  <2>6. Books'
    BY <1>1, <1>3, <2>1 DEF Books, EndOK, LeasesOK, IntelOK, Collected, DeliveredFrames,
                            CpuKinds, Losses, TypeOK
  <2> QED
    BY <2>2, <2>5, <2>6 DEF Inductive, Passing, Books
<1>4. CASE /\ DemuxPacket /\ Goto("submit")
           /\ UNCHANGED <<session, delivered, how, calls, faults, closed, queues,
                          codec, memory, leases>>
  <2> USE DEF DemuxPacket
  <2>1. /\ packet' \in Seq(AllFrames) /\ InFile = Items(packet') \cup InFile'
        /\ Ordered(packet', InFile') /\ next' \in 0..Len(Stream)
    BY <1>2, <1>4, FileStep DEF InFile
  <2>2. TypeOK'
    BY <1>1, <1>4, <2>1 DEF TypeOK, Locations
  <2>3. /\ AfterInside' = AfterInside /\ AfterReady' = AfterReady
        /\ AfterOut' = AfterOut /\ Coming' = Coming
    BY <1>1, <1>4, <2>1 DEF AfterInside, AfterReady, AfterOut, Coming
  <2>4. LineOK'
    BY <1>1, <1>4, <2>1, <2>3 DEF LineOK
  <2>5. Passing'
    BY <1>1, <1>4, <2>3, <2>4, LineMoves DEF Waiting
  <2>6. Books'
    BY <1>1, <1>4 DEF Books, EndOK, LeasesOK, IntelOK, Collected, DeliveredFrames,
                      CpuKinds, Losses, TypeOK
  <2> QED
    BY <2>2, <2>5, <2>6 DEF Inductive, Passing, Books
<1>5. CASE /\ DemuxEnds
           /\ UNCHANGED <<session, caller, faults, closed, queues, codec, memory, leases>>
  <2> USE DEF DemuxEnds, caller
  <2>1. TypeOK'
    BY <1>1, <1>5 DEF TypeOK, Locations
  <2>2. Passing'
    BY <1>1, <1>5, LineStays DEF line
  <2>3. Books'
    BY <1>1, <1>5 DEF Books, EndOK, LeasesOK, IntelOK, Collected, DeliveredFrames,
                      CpuKinds, Losses, TypeOK
  <2> QED
    BY <2>1, <2>2, <2>3 DEF Inductive, Passing, Books
<1> QED
  BY <1>3, <1>4, <1>5

\* A submit leaves p of the packet and i in the codec, puts r in the queue and
\* gives up the frames D.
LEMMA SubmitMoves ==
    ASSUME Inductive, AtIntel("submit"), packet # <<>> \/ inside # <<>>, UNCHANGED nvdec,
           NEW p \in Seq(AllFrames), NEW i \in Seq(AllFrames), NEW r \in Seq(AllFrames), NEW D,
           packet' = p, inside' = i, ready' = r, lost' = lost \cup D, faults' \in Nat,
           UNCHANGED <<session, delivered, how, ret, reported, calls, closed,
                       next, demux_eos, out, completed, completed_gpu, codec, slots,
                       leases>>,
           packet = <<>> => p = <<>>, pc' \in {"submit", "collect"},
           pc' = "collect" => r # <<>>, mapped' = mapped \cup Items(r),
           Ordered(p, InFile), Ordered(i, Items(p) \cup InFile),
           Ordered(r, Items(i) \cup Items(p) \cup InFile), Items(ready) \subseteq Items(r),
           D \subseteq AfterOut, Items(r) \cup Items(i) \cup Items(p) \subseteq AfterOut,
           AfterOut \subseteq D \cup Items(r) \cup Items(i) \cup Items(p) \cup InFile
    PROVE  Inductive'
<1> USE DEF AtIntel, session, leases, codec, nvdec
<1>1. /\ TypeOK /\ Passing /\ IntelOK /\ Books /\ LineOK /\ kind = "intel"
      /\ ~closed /\ ~drained /\ pc = "submit"
  BY DEF Inductive, Passing, Books, LeasesOK, IntelOK
<1>2. AfterOut \subseteq AllFrames
  BY <1>1, LineFrames DEF Coming
<1>3. TypeOK'
  <2>1. Items(r) \subseteq AllFrames /\ lost' \subseteq AllFrames
    BY <1>1, <1>2, ItemsAreFrames DEF TypeOK
  <2>2. pc' \in Locations' /\ mapped' \subseteq AllFrames
    BY <1>1, <2>1 DEF Locations, TypeOK
  <2> QED
    BY <1>1, <2>1, <2>2 DEF TypeOK
<1>4. /\ InFile' = InFile /\ AfterInside' = Items(p) \cup InFile
      /\ AfterReady' = Items(i) \cup Items(p) \cup InFile
      /\ AfterOut' = Items(r) \cup Items(i) \cup Items(p) \cup InFile
      /\ InFile \subseteq AfterOut
  BY DEF InFile, AfterInside, AfterReady, AfterOut
<1>5. AfterOut' \subseteq AfterOut /\ AfterOut \subseteq D \cup AfterOut'
  BY <1>4
<1>6. Coming' \subseteq Coming /\ Coming \subseteq D \cup Coming'
  BY <1>5 DEF Coming
<1>7. LineOK'
  <2>1. Ordered(packet', InFile') /\ Ordered(inside', AfterInside')
    BY <1>4
  <2>2. Ordered(ready', AfterReady') /\ Ordered(out', AfterOut')
    BY <1>1, <1>4, <1>5, OrderedBeforeFewer DEF LineOK
  <2>3. Ordered(completed', Coming') /\ Ordered(completed_gpu', Coming')
    BY <1>1, <1>6, OrderedBeforeFewer DEF LineOK
  <2> QED
    BY <1>1, <2>1, <2>2, <2>3 DEF LineOK
<1>8. Passing'
  <2>1. Waiting \subseteq Waiting' \cup lost'
    BY <1>6 DEF Waiting
  <2> QED
    BY <1>1, <1>6, <1>7, <2>1, LineMoves
<1>9. EndOK' /\ LeasesOK'
  BY <1>1 DEF Books, EndOK, LeasesOK, DeliveredFrames
<1>10. IntelOK'
  <2>1. Items(ready) \subseteq mapped
    BY <1>1 DEF IntelOK
  <2>2. mapped' = Items(ready') \cup Items(completed_gpu) \cup Collected \cup held
    BY <1>1, <2>1 DEF IntelOK
  <2> QED
    BY <1>1, <2>2 DEF IntelOK, Collected
<1> QED
  BY <1>1, <1>3, <1>8, <1>9, <1>10 DEF Inductive, Passing, CpuKinds

\* What the codec has after the next piece of the packet: Frames, in order,
\* before the rest of the packet and the file.
LEMMA Pieces ==
    ASSUME Inductive, CanSubmit
    PROVE  /\ packet \in Seq(AllFrames) /\ Frames \in Seq(AllFrames) /\ Rest \in Seq(AllFrames)
           /\ Frames # <<>> /\ (packet = <<>> => Rest = <<>>)
           /\ Ordered(Rest, InFile) /\ Ordered(Frames, Items(Rest) \cup InFile)
           /\ AfterReady = Items(Frames) \cup Items(Rest) \cup InFile
<1> DEFINE k == IF packet = <<>> THEN 0 ELSE 1
           front == SubSeq(packet, 1, k)
           rest == SubSeq(packet, k + 1, Len(packet))
<1>1. /\ packet \in Seq(AllFrames) /\ inside \in Seq(AllFrames)
      /\ Ordered(packet, InFile) /\ Ordered(inside, AfterInside)
  BY DEF Inductive, TypeOK, LineOK
<1>2. k \in 0..Len(packet)
  <2>1. Len(packet) \in Nat /\ (packet # <<>> => Len(packet) > 0)
    BY <1>1
  <2> QED
    BY <2>1
<1>3. rest = Rest
  <2>1. CASE packet = <<>>
    BY <2>1 DEF Rest
  <2>2. CASE packet # <<>>
    <3>1. Tail(packet) = SubSeq(packet, 2, Len(packet))
      BY <1>1, <2>2
    <3> QED
      BY <2>2, <3>1 DEF Rest
  <2> QED
    BY <2>1, <2>2
<1>4. /\ front \in Seq(AllFrames) /\ rest \in Seq(AllFrames)
      /\ Ordered(front, Items(rest) \cup InFile) /\ Ordered(rest, InFile)
      /\ Items(packet) = Items(front) \cup Items(rest)
  <2> HIDE DEF k
  <2> QED
    BY <1>1, <1>2, CutQueue
<1>5. inside # <<>> \/ front # <<>>
  BY <1>1 DEF CanSubmit
<1>6. Frames = inside \o front
  BY DEF Frames
<1> HIDE DEF k, front, rest
<1>7. AfterInside = Items(front) \cup (Items(rest) \cup InFile)
  BY <1>4 DEF AfterInside
<1>8. Ordered(inside, Items(front) \cup (Items(rest) \cup InFile))
  BY <1>1, <1>7, OrderedBeforeFewer
<1>9. /\ Frames \in Seq(AllFrames) /\ Ordered(Frames, Items(rest) \cup InFile)
      /\ Items(Frames) = Items(inside) \cup Items(front)
  BY <1>1, <1>4, <1>6, <1>8, JoinQueues
<1>10. Frames # <<>>
  BY <1>1, <1>4, <1>5, <1>6
<1>11. AfterReady = Items(Frames) \cup Items(rest) \cup InFile
  BY <1>7, <1>9 DEF AfterReady
<1> QED
  BY <1>1, <1>3, <1>4, <1>9, <1>10, <1>11 DEF Rest


\* The first of the frames f goes to the end of the queue.
LEMMA GivesStep ==
    ASSUME Inductive, CanSubmit, UNCHANGED nvdec,
           NEW p \in Seq(AllFrames), NEW f \in Seq(AllFrames), NEW D,
           packet' = p, GivesOut(f), lost' = lost \cup D, faults' \in Nat,
           UNCHANGED <<session, delivered, how, ret, reported, calls, closed,
                       next, demux_eos, out, completed, completed_gpu, codec, slots,
                       leases>>,
           packet = <<>> => p = <<>>, f # <<>>,
           Ordered(p, InFile), Ordered(f, Items(p) \cup InFile),
           AfterReady = D \cup Items(f) \cup Items(p) \cup InFile
    PROVE  Inductive'
<1> DEFINE x == Head(f)
           i == Tail(f)
           after == Items(i) \cup Items(p) \cup InFile
           r == Append(ready, x)
<1>1. /\ ready \in Seq(AllFrames) /\ Ordered(ready, AfterReady) /\ Items(ready) \subseteq mapped
      /\ AfterOut = Items(ready) \cup AfterReady /\ AtIntel("submit")
      /\ packet # <<>> \/ inside # <<>>
  BY DEF Inductive, TypeOK, LineOK, IntelOK, AfterOut, CanSubmit, AtIntel
<1>2. /\ x \in AllFrames /\ i \in Seq(AllFrames)
      /\ Ordered(i, Items(p) \cup InFile) /\ Items(f) = {x} \cup Items(i)
      /\ \A g \in Items(i) \cup (Items(p) \cup InFile) : x < g
  BY TakeHead
<1>3. /\ inside' = i /\ ready' = r /\ mapped' = mapped \cup {x}
      /\ pc' \in {"submit", "collect"}
  BY DEF GivesOut, AfterSubmit
<1> HIDE DEF x, i, r
<1>4. \A g \in after : x < g
  BY <1>2
<1>5. Ordered(ready, {x} \cup after)
  <2>1. {x} \cup after \subseteq AfterReady
    BY <1>2
  <2> QED
    BY <1>1, <2>1, OrderedBeforeFewer
<1> HIDE DEF after
<1>6. /\ r \in Seq(AllFrames) /\ Ordered(r, after) /\ Items(r) = Items(ready) \cup {x}
      /\ r # <<>>
  BY <1>1, <1>2, <1>4, <1>5, AppendFrame DEF r
<1> USE DEF after
<1>7. /\ D \subseteq AfterOut /\ Items(r) \cup Items(i) \cup Items(p) \subseteq AfterOut
      /\ AfterOut \subseteq D \cup Items(r) \cup Items(i) \cup Items(p) \cup InFile
  BY <1>1, <1>2, <1>6
<1>8. mapped' = mapped \cup Items(r) /\ Items(ready) \subseteq Items(r)
  BY <1>1, <1>3, <1>6
<1> QED
  BY <1>1, <1>2, <1>3, <1>6, <1>7, <1>8, SubmitMoves

\* The codec gives out nothing that the queue gets to see.
LEMMA KeepsStep ==
    ASSUME Inductive, CanSubmit, UNCHANGED nvdec,
           NEW p \in Seq(AllFrames), NEW i \in Seq(AllFrames), NEW D,
           packet' = p, inside' = i, lost' = lost \cup D, faults' \in Nat,
           pc' \in {pc, AfterSubmit(ready)},
           UNCHANGED <<session, delivered, how, ret, reported, calls, closed,
                       next, demux_eos, ready, out, completed, completed_gpu, codec,
                       memory, leases>>,
           packet = <<>> => p = <<>>,
           Ordered(p, InFile), Ordered(i, Items(p) \cup InFile),
           AfterReady = D \cup Items(i) \cup Items(p) \cup InFile
    PROVE  Inductive'
<1>1. /\ ready \in Seq(AllFrames) /\ Ordered(ready, AfterReady) /\ Items(ready) \subseteq mapped
      /\ AfterOut = Items(ready) \cup AfterReady /\ AtIntel("submit") /\ pc = "submit"
      /\ packet # <<>> \/ inside # <<>>
  BY DEF Inductive, TypeOK, LineOK, IntelOK, AfterOut, CanSubmit, AtIntel
<1>2. Ordered(ready, Items(i) \cup Items(p) \cup InFile)
  BY <1>1, OrderedBeforeFewer
<1>3. pc' \in {"submit", "collect"} /\ (pc' = "collect" => ready # <<>>)
  <2>1. ready = <<>> => Len(ready) = 0
    OBVIOUS
  <2> QED
    BY <1>1, <2>1, DepthAssumption DEF AfterSubmit
<1>4. mapped' = mapped \cup Items(ready) /\ slots' = slots /\ ready' = ready
  BY <1>1 DEF memory
<1>5. /\ D \subseteq AfterOut /\ Items(ready) \cup Items(i) \cup Items(p) \subseteq AfterOut
      /\ AfterOut \subseteq D \cup Items(ready) \cup Items(i) \cup Items(p) \cup InFile
  BY <1>1
<1> QED
  BY <1>1, <1>2, <1>3, <1>4, <1>5, SubmitMoves

\* The codec takes the next piece of the packet behind the frames it has
\* kept, and may give out the first surface.
LEMMA SubmitStep ==
    ASSUME Inductive, Submit, UNCHANGED nvdec PROVE Inductive'
<1>1. /\ CanSubmit /\ packet' = Rest /\ lost' = lost \cup {} /\ faults' \in Nat
      /\ UNCHANGED <<session, delivered, how, ret, reported, calls, closed, next,
                     demux_eos, out, completed, completed_gpu, codec, slots, leases>>
  BY DEF Submit, Inductive, TypeOK
<1>2. CASE GivesOut(Frames)
  BY <1>1, <1>2, Pieces, GivesStep
<1>3. CASE /\ inside' = Frames /\ pc' \in {pc, AfterSubmit(ready)}
           /\ UNCHANGED <<ready, mapped>>
  <2>1. UNCHANGED memory
    BY <1>1, <1>3 DEF memory
  <2> QED
    BY <1>1, <1>3, <2>1, Pieces, KeepsStep
<1> QED
  BY <1>2, <1>3 DEF Submit

\* A warning: the rest of the packet, or one surface, is lost.
LEMMA SubmitWarnsStep ==
    ASSUME Inductive, SubmitWarns, UNCHANGED nvdec PROVE Inductive'
<1>1. /\ CanSubmit /\ faults' \in Nat
      /\ UNCHANGED <<session, delivered, how, ret, reported, calls, closed, next,
                     demux_eos, out, completed, completed_gpu, codec, slots, leases>>
  BY DEF SubmitWarns, Fault, Inductive, TypeOK
<1>2. /\ inside \in Seq(AllFrames) /\ Ordered(inside, InFile) /\ <<>> \in Seq(AllFrames)
      /\ Items(<<>>) = {} /\ Ordered(<<>>, InFile) /\ ready \in Seq(AllFrames)
  <2>1. Ordered(inside, AfterInside) /\ InFile \subseteq AfterInside
    BY DEF Inductive, LineOK, AfterInside
  <2>2. Ordered(inside, InFile)
    BY <2>1, OrderedBeforeFewer
  <2>3. inside \in Seq(AllFrames) /\ ready \in Seq(AllFrames) /\ <<>> \in Seq(AllFrames)
    BY DEF Inductive, TypeOK
  <2> QED
    BY <2>2, <2>3, NothingInEmpty
<1>3. CASE Stalls
  <2>1. /\ packet' = <<>> /\ lost' = lost \cup Items(packet)
        /\ Ordered(inside, Items(<<>>) \cup InFile)
        /\ AfterReady = Items(packet) \cup Items(inside) \cup Items(<<>>) \cup InFile
    BY <1>2, <1>3 DEF Stalls, AfterReady, AfterInside
  <2>2. CASE inside # <<>> /\ GivesOut(inside)
    BY <1>1, <1>2, <2>1, <2>2, GivesStep
  <2>3. CASE pc' \in {pc, AfterSubmit(ready)} /\ UNCHANGED <<inside, ready, mapped>>
    <3>1. UNCHANGED memory /\ inside' = inside /\ ready' = ready
      BY <1>1, <2>3 DEF memory
    <3> QED
      BY <1>1, <1>2, <2>1, <2>3, <3>1, KeepsStep
  <2> QED
    BY <1>3, <2>2, <2>3 DEF Stalls
<1>4. CASE Unsynced
  <2> DEFINE i == Tail(Frames)
             D == {Head(Frames)}
  <2>1. /\ packet' = Rest /\ lost' = lost \cup D /\ inside' = i
        /\ pc' \in {pc, AfterSubmit(ready)} /\ UNCHANGED memory /\ ready' = ready
    BY <1>1, <1>4 DEF Unsynced, memory
  <2>2. /\ i \in Seq(AllFrames) /\ Ordered(i, Items(Rest) \cup InFile)
        /\ Items(Frames) = D \cup Items(i)
    BY <1>1, Pieces, TakeHead
  <2> HIDE DEF i, D
  <2>3. AfterReady = D \cup Items(i) \cup Items(Rest) \cup InFile
    BY <1>1, <2>2, Pieces
  <2> QED
    BY <1>1, <2>1, <2>2, <2>3, Pieces, KeepsStep
<1> QED
  BY <1>3, <1>4 DEF SubmitWarns

\* The oldest surface of the queue is copied or wrapped into a slot.
LEMMA CollectStep ==
    ASSUME Inductive, Collect, UNCHANGED nvdec PROVE Inductive'
<1> USE DEF AtIntel, session, leases, codec, nvdec
<1>1. /\ TypeOK /\ Passing /\ IntelOK /\ Books /\ LineOK /\ kind = "intel"
      /\ ~closed /\ ~drained /\ pc = "collect" /\ ready # <<>> /\ how \in {"cpu", "gpu"}
      /\ Items(<<>>) = {} /\ \A R : Ordered(<<>>, R)
  BY NothingInEmpty DEF Inductive, Passing, Books, LeasesOK, IntelOK, Collect, TypeOK
<1> DEFINE x == Head(ready)
           rest == Tail(ready)
<1>2. /\ ready \in Seq(AllFrames) /\ out \in Seq(AllFrames)
      /\ Ordered(ready, AfterReady) /\ Ordered(out, AfterOut)
  BY <1>1 DEF TypeOK, LineOK
<1>3. /\ x \in AllFrames /\ rest \in Seq(AllFrames) /\ Ordered(rest, AfterReady)
      /\ Items(ready) = {x} \cup Items(rest)
      /\ \A f \in Items(rest) \cup AfterReady : x < f
      /\ x \notin Items(rest) \cup AfterReady
  BY <1>1, <1>2, TakeHead
<1>4. UNCHANGED <<session, delivered, how, calls, closed, next, demux_eos, lost, inside,
                  completed, completed_gpu, codec, leases>>
  BY DEF Collect
<1>5. x \notin held \cup releasing \cup Items(completed_gpu) \cup Items(out)
  BY <1>3, Apart DEF Waiting, Coming, AfterOut
<1> HIDE DEF x, rest
<1>6. CASE AbandonCall("WOULD_BLOCK") /\ UNCHANGED <<ready, faults>>
  BY <1>1, <1>4, <1>6, IntelAbandons DEF TypeOK, Failures
<1>7. CASE /\ ready' = rest /\ out' = Append(out, x)
           /\ IF how = "gpu"
              THEN slots' = slots \cup {x} /\ UNCHANGED mapped
              ELSE mapped' = mapped \ {x} /\ UNCHANGED slots
           /\ Goto("submit") /\ UNCHANGED <<packet, faults>>
  <2> DEFINE after == Items(rest) \cup AfterReady
  <2>1. /\ InFile' = InFile /\ AfterInside' = AfterInside /\ AfterReady' = AfterReady
        /\ AfterOut' = after
    BY <1>4, <1>7 DEF InFile, AfterInside, AfterReady, AfterOut
  <2>2. Ordered(out, {x} \cup after)
    <3>1. AfterOut = {x} \cup after
      BY <1>3 DEF AfterOut
    <3> QED
      BY <1>2, <3>1, OrderedBeforeFewer
  <2>3. \A f \in after : x < f
    BY <1>3
  <2>4. /\ out' \in Seq(AllFrames) /\ Ordered(out', after) /\ Items(out') = Items(out) \cup {x}
    <3> HIDE DEF after
    <3> QED
      BY <1>2, <1>3, <1>7, <2>2, <2>3, AppendFrame
  <2>5. Coming' = Coming
    BY <1>3, <2>1, <2>4 DEF Coming, AfterOut
  <2>6. TypeOK'
    <3>1. slots' \subseteq AllFrames /\ mapped' \subseteq AllFrames
      BY <1>1, <1>3, <1>7 DEF TypeOK
    <3>2. pc' \in Locations' /\ ret' = ret /\ reported' = reported
      BY <1>1, <1>4, <1>7 DEF Locations, Goto
    <3> QED
      BY <1>1, <1>3, <1>4, <1>7, <2>4, <3>1, <3>2 DEF TypeOK
  <2>7. LineOK'
    BY <1>1, <1>3, <1>4, <1>7, <2>1, <2>4, <2>5 DEF LineOK
  <2>8. Passing'
    BY <1>1, <1>4, <1>7, <2>5, <2>7, LineMoves DEF Waiting, Goto
  <2>9. EndOK' /\ LeasesOK'
    BY <1>1, <1>4, <1>7 DEF Books, EndOK, LeasesOK, DeliveredFrames, Goto
  <2>10. IntelOK'
    <3>1. CASE how = "gpu"
      BY <1>1, <1>3, <1>4, <1>5, <1>7, <2>4, <3>1 DEF IntelOK, Collected, Goto
    <3>2. CASE how = "cpu"
      <4>1. Collected = {} /\ Collected' = {}
        BY <1>4, <3>2 DEF Collected
      <4>2. mapped' = Items(rest) \cup Items(completed_gpu) \cup held
        BY <1>1, <1>3, <1>5, <1>7, <3>2, <4>1 DEF IntelOK
      <4> QED
        BY <1>1, <1>3, <1>4, <1>5, <1>7, <3>2, <4>1, <4>2 DEF IntelOK, Goto
    <3> QED
      BY <1>1, <3>1, <3>2
  <2> QED
    BY <1>1, <1>4, <2>6, <2>8, <2>9, <2>10 DEF Inductive, Passing, CpuKinds
<1>8. CASE /\ Fault
           /\ \E result \in {"IO", "CODEC", "NOT_SUPPORTED"} : Return(result)
           /\ ready' = rest /\ packet' = <<>> /\ out' = <<>>
           /\ Discard(Items(out) \cup {x})
  <2> USE DEF Discard, Fault
  <2>1. PICK result \in {"IO", "CODEC", "NOT_SUPPORTED"} : Return(result)
    BY <1>8
  <2>2. /\ reported' = reported \cup {result} /\ result \in Losses /\ result \in Failures
        /\ pc' = "idle" /\ ret' = result
    BY <1>1, <2>1 DEF Losses, Failures, Return
  <2>3. TypeOK'
    <3>1. <<>> \in Seq(AllFrames) /\ pc' \in Locations' /\ ret' \in Results /\ faults' \in Nat
      BY <1>1, <1>4, <1>8, <2>2 DEF Locations, Results, TypeOK
    <3> QED
      BY <1>1, <1>3, <1>4, <1>8, <2>2, <3>1 DEF TypeOK
  <2>4. InFile' = InFile /\ AfterInside' \subseteq AfterInside /\ AfterReady' \subseteq AfterReady
    BY <1>1, <1>4, <1>8 DEF InFile, AfterInside, AfterReady
  <2>5. AfterOut' \subseteq AfterOut /\ Coming' \subseteq Coming
    BY <1>1, <1>3, <1>8, <2>4 DEF AfterOut, Coming
  <2>6. LineOK'
    <3>1. Ordered(packet', InFile') /\ Ordered(inside', AfterInside')
      BY <1>1, <1>4, <1>8, <2>4, OrderedBeforeFewer DEF LineOK
    <3>2. Ordered(ready', AfterReady') /\ Ordered(out', AfterOut')
      BY <1>1, <1>3, <1>8, <2>4, OrderedBeforeFewer
    <3>3. Ordered(completed', Coming') /\ Ordered(completed_gpu', Coming')
      BY <1>1, <1>4, <2>5, OrderedBeforeFewer DEF LineOK
    <3> QED
      BY <1>1, <1>4, <3>1, <3>2, <3>3 DEF LineOK
  <2>7. Passing'
    BY <1>1, <1>4, <2>2, <2>5, <2>6, LineMoves DEF Losses
  <2>8. EndOK' /\ LeasesOK'
    BY <1>1, <1>4, <2>2 DEF Books, EndOK, LeasesOK, DeliveredFrames, Failures
  <2>9. IntelOK'
    <3>1. Items(out) \cap (held \cup releasing \cup Items(rest) \cup Items(completed_gpu)) = {}
      BY <1>3, Apart DEF Waiting, Coming, AfterOut
    <3>2. slots' = Items(completed_gpu) \cup held \cup releasing
      BY <1>1, <1>5, <1>8, <3>1 DEF IntelOK, Collected
    <3>3. mapped' = Items(rest) \cup Items(completed_gpu) \cup held
      BY <1>1, <1>3, <1>5, <1>8, <3>1 DEF IntelOK, Collected
    <3> QED
      BY <1>1, <1>4, <1>8, <2>2, <3>2, <3>3 DEF IntelOK, Collected
  <2> QED
    BY <1>1, <1>4, <2>3, <2>7, <2>8, <2>9 DEF Inductive, Passing, CpuKinds
<1> QED
  BY <1>6, <1>7, <1>8 DEF Collect, x, rest

\* What one packet or the drain gave is queued for the caller.
LEMMA EnqueueStep ==
    ASSUME Inductive, kind = "intel", pc = "submit", packet = <<>>, Enqueue, Goto("pump"),
           UNCHANGED <<session, delivered, how, calls, faults, closed, demux, inside,
                       ready, alive, memory, leases>>, UNCHANGED nvdec,
           \/ drained' = drained
           \/ drained' = TRUE /\ demux_eos /\ inside = <<>> /\ ready = <<>>
    PROVE  Inductive'
<1> USE DEF Goto, session, demux, memory, leases, nvdec
<1>1. /\ TypeOK /\ Passing /\ IntelOK /\ Books /\ LineOK /\ ~closed /\ how \in {"cpu", "gpu"}
      /\ Items(<<>>) = {} /\ \A R : Ordered(<<>>, R)
  BY NothingInEmpty DEF Inductive, Passing, Books, LeasesOK, TypeOK
<1>2. /\ out \in Seq(AllFrames) /\ completed \in Seq(AllFrames)
      /\ completed_gpu \in Seq(AllFrames)
      /\ Ordered(out, AfterOut) /\ Coming = Items(out) \cup AfterOut
      /\ Ordered(completed, Items(out) \cup AfterOut) /\ Ordered(completed, AfterOut)
      /\ Ordered(completed_gpu, Items(out) \cup AfterOut) /\ Ordered(completed_gpu, AfterOut)
  <2>1. AfterOut \subseteq Coming /\ Items(out) \cup AfterOut \subseteq Coming
    BY DEF Coming
  <2> QED
    BY <1>1, <2>1, OrderedBeforeFewer DEF TypeOK, LineOK, Coming
<1>3. /\ completed \o out \in Seq(AllFrames) /\ Ordered(completed \o out, AfterOut)
      /\ Items(completed \o out) = Items(completed) \cup Items(out)
  BY <1>2, JoinQueues
<1>4. /\ completed_gpu \o out \in Seq(AllFrames) /\ Ordered(completed_gpu \o out, AfterOut)
      /\ Items(completed_gpu \o out) = Items(completed_gpu) \cup Items(out)
  BY <1>2, JoinQueues
<1>5. /\ out' = <<>>
      /\ completed' \in Seq(AllFrames) /\ completed_gpu' \in Seq(AllFrames)
      /\ Ordered(completed', AfterOut) /\ Ordered(completed_gpu', AfterOut)
      /\ Items(completed') = Items(completed) \cup (IF how = "cpu" THEN Items(out) ELSE {})
      /\ Items(completed_gpu') = Items(completed_gpu) \cup Collected
  <2>1. CASE how = "cpu"
    BY <1>2, <1>3, <2>1 DEF Enqueue, Collected
  <2>2. CASE how = "gpu"
    BY <1>2, <1>4, <2>2 DEF Enqueue, Collected
  <2> QED
    BY <1>1, <2>1, <2>2
<1>6. /\ InFile' = InFile /\ AfterInside' = AfterInside /\ AfterReady' = AfterReady
      /\ AfterOut' = AfterOut /\ Coming' = AfterOut
  BY <1>1, <1>5 DEF InFile, AfterInside, AfterReady, AfterOut, Coming
<1>7. Items(completed') \cap Items(completed_gpu') = {}
  BY <1>1, <1>2, <1>5, Apart DEF Collected
<1>8. LineOK'
  BY <1>1, <1>5, <1>6, <1>7 DEF LineOK
<1>9. Waiting' = Waiting
  BY <1>1, <1>2, <1>5, <1>6 DEF Waiting, Collected
<1>10. Passing'
  BY <1>1, <1>2, <1>5, <1>6, <1>8, <1>9, LineMoves DEF Collected
<1>11. TypeOK'
  <2>1. pc' \in Locations' /\ <<>> \in Seq(AllFrames)
    BY <1>1 DEF Locations
  <2> QED
    BY <1>1, <1>5, <2>1 DEF TypeOK
<1>12. EndOK' /\ LeasesOK'
  BY <1>1 DEF Books, EndOK, LeasesOK, DeliveredFrames
<1>13. IntelOK'
  <2>1. Collected' = {}
    BY <1>1, <1>5 DEF Collected
  <2> QED
    BY <1>1, <1>5, <2>1 DEF IntelOK
<1> QED
  BY <1>10, <1>11, <1>12, <1>13 DEF Inductive, Passing, CpuKinds

LEMMA IntelCloseStep ==
    ASSUME Inductive, IntelClose, UNCHANGED nvdec PROVE Inductive'
<1> USE DEF IntelClose, AtIntel, Discard, Return, session, demux, leases, nvdec
<1>1. /\ TypeOK /\ Passing /\ IntelOK /\ Books /\ LineOK /\ kind = "intel"
      /\ packet = <<>> /\ out = <<>> /\ Items(<<>>) = {} /\ InFile' = InFile
  BY NothingInEmpty DEF Inductive, Passing, Books, IntelOK, InFile
<1>2. reported' = reported
  BY DEF Failures
<1>3. TypeOK'
  <2>1. /\ <<>> \in Seq(AllFrames) /\ pc' \in Locations' /\ ret' \in Results
        /\ closed' \in BOOLEAN /\ alive' \in BOOLEAN
    BY <1>1 DEF Locations, Results, SessionAlive
  <2> QED
    BY <1>1, <1>2, <2>1 DEF TypeOK
<1>4. /\ LineOK' /\ Coming' \subseteq Coming
      /\ Items(completed') \subseteq Items(completed)
      /\ Items(completed_gpu') \subseteq Items(completed_gpu)
  BY <1>1, LineDrops
<1>5. Passing'
  BY <1>1, <1>2, <1>4, LineMoves
<1>6. EndOK' /\ LeasesOK'
  BY <1>1, <1>2 DEF Books, EndOK, LeasesOK, DeliveredFrames
<1>7. IntelOK'
  <2>1. (held \cup releasing) \cap (Items(ready) \cup Items(completed_gpu)) = {}
    BY Apart DEF Waiting, Coming, AfterOut
  <2>2. Collected = {} /\ Collected' = {}
    BY <1>1 DEF Collected
  <2> QED
    BY <1>1, <2>1, <2>2 DEF IntelOK, SessionAlive
<1> QED
  BY <1>1, <1>3, <1>5, <1>6, <1>7 DEF Inductive, Passing, CpuKinds

LEMMA IntelReleasesStep ==
    ASSUME Inductive, IntelReleases, UNCHANGED nvdec PROVE Inductive'
<1> USE DEF IntelReleases, session, caller, demux, queues, nvdec
<1>1. /\ TypeOK /\ Passing /\ IntelOK /\ Books /\ LineOK /\ LeasesOK /\ kind = "intel"
  BY DEF Inductive, Passing, Books
<1>2. PICK f \in AllFrames :
        \/ ReleaseBegins(f) /\ UNCHANGED <<slots, closed, alive>>
        \/ ReleaseEnds(f) /\ UNCHANGED <<held, mapped, closed>> /\ alive' = SessionAlive
  OBVIOUS
<1>3. closed' = closed
  BY <1>2
<1>4. Passing'
  BY <1>1, <1>3, LineStays DEF line
<1>5. (held \cup releasing) \cap (Items(ready) \cup Items(completed_gpu) \cup Items(out)) = {}
  BY Apart DEF Waiting, Coming, AfterOut
<1>6. Collected \subseteq Items(out) /\ Collected' = Collected
  BY DEF Collected
<1>7. CASE ReleaseBegins(f) /\ UNCHANGED <<slots, closed, alive>>
  <2> USE DEF ReleaseBegins
  <2>1. TypeOK'
    BY <1>1, <1>7 DEF TypeOK, Locations
  <2>2. EndOK' /\ LeasesOK'
    BY <1>1, <1>7 DEF Books, EndOK, LeasesOK, DeliveredFrames, Losses
  <2>3. IntelOK'
    BY <1>1, <1>5, <1>6, <1>7 DEF IntelOK, LeasesOK
  <2> QED
    BY <1>1, <1>4, <2>1, <2>2, <2>3 DEF Inductive, Passing, CpuKinds
<1>8. CASE ReleaseEnds(f) /\ UNCHANGED <<held, mapped, closed>> /\ alive' = SessionAlive
  <2> USE DEF ReleaseEnds
  <2>1. TypeOK'
    <3>1. alive' \in BOOLEAN
      BY <1>8 DEF SessionAlive
    <3> QED
      BY <1>1, <1>8, <3>1 DEF TypeOK, Locations
  <2>2. EndOK' /\ LeasesOK'
    BY <1>1, <1>8 DEF Books, EndOK, LeasesOK, DeliveredFrames, Losses
  <2>3. IntelOK'
    <3>1. alive' = (~closed' \/ slots' # {})
      BY <1>8 DEF SessionAlive
    <3>2. slots' = Items(completed_gpu) \cup Collected \cup held \cup releasing'
      BY <1>1, <1>5, <1>6, <1>8 DEF IntelOK, LeasesOK
    <3> QED
      BY <1>1, <1>3, <1>6, <1>8, <3>1, <3>2 DEF IntelOK
  <2> QED
    BY <1>1, <1>4, <2>1, <2>2, <2>3 DEF Inductive, Passing, CpuKinds
<1> QED
  BY <1>2, <1>7, <1>8

LEMMA IntelStep ==
    ASSUME Inductive, IntelNext, UNCHANGED nvdec PROVE Inductive'
<1>1. TypeOK /\ Passing /\ Books /\ LeasesOK
  BY DEF Inductive, Passing, Books
<1> USE DEF session, demux, queues, leases, codec, memory, nvdec
<1>2. ASSUME NEW location \in Locations, kind = "intel", Goto(location),
             UNCHANGED <<session, delivered, how, calls, closed, demux, queues, codec,
                         memory, leases>>, faults' \in Nat, IntelOK, ~closed,
             pc \notin {"submit", "collect"} => location # "collect",
             pc # "idle",
             location = "collect" => ready # <<>>,
             location = "submit" => ~drained, location = "collect" => ~drained,
             location \notin {"submit", "collect"} => packet = <<>> /\ out = <<>>
      PROVE  Inductive'
  <2> USE DEF Goto
  <2>1. TypeOK'
    BY <1>1, <1>2 DEF TypeOK, Locations
  <2>2. Passing'
    <3>1. pc # "destroy"
      BY <1>1, <1>2 DEF TypeOK, Locations
    <3> QED
      BY <1>1, <1>2, <3>1, LineStays DEF line
  <2>3. EndOK' /\ LeasesOK'
    BY <1>1, <1>2 DEF Books, EndOK, LeasesOK, DeliveredFrames, Losses
  <2>4. IntelOK'
    BY <1>2 DEF IntelOK, Collected
  <2> QED
    BY <1>2, <2>1, <2>2, <2>3, <2>4 DEF Inductive, Passing, CpuKinds
<1>3. IntelSelect => Inductive'
  BY <1>1, <1>2 DEF IntelSelect, AtIntel, Locations, Books, IntelOK, LeasesOK, TypeOK
<1>4. IntelDrain => Inductive'
  BY <1>1, <1>2 DEF IntelDrain, AtIntel, Locations, Books, IntelOK, LeasesOK, TypeOK
<1>5. DrainCollects => Inductive'
  BY <1>1, <1>2 DEF DrainCollects, DrainDone, AtIntel, Locations, Books, IntelOK,
                    LeasesOK, TypeOK
<1>6. SubmitBlocked => Inductive'
  <2> SUFFICES ASSUME SubmitBlocked PROVE Inductive'
    OBVIOUS
  <2>1. kind = "intel" /\ pc = "submit" /\ faults' \in Nat /\ IntelOK /\ ~closed
    BY <1>1 DEF SubmitBlocked, AtIntel, Fault, TypeOK, Books, LeasesOK
  <2>2. CASE ready # <<>> /\ Goto("collect") /\ UNCHANGED <<packet, out, slots, mapped>>
    BY <1>1, <1>2, <2>1, <2>2 DEF SubmitBlocked, Locations, IntelOK
  <2>3. CASE AbandonCall("WOULD_BLOCK")
    BY <2>1, <2>3, IntelAbandons DEF SubmitBlocked, Failures
  <2> QED
    BY <2>2, <2>3 DEF SubmitBlocked
<1>7. SubmitFails => Inductive'
  <2> SUFFICES ASSUME SubmitFails PROVE Inductive'
    OBVIOUS
  <2>1. kind = "intel" /\ pc = "submit" /\ faults' \in Nat
    BY <1>1 DEF SubmitFails, AtIntel, Fault, TypeOK
  <2>2. PICK result \in {"IO", "CODEC", "NOT_SUPPORTED"} : AbandonCall(result)
    BY DEF SubmitFails
  <2>3. result \in Failures
    BY DEF Failures
  <2> QED
    BY <2>1, <2>2, <2>3, IntelAbandons DEF SubmitFails
<1>8. PacketDone => Inductive'
  BY EnqueueStep DEF PacketDone, AtIntel
<1>9. DrainEnds => Inductive'
  <2>1. DrainEnds => packet = <<>>
    BY <1>1 DEF DrainEnds, AtIntel, Books, IntelOK
  <2> QED
    BY <2>1, EnqueueStep DEF DrainEnds, DrainDone, AtIntel
<1>10. IntelEnd => Inductive'
  <2> SUFFICES ASSUME IntelEnd PROVE Inductive'
    OBVIOUS
  <2> USE DEF IntelEnd, AtIntel, Return
  <2>1. reported' = reported
    BY DEF Failures
  <2>2. TypeOK'
    BY <1>1, <2>1 DEF TypeOK, Locations, Results
  <2>3. Passing'
    BY <1>1, <2>1, LineStays DEF line
  <2>4. Books'
    BY <1>1, <2>1 DEF Books, EndOK, LeasesOK, IntelOK, Collected, DeliveredFrames,
                      CpuKinds, Losses, TypeOK
  <2> QED
    BY <2>2, <2>3, <2>4 DEF Inductive, Passing, Books
<1> QED
  BY <1>3, <1>4, <1>5, <1>6, <1>7, <1>8, <1>9, <1>10, IntelDeliverStep, IntelPacketStep,
     SubmitStep, SubmitWarnsStep, CollectStep, IntelCloseStep, IntelReleasesStep DEF IntelNext

-----------------------------------------------------------------------------
(* NVIDIA decoder                                                          *)

\* The line is: frames for the caller, frames inside the parser, the file.
LEMMA NvLine ==
    ASSUME TypeOK, NvOK
    PROVE  /\ Items(<<>>) = {} /\ AfterInside = InFile
           /\ Coming = Items(inside) \cup InFile
  BY NothingInEmpty DEF NvOK, Coming, AfterOut, AfterReady, AfterInside

\* What a step of the NVIDIA decoder has to show about the line.
LEMMA NvLineMoves ==
    ASSUME Inductive, kind = "nvidia", UNCHANGED <<kind, delivered>>,
           reported \subseteq reported', lost' = lost,
           packet' = <<>>, ready' = <<>>, out' = <<>>,
           Ordered(inside', InFile'),
           Ordered(completed', Items(inside') \cup InFile'),
           Ordered(completed_gpu', Items(inside') \cup InFile'),
           Items(completed') \cap Items(completed_gpu') = {},
           Items(inside') \cup InFile' \subseteq Coming,
           Items(completed') \subseteq Items(completed) \cup Coming,
           Items(completed_gpu') \subseteq Items(completed_gpu) \cup Coming,
           reported' \cap Losses = {} /\ ~closed' /\ pc' # "destroy" =>
                /\ ~closed /\ pc # "destroy"
                /\ Waiting \subseteq Items(completed') \cup Items(completed_gpu')
                                    \cup Items(inside') \cup InFile'
    PROVE  Passing'
<1>1. TypeOK /\ Passing
  BY DEF Inductive, Passing
<1>2. Items(<<>>) = {} /\ \A R : Ordered(<<>>, R)
  BY NothingInEmpty
<1>3. /\ AfterInside' = InFile' /\ AfterReady' = Items(inside') \cup InFile'
      /\ AfterOut' = AfterReady' /\ Coming' = AfterReady'
  BY <1>2 DEF Coming, AfterOut, AfterReady, AfterInside
<1>4. LineOK'
  BY <1>2, <1>3 DEF LineOK
<1> QED
  BY <1>1, <1>3, <1>4, LineMoves DEF Waiting

\* Steps that move no frame.
LEMMA NvLocalStep ==
    ASSUME Inductive, kind = "nvidia", ~closed, pc \notin {"idle", "destroy"},
           UNCHANGED <<session, delivered, how, calls, closed, demux, queues, codec,
                       memory, leases, outstanding_mappings, cleanup_failed>>,
           faults' \in Nat, output_mode' \in {"unset", "cpu", "gpu"},
           displayed_any' \in BOOLEAN,
           \/ pc' \in Locations \ {"destroy", "idle"} /\ UNCHANGED <<ret, reported>>
           \/ \E result \in Results \ {"END"} : Return(result),
           pc' # "parse" /\ demux_eos /\ "CODEC" \notin reported' => inside = <<>>
    PROVE  Inductive'
<1> USE DEF session, demux, queues, leases, codec, memory
<1>1. TypeOK /\ Passing /\ Books /\ NvOK
  BY DEF Inductive, Passing, Books
<1>2. /\ reported \subseteq reported' /\ reported' \subseteq Failures
      /\ ret' \in Results /\ (ret' = "END" => ret = "END")
      /\ pc' \in Locations' /\ pc' # "destroy" /\ (pc' = "idle" => ret' # "END")
  BY <1>1 DEF Return, TypeOK, Locations, Failures
<1>3. TypeOK'
  BY <1>1, <1>2 DEF TypeOK
<1>4. Passing'
  BY <1>1, <1>2, LineStays DEF line
<1>5. EndOK' /\ LeasesOK'
  BY <1>1, <1>2 DEF Books, EndOK, LeasesOK, DeliveredFrames
<1>6. NvOK'
  BY <1>1, <1>2 DEF NvOK
<1> QED
  BY <1>3, <1>4, <1>5, <1>6 DEF Inductive, Passing, CpuKinds

LEMMA NvDeliverStep ==
    ASSUME Inductive, NvDeliver PROVE Inductive'
<1> USE DEF NvDeliver, AtNv, session, demux, codec, memory, nvdec
<1>1. /\ TypeOK /\ Passing /\ NvOK /\ Books /\ LineOK /\ kind = "nvidia"
      /\ ~closed /\ how \in {"cpu", "gpu"} /\ pc = "pump"
  BY DEF Inductive, Passing, Books, LeasesOK, TypeOK
<1>2. CASE /\ Fault /\ Return("CODEC")
           /\ UNCHANGED <<delivered, held, completed, completed_gpu>>
  <2>1. "CODEC" \in Results \ {"END"} /\ faults' \in Nat /\ "CODEC" \in reported'
    BY <1>1, <1>2 DEF Results, Failures, Fault, TypeOK, Return
  <2> QED
    BY <1>1, <1>2, <2>1, NvLocalStep DEF queues, leases, TypeOK
<1>3. CASE /\ Deliver(Head(Outputs)) /\ UNCHANGED faults
           /\ IF how = "cpu"
              THEN completed' = Tail(completed) /\ UNCHANGED completed_gpu
              ELSE completed_gpu' = Tail(completed_gpu) /\ UNCHANGED completed
  <2> USE DEF Deliver, Return
  <2> DEFINE x == Head(Outputs)
  <2>1. /\ Outputs \in Seq(AllFrames) /\ Outputs # <<>> /\ Ordered(Outputs, Coming)
        /\ Items(Outputs) \subseteq Waiting
    BY <1>1 DEF Outputs, TypeOK, LineOK, Waiting
  <2>2. /\ x \in AllFrames /\ Tail(Outputs) \in Seq(AllFrames)
        /\ Ordered(Tail(Outputs), Coming)
        /\ Items(Outputs) = {x} \cup Items(Tail(Outputs))
        /\ \A f \in Items(Tail(Outputs)) \cup Coming : x < f
        /\ x \notin Items(Tail(Outputs)) \cup Coming
    BY <2>1, TakeHead
  <2>3. Len(Outputs) \in Nat /\ Len(Tail(Outputs)) = Len(Outputs) - 1
    BY <2>1
  <2>4. reported' = reported
    BY <1>3 DEF Failures
  <2>5. /\ Coming' = Coming /\ AfterOut' = AfterOut /\ AfterReady' = AfterReady
        /\ AfterInside' = AfterInside /\ InFile' = InFile
    BY DEF Coming, AfterOut, AfterReady, AfterInside, InFile
  <2>6. /\ how = "cpu" => completed' = Tail(Outputs) /\ completed_gpu' = completed_gpu
                          /\ Outputs = completed /\ held' = held
        /\ how = "gpu" => completed_gpu' = Tail(Outputs) /\ completed' = completed
                          /\ Outputs = completed_gpu /\ held' = held \cup {x}
    BY <1>3 DEF Outputs
  <2>7. /\ delivered' = Append(delivered, [frame |-> x, how |-> how])
        /\ pc' = "idle" /\ ret' = "OK" /\ faults' = faults
    BY <1>3
  <2>8. UNCHANGED <<session, how, calls, closed, demux, inside, ready, out, codec,
                    memory, releasing, nvdec>>
    OBVIOUS
  <2> HIDE DEF x, NvDeliver, Deliver
  <2>9. TypeOK'
    <3>1. Append(delivered, [frame |-> x, how |-> how]) \in Seq(Deliveries)
      <4>1. [frame |-> x, how |-> how] \in Deliveries
        BY <1>1, <2>2 DEF Deliveries
      <4>2. delivered \in Seq(Deliveries)
        BY <1>1 DEF TypeOK
      <4> QED
        BY <4>1, <4>2
    <3>2. "OK" \in Results /\ "idle" \in Locations /\ Locations' = Locations
      BY <2>8 DEF Locations, Results
    <3>3. /\ completed' \in Seq(AllFrames) /\ completed_gpu' \in Seq(AllFrames)
          /\ held' \subseteq AllFrames
      BY <1>1, <2>2, <2>6 DEF TypeOK
    <3> QED
      BY <1>1, <2>4, <2>7, <2>8, <3>1, <3>2, <3>3 DEF TypeOK
  <2>10. LineOK'
    BY <1>1, <2>2, <2>5, <2>6, <2>8 DEF LineOK
  <2>11. Passing' /\ DeliveredFrames' = DeliveredFrames \cup {x}
    <3>1. /\ x \in Waiting /\ x \notin Waiting' /\ Waiting \subseteq Waiting' \cup {x}
          /\ Items(completed') \subseteq Items(completed)
          /\ Items(completed_gpu') \subseteq Items(completed_gpu)
      BY <1>1, <2>1, <2>2, <2>5, <2>6, Apart DEF Waiting
    <3>2. /\ how = "cpu" => x \in Items(completed) \cup Coming
                            /\ \A f \in Items(completed') : x < f
          /\ how = "gpu" => x \in Items(completed_gpu) \cup Coming
                            /\ \A f \in Items(completed_gpu') : x < f
      BY <2>2, <2>6
    <3>3. \A f \in Coming' : x < f
      BY <2>2, <2>5
    <3> QED
      BY <1>1, <2>4, <2>5, <2>7, <2>8, <2>10, <3>1, <3>2, <3>3, LineDelivers
  <2>12. x \notin held \cup releasing
    BY <2>1, <2>2, Apart
  <2>13. EndOK' /\ LeasesOK'
    BY <1>1, <2>6, <2>7, <2>8, <2>11, <2>12 DEF Books, EndOK, LeasesOK
  <2>14. NvOK'
    <3>1. Items(completed_gpu) \cup held = Items(completed_gpu') \cup held'
      BY <1>1, <2>2, <2>6
    <3>2. IsFiniteSet(held') /\ outstanding_mappings = Cardinality(held') + Len(completed_gpu')
      <4>1. CASE how = "cpu"
        BY <1>1, <2>6, <4>1 DEF NvOK
      <4>2. CASE how = "gpu"
        <5>1. IsFiniteSet(held') /\ Cardinality(held') = Cardinality(held) + 1
          BY <1>1, <2>6, <2>12, <4>2, FS_AddElement DEF NvOK
        <5>2. Cardinality(held) \in Nat
          BY <1>1, FS_CardinalityType DEF NvOK
        <5>3. /\ outstanding_mappings = Cardinality(held) + Len(Outputs)
              /\ Len(completed_gpu') = Len(Outputs) - 1
          BY <1>1, <2>3, <2>6, <4>2 DEF NvOK
        <5> QED
          BY <2>3, <5>1, <5>2, <5>3
      <4> QED
        BY <1>1, <4>1, <4>2
    <3> QED
      BY <1>1, <2>4, <2>7, <2>8, <3>1, <3>2 DEF NvOK
  <2> QED
    BY <1>1, <2>8, <2>9, <2>11, <2>13, <2>14 DEF Inductive, Passing, CpuKinds
<1> QED
  BY <1>2, <1>3

LEMMA NvPacketStep ==
    ASSUME Inductive, NvPacket PROVE Inductive'
<1> USE DEF NvPacket, AtNv, session, leases, codec, memory, queues, nvdec
<1>1. /\ TypeOK /\ Passing /\ NvOK /\ Books /\ LineOK /\ kind = "nvidia"
      /\ ~closed /\ ~demux_eos /\ pc = "pump"
      /\ packet = <<>> /\ ready = <<>> /\ out = <<>>
  BY DEF Inductive, Passing, Books, LeasesOK, NvOK
<1>2. /\ Items(<<>>) = {} /\ AfterInside = InFile /\ Coming = Items(inside) \cup InFile
      /\ \A R : Ordered(<<>>, R)
  BY <1>1, NvLine, NothingInEmpty
<1>3. /\ inside \in Seq(AllFrames) /\ Ordered(inside, InFile)
      /\ Ordered(completed, Items(inside) \cup InFile)
      /\ Ordered(completed_gpu, Items(inside) \cup InFile)
      /\ Items(completed) \cap Items(completed_gpu) = {}
  BY <1>1, <1>2 DEF TypeOK, LineOK
<1>4. next \in 0..Len(Stream) /\ next \in Nat /\ Len(Stream) \in Nat /\ InFile = FileAfter(next)
  BY <1>1, StreamAssumption DEF TypeOK, InFile
<1>5. next < Len(Stream) =>
        /\ next + 1 \in 0..Len(Stream)
        /\ Stream[next + 1] \in Seq(AllFrames)
        /\ InFile = Items(Stream[next + 1]) \cup FileAfter(next + 1)
        /\ Ordered(Stream[next + 1], FileAfter(next + 1))
  BY <1>4, FileStep
<1>6. ASSUME next < Len(Stream), InFile' \subseteq InFile, next' \in 0..Len(Stream),
             UNCHANGED <<session, delivered, how, calls, closed, demux_eos, packet,
                         lost, queues, codec, memory, leases, nvdec>>,
             faults' \in Nat, NEW result \in {"IO", "CODEC"}, Return(result)
      PROVE  Inductive'
  <2> USE DEF Return
  <2>1. reported' = reported \cup {result} /\ result \in Losses
    BY <1>1, <1>6 DEF Failures, Losses
  <2>2. TypeOK'
    BY <1>1, <1>6, <2>1 DEF TypeOK, Locations, Results, Failures
  <2>3. /\ LineOK' /\ Coming' \subseteq Coming
        /\ Items(completed') \subseteq Items(completed)
        /\ Items(completed_gpu') \subseteq Items(completed_gpu)
    BY <1>1, <1>6, LineDrops
  <2>4. Passing'
    BY <1>1, <1>6, <2>1, <2>3, LineMoves DEF Losses
  <2>5. EndOK' /\ LeasesOK'
    BY <1>1, <1>6, <2>1 DEF Books, EndOK, LeasesOK, DeliveredFrames
  <2>6. NvOK'
    BY <1>1, <1>6, <2>1 DEF NvOK
  <2> QED
    BY <1>1, <1>6, <2>2, <2>4, <2>5, <2>6 DEF Inductive, Passing, CpuKinds
<1>7. CASE DemuxFails /\ UNCHANGED nvdec
  <2>1. InFile' \subseteq InFile /\ next' \in 0..Len(Stream)
    <3>1. CASE next' = next
      BY <1>4, <3>1 DEF InFile
    <3>2. CASE next' = next + 1
      BY <1>5, <1>7, <3>2 DEF InFile, DemuxFails
    <3> QED
      BY <1>7, <3>1, <3>2 DEF DemuxFails
  <2>2. faults' \in Nat
    BY <1>1, <1>7 DEF DemuxFails, Fault, TypeOK
  <2> QED
    BY <1>6, <1>7, <2>1, <2>2 DEF DemuxFails
<1>8. CASE /\ next < Len(Stream) /\ next' = next + 1
           /\ \/ /\ inside' = inside \o Stream[next + 1] /\ pc' = "parse"
                 /\ UNCHANGED <<ret, reported, faults>>
              \/ Fault /\ Return("CODEC") /\ UNCHANGED inside
           /\ UNCHANGED <<session, delivered, how, calls, closed, demux_eos, packet,
                          lost, ready, out, completed, completed_gpu, codec, memory,
                          leases, nvdec>>
  <2>1. CASE Fault /\ Return("CODEC") /\ UNCHANGED inside
    <3>1. InFile' \subseteq InFile /\ next' \in 0..Len(Stream) /\ faults' \in Nat
      BY <1>1, <1>5, <1>8, <2>1 DEF InFile, Fault, TypeOK
    <3> QED
      BY <1>6, <1>8, <2>1, <3>1
  <2>2. CASE /\ inside' = inside \o Stream[next + 1] /\ pc' = "parse"
             /\ UNCHANGED <<ret, reported, faults>>
    <3>1. /\ InFile = Items(Stream[next + 1]) \cup InFile'
          /\ Stream[next + 1] \in Seq(AllFrames) /\ Ordered(Stream[next + 1], InFile')
      BY <1>5, <1>8 DEF InFile
    <3>2. Ordered(inside, Items(Stream[next + 1]) \cup InFile')
      BY <1>3, <3>1, OrderedBeforeFewer
    <3>3. /\ inside' \in Seq(AllFrames) /\ Ordered(inside', InFile')
          /\ Items(inside') = Items(inside) \cup Items(Stream[next + 1])
      BY <1>3, <2>2, <3>1, <3>2, JoinQueues
    <3>4. Items(inside') \cup InFile' = Items(inside) \cup InFile
      BY <3>1, <3>3
    <3>5. /\ Ordered(completed', Items(inside') \cup InFile')
          /\ Ordered(completed_gpu', Items(inside') \cup InFile')
      BY <1>3, <1>8, <3>4, OrderedBeforeFewer
    <3>6. TypeOK'
      BY <1>1, <1>5, <1>8, <2>2, <3>3 DEF TypeOK, Locations
    <3>7. Passing'
      BY <1>1, <1>2, <1>3, <1>8, <2>2, <3>3, <3>4, <3>5, NvLineMoves DEF Waiting
    <3>8. EndOK' /\ LeasesOK'
      BY <1>1, <1>8, <2>2 DEF Books, EndOK, LeasesOK, DeliveredFrames
    <3>9. NvOK'
      BY <1>1, <1>8, <2>2 DEF NvOK
    <3> QED
      BY <1>1, <1>8, <3>6, <3>7, <3>8, <3>9 DEF Inductive, Passing, CpuKinds
  <2> QED
    BY <1>8, <2>1, <2>2
<1>9. CASE /\ DemuxEnds /\ drained' = TRUE
           /\ \/ pc' = "parse" /\ UNCHANGED <<ret, reported, faults>>
              \/ Fault /\ Return("CODEC")
           /\ UNCHANGED <<session, delivered, how, calls, closed, queues, alive,
                          memory, leases, nvdec>>
  <2>1. /\ reported \subseteq reported' /\ reported' \subseteq Failures
        /\ faults' \in Nat /\ ret' \in Results /\ (ret' = "END" => ret = "END")
        /\ pc' \in {"parse", "idle"} /\ (pc' = "idle" => "CODEC" \in reported')
        /\ (pc' = "idle" => ret' # "END")
    <3>1. CASE pc' = "parse" /\ UNCHANGED <<ret, reported, faults>>
      BY <1>1, <3>1 DEF TypeOK
    <3>2. CASE Fault /\ Return("CODEC")
      <4>1. reported' = reported \cup {"CODEC"} /\ ret' = "CODEC" /\ pc' = "idle"
        BY <3>2 DEF Return, Failures
      <4>2. faults' \in Nat
        BY <1>1, <3>2 DEF Fault, TypeOK
      <4> QED
        BY <1>1, <4>1, <4>2 DEF TypeOK, Failures, Results
    <3> QED
      BY <1>9, <3>1, <3>2
  <2>2. /\ packet' = packet /\ next' = next /\ demux_eos' = TRUE /\ lost' = lost
        /\ next = Len(Stream)
    BY <1>1, <1>9 DEF DemuxEnds
  <2>3. TypeOK'
    BY <1>1, <1>9, <2>1, <2>2 DEF TypeOK, Locations
  <2>4. Passing'
    BY <1>1, <1>9, <2>1, <2>2, LineStays DEF line
  <2>5. EndOK' /\ LeasesOK'
    BY <1>1, <1>9, <2>1, <2>2 DEF Books, EndOK, LeasesOK, DeliveredFrames
  <2>6. NvOK'
    BY <1>1, <1>9, <2>1, <2>2 DEF NvOK
  <2> QED
    BY <1>1, <1>9, <2>3, <2>4, <2>5, <2>6 DEF Inductive, Passing, CpuKinds
<1> QED
  BY <1>7, <1>8, <1>9

\* One display callback: the frame is copied or leased, or the parse fails.
LEMMA NvDisplayStep ==
    ASSUME Inductive, NvDisplay PROVE Inductive'
<1> USE DEF AtNv, session, demux, leases, codec, memory, nvdec
<1>1. /\ TypeOK /\ Passing /\ NvOK /\ Books /\ LineOK /\ kind = "nvidia" /\ ~closed
      /\ pc = "parse" /\ inside # <<>> /\ how \in {"cpu", "gpu"} /\ displayed_any' = TRUE
      /\ packet = <<>> /\ ready = <<>> /\ out = <<>>
      /\ UNCHANGED <<session, delivered, how, calls, closed, demux, ready, out, codec,
                     leases, output_mode, cleanup_failed>>
  BY DEF Inductive, Passing, Books, LeasesOK, NvOK, NvDisplay, TypeOK
<1> DEFINE x == Head(inside)
           rest == Tail(inside)
<1>2. /\ Items(<<>>) = {} /\ AfterInside = InFile /\ Coming = Items(inside) \cup InFile
      /\ InFile' = InFile /\ \A R : Ordered(<<>>, R)
  BY <1>1, NvLine, NothingInEmpty DEF InFile
<1>3. /\ inside \in Seq(AllFrames) /\ Ordered(inside, InFile)
      /\ completed \in Seq(AllFrames) /\ completed_gpu \in Seq(AllFrames)
      /\ Ordered(completed, Items(inside) \cup InFile)
      /\ Ordered(completed_gpu, Items(inside) \cup InFile)
      /\ Items(completed) \cap Items(completed_gpu) = {}
  BY <1>1, <1>2 DEF TypeOK, LineOK
<1>4. /\ x \in AllFrames /\ rest \in Seq(AllFrames) /\ Ordered(rest, InFile)
      /\ Items(inside) = {x} \cup Items(rest)
      /\ \A f \in Items(rest) \cup InFile : x < f
  BY <1>1, <1>3, TakeHead
<1>5. x \notin held \cup releasing \cup Items(completed_gpu) \cup Items(completed)
  BY <1>2, <1>4, Apart DEF Waiting
<1> DEFINE after == Items(rest) \cup InFile
<1>6. /\ Ordered(completed, {x} \cup after) /\ Ordered(completed_gpu, {x} \cup after)
      /\ Ordered(completed, after) /\ Ordered(completed_gpu, after)
      /\ \A f \in after : x < f
  BY <1>3, <1>4, OrderedBeforeFewer
<1> HIDE DEF x, rest, after
<1>7. CASE /\ completed' = Append(completed, x) /\ inside' = rest
           /\ UNCHANGED <<pc, ret, reported, faults, completed_gpu, memory,
                          outstanding_mappings>>
  <2>1. /\ completed' \in Seq(AllFrames) /\ Ordered(completed', after)
        /\ Items(completed') = Items(completed) \cup {x}
    BY <1>3, <1>4, <1>6, <1>7, AppendFrame
  <2>2. TypeOK'
    BY <1>1, <1>4, <1>7, <2>1 DEF TypeOK, Locations
  <2>3. Passing'
    BY <1>1, <1>2, <1>3, <1>4, <1>5, <1>6, <1>7, <2>1, NvLineMoves DEF Waiting, after
  <2>4. EndOK' /\ LeasesOK'
    BY <1>1, <1>7 DEF Books, EndOK, LeasesOK, DeliveredFrames
  <2>5. NvOK'
    BY <1>1, <1>7 DEF NvOK
  <2> QED
    BY <1>1, <2>2, <2>3, <2>4, <2>5 DEF Inductive, Passing, CpuKinds
<1>8. CASE /\ completed_gpu' = Append(completed_gpu, x) /\ inside' = rest
           /\ slots' = slots \cup {x} /\ mapped' = mapped \cup {x}
           /\ outstanding_mappings' = outstanding_mappings + 1
           /\ UNCHANGED <<pc, ret, reported, faults, completed>>
  <2>1. /\ completed_gpu' \in Seq(AllFrames) /\ Ordered(completed_gpu', after)
        /\ Items(completed_gpu') = Items(completed_gpu) \cup {x}
    BY <1>3, <1>4, <1>6, <1>8, AppendFrame
  <2>2. Len(completed_gpu') = Len(completed_gpu) + 1 /\ Len(completed_gpu) \in Nat
    BY <1>3, <1>8
  <2>3. TypeOK'
    BY <1>1, <1>4, <1>8, <2>1 DEF TypeOK, Locations
  <2>4. Passing'
    BY <1>1, <1>2, <1>3, <1>4, <1>5, <1>6, <1>8, <2>1, NvLineMoves DEF Waiting, after
  <2>5. EndOK' /\ LeasesOK'
    BY <1>1, <1>8 DEF Books, EndOK, LeasesOK, DeliveredFrames
  <2>6. NvOK'
    <3>1. outstanding_mappings' = Cardinality(held) + Len(completed_gpu')
      <4>1. Cardinality(held) \in Nat
        BY <1>1, FS_CardinalityType DEF NvOK
      <4>2. outstanding_mappings = Cardinality(held) + Len(completed_gpu)
        BY <1>1 DEF NvOK
      <4> QED
        BY <1>8, <2>2, <4>1, <4>2
    <3> QED
      BY <1>1, <1>8, <2>1, <3>1 DEF NvOK
  <2> QED
    BY <1>1, <2>3, <2>4, <2>5, <2>6 DEF Inductive, Passing, CpuKinds
<1>9. CASE /\ Return("CODEC") /\ inside' \in {rest, <<>>} /\ faults' \in Nat
            /\ UNCHANGED <<completed, completed_gpu, memory, outstanding_mappings>>
  <2>1. /\ reported' = reported \cup {"CODEC"} /\ "CODEC" \in Losses
        /\ pc' = "idle" /\ ret' = "CODEC"
    BY <1>1, <1>9 DEF Return, Failures, Losses
  <2>2. /\ inside' \in Seq(AllFrames) /\ Ordered(inside', InFile)
        /\ Items(inside') \subseteq Items(rest)
    <3>1. CASE inside' = rest
      BY <1>4, <3>1
    <3>2. CASE inside' = <<>>
      <4>1. <<>> \in Seq(AllFrames)
        OBVIOUS
      <4> QED
        BY <1>2, <3>2, <4>1
    <3> QED
      BY <1>9, <3>1, <3>2
  <2>3. TypeOK'
    BY <1>1, <1>9, <2>1, <2>2 DEF TypeOK, Locations, Results, Failures
  <2>4. /\ Ordered(completed, Items(inside') \cup InFile)
        /\ Ordered(completed_gpu, Items(inside') \cup InFile)
    BY <1>6, <2>2, OrderedBeforeFewer DEF after
  <2>5. Passing'
    BY <1>1, <1>2, <1>3, <1>4, <1>9, <2>1, <2>2, <2>4, NvLineMoves DEF Losses
  <2>6. EndOK' /\ LeasesOK'
    BY <1>1, <1>9, <2>1 DEF Books, EndOK, LeasesOK, DeliveredFrames
  <2>7. NvOK'
    BY <1>1, <1>9, <2>1 DEF NvOK
  <2> QED
    BY <1>1, <2>3, <2>5, <2>6, <2>7 DEF Inductive, Passing, CpuKinds
<1> QED
  <2>1. faults \in Nat /\ (Fault => faults' \in Nat)
    BY <1>1 DEF TypeOK, Fault
  <2> QED
    BY <1>7, <1>8, <1>9, <2>1 DEF NvDisplay, ParseFails, x, rest

LEMMA NvSelectStep ==
    ASSUME Inductive, NvSelect PROVE Inductive'
<1> USE DEF NvSelect, AtNv, nvdec
<1>1. /\ TypeOK /\ NvOK /\ kind = "nvidia" /\ ~closed /\ pc = "select"
      /\ how \in {"cpu", "gpu"}
  BY DEF Inductive, LeasesOK, TypeOK
<1>2. /\ "pump" \in Locations \ {"destroy", "idle"}
      /\ {"INVALID_STATE", "WOULD_BLOCK", "CODEC"} \subseteq Results \ {"END"}
  BY <1>1 DEF Locations, Results, Failures
<1>3. faults' \in Nat /\ output_mode' \in {"unset", "cpu", "gpu"} /\ displayed_any' \in BOOLEAN
  BY <1>1 DEF TypeOK, Fault
<1>4. \/ pc' \in Locations \ {"destroy", "idle"} /\ UNCHANGED <<ret, reported>>
      \/ \E result \in Results \ {"END"} : Return(result)
  BY <1>2
<1>5. reported \subseteq reported'
  BY <1>4 DEF Return
<1>6. demux_eos /\ "CODEC" \notin reported' => inside = <<>>
  BY <1>1, <1>5 DEF NvOK
<1> QED
  BY <1>1, <1>3, <1>4, <1>6, NvLocalStep

LEMMA NvParsedStep ==
    ASSUME Inductive, NvParsed PROVE Inductive'
<1> USE DEF NvParsed, AtNv, nvdec
<1>1. /\ TypeOK /\ kind = "nvidia" /\ ~closed /\ pc = "parse"
      /\ faults' \in Nat /\ output_mode' \in {"unset", "cpu", "gpu"}
      /\ displayed_any' \in BOOLEAN /\ inside \in Seq(AllFrames)
  BY DEF Inductive, LeasesOK, TypeOK
<1>2. "pump" \in Locations \ {"destroy", "idle"}
  BY DEF Locations
<1>3. demux_eos => inside = <<>>
  <2>1. Len(inside) \in Nat /\ (Len(inside) <= 0 => inside = <<>>)
    BY <1>1
  <2> QED
    BY <2>1
<1> QED
  BY <1>1, <1>2, <1>3, NvLocalStep

\* END is said with the parser empty, unless a callback has failed.
LEMMA NvEndStep ==
    ASSUME Inductive, NvEnd PROVE Inductive'
<1> USE DEF NvEnd, AtNv, Return, session, demux, queues, leases, codec, memory, nvdec
<1>1. /\ TypeOK /\ Passing /\ Books /\ NvOK /\ EndOK /\ kind = "nvidia" /\ ~closed
      /\ pc = "pump"
  BY DEF Inductive, Passing, Books, LeasesOK
<1>2. /\ reported \subseteq reported' /\ reported' \subseteq Failures
      /\ ret' \in {"END", "CODEC"} /\ pc' = "idle" /\ ret' \in Results
  BY <1>1 DEF TypeOK, Failures, Results
<1>3. TypeOK'
  BY <1>1, <1>2 DEF TypeOK, Locations
<1>4. Passing'
  BY <1>1, <1>2, LineStays DEF line
<1>5. EndOK' /\ LeasesOK'
  <2>1. /\ packet = <<>> /\ next = Len(Stream)
        /\ reported \cap Losses = {} => inside = <<>>
    BY <1>1 DEF NvOK, EndOK, Losses, Failures
  <2> QED
    BY <1>1, <1>2, <2>1 DEF Books, EndOK, LeasesOK, DeliveredFrames, Losses
<1>6. NvOK'
  BY <1>1, <1>2 DEF NvOK
<1> QED
  BY <1>1, <1>3, <1>4, <1>5, <1>6 DEF Inductive, Passing, CpuKinds

\* The runtime's count is nonzero while anything is mapped.
LEMMA MappingCount ==
    ASSUME NEW h, IsFiniteSet(h), NEW s \in Seq(AllFrames)
    PROVE  /\ Cardinality(h) \in Nat /\ Len(s) \in Nat
           /\ Cardinality(h) + Len(s) = 0 <=> h \cup Items(s) = {}
<1>1. Cardinality(h) \in Nat /\ (Cardinality(h) = 0 <=> h = {})
  BY FS_CardinalityType, FS_EmptySet
<1>2. Len(s) \in Nat /\ DOMAIN s = 1..Len(s)
  OBVIOUS
<1>3. Len(s) = 0 <=> Items(s) = {}
  <2>1. CASE Len(s) = 0
    BY <1>2, <2>1 DEF Items
  <2>2. CASE Len(s) # 0
    <3>1. 1 \in DOMAIN s
      BY <1>2, <2>2
    <3> QED
      BY <2>2, <3>1 DEF Items
  <2> QED
    BY <2>1, <2>2
<1> QED
  BY <1>1, <1>2, <1>3

\* close drops the outputs and gives their surfaces back.
LEMMA NvCloseStep ==
    ASSUME Inductive, NvClose PROVE Inductive'
<1> USE DEF NvClose, AtNv, Discard, session, demux, leases, codec
<1>1. /\ TypeOK /\ Passing /\ Books /\ NvOK /\ EndOK /\ LeasesOK /\ LineOK
      /\ kind = "nvidia" /\ ~closed /\ pc = "close" /\ InFile' = InFile
  BY DEF Inductive, Passing, Books, LeasesOK, InFile
<1>2. /\ completed_gpu \in Seq(AllFrames) /\ Items(<<>>) = {}
      /\ <<>> \in Seq(AllFrames) /\ Len(<<>>) = 0
  <2>1. <<>> \in Seq(AllFrames) /\ Len(<<>>) = 0
    OBVIOUS
  <2> QED
    BY <1>1, <2>1, NothingInEmpty DEF TypeOK
<1>3. /\ outstanding_mappings = Cardinality(held) + Len(completed_gpu)
      /\ outstanding_mappings' = Cardinality(held)
      /\ outstanding_mappings' \in Nat
  <2>1. /\ Cardinality(held) \in Nat /\ Len(completed_gpu) \in Nat
        /\ outstanding_mappings = Cardinality(held) + Len(completed_gpu)
    BY <1>1, <1>2, MappingCount DEF NvOK
  <2> QED
    BY <2>1
<1>4. TypeOK'
  BY <1>1, <1>2, <1>3 DEF TypeOK, Locations
<1>5. /\ LineOK' /\ Coming' \subseteq Coming
      /\ Items(completed') \subseteq Items(completed)
      /\ Items(completed_gpu') \subseteq Items(completed_gpu)
  BY <1>1, LineDrops
<1>6. Passing'
  BY <1>1, <1>5, LineMoves
<1>7. EndOK' /\ LeasesOK'
  BY <1>1 DEF EndOK, LeasesOK, DeliveredFrames
<1>8. NvOK'
  <2>1. (held \cup releasing) \cap Items(completed_gpu) = {}
    BY Apart DEF Waiting
  <2>2. mapped' = held /\ slots' = held \cup releasing
    BY <1>1, <2>1 DEF NvOK
  <2>3. outstanding_mappings' = Cardinality(held') + Len(completed_gpu')
    <3>1. Cardinality(held) \in Nat
      BY <1>1, <1>2, MappingCount DEF NvOK
    <3> QED
      BY <1>2, <1>3, <3>1
  <2> QED
    BY <1>1, <1>2, <2>2, <2>3 DEF NvOK
<1> QED
  BY <1>1, <1>4, <1>6, <1>7, <1>8 DEF Inductive, Passing, CpuKinds

\* The context goes now, or stays for the frames that are still leased.
LEMMA NvDestroyStep ==
    ASSUME Inductive, NvDestroy PROVE Inductive'
<1> USE DEF AtNv, session, demux, queues, leases, memory
<1>1. /\ TypeOK /\ Passing /\ Books /\ NvOK /\ EndOK /\ LeasesOK
      /\ kind = "nvidia" /\ ~closed /\ pc = "destroy"
      /\ inside = <<>> /\ completed = <<>> /\ completed_gpu = <<>> /\ alive
      /\ packet = <<>> /\ ready = <<>> /\ out = <<>>
  BY DEF Inductive, Passing, Books, LeasesOK, NvOK, NvDestroy
<1>2. /\ closed' = TRUE /\ UNCHANGED outstanding_mappings
      /\ UNCHANGED <<session, delivered, how, calls, demux, queues, drained, memory,
                     leases, output_mode, displayed_any>>
  BY DEF NvDestroy
<1>3. /\ outstanding_mappings \in Nat /\ (outstanding_mappings = 0 <=> mapped = {})
  <2>1. /\ completed_gpu \in Seq(AllFrames) /\ IsFiniteSet(held)
        /\ outstanding_mappings = Cardinality(held) + Len(completed_gpu)
        /\ mapped = held \cup Items(completed_gpu)
        /\ outstanding_mappings \in Nat
    BY <1>1 DEF TypeOK, NvOK
  <2>2. Cardinality(held) + Len(completed_gpu) = 0 <=> held \cup Items(completed_gpu) = {}
    BY <2>1, MappingCount
  <2> QED
    BY <2>1, <2>2
<1>4. ContextDue <=> mapped = {}
  BY <1>1, <1>2, <1>3 DEF ContextDue
<1>5. /\ pc' = "idle" /\ ret' \in {"OK", "CODEC"} /\ reported \subseteq reported'
      /\ reported' \subseteq Failures /\ faults' \in Nat
      /\ cleanup_failed' \in BOOLEAN /\ alive' \in BOOLEAN
      /\ mapped # {} => alive'
      /\ mapped = {} /\ ~cleanup_failed' => ~alive'
  <2>1. CASE DestroyIfReady(FALSE) /\ Return("OK") /\ UNCHANGED <<faults, cleanup_failed>>
    BY <1>1, <1>4, <2>1 DEF DestroyIfReady, Return, Failures, TypeOK
  <2>2. CASE \E context \in BOOLEAN :
                /\ context => ContextDue
                /\ Fault /\ DestroyIfReady(context) /\ Return("CODEC")
                /\ cleanup_failed' = TRUE
    <3>1. pc' = "idle" /\ ret' = "CODEC" /\ reported' = reported \cup {"CODEC"}
      BY <2>2 DEF Return, Failures
    <3>2. faults' \in Nat
      BY <1>1, <2>2 DEF Fault, TypeOK
    <3>3. alive' \in BOOLEAN /\ (mapped # {} => alive')
      BY <1>1, <1>4, <2>2 DEF DestroyIfReady
    <3> QED
      BY <1>1, <2>2, <3>1, <3>2, <3>3 DEF TypeOK, Failures
  <2> QED
    BY <2>1, <2>2 DEF NvDestroy
<1>6. TypeOK'
  BY <1>1, <1>2, <1>5 DEF TypeOK, Locations, Results, Failures
<1>7. Passing'
  BY <1>1, <1>2, <1>5, LineStays DEF line
<1>8. EndOK' /\ LeasesOK'
  BY <1>1, <1>2, <1>5 DEF EndOK, LeasesOK, DeliveredFrames
<1>9. NvOK'
  BY <1>1, <1>2, <1>5 DEF NvOK
<1> QED
  BY <1>1, <1>2, <1>6, <1>7, <1>8, <1>9 DEF Inductive, Passing, CpuKinds

LEMMA NvReleasesStep ==
    ASSUME Inductive, NvReleases PROVE Inductive'
<1> USE DEF session, caller, demux, queues
<1>1. /\ TypeOK /\ Passing /\ Books /\ NvOK /\ EndOK /\ LeasesOK /\ kind = "nvidia"
      /\ UNCHANGED <<session, caller, demux, queues, drained, output_mode,
                     displayed_any>>
  BY DEF Inductive, Passing, Books, NvReleases
<1>2. PICK f \in AllFrames :
        \/ /\ ReleaseBegins(f) /\ UNCHANGED <<slots, closed>>
           /\ outstanding_mappings' =
                IF outstanding_mappings = 0 THEN 0 ELSE outstanding_mappings - 1
           /\ \/ DestroyIfReady(FALSE) /\ UNCHANGED <<faults, cleanup_failed>>
              \/ Fault /\ DestroyIfReady(TRUE) /\ cleanup_failed' = TRUE
        \/ /\ ReleaseEnds(f)
           /\ UNCHANGED <<held, mapped, closed, alive, faults, cleanup_failed,
                          outstanding_mappings>>
  BY DEF NvReleases
<1>3. closed' = closed
  BY <1>2
<1>4. Passing'
  BY <1>1, <1>3, LineStays DEF line
<1>5. (held \cup releasing) \cap Items(completed_gpu) = {} /\ completed_gpu \in Seq(AllFrames)
  BY <1>1, Apart DEF Waiting, TypeOK
<1>6. CASE /\ ReleaseBegins(f) /\ UNCHANGED <<slots, closed>>
           /\ outstanding_mappings' =
                IF outstanding_mappings = 0 THEN 0 ELSE outstanding_mappings - 1
           /\ \/ DestroyIfReady(FALSE) /\ UNCHANGED <<faults, cleanup_failed>>
              \/ Fault /\ DestroyIfReady(TRUE) /\ cleanup_failed' = TRUE
  <2>1. /\ f \in held /\ held' = held \ {f} /\ releasing' = releasing \cup {f}
        /\ mapped' = mapped \ {f} /\ slots' = slots
    BY <1>6 DEF ReleaseBegins
  <2>2. IsFiniteSet(held') /\ Cardinality(held') = Cardinality(held) - 1
    BY <1>1, <2>1, FS_RemoveElement DEF NvOK
  <2>3. /\ mapped' = held' \cup Items(completed_gpu)
        /\ slots' = mapped' \cup releasing'
        /\ mapped # {}
    BY <1>1, <1>5, <2>1 DEF NvOK
  <2>4. /\ outstanding_mappings' = Cardinality(held') + Len(completed_gpu)
        /\ outstanding_mappings' \in Nat
        /\ outstanding_mappings' = 0 <=> mapped' = {}
    <3>1. /\ Cardinality(held) \in Nat /\ Cardinality(held') \in Nat
          /\ Len(completed_gpu) \in Nat
          /\ Cardinality(held') + Len(completed_gpu) = 0 <=> mapped' = {}
      BY <1>1, <1>5, <2>2, <2>3, MappingCount DEF NvOK
    <3>2. outstanding_mappings = Cardinality(held) + Len(completed_gpu)
      BY <1>1 DEF NvOK
    <3>3. outstanding_mappings' =
            IF outstanding_mappings = 0 THEN 0 ELSE outstanding_mappings - 1
      BY <1>6
    <3>4. outstanding_mappings' = Cardinality(held') + Len(completed_gpu)
      BY <2>2, <3>1, <3>2, <3>3
    <3> QED
      BY <3>1, <3>4
  <2>5. alive
    BY <1>1, <2>3 DEF NvOK
  <2>6. ContextDue <=> closed /\ mapped' = {}
    BY <1>3, <2>4, <2>5 DEF ContextDue
  <2>7. /\ faults' \in Nat /\ cleanup_failed' \in BOOLEAN /\ alive' \in BOOLEAN
        /\ ~closed' \/ mapped' # {} => alive'
        /\ closed' /\ mapped' = {} /\ ~cleanup_failed' => ~alive'
    <3>1. CASE DestroyIfReady(FALSE) /\ UNCHANGED <<faults, cleanup_failed>>
      BY <1>1, <1>3, <2>5, <2>6, <3>1 DEF DestroyIfReady, TypeOK
    <3>2. CASE Fault /\ DestroyIfReady(TRUE) /\ cleanup_failed' = TRUE
      <4>1. faults' \in Nat
        BY <1>1, <3>2 DEF Fault, TypeOK
      <4>2. alive' = TRUE
        BY <2>5, <3>2 DEF DestroyIfReady
      <4> QED
        BY <3>2, <4>1, <4>2
    <3> QED
      BY <1>6, <3>1, <3>2
  <2>8. TypeOK'
    BY <1>1, <1>3, <2>1, <2>4, <2>7 DEF TypeOK, Locations
  <2>9. EndOK' /\ LeasesOK'
    BY <1>1, <1>3, <2>1 DEF EndOK, LeasesOK, DeliveredFrames, Losses
  <2>10. NvOK'
    BY <1>1, <1>3, <2>1, <2>2, <2>3, <2>4, <2>7 DEF NvOK
  <2> QED
    BY <1>1, <1>4, <2>8, <2>9, <2>10 DEF Inductive, Passing, CpuKinds
<1>7. CASE /\ ReleaseEnds(f)
           /\ UNCHANGED <<held, mapped, closed, alive, faults, cleanup_failed,
                          outstanding_mappings>>
  <2>1. f \in releasing /\ releasing' = releasing \ {f} /\ slots' = slots \ {f}
    BY <1>7 DEF ReleaseEnds
  <2>2. TypeOK'
    BY <1>1, <1>7, <2>1 DEF TypeOK, Locations
  <2>3. EndOK' /\ LeasesOK'
    BY <1>1, <1>7, <2>1 DEF EndOK, LeasesOK, DeliveredFrames, Losses
  <2>4. NvOK'
    BY <1>1, <1>5, <1>7, <2>1 DEF NvOK, LeasesOK
  <2> QED
    BY <1>1, <1>4, <2>2, <2>3, <2>4 DEF Inductive, Passing, CpuKinds
<1> QED
  BY <1>2, <1>6, <1>7

-----------------------------------------------------------------------------
(* The theorems                                                            *)

LEMMA InductiveStep ==
    ASSUME Inductive, [Next]_vars PROVE Inductive'
<1>1. CASE UNCHANGED vars
  <2> USE DEF vars, shared, session, caller, demux, queues, codec, memory, leases, nvdec
  <2>1. TypeOK /\ Passing /\ Books
    BY DEF Inductive, Passing, Books
  <2>2. TypeOK'
    BY <1>1, <2>1 DEF TypeOK, Locations
  <2>3. Passing'
    BY <1>1, <2>1, LineStays DEF line
  <2>4. Books'
    BY <1>1, <2>1 DEF Books, EndOK, LeasesOK, CpuOK, IntelOK, NvOK, Collected,
                      DeliveredFrames, Losses
  <2> QED
    BY <2>2, <2>3, <2>4 DEF Inductive, Passing, Books
<1>2. CASE NvNext
  BY <1>2, NvSelectStep, NvDeliverStep, NvPacketStep, NvDisplayStep, NvParsedStep,
     NvEndStep, NvCloseStep, NvDestroyStep, NvReleasesStep DEF NvNext
<1> QED
  BY <1>1, <1>2, HandleStep, CpuStep, IntelStep DEF Next, Quiescent

LEMMA InductiveHolds == Spec => []Inductive
  BY InductiveInit, InductiveStep, PTL DEF Spec

\* Every variable keeps its type and the steps of each backend stay its own.
THEOREM TypeCorrect == Spec => []TypeOK
<1>1. Inductive => TypeOK
  BY DEF Inductive
<1> QED
  BY <1>1, InductiveHolds, PTL

\* A leased frame keeps its surface and its codec: a surface is given back
\* only by the release of its own lease, and neither close nor the release of
\* another frame destroys the codec while one is mapped.
THEOREM Usable == Spec => []HeldUsable
<1>1. Inductive => HeldUsable
  <2> SUFFICES ASSUME Inductive PROVE HeldUsable
    OBVIOUS
  <2>1. TypeOK /\ LeasesOK
    BY DEF Inductive
  <2>2. CASE kind \in CpuKinds
    BY <2>2 DEF Inductive, CpuOK, HeldUsable
  <2>3. CASE kind = "intel"
    BY <2>1, <2>3, NothingInEmpty
    DEF Inductive, IntelOK, HeldUsable, Collected, LeasesOK
  <2>4. CASE kind = "nvidia"
    BY <2>4 DEF Inductive, NvOK, HeldUsable
  <2> QED
    BY <2>1, <2>2, <2>3, <2>4, KindCases
<1> QED
  BY <1>1, InductiveHolds, PTL

\* Whoever comes last, close or the release of the last frame, destroys the
\* codec's session or context, and nothing stays mapped or in the pool.
THEOREM Gone == Spec => []RuntimeGone
<1>1. Inductive => RuntimeGone
  <2> SUFFICES ASSUME Inductive, closed, held = {}, releasing = {}, ~cleanup_failed
               PROVE  ~alive /\ mapped = {} /\ slots = {}
    BY DEF RuntimeGone
  <2>1. /\ TypeOK /\ LeasesOK /\ Items(<<>>) = {}
        /\ ready = <<>> /\ out = <<>> /\ completed_gpu = <<>>
    BY NothingInEmpty DEF Inductive, LeasesOK
  <2>2. CASE kind \in CpuKinds
    BY <2>2 DEF Inductive, CpuOK
  <2>3. CASE kind = "intel"
    BY <2>1, <2>3 DEF Inductive, IntelOK, Collected
  <2>4. CASE kind = "nvidia"
    BY <2>1, <2>4 DEF Inductive, NvOK
  <2> QED
    BY <2>1, <2>2, <2>3, <2>4, KindCases
<1> QED
  BY <1>1, InductiveHolds, PTL

\* Each way of reading gives the frames in display order and none twice, and
\* END is said only when no frame is left in the file or the codec, unless a
\* read reported a failure before.
THEOREM Ends == Spec => []EndIsComplete
<1>1. Inductive => EndIsComplete
  <2> SUFFICES ASSUME Inductive PROVE EndIsComplete
    OBVIOUS
  <2>1. DeliveredInOrder
    BY DEF Inductive
  <2> SUFFICES ASSUME ret = "END", ~closed, reported \cap Losses = {}
               PROVE  AllFrames \ lost \subseteq DeliveredFrames \cup Queued
    BY <2>1 DEF EndIsComplete, Complete
  <2>2. NoneMissing /\ EndOK
    BY DEF Inductive
  <2>3. pc = "idle" /\ packet = <<>> /\ inside = <<>> /\ next = Len(Stream)
    BY <2>2 DEF EndOK
  <2>4. Items(packet) = {} /\ Items(inside) = {} /\ InFile = {}
    BY <2>3, NothingInEmpty, FileEnds DEF InFile
  <2>5. Coming = Items(out) \cup Items(ready)
    BY <2>4 DEF Coming, AfterOut, AfterReady, AfterInside
  <2> QED
    BY <2>2, <2>3, <2>5 DEF NoneMissing, Queued
<1> QED
  BY <1>1, InductiveHolds, PTL


-----------------------------------------------------------------------------
(* WOULD_BLOCK.  For streams whose bursts fit the pool: FlowOK bounds what  *)
(* one call collects by the pool's capacity, so that a full pool holds a    *)
(* frame the caller has.                                                    *)

LEMMA Lengths ==
    ASSUME TypeOK
    PROVE  /\ Len(inside) \in Nat /\ Len(ready) \in Nat /\ Len(out) \in Nat
           /\ Len(packet) \in Nat /\ Len(completed_gpu) \in Nat /\ Len(<<>>) = 0
<1>1. ASSUME NEW s \in Seq(AllFrames) PROVE Len(s) \in Nat
  OBVIOUS
<1>2. Len(<<>>) = 0
  OBVIOUS
<1> QED
  BY <1>1, <1>2 DEF TypeOK

LEMMA BurstBounds ==
    ASSUME BurstsFit
    PROVE  /\ MaxDelay \in Nat /\ AsyncDepth \in Nat \ {0} /\ PoolSize \in Nat \ {0}
           /\ AsyncDepth - 1 + MaxDelay <= PoolCapacity /\ MaxDelay <= PoolSize
           /\ \A p \in DOMAIN Stream :
                /\ AsyncDepth - 1 + (MaxDelay + Len(Stream[p])) <= PoolCapacity
                /\ MaxDelay + Len(Stream[p]) <= PoolSize
  BY DelayAssumption, DepthAssumption, PoolAssumption DEF BurstsFit, Bursts

LEMMA FlowInit == Init => FlowOK
<1> SUFFICES ASSUME Init PROVE FlowOK
  OBVIOUS
<1>1. Len(<<>>) = 0
  OBVIOUS
<1>2. IntelFlow /\ NvFlow /\ pc = "idle"
  BY <1>1, DelayAssumption, DepthAssumption, PoolAssumption
  DEF Init, InitShared, InitNv, IntelFlow, NvFlow
<1> QED
  BY <1>2 DEF FlowOK

\* A submit takes one frame of the packet at most and adds none.
LEMMA FlowMoves ==
    ASSUME Inductive, IntelFlow, pc = "submit", UNCHANGED <<how, out, completed_gpu>>,
           Len(inside') \in Nat, Len(ready') \in Nat, Len(packet') \in Nat,
           Len(inside') <= MaxDelay, pc' = AfterSubmit(ready'),
           Len(ready') <= Len(ready) + 1,
           Len(ready') + Len(inside') + Len(packet')
                <= Len(ready) + Len(inside) + Len(packet)
    PROVE  IntelFlow'
<1>1. /\ Len(ready) \in Nat /\ Len(inside) \in Nat /\ Len(packet) \in Nat /\ Len(out) \in Nat
      /\ PoolCapacity \in Nat /\ AsyncDepth \in Nat \ {0}
  BY Lengths, DepthAssumption DEF Inductive, PoolCapacity
<1>2. Len(ready) < AsyncDepth
  BY <1>1 DEF IntelFlow
<1>3. Len(ready') < AsyncDepth + (IF pc' = "collect" THEN 1 ELSE 0)
  BY <1>1, <1>2 DEF AfterSubmit
<1>4. how' = "gpu" => completed_gpu' = <<>>
  BY DEF IntelFlow
<1>5. ASSUME how' = "gpu"
      PROVE  Len(out') + Len(ready') + Len(inside') + Len(packet') <= PoolCapacity
  <2>1. Len(out) + Len(ready) + Len(inside) + Len(packet) <= PoolCapacity
    BY <1>5 DEF IntelFlow
  <2> QED
    BY <1>1, <2>1
<1> QED
  BY <1>3, <1>4, <1>5 DEF IntelFlow, PoolCapacity

LEMMA FrameCounts ==
    ASSUME Inductive, CanSubmit
    PROVE  /\ Len(inside) \in Nat /\ Len(ready) \in Nat /\ Len(packet) \in Nat
           /\ Len(Frames) \in Nat \ {0} /\ Len(Rest) \in Nat
           /\ Len(Frames) + Len(Rest) = Len(inside) + Len(packet)
           /\ Len(Frames) <= Len(inside) + 1
           /\ Frames \in Seq(AllFrames) /\ Frames # <<>>
<1> DEFINE front == SubSeq(packet, 1, IF packet = <<>> THEN 0 ELSE 1)
<1>1. /\ inside \in Seq(AllFrames) /\ packet \in Seq(AllFrames) /\ ready \in Seq(AllFrames)
      /\ Frames \in Seq(AllFrames) /\ Frames # <<>> /\ Frames = inside \o front
  BY Pieces DEF Inductive, TypeOK, Frames
<1>2. /\ front \in Seq(AllFrames) /\ Len(front) \in {0, 1}
      /\ Len(front) + Len(Rest) = Len(packet) /\ Len(Rest) \in Nat
  <2>1. CASE packet = <<>>
    <3>1. front = <<>> /\ Rest = <<>>
      BY <2>1 DEF Rest
    <3> HIDE DEF front
    <3> QED
      BY <2>1, <3>1
  <2>2. CASE packet # <<>>
    <3>1. /\ front \in Seq(AllFrames) /\ Len(front) = 1
          /\ Rest = Tail(packet) /\ Len(Tail(packet)) = Len(packet) - 1 /\ Len(packet) > 0
      BY <1>1, <2>2 DEF Rest
    <3> HIDE DEF front
    <3> QED
      BY <1>1, <3>1
  <2> QED
    BY <2>1, <2>2
<1> HIDE DEF front
<1>3. Len(Frames) = Len(inside) + Len(front) /\ Len(Frames) > 0
  BY <1>1, <1>2
<1> QED
  <2>1. Len(inside) \in Nat /\ Len(ready) \in Nat /\ Len(packet) \in Nat
    BY <1>1
  <2>2. Len(Frames) \in Nat \ {0} /\ Len(Frames) <= Len(inside) + 1
    <3>1. CASE Len(front) = 0
      BY <1>3, <2>1, <3>1
    <3>2. CASE Len(front) = 1
      BY <1>3, <2>1, <3>2
    <3> QED
      BY <1>2, <3>1, <3>2
  <2>3. Len(Frames) + Len(Rest) = Len(inside) + Len(packet)
    BY <1>2, <1>3, <2>1
  <2> QED
    BY <1>1, <1>2, <2>1, <2>2, <2>3

\* One of the frames f is given out.
LEMMA FlowGives ==
    ASSUME Inductive, IntelFlow, pc = "submit", UNCHANGED <<how, out, completed_gpu>>,
           NEW f \in Seq(AllFrames), f # <<>>, GivesOut(f),
           Len(f) <= MaxDelay + 1, Len(packet') \in Nat,
           Len(f) + Len(packet') <= Len(inside) + Len(packet)
    PROVE  IntelFlow'
<1>1. /\ ready \in Seq(AllFrames) /\ Len(ready) \in Nat /\ Len(inside) \in Nat
      /\ Len(packet) \in Nat
  BY Lengths DEF Inductive, TypeOK
<1>2. /\ Len(Tail(f)) = Len(f) - 1 /\ Len(f) \in Nat /\ Len(f) > 0
      /\ Len(Append(ready, Head(f))) = Len(ready) + 1
  BY <1>1
<1>3. /\ Len(inside') = Len(f) - 1 /\ Len(ready') = Len(ready) + 1
      /\ pc' = AfterSubmit(ready')
  BY <1>2 DEF GivesOut
<1> QED
  BY <1>1, <1>2, <1>3, FlowMoves, DelayAssumption

\* None is, and the codec keeps what it had or some of the packet.
LEMMA FlowKeeps ==
    ASSUME Inductive, IntelFlow, pc = "submit", UNCHANGED <<how, out, completed_gpu, ready>>,
           pc' \in {pc, AfterSubmit(ready)}, Len(inside') \in Nat, Len(packet') \in Nat,
           Len(inside') <= MaxDelay,
           Len(inside') + Len(packet') <= Len(inside) + Len(packet)
    PROVE  IntelFlow'
<1>1. Len(ready) \in Nat /\ Len(inside) \in Nat /\ Len(packet) \in Nat
  BY Lengths DEF Inductive
<1>2. Len(ready) < AsyncDepth
  BY <1>1, DepthAssumption DEF IntelFlow
<1>3. pc' = AfterSubmit(ready')
  BY <1>1, <1>2, DepthAssumption DEF AfterSubmit
<1> QED
  BY <1>1, <1>3, FlowMoves

LEMMA FlowSubmit ==
    ASSUME Inductive, IntelFlow, Submit \/ SubmitWarns PROVE IntelFlow'
<1>1. /\ CanSubmit /\ pc = "submit" /\ UNCHANGED <<how, out, completed_gpu>>
      /\ Len(inside) <= MaxDelay
  BY DEF Submit, SubmitWarns, CanSubmit, AtIntel, IntelFlow
<1>2. /\ Len(inside) \in Nat /\ Len(packet) \in Nat /\ Len(<<>>) = 0
      /\ Len(Frames) \in Nat \ {0} /\ Len(Rest) \in Nat
      /\ Len(Frames) + Len(Rest) = Len(inside) + Len(packet)
      /\ Len(Frames) <= Len(inside) + 1
      /\ Frames \in Seq(AllFrames) /\ Frames # <<>> /\ inside \in Seq(AllFrames)
  BY <1>1, FrameCounts DEF Inductive, TypeOK
<1>3. Len(Frames) <= MaxDelay + 1
  BY <1>1, <1>2, DelayAssumption
<1>4. CASE packet' = Rest /\ GivesOut(Frames)
  BY <1>1, <1>2, <1>3, <1>4, FlowGives
<1>5. CASE /\ packet' = Rest /\ Len(Frames) <= MaxDelay /\ inside' = Frames
           /\ pc' \in {pc, AfterSubmit(ready)} /\ UNCHANGED ready
  BY <1>1, <1>2, <1>5, FlowKeeps
<1>6. CASE packet' = <<>> /\ inside # <<>> /\ GivesOut(inside)
  <2>1. Len(inside) <= MaxDelay + 1 /\ Len(inside) + Len(packet') <= Len(inside) + Len(packet)
    BY <1>1, <1>2, <1>6, DelayAssumption
  <2> QED
    BY <1>1, <1>2, <1>6, <2>1, FlowGives
<1>7. CASE /\ packet' = <<>> /\ pc' \in {pc, AfterSubmit(ready)}
           /\ UNCHANGED <<inside, ready>>
  BY <1>1, <1>2, <1>7, FlowKeeps
<1>8. CASE Unsynced
  <2>1. Len(Tail(Frames)) = Len(Frames) - 1
    BY <1>2
  <2>2. /\ inside' = Tail(Frames) /\ packet' = Rest /\ UNCHANGED ready
        /\ pc' = AfterSubmit(ready)
    BY <1>8 DEF Unsynced
  <2>3. /\ Len(inside') \in Nat /\ Len(inside') <= MaxDelay
        /\ Len(inside') + Len(packet') <= Len(inside) + Len(packet)
    BY <1>2, <1>3, <2>1, <2>2, DelayAssumption
  <2> QED
    BY <1>1, <1>2, <2>2, <2>3, FlowKeeps
<1> QED
  BY <1>4, <1>5, <1>6, <1>7, <1>8 DEF Submit, SubmitWarns, Stalls

LEMMA FlowCollect ==
    ASSUME Inductive, IntelFlow, Collect, "WOULD_BLOCK" \notin reported' PROVE IntelFlow'
<1> USE DEF Collect, AtIntel
<1>1. /\ TypeOK /\ pc = "collect" /\ ready # <<>>
      /\ UNCHANGED <<how, inside, completed_gpu>>
  BY DEF Inductive, IntelOK
<1>2. /\ out \in Seq(AllFrames) /\ ready \in Seq(AllFrames)
      /\ Len(inside) \in Nat /\ Len(ready) \in Nat /\ Len(out) \in Nat /\ Len(packet) \in Nat
  BY <1>1, Lengths DEF TypeOK
<1>3. Len(Tail(ready)) = Len(ready) - 1 /\ Len(Append(out, Head(ready))) = Len(out) + 1
  BY <1>1, <1>2
<1>4. Len(Tail(ready)) < AsyncDepth
  BY <1>1, <1>2, <1>3, DepthAssumption DEF IntelFlow
<1>5. CASE AbandonCall("WOULD_BLOCK")
  BY <1>5 DEF AbandonCall, Return, Failures
<1>6. CASE /\ ready' = Tail(ready) /\ out' = Append(out, Head(ready))
           /\ Goto("submit") /\ UNCHANGED <<packet, faults>>
  <2>1. Len(out') + Len(ready') + Len(inside') + Len(packet')
            = Len(out) + Len(ready) + Len(inside) + Len(packet)
    <3>1. /\ Len(out') = Len(out) + 1 /\ Len(ready') = Len(ready) - 1
          /\ Len(inside') = Len(inside) /\ Len(packet') = Len(packet)
      BY <1>1, <1>3, <1>6
    <3> HIDE DEF Collect
    <3> QED
      BY <1>2, <3>1
  <2>2. pc' = "submit" /\ Len(ready') < AsyncDepth
    BY <1>4, <1>6 DEF Goto
  <2> QED
    BY <1>1, <1>2, <2>1, <2>2, DepthAssumption DEF IntelFlow
<1>7. CASE /\ ready' = Tail(ready)
           /\ \E result \in {"IO", "CODEC", "NOT_SUPPORTED"} : Return(result)
  <2>1. pc' = "idle" /\ Len(ready') < AsyncDepth
    BY <1>4, <1>7 DEF Return
  <2> QED
    BY <1>1, <1>2, <1>3, <2>1, DepthAssumption DEF IntelFlow
<1> QED
  BY <1>5, <1>6, <1>7

\* Outside of the loop over a packet or a drain nothing is collected.
LEMMA FlowOutside ==
    ASSUME TypeOK, IntelFlow, pc # "collect", pc' \notin {"submit", "collect"},
           inside' \in {inside, <<>>}, ready' \in {ready, <<>>}
    PROVE  IntelFlow'
<1>1. /\ Len(inside) \in Nat /\ Len(ready) \in Nat /\ Len(<<>>) = 0
  BY Lengths
<1> QED
  BY <1>1, DelayAssumption, DepthAssumption DEF IntelFlow

LEMMA IntelFlowStep ==
    ASSUME Inductive, IntelFlow, BurstsFit, IntelNext, "WOULD_BLOCK" \notin reported'
    PROVE  IntelFlow'
<1> USE DEF AtIntel, Goto, demux, queues, caller
<1>1. TypeOK /\ IntelOK /\ kind = "intel"
  BY DEF Inductive, IntelNext, IntelSelect, IntelDeliver, IntelPacket, Submit,
         SubmitWarns, CanSubmit, SubmitBlocked, SubmitFails, Collect, PacketDone,
         IntelDrain, DrainCollects, DrainEnds, IntelEnd, IntelClose, IntelReleases
<1>2. /\ Len(inside) \in Nat /\ Len(ready) \in Nat /\ Len(out) \in Nat
      /\ Len(packet) \in Nat /\ Len(<<>>) = 0
  BY <1>1, Lengths
<1>3. CASE IntelSelect \/ IntelDeliver \/ PacketDone \/ DrainEnds \/ IntelEnd
           \/ IntelClose \/ SubmitFails
  BY <1>1, <1>3, FlowOutside
  DEF IntelSelect, IntelDeliver, Deliver, PacketDone, DrainEnds, IntelEnd, IntelClose,
      SubmitFails, AbandonCall, Return
<1>4. CASE IntelPacket
  <2>1. pc = "pump" /\ Len(inside) <= MaxDelay /\ Len(ready) < AsyncDepth /\ out = <<>>
    BY <1>1, <1>2, <1>4, DepthAssumption DEF IntelPacket, IntelFlow, IntelOK
  <2>2. CASE DemuxFails
    BY <1>1, <2>1, <2>2, FlowOutside DEF DemuxFails, Return
  <2>3. CASE DemuxEnds /\ UNCHANGED <<caller, queues>>
    BY <1>1, <2>1, <2>3, FlowOutside
  <2>4. CASE DemuxPacket /\ Goto("submit") /\ UNCHANGED <<how, queues>>
    <3>1. next + 1 \in DOMAIN Stream /\ packet' = Stream[next + 1]
      <4>1. next \in Nat /\ Len(Stream) \in Nat /\ next < Len(Stream)
        BY <1>1, <2>4, StreamAssumption DEF TypeOK, DemuxPacket
      <4> QED
        BY <2>4, <4>1, StreamAssumption DEF DemuxPacket
    <3>2. AsyncDepth - 1 + (MaxDelay + Len(packet')) <= PoolCapacity /\ Len(packet') \in Nat
      <4>1. Stream[next + 1] \in Seq(Nat \ {0})
        BY <3>1, StreamAssumption
      <4> QED
        BY <3>1, <4>1, BurstBounds
    <3>3. how = "gpu" => completed_gpu = <<>>
      BY <1>4 DEF IntelPacket, Queue
    <3>4. Len(out) + Len(ready) + Len(inside) + Len(packet') <= PoolCapacity
      BY <1>2, <2>1, <3>2, BurstBounds DEF PoolCapacity
    <3> QED
      BY <2>1, <2>4, <3>3, <3>4, BurstBounds DEF IntelFlow
  <2> QED
    BY <1>4, <2>2, <2>3, <2>4 DEF IntelPacket
<1>5. CASE IntelDrain
  <2>1. /\ pc = "pump" /\ Len(inside) <= MaxDelay /\ Len(ready) < AsyncDepth
        /\ out = <<>> /\ packet = <<>> /\ pc' = "submit"
        /\ (how = "gpu" => completed_gpu = <<>>)
    BY <1>1, <1>2, <1>5, DepthAssumption DEF IntelDrain, IntelFlow, IntelOK, Queue
  <2>2. Len(out) + Len(ready) + Len(inside) + Len(packet) <= PoolCapacity
    BY <1>2, <2>1, BurstBounds DEF PoolCapacity
  <2>3. UNCHANGED <<how, demux, queues>>
    BY <1>5 DEF IntelDrain
  <2> QED
    BY <2>1, <2>2, <2>3 DEF IntelFlow
<1>6. CASE DrainCollects
  <2>1. UNCHANGED <<how, demux, queues>> /\ pc = "submit" /\ pc' = "collect"
    BY <1>6 DEF DrainCollects
  <2> QED
    BY <1>2, <2>1, DepthAssumption DEF IntelFlow
<1>7. CASE SubmitBlocked
  <2>1. CASE /\ Goto("collect") /\ UNCHANGED <<packet, out, slots, mapped>>
             /\ UNCHANGED <<how, inside, ready, completed_gpu>> /\ pc = "submit"
    BY <1>2, <2>1, DepthAssumption DEF IntelFlow
  <2>2. CASE AbandonCall("WOULD_BLOCK")
    BY <2>2 DEF AbandonCall, Return, Failures
  <2> QED
    BY <1>7, <2>1, <2>2 DEF SubmitBlocked
<1>8. CASE IntelReleases
  <2>1. UNCHANGED <<caller, demux, queues>>
    BY <1>8 DEF IntelReleases
  <2> QED
    BY <2>1 DEF IntelFlow
<1> QED
  BY <1>3, <1>4, <1>5, <1>6, <1>7, <1>8, FlowSubmit, FlowCollect DEF IntelNext


\* Outside of pump and parse the NVIDIA decoder keeps less than a burst.
LEMMA NvFlowOutside ==
    ASSUME TypeOK, NvFlow, pc # "parse", pc' \notin {"pump", "parse"},
           pc = "pump" => completed_gpu = <<>>,
           inside' \in {inside, <<>>}, completed_gpu' \in {completed_gpu, <<>>},
           output_mode' = output_mode
           \/ (output_mode = "unset" /\ output_mode' \in {"cpu", "gpu"})
    PROVE  NvFlow'
<1>1. Len(inside) \in Nat /\ Len(completed_gpu) \in Nat /\ Len(<<>>) = 0
  BY Lengths
<1>2. Len(inside') <= MaxDelay
  BY <1>1, DelayAssumption DEF NvFlow
<1>3. output_mode' # "gpu" => completed_gpu' = <<>>
  BY DEF NvFlow
<1>4. Len(completed_gpu') < PoolSize
  <2>1. Len(completed_gpu) < PoolSize
    BY <1>1, PoolAssumption DEF NvFlow
  <2> QED
    BY <1>1, <2>1, PoolAssumption
<1>5. Len(completed_gpu') \in Nat
  BY <1>1
<1> QED
  BY <1>2, <1>3, <1>4, <1>5, PoolAssumption DEF NvFlow

LEMMA NvFlowStep ==
    ASSUME Inductive, NvFlow, BurstsFit, NvNext, "CODEC" \notin reported'
    PROVE  NvFlow'
<1> USE DEF AtNv, nvdec
<1>1. TypeOK /\ NvOK /\ kind = "nvidia" /\ how \in {"cpu", "gpu"}
  <2>1. kind = "nvidia"
    BY DEF NvNext, NvSelect, NvDeliver, NvPacket, NvDisplay, NvParsed, NvEnd, NvClose,
           NvDestroy, NvReleases
  <2> QED
    BY <2>1 DEF Inductive, TypeOK
<1>2. Len(inside) \in Nat /\ Len(completed_gpu) \in Nat /\ Len(<<>>) = 0
  BY <1>1, Lengths
<1>3. ~Return("CODEC")
  BY DEF Return, Failures
<1>4. Outputs = <<>> /\ pc = "pump" => completed_gpu = <<>>
  BY <1>1 DEF Outputs, NvFlow
<1>5. CASE NvSelect
  <2> USE DEF queues
  <2>1. CASE pc' = "pump" /\ output_mode' = how /\ output_mode \in {"unset", how}
    <3>1. /\ UNCHANGED <<how, inside, completed_gpu>> /\ pc = "select"
      BY <1>5 DEF NvSelect
    <3>2. how # "gpu" => completed_gpu = <<>>
      BY <1>1, <2>1 DEF NvFlow
    <3> QED
      BY <1>2, <2>1, <3>1, <3>2, PoolAssumption DEF NvFlow
  <2>2. CASE pc' = "idle" /\ (\/ output_mode' = output_mode
                              \/ output_mode' = how /\ output_mode = "unset")
    <3>1. UNCHANGED <<inside, completed_gpu>> /\ pc = "select"
      BY <1>5 DEF NvSelect
    <3> QED
      BY <1>1, <2>2, <3>1, NvFlowOutside
  <2> QED
    BY <1>5, <2>1, <2>2 DEF NvSelect, Return
<1>6. CASE NvDeliver
  <2>1. /\ pc = "pump" /\ Outputs # <<>> /\ pc' = "idle"
        /\ UNCHANGED <<inside, output_mode>>
        /\ IF how = "cpu" THEN UNCHANGED completed_gpu
           ELSE completed_gpu' = Tail(completed_gpu)
    BY <1>3, <1>6 DEF NvDeliver, Deliver, Return
  <2>2. Len(completed_gpu') < PoolSize /\ Len(completed_gpu') \in Nat
    <3>1. CASE how = "cpu"
      <4>1. completed_gpu = <<>>
        BY <2>1, <3>1 DEF NvFlow
      <4> QED
        BY <1>2, <2>1, <3>1, <4>1, PoolAssumption
    <3>2. CASE how = "gpu"
      <4>1. completed_gpu \in Seq(AllFrames) /\ completed_gpu # <<>>
        BY <1>1, <2>1, <3>2 DEF TypeOK, Outputs
      <4>2. Len(completed_gpu') = Len(completed_gpu) - 1 /\ Len(completed_gpu) > 0
        BY <2>1, <3>2, <4>1
      <4>3. Len(completed_gpu) <= PoolSize
        BY <1>2, <2>1, PoolAssumption DEF NvFlow
      <4> QED
        BY <1>2, <4>2, <4>3, PoolAssumption
    <3> QED
      BY <1>1, <3>1, <3>2
  <2>3. output_mode # "gpu" => completed_gpu' = <<>>
    BY <1>1, <2>1 DEF NvFlow
  <2>4. Len(inside) <= MaxDelay
    BY <2>1 DEF NvFlow
  <2> QED
    BY <2>1, <2>2, <2>3, <2>4, PoolAssumption DEF NvFlow
<1>7. CASE NvPacket
  <2>1. /\ pc = "pump" /\ completed_gpu = <<>> /\ Len(inside) <= MaxDelay
        /\ output_mode = how
    BY <1>4, <1>7 DEF NvPacket, NvFlow
  <2>2. CASE DemuxFails /\ UNCHANGED nvdec
    BY <1>1, <2>1, <2>2, NvFlowOutside DEF DemuxFails, Return, queues
  <2>3. CASE /\ next < Len(Stream) /\ inside' = inside \o Stream[next + 1]
             /\ pc' = "parse" /\ UNCHANGED <<how, completed_gpu, output_mode>>
    <3>1. next + 1 \in DOMAIN Stream
      <4>1. next \in Nat /\ Len(Stream) \in Nat
        BY <1>1, StreamAssumption DEF TypeOK
      <4> QED
        BY <2>3, <4>1, StreamAssumption
    <3>2. Len(inside') = Len(inside) + Len(Stream[next + 1]) /\ Len(Stream[next + 1]) \in Nat
      <4>1. Stream[next + 1] \in Seq(Nat \ {0}) /\ inside \in Seq(AllFrames)
        BY <1>1, <3>1, StreamAssumption DEF TypeOK
      <4> QED
        BY <2>3, <4>1
    <3>3. Len(inside') <= PoolSize /\ Len(inside') \in Nat
      <4>1. MaxDelay + Len(Stream[next + 1]) <= PoolSize
        BY <3>1, BurstBounds
      <4> QED
        BY <1>2, <2>1, <3>2, <4>1, DelayAssumption, PoolAssumption
    <3> QED
      BY <1>2, <2>1, <2>3, <3>3, PoolAssumption DEF NvFlow
  <2>4. CASE pc' = "parse" /\ UNCHANGED <<how, inside, completed_gpu, output_mode>>
    <3>1. Len(inside) <= PoolSize
      BY <1>2, <2>1, BurstBounds
    <3> QED
      BY <1>2, <2>1, <2>4, <3>1, PoolAssumption DEF NvFlow
  <2> QED
    BY <1>3, <1>7, <2>2, <2>3, <2>4 DEF NvPacket, queues
<1>8. CASE NvDisplay
  <2>1. /\ pc = "parse" /\ inside # <<>> /\ inside' = Tail(inside) /\ pc' = pc
        /\ UNCHANGED <<how, output_mode>>
        /\ \/ how = "cpu" /\ completed_gpu' = completed_gpu
           \/ how = "gpu" /\ completed_gpu' = Append(completed_gpu, Head(inside))
    BY <1>3, <1>8 DEF NvDisplay, ParseFails
  <2>2. inside \in Seq(AllFrames) /\ completed_gpu \in Seq(AllFrames)
    BY <1>1 DEF TypeOK
  <2>3. /\ Len(inside') = Len(inside) - 1
        /\ Len(completed_gpu') \in {Len(completed_gpu), Len(completed_gpu) + 1}
    BY <2>1, <2>2
  <2>4. Len(inside) > 0
    BY <2>1, <2>2
  <2>5. Len(completed_gpu') + Len(inside') < PoolSize + 1
    <3>1. Len(completed_gpu) + Len(inside) < PoolSize + 1
      BY <2>1 DEF NvFlow
    <3> QED
      BY <1>2, <2>3, <2>4, <3>1, PoolAssumption
  <2>6. output_mode = how /\ (output_mode # "gpu" => completed_gpu = <<>>)
    BY <2>1 DEF NvFlow
  <2> QED
    BY <1>1, <2>1, <2>5, <2>6 DEF NvFlow
<1>9. CASE NvParsed
  <2>1. /\ pc = "parse" /\ pc' = "pump" /\ Len(inside) <= MaxDelay
        /\ UNCHANGED <<how, inside, completed_gpu, output_mode>>
    BY <1>2, <1>9, DelayAssumption DEF NvParsed, queues
  <2> QED
    BY <1>2, <2>1, PoolAssumption DEF NvFlow
<1>10. CASE NvEnd \/ NvClose \/ NvDestroy
  <2>1. /\ pc \in {"pump", "close", "destroy"} /\ pc' \in {"idle", "destroy"}
        /\ pc = "pump" => completed_gpu = <<>>
        /\ inside' \in {inside, <<>>} /\ completed_gpu' \in {completed_gpu, <<>>}
        /\ output_mode' = output_mode
    BY <1>4, <1>10 DEF NvEnd, NvClose, NvDestroy, Return, queues
  <2> QED
    BY <1>1, <2>1, NvFlowOutside
<1>11. CASE NvReleases
  <2>1. UNCHANGED <<pc, how, inside, completed_gpu, output_mode>>
    BY <1>11 DEF NvReleases, caller, queues
  <2> QED
    BY <2>1 DEF NvFlow
<1> QED
  BY <1>5, <1>6, <1>7, <1>8, <1>9, <1>10, <1>11 DEF NvNext


\* The checks of the handle move no frame, and a call begins anew.
LEMMA FlowHandle ==
    ASSUME Inductive, FlowOK, HandleNext, UNCHANGED nvdec PROVE FlowOK'
<1> USE DEF nvdec, queues
<1>1. TypeOK /\ pc = "idle" /\ pc' \in {"idle", "select", "close"}
  BY DEF Inductive, HandleNext, Read, ReadGpu, SetCopyPolicy, Close, Refuse, Enter
<1>2. /\ UNCHANGED <<kind, reported, inside, ready, completed_gpu>>
      /\ (pc' # "idle" => ret' = "none")
  BY DEF HandleNext, Read, ReadGpu, SetCopyPolicy, Close, Refuse, Enter, session
<1>3. kind = "intel" /\ Undisturbed => IntelFlow'
  BY <1>1, <1>2, FlowOutside DEF FlowOK
<1>4. kind = "nvidia" /\ Undisturbed => NvFlow'
  BY <1>1, <1>2, NvFlowOutside DEF FlowOK
<1>5. Undisturbed' = Undisturbed
  BY <1>2 DEF Undisturbed
<1> QED
  BY <1>2, <1>3, <1>4, <1>5 DEF FlowOK

\* A step of a backend ends the call with a result or leaves it under way.
LEMMA CallEnds ==
    ASSUME CpuNext \/ IntelNext \/ NvNext
    PROVE  /\ UNCHANGED kind /\ reported \subseteq reported'
           /\ pc' = "idle" \/ UNCHANGED ret
           /\ pc' # "idle" => pc # "idle"
<1> USE DEF session, caller
<1>1. CASE CpuNext
  BY <1>1 DEF CpuNext, CpuSelect, CpuImage, CpuPacket, CpuDecodes, CpuDrain, CpuEnd,
              CpuClose, AtCpu, DemuxFails, Deliver, Return
<1>2. CASE IntelNext
  BY <1>2 DEF IntelNext, IntelSelect, IntelDeliver, IntelPacket, Submit, SubmitWarns,
              CanSubmit, Stalls, Unsynced, GivesOut, AfterSubmit, SubmitBlocked,
              SubmitFails, Collect, PacketDone, IntelDrain, DrainCollects, DrainEnds,
              IntelEnd, IntelClose, IntelReleases, AtIntel, AbandonCall, Goto, DemuxFails,
              Deliver, Return
<1>3. CASE NvNext
  BY <1>3 DEF NvNext, NvSelect, NvDeliver, NvPacket, NvDisplay, NvParsed, NvEnd, NvClose,
              NvDestroy, NvReleases, AtNv, ParseFails, DemuxFails, Deliver, Return
<1> QED
  BY <1>1, <1>2, <1>3

LEMMA FlowStep ==
    ASSUME Inductive, FlowOK, BurstsFit, [Next]_vars PROVE FlowOK'
<1>1. CASE UNCHANGED vars
  BY <1>1 DEF vars, shared, session, caller, demux, queues, nvdec, FlowOK, Undisturbed,
              IntelFlow, NvFlow
<1>2. CASE CpuNext \/ IntelNext \/ NvNext
  <2>1. /\ kind' = kind /\ (pc' # "idle" => ret' = "none")
        /\ (Undisturbed' => Undisturbed)
    BY <1>2, CallEnds DEF FlowOK, Undisturbed
  <2>2. ASSUME kind = "intel", Undisturbed' PROVE IntelFlow'
    <3>1. IntelNext
      BY <1>2, <2>2
      DEF CpuNext, CpuSelect, CpuImage, CpuPacket, CpuDrain, CpuEnd, CpuClose, AtCpu,
          NvNext, NvSelect, NvDeliver, NvPacket, NvDisplay, NvParsed, NvEnd, NvClose,
          NvDestroy, NvReleases, AtNv, CpuKinds
    <3>2. "WOULD_BLOCK" \notin reported'
      BY <2>1, <2>2 DEF Undisturbed
    <3> QED
      BY <2>1, <2>2, <3>1, <3>2, IntelFlowStep DEF FlowOK
  <2>3. ASSUME kind = "nvidia", Undisturbed' PROVE NvFlow'
    <3>1. NvNext
      BY <1>2, <2>3
      DEF CpuNext, CpuSelect, CpuImage, CpuPacket, CpuDrain, CpuEnd, CpuClose, AtCpu,
          IntelNext, IntelSelect, IntelDeliver, IntelPacket, Submit, SubmitWarns,
              CanSubmit, Stalls, Unsynced, GivesOut, AfterSubmit, SubmitBlocked,
          SubmitFails, Collect, PacketDone, IntelDrain, DrainCollects, DrainEnds,
          IntelEnd, IntelClose, IntelReleases, AtIntel, CpuKinds
    <3>2. "CODEC" \notin reported'
      BY <2>1, <2>3 DEF Undisturbed
    <3> QED
      BY <2>1, <2>3, <3>1, <3>2, NvFlowStep DEF FlowOK
  <2> QED
    BY <2>1, <2>2, <2>3 DEF FlowOK
<1> QED
  BY <1>1, <1>2, FlowHandle DEF Next, Quiescent

\* The two places where a full pool says WOULD_BLOCK.
LEMMA WhoBlocks ==
    ASSUME ret = "none", pc \notin {"idle", "submit"}, [Next]_vars, ret' = "WOULD_BLOCK"
    PROVE  \/ kind = "intel" /\ pc = "collect" /\ how = "gpu" /\ PoolFull
           \/ kind = "nvidia" /\ pc = "select" /\ how = "gpu" /\ SlotsFull
<1> USE DEF session, caller
<1>1. CASE CpuNext
  BY <1>1 DEF CpuNext, CpuSelect, CpuImage, CpuPacket, CpuDecodes, CpuDrain, CpuEnd,
              CpuClose, AtCpu, DemuxFails, Deliver, Return
<1>2. CASE IntelNext
  BY <1>2 DEF IntelNext, IntelSelect, IntelDeliver, IntelPacket, Submit, SubmitWarns,
              CanSubmit, Stalls, Unsynced, GivesOut, AfterSubmit, SubmitBlocked,
              SubmitFails, Collect, PacketDone, IntelDrain, DrainCollects, DrainEnds,
              IntelEnd, IntelClose, IntelReleases, AtIntel, AbandonCall, Goto, DemuxFails,
              Deliver, Return
<1>3. CASE NvNext
  BY <1>3 DEF NvNext, NvSelect, NvDeliver, NvPacket, NvDisplay, NvParsed, NvEnd, NvClose,
              NvDestroy, NvReleases, AtNv, ParseFails, DemuxFails, Deliver, Return
<1>4. CASE HandleNext
  BY <1>4 DEF HandleNext, Read, ReadGpu, SetCopyPolicy, Close, Refuse, Enter
<1>5. CASE Quiescent \/ UNCHANGED vars
  BY <1>5 DEF Quiescent, vars, shared
<1> QED
  BY <1>1, <1>2, <1>3, <1>4, <1>5 DEF Next

LEMMA ItemsFewer ==
    ASSUME NEW s \in Seq(AllFrames)
    PROVE  IsFiniteSet(Items(s)) /\ Cardinality(Items(s)) <= Len(s)
<1> DEFINE f == [i \in 1..Len(s) |-> s[i]]
<1>1. Len(s) \in Nat /\ DOMAIN s = 1..Len(s)
  OBVIOUS
<1>2. IsFiniteSet(1..Len(s)) /\ Cardinality(1..Len(s)) = Len(s)
  BY <1>1, FS_Interval
<1>3. f \in Surjection(1..Len(s), Items(s))
  BY <1>1 DEF Surjection, Items
<1> HIDE DEF f
<1> QED
  BY <1>2, <1>3, FS_Surjection

\* A full pool of which no slot is with the caller would hold more frames than
\* were collected.
LEMMA Blocked ==
    ASSUME Inductive, FlowOK, pc \notin {"idle", "submit"}, [Next]_vars,
           ret' = "WOULD_BLOCK", Undisturbed
    PROVE  held \cup releasing # {}
<1> SUFFICES ASSUME held = {}, releasing = {} PROVE FALSE
  OBVIOUS
<1>1. TypeOK /\ ret = "none"
  BY DEF Inductive, FlowOK
<1>2. /\ out \in Seq(AllFrames) /\ completed_gpu \in Seq(AllFrames)
      /\ Len(inside) \in Nat /\ Len(ready) \in Nat /\ Len(out) \in Nat
      /\ Len(packet) \in Nat /\ Len(completed_gpu) \in Nat
  BY <1>1, Lengths DEF TypeOK
<1>3. CASE kind = "intel" /\ pc = "collect" /\ how = "gpu" /\ PoolFull
  <2>1. /\ completed_gpu = <<>> /\ ready # <<>>
        /\ slots = Items(completed_gpu) \cup Items(out)
        /\ Len(out) + Len(ready) + Len(inside) + Len(packet) <= PoolCapacity
    BY <1>3 DEF Inductive, IntelOK, Collected, FlowOK, IntelFlow
  <2>2. slots = Items(out)
    BY <2>1, NothingInEmpty
  <2>3. Len(ready) > 0
    <3>1. ready \in Seq(AllFrames)
      BY <1>1 DEF TypeOK
    <3> QED
      BY <2>1, <3>1
  <2>4. Cardinality(slots) <= Len(out) /\ Cardinality(slots) \in Nat
    BY <1>2, <2>2, ItemsFewer, FS_CardinalityType
  <2>5. Cardinality(slots) >= PoolCapacity /\ PoolCapacity \in Nat
    BY <1>3, DepthAssumption DEF PoolFull, PoolCapacity
  <2> QED
    BY <1>2, <2>1, <2>3, <2>4, <2>5
<1>4. CASE kind = "nvidia" /\ pc = "select" /\ how = "gpu" /\ SlotsFull
  <2>1. slots = Items(completed_gpu)
    BY <1>4 DEF Inductive, NvOK
  <2>2. Cardinality(slots) <= Len(completed_gpu) /\ Cardinality(slots) \in Nat
    BY <1>2, <2>1, ItemsFewer, FS_CardinalityType
  <2>3. Len(completed_gpu) < PoolSize
    BY <1>2, <1>4, PoolAssumption DEF FlowOK, NvFlow
  <2>4. Cardinality(slots) >= PoolSize
    BY <1>4 DEF SlotsFull
  <2> QED
    BY <1>2, <2>2, <2>3, <2>4, PoolAssumption
<1> QED
  BY <1>1, <1>3, <1>4, WhoBlocks

\* For streams whose bursts fit the pool: the full pool of frames is said only
\* to a caller that has a lease to give back or is giving one back, as long as
\* no read has ended in the middle.
THEOREM Helpful == ASSUME BurstsFit PROVE Spec => WouldBlockIsHelpful
<1>1. Spec => []FlowOK
  <2>1. Inductive /\ FlowOK /\ [Next]_vars => FlowOK'
    BY FlowStep
  <2> QED
    BY <2>1, FlowInit, InductiveHolds, PTL DEF Spec
<1>2. Inductive /\ FlowOK /\ [Next]_vars =>
        [pc \notin {"idle", "submit"} /\ ret' = "WOULD_BLOCK" /\ Undisturbed
            => held \cup releasing # {}]_vars
  BY Blocked
<1> QED
  BY <1>1, <1>2, InductiveHolds, PTL DEF Spec, WouldBlockIsHelpful


=============================================================================
