--------------------------- MODULE CpuMediaProofs ---------------------------
(***************************************************************************)
(* Proofs about CpuMedia for any number of callers and worker threads, any *)
(* frame heights, images, layouts, requests and files.                     *)
(***************************************************************************)
EXTENDS CpuMedia, FiniteSetTheorems, SequenceTheorems, WellFoundedInduction, TLAPS

-----------------------------------------------------------------------------
(* The four parts share no state: each proof is about the steps of its own *)
(* part, and stutters on those of the others.                              *)

LEMMA FileStepKeeps == FileStep => UNCHANGED <<picture, frame, convert>>
<1> QED
  BY DEF FileStep, Muxed, FinalizeWebm, FinalizeMatroska, Foreign, CopyChunk, CopyEnds,
         Install, InstallFails, InstallChecked, Crash, Forget, Open, ReadPacket, CloseReader

LEMMA FrameStepKeeps == FrameStep => UNCHANGED <<media, convert>>
<1> QED
  BY DEF FrameStep, ProcessFrame, DropPicture, Decode, GetView, CopyFrame, WriteFrame,
         DropFrame

-----------------------------------------------------------------------------
(* Conversion workers: types.                                              *)

Lines == UNION {[0..(h - 1) -> [luma : Int, chroma : Int]] : h \in Nat}
Futures == {"pending", "done", "failed"}
FutureSeqs == Seq(Futures)
Tasks == [caller : Callers, row : Nat, rows : Nat, abandoned : BOOLEAN]
Threads ==
    [at : {"gone", "awake", "asleep", "running"}, task : Tasks \cup {NoTask}]
Copies ==
    [at : {"idle", "pool", "joining", "push", "notify", "own", "await", "returned"},
     height : Nat, requested : Nat, rows : Nat, next : Nat, futures : FutureSeqs,
     result : {"none", "OK", "INTERNAL"}, lines : Lines]

ConvertTypeOK ==
    /\ pool \in {"none", "running", "stopping", "exiting"}
    /\ queue \in Seq(Tasks)
    /\ worker \in [1..Workers -> Threads]
    /\ copy \in [Callers -> Copies]

(* Who may push, and that a worker is there for what was pushed.           *)
Pushing(c) == copy[c].at \in {"push", "notify"}
PoolInv ==
    /\ pool = "running" => \A w \in 1..Workers : worker[w].at # "gone"
    /\ pool \in {"none", "stopping"} => queue = <<>>
    /\ (\E w \in 1..Workers : worker[w].at = "gone") => queue = <<>>
    /\ pool = "exiting" => \A c \in Callers : copy[c].at = "idle"
    /\ queue # <<>> => Workers > 0
    /\ \A w \in 1..Workers : worker[w].at = "running" <=> worker[w].task # NoTask
    /\ \A c \in Callers :
        /\ Pushing(c) => pool = "running" /\ Workers > 0
        /\ copy[c].at = "pool" => copy[c].requested # 1
        /\ copy[c].at = "joining" =>
            pool = "stopping" /\ \A d \in Callers : copy[d].at = "joining" => d = c

Smaller(a, b) == IF a <= b THEN a ELSE b

(* Stripes: those that wait in the queue, at a positive place, and those   *)
(* the workers have, at minus their number.                                *)
Places == DOMAIN queue \cup {-w : w \in 1..Workers}
Task(p) == IF p > 0 THEN queue[p] ELSE worker[-p].task
Live(t) == t # NoTask /\ ~t.abandoned

\* Row r as StripesComplete wants it, and whether all rows of stripe k are.
Right(r) == [luma |-> r, chroma |-> r \div 2]
Converted(call, k) ==
    \A r \in DOMAIN call.lines :
        k * call.rows <= r /\ r < k * call.rows + call.rows => call.lines[r] = Right(r)

Busy(call) == call.at \in {"push", "notify", "own", "await"}
CallInv(call) ==
    /\ DOMAIN call.lines = 0..(call.height - 1)
    /\ call.at # "idle" => call.height > 0
    /\ call.at \in {"idle", "pool", "joining"} => call.futures = <<>>
    /\ call.at # "returned" => call.result = "none"
    /\ call.at \in {"push", "notify"} =>
        /\ call.next = (Len(call.futures) + 1) * call.rows
        /\ call.rows % 2 = 0
    /\ Busy(call) =>
        /\ call.rows > 0
        /\ \A k \in 1..Len(call.futures) : call.futures[k] = "done" => Converted(call, k)
    /\ call.at \in {"own", "await"} => (Len(call.futures) + 1) * call.rows >= call.height
    /\ call.at = "await" => Converted(call, 0)
    /\ call.result = "OK" => call.lines = [r \in 0..(call.height - 1) |-> Right(r)]

\* A stripe of this call: an own future waits for it, its rows are its own.
StripeOf(call, t) ==
    /\ Busy(call)
    /\ t.row % 2 = 0 /\ t.rows > 0 /\ t.row + t.rows <= call.height
    /\ t.rows = Smaller(call.rows, call.height - t.row)
    /\ \E k \in 1..Len(call.futures) : call.futures[k] = "pending" /\ t.row = k * call.rows
StripeInv ==
    /\ \A c \in Callers : CallInv(copy[c])
    /\ \A p \in Places : Live(Task(p)) => StripeOf(copy[Task(p).caller], Task(p))
    /\ \A p, q \in Places :
        Live(Task(p)) /\ Live(Task(q)) /\ Task(p).caller = Task(q).caller
            /\ Task(p).row = Task(q).row => p = q

-----------------------------------------------------------------------------
(* Numbers.                                                                *)

LEMMA MinOfTwo ==
    ASSUME NEW a \in Int, NEW b \in Int
    PROVE  Min({a, b}) = Smaller(a, b)
<1>1. Smaller(a, b) \in {a, b} /\ \A y \in {a, b} : Smaller(a, b) <= y
  BY DEF Smaller
<1>2. \A x \in {a, b} : (\A y \in {a, b} : x <= y) => x = Smaller(a, b)
  BY DEF Smaller
<1> QED
  BY <1>1, <1>2 DEF Min

\* Euclid: the quotient and the remainder of q * s + r.
LEMMA DivMod ==
    ASSUME NEW s \in Nat \ {0}, NEW q \in Nat, NEW r \in 0..(s - 1)
    PROVE  (q * s + r) \div s = q /\ (q * s + r) % s = r
<1>1. q * s \in Nat /\ q * s + r \in Nat
  OBVIOUS
<1> DEFINE n == q * s + r
<1> HIDE DEF n
<1>2. n \in Nat /\ n = q * s + r
  BY <1>1 DEF n
<1> DEFINE d == n \div s
           m == n % s
<1>3. d \in Int /\ m \in 0..(s - 1) /\ n = s * d + m
  BY <1>2
<1> HIDE DEF d, m
<1>4. d = q
  <2>1. s * (d - q) = r - m
    BY <1>2, <1>3
  <2>2. r - m < s /\ r - m > -s
    BY <1>3
  <2>3. CASE d - q >= 1
    <3>1. s * (d - q) >= s
      BY <2>3, <1>3
    <3> QED
      BY <3>1, <2>1, <2>2, <1>3
  <2>4. CASE d - q <= -1
    <3>1. s * (d - q) <= -s
      BY <2>4, <1>3
    <3> QED
      BY <3>1, <2>1, <2>2, <1>3
  <2> QED
    BY <2>3, <2>4, <1>3
<1>5. m = r
  BY <1>2, <1>3, <1>4
<1> QED
  BY <1>4, <1>5 DEF d, m, n

LEMMA DivModOf ==
    ASSUME NEW s \in Nat \ {0}, NEW h \in Nat, NEW k \in 0..(s * h - 1)
    PROVE  /\ k \div s \in 0..(h - 1) /\ k % s \in 0..(s - 1)
           /\ k = (k \div s) * s + (k % s)
<1> DEFINE d == k \div s
           m == k % s
<1>1. s * h \in Nat /\ k \in Nat
  OBVIOUS
<1>2. d \in Int /\ m \in 0..(s - 1) /\ k = s * d + m
  BY <1>1
<1> HIDE DEF d, m
<1>3. d >= 0
  <2> SUFFICES ASSUME d <= -1 PROVE FALSE
    BY <1>2
  <2>1. s * d <= -s
    BY <1>2
  <2> QED
    BY <2>1, <1>2, <1>1
<1>4. d <= h - 1
  <2> SUFFICES ASSUME d >= h PROVE FALSE
    BY <1>2
  <2>1. s * d >= s * h
    BY <1>2
  <2> QED
    BY <2>1, <1>2, <1>1
<1>5. d \in 0..(h - 1) /\ m \in 0..(s - 1) /\ k = d * s + m
  BY <1>2, <1>3, <1>4
<1> QED
  BY <1>5 DEF d, m

LEMMA HalfOf ==
    ASSUME NEW a \in Nat, a % 2 = 0, NEW b \in Nat
    PROVE  /\ (a + b) \div 2 = a \div 2 + b \div 2
           /\ a = 2 * (a \div 2) /\ a \div 2 \in Nat
           /\ (a + b) % 2 = b % 2
<1> QED
  OBVIOUS

LEMMA ParallelismBounds ==
    ASSUME NEW requested \in Nat
    PROVE  /\ Parallelism(requested) \in Nat \ {0}
           /\ Parallelism(requested) # 1 => Workers > 0
<1>1. Workers \in Nat
  BY WorkersAssumption
<1>2. Min({requested, Workers + 1}) = Smaller(requested, Workers + 1)
  BY <1>1, MinOfTwo
<1> QED
  BY <1>1, <1>2 DEF Parallelism, Smaller

LEMMA RowsPerWorkerEven ==
    ASSUME NEW height \in Nat, NEW count \in Nat \ {0}
    PROVE  /\ RowsPerWorker(height, count) \in Nat
           /\ height > 0 => RowsPerWorker(height, count) > 0
           /\ RowsPerWorker(height, count) % 2 = 0
<1> DEFINE n == height + count - 1
<1> HIDE DEF n
<1>0. n \in Nat /\ n >= count - 1 /\ (height > 0 => n >= count)
  BY DEF n
<1> DEFINE d == n \div count
<1>1. d \in Int /\ n % count \in 0..(count - 1) /\ n = count * d + (n % count)
  BY <1>0
<1> HIDE DEF d
<1>2. d >= 0 /\ (height > 0 => d >= 1)
  <2>1. ASSUME d <= -1 PROVE FALSE
    <3>1. count * d <= -count
      BY <1>1, <2>1
    <3> QED
      BY <3>1, <1>0, <1>1
  <2>2. ASSUME d = 0, height > 0 PROVE FALSE
    BY <2>2, <1>0, <1>1
  <2> QED
    BY <2>1, <2>2, <1>1
<1>3. RowsPerWorker(height, count) = (d + 1) - ((d + 1) % 2)
  BY DEF RowsPerWorker, d, n
<1> QED
  BY <1>1, <1>2, <1>3

-----------------------------------------------------------------------------
(* Conversion workers: types.                                              *)

LEMMA StripeRight ==
    ASSUME NEW row \in Nat, row % 2 = 0, NEW rows \in Nat, NEW r \in row..(row + rows - 1)
    PROVE  StripeLines(row, rows)[r] = Right(r)
<1>1. r - row \in Nat /\ row + (r - row) = r
  OBVIOUS
<1>2. r \div 2 = (row \div 2) + ((r - row) \div 2)
  BY <1>1, HalfOf
<1> QED
  BY <1>2 DEF StripeLines, Right

LEMMA WriteValues ==
    ASSUME NEW h \in Nat, NEW lines, DOMAIN lines = 0..(h - 1),
           NEW row \in Nat, row % 2 = 0, NEW rows \in Nat
    PROVE  /\ DOMAIN Write(lines, row, rows) = DOMAIN lines
           /\ \A r \in DOMAIN lines : Write(lines, row, rows)[r] =
                IF row <= r /\ r < row + rows THEN Right(r) ELSE lines[r]
<1>1. \A r \in DOMAIN lines : r \in row..(row + rows - 1) <=> row <= r /\ r < row + rows
  OBVIOUS
<1> QED
  BY <1>1, StripeRight DEF Write

LEMMA LinesType ==
    /\ <<>> \in Lines
    /\ \A h \in Nat : [r \in 0..(h - 1) |-> NoLine] \in Lines
    /\ \A lines \in Lines : \A row, rows \in Nat : Write(lines, row, rows) \in Lines
<1> DEFINE Line == [luma : Int, chroma : Int]
<1>1. <<>> \in [0..(0 - 1) -> Line]
  <2>1. 0..(0 - 1) = {} /\ DOMAIN <<>> = {}
    OBVIOUS
  <2> QED
    BY <2>1
<1>2. \A h \in Nat : [r \in 0..(h - 1) |-> NoLine] \in [0..(h - 1) -> Line]
  BY DEF NoLine
<1>3. ASSUME NEW lines \in Lines, NEW row \in Nat, NEW rows \in Nat
      PROVE  Write(lines, row, rows) \in Lines
  <2>1. PICK h \in Nat : lines \in [0..(h - 1) -> Line]
    BY DEF Lines
  <2>2. \A r \in 0..(h - 1) : r \in row..(row + rows - 1) =>
            StripeLines(row, rows)[r] \in Line
    BY DEF StripeLines
  <2>3. Write(lines, row, rows) \in [0..(h - 1) -> Line]
    BY <2>1, <2>2 DEF Write
  <2> QED
    BY <2>3 DEF Lines
<1> QED
  BY <1>1, <1>2, <1>3 DEF Lines

LEMMA FuturesType ==
    /\ <<>> \in FutureSeqs
    /\ \A f \in FutureSeqs : Append(f, "pending") \in FutureSeqs
    /\ \A f \in FutureSeqs : \A k : \A x \in Futures : [f EXCEPT ![k] = x] \in FutureSeqs
<1>1. <<>> \in Seq(Futures)
  <2>1. \A S : <<>> \in Seq(S)
    OBVIOUS
  <2> QED
    BY <2>1
<1>2. \A f \in Seq(Futures) : Append(f, "pending") \in Seq(Futures)
  BY DEF Futures
<1>3. ASSUME NEW f \in Seq(Futures), NEW k, NEW x \in Futures
      PROVE  [f EXCEPT ![k] = x] \in Seq(Futures)
  <2>1. Len(f) \in Nat /\ f \in [1..Len(f) -> Futures]
    OBVIOUS
  <2>2. [f EXCEPT ![k] = x] \in [1..Len(f) -> Futures]
    BY <2>1
  <2> QED
    BY <2>1, <2>2, SeqDef
<1> QED
  BY <1>1, <1>2, <1>3 DEF FutureSeqs

LEMMA AbandonedType ==
    ASSUME NEW c \in Callers
    PROVE  /\ \A t \in Tasks : Abandoned(t, c) \in Tasks
           /\ Abandoned(NoTask, c) = NoTask
           /\ \A t \in Tasks \cup {NoTask} :
                /\ Abandoned(t, c).caller = t.caller /\ Abandoned(t, c).row = t.row
                /\ Abandoned(t, c).rows = t.rows
                /\ Abandoned(t, c) = NoTask <=> t = NoTask
                /\ Abandoned(t, c).abandoned <=> t.abandoned \/ t.caller = c
<1>1. \A t \in Tasks : t.abandoned \in BOOLEAN /\ t.caller \in Callers
  BY DEF Tasks
<1>2. NoTask.caller # c /\ NoTask.abandoned = FALSE
  BY WorkersAssumption DEF NoTask
<1>3. Abandoned(NoTask, c) = NoTask
  BY <1>2 DEF Abandoned, NoTask
<1>4. \A t \in Tasks : t # NoTask /\ Abandoned(t, c) # NoTask
  BY <1>1, WorkersAssumption DEF Tasks, NoTask, Abandoned
<1>5. \A t \in Tasks : Abandoned(t, c) = [t EXCEPT !.abandoned = t.abandoned \/ t.caller = c]
  BY DEF Abandoned
<1>6. \A t \in Tasks : /\ Abandoned(t, c) \in Tasks
                       /\ Abandoned(t, c).caller = t.caller /\ Abandoned(t, c).row = t.row
                       /\ Abandoned(t, c).rows = t.rows
                       /\ Abandoned(t, c).abandoned <=> t.abandoned \/ t.caller = c
  BY <1>1, <1>5, ZenonT(60) DEF Tasks
<1> QED
  BY <1>2, <1>3, <1>4, <1>6

\* Throw, the part three steps share.
LEMMA ThrowType ==
    ASSUME ConvertTypeOK, NEW c \in Callers, Throw(c)
    PROVE  ConvertTypeOK'
<1>1. copy' \in [Callers -> Copies]
  BY ZenonT(60) DEF ConvertTypeOK, Throw, Copies
<1>2. queue' \in Seq(Tasks)
  <2>1. Len(queue) \in Nat /\ DOMAIN queue = 1..Len(queue)
    BY DEF ConvertTypeOK
  <2>2. \A k \in DOMAIN queue : Abandoned(queue[k], c) \in Tasks
    BY AbandonedType DEF ConvertTypeOK
  <2>3. queue' \in [1..Len(queue) -> Tasks]
    BY <2>1, <2>2 DEF Throw
  <2> QED
    BY <2>1, <2>3, SeqDef
<1>3. worker' \in [1..Workers -> Threads]
  <2>1. \A w \in 1..Workers : Abandoned(worker[w].task, c) \in Tasks \cup {NoTask}
    BY AbandonedType DEF ConvertTypeOK, Threads
  <2> QED
    BY <2>1 DEF ConvertTypeOK, Throw, Threads
<1> QED
  BY <1>1, <1>2, <1>3 DEF ConvertTypeOK, Throw

LEMMA CopyStepType ==
    ASSUME ConvertTypeOK, NEW c \in Callers, CopyTo(c) \/ CopyStep(c)
    PROVE  ConvertTypeOK'
<1>0. /\ copy[c] \in Copies /\ copy[c].height \in Nat /\ copy[c].rows \in Nat
      /\ copy[c].requested \in Nat /\ copy[c].next \in Nat
      /\ copy[c].futures \in FutureSeqs /\ copy[c].lines \in Lines
      /\ copy \in [Callers -> Copies]
  BY DEF ConvertTypeOK, Copies
<1>1. CASE CopyTo(c)
  <2>1. \A h \in Heights : h \in Nat
    BY WorkersAssumption
  <2>2. copy' \in [Callers -> Copies]
    <3>1. PICK height \in Heights, requested \in 0..MaxRequest :
            \E at \in {"pool", "own"}, rows \in {0, height} :
            copy' = [copy EXCEPT ![c] = [@ EXCEPT !.at = at,
                !.height = height, !.requested = requested, !.rows = rows,
                !.lines = [r \in 0..(height - 1) |-> NoLine]]]
      BY <1>1 DEF CopyTo
    <3>2. PICK at \in {"pool", "own"}, rows \in {0, height} :
            copy' = [copy EXCEPT ![c] = [copy[c] EXCEPT !.at = at,
                !.height = height, !.requested = requested, !.rows = rows,
                !.lines = [r \in 0..(height - 1) |-> NoLine]]]
      BY <3>1
    <3> DEFINE lines == [r \in 0..(height - 1) |-> NoLine]
    <3>3. height \in Nat /\ requested \in Nat /\ rows \in Nat /\ lines \in Lines
      BY <2>1, LinesType
    <3> HIDE DEF lines
    <3>4. [copy[c] EXCEPT !.at = at, !.height = height, !.requested = requested,
                          !.rows = rows, !.lines = lines] \in Copies
      BY <1>0, <3>3 DEF Copies
    <3> QED
      BY <3>2, <3>4 DEF ConvertTypeOK, lines
  <2> QED
    BY <1>1, <2>2 DEF CopyTo, ConvertTypeOK, workers
<1>2. CASE Construct(c)
  <2>1. worker' \in [1..Workers -> Threads]
    BY <1>2 DEF Construct, Threads
  <2>2. copy' \in [Callers -> Copies]
    <3>1. copy' = copy \/ copy' = [copy EXCEPT ![c].at = "joining"]
      BY <1>2 DEF Construct
    <3>2. [copy[c] EXCEPT !.at = "joining"] \in Copies
      BY <1>0 DEF Copies
    <3> QED
      BY <3>1, <3>2, <1>0
  <2> QED
    BY <1>2, <2>1, <2>2 DEF Construct, ConvertTypeOK
<1>3. CASE ConstructFailed(c)
  <2>1. copy' \in [Callers -> Copies]
    BY <1>3, ZenonT(60) DEF ConstructFailed, ConvertTypeOK, Copies
  <2> QED
    BY <1>3, <2>1 DEF ConstructFailed, ConvertTypeOK
<1>4. CASE Divide(c)
  <2> DEFINE count == Parallelism(copy[c].requested)
             rows == RowsPerWorker(copy[c].height, count)
  <2>1. rows \in Nat
    BY <1>0, ParallelismBounds, RowsPerWorkerEven
  <2> HIDE DEF count, rows
  <2>2. copy' \in [Callers -> Copies]
    BY <1>4, <2>1, <1>0 DEF Divide, ConvertTypeOK, Copies, count, rows
  <2> QED
    BY <1>4, <2>2 DEF Divide, ConvertTypeOK, workers
<1>5. CASE Submit(c)
  <2>1. Clipped(c) \in Nat
    <3>1. Min({copy[c].rows, copy[c].height - copy[c].next})
            = Smaller(copy[c].rows, copy[c].height - copy[c].next)
      BY <1>0, MinOfTwo
    <3> QED
      BY <3>1, <1>0, <1>5 DEF Clipped, Smaller, Submit
  <2>2. queue' \in Seq(Tasks)
    BY <1>5, <2>1, <1>0 DEF Submit, Queued, ConvertTypeOK, Tasks
  <2>3. copy' \in [Callers -> Copies]
    <3>1. Append(copy[c].futures, "pending") \in FutureSeqs /\ copy[c].next + copy[c].rows \in Nat
      BY <1>0, FuturesType
    <3> DEFINE next == copy[c].next + copy[c].rows
               futures == Append(copy[c].futures, "pending")
    <3>2. copy' = [copy EXCEPT ![c] =
                    [copy[c] EXCEPT !.at = "notify", !.next = next, !.futures = futures]]
      BY <1>5 DEF Submit
    <3> HIDE DEF next, futures
    <3>3. [copy[c] EXCEPT !.at = "notify", !.next = next, !.futures = futures] \in Copies
      BY <1>0, <3>1 DEF Copies, next, futures
    <3> QED
      BY <3>2, <3>3, <1>0
  <2> QED
    BY <1>5, <2>2, <2>3 DEF Submit, ConvertTypeOK
<1>6. CASE NotifyOne(c)
  <2>1. copy' \in [Callers -> Copies]
    BY <1>6, ZenonT(60) DEF NotifyOne, ConvertTypeOK, Copies
  <2>2. worker' \in [1..Workers -> Threads]
    BY <1>6 DEF NotifyOne, ConvertTypeOK, Threads
  <2> QED
    BY <1>6, <2>1, <2>2 DEF NotifyOne, ConvertTypeOK
<1>7. CASE SubmitFailed(c)
  BY <1>7, ThrowType DEF SubmitFailed
<1>8. CASE Submitted(c)
  <2>1. copy' \in [Callers -> Copies]
    BY <1>8, ZenonT(60) DEF Submitted, ConvertTypeOK, Copies
  <2> QED
    BY <1>8, <2>1 DEF Submitted, ConvertTypeOK, workers
<1>9. CASE OwnStripe(c)
  <2>1. CASE Throw(c)
    BY <2>1, ThrowType
  <2>2. CASE ~Throw(c)
    <3> DEFINE lines == Write(copy[c].lines, 0, Min({copy[c].rows, copy[c].height}))
    <3>1. Min({copy[c].rows, copy[c].height}) \in Nat
      BY <1>0, MinOfTwo DEF Smaller
    <3>2. lines \in Lines
      BY <3>1, <1>0, LinesType
    <3>a. copy' = [copy EXCEPT ![c] = [copy[c] EXCEPT !.at = "await", !.lines = lines]]
            /\ UNCHANGED workers
      BY <1>9, <2>2 DEF OwnStripe
    <3> HIDE DEF lines
    <3>3. copy' \in [Callers -> Copies] /\ UNCHANGED workers
      <4>1. [copy[c] EXCEPT !.at = "await", !.lines = lines] \in Copies
        BY <1>0, <3>2 DEF Copies
      <4> QED
        BY <3>a, <4>1, <1>0
    <3> QED
      BY <3>3 DEF ConvertTypeOK, workers
  <2> QED
    BY <2>1, <2>2
<1>10. CASE Await(c)
  <2>1. CASE Throw(c)
    BY <2>1, ThrowType
  <2>2. CASE ~Throw(c)
    <3>1. copy' \in [Callers -> Copies] /\ UNCHANGED workers
      <4>1. [copy[c] EXCEPT !.at = "returned", !.result = "OK"] \in Copies
        BY <1>0 DEF Copies
      <4> QED
        BY <1>10, <2>2, <4>1, <1>0 DEF Await
    <3> QED
      BY <3>1 DEF ConvertTypeOK, workers
  <2> QED
    BY <2>1, <2>2
<1>11. CASE Return(c)
  <2>1. NoCopy \in Copies
    BY LinesType, FuturesType DEF NoCopy, Copies
  <2> QED
    BY <1>11, <2>1 DEF Return, ConvertTypeOK, workers
<1> QED
  BY <1>1, <1>2, <1>3, <1>4, <1>5, <1>6, <1>7, <1>8, <1>9, <1>10, <1>11 DEF CopyStep

LEMMA WorkerStepType ==
    ASSUME ConvertTypeOK, NEW w \in 1..Workers, WorkerStep(w)
    PROVE  ConvertTypeOK'
<1>0. worker[w] \in Threads /\ worker[w].task \in Tasks \cup {NoTask}
  BY DEF ConvertTypeOK, Threads
<1>1. CASE Take(w)
  <2>1. queue # <<>> /\ queue \in Seq(Tasks)
    BY <1>1 DEF Take, ConvertTypeOK
  <2>2. Head(queue) \in Tasks /\ Tail(queue) \in Seq(Tasks)
    BY <2>1
  <2>3. worker' \in [1..Workers -> Threads]
    BY <1>1, <2>2 DEF Take, ConvertTypeOK, Threads
  <2> QED
    BY <1>1, <2>2, <2>3 DEF Take, ConvertTypeOK
<1>2. CASE Sleep(w) \/ Leave(w)
  <2>1. worker' \in [1..Workers -> Threads]
    BY <1>2 DEF Sleep, Leave, ConvertTypeOK, Threads
  <2> QED
    BY <1>2, <2>1 DEF Sleep, Leave, ConvertTypeOK
<1>3. CASE Stripe(w)
  <2> DEFINE task == worker[w].task
             c == task.caller
             k == task.row \div copy[c].rows
             lines == Write(copy[c].lines, task.row, task.rows)
  <2>1. worker' \in [1..Workers -> Threads] /\ UNCHANGED <<pool, queue>>
    BY <1>3 DEF Stripe, ConvertTypeOK, Threads
  <2>2. task.row \in Nat /\ task.rows \in Nat
    BY <1>0 DEF Tasks, NoTask
  <2>3. \/ copy' = copy
        \/ copy' = [copy EXCEPT ![c] = [@ EXCEPT !.futures[k] = "done", !.lines = lines]]
        \/ copy' = [copy EXCEPT ![c].futures[k] = "failed"]
    BY <1>3 DEF Stripe
  <2>4. copy \in [Callers -> Copies]
    BY DEF ConvertTypeOK
  <2>5. CASE c \in Callers
    <3>1. copy[c] \in Copies /\ copy[c].lines \in Lines /\ copy[c].futures \in FutureSeqs
      BY <2>4, <2>5 DEF Copies
    <3>2. lines \in Lines
      BY <2>2, <3>1, LinesType
    <3>3. \A x \in Futures : [copy[c].futures EXCEPT ![k] = x] \in FutureSeqs
      BY <3>1, FuturesType
    <3> DEFINE done == [copy[c].futures EXCEPT ![k] = "done"]
               failed == [copy[c].futures EXCEPT ![k] = "failed"]
    <3>4. done \in FutureSeqs /\ failed \in FutureSeqs
      BY <3>3 DEF Futures
    <3>5. \/ copy' = copy
          \/ copy' = [copy EXCEPT ![c] = [copy[c] EXCEPT !.futures = done, !.lines = lines]]
          \/ copy' = [copy EXCEPT ![c] = [copy[c] EXCEPT !.futures = failed]]
      BY <2>3
    <3> HIDE DEF c, lines, done, failed
    <3>6. /\ [copy[c] EXCEPT !.futures = done, !.lines = lines] \in Copies
          /\ [copy[c] EXCEPT !.futures = failed] \in Copies
      BY <3>1, <3>2, <3>4 DEF Copies
    <3>7. copy' \in [Callers -> Copies]
      BY <3>5, <3>6, <2>4, <2>5
    <3> QED
      BY <2>1, <3>7 DEF ConvertTypeOK
  <2>6. CASE c \notin Callers
    <3> DEFINE done == [copy[c] EXCEPT !.futures[k] = "done", !.lines = lines]
               failed == [copy[c] EXCEPT !.futures[k] = "failed"]
    <3>a. copy' \in {copy, [copy EXCEPT ![c] = done], [copy EXCEPT ![c] = failed]}
      BY <2>3
    <3> HIDE DEF c, done, failed
    <3>1. copy' = copy
      BY <3>a, <2>4, <2>6
    <3> QED
      BY <2>1, <3>1 DEF ConvertTypeOK
  <2> QED
    BY <2>5, <2>6
<1> QED
  BY <1>1, <1>2, <1>3 DEF WorkerStep

LEMMA ConvertTypeStep ==
    ASSUME ConvertTypeOK, [Next]_vars
    PROVE  ConvertTypeOK'
<1>1. CASE FileStep \/ FrameStep \/ UNCHANGED vars
  <2>1. UNCHANGED convert
    BY <1>1, FileStepKeeps, FrameStepKeeps DEF vars
  <2> QED
    BY <2>1 DEF ConvertTypeOK, convert, workers
<1>2. CASE ConvertStep
  <2>1. ASSUME NEW c \in Callers, BeginCopy(c) \/ CopyStep(c) PROVE ConvertTypeOK'
    BY <2>1, CopyStepType DEF BeginCopy
  <2>2. CASE Shutdown \/ Exited
    <3>1. worker' \in [1..Workers -> Threads]
      BY <2>2 DEF Shutdown, Exited, ConvertTypeOK, Threads
    <3> QED
      BY <2>2, <3>1 DEF Shutdown, Exited, ConvertTypeOK
  <2> QED
    BY <1>2, <2>1, <2>2, WorkerStepType DEF ConvertStep
<1> QED
  BY <1>1, <1>2 DEF Next

LEMMA ConvertTypeInit == Init => ConvertTypeOK
<1> SUFFICES ASSUME Init PROVE ConvertTypeOK
  OBVIOUS
<1>1. \A S : <<>> \in Seq(S)
  OBVIOUS
<1>2. NoCopy \in Copies
  BY LinesType, FuturesType DEF NoCopy, Copies
<1> QED
  BY <1>1, <1>2 DEF Init, ConvertInit, ConvertTypeOK, Threads

\* For any callers, worker threads, heights and requests the state of
\* ConversionWorkers keeps its types: pool, queue, threads and calls.
THEOREM ConvertTypes == Spec => []ConvertTypeOK
<1> QED
  BY ConvertTypeInit, ConvertTypeStep, PTL DEF Spec

-----------------------------------------------------------------------------
(* The pool: who may hand in a stripe, and who is there to take it.        *)

LEMMA ThreadAt ==
    ASSUME NEW threads \in [1..Workers -> Threads], NEW w \in 1..Workers, NEW location
    PROVE  LET now == [threads EXCEPT ![w].at = location]
           IN  /\ now[w].at = location /\ now[w].task = threads[w].task
               /\ \A v \in (1..Workers) \ {w} : now[v] = threads[v]
<1>1. threads[w] \in Threads
  OBVIOUS
<1>2. [threads[w] EXCEPT !.at = location].at = location
      /\ [threads[w] EXCEPT !.at = location].task = threads[w].task
  BY <1>1 DEF Threads
<1> QED
  BY <1>2

LEMMA ThrowPool ==
    ASSUME ConvertTypeOK, PoolInv, NEW c \in Callers, Throw(c),
           copy[c].at \in {"push", "own", "await"}
    PROVE  PoolInv'
<1>1. \A w \in 1..Workers : /\ worker'[w].at = worker[w].at
                            /\ worker'[w].task = NoTask <=> worker[w].task = NoTask
  BY AbandonedType DEF Throw, ConvertTypeOK, Threads
<1>2. queue' = <<>> <=> queue = <<>>
  <2>1. queue \in Seq(Tasks) /\ DOMAIN queue' = DOMAIN queue
    BY DEF Throw, ConvertTypeOK
  <2>2. queue = <<>> <=> DOMAIN queue = {}
    BY <2>1
  <2>3. queue' \in Seq(Tasks)
    BY ThrowType DEF ConvertTypeOK
  <2>4. queue' = <<>> <=> DOMAIN queue' = {}
    BY <2>3
  <2> QED
    BY <2>1, <2>2, <2>4
<1>3. \A d \in Callers : copy'[d] = IF d = c THEN copy'[c] ELSE copy[d]
  BY DEF Throw, ConvertTypeOK
<1>4. copy'[c].at = "returned" /\ pool' = pool
  BY DEF Throw, ConvertTypeOK, Copies
<1>5. pool # "exiting"
  BY DEF PoolInv
<1> QED
  BY <1>1, <1>2, <1>3, <1>4, <1>5 DEF PoolInv, Pushing

LEMMA PoolStep ==
    ASSUME ConvertTypeOK, PoolInv, [Next]_vars
    PROVE  PoolInv'
<1>1. CASE FileStep \/ FrameStep \/ UNCHANGED vars
  <2>1. UNCHANGED convert
    BY <1>1, FileStepKeeps, FrameStepKeeps DEF vars
  <2> QED
    BY <2>1 DEF PoolInv, Pushing, convert, workers
<1>2. ASSUME NEW c \in Callers, BeginCopy(c) \/ CopyStep(c) PROVE PoolInv'
  <2>0. copy \in [Callers -> Copies] /\ copy[c] \in Copies /\ worker \in [1..Workers -> Threads]
    BY DEF ConvertTypeOK
  <2>1. CASE BeginCopy(c)
    <3>1. /\ copy[c].at = "idle" /\ pool # "exiting" /\ UNCHANGED workers
          /\ \A d \in Callers \ {c} : copy'[d] = copy[d]
          /\ \/ copy'[c].at = "own"
             \/ copy'[c].at = "pool" /\ copy'[c].requested # 1
      BY <2>1, <2>0 DEF BeginCopy, CopyTo, At, Copies
    <3> QED
      BY <3>1 DEF PoolInv, Pushing, workers
  <2>2. CASE Construct(c)
    <3>1. PICK created \in 0..Workers :
            /\ worker' = [w \in 1..Workers |->
                  [at |-> IF w <= created THEN "awake" ELSE "gone", task |-> NoTask]]
            /\ IF created = Workers THEN pool' = "running" /\ UNCHANGED copy
               ELSE pool' = "stopping" /\ copy' = [copy EXCEPT ![c].at = "joining"]
      BY <2>2 DEF Construct
    <3>2. pool = "none" /\ queue = <<>> /\ queue' = queue /\ Workers \in Nat
      BY <2>2, WorkersAssumption DEF Construct, PoolInv
    <3>3. \A d \in Callers : copy[d].at # "joining" /\ ~Pushing(d)
      BY <3>2 DEF PoolInv
    <3>4. CASE created = Workers
      BY <3>1, <3>2, <3>3, <3>4 DEF PoolInv, Pushing
    <3>5. CASE created # Workers
      <4>1. /\ \A d \in Callers \ {c} : copy'[d] = copy[d]
            /\ copy'[c].at = "joining" /\ pool' = "stopping"
        BY <3>1, <3>5, <2>0 DEF Copies
      <4> QED
        BY <4>1, <3>1, <3>2, <3>3 DEF PoolInv, Pushing
    <3> QED
      BY <3>4, <3>5
  <2>3. CASE ConstructFailed(c)
    <3>1. /\ copy[c].at = "joining" /\ pool' = "none" /\ UNCHANGED <<queue, worker>>
          /\ \A d \in Callers \ {c} : copy'[d] = copy[d]
          /\ copy'[c].at = "returned"
      BY <2>3, <2>0 DEF ConstructFailed, At, Copies
    <3>2. pool = "stopping" /\ \A d \in Callers : copy[d].at = "joining" => d = c
      BY <3>1 DEF PoolInv
    <3> QED
      BY <3>1, <3>2 DEF PoolInv, Pushing
  <2>4. CASE Divide(c)
    <3>1. /\ copy[c].at = "pool" /\ pool = "running" /\ UNCHANGED workers
          /\ \A d \in Callers \ {c} : copy'[d] = copy[d]
          /\ \/ copy'[c].at = "own"
             \/ copy'[c].at = "push" /\ Parallelism(copy[c].requested) # 1
      BY <2>4, <2>0 DEF Divide, At, Copies
    <3>2. Parallelism(copy[c].requested) # 1 => Workers > 0
      BY <2>0, ParallelismBounds DEF Copies
    <3> QED
      BY <3>1, <3>2 DEF PoolInv, Pushing, workers
  <2>5. CASE Submit(c)
    <3>1. /\ copy[c].at = "push" /\ UNCHANGED <<pool, worker>>
          /\ \A d \in Callers \ {c} : copy'[d] = copy[d]
          /\ copy'[c].at = "notify"
      BY <2>5, <2>0 DEF Submit, At, Copies
    <3>2. pool = "running" /\ Workers > 0
      BY <3>1 DEF PoolInv, Pushing
    <3> QED
      BY <3>1, <3>2 DEF PoolInv, Pushing
  <2>6. CASE NotifyOne(c)
    <3>1. /\ copy[c].at = "notify" /\ UNCHANGED <<pool, queue>>
          /\ \A d \in Callers \ {c} : copy'[d] = copy[d]
          /\ copy'[c].at = "push"
      BY <2>6, <2>0 DEF NotifyOne, At, Copies
    <3>2. \A w \in 1..Workers :
            /\ worker'[w].task = worker[w].task
            /\ worker'[w].at = worker[w].at \/ (worker[w].at = "asleep" /\ worker'[w].at = "awake")
      <4>1. worker' = worker \/ \E w \in 1..Workers :
                worker[w].at = "asleep" /\ worker' = [worker EXCEPT ![w].at = "awake"]
        BY <2>6 DEF NotifyOne
      <4>2. CASE worker' = worker
        BY <4>2
      <4>3. ASSUME NEW v \in 1..Workers, worker[v].at = "asleep",
                   worker' = [worker EXCEPT ![v].at = "awake"]
            PROVE  \A w \in 1..Workers :
                    /\ worker'[w].task = worker[w].task
                    /\ \/ worker'[w].at = worker[w].at
                       \/ worker[w].at = "asleep" /\ worker'[w].at = "awake"
        BY <4>3, <2>0, ThreadAt
      <4> QED
        BY <4>1, <4>2, <4>3
    <3> QED
      BY <3>1, <3>2 DEF PoolInv, Pushing
  <2>7. CASE SubmitFailed(c) \/ OwnStripe(c) \/ Await(c)
    <3>1. CASE Throw(c)
      BY <2>7, <3>1, ThrowPool DEF SubmitFailed, OwnStripe, Await, At
    <3>2. CASE ~Throw(c)
      <4>1. /\ copy[c].at \in {"own", "await"} /\ UNCHANGED workers
            /\ \A d \in Callers \ {c} : copy'[d] = copy[d]
            /\ copy'[c].at \in {"await", "returned"}
        BY <2>7, <3>2, <2>0, ZenonT(60) DEF SubmitFailed, OwnStripe, Await, At, Copies
      <4> QED
        BY <4>1 DEF PoolInv, Pushing, workers
    <3> QED
      BY <3>1, <3>2
  <2>8. CASE Submitted(c) \/ Return(c)
    <3>1. /\ copy[c].at \in {"push", "returned"} /\ UNCHANGED workers
          /\ \A d \in Callers \ {c} : copy'[d] = copy[d]
          /\ copy'[c].at \in {"own", "idle"}
      BY <2>8, <2>0 DEF Submitted, Return, At, Copies, NoCopy
    <3> QED
      BY <3>1 DEF PoolInv, Pushing, workers
  <2> QED
    BY <1>2, <2>1, <2>2, <2>3, <2>4, <2>5, <2>6, <2>7, <2>8 DEF CopyStep
<1>3. ASSUME NEW w \in 1..Workers, WorkerStep(w) PROVE PoolInv'
  <2>0. worker \in [1..Workers -> Threads] /\ queue \in Seq(Tasks)
    BY DEF ConvertTypeOK
  <2>1. CASE Take(w)
    <3>1. /\ queue # <<>> /\ worker[w].at = "awake" /\ UNCHANGED <<pool, copy>>
          /\ worker'[w].at = "running" /\ worker'[w].task = Head(queue)
          /\ \A v \in (1..Workers) \ {w} : worker'[v] = worker[v]
      BY <2>1, <2>0 DEF Take
    <3>2. Head(queue) # NoTask
      <4>1. Head(queue) \in Tasks
        BY <3>1, <2>0
      <4> QED
        BY <4>1, WorkersAssumption DEF Tasks, NoTask
    <3>3. \A v \in 1..Workers : worker'[v].at # "gone"
      BY <3>1 DEF PoolInv
    <3>4. pool \notin {"none", "stopping"} /\ Workers > 0
      BY <3>1 DEF PoolInv
    <3> QED
      BY <3>1, <3>2, <3>3, <3>4 DEF PoolInv, Pushing
  <2>2. CASE Sleep(w) \/ Leave(w)
    <3>1. /\ queue = <<>> /\ UNCHANGED <<pool, queue, copy>>
          /\ \A v \in 1..Workers : worker'[v].task = worker[v].task
          /\ \A v \in (1..Workers) \ {w} : worker'[v] = worker[v]
          /\ worker[w].at = "awake" /\ worker'[w].at \in {"asleep", "gone"}
          /\ worker'[w].at = "gone" => pool # "running"
      <4>1. /\ queue = <<>> /\ UNCHANGED <<pool, queue, copy>> /\ worker[w].at = "awake"
            /\ \E a \in {"asleep", "gone"} : worker' = [worker EXCEPT ![w].at = a]
                                          /\ (a = "gone" => pool # "running")
        BY <2>2 DEF Sleep, Leave
      <4> QED
        BY <4>1, <2>0, ThreadAt
    <3> QED
      BY <3>1 DEF PoolInv, Pushing
  <2>3. CASE Stripe(w)
    <3>1. /\ UNCHANGED <<pool, queue>> /\ worker[w].at = "running"
          /\ worker'[w] = [at |-> "awake", task |-> NoTask]
          /\ \A v \in (1..Workers) \ {w} : worker'[v] = worker[v]
      BY <2>3, <2>0 DEF Stripe
    <3>2. \A c \in Callers : /\ copy'[c].at = copy[c].at
                             /\ copy'[c].requested = copy[c].requested
      <4> DEFINE task == worker[w].task
                 c == task.caller
                 k == task.row \div copy[c].rows
                 lines == Write(copy[c].lines, task.row, task.rows)
      <4>1. \/ copy' = copy
            \/ copy' = [copy EXCEPT ![c] = [@ EXCEPT !.futures[k] = "done", !.lines = lines]]
            \/ copy' = [copy EXCEPT ![c].futures[k] = "failed"]
        BY <2>3 DEF Stripe
      <4> DEFINE done == [copy[c] EXCEPT !.futures[k] = "done", !.lines = lines]
                 failed == [copy[c] EXCEPT !.futures[k] = "failed"]
      <4>2. copy' \in {copy, [copy EXCEPT ![c] = done], [copy EXCEPT ![c] = failed]}
        BY <4>1
      <4>3. c \in Callers => /\ done.at = copy[c].at /\ done.requested = copy[c].requested
                             /\ failed.at = copy[c].at /\ failed.requested = copy[c].requested
        BY DEF ConvertTypeOK, Copies
      <4> HIDE DEF c, k, lines, done, failed
      <4> QED
        BY <4>2, <4>3 DEF ConvertTypeOK
    <3> QED
      BY <3>1, <3>2 DEF PoolInv, Pushing
  <2> QED
    BY <1>3, <2>1, <2>2, <2>3 DEF WorkerStep
<1>4. CASE Shutdown \/ Exited
  <2>0. worker \in [1..Workers -> Threads]
    BY DEF ConvertTypeOK
  <2>1. /\ UNCHANGED <<queue, copy>> /\ \A c \in Callers : copy[c].at = "idle"
        /\ \A w \in 1..Workers : worker'[w].task = worker[w].task
        /\ \A w \in 1..Workers :
            \/ worker'[w].at = worker[w].at
            \/ worker[w].at = "asleep" /\ worker'[w].at = "awake"
    <3>1. /\ UNCHANGED <<queue, copy>> /\ \A c \in Callers : copy[c].at = "idle"
          /\ worker' = worker \/ worker' = [w \in 1..Workers |->
                [worker[w] EXCEPT !.at = IF @ = "asleep" THEN "awake" ELSE @]]
      BY <1>4 DEF Shutdown, Exited, At
    <3>2. \A w \in 1..Workers : worker[w] \in Threads
      BY <2>0
    <3>3. ASSUME NEW w \in 1..Workers, worker' # worker
          PROVE  /\ worker'[w].task = worker[w].task
                 /\ worker'[w].at = IF worker[w].at = "asleep" THEN "awake" ELSE worker[w].at
      <4> DEFINE now == IF worker[w].at = "asleep" THEN "awake" ELSE worker[w].at
      <4>1. worker'[w] = [worker[w] EXCEPT !.at = now]
        BY <3>1, <3>3
      <4> HIDE DEF now
      <4>2. worker'[w].task = worker[w].task /\ worker'[w].at = now
        BY <4>1, <3>2 DEF Threads
      <4> QED
        BY <4>2 DEF now
    <3> QED
      BY <3>1, <3>3
  <2>2. CASE Shutdown
    <3>1. pool' = "exiting" /\ pool = "running"
      BY <2>2 DEF Shutdown
    <3> QED
      BY <2>1, <3>1 DEF PoolInv, Pushing
  <2>3. CASE Exited
    <3>1. /\ pool = "exiting" /\ pool' = "none" /\ UNCHANGED worker
          /\ \A w \in 1..Workers : worker[w].at = "gone"
      BY <2>3 DEF Exited
    <3>2. queue = <<>>
      BY <3>1, WorkersAssumption DEF PoolInv
    <3> QED
      BY <2>1, <3>1, <3>2 DEF PoolInv, Pushing
  <2> QED
    BY <1>4, <2>2, <2>3
<1> QED
  BY <1>1, <1>2, <1>3, <1>4 DEF Next, ConvertStep

LEMMA PoolInit == Init => PoolInv
<1>1. ASSUME Init PROVE PoolInv
  BY <1>1, WorkersAssumption DEF Init, ConvertInit, PoolInv, Pushing, NoCopy
<1> QED
  BY <1>1

\* A worker or a notification is on its way to what is queued.
LEMMA ForgottenStep ==
    ASSUME ConvertTypeOK, PoolInv, PoolInv', NoTaskForgotten, [Next]_vars
    PROVE  NoTaskForgotten'
<1> DEFINE Awake(w) == worker[w].at \in {"awake", "running"}
<1>0. /\ copy \in [Callers -> Copies] /\ worker \in [1..Workers -> Threads]
      /\ queue \in Seq(Tasks)
  BY DEF ConvertTypeOK
<1>1. CASE FileStep \/ FrameStep \/ UNCHANGED vars
  <2>1. UNCHANGED convert
    BY <1>1, FileStepKeeps, FrameStepKeeps DEF vars
  <2> QED
    BY <2>1 DEF NoTaskForgotten, At, convert, workers
<1> SUFFICES ASSUME pool' = "running", queue' # <<>>, ConvertStep
             PROVE  \/ \E w \in 1..Workers : Awake(w)'
                    \/ \E c \in Callers : copy'[c].at = "notify"
  BY <1>1 DEF Next, NoTaskForgotten, At, PoolInv
<1>2. ASSUME NEW c \in Callers, BeginCopy(c) \/ CopyStep(c)
      PROVE  \/ \E w \in 1..Workers : Awake(w)'
             \/ \E d \in Callers : copy'[d].at = "notify"
  <2>1. CASE Construct(c)
    BY <2>1 DEF Construct, PoolInv
  <2>2. CASE ConstructFailed(c)
    BY <2>2 DEF ConstructFailed
  <2>3. CASE Submit(c)
    BY <2>3, <1>0 DEF Submit, Copies
  <2>4. CASE NotifyOne(c)
    <3>1. CASE \A w \in 1..Workers : worker[w].at # "asleep"
      <4>1. Workers > 0 /\ pool = "running" /\ worker' = worker /\ 1 \in 1..Workers
        BY <2>4, <3>1, WorkersAssumption DEF NotifyOne, At, PoolInv, Pushing
      <4>2. worker[1].at \in {"gone", "awake", "asleep", "running"} /\ worker[1].at # "gone"
        BY <4>1, <1>0 DEF Threads, PoolInv
      <4> QED
        BY <4>1, <4>2, <3>1
    <3>2. CASE ~(\A w \in 1..Workers : worker[w].at # "asleep")
      <4>1. \E w \in 1..Workers : worker' = [worker EXCEPT ![w].at = "awake"]
        BY <2>4, <3>2 DEF NotifyOne
      <4> QED
        BY <4>1, <1>0, ThreadAt
    <3> QED
      BY <3>1, <3>2
  <2>5. CASE Throw(c) /\ copy[c].at \in {"push", "own", "await"}
    <3>1. pool = "running" /\ queue # <<>>
      <4>1. queue = <<>> => DOMAIN queue' = {}
        BY <2>5 DEF Throw
      <4>2. queue' \in Seq(Tasks)
        BY <2>5, ThrowType DEF ConvertTypeOK
      <4> QED
        BY <2>5, <4>1, <4>2 DEF Throw
    <3>2. \A w \in 1..Workers : worker'[w].at = worker[w].at
      BY <2>5, <1>0 DEF Throw, Threads
    <3>3. \A d \in Callers : copy[d].at = "notify" => copy'[d].at = "notify"
      BY <2>5, <1>0 DEF Throw
    <3> QED
      BY <3>1, <3>2, <3>3 DEF NoTaskForgotten, At
  <2>6. CASE \/ BeginCopy(c) \/ Divide(c) \/ Submitted(c) \/ Return(c)
             \/ ((OwnStripe(c) \/ Await(c)) /\ ~Throw(c))
    <3>1. UNCHANGED workers
      BY <2>6 DEF BeginCopy, CopyTo, Divide, Submitted, Return, OwnStripe, Await
    <3>2. copy[c].at # "notify" /\ \A d \in Callers \ {c} : copy'[d] = copy[d]
      BY <2>6, <1>0 DEF BeginCopy, CopyTo, Divide, Submitted, Return, OwnStripe, Await, At
    <3> QED
      BY <3>1, <3>2 DEF NoTaskForgotten, At, workers
  <2> QED
    BY <1>2, <2>1, <2>2, <2>3, <2>4, <2>5, <2>6
       DEF CopyStep, SubmitFailed, OwnStripe, Await, At
<1>3. ASSUME NEW w \in 1..Workers, WorkerStep(w)
      PROVE  \E v \in 1..Workers : Awake(v)'
  <2>1. CASE Take(w) \/ Stripe(w)
    <3>1. \E a \in {"running", "awake"} : \E t :
            worker' = [worker EXCEPT ![w] = [at |-> a, task |-> t]]
      BY <2>1 DEF Take, Stripe
    <3> QED
      BY <3>1, <1>0
  <2>2. ~Sleep(w) /\ ~Leave(w)
    BY DEF Sleep, Leave
  <2> QED
    BY <1>3, <2>1, <2>2 DEF WorkerStep
<1>4. ~Shutdown /\ ~Exited
  BY DEF Shutdown, Exited
<1> QED
  BY <1>2, <1>3, <1>4 DEF ConvertStep

\* No stripe waits for a worker that nobody is going to wake, and the pool is
\* not destroyed around one: submit notifies after it has queued, a worker
\* sleeps and leaves only when it finds the queue empty, and the destructor
\* joins every worker (cpu_conversion_workers.cpp).
THEOREM Forgotten == Spec => []NoTaskForgotten
<1>1. Init => NoTaskForgotten
  BY DEF Init, ConvertInit, NoTaskForgotten
<1> QED
  BY <1>1, ConvertTypes, ConvertTypeInit, ConvertTypeStep, PoolInit, PoolStep,
     ForgottenStep, PTL DEF Spec

-----------------------------------------------------------------------------
(* Stripes.                                                                *)

LEMMA Multiples ==
    ASSUME NEW a \in Nat, NEW b \in Nat, NEW s \in Nat
    PROVE  /\ a * s \in Nat /\ (a + 1) * s = a * s + s
           /\ a <= b => a * s <= b * s
           /\ a < b => a * s + s <= b * s
           /\ s > 0 /\ a * s = b * s => a = b
           /\ s % 2 = 0 => (a * s) % 2 = 0
<1>1. ASSUME NEW n \in Nat, NEW m \in Nat, n <= m PROVE n * s <= m * s
  BY <1>1
<1>2. ASSUME a < b PROVE a * s + s <= b * s
  <2>1. (a + 1) * s <= b * s
    BY <1>1, <1>2
  <2> QED
    BY <2>1
<1>3. ASSUME b < a PROVE b * s + s <= a * s
  <2>1. (b + 1) * s <= a * s
    BY <1>1, <1>3
  <2> QED
    BY <2>1
<1>4. a * s \in Nat /\ b * s \in Nat
  OBVIOUS
<1>5. ASSUME s % 2 = 0 PROVE (a * s) % 2 = 0
  <2>1. PICK h \in Nat : s = 2 * h
    BY <1>5
  <2>2. a * h \in Nat
    OBVIOUS
  <2>3. a * s = 2 * (a * h)
    BY <2>1
  <2>4. \A x \in Nat : (2 * x) % 2 = 0
    OBVIOUS
  <2> QED
    BY <2>2, <2>3, <2>4
<1> QED
  BY <1>1, <1>2, <1>3, <1>4, <1>5

\* Abbreviations for what the type invariant says of a call and of a place.
LEMMA CallType ==
    ASSUME ConvertTypeOK, NEW c \in Callers
    PROVE  /\ copy \in [Callers -> Copies] /\ copy[c] \in Copies
           /\ copy[c].height \in Nat /\ copy[c].rows \in Nat /\ copy[c].next \in Nat
           /\ copy[c].futures \in Seq(Futures) /\ Len(copy[c].futures) \in Nat
           /\ DOMAIN copy[c].futures = 1..Len(copy[c].futures)
           /\ copy[c].lines \in Lines
<1>1. copy \in [Callers -> Copies] /\ copy[c] \in Copies
  BY DEF ConvertTypeOK
<1>2. copy[c].futures \in Seq(Futures)
  BY <1>1 DEF Copies, FutureSeqs
<1> QED
  BY <1>1, <1>2 DEF Copies

LEMMA PlaceType ==
    ASSUME ConvertTypeOK
    PROVE  /\ \A p \in Places : p \in Int /\ Task(p) \in Tasks \cup {NoTask}
           /\ \A p \in Places : Live(Task(p)) =>
                /\ Task(p) \in Tasks /\ Task(p).caller \in Callers
                /\ Task(p).row \in Nat /\ Task(p).rows \in Nat
           /\ \A k \in DOMAIN queue : k \in Places /\ Task(k) = queue[k]
           /\ \A w \in 1..Workers : -w \in Places /\ Task(-w) = worker[w].task
           /\ \A p \in Places : (p \in DOMAIN queue /\ p > 0) \/ (-p \in 1..Workers /\ ~(p > 0))
<1>1. DOMAIN queue = 1..Len(queue) /\ Len(queue) \in Nat /\ Workers \in Nat
      /\ \A k \in DOMAIN queue : queue[k] \in Tasks
  BY WorkersAssumption DEF ConvertTypeOK
<1>2. \A w \in 1..Workers : worker[w].task \in Tasks \cup {NoTask}
  BY DEF ConvertTypeOK, Threads
<1>3. \A k \in DOMAIN queue : k \in Places /\ Task(k) = queue[k] /\ k \in Int
  BY <1>1 DEF Places, Task
<1>4. \A w \in 1..Workers : -w \in Places /\ Task(-w) = worker[w].task /\ -w \in Int
  BY <1>1 DEF Places, Task
<1>5. \A p \in Places : p \in DOMAIN queue \/ \E w \in 1..Workers : p = -w
  BY DEF Places
<1>6. \A p \in Places : p \in Int /\ Task(p) \in Tasks \cup {NoTask}
  BY <1>1, <1>2, <1>3, <1>4, <1>5
<1>7. \A t \in Tasks \cup {NoTask} : Live(t) =>
        t \in Tasks /\ t.caller \in Callers /\ t.row \in Nat /\ t.rows \in Nat
  BY DEF Live, Tasks
<1>8. \A p \in Places : (p \in DOMAIN queue /\ p > 0) \/ (-p \in 1..Workers /\ ~(p > 0))
  BY <1>1, <1>5
<1> QED
  BY <1>3, <1>4, <1>6, <1>7, <1>8

\* A step of one call that leaves the stripes where they are.
LEMMA CallMoves ==
    ASSUME ConvertTypeOK, StripeInv, NEW c \in Callers,
           queue' = queue, \A w \in 1..Workers : worker'[w].task = worker[w].task,
           \A d \in Callers \ {c} : copy'[d] = copy[d],
           CallInv(copy'[c]), \A t : StripeOf(copy[c], t) => StripeOf(copy'[c], t)
    PROVE  StripeInv'
<1>1. Places' = Places /\ \A p \in Places : Task(p)' = Task(p)
  <2>1. Places' = Places
    BY DEF Places
  <2>2. \A p \in Places : -p \in 1..Workers \/ p > 0
    BY PlaceType
  <2> QED
    BY <2>1, <2>2 DEF Task
<1>2. \A d \in Callers : CallInv(copy'[d])
  BY DEF StripeInv
<1>3. \A p \in Places : Live(Task(p)) => StripeOf(copy'[Task(p).caller], Task(p))
  BY PlaceType DEF StripeInv
<1> QED
  BY <1>1, <1>2, <1>3 DEF StripeInv

\* A step of the workers that leaves the stripes where they are.
LEMMA StripesStay ==
    ASSUME ConvertTypeOK, StripeInv, UNCHANGED <<queue, copy>>,
           \A w \in 1..Workers : worker'[w].task = worker[w].task
    PROVE  StripeInv'
<1>1. Places' = Places /\ \A p \in Places : Task(p)' = Task(p)
  <2>1. Places' = Places
    BY DEF Places
  <2>2. \A p \in Places : -p \in 1..Workers \/ p > 0
    BY PlaceType
  <2> QED
    BY <2>1, <2>2 DEF Task
<1> QED
  BY <1>1 DEF StripeInv

LEMMA ThrowStripes ==
    ASSUME ConvertTypeOK, StripeInv, NEW c \in Callers, Throw(c), copy[c].at # "idle"
    PROVE  StripeInv'
<1>1. Places' = Places /\ \A p \in Places : Task(p)' = Abandoned(Task(p), c)
  <2>1. Places' = Places
    BY DEF Places, Throw
  <2>2. \A p \in Places : (p \in DOMAIN queue /\ p > 0) \/ (-p \in 1..Workers /\ ~(p > 0))
    BY PlaceType
  <2>3. \A k \in DOMAIN queue : k > 0 /\ queue'[k] = Abandoned(queue[k], c)
    BY DEF Throw, ConvertTypeOK
  <2>4. \A w \in 1..Workers : worker'[w].task = Abandoned(worker[w].task, c)
    BY DEF Throw, ConvertTypeOK, Threads
  <2> QED
    BY <2>1, <2>2, <2>3, <2>4 DEF Task
<1>2. \A p \in Places : Live(Task(p)') =>
        /\ Live(Task(p)) /\ Task(p).caller # c
        /\ Task(p)'.caller = Task(p).caller /\ Task(p)'.row = Task(p).row
        /\ Task(p)'.rows = Task(p).rows
  BY <1>1, PlaceType, AbandonedType DEF Live
<1>3. /\ \A d \in Callers \ {c} : copy'[d] = copy[d]
      /\ copy'[c].at = "returned" /\ copy'[c].result = "INTERNAL"
      /\ copy'[c].height = copy[c].height /\ copy'[c].lines = copy[c].lines
  BY CallType DEF Throw, Copies
<1>4. \A d \in Callers : CallInv(copy'[d])
  <2>1. CallInv(copy[c])
    BY DEF StripeInv
  <2>2. CallInv(copy'[c])
    BY <1>3, <2>1 DEF CallInv, Busy
  <2> QED
    BY <1>3, <2>2 DEF StripeInv
<1>5. \A p \in Places : Live(Task(p)') => StripeOf(copy'[Task(p)'.caller], Task(p)')
  <2> SUFFICES ASSUME NEW p \in Places, Live(Task(p)')
               PROVE  StripeOf(copy'[Task(p)'.caller], Task(p)')
    OBVIOUS
  <2>1. copy'[Task(p)'.caller] = copy[Task(p).caller] /\ StripeOf(copy[Task(p).caller], Task(p))
    BY <1>2, <1>3, PlaceType DEF StripeInv
  <2> QED
    BY <2>1, <1>2 DEF StripeOf
<1>6. \A p, q \in Places :
        Live(Task(p)') /\ Live(Task(q)') /\ Task(p)'.caller = Task(q)'.caller
            /\ Task(p)'.row = Task(q)'.row => p = q
  BY <1>2 DEF StripeInv
<1> QED
  BY <1>1, <1>4, <1>5, <1>6 DEF StripeInv

\* Submit: the new stripe begins where those before it end.
LEMMA SubmitStripes ==
    ASSUME ConvertTypeOK, StripeInv, NEW c \in Callers, Submit(c)
    PROVE  StripeInv'
<1> DEFINE call == copy[c]
           now == copy'[c]
           n == Len(call.futures)
           task == [caller |-> c, row |-> call.next, rows |-> Clipped(c), abandoned |-> FALSE]
<1>0. /\ copy \in [Callers -> Copies] /\ call \in Copies
      /\ call.height \in Nat /\ call.rows \in Nat /\ call.next \in Nat
      /\ call.futures \in Seq(Futures) /\ n \in Nat /\ CallInv(call)
  BY CallType DEF StripeInv
<1>1. /\ call.at = "push" /\ call.next < call.height
      /\ queue' = Append(queue, task) /\ UNCHANGED <<pool, worker>>
      /\ copy' = [copy EXCEPT ![c] = [call EXCEPT !.at = "notify",
            !.next = call.next + call.rows, !.futures = Append(call.futures, "pending")]]
  BY DEF Submit, At, Queued
<1>2. /\ \A d \in Callers \ {c} : copy'[d] = copy[d]
      /\ now.at = "notify" /\ now.next = call.next + call.rows
      /\ now.futures = Append(call.futures, "pending")
      /\ now.height = call.height /\ now.rows = call.rows /\ now.lines = call.lines
      /\ now.result = call.result
  BY <1>0, <1>1 DEF Copies
<1>3. /\ Len(now.futures) = n + 1 /\ now.futures[n + 1] = "pending"
      /\ \A k \in 1..n : now.futures[k] = call.futures[k]
  BY <1>0, <1>2
<1>4. /\ call.next = (n + 1) * call.rows /\ call.rows % 2 = 0 /\ call.rows > 0
      /\ call.result = "none" /\ DOMAIN call.lines = 0..(call.height - 1)
      /\ \A k \in 1..n : call.futures[k] = "done" => Converted(call, k)
  BY <1>0, <1>1 DEF CallInv, Busy
<1> HIDE DEF call, now, n
<1>5. CallInv(now)
  <2>1. now.next = (Len(now.futures) + 1) * now.rows
    <3>1. n + 1 \in Nat /\ (n + 1 + 1) * call.rows = (n + 1) * call.rows + call.rows
      BY <1>0, Multiples, SMTT(30)
    <3> QED
      BY <3>1, <1>0, <1>2, <1>3, <1>4
  <2>2. \A k \in 1..(n + 1) : now.futures[k] = "done" => k \in 1..n /\ call.futures[k] = "done"
    BY <1>0, <1>3
  <2>3. \A k : Converted(call, k) => Converted(now, k)
    BY <1>2 DEF Converted
  <2> QED
    BY <2>1, <2>2, <2>3, <1>0, <1>1, <1>2, <1>3, <1>4 DEF CallInv, Busy
<1>6. \A t : StripeOf(call, t) => StripeOf(now, t)
  BY <1>0, <1>1, <1>2, <1>3 DEF StripeOf, Busy
<1>7. task.row % 2 = 0 /\ StripeOf(now, task)
  <2>1. Clipped(c) = Smaller(call.rows, call.height - call.next)
    BY <1>0, MinOfTwo DEF Clipped, call
  <2>2. task.row % 2 = 0 /\ task.row = (n + 1) * now.rows
    <3>1. n + 1 \in Nat /\ task.row = call.next
      BY <1>0 DEF call
    <3>2. ((n + 1) * call.rows) % 2 = 0
      BY <3>1, <1>0, <1>4, Multiples
    <3> QED
      BY <3>1, <3>2, <1>2, <1>4
  <2>3. task.rows > 0 /\ task.row + task.rows <= call.height
    BY <2>1, <1>0, <1>1, <1>4 DEF Smaller
  <2> QED
    BY <2>1, <2>2, <2>3, <1>0, <1>2, <1>3 DEF StripeOf, Busy
<1>8. \A t : StripeOf(call, t) => t.row # task.row
  <2> SUFFICES ASSUME NEW t, StripeOf(call, t) PROVE t.row # task.row
    OBVIOUS
  <2>1. PICK k \in 1..n : t.row = k * call.rows
    BY DEF StripeOf, n
  <2>2. k \in Nat /\ n + 1 \in Nat /\ k # n + 1
    BY <1>0
  <2>3. k * call.rows # (n + 1) * call.rows
    BY <2>2, <1>0, <1>4, Multiples
  <2>4. task.row = call.next
    BY DEF call
  <2> QED
    BY <2>1, <2>3, <2>4, <1>4
<1>9. \E last \in Nat :
        /\ DOMAIN queue = 1..last /\ DOMAIN queue' = 1..(last + 1)
        /\ queue'[last + 1] = task /\ \A k \in DOMAIN queue : queue'[k] = queue[k]
  <2>1. queue \in Seq(Tasks) /\ queue' = Append(queue, task)
    BY <1>1 DEF ConvertTypeOK
  <2> HIDE DEF task
  <2>2. /\ Len(queue) \in Nat /\ DOMAIN queue = 1..Len(queue)
        /\ DOMAIN queue' = 1..(Len(queue) + 1) /\ queue'[Len(queue) + 1] = task
        /\ \A k \in DOMAIN queue : queue'[k] = queue[k]
    BY <2>1
  <2> QED
    BY <2>2
<1> HIDE DEF task
<1>a. PICK last \in Nat :
        /\ DOMAIN queue = 1..last /\ DOMAIN queue' = 1..(last + 1)
        /\ queue'[last + 1] = task /\ \A k \in DOMAIN queue : queue'[k] = queue[k]
  BY <1>9
<1>10. /\ Places' = Places \cup {last + 1} /\ Task(last + 1)' = task
       /\ \A p \in Places : Task(p)' = Task(p) /\ p # last + 1
  <2>1. Places' = Places \cup {last + 1}
    BY <1>1, <1>a DEF Places
  <2>2. Task(last + 1)' = task
    BY <1>a DEF Task
  <2>3. \A p \in Places : Task(p)' = Task(p) /\ p # last + 1
    BY <1>1, <1>a, PlaceType DEF Task
  <2> QED
    BY <2>1, <2>2, <2>3
<1>11. \A d \in Callers : CallInv(copy'[d])
  BY <1>2, <1>5 DEF StripeInv, now
<1>12. task.caller = c
  BY DEF task
<1>13. \A p \in Places : Live(Task(p)) =>
        /\ StripeOf(copy'[Task(p).caller], Task(p))
        /\ Task(p).caller = c => Task(p).row # task.row
  BY <1>2, <1>6, <1>8, PlaceType DEF StripeInv, now, call
<1>14. \A p \in Places' : Live(Task(p)') => StripeOf(copy'[Task(p)'.caller], Task(p)')
  BY <1>7, <1>10, <1>12, <1>13 DEF now
<1>15. \A p, q \in Places' :
        Live(Task(p)') /\ Live(Task(q)') /\ Task(p)'.caller = Task(q)'.caller
            /\ Task(p)'.row = Task(q)'.row => p = q
  <2>1. \A p, q \in Places :
        Live(Task(p)) /\ Live(Task(q)) /\ Task(p).caller = Task(q).caller
            /\ Task(p).row = Task(q).row => p = q
    BY DEF StripeInv
  <2> QED
    BY <2>1, <1>10, <1>12, <1>13
<1> QED
  BY <1>11, <1>14, <1>15 DEF StripeInv

\* Every row belongs to one stripe; once all are done, so is the image.
LEMMA AllConverted ==
    ASSUME NEW call, NEW n \in Nat, call.rows \in Nat \ {0}, call.height \in Nat,
           (n + 1) * call.rows >= call.height,
           DOMAIN call.lines = 0..(call.height - 1),
           call.lines \in Lines, \A k \in 0..n : Converted(call, k)
    PROVE  call.lines = [r \in 0..(call.height - 1) |-> Right(r)]
<1>1. ASSUME NEW r \in 0..(call.height - 1) PROVE call.lines[r] = Right(r)
  <2>1. PICK s \in Nat \ {0}, h \in Nat : s = call.rows /\ h = n + 1
    OBVIOUS
  <2>2. s * h >= call.height
    BY <2>1
  <2>3. r \in 0..(s * h - 1)
    BY <2>2
  <2> DEFINE k == r \div s
             m == r % s
  <2>4. k \in 0..(h - 1) /\ m \in 0..(s - 1) /\ r = k * s + m
    BY <2>3, DivModOf
  <2> HIDE DEF k, m
  <2>5. k \in 0..n /\ k * s \in Nat /\ k * s <= r /\ r < k * s + s
    <3>1. k \in 0..n /\ k \in Nat /\ s \in Nat /\ m \in Nat /\ m < s /\ r \in Nat
      BY <2>1, <2>4
    <3>2. PICK p \in Nat : p = k * s
      BY <3>1, Multiples
    <3>3. r = p + m
      BY <2>4, <3>2
    <3>4. p <= r /\ r < p + s
      BY <3>1, <3>3
    <3> QED
      BY <3>1, <3>2, <3>4
  <2> QED
    BY <2>1, <2>5 DEF Converted
<1>2. \E S : call.lines \in [0..(call.height - 1) -> S]
  BY DEF Lines
<1> QED
  BY <1>1, <1>2

LEMMA CopyStripes ==
    ASSUME ConvertTypeOK, StripeInv, NEW c \in Callers, BeginCopy(c) \/ CopyStep(c)
    PROVE  StripeInv'
<1> DEFINE call == copy[c]
           now == copy'[c]
<1>0. /\ copy \in [Callers -> Copies] /\ call \in Copies
      /\ call.height \in Nat /\ call.rows \in Nat /\ call.next \in Nat
      /\ call.futures \in Seq(Futures) /\ Len(call.futures) \in Nat
      /\ DOMAIN call.futures = 1..Len(call.futures)
      /\ call.lines \in Lines /\ CallInv(call)
  BY CallType DEF StripeInv
<1>1. CASE BeginCopy(c)
  <2>1. PICK height \in Heights, requested \in 0..MaxRequest :
          \E at \in {"pool", "own"}, rows \in {0, height} :
            /\ at = "own" => rows = height
            /\ copy' = [copy EXCEPT ![c] = [@ EXCEPT !.at = at,
                    !.height = height, !.requested = requested, !.rows = rows,
                    !.lines = [r \in 0..(height - 1) |-> NoLine]]]
    BY <1>1 DEF BeginCopy, CopyTo
  <2>2. call.at = "idle" /\ UNCHANGED workers
    BY <1>1 DEF BeginCopy, CopyTo, At
  <2>3. /\ \A d \in Callers \ {c} : copy'[d] = copy[d]
        /\ now.at \in {"pool", "own"} /\ now.height = height
        /\ now.at = "own" => now.rows = height
        /\ now.lines = [r \in 0..(height - 1) |-> NoLine]
        /\ now.futures = call.futures /\ now.result = call.result
    BY <1>0, <2>1 DEF Copies
  <2>4. height \in Nat \ {0}
    BY WorkersAssumption
  <2>5. call.futures = <<>> /\ call.result = "none"
    BY <1>0, <2>2 DEF CallInv
  <2>6. Len(now.futures) = 0 /\ (0 + 1) * height = height /\ DOMAIN now.lines = 0..(height - 1)
    BY <2>3, <2>4, <2>5
  <2> HIDE DEF call, now
  <2>7. CallInv(now)
    BY <2>3, <2>4, <2>5, <2>6 DEF CallInv, Busy
  <2>8. \A t : ~StripeOf(call, t)
    BY <2>2 DEF StripeOf, Busy
  <2> QED
    BY <2>2, <2>3, <2>7, <2>8, CallMoves DEF call, now, workers
<1>2. CASE Construct(c)
  <2>1. /\ call.at = "pool" /\ queue' = queue
        /\ \A w \in 1..Workers : worker'[w].task = NoTask
        /\ copy' = copy \/ copy' = [copy EXCEPT ![c].at = "joining"]
    BY <1>2 DEF Construct, At
  <2>2. /\ \A d \in Callers \ {c} : copy'[d] = copy[d]
        /\ now.at \in {"pool", "joining"} /\ now.height = call.height
        /\ now.futures = call.futures /\ now.result = call.result /\ now.lines = call.lines
    BY <1>0, <2>1 DEF Copies
  <2>3. CallInv(now)
    BY <1>0, <2>1, <2>2 DEF CallInv, Busy
  <2>4. \A t : ~StripeOf(call, t)
    BY <2>1 DEF StripeOf, Busy
  <2>5. Places' = Places /\ \A p \in Places : Task(p)' = NoTask \/ Task(p)' = Task(p)
    <3>1. Places' = Places
      BY <2>1 DEF Places
    <3> QED
      BY <3>1, <2>1, PlaceType DEF Task
  <2>6. \A p \in Places : Live(Task(p)') => Task(p)' = Task(p) /\ Task(p).caller # c
    BY <2>4, <2>5 DEF StripeInv, Live
  <2>7. \A d \in Callers : CallInv(copy'[d])
    BY <2>2, <2>3 DEF StripeInv
  <2>8. \A p \in Places : Live(Task(p)') => StripeOf(copy'[Task(p)'.caller], Task(p)')
    BY <2>2, <2>6, PlaceType DEF StripeInv
  <2>9. \A p, q \in Places :
          Live(Task(p)') /\ Live(Task(q)') /\ Task(p)'.caller = Task(q)'.caller
            /\ Task(p)'.row = Task(q)'.row => p = q
    BY <2>6 DEF StripeInv
  <2> QED
    BY <2>5, <2>7, <2>8, <2>9 DEF StripeInv
<1>3. CASE ConstructFailed(c) \/ Return(c)
  <2>1. /\ call.at \in {"joining", "returned"} /\ UNCHANGED <<queue, worker>>
        /\ \/ copy' = [copy EXCEPT ![c] = [@ EXCEPT !.at = "returned", !.result = "INTERNAL"]]
           \/ copy' = [copy EXCEPT ![c] = NoCopy]
    BY <1>3 DEF ConstructFailed, Return, At, workers
  <2>2. \A d \in Callers \ {c} : copy'[d] = copy[d]
    BY <1>0, <2>1
  <2>3. CallInv(now)
    <3>1. CASE now = NoCopy
      <4>1. DOMAIN NoCopy.lines = 0..(0 - 1)
        BY DEF NoCopy
      <4> QED
        BY <3>1, <4>1 DEF CallInv, Busy, NoCopy
    <3>2. CASE /\ now.at = "returned" /\ now.result = "INTERNAL"
               /\ now.height = call.height /\ now.lines = call.lines /\ call.at # "idle"
      BY <3>2, <1>0 DEF CallInv, Busy
    <3>3. CASE copy' = [copy EXCEPT ![c] = NoCopy]
      BY <3>1, <3>3, <1>0
    <3>4. CASE copy' = [copy EXCEPT ![c] = [@ EXCEPT !.at = "returned", !.result = "INTERNAL"]]
      <4>1. /\ now.at = "returned" /\ now.result = "INTERNAL"
            /\ now.height = call.height /\ now.lines = call.lines
        BY <3>4, <1>0 DEF Copies
      <4> QED
        BY <4>1, <3>2, <2>1
    <3> QED
      BY <3>3, <3>4, <2>1
  <2>4. \A t : ~StripeOf(call, t)
    BY <2>1 DEF StripeOf, Busy
  <2> QED
    BY <2>1, <2>2, <2>3, <2>4, CallMoves
<1>4. CASE Divide(c)
  <2> DEFINE count == Parallelism(call.requested)
             rows == RowsPerWorker(call.height, count)
  <2>1. /\ call.at = "pool" /\ UNCHANGED workers
        /\ copy' = [copy EXCEPT ![c] =
                IF count = 1 THEN [@ EXCEPT !.at = "own", !.rows = call.height]
                ELSE [@ EXCEPT !.at = "push", !.rows = rows, !.next = rows]]
    BY <1>4 DEF Divide, At
  <2>2. call.futures = <<>> /\ call.result = "none" /\ call.height > 0
        /\ DOMAIN call.lines = 0..(call.height - 1)
    BY <1>0, <2>1 DEF CallInv
  <2>3. rows \in Nat /\ rows > 0 /\ rows % 2 = 0
    <3>1. call.requested \in Nat
      BY <1>0 DEF Copies
    <3> QED
      BY <3>1, <1>0, <2>2, ParallelismBounds, RowsPerWorkerEven
  <2> HIDE DEF count, rows
  <2>4. /\ \A d \in Callers \ {c} : copy'[d] = copy[d]
        /\ now.height = call.height /\ now.futures = call.futures
        /\ now.result = call.result /\ now.lines = call.lines
        /\ \/ now.at = "own" /\ now.rows = call.height
           \/ now.at = "push" /\ now.rows = rows /\ now.next = rows
    BY <1>0, <2>1 DEF Copies
  <2>5. Len(now.futures) = 0 /\ (0 + 1) * rows = rows /\ (0 + 1) * call.height = call.height
    BY <1>0, <2>2, <2>3, <2>4
  <2> HIDE DEF call, now
  <2>6. CallInv(now)
    BY <1>0, <2>2, <2>3, <2>4, <2>5 DEF CallInv, Busy
  <2>7. \A t : ~StripeOf(call, t)
    BY <2>1 DEF StripeOf, Busy
  <2> QED
    BY <2>1, <2>4, <2>6, <2>7, CallMoves DEF call, now, workers
<1>5. CASE NotifyOne(c) \/ Submitted(c)
  <2>1. /\ \A w \in 1..Workers : worker'[w].task = worker[w].task
        /\ queue' = queue
    <3>1. worker' = worker \/ \E w \in 1..Workers : worker' = [worker EXCEPT ![w].at = "awake"]
      BY <1>5 DEF NotifyOne, Submitted, workers
    <3>2. worker \in [1..Workers -> Threads]
      BY DEF ConvertTypeOK
    <3>3. ASSUME NEW w \in 1..Workers, worker' = [worker EXCEPT ![w].at = "awake"]
          PROVE  \A v \in 1..Workers : worker'[v].task = worker[v].task
      BY <3>2, <3>3, ThreadAt
    <3> QED
      BY <3>1, <3>3, <1>5 DEF NotifyOne, Submitted, workers
  <2>2. \/ call.at = "notify" /\ copy' = [copy EXCEPT ![c].at = "push"]
        \/ /\ call.at = "push" /\ call.next >= call.height
           /\ copy' = [copy EXCEPT ![c].at = "own"]
    BY <1>5 DEF NotifyOne, Submitted, At
  <2>3. /\ \A d \in Callers \ {c} : copy'[d] = copy[d]
        /\ now.height = call.height /\ now.futures = call.futures /\ now.rows = call.rows
        /\ now.next = call.next /\ now.result = call.result /\ now.lines = call.lines
        /\ \/ call.at = "notify" /\ now.at = "push"
           \/ call.at = "push" /\ now.at = "own" /\ call.next >= call.height
    BY <1>0, <2>2 DEF Copies
  <2>4. \A k : Converted(call, k) => Converted(now, k)
    BY <2>3 DEF Converted
  <2>5. \A t : StripeOf(call, t) => StripeOf(now, t)
    BY <2>3 DEF StripeOf, Busy
  <2> HIDE DEF call, now
  <2>6. CallInv(now)
    BY <1>0, <2>3, <2>4 DEF CallInv, Busy
  <2> QED
    BY <2>1, <2>3, <2>5, <2>6, CallMoves DEF call, now
<1>6. CASE OwnStripe(c) /\ ~Throw(c)
  <2> DEFINE rows == Min({call.rows, call.height})
             lines == Write(call.lines, 0, rows)
  <2>1. /\ call.at = "own" /\ UNCHANGED workers
        /\ copy' = [copy EXCEPT ![c] = [@ EXCEPT !.at = "await", !.lines = lines]]
    BY <1>6 DEF OwnStripe, At
  <2>2. rows = Smaller(call.rows, call.height) /\ rows \in Nat
    BY <1>0, MinOfTwo DEF Smaller
  <2>3. DOMAIN call.lines = 0..(call.height - 1)
    BY <1>0 DEF CallInv
  <2>4. /\ DOMAIN lines = DOMAIN call.lines
        /\ \A r \in DOMAIN call.lines :
            lines[r] = IF 0 <= r /\ r < 0 + rows THEN Right(r) ELSE call.lines[r]
    <3>1. 0 \in Nat /\ 0 % 2 = 0
      OBVIOUS
    <3> HIDE DEF rows, call
    <3> QED
      BY <3>1, <1>0, <2>2, <2>3, WriteValues, SMTT(30)
  <2> HIDE DEF lines, rows
  <2>5. /\ \A d \in Callers \ {c} : copy'[d] = copy[d]
        /\ now.height = call.height /\ now.futures = call.futures /\ now.rows = call.rows
        /\ now.result = call.result /\ now.lines = lines /\ now.at = "await"
    BY <1>0, <2>1 DEF Copies
  <2>6. \A k : Converted(call, k) => Converted(now, k)
    BY <2>4, <2>5 DEF Converted
  <2>7. Converted(now, 0)
    BY <1>0, <2>2, <2>3, <2>4, <2>5 DEF Converted, Smaller
  <2>8. \A t : StripeOf(call, t) => StripeOf(now, t)
    BY <2>5 DEF StripeOf, Busy
  <2> HIDE DEF call, now
  <2>9. CallInv(now)
    BY <1>0, <2>1, <2>3, <2>4, <2>5, <2>6, <2>7 DEF CallInv, Busy
  <2> QED
    BY <2>1, <2>5, <2>8, <2>9, CallMoves DEF call, now, workers
<1>7. CASE Await(c) /\ ~Throw(c)
  <2>1. /\ call.at = "await" /\ UNCHANGED workers
        /\ \A k \in DOMAIN call.futures : call.futures[k] = "done"
        /\ copy' = [copy EXCEPT ![c] = [@ EXCEPT !.at = "returned", !.result = "OK"]]
    BY <1>7 DEF Await, At
  <2>2. /\ \A d \in Callers \ {c} : copy'[d] = copy[d]
        /\ now.height = call.height /\ now.lines = call.lines
        /\ now.result = "OK" /\ now.at = "returned"
    BY <1>0, <2>1 DEF Copies
  <2>3. /\ call.rows > 0 /\ (Len(call.futures) + 1) * call.rows >= call.height
        /\ DOMAIN call.lines = 0..(call.height - 1)
        /\ \A k \in 0..Len(call.futures) : Converted(call, k)
        /\ call.height > 0
    BY <1>0, <2>1 DEF CallInv, Busy
  <2> HIDE DEF call, now
  <2>4. call.lines = [r \in 0..(call.height - 1) |-> Right(r)]
    BY <1>0, <2>3, AllConverted
  <2>5. CallInv(now)
    BY <2>2, <2>3, <2>4 DEF CallInv, Busy
  <2>6. \A t : ~StripeOf(call, t)
    BY <1>0, <2>1 DEF StripeOf
  <2> QED
    BY <2>1, <2>2, <2>5, <2>6, CallMoves DEF call, now, workers
<1> QED
  BY <1>1, <1>2, <1>3, <1>4, <1>5, <1>6, <1>7, SubmitStripes, ThrowStripes
     DEF CopyStep, SubmitFailed, OwnStripe, Await, At

\* Take: the head of the queue goes to a worker, the others move up.
LEMMA TakeStripes ==
    ASSUME ConvertTypeOK, PoolInv, StripeInv, NEW w \in 1..Workers, Take(w)
    PROVE  StripeInv'
<1>1. /\ queue \in Seq(Tasks) /\ queue # <<>> /\ worker \in [1..Workers -> Threads]
      /\ worker[w].at = "awake" /\ UNCHANGED copy /\ queue' = Tail(queue)
      /\ worker' = [worker EXCEPT ![w] = [at |-> "running", task |-> Head(queue)]]
  BY DEF Take, ConvertTypeOK
<1>2. PICK last \in Nat \ {0} :
        /\ DOMAIN queue = 1..last /\ DOMAIN queue' = 1..(last - 1)
        /\ \A k \in 1..(last - 1) : queue'[k] = queue[k + 1]
        /\ Head(queue) = queue[1]
  <2>1. Len(queue) \in Nat \ {0} /\ DOMAIN queue = 1..Len(queue) /\ Head(queue) = queue[1]
    BY <1>1
  <2>2. /\ DOMAIN Tail(queue) = 1..(Len(queue) - 1)
        /\ \A k \in 1..(Len(queue) - 1) : Tail(queue)[k] = queue[k + 1]
    BY <1>1, <2>1
  <2> QED
    BY <1>1, <2>1, <2>2
<1>3. /\ worker'[w].task = queue[1]
      /\ \A v \in (1..Workers) \ {w} : worker'[v].task = worker[v].task
  BY <1>1, <1>2
<1> DEFINE From(p) == IF p > 0 THEN p + 1 ELSE IF p = -w THEN 1 ELSE p
<1>4. \A p \in Places' : p \in Int /\ From(p) \in Places /\ Task(p)' = Task(From(p))
  <2> SUFFICES ASSUME NEW p \in Places'
               PROVE  p \in Int /\ From(p) \in Places /\ Task(p)' = Task(From(p))
    OBVIOUS
  <2>1. CASE p \in DOMAIN queue'
    <3>1. p \in Int /\ p > 0 /\ p + 1 \in DOMAIN queue /\ p + 1 > 0 /\ queue'[p] = queue[p + 1]
      BY <2>1, <1>2
    <3> QED
      BY <3>1 DEF Places, Task
  <2>2. CASE \E v \in 1..Workers : p = -v
    <3>1. PICK v \in 1..Workers : p = -v
      BY <2>2
    <3>2. p \in Int /\ ~(p > 0) /\ -p = v /\ (p = -w <=> v = w) /\ 1 \in DOMAIN queue
      BY <3>1, <1>2, WorkersAssumption
    <3>3. Task(p)' = worker'[v].task
      BY <3>2 DEF Task
    <3>4. v = w => Task(1) = queue[1]
      BY DEF Task
    <3>5. v # w => Task(p) = worker[v].task
      BY <3>2 DEF Task
    <3> QED
      BY <3>1, <3>2, <3>3, <3>4, <3>5, <1>3 DEF Places
  <2> QED
    BY <2>1, <2>2 DEF Places
<1>5. \A p, q \in Places' : From(p) = From(q) => p = q
  <2>1. \A p \in Places' : p > 0 => p >= 1 /\ From(p) >= 2
    BY <1>4
  <2>2. \A p \in Places' : ~(p > 0) => From(p) = 1 \/ From(p) <= 0
    BY <1>4
  <2> QED
    BY <2>1, <2>2, <1>4, WorkersAssumption
<1> HIDE DEF From
<1>6. \A p \in Places' : Live(Task(p)') => StripeOf(copy'[Task(p)'.caller], Task(p)')
  BY <1>1, <1>4 DEF StripeInv
<1>7. \A p, q \in Places' :
        Live(Task(p)') /\ Live(Task(q)') /\ Task(p)'.caller = Task(q)'.caller
            /\ Task(p)'.row = Task(q)'.row => p = q
  BY <1>4, <1>5 DEF StripeInv
<1> QED
  BY <1>1, <1>6, <1>7 DEF StripeInv

\* Stripe: the rows it writes are those its future stands for.
LEMMA DoneStripes ==
    ASSUME ConvertTypeOK, PoolInv, StripeInv, NEW w \in 1..Workers, Stripe(w)
    PROVE  StripeInv'
<1> DEFINE task == worker[w].task
           c == task.caller
           call == copy[c]
           now == copy'[c]
           k == task.row \div call.rows
           lines == Write(call.lines, task.row, task.rows)
<1>1. /\ queue' = queue /\ worker \in [1..Workers -> Threads] /\ worker[w].at = "running"
      /\ worker' = [worker EXCEPT ![w] = [at |-> "awake", task |-> NoTask]]
      /\ task # NoTask /\ task \in Tasks
  <2>1. /\ queue' = queue /\ worker \in [1..Workers -> Threads] /\ worker[w].at = "running"
        /\ worker' = [worker EXCEPT ![w] = [at |-> "awake", task |-> NoTask]]
    BY DEF Stripe, ConvertTypeOK
  <2>2. task # NoTask
    BY <2>1 DEF PoolInv
  <2>3. worker[w] \in Threads
    BY <2>1
  <2>4. task \in Tasks
    BY <2>2, <2>3 DEF Threads
  <2> QED
    BY <2>1, <2>2, <2>4
<1>2. Places' = Places /\ \A p \in Places : Task(p)' = IF p = -w THEN NoTask ELSE Task(p)
  <2>1. Places' = Places
    BY <1>1 DEF Places
  <2>2. worker'[w].task = NoTask /\ \A v \in (1..Workers) \ {w} : worker'[v].task = worker[v].task
    BY <1>1
  <2>3. \A p \in Places : p \in Int
    BY PlaceType
  <2>4. \A p \in Places : (p \in DOMAIN queue /\ p > 0) \/ (-p \in 1..Workers /\ ~(p > 0))
    BY PlaceType
  <2>5. w \in Nat /\ w > 0
    BY WorkersAssumption
  <2>6. \A p \in Places : p > 0 => Task(p)' = Task(p) /\ p # -w
    BY <1>1, <2>3, <2>5 DEF Task
  <2>7. \A p \in Places : ~(p > 0) => Task(p)' = worker'[-p].task /\ Task(p) = worker[-p].task
                                      /\ (p = -w <=> -p = w)
    BY <2>3, <2>5 DEF Task
  <2> QED
    BY <2>1, <2>2, <2>4, <2>6, <2>7
<1>3. \A p \in Places : Live(Task(p)') => Task(p)' = Task(p) /\ p # -w
  BY <1>2 DEF Live
<1>4. \A p, q \in Places :
        Live(Task(p)') /\ Live(Task(q)') /\ Task(p)'.caller = Task(q)'.caller
            /\ Task(p)'.row = Task(q)'.row => p = q
  BY <1>3 DEF StripeInv
<1>5. CASE task.abandoned
  <2>1. copy' = copy
    BY <1>5 DEF Stripe
  <2> QED
    BY <1>2, <1>3, <1>4, <2>1 DEF StripeInv
<1>6. CASE ~task.abandoned
  <2>1. /\ c \in Callers /\ task.row \in Nat /\ task.rows \in Nat
        /\ -w \in Places /\ Task(-w) = task /\ Live(task)
    BY <1>1, <1>6, PlaceType DEF Tasks, Live
  <2>2. /\ copy \in [Callers -> Copies] /\ call \in Copies /\ CallInv(call)
        /\ call.height \in Nat /\ call.rows \in Nat
        /\ call.futures \in Seq(Futures) /\ Len(call.futures) \in Nat
        /\ DOMAIN call.futures = 1..Len(call.futures)
    BY <2>1, CallType DEF StripeInv
  <2>3. StripeOf(call, task)
    BY <2>1 DEF StripeInv
  <2> DEFINE n == Len(call.futures)
             done == [call.futures EXCEPT ![k] = "done"]
             failed == [call.futures EXCEPT ![k] = "failed"]
  <2>4. \/ copy' = [copy EXCEPT ![c] = [call EXCEPT !.futures = done, !.lines = lines]]
        \/ copy' = [copy EXCEPT ![c] = [call EXCEPT !.futures = failed]]
    BY <1>6 DEF Stripe
  <2>5. k \in 1..n /\ call.rows > 0 /\ task.row = k * call.rows
    <3>1. PICK j \in 1..n : task.row = j * call.rows
      BY <2>3 DEF StripeOf
    <3>2. call.rows \in Nat \ {0} /\ j \in Nat
      <4>1. Busy(call) => call.rows > 0
        BY <2>2 DEF CallInv
      <4> QED
        BY <4>1, <2>2, <2>3, SMTT(30) DEF StripeOf
    <3>3. PICK s \in Nat \ {0} : s = call.rows
      BY <3>2
    <3>4. j * s \in Nat /\ j * s + 0 = j * s /\ 0 \in 0..(s - 1)
      BY <3>2, <3>3, Multiples
    <3>5. (j * s) \div s = j
      BY <3>2, <3>3, <3>4, DivMod
    <3>6. task.row \div call.rows = j
      BY <3>1, <3>3, <3>5
    <3> QED
      BY <3>1, <3>2, <3>6
  <2> HIDE DEF k
  <2>6. /\ DOMAIN lines = DOMAIN call.lines
        /\ \A r \in DOMAIN call.lines : lines[r] =
            IF task.row <= r /\ r < task.row + task.rows THEN Right(r) ELSE call.lines[r]
    <3>1. task.row % 2 = 0 /\ DOMAIN call.lines = 0..(call.height - 1)
      BY <2>2, <2>3 DEF StripeOf, CallInv
    <3> QED
      BY <3>1, <2>1, <2>2, WriteValues, ZenonT(60)
  <2>7. /\ \A d \in Callers \ {c} : copy'[d] = copy[d]
        /\ now.at = call.at /\ now.height = call.height /\ now.rows = call.rows
        /\ now.next = call.next /\ now.result = call.result
        /\ \/ now.futures = done /\ now.lines = lines
           \/ now.futures = failed /\ now.lines = call.lines
    <3> HIDE DEF done, failed, lines, c
    <3> QED
      BY <2>1, <2>2, <2>4, ZenonT(60) DEF Copies
  <2>8. Len(now.futures) = n
    BY <2>2, <2>7, SMTT(30)
  <2>9. \A j \in 1..n : j # k => now.futures[j] = call.futures[j]
    BY <2>2, <2>7
  <2>10. \A j : Converted(call, j) => Converted(now, j)
    <3> HIDE DEF lines, done, failed
    <3> QED
      BY <2>6, <2>7 DEF Converted
  <2>11. now.futures[k] = "done" => Converted(now, k)
    <3>1. now.futures[k] = "done" => now.lines = lines
      BY <2>2, <2>5, <2>7
    <3>2. task.rows = Smaller(call.rows, call.height - task.row)
      BY <2>3 DEF StripeOf
    <3>3. DOMAIN call.lines = 0..(call.height - 1)
      BY <2>2 DEF CallInv
    <3> HIDE DEF lines, now, call, task
    <3>4. \A r \in DOMAIN call.lines : k * call.rows <= r /\ r < k * call.rows + call.rows =>
            lines[r] = Right(r)
      <4> SUFFICES ASSUME NEW r \in DOMAIN call.lines, task.row <= r, r < task.row + call.rows
                   PROVE  lines[r] = Right(r)
        BY <2>5
      <4>1. /\ r \in Int /\ r < call.height /\ task.row \in Int /\ call.rows \in Int
            /\ call.height \in Int
        BY <2>1, <2>2, <3>3
      <4>2. r < task.row + task.rows
        BY <3>2, <4>1 DEF Smaller
      <4> QED
        BY <2>6, <4>2
    <3> QED
      BY <2>6, <2>7, <3>1, <3>4 DEF Converted
  <2>12. DOMAIN now.lines = DOMAIN call.lines
    BY <2>6, <2>7
  <2>13. Busy(call)
    BY <2>3 DEF StripeOf
  <2> HIDE DEF lines, done, failed, call, now, n
  <2>14. CallInv(now)
    <3>1. \A j \in 1..Len(now.futures) : now.futures[j] = "done" => Converted(now, j)
      BY <2>2, <2>8, <2>9, <2>10, <2>11, <2>13 DEF CallInv, n
    <3>2. now.result # "OK"
      BY <2>2, <2>7, <2>13 DEF CallInv, Busy
    <3> QED
      BY <2>2, <2>7, <2>8, <2>10, <2>12, <2>13, <3>1, <3>2 DEF CallInv, Busy, n
  <2>15. \A t : StripeOf(call, t) /\ t.row # task.row => StripeOf(now, t)
    <3> SUFFICES ASSUME NEW t, StripeOf(call, t), t.row # task.row PROVE StripeOf(now, t)
      OBVIOUS
    <3>1. PICK j \in 1..n : call.futures[j] = "pending" /\ t.row = j * call.rows
      BY DEF StripeOf, n
    <3>2. j # k /\ now.futures[j] = "pending"
      BY <3>1, <2>5, <2>9
    <3> QED
      BY <2>7, <2>8, <3>1, <3>2 DEF StripeOf, Busy, n
  <2>16. \A p \in Places : Live(Task(p)') => StripeOf(copy'[Task(p)'.caller], Task(p)')
    <3> SUFFICES ASSUME NEW p \in Places, Live(Task(p)')
                 PROVE  StripeOf(copy'[Task(p)'.caller], Task(p)')
      OBVIOUS
    <3>1. Task(p)' = Task(p) /\ p # -w /\ Live(Task(p)) /\ Task(p).caller \in Callers
          /\ StripeOf(copy[Task(p).caller], Task(p))
      BY <1>3, PlaceType DEF StripeInv
    <3>2. Task(p).caller = c => Task(p).row # task.row
      BY <2>1, <3>1 DEF StripeInv
    <3> QED
      BY <2>7, <2>15, <3>1, <3>2 DEF call, now
  <2>17. \A d \in Callers : CallInv(copy'[d])
    BY <2>7, <2>14 DEF StripeInv, now
  <2> QED
    BY <1>2, <1>4, <2>16, <2>17 DEF StripeInv
<1> QED
  BY <1>5, <1>6

LEMMA StripeStep ==
    ASSUME ConvertTypeOK, PoolInv, StripeInv, [Next]_vars
    PROVE  StripeInv'
<1>1. CASE FileStep \/ FrameStep \/ UNCHANGED vars
  <2>1. UNCHANGED convert
    BY <1>1, FileStepKeeps, FrameStepKeeps DEF vars
  <2>2. Places' = Places /\ \A p \in Places : Task(p)' = Task(p)
    BY <2>1 DEF Places, Task, convert, workers
  <2> QED
    BY <2>1, <2>2 DEF StripeInv, convert
<1>2. ASSUME NEW w \in 1..Workers, WorkerStep(w) PROVE StripeInv'
  <2>1. CASE Sleep(w) \/ Leave(w)
    <3>1. /\ UNCHANGED <<queue, copy>>
          /\ \E a \in {"asleep", "gone"} : worker' = [worker EXCEPT ![w].at = a]
      BY <2>1 DEF Sleep, Leave
    <3>2. \A v \in 1..Workers : worker'[v].task = worker[v].task
      BY <3>1, ThreadAt DEF ConvertTypeOK
    <3> QED
      BY <3>1, <3>2, StripesStay
  <2> QED
    BY <1>2, <2>1, TakeStripes, DoneStripes DEF WorkerStep
<1>3. CASE Shutdown \/ Exited
  <2>1. /\ UNCHANGED <<queue, copy>>
        /\ worker' = worker \/ worker' = [w \in 1..Workers |->
                [worker[w] EXCEPT !.at = IF @ = "asleep" THEN "awake" ELSE @]]
    BY <1>3 DEF Shutdown, Exited
  <2>2. \A w \in 1..Workers : worker[w] \in Threads
    BY DEF ConvertTypeOK
  <2>3. ASSUME NEW w \in 1..Workers, worker' # worker PROVE worker'[w].task = worker[w].task
    <3> DEFINE now == IF worker[w].at = "asleep" THEN "awake" ELSE worker[w].at
    <3>1. worker'[w] = [worker[w] EXCEPT !.at = now]
      BY <2>1, <2>3
    <3> HIDE DEF now
    <3> QED
      BY <3>1, <2>2 DEF Threads
  <2> QED
    BY <2>1, <2>3, StripesStay
<1> QED
  BY <1>1, <1>2, <1>3, CopyStripes DEF Next, ConvertStep

LEMMA StripeInit == Init => StripeInv
<1> SUFFICES ASSUME Init PROVE StripeInv
  OBVIOUS
<1>1. \A c \in Callers : copy[c] = NoCopy
  BY DEF Init, ConvertInit
<1>2. CallInv(NoCopy)
  <2>1. DOMAIN NoCopy.lines = 0..(0 - 1)
    BY DEF NoCopy
  <2> QED
    BY <2>1 DEF CallInv, Busy, NoCopy
<1>3. \A p \in Places : ~Live(Task(p))
  <2>1. \A p \in Places : -p \in 1..Workers /\ ~(p > 0)
    BY WorkersAssumption DEF Init, ConvertInit, Places
  <2> QED
    BY <2>1 DEF Init, ConvertInit, Task, Live
<1> QED
  BY <1>1, <1>2, <1>3 DEF StripeInv

LEMMA StripesHold == Spec => [](ConvertTypeOK /\ PoolInv /\ StripeInv)
<1> QED
  BY ConvertTypeInit, ConvertTypeStep, PoolInit, PoolStep, StripeInit, StripeStep, PTL DEF Spec

\* A stripe lies in the frame of the call that waits for it: no worker writes
\* past the planes of the caller (convert_i420_packed).
THEOREM StripesFit == Spec => []StripesInside
<1>1. ConvertTypeOK /\ StripeInv => StripesInside
  <2> SUFFICES ASSUME ConvertTypeOK, StripeInv,
                      NEW t \in {queue[k] : k \in DOMAIN queue} \cup
                                {worker[w].task : w \in 1..Workers},
                      t # NoTask, ~t.abandoned
               PROVE  t.rows > 0 /\ t.row + t.rows <= copy[t.caller].height
    BY DEF StripesInside
  <2>1. \E p \in Places : Task(p) = t
    BY PlaceType
  <2> QED
    BY <2>1 DEF StripeInv, StripeOf, Live
<1> QED
  BY <1>1, StripesHold, PTL

\* A copy that reports success has written every row, each from the luma and
\* the chroma row it belongs to, whatever stripes it was cut into.
THEOREM StripesDone == Spec => []StripesComplete
<1>1. ConvertTypeOK /\ StripeInv => StripesComplete
  BY DEF StripeInv, CallInv, StripesComplete, Right
<1> QED
  BY <1>1, StripesHold, PTL

-----------------------------------------------------------------------------
(* Pixels.  A plane is read at column x of row y; Wide and High are the    *)
(* size of component c of an image, Sample what its pixel is made of.      *)

Wide(width, c) == IF c = 1 THEN width ELSE width \div 2
Sample(image, c, x, y) ==
    IF c = 1 THEN <<1, image.crop_x + x, image.crop_y + y>>
    ELSE <<c, (image.crop_x \div 2) + x, (image.crop_y \div 2) + y>>

\* A plane without padding that shows the window at <<a, b>> of component c.
Window(plane, c, a, b, w, h) ==
    /\ DOMAIN plane = 0..(w * h - 1)
    /\ \A y \in 0..(h - 1) : \A x \in 0..(w - 1) : plane[y * w + x] = <<c, a + x, b + y>>

\* Three of them: what decoders give out, and what an I420 encoder is given.
Tidy(planes, image) ==
    /\ DOMAIN planes = 1..3
    /\ Window(planes[1], 1, image.crop_x, image.crop_y, image.width, image.height)
    /\ \A c \in {2, 3} :
        Window(planes[c], c, image.crop_x \div 2, image.crop_y \div 2,
               image.width \div 2, image.height \div 2)

LEMMA Index ==
    ASSUME NEW w \in Nat, NEW h \in Nat, NEW y \in 0..(h - 1), NEW x \in 0..(w - 1)
    PROVE  /\ y * w \in Nat /\ y * w + x \in 0..(w * h - 1)
           /\ (y * w + x) \div w = y /\ (y * w + x) % w = x
<1>1. y \in Nat /\ w \in Nat \ {0} /\ h \in Nat /\ y < h /\ x \in Nat /\ x < w
  OBVIOUS
<1>2. (y * w + x) \div w = y /\ (y * w + x) % w = x
  BY <1>1, DivMod
<1>3. y * w \in Nat /\ y * w + w <= h * w
  BY <1>1, Multiples
<1>4. h * w = w * h
  OBVIOUS
<1> QED
  BY <1>1, <1>2, <1>3, <1>4

LEMMA IndexOf ==
    ASSUME NEW w \in Nat, NEW h \in Nat, NEW k \in 0..(w * h - 1)
    PROVE  k \div w \in 0..(h - 1) /\ k % w \in 0..(w - 1) /\ k = (k \div w) * w + (k % w)
<1>1. w # 0
  <2> SUFFICES ASSUME w = 0 PROVE FALSE
    OBVIOUS
  <2>1. w * h = 0
    OBVIOUS
  <2> QED
    BY <2>1
<1> QED
  BY <1>1, DivModOf

\* copy_plane: byte x of row y is byte x of row y of the source.
Reads(plane, source, from, stride, bytes, rows) ==
    /\ DOMAIN plane = 0..(bytes * rows - 1)
    /\ \A y \in 0..(rows - 1) : \A x \in 0..(bytes - 1) :
        plane[y * bytes + x] = source[from + y * stride + x]

LEMMA CopyPlaneAt ==
    ASSUME NEW source, NEW from \in Nat, NEW stride \in Nat, NEW bytes \in Nat, NEW rows \in Nat
    PROVE  Reads(CopyPlane(source, from, stride, bytes, rows), source, from, stride, bytes, rows)
<1> DEFINE plane == CopyPlane(source, from, stride, bytes, rows)
<1>1. plane = [k \in 0..(bytes * rows - 1) |-> source[from + (k \div bytes) * stride + (k % bytes)]]
  BY DEF CopyPlane
<1>2. ASSUME NEW y \in 0..(rows - 1), NEW x \in 0..(bytes - 1)
      PROVE  plane[y * bytes + x] = source[from + y * stride + x]
  <2> DEFINE k == y * bytes + x
  <2>1. k \in 0..(bytes * rows - 1) /\ k \div bytes = y /\ k % bytes = x
    BY Index
  <2> HIDE DEF k
  <2>2. plane[k] = source[from + (k \div bytes) * stride + (k % bytes)]
    BY <1>1, <2>1
  <2>3. plane[k] = source[from + y * stride + x]
    BY <2>1, <2>2
  <2> QED
    BY <2>3 DEF k
<1> HIDE DEF plane
<1>3. Reads(plane, source, from, stride, bytes, rows)
  BY <1>1, <1>2 DEF Reads
<1> QED
  BY <1>3 DEF plane

LEMMA MemoryAt ==
    ASSUME NEW c, NEW pitch \in Nat, NEW rows \in Nat,
           NEW y \in 0..(rows - 1), NEW x \in 0..(pitch - 1)
    PROVE  Memory(c, pitch, rows)[y * pitch + x] = <<c, x, y>>
<1> DEFINE k == y * pitch + x
<1>1. k \in 0..(pitch * rows - 1) /\ k \div pitch = y /\ k % pitch = x
  BY Index
<1> HIDE DEF k
<1>2. Memory(c, pitch, rows)[k] = <<c, x, y>>
  BY <1>1 DEF Memory
<1> QED
  BY <1>2 DEF k

LEMMA PairAt ==
    ASSUME NEW pitch \in Nat, pitch % 2 = 0, NEW y \in Nat, NEW x \in Nat
    PROVE  (y * pitch + x) % 2 = x % 2
<1>1. (y * pitch) % 2 = 0 /\ y * pitch \in Nat
  BY Multiples
<1> QED
  BY <1>1, HalfOf

LEMMA MemoryUVAt ==
    ASSUME NEW pitch \in Nat, pitch % 2 = 0, NEW rows \in Nat,
           NEW y \in 0..(rows - 1), NEW x \in 0..(pitch - 1)
    PROVE  MemoryUV(pitch, rows)[y * pitch + x] = <<2 + (x % 2), x \div 2, y>>
<1> DEFINE k == y * pitch + x
<1>1. k \in 0..(pitch * rows - 1) /\ k \div pitch = y /\ k % pitch = x
  BY Index
<1>2. k % 2 = x % 2
  <2>1. y \in Nat /\ x \in Nat
    OBVIOUS
  <2> QED
    BY <2>1, PairAt
<1> HIDE DEF k
<1>3. MemoryUV(pitch, rows)[k] = <<2 + (x % 2), x \div 2, y>>
  BY <1>1, <1>2 DEF MemoryUV
<1> QED
  BY <1>3 DEF k

LEMMA MemoryWordsAt ==
    ASSUME NEW c, NEW pitch \in Nat, pitch % 2 = 0, NEW rows \in Nat,
           NEW y \in 0..(rows - 1), NEW x \in 0..(pitch - 1), x % 2 = 0
    PROVE  MemoryWords(c, pitch, rows)[y * pitch + x] = <<c, x \div 2, y>>
<1> DEFINE k == y * pitch + x
<1>1. k \in 0..(pitch * rows - 1) /\ k \div pitch = y /\ k % pitch = x
  BY Index
<1>2. k % 2 = 0
  <2>1. y \in Nat /\ x \in Nat
    OBVIOUS
  <2> QED
    BY <2>1, PairAt
<1> HIDE DEF k
<1>3. MemoryWords(c, pitch, rows)[k] = <<c, x \div 2, y>>
  BY <1>1, <1>2 DEF MemoryWords
<1> QED
  BY <1>3 DEF k

\* A copy of the window at column a of row b is that window.
LEMMA WindowAt ==
    ASSUME NEW c, NEW pitch \in Nat, NEW rows \in Nat, NEW a \in Nat, NEW b \in Nat,
           NEW w \in Nat, NEW h \in Nat, a + w <= pitch, b + h <= rows,
           NEW from, from = b * pitch + a
    PROVE  Window(CopyPlane(Memory(c, pitch, rows), from, pitch, w, h), c, a, b, w, h)
<1> DEFINE source == Memory(c, pitch, rows)
           plane == CopyPlane(source, from, pitch, w, h)
<1>1. from \in Nat
  BY Multiples
<1>2. Reads(plane, source, from, pitch, w, h)
  <2> HIDE DEF source
  <2> QED
    BY <1>1, CopyPlaneAt
<1>3. ASSUME NEW y \in 0..(h - 1), NEW x \in 0..(w - 1)
      PROVE  source[from + y * pitch + x] = <<c, a + x, b + y>>
  <2>1. PICK row \in 0..(rows - 1) : row = b + y
    OBVIOUS
  <2>2. PICK column \in 0..(pitch - 1) : column = a + x
    OBVIOUS
  <2>3. row * pitch + column = from + y * pitch + x
    BY <2>1, <2>2
  <2>4. source[row * pitch + column] = <<c, column, row>>
    BY MemoryAt, ZenonT(60)
  <2> QED
    BY <2>1, <2>2, <2>3, <2>4
<1> HIDE DEF plane, source
<1>4. Window(plane, c, a, b, w, h)
  BY <1>2, <1>3 DEF Reads, Window
<1> QED
  BY <1>4 DEF source, plane

\* Every second byte of NV12 chroma, where c is 0 for U and 1 for V.
Halves(half, uv, c, w, h) ==
    /\ DOMAIN half = 0..((w \div 2) * h - 1)
    /\ \A y \in 0..(h - 1) : \A x \in 0..((w \div 2) - 1) :
        half[y * (w \div 2) + x] = uv[y * w + (2 * x + c)]

LEMMA ChromaAt ==
    ASSUME NEW uv, NEW w \in Nat, NEW h \in Nat, w % 2 = 0,
           DOMAIN uv = 0..(w * h - 1), NEW c \in {0, 1}
    PROVE  Halves(Component(uv, c), uv, c, w, h)
<1>1. PICK half \in Nat : half = w \div 2 /\ w = 2 * half
  BY HalfOf
<1>2. w * h = 2 * (half * h) /\ half * h \in Nat
  BY <1>1
<1>3. Cardinality(DOMAIN uv) = w * h
  <2>1. w * h \in Nat
    BY <1>2
  <2>2. Cardinality(0..(w * h - 1)) = IF 0 > w * h - 1 THEN 0 ELSE (w * h - 1) - 0 + 1
    BY <2>1, FS_Interval
  <2> QED
    BY <2>1, <2>2
<1>4. (w * h) \div 2 = half * h
  BY <1>2
<1>5. Component(uv, c) = [k \in 0..(half * h - 1) |-> uv[2 * k + c]]
  BY <1>3, <1>4 DEF Component
<1>6. ASSUME NEW y \in 0..(h - 1), NEW x \in 0..(half - 1)
      PROVE  Component(uv, c)[y * half + x] = uv[y * w + (2 * x + c)]
  <2> DEFINE k == y * half + x
  <2>1. k \in 0..(half * h - 1)
    BY Index
  <2>2. 2 * k + c = y * w + (2 * x + c)
    BY <1>1
  <2> HIDE DEF k
  <2>3. Component(uv, c)[k] = uv[2 * k + c]
    BY <1>5, <2>1
  <2> QED
    BY <2>2, <2>3 DEF k
<1> DEFINE plane == Component(uv, c)
<1>7. DOMAIN plane = 0..(half * h - 1)
  BY <1>5
<1> HIDE DEF plane
<1>8. Halves(plane, uv, c, w, h)
  BY <1>1, <1>6, <1>7 DEF Halves, plane
<1> QED
  BY <1>8 DEF plane

LEMMA ImageFacts ==
    ASSUME NEW image \in Images, ~Refused(image)
    PROVE  /\ image.api \in Apis
           /\ image.width \in Nat \ {0} /\ image.height \in Nat \ {0}
           /\ image.width % 2 = 0 /\ image.height % 2 = 0
           /\ image.pitch \in Nat /\ image.rows \in Nat
           /\ image.crop_x \in Nat /\ image.crop_y \in Nat
           /\ image.crop_x % 2 = 0 /\ image.crop_y % 2 = 0
           /\ image.crop_x + image.width <= image.pitch
           /\ image.crop_y + image.height <= image.rows
           /\ image.api # "vpl" => image.crop_x = 0 /\ image.crop_y = 0
           /\ image.api \in {"vpl", "nvdec"} => image.pitch % 2 = 0
           /\ image.api = "aom16" => 2 * image.width <= image.pitch /\ image.pitch % 4 = 0
<1>1. Readable(image)
  BY MediaAssumption
<1> QED
  BY <1>1 DEF Readable, Refused, Even

\* Halves of an image and of its memory.
LEMMA HalfFits ==
    ASSUME NEW a \in Nat, NEW w \in Nat, NEW p \in Nat, a % 2 = 0, w % 2 = 0, a + w <= p
    PROVE  /\ a \div 2 \in Nat /\ w \div 2 \in Nat /\ p \div 2 \in Nat
           /\ a \div 2 + w \div 2 <= p \div 2
           /\ a = 2 * (a \div 2) /\ w = 2 * (w \div 2)
<1> QED
  OBVIOUS

\* One half of a copy of NV12 chroma is the window of U, or of V.
LEMMA ChromaWindow ==
    ASSUME NEW source, NEW from \in Nat, NEW pitch \in Nat, NEW w \in Nat, NEW h \in Nat,
           w % 2 = 0, NEW a \in Nat, NEW b \in Nat, NEW c \in {0, 1},
           \A y \in 0..(h - 1) : \A x \in 0..(w - 1) :
                source[from + y * pitch + x] = <<2 + (x % 2), a + (x \div 2), b + y>>
    PROVE  Window(Component(CopyPlane(source, from, pitch, w, h), c), 2 + c, a, b, w \div 2, h)
<1> DEFINE uv == CopyPlane(source, from, pitch, w, h)
<1>1. Reads(uv, source, from, pitch, w, h)
  BY CopyPlaneAt
<1> HIDE DEF uv
<1>2. DOMAIN uv = 0..(w * h - 1)
  BY <1>1 DEF Reads
<1> DEFINE half == Component(uv, c)
<1>3. Halves(half, uv, c, w, h)
  BY <1>2, ChromaAt
<1> HIDE DEF half
<1>4. ASSUME NEW y \in 0..(h - 1), NEW x \in 0..((w \div 2) - 1)
      PROVE  uv[y * w + (2 * x + c)] = <<2 + c, a + x, b + y>>
  <2>1. PICK column \in 0..(w - 1) : column = 2 * x + c
    OBVIOUS
  <2>2. column % 2 = c /\ column \div 2 = x
    BY <2>1
  <2>3. uv[y * w + column] = source[from + y * pitch + column]
    BY <1>1 DEF Reads
  <2>4. source[from + y * pitch + column] = <<2 + (column % 2), a + (column \div 2), b + y>>
    OBVIOUS
  <2> QED
    BY <2>1, <2>2, <2>3, <2>4
<1>5. Window(half, 2 + c, a, b, w \div 2, h)
  BY <1>3, <1>4 DEF Window, Halves
<1> QED
  BY <1>5 DEF half, uv

\* copy_image of the VP9 decoder, and of AV1 for 8-bit samples.
LEMMA CopyImageTidy ==
    ASSUME NEW image \in Images, ~Refused(image), image.crop_x = 0, image.crop_y = 0
    PROVE  Tidy(CopyImage(image), image)
<1> DEFINE w == image.width   h == image.height   p == image.pitch   n == image.rows
<1>1. /\ w \in Nat /\ h \in Nat /\ p \in Nat /\ n \in Nat /\ w <= p /\ h <= n
      /\ w % 2 = 0 /\ h % 2 = 0
  BY ImageFacts
<1>2. /\ w \div 2 \in Nat /\ h \div 2 \in Nat /\ p \div 2 \in Nat /\ n \div 2 \in Nat
      /\ w \div 2 <= p \div 2 /\ h \div 2 <= n \div 2
  <2> HIDE DEF w, h, p, n
  <2>1. \A a, b \in Nat : a <= b => a \div 2 \in Nat /\ a \div 2 <= b \div 2
    OBVIOUS
  <2>2. n \div 2 \in Nat /\ p \div 2 \in Nat
    BY <1>1
  <2> QED
    BY <1>1, <2>1, <2>2
<1>3. Window(CopyPlane(Memory(1, p, n), 0, p, w, h), 1, 0, 0, w, h)
  <2> HIDE DEF w, h, p, n
  <2>1. 0 = 0 * p + 0 /\ 0 + w <= p /\ 0 + h <= n
    BY <1>1
  <2> QED
    BY <1>1, <2>1, WindowAt
<1>4. \A c : Window(CopyPlane(Memory(c, p \div 2, n \div 2), 0, p \div 2, w \div 2, h \div 2),
                    c, 0, 0, w \div 2, h \div 2)
  <2> TAKE c
  <2>1. PICK q \in Nat : q = p \div 2
    BY <1>2
  <2>2. PICK m \in Nat : m = n \div 2
    BY <1>2
  <2>3. PICK v \in Nat : v = w \div 2
    BY <1>2
  <2>4. PICK k \in Nat : k = h \div 2
    BY <1>2
  <2>5. 0 = 0 * q + 0 /\ 0 + v <= q /\ 0 + k <= m
    BY <1>2, <2>1, <2>2, <2>3, <2>4
  <2>6. Window(CopyPlane(Memory(c, q, m), 0, q, v, k), c, 0, 0, v, k)
    BY <2>5, WindowAt
  <2> QED
    BY <2>1, <2>2, <2>3, <2>4, <2>6
<1> QED
  BY <1>3, <1>4 DEF Tidy, CopyImage

\* copy_image of the AV1 decoder of a libaom that keeps samples in words.
LEMMA CopyImageAv1Tidy ==
    ASSUME NEW image \in Images, ~Refused(image), image.api \in {"aom", "aom16"}
    PROVE  Tidy(CopyImageAv1(image), image)
<1>1. image.crop_x = 0 /\ image.crop_y = 0
  BY ImageFacts
<1>2. CASE image.api = "aom"
  BY <1>1, <1>2, CopyImageTidy DEF CopyImageAv1
<1>3. CASE image.api = "aom16"
  <2> DEFINE Narrow(c, pitch, width, height) ==
            [k \in 0..(width * height - 1) |->
                MemoryWords(c, pitch, height)[(k \div width) * pitch + 2 * (k % width)]]
             w == image.width   h == image.height   p == image.pitch
  <2>1. /\ w \in Nat /\ h \in Nat /\ p \in Nat /\ 2 * w <= p /\ p % 4 = 0
        /\ w % 2 = 0 /\ h % 2 = 0
    BY <1>3, ImageFacts
  <2>2. ASSUME NEW c, NEW q \in Nat, NEW v \in Nat, NEW k \in Nat, q % 2 = 0, 2 * v <= q
        PROVE  Window(Narrow(c, q, v, k), c, 0, 0, v, k)
    <3> DEFINE plane == Narrow(c, q, v, k)
    <3>1. ASSUME NEW y \in 0..(k - 1), NEW x \in 0..(v - 1)
          PROVE  plane[y * v + x] = <<c, 0 + x, 0 + y>>
      <4> DEFINE i == y * v + x
      <4>1. i \in 0..(v * k - 1) /\ i \div v = y /\ i % v = x
        BY Index
      <4> HIDE DEF i
      <4>2. plane[i] = MemoryWords(c, q, k)[(i \div v) * q + 2 * (i % v)]
        BY <4>1
      <4>3. PICK column \in 0..(q - 1) : column = 2 * x
        BY <2>2
      <4>4. column % 2 = 0 /\ column \div 2 = x
        BY <4>3
      <4>5. MemoryWords(c, q, k)[y * q + column] = <<c, column \div 2, y>>
        BY <2>2, <4>4, MemoryWordsAt
      <4>6. plane[i] = <<c, x, y>>
        BY <4>1, <4>2, <4>3, <4>4, <4>5
      <4>7. 0 + x = x /\ 0 + y = y
        OBVIOUS
      <4> QED
        BY <4>6, <4>7 DEF i
    <3>2. DOMAIN plane = 0..(v * k - 1)
      OBVIOUS
    <3> HIDE DEF plane
    <3>3. Window(plane, c, 0, 0, v, k)
      BY <3>1, <3>2 DEF Window
    <3> QED
      BY <3>3 DEF plane
  <2>3. CopyImageAv1(image) =
            <<Narrow(1, p, w, h), Narrow(2, p \div 2, w \div 2, h \div 2),
              Narrow(3, p \div 2, w \div 2, h \div 2)>>
    BY <1>3 DEF CopyImageAv1
  <2>4. p % 2 = 0 /\ (p \div 2) % 2 = 0 /\ p \div 2 \in Nat /\ w \div 2 \in Nat
        /\ h \div 2 \in Nat /\ 2 * (w \div 2) <= p \div 2
    BY <2>1
  <2> HIDE DEF Narrow
  <2>5. Window(Narrow(1, p, w, h), 1, 0, 0, w, h)
    BY <2>1, <2>2, <2>4
  <2>6. \A c \in {2, 3} : Window(Narrow(c, p \div 2, w \div 2, h \div 2), c, 0, 0,
                                  w \div 2, h \div 2)
    BY <2>2, <2>4
  <2>7. 0 \div 2 = 0
    OBVIOUS
  <2> QED
    BY <1>1, <2>3, <2>5, <2>6, <2>7 DEF Tidy
<1> QED
  BY <1>2, <1>3

\* The Intel decoder reads a locked surface from the crop on.
LEMMA CopySurfaceTidy ==
    ASSUME NEW image \in Images, ~Refused(image), image.api = "vpl"
    PROVE  Tidy(CopySurface(image), image)
<1> DEFINE w == image.width   h == image.height   p == image.pitch   n == image.rows
           a == image.crop_x   b == image.crop_y
<1>1. /\ w \in Nat /\ h \in Nat /\ p \in Nat /\ n \in Nat /\ a \in Nat /\ b \in Nat
      /\ w % 2 = 0 /\ h % 2 = 0 /\ a % 2 = 0 /\ b % 2 = 0 /\ p % 2 = 0
      /\ a + w <= p /\ b + h <= n
  BY ImageFacts
<1> DEFINE from == (b \div 2) * p + a
           source == MemoryUV(p, n \div 2)
           uv == CopyPlane(source, from, p, w, h \div 2)
<1>2. CopySurface(image) =
        <<CopyPlane(Memory(1, p, n), b * p + a, p, w, h), Component(uv, 0), Component(uv, 1)>>
  BY DEF CopySurface
<1> HIDE DEF w, h, p, n, a, b
<1>3. Window(CopyPlane(Memory(1, p, n), b * p + a, p, w, h), 1, a, b, w, h)
  BY <1>1, WindowAt
<1>4. /\ h \div 2 \in Nat /\ b \div 2 \in Nat /\ a \div 2 \in Nat /\ n \div 2 \in Nat
      /\ b \div 2 + h \div 2 <= n \div 2 /\ a = 2 * (a \div 2)
  BY <1>1, HalfFits
<1>5. from \in Nat
  BY <1>1, <1>4, Multiples
<1>6. ASSUME NEW y \in 0..((h \div 2) - 1), NEW x \in 0..(w - 1)
      PROVE  source[from + y * p + x] = <<2 + (x % 2), a \div 2 + (x \div 2), b \div 2 + y>>
  <2>1. PICK row \in 0..((n \div 2) - 1) : row = b \div 2 + y
    BY <1>4
  <2>2. PICK column \in 0..(p - 1) : column = a + x
    BY <1>1
  <2>3. row * p + column = from + y * p + x
    BY <1>1, <1>4, <2>1, <2>2
  <2>4. source[row * p + column] = <<2 + (column % 2), column \div 2, row>>
    BY <1>1, <1>4, MemoryUVAt, ZenonT(60)
  <2>5. column % 2 = x % 2 /\ column \div 2 = a \div 2 + (x \div 2)
    BY <1>1, <2>2
  <2> QED
    BY <2>1, <2>3, <2>4, <2>5
<1> HIDE DEF from, source
<1>7. \A c \in {0, 1} : Window(Component(uv, c), 2 + c, a \div 2, b \div 2, w \div 2, h \div 2)
  BY <1>1, <1>4, <1>5, <1>6, ChromaWindow
<1>8. Window(Component(uv, 0), 2, a \div 2, b \div 2, w \div 2, h \div 2)
      /\ Window(Component(uv, 1), 3, a \div 2, b \div 2, w \div 2, h \div 2)
  BY <1>7
<1> HIDE DEF uv
<1> QED
  BY <1>2, <1>3, <1>8 DEF Tidy, w, h, a, b

\* NVDEC's chroma begins where its luma of visible rows ends.
LEMMA CopyNvdecTidy ==
    ASSUME NEW image \in Images, ~Refused(image), image.api = "nvdec"
    PROVE  Tidy(CopyNvdec(image), image)
<1> DEFINE w == image.width   h == image.height   p == image.pitch
           size == p * h
           surface == [k \in 0..(size + size \div 2 - 1) |->
                IF k < size THEN Memory(1, p, h)[k] ELSE MemoryUV(p, h \div 2)[k - size]]
           uv == CopyPlane(surface, size, p, w, h \div 2)
<1>1. /\ w \in Nat /\ h \in Nat /\ p \in Nat /\ w % 2 = 0 /\ h % 2 = 0 /\ p % 2 = 0
      /\ w <= p /\ image.crop_x = 0 /\ image.crop_y = 0
  BY ImageFacts
<1>2. CopyNvdec(image) =
        <<CopyPlane(surface, 0, p, w, h), Component(uv, 0), Component(uv, 1)>>
  BY DEF CopyNvdec
<1> HIDE DEF w, h, p
<1>3. PICK half \in Nat : half = h \div 2 /\ h = 2 * half
  BY <1>1
<1>4. size \in Nat /\ size \div 2 = p * half /\ p * half \in Nat
  <2>1. size = 2 * (p * half) /\ p * half \in Nat
    BY <1>1, <1>3
  <2> QED
    BY <2>1
<1>5. ASSUME NEW y \in 0..(h - 1), NEW x \in 0..(w - 1)
      PROVE  surface[y * p + x] = <<1, 0 + x, 0 + y>>
  <2> DEFINE k == y * p + x
  <2>1. x \in 0..(p - 1)
    BY <1>1
  <2>2. k \in 0..(p * h - 1)
    BY <1>1, <2>1, Index
  <2>3. Memory(1, p, h)[k] = <<1, x, y>>
    <3>1. \A c : Memory(c, p, h)[k] = <<c, x, y>>
      BY <1>1, <2>1, MemoryAt, ZenonT(60)
    <3> HIDE DEF k
    <3> QED
      BY <3>1
  <2> HIDE DEF k
  <2>4. k \in 0..(size + size \div 2 - 1) /\ k < size
    BY <1>4, <2>2
  <2>5. surface[k] = <<1, x, y>>
    BY <2>3, <2>4
  <2>6. 0 + x = x /\ 0 + y = y
    OBVIOUS
  <2> QED
    BY <2>5, <2>6 DEF k
<1>6. ASSUME NEW y \in 0..(half - 1), NEW x \in 0..(w - 1)
      PROVE  surface[size + y * p + x] = <<2 + (x % 2), 0 + (x \div 2), 0 + y>>
  <2> DEFINE k == y * p + x
  <2>1. x \in 0..(p - 1)
    BY <1>1
  <2>2. k \in 0..(p * half - 1)
    BY <1>1, <2>1, Index
  <2>3. MemoryUV(p, half)[k] = <<2 + (x % 2), x \div 2, y>>
    BY <1>1, <2>1, MemoryUVAt
  <2>4. size + k = size + y * p + x
    <3>1. y * p \in Nat
      BY <1>1, <2>1, Index
    <3> QED
      BY <1>4, <3>1
  <2> HIDE DEF k
  <2>5. size + k \in 0..(size + size \div 2 - 1) /\ ~(size + k < size) /\ (size + k) - size = k
    BY <1>4, <2>2
  <2>6. surface[size + k] = <<2 + (x % 2), x \div 2, y>>
    BY <1>3, <2>3, <2>5
  <2>7. 0 + (x \div 2) = x \div 2 /\ 0 + y = y
    OBVIOUS
  <2> QED
    BY <2>4, <2>6, <2>7
<1> HIDE DEF surface, size
<1>7. Window(CopyPlane(surface, 0, p, w, h), 1, 0, 0, w, h)
  <2> DEFINE plane == CopyPlane(surface, 0, p, w, h)
  <2>1. Reads(plane, surface, 0, p, w, h)
    BY <1>1, CopyPlaneAt
  <2> HIDE DEF plane
  <2>2. \A y \in 0..(h - 1) : \A x \in 0..(w - 1) : 0 + y * p + x = y * p + x
    BY <1>1
  <2>3. Window(plane, 1, 0, 0, w, h)
    BY <1>5, <2>1, <2>2 DEF Reads, Window
  <2> QED
    BY <2>3 DEF plane
<1>8. \A c \in {0, 1} : Window(Component(uv, c), 2 + c, 0, 0, w \div 2, half)
  BY <1>1, <1>3, <1>4, <1>6, ChromaWindow
<1>9. Window(Component(uv, 0), 2, 0, 0, w \div 2, half)
      /\ Window(Component(uv, 1), 3, 0, 0, w \div 2, half)
  BY <1>8
<1>10. 0 \div 2 = 0
  OBVIOUS
<1> HIDE DEF uv
<1> QED
  BY <1>1, <1>2, <1>3, <1>7, <1>9, <1>10 DEF Tidy, w, h

\* What a decoder hands out is the image, sample by sample.
LEMMA DecodedTidy ==
    ASSUME NEW image \in Images, Decode, frame' # NoFrame, frame'.image = image
    PROVE  ~Refused(image) /\ Tidy(frame'.planes, image)
<1>1. /\ ~Refused(image)
      /\ frame'.planes =
            CASE image.api = "vpx" -> CopyImage(image)
              [] image.api \in {"aom", "aom16"} -> CopyImageAv1(image)
              [] image.api = "vpl" -> CopySurface(image)
              [] OTHER -> CopyNvdec(image)
  BY DEF Decode
<1>2. image.api \in Apis
  BY <1>1, ImageFacts
<1>3. CASE image.api = "vpx"
  <2>1. image.crop_x = 0 /\ image.crop_y = 0
    BY <1>1, <1>3, ImageFacts
  <2> QED
    BY <1>1, <1>3, <2>1, CopyImageTidy
<1>4. CASE image.api \in {"aom", "aom16"}
  BY <1>1, <1>4, CopyImageAv1Tidy
<1>5. CASE image.api = "vpl"
  BY <1>1, <1>5, CopySurfaceTidy
<1>6. CASE image.api = "nvdec"
  BY <1>1, <1>6, CopyNvdecTidy
<1> QED
  BY <1>2, <1>3, <1>4, <1>5, <1>6 DEF Apis

-----------------------------------------------------------------------------
(* The caller's planes.  ByteOf is what byte k of row y of plane i holds.  *)

ByteOf(view, i, image, k, y) ==
    LET per == Len(Channels(view.format))
        x == k \div per
    IN  CASE view.format \in Packed ->
                <<Channels(view.format)[1 + (k % per)], Sample(image, 1, x, y),
                  Sample(image, 2, x \div 2, y \div 2), Sample(image, 3, x \div 2, y \div 2)>>
          [] view.format = "NV12" /\ i = 2 -> Sample(image, 2 + (k % 2), k \div 2, y)
          [] OTHER -> Sample(image, i, k, y)
IsView(view) ==
    view = [format |-> view.format, width |-> view.width, height |-> view.height,
            strides |-> view.strides, aligned |-> view.aligned]
Carried(view, planes, image) ==
    /\ IsView(view)
    /\ view.format \in Formats /\ view.width = image.width /\ view.height = image.height
    /\ \A i \in Planes(view) :
        LET bytes == RowBytes(view.format, view.width)[i]
        IN  /\ view.strides[i] \in Nat /\ view.strides[i] >= bytes
            /\ \A y \in 0..(Rows(i, view.height) - 1) : \A k \in 0..(bytes - 1) :
                planes[i][y * view.strides[i] + k] = ByteOf(view, i, image, k, y)

LEMMA TidyAt ==
    ASSUME NEW image, NEW planes, Tidy(planes, image)
    PROVE  /\ \A y \in 0..(image.height - 1) : \A x \in 0..(image.width - 1) :
                planes[1][y * image.width + x] = Sample(image, 1, x, y)
           /\ \A c \in {2, 3} : \A y \in 0..((image.height \div 2) - 1) :
                \A x \in 0..((image.width \div 2) - 1) :
                    planes[c][y * (image.width \div 2) + x] = Sample(image, c, x, y)
<1>1. ASSUME NEW y \in 0..(image.height - 1), NEW x \in 0..(image.width - 1)
      PROVE  planes[1][y * image.width + x] = Sample(image, 1, x, y)
  BY DEF Tidy, Window, Sample
<1>2. ASSUME NEW c \in {2, 3}, NEW y \in 0..((image.height \div 2) - 1),
             NEW x \in 0..((image.width \div 2) - 1)
      PROVE  planes[c][y * (image.width \div 2) + x] = Sample(image, c, x, y)
  BY DEF Tidy, Window, Sample
<1> QED
  BY <1>1, <1>2

\* The formats: their planes, the bytes of a row and the rows of a plane.
LEMMA FormatPlanes ==
    ASSUME NEW view, view.format \in Formats, view.width \in Nat, view.height \in Nat
    PROVE  /\ view.format = "I420" =>
                /\ Planes(view) = 1..3
                /\ RowBytes("I420", view.width)[1] = view.width
                /\ RowBytes("I420", view.width)[2] = view.width \div 2
                /\ RowBytes("I420", view.width)[3] = view.width \div 2
           /\ view.format = "NV12" =>
                /\ Planes(view) = 1..2
                /\ RowBytes("NV12", view.width)[1] = view.width
                /\ RowBytes("NV12", view.width)[2] = view.width
           /\ view.format \in Packed =>
                /\ Planes(view) = {1}
                /\ RowBytes(view.format, view.width)[1]
                        = view.width * Len(Channels(view.format))
                /\ Len(Channels(view.format)) \in {3, 4}
                /\ Channels(view.format) = Order(view.format)
           /\ \A i \in Planes(view) :
                RowBytes(view.format, view.width)[i] \in Nat /\ Rows(i, view.height) \in Nat
<1> DEFINE w == view.width
<1> HIDE DEF w
<1>1. CASE view.format = "I420"
  <2>1. RowBytes("I420", w) = <<w, w \div 2, w \div 2>>
    BY DEF RowBytes, Packed
  <2> QED
    BY <1>1, <2>1 DEF Planes, Rows, Packed, w
<1>2. CASE view.format = "NV12"
  <2>1. RowBytes("NV12", w) = <<w, w>>
    BY DEF RowBytes
  <2> QED
    BY <1>2, <2>1 DEF Planes, Rows, Packed, w
<1>3. CASE view.format = "BGRA32"
  <2>1. RowBytes("BGRA32", w) = <<w * 4>>
    BY DEF RowBytes
  <2>2. Channels("BGRA32") = <<"B", "G", "R", "A">> /\ Order("BGRA32") = <<"B", "G", "R", "A">>
    BY DEF Channels, FourChannels, Order
  <2>3. Len(Channels("BGRA32")) = 4 /\ Channels("BGRA32") = Order("BGRA32")
    BY <2>2
  <2>4. Planes(view) = {1} /\ RowBytes(view.format, w)[1] = w * 4 /\ w * 4 \in Nat
    <3>1. \A x : DOMAIN <<x>> = {1} /\ <<x>>[1] = x
      OBVIOUS
    <3> QED
      BY <1>3, <2>1, <3>1 DEF Planes, w
  <2>5. Rows(1, view.height) \in Nat
    BY DEF Rows
  <2> QED
    BY <1>3, <2>3, <2>4, <2>5 DEF w
<1>4. CASE view.format \in {"BGR24", "RGB24"}
  <2>1. RowBytes(view.format, w) = <<w * 3>>
    BY <1>4 DEF RowBytes, Packed
  <2>2. /\ Channels("RGB24") = <<"R", "G", "B">> /\ Order("RGB24") = <<"R", "G", "B">>
        /\ Channels("BGR24") = <<"B", "G", "R">> /\ Order("BGR24") = <<"B", "G", "R">>
    BY DEF Channels, FourChannels, PackFourToThree, Order
  <2>3. Len(Channels(view.format)) = 3 /\ Channels(view.format) = Order(view.format)
    BY <1>4, <2>2
  <2>4. Planes(view) = {1} /\ RowBytes(view.format, w)[1] = w * 3 /\ w * 3 \in Nat
    <3>1. \A x : DOMAIN <<x>> = {1} /\ <<x>>[1] = x
      OBVIOUS
    <3> QED
      BY <2>1, <3>1 DEF Planes, w
  <2>5. Rows(1, view.height) \in Nat
    BY DEF Rows
  <2> QED
    BY <1>4, <2>3, <2>4, <2>5 DEF w
<1> QED
  BY <1>1, <1>2, <1>3, <1>4 DEF Formats, Packed

\* What Sample says of a view is all there is to say of I420.
LEMMA I420Carried ==
    ASSUME NEW image \in Images, ~Refused(image), NEW planes, Tidy(planes, image),
           NEW view, IsView(view), view.format = "I420", view.width = image.width,
           view.height = image.height, view.strides = RowBytes("I420", view.width)
    PROVE  Carried(view, planes, image)
<1>1. image.width \in Nat /\ image.height \in Nat /\ view.format \in Formats
  BY ImageFacts DEF Formats
<1>2. /\ Planes(view) = 1..3
      /\ \A i \in Planes(view) : view.strides[i] = Wide(image.width, i)
      /\ \A i \in Planes(view) : Rows(i, view.height) = Wide(image.height, i)
  BY <1>1, FormatPlanes DEF Wide, Rows
<1>3. \A i, k, y : ByteOf(view, i, image, k, y) = Sample(image, i, k, y)
  BY DEF ByteOf, Packed
<1>4. \A i \in 1..3 : \A y \in 0..(Wide(image.height, i) - 1) :
            \A k \in 0..(Wide(image.width, i) - 1) :
                planes[i][y * Wide(image.width, i) + k] = Sample(image, i, k, y)
  <2>1. \A y \in 0..(Wide(image.height, 1) - 1) : \A k \in 0..(Wide(image.width, 1) - 1) :
            planes[1][y * Wide(image.width, 1) + k] = Sample(image, 1, k, y)
    <3>1. Wide(image.height, 1) = image.height /\ Wide(image.width, 1) = image.width
      BY DEF Wide
    <3> QED
      BY <3>1, TidyAt
  <2>2. ASSUME NEW i \in {2, 3}
        PROVE  \A y \in 0..(Wide(image.height, i) - 1) : \A k \in 0..(Wide(image.width, i) - 1) :
                    planes[i][y * Wide(image.width, i) + k] = Sample(image, i, k, y)
    <3>1. Wide(image.height, i) = image.height \div 2 /\ Wide(image.width, i) = image.width \div 2
      BY DEF Wide
    <3> QED
      BY <3>1, TidyAt
  <2> QED
    BY <2>1, <2>2
<1>5. \A i \in 1..3 : Wide(image.width, i) \in Nat
  BY <1>1 DEF Wide
<1> QED
  BY <1>1, <1>2, <1>3, <1>4, <1>5 DEF Carried

-----------------------------------------------------------------------------
(* copy_frame_to.                                                          *)

LEMMA AllLinesRight ==
    ASSUME NEW h \in Nat, NEW rows \in Nat \ {0}, rows % 2 = 0, NEW r \in 0..(h - 1)
    PROVE  AllLines(h, rows)[r] = Right(r)
<1> DEFINE q == r \div rows
<1>1. q \in Nat /\ r % rows \in 0..(rows - 1) /\ r = q * rows + (r % rows)
  <2>1. rows * h \in Nat /\ h <= rows * h
    BY Multiples
  <2>2. r \in 0..(rows * h - 1)
    BY <2>1
  <2>3. r \div rows \in 0..(h - 1) /\ r % rows \in 0..(rows - 1)
        /\ r = (r \div rows) * rows + (r % rows)
    BY <2>2, DivModOf
  <2> QED
    BY <2>3
<1>2. AllLines(h, rows)[r] = StripeLines(q * rows, rows)[r]
  BY DEF AllLines
<1> HIDE DEF q
<1> DEFINE row == q * rows
<1>3. row \in Nat /\ row % 2 = 0
  BY <1>1, Multiples
<1>4. r \in row..(row + rows - 1)
  BY <1>1, <1>3
<1> HIDE DEF row
<1>5. StripeLines(row, rows)[r] = Right(r)
  BY <1>3, <1>4, StripeRight
<1> QED
  BY <1>2, <1>5 DEF row

Zipped(plane, u, v, w, h) ==
    /\ DOMAIN plane = 0..(w * h - 1)
    /\ \A y \in 0..(h - 1) : \A k \in 0..(w - 1) :
        plane[y * w + k]
            = IF k % 2 = 0 THEN u[y * (w \div 2) + (k \div 2)] ELSE v[y * (w \div 2) + (k \div 2)]

LEMMA InterleavedAt ==
    ASSUME NEW u, NEW v, NEW w \in Nat, w % 2 = 0, NEW h \in Nat,
           NEW plane, plane = Interleaved(u, v, w * h)
    PROVE  Zipped(plane, u, v, w, h)
<1>1. ASSUME NEW y \in 0..(h - 1), NEW k \in 0..(w - 1)
      PROVE  plane[y * w + k]
            = IF k % 2 = 0 THEN u[y * (w \div 2) + (k \div 2)] ELSE v[y * (w \div 2) + (k \div 2)]
  <2> DEFINE n == y * w + k
  <2>1. n \in 0..(w * h - 1)
    BY Index
  <2>2. y \in Nat /\ k \in Nat
    OBVIOUS
  <2>3. n % 2 = k % 2
    BY <2>2, PairAt
  <2>4. n \div 2 = y * (w \div 2) + (k \div 2)
    <3>1. PICK half \in Nat : half = w \div 2 /\ w = 2 * half
      BY HalfOf
    <3>2. y * w = 2 * (y * half) /\ y * half \in Nat
      BY <2>2, <3>1
    <3>3. (y * w) % 2 = 0 /\ y * w \in Nat /\ (y * w) \div 2 = y * half
      BY <3>2
    <3>4. (y * w + k) \div 2 = (y * w) \div 2 + k \div 2
      BY <2>2, <3>3, HalfOf
    <3> QED
      BY <3>1, <3>3, <3>4
  <2> HIDE DEF n
  <2>5. plane[n] = IF n % 2 = 0 THEN u[n \div 2] ELSE v[n \div 2]
    BY <2>1 DEF Interleaved
  <2> QED
    BY <2>3, <2>4, <2>5 DEF n
<1>2. DOMAIN plane = 0..(w * h - 1)
  BY DEF Interleaved
<1> QED
  BY <1>1, <1>2 DEF Zipped

WrittenByte(view, i, planes, lines, y, k) ==
    CASE view.format \in Packed -> PackedByte(view.format, planes, view.width, lines[y], k)
      [] view.format = "NV12" /\ i = 2 ->
            Interleaved(planes[2], planes[3], (view.width * view.height) \div 2)
                [y * view.width + k]
      [] OTHER -> planes[i][y * RowBytes(view.format, view.width)[i] + k]

LEMMA WrittenAt ==
    ASSUME NEW view, NEW i, NEW planes, NEW lines,
           view.strides[i] \in Nat, Rows(i, view.height) \in Nat,
           RowBytes(view.format, view.width)[i] \in Nat,
           view.strides[i] >= RowBytes(view.format, view.width)[i],
           NEW y \in 0..(Rows(i, view.height) - 1),
           NEW k \in 0..(RowBytes(view.format, view.width)[i] - 1)
    PROVE  Written(view, i, planes, lines)[y * view.strides[i] + k]
            = WrittenByte(view, i, planes, lines, y, k)
<1> DEFINE bytes == RowBytes(view.format, view.width)[i]
           stride == view.strides[i]   rows == Rows(i, view.height)
           n == y * stride + k
<1> HIDE DEF bytes, stride, rows
<1>1. k \in 0..(stride - 1) /\ y \in 0..(rows - 1) /\ stride \in Nat /\ rows \in Nat
      /\ k < bytes
  BY DEF bytes, stride, rows
<1>2. n \in 0..(stride * rows - 1) /\ n \div stride = y /\ n % stride = k
  BY <1>1, Index
<1> HIDE DEF n
<1>3. Written(view, i, planes, lines)
        = [m \in 0..(stride * rows - 1) |->
            IF m % stride < bytes
            THEN WrittenByte(view, i, planes, lines, m \div stride, m % stride) ELSE "pad"]
  BY DEF Written, WrittenByte, bytes, stride, rows
<1>4. Written(view, i, planes, lines)[n] = WrittenByte(view, i, planes, lines, y, k)
  BY <1>1, <1>2, <1>3
<1> QED
  BY <1>4 DEF n, stride

\* Each byte that copy_frame_to writes is the one its format asks for.
LEMMA WrittenRight ==
    ASSUME NEW image \in Images, ~Refused(image), NEW planes, Tidy(planes, image),
           NEW view, view.format \in Formats, view.width = image.width,
           view.height = image.height, NEW i \in Planes(view), NEW lines,
           \A r \in 0..(view.height - 1) : lines[r] = Right(r),
           NEW y \in 0..(Rows(i, view.height) - 1),
           NEW k \in 0..(RowBytes(view.format, view.width)[i] - 1)
    PROVE  WrittenByte(view, i, planes, lines, y, k) = ByteOf(view, i, image, k, y)
<1> DEFINE w == image.width   h == image.height
<1>1. w \in Nat /\ h \in Nat /\ w % 2 = 0 /\ h % 2 = 0
  BY ImageFacts
<1>2. /\ \A r \in 0..(h - 1) : \A x \in 0..(w - 1) : planes[1][r * w + x] = Sample(image, 1, x, r)
      /\ \A c \in {2, 3} : \A r \in 0..((h \div 2) - 1) : \A x \in 0..((w \div 2) - 1) :
            planes[c][r * (w \div 2) + x] = Sample(image, c, x, r)
  BY TidyAt
<1>3. y \in Nat /\ k \in Nat
  OBVIOUS
<1>4. CASE view.format = "I420"
  <2>1. /\ i \in 1..3
        /\ RowBytes(view.format, view.width)[i] = Wide(w, i) /\ Rows(i, view.height) = Wide(h, i)
    BY <1>1, <1>4, FormatPlanes DEF Wide, Rows
  <2>2. planes[i][y * Wide(w, i) + k] = Sample(image, i, k, y)
    BY <1>2, <2>1 DEF Wide
  <2> QED
    BY <1>4, <2>1, <2>2 DEF WrittenByte, ByteOf, Packed
<1>5. CASE view.format = "NV12" /\ i = 1
  <2>1. RowBytes(view.format, view.width)[i] = w /\ Rows(i, view.height) = h
    BY <1>1, <1>5, FormatPlanes DEF Rows
  <2>2. planes[1][y * w + k] = Sample(image, 1, k, y)
    BY <1>2, <2>1
  <2> QED
    BY <1>5, <2>1, <2>2 DEF WrittenByte, ByteOf, Packed
<1>6. CASE view.format = "NV12" /\ i = 2
  <2>1. k \in 0..(w - 1) /\ y \in 0..((h \div 2) - 1)
    BY <1>1, <1>6, FormatPlanes DEF Rows
  <2>2. PICK half \in Nat : half = h \div 2 /\ h = 2 * half
    BY <1>1, HalfOf
  <2>3. (w * h) \div 2 = w * half
    <3> HIDE DEF w, h
    <3>1. w * h = 2 * (w * half) /\ w * half \in Nat
      BY <1>1, <2>2
    <3> QED
      BY <3>1
  <2>4. k \div 2 \in 0..((w \div 2) - 1)
    BY <1>1, <2>1
  <2>5. Interleaved(planes[2], planes[3], (w * h) \div 2)[y * w + k]
            = IF k % 2 = 0 THEN planes[2][y * (w \div 2) + (k \div 2)]
              ELSE planes[3][y * (w \div 2) + (k \div 2)]
    <3>1. y \in 0..(half - 1)
      BY <2>1, <2>2
    <3> DEFINE u == planes[2]   v == planes[3]   plane == Interleaved(u, v, w * half)
    <3> HIDE DEF w, h, u, v, plane
    <3>2. Zipped(plane, u, v, w, half)
      BY <1>1, InterleavedAt DEF plane
    <3>3. plane[y * w + k]
            = IF k % 2 = 0 THEN u[y * (w \div 2) + (k \div 2)]
              ELSE v[y * (w \div 2) + (k \div 2)]
      BY <2>1, <3>1, <3>2 DEF Zipped
    <3> QED
      BY <2>3, <3>3 DEF u, v, plane
  <2>6. /\ planes[2][y * (w \div 2) + (k \div 2)] = Sample(image, 2, k \div 2, y)
        /\ planes[3][y * (w \div 2) + (k \div 2)] = Sample(image, 3, k \div 2, y)
    BY <1>2, <2>1, <2>4
  <2>7. 2 + (k % 2) = IF k % 2 = 0 THEN 2 ELSE 3
    BY <1>3
  <2>8. WrittenByte(view, i, planes, lines, y, k)
            = Interleaved(planes[2], planes[3], (w * h) \div 2)[y * w + k]
    BY <1>6 DEF WrittenByte, Packed
  <2>9. ByteOf(view, i, image, k, y) = Sample(image, 2 + (k % 2), k \div 2, y)
    BY <1>6 DEF ByteOf, Packed
  <2> QED
    BY <2>5, <2>6, <2>7, <2>8, <2>9
<1>7. CASE view.format \in Packed
  <2> DEFINE per == Len(Channels(view.format))
             x == k \div per
             at == lines[y].chroma * (w \div 2) + (x \div 2)
  <2>1. /\ i = 1 /\ per \in {3, 4} /\ k \in 0..(per * w - 1) /\ y \in 0..(h - 1)
    BY <1>1, <1>7, FormatPlanes DEF Rows
  <2>2. x \in 0..(w - 1)
    <3> HIDE DEF per
    <3>1. PICK s \in Nat \ {0} : s = per
      BY <2>1
    <3>2. k \in 0..(s * w - 1)
      BY <2>1, <3>1
    <3> HIDE DEF w
    <3>3. k \div s \in 0..(w - 1)
      BY <1>1, <3>2, DivModOf
    <3> QED
      BY <3>1, <3>3
  <2>3. lines[y].luma = y /\ lines[y].chroma = y \div 2
    <3>1. lines[y] = Right(y)
      BY <2>1
    <3> QED
      BY <3>1 DEF Right
  <2> HIDE DEF per, x
  <2>4. y \div 2 \in 0..((h \div 2) - 1) /\ x \div 2 \in 0..((w \div 2) - 1)
    BY <1>1, <2>1, <2>2
  <2>5. planes[1][lines[y].luma * w + x] = Sample(image, 1, x, y)
    BY <1>2, <2>1, <2>2, <2>3
  <2>6. \A c \in {2, 3} : planes[c][at] = Sample(image, c, x \div 2, y \div 2)
    BY <1>2, <2>3, <2>4
  <2>7. WrittenByte(view, i, planes, lines, y, k)
            = <<Channels(view.format)[1 + (k % per)], planes[1][lines[y].luma * w + x],
                planes[2][at], planes[3][at]>>
    BY <1>7 DEF WrittenByte, PackedByte, Packed, per, x
  <2>8. ByteOf(view, i, image, k, y)
            = <<Channels(view.format)[1 + (k % per)], Sample(image, 1, x, y),
                Sample(image, 2, x \div 2, y \div 2), Sample(image, 3, x \div 2, y \div 2)>>
    BY <1>7 DEF ByteOf, Packed, per, x
  <2> HIDE DEF at
  <2> QED
    BY <2>5, <2>6, <2>7, <2>8
<1>8. view.format = "NV12" => i \in {1, 2}
  BY <1>1, FormatPlanes
<1> QED
  BY <1>4, <1>5, <1>6, <1>7, <1>8 DEF Formats

LEMMA WrittenCarried ==
    ASSUME NEW image \in Images, ~Refused(image), NEW planes, Tidy(planes, image),
           NEW view \in Views, ValidDestination(view, image.width, image.height),
           NEW rows \in Stripes
    PROVE  LET lines == AllLines(view.height, rows)
           IN  Carried(view, [i \in Planes(view) |-> Written(view, i, planes, lines)], image)
<1> DEFINE lines == AllLines(view.height, rows)
           written == [i \in Planes(view) |-> Written(view, i, planes, lines)]
<1>1. /\ view.format \in Formats /\ view.width = image.width /\ view.height = image.height
      /\ \A i \in Planes(view) : Plane(view, i)
      /\ view.width \in Nat /\ view.height \in Nat
  BY ImageFacts DEF ValidDestination
<1>2. IsView(view) /\ \A i \in DOMAIN view.strides : view.strides[i] \in Nat
  BY MediaAssumption DEF IsView
<1>3. \A r \in 0..(view.height - 1) : lines[r] = Right(r)
  <2>1. rows \in Nat \ {0} /\ rows % 2 = 0
    BY MediaAssumption
  <2>2. PICK h \in Nat : h = view.height
    BY <1>1
  <2>3. \A r \in 0..(h - 1) : AllLines(h, rows)[r] = Right(r)
    BY <2>1, AllLinesRight
  <2> QED
    BY <2>2, <2>3
<1> HIDE DEF lines
<1>4. ASSUME NEW i \in Planes(view)
      PROVE  LET bytes == RowBytes(view.format, view.width)[i]
             IN  /\ view.strides[i] \in Nat /\ view.strides[i] >= bytes
                 /\ \A y \in 0..(Rows(i, view.height) - 1) : \A k \in 0..(bytes - 1) :
                        written[i][y * view.strides[i] + k] = ByteOf(view, i, image, k, y)
  <2>1. /\ view.strides[i] \in Nat
        /\ view.strides[i] >= RowBytes(view.format, view.width)[i]
    BY <1>1, <1>2 DEF Plane
  <2>2. /\ Rows(i, view.height) \in Nat
        /\ RowBytes(view.format, view.width)[i] \in Nat
    BY <1>1, FormatPlanes
  <2>3. ASSUME NEW y \in 0..(Rows(i, view.height) - 1),
               NEW k \in 0..(RowBytes(view.format, view.width)[i] - 1)
        PROVE  written[i][y * view.strides[i] + k] = ByteOf(view, i, image, k, y)
    <3>1. written[i] = Written(view, i, planes, lines)
      OBVIOUS
    <3>2. Written(view, i, planes, lines)[y * view.strides[i] + k]
            = WrittenByte(view, i, planes, lines, y, k)
      BY <2>1, <2>2, WrittenAt
    <3>3. WrittenByte(view, i, planes, lines, y, k) = ByteOf(view, i, image, k, y)
      BY <1>1, <1>3, WrittenRight
    <3> HIDE DEF written
    <3> QED
      BY <3>1, <3>2, <3>3
  <2> QED
    BY <2>1, <2>3
<1> HIDE DEF written
<1>5. Carried(view, written, image)
  BY <1>1, <1>2, <1>4 DEF Carried
<1> QED
  BY <1>5 DEF written, lines

-----------------------------------------------------------------------------
(* The encoder's side.  Row is what a plane copied without padding holds.  *)

Packs(plane, view, i, image) ==
    LET bytes == RowBytes(view.format, view.width)[i]
    IN  /\ DOMAIN plane = 0..(bytes * Rows(i, view.height) - 1)
        /\ \A y \in 0..(Rows(i, view.height) - 1) : \A k \in 0..(bytes - 1) :
            plane[y * bytes + k] = ByteOf(view, i, image, k, y)

LEMMA CarriedFacts ==
    ASSUME NEW image \in Images, ~Refused(image), NEW view, NEW planes,
           Carried(view, planes, image), NEW i \in Planes(view)
    PROVE  /\ RowBytes(view.format, view.width)[i] \in Nat
           /\ Rows(i, view.height) \in Nat
           /\ view.strides[i] \in Nat
           /\ view.strides[i] >= RowBytes(view.format, view.width)[i]
           /\ \A y \in 0..(Rows(i, view.height) - 1) :
                \A k \in 0..(RowBytes(view.format, view.width)[i] - 1) :
                    planes[i][y * view.strides[i] + k] = ByteOf(view, i, image, k, y)
<1>1. view.format \in Formats /\ view.width \in Nat /\ view.height \in Nat
  BY ImageFacts DEF Carried
<1>2. RowBytes(view.format, view.width)[i] \in Nat /\ Rows(i, view.height) \in Nat
  BY <1>1, FormatPlanes
<1> QED
  BY <1>2 DEF Carried

LEMMA TightPacks ==
    ASSUME NEW image \in Images, ~Refused(image), NEW view, NEW planes,
           Carried(view, planes, image), NEW i \in Planes(view)
    PROVE  Packs(Tight(view, planes, i), view, i, image)
<1> DEFINE bytes == RowBytes(view.format, view.width)[i]
           stride == view.strides[i]   rows == Rows(i, view.height)
           source == planes[i]
           plane == CopyPlane(source, 0, stride, bytes, rows)
<1>1. /\ bytes \in Nat /\ rows \in Nat /\ stride \in Nat /\ stride >= bytes
      /\ \A y \in 0..(rows - 1) : \A k \in 0..(bytes - 1) :
            source[y * stride + k] = ByteOf(view, i, image, k, y)
  BY CarriedFacts
<1>2. Tight(view, planes, i) = plane
  BY DEF Tight
<1> HIDE DEF bytes, stride, rows, source
<1>3. Reads(plane, source, 0, stride, bytes, rows)
  BY <1>1, CopyPlaneAt
<1> HIDE DEF plane
<1>4. ASSUME NEW y \in 0..(rows - 1), NEW k \in 0..(bytes - 1)
      PROVE  plane[y * bytes + k] = ByteOf(view, i, image, k, y)
  <2>1. 0 + y * stride + k = y * stride + k
    BY <1>1
  <2>2. plane[y * bytes + k] = source[0 + y * stride + k]
    BY <1>3 DEF Reads
  <2> QED
    BY <1>1, <2>1, <2>2
<1>5. Packs(plane, view, i, image)
  BY <1>3, <1>4 DEF Packs, Reads, bytes, rows
<1> QED
  BY <1>2, <1>5

\* own_frame: the copy an asynchronous session queues holds the same bytes.
LEMMA OwnCarried ==
    ASSUME NEW image \in Images, ~Refused(image), NEW view, NEW planes,
           Carried(view, planes, image)
    PROVE  Carried(OwnView(view), Own(view, planes), image)
<1> DEFINE own == OwnView(view)   copied == Own(view, planes)
<1>1. /\ own.format = view.format /\ own.width = view.width /\ own.height = view.height
      /\ own.strides = RowBytes(view.format, view.width) /\ IsView(own)
  <2>1. view = [format |-> view.format, width |-> view.width, height |-> view.height,
                strides |-> view.strides, aligned |-> view.aligned]
    BY DEF Carried, IsView
  <2>2. own = [format |-> view.format, width |-> view.width, height |-> view.height,
               strides |-> RowBytes(view.format, view.width), aligned |-> view.aligned]
    BY <2>1 DEF OwnView
  <2> QED
    BY <2>2 DEF IsView
<1>2. Planes(own) = Planes(view)
  BY <1>1 DEF Planes
<1>3. \A i, k, y : ByteOf(own, i, image, k, y) = ByteOf(view, i, image, k, y)
  BY <1>1 DEF ByteOf
<1>4. ASSUME NEW i \in Planes(view)
      PROVE  /\ RowBytes(view.format, view.width)[i] \in Nat
             /\ copied[i] = Tight(view, planes, i)
             /\ Packs(Tight(view, planes, i), view, i, image)
  BY CarriedFacts, TightPacks DEF Own, Tight
<1> HIDE DEF own, copied
<1>5. ASSUME NEW i \in Planes(view)
      PROVE  LET bytes == RowBytes(view.format, view.width)[i]
             IN  /\ own.strides[i] \in Nat /\ own.strides[i] >= bytes
                 /\ \A y \in 0..(Rows(i, view.height) - 1) : \A k \in 0..(bytes - 1) :
                        copied[i][y * own.strides[i] + k] = ByteOf(own, i, image, k, y)
  BY <1>1, <1>3, <1>4 DEF Packs
<1>6. Carried(own, copied, image)
  BY <1>1, <1>2, <1>5 DEF Carried
<1> QED
  BY <1>6 DEF own, copied

LEMMA PackedIndex ==
    ASSUME NEW per \in {3, 4}, NEW w \in Nat, NEW x \in 0..(w - 1), NEW b \in 1..per
    PROVE  /\ x * per + (b - 1) \in 0..(w * per - 1)
           /\ (x * per + (b - 1)) \div per = x /\ (x * per + (b - 1)) % per = b - 1
<1>1. PICK s \in Nat \ {0} : s = per
  OBVIOUS
<1>2. PICK r \in 0..(s - 1) : r = b - 1
  BY <1>1
<1>3. x * s + r \in 0..(s * w - 1) /\ (x * s + r) \div s = x /\ (x * s + r) % s = r
  BY <1>1, Index
<1>4. s * w = w * s
  OBVIOUS
<1> QED
  BY <1>1, <1>2, <1>3, <1>4

\* A pixel of a packed plane: its bytes are in order and made of one sample
\* of each component.
Pixel(view, image, b, x, y) ==
    <<Order(view.format)[b], Sample(image, 1, x, y),
      Sample(image, 2, x \div 2, y \div 2), Sample(image, 3, x \div 2, y \div 2)>>
LEMMA PixelAt ==
    ASSUME NEW image \in Images, ~Refused(image), NEW view, NEW planes,
           Carried(view, planes, image), view.format \in Packed,
           NEW x \in 0..(image.width - 1), NEW y \in 0..(image.height - 1),
           NEW b \in 1..Len(Order(view.format)),
           NEW n, n = y * view.strides[1] + x * Len(Order(view.format)) + b - 1
    PROVE  planes[1][n] = Pixel(view, image, b, x, y)
<1> DEFINE per == Len(Order(view.format))   w == image.width   stride == view.strides[1]
           k == x * per + (b - 1)
<1>1. /\ w \in Nat /\ view.width = w /\ view.height = image.height /\ image.height \in Nat
      /\ view.format \in Formats
  BY ImageFacts DEF Carried
<1>2. /\ Planes(view) = {1} /\ per \in {3, 4} /\ Channels(view.format) = Order(view.format)
      /\ RowBytes(view.format, view.width)[1] = w * per
  BY <1>1, FormatPlanes
<1>3. Rows(1, view.height) = image.height
  BY <1>1 DEF Rows
<1>4. stride \in Nat
  BY <1>2, CarriedFacts
<1>5. \A m \in 0..(w * per - 1) :
            planes[1][y * stride + m] = ByteOf(view, 1, image, m, y)
  BY <1>2, <1>3, CarriedFacts, SMTT(30)
<1> HIDE DEF per, w, stride
<1>6. k \in 0..(w * per - 1) /\ k \div per = x /\ k % per = b - 1
  <2>1. b \in 1..per /\ x \in 0..(w - 1)
    BY DEF per, w
  <2> QED
    BY <1>1, <1>2, <2>1, PackedIndex
<1>7. y * stride + k = y * stride + x * per + b - 1
  <2>1. y * stride \in Int /\ x * per \in Int
    BY <1>2, <1>4
  <2> QED
    BY <2>1
<1> HIDE DEF k
<1>8. ByteOf(view, 1, image, k, y)
        = <<Order(view.format)[b], Sample(image, 1, x, y),
            Sample(image, 2, x \div 2, y \div 2), Sample(image, 3, x \div 2, y \div 2)>>
  <2>1. ByteOf(view, 1, image, k, y)
            = <<Channels(view.format)[1 + (k % per)], Sample(image, 1, k \div per, y),
                Sample(image, 2, (k \div per) \div 2, y \div 2),
                Sample(image, 3, (k \div per) \div 2, y \div 2)>>
    BY <1>2 DEF ByteOf, Packed, per
  <2>2. 1 + (k % per) = b
    BY <1>6
  <2> QED
    BY <1>2, <1>6, <2>1, <2>2
<1> QED
  BY <1>5, <1>6, <1>7, <1>8 DEF per, stride, Pixel

\* libyuv's conversion of packed bytes to planes.
LEMMA FromPackedAt ==
    ASSUME NEW image \in Images, ~Refused(image), NEW view, NEW planes,
           Carried(view, planes, image), view.format \in Packed, NEW c \in 1..3,
           NEW y \in 0..(Wide(image.height, c) - 1), NEW x \in 0..(Wide(image.width, c) - 1)
    PROVE  FromPacked(view, planes[1], c)[y * Wide(image.width, c) + x] = Sample(image, c, x, y)
<1> DEFINE per == Len(Order(view.format))   w == Wide(image.width, c)
           rows == Wide(image.height, c)
           px == IF c = 1 THEN x ELSE 2 * x
           py == IF c = 1 THEN y ELSE 2 * y
           at == py * view.strides[1] + px * per
           k == y * w + x
<1>1. /\ image.width \in Nat /\ image.height \in Nat
      /\ image.width % 2 = 0 /\ image.height % 2 = 0
      /\ view.width = image.width /\ view.height = image.height
  BY ImageFacts DEF Carried
<1>2. w \in Nat /\ rows \in Nat /\ Rows(c, view.height) = rows
  BY <1>1 DEF Wide, Rows
<1>3. k \in 0..(w * rows - 1) /\ k \div w = y /\ k % w = x
  BY <1>2, Index
<1>4. px \in 0..(image.width - 1) /\ py \in 0..(image.height - 1)
  BY <1>1 DEF Wide
<1>5. c # 1 => px \div 2 = x /\ py \div 2 = y
  BY <1>4
<1> HIDE DEF w, rows, px, py, k
<1>6. ASSUME NEW b \in 1..per PROVE planes[1][at + b - 1] = Pixel(view, image, b, px, py)
  <2>1. PICK n : n = at + b - 1
    OBVIOUS
  <2>2. planes[1][n] = Pixel(view, image, b, px, py)
    BY <1>4, <2>1, PixelAt
  <2> QED
    BY <2>1, <2>2
<1>7. 1 \in 1..per /\ at + 1 - 1 = at
  <2>1. per \in {3, 4} /\ Planes(view) = {1}
    <3>1. view.format \in Formats /\ view.width \in Nat /\ view.height \in Nat
      BY <1>1 DEF Carried
    <3> QED
      BY <3>1, FormatPlanes
  <2>2. view.strides[1] \in Nat
    BY <2>1, CarriedFacts
  <2> HIDE DEF per
  <2>3. py * view.strides[1] \in Int /\ px * per \in Int
    BY <1>4, <2>1, <2>2
  <2> QED
    BY <2>1, <2>3
<1> HIDE DEF at
<1>8. planes[1][at] = <<Order(view.format)[1], Sample(image, 1, px, py),
            Sample(image, 2, px \div 2, py \div 2), Sample(image, 3, px \div 2, py \div 2)>>
  BY <1>6, <1>7 DEF Pixel
<1>9. FromPacked(view, planes[1], c)[k] = planes[1][at][1 + c]
  <2>1. FromPacked(view, planes[1], c)
          = [n \in 0..(w * rows - 1) |->
              LET i == (IF c = 1 THEN n \div w ELSE 2 * (n \div w)) * view.strides[1]
                        + (IF c = 1 THEN n % w ELSE 2 * (n % w)) * per
              IN  IF \A b \in 1..per : planes[1][i + b - 1][1] = Order(view.format)[b]
                  THEN planes[1][i][1 + c] ELSE "garbled"]
    BY <1>1, <1>2 DEF FromPacked, w, Wide
  <2>2. \A b \in 1..per : planes[1][at + b - 1][1] = Order(view.format)[b]
    BY <1>6 DEF Pixel
  <2>3. at = (IF c = 1 THEN k \div w ELSE 2 * (k \div w)) * view.strides[1]
                + (IF c = 1 THEN k % w ELSE 2 * (k % w)) * per
    BY <1>3 DEF at, px, py
  <2> QED
    BY <1>3, <2>1, <2>2, <2>3
<1>10. planes[1][at][1 + c] = Sample(image, c, x, y)
  <2>1. CASE c = 1
    BY <1>8, <2>1 DEF px, py
  <2>2. CASE c = 2
    BY <1>5, <1>8, <2>2
  <2>3. CASE c = 3
    BY <1>5, <1>8, <2>3
  <2> QED
    BY <2>1, <2>2, <2>3
<1> QED
  BY <1>9, <1>10 DEF k, w

\* A tight plane of samples is the window of its component, in I420 and in
\* the luma of NV12.
LEMMA TightWindow ==
    ASSUME NEW image \in Images, ~Refused(image), NEW view, NEW planes,
           Carried(view, planes, image), NEW i \in Planes(view),
           view.format = "I420" \/ (view.format = "NV12" /\ i = 1)
    PROVE  /\ i = 1 => Window(Tight(view, planes, 1), 1, image.crop_x, image.crop_y,
                              image.width, image.height)
           /\ i # 1 => Window(Tight(view, planes, i), i, image.crop_x \div 2,
                              image.crop_y \div 2, image.width \div 2, image.height \div 2)
<1> DEFINE plane == Tight(view, planes, i)
<1>1. /\ view.format \in Formats /\ view.width = image.width /\ view.height = image.height
      /\ image.width \in Nat /\ image.height \in Nat
  BY ImageFacts DEF Carried
<1>2. /\ RowBytes(view.format, view.width)[i] = Wide(image.width, i)
      /\ Rows(i, view.height) = Wide(image.height, i)
  BY <1>1, FormatPlanes DEF Wide, Rows
<1>3. Packs(plane, view, i, image)
  BY TightPacks
<1>4. \A k, y : ByteOf(view, i, image, k, y) = Sample(image, i, k, y)
  BY DEF ByteOf, Packed
<1> HIDE DEF plane
<1>5. /\ DOMAIN plane = 0..(Wide(image.width, i) * Wide(image.height, i) - 1)
      /\ \A y \in 0..(Wide(image.height, i) - 1) : \A k \in 0..(Wide(image.width, i) - 1) :
            plane[y * Wide(image.width, i) + k] = Sample(image, i, k, y)
  BY <1>2, <1>3, <1>4 DEF Packs
<1>6. CASE i = 1
  BY <1>5, <1>6 DEF Wide, Sample, Window, plane
<1>7. CASE i # 1
  BY <1>5, <1>7 DEF Wide, Sample, Window, plane
<1> QED
  BY <1>6, <1>7

\* The chroma of a tight NV12 frame: pairs of samples.
Pairs(plane, image) ==
    /\ DOMAIN plane = 0..(image.width * (image.height \div 2) - 1)
    /\ \A y \in 0..((image.height \div 2) - 1) : \A k \in 0..(image.width - 1) :
        plane[y * image.width + k] = Sample(image, 2 + (k % 2), k \div 2, y)

LEMMA TightPairs ==
    ASSUME NEW image \in Images, ~Refused(image), NEW view, NEW planes,
           Carried(view, planes, image), view.format = "NV12"
    PROVE  Pairs(Tight(view, planes, 2), image)
<1>1. /\ view.format \in Formats /\ view.width = image.width /\ view.height = image.height
      /\ image.width \in Nat /\ image.height \in Nat
  BY ImageFacts DEF Carried
<1>2. /\ RowBytes(view.format, view.width)[2] = image.width /\ 2 \in Planes(view)
      /\ Rows(2, view.height) = image.height \div 2
  BY <1>1, FormatPlanes DEF Rows
<1>3. Packs(Tight(view, planes, 2), view, 2, image)
  BY <1>2, TightPacks
<1>4. \A k, y : ByteOf(view, 2, image, k, y) = Sample(image, 2 + (k % 2), k \div 2, y)
  BY DEF ByteOf, Packed
<1> QED
  BY <1>2, <1>3, <1>4 DEF Packs, Pairs

LEMMA PairsHalf ==
    ASSUME NEW image \in Images, ~Refused(image), NEW plane, Pairs(plane, image),
           NEW c \in {0, 1}
    PROVE  Window(Component(plane, c), 2 + c, image.crop_x \div 2, image.crop_y \div 2,
                  image.width \div 2, image.height \div 2)
<1> DEFINE w == image.width   h == image.height \div 2   half == Component(plane, c)
           a == image.crop_x \div 2   b == image.crop_y \div 2
<1>1. w \in Nat /\ w % 2 = 0 /\ h \in Nat /\ a \in Nat /\ b \in Nat
  BY ImageFacts
<1>2. /\ DOMAIN plane = 0..(w * h - 1)
      /\ \A y \in 0..(h - 1) : \A k \in 0..(w - 1) :
            plane[y * w + k] = Sample(image, 2 + (k % 2), k \div 2, y)
  BY DEF Pairs
<1>3. \A k \in Nat : \A y :
        Sample(image, 2 + (k % 2), k \div 2, y) = <<2 + (k % 2), a + (k \div 2), b + y>>
  BY DEF Sample
<1> HIDE DEF w, h, half, a, b
<1>4. Halves(half, plane, c, w, h)
  BY <1>1, <1>2, ChromaAt DEF half
<1>5. ASSUME NEW y \in 0..(h - 1), NEW x \in 0..((w \div 2) - 1)
      PROVE  half[y * (w \div 2) + x] = <<2 + c, a + x, b + y>>
  <2>1. PICK k \in 0..(w - 1) : k = 2 * x + c
    BY <1>1
  <2>2. k \in Nat /\ k % 2 = c /\ k \div 2 = x
    BY <2>1
  <2>3. half[y * (w \div 2) + x] = plane[y * w + k]
    BY <1>4, <2>1 DEF Halves
  <2>4. plane[y * w + k] = <<2 + (k % 2), a + (k \div 2), b + y>>
    BY <1>2, <1>3, <2>2
  <2> QED
    BY <2>2, <2>3, <2>4
<1>6. Window(half, 2 + c, a, b, w \div 2, h)
  BY <1>4, <1>5 DEF Halves, Window
<1> QED
  BY <1>6 DEF half, a, b, w, h

LEMMA ToI420Tidy ==
    ASSUME NEW image \in Images, ~Refused(image), NEW view, NEW planes,
           Carried(view, planes, image)
    PROVE  Tidy(ConvertToI420(view, planes), image)
<1>1. /\ view.format \in Formats /\ view.width = image.width /\ view.height = image.height
      /\ image.width \in Nat /\ image.height \in Nat
  BY ImageFacts DEF Carried
<1>2. CASE view.format = "I420"
  <2>1. ConvertToI420(view, planes) = [i \in 1..3 |-> Tight(view, planes, i)]
    BY <1>2 DEF ConvertToI420
  <2>2. Planes(view) = 1..3
    BY <1>1, <1>2, FormatPlanes
  <2>3. /\ Window(Tight(view, planes, 1), 1, image.crop_x, image.crop_y,
                  image.width, image.height)
        /\ \A i \in {2, 3} : Window(Tight(view, planes, i), i, image.crop_x \div 2,
                              image.crop_y \div 2, image.width \div 2, image.height \div 2)
    BY <1>2, <2>2, TightWindow
  <2> QED
    BY <2>1, <2>3 DEF Tidy
<1>3. CASE view.format = "NV12"
  <2> DEFINE uv == Tight(view, planes, 2)
  <2>1. ConvertToI420(view, planes)
            = <<Tight(view, planes, 1), Component(uv, 0), Component(uv, 1)>>
    BY <1>3 DEF ConvertToI420
  <2>2. 1 \in Planes(view)
    BY <1>1, <1>3, FormatPlanes
  <2>3. Window(Tight(view, planes, 1), 1, image.crop_x, image.crop_y,
               image.width, image.height)
    BY <1>3, <2>2, TightWindow
  <2>4. Pairs(uv, image)
    BY <1>3, TightPairs
  <2> HIDE DEF uv
  <2>5. \A c \in {0, 1} : Window(Component(uv, c), 2 + c, image.crop_x \div 2,
                image.crop_y \div 2, image.width \div 2, image.height \div 2)
    BY <2>4, PairsHalf
  <2>6. 2 + 0 = 2 /\ 2 + 1 = 3
    OBVIOUS
  <2>7. /\ Window(Component(uv, 0), 2, image.crop_x \div 2, image.crop_y \div 2,
                  image.width \div 2, image.height \div 2)
        /\ Window(Component(uv, 1), 3, image.crop_x \div 2, image.crop_y \div 2,
                  image.width \div 2, image.height \div 2)
    BY <2>5, <2>6
  <2> QED
    BY <2>1, <2>3, <2>7 DEF Tidy
<1>4. CASE view.format \in Packed
  <2>1. ConvertToI420(view, planes) = [c \in 1..3 |-> FromPacked(view, planes[1], c)]
    BY <1>4 DEF ConvertToI420, Packed
  <2>2. ASSUME NEW c \in 1..3
        PROVE  LET plane == FromPacked(view, planes[1], c)
                   w == Wide(image.width, c)   h == Wide(image.height, c)
               IN  /\ DOMAIN plane = 0..(w * h - 1)
                   /\ \A y \in 0..(h - 1) : \A x \in 0..(w - 1) :
                        plane[y * w + x] = Sample(image, c, x, y)
    <3>1. DOMAIN FromPacked(view, planes[1], c)
            = 0..(Wide(image.width, c) * Wide(image.height, c) - 1)
      BY <1>1 DEF FromPacked, Wide, Rows
    <3> QED
      BY <1>4, <3>1, FromPackedAt
  <2>3. ASSUME NEW c \in 1..3
        PROVE  /\ c = 1 => Window(FromPacked(view, planes[1], 1), 1, image.crop_x,
                                  image.crop_y, image.width, image.height)
               /\ c # 1 => Window(FromPacked(view, planes[1], c), c, image.crop_x \div 2,
                                  image.crop_y \div 2, image.width \div 2, image.height \div 2)
    BY <2>2 DEF Wide, Sample, Window
  <2> QED
    BY <2>1, <2>3 DEF Tidy
<1> QED
  BY <1>1, <1>2, <1>3, <1>4 DEF Formats

ToNV12(staged, image) ==
    /\ DOMAIN staged = 1..2
    /\ Window(staged[1], 1, image.crop_x, image.crop_y, image.width, image.height)
    /\ Pairs(staged[2], image)

LEMMA ToNV12Right ==
    ASSUME NEW image \in Images, ~Refused(image), NEW view, NEW planes,
           Carried(view, planes, image)
    PROVE  ToNV12(ConvertToNV12(view, planes), image)
<1>1. /\ view.format \in Formats /\ view.width = image.width /\ view.height = image.height
      /\ image.width \in Nat /\ image.height \in Nat
      /\ image.width % 2 = 0 /\ image.height % 2 = 0
  BY ImageFacts DEF Carried
<1>2. CASE view.format = "NV12"
  <2>1. ConvertToNV12(view, planes) = [i \in 1..2 |-> Tight(view, planes, i)]
    BY <1>2 DEF ConvertToNV12
  <2>2. 1 \in Planes(view)
    BY <1>1, <1>2, FormatPlanes
  <2>3. Window(Tight(view, planes, 1), 1, image.crop_x, image.crop_y,
               image.width, image.height)
    BY <1>2, <2>2, TightWindow
  <2> QED
    BY <1>2, <2>1, <2>3, TightPairs DEF ToNV12
<1>3. CASE view.format # "NV12"
  <2> DEFINE yuv == ConvertToI420(view, planes)
             u == yuv[2]   v == yuv[3]
  <2>1. Tidy(yuv, image)
    BY ToI420Tidy
  <2>2. ConvertToNV12(view, planes)
            = <<yuv[1], Interleaved(u, v, (view.width * view.height) \div 2)>>
    BY <1>3 DEF ConvertToNV12
  <2> HIDE DEF yuv
  <2>3. \A y \in 0..((image.height \div 2) - 1) : \A x \in 0..((image.width \div 2) - 1) :
            /\ u[y * (image.width \div 2) + x] = Sample(image, 2, x, y)
            /\ v[y * (image.width \div 2) + x] = Sample(image, 3, x, y)
    BY <2>1, TidyAt
  <2> DEFINE w == image.width   half == image.height \div 2
             plane == Interleaved(u, v, w * half)
  <2>4. (view.width * view.height) \div 2 = w * half
    <3>1. PICK h \in Nat : h = image.height /\ h = 2 * half /\ half \in Nat
      BY <1>1, HalfOf
    <3> HIDE DEF w, half
    <3>2. w * h = 2 * (w * half) /\ w * half \in Nat
      BY <1>1, <3>1 DEF w
    <3>3. view.width * view.height = w * h
      BY <1>1, <3>1 DEF w
    <3> QED
      BY <3>2, <3>3
  <2>5. w \in Nat /\ w % 2 = 0 /\ half \in Nat
    BY <1>1
  <2> HIDE DEF u, v, w, half
  <2>6. Zipped(plane, u, v, w, half)
    BY <2>5, InterleavedAt
  <2> HIDE DEF plane
  <2>7. ASSUME NEW y \in 0..(half - 1), NEW k \in 0..(w - 1)
        PROVE  plane[y * w + k] = Sample(image, 2 + (k % 2), k \div 2, y)
    <3>1. PICK x \in 0..((w \div 2) - 1) : x = k \div 2
      BY <2>5
    <3>2. u[y * (w \div 2) + x] = Sample(image, 2, x, y)
          /\ v[y * (w \div 2) + x] = Sample(image, 3, x, y)
      BY <2>3 DEF w, half
    <3>3. plane[y * w + k] = IF k % 2 = 0 THEN u[y * (w \div 2) + x] ELSE v[y * (w \div 2) + x]
      BY <2>6, <3>1 DEF Zipped
    <3>4. k % 2 = 0 \/ k % 2 = 1
      BY <2>5
    <3>5. 2 + 0 = 2 /\ 2 + 1 = 3
      OBVIOUS
    <3> QED
      BY <3>1, <3>2, <3>3, <3>4, <3>5
  <2>8. Pairs(plane, image)
    BY <2>6, <2>7 DEF Zipped, Pairs, w, half
  <2>9. ConvertToNV12(view, planes) = <<yuv[1], plane>>
    BY <2>2, <2>4 DEF plane
  <2> QED
    BY <2>1, <2>8, <2>9 DEF Tidy, ToNV12
<1> QED
  BY <1>2, <1>3

-----------------------------------------------------------------------------
(* The frame on its way.                                                   *)

FrameInv ==
    \/ frame = NoFrame
    \/ /\ frame.image \in Images /\ ~Refused(frame.image)
       /\ \/ frame.at = "decoded" /\ Tidy(frame.planes, frame.image)
          \/ frame.at = "copied" /\ Carried(frame.view, frame.planes, frame.image)
          \/ /\ frame.at = "staged" /\ frame.device = "i420"
             /\ Tidy(frame.staged, frame.image)
          \/ /\ frame.at = "staged" /\ frame.device = "nv12"
             /\ ToNV12(frame.staged, frame.image)

LEMMA FrameStepRight ==
    ASSUME FrameInv, FrameStep
    PROVE  FrameInv'
<1>1. CASE ProcessFrame \/ DropPicture
  BY <1>1 DEF ProcessFrame, DropPicture, FrameInv
<1>2. CASE Decode
  <2>1. PICK image \in Images : frame'.at = "decoded" /\ frame'.image = image /\ frame' # NoFrame
    BY <1>2 DEF Decode, NoFrame
  <2>2. ~Refused(image) /\ Tidy(frame'.planes, image)
    BY <1>2, <2>1, DecodedTidy
  <2> QED
    BY <2>1, <2>2 DEF FrameInv
<1>3. CASE GetView
  <2> DEFINE image == frame.image   w == frame.image.width
             view == [format |-> "I420", width |-> w, height |-> frame.image.height,
                      strides |-> RowBytes("I420", w), aligned |-> TRUE]
  <2>1. image \in Images /\ ~Refused(image) /\ Tidy(frame.planes, image)
    BY <1>3 DEF GetView, FrameInv, NoFrame
  <2>2. /\ frame'.at = "copied" /\ frame'.image = image /\ frame'.planes = frame.planes
        /\ frame'.view = view
    BY <1>3 DEF GetView
  <2>3. /\ IsView(view) /\ view.format = "I420" /\ view.width = image.width
        /\ view.height = image.height /\ view.strides = RowBytes("I420", view.width)
    BY DEF IsView
  <2> HIDE DEF view, image
  <2>4. Carried(view, frame.planes, image)
    BY <2>1, <2>3, I420Carried
  <2> QED
    BY <2>1, <2>2, <2>4 DEF FrameInv
<1>4. CASE CopyFrame
  <2> DEFINE image == frame.image
  <2>1. image \in Images /\ ~Refused(image) /\ Tidy(frame.planes, image)
    BY <1>4 DEF CopyFrame, FrameInv, NoFrame
  <2>2. PICK view \in Views, rows \in Stripes :
            /\ ValidDestination(view, image.width, image.height)
            /\ frame' = [at |-> "copied", image |-> image, view |-> view,
                planes |-> [i \in Planes(view) |->
                    Written(view, i, frame.planes, AllLines(view.height, rows))]]
    BY <1>4 DEF CopyFrame
  <2> DEFINE written == [i \in Planes(view) |->
                    Written(view, i, frame.planes, AllLines(view.height, rows))]
  <2> HIDE DEF image
  <2>3. Carried(view, written, image)
    BY <2>1, <2>2, WrittenCarried
  <2>4. /\ frame'.at = "copied" /\ frame'.image = image /\ frame'.planes = written
        /\ frame'.view = view
    BY <2>2
  <2> HIDE DEF written
  <2> QED
    BY <2>1, <2>3, <2>4 DEF FrameInv
<1>5. CASE WriteFrame
  <2> DEFINE image == frame.image
  <2>1. image \in Images /\ ~Refused(image) /\ Carried(frame.view, frame.planes, image)
    BY <1>5 DEF WriteFrame, FrameInv, NoFrame
  <2>2. PICK own \in BOOLEAN, device \in {"i420", "nv12"} :
            LET view == IF own THEN OwnView(frame.view) ELSE frame.view
                planes == IF own THEN Own(frame.view, frame.planes) ELSE frame.planes
            IN  frame' = [at |-> "staged", image |-> image, device |-> device,
                    staged |-> IF device = "i420" THEN ConvertToI420(view, planes)
                               ELSE ConvertToNV12(view, planes)]
    BY <1>5 DEF WriteFrame
  <2> DEFINE view == IF own THEN OwnView(frame.view) ELSE frame.view
             planes == IF own THEN Own(frame.view, frame.planes) ELSE frame.planes
  <2> HIDE DEF image
  <2>3. Carried(view, planes, image)
    BY <2>1, OwnCarried
  <2>4. /\ frame'.at = "staged" /\ frame'.image = image /\ frame'.device = device
        /\ device = "i420" => frame'.staged = ConvertToI420(view, planes)
        /\ device = "nv12" => frame'.staged = ConvertToNV12(view, planes)
    BY <2>2
  <2> HIDE DEF view, planes
  <2>5. CASE device = "i420"
    BY <2>1, <2>3, <2>4, <2>5, ToI420Tidy DEF FrameInv
  <2>6. CASE device = "nv12"
    BY <2>1, <2>3, <2>4, <2>6, ToNV12Right DEF FrameInv
  <2> QED
    BY <2>5, <2>6
<1>6. CASE DropFrame
  BY <1>6 DEF DropFrame, FrameInv
<1> QED
  BY <1>1, <1>2, <1>3, <1>4, <1>5, <1>6 DEF FrameStep

\* What lies in a staging buffer, by byte offset.
LEMMA StagedRight == FrameInv => PixelsCarried
<1> SUFFICES ASSUME FrameInv, frame.at = "staged",
                    NEW i \in DOMAIN frame.staged, NEW k \in DOMAIN frame.staged[i]
             PROVE  LET image == frame.image
                        half == image.width \div 2
                    IN  frame.staged[i][k] =
                          CASE i = 1 -> Sample(image, 1, k % image.width, k \div image.width)
                            [] i # 1 /\ frame.device = "nv12" ->
                                Sample(image, 2 + (k % 2), (k % image.width) \div 2,
                                       k \div image.width)
                            [] OTHER -> Sample(image, i, k % half, k \div half)
  BY DEF PixelsCarried, Sample
<1> DEFINE image == frame.image   plane == frame.staged[i]
           w == image.width   h == image.height
<1>1. /\ image \in Images /\ ~Refused(image) /\ frame.device \in {"i420", "nv12"}
      /\ frame.device = "i420" => Tidy(frame.staged, image)
      /\ frame.device = "nv12" => ToNV12(frame.staged, image)
  BY DEF FrameInv, NoFrame
<1>2. w \in Nat /\ h \in Nat /\ w % 2 = 0 /\ h % 2 = 0
  BY <1>1, ImageFacts
<1> HIDE DEF image, plane, w, h
<1>3. CASE i = 1
  <2>1. Window(plane, 1, image.crop_x, image.crop_y, w, h)
    BY <1>1, <1>3 DEF Tidy, ToNV12, plane, w, h
  <2>2. k \in 0..(w * h - 1)
    BY <2>1 DEF Window, plane
  <2>3. k \div w \in 0..(h - 1) /\ k % w \in 0..(w - 1) /\ k = (k \div w) * w + (k % w)
    BY <1>2, <2>2, IndexOf
  <2>4. plane[k] = Sample(image, 1, k % w, k \div w)
    BY <2>1, <2>3 DEF Window, Sample
  <2> QED
    BY <1>3, <2>4 DEF plane, w, image
<1>4. CASE i # 1 /\ frame.device = "nv12"
  <2> DEFINE n == h \div 2
  <2>1. i = 2 /\ Pairs(plane, image)
    BY <1>1, <1>4 DEF ToNV12, plane
  <2>2. n \in Nat
    BY <1>2
  <2> HIDE DEF n
  <2>3. k \in 0..(w * n - 1)
    BY <2>1 DEF Pairs, plane, w, h, n
  <2>4. k \div w \in 0..(n - 1) /\ k % w \in 0..(w - 1) /\ k = (k \div w) * w + (k % w)
    BY <1>2, <2>2, <2>3, IndexOf
  <2>5. plane[k] = Sample(image, 2 + ((k % w) % 2), (k % w) \div 2, k \div w)
    BY <2>1, <2>4 DEF Pairs, w, h, n
  <2>6. (k % w) % 2 = k % 2
    <3>1. PICK d \in Nat : d = k \div w
      BY <2>4
    <3>2. PICK r \in Nat : r = k % w
      BY <2>4
    <3>3. (d * w + r) % 2 = r % 2
      BY <1>2, PairAt
    <3>4. k = d * w + r
      BY <2>4, <3>1, <3>2
    <3> QED
      BY <3>2, <3>3, <3>4
  <2> QED
    BY <1>4, <2>5, <2>6 DEF plane, w, image
<1>5. CASE i # 1 /\ frame.device = "i420"
  <2> DEFINE m == w \div 2   n == h \div 2
  <2>1. i \in {2, 3} /\ Window(plane, i, image.crop_x \div 2, image.crop_y \div 2, m, n)
    BY <1>1, <1>5 DEF Tidy, plane, w, h
  <2>2. m \in Nat /\ n \in Nat
    BY <1>2
  <2> HIDE DEF m, n
  <2>3. k \in 0..(m * n - 1)
    BY <2>1 DEF Window, plane
  <2>4. k \div m \in 0..(n - 1) /\ k % m \in 0..(m - 1) /\ k = (k \div m) * m + (k % m)
    BY <2>2, <2>3, IndexOf
  <2>5. plane[k] = Sample(image, i, k % m, k \div m)
    BY <1>5, <2>1, <2>4 DEF Window, Sample
  <2> QED
    BY <1>5, <2>5 DEF plane, m, w, image
<1> QED
  BY <1>1, <1>3, <1>4, <1>5

\* No pixel is lost, displaced or taken from another place between the decoder
\* and the encoder's staging buffer, whatever the image and its crop, the
\* pitches and strides, the format it is copied out in and the stripes of the
\* conversion (copy_image, copy_frame_to, own_frame, convert_cpu_frame_to_*).
THEOREM PixelsHold == Spec => []PixelsKept
<1>1. Init => FrameInv
  BY DEF Init, FrameInv
<1>2. FrameInv /\ [Next]_vars => FrameInv'
  <2> SUFFICES ASSUME FrameInv, [Next]_vars PROVE FrameInv'
    OBVIOUS
  <2>1. CASE FileStep
    BY <2>1, FileStepKeeps DEF FrameInv
  <2>2. CASE FrameStep
    BY <2>2, FrameStepRight
  <2>3. CASE UNCHANGED frame
    BY <2>3 DEF FrameInv
  <2> QED
    BY <2>1, <2>2, <2>3 DEF Next, vars
<1>3. Spec => []PixelsCarried
  BY <1>1, <1>2, StagedRight, PTL DEF Spec
<1> QED
  BY <1>3, StripesFit, StripesDone, PTL DEF PixelsKept

-----------------------------------------------------------------------------
(* Geometry: pictures, sample by sample.                                   *)

LEMMA AreaHas ==
    ASSUME NEW w \in Nat, NEW h \in Nat, NEW s \in {1, 2}, NEW p \in Area(w, h, s)
    PROVE  /\ p = <<p[1], p[2]>>
           /\ p[1] \in 0..(w \div s - 1) /\ p[2] \in 0..(h \div s - 1)
<1> QED
  BY DEF Area

\* A window of width by height of one picture at c, d of another, from a, b.
Pasted(into, from, to, width, height, a, b, c, d) ==
    /\ into.width = to.width /\ into.height = to.height
    /\ \A s \in {1, 2} : \A p \in Area(to.width, to.height, s) :
        LET x == p[1] - (c \div s)   y == p[2] - (d \div s)
        IN  into.plane[s][p] =
                IF <<x, y>> \in Area(width, height, s)
                THEN from.plane[s][<<x + (a \div s), y + (b \div s)>>]
                ELSE to.plane[s][<<p[1], p[2]>>]
LEMMA CopyAt ==
    ASSUME NEW from, NEW to, from.width \in Nat, from.height \in Nat,
           to.width \in Nat, to.height \in Nat,
           NEW a \in Nat, NEW b \in Nat, NEW c \in Nat, NEW d \in Nat
    PROVE  Pasted(CopyI420(from, to, a, b, c, d), from, to,
                  Smaller(from.width - a, to.width - c),
                  Smaller(from.height - b, to.height - d), a, b, c, d)
<1>1. /\ Min({from.width - a, to.width - c}) = Smaller(from.width - a, to.width - c)
      /\ Min({from.height - b, to.height - d}) = Smaller(from.height - b, to.height - d)
  BY MinOfTwo
<1> QED
  BY <1>1 DEF CopyI420, Blank, Pasted

LEMMA BackgroundAt ==
    ASSUME NEW w \in Nat, NEW h \in Nat
    PROVE  /\ Background(w, h).width = w /\ Background(w, h).height = h
           /\ \A s \in {1, 2} : \A p \in Area(w, h, s) :
                Background(w, h).plane[s][p] = <<>>
<1> QED
  BY DEF Background, Blank

LEMMA SourceAt ==
    ASSUME NEW w \in Nat, NEW h \in Nat
    PROVE  /\ Source(w, h).width = w /\ Source(w, h).height = h
           /\ \A s \in {1, 2} : \A p \in Area(w, h, s) :
                Source(w, h).plane[s][p] = <<s * p[1], s * p[2]>>
<1> QED
  BY DEF Source, Blank

LEMMA ScaleAt ==
    ASSUME NEW pic, NEW w, NEW h
    PROVE  LET scaled == Scale(pic, w, h)
           IN  /\ scaled.width = w /\ scaled.height = h
               /\ \A s \in {1, 2} : \A p \in Area(w, h, s) :
                    scaled.plane[s][p] =
                        pic.plane[s][<<(p[1] * pic.width) \div w,
                                           (p[2] * pic.height) \div h>>]
<1> QED
  BY DEF Scale, Blank

LEMMA MirrorAt ==
    ASSUME NEW pic
    PROVE  LET mirrored == Mirror(pic)
           IN  /\ mirrored.width = pic.width /\ mirrored.height = pic.height
               /\ \A s \in {1, 2} : \A p \in Area(pic.width, pic.height, s) :
                    mirrored.plane[s][p] =
                        pic.plane[s][<<pic.width \div s - 1 - p[1], p[2]>>]
<1> QED
  BY DEF Mirror, Blank

\* Where a rotation by r of a picture of w by h takes the sample at x, y from.
Turned(w, h, r, s, x, y) ==
    CASE r = 0 -> <<x, y>>
      [] r = 90 -> <<y, h \div s - 1 - x>>
      [] r = 180 -> <<w \div s - 1 - x, h \div s - 1 - y>>
      [] r = 270 -> <<w \div s - 1 - y, x>>
LEMMA RotateAt ==
    ASSUME NEW pic, NEW rotation \in {90, 180, 270}
    PROVE  LET rotated == Rotate(pic, rotation)
               w == IF rotation = 180 THEN pic.width ELSE pic.height
               h == IF rotation = 180 THEN pic.height ELSE pic.width
           IN  /\ rotated.width = w /\ rotated.height = h
               /\ \A s \in {1, 2} : \A p \in Area(w, h, s) :
                    rotated.plane[s][p]
                        = pic.plane[s][Turned(pic.width, pic.height, rotation, s, p[1], p[2])]
<1>1. CASE rotation = 90
  BY <1>1 DEF Rotate, Blank, Turned
<1>2. CASE rotation = 180
  BY <1>2 DEF Rotate, Blank, Turned
<1>3. CASE rotation = 270
  BY <1>3 DEF Rotate, Blank, Turned
<1> QED
  BY <1>1, <1>2, <1>3

LEMMA FlippedAt ==
    ASSUME NEW pic, pic.width \in Nat, pic.height \in Nat
    PROVE  LET flipped == FlipVertical(pic)
           IN  /\ flipped.width = pic.width /\ flipped.height = pic.height
               /\ \A s \in {1, 2} : \A p \in Area(pic.width, pic.height, s) :
                    flipped.plane[s][p] =
                        pic.plane[s][<<p[1], pic.height \div s - 1 - p[2]>>]
<1> DEFINE turned == Rotate(pic, 180)
           w == pic.width   h == pic.height
<1>1. /\ turned.width = w /\ turned.height = h
      /\ \A s \in {1, 2} : \A p \in Area(w, h, s) :
            turned.plane[s][p] = pic.plane[s][<<w \div s - 1 - p[1], h \div s - 1 - p[2]>>]
  BY RotateAt DEF Turned
<1>2. /\ Mirror(turned).width = w /\ Mirror(turned).height = h
      /\ \A s \in {1, 2} : \A p \in Area(w, h, s) :
            Mirror(turned).plane[s][p] = turned.plane[s][<<w \div s - 1 - p[1], p[2]>>]
  BY <1>1, MirrorAt
<1>3. ASSUME NEW s \in {1, 2}, NEW p \in Area(w, h, s)
      PROVE  Mirror(turned).plane[s][p] = pic.plane[s][<<p[1], h \div s - 1 - p[2]>>]
  <2> DEFINE m == w \div s   n == h \div s
  <2>1. p = <<p[1], p[2]>> /\ p[1] \in 0..(m - 1) /\ p[2] \in 0..(n - 1)
    BY AreaHas
  <2>2. m \in Nat /\ n \in Nat
    OBVIOUS
  <2> DEFINE q == <<m - 1 - p[1], p[2]>>
  <2>4. q \in Area(w, h, s) /\ q[1] = m - 1 - p[1] /\ q[2] = p[2]
    BY <2>1, <2>2 DEF Area
  <2>5. turned.plane[s][q] = pic.plane[s][<<m - 1 - q[1], n - 1 - q[2]>>]
    BY <1>1, <2>4
  <2>6. m - 1 - q[1] = p[1]
    BY <2>1, <2>2, <2>4
  <2> QED
    BY <1>2, <2>4, <2>5, <2>6
<1> QED
  BY <1>2, <1>3 DEF FlipVertical

\* The prover must not take a sample it was given for another to turn.
Lies(p, w, h, s) == p \in Area(w, h, s)
LEMMA TurnedInside ==
    ASSUME NEW w \in Nat, NEW h \in Nat, NEW s \in {1, 2}, NEW r \in {0, 90, 180, 270}, NEW p,
           r \in {90, 270} => p \in Area(h, w, s),
           r \notin {90, 270} => p \in Area(w, h, s)
    PROVE  Lies(Turned(w, h, r, s, p[1], p[2]), w, h, s)
<1> DEFINE m == w \div s   n == h \div s
<1>1. m \in Nat /\ n \in Nat
  OBVIOUS
<1> HIDE DEF m, n
<1>2. Area(w, h, s) = (0..(m - 1)) \X (0..(n - 1)) /\ Area(h, w, s) = (0..(n - 1)) \X (0..(m - 1))
  BY DEF Area, m, n
<1>3. Turned(w, h, r, s, p[1], p[2]) =
        CASE r = 0 -> <<p[1], p[2]>>
          [] r = 90 -> <<p[2], n - 1 - p[1]>>
          [] r = 180 -> <<m - 1 - p[1], n - 1 - p[2]>>
          [] r = 270 -> <<m - 1 - p[2], p[1]>>
  BY DEF Turned, m, n
<1>4. CASE r = 0
  BY <1>1, <1>2, <1>3, <1>4 DEF Lies
<1>5. CASE r = 90
  BY <1>1, <1>2, <1>3, <1>5 DEF Lies
<1>6. CASE r = 180
  BY <1>1, <1>2, <1>3, <1>6 DEF Lies
<1>7. CASE r = 270
  BY <1>1, <1>2, <1>3, <1>7 DEF Lies
<1> QED
  BY <1>4, <1>5, <1>6, <1>7

Cut(r, s, p) == <<r.crop_x + s * p[1], r.crop_y + s * p[2]>>
LEMMA CutIsNot == ASSUME NEW r, NEW s, NEW p PROVE Cut(r, s, p) # <<>>
<1> QED
  BY DEF Cut
LEMMA CropAt ==
    ASSUME NEW w \in Nat, NEW h \in Nat, NEW r \in ProcessConfigs,
           CropInside([width |-> w, height |-> h], r)
    PROVE  LET size == CropSize([width |-> w, height |-> h], r)
               cropped == Crop(Source(w, h), r.crop_x, r.crop_y, size.width, size.height)
           IN  /\ cropped.width = size.width /\ cropped.height = size.height
               /\ size.width \in Nat \ {0} /\ size.height \in Nat \ {0}
               /\ size.width % 2 = 0 /\ size.height % 2 = 0
               /\ \A s \in {1, 2} : \A p \in Area(size.width, size.height, s) :
                    cropped.plane[s][p] = Cut(r, s, p)
<1> DEFINE size == CropSize([width |-> w, height |-> h], r)
           cw == size.width   ch == size.height
           x == r.crop_x   y == r.crop_y
           source == Source(w, h)   canvas == Background(cw, ch)
           cropped == CopyI420(source, canvas, x, y, 0, 0)
<1>1. /\ cw \in Nat \ {0} /\ ch \in Nat \ {0} /\ x \in Nat /\ y \in Nat
      /\ cw % 2 = 0 /\ ch % 2 = 0 /\ x % 2 = 0 /\ y % 2 = 0
      /\ x + cw <= w /\ y + ch <= h
  BY DEF CropSize, CropInside, EvenNonzero, ProcessConfigs
<1> HIDE DEF size, cw, ch, x, y
<1>2. source.width = w /\ source.height = h /\ canvas.width = cw /\ canvas.height = ch
  <2>1. source.width = w /\ source.height = h
    BY DEF Source, Blank
  <2>2. canvas.width = cw /\ canvas.height = ch
    BY DEF Background, Blank
  <2> QED
    BY <2>1, <2>2
<1> HIDE DEF source, canvas
<1>3. Smaller(w - x, cw - 0) = cw /\ Smaller(h - y, ch - 0) = ch
  BY <1>1 DEF Smaller
<1>4. Pasted(cropped, source, canvas, cw, ch, x, y, 0, 0)
  <2>1. Pasted(cropped, source, canvas, Smaller(source.width - x, canvas.width - 0),
               Smaller(source.height - y, canvas.height - 0), x, y, 0, 0)
    BY <1>1, <1>2, CopyAt
  <2> QED
    BY <1>2, <1>3, <2>1
<1> HIDE DEF cropped
<1>5. ASSUME NEW s \in {1, 2}, NEW p \in Area(cw, ch, s)
      PROVE  cropped.plane[s][p] = <<x + s * p[1], y + s * p[2]>>
  <2> DEFINE q == <<p[1] + (x \div s), p[2] + (y \div s)>>
  <2>1. p = <<p[1], p[2]>> /\ p[1] \in 0..(cw \div s - 1) /\ p[2] \in 0..(ch \div s - 1)
    BY <1>1, AreaHas
  <2>2. p[1] - (0 \div s) = p[1] /\ p[2] - (0 \div s) = p[2]
    BY <2>1
  <2>3. cropped.plane[s][p] = source.plane[s][q]
    BY <1>2, <1>4, <2>1, <2>2 DEF Pasted
  <2>4. q \in Area(w, h, s) /\ s * q[1] = x + s * p[1] /\ s * q[2] = y + s * p[2]
    BY <1>1, <2>1 DEF Area
  <2> HIDE DEF q
  <2>5. source.plane[s][q] = <<s * q[1], s * q[2]>>
    BY <2>4, SourceAt DEF source
  <2> QED
    BY <2>3, <2>4, <2>5
<1>6. cropped.width = cw /\ cropped.height = ch
  BY <1>2, <1>4 DEF Pasted
<1> QED
  BY <1>1, <1>5, <1>6 DEF Crop, Cut, canvas, source, cropped, size, cw, ch, x, y

\* Where the picture after the flips and the rotation of request r has its
\* samples from, w by h being the size of the crop.
Flipped(w, h, r, s, x, y) ==
    <<IF r.horizontal THEN w \div s - 1 - x ELSE x, IF r.vertical THEN h \div s - 1 - y ELSE y>>
From(w, h, ow, oh, r, s, x, y) ==
    LET q == Flipped(ow, oh, r, s, x, y)
    IN  Cut(r, s, Turned(w, h, r.rotation, s, q[1], q[2]))

LEMMA FlippedInside ==
    ASSUME NEW w \in Nat, NEW h \in Nat, NEW r \in ProcessConfigs,
           NEW s \in {1, 2}, NEW p \in Area(w, h, s)
    PROVE  Flipped(w, h, r, s, p[1], p[2]) \in Area(w, h, s)
<1> DEFINE m == w \div s   n == h \div s
<1>1. m \in Nat /\ n \in Nat
  OBVIOUS
<1> HIDE DEF m, n
<1>2. Area(w, h, s) = (0..(m - 1)) \X (0..(n - 1))
  BY DEF Area, m, n
<1>3. Flipped(w, h, r, s, p[1], p[2]) =
        <<IF r.horizontal THEN m - 1 - p[1] ELSE p[1], IF r.vertical THEN n - 1 - p[2] ELSE p[2]>>
  BY DEF Flipped, m, n
<1>4. p[1] \in 0..(m - 1) /\ p[2] \in 0..(n - 1)
  BY <1>2
<1> QED
  BY <1>1, <1>2, <1>3, <1>4

LEMMA OrientedAt ==
    ASSUME NEW w \in Nat, NEW h \in Nat, NEW r \in ProcessConfigs,
           r.rotation \in {0, 90, 180, 270}, CropInside([width |-> w, height |-> h], r)
    PROVE  LET size == CropSize([width |-> w, height |-> h], r)
               cw == size.width   ch == size.height
               turned == r.rotation \in {90, 270}
               ow == IF turned THEN ch ELSE cw     oh == IF turned THEN cw ELSE ch
               pic == Oriented(Source(w, h), r)
           IN  /\ pic.width = ow /\ pic.height = oh
               /\ ow \in Nat \ {0} /\ oh \in Nat \ {0} /\ ow % 2 = 0 /\ oh % 2 = 0
               /\ \A s \in {1, 2} : \A p \in Area(ow, oh, s) :
                    pic.plane[s][p] = From(cw, ch, ow, oh, r, s, p[1], p[2])
<1> DEFINE size == CropSize([width |-> w, height |-> h], r)
           cw == size.width   ch == size.height
           turned == r.rotation \in {90, 270}
           ow == IF turned THEN ch ELSE cw     oh == IF turned THEN cw ELSE ch
           cropped == Crop(Source(w, h), r.crop_x, r.crop_y, cw, ch)
           rotated == IF r.rotation = 0 THEN cropped ELSE Rotate(cropped, r.rotation)
           flipped == IF r.horizontal THEN Mirror(rotated) ELSE rotated
           pic == IF r.vertical THEN FlipVertical(flipped) ELSE flipped
<1>1. /\ cropped.width = cw /\ cropped.height = ch
      /\ cw \in Nat \ {0} /\ ch \in Nat \ {0} /\ cw % 2 = 0 /\ ch % 2 = 0
      /\ \A s \in {1, 2} : \A p \in Area(cw, ch, s) : cropped.plane[s][p] = Cut(r, s, p)
  BY CropAt
<1>2. ow \in Nat \ {0} /\ oh \in Nat \ {0} /\ ow % 2 = 0 /\ oh % 2 = 0
  BY <1>1
<1>3. pic = Oriented(Source(w, h), r)
  BY SourceAt DEF Oriented, CropSize
<1> HIDE DEF size, cw, ch, cropped
<1>4. rotated.width = ow /\ rotated.height = oh
  <2>1. CASE r.rotation = 0
    BY <1>1, <2>1
  <2>2. CASE r.rotation \in {90, 180, 270}
    BY <1>1, <2>2, RotateAt
  <2> QED
    BY <2>1, <2>2
<1>5. ASSUME NEW s \in {1, 2}, NEW p \in Area(ow, oh, s)
      PROVE  rotated.plane[s][p] = Cut(r, s, Turned(cw, ch, r.rotation, s, p[1], p[2]))
  <2> DEFINE q == Turned(cw, ch, r.rotation, s, p[1], p[2])
  <2>1. q \in Area(cw, ch, s)
    <3>1. cw \in Nat /\ ch \in Nat
      BY <1>1
    <3>2. /\ r.rotation \in {90, 270} => p \in Area(ch, cw, s)
          /\ r.rotation \notin {90, 270} => p \in Area(cw, ch, s)
      OBVIOUS
    <3>3. Lies(q, cw, ch, s)
      BY <3>1, <3>2, TurnedInside
    <3> QED
      BY <3>3 DEF Lies
  <2>2. cropped.plane[s][q] = Cut(r, s, q)
    BY <1>1, <2>1
  <2>3. rotated.plane[s][p] = cropped.plane[s][q]
    <3>1. CASE r.rotation = 0
      <4>1. p = <<p[1], p[2]>>
        BY <1>2, AreaHas
      <4> QED
        BY <3>1, <4>1 DEF Turned
    <3>2. CASE r.rotation \in {90, 180, 270}
      BY <1>1, <3>2, RotateAt
    <3> QED
      BY <3>1, <3>2
  <2> QED
    BY <2>2, <2>3
<1> HIDE DEF ow, oh, rotated
<1>6. flipped.width = ow /\ flipped.height = oh
  BY <1>4, MirrorAt
<1>7. pic.width = ow /\ pic.height = oh
  BY <1>2, <1>6, FlippedAt
<1>8. ASSUME NEW s \in {1, 2}, NEW p \in Area(ow, oh, s)
      PROVE  pic.plane[s][p] = From(cw, ch, ow, oh, r, s, p[1], p[2])
  <2> DEFINE q == Flipped(ow, oh, r, s, p[1], p[2])
             row == <<p[1], IF r.vertical THEN oh \div s - 1 - p[2] ELSE p[2]>>
             m == ow \div s   n == oh \div s
  <2>1. q \in Area(ow, oh, s)
    BY <1>2, FlippedInside
  <2>2. p = <<p[1], p[2]>> /\ p[1] \in 0..(m - 1) /\ p[2] \in 0..(n - 1)
    BY <1>2, AreaHas
  <2>3. m \in Nat /\ n \in Nat
    BY <1>2
  <2>4. row \in Area(ow, oh, s)
    BY <2>2, <2>3 DEF Area
  <2>5. pic.plane[s][p] = flipped.plane[s][row]
    <3>1. CASE r.vertical
      BY <1>2, <1>6, <3>1, FlippedAt
    <3>2. CASE ~r.vertical
      BY <2>2, <3>2
    <3> QED
      BY <3>1, <3>2
  <2>6. flipped.plane[s][row] = rotated.plane[s][q]
    <3>1. q = <<IF r.horizontal THEN m - 1 - row[1] ELSE row[1], row[2]>>
      BY DEF Flipped
    <3>2. CASE r.horizontal
      BY <1>4, <2>4, <3>1, <3>2, MirrorAt
    <3>3. CASE ~r.horizontal
      BY <3>1, <3>3
    <3> QED
      BY <3>2, <3>3
  <2> HIDE DEF q
  <2>7. rotated.plane[s][q] = Cut(r, s, Turned(cw, ch, r.rotation, s, q[1], q[2]))
    BY <1>5, <2>1
  <2> QED
    BY <2>5, <2>6, <2>7 DEF From, q
<1> QED
  BY <1>2, <1>3, <1>7, <1>8 DEF size, cw, ch, ow, oh

LEMMA ScaledInside ==
    ASSUME NEW w \in Nat \ {0}, NEW n \in Nat \ {0}, w % 2 = 0, n % 2 = 0,
           NEW s \in {1, 2}, NEW x \in 0..(n \div s - 1)
    PROVE  (x * w) \div n \in 0..(w \div s - 1)
<1> DEFINE k == n \div s   m == w \div s
<1>1. k \in Nat \ {0} /\ m \in Nat \ {0} /\ n = s * k /\ w = s * m
  OBVIOUS
<1>2. x \in Nat /\ x <= k - 1
  OBVIOUS
<1> HIDE DEF k, m
<1>3. x * w \in Nat /\ x * m \in Nat /\ k * m \in Nat /\ n * m \in Nat
  BY <1>1, <1>2
<1>4. x * m <= k * m - m
  BY <1>1, <1>2
<1>5. x * w = s * (x * m) /\ n * m = s * (k * m)
  BY <1>1, <1>2
<1>6. x * w < n * m
  BY <1>1, <1>3, <1>4, <1>5
<1> DEFINE d == (x * w) \div n   e == (x * w) % n
<1>7. d \in Int /\ e \in 0..(n - 1) /\ x * w = n * d + e
  BY <1>3
<1> HIDE DEF d, e
<1>8. d >= 0
  <2> SUFFICES ASSUME d <= -1 PROVE FALSE
    BY <1>7
  <2>1. n * d <= -n
    BY <1>7
  <2> QED
    BY <2>1, <1>3, <1>7
<1>9. d <= m - 1
  <2> SUFFICES ASSUME d >= m PROVE FALSE
    BY <1>1, <1>7
  <2>1. n * d >= n * m
    BY <1>1, <1>7
  <2> QED
    BY <2>1, <1>3, <1>6, <1>7
<1> QED
  BY <1>1, <1>7, <1>8, <1>9 DEF d, m

LEMMA KeptBounds ==
    ASSUME NEW a \in Nat, NEW b \in Nat, NEW c \in Nat \ {0}, NEW out \in Nat
    PROVE  /\ (a * b) \div c \in Nat
           /\ a * b <= c * out => (a * b) \div c <= out
           /\ a * b >= c * out => (a * b) \div c >= out
<1> DEFINE n == a * b   d == n \div c   e == n % c
<1>1. n \in Nat /\ c * out \in Nat
  OBVIOUS
<1>2. d \in Int /\ e \in 0..(c - 1) /\ n = c * d + e
  BY <1>1
<1> HIDE DEF n, d, e
<1>3. d \in Nat
  <2> SUFFICES ASSUME d <= -1 PROVE FALSE
    BY <1>2
  <2>1. c * d <= -c
    BY <1>2
  <2> QED
    BY <2>1, <1>1, <1>2
<1>4. ASSUME n <= c * out PROVE d <= out
  <2> SUFFICES ASSUME d >= out + 1 PROVE FALSE
    BY <1>3
  <2>1. c * d >= c * out + c
    BY <1>3
  <2> QED
    BY <2>1, <1>1, <1>2, <1>3, <1>4
<1>5. ASSUME n >= c * out PROVE d >= out
  <2> SUFFICES ASSUME d + 1 <= out PROVE FALSE
    BY <1>3
  <2>1. c * out >= c * d + c
    BY <1>3
  <2> QED
    BY <2>1, <1>1, <1>2, <1>3, <1>5
<1> QED
  BY <1>3, <1>4, <1>5 DEF n, d

Greater(a, b) == IF a >= b THEN a ELSE b
LEMMA MaxOfTwo ==
    ASSUME NEW a \in Int, NEW b \in Int
    PROVE  Max({a, b}) = Greater(a, b)
<1>1. Greater(a, b) \in {a, b} /\ \A y \in {a, b} : Greater(a, b) >= y
  BY DEF Greater
<1>2. \A x \in {a, b} : (\A y \in {a, b} : x >= y) => x = Greater(a, b)
  BY DEF Greater
<1> QED
  BY <1>1, <1>2 DEF Max

LEMMA EvenFloorOf ==
    ASSUME NEW a \in Nat
    PROVE  /\ EvenFloor(a) \in Nat /\ EvenFloor(a) % 2 = 0 /\ EvenFloor(a) <= a
           /\ \A b \in Nat : b % 2 = 0 /\ b <= a => b <= EvenFloor(a)
<1> QED
  BY DEF EvenFloor

\* The size of process_frame_cpu is, for each axis, the one of the property.
LEMMA ScaledSizeIs ==
    ASSUME NEW pic, NEW out, NEW fit \in {"contain", "cover"},
           pic.width \in Nat \ {0}, pic.height \in Nat \ {0},
           out.width \in Nat \ {0}, out.height \in Nat \ {0},
           out.width % 2 = 0, out.height % 2 = 0
    PROVE  LET sw == Proportional(pic.width, pic.height, out.width, out.height, fit)
               sh == Proportional(pic.height, pic.width, out.height, out.width, fit)
               size == ScaledSize(pic, out, fit)
           IN  /\ size.width = sw /\ size.height = sh
               /\ sw \in Nat \ {0} /\ sh \in Nat \ {0} /\ sw % 2 = 0 /\ sh % 2 = 0
               /\ fit = "contain" => sw <= out.width /\ sh <= out.height
               /\ fit = "cover" => sw >= out.width /\ sh >= out.height
<1> DEFINE w == pic.width   h == pic.height   a == out.width   b == out.height
           keptW == (w * b) \div h   keptH == (h * a) \div w
           wide == a * h   high == b * w
           sw == Proportional(w, h, a, b, fit)   sh == Proportional(h, w, b, a, fit)
           size == ScaledSize(pic, out, fit)
<1>1. /\ w \in Nat \ {0} /\ h \in Nat \ {0} /\ a \in Nat \ {0} /\ b \in Nat \ {0}
      /\ a % 2 = 0 /\ b % 2 = 0
  OBVIOUS
<1>2. /\ Proportional(w, h, a, b, "contain") = Max({2, EvenFloor(Min({a, keptW}))})
      /\ Proportional(h, w, b, a, "contain") = Max({2, EvenFloor(Min({b, keptH}))})
      /\ Proportional(w, h, a, b, "cover") = Max({a, EvenFloor(keptW)})
      /\ Proportional(h, w, b, a, "cover") = Max({b, EvenFloor(keptH)})
  BY DEF Proportional
<1>3. (IF fit = "contain" THEN wide <= high ELSE wide >= high) =>
        size = [width |-> Max({2, a}), height |-> Max({2, EvenFloor(keptH)})]
  BY DEF ScaledSize
<1>4. ~(IF fit = "contain" THEN wide <= high ELSE wide >= high) =>
        size = [width |-> Max({2, EvenFloor(keptW)}), height |-> Max({2, b})]
  BY DEF ScaledSize
<1> HIDE DEF w, h, a, b, size
<1>5. wide \in Nat /\ high \in Nat /\ wide = h * a /\ high = w * b /\ high = b * w
  BY <1>1
<1>6. /\ keptW \in Nat /\ keptH \in Nat
      /\ high <= wide => keptW <= a
      /\ high >= wide => keptW >= a
      /\ wide <= high => keptH <= b
      /\ wide >= high => keptH >= b
  <2>1. /\ keptW \in Nat
        /\ w * b <= h * a => keptW <= a
        /\ w * b >= h * a => keptW >= a
    BY <1>1, KeptBounds
  <2>2. /\ keptH \in Nat
        /\ h * a <= w * b => keptH <= b
        /\ h * a >= w * b => keptH >= b
    BY <1>1, KeptBounds
  <2> QED
    BY <1>5, <2>1, <2>2
<1> HIDE DEF keptW, keptH, wide, high
<1>7. /\ EvenFloor(a) = a /\ EvenFloor(b) = b
      /\ a >= 2 /\ b >= 2
  BY <1>1 DEF EvenFloor
<1>8. /\ EvenFloor(keptW) \in Nat /\ EvenFloor(keptW) % 2 = 0 /\ EvenFloor(keptW) <= keptW
      /\ a <= keptW => a <= EvenFloor(keptW)
      /\ EvenFloor(keptH) \in Nat /\ EvenFloor(keptH) % 2 = 0 /\ EvenFloor(keptH) <= keptH
      /\ b <= keptH => b <= EvenFloor(keptH)
  BY <1>1, <1>6, EvenFloorOf
<1>9. /\ Min({a, keptW}) = Smaller(a, keptW) /\ Min({b, keptH}) = Smaller(b, keptH)
      /\ Max({2, a}) = a /\ Max({2, b}) = b
      /\ Max({2, EvenFloor(keptW)}) = Greater(2, EvenFloor(keptW))
      /\ Max({2, EvenFloor(keptH)}) = Greater(2, EvenFloor(keptH))
      /\ Max({a, EvenFloor(keptW)}) = Greater(a, EvenFloor(keptW))
      /\ Max({b, EvenFloor(keptH)}) = Greater(b, EvenFloor(keptH))
  <2>1. Max({2, a}) = Greater(2, a) /\ Max({2, b}) = Greater(2, b)
    BY <1>1, MaxOfTwo
  <2>2. Min({a, keptW}) = Smaller(a, keptW) /\ Min({b, keptH}) = Smaller(b, keptH)
    BY <1>1, <1>6, MinOfTwo
  <2>3. Max({2, EvenFloor(keptW)}) = Greater(2, EvenFloor(keptW))
    BY <1>8, MaxOfTwo
  <2>4. Max({2, EvenFloor(keptH)}) = Greater(2, EvenFloor(keptH))
    BY <1>8, MaxOfTwo
  <2>5. Max({a, EvenFloor(keptW)}) = Greater(a, EvenFloor(keptW))
    BY <1>1, <1>8, MaxOfTwo
  <2>6. Max({b, EvenFloor(keptH)}) = Greater(b, EvenFloor(keptH))
    BY <1>1, <1>8, MaxOfTwo
  <2> QED
    BY <1>1, <1>7, <2>1, <2>2, <2>3, <2>4, <2>5, <2>6 DEF Greater
<1> DEFINE evenW == EvenFloor(keptW)   evenH == EvenFloor(keptH)
<1>10. CASE fit = "contain" /\ wide <= high
  <2>1. Smaller(a, keptW) = a
    BY <1>1, <1>6, <1>10 DEF Smaller
  <2>2. EvenFloor(Smaller(b, keptH)) = evenH
    BY <1>1, <1>5, <1>6, <1>10 DEF Smaller
  <2>3. size = [width |-> a, height |-> Greater(2, evenH)]
    BY <1>3, <1>9, <1>10
  <2>4. sw = a /\ sh = Greater(2, evenH)
    BY <1>2, <1>7, <1>9, <1>10, <2>1, <2>2
  <2>5. Greater(2, evenH) \in Nat \ {0} /\ Greater(2, evenH) % 2 = 0 /\ Greater(2, evenH) <= b
    BY <1>1, <1>6, <1>7, <1>8, <1>10 DEF Greater
  <2> QED
    BY <1>1, <1>10, <2>3, <2>4, <2>5 DEF w, h, a, b, size
<1>11. CASE fit = "contain" /\ ~(wide <= high)
  <2>0. high <= wide
    BY <1>5, <1>11
  <2>1. Smaller(b, keptH) = b
    BY <1>1, <1>6, <2>0 DEF Smaller
  <2>2. EvenFloor(Smaller(a, keptW)) = evenW
    BY <1>1, <1>6, <2>0 DEF Smaller
  <2>3. size = [width |-> Greater(2, evenW), height |-> b]
    BY <1>4, <1>9, <1>11
  <2>4. sw = Greater(2, evenW) /\ sh = b
    BY <1>2, <1>7, <1>9, <1>11, <2>1, <2>2
  <2>5. Greater(2, evenW) \in Nat \ {0} /\ Greater(2, evenW) % 2 = 0 /\ Greater(2, evenW) <= a
    BY <1>1, <1>6, <1>7, <1>8, <2>0 DEF Greater
  <2> QED
    BY <1>1, <1>11, <2>3, <2>4, <2>5 DEF w, h, a, b, size
<1>12. CASE fit = "cover" /\ wide >= high
  <2>1. evenW <= a /\ evenH >= b
    BY <1>1, <1>5, <1>6, <1>8, <1>12
  <2>2. size = [width |-> a, height |-> evenH]
    <3>1. size = [width |-> Max({2, a}), height |-> Max({2, evenH})]
      BY <1>3, <1>12
    <3>2. Max({2, evenH}) = evenH
      BY <1>1, <1>7, <1>8, <1>9, <2>1 DEF Greater
    <3> QED
      BY <1>9, <3>1, <3>2
  <2>3. sw = a /\ sh = evenH
    BY <1>1, <1>2, <1>8, <1>9, <1>12, <2>1 DEF Greater
  <2> QED
    BY <1>1, <1>7, <1>8, <1>12, <2>1, <2>2, <2>3 DEF w, h, a, b, size
<1>13. CASE fit = "cover" /\ ~(wide >= high)
  <2>0. wide <= high
    BY <1>5, <1>13
  <2>1. evenH <= b /\ evenW >= a
    BY <1>1, <1>6, <1>8, <2>0
  <2>2. size = [width |-> evenW, height |-> b]
    <3>1. size = [width |-> Max({2, evenW}), height |-> Max({2, b})]
      BY <1>4, <1>13
    <3>2. Max({2, evenW}) = evenW
      BY <1>1, <1>7, <1>8, <1>9, <2>1 DEF Greater
    <3> QED
      BY <1>9, <3>1, <3>2
  <2>3. sw = evenW /\ sh = b
    BY <1>1, <1>2, <1>8, <1>9, <1>13, <2>1 DEF Greater
  <2> QED
    BY <1>1, <1>7, <1>8, <1>13, <2>1, <2>2, <2>3 DEF w, h, a, b, size
<1> QED
  BY <1>10, <1>11, <1>12, <1>13

\* Margin on one axis: the bar beside the picture, or what overhangs.
LEMMA MarginIs ==
    ASSUME NEW out \in Nat, NEW n \in Nat, out % 2 = 0, n % 2 = 0,
           NEW s \in {1, 2}
    PROVE  /\ n <= out =>
                /\ Margin(out, n) = EvenFloor((out - n) \div 2)
                /\ Margin(out, n) \in Nat /\ Margin(out, n) % 2 = 0
                /\ Margin(out, n) + n <= out
           /\ n >= out =>
                /\ Margin(out, n) = -EvenFloor((n - out) \div 2)
                /\ -Margin(out, n) \in Nat /\ -Margin(out, n) % 2 = 0
                /\ out - Margin(out, n) <= n
                /\ Margin(out, n) \div s = -(EvenFloor((n - out) \div 2) \div s)
<1>1. ASSUME n <= out
      PROVE  /\ Margin(out, n) = EvenFloor((out - n) \div 2)
             /\ Margin(out, n) \in Nat /\ Margin(out, n) % 2 = 0
             /\ Margin(out, n) + n <= out
  <2> DEFINE half == (out - n) \div 2
  <2>1. half \in Nat /\ half + n <= out
    BY <1>1
  <2>2. EvenFloor(half) \in Nat /\ EvenFloor(half) % 2 = 0 /\ EvenFloor(half) <= half
    BY <2>1, EvenFloorOf
  <2>3. Margin(out, n) = EvenFloor(half)
    BY <1>1 DEF Margin
  <2> HIDE DEF half
  <2> QED
    BY <2>1, <2>2, <2>3 DEF half
<1>2. ASSUME n >= out
      PROVE  /\ Margin(out, n) = -EvenFloor((n - out) \div 2)
             /\ -Margin(out, n) \in Nat /\ -Margin(out, n) % 2 = 0
             /\ out - Margin(out, n) <= n
             /\ Margin(out, n) \div s = -(EvenFloor((n - out) \div 2) \div s)
  <2> DEFINE half == (n - out) \div 2
  <2>1. half \in Nat /\ half + out <= n
    BY <1>2
  <2>2. EvenFloor(half) \in Nat /\ EvenFloor(half) % 2 = 0 /\ EvenFloor(half) <= half
    BY <2>1, EvenFloorOf
  <2>3. Margin(out, n) = -EvenFloor(half)
    <3>1. CASE n = out
      <4>1. EvenFloor((out - n) \div 2) = 0 /\ EvenFloor(half) = 0
        BY <3>1 DEF EvenFloor
      <4> QED
        BY <3>1, <4>1 DEF Margin
    <3>2. CASE n > out
      BY <3>2 DEF Margin
    <3> QED
      BY <1>2, <3>1, <3>2
  <2> HIDE DEF half
  <2>4. Margin(out, n) \div s = -(EvenFloor(half) \div s)
    BY <2>2, <2>3
  <2> QED
    BY <2>1, <2>2, <2>3, <2>4, SMTT(30) DEF half
<1> QED
  BY <1>1, <1>2

\* Where the output has its samples from, n by m being the size after Scale.
Placed(pic, n, m, outw, outh, s, x, y) ==
    LET u == x - (Margin(outw, n) \div s)   v == y - (Margin(outh, m) \div s)
    IN  IF u \in 0..((n \div s) - 1) /\ v \in 0..((m \div s) - 1)
        THEN pic.plane[s][<<(u * pic.width) \div n, (v * pic.height) \div m>>]
        ELSE <<>>
Shown(result, pic, n, m, outw, outh) ==
    /\ result.width = outw /\ result.height = outh
    /\ \A s \in {1, 2} : \A p \in Area(outw, outh, s) :
            result.plane[s][p] = Placed(pic, n, m, outw, outh, s, p[1], p[2])

LEMMA StretchShown ==
    ASSUME NEW pic, NEW outw \in Nat, NEW outh \in Nat, outw % 2 = 0, outh % 2 = 0
    PROVE  Shown(Scale(pic, outw, outh), pic, outw, outh, outw, outh)
<1> DEFINE scaled == Scale(pic, outw, outh)
<1>1. /\ scaled.width = outw /\ scaled.height = outh
      /\ \A s \in {1, 2} : \A p \in Area(outw, outh, s) :
            scaled.plane[s][p] =
                pic.plane[s][<<(p[1] * pic.width) \div outw, (p[2] * pic.height) \div outh>>]
  BY ScaleAt
<1> HIDE DEF scaled
<1>2. Margin(outw, outw) = 0 /\ Margin(outh, outh) = 0
  BY DEF Margin, EvenFloor
<1>3. ASSUME NEW s \in {1, 2}, NEW p \in Area(outw, outh, s)
      PROVE  scaled.plane[s][p] = Placed(pic, outw, outh, outw, outh, s, p[1], p[2])
  <2>1. p[1] \in 0..((outw \div s) - 1) /\ p[2] \in 0..((outh \div s) - 1)
    BY AreaHas
  <2>2. p[1] - (0 \div s) = p[1] /\ p[2] - (0 \div s) = p[2]
    BY <2>1
  <2> QED
    BY <1>1, <1>2, <2>1, <2>2 DEF Placed
<1> QED
  BY <1>1, <1>3 DEF Shown, scaled

LEMMA ContainShown ==
    ASSUME NEW pic, NEW out, NEW n \in Nat, NEW m \in Nat,
           out.width \in Nat, out.height \in Nat, out.width % 2 = 0, out.height % 2 = 0,
           n % 2 = 0, m % 2 = 0, n <= out.width, m <= out.height,
           n = ScaledSize(pic, out, "contain").width,
           m = ScaledSize(pic, out, "contain").height
    PROVE  Shown(Composed(pic, out, "contain"), pic, n, m, out.width, out.height)
<1> DEFINE a == out.width   b == out.height
           scaled == Scale(pic, n, m)
           canvas == Background(a, b)
           c == Margin(a, n)   d == Margin(b, m)
           result == CopyI420(scaled, canvas, 0, 0, c, d)
<1>0. a \in Nat /\ b \in Nat /\ a % 2 = 0 /\ b % 2 = 0 /\ n <= a /\ m <= b
  OBVIOUS
<1>1. /\ scaled.width = n /\ scaled.height = m
      /\ \A s \in {1, 2} : \A p \in Area(n, m, s) :
            scaled.plane[s][p] =
                pic.plane[s][<<(p[1] * pic.width) \div n, (p[2] * pic.height) \div m>>]
  BY ScaleAt
<1>2. /\ canvas.width = a /\ canvas.height = b
      /\ \A s \in {1, 2} : \A p \in Area(a, b, s) : canvas.plane[s][p] = <<>>
  BY <1>0, BackgroundAt
<1>3. c \in Nat /\ c + n <= a /\ d \in Nat /\ d + m <= b
  BY <1>0, MarginIs
<1>4. Composed(pic, out, "contain") = result
  <2>1. c = EvenFloor((a - n) \div 2) /\ d = EvenFloor((b - m) \div 2)
    BY <1>0, MarginIs
  <2> QED
    BY <2>1 DEF Composed
<1> HIDE DEF a, b, scaled, canvas, c, d
<1>5. Smaller(n - 0, a - c) = n /\ Smaller(m - 0, b - d) = m
  <2>1. n - 0 = n /\ m - 0 = m
    OBVIOUS
  <2>2. n <= a - c
    BY <1>0, <1>3
  <2>3. m <= b - d
    BY <1>0, <1>3
  <2> QED
    BY <2>1, <2>2, <2>3 DEF Smaller
<1>6. Pasted(result, scaled, canvas, n, m, 0, 0, c, d)
  <2>1. Pasted(result, scaled, canvas, Smaller(scaled.width - 0, canvas.width - c),
               Smaller(scaled.height - 0, canvas.height - d), 0, 0, c, d)
    BY <1>0, <1>1, <1>2, <1>3, CopyAt
  <2> QED
    BY <1>1, <1>2, <1>5, <2>1
<1> HIDE DEF result
<1>7. ASSUME NEW s \in {1, 2}, NEW p \in Area(a, b, s)
      PROVE  result.plane[s][p] = Placed(pic, n, m, a, b, s, p[1], p[2])
  <2> DEFINE u == p[1] - (c \div s)   v == p[2] - (d \div s)
  <2>1. p = <<p[1], p[2]>> /\ p[1] \in Nat /\ p[2] \in Nat
    BY <1>0, AreaHas
  <2>2. u \in Int /\ v \in Int /\ u + (0 \div s) = u /\ v + (0 \div s) = v
    BY <1>3, <2>1
  <2>3. result.plane[s][p] =
            IF <<u, v>> \in Area(n, m, s) THEN scaled.plane[s][<<u + (0 \div s), v + (0 \div s)>>]
            ELSE canvas.plane[s][<<p[1], p[2]>>]
    BY <1>2, <1>6 DEF Pasted
  <2>4. <<u, v>> \in Area(n, m, s) <=> u \in 0..((n \div s) - 1) /\ v \in 0..((m \div s) - 1)
    BY DEF Area
  <2> HIDE DEF u, v
  <2>5. CASE <<u, v>> \in Area(n, m, s)
    <3>1. result.plane[s][p] = scaled.plane[s][<<u, v>>]
      BY <2>2, <2>3, <2>5
    <3>2. scaled.plane[s][<<u, v>>] =
            pic.plane[s][<<(u * pic.width) \div n, (v * pic.height) \div m>>]
      BY <1>1, <2>5
    <3> QED
      BY <2>4, <2>5, <3>1, <3>2 DEF Placed, u, v, c, d
  <2>6. CASE <<u, v>> \notin Area(n, m, s)
    <3>1. result.plane[s][p] = <<>>
      BY <1>2, <2>1, <2>3, <2>6
    <3> QED
      BY <2>4, <2>6, <3>1 DEF Placed, u, v, c, d
  <2> QED
    BY <2>5, <2>6
<1>8. result.width = a /\ result.height = b
  BY <1>2, <1>6 DEF Pasted
<1> QED
  BY <1>4, <1>7, <1>8 DEF Shown, a, b

LEMMA CoverShown ==
    ASSUME NEW pic, NEW out, NEW n \in Nat, NEW m \in Nat,
           out.width \in Nat, out.height \in Nat, out.width % 2 = 0, out.height % 2 = 0,
           n % 2 = 0, m % 2 = 0, n >= out.width, m >= out.height,
           n = ScaledSize(pic, out, "cover").width,
           m = ScaledSize(pic, out, "cover").height
    PROVE  Shown(Composed(pic, out, "cover"), pic, n, m, out.width, out.height)
<1> DEFINE a == out.width   b == out.height
           scaled == Scale(pic, n, m)
           canvas == Background(a, b)
           c == EvenFloor((n - a) \div 2)   d == EvenFloor((m - b) \div 2)
           result == CopyI420(scaled, canvas, c, d, 0, 0)
<1>0. a \in Nat /\ b \in Nat /\ a % 2 = 0 /\ b % 2 = 0 /\ n >= a /\ m >= b
  OBVIOUS
<1>1. /\ scaled.width = n /\ scaled.height = m
      /\ \A s \in {1, 2} : \A p \in Area(n, m, s) :
            scaled.plane[s][p] =
                pic.plane[s][<<(p[1] * pic.width) \div n, (p[2] * pic.height) \div m>>]
  BY ScaleAt
<1>2. canvas.width = a /\ canvas.height = b
  BY <1>0, BackgroundAt
<1>3. /\ c \in Nat /\ a + c <= n /\ d \in Nat /\ b + d <= m /\ c % 2 = 0 /\ d % 2 = 0
      /\ \A s \in {1, 2} : Margin(a, n) \div s = -(c \div s) /\ Margin(b, m) \div s = -(d \div s)
  <2>1. /\ -Margin(a, n) \in Nat /\ a - Margin(a, n) <= n /\ Margin(a, n) = -c
        /\ -Margin(b, m) \in Nat /\ b - Margin(b, m) <= m /\ Margin(b, m) = -d
        /\ -Margin(a, n) % 2 = 0 /\ -Margin(b, m) % 2 = 0
    BY <1>0, MarginIs
  <2>2. ASSUME NEW s \in {1, 2}
        PROVE  Margin(a, n) \div s = -(c \div s) /\ Margin(b, m) \div s = -(d \div s)
    BY <1>0, MarginIs, ZenonT(60)
  <2>3. c \in Int /\ d \in Int
    BY <1>0 DEF EvenFloor
  <2> HIDE DEF c, d
  <2> QED
    BY <1>0, <2>1, <2>2, <2>3
<1>4. Composed(pic, out, "cover") = result
  BY DEF Composed
<1> HIDE DEF a, b, scaled, canvas, c, d
<1>5. Smaller(n - c, a - 0) = a /\ Smaller(m - d, b - 0) = b
  BY <1>0, <1>3 DEF Smaller
<1>6. Pasted(result, scaled, canvas, a, b, c, d, 0, 0)
  <2>1. Pasted(result, scaled, canvas, Smaller(scaled.width - c, canvas.width - 0),
               Smaller(scaled.height - d, canvas.height - 0), c, d, 0, 0)
    BY <1>0, <1>1, <1>2, <1>3, CopyAt
  <2> QED
    BY <1>1, <1>2, <1>5, <2>1
<1> HIDE DEF result
<1>7. ASSUME NEW s \in {1, 2}, NEW p \in Area(a, b, s)
      PROVE  result.plane[s][p] = Placed(pic, n, m, a, b, s, p[1], p[2])
  <2> DEFINE u == p[1] + (c \div s)   v == p[2] + (d \div s)
  <2>1. /\ p = <<p[1], p[2]>>
        /\ p[1] \in 0..(a \div s - 1) /\ p[2] \in 0..(b \div s - 1)
    BY <1>0, AreaHas
  <2>2. p[1] - (0 \div s) = p[1] /\ p[2] - (0 \div s) = p[2]
    BY <2>1
  <2>3. result.plane[s][p] = scaled.plane[s][<<u, v>>]
    <3>1. result.plane[s][p] =
            IF <<p[1] - (0 \div s), p[2] - (0 \div s)>> \in Area(a, b, s)
            THEN scaled.plane[s][<<p[1] - (0 \div s) + (c \div s), p[2] - (0 \div s) + (d \div s)>>]
            ELSE canvas.plane[s][<<p[1], p[2]>>]
      BY <1>2, <1>6 DEF Pasted
    <3> QED
      BY <2>1, <2>2, <3>1
  <2>4. /\ u \in 0..((n \div s) - 1) /\ v \in 0..((m \div s) - 1)
        /\ u = p[1] - (Margin(a, n) \div s) /\ v = p[2] - (Margin(b, m) \div s)
    <3>1. PICK k \in Nat, l \in Nat : k = c \div s /\ l = d \div s
      BY <1>3
    <3>2. a \div s + k <= n \div s /\ b \div s + l <= m \div s
      BY <1>0, <1>3, <3>1
    <3>3. Margin(a, n) \div s = -k /\ Margin(b, m) \div s = -l
      BY <1>3, <3>1
    <3>4. PICK e \in Nat, f \in Nat : e = n \div s /\ f = m \div s
      OBVIOUS
    <3>5. PICK g \in Nat, h \in Nat : g = a \div s /\ h = b \div s
      BY <1>0
    <3>6. PICK x \in Nat, y \in Nat : x = p[1] /\ y = p[2]
      BY <1>0, <2>1
    <3>7. /\ x + k \in 0..(e - 1) /\ y + l \in 0..(f - 1)
          /\ x + k = x - (-k) /\ y + l = y - (-l)
      BY <2>1, <3>1, <3>2, <3>4, <3>5, <3>6
    <3> QED
      BY <3>1, <3>3, <3>4, <3>6, <3>7
  <2>5. <<u, v>> \in Area(n, m, s)
    BY <2>4 DEF Area
  <2> HIDE DEF u, v
  <2>6. scaled.plane[s][<<u, v>>] =
            pic.plane[s][<<(u * pic.width) \div n, (v * pic.height) \div m>>]
    BY <1>1, <2>5
  <2> QED
    BY <2>3, <2>4, <2>6 DEF Placed
<1>8. result.width = a /\ result.height = b
  BY <1>2, <1>6 DEF Pasted
<1> QED
  BY <1>4, <1>7, <1>8 DEF Shown, a, b

LEMMA ProcessShown ==
    ASSUME NEW w \in Nat, NEW h \in Nat, NEW r \in ProcessConfigs,
           ProcessResult(Source(w, h), r) = "OK"
    PROVE  LET pic == Oriented(Source(w, h), r)
               out == OutputSize(pic, r)
               n == Proportional(pic.width, pic.height, out.width, out.height, r.fit)
               m == Proportional(pic.height, pic.width, out.height, out.width, r.fit)
           IN  /\ r.rotation \in {0, 90, 180, 270}
               /\ CropInside([width |-> w, height |-> h], r)
               /\ n \in Nat \ {0} /\ m \in Nat \ {0} /\ n % 2 = 0 /\ m % 2 = 0
               /\ out.width \in Nat /\ out.height \in Nat
               /\ r.fit = "cover" => n >= out.width /\ m >= out.height
               /\ out.width % 2 = 0 /\ out.height % 2 = 0
               /\ Shown(Process(Source(w, h), r), pic, n, m, out.width, out.height)
<1> DEFINE pic == Oriented(Source(w, h), r)
           out == OutputSize(pic, r)
           n == Proportional(pic.width, pic.height, out.width, out.height, r.fit)
           m == Proportional(pic.height, pic.width, out.height, out.width, r.fit)
<1>1. /\ r.rotation \in {0, 90, 180, 270} /\ r.fit \in Fits /\ CropInside(Source(w, h), r)
      /\ EvenNonzero(out.width) /\ EvenNonzero(out.height)
  BY DEF ProcessResult
<1>2. CropInside([width |-> w, height |-> h], r)
  BY <1>1, SourceAt DEF CropInside, CropSize
<1>3. pic.width \in Nat \ {0} /\ pic.height \in Nat \ {0}
  BY <1>1, <1>2, OrientedAt
<1> HIDE DEF pic
<1>4. /\ out.width \in Nat \ {0} /\ out.height \in Nat \ {0}
      /\ out.width % 2 = 0 /\ out.height % 2 = 0
  BY <1>1, <1>3 DEF OutputSize, EvenNonzero, ProcessConfigs
<1> HIDE DEF out
<1>5. Process(Source(w, h), r) =
        IF r.fit = "stretch" THEN Scale(pic, out.width, out.height) ELSE Composed(pic, out, r.fit)
  BY DEF Process, pic, out
<1>6. CASE r.fit = "stretch"
  <2>1. n = out.width /\ m = out.height
    BY <1>6 DEF Proportional
  <2>2. Shown(Process(Source(w, h), r), pic, n, m, out.width, out.height)
    BY <1>4, <1>5, <1>6, <2>1, StretchShown
  <2> QED
    BY <1>1, <1>2, <1>4, <1>6, <2>1, <2>2 DEF pic, out
<1>7. CASE r.fit = "contain"
  <2>1. /\ ScaledSize(pic, out, "contain").width = n /\ ScaledSize(pic, out, "contain").height = m
        /\ n \in Nat \ {0} /\ m \in Nat \ {0} /\ n % 2 = 0 /\ m % 2 = 0
        /\ n <= out.width /\ m <= out.height
    BY <1>3, <1>4, <1>7, ScaledSizeIs
  <2> HIDE DEF n, m
  <2>2. Shown(Process(Source(w, h), r), pic, n, m, out.width, out.height)
    BY <1>4, <1>5, <1>7, <2>1, ContainShown
  <2> QED
    BY <1>1, <1>2, <1>4, <1>7, <2>1, <2>2 DEF pic, out, n, m
<1>8. CASE r.fit = "cover"
  <2>1. /\ ScaledSize(pic, out, "cover").width = n /\ ScaledSize(pic, out, "cover").height = m
        /\ n \in Nat \ {0} /\ m \in Nat \ {0} /\ n % 2 = 0 /\ m % 2 = 0
        /\ n >= out.width /\ m >= out.height
    BY <1>3, <1>4, <1>8, ScaledSizeIs
  <2> HIDE DEF n, m
  <2>2. Shown(Process(Source(w, h), r), pic, n, m, out.width, out.height)
    BY <1>4, <1>5, <1>8, <2>1, CoverShown
  <2> QED
    BY <1>1, <1>2, <1>4, <1>8, <2>1, <2>2 DEF pic, out, n, m
<1> QED
  BY <1>1, <1>6, <1>7, <1>8 DEF Fits

\* Origin in two steps: to the sample of the oriented picture, and from it back.
Back(w, h, ow, oh, r, s, fx, fy) ==
    LET a == IF r.horizontal THEN (ow \div s) - 1 - fx ELSE fx
        b == IF r.vertical THEN (oh \div s) - 1 - fy ELSE fy
        p == CASE r.rotation = 0 -> <<a, b>>
               [] r.rotation = 90 -> <<b, (h \div s) - 1 - a>>
               [] r.rotation = 180 -> <<(w \div s) - 1 - a, (h \div s) - 1 - b>>
               [] r.rotation = 270 -> <<(w \div s) - 1 - b, a>>
    IN  <<r.crop_x + s * p[1], r.crop_y + s * p[2]>>
LEMMA BackIs ==
    ASSUME NEW w, NEW h, NEW ow, NEW oh, NEW r, NEW s, NEW fx, NEW fy,
           r.rotation \in {0, 90, 180, 270}
    PROVE  Back(w, h, ow, oh, r, s, fx, fy) = From(w, h, ow, oh, r, s, fx, fy)
<1> DEFINE a == IF r.horizontal THEN ow \div s - 1 - fx ELSE fx
           b == IF r.vertical THEN oh \div s - 1 - fy ELSE fy
<1>1. From(w, h, ow, oh, r, s, fx, fy) = Cut(r, s, Turned(w, h, r.rotation, s, a, b))
  BY DEF From, Flipped
<1>2. Back(w, h, ow, oh, r, s, fx, fy) =
        LET p == CASE r.rotation = 0 -> <<a, b>>
                   [] r.rotation = 90 -> <<b, (h \div s) - 1 - a>>
                   [] r.rotation = 180 -> <<(w \div s) - 1 - a, (h \div s) - 1 - b>>
                   [] r.rotation = 270 -> <<(w \div s) - 1 - b, a>>
        IN  <<r.crop_x + s * p[1], r.crop_y + s * p[2]>>
  BY DEF Back
<1> HIDE DEF a, b
<1> QED
  BY <1>1, <1>2 DEF Cut, Turned

LEMMA OriginIs ==
    ASSUME NEW size, NEW r, NEW s, NEW x, NEW y
    PROVE  LET w == IF r.crop_width = 0 THEN size[1] ELSE r.crop_width
               h == IF r.crop_height = 0 THEN size[2] ELSE r.crop_height
               turned == r.rotation \in {90, 270}
               ow == IF turned THEN h ELSE w     oh == IF turned THEN w ELSE h
               outw == IF r.width = 0 THEN ow ELSE r.width
               outh == IF r.height = 0 THEN oh ELSE r.height
               n == Proportional(ow, oh, outw, outh, r.fit)
               m == Proportional(oh, ow, outh, outw, r.fit)
               u == x - (Margin(outw, n) \div s)
               v == y - (Margin(outh, m) \div s)
           IN  Origin(size, r, s, x, y) =
                IF u \in 0..((n \div s) - 1) /\ v \in 0..((m \div s) - 1)
                THEN Back(w, h, ow, oh, r, s, (u * ow) \div n, (v * oh) \div m) ELSE <<>>
<1> QED
  BY DEF Origin, Back

LEMMA ProcessRight ==
    ASSUME NEW w \in Nat, NEW h \in Nat, NEW r \in ProcessConfigs,
           ProcessResult(Source(w, h), r) = "OK",
           NEW s \in {1, 2},
           NEW p \in Area(Process(Source(w, h), r).width, Process(Source(w, h), r).height, s)
    PROVE  /\ Process(Source(w, h), r).plane[s][p] = Origin(<<w, h>>, r, s, p[1], p[2])
           /\ r.fit = "cover" => Origin(<<w, h>>, r, s, p[1], p[2]) # <<>>
<1> DEFINE result == Process(Source(w, h), r)
           size == CropSize([width |-> w, height |-> h], r)
           pic == Oriented(Source(w, h), r)
           ow == pic.width   oh == pic.height
           out == OutputSize(pic, r)
           outw == out.width   outh == out.height
           n == Proportional(ow, oh, outw, outh, r.fit)
           m == Proportional(oh, ow, outh, outw, r.fit)
           x == p[1]   y == p[2]
           u == x - (Margin(outw, n) \div s)
           v == y - (Margin(outh, m) \div s)
           fx == (u * ow) \div n   fy == (v * oh) \div m
           inside == u \in 0..((n \div s) - 1) /\ v \in 0..((m \div s) - 1)
<1>1. /\ r.rotation \in {0, 90, 180, 270} /\ CropInside([width |-> w, height |-> h], r)
      /\ n \in Nat \ {0} /\ m \in Nat \ {0} /\ n % 2 = 0 /\ m % 2 = 0
      /\ r.fit = "cover" => n >= outw /\ m >= outh
      /\ outw \in Nat /\ outh \in Nat /\ outw % 2 = 0 /\ outh % 2 = 0
      /\ Shown(result, pic, n, m, outw, outh)
  BY ProcessShown
<1>2. /\ ow \in Nat \ {0} /\ oh \in Nat \ {0} /\ ow % 2 = 0 /\ oh % 2 = 0
      /\ \A k \in {1, 2} : \A q \in Area(ow, oh, k) :
            pic.plane[k][q] = From(size.width, size.height, ow, oh, r, k, q[1], q[2])
  BY <1>1, OrientedAt
<1>3. p \in Area(outw, outh, s)
  BY <1>1 DEF Shown
<1>4. /\ x \in 0..(outw \div s - 1) /\ y \in 0..(outh \div s - 1) /\ x \in Nat /\ y \in Nat
  BY <1>1, <1>3, AreaHas
<1>5. Origin(<<w, h>>, r, s, x, y) =
        IF inside THEN From(size.width, size.height, ow, oh, r, s, fx, fy) ELSE <<>>
  <2> DEFINE cw == IF r.crop_width = 0 THEN w ELSE r.crop_width
             ch == IF r.crop_height = 0 THEN h ELSE r.crop_height
             turned == r.rotation \in {90, 270}
             tw == IF turned THEN ch ELSE cw     th == IF turned THEN cw ELSE ch
  <2>1. size.width = cw /\ size.height = ch
    BY DEF CropSize
  <2>2. ow = tw /\ oh = th
    BY <1>1, <2>1, OrientedAt
  <2> HIDE DEF pic
  <2>3. /\ outw = IF r.width = 0 THEN tw ELSE r.width
        /\ outh = IF r.height = 0 THEN th ELSE r.height
    BY <2>2 DEF OutputSize
  <2>4. <<w, h>>[1] = w /\ <<w, h>>[2] = h
    OBVIOUS
  <2> HIDE DEF outw, outh, ow, oh
  <2>5. Origin(<<w, h>>, r, s, x, y) =
          IF inside THEN Back(cw, ch, ow, oh, r, s, fx, fy) ELSE <<>>
    BY <2>2, <2>3, <2>4, OriginIs, SMTT(30)
  <2>6. Back(cw, ch, ow, oh, r, s, fx, fy) = From(cw, ch, ow, oh, r, s, fx, fy)
    BY <1>1, BackIs
  <2> HIDE DEF inside, fx, fy, cw, ch, size
  <2> QED
    BY <2>1, <2>5, <2>6
<1>6. result.plane[s][p] = IF inside THEN pic.plane[s][<<fx, fy>>] ELSE <<>>
  BY <1>1, <1>3 DEF Shown, Placed
<1> HIDE DEF result, size, pic, ow, oh, outw, outh, out, n, m, x, y, u, v
<1>7. ASSUME inside
      PROVE  pic.plane[s][<<fx, fy>>] = From(size.width, size.height, ow, oh, r, s, fx, fy)
  <2>1. fx \in 0..(ow \div s - 1)
    BY <1>1, <1>2, <1>7, ScaledInside
  <2>2. fy \in 0..(oh \div s - 1)
    BY <1>1, <1>2, <1>7, ScaledInside
  <2> HIDE DEF fx, fy
  <2>3. <<fx, fy>> \in Area(ow, oh, s)
    BY <2>1, <2>2 DEF Area
  <2> QED
    BY <1>2, <2>3
<1>8. ASSUME r.fit = "cover" PROVE inside
  <2>1. /\ -Margin(outw, n) \in Nat /\ -Margin(outw, n) % 2 = 0 /\ outw - Margin(outw, n) <= n
        /\ -Margin(outh, m) \in Nat /\ -Margin(outh, m) % 2 = 0 /\ outh - Margin(outh, m) <= m
        /\ Margin(outw, n) \div s = -(EvenFloor((n - outw) \div 2) \div s)
        /\ Margin(outw, n) = -EvenFloor((n - outw) \div 2)
        /\ Margin(outh, m) \div s = -(EvenFloor((m - outh) \div 2) \div s)
        /\ Margin(outh, m) = -EvenFloor((m - outh) \div 2)
    <3>1. n >= outw /\ m >= outh
      BY <1>1, <1>8
    <3> DEFINE Away(limit, k, z) ==
            /\ -z \in Nat /\ -z % 2 = 0 /\ limit - z <= k
            /\ z \div s = -(EvenFloor((k - limit) \div 2) \div s)
            /\ z = -EvenFloor((k - limit) \div 2)
    <3>2. /\ -Margin(outw, n) \in Nat /\ -Margin(outw, n) % 2 = 0 /\ outw - Margin(outw, n) <= n
          /\ Margin(outw, n) \div s = -(EvenFloor((n - outw) \div 2) \div s)
          /\ Margin(outw, n) = -EvenFloor((n - outw) \div 2)
      <4>1. PICK a \in Nat, k \in Nat : a = outw /\ k = n
        BY <1>1
      <4>2. a % 2 = 0 /\ k % 2 = 0 /\ k >= a
        BY <1>1, <3>1, <4>1
      <4>3. Away(a, k, Margin(a, k))
        BY <4>2, MarginIs
      <4> QED
        BY <4>1, <4>3
    <3>3. /\ -Margin(outh, m) \in Nat /\ -Margin(outh, m) % 2 = 0 /\ outh - Margin(outh, m) <= m
          /\ Margin(outh, m) \div s = -(EvenFloor((m - outh) \div 2) \div s)
          /\ Margin(outh, m) = -EvenFloor((m - outh) \div 2)
      <4>1. PICK a \in Nat, k \in Nat : a = outh /\ k = m
        BY <1>1
      <4>2. a % 2 = 0 /\ k % 2 = 0 /\ k >= a
        BY <1>1, <3>1, <4>1
      <4>3. Away(a, k, Margin(a, k))
        BY <4>2, MarginIs
      <4> QED
        BY <4>1, <4>3
    <3> QED
      BY <3>2, <3>3
  <2>2. PICK c \in Nat, d \in Nat :
            /\ c = EvenFloor((n - outw) \div 2) /\ c % 2 = 0 /\ outw + c <= n
            /\ d = EvenFloor((m - outh) \div 2) /\ d % 2 = 0 /\ outh + d <= m
    <3>1. EvenFloor((n - outw) \div 2) \in Nat /\ EvenFloor((n - outw) \div 2) % 2 = 0
      BY <1>1, <1>8, EvenFloorOf
    <3>2. EvenFloor((m - outh) \div 2) \in Nat /\ EvenFloor((m - outh) \div 2) % 2 = 0
      BY <1>1, <1>8, EvenFloorOf
    <3>3. PICK c \in Nat, d \in Nat :
            /\ c = EvenFloor((n - outw) \div 2) /\ c % 2 = 0
            /\ d = EvenFloor((m - outh) \div 2) /\ d % 2 = 0
      BY <3>1, <3>2
    <3>4. Margin(outw, n) = -c /\ Margin(outh, m) = -d
      BY <2>1, <3>3
    <3>5. outw + c <= n /\ outh + d <= m
      BY <1>1, <2>1, <3>4
    <3> QED
      BY <3>3, <3>5
  <2>3. u = x + (c \div s) /\ v = y + (d \div s)
    <3>1. Margin(outw, n) \div s = -(c \div s) /\ Margin(outh, m) \div s = -(d \div s)
      BY <2>1, <2>2
    <3> QED
      BY <1>4, <2>2, <3>1 DEF u, v
  <2>4. c \div s \in Nat /\ d \div s \in Nat
    BY <2>2
  <2>5. (outw \div s) + (c \div s) <= n \div s /\ (outh \div s) + (d \div s) <= m \div s
    <3>1. CASE s = 1
      BY <1>1, <2>2, <3>1
    <3>2. CASE s = 2
      BY <1>1, <2>2, <3>2
    <3> QED
      BY <3>1, <3>2
  <2> QED
    BY <1>1, <1>4, <2>3, <2>4, <2>5
<1> QED
  <2>1. result.plane[s][p] = Origin(<<w, h>>, r, s, x, y)
    BY <1>5, <1>6, <1>7
  <2>2. ASSUME r.fit = "cover" PROVE Origin(<<w, h>>, r, s, x, y) # <<>>
    <3>1. Origin(<<w, h>>, r, s, x, y) = From(size.width, size.height, ow, oh, r, s, fx, fy)
      BY <1>5, <1>8, <2>2
    <3> QED
      BY <3>1, CutIsNot DEF From
  <2> QED
    BY <2>1, <2>2 DEF result, x, y

LEMMA PictureStep == ASSUME GeometryRight, FrameStep PROVE GeometryRight'
<1>1. CASE ProcessFrame
  <2>1. PICK size \in Sources, r \in Requests :
            LET source == Source(size[1], size[2])
                result == ProcessResult(source, r)
            IN  picture' = [at |-> "done", source |-> size, request |-> r, result |-> result,
                            image |-> IF result = "OK" THEN Process(source, r) ELSE source]
    BY <1>1 DEF ProcessFrame
  <2>2. PICK w \in Nat, h \in Nat : size = <<w, h>>
    BY MediaAssumption
  <2>3. r \in ProcessConfigs
    BY MediaAssumption
  <2> SUFFICES ASSUME picture'.result = "OK", NEW s \in {1, 2},
                      NEW p \in Area(picture'.image.width, picture'.image.height, s)
               PROVE  LET origin == Origin(picture'.source, picture'.request, s, p[1], p[2])
                      IN  /\ picture'.image.plane[s][p] = origin
                          /\ picture'.request.fit = "cover" => origin # <<>>
    BY DEF GeometryRight
  <2>4. /\ ProcessResult(Source(w, h), r) = "OK" /\ picture'.image = Process(Source(w, h), r)
        /\ picture'.source = <<w, h>> /\ picture'.request = r
    BY <2>1, <2>2
  <2>5. p \in Area(Process(Source(w, h), r).width, Process(Source(w, h), r).height, s)
    BY <2>4
  <2> QED
    BY <2>3, <2>4, <2>5, ProcessRight
<1>2. CASE DropPicture
  BY <1>2 DEF DropPicture, GeometryRight, NoPicture
<1>3. CASE UNCHANGED picture
  BY <1>3 DEF GeometryRight
<1> QED
  BY <1>1, <1>2, <1>3 DEF FrameStep, Decode, GetView, CopyFrame, WriteFrame, DropFrame

\* process_frame_cpu: luma and chroma of each pixel of the output come from
\* where the request says, to the sample, and "cover" leaves no background;
\* for frames and requests of any size (crop_frame, rotate_frame,
\* mirror_frame, scale_frame and copy_i420 one after the other).
THEOREM GeometryHolds == Spec => []GeometryRight
<1>1. Init => GeometryRight
  BY DEF Init, GeometryRight, NoPicture
<1>2. GeometryRight /\ [Next]_vars => GeometryRight'
  <2> SUFFICES ASSUME GeometryRight, [Next]_vars PROVE GeometryRight'
    OBVIOUS
  <2>1. CASE FrameStep
    BY <2>1, PictureStep
  <2>2. CASE UNCHANGED picture
    BY <2>2 DEF GeometryRight
  <2>3. CASE FileStep
    BY <2>3, FileStepKeeps DEF GeometryRight
  <2> QED
    BY <2>1, <2>2, <2>3 DEF Next, vars
<1> QED
  BY <1>1, <1>2, PTL DEF Spec

-----------------------------------------------------------------------------
(* Sums, by induction on their length; and the EBML header.                *)

LEMMA Climb ==
    ASSUME NEW S, 0 \in S, \A n \in Nat : n \in S => n + 1 \in S
    PROVE  Nat \subseteq S
<1> DEFINE T == Nat \ S
<1>1. SUFFICES ASSUME T # {} PROVE FALSE
  OBVIOUS
<1>2. PICK x \in T : \A y \in T : ~(<<y, x>> \in OpToRel(<, Nat))
  <2>1. T \subseteq Nat
    OBVIOUS
  <2> HIDE DEF T
  <2> QED
    BY <2>1, <1>1, NatLessThanWellFounded, WFMin
<1>3. \A y \in T : ~(y < x)
  BY <1>2 DEF OpToRel
<1>4. x # 0 /\ x \in Nat
  OBVIOUS
<1>5. x - 1 \in Nat /\ x - 1 < x
  BY <1>4
<1>6. x - 1 \in S
  BY <1>3, <1>5
<1> QED
  BY <1>4, <1>5, <1>6

Summed(add, f, m) == f = [n \in 0..m |-> IF n = 0 THEN 0 ELSE f[n - 1] + add[n]]

\* The recursive function that SumTo is defined by exists.
LEMMA SumExists ==
    ASSUME NEW add
    PROVE  \A m \in Nat : \E f : Summed(add, f, m)
<1> DEFINE S == {m \in Nat : \E f : Summed(add, f, m)}
<1>1. 0 \in S
  <2> DEFINE f == [n \in 0..0 |-> 0]
  <2>1. f = [n \in 0..0 |-> IF n = 0 THEN 0 ELSE f[n - 1] + add[n]]
    OBVIOUS
  <2> HIDE DEF f
  <2> QED
    BY <2>1 DEF Summed
<1>2. ASSUME NEW m \in Nat, m \in S PROVE m + 1 \in S
  <2>1. PICK f : Summed(add, f, m)
    BY <1>2
  <2> DEFINE g == [n \in 0..(m + 1) |-> IF n = m + 1 THEN f[m] + add[m + 1] ELSE f[n]]
  <2>2. \A n \in 0..m : f[n] = IF n = 0 THEN 0 ELSE f[n - 1] + add[n]
    BY <2>1 DEF Summed
  <2>3. ASSUME NEW n \in 0..(m + 1)
        PROVE  g[n] = IF n = 0 THEN 0 ELSE g[n - 1] + add[n]
    <3>1. CASE n = m + 1
      <4>1. n # 0 /\ n - 1 = m /\ m \in 0..(m + 1) /\ m # m + 1
        BY <3>1
      <4>2. g[n] = f[m] + add[m + 1] /\ g[m] = f[m]
        BY <3>1, <4>1
      <4> QED
        BY <3>1, <4>1, <4>2
    <3>2. CASE n # m + 1
      <4>1. n \in 0..m /\ g[n] = f[n]
        BY <3>2
      <4>2. n # 0 => n - 1 \in 0..(m + 1) /\ n - 1 # m + 1 /\ g[n - 1] = f[n - 1]
        <5>1. n # 0 => n - 1 \in 0..(m + 1) /\ n - 1 # m + 1
          BY <4>1
        <5> QED
          BY <5>1
      <4> HIDE DEF g
      <4> QED
        BY <2>2, <4>1, <4>2
    <3> QED
      BY <3>1, <3>2
  <2>4. DOMAIN g = 0..(m + 1) /\ g = [n \in DOMAIN g |-> g[n]]
    OBVIOUS
  <2> HIDE DEF g
  <2>5. Summed(add, g, m + 1)
    BY <2>3, <2>4 DEF Summed
  <2> QED
    BY <2>5
<1> HIDE DEF S
<1>3. Nat \subseteq S
  BY <1>1, <1>2, Climb
<1> QED
  BY <1>3 DEF S

LEMMA SumToIs ==
    ASSUME NEW add
    PROVE  /\ SumTo(add, 0) = 0
           /\ \A n \in Nat : SumTo(add, n + 1) = SumTo(add, n) + add[n + 1]
<1> DEFINE sum(n) == CHOOSE f : Summed(add, f, n)
<1>1. \A n : SumTo(add, n) = sum(n)[n]
  BY DEF SumTo, Summed
<1>2. \A n \in Nat : Summed(add, sum(n), n)
  BY SumExists
<1> HIDE DEF sum
<1>3. \A n \in Nat : \A k \in 0..n : sum(n)[k] = IF k = 0 THEN 0 ELSE sum(n)[k - 1] + add[k]
  BY <1>2 DEF Summed
<1>4. SumTo(add, 0) = 0
  BY <1>1, <1>3
<1>5. ASSUME NEW n \in Nat PROVE SumTo(add, n + 1) = SumTo(add, n) + add[n + 1]
  <2> DEFINE S == {k \in Nat : k <= n => sum(n + 1)[k] = sum(n)[k]}
  <2>1. 0 \in S
    BY <1>3
  <2>2. ASSUME NEW k \in Nat, k \in S PROVE k + 1 \in S
    <3> SUFFICES ASSUME k + 1 <= n PROVE sum(n + 1)[k + 1] = sum(n)[k + 1]
      OBVIOUS
    <3>1. k + 1 \in 0..n /\ k + 1 \in 0..(n + 1) /\ k + 1 # 0 /\ (k + 1) - 1 = k
      OBVIOUS
    <3>2. sum(n)[k + 1] = sum(n)[k] + add[k + 1]
      BY <1>3, <3>1
    <3>3. sum(n + 1)[k + 1] = sum(n + 1)[k] + add[k + 1]
      BY <1>3, <3>1
    <3>4. sum(n + 1)[k] = sum(n)[k]
      BY <2>2
    <3> QED
      BY <3>2, <3>3, <3>4
  <2> HIDE DEF S
  <2>3. Nat \subseteq S
    BY <2>1, <2>2, Climb
  <2>4. sum(n + 1)[n] = sum(n)[n]
    BY <2>3 DEF S
  <2>5. n + 1 \in 0..(n + 1) /\ n + 1 # 0 /\ (n + 1) - 1 = n
    OBVIOUS
  <2>6. sum(n + 1)[n + 1] = sum(n + 1)[n] + add[n + 1]
    BY <1>3, <2>5
  <2> QED
    BY <1>1, <2>4, <2>6
<1> QED
  BY <1>4, <1>5

LEMMA ElementType ==
    ASSUME NEW header \in EbmlHeaders, NEW n \in 1..Len(header.elements)
    PROVE  /\ header.elements[n] \in
                [id : STRING, head : Nat, width : Nat, size : Nat, value : Values]
           /\ header.elements[n].head \in Nat /\ header.elements[n].size \in Nat
           /\ n \in DOMAIN header.elements
<1> DEFINE Elements ==
        [id : STRING, head : Nat, width : Nat, size : Nat, value : Values]
<1>1. header.elements \in Seq(Elements)
  BY DEF EbmlHeaders
<1>2. header.elements[n] \in Elements /\ n \in DOMAIN header.elements
  <2> HIDE DEF Elements
  <2> QED
    BY <1>1
<1> QED
  BY <1>2

More(header, n, sum) == sum + (header.elements[n].head + header.elements[n].size)
LEMMA StartSums ==
    ASSUME NEW header \in EbmlHeaders
    PROVE  /\ Start(header, 1) = 0
           /\ \A n \in 1..Len(header.elements) :
                Start(header, n + 1) = More(header, n, Start(header, n))
<1> DEFINE add == [n \in DOMAIN header.elements |->
                    header.elements[n].head + header.elements[n].size]
<1>1. \A i : Start(header, i) = SumTo(add, i - 1)
  BY DEF Start
<1> HIDE DEF add
<1>2. Start(header, 1) = 0
  <2>1. 1 - 1 = 0
    OBVIOUS
  <2> QED
    BY <1>1, <2>1, SumToIs
<1>3. ASSUME NEW n \in 1..Len(header.elements)
      PROVE  Start(header, n + 1) = More(header, n, Start(header, n))
  <2>1. n \in DOMAIN header.elements
    BY ElementType
  <2>2. add[n] = header.elements[n].head + header.elements[n].size
    BY <2>1 DEF add
  <2>3. PICK k \in Nat : n = k + 1
    <3>1. n - 1 \in Nat /\ n = (n - 1) + 1
      BY DEF EbmlHeaders
    <3> QED
      BY <3>1
  <2>4. SumTo(add, k + 1) = SumTo(add, k) + add[k + 1]
    BY SumToIs
  <2>5. Start(header, n + 1) = SumTo(add, k + 1) /\ Start(header, n) = SumTo(add, k)
    <3>1. (n + 1) - 1 = k + 1 /\ n - 1 = k
      BY <2>3
    <3> QED
      BY <1>1, <3>1
  <2> QED
    BY <2>2, <2>3, <2>4, <2>5 DEF More
<1> QED
  BY <1>2, <1>3

\* Starts are byte counts, and none of an earlier element is later.
LEMMA StartGrows ==
    ASSUME NEW header \in EbmlHeaders
    PROVE  \A n \in 0..Len(header.elements) :
            /\ Start(header, n + 1) \in Nat
            /\ \A i \in 1..n : /\ Start(header, i) \in Nat
                               /\ More(header, i, Start(header, i)) <= Start(header, n + 1)
<1> DEFINE size == Len(header.elements)
           Grown(n) == /\ Start(header, n + 1) \in Nat
                       /\ \A i \in 1..n : /\ Start(header, i) \in Nat
                               /\ More(header, i, Start(header, i)) <= Start(header, n + 1)
           S == {n \in Nat : n <= size => Grown(n)}
<1>1. size \in Nat
  BY DEF EbmlHeaders
<1>2. 0 \in S
  <2>1. Grown(0)
    <3>1. 0 + 1 = 1
      OBVIOUS
    <3> QED
      BY <3>1, StartSums
  <2> QED
    BY <2>1
<1>3. ASSUME NEW n \in Nat, n \in S PROVE n + 1 \in S
  <2> SUFFICES ASSUME n + 1 <= size PROVE Grown(n + 1)
    OBVIOUS
  <2>1. n + 1 \in 1..size /\ Grown(n)
    BY <1>1, <1>3
  <2>2. /\ Start(header, n + 1) \in Nat
        /\ Start(header, n + 1 + 1) = More(header, n + 1, Start(header, n + 1))
    BY <2>1, StartSums
  <2>3. More(header, n + 1, Start(header, n + 1)) \in Nat
        /\ Start(header, n + 1) <= More(header, n + 1, Start(header, n + 1))
    BY <2>1, <2>2, ElementType DEF More
  <2>4. ASSUME NEW i \in 1..(n + 1)
        PROVE  /\ Start(header, i) \in Nat
               /\ More(header, i, Start(header, i)) <= Start(header, n + 1 + 1)
    <3>1. CASE i = n + 1
      BY <2>2, <2>3, <3>1
    <3>2. CASE i \in 1..n
      <4>1. Start(header, i) \in Nat /\ More(header, i, Start(header, i)) <= Start(header, n + 1)
        BY <2>1, <3>2
      <4>2. i \in 1..size
        BY <2>1, <3>2
      <4>3. More(header, i, Start(header, i)) \in Nat
        BY <4>1, <4>2, ElementType DEF More
      <4> QED
        BY <2>2, <2>3, <4>1, <4>3
    <3> QED
      BY <3>1, <3>2
  <2> QED
    BY <2>2, <2>3, <2>4
<1> HIDE DEF S
<1>4. Nat \subseteq S
  BY <1>2, <1>3, Climb
<1>5. ASSUME NEW n \in 0..size PROVE Grown(n)
  BY <1>1, <1>4 DEF S
<1> QED
  BY <1>5

\* parse_header_bytes stops at the first DocType, if all before it is inside.
Found(header, d) ==
    /\ d \in 1..Len(header.elements) /\ header.elements[d].id = "DocType"
    /\ \A j \in 1..d : Inside(header, j)
    /\ \A i \in 1..(d - 1) : header.elements[i].id # "DocType"

LEMMA DocIndexFound ==
    ASSUME NEW header \in EbmlHeaders
    PROVE  /\ DocIndex(header) # 0 => Found(header, DocIndex(header))
           /\ \A d : Found(header, d) => DocIndex(header) = d
<1> DEFINE size == Len(header.elements)
           found == {i \in 1..size : /\ header.elements[i].id = "DocType"
                                     /\ \A j \in 1..i : Inside(header, j)}
<1>1. size \in Nat /\ DOMAIN header.elements = 1..size
  BY DEF EbmlHeaders
<1>2. DocIndex(header)
        = IF found = {} THEN 0 ELSE CHOOSE i \in found : \A j \in found : i <= j
  BY <1>1 DEF DocIndex
<1> HIDE DEF size
<1>3. \A i : i \in found <=> /\ i \in 1..size /\ header.elements[i].id = "DocType"
                             /\ \A j \in 1..i : Inside(header, j)
  OBVIOUS
<1>4. found \subseteq Nat
  BY <1>1
<1> HIDE DEF found
<1>5. ASSUME DocIndex(header) # 0 PROVE Found(header, DocIndex(header))
  <2>1. found # {}
    BY <1>2, <1>5
  <2>2. PICK x \in found : \A y \in found : ~(<<y, x>> \in OpToRel(<, Nat))
    BY <1>4, <2>1, NatLessThanWellFounded, WFMin
  <2>3. ASSUME NEW y \in found PROVE x <= y
    <3>1. x \in Nat /\ y \in Nat
      BY <1>4
    <3>2. ~(y < x)
      BY <2>2, <3>1 DEF OpToRel
    <3> QED
      BY <3>1, <3>2
  <2>4. DocIndex(header) \in found /\ \A j \in found : DocIndex(header) <= j
    BY <1>2, <2>1, <2>3
  <2> DEFINE d == DocIndex(header)
  <2> HIDE DEF d
  <2>5. d \in found /\ \A j \in found : d <= j
    BY <2>4 DEF d
  <2>6. d \in 1..size /\ header.elements[d].id = "DocType" /\ \A j \in 1..d : Inside(header, j)
    BY <1>3, <2>5
  <2>7. ASSUME NEW i \in 1..(d - 1) PROVE header.elements[i].id # "DocType"
    <3>1. i \in 1..size /\ ~(d <= i) /\ \A j \in 1..i : j \in 1..d
      BY <1>1, <2>6
    <3>2. i \notin found
      BY <2>5, <3>1
    <3> QED
      BY <1>3, <2>6, <3>1, <3>2
  <2>8. Found(header, d)
    BY <2>6, <2>7 DEF Found, size
  <2> QED
    BY <2>8 DEF d
<1>6. ASSUME NEW d, Found(header, d) PROVE DocIndex(header) = d
  <2>1. d \in found
    BY <1>3, <1>6 DEF Found, size
  <2>2. d \in 1..size /\ \A i \in 1..(d - 1) : i \notin found
    BY <1>3, <1>6 DEF Found, size
  <2>3. \A i \in found : d <= i
    BY <1>1, <1>3, <2>2
  <2>4. \A i \in found : (\A j \in found : i <= j) => i = d
    BY <1>4, <2>1, <2>3
  <2> QED
    BY <1>2, <2>1, <2>3, <2>4
<1> QED
  BY <1>5, <1>6

RenamedAt(renamed, header, d) ==
    /\ renamed \in EbmlHeaders
    /\ renamed.payload = header.payload + (8 - header.elements[d].size)
    /\ Len(renamed.elements) = Len(header.elements)
    /\ \A i \in 1..Len(header.elements) : i # d => renamed.elements[i] = header.elements[i]
    /\ renamed.elements[d] = [header.elements[d] EXCEPT !.size = 8, !.value = "matroska"]

LEMMA RenamedIs ==
    ASSUME NEW header \in EbmlHeaders, NEW d, Found(header, d)
    PROVE  RenamedAt(Renamed(header), header, d)
<1> DEFINE Elements ==
        [id : STRING, head : Nat, width : Nat, size : Nat, value : Values]
           e == header.elements[d]
           now == [e EXCEPT !.size = 8, !.value = "matroska"]
           elements == [header.elements EXCEPT ![d] = now]
           payload == header.payload + (8 - e.size)
<1>1. /\ header.elements \in Seq(Elements) /\ header.payload \in Nat /\ header.width \in Nat
      /\ header = [payload |-> header.payload, width |-> header.width,
                   elements |-> header.elements]
  BY DEF EbmlHeaders
<1>2. d \in 1..Len(header.elements) /\ Inside(header, d)
  BY <1>1 DEF Found
<1>3. e \in Elements /\ now \in Elements
  <2>1. e \in Elements
    <3> HIDE DEF Elements
    <3> QED
      BY <1>1, <1>2
  <2> HIDE DEF e
  <2>2. now \in Elements
    BY <2>1 DEF Values
  <2> QED
    BY <2>1, <2>2
<1>4. DocIndex(header) = d
  BY DocIndexFound
<1>5. Renamed(header) = [payload |-> payload, width |-> header.width, elements |-> elements]
  <2>1. Renamed(header)
            = [header EXCEPT !.elements[d] = [@ EXCEPT !.size = 8, !.value = "matroska"],
                             !.payload = @ + (8 - header.elements[d].size)]
    BY <1>4 DEF Renamed, Delta
  <2>2. Renamed(header)
            = [header EXCEPT !.elements = elements, !.payload = payload]
    BY <1>1, <2>1
  <2> HIDE DEF elements, payload
  <2> QED
    BY <1>1, <2>2
<1>6. payload \in Nat
  <2>1. \A n \in 0..Len(header.elements) : Start(header, n + 1) \in Nat
    BY StartGrows
  <2>2. Start(header, d) \in Nat
    <3>1. d - 1 \in 0..Len(header.elements) /\ (d - 1) + 1 = d
      BY <1>1, <1>2
    <3> QED
      BY <2>1, <3>1
  <2>3. e.head \in Nat /\ e.size \in Nat
    BY <1>3
  <2>4. e.size <= header.payload - Start(header, d) - e.head
    BY <1>2 DEF Inside
  <2> HIDE DEF e
  <2> QED
    BY <1>1, <2>2, <2>3, <2>4
<1> HIDE DEF e, now, payload
<1>7. elements \in Seq(Elements) /\ Len(elements) = Len(header.elements)
      /\ elements[d] = now
      /\ \A i \in 1..Len(header.elements) : i # d => elements[i] = header.elements[i]
  <2> HIDE DEF Elements
  <2> QED
    BY <1>1, <1>2, <1>3
<1>8. Renamed(header) \in EbmlHeaders
  BY <1>1, <1>5, <1>6, <1>7 DEF EbmlHeaders
<1> HIDE DEF elements
<1> QED
  BY <1>5, <1>7, <1>8 DEF RenamedAt, e, now, payload

\* What follows DocType moves with it.
LEMMA RenamedStart ==
    ASSUME NEW header \in EbmlHeaders, NEW d, Found(header, d)
    PROVE  \A n \in 0..Len(header.elements) :
            Start(Renamed(header), n + 1)
                = Start(header, n + 1) + (IF n < d THEN 0 ELSE 8 - header.elements[d].size)
<1> DEFINE size == Len(header.elements)
           renamed == Renamed(header)
           delta == 8 - header.elements[d].size
           S == {n \in Nat : n <= size => Start(renamed, n + 1)
                                = Start(header, n + 1) + (IF n < d THEN 0 ELSE delta)}
<1>1. size \in Nat /\ d \in 1..size
  BY DEF EbmlHeaders, Found
<1>2. header.elements[d].size \in Nat /\ header.elements[d].head \in Nat
  BY <1>1, ElementType
<1>3. /\ renamed \in EbmlHeaders /\ Len(renamed.elements) = size
      /\ \A i \in 1..size : i # d => renamed.elements[i] = header.elements[i]
      /\ renamed.elements[d] = [header.elements[d] EXCEPT !.size = 8, !.value = "matroska"]
  <2>1. RenamedAt(Renamed(header), header, d)
    BY RenamedIs
  <2> QED
    BY <2>1 DEF RenamedAt
<1>4. renamed.elements[d].head = header.elements[d].head /\ renamed.elements[d].size = 8
  <2>1. header.elements[d] \in
            [id : STRING, head : Nat, width : Nat, size : Nat, value : Values]
    BY <1>1, ElementType
  <2> QED
    BY <1>3, <2>1
<1> HIDE DEF renamed, delta
<1>5. 0 \in S
  <2>1. Start(renamed, 1) = 0 /\ Start(header, 1) = 0
    BY <1>3, StartSums
  <2>2. 0 < d /\ 0 + 1 = 1 /\ 0 + 0 = 0
    BY <1>1
  <2> QED
    BY <2>1, <2>2
<1>6. ASSUME NEW n \in Nat, n \in S PROVE n + 1 \in S
  <2> SUFFICES ASSUME n + 1 <= size
               PROVE  Start(renamed, n + 1 + 1)
                        = Start(header, n + 1 + 1) + (IF n + 1 < d THEN 0 ELSE delta)
    OBVIOUS
  <2>1. n + 1 \in 1..size /\ n \in 0..size
    BY <1>1
  <2>2. Start(renamed, n + 1) = Start(header, n + 1) + (IF n < d THEN 0 ELSE delta)
    BY <1>1, <1>6, <2>1
  <2>3. /\ Start(renamed, n + 1 + 1) = More(renamed, n + 1, Start(renamed, n + 1))
        /\ Start(header, n + 1 + 1) = More(header, n + 1, Start(header, n + 1))
    BY <1>3, <2>1, StartSums
  <2>4. Start(header, n + 1) \in Nat
    BY <2>1, StartGrows
  <2>5. header.elements[n + 1].head \in Nat /\ header.elements[n + 1].size \in Nat
    BY <2>1, ElementType
  <2>6. delta \in Int
    BY <1>2 DEF delta
  <2>7. CASE n + 1 = d
    <3>1. n < d /\ ~(n + 1 < d)
      BY <2>7
    <3>2. renamed.elements[n + 1].head = header.elements[n + 1].head
          /\ renamed.elements[n + 1].size = header.elements[n + 1].size + delta
      BY <1>2, <1>4, <2>7 DEF delta
    <3> QED
      BY <2>2, <2>3, <2>4, <2>5, <2>6, <3>1, <3>2 DEF More
  <2>8. CASE n + 1 # d
    <3>1. (n < d <=> n + 1 < d) /\ renamed.elements[n + 1] = header.elements[n + 1]
      BY <1>1, <1>3, <2>1, <2>8
    <3> QED
      BY <2>2, <2>3, <2>4, <2>5, <2>6, <3>1 DEF More
  <2> QED
    BY <2>7, <2>8
<1> HIDE DEF S
<1>7. Nat \subseteq S
  BY <1>5, <1>6, Climb
<1>8. ASSUME NEW n \in 0..size
      PROVE  Start(renamed, n + 1) = Start(header, n + 1) + (IF n < d THEN 0 ELSE delta)
  BY <1>1, <1>7 DEF S
<1> QED
  BY <1>8 DEF renamed, delta

\* finalize_container_doc_type leaves a header that reads "matroska" and is as
\* closed as it was; only the DocType differs.
LEMMA RenamedRight ==
    ASSUME NEW header \in EbmlHeaders, CanRename(header)
    PROVE  /\ Renamed(header) \in EbmlHeaders
           /\ DocType(Renamed(header)) = "matroska"
           /\ HeaderClosed(header) => HeaderClosed(Renamed(header))
           /\ \A i \in DOMAIN header.elements : i # DocIndex(header) =>
                Renamed(header).elements[i] = header.elements[i]
<1> DEFINE renamed == Renamed(header)   d == DocIndex(header)   size == Len(header.elements)
           delta == 8 - header.elements[d].size
<1>1. d # 0
  BY DEF CanRename, DocType
<1>2. Found(header, d)
  BY <1>1, DocIndexFound
<1> HIDE DEF d
<1>3. RenamedAt(renamed, header, d)
  BY <1>2, RenamedIs
<1>4. size \in Nat /\ d \in 1..size /\ DOMAIN header.elements = 1..size
  BY <1>2 DEF EbmlHeaders, Found
<1>5. /\ header.elements[d].size \in Nat /\ header.elements[d].head \in Nat
      /\ renamed.elements[d].size = 8 /\ renamed.elements[d].value = "matroska"
      /\ renamed.elements[d].head = header.elements[d].head
      /\ renamed.elements[d].id = header.elements[d].id
  <2>1. header.elements[d] \in
            [id : STRING, head : Nat, width : Nat, size : Nat, value : Values]
    BY <1>4, ElementType
  <2> QED
    BY <1>3, <2>1 DEF RenamedAt
<1>6. \A n \in 0..size : Start(renamed, n + 1)
            = Start(header, n + 1) + (IF n < d THEN 0 ELSE delta)
  BY <1>2, RenamedStart
<1> HIDE DEF renamed
<1>7. \A i \in 1..d : /\ Start(renamed, i) = Start(header, i) /\ Start(header, i) \in Nat
                      /\ i < d => More(header, i, Start(header, i)) <= Start(header, d)
  <2> SUFFICES ASSUME NEW i \in 1..d
               PROVE  /\ Start(renamed, i) = Start(header, i) /\ Start(header, i) \in Nat
                      /\ i < d => More(header, i, Start(header, i)) <= Start(header, d)
    OBVIOUS
  <2>1. i - 1 \in 0..size /\ (i - 1) + 1 = i /\ i - 1 < d
    BY <1>4
  <2>2. Start(header, i) \in Nat
    BY <2>1, StartGrows
  <2>3. Start(renamed, i) = Start(header, i)
    BY <1>6, <2>1, <2>2
  <2>4. ASSUME i < d PROVE More(header, i, Start(header, i)) <= Start(header, d)
    <3>1. d - 1 \in 0..size /\ (d - 1) + 1 = d /\ i \in 1..(d - 1)
      BY <1>4, <2>4
    <3> QED
      BY <3>1, StartGrows
  <2> QED
    BY <2>2, <2>3, <2>4
<1>8. renamed.payload = header.payload + delta /\ header.payload \in Nat
  BY <1>3 DEF RenamedAt, EbmlHeaders
<1>9. /\ Start(header, d) + header.elements[d].head <= header.payload
      /\ header.elements[d].size <= header.payload - Start(header, d) - header.elements[d].head
  <2>1. Inside(header, d)
    BY <1>2, <1>4 DEF Found
  <2> QED
    BY <2>1 DEF Inside
<1>10. Found(renamed, d)
  <2>1. d \in 1..Len(renamed.elements) /\ renamed.elements[d].id = "DocType"
    BY <1>2, <1>3, <1>4, <1>5 DEF RenamedAt, Found
  <2>2. \A i \in 1..(d - 1) : renamed.elements[i].id # "DocType"
    <3>1. \A i \in 1..(d - 1) : i \in 1..size /\ i # d
      BY <1>4
    <3> QED
      BY <1>2, <1>3, <3>1 DEF RenamedAt, Found
  <2>3. ASSUME NEW j \in 1..d PROVE Inside(renamed, j)
    <3>1. CASE j = d
      <4>1. Start(renamed, d) = Start(header, d) /\ Start(header, d) \in Nat
        BY <1>7, <3>1
      <4>2. /\ Start(renamed, d) + renamed.elements[d].head <= renamed.payload
            /\ renamed.elements[d].size
                    <= renamed.payload - Start(renamed, d) - renamed.elements[d].head
        BY <1>5, <1>8, <1>9, <4>1
      <4> QED
        BY <3>1, <4>2 DEF Inside
    <3>2. CASE j # d
      <4>1. j \in 1..size /\ j < d
        BY <1>4, <3>2
      <4>2. /\ Start(renamed, j) = Start(header, j) /\ Start(header, j) \in Nat
            /\ Start(header, d) \in Nat
            /\ More(header, j, Start(header, j)) <= Start(header, d)
        <5>1. d \in 1..d
          BY <1>4
        <5> QED
          BY <1>7, <4>1, <5>1
      <4>3. renamed.elements[j] = header.elements[j]
        BY <1>3, <3>2, <4>1 DEF RenamedAt
      <4>4. header.elements[j].head \in Nat /\ header.elements[j].size \in Nat
        BY <4>1, ElementType
      <4>5. Start(header, d) <= renamed.payload
        BY <1>5, <1>8, <1>9, <4>2
      <4>6. Start(header, j) + (header.elements[j].head + header.elements[j].size)
                <= Start(header, d)
        BY <4>2 DEF More
      <4>7. renamed.payload \in Int
        BY <1>5, <1>8
      <4>8. /\ Start(renamed, j) + renamed.elements[j].head <= renamed.payload
            /\ renamed.elements[j].size
                    <= renamed.payload - Start(renamed, j) - renamed.elements[j].head
        BY <4>2, <4>3, <4>4, <4>5, <4>6, <4>7
      <4> QED
        BY <4>8 DEF Inside
    <3> QED
      BY <3>1, <3>2
  <2> QED
    BY <2>1, <2>2, <2>3 DEF Found
<1>11. DocType(renamed) = "matroska"
  <2>1. renamed \in EbmlHeaders
    BY <1>3 DEF RenamedAt
  <2>2. DocIndex(renamed) = d
    BY <1>10, <2>1, DocIndexFound
  <2>3. d # 0
    BY <1>4
  <2> QED
    BY <1>5, <2>2, <2>3 DEF DocType
<1>12. ASSUME HeaderClosed(header) PROVE HeaderClosed(renamed)
  <2>1. size \in 0..size /\ ~(size < d)
    BY <1>4
  <2>2. Start(renamed, size + 1) = Start(header, size + 1) + delta
    BY <1>6, <2>1
  <2>3. Len(renamed.elements) = size
    BY <1>3 DEF RenamedAt
  <2> QED
    BY <1>8, <1>12, <2>2, <2>3 DEF HeaderClosed
<1>13. renamed \in EbmlHeaders
       /\ \A i \in DOMAIN header.elements : i # d => renamed.elements[i] = header.elements[i]
  BY <1>3, <1>4 DEF RenamedAt
<1> QED
  BY <1>11, <1>12, <1>13 DEF renamed, d

-----------------------------------------------------------------------------
(* The file while the muxer closes it.                                     *)

Renames(header, extension) == CanRename(header) /\ ResolveFormat(extension) = "matroska"
SameMedia(f, from) ==
    /\ f.tracks = from.tracks /\ f.blocks = from.blocks /\ f.broken = from.broken
    /\ f.body <= from.body
FileInv ==
    \/ step = "none" /\ file = NoFile
    \/ /\ step # "none" /\ muxed \in Files
       /\ file \in Containers /\ file.extension = muxed.extension
       /\ SameMedia(file, muxed)
       /\ \/ file.header = muxed.header
          \/ /\ file.header = Renamed(muxed.header)
             /\ Renames(muxed.header, muxed.extension)
       /\ step = "OK" => ValidDocType(file)
       /\ step \in {"muxed", "copying", "copied"} => file.header = muxed.header
       /\ step \in {"copying", "copied"} =>
            /\ Renames(muxed.header, muxed.extension)
            /\ temporary = [header |-> Renamed(muxed.header), body |-> temporary.body,
                            written |-> temporary.written]
            /\ temporary.body \in Nat /\ temporary.body <= file.body

LEMMA FileStepRight ==
    ASSUME FileInv, FileStep
    PROVE  FileInv'
<1>0. Files \subseteq Containers
  BY MediaAssumption
<1>1. CASE Muxed
  <2>1. PICK f \in Files : file' = f /\ muxed' = f /\ step' = "muxed"
    BY <1>1 DEF Muxed
  <2>2. f \in Containers /\ SameMedia(f, f)
    BY <1>0 DEF Containers, SameMedia
  <2> QED
    BY <2>1, <2>2 DEF FileInv
<1>2. CASE FinalizeWebm \/ Foreign \/ CopyEnds \/ InstallChecked \/ Crash
  <2>1. UNCHANGED <<file, muxed, temporary>> /\ step # "none" /\ step' # "none"
    BY <1>2 DEF FinalizeWebm, Foreign, CopyEnds, InstallChecked, Crash
  <2>2. step' = "OK" => ValidDocType(file)
    BY <1>2 DEF FinalizeWebm, Foreign, CopyEnds, InstallChecked, Crash
  <2>3. ValidDocType(file)' = ValidDocType(file')
    OBVIOUS
  <2>4. step' \in {"muxed", "copying", "copied"} => step' = "copied" /\ step = "copying"
    BY <1>2 DEF FinalizeWebm, Foreign, CopyEnds, InstallChecked, Crash
  <2> QED
    BY <2>1, <2>2, <2>4 DEF FileInv
<1>3. CASE FinalizeMatroska
  <2>1. /\ UNCHANGED <<file, muxed>> /\ step = "muxed"
        /\ ResolveFormat(file.extension) = "matroska"
    BY <1>3 DEF FinalizeMatroska
  <2>2. file.header = muxed.header /\ file.extension = muxed.extension
    BY <2>1 DEF FileInv
  <2>3. CASE step' = "FAILED"
    BY <2>1, <2>3 DEF FileInv
  <2>4. CASE step' = "copying" /\ CanRename(file.header)
             /\ temporary' = [header |-> Renamed(file.header), body |-> 0, written |-> TRUE]
    <3>1. temporary'.body \in Nat /\ temporary'.body <= file.body
      BY <2>1, <2>4 DEF FileInv, Containers
    <3> QED
      BY <2>1, <2>2, <2>4, <3>1 DEF FileInv, Renames
  <2> QED
    BY <1>3, <2>3, <2>4 DEF FinalizeMatroska
<1>4. CASE CopyChunk
  <2>1. /\ UNCHANGED <<file, muxed, step>> /\ step = "copying"
        /\ \E written \in BOOLEAN :
            temporary' = [temporary EXCEPT !.body = @ + 1, !.written = written]
    BY <1>4 DEF CopyChunk
  <2>2. \E header, body, good :
            /\ temporary = [header |-> header, body |-> body, written |-> good]
            /\ header = Renamed(muxed.header) /\ body \in Nat
    <3>1. temporary = [header |-> Renamed(muxed.header), body |-> temporary.body,
                       written |-> temporary.written]
          /\ temporary.body \in Nat
      BY <2>1 DEF FileInv
    <3> QED
      BY <3>1
  <2> PICK header, body, good :
            /\ temporary = [header |-> header, body |-> body, written |-> good]
            /\ header = Renamed(muxed.header) /\ body \in Nat
    BY <2>2
  <2>3. PICK written \in BOOLEAN :
            temporary' = [header |-> header, body |-> body + 1, written |-> written]
    BY <2>1
  <2>4. /\ temporary' = [header |-> Renamed(muxed.header), body |-> temporary'.body,
                         written |-> temporary'.written]
        /\ temporary'.body = body + 1
    BY <2>3
  <2>5. temporary'.body \in Nat /\ temporary'.body <= file.body
    <3>1. file.body \in Nat /\ body \in Nat /\ body < file.body
      BY <1>4, <2>1 DEF FileInv, Containers, CopyChunk
    <3> QED
      BY <2>4, <3>1
  <2> QED
    BY <2>1, <2>4, <2>5 DEF FileInv
<1>5. CASE Install
  <2>1. /\ step = "copied" /\ step' = "installed" /\ muxed' = muxed
        /\ \E damaged \in {file.damaged, temporary.body} :
            file' = [file EXCEPT !.header = temporary.header, !.body = temporary.body,
                                 !.damaged = damaged]
    BY <1>5 DEF Install
  <2>2. /\ muxed \in Files /\ file \in Containers /\ file.extension = muxed.extension
        /\ Renames(muxed.header, muxed.extension)
        /\ temporary.header = Renamed(muxed.header) /\ temporary.body \in Nat
        /\ temporary.body <= file.body /\ SameMedia(file, muxed)
    BY <2>1 DEF FileInv
  <2>3. Renamed(muxed.header) \in EbmlHeaders
    <3>1. muxed.header \in EbmlHeaders
      BY <1>0, <2>2 DEF Containers
    <3> QED
      BY <2>2, <3>1, RenamedRight DEF Renames
  <2>4. PICK damaged \in Nat :
            file' = [file EXCEPT !.header = Renamed(muxed.header), !.body = temporary.body,
                                 !.damaged = damaged]
    BY <2>1, <2>2 DEF Containers
  <2>5. file' \in Containers /\ file'.extension = muxed.extension
        /\ file'.header = Renamed(muxed.header)
    BY <2>2, <2>3, <2>4 DEF Containers
  <2>6. SameMedia(file', muxed)
    <3>1. /\ file'.tracks = file.tracks /\ file'.blocks = file.blocks
          /\ file'.broken = file.broken /\ file'.body = temporary.body
      BY <2>2, <2>4 DEF Containers
    <3>2. file.body \in Nat /\ muxed.body \in Nat /\ temporary.body \in Nat
      BY <1>0, <2>2 DEF Containers
    <3> QED
      BY <2>2, <3>1, <3>2 DEF SameMedia
  <2> QED
    BY <2>1, <2>2, <2>5, <2>6 DEF FileInv
<1>6. CASE InstallFails
  BY <1>6 DEF InstallFails, FileInv
<1>7. CASE Forget
  BY <1>7 DEF Forget, FileInv
<1>8. CASE Open \/ ReadPacket \/ CloseReader
  <2>1. UNCHANGED <<file, muxed, temporary, step>>
    BY <1>8 DEF Open, ReadPacket, CloseReader
  <2> QED
    BY <2>1 DEF FileInv
<1> QED
  BY <1>1, <1>2, <1>3, <1>4, <1>5, <1>6, <1>7, <1>8 DEF FileStep

\* Whatever finalize_container_doc_type does and wherever the process dies,
\* the destination is the muxer's file or a Matroska file with the same
\* elements behind a header size that agrees with them.
THEOREM FileHolds == Spec => []FileIntact
<1>1. Init => FileInv
  BY DEF Init, FileInv
<1>2. FileInv /\ [Next]_vars => FileInv'
  <2> SUFFICES ASSUME FileInv, [Next]_vars PROVE FileInv'
    OBVIOUS
  <2>1. CASE FileStep
    BY <2>1, FileStepRight
  <2>2. CASE UNCHANGED media
    BY <2>2 DEF media, FileInv
  <2>3. FrameStep => UNCHANGED media
    BY FrameStepKeeps
  <2> QED
    BY <2>1, <2>2, <2>3 DEF Next, vars
<1>3. FileInv => FileIntact
  <2> SUFFICES ASSUME FileInv, file # NoFile PROVE FileIntact
    BY DEF FileIntact
  <2>1. muxed \in Containers /\ file.extension = muxed.extension
        /\ (step = "OK" => ValidDocType(file))
    BY MediaAssumption DEF FileInv
  <2>2. CASE file.header = muxed.header
    BY <2>1, <2>2 DEF FileIntact
  <2>3. CASE file.header = Renamed(muxed.header) /\ Renames(muxed.header, muxed.extension)
    <3>1. muxed.header \in EbmlHeaders
      BY <2>1 DEF Containers
    <3>2. muxed.extension \in {".mkv", ".MKV"}
      BY <2>3 DEF Renames, ResolveFormat
    <3> QED
      BY <2>1, <2>3, <3>1, <3>2, RenamedRight DEF FileIntact, Renames
  <2> QED
    BY <2>2, <2>3 DEF FileInv
<1> QED
  BY <1>1, <1>2, <1>3, PTL DEF Spec

-----------------------------------------------------------------------------
(* The frames of a track in file order, and a reader among them.           *)

FilePlaces == Nat \X Nat

LEMMA BeforeOrders ==
    /\ \A p \in FilePlaces : ~Before(p, p)
    /\ \A p, q \in FilePlaces : Before(p, q) => ~Before(q, p)
    /\ \A p, q \in FilePlaces : p = q \/ Before(p, q) \/ Before(q, p)
    /\ \A p, q, r \in FilePlaces : Before(p, q) /\ Before(q, r) => Before(p, r)
<1>1. \A p \in FilePlaces : p[1] \in Nat /\ p[2] \in Nat /\ p = <<p[1], p[2]>>
  BY DEF FilePlaces
<1> QED
  BY <1>1 DEF Before

LEMMA LeastNat ==
    ASSUME NEW S, S \subseteq Nat, S # {}
    PROVE  \E x \in S : \A y \in S : x <= y
<1>1. PICK x \in S : \A y \in S : ~(<<y, x>> \in OpToRel(<, Nat))
  BY NatLessThanWellFounded, WFMin
<1>2. ASSUME NEW y \in S PROVE x <= y
  <2>1. x \in Nat /\ y \in Nat
    OBVIOUS
  <2>2. ~(y < x)
    BY <1>1, <2>1 DEF OpToRel
  <2> QED
    BY <2>1, <2>2
<1> QED
  BY <1>2

LEMMA LeastPlace ==
    ASSUME NEW S, S \subseteq FilePlaces, S # {}
    PROVE  \E p \in S : \A q \in S \ {p} : Before(p, q)
<1> DEFINE Blocks == {p[1] : p \in S}
<1>0. \A p \in S : p[1] \in Nat /\ p[2] \in Nat /\ p = <<p[1], p[2]>>
  BY DEF FilePlaces
<1>1. PICK b \in Blocks : \A c \in Blocks : b <= c
  <2>1. Blocks \subseteq Nat /\ Blocks # {}
    BY <1>0
  <2> HIDE DEF Blocks
  <2> QED
    BY <2>1, LeastNat
<1> DEFINE Frames == {p[2] : p \in {p \in S : p[1] = b}}
<1>2. PICK k \in Frames : \A l \in Frames : k <= l
  <2>1. Frames \subseteq Nat /\ Frames # {}
    BY <1>0, <1>1
  <2> HIDE DEF Frames
  <2> QED
    BY <2>1, LeastNat
<1>3. PICK p \in S : p[1] = b /\ p[2] = k
  BY <1>2
<1>4. ASSUME NEW q \in S \ {p} PROVE Before(p, q)
  <2>1. b <= q[1]
    BY <1>1
  <2>2. q[1] = b => k <= q[2]
    BY <1>2
  <2>3. q[1] # b \/ q[2] # k
    BY <1>0, <1>3
  <2>4. b \in Nat /\ k \in Nat /\ q[1] \in Nat /\ q[2] \in Nat
    BY <1>0, <1>3
  <2> QED
    BY <1>3, <2>1, <2>2, <2>3, <2>4 DEF Before
<1> QED
  BY <1>4

LEMMA PositionsFinite ==
    ASSUME NEW f \in Containers, NEW i
    PROVE  /\ Positions(f, i) \subseteq FilePlaces /\ IsFiniteSet(Positions(f, i))
           /\ \A p \in Positions(f, i) : Before(<<0, 0>>, p)
<1>1. f.body \in Nat /\ f.damaged \in Nat /\ MaxLacing \in Nat
  BY ContainerAssumption DEF Containers
<1>2. Reachable(f) \in Nat
  BY <1>1 DEF Reachable
<1> DEFINE blocks == 1..Reachable(f)   frames == 1..MaxLacing
<1>3. IsFiniteSet(blocks) /\ IsFiniteSet(frames)
  BY <1>1, <1>2, FS_Interval
<1>4. blocks \subseteq Nat \ {0} /\ frames \subseteq Nat
  BY <1>1, <1>2
<1>5. Positions(f, i) \subseteq blocks \X frames
  BY DEF Positions
<1> HIDE DEF blocks, frames
<1>6. IsFiniteSet(Positions(f, i))
  <2>1. IsFiniteSet(blocks \X frames)
    BY <1>3, FS_Product
  <2> QED
    BY <1>5, <2>1, FS_Subset
<1>7. Positions(f, i) \subseteq FilePlaces
  BY <1>4, <1>5 DEF FilePlaces
<1>8. ASSUME NEW p \in Positions(f, i) PROVE Before(<<0, 0>>, p)
  <2>1. p[1] \in Nat \ {0}
    BY <1>4, <1>5
  <2> QED
    BY <2>1 DEF Before
<1> QED
  BY <1>2, <1>6, <1>7, <1>8

\* The frames at the places of S, in their order.
Listed(frames, f, S) ==
    /\ frames \in Seq(Nat) /\ Len(frames) = Cardinality(S)
    /\ \A p \in S : frames[Cardinality({q \in S : Before(q, p)}) + 1] = FrameAt(f, p)

LEMMA ListedMore ==
    ASSUME NEW frames, NEW f, NEW S, S \subseteq FilePlaces, IsFiniteSet(S), Listed(frames, f, S),
           NEW n \in FilePlaces, \A q \in S : Before(q, n), FrameAt(f, n) \in Nat
    PROVE  Listed(Append(frames, FrameAt(f, n)), f, S \cup {n})
<1> DEFINE now == Append(frames, FrameAt(f, n))   T == S \cup {n}
           Rank(A, p) == {q \in A : Before(q, p)}
<1>1. n \notin S
  BY BeforeOrders
<1>2. Cardinality(S) \in Nat /\ Cardinality(T) = Cardinality(S) + 1
  BY <1>1, FS_AddElement, FS_CardinalityType
<1>3. /\ now \in Seq(Nat) /\ Len(now) = Cardinality(S) + 1
      /\ \A k \in 1..Cardinality(S) : now[k] = frames[k]
      /\ now[Cardinality(S) + 1] = FrameAt(f, n)
  BY <1>2 DEF Listed
<1>4. ASSUME NEW p \in S PROVE now[Cardinality(Rank(T, p)) + 1] = FrameAt(f, p)
  <2>1. Rank(T, p) = Rank(S, p)
    BY BeforeOrders
  <2>2. Rank(S, p) \in SUBSET (S \ {p})
    BY BeforeOrders
  <2> DEFINE R == Rank(S, p)   less == S \ {p}
  <2>3. IsFiniteSet(less) /\ Cardinality(less) = Cardinality(S) - 1
    BY FS_RemoveElement
  <2>4. R \in SUBSET less
    BY <2>2
  <2> HIDE DEF R, less
  <2>5. IsFiniteSet(R) /\ Cardinality(R) <= Cardinality(less)
    BY <2>3, <2>4, FS_Subset
  <2>6. Cardinality(R) \in Nat
    BY <2>5, FS_CardinalityType
  <2>7. Cardinality(R) + 1 \in 1..Cardinality(S)
    BY <1>2, <2>3, <2>5, <2>6
  <2>8. frames[Cardinality(R) + 1] = FrameAt(f, p)
    BY DEF Listed, R
  <2>9. now[Cardinality(R) + 1] = FrameAt(f, p)
    <3> HIDE DEF now
    <3> QED
      BY <1>3, <2>7, <2>8
  <2> QED
    BY <2>1, <2>9 DEF R
<1>5. now[Cardinality(Rank(T, n)) + 1] = FrameAt(f, n)
  <2>1. Rank(T, n) = S
    BY BeforeOrders
  <2> HIDE DEF now
  <2> QED
    BY <1>3, <2>1
<1>6. \A p \in T : now[Cardinality({q \in T : Before(q, p)}) + 1] = FrameAt(f, p)
  <2> HIDE DEF now
  <2> QED
    BY <1>4, <1>5
<1>7. Len(now) = Cardinality(T)
  BY <1>2, <1>3
<1> HIDE DEF now, T
<1>8. Listed(now, f, T)
  BY <1>3, <1>6, <1>7 DEF Listed
<1> QED
  BY <1>8 DEF now, T

\* What a reader has returned when it has come to a place.
Returned(f, i, last) ==
    {p \in Positions(f, i) : FrameAt(f, p) \notin f.broken /\ ~Before(last, p)}


LEMMA FrameAtType ==
    ASSUME NEW f \in Files, NEW g \in Containers, SameMedia(g, f), NEW i,
           NEW p \in Positions(g, i)
    PROVE  FrameAt(g, p) \in Nat
<1> DEFINE b == p[1]   Blocks == [track : Nat, frames : Seq(Nat)]
<1>1. b \in 1..Reachable(g) /\ p[2] \in DOMAIN g.blocks[b].frames
  BY DEF Positions
<1>2. /\ g.body \in Nat /\ g.damaged \in Nat /\ g.body <= f.body /\ f.body \in Nat
      /\ g.blocks = f.blocks /\ f.body <= Len(f.blocks)
  BY MediaAssumption DEF SameMedia, Containers
<1>3. g.blocks \in Seq(Blocks)
  BY DEF Containers
<1>4. b \in 1..Len(g.blocks)
  BY <1>1, <1>2, <1>3 DEF Reachable
<1>5. g.blocks[b] \in Blocks
  <2> HIDE DEF Blocks, b
  <2> QED
    BY <1>3, <1>4
<1> HIDE DEF b
<1>6. g.blocks[b].frames \in Seq(Nat)
  BY <1>5
<1>7. g.blocks[b].frames[p[2]] \in Nat
  BY <1>1, <1>6, SMTT(30)
<1> QED
  BY <1>7 DEF FrameAt, b

\* The frame that Packet finds is the first that is left.
Left(f, i, last) == {p \in Positions(f, i) : Before(last, p)}
NextOf(f, i, last, packet, next) ==
    /\ next \in Left(f, i, last)
    /\ \A q \in Left(f, i, last) : q = next \/ Before(next, q)
    /\ packet.result = (IF FrameAt(f, next) \in f.broken THEN "IO" ELSE "OK")
    /\ packet.last = next
NoneOf(f, i, last, packet) ==
    /\ Left(f, i, last) = {}
    /\ packet.result = (IF Damaged(f) THEN "IO" ELSE "END_OF_STREAM")
    /\ packet.last = last

LEMMA PacketIs ==
    ASSUME NEW f \in Containers, NEW i, NEW last \in FilePlaces
    PROVE  \/ NoneOf(f, i, last, Packet(f, i, last))
           \/ \E next : NextOf(f, i, last, Packet(f, i, last), next)
<1> DEFINE left == Left(f, i, last)
           next == CHOOSE p \in left : \A q \in left \ {p} : Before(p, q)
           packet == Packet(f, i, last)
<1>1. packet
        = IF left = {}
          THEN [result |-> IF Damaged(f) THEN "IO" ELSE "END_OF_STREAM", last |-> last]
          ELSE [result |-> IF FrameAt(f, next) \in f.broken THEN "IO" ELSE "OK",
                last |-> next]
  BY DEF Packet, Left
<1>2. ASSUME left # {} PROVE next \in left /\ \A q \in left \ {next} : Before(next, q)
  <2>1. left \subseteq FilePlaces
    BY PositionsFinite DEF Left
  <2>2. \E p \in left : \A q \in left \ {p} : Before(p, q)
    BY <1>2, <2>1, LeastPlace
  <2> QED
    BY <2>2
<1> HIDE DEF next, packet
<1>3. left = {} => NoneOf(f, i, last, packet)
  BY <1>1 DEF NoneOf
<1>4. left # {} => NextOf(f, i, last, packet, next)
  BY <1>1, <1>2 DEF NextOf
<1> QED
  BY <1>3, <1>4 DEF packet

ReadTo(r) ==
    /\ Listed(r.frames, file, Returned(file, r.track, r.last))
    /\ r.at = "ended" =>
        /\ ~Damaged(file)
        /\ \A p \in Positions(file, r.track) : ~Before(r.last, p)
Readers ==
    [at : {"open", "ended"}, codec : Codecs, track : Nat, last : FilePlaces, frames : Seq(Nat)]
ReadInv ==
    \/ reader = NoReader
    \/ /\ ReadableNow /\ reader \in Readers
       /\ Openable(file) /\ reader.track = OpenedTrack(file, reader.codec)
       /\ Accepted(file, reader.track)
       /\ ReadTo(reader)

\* Reading moves over the first frame that is left.
LEMMA ReadOn ==
    ASSUME FileInv, ReadableNow, NEW i, NEW last \in FilePlaces, NEW frames,
           Listed(frames, file, Returned(file, i, last)),
           NEW next \in Positions(file, i), Before(last, next),
           \A q \in Positions(file, i) : Before(last, q) => q = next \/ Before(next, q)
    PROVE  Listed(IF FrameAt(file, next) \in file.broken THEN frames
                  ELSE Append(frames, FrameAt(file, next)),
                  file, Returned(file, i, next))
<1>1. file \in Containers /\ muxed \in Files /\ SameMedia(file, muxed)
  BY DEF FileInv, ReadableNow
<1> DEFINE S == Returned(file, i, last)
<1>2. Positions(file, i) \subseteq FilePlaces /\ IsFiniteSet(Positions(file, i)) /\ next \in FilePlaces
  BY <1>1, PositionsFinite
<1>3. S \in SUBSET Positions(file, i)
  BY DEF Returned
<1>4. S \subseteq FilePlaces /\ IsFiniteSet(S)
  <2> HIDE DEF S
  <2> QED
    BY <1>2, <1>3, FS_Subset
<1>5. \A q \in S : Before(q, next)
  <2> SUFFICES ASSUME NEW q \in S PROVE Before(q, next)
    OBVIOUS
  <2>1. q \in FilePlaces /\ ~Before(last, q)
    BY <1>4 DEF Returned
  <2> QED
    BY <1>2, <2>1, BeforeOrders
<1>6. Returned(file, i, next) = IF FrameAt(file, next) \in file.broken THEN S ELSE S \cup {next}
  <2>1. ASSUME NEW p \in Positions(file, i)
        PROVE  ~Before(next, p) <=> ~Before(last, p) \/ p = next
    <3>1. p \in FilePlaces
      BY <1>2
    <3>2. Before(next, p) => Before(last, p) /\ p # next
      BY <1>2, <3>1, BeforeOrders
    <3> QED
      BY <3>2
  <2> QED
    BY <2>1 DEF Returned
<1>7. FrameAt(file, next) \in Nat
  BY <1>1, FrameAtType
<1> HIDE DEF S
<1>8. Listed(frames, file, S)
  BY DEF S
<1>9. CASE FrameAt(file, next) \in file.broken
  BY <1>6, <1>8, <1>9
<1>10. CASE FrameAt(file, next) \notin file.broken
  <2>1. Listed(Append(frames, FrameAt(file, next)), file, S \cup {next})
    BY <1>2, <1>4, <1>5, <1>7, <1>8, ListedMore
  <2> QED
    BY <1>6, <1>10, <2>1
<1> QED
  BY <1>9, <1>10


LEMMA ReadPacketRight ==
    ASSUME FileInv, ReadInv, ReadPacket
    PROVE  ReadInv'
<1>1. /\ reader.at = "open" /\ reader # NoReader
      /\ UNCHANGED <<file, muxed, temporary, step, picture, frame, convert>>
  BY DEF ReadPacket, NoReader
<1>2. /\ ReadableNow /\ reader \in Readers /\ Openable(file)
      /\ reader.track = OpenedTrack(file, reader.codec) /\ Accepted(file, reader.track)
      /\ ReadTo(reader)
  BY <1>1 DEF ReadInv
<1> DEFINE i == reader.track   last == reader.last   frames == reader.frames
           packet == Packet(file, i, last)
           newAt == IF packet.result = "END_OF_STREAM" THEN "ended" ELSE reader.at
           newFrames == IF packet.result = "OK" THEN Append(frames, FrameAt(file, packet.last))
                        ELSE frames
           now == [at |-> newAt, codec |-> reader.codec, track |-> i,
                   last |-> packet.last, frames |-> newFrames]
<1>3. reader' = now
  BY <1>2 DEF ReadPacket, Readers
<1>4. file \in Containers /\ muxed \in Files /\ SameMedia(file, muxed)
  BY <1>2 DEF FileInv, ReadableNow
<1>5. /\ last \in FilePlaces /\ reader.codec \in Codecs /\ i \in Nat
      /\ Listed(frames, file, Returned(file, i, last))
  BY <1>2 DEF Readers, ReadTo
<1>6. NoneOf(file, i, last, packet) \/ \E next : NextOf(file, i, last, packet, next)
  <2> HIDE DEF i, last
  <2> QED
    BY <1>4, <1>5, PacketIs
<1> HIDE DEF packet
<1>7. now \in Readers /\ ReadTo(now)
  <2>1. CASE NoneOf(file, i, last, packet)
    <3>1. packet.last = last /\ packet.result # "OK"
          /\ (packet.result = "END_OF_STREAM" => ~Damaged(file))
      BY <2>1 DEF NoneOf
    <3>2. newFrames = frames /\ newAt \in {"open", "ended"}
          /\ (newAt = "ended" => ~Damaged(file))
      BY <1>1, <3>1
    <3>3. \A p \in Positions(file, i) : ~Before(last, p)
      BY <2>1 DEF NoneOf, Left
    <3>4. frames \in Seq(Nat)
      BY <1>5 DEF Listed
    <3> HIDE DEF newFrames, newAt, i, last, frames
    <3> QED
      BY <1>2, <1>5, <3>1, <3>2, <3>3, <3>4 DEF Readers, ReadTo
  <2>2. ASSUME NEW next, NextOf(file, i, last, packet, next)
        PROVE  now \in Readers /\ ReadTo(now)
    <3>2. /\ packet.last = next
          /\ packet.result = "OK" <=> FrameAt(file, next) \notin file.broken
          /\ packet.result # "END_OF_STREAM"
      BY <2>2 DEF NextOf
    <3>3. /\ next \in Positions(file, i) /\ Before(last, next)
          /\ \A q \in Positions(file, i) : Before(last, q) => q = next \/ Before(next, q)
      BY <2>2 DEF NextOf, Left
    <3>4. newFrames = IF FrameAt(file, next) \in file.broken THEN frames
                      ELSE Append(frames, FrameAt(file, next))
      BY <3>2
    <3>5. newAt = "open"
      BY <1>1, <3>2
    <3> HIDE DEF newFrames, newAt, i, last, frames
    <3>6. Listed(newFrames, file, Returned(file, i, next))
      BY <1>2, <1>5, <3>3, <3>4, ReadOn
    <3>7. next \in FilePlaces /\ newFrames \in Seq(Nat)
      BY <1>4, <3>3, <3>6, PositionsFinite DEF Listed
    <3> QED
      BY <1>2, <1>5, <3>2, <3>5, <3>6, <3>7 DEF Readers, ReadTo
  <2> QED
    BY <1>6, <2>1, <2>2
<1>8. now.track = i /\ now.codec = reader.codec
  OBVIOUS
<1> HIDE DEF now
<1>9. /\ reader' \in Readers /\ reader'.track = i /\ reader'.codec = reader.codec
      /\ ReadTo(reader')
  BY <1>3, <1>7, <1>8
<1>10. ReadTo(reader)' <=> ReadTo(reader')
  BY <1>1 DEF ReadTo
<1>11. /\ ReadableNow' /\ reader' \in Readers /\ Openable(file)'
       /\ reader'.track = OpenedTrack(file, reader.codec)' /\ Accepted(file, reader.track)'
  BY <1>1, <1>2, <1>9 DEF ReadableNow
<1> QED
  BY <1>9, <1>10, <1>11 DEF ReadInv

LEMMA OpenRight ==
    ASSUME FileInv, Open
    PROVE  ReadInv'
<1>1. PICK codec \in Codecs :
        /\ Openable(file) /\ Accepted(file, OpenedTrack(file, codec))
        /\ reader' = [NoReader EXCEPT !.at = "open", !.codec = codec,
                                      !.track = OpenedTrack(file, codec)]
  BY DEF Open
<1>2. ReadableNow /\ UNCHANGED <<file, muxed, temporary, step>>
  BY DEF Open
<1>3. file \in Containers
  BY <1>2 DEF FileInv, ReadableNow
<1> DEFINE i == OpenedTrack(file, codec)
           now == [at |-> "open", codec |-> codec, track |-> i, last |-> <<0, 0>>, frames |-> <<>>]
<1>4. reader' = now
  BY <1>1 DEF NoReader
<1>5. i \in Nat
  <2> DEFINE found == {k \in DOMAIN file.tracks :
                    file.tracks[k].kind = "video" /\ file.tracks[k].codec \in {codec}}
  <2>1. found \subseteq Nat
    BY <1>3 DEF Containers
  <2>2. i = IF found = {} THEN 0 ELSE CHOOSE k \in found : \A j \in found : k <= j
    BY DEF OpenedTrack, FirstTrack
  <2> HIDE DEF found
  <2>3. found # {} => \E k \in found : \A j \in found : k <= j
    BY <2>1, LeastNat
  <2>4. found # {} => (CHOOSE k \in found : \A j \in found : k <= j) \in found
    BY <2>3
  <2> HIDE DEF i
  <2> QED
    BY <2>1, <2>2, <2>4
<1> HIDE DEF i
<1>6. Returned(file, i, <<0, 0>>) = {}
  BY <1>3, PositionsFinite DEF Returned
<1>7. Listed(<<>>, file, {})
  BY FS_EmptySet DEF Listed
<1>8. now \in Readers /\ ReadTo(now) /\ now.track = i /\ now.codec = codec
  <2>1. <<0, 0>> \in FilePlaces /\ "open" # "ended"
    BY DEF FilePlaces
  <2>2. <<>> \in Seq(Nat)
    OBVIOUS
  <2>3. now \in Readers
    BY <1>5, <2>1, <2>2 DEF Readers
  <2> QED
    BY <1>6, <1>7, <2>1, <2>3 DEF ReadTo
<1> HIDE DEF now
<1>9. ReadTo(reader)' <=> ReadTo(reader')
  BY <1>2 DEF ReadTo
<1>10. /\ ReadableNow' /\ reader' \in Readers /\ Openable(file)'
       /\ reader'.track = OpenedTrack(file, reader.codec)' /\ Accepted(file, reader.track)'
  BY <1>1, <1>2, <1>4, <1>8 DEF ReadableNow, i
<1> QED
  BY <1>4, <1>8, <1>9, <1>10 DEF ReadInv

LEMMA ReadStepRight ==
    ASSUME FileInv, ReadInv, FileStep
    PROVE  ReadInv'
<1>1. CASE Open
  BY <1>1, OpenRight
<1>2. CASE ReadPacket
  BY <1>2, ReadPacketRight
<1>3. CASE CloseReader
  BY <1>3 DEF CloseReader, ReadInv
<1>4. CASE Muxed \/ Forget
  <2>1. reader = NoReader /\ reader' = reader
    BY <1>4 DEF Muxed, Forget, Idle, MediaIdle
  <2> QED
    BY <2>1 DEF ReadInv, NoReader
<1>5. CASE \/ FinalizeWebm \/ FinalizeMatroska \/ Foreign \/ CopyChunk \/ CopyEnds
           \/ Install \/ InstallFails \/ InstallChecked \/ Crash
  <2>1. ~ReadableNow /\ reader' = reader
    BY <1>5 DEF FinalizeWebm, FinalizeMatroska, Foreign, CopyChunk, CopyEnds,
         Install, InstallFails, InstallChecked, Crash, ReadableNow
  <2>2. reader = NoReader
    BY <2>1 DEF ReadInv
  <2> QED
    BY <2>1, <2>2 DEF ReadInv, NoReader
<1> QED
  BY <1>1, <1>2, <1>3, <1>4, <1>5 DEF FileStep


\* The frames that blocks 1 to n have of a track: <<block, frame>>.
Of(f, number, n) ==
    UNION {{b} \X DOMAIN f.blocks[b].frames : b \in {b \in 1..n : f.blocks[b].track = number}}
Counted(f, i, n) ==
    /\ IsFiniteSet(Of(f, f.tracks[i].number, n))
    /\ Cardinality(Of(f, f.tracks[i].number, n))
            = SumTo([b \in DOMAIN f.blocks |->
                        IF f.blocks[b].track = f.tracks[i].number
                        THEN Len(f.blocks[b].frames) ELSE 0], n)

LEMMA OneMore ==
    ASSUME NEW f, NEW number, NEW n \in Nat
    PROVE  /\ Of(f, number, 0) = {}
           /\ f.blocks[n + 1].track # number => Of(f, number, n + 1) = Of(f, number, n)
           /\ f.blocks[n + 1].track = number =>
                Of(f, number, n + 1)
                    = Of(f, number, n) \cup ({n + 1} \X DOMAIN f.blocks[n + 1].frames)
           /\ Of(f, number, n) \cap ({n + 1} \X DOMAIN f.blocks[n + 1].frames) = {}
<1>1. \A m, p : p \in Of(f, number, m) <=>
            \E b \in 1..m : /\ f.blocks[b].track = number
                            /\ p \in {b} \X DOMAIN f.blocks[b].frames
  BY DEF Of
<1>2. 1..0 = {} /\ 1..(n + 1) = (1..n) \cup {n + 1} /\ n + 1 \notin 1..n
  OBVIOUS
<1>3. Of(f, number, 0) = {}
  BY <1>1, <1>2
<1>4. ASSUME f.blocks[n + 1].track # number PROVE Of(f, number, n + 1) = Of(f, number, n)
  <2>1. ASSUME NEW p PROVE p \in Of(f, number, n + 1) <=> p \in Of(f, number, n)
    <3>1. \A b : b \in 1..(n + 1) <=> b \in 1..n \/ b = n + 1
      OBVIOUS
    <3> QED
      BY <1>1, <1>4, <3>1
  <2> QED
    BY <2>1
<1>5. f.blocks[n + 1].track = number =>
                Of(f, number, n + 1)
                    = Of(f, number, n) \cup ({n + 1} \X DOMAIN f.blocks[n + 1].frames)
  BY <1>1, <1>2
<1>6. Of(f, number, n) \cap ({n + 1} \X DOMAIN f.blocks[n + 1].frames) = {}
  <2>1. \A b, A, p : p \in {b} \X A => p[1] = b
    OBVIOUS
  <2> QED
    BY <1>1, <1>2, <2>1
<1> QED
  BY <1>3, <1>4, <1>5, <1>6

LEMMA BlockType ==
    ASSUME NEW f \in Files, NEW b \in 1..f.body
    PROVE  /\ b \in DOMAIN f.blocks /\ f.blocks[b].frames \in Seq(Nat)
           /\ Len(f.blocks[b].frames) <= MaxLacing
<1> DEFINE Blocks == [track : Nat, frames : Seq(Nat)]
<1>1. f.body \in Nat /\ f.blocks \in Seq(Blocks) /\ f.body <= Len(f.blocks)
  BY MediaAssumption DEF Containers
<1>2. b \in 1..Len(f.blocks) /\ DOMAIN f.blocks = 1..Len(f.blocks)
  BY <1>1
<1>3. f.blocks[b] \in Blocks
  <2> HIDE DEF Blocks
  <2> QED
    BY <1>1, <1>2
<1>4. f.blocks[b].frames \in Seq(Nat)
  BY <1>3
<1>5. Len(f.blocks[b].frames) <= MaxLacing
  BY <1>2, MediaAssumption
<1> QED
  BY <1>2, <1>4, <1>5

LEMMA CountIs ==
    ASSUME NEW f \in Files, NEW i
    PROVE  \A n \in 0..f.body : Counted(f, i, n)
<1> DEFINE number == f.tracks[i].number
           add == [b \in DOMAIN f.blocks |->
                    IF f.blocks[b].track = number THEN Len(f.blocks[b].frames) ELSE 0]
           Good(n) == /\ IsFiniteSet(Of(f, number, n))
                      /\ Cardinality(Of(f, number, n)) = SumTo(add, n)
           S == {n \in Nat : n <= f.body => Good(n)}
<1>0. f.body \in Nat
  BY MediaAssumption DEF Containers
<1>1. \A b \in 1..f.body : add[b] = IF f.blocks[b].track = number
                                    THEN Len(f.blocks[b].frames) ELSE 0
  BY BlockType
<1> HIDE DEF number, add
<1>2. 0 \in S
  <2>1. Of(f, number, 0) = {} /\ SumTo(add, 0) = 0
    BY OneMore, SumToIs
  <2> QED
    BY <2>1, FS_EmptySet
<1>3. ASSUME NEW n \in Nat, n \in S PROVE n + 1 \in S
  <2> SUFFICES ASSUME n + 1 <= f.body PROVE Good(n + 1)
    OBVIOUS
  <2>1. Good(n) /\ n + 1 \in 1..f.body
    BY <1>0, <1>3
  <2> DEFINE old == Of(f, number, n)
             new == {n + 1} \X DOMAIN f.blocks[n + 1].frames
             frames == f.blocks[n + 1].frames
  <2>2. SumTo(add, n + 1) = SumTo(add, n) + add[n + 1]
    BY SumToIs
  <2>3. Cardinality(old) \in Nat /\ IsFiniteSet(old) /\ Cardinality(old) = SumTo(add, n)
    BY <2>1, FS_CardinalityType
  <2>4. CASE f.blocks[n + 1].track # number
    <3>1. add[n + 1] = 0 /\ Of(f, number, n + 1) = old
      BY <1>1, <2>1, <2>4, OneMore
    <3> QED
      BY <2>2, <2>3, <3>1
  <2>5. CASE f.blocks[n + 1].track = number
    <3>1. add[n + 1] = Len(frames) /\ frames \in Seq(Nat)
      BY <1>1, <2>1, <2>5, BlockType
    <3>2. Of(f, number, n + 1) = old \cup new /\ old \cap new = {}
      BY <2>5, OneMore
    <3>3. Len(frames) \in Nat /\ DOMAIN frames = 1..Len(frames)
      BY <3>1
    <3> HIDE DEF frames
    <3>4. IsFiniteSet(DOMAIN frames) /\ Cardinality(DOMAIN frames) = Len(frames)
      <4>1. PICK k \in Nat : k = Len(frames)
        BY <3>3
      <4>2. 1 \in Int /\ k \in Int
        OBVIOUS
      <4>3. IsFiniteSet(1..k) /\ Cardinality(1..k) = IF 1 > k THEN 0 ELSE k - 1 + 1
        BY <4>2, FS_Interval
      <4>4. Cardinality(1..k) = k
        BY <4>3
      <4> QED
        BY <3>3, <4>1, <4>3, <4>4
    <3>5. IsFiniteSet({n + 1}) /\ Cardinality({n + 1}) = 1
      BY FS_Singleton
    <3>6. IsFiniteSet(new) /\ Cardinality(new) = Len(frames)
      <4>1. IsFiniteSet({n + 1} \X DOMAIN frames)
            /\ Cardinality({n + 1} \X DOMAIN frames)
                = Cardinality({n + 1}) * Cardinality(DOMAIN frames)
        BY <3>4, <3>5, FS_Product
      <4>2. \A k \in Nat : 1 * k = k
        OBVIOUS
      <4>3. Cardinality({n + 1} \X DOMAIN frames) = Len(frames)
        BY <3>3, <3>4, <3>5, <4>1, <4>2
      <4> QED
        BY <4>1, <4>3 DEF frames
    <3> HIDE DEF old, new
    <3>7. IsFiniteSet(old \cup new)
          /\ Cardinality(old \cup new)
                = Cardinality(old) + Cardinality(new) - Cardinality(old \cap new)
      BY <2>3, <3>6, FS_Union
    <3>8. Cardinality(old \cup new) = Cardinality(old) + Len(frames)
      <4>1. Cardinality(old \cap new) = 0
        BY <3>2, FS_EmptySet
      <4> QED
        BY <2>3, <3>3, <3>6, <3>7, <4>1
    <3> QED
      BY <2>2, <2>3, <3>1, <3>2, <3>7, <3>8
  <2> QED
    BY <2>4, <2>5
<1> HIDE DEF S
<1>4. Nat \subseteq S
  BY <1>2, <1>3, Climb
<1>5. ASSUME NEW n \in 0..f.body PROVE Good(n)
  BY <1>0, <1>4 DEF S
<1> QED
  BY <1>5 DEF Counted, number, add


LEMMA TrackIs ==
    ASSUME NEW f \in Containers, NEW codec, OpenedTrack(f, codec) # 0
    PROVE  /\ OpenedTrack(f, codec) \in DOMAIN f.tracks
           /\ f.tracks[OpenedTrack(f, codec)].codec = codec
<1> DEFINE found == {k \in DOMAIN f.tracks :
                    f.tracks[k].kind = "video" /\ f.tracks[k].codec \in {codec}}
           i == OpenedTrack(f, codec)
<1>1. found \subseteq Nat
  BY DEF Containers
<1>2. i = IF found = {} THEN 0 ELSE CHOOSE k \in found : \A j \in found : k <= j
  BY DEF OpenedTrack, FirstTrack
<1>3. i \in found
  <2> HIDE DEF found
  <2>1. found # {} => \E k \in found : \A j \in found : k <= j
    BY <1>1, LeastNat
  <2>2. found # {} => (CHOOSE k \in found : \A j \in found : k <= j) \in found
    BY <2>1
  <2> HIDE DEF i
  <2> QED
    BY <1>2, <2>2 DEF i
<1> QED
  BY <1>3

\* WebmPacketReader::read: a reader that has come to the end has returned every
\* frame of its track that the file has and that has a valid size, in the order
\* they were muxed, and nothing else; and count_frames has counted them all,
\* when the probe chose that track; for files of any number of blocks.
THEOREM ReadingHolds == Spec => []ReadsWhatWasMuxed
<1>1. Init => FileInv /\ ReadInv
  BY DEF Init, FileInv, ReadInv
<1>2. FileInv /\ ReadInv /\ [Next]_vars => FileInv' /\ ReadInv'
  <2> SUFFICES ASSUME FileInv, ReadInv, [Next]_vars PROVE FileInv' /\ ReadInv'
    OBVIOUS
  <2>1. CASE FileStep
    BY <2>1, FileStepRight, ReadStepRight
  <2>2. CASE UNCHANGED media
    <3>1. UNCHANGED <<file, muxed, temporary, step, reader>>
      BY <2>2 DEF media
    <3>2. FileInv'
      BY <3>1 DEF FileInv
    <3>3. ReadInv'
      BY <3>1 DEF ReadInv, ReadableNow, ReadTo
    <3> QED
      BY <3>2, <3>3
  <2>3. FrameStep => UNCHANGED media
    BY FrameStepKeeps
  <2> QED
    BY <2>1, <2>2, <2>3 DEF Next, vars
<1>3. FileInv /\ ReadInv => ReadsWhatWasMuxed
  <2> SUFFICES ASSUME FileInv, ReadInv, reader.at = "ended" PROVE ReadsWhatWasMuxed
    BY DEF ReadsWhatWasMuxed
  <2> DEFINE i == reader.track
             number == muxed.tracks[i].number
             FrameOf(p) == muxed.blocks[p[1]].frames[p[2]]
             all == UNION {{b} \X DOMAIN muxed.blocks[b].frames :
                            b \in {b \in 1..file.body : muxed.blocks[b].track = number}}
             whole == {p \in all : FrameOf(p) \notin muxed.broken}
  <2>1. /\ ReadableNow /\ reader \in Readers /\ Openable(file)
        /\ i = OpenedTrack(file, reader.codec) /\ Accepted(file, i) /\ ReadTo(reader)
    BY DEF ReadInv, NoReader
  <2>2. file \in Containers /\ muxed \in Files /\ SameMedia(file, muxed)
    BY <2>1 DEF FileInv, ReadableNow
  <2>3. /\ Listed(reader.frames, file, Returned(file, i, reader.last)) /\ ~Damaged(file)
        /\ \A p \in Positions(file, i) : ~Before(reader.last, p)
    BY <2>1 DEF ReadTo
  <2>4. Reachable(file) = file.body /\ file.body \in Nat /\ muxed.body \in Nat
    BY <2>2, <2>3, MediaAssumption DEF Damaged, Containers
  <2>5. Positions(file, i) = all
    <3>1. ASSUME NEW b \in 1..file.body, NEW k \in DOMAIN muxed.blocks[b].frames
          PROVE  k \in 1..MaxLacing
      <4>1. b \in 1..muxed.body
        BY <2>2, <2>4 DEF SameMedia
      <4>2. muxed.blocks[b].frames \in Seq(Nat) /\ Len(muxed.blocks[b].frames) <= MaxLacing
        BY <2>2, <4>1, BlockType
      <4> QED
        BY <4>2, ContainerAssumption
    <3>2. \A p : p \in Positions(file, i) <=>
            /\ p \in (1..file.body) \X (1..MaxLacing)
            /\ muxed.blocks[p[1]].track = number
            /\ p[2] \in DOMAIN muxed.blocks[p[1]].frames
      BY <2>2, <2>4 DEF Positions, SameMedia
    <3>3. \A p : p \in all <=>
            \E b \in 1..file.body : /\ muxed.blocks[b].track = number
                                    /\ p \in {b} \X DOMAIN muxed.blocks[b].frames
      OBVIOUS
    <3> HIDE DEF all, number
    <3>4. ASSUME NEW p \in Positions(file, i) PROVE p \in all
      <4>1. p = <<p[1], p[2]>> /\ p[1] \in 1..file.body
        BY <3>2
      <4>2. p \in {p[1]} \X DOMAIN muxed.blocks[p[1]].frames
        BY <3>2, <4>1
      <4> QED
        BY <3>2, <3>3, <4>1, <4>2
    <3>5. ASSUME NEW p \in all PROVE p \in Positions(file, i)
      <4>1. PICK b \in 1..file.body : /\ muxed.blocks[b].track = number
                                      /\ p \in {b} \X DOMAIN muxed.blocks[b].frames
        BY <3>3
      <4>2. PICK k \in DOMAIN muxed.blocks[b].frames : p = <<b, k>>
        BY <4>1
      <4>3. k \in 1..MaxLacing
        BY <3>1
      <4>4. p[1] = b /\ p[2] = k /\ p \in (1..file.body) \X (1..MaxLacing)
        BY <4>2, <4>3
      <4> QED
        BY <3>2, <4>1, <4>4
    <3> QED
      BY <3>4, <3>5
  <2>6. \A p : FrameAt(file, p) = FrameOf(p)
    BY <2>2 DEF FrameAt, SameMedia
  <2>7. Returned(file, i, reader.last) = whole
    BY <2>2, <2>3, <2>5, <2>6 DEF Returned, SameMedia
  <2>8. /\ Len(reader.frames) = Cardinality(whole)
        /\ \A p \in whole :
            reader.frames[Cardinality({q \in whole : Before(q, p)}) + 1] = FrameOf(p)
    <3> HIDE DEF whole
    <3> QED
      BY <2>3, <2>6, <2>7 DEF Listed
  <2>9. muxed.tracks[i].codec = reader.codec
    BY <2>1, <2>2, TrackIs DEF SameMedia, Accepted
  <2>10. ASSUME ProbedTrack(file) = i
         PROVE  ProbeResult(file) = "OK" /\ CountFrames(file, i) = Cardinality(all)
    <3>1. ProbeResult(file) = "OK"
      BY <2>1, <2>3, <2>10 DEF ProbeResult, Accepted
    <3>2. CountFrames(file, i)
            = SumTo([b \in DOMAIN muxed.blocks |->
                        IF muxed.blocks[b].track = number
                        THEN Len(muxed.blocks[b].frames) ELSE 0], file.body)
      BY <2>2, <2>4 DEF CountFrames, SameMedia
    <3>3. file.body \in 0..muxed.body
      BY <2>2, <2>4 DEF SameMedia
    <3>4. Counted(muxed, i, file.body)
      BY <2>2, <3>3, CountIs
    <3>5. Of(muxed, number, file.body) = all
      BY DEF Of
    <3> HIDE DEF all
    <3> QED
      BY <3>1, <3>2, <3>4, <3>5 DEF Counted
  <2> QED
    BY <2>8, <2>9, <2>10 DEF ReadsWhatWasMuxed
<1> QED
  BY <1>1, <1>2, <1>3, PTL DEF Spec

=============================================================================
