------------------------- MODULE EncoderBackendsProofs -------------------------
(***************************************************************************)
(* What a synchronous encoder session promises whichever backend it owns,  *)
(* proved for every number of calls and frames, every depth of the encoder *)
(* and every capacity of the import tracker.                               *)
(*                                                                         *)
(* The promise about the file (NothingLostSilently) rests on what the code *)
(* relies on when it throws a codec away: a sequence without frames, or a  *)
(* missing codec, holds nothing back (EmptySequence).  The promises about  *)
(* completions and surfaces rest on the Intel backend's own books.         *)
(***************************************************************************)
EXTENDS EncoderBackends, FiniteSetTheorems, SequenceTheorems, TLAPS

Submissions == [call : Nat, frame : {NoFrame} \cup Frames]

SessionTypes ==
    /\ kind \in Kinds /\ canceled \in BOOLEAN /\ policy \in Policies
    /\ accepted_frames \in Nat /\ calls \in Nat
    /\ pc \in {"idle", "write", "write_gpu", "flush", "close", "crashed"}
    /\ request \in Requests /\ ret \in Results /\ reported \subseteq Errors

CodecTypes ==
    /\ closed \in BOOLEAN /\ component \in {"none", "cpu", "gpu"}
    /\ anchor \in {NoFrame} \cup Frames /\ frames_in_sequence \in Nat

OutputTypes ==
    /\ next_pts \in Nat /\ finalized \in BOOLEAN
    /\ pending \in Seq(Nat) /\ packets \in Seq(Nat) /\ taken \in Seq(Nat)

IntelTypes ==
    /\ queue \in Seq(Submissions) /\ waiting \subseteq Submissions
    /\ inputs \subseteq Submissions /\ in_use \subseteq Submissions

TypeOK == SessionTypes /\ CodecTypes /\ OutputTypes /\ IntelTypes

\* write_gpu reaches only a GPU backend, with a frame and its timestamp; a
\* flush that has not come back has no result.
Asked ==
    /\ pc = "write_gpu" =>
           kind \in GpuKinds /\ request.frame \in Frames /\ request.pts \in Nat
    /\ pc = "flush" => ret = "none"

\* What replacing or closing a codec relies on.
EmptySequence ==
    /\ kind \in {"vp9", "nvidia"} => pending = <<>>
    /\ component = "none" \/ frames_in_sequence = 0 => pending = <<>>

\* Only the Intel backend has a queue and imports, only GPU backends an anchor.
OwnBooks ==
    /\ kind # "intel" => queue = <<>> /\ inputs = {}
    /\ kind \in CpuKinds => component # "gpu"
    /\ closed => component = "none"

\* Who waits for the packets of a queue.
Holders(q) == {q[i] : i \in DOMAIN q}

\* Each place of the queue has its packet, each pending completion its place,
\* and the encoder is never fuller than its depth allows.
QueueOK ==
    /\ Len(queue) <= Len(pending) /\ Len(queue) < AsyncDepth
    /\ waiting \subseteq Holders(queue)

\* The tracker keeps to its capacity.
TrackerOK == IsFiniteSet(inputs) /\ Cardinality(inputs) <= MaxImports

Inductive ==
    /\ TypeOK /\ Asked /\ EmptySequence /\ OwnBooks /\ QueueOK /\ TrackerOK
    /\ SurfacesHeld /\ AutoPtsFresh /\ NothingLostSilently

-----------------------------------------------------------------------------
(* Sequences of timestamps                                                 *)

LEMMA Associative ==
    ASSUME NEW a \in Seq(Nat), NEW b \in Seq(Nat), NEW c \in Seq(Nat)
    PROVE  (a \o b) \o c = a \o (b \o c)
  BY ConcatAssociative

\* The two parts of a sequence, one behind the other, are the sequence.
LEMMA CutInTwo ==
    ASSUME NEW p \in Seq(Nat), NEW s \in Seq(Nat), NEW n \in 0..Len(s)
    PROVE  /\ SubSeq(s, 1, n) \in Seq(Nat) /\ SubSeq(s, n + 1, Len(s)) \in Seq(Nat)
           /\ p \o SubSeq(s, 1, n) \in Seq(Nat)
           /\ (p \o SubSeq(s, 1, n)) \o SubSeq(s, n + 1, Len(s)) = p \o s
           /\ n = Len(s) => SubSeq(s, 1, n) = s
           /\ SubSeq(s, n + 1, Len(s)) = <<>> => n = Len(s)
           /\ s = <<>> => SubSeq(s, n + 1, Len(s)) = <<>>
<1> DEFINE front == SubSeq(s, 1, n)
           back == SubSeq(s, n + 1, Len(s))
<1>1. /\ Len(s) \in Nat /\ n \in Nat /\ n <= Len(s)
      /\ front \in Seq(Nat) /\ back \in Seq(Nat)
      /\ Len(back) = Len(s) - n
  OBVIOUS
<1>2. front \o back = s
  <2>1. 1 \in 1..Len(s) + 1 /\ n \in 1 - 1..Len(s) /\ Len(s) \in n..Len(s)
    BY <1>1
  <2>2. front \o back = SubSeq(s, 1, Len(s))
    BY ONLY <2>1, s \in Seq(Nat), ConcatAdjacentSubSeq, Zenon
  <2> QED
    BY <2>2, SubSeqFull
<1>3. (p \o front) \o back = p \o (front \o back)
  BY ONLY <1>1, p \in Seq(Nat), Associative, Zenon
<1>4. n = Len(s) => front = s
  BY SubSeqFull
<1>5. back = <<>> => n = Len(s)
  <2> HIDE DEF back
  <2>1. back = <<>> => Len(back) = 0
    OBVIOUS
  <2> QED
    BY <1>1, <2>1
<1>6. s = <<>> => back = <<>>
  <2>1. Len(back) = 0 => back = <<>>
    BY <1>1
  <2> QED
    BY <1>1, <2>1
<1>7. p \o front \in Seq(Nat)
  BY <1>1
<1> QED
  BY <1>1, <1>2, <1>3, <1>4, <1>5, <1>6, <1>7

\* A new element behind the second of two sequences is behind both.
LEMMA AppendBehind ==
    ASSUME NEW p \in Seq(Nat), NEW s \in Seq(Nat), NEW x \in Nat
    PROVE  p \o Append(s, x) = Append(p \o s, x)
<1>1. <<x>> \in Seq(Nat) /\ p \o s \in Seq(Nat)
  OBVIOUS
<1>2. Append(s, x) = s \o <<x>> /\ Append(p \o s, x) = (p \o s) \o <<x>>
  BY <1>1, AppendIsConcat, Zenon
<1>3. (p \o s) \o <<x>> = p \o (s \o <<x>>)
  BY ONLY <1>1, p \in Seq(Nat), s \in Seq(Nat), Associative, Zenon
<1> QED
  BY <1>2, <1>3

\* A timestamp and a bound above it go into a sequence of older timestamps.
LEMMA AppendFresh ==
    ASSUME NEW s \in Seq(Nat), NEW x \in Nat, NEW a \in Nat, NEW b \in Nat,
           \A i \in DOMAIN s : s[i] < a, a <= b, x < b
    PROVE  \A i \in DOMAIN Append(s, x) : Append(s, x)[i] < b
<1>1. ASSUME NEW i \in DOMAIN Append(s, x) PROVE Append(s, x)[i] < b
  <2>1. CASE i = Len(s) + 1
    BY <2>1
  <2>2. CASE i # Len(s) + 1
    <3>1. i \in DOMAIN s /\ Append(s, x)[i] = s[i] /\ s[i] \in Nat
      BY <2>2
    <3> QED
      BY <3>1
  <2> QED
    BY <2>1, <2>2
<1> QED
  BY <1>1

-----------------------------------------------------------------------------
(* What the operators of the model promise                                 *)

LEMMA ReturnKeeps ==
    ASSUME NEW result \in Results, reported \subseteq Errors, Return(result)
    PROVE  /\ pc' = "idle" /\ ret' = result /\ reported' \subseteq Errors
           /\ reported' = {} => reported = {} /\ result \notin Errors
  BY DEF Return

LEMMA CountKeeps ==
    ASSUME NEW result, accepted_frames \in Nat, CountIf(result)
    PROVE  accepted_frames' \in Nat
  BY DEF CountIf

LEMMA SelectIsNat ==
    ASSUME TypeOK PROVE request.pts \in Int /\ Select(request.pts) \in Nat
<1>1. request.pts \in {AUTO} \cup 0..MaxPts /\ next_pts \in Nat
  BY DEF TypeOK, SessionTypes, OutputTypes, Requests
<1>2. request.pts \in Int
  BY <1>1, BoundAssumption DEF AUTO
<1> QED
  BY <1>1, <1>2, BoundAssumption DEF AUTO, Select

LEMMA CollectKeeps ==
    ASSUME packets \in Seq(Nat), NEW frames \in Seq(Nat), NEW n \in 0..Len(frames),
           NEW result, NEW left, Collect(frames, n, result, left)
    PROVE  /\ packets' \in Seq(Nat) /\ left \in Seq(Nat)
           /\ result = "OK" => packets' \o left = packets \o frames
           /\ result = "OK" /\ left = <<>> => packets' = packets \o frames
           /\ frames = <<>> => left = <<>>
<1>1. packets' = packets \o SubSeq(frames, 1, n)
  BY DEF Collect
<1>2. \/ left = SubSeq(frames, n + 1, Len(frames))
      \/ n < Len(frames) /\ left = SubSeq(frames, n + 2, Len(frames)) /\ result # "OK"
  BY DEF Collect
<1>3. left \in Seq(Nat) /\ (frames = <<>> => left = <<>>)
  <2>1. CASE left = SubSeq(frames, n + 1, Len(frames))
    BY <2>1, CutInTwo
  <2>2. CASE n < Len(frames) /\ left = SubSeq(frames, n + 2, Len(frames))
    <3>1. n + 1 \in 0..Len(frames) /\ (n + 1) + 1 = n + 2
      BY <2>2
    <3>2. SubSeq(frames, (n + 1) + 1, Len(frames)) \in Seq(Nat)
      BY <3>1, CutInTwo
    <3>3. frames # <<>>
      BY <2>2
    <3> QED
      BY <2>2, <3>1, <3>2, <3>3
  <2> QED
    BY <1>2, <2>1, <2>2
<1>4. packets' \in Seq(Nat)
  BY <1>1, CutInTwo
<1>5. ASSUME result = "OK" PROVE packets' \o left = packets \o frames
  <2>1. left = SubSeq(frames, n + 1, Len(frames))
    BY <1>2, <1>5
  <2> QED
    BY <1>1, <2>1, CutInTwo, Zenon
<1>6. ASSUME result = "OK", left = <<>> PROVE packets' = packets \o frames
  <2>1. left = SubSeq(frames, n + 1, Len(frames))
    BY <1>2, <1>6
  <2>2. n = Len(frames) /\ SubSeq(frames, 1, n) = frames
    BY <1>6, <2>1, CutInTwo
  <2> QED
    BY <1>1, <2>2
<1> QED
  BY <1>3, <1>4, <1>5, <1>6

LEMMA DrainKeeps ==
    ASSUME packets \in Seq(Nat), pending \in Seq(Nat), NEW n \in 0..Len(pending),
           NEW result, NEW left, Drain(n, result, left)
    PROVE  /\ packets' \in Seq(Nat) /\ left \in Seq(Nat)
           /\ result = "OK" => left = <<>> /\ packets' = packets \o pending
           /\ pending = <<>> => left = <<>>
<1>1. CASE Collect(pending, n, result, left) /\ (result = "OK" => left = <<>>)
  BY <1>1, CollectKeeps
<1>2. CASE result = "CODEC" /\ left = pending /\ UNCHANGED packets
  BY <1>2
<1> QED
  BY <1>1, <1>2 DEF Drain

LEMMA MuxKeeps ==
    ASSUME packets \in Seq(Nat), NEW out \in Seq(Nat), NEW n, NEW result,
           Mux(out, n, result)
    PROVE  /\ packets' \in Seq(Nat) /\ result \in {"OK", "IO"}
           /\ result = "OK" => packets' = packets \o out
<1>1. n \in 0..Len(out) /\ packets' = packets \o SubSeq(out, 1, n)
  BY DEF Mux
<1>2. result = (IF n = Len(out) THEN "OK" ELSE "IO")
  BY DEF Mux
<1>3. packets' \in Seq(Nat) /\ (n = Len(out) => packets' = packets \o out)
  BY <1>1, CutInTwo
<1> QED
  BY <1>2, <1>3

-----------------------------------------------------------------------------
(* Steps that leave the backend alone                                      *)

LEMMA Initially == Init => Inductive
<1> SUFFICES ASSUME Init PROVE Inductive
  OBVIOUS
<1> USE DEF Init, InitShared, InitIntel
<1>1. SessionTypes
  BY DEF SessionTypes, Policies, Requests, Results, AUTO
<1>2. CodecTypes /\ OutputTypes /\ IntelTypes
  <2>1. \A S : <<>> \in Seq(S)
    OBVIOUS
  <2> QED
    BY <2>1 DEF CodecTypes, OutputTypes, IntelTypes
<1>3. Asked /\ EmptySequence /\ OwnBooks /\ SurfacesHeld /\ AutoPtsFresh
  BY DEF Asked, EmptySequence, OwnBooks, SurfacesHeld, AutoPtsFresh
<1>4. QueueOK
  BY DepthAssumption DEF QueueOK
<1>5. TrackerOK
  BY FS_EmptySet, DepthAssumption DEF TrackerOK
<1>6. NothingLostSilently
  BY DEF NothingLostSilently
<1> QED
  BY <1>1, <1>2, <1>3, <1>4, <1>5, <1>6 DEF Inductive, TypeOK

LEMMA BackendUntouched ==
    ASSUME Inductive, UNCHANGED <<kind, backend, intel>>, SessionTypes',
           Asked', reported' = {} => reported = {}
    PROVE  Inductive'
<1> USE DEF Inductive, backend, codec, output, intel
<1>1. CodecTypes' /\ OutputTypes' /\ IntelTypes'
  BY DEF TypeOK, CodecTypes, OutputTypes, IntelTypes
<1>2. EmptySequence' /\ OwnBooks' /\ SurfacesHeld'
  BY DEF EmptySequence, OwnBooks, SurfacesHeld
<1>3. QueueOK' /\ TrackerOK'
  BY DEF QueueOK, TrackerOK
<1>4. AutoPtsFresh' /\ NothingLostSilently'
  BY DEF AutoPtsFresh, NothingLostSilently
<1> QED
  BY <1>1, <1>2, <1>3, <1>4 DEF TypeOK

\* A call of a backend that is not Intel's leaves its books as they were.
LEMMA OtherBooks ==
    ASSUME Inductive, kind # "intel", UNCHANGED <<kind, intel>>,
           pending' \in Seq(Nat)
    PROVE  IntelTypes' /\ QueueOK' /\ TrackerOK'
<1> USE DEF Inductive, intel
<1>1. IntelTypes' /\ TrackerOK'
  BY DEF TypeOK, IntelTypes, TrackerOK
<1>2. queue' = <<>> /\ waiting' = waiting /\ Len(queue') <= Len(pending')
  BY DEF OwnBooks
<1>3. QueueOK'
  BY <1>2 DEF QueueOK
<1> QED
  BY <1>1, <1>3

LEMMA RefuseKeeps ==
    ASSUME Inductive, UNCHANGED intel, NEW result \in Results, Refuse(result)
    PROVE  Inductive'
<1>1. /\ UNCHANGED <<kind, canceled, policy, accepted_frames, request, backend>>
      /\ calls' = calls + 1 /\ Return(result)
  BY DEF Refuse, session
<1>2. /\ pc' = "idle" /\ ret' = result /\ reported' \subseteq Errors
      /\ reported' = {} => reported = {}
  BY <1>1, ReturnKeeps DEF Inductive, TypeOK, SessionTypes
<1>3. SessionTypes' /\ Asked'
  BY <1>1, <1>2 DEF Inductive, TypeOK, SessionTypes, Asked
<1> QED
  BY <1>1, <1>2, <1>3, BackendUntouched

LEMMA CallKeeps ==
    ASSUME Inductive, UNCHANGED intel, NEW pts, NEW frame,
           NEW location \in {"write", "write_gpu", "flush", "close"},
           [pts |-> pts, frame |-> frame] \in Requests,
           location = "write_gpu" =>
               kind \in GpuKinds /\ frame \in Frames /\ pts \in Nat,
           Call(location, pts, frame)
    PROVE  Inductive'
<1>1. /\ UNCHANGED <<kind, canceled, policy, accepted_frames, backend, reported>>
      /\ calls' = calls + 1 /\ pc' = location /\ ret' = "none"
      /\ request' = [pts |-> pts, frame |-> frame]
  BY DEF Call, session
<1>2. SessionTypes'
  BY <1>1 DEF Inductive, TypeOK, SessionTypes, Results
<1>3. Asked'
  BY <1>1 DEF Asked
<1> QED
  BY <1>1, <1>2, <1>3, BackendUntouched

\* The caller comes back from a backend that changed nothing.
LEMMA BackKeeps ==
    ASSUME Inductive, NEW result \in Results, Return(result),
           UNCHANGED <<session, accepted_frames, backend, request, calls, intel>>
    PROVE  Inductive'
<1>1. /\ pc' = "idle" /\ ret' = result /\ reported' \subseteq Errors
      /\ reported' = {} => reported = {}
  BY ReturnKeeps DEF Inductive, TypeOK, SessionTypes
<1>2. SessionTypes' /\ Asked'
  BY <1>1 DEF Inductive, TypeOK, SessionTypes, Asked, session
<1>3. UNCHANGED <<kind, backend, intel>>
  BY DEF session
<1> QED
  BY <1>1, <1>2, <1>3, BackendUntouched

LEMMA RejectedKeeps ==
    ASSUME Inductive, NEW result \in Results, Rejected(result), UNCHANGED intel
    PROVE  Inductive'
  BY BackKeeps DEF Rejected

LEMMA RequestForms ==
    /\ \A pts \in {AUTO} \cup 0..MaxPts : [pts |-> pts, frame |-> NoFrame] \in Requests
    /\ \A pts \in 0..MaxPts, f \in Frames :
           pts \in Nat /\ [pts |-> pts, frame |-> f] \in Requests
  BY BoundAssumption DEF Requests, AUTO

LEMMA SessionKeeps ==
    ASSUME Inductive, SessionNext, UNCHANGED intel PROVE Inductive'
<1> USE RequestForms DEF Results
<1>1. ASSUME Write PROVE Inductive'
  <2>1. ASSUME NEW result \in {"NOT_SUPPORTED", "CANCELLED", "INVALID_ARGUMENT"},
               Refuse(result)
        PROVE  Inductive'
    BY <2>1, RefuseKeeps
  <2>2. ASSUME NEW pts \in {AUTO} \cup 0..MaxPts, Call("write", pts, NoFrame)
        PROVE  Inductive'
    BY <2>2, CallKeeps
  <2> QED
    BY <1>1, <2>1, <2>2 DEF Write
<1>2. ASSUME WriteBorrowed PROVE Inductive'
  <2>1. ASSUME Refuse("CANCELLED") PROVE Inductive'
    BY <2>1, RefuseKeeps
  <2>2. ASSUME NEW pts \in {AUTO} \cup 0..MaxPts, Call("write", pts, NoFrame)
        PROVE  Inductive'
    BY <2>2, CallKeeps
  <2> QED
    BY <1>2, <2>1, <2>2 DEF WriteBorrowed
<1>3. ASSUME WriteGpu PROVE Inductive'
  <2>1. ASSUME NEW result \in {"NOT_SUPPORTED", "CANCELLED"}, Refuse(result)
        PROVE  Inductive'
    BY <2>1, RefuseKeeps
  <2>2. ASSUME kind \in GpuKinds, NEW pts \in 0..MaxPts, NEW f \in Frames,
               Call("write_gpu", pts, f)
        PROVE  Inductive'
    BY <2>2, CallKeeps
  <2> QED
    BY <1>3, <2>1, <2>2 DEF WriteGpu
<1>4. ASSUME SetCopyPolicy PROVE Inductive'
  <2>1. ASSUME NEW result \in {"INVALID_STATE", "NOT_SUPPORTED", "INVALID_ARGUMENT"},
               Refuse(result)
        PROVE  Inductive'
    BY <2>1, RefuseKeeps
  <2>2. ASSUME NEW p \in Policies, policy' = p, calls' = calls + 1, Return("OK"),
               UNCHANGED <<kind, canceled, accepted_frames, backend, request>>
        PROVE  Inductive'
    <3>1. /\ pc' = "idle" /\ ret' = "OK" /\ reported' \subseteq Errors
          /\ reported' = {} => reported = {}
      BY <2>2, ReturnKeeps DEF Inductive, TypeOK, SessionTypes
    <3>2. SessionTypes' /\ Asked'
      BY <2>2, <3>1 DEF Inductive, TypeOK, SessionTypes, Asked
    <3> QED
      BY <2>2, <3>1, <3>2, BackendUntouched
  <2> QED
    BY <1>4, <2>1, <2>2 DEF SetCopyPolicy
<1>5. ASSUME Flush PROVE Inductive'
  <2>1. ASSUME Refuse("CANCELLED") PROVE Inductive'
    BY <2>1, RefuseKeeps
  <2>2. ASSUME Call("flush", AUTO, NoFrame) PROVE Inductive'
    BY <2>2, CallKeeps
  <2> QED
    BY <1>5, <2>1, <2>2 DEF Flush
<1>6. ASSUME Close PROVE Inductive'
  BY <1>6, CallKeeps DEF Close
<1>7. ASSUME Cancel PROVE Inductive'
  <2>1. SessionTypes' /\ Asked'
    BY <1>7 DEF Cancel, Inductive, TypeOK, SessionTypes, Asked, caller
  <2> QED
    BY <1>7, <2>1, BackendUntouched DEF Cancel, caller
<1>8. ASSUME WriteClosed \/ CloseAgain PROVE Inductive'
  BY <1>8, BackKeeps DEF WriteClosed, CloseAgain
<1> QED
  BY <1>1, <1>2, <1>3, <1>4, <1>5, <1>6, <1>7, <1>8 DEF SessionNext

-----------------------------------------------------------------------------
(* The CPU backends                                                        *)

\* What is left to show when a backend call comes back.
LEMMA Returned ==
    ASSUME Inductive, NEW result \in Results, Return(result),
           accepted_frames' \in Nat, UNCHANGED <<session, request, calls>>
    PROVE  /\ SessionTypes' /\ Asked' /\ kind' = kind
           /\ reported' = {} => reported = {} /\ result \notin Errors
<1>1. /\ pc' = "idle" /\ ret' = result /\ reported' \subseteq Errors
      /\ reported' = {} => reported = {} /\ result \notin Errors
  BY ReturnKeeps DEF Inductive, TypeOK, SessionTypes
<1>2. SessionTypes' /\ Asked'
  BY <1>1 DEF Inductive, TypeOK, SessionTypes, Asked, session
<1> QED
  BY <1>1, <1>2 DEF session

LEMMA CpuWriteKeeps ==
    ASSUME Inductive, CpuWrite, UNCHANGED intel PROVE Inductive'
<1> DEFINE pts == Select(request.pts)
<1>1. PICK n \in 0..Len(pending) + 1, result \in {"OK"} \cup Errors :
        /\ Collect(Append(pending, pts), n, result, pending')
        /\ kind = "vp9" => pending' = <<>>
        /\ CommitWhen(pts, result)
        /\ taken' = Append(taken, pts)
        /\ CountIf(result) /\ Return(result)
  BY DEF CpuWrite
<1>2. /\ kind \in CpuKinds /\ ~closed /\ component # "none"
      /\ frames_in_sequence' = IF kind = "av1" THEN frames_in_sequence + 1 ELSE 0
      /\ UNCHANGED <<session, closed, component, anchor, finalized, request, calls>>
  BY DEF CpuWrite
<1>3. pts \in Nat
  BY SelectIsNat DEF Inductive
<1> HIDE DEF pts
<1>4. /\ pending \in Seq(Nat) /\ packets \in Seq(Nat) /\ taken \in Seq(Nat)
      /\ next_pts \in Nat
  BY DEF Inductive, TypeOK, OutputTypes
<1>5. Append(pending, pts) \in Seq(Nat) /\ n \in 0..Len(Append(pending, pts))
  BY <1>1, <1>3, <1>4
<1>6. /\ packets' \in Seq(Nat) /\ pending' \in Seq(Nat)
      /\ result = "OK" => packets' \o pending' = packets \o Append(pending, pts)
  <2> DEFINE frames == Append(pending, pts)
  <2>1. frames \in Seq(Nat) /\ n \in 0..Len(frames)
        /\ Collect(frames, n, result, pending')
    BY <1>1, <1>5
  <2> HIDE DEF frames
  <2>2. /\ packets' \in Seq(Nat) /\ pending' \in Seq(Nat)
        /\ result = "OK" => packets' \o pending' = packets \o frames
    BY <1>4, <2>1, CollectKeeps
  <2> QED
    BY <2>2 DEF frames
<1>7. next_pts' \in Nat /\ next_pts <= next_pts' /\ pts < next_pts'
  <2>1. next_pts' = Latest(next_pts, pts + 1) /\ pts + 1 \in Nat
    BY <1>1, <1>3 DEF CommitWhen, Commit
  <2> QED
    BY <1>3, <1>4, <2>1 DEF Latest
<1>8. SessionTypes' /\ Asked' /\ kind' = kind
  <2>1. result \in Results
    BY <1>1 DEF Results, Errors
  <2>2. accepted_frames' \in Nat
    BY <1>1, CountKeeps DEF Inductive, TypeOK, SessionTypes
  <2> QED
    BY <1>1, <1>2, <2>1, <2>2, Returned
<1>9. OutputTypes' /\ CodecTypes'
  <2>1. taken' \in Seq(Nat)
    BY <1>1, <1>3, <1>4
  <2>2. frames_in_sequence' \in Nat
    BY <1>2 DEF Inductive, TypeOK, CodecTypes
  <2> QED
    BY <1>2, <1>6, <1>7, <2>1, <2>2 DEF Inductive, TypeOK, OutputTypes, CodecTypes
<1>10. EmptySequence' /\ OwnBooks' /\ SurfacesHeld'
  <2>1. kind \in {"vp9", "av1"} /\ (kind = "av1" => frames_in_sequence' # 0)
    BY <1>2 DEF CpuKinds, Inductive, TypeOK, CodecTypes
  <2>2. EmptySequence'
    BY <1>1, <1>2, <1>8, <2>1 DEF EmptySequence
  <2> QED
    BY <1>2, <1>8, <2>2 DEF OwnBooks, SurfacesHeld, Inductive, intel
<1>11. AutoPtsFresh'
  <2>1. \A i \in DOMAIN taken : taken[i] < next_pts
    BY <1>2 DEF Inductive, AutoPtsFresh
  <2> QED
    BY <1>1, <1>3, <1>4, <1>7, <2>1, AppendFresh DEF AutoPtsFresh
<1>12. NothingLostSilently'
  <2> SUFFICES ASSUME reported' = {}
               PROVE  packets' \o pending' = taken' /\ ~closed'
    BY DEF NothingLostSilently
  <2>1. reported = {} /\ result = "OK"
    BY <1>1, ReturnKeeps DEF Inductive, TypeOK, SessionTypes, Results, Errors
  <2>2. packets \o Append(pending, pts) = Append(packets \o pending, pts)
    BY <1>3, <1>4, AppendBehind
  <2>3. packets \o pending = taken
    BY <2>1 DEF Inductive, NothingLostSilently
  <2> QED
    BY <1>1, <1>2, <1>6, <2>1, <2>2, <2>3
<1>13. IntelTypes' /\ QueueOK' /\ TrackerOK'
  BY <1>2, <1>6, <1>8, OtherBooks DEF CpuKinds
<1> QED
  BY <1>8, <1>9, <1>10, <1>11, <1>12, <1>13 DEF Inductive, TypeOK

\* A call of a CPU backend that takes no frame.
LEMMA CpuOutputKeeps ==
    ASSUME Inductive, kind \in CpuKinds, NEW result \in Results, Return(result),
           UNCHANGED <<session, accepted_frames, anchor, next_pts, taken, request,
                       calls, intel>>,
           CodecTypes', packets' \in Seq(Nat), pending' = <<>>, finalized' \in BOOLEAN,
           component' # "gpu", closed' => component' = "none",
           result \notin Errors =>
               packets' = packets \o pending /\ (closed' => finalized')
    PROVE  Inductive'
<1>1. /\ SessionTypes' /\ Asked' /\ kind' = kind
      /\ reported' = {} => reported = {} /\ result \notin Errors
  BY Returned DEF Inductive, TypeOK, SessionTypes
<1>2. pending' \in Seq(Nat)
  OBVIOUS
<1>3. OutputTypes'
  BY <1>2 DEF OutputTypes, Inductive, TypeOK
<1>4. EmptySequence' /\ OwnBooks' /\ SurfacesHeld'
  BY <1>1 DEF EmptySequence, OwnBooks, SurfacesHeld, Inductive, intel
<1>5. AutoPtsFresh'
  BY <1>1 DEF AutoPtsFresh, Inductive
<1>6. NothingLostSilently'
  <2> SUFFICES ASSUME reported' = {}
               PROVE  packets' \o pending' = taken' /\ (closed' => finalized')
    BY DEF NothingLostSilently
  <2>1. packets' = taken /\ packets' \in Seq(Nat)
    BY <1>1 DEF Inductive, NothingLostSilently
  <2>2. packets' \o <<>> = packets'
    BY <2>1
  <2> QED
    BY <1>1, <2>1, <2>2
<1>7. IntelTypes' /\ QueueOK' /\ TrackerOK'
  BY <1>1, <1>2, OtherBooks DEF CpuKinds
<1> QED
  BY <1>1, <1>3, <1>4, <1>5, <1>6, <1>7 DEF Inductive, TypeOK

LEMMA FlushVp9Keeps ==
    ASSUME Inductive, FlushVp9, UNCHANGED intel
    PROVE  Inductive' /\ (ret' = "OK" => packets' = packets \o pending)
<1>1. PICK n \in 0..Len(pending), result \in {"OK"} \cup Errors :
        Drain(n, result, pending') /\ Return(result)
  BY DEF FlushVp9
<1>2. /\ kind = "vp9" /\ ~closed
      /\ UNCHANGED <<session, accepted_frames, closed, codec, next_pts, finalized,
                     taken, request, calls>>
  BY DEF FlushVp9
<1>3. /\ pending = <<>> /\ component # "gpu" /\ finalized \in BOOLEAN /\ CodecTypes
      /\ packets \in Seq(Nat) /\ pending \in Seq(Nat)
  BY <1>2 DEF Inductive, EmptySequence, OwnBooks, TypeOK, OutputTypes, CpuKinds
<1>4. /\ packets' \in Seq(Nat) /\ pending' = <<>>
      /\ result = "OK" => packets' = packets \o pending
  BY <1>1, <1>3, DrainKeeps
<1>5. CodecTypes'
  BY <1>2, <1>3 DEF CodecTypes, codec
<1>6. result \in Results /\ ret' = result /\ (result \notin Errors => result = "OK")
  BY <1>1 DEF Results, Errors, Return
<1> QED
  BY <1>1, <1>2, <1>3, <1>4, <1>5, <1>6, CpuOutputKeeps DEF CpuKinds, codec

LEMMA FlushAv1Keeps ==
    ASSUME Inductive, FlushAv1, UNCHANGED intel
    PROVE  Inductive' /\ (ret' = "OK" => packets' = packets \o pending)
<1>1. PICK n \in 0..Len(pending), left \in Remains,
           result \in {"OK"} \cup Errors, restarted \in BOOLEAN :
        /\ Drain(n, result, left)
        /\ restarted => result = "OK"
        /\ component' = IF restarted THEN "cpu" ELSE "none"
        /\ Return(IF result = "OK" /\ ~restarted THEN "CODEC" ELSE result)
  BY DEF FlushAv1
<1>2. /\ kind = "av1" /\ ~closed /\ pending' = <<>> /\ frames_in_sequence' = 0
      /\ UNCHANGED <<session, accepted_frames, closed, anchor, next_pts, finalized,
                     taken, request, calls>>
  BY DEF FlushAv1
<1>3. /\ packets' \in Seq(Nat)
      /\ result = "OK" => packets' = packets \o pending
  BY <1>1, DrainKeeps DEF Inductive, TypeOK, OutputTypes
<1>4. CodecTypes' /\ finalized' \in BOOLEAN /\ component' \in {"cpu", "none"}
  BY <1>1, <1>2 DEF CodecTypes, OutputTypes, Inductive, TypeOK
<1> DEFINE answer == IF result = "OK" /\ ~restarted THEN "CODEC" ELSE result
<1>5. /\ answer \in Results /\ ret' = answer
      /\ answer \notin Errors => result = "OK"
      /\ answer = "OK" => result = "OK"
  BY <1>1 DEF Results, Errors, Return
<1>6. Return(answer)
  BY <1>1
<1> HIDE DEF answer
<1>7. Inductive'
  BY <1>2, <1>3, <1>4, <1>5, <1>6, CpuOutputKeeps DEF CpuKinds
<1> QED
  BY <1>3, <1>5, <1>7

LEMMA CloseResultIs ==
    ASSUME NEW ended \in {"OK"} \cup Errors, Finalize(ended)
    PROVE  /\ finalized' \in BOOLEAN /\ CloseResult(ended) \in Results
           /\ CloseResult(ended) \notin Errors => ended = "OK" /\ finalized'
  BY DEF Finalize, CloseResult, Results, Errors

LEMMA CpuCloseKeeps ==
    ASSUME Inductive, CpuClose, UNCHANGED intel PROVE Inductive'
<1>1. PICK n \in 0..Len(pending), left \in Remains, result \in {"OK"} \cup Errors :
        /\ Ending(n, result, left)
        /\ Finalize(result)
        /\ Return(CloseResult(result))
  BY DEF CpuClose
<1>2. /\ kind \in CpuKinds /\ pending' = <<>> /\ frames_in_sequence' = 0
      /\ component' = "none" /\ closed' = TRUE
      /\ UNCHANGED <<session, accepted_frames, anchor, next_pts, taken, request,
                     calls>>
  BY DEF CpuClose
<1>3. packets \in Seq(Nat) /\ pending \in Seq(Nat)
  BY DEF Inductive, TypeOK, OutputTypes
<1>4. packets' \in Seq(Nat) /\ (result = "OK" => packets' = packets \o pending)
  <2>1. CASE component # "none" /\ (kind = "av1" => frames_in_sequence # 0)
    BY <1>1, <1>3, <2>1, DrainKeeps DEF Ending
  <2>2. CASE ~(component # "none" /\ (kind = "av1" => frames_in_sequence # 0))
    <3>1. pending = <<>> /\ packets' = packets
      BY <1>1, <2>2 DEF Ending, Inductive, EmptySequence
    <3> QED
      BY <1>3, <3>1
  <2> QED
    BY <2>1, <2>2
<1>5. /\ finalized' \in BOOLEAN /\ CloseResult(result) \in Results
      /\ CloseResult(result) \notin Errors => result = "OK" /\ finalized'
  BY <1>1, CloseResultIs
<1>6. CodecTypes'
  BY <1>2 DEF CodecTypes, Inductive, TypeOK
<1> HIDE DEF CloseResult
<1> QED
  BY <1>1, <1>2, <1>4, <1>5, <1>6, CpuOutputKeeps

LEMMA CpuKeeps ==
    ASSUME Inductive, CpuNext, UNCHANGED intel PROVE Inductive'
<1>1. ASSUME CpuWriteRejected \/ FlushNothing PROVE Inductive'
  BY <1>1, RejectedKeeps DEF CpuWriteRejected, FlushNothing, Results, Errors
<1>2. ASSUME CpuWriteWithoutCodec PROVE Inductive'
  <2>1. /\ UNCHANGED <<session, accepted_frames, backend, request, calls>>
        /\ Return("CODEC") \/ (pc' = "crashed" /\ UNCHANGED <<ret, reported>>)
    BY <1>2 DEF CpuWriteWithoutCodec
  <2>2. CASE Return("CODEC")
    <3>1. "CODEC" \in Results
      BY DEF Results, Errors
    <3> QED
      BY <2>1, <2>2, <3>1, BackKeeps
  <2>3. CASE pc' = "crashed" /\ UNCHANGED <<ret, reported>>
    <3>1. SessionTypes' /\ Asked'
      BY <2>1, <2>3 DEF SessionTypes, Asked, Inductive, TypeOK, session
    <3> QED
      BY <2>1, <2>3, <3>1, BackendUntouched DEF session
  <2> QED
    BY <2>1, <2>2, <2>3
<1> QED
  BY <1>1, <1>2, CpuWriteKeeps, FlushVp9Keeps, FlushAv1Keeps, CpuCloseKeeps
  DEF CpuNext

-----------------------------------------------------------------------------
(* The NVIDIA backend                                                      *)

\* A call of the NVIDIA backend, from what it does to the file and the session.
LEMMA NvBackendKeeps ==
    ASSUME Inductive, kind = "nvidia", NEW result \in Results, Return(result),
           UNCHANGED <<session, pending, request, calls, intel>>,
           accepted_frames' \in Nat, CodecTypes',
           packets' \in Seq(Nat), taken' \in Seq(Nat), next_pts' \in Nat,
           finalized' \in BOOLEAN,
           component' # "gpu" => anchor' = NoFrame,
           closed' => component' = "none",
           result \notin Errors =>
               /\ packets = taken => packets' = taken'
               /\ (\A i \in DOMAIN taken : taken[i] < next_pts) =>
                      \A i \in DOMAIN taken' : taken'[i] < next_pts'
               /\ closed' => finalized'
    PROVE  Inductive'
<1>1. /\ SessionTypes' /\ Asked' /\ kind' = kind
      /\ reported' = {} => reported = {} /\ result \notin Errors
  BY Returned
<1>2. pending = <<>> /\ pending' = <<>> /\ pending' \in Seq(Nat) /\ inputs = {}
  BY DEF Inductive, EmptySequence, OwnBooks
<1>3. OutputTypes'
  BY <1>2 DEF OutputTypes
<1>4. EmptySequence' /\ OwnBooks' /\ SurfacesHeld'
  BY <1>1, <1>2 DEF EmptySequence, OwnBooks, SurfacesHeld, Inductive, intel, CpuKinds
<1>5. AutoPtsFresh'
  BY <1>1 DEF AutoPtsFresh, Inductive, CpuKinds
<1>6. NothingLostSilently'
  <2> SUFFICES ASSUME reported' = {}
               PROVE  packets' \o pending' = taken' /\ (closed' => finalized')
    BY <1>2 DEF NothingLostSilently
  <2>1. packets \in Seq(Nat) /\ packets \o <<>> = taken
    BY <1>1, <1>2 DEF Inductive, NothingLostSilently, TypeOK, OutputTypes
  <2>2. packets \o <<>> = packets
    BY <2>1
  <2>3. packets' = taken'
    BY <1>1, <2>1, <2>2
  <2>4. packets' \o <<>> = packets'
    OBVIOUS
  <2> QED
    BY <1>1, <1>2, <2>3, <2>4
<1>7. IntelTypes' /\ QueueOK' /\ TrackerOK'
  BY <1>1, <1>2, OtherBooks
<1> QED
  BY <1>1, <1>3, <1>4, <1>5, <1>6, <1>7 DEF Inductive, TypeOK

LEMMA EncodeKeeps ==
    ASSUME Inductive, kind = "nvidia", NEW pts \in Nat, Encode(pts), ~closed,
           UNCHANGED <<session, closed, pending, finalized, request, calls, intel>>,
           component' \in {"none", "cpu", "gpu"}, anchor' \in {NoFrame} \cup Frames,
           component' # "gpu" => anchor' = NoFrame
    PROVE  Inductive'
<1>1. /\ packets \in Seq(Nat) /\ taken \in Seq(Nat) /\ next_pts \in Nat
      /\ finalized \in BOOLEAN /\ frames_in_sequence \in Nat
      /\ accepted_frames \in Nat /\ closed \in BOOLEAN
  BY DEF Inductive, TypeOK, OutputTypes, CodecTypes, SessionTypes
<1>2. CASE PictureFails
  <2>1. /\ Return("CODEC")
        /\ UNCHANGED <<accepted_frames, next_pts, frames_in_sequence, packets, taken>>
    BY <1>2 DEF PictureFails
  <2>2. CodecTypes'
    BY <1>1, <2>1 DEF CodecTypes
  <2>3. "CODEC" \in Results /\ "CODEC" \in Errors
    BY DEF Results, Errors
  <2> QED
    BY <1>1, <2>1, <2>2, <2>3, NvBackendKeeps
<1>3. ASSUME NEW n \in 0..1, NEW result \in {"OK"} \cup Errors,
             \/ Mux(<<pts>>, n, result)
             \/ n = 0 /\ result = "CODEC" /\ UNCHANGED packets,
             taken' = Append(taken, pts),
             Committed(pts, result),
             frames_in_sequence' = IF result = "OK" THEN frames_in_sequence + 1
                                   ELSE frames_in_sequence,
             CountIf(result), Return(result)
      PROVE  Inductive'
  <2>1. /\ packets' \in Seq(Nat)
        /\ result = "OK" => packets' = packets \o <<pts>>
    <3> DEFINE one == <<pts>>
    <3>1. one \in Seq(Nat)
      OBVIOUS
    <3>2. Mux(one, n, result) \/ (result = "CODEC" /\ packets' = packets)
      BY <1>3
    <3> HIDE DEF one
    <3>3. packets' \in Seq(Nat) /\ (result = "OK" => packets' = packets \o one)
      BY <1>1, <3>1, <3>2, MuxKeeps
    <3> QED
      BY <3>3 DEF one
  <2>2. packets \o <<pts>> = Append(packets, pts)
    BY <1>1, AppendIsConcat, SMT
  <2>3. /\ next_pts' \in Nat
        /\ result = "OK" => next_pts <= next_pts' /\ pts < next_pts'
    BY <1>1, <1>3 DEF Committed, Latest, Duration
  <2>4. CodecTypes'
    BY <1>1, <1>3 DEF CodecTypes
  <2>5. accepted_frames' \in Nat /\ taken' \in Seq(Nat)
    BY <1>1, <1>3, CountKeeps
  <2>6. result \in Results /\ (result \notin Errors => result = "OK")
    BY <1>3 DEF Results, Errors
  <2>7. ASSUME result = "OK", \A i \in DOMAIN taken : taken[i] < next_pts
        PROVE  \A i \in DOMAIN taken' : taken'[i] < next_pts'
    BY <1>1, <1>3, <2>3, <2>7, AppendFresh
  <2> QED
    BY <1>1, <1>3, <2>1, <2>2, <2>3, <2>4, <2>5, <2>6, <2>7, NvBackendKeeps
<1> QED
  BY <1>2, <1>3 DEF Encode

LEMMA NvWriteKeeps ==
    ASSUME Inductive, NvWrite, UNCHANGED intel PROVE Inductive'
<1>1. Select(request.pts) \in Nat
  BY SelectIsNat DEF Inductive
<1>2. /\ component' \in {"none", "cpu", "gpu"} /\ anchor' \in {NoFrame} \cup Frames
      /\ component' # "gpu" => anchor' = NoFrame
  BY DEF NvWrite, Inductive, TypeOK, CodecTypes, SurfacesHeld
<1> QED
  BY <1>1, <1>2, EncodeKeeps DEF NvWrite

LEMMA NvWriteGpuKeeps ==
    ASSUME Inductive, NvWriteGpu, UNCHANGED intel PROVE Inductive'
<1>1. request.pts \in Nat /\ request.frame \in Frames
  BY DEF NvWriteGpu, Inductive, Asked
<1>2. component' = "gpu" /\ anchor' \in {NoFrame} \cup Frames
  BY <1>1 DEF NvWriteGpu, Inductive, TypeOK, CodecTypes
<1> QED
  BY <1>1, <1>2, EncodeKeeps DEF NvWriteGpu

LEMMA BindFailsKeeps ==
    ASSUME Inductive, BindFails, UNCHANGED intel PROVE Inductive'
<1>1. /\ kind = "nvidia" /\ ~closed /\ anchor = NoFrame /\ component' = "none"
      /\ Return("CODEC")
      /\ UNCHANGED <<session, accepted_frames, closed, anchor, frames_in_sequence,
                     next_pts, output, request, calls>>
  BY DEF BindFails
<1>2. CodecTypes'
  BY <1>1 DEF CodecTypes, Inductive, TypeOK
<1>3. "CODEC" \in Results /\ "CODEC" \in Errors
  BY DEF Results, Errors
<1>4. /\ accepted_frames' \in Nat /\ packets' \in Seq(Nat) /\ taken' \in Seq(Nat)
      /\ next_pts' \in Nat /\ finalized' \in BOOLEAN /\ UNCHANGED pending
  BY <1>1 DEF Inductive, TypeOK, SessionTypes, OutputTypes, output
<1> QED
  BY <1>1, <1>2, <1>3, <1>4, NvBackendKeeps

LEMMA NvFlushKeeps ==
    ASSUME Inductive, NvFlush, UNCHANGED intel PROVE Inductive'
<1>1. /\ kind = "nvidia" /\ ~closed
      /\ UNCHANGED <<session, accepted_frames, closed, next_pts, output, request,
                     calls>>
  BY DEF NvFlush
<1>2. /\ accepted_frames' \in Nat /\ packets' \in Seq(Nat) /\ taken' \in Seq(Nat)
      /\ next_pts' \in Nat /\ finalized' \in BOOLEAN
      /\ UNCHANGED <<pending, packets, taken, next_pts>>
  BY <1>1 DEF Inductive, TypeOK, SessionTypes, OutputTypes, output
<1>3. PICK result \in {"OK", "CODEC"} :
        /\ Return(result)
        /\ \/ UNCHANGED codec
           \/ /\ component' \in SessionMade("cpu")
              /\ frames_in_sequence' = 0 /\ anchor' = NoFrame
  BY DEF NvFlush
<1>4. CodecTypes' /\ (component' # "gpu" => anchor' = NoFrame)
  BY <1>1, <1>3 DEF CodecTypes, Inductive, TypeOK, SurfacesHeld, codec, SessionMade
<1>5. result \in Results
  BY <1>3 DEF Results, Errors
<1> QED
  BY <1>1, <1>2, <1>3, <1>4, <1>5, NvBackendKeeps

LEMMA NvCloseKeeps ==
    ASSUME Inductive, NvClose, UNCHANGED intel PROVE Inductive'
<1>1. PICK drained \in {"OK", "CODEC"} :
        Finalize(drained) /\ Return(CloseResult(drained))
  BY DEF NvClose
<1>2. /\ kind = "nvidia" /\ component' = "none" /\ anchor' = NoFrame /\ closed' = TRUE
      /\ UNCHANGED <<session, accepted_frames, frames_in_sequence, next_pts, pending,
                     packets, taken, request, calls>>
  BY DEF NvClose
<1>3. /\ finalized' \in BOOLEAN /\ CloseResult(drained) \in Results
      /\ CloseResult(drained) \notin Errors => finalized'
  BY <1>1, CloseResultIs DEF Errors
<1>4. /\ accepted_frames' \in Nat /\ packets' \in Seq(Nat) /\ taken' \in Seq(Nat)
      /\ next_pts' \in Nat /\ CodecTypes'
  BY <1>2 DEF Inductive, TypeOK, SessionTypes, OutputTypes, CodecTypes
<1> HIDE DEF CloseResult
<1> QED
  BY <1>1, <1>2, <1>3, <1>4, NvBackendKeeps

LEMMA NvKeeps ==
    ASSUME Inductive, NvNext, UNCHANGED intel PROVE Inductive'
<1>1. ASSUME NvWriteRejected \/ NvGpuRefused \/ NvFlushNothing PROVE Inductive'
  BY <1>1, RejectedKeeps
  DEF NvWriteRejected, NvGpuRefused, NvFlushNothing, Results, Errors
<1> QED
  BY <1>1, NvWriteKeeps, NvWriteGpuKeeps, BindFailsKeeps, NvFlushKeeps, NvCloseKeeps
  DEF NvNext

-----------------------------------------------------------------------------
(* The Intel encoder's queue                                               *)

Queues == [result : {"OK", "END_OF_STREAM"} \cup Errors, pending : Seq(Nat),
           queue : Seq(Submissions), out : Seq(Nat), resolved : SUBSET Submissions,
           took : BOOLEAN]

(* A queue as submit and collect_oldest may leave it for a frame: whoever  *)
(* waits has a place, and unless there was an error no packet is missing.  *)
Handled(w, pts, wait) ==
    /\ w \in Queues
    /\ Len(w.queue) <= Len(w.pending)
    /\ wait \ w.resolved \subseteq Holders(w.queue)
    /\ Encoded(w) => w.out \o w.pending = IF w.took THEN Append(pending, pts)
                                          ELSE pending
    /\ ~Encoded(w) /\ pending = <<>> => w.pending = <<>>

LEMMA HoldersAppend ==
    ASSUME NEW q \in Seq(Submissions), NEW x \in Submissions
    PROVE  Holders(Append(q, x)) = Holders(q) \cup {x}
<1>1. /\ DOMAIN q = 1..Len(q) /\ Len(q) \in Nat
      /\ DOMAIN Append(q, x) = 1..(Len(q) + 1)
      /\ \A i \in 1..Len(q) : Append(q, x)[i] = q[i]
      /\ Append(q, x)[Len(q) + 1] = x
  OBVIOUS
<1>2. ASSUME NEW i \in DOMAIN q PROVE q[i] \in Holders(Append(q, x))
  <2>1. i \in DOMAIN Append(q, x) /\ Append(q, x)[i] = q[i]
    BY <1>1
  <2> QED
    BY <2>1 DEF Holders
<1>3. x \in Holders(Append(q, x))
  <2>1. Len(q) + 1 \in DOMAIN Append(q, x)
    BY <1>1
  <2> QED
    BY <1>1, <2>1 DEF Holders
<1>4. ASSUME NEW i \in DOMAIN Append(q, x) PROVE Append(q, x)[i] \in Holders(q) \cup {x}
  <2>1. i \in DOMAIN q \/ i = Len(q) + 1
    BY <1>1
  <2> QED
    BY <1>1, <2>1 DEF Holders
<1> QED
  BY <1>2, <1>3, <1>4 DEF Holders

LEMMA HoldersTail ==
    ASSUME NEW q \in Seq(Submissions), q # <<>>
    PROVE  Holders(q) \subseteq {Head(q)} \cup Holders(Tail(q))
<1>1. /\ DOMAIN q = 1..Len(q) /\ Len(q) \in Nat /\ Len(q) > 0 /\ Head(q) = q[1]
      /\ DOMAIN Tail(q) = 1..(Len(q) - 1)
      /\ \A i \in 1..(Len(q) - 1) : Tail(q)[i] = q[i + 1]
  OBVIOUS
<1>2. ASSUME NEW i \in DOMAIN q PROVE q[i] \in {Head(q)} \cup Holders(Tail(q))
  <2>1. CASE i = 1
    BY <1>1, <2>1
  <2>2. CASE i # 1
    <3>1. i - 1 \in DOMAIN Tail(q) /\ Tail(q)[i - 1] = q[i]
      BY <1>1, <2>2
    <3> QED
      BY <3>1 DEF Holders
  <2> QED
    BY <2>1, <2>2
<1> QED
  BY <1>2 DEF Holders

\* What submit leaves, for anybody who waited before or waits for this frame.
LEMMA SubmittedHandled ==
    ASSUME TypeOK, QueueOK, NEW pts \in Nat, NEW who \in Submissions,
           NEW s \in Submitted(pts, who), NEW wait, wait \subseteq waiting \cup {who}
    PROVE  /\ Handled(s, pts, wait) /\ s.out = <<>>
           /\ Len(s.pending) <= Len(pending) + 1 /\ Len(s.queue) <= Len(queue) + 1
           /\ s.result # "OK" => s.queue = queue
<1>1. /\ pending \in Seq(Nat) /\ queue \in Seq(Submissions)
      /\ waiting \subseteq Holders(queue) /\ Len(queue) <= Len(pending)
  BY DEF TypeOK, OutputTypes, IntelTypes, QueueOK
<1>2. <<>> \in Seq(Nat) /\ (\A q \in Seq(Nat) : <<>> \o q = q)
  OBVIOUS
<1>3. /\ Append(pending, pts) \in Seq(Nat)
      /\ Len(Append(pending, pts)) = Len(pending) + 1
      /\ Append(queue, who) \in Seq(Submissions)
      /\ Len(Append(queue, who)) = Len(queue) + 1
      /\ Len(pending) \in Nat /\ Len(queue) \in Nat
  BY <1>1
<1> DEFINE took == [Untouched EXCEPT !.pending = Append(@, pts), !.took = TRUE]
           placed == [took EXCEPT !.queue = Append(@, who)]
           held == [took EXCEPT !.result = "END_OF_STREAM", !.resolved = {who}]
           done(r) == [Untouched EXCEPT !.resolved = {who}, !.result = r]
<1>4. \/ s = placed
      \/ s = held
      \/ \E r \in {"OK"} \cup Errors : s = done(r)
  BY DEF Submitted
<1>5. CASE s = placed
  <2>1. /\ s = [result |-> "OK", pending |-> Append(pending, pts),
                queue |-> Append(queue, who), out |-> <<>>, resolved |-> {},
                took |-> TRUE]
    BY <1>5 DEF Untouched
  <2>2. Holders(s.queue) = Holders(queue) \cup {who}
    BY <1>1, <2>1, HoldersAppend
  <2>3. s \in Queues
    BY <1>2, <1>3, <2>1 DEF Queues
  <2> QED
    BY <1>1, <1>2, <1>3, <2>1, <2>2, <2>3 DEF Handled, Encoded
<1>6. CASE s = held
  <2>1. /\ s = [result |-> "END_OF_STREAM", pending |-> Append(pending, pts),
                queue |-> queue, out |-> <<>>, resolved |-> {who}, took |-> TRUE]
    BY <1>6 DEF Untouched
  <2>2. s \in Queues
    BY <1>1, <1>2, <1>3, <2>1 DEF Queues
  <2> QED
    BY <1>1, <1>2, <1>3, <2>1, <2>2 DEF Handled, Encoded
<1>7. ASSUME NEW r \in {"OK"} \cup Errors, s = done(r)
      PROVE  /\ Handled(s, pts, wait) /\ s.out = <<>>
             /\ Len(s.pending) <= Len(pending) + 1
             /\ Len(s.queue) <= Len(queue) + 1
             /\ s.result # "OK" => s.queue = queue
  <2>1. /\ s = [result |-> r, pending |-> pending, queue |-> queue, out |-> <<>>,
                resolved |-> {who}, took |-> FALSE]
    BY <1>7 DEF Untouched
  <2>2. s \in Queues
    BY <1>1, <1>2, <2>1 DEF Queues
  <2> QED
    BY <1>1, <1>2, <1>3, <2>1, <2>2 DEF Handled, Encoded
<1> QED
  BY <1>4, <1>5, <1>6, <1>7

\* What collect_oldest makes of it.
LEMMA CollectedHandled ==
    ASSUME pending \in Seq(Nat), NEW pts \in Nat, NEW wait, NEW s,
           Handled(s, pts, wait), s.out = <<>>, s.result = "OK",
           Len(s.pending) <= Len(pending) + 1, NEW w \in Collected(s)
    PROVE  /\ Handled(w, pts, wait)
           /\ Len(w.queue) <= Len(s.queue)
           /\ Len(w.queue) < Len(s.queue) \/ Len(w.queue) = 0
<1>1. CASE s.queue = <<>>
  BY <1>1 DEF Collected
<1>2. CASE s.queue # <<>>
  <2>1. PICK r \in {"OK"} \cup Errors :
          w = [s EXCEPT !.result = r, !.pending = Tail(@), !.queue = Tail(@),
                        !.out = IF r = "OK" THEN <<Head(s.pending)>> ELSE <<>>,
                        !.resolved = @ \cup {Head(s.queue)}]
    BY <1>2 DEF Collected
  <2>2. /\ s \in Queues /\ s.queue \in Seq(Submissions) /\ s.pending \in Seq(Nat)
        /\ s.resolved \subseteq Submissions /\ s.took \in BOOLEAN
        /\ Len(s.queue) <= Len(s.pending)
    BY DEF Handled, Queues
  <2>3. /\ Tail(s.queue) \in Seq(Submissions) /\ Head(s.queue) \in Submissions
        /\ Len(s.queue) \in Nat /\ Len(Tail(s.queue)) = Len(s.queue) - 1
        /\ Len(s.queue) > 0
    BY <1>2, <2>2
  <2>4. s.pending # <<>>
    BY <2>2, <2>3
  <2>5. /\ Tail(s.pending) \in Seq(Nat) /\ Head(s.pending) \in Nat
        /\ Len(s.pending) \in Nat /\ Len(Tail(s.pending)) = Len(s.pending) - 1
        /\ <<Head(s.pending)>> \in Seq(Nat)
        /\ <<Head(s.pending)>> \o Tail(s.pending) = s.pending
        /\ <<>> \in Seq(Nat)
    BY <2>2, <2>4
  <2>6. /\ w.result = r /\ w.pending = Tail(s.pending) /\ w.queue = Tail(s.queue)
        /\ w.out = (IF r = "OK" THEN <<Head(s.pending)>> ELSE <<>>)
        /\ w.resolved = s.resolved \cup {Head(s.queue)} /\ w.took = s.took
        /\ w \in Queues
    <3> HIDE DEF Errors
    <3> QED
      BY <2>1, <2>2, <2>3, <2>5 DEF Queues
  <2>7. wait \ w.resolved \subseteq Holders(w.queue)
    BY <1>2, <2>2, <2>6, HoldersTail DEF Handled
  <2>8. Len(w.queue) <= Len(w.pending)
    BY <2>2, <2>3, <2>5, <2>6
  <2>9. s.pending = IF s.took THEN Append(pending, pts) ELSE pending
    <3>1. <<>> \o s.pending = s.pending
      BY <2>2
    <3> QED
      BY <3>1 DEF Handled, Encoded
  <2>10. Encoded(w) => w.out \o w.pending = IF w.took THEN Append(pending, pts)
                                            ELSE pending
    BY <2>1, <2>5, <2>6, <2>9 DEF Encoded, Errors
  <2>11. pending = <<>> => w.pending = <<>>
    <3> SUFFICES ASSUME pending = <<>> PROVE w.pending = <<>>
      OBVIOUS
    <3>1. Len(pending) = 0
      OBVIOUS
    <3>2. Len(w.pending) = 0 /\ w.pending \in Seq(Nat)
      BY <2>4, <2>5, <2>6, <3>1
    <3> QED
      BY <3>2
  <2>12. Len(w.queue) < Len(s.queue)
    BY <2>3, <2>6
  <2>13. Len(w.queue) \in Nat
    BY <2>3, <2>6
  <2>14. Handled(w, pts, wait)
    BY ONLY <2>6, <2>7, <2>8, <2>10, <2>11 DEF Handled
  <2> QED
    BY <2>3, <2>12, <2>13, <2>14
<1> QED
  BY <1>1, <1>2

-----------------------------------------------------------------------------
(* The Intel backend                                                       *)

\* How a write ends, whatever the queue did with the frame.
LEMMA FinishKeeps ==
    ASSUME Inductive, kind = "intel", ~closed, NEW pts \in Nat, NEW w, NEW wait,
           Handled(w, pts, wait), Finish(w, pts),
           UNCHANGED <<session, closed, finalized, request, calls>>
    PROVE  /\ SessionTypes' /\ Asked' /\ OutputTypes' /\ kind' = kind
           /\ queue' = w.queue /\ queue' \in Seq(Submissions)
           /\ Len(queue') <= Len(pending') /\ wait \ w.resolved \subseteq Holders(queue')
           /\ AutoPtsFresh' /\ NothingLostSilently'
           /\ ~Encoded(w) /\ pending = <<>> => pending' = <<>>
<1>1. /\ pending \in Seq(Nat) /\ packets \in Seq(Nat) /\ taken \in Seq(Nat)
      /\ next_pts \in Nat /\ accepted_frames \in Nat /\ finalized \in BOOLEAN
      /\ reported \subseteq Errors
  BY DEF Inductive, TypeOK, OutputTypes, SessionTypes
<1>2. /\ w.pending \in Seq(Nat) /\ w.queue \in Seq(Submissions) /\ w.out \in Seq(Nat)
      /\ w.result \in {"OK", "END_OF_STREAM"} \cup Errors /\ w.took \in BOOLEAN
  BY DEF Handled, Queues
<1>3. /\ taken' = IF w.took THEN Append(taken, pts) ELSE taken
      /\ pending' = w.pending /\ queue' = w.queue
      /\ next_pts' = IF Encoded(w) THEN Latest(next_pts, pts + 1) ELSE next_pts
  BY DEF Finish
<1>4. PICK result \in {"OK"} \cup Errors :
        /\ Return(result) /\ accepted_frames' \in Nat /\ packets' \in Seq(Nat)
        /\ result = "OK" => Encoded(w) /\ packets' = packets \o w.out
  <2>1. CASE Encoded(w)
    <3>1. PICK n \in 0..Len(w.out), result \in {"OK", "IO"} :
            Mux(w.out, n, result) /\ CountIf(result) /\ Return(result)
      BY <2>1 DEF Finish
    <3>2. /\ packets' \in Seq(Nat) /\ accepted_frames' \in Nat
          /\ result = "OK" => packets' = packets \o w.out
      BY <1>1, <1>2, <3>1, MuxKeeps, CountKeeps
    <3>3. result \in {"OK"} \cup Errors
      BY DEF Errors
    <3> QED
      BY <2>1, <3>1, <3>2, <3>3
  <2>2. CASE ~Encoded(w)
    <3>1. Return(w.result) /\ UNCHANGED <<packets, accepted_frames>>
      BY <2>2 DEF Finish
    <3>2. w.result \in Errors /\ w.result # "OK"
      BY <1>2, <2>2 DEF Encoded
    <3> QED
      BY <1>1, <3>1, <3>2
  <2> QED
    BY <2>1, <2>2
<1>5. /\ SessionTypes' /\ Asked' /\ kind' = kind
      /\ reported' = {} => reported = {} /\ result = "OK"
  <2>1. result \in Results
    BY <1>4 DEF Results, Errors
  <2> QED
    BY <1>4, <2>1, Returned
<1>6. /\ next_pts' \in Nat /\ next_pts <= next_pts'
      /\ Encoded(w) => pts < next_pts'
  BY <1>1, <1>3 DEF Latest
<1>7. taken' \in Seq(Nat)
  BY <1>1, <1>2, <1>3
<1>8. OutputTypes'
  BY <1>1, <1>2, <1>3, <1>4, <1>6, <1>7 DEF OutputTypes
<1>9. AutoPtsFresh'
  <2> SUFFICES ASSUME reported' = {}
               PROVE  \A i \in DOMAIN taken' : taken'[i] < next_pts'
    BY <1>5 DEF AutoPtsFresh, CpuKinds
  <2>1. Encoded(w) /\ \A i \in DOMAIN taken : taken[i] < next_pts
    BY <1>4, <1>5 DEF Inductive, AutoPtsFresh
  <2>2. CASE w.took
    BY <1>1, <1>3, <1>6, <2>1, <2>2, AppendFresh
  <2>3. CASE ~w.took
    <3>1. taken' = taken
      BY <1>3, <2>3
    <3>2. ASSUME NEW i \in DOMAIN taken PROVE taken[i] < next_pts'
      <4>1. taken[i] \in Nat /\ taken[i] < next_pts
        BY <1>1, <2>1
      <4> QED
        BY <1>1, <1>6, <4>1
    <3> QED
      BY <3>1, <3>2
  <2> QED
    BY <2>2, <2>3
<1>10. NothingLostSilently'
  <2> SUFFICES ASSUME reported' = {} PROVE packets' \o pending' = taken'
    BY DEF NothingLostSilently
  <2>1. /\ Encoded(w) /\ packets' = packets \o w.out
        /\ packets \o pending = taken
    BY <1>4, <1>5 DEF Inductive, NothingLostSilently
  <2>2. (packets \o w.out) \o w.pending = packets \o (w.out \o w.pending)
    BY ONLY <1>1, <1>2, Associative, Zenon
  <2>3. w.out \o w.pending = IF w.took THEN Append(pending, pts) ELSE pending
    BY <2>1 DEF Handled
  <2>4. packets \o Append(pending, pts) = Append(packets \o pending, pts)
    BY <1>1, AppendBehind
  <2> QED
    BY <1>3, <2>1, <2>2, <2>3, <2>4
<1>11. /\ Len(queue') <= Len(pending') /\ wait \ w.resolved \subseteq Holders(queue')
       /\ ~Encoded(w) /\ pending = <<>> => pending' = <<>>
  BY <1>3 DEF Handled
<1> QED
  BY <1>2, <1>3, <1>5, <1>8, <1>9, <1>10, <1>11

LEMMA IntelWriteKeeps ==
    ASSUME Inductive, IntelWrite PROVE Inductive'
<1> DEFINE pts == Select(request.pts)
<1>1. PICK s \in Submitted(pts, Nobody) :
      \E w \in (IF s.result = "OK" /\ Len(s.queue) >= AsyncDepth
                THEN Collected(s) ELSE {s}) :
        /\ Finish(w, pts) /\ waiting' = waiting \ w.resolved
        /\ frames_in_sequence' = IF Encoded(w) THEN frames_in_sequence + 1
                                 ELSE frames_in_sequence
  BY DEF IntelWrite
<1>2. PICK w \in (IF s.result = "OK" /\ Len(s.queue) >= AsyncDepth
                  THEN Collected(s) ELSE {s}) :
        /\ Finish(w, pts) /\ waiting' = waiting \ w.resolved
        /\ frames_in_sequence' = IF Encoded(w) THEN frames_in_sequence + 1
                                 ELSE frames_in_sequence
  BY <1>1
<1>3. /\ kind = "intel" /\ ~closed /\ component # "none"
      /\ UNCHANGED <<session, closed, component, anchor, finalized, request, calls,
                     inputs, in_use>>
  BY DEF IntelWrite
<1>4. pts \in Nat /\ pending \in Seq(Nat)
  BY SelectIsNat DEF Inductive, TypeOK, OutputTypes
<1> HIDE DEF pts
<1>5. /\ Handled(s, pts, waiting) /\ s.out = <<>>
      /\ Len(s.pending) <= Len(pending) + 1 /\ Len(s.queue) <= Len(queue) + 1
      /\ s.result # "OK" => s.queue = queue
  <2>1. Nobody \in Submissions
    BY DEF Nobody, Submissions
  <2> QED
    BY <1>1, <1>4, <2>1, SubmittedHandled DEF Inductive
<1>6. Len(queue) \in Nat /\ Len(s.queue) \in Nat /\ Len(queue) < AsyncDepth
  BY <1>5 DEF Inductive, QueueOK, TypeOK, IntelTypes, Handled, Queues
<1>7. Handled(w, pts, waiting) /\ Len(w.queue) < AsyncDepth
  <2>1. CASE s.result = "OK" /\ Len(s.queue) >= AsyncDepth
    <3>1. w \in Collected(s)
      BY <1>2, <2>1
    <3>2. /\ Handled(w, pts, waiting)
          /\ Len(w.queue) < Len(s.queue) \/ Len(w.queue) = 0
      BY <1>4, <1>5, <2>1, <3>1, CollectedHandled
    <3>3. Len(w.queue) \in Nat
      BY <3>2 DEF Handled, Queues
    <3> QED
      BY <1>5, <1>6, <3>2, <3>3, DepthAssumption
  <2>2. CASE ~(s.result = "OK" /\ Len(s.queue) >= AsyncDepth)
    <3>1. w = s
      BY <1>2, <2>2
    <3>2. Len(s.queue) < AsyncDepth
      BY <1>5, <1>6, <2>2, DepthAssumption
    <3> QED
      BY <1>5, <3>1, <3>2
  <2> QED
    BY <2>1, <2>2
<1>8. /\ SessionTypes' /\ Asked' /\ OutputTypes' /\ kind' = kind
      /\ queue' = w.queue /\ queue' \in Seq(Submissions)
      /\ Len(queue') <= Len(pending')
      /\ waiting \ w.resolved \subseteq Holders(queue')
      /\ AutoPtsFresh' /\ NothingLostSilently'
      /\ ~Encoded(w) /\ pending = <<>> => pending' = <<>>
  BY <1>2, <1>3, <1>4, <1>7, FinishKeeps
<1>9. CodecTypes' /\ IntelTypes'
  BY <1>2, <1>3, <1>8 DEF Inductive, TypeOK, CodecTypes, IntelTypes
<1>10. EmptySequence'
  <2>1. ASSUME frames_in_sequence' = 0 PROVE pending' = <<>>
    <3>1. ~Encoded(w) /\ frames_in_sequence = 0
      BY <1>2, <2>1 DEF Inductive, TypeOK, CodecTypes
    <3>2. pending = <<>>
      BY <3>1 DEF Inductive, EmptySequence
    <3> QED
      BY <1>8, <3>1, <3>2
  <2> QED
    BY <1>3, <1>8, <2>1 DEF EmptySequence
<1>11. OwnBooks' /\ SurfacesHeld' /\ TrackerOK' /\ QueueOK'
  BY <1>2, <1>3, <1>7, <1>8
  DEF Inductive, OwnBooks, SurfacesHeld, TrackerOK, QueueOK, CpuKinds
<1> QED
  BY <1>8, <1>9, <1>10, <1>11 DEF Inductive, TypeOK

\* Binding the encoder to a GPU frame keeps no import but those still in use.
LEMMA GpuBound ==
    ASSUME Inductive, pc = "write_gpu", BindGpu
    PROVE  /\ component' = "gpu" /\ anchor' \in {NoFrame} \cup Frames
           /\ KeptImports \subseteq inputs /\ KeptImports \subseteq Submissions
           /\ IsFiniteSet(KeptImports) /\ Cardinality(KeptImports) \in Nat
           /\ Cardinality(KeptImports) <= MaxImports
<1>1. component' = "gpu" /\ anchor' \in {NoFrame} \cup Frames
  BY DEF Inductive, TypeOK, CodecTypes, Asked, BindGpu
<1>2. KeptImports \subseteq inputs /\ inputs \subseteq Submissions
  BY DEF KeptImports, Retired, Inductive, TypeOK, IntelTypes
<1>3. IsFiniteSet(inputs) /\ Cardinality(inputs) <= MaxImports
  BY DEF Inductive, TrackerOK
<1>4. IsFiniteSet(KeptImports) /\ Cardinality(KeptImports) <= Cardinality(inputs)
  BY <1>2, <1>3, FS_Subset
<1>5. Cardinality(KeptImports) \in Nat /\ Cardinality(inputs) \in Nat
  BY <1>3, <1>4, FS_CardinalityType
<1> QED
  BY <1>1, <1>2, <1>3, <1>4, <1>5, DepthAssumption

LEMMA AcquireFailsKeeps ==
    ASSUME Inductive, AcquireFails PROVE Inductive'
<1>1. /\ pc = "write_gpu" /\ kind = "intel" /\ ~closed /\ BindGpu
      /\ inputs' = KeptImports /\ in_use' = in_use \cap KeptImports
      /\ UNCHANGED <<session, accepted_frames, closed, frames_in_sequence,
                     next_pts, output, request, calls, queue, waiting>>
  BY DEF AcquireFails
<1>2. PICK result \in Results : Return(result)
  BY DEF AcquireFails, ImportErrors, Results, Errors
<1>3. /\ component' = "gpu" /\ anchor' \in {NoFrame} \cup Frames
      /\ KeptImports \subseteq inputs /\ KeptImports \subseteq Submissions
      /\ IsFiniteSet(KeptImports) /\ Cardinality(KeptImports) <= MaxImports
  BY <1>1, GpuBound
<1>4. /\ SessionTypes' /\ Asked' /\ kind' = kind
      /\ reported' = {} => reported = {}
  <2>1. accepted_frames' \in Nat
    BY <1>1 DEF Inductive, TypeOK, SessionTypes
  <2> QED
    BY <1>1, <1>2, <2>1, Returned
<1>5. CodecTypes' /\ OutputTypes' /\ IntelTypes'
  BY <1>1, <1>3
  DEF Inductive, TypeOK, CodecTypes, OutputTypes, IntelTypes, output
<1>6. EmptySequence' /\ OwnBooks'
  BY <1>1, <1>3, <1>4 DEF Inductive, EmptySequence, OwnBooks, output, CpuKinds
<1>7. QueueOK' /\ TrackerOK' /\ SurfacesHeld'
  BY <1>1, <1>3 DEF Inductive, QueueOK, TrackerOK, SurfacesHeld, output
<1>8. AutoPtsFresh' /\ NothingLostSilently'
  BY <1>1, <1>4 DEF Inductive, AutoPtsFresh, NothingLostSilently, output
<1> QED
  BY <1>4, <1>5, <1>6, <1>7, <1>8 DEF Inductive, TypeOK

LEMMA IntelWriteGpuKeeps ==
    ASSUME Inductive, IntelWriteGpu
    PROVE  Inductive' /\ Len(queue') <= Len(queue)
<1> DEFINE who == [call |-> calls, frame |-> request.frame]
           new == IF request.frame \in External THEN {who} ELSE {}
<1>1. PICK s \in Submitted(next_pts, who) : \E w \in AfterSubmit(s) :
        /\ Finish(w, next_pts)
        /\ waiting' = (waiting \cup {who}) \ w.resolved
        /\ frames_in_sequence' = IF Encoded(w) THEN frames_in_sequence + 1
                                 ELSE frames_in_sequence
        /\ \E still_used \in BOOLEAN :
            /\ in_use' = (in_use \cap KeptImports)
                         \cup (IF still_used THEN new ELSE {})
            /\ inputs' = IF new # {} /\ s.result \notin Errors
                         THEN Retired(KeptImports \cup new, in_use')
                         ELSE KeptImports \cup new
  BY DEF IntelWriteGpu
<1>2. PICK w \in AfterSubmit(s) :
        /\ Finish(w, next_pts)
        /\ waiting' = (waiting \cup {who}) \ w.resolved
        /\ frames_in_sequence' = IF Encoded(w) THEN frames_in_sequence + 1
                                 ELSE frames_in_sequence
        /\ in_use' \subseteq (in_use \cap KeptImports) \cup new
        /\ \/ inputs' = Retired(KeptImports \cup new, in_use')
           \/ inputs' = KeptImports \cup new
  BY <1>1
<1>3. /\ pc = "write_gpu" /\ kind = "intel" /\ ~closed /\ BindGpu
      /\ request.frame \in External => ~NoRoom
      /\ UNCHANGED <<session, closed, finalized, request, calls>>
  BY DEF IntelWriteGpu
<1>4. /\ component' = "gpu" /\ anchor' \in {NoFrame} \cup Frames
      /\ KeptImports \subseteq inputs /\ KeptImports \subseteq Submissions
      /\ IsFiniteSet(KeptImports) /\ Cardinality(KeptImports) \in Nat
      /\ Cardinality(KeptImports) <= MaxImports
  BY <1>3, GpuBound
<1>5. /\ who \in Submissions /\ next_pts \in Nat /\ pending \in Seq(Nat)
      /\ queue \in Seq(Submissions) /\ Len(queue) \in Nat /\ Len(queue) < AsyncDepth
  BY <1>3 DEF Inductive, TypeOK, SessionTypes, OutputTypes, IntelTypes, QueueOK,
              Asked, Submissions
<1>6. IsFiniteSet(KeptImports \cup new) /\ Cardinality(KeptImports \cup new) <= MaxImports
  <2>1. CASE request.frame \in External
    <3>1. Cardinality(KeptImports) < MaxImports
      BY <1>3, <1>4, <2>1, DepthAssumption DEF NoRoom
    <3>2. /\ IsFiniteSet(KeptImports \cup {who})
          /\ \/ Cardinality(KeptImports \cup {who}) = Cardinality(KeptImports)
             \/ Cardinality(KeptImports \cup {who}) = Cardinality(KeptImports) + 1
      <4> HIDE DEF who
      <4> QED
        BY <1>4, FS_AddElement
    <3> HIDE DEF who
    <3> QED
      BY <1>4, <2>1, <3>1, <3>2, DepthAssumption
  <2>2. CASE request.frame \notin External
    <3>1. KeptImports \cup new = KeptImports
      BY <2>2
    <3> QED
      BY <1>4, <3>1
  <2> QED
    BY <2>1, <2>2
<1>7. new \subseteq Submissions
  BY <1>5
<1> HIDE DEF new, who
<1>8. /\ Handled(s, next_pts, waiting \cup {who}) /\ s.out = <<>>
      /\ Len(s.pending) <= Len(pending) + 1 /\ Len(s.queue) <= Len(queue) + 1
      /\ s.result # "OK" => s.queue = queue
  <2>1. waiting \cup {who} \subseteq waiting \cup {who}
    OBVIOUS
  <2> QED
    BY <1>1, <1>5, <2>1, SubmittedHandled DEF Inductive
<1>9. Handled(w, next_pts, waiting \cup {who}) /\ Len(w.queue) <= Len(queue)
  <2>1. CASE s.result = "OK"
    <3>1. w \in Collected(s)
      BY <1>2, <2>1 DEF AfterSubmit
    <3>2. /\ Handled(w, next_pts, waiting \cup {who})
          /\ Len(w.queue) < Len(s.queue) \/ Len(w.queue) = 0
      BY <1>5, <1>8, <2>1, <3>1, CollectedHandled
    <3>3. w.queue \in Seq(Submissions) /\ s.queue \in Seq(Submissions)
      BY <1>8, <3>2 DEF Handled, Queues
    <3>4. Len(w.queue) \in Nat /\ Len(s.queue) \in Nat
      BY <3>3
    <3> QED
      BY <1>5, <1>8, <3>2, <3>4
  <2>2. CASE s.result # "OK"
    <3>1. w = s
      BY <1>2, <2>2 DEF AfterSubmit
    <3> QED
      BY <1>5, <1>8, <2>2, <3>1
  <2> QED
    BY <2>1, <2>2
<1>10. /\ SessionTypes' /\ Asked' /\ OutputTypes' /\ kind' = kind
       /\ queue' = w.queue /\ queue' \in Seq(Submissions)
       /\ Len(queue') <= Len(pending')
       /\ (waiting \cup {who}) \ w.resolved \subseteq Holders(queue')
       /\ AutoPtsFresh' /\ NothingLostSilently'
       /\ ~Encoded(w) /\ pending = <<>> => pending' = <<>>
  BY <1>2, <1>3, <1>5, <1>9, FinishKeeps
<1>11. inputs' \subseteq KeptImports \cup new /\ in_use' \subseteq inputs'
  BY <1>2 DEF Retired
<1>12. CodecTypes' /\ IntelTypes'
  <2>1. waiting' \subseteq Submissions
    BY <1>2, <1>5 DEF Inductive, TypeOK, IntelTypes
  <2> QED
    BY <1>2, <1>3, <1>4, <1>7, <1>10, <1>11, <2>1
    DEF Inductive, TypeOK, CodecTypes, IntelTypes
<1>13. EmptySequence'
  <2>1. ASSUME frames_in_sequence' = 0 PROVE pending' = <<>>
    <3>1. ~Encoded(w) /\ frames_in_sequence = 0
      BY <1>2, <2>1 DEF Inductive, TypeOK, CodecTypes
    <3>2. pending = <<>>
      BY <3>1 DEF Inductive, EmptySequence
    <3> QED
      BY <1>10, <3>1, <3>2
  <2> QED
    BY <1>3, <1>4, <1>10, <2>1 DEF EmptySequence
<1>14. OwnBooks' /\ SurfacesHeld'
  BY <1>3, <1>4, <1>10, <1>11 DEF OwnBooks, SurfacesHeld, CpuKinds
<1>15. QueueOK' /\ Len(queue') <= Len(queue)
  <2>1. Len(queue') \in Nat
    BY <1>10
  <2> QED
    BY <1>2, <1>5, <1>9, <1>10, <2>1, DepthAssumption DEF QueueOK
<1>16. TrackerOK'
  <2>1. IsFiniteSet(inputs') /\ Cardinality(inputs') <= Cardinality(KeptImports \cup new)
    BY <1>6, <1>11, FS_Subset
  <2>2. Cardinality(inputs') \in Nat /\ Cardinality(KeptImports \cup new) \in Nat
    BY <1>6, <2>1, FS_CardinalityType
  <2>3. MaxImports' = MaxImports
    OBVIOUS
  <2> QED
    BY <1>6, <2>1, <2>2, DepthAssumption DEF TrackerOK
<1> QED
  BY <1>10, <1>12, <1>13, <1>14, <1>15, <1>16 DEF Inductive, TypeOK

LEMMA RuntimeReleasesKeeps ==
    ASSUME Inductive, RuntimeReleases PROVE Inductive'
<1>1. /\ UNCHANGED <<shared, queue, waiting, inputs>> /\ in_use' \subseteq in_use
  BY DEF RuntimeReleases
<1>2. /\ UNCHANGED <<kind, canceled, policy, accepted_frames, closed, component, anchor,
                     frames_in_sequence, next_pts, pending, packets, finalized, taken>>
      /\ UNCHANGED <<pc, request, ret, reported, calls>>
  BY <1>1 DEF shared, session, backend, codec, output, caller
<1>3. TypeOK'
  BY <1>1, <1>2
  DEF Inductive, TypeOK, SessionTypes, CodecTypes, OutputTypes, IntelTypes
<1>4. Asked' /\ EmptySequence' /\ OwnBooks' /\ QueueOK' /\ TrackerOK'
  BY <1>1, <1>2
  DEF Inductive, Asked, EmptySequence, OwnBooks, QueueOK, TrackerOK
<1>5. SurfacesHeld' /\ AutoPtsFresh' /\ NothingLostSilently'
  BY <1>1, <1>2 DEF Inductive, SurfacesHeld, AutoPtsFresh, NothingLostSilently
<1> QED
  BY <1>3, <1>4, <1>5 DEF Inductive

LEMMA IntelFlushNothingKeeps ==
    ASSUME Inductive, IntelFlushNothing
    PROVE  Inductive' /\ pending = <<>> /\ packets' = packets
<1>1. /\ kind = "intel" /\ ~closed /\ frames_in_sequence = 0 /\ component # "gpu"
      /\ component' \in {"cpu", "none"}
      /\ UNCHANGED <<session, accepted_frames, closed, anchor, frames_in_sequence,
                     next_pts, output, request, calls, intel>>
  BY DEF IntelFlushNothing, Restarted
<1>2. PICK result \in {"OK", "CODEC"} : Return(result)
  BY DEF IntelFlushNothing
<1>3. /\ SessionTypes' /\ Asked' /\ kind' = kind
      /\ reported' = {} => reported = {}
  <2>1. accepted_frames' \in Nat /\ result \in Results
    BY <1>1, <1>2 DEF Inductive, TypeOK, SessionTypes, Results, Errors
  <2> QED
    BY <1>1, <1>2, <2>1, Returned
<1>4. pending = <<>> /\ pending' = <<>> /\ packets' = packets
  BY <1>1 DEF Inductive, EmptySequence, output
<1>5. CodecTypes' /\ OutputTypes' /\ IntelTypes'
  BY <1>1
  DEF Inductive, TypeOK, CodecTypes, OutputTypes, IntelTypes, output, intel
<1>6. EmptySequence' /\ OwnBooks' /\ SurfacesHeld'
  BY <1>1, <1>3, <1>4
  DEF Inductive, EmptySequence, OwnBooks, SurfacesHeld, CpuKinds, intel
<1>7. QueueOK' /\ TrackerOK'
  BY <1>1 DEF Inductive, QueueOK, TrackerOK, output, intel
<1>8. AutoPtsFresh' /\ NothingLostSilently'
  BY <1>1, <1>3 DEF Inductive, AutoPtsFresh, NothingLostSilently, output
<1> QED
  BY <1>3, <1>4, <1>5, <1>6, <1>7, <1>8 DEF Inductive, TypeOK

\* The encoder is destroyed and the caller told how that went.
LEMMA DestroyKeeps ==
    ASSUME Inductive, kind = "intel", DestroyEncoder,
           NEW result \in Results, Return(result),
           UNCHANGED <<session, accepted_frames, next_pts, taken, request, calls>>,
           packets' \in Seq(Nat), finalized' \in BOOLEAN, closed' \in BOOLEAN,
           component' \in {"cpu", "none"}, closed' => component' = "none",
           result \notin Errors =>
               packets' = packets \o pending /\ (closed' => finalized')
    PROVE  Inductive'
<1>1. /\ SessionTypes' /\ Asked' /\ kind' = kind
      /\ reported' = {} => reported = {} /\ result \notin Errors
  BY Returned DEF Inductive, TypeOK, SessionTypes
<1>2. /\ pending' = <<>> /\ queue' = <<>> /\ waiting' = {} /\ inputs' = {}
      /\ in_use' = {} /\ anchor' = NoFrame /\ frames_in_sequence' = 0
  BY DEF DestroyEncoder
<1>3. pending' \in Seq(Nat) /\ queue' \in Seq(Submissions)
  BY <1>2
<1>4. CodecTypes' /\ OutputTypes' /\ IntelTypes'
  BY <1>2, <1>3 DEF CodecTypes, OutputTypes, IntelTypes, Inductive, TypeOK
<1>5. EmptySequence' /\ OwnBooks' /\ SurfacesHeld'
  BY <1>1, <1>2 DEF EmptySequence, OwnBooks, SurfacesHeld, CpuKinds
<1>6. QueueOK' /\ TrackerOK'
  <2>1. Len(queue') = 0 /\ Len(pending') = 0
    BY <1>2
  <2>2. IsFiniteSet(inputs') /\ Cardinality(inputs') = 0
    BY <1>2, FS_EmptySet
  <2> QED
    BY <1>2, <2>1, <2>2, DepthAssumption DEF QueueOK, TrackerOK
<1>7. AutoPtsFresh'
  BY <1>1 DEF Inductive, AutoPtsFresh
<1>8. NothingLostSilently'
  <2> SUFFICES ASSUME reported' = {}
               PROVE  packets' \o pending' = taken' /\ (closed' => finalized')
    BY <1>2 DEF NothingLostSilently
  <2>1. packets' = taken
    BY <1>1 DEF Inductive, NothingLostSilently
  <2>2. packets' \o <<>> = packets'
    OBVIOUS
  <2> QED
    BY <1>1, <1>2, <2>1, <2>2
<1> QED
  BY <1>1, <1>4, <1>5, <1>6, <1>7, <1>8 DEF Inductive, TypeOK

LEMMA IntelFlushKeeps ==
    ASSUME Inductive, IntelFlush
    PROVE  Inductive' /\ (ret' = "OK" => packets' = packets \o pending)
<1>1. /\ kind = "intel" /\ ~closed /\ DestroyEncoder
      /\ UNCHANGED <<session, accepted_frames, closed, next_pts, finalized, taken,
                     request, calls>>
  BY DEF IntelFlush
<1>2. /\ packets \in Seq(Nat) /\ pending \in Seq(Nat)
      /\ finalized \in BOOLEAN /\ closed \in BOOLEAN
  BY DEF Inductive, TypeOK, OutputTypes, CodecTypes
<1>3. PICK out, drained, result :
        /\ Drained(out, drained) /\ Return(result)
        /\ \/ drained \in Errors /\ UNCHANGED packets /\ result = drained
           \/ /\ drained = "OK"
              /\ \E n \in Nat, muxed \in {"OK", "IO"} :
                    /\ Mux(out, n, muxed)
                    /\ result \in {"CODEC", muxed} /\ (result = "OK" => muxed = "OK")
        /\ component' \in {"cpu", "none"}
  BY <1>2 DEF IntelFlush, Restarted
<1>4. /\ packets' \in Seq(Nat) /\ result \in Results
      /\ result \notin Errors => result = "OK" /\ packets' = packets \o pending
  <2>1. CASE drained \in Errors /\ UNCHANGED packets /\ result = drained
    BY <1>2, <2>1 DEF Results, Errors
  <2>2. ASSUME drained = "OK", NEW n \in Nat, NEW muxed \in {"OK", "IO"},
               Mux(out, n, muxed),
               result \in {"CODEC", muxed}, result = "OK" => muxed = "OK"
        PROVE  /\ packets' \in Seq(Nat) /\ result \in Results
               /\ result \notin Errors =>
                      result = "OK" /\ packets' = packets \o pending
    <3>1. out = pending
      BY <1>3, <2>2 DEF Drained, Errors
    <3>2. /\ packets' \in Seq(Nat)
          /\ muxed = "OK" => packets' = packets \o pending
      BY <1>2, <2>2, <3>1, MuxKeeps
    <3> QED
      BY <2>2, <3>2 DEF Results, Errors
  <2> QED
    BY <1>3, <2>1, <2>2
<1>5. Inductive'
  BY <1>1, <1>2, <1>3, <1>4, DestroyKeeps
<1>6. ret' = result /\ "OK" \notin Errors
  BY <1>3 DEF Return, Errors
<1> QED
  BY <1>4, <1>5, <1>6

LEMMA IntelCloseKeeps ==
    ASSUME Inductive, IntelClose PROVE Inductive'
<1>1. /\ kind = "intel" /\ DestroyEncoder /\ component' = "none" /\ closed' = TRUE
      /\ UNCHANGED <<session, accepted_frames, next_pts, taken, request, calls>>
  BY DEF IntelClose
<1>2. packets \in Seq(Nat) /\ pending \in Seq(Nat)
  BY DEF Inductive, TypeOK, OutputTypes
<1>3. PICK n \in 0..Len(pending),
           out \in {SubSeq(pending, 1, i) : i \in 0..Len(pending)},
           drained \in {"OK"} \cup Errors, muxed \in {"OK", "IO"} :
        /\ IF component # "none" /\ frames_in_sequence > 0
           THEN Drained(out, drained) ELSE out = <<>> /\ drained = "OK"
        /\ IF drained = "OK" THEN Mux(out, n, muxed)
           ELSE n = 0 /\ muxed = "OK" /\ UNCHANGED packets
        /\ Finalize(IF drained = "OK" THEN muxed ELSE drained)
        /\ Return(CloseResult(IF drained = "OK" THEN muxed ELSE drained))
  BY DEF IntelClose
<1> DEFINE ended == IF drained = "OK" THEN muxed ELSE drained
<1>4. drained = "OK" => out = pending
  <2>1. CASE component # "none" /\ frames_in_sequence > 0
    BY <1>3, <2>1 DEF Drained, Errors
  <2>2. CASE ~(component # "none" /\ frames_in_sequence > 0)
    <3>1. component = "none" \/ frames_in_sequence = 0
      BY <2>2 DEF Inductive, TypeOK, CodecTypes
    <3>2. pending = <<>>
      BY <3>1 DEF Inductive, EmptySequence
    <3> QED
      BY <1>3, <2>2, <3>2
  <2> QED
    BY <2>1, <2>2
<1>5. /\ packets' \in Seq(Nat) /\ ended \in {"OK"} \cup Errors
      /\ ended = "OK" => packets' = packets \o pending
  <2>1. CASE drained = "OK"
    <3>1. Mux(pending, n, muxed)
      BY <1>3, <1>4, <2>1
    <3> QED
      BY <1>2, <2>1, <3>1, MuxKeeps DEF Errors
  <2>2. CASE drained # "OK"
    BY <1>2, <1>3, <2>2
  <2> QED
    BY <2>1, <2>2
<1>6. Finalize(ended) /\ Return(CloseResult(ended))
  BY <1>3
<1> HIDE DEF ended
<1>7. /\ finalized' \in BOOLEAN /\ CloseResult(ended) \in Results
      /\ CloseResult(ended) \notin Errors => ended = "OK" /\ finalized'
  BY <1>5, <1>6, CloseResultIs
<1> HIDE DEF CloseResult
<1> QED
  BY <1>1, <1>5, <1>6, <1>7, DestroyKeeps

LEMMA IntelKeeps ==
    ASSUME Inductive, IntelNext PROVE Inductive'
<1>1. ASSUME IntelWriteRejected \/ IntelGpuRefused PROVE Inductive'
  BY <1>1, RejectedKeeps
  DEF IntelWriteRejected, IntelGpuRefused, NotMade, Results, Errors
<1>2. ASSUME IntelWriteWithoutEncoder PROVE Inductive'
  <2>1. /\ pc' = "crashed"
        /\ UNCHANGED <<session, accepted_frames, backend, request, ret, reported,
                       calls, intel>>
    BY <1>2 DEF IntelWriteWithoutEncoder
  <2>2. SessionTypes' /\ Asked'
    BY <2>1 DEF SessionTypes, Asked, Inductive, TypeOK, session
  <2> QED
    BY <2>1, <2>2, BackendUntouched DEF session
<1> QED
  BY <1>1, <1>2, IntelWriteKeeps, AcquireFailsKeeps, IntelWriteGpuKeeps,
     RuntimeReleasesKeeps, IntelFlushNothingKeeps, IntelFlushKeeps, IntelCloseKeeps
  DEF IntelNext

-----------------------------------------------------------------------------
(* The inductive invariant                                                 *)

LEMMA StepKeeps == Inductive /\ [Next]_vars => Inductive'
<1> SUFFICES ASSUME Inductive, [Next]_vars PROVE Inductive'
  OBVIOUS
<1>1. ASSUME UNCHANGED vars PROVE Inductive'
  <2>1. /\ UNCHANGED <<kind, canceled, policy, accepted_frames, backend, intel>>
        /\ UNCHANGED <<pc, request, ret, reported, calls>>
    BY <1>1 DEF vars, shared, session, caller
  <2>2. SessionTypes' /\ Asked'
    BY <2>1 DEF Inductive, TypeOK, SessionTypes, Asked
  <2> QED
    BY <2>1, <2>2, BackendUntouched
<1> QED
  BY <1>1, SessionKeeps, CpuKeeps, IntelKeeps, NvKeeps DEF Next, Quiescent

LEMMA Invariant == Spec => []Inductive
  BY Initially, StepKeeps, PTL DEF Spec

-----------------------------------------------------------------------------
(* Theorems                                                                *)

(* Every variable of a session and of its backend keeps its type, on each  *)
(* of the four backends.                                                   *)
THEOREM TypeCorrect == Spec => []TypeOK
<1>1. Inductive => TypeOK
  BY DEF Inductive
<1> QED
  BY <1>1, Invariant, PTL

(* A caller of write, write_borrowed, write_gpu, flush and close who has   *)
(* seen no error has lost no frame: all of them are in the file or still   *)
(* in the codec, in order, and after close in a finalized file.            *)
THEOREM Lossless == Spec => []NothingLostSilently
<1>1. Inductive => NothingLostSilently
  BY DEF Inductive
<1> QED
  BY <1>1, Invariant, PTL

(* The timestamp FrameTiming selects for a frame without one is later than *)
(* all that the codec took: always on the CPU, and until the first error   *)
(* on the hardware.                                                        *)
THEOREM Fresh == Spec => []AutoPtsFresh
<1>1. Inductive => AutoPtsFresh
  BY DEF Inductive
<1> QED
  BY <1>1, Invariant, PTL

(* The Intel backend holds the lease of every frame whose wrapper oneVPL   *)
(* refers to, and holds none when no encoder for GPU frames is there.      *)
THEOREM Held == Spec => []SurfacesHeld
<1>1. Inductive => SurfacesHeld
  BY DEF Inductive
<1> QED
  BY <1>1, Invariant, PTL

Limits == Len(queue) < AsyncDepth /\ Cardinality(inputs) <= MaxImports

(* Between two calls the Intel encoder has fewer packets in flight than    *)
(* its asynchronous depth, with CPU frames, GPU frames and errors mixed in *)
(* any order, and the tracker no more imports than it has room for.        *)
THEOREM WithinLimits == Spec => []Limits
<1>1. Inductive => Limits
  BY DEF Inductive, QueueOK, TrackerOK, Limits
<1> QED
  BY <1>1, Invariant, PTL

\* A step of a flush that says OK has brought out everything.
LEMMA FlushStep ==
    ASSUME Inductive, Next, ~UNCHANGED vars, pc = "flush", ret' = "OK"
    PROVE  packets' = packets \o pending
<1>1. ret = "none" /\ packets \in Seq(Nat)
  BY DEF Inductive, Asked, TypeOK, OutputTypes
<1>2. ASSUME pending = <<>>, packets' = packets PROVE packets' = packets \o pending
  BY <1>1, <1>2
<1>3. CASE SessionNext
  <2>1. CloseAgain
    BY <1>1, <1>3
    DEF SessionNext, Write, WriteBorrowed, WriteGpu, SetCopyPolicy, Flush, Close,
        Cancel, Refuse, Call, WriteClosed, caller
  <2>2. closed /\ packets' = packets
    BY <2>1 DEF CloseAgain, backend, output
  <2> QED
    BY <1>2, <2>2 DEF Inductive, OwnBooks, EmptySequence
<1>4. CASE CpuNext /\ UNCHANGED intel
  <2>1. CASE FlushNothing
    <3>1. frames_in_sequence = 0 /\ packets' = packets
      BY <2>1 DEF FlushNothing, Rejected, backend, output
    <3> QED
      BY <1>2, <3>1 DEF Inductive, EmptySequence
  <2> QED
    BY <1>4, <2>1, FlushVp9Keeps, FlushAv1Keeps
    DEF CpuNext, CpuWriteRejected, CpuWriteWithoutCodec, CpuWrite, CpuClose
<1>5. CASE IntelNext
  <2>1. IntelFlushNothing \/ IntelFlush
    BY <1>1, <1>5
    DEF IntelNext, IntelWriteRejected, IntelWriteWithoutEncoder, IntelWrite,
        IntelGpuRefused, AcquireFails, IntelWriteGpu, RuntimeReleases, IntelClose,
        shared, caller
  <2> QED
    BY <1>2, <2>1, IntelFlushNothingKeeps, IntelFlushKeeps
<1>6. CASE NvNext
  <2>1. NvFlushNothing \/ NvFlush
    BY <1>6
    DEF NvNext, NvWriteRejected, NvWrite, NvGpuRefused, BindFails, NvWriteGpu, NvClose
  <2>2. kind = "nvidia" /\ packets' = packets
    BY <2>1 DEF NvFlushNothing, NvFlush, Rejected, backend, output
  <2> QED
    BY <1>2, <2>2 DEF Inductive, EmptySequence
<1> QED
  BY <1>3, <1>4, <1>5, <1>6 DEF Next, Quiescent

\* A write_gpu that gives the codec a frame does so on the anchor's device.
LEMMA DeviceStep ==
    ASSUME Inductive, Next, pc = "write_gpu", taken' # taken
    PROVE  anchor' # NoFrame /\ SameDevice(request.frame, anchor')
<1>1. request.frame \in Frames /\ request.frame # NoFrame
  BY BoundAssumption DEF Inductive, Asked, Frames, NoFrame
<1>2. IntelWriteGpu \/ NvWriteGpu
  <2>1. ~SessionNext
    BY DEF SessionNext, Write, WriteBorrowed, WriteGpu, SetCopyPolicy, Flush, Close,
        Cancel, Refuse, Call, WriteClosed, CloseAgain, backend, output
  <2>2. ~CpuNext
    BY DEF CpuNext, CpuWriteRejected, CpuWriteWithoutCodec, CpuWrite, FlushNothing,
        FlushVp9, FlushAv1, CpuClose
  <2>3. IntelNext => IntelWriteGpu
    BY DEF IntelNext, IntelWriteRejected, IntelWriteWithoutEncoder, IntelWrite,
        IntelGpuRefused, AcquireFails, RuntimeReleases, IntelFlushNothing, IntelFlush,
        IntelClose, Rejected, shared, backend, output
  <2>4. NvNext => NvWriteGpu
    BY DEF NvNext, NvWriteRejected, NvWrite, NvGpuRefused, BindFails, NvFlushNothing,
        NvFlush, NvClose, Rejected, backend, output
  <2>5. ~Quiescent
    BY DEF Quiescent, vars, shared, backend, output
  <2> QED
    BY <2>1, <2>2, <2>3, <2>4, <2>5 DEF Next
<1>3. CASE IntelWriteGpu
  <2>1. BindGpu /\ DeviceAccepted
    BY <1>3 DEF IntelWriteGpu
  <2> QED
    BY <1>1, <2>1 DEF BindGpu, DeviceAccepted, SameDevice
<1>4. CASE NvWriteGpu
  <2>1. Bound /\ anchor' = IF anchor = NoFrame THEN request.frame ELSE anchor
    BY <1>4 DEF NvWriteGpu
  <2> QED
    BY <1>1, <2>1 DEF Bound, SameDevice
<1> QED
  BY <1>2, <1>3, <1>4

\* A write_gpu leaves the queue no longer than it was.
LEMMA CollectStep ==
    ASSUME Inductive, Next, pc = "write_gpu" PROVE Len(queue') <= Len(queue)
<1>1. Len(queue) \in Nat
  BY DEF Inductive, TypeOK, IntelTypes
<1>2. queue' = queue \/ IntelWriteGpu
  <2>1. IntelNext => queue' = queue \/ IntelWriteGpu
    BY DEF IntelNext, IntelWriteRejected, IntelWriteWithoutEncoder, IntelWrite,
        IntelGpuRefused, AcquireFails, RuntimeReleases, IntelFlushNothing, IntelFlush,
        IntelClose, intel
  <2> QED
    BY <2>1 DEF Next, Quiescent, vars, intel
<1> QED
  BY <1>1, <1>2, IntelWriteGpuKeeps

(* Flush is a barrier: its OK means that all the codec held is in the      *)
(* file.  The frames of one sequence live on the anchor's device.  A       *)
(* completion is pending only while its submission is queued, and a        *)
(* write_gpu collects what it submits.                                     *)
THEOREM Rules == Spec => SequenceRules
<1> DEFINE Barrier == pc = "flush" /\ ret' = "OK" => packets' = packets \o pending
           Device == pc = "write_gpu" /\ taken' # taken =>
                         anchor' # NoFrame /\ SameDevice(request.frame, anchor')
           Resolved == /\ waiting' \subseteq {queue'[i] : i \in DOMAIN queue'}
                       /\ pc = "write_gpu" => Len(queue') <= Len(queue)
<1>1. Inductive /\ [Next]_vars => [Barrier]_vars
  BY FlushStep
<1>2. Inductive /\ [Next]_vars => [Device]_vars
  BY DeviceStep
<1>3. Inductive /\ Inductive' /\ [Next]_vars => [Resolved]_vars
  BY CollectStep DEF Inductive, QueueOK, Holders
<1>4. Spec => [][Barrier]_vars
  BY <1>1, Invariant, PTL DEF Spec
<1>5. Spec => [][Device]_vars
  BY <1>2, Invariant, PTL DEF Spec
<1>6. Spec => [][Resolved]_vars
  BY <1>3, Invariant, PTL DEF Spec
<1> QED
  BY <1>4, <1>5, <1>6, PTL
  DEF SequenceRules, FlushIsBarrier, OneDevice, CompletionsResolved

=============================================================================
