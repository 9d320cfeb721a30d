--------------------------- MODULE AutoMagProofs ----------------------------
(***************************************************************************)
(* Proofs about AutoMag's loop: for any frames, any keys and any order of  *)
(* the terminal, the socket and the board.                                 *)
(***************************************************************************)
EXTENDS AutoMag, SequenceTheorems, WellFoundedInduction, TLAPS

(* A set of natural numbers has a least one. *)
LEMMA LeastOf ==
    ASSUME NEW S \in SUBSET Nat, S # {}
    PROVE  \E k \in S : \A j \in S : k <= j
<1>1. PICK k \in S : \A j \in S : ~(<<j, k>> \in OpToRel(<, Nat))
  BY NatLessThanWellFounded, WFMin, Zenon
<1>2. \A j \in S : ~(j < k)
  BY <1>1, Zenon DEF OpToRel
<1> QED
  BY <1>2

-----------------------------------------------------------------------------
Typed ==
    /\ TypeOK
    /\ coming \in Seq(PieceType)

(* What recv leaves in its buffer and on the socket. *)
LEMMA ReceiveTyped ==
    ASSUME Typed, NEW n \in 1..Merge, Receive(n)
    PROVE  /\ inq' \in Seq(PieceType)
           /\ received' \in [1..Merge -> PieceType]
           /\ 1 \in 1..Merge
<1>1. inq \in Seq(PieceType) /\ n \in 1..Len(inq) /\ Len(inq) \in Nat
  BY DEF Typed, TypeOK, Receive
<1>2. \A k \in 1..Len(inq) : inq[k] \in PieceType
  BY <1>1
<1>3. inq' \in Seq(PieceType)
  <2>1. /\ inq' = SubSeq(inq, n + 1, Len(inq))
        /\ \A i \in n + 1..Len(inq) : inq[i] \in PieceType
    BY <1>1, <1>2 DEF Receive
  <2> QED
    BY <1>1, <2>1, SubSeqProperties
<1>4. received' \in [1..Merge -> PieceType]
  BY <1>1, <1>2 DEF Receive, Overlaid, Typed, TypeOK
<1>5. 1 \in 1..Merge
  BY BoardAssumption
<1> QED
  BY <1>3, <1>4, <1>5

(* The text found by strstr is in the buffer. *)
LEMMA FirstHead ==
    ASSUME NEW r \in [1..Merge -> PieceType], HeadsIn(r) # {}
    PROVE  First(HeadsIn(r)) \in 1..Merge /\ r[First(HeadsIn(r))].kind = "head"
<1>1. HeadsIn(r) \in SUBSET Nat
  BY BoardAssumption DEF HeadsIn
<1>2. PICK k \in HeadsIn(r) : \A j \in HeadsIn(r) : k <= j
  BY <1>1, LeastOf
<1>3. First(HeadsIn(r)) \in HeadsIn(r)
  BY <1>2, Zenon DEF First
<1> QED
  BY <1>3 DEF HeadsIn

(* greenLedState and redLedState stay 0 or 1, and never both 1. *)
LEMMA SwitchTyped ==
    ASSUME TypeOK, NEW speed, SwitchLeds(speed)
    PROVE  green' \in {0, 1} /\ red' \in {0, 1} /\ green' + red' <= 1
<1>1. \/ green' = 1 /\ red' = 0
      \/ red' = 1 /\ green' = 0
      \/ green' = green /\ red' = red
  BY Zenon DEF SwitchLeds
<1> QED
  BY <1>1 DEF TypeOK

(* Every step keeps the types. *)
LEMMA TypedNext ==
    ASSUME Typed, Next
    PROVE  Typed'
<1>1. \A kind \in {"head", "mid", "tail", "answer", "nul"}, f \in Frames \cup {NoFrame} :
        Piece(kind, f) \in PieceType
  BY DEF Piece, PieceType
<1>2. ASSUME NEW f \in Frames, Report(f) PROVE Typed'
  <2>1. Piece("head", f) \in PieceType /\ Piece("mid", f) \in PieceType
        /\ Piece("tail", f) \in PieceType
    BY <1>1
  <2> QED
    BY <1>2, <2>1 DEF Report, Typed, TypeOK, program
<1>3. CASE ReportMore
  <2>1. Head(coming) \in PieceType /\ Tail(coming) \in Seq(PieceType)
    BY <1>3 DEF ReportMore, Typed
  <2> QED
    BY <1>3, <2>1 DEF ReportMore, Typed, TypeOK, program
<1>4. CASE Answer
  <2>1. Piece("answer", NoFrame) \in PieceType
    BY <1>1
  <2> QED
    BY <1>4, <2>1 DEF Answer, Typed, TypeOK, program
<1>5. CASE Close
  BY <1>5 DEF Close, Typed, TypeOK, program
<1>6. CASE Obey
  <2>1. leds' \subseteq {"LED1", "LED2"}
    BY <1>6 DEF Obey
  <2> QED
    BY <1>6, <2>1 DEF Obey, Typed, TypeOK, program
<1>7. ASSUME NEW k \in Keys, Press(k) PROVE Typed'
  BY <1>7 DEF Press, Typed, TypeOK, program, board
<1>8. CASE Terminal
  BY <1>8, Zenon
    DEF Terminal, ReadTerminal, ReadLinOption, ReadBaudrate, Typed, TypeOK, board
<1>9. CASE TerminalEnds
  BY <1>9 DEF TerminalEnds, Typed, TypeOK, board
<1>10. ASSUME NEW n \in 1..Merge, RecvHead(n) PROVE Typed'
  <2>1. /\ inq' \in Seq(PieceType)
        /\ received' \in [1..Merge -> PieceType]
    BY <1>10, ReceiveTyped DEF RecvHead
  <2>2. CASE HeadsIn(received') = {}
    BY <1>10, <2>1, <2>2 DEF RecvHead, Receive, Typed, TypeOK, board
  <2>3. CASE HeadsIn(received') # {}
    <3>1. received'[First(HeadsIn(received'))] \in PieceType
      BY <2>1, <2>3, FirstHead
    <3> QED
      BY <1>10, <2>1, <2>3, <3>1 DEF RecvHead, Receive, Typed, TypeOK, board
  <2> QED
    BY <2>2, <2>3
<1>11. ASSUME NEW n \in 1..Merge, RecvMid(n) PROVE Typed'
  <2>1. inq' \in Seq(PieceType) /\ received' \in [1..Merge -> PieceType] /\ 1 \in 1..Merge
    BY <1>11, ReceiveTyped DEF RecvMid
  <2> QED
    BY <1>11, <2>1, Zenon DEF RecvMid, Receive, Typed, TypeOK, board
<1>12. ASSUME NEW n \in 1..Merge, RecvTail(n) PROVE Typed'
  <2>1. inq' \in Seq(PieceType) /\ received' \in [1..Merge -> PieceType] /\ 1 \in 1..Merge
    BY <1>12, ReceiveTyped DEF RecvTail
  <2>2. green' \in {0, 1} /\ red' \in {0, 1} /\ green' + red' <= 1
    BY <1>12, SwitchTyped DEF RecvTail, Typed, TypeOK
  <2> QED
    BY <1>12, <2>1, <2>2, Zenon DEF RecvTail, Receive, Typed, TypeOK, board
<1>13. CASE RecvEnd
  BY <1>13 DEF RecvEnd, Typed, TypeOK, board
<1> QED
  BY <1>2, <1>3, <1>4, <1>5, <1>6, <1>7, <1>8, <1>9, <1>10, <1>11, <1>12, <1>13
    DEF Next, Socket

(* The loop begins well typed. *)
LEMMA TypedInit ==
    ASSUME Init
    PROVE  Typed
<1>1. \A kind \in {"head", "mid", "tail", "answer", "nul"} :
        Piece(kind, NoFrame) \in PieceType
  BY DEF Piece, PieceType
<1>2. Nul \in PieceType /\ Piece("mid", NoFrame) \in PieceType
      /\ Piece("tail", NoFrame) \in PieceType
  BY <1>1 DEF Nul
<1>3. inq \in Seq(PieceType)
  <2> DEFINE m == Piece("mid", NoFrame)
             t == Piece("tail", NoFrame)
  <2>1. inq = <<>> \/ inq = <<m, t>>
    BY DEF Init
  <2>2. m \in PieceType /\ t \in PieceType
    BY <1>2
  <2>3. \A S : \A a, b \in S : <<a, b>> \in Seq(S)
    OBVIOUS
  <2> HIDE DEF m, t
  <2>4. <<m, t>> \in Seq(PieceType)
    BY <2>2, <2>3, Zenon
  <2> QED
    BY <2>1, <2>4, EmptySeq, Zenon
<1>4. received \in [1..Merge -> PieceType]
  BY <1>2 DEF Init
<1>5. buf \in [1..3 -> PieceType]
  <2> HIDE DEF Nul
  <2>1. buf = <<Nul, Nul, Nul>>
    BY DEF Init
  <2>2. 1..3 = {1, 2, 3}
    OBVIOUS
  <2> QED
    BY <1>2, <2>1, <2>2
<1> QED
  BY <1>3, <1>4, <1>5 DEF Init, Typed, TypeOK

(* Every state of the loop is well typed, however many pieces a recv returns. *)
THEOREM TypeCorrect == Spec => []TypeOK
<1>1. Typed /\ [Next]_vars => Typed'
  <2>1. Typed /\ UNCHANGED vars => Typed'
    BY DEF Typed, TypeOK, vars, program, board
  <2> QED
    BY <2>1, TypedNext
<1>2. Typed => TypeOK
  BY DEF Typed
<1> QED
  BY <1>1, <1>2, TypedInit, PTL DEF Spec

(* The pieces that are on their way: those waiting on the socket, then those
   of the frame the board is reporting. *)
Length == Len(inq) + Len(coming)
At(k)  == IF k <= Len(inq) THEN inq[k] ELSE coming[k - Len(inq)]

(* The second and the third piece of a frame are the k-th and the next one. *)
MidAt(k, f)  == k <= Length /\ At(k) = Piece("mid", f)
TailAt(k, f) == k <= Length /\ At(k) = Piece("tail", f)

(* The board does not interrupt a frame. *)
Followed ==
    \A k \in 1..Length :
        At(k).kind = "head" => MidAt(k + 1, At(k).frame) /\ TailAt(k + 2, At(k).frame)

(* As long as the parts were cut behind one another, the rest of the frame in
   dataBuffer comes next. *)
CutInv ==
    /\ cut \in 0..2
    /\ cut > 0 => pc \in {"part2", "part3"}
    /\ pc = "part2" /\ cut > 0 =>
           cut = 1 /\ MidAt(1, buf[1].frame) /\ TailAt(2, buf[1].frame)
    /\ pc = "part3" /\ cut > 0 => buf[2] = Piece("mid", buf[1].frame)
    /\ pc = "part3" /\ cut = 2 => TailAt(1, buf[1].frame)

StreamInv ==
    /\ Typed
    /\ Followed
    /\ CutInv
    /\ ShowsLatest

-----------------------------------------------------------------------------
(* A step that moves nothing on the socket and stays in or outside the
   collecting of a frame. *)
LEMMA StreamQuiet ==
    ASSUME StreamInv, Typed', UNCHANGED <<inq, coming, buf, shown, cut, latest>>,
           pc' = pc \/ {pc, pc'} \cap {"part2", "part3"} = {}
    PROVE  StreamInv'
<1>1. Followed'
  BY DEF StreamInv, Followed, Length, At, MidAt, TailAt
<1>2. CutInv'
  BY DEF StreamInv, CutInv, Length, At, MidAt, TailAt
<1>3. ShowsLatest'
  BY DEF StreamInv, ShowsLatest
<1> QED
  BY <1>1, <1>2, <1>3 DEF StreamInv

(* What is on its way stays where it is when the board sends. *)
LEMMA StreamKept ==
    ASSUME StreamInv, Typed', UNCHANGED <<buf, shown, cut, latest, pc>>, Followed',
           Length' >= Length, \A k \in 1..Length : At(k)' = At(k)
    PROVE  StreamInv'
<1>1. Length \in Nat /\ Length' \in Nat
  BY DEF StreamInv, Typed, TypeOK, Length
<1>2. ASSUME NEW f, NEW k \in 1..2
      PROVE  (MidAt(k, f) => MidAt(k, f)') /\ (TailAt(k, f) => TailAt(k, f)')
  BY <1>1, <1>2 DEF MidAt, TailAt
<1>3. CutInv'
  <2>1. buf' = buf /\ cut' = cut /\ pc' = pc
    OBVIOUS
  <2>2. MidAt(1, buf[1].frame) => MidAt(1, buf[1].frame)'
    BY <1>2, <2>1 DEF MidAt
  <2>3. /\ TailAt(1, buf[1].frame) => TailAt(1, buf[1].frame)'
        /\ TailAt(2, buf[1].frame) => TailAt(2, buf[1].frame)'
    BY <1>2, <2>1 DEF TailAt
  <2> QED
    BY <2>1, <2>2, <2>3 DEF StreamInv, CutInv
<1> QED
  BY <1>3 DEF StreamInv, ShowsLatest

(* The board reports a frame, goes on with one or answers. *)
LEMMA StreamSend ==
    ASSUME StreamInv, Typed', ReportMore \/ Answer \/ \E f \in Frames : Report(f)
    PROVE  StreamInv'
<1>1. UNCHANGED <<buf, shown, cut, latest, pc>>
  BY DEF ReportMore, Answer, Report, program, history
<1>2. /\ inq \in Seq(PieceType) /\ coming \in Seq(PieceType)
      /\ inq' \in Seq(PieceType) /\ coming' \in Seq(PieceType)
  BY DEF StreamInv, Typed, TypeOK
<1>3. CASE ReportMore
  <2>1. coming # <<>> /\ inq' = Append(inq, Head(coming)) /\ coming' = Tail(coming)
    BY <1>3 DEF ReportMore
  <2>2. Len(inq') = Len(inq) + 1 /\ Len(coming') = Len(coming) - 1 /\ Len(coming) > 0
    BY <1>2, <2>1
  <2>3. Length' = Length
    BY <1>2, <2>2 DEF Length
  <2>4. ASSUME NEW k \in 1..Length PROVE At(k)' = At(k)
    <3>1. k <= Len(inq) => inq'[k] = inq[k]
      BY <1>2, <2>1
    <3>2. inq'[Len(inq) + 1] = coming[1]
      BY <1>2, <2>1
    <3>3. k > Len(inq) + 1 => coming'[k - (Len(inq) + 1)] = coming[k - Len(inq)]
      BY <1>2, <2>1, <2>2 DEF Length
    <3> QED
      BY <1>2, <2>2, <3>1, <3>2, <3>3 DEF At, Length
  <2>5. Followed'
    BY <2>3, <2>4 DEF StreamInv, Followed, MidAt, TailAt
  <2> QED
    BY <1>1, <1>2, <2>3, <2>4, <2>5, StreamKept DEF Length
<1>4. CASE Answer
  <2> DEFINE p == Piece("answer", NoFrame)
  <2>1. coming = <<>> /\ coming' = <<>> /\ inq' = Append(inq, p) /\ p.kind # "head"
    BY <1>4 DEF Answer, Piece
  <2> HIDE DEF p
  <2>2. PICK n \in Nat : n = Length /\ n = Len(inq) /\ Length' = n + 1
    BY <1>2, <2>1 DEF Length
  <2>3. \A k \in 1..n : At(k)' = At(k)
    BY <1>2, <2>1, <2>2 DEF At
  <2>4. At(n + 1)' = p
    BY <1>2, <2>1, <2>2 DEF At
  <2>5. Followed'
    BY <2>1, <2>2, <2>3, <2>4 DEF StreamInv, Followed, MidAt, TailAt
  <2> QED
    BY <1>1, <2>2, <2>3, <2>5, StreamKept
<1>5. ASSUME NEW f \in Frames, Report(f) PROVE StreamInv'
  <2> DEFINE h == Piece("head", f)
             m == Piece("mid", f)
             t == Piece("tail", f)
  <2>1. coming = <<>> /\ coming' = <<m, t>> /\ inq' = Append(inq, h)
    BY <1>5 DEF Report
  <2>2. h.kind = "head" /\ h.frame = f /\ m.kind # "head" /\ t.kind # "head"
    BY DEF Piece
  <2> HIDE DEF h, m, t
  <2>3. PICK n \in Nat : n = Length /\ n = Len(inq) /\ Length' = n + 3
    BY <1>2, <2>1 DEF Length
  <2>4. \A k \in 1..n : At(k)' = At(k)
    BY <1>2, <2>1, <2>3 DEF At
  <2>5. At(n + 1)' = h /\ At(n + 2)' = m /\ At(n + 3)' = t
    BY <1>2, <2>1, <2>3 DEF At
  <2>6. Followed'
    <3>1. MidAt(n + 2, f)' /\ TailAt(n + 3, f)'
      BY <2>3, <2>5 DEF MidAt, TailAt, m, t
    <3> QED
      BY <2>2, <2>3, <2>4, <2>5, <3>1 DEF StreamInv, Followed, MidAt, TailAt
  <2> QED
    BY <1>1, <2>3, <2>4, <2>6, StreamKept
<1> QED
  BY <1>3, <1>4, <1>5

(* What recv takes, the rest of the stream follows. *)
LEMMA StreamTaken ==
    ASSUME StreamInv, NEW n \in 1..Merge, Receive(n)
    PROVE  /\ Followed'
           /\ n \in 1..Len(inq) /\ n \in 1..Length /\ At(1) = inq[1] /\ At(n) = inq[n]
           /\ Length \in Nat /\ Length' = Length - n
           /\ \A k \in 1..Length - n : At(k)' = At(n + k)
           /\ received'[1] = inq[1] /\ received'[n] = inq[n]
<1>1. /\ inq \in Seq(PieceType) /\ coming \in Seq(PieceType) /\ n \in Nat /\ n >= 1
      /\ coming' = coming /\ n \in 1..Len(inq) /\ 1 \in 1..Merge
      /\ inq' = SubSeq(inq, n + 1, Len(inq))
  BY BoardAssumption DEF StreamInv, Typed, TypeOK, Receive, board
<1>2. /\ Len(inq') = Len(inq) - n
      /\ \A k \in 1..Len(inq) - n : inq'[k] = inq[n + k]
  BY <1>1
<1>3. Length \in Nat /\ Length' = Length - n /\ n \in 1..Length
  BY <1>1, <1>2 DEF Length
<1>4. ASSUME NEW k \in 1..Length - n PROVE At(k)' = At(n + k)
  BY <1>1, <1>2, <1>3 DEF At, Length
<1>5. received'[1] = inq[1] /\ received'[n] = inq[n]
  BY <1>1 DEF Receive, Overlaid
<1>6. At(1) = inq[1] /\ At(n) = inq[n]
  BY <1>1 DEF At
<1>7. Followed'
  <2> SUFFICES ASSUME NEW k \in 1..Length', At(k)'.kind = "head"
               PROVE  MidAt(k + 1, At(k).frame)' /\ TailAt(k + 2, At(k).frame)'
    BY DEF Followed
  <2>1. PICK j \in 1..Length : j = n + k /\ At(k)' = At(j)
    BY <1>3, <1>4
  <2>2. MidAt(j + 1, At(j).frame) /\ TailAt(j + 2, At(j).frame)
    BY <2>1 DEF StreamInv, Followed
  <2>3. j + 2 <= Length /\ At(j + 1)= At(k + 1)' /\ At(j + 2) = At(k + 2)'
    BY <1>1, <1>3, <1>4, <2>1, <2>2 DEF MidAt, TailAt
  <2> QED
    BY <1>1, <1>3, <2>1, <2>2, <2>3 DEF MidAt, TailAt
<1> QED
  BY <1>1, <1>3, <1>4, <1>5, <1>6, <1>7

(* The three calls of recv that collect a frame. *)
LEMMA StreamTake ==
    ASSUME StreamInv, Typed', NEW n \in 1..Merge,
           RecvHead(n) \/ RecvMid(n) \/ RecvTail(n)
    PROVE  StreamInv'
<1>1. Receive(n)
  BY DEF RecvHead, RecvMid, RecvTail
<1>2. /\ Followed'
      /\ n \in 1..Len(inq) /\ n \in 1..Length /\ At(1) = inq[1] /\ At(n) = inq[n]
      /\ Length \in Nat /\ Length' = Length - n
      /\ \A k \in 1..Length - n : At(k)' = At(n + k)
      /\ received'[1] = inq[1] /\ received'[n] = inq[n]
  BY <1>1, StreamTaken
<1>3. /\ n \in Nat /\ n >= 1 /\ cut \in 0..2
      /\ buf \in [1..3 -> PieceType] /\ received' \in [1..Merge -> PieceType]
  BY DEF StreamInv, Typed, TypeOK, CutInv
<1>4. CASE RecvHead(n)
  <2>1. pc = "poll" /\ cut = 0 /\ UNCHANGED <<shown, latest>>
    BY <1>3, <1>4 DEF RecvHead, CutBehindHead, history, StreamInv, CutInv
  <2>2. CASE HeadsIn(received') = {}
    <3>1. pc' = "poll" /\ cut' = 0
      BY <1>4, <2>1, <2>2 DEF RecvHead, history
    <3> QED
      BY <1>2, <2>1, <3>1 DEF StreamInv, CutInv, ShowsLatest
  <2>3. CASE HeadsIn(received') # {}
    <3>1. PICK p \in 1..Merge : /\ p = First(HeadsIn(received'))
                                /\ received'[p].kind = "head"
      BY <1>3, <2>3, FirstHead
    <3>2. /\ pc' = "part2" /\ buf'[1] = received'[p]
          /\ cut' = IF p = n THEN 1 ELSE 0
      BY <1>3, <1>4, <2>3, <3>1 DEF RecvHead, CutBehindHead
    <3>3. CASE p = n
      <4>1. buf'[1] = At(n) /\ At(n).kind = "head"
        BY <1>2, <3>1, <3>2, <3>3
      <4>2. MidAt(n + 1, At(n).frame) /\ TailAt(n + 2, At(n).frame)
        BY <1>2, <4>1 DEF StreamInv, Followed
      <4>3. n + 2 <= Length /\ At(1)' = At(n + 1) /\ At(2)' = At(n + 2)
        BY <1>2, <1>3, <4>2 DEF TailAt
      <4>4. MidAt(1, buf[1].frame)' /\ TailAt(2, buf[1].frame)'
        BY <1>2, <1>3, <4>1, <4>2, <4>3 DEF MidAt, TailAt
      <4> QED
        BY <1>2, <2>1, <3>2, <3>3, <4>4 DEF StreamInv, CutInv, ShowsLatest
    <3>4. CASE p # n
      BY <1>2, <2>1, <3>2, <3>4 DEF StreamInv, CutInv, ShowsLatest
    <3> QED
      BY <3>3, <3>4
  <2> QED
    BY <2>2, <2>3
<1>5. CASE RecvMid(n)
  <2>1. /\ pc = "part2" /\ pc' = "part3" /\ UNCHANGED <<shown, latest>>
        /\ cut' = (IF cut = 1 /\ n = 1 THEN 2 ELSE cut)
        /\ buf' = [buf EXCEPT ![2] = received'[1]]
    BY <1>5 DEF RecvMid, CutBehindMid
  <2>2. buf'[1] = buf[1] /\ buf'[2] = At(1)
    BY <1>2, <1>3, <2>1
  <2>3. CASE cut = 0
    BY <1>2, <2>1, <2>3 DEF StreamInv, CutInv, ShowsLatest
  <2>4. CASE cut # 0
    <3>1. cut = 1 /\ MidAt(1, buf[1].frame) /\ TailAt(2, buf[1].frame)
      BY <1>3, <2>1, <2>4 DEF StreamInv, CutInv
    <3>2. buf'[2] = Piece("mid", buf'[1].frame)
      BY <2>2, <3>1 DEF MidAt
    <3>3. n = 1 => TailAt(1, buf[1].frame)'
      BY <1>2, <2>2, <3>1 DEF TailAt
    <3>4. cut' = 1 \/ (cut' = 2 /\ n = 1)
      BY <2>1, <3>1
    <3> QED
      BY <1>2, <2>1, <3>2, <3>3, <3>4 DEF StreamInv, CutInv, ShowsLatest
  <2> QED
    BY <2>3, <2>4
<1>6. CASE RecvTail(n)
  <2>1. /\ pc = "part3" /\ pc' = "poll" /\ cut' = 0
        /\ buf' = [buf EXCEPT ![3] = received'[1]]
    BY <1>6 DEF RecvTail, Collected
  <2>2. PICK p \in PieceType, q \in PieceType : p = buf[1] /\ q = buf[2]
    BY <1>3
  <2>3. CASE ~p.frame.mine
    <3>1. UNCHANGED <<shown, latest>>
      BY <1>6, <2>2, <2>3 DEF RecvTail, Collected
    <3> QED
      BY <1>2, <2>1, <3>1 DEF StreamInv, CutInv, ShowsLatest
  <2>4. CASE p.frame.mine /\ cut # 2
    <3>1. latest' = Mixed
      BY <1>6, <2>2, <2>4 DEF RecvTail, Collected
    <3> QED
      BY <1>2, <2>1, <3>1 DEF StreamInv, CutInv, ShowsLatest
  <2>5. CASE p.frame.mine /\ cut = 2
    <3>1. latest' = p.frame
      BY <1>6, <2>2, <2>5 DEF RecvTail, Collected
    <3>2. q = Piece("mid", p.frame) /\ TailAt(1, p.frame)
      BY <2>1, <2>2, <2>5 DEF StreamInv, CutInv
    <3>3. PICK h \in PieceType : h = received'[1] /\ h = Piece("tail", p.frame)
      <4>1. received'[1] = Piece("tail", p.frame)
        BY <1>2, <3>2 DEF TailAt
      <4>2. 1 \in 1..Merge
        BY BoardAssumption
      <4> QED
        BY <1>3, <4>1, <4>2
    <3>4. buf'[3] = h
      BY <1>3, <2>1, <3>3
    <3>5. p.frame \in [mine : BOOLEAN, speed : 0..255, rest : Nat \ {0}]
      BY <2>2, <2>5, BoardAssumption DEF PieceType, NoFrame
    <3>6. SpeedIn(q) = p.frame.speed /\ RestIn(h) = p.frame.rest
      BY <3>2, <3>3 DEF SpeedIn, RestIn, Piece
    <3>7. shown' = [mine |-> TRUE, speed |-> SpeedIn(q), rest |-> RestIn(h)]
      BY <1>6, <2>2, <2>5, <3>4, Zenon DEF RecvTail
    <3>8. p.frame.mine = TRUE
      BY <2>5, <3>5
    <3>9. shown' = p.frame
      BY <3>5, <3>6, <3>7, <3>8, Zenon
    <3> QED
      BY <1>2, <2>1, <3>1, <3>9 DEF StreamInv, CutInv, ShowsLatest
  <2> QED
    BY <2>3, <2>4, <2>5
<1> QED
  BY <1>4, <1>5, <1>6

(* The stream as it is when the program connects. *)
LEMMA StreamInit ==
    ASSUME Init
    PROVE  StreamInv
<1>1. Typed
  BY TypedInit
<1>2. coming = <<>> /\ pc = "poll" /\ shown = latest /\ cut = 0
  BY DEF Init
<1>3. Followed
  <2>1. CASE inq = <<>>
    BY <1>2, <2>1 DEF Followed, Length
  <2>2. CASE inq = <<Piece("mid", NoFrame), Piece("tail", NoFrame)>>
    <3>1. /\ Len(inq) = 2 /\ inq[1].kind = "mid" /\ inq[2].kind = "tail"
      BY <2>2 DEF Piece
    <3>2. \A k \in 1..2 : k = 1 \/ k = 2
      OBVIOUS
    <3> QED
      BY <1>2, <3>1, <3>2 DEF Followed, Length, At
  <2> QED
    BY <2>1, <2>2 DEF Init
<1> QED
  BY <1>1, <1>2, <1>3 DEF StreamInv, CutInv, ShowsLatest

(* Every step keeps the stream and the reading right. *)
LEMMA StreamNext ==
    ASSUME StreamInv, Next
    PROVE  StreamInv'
<1>1. Typed'
  BY TypedNext DEF StreamInv
<1>2. CASE ReportMore \/ Answer \/ \E f \in Frames : Report(f)
  BY <1>1, <1>2, StreamSend
<1>3. CASE Close \/ Obey \/ \E k \in Keys : Press(k)
  <2>1. UNCHANGED <<inq, coming, buf, shown, cut, latest, pc>>
    BY <1>3 DEF Close, Obey, Press, program, board, history
  <2> QED
    BY <1>1, <2>1, StreamQuiet
<1>4. CASE Terminal \/ TerminalEnds
  <2>1. UNCHANGED <<inq, coming, buf, shown, cut, latest>>
    BY <1>4, Zenon
      DEF Terminal, ReadTerminal, ReadLinOption, ReadBaudrate, TerminalEnds, board, history
  <2>2. /\ pc = "poll" \/ pc = "lin" \/ pc = "baud"
        /\ pc' = pc \/ pc' = "poll" \/ pc' = "lin" \/ pc' = "baud" \/ pc' = "exit"
    BY <1>4, Zenon DEF Terminal, ReadTerminal, ReadLinOption, ReadBaudrate, TerminalEnds
  <2>3. {pc, pc'} \cap {"part2", "part3"} = {}
    BY <2>2
  <2> QED
    BY <1>1, <2>1, <2>3, StreamQuiet
<1>5. ASSUME NEW n \in 1..Merge, RecvHead(n) \/ RecvMid(n) \/ RecvTail(n) PROVE StreamInv'
  BY <1>1, <1>5, StreamTake
<1>6. CASE RecvEnd
  <2>1. /\ UNCHANGED <<inq, coming, shown, latest>> /\ cut' = 0
        /\ pc' = "poll" \/ pc' = "exit"
    BY <1>6 DEF RecvEnd, board
  <2>2. Followed'
    BY <2>1 DEF StreamInv, Followed, Length, At, MidAt, TailAt
  <2> QED
    BY <1>1, <2>1, <2>2 DEF StreamInv, CutInv, ShowsLatest
<1> QED
  BY <1>2, <1>3, <1>4, <1>5, <1>6 DEF Next, Socket

(* StreamInv is inductive. *)
LEMMA StreamStep == StreamInv /\ [Next]_vars => StreamInv'
<1>1. ASSUME StreamInv, UNCHANGED vars PROVE StreamInv'
  <2>1. UNCHANGED <<inq, coming, buf, shown, cut, latest, pc>>
    BY <1>1, Zenon DEF vars, program, board
  <2>2. Typed'
    BY <1>1 DEF StreamInv, Typed, TypeOK, vars, program, board
  <2> QED
    BY <1>1, <2>1, <2>2, StreamQuiet
<1> QED
  BY <1>1, StreamNext

-----------------------------------------------------------------------------
(* However many pieces recv returns: lcdScreen shows the last frame of ours, if
   the recv of its head and that of its second part ended with them, whatever
   the program has read, skipped or mixed up before. *)
THEOREM AlwaysShowsLatest == Spec => []ShowsLatest
<1>1. StreamInv => ShowsLatest
  BY DEF StreamInv
<1> QED
  BY <1>1, StreamInit, StreamStep, PTL DEF Spec

(* However many pieces recv returns: behind a head that came at the end of them
   the program finds the second part of the same frame. *)
THEOREM SecondPartAlwaysFollows == Spec => []SecondPartFollows
<1>1. StreamInv => SecondPartFollows
  BY DEF StreamInv, CutInv, SecondPartFollows
<1> QED
  BY <1>1, StreamInit, StreamStep, PTL DEF Spec
=============================================================================
