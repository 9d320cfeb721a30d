---------------------------- MODULE LcdBusProofs ----------------------------
(***************************************************************************)
(* lcdInit's sequence brings driver and display together from any state in *)
(* which the program may have been killed, and they stay together: for any *)
(* commands that do not set the bus width to 8 and any data.               *)
(***************************************************************************)
EXTENDS LcdBus, SequenceTheorems, TLAPS

StrobeType == [rs : {0, 1}, half : 0..15]

(* A function on 1..n is a sequence of length n. *)
LEMMA FunctionIsSeq ==
    ASSUME NEW S, NEW n \in Nat, NEW f \in [1..n -> S]
    PROVE  f \in Seq(S) /\ Len(f) = n
<1>1. f \in Seq(S)
  BY SeqDef, Zenon
<1>2. Len(f) \in Nat /\ 1..Len(f) = 1..n
  BY <1>1, LenProperties
<1>3. Len(f) = n
  BY <1>2
<1> QED
  BY <1>1, <1>3

(* The strobes of a call, one by one. *)
LEMMA StrobesShift ==
    ASSUME NEW rs \in {0, 1}, NEW halves \in Seq(0..15)
    PROVE  /\ Strobes(rs, halves) \in Seq(StrobeType)
           /\ Len(Strobes(rs, halves)) = Len(halves)
           /\ halves # <<>> =>
                /\ Head(Strobes(rs, halves)) = [rs |-> rs, half |-> Head(halves)]
                /\ Tail(Strobes(rs, halves)) = Strobes(rs, Tail(halves))
<1> DEFINE One(h) == [rs |-> rs, half |-> h]
<1>1. ASSUME NEW h \in Seq(0..15)
      PROVE  /\ Len(h) \in Nat
             /\ Strobes(rs, h) \in Seq(StrobeType) /\ Len(Strobes(rs, h)) = Len(h)
             /\ \A k \in 1..Len(h) : Strobes(rs, h)[k] = One(h[k])
  <2>1. Len(h) \in Nat /\ \A k \in 1..Len(h) : h[k] \in 0..15
    BY ElementOfSeq, LenProperties
  <2>2. Strobes(rs, h) \in [1..Len(h) -> StrobeType]
    BY <2>1 DEF Strobes, StrobeType
  <2>3. \A k \in 1..Len(h) : Strobes(rs, h)[k] = One(h[k])
    BY <2>1 DEF Strobes
  <2> QED
    BY <2>1, <2>2, <2>3, FunctionIsSeq
<1>2. ASSUME halves # <<>>
      PROVE  /\ Head(Strobes(rs, halves)) = One(Head(halves))
             /\ Tail(Strobes(rs, halves)) = Strobes(rs, Tail(halves))
  <2> HIDE DEF One
  <2> DEFINE s == Strobes(rs, halves)
             t == Strobes(rs, Tail(halves))
  <2>1. /\ Len(halves) \in Nat \ {0}
        /\ Head(halves) = halves[1]
        /\ Tail(halves) \in Seq(0..15) /\ Len(Tail(halves)) = Len(halves) - 1
        /\ \A k \in 1..Len(halves) - 1 : Tail(halves)[k] = halves[k + 1]
    BY <1>2, HeadTailProperties
  <2>2. /\ s \in Seq(StrobeType) /\ Len(s) = Len(halves)
        /\ \A k \in 1..Len(halves) : s[k] = One(halves[k])
        /\ t \in Seq(StrobeType) /\ Len(t) = Len(halves) - 1
        /\ \A k \in 1..Len(halves) - 1 : t[k] = One(Tail(halves)[k])
    BY <1>1, <2>1, Zenon
  <2> HIDE DEF s, t
  <2>3. /\ s # <<>> /\ Head(s) = s[1]
        /\ Tail(s) \in Seq(StrobeType) /\ Len(Tail(s)) = Len(halves) - 1
        /\ \A k \in 1..Len(halves) - 1 : Tail(s)[k] = s[k + 1]
    BY <2>1, <2>2, HeadTailProperties
  <2>4. \A k \in 1..Len(halves) - 1 : Tail(s)[k] = t[k]
    BY <2>1, <2>2, <2>3
  <2>5. Tail(s) = t
    BY <2>2, <2>3, <2>4, SeqEqual
  <2>6. Head(s) = One(Head(halves))
    BY <2>1, <2>2, <2>3
  <2> QED
    BY <2>5, <2>6 DEF s, t
<1> QED
  BY <1>1, <1>2

-----------------------------------------------------------------------------
(* How far the display is behind during lcdInit's sequence, and where it is
   in a byte afterwards.  The first strobe ends whatever byte was begun, and
   finds at worst a display that takes it for a high half; the next two make
   a wake-up command in every case. *)
Together ==
    /\ TypeOK
    /\ mode = 8 => high = None
    /\ bits = 8 => sent = Nothing
    /\ bits = 8 =>
         \/ todo = ResetSequence
         \/ todo = Strobes(0, <<3, 3, 2>>) /\ high \in {None, 3}
         \/ todo = Strobes(0, <<3, 2>>) /\ (mode = 8 \/ high = 3)
         \/ todo = Strobes(0, <<2>>) /\ mode = 8
    /\ bits = 4 =>
         /\ mode = 4
         /\ sent.rs = 0 => sent.byte \div 16 # 3
         /\ \/ todo = <<>> /\ high = None
            \/ todo = SendDataCmd(sent.rs, sent.byte) /\ high = None
            \/ todo = Strobes(sent.rs, <<sent.byte % 16>>) /\ high = sent.byte \div 16

(* The strobes that are still to come after each one. *)
LEMMA LastStrobe ==
    ASSUME NEW rs \in {0, 1}, NEW a \in 0..15
    PROVE  /\ Strobes(rs, <<a>>) \in Seq(StrobeType) /\ Len(Strobes(rs, <<a>>)) = 1
           /\ Strobes(rs, <<a>>) # <<>>
           /\ Head(Strobes(rs, <<a>>)) = [rs |-> rs, half |-> a]
           /\ Tail(Strobes(rs, <<a>>)) = <<>>
<1>1. /\ <<a>> \in Seq(0..15) /\ <<a>> # <<>> /\ Len(<<a>>) = 1
      /\ Head(<<a>>) = a /\ Tail(<<a>>) = <<>>
  OBVIOUS
<1>2. /\ Strobes(rs, <<a>>) \in Seq(StrobeType) /\ Len(Strobes(rs, <<a>>)) = 1
      /\ Head(Strobes(rs, <<a>>)) = [rs |-> rs, half |-> a]
      /\ Tail(Strobes(rs, <<a>>)) = Strobes(rs, <<>>)
  BY <1>1, StrobesShift, Zenon
<1>3. Strobes(rs, <<>>) = <<>>
  <2>1. <<>> \in Seq(0..15) /\ Len(<<>>) = 0
    OBVIOUS
  <2>2. Strobes(rs, <<>>) \in Seq(StrobeType) /\ Len(Strobes(rs, <<>>)) = 0
    BY <2>1, StrobesShift, Zenon
  <2> QED
    BY <2>2, EmptySeq
<1>4. Strobes(rs, <<a>>) # <<>>
  BY <1>2, EmptySeq
<1> QED
  BY <1>2, <1>3, <1>4, Zenon

(* A byte goes out as two strobes, the high half first. *)
LEMMA TwoStrobes ==
    ASSUME NEW rs \in {0, 1}, NEW a \in 0..15, NEW b \in 0..15
    PROVE  /\ Strobes(rs, <<a, b>>) \in Seq(StrobeType) /\ Len(Strobes(rs, <<a, b>>)) = 2
           /\ Strobes(rs, <<a, b>>) # <<>>
           /\ Head(Strobes(rs, <<a, b>>)) = [rs |-> rs, half |-> a]
           /\ Tail(Strobes(rs, <<a, b>>)) = Strobes(rs, <<b>>)
<1>1. /\ <<a, b>> \in Seq(0..15) /\ <<a, b>> # <<>> /\ Len(<<a, b>>) = 2
      /\ Head(<<a, b>>) = a /\ Tail(<<a, b>>) = <<b>>
  OBVIOUS
<1>2. /\ Strobes(rs, <<a, b>>) \in Seq(StrobeType) /\ Len(Strobes(rs, <<a, b>>)) = 2
      /\ Head(Strobes(rs, <<a, b>>)) = [rs |-> rs, half |-> a]
      /\ Tail(Strobes(rs, <<a, b>>)) = Strobes(rs, <<b>>)
  BY <1>1, StrobesShift, Zenon
<1>3. Strobes(rs, <<a, b>>) # <<>>
  BY <1>2, EmptySeq
<1> QED
  BY <1>2, <1>3, Zenon

(* The sequence of lcdInit is four strobes, 3, 3, 3 and 2. *)
LEMMA ResetStrobes ==
    /\ ResetSequence \in Seq(StrobeType) /\ Len(ResetSequence) = 4
    /\ ResetSequence # <<>>
    /\ Head(ResetSequence) = [rs |-> 0, half |-> 3]
    /\ Tail(ResetSequence) = Strobes(0, <<3, 3, 2>>)
    /\ Strobes(0, <<3, 3, 2>>) \in Seq(StrobeType) /\ Len(Strobes(0, <<3, 3, 2>>)) = 3
    /\ Strobes(0, <<3, 3, 2>>) # <<>>
    /\ Head(Strobes(0, <<3, 3, 2>>)) = [rs |-> 0, half |-> 3]
    /\ Tail(Strobes(0, <<3, 3, 2>>)) = Strobes(0, <<3, 2>>)
<1>1. /\ <<3, 3, 3, 2>> \in Seq(0..15) /\ <<3, 3, 2>> \in Seq(0..15)
      /\ Len(<<3, 3, 3, 2>>) = 4 /\ Len(<<3, 3, 2>>) = 3
      /\ <<3, 3, 3, 2>> # <<>> /\ <<3, 3, 2>> # <<>>
      /\ Head(<<3, 3, 3, 2>>) = 3 /\ Head(<<3, 3, 2>>) = 3
      /\ Tail(<<3, 3, 3, 2>>) = <<3, 3, 2>> /\ Tail(<<3, 3, 2>>) = <<3, 2>>
  OBVIOUS
<1>2. /\ ResetSequence \in Seq(StrobeType) /\ Len(ResetSequence) = 4
      /\ Head(ResetSequence) = [rs |-> 0, half |-> 3]
      /\ Tail(ResetSequence) = Strobes(0, <<3, 3, 2>>)
  BY <1>1, StrobesShift, Zenon DEF ResetSequence
<1>3. /\ Strobes(0, <<3, 3, 2>>) \in Seq(StrobeType) /\ Len(Strobes(0, <<3, 3, 2>>)) = 3
      /\ Head(Strobes(0, <<3, 3, 2>>)) = [rs |-> 0, half |-> 3]
      /\ Tail(Strobes(0, <<3, 3, 2>>)) = Strobes(0, <<3, 2>>)
  BY <1>1, StrobesShift, Zenon
<1>4. ResetSequence # <<>> /\ Strobes(0, <<3, 3, 2>>) # <<>>
  BY <1>2, <1>3, EmptySeq
<1> QED
  BY <1>2, <1>3, <1>4, Zenon

(* What one strobe does to the display. *)
Does(rs, half) ==
    /\ mode' \in {4, 8} /\ high' \in 0..16
    /\ got' \in [rs : {0, 1}, byte : 0..255]
    /\ mode = 8 => high' = None /\ mode' = IF rs = 0 /\ half = 2 THEN 4 ELSE 8
    /\ mode = 4 /\ high = None => high' = half /\ mode' = 4
    /\ mode = 4 /\ high # None =>
         /\ high' = None
         /\ mode' = IF rs = 0 /\ high = 3 THEN 8 ELSE 4
         /\ got' = [rs |-> rs, byte |-> high * 16 + half]

(* Latch does what Does says, whatever the unconnected lines carry. *)
LEMMA LatchDoes ==
    ASSUME TypeOK, NEW rs \in {0, 1}, NEW half \in 0..15,
           Latch([rs |-> rs, half |-> half])
    PROVE  Does(rs, half)
<1> USE DEF Does
<1>1. CASE mode = 8 /\ \E low \in {0, 15} : Take(rs, half * 16 + low)
  <2>1. PICK low \in {0, 15} : Take(rs, half * 16 + low)
    BY <1>1
  <2>2. half * 16 + low \in 0..255 /\ (half * 16 + low) \div 16 = half
    OBVIOUS
  <2> QED
    BY <1>1, <2>1, <2>2 DEF Take, Width, None
<1>2. CASE mode = 4 /\ high = None /\ high' = half /\ UNCHANGED <<mode, got>>
  BY <1>2 DEF TypeOK, None
<1>3. CASE mode = 4 /\ high # None /\ Take(rs, high * 16 + half)
  <2>1. high \in 0..15
    BY <1>3 DEF TypeOK, None
  <2>2. high * 16 + half \in 0..255 /\ (high * 16 + half) \div 16 = high
    BY <2>1
  <2> QED
    BY <1>3, <2>1, <2>2 DEF Take, Width, None
<1> QED
  BY <1>1, <1>2, <1>3 DEF Latch

-----------------------------------------------------------------------------
(* Driver and display begin together. *)
LEMMA TogetherInit == Init => Together
<1>1. Nothing \in [rs : {0, 1}, byte : 0..255]
  BY DEF Nothing
<1> QED
  BY <1>1, ResetStrobes DEF Init, Together, TypeOK, StrobeType, None

(* A strobe of the sequence, or of a byte. *)
LEMMA StrobeTogether ==
    ASSUME Together, Strobe
    PROVE  Together' /\ (bits = 4 /\ todo' = <<>> => got' = sent)
<1> USE DEF None
<1>0. /\ TypeOK /\ bits \in {4, 8} /\ mode \in {4, 8} /\ high \in 0..16
      /\ sent \in [rs : {0, 1}, byte : 0..255]
      /\ mode = 8 => high = None
      /\ bits = 8 => sent = Nothing
  BY DEF Together, TypeOK
<1>1. sent' = sent /\ todo' = Tail(todo) /\ Latch(Head(todo))
      /\ bits' = IF todo' = <<>> THEN 4 ELSE bits
  BY DEF Strobe
<1>2. ASSUME NEW rs \in {0, 1}, NEW half \in 0..15, Head(todo) = [rs |-> rs, half |-> half]
      PROVE  Does(rs, half)
  BY <1>0, <1>1, <1>2, LatchDoes, Zenon
<1>a. 0 \in {0, 1} /\ 2 \in 0..15 /\ 3 \in 0..15
  OBVIOUS
<1>b. <<>> \in Seq(StrobeType) /\ Len(<<>>) = 0
  OBVIOUS
<1>3. CASE bits = 8 /\ todo = ResetSequence
  <2>1. Does(0, 3) /\ todo' = Strobes(0, <<3, 3, 2>>) /\ todo' # <<>>
    BY <1>1, <1>2, <1>3, <1>a, ResetStrobes, Zenon
  <2>2. /\ mode' \in {4, 8} /\ high' \in {None, 3} /\ (mode' = 8 => high' = None)
        /\ got' \in [rs : {0, 1}, byte : 0..255]
    BY <1>0, <1>3, <2>1 DEF Does
  <2>3. bits' = 8
    BY <1>1, <1>3, <2>1
  <2> QED
    BY <1>0, <1>1, <1>3, <2>1, <2>2, <2>3, ResetStrobes DEF Together, TypeOK, StrobeType
<1>4. CASE bits = 8 /\ todo = Strobes(0, <<3, 3, 2>>) /\ high \in {None, 3}
  <2>1. Does(0, 3) /\ todo' = Strobes(0, <<3, 2>>)
    BY <1>1, <1>2, <1>4, <1>a, ResetStrobes, Zenon
  <2>2. todo' \in Seq(StrobeType) /\ Len(todo') = 2 /\ todo' # <<>>
    BY <1>a, <2>1, TwoStrobes, Zenon
  <2>3. /\ mode' \in {4, 8} /\ high' \in {None, 3} /\ (mode' = 8 \/ high' = 3)
        /\ got' \in [rs : {0, 1}, byte : 0..255]
        /\ mode' = 8 => high' = None
    BY <1>0, <1>4, <2>1 DEF Does
  <2>4. bits' = 8
    BY <1>1, <1>4, <2>2
  <2> QED
    BY <1>0, <1>1, <1>4, <2>1, <2>2, <2>3, <2>4 DEF Together, TypeOK, StrobeType
<1>5. CASE bits = 8 /\ todo = Strobes(0, <<3, 2>>) /\ (mode = 8 \/ high = 3)
  <2>1. Head(todo) = [rs |-> 0, half |-> 3] /\ todo' = Strobes(0, <<2>>)
    BY <1>1, <1>5, <1>a, TwoStrobes, Zenon
  <2>2. todo' \in Seq(StrobeType) /\ Len(todo') = 1 /\ todo' # <<>>
    BY <1>a, <2>1, LastStrobe, Zenon
  <2>3. Does(0, 3)
    BY <1>2, <1>a, <2>1, Zenon
  <2>4. mode' = 8 /\ high' = None /\ got' \in [rs : {0, 1}, byte : 0..255]
    BY <1>0, <1>5, <2>3 DEF Does
  <2>5. bits' = 8
    BY <1>1, <1>5, <2>2
  <2> QED
    BY <1>0, <1>1, <1>5, <2>1, <2>2, <2>4, <2>5 DEF Together, TypeOK, StrobeType
<1>6. CASE bits = 8 /\ todo = Strobes(0, <<2>>) /\ mode = 8
  <2>1. Head(todo) = [rs |-> 0, half |-> 2] /\ todo' = <<>>
    BY <1>1, <1>6, <1>a, LastStrobe, Zenon
  <2>2. Does(0, 2)
    BY <1>2, <1>a, <2>1, Zenon
  <2>3. mode' = 4 /\ high' = None /\ got' \in [rs : {0, 1}, byte : 0..255]
    BY <1>6, <2>2 DEF Does
  <2>4. sent.rs = 0 => sent.byte \div 16 # 3
    BY <1>0, <1>6 DEF Nothing
  <2>5. todo' \in Seq(StrobeType) /\ Len(todo') = 0 /\ bits' = 4
    BY <1>1, <1>b, <2>1, Zenon
  <2> QED
    BY <1>0, <1>1, <1>6, <2>1, <2>3, <2>4, <2>5 DEF Together, TypeOK, StrobeType
<1>7. PICK rs \in {0, 1}, hi \in 0..15, lo \in 0..15 :
        /\ sent.rs = rs /\ sent.byte \div 16 = hi /\ sent.byte % 16 = lo
        /\ sent = [rs |-> rs, byte |-> hi * 16 + lo]
  <2>1. sent.rs \in {0, 1} /\ sent.byte \in 0..255
        /\ sent = [rs |-> sent.rs, byte |-> sent.byte]
    BY <1>0
  <2>2. \A b \in 0..255 : /\ b \div 16 \in 0..15 /\ b % 16 \in 0..15
                          /\ (b \div 16) * 16 + (b % 16) = b
    OBVIOUS
  <2> QED
    BY <2>1, <2>2, Zenon
<1>8. CASE bits = 4 /\ todo = SendDataCmd(sent.rs, sent.byte) /\ high = None
  <2>1. Head(todo) = [rs |-> rs, half |-> hi] /\ todo' = Strobes(rs, <<lo>>)
    BY <1>1, <1>7, <1>8, TwoStrobes, Zenon DEF SendDataCmd
  <2>2. todo' \in Seq(StrobeType) /\ Len(todo') = 1 /\ todo' # <<>>
    BY <2>1, LastStrobe, Zenon
  <2>3. mode = 4 /\ (sent.rs = 0 => hi # 3)
    BY <1>7, <1>8 DEF Together
  <2>4. Does(rs, hi)
    BY <1>2, <2>1, Zenon
  <2>5. mode' = 4 /\ high' = hi /\ got' \in [rs : {0, 1}, byte : 0..255]
    BY <1>8, <2>3, <2>4 DEF Does
  <2>6. bits' = 4
    BY <1>1, <1>8, <2>2
  <2>7. todo' = Strobes(sent'.rs, <<sent'.byte % 16>>) /\ high' = sent'.byte \div 16
    BY <1>1, <1>7, <2>1, <2>5, Zenon
  <2>8. TypeOK'
    BY <1>0, <1>1, <2>2, <2>5, <2>6 DEF TypeOK, StrobeType
  <2>9. mode' # 8 /\ bits' # 8 /\ (sent'.rs = 0 => sent'.byte \div 16 # 3)
    BY <1>1, <1>7, <2>3, <2>5, <2>6
  <2> QED
    BY <2>2, <2>5, <2>6, <2>7, <2>8, <2>9, Zenon DEF Together
<1>9. CASE bits = 4 /\ todo = Strobes(sent.rs, <<sent.byte % 16>>)
           /\ high = sent.byte \div 16
  <2>1. Head(todo) = [rs |-> rs, half |-> lo] /\ todo' = <<>>
    BY <1>1, <1>7, <1>9, LastStrobe, Zenon
  <2>2. mode = 4 /\ (sent.rs = 0 => hi # 3) /\ high = hi
    BY <1>7, <1>9 DEF Together
  <2>3. Does(rs, lo)
    BY <1>2, <2>1, Zenon
  <2>4. /\ mode' = 4 /\ high' = None
        /\ got' \in [rs : {0, 1}, byte : 0..255]
        /\ got' = [rs |-> rs, byte |-> hi * 16 + lo]
    BY <1>7, <2>2, <2>3 DEF Does
  <2>5. got' = sent
    BY <1>7, <2>4, Zenon
  <2>6. bits' = 4 /\ todo' \in Seq(StrobeType) /\ Len(todo') = 0
    BY <1>1, <1>b, <2>1, Zenon
  <2> QED
    BY <1>0, <1>1, <1>7, <2>1, <2>2, <2>4, <2>5, <2>6 DEF Together, TypeOK, StrobeType
<1>10. todo # <<>>
  BY DEF Strobe
<1> QED
  BY <1>0, <1>3, <1>4, <1>5, <1>6, <1>8, <1>9, <1>10 DEF Together

(* No step parts them: a strobe, a new byte, or a restart at any point. *)
LEMMA TogetherNext == Together /\ [Next]_vars => Together'
<1> SUFFICES ASSUME Together, [Next]_vars PROVE Together'
  OBVIOUS
<1>1. CASE Strobe
  BY <1>1, StrobeTogether
<1>2. ASSUME NEW rs \in {0, 1}, NEW b \in 0..255, rs = 0 => b \div 16 # 3, Send(rs, b)
      PROVE  Together'
  <2>1. b \div 16 \in 0..15 /\ b % 16 \in 0..15
    OBVIOUS
  <2>2. SendDataCmd(rs, b) \in Seq(StrobeType) /\ Len(SendDataCmd(rs, b)) = 2
    BY <2>1, TwoStrobes, Zenon DEF SendDataCmd
  <2>3. sent' \in [rs : {0, 1}, byte : 0..255] /\ sent'.rs = rs /\ sent'.byte = b
    BY <1>2 DEF Send
  <2>4. high = None
    <3>1. sent.rs \in {0, 1} /\ sent.byte \in 0..255
      BY DEF Together, TypeOK
    <3>2. sent.byte \div 16 \in 0..15 /\ sent.byte % 16 \in 0..15
      BY <3>1
    <3>3. SendDataCmd(sent.rs, sent.byte) # <<>> /\ Strobes(sent.rs, <<sent.byte % 16>>) # <<>>
      BY <3>1, <3>2, LastStrobe, TwoStrobes, Zenon DEF SendDataCmd
    <3> QED
      BY <1>2, <3>3 DEF Send, Together
  <2> QED
    BY <1>2, <2>2, <2>3, <2>4 DEF Send, Together, TypeOK, StrobeType
<1>3. ASSUME NEW b \in Commands, Send(0, b) PROVE Together'
  <2>1. b \in 0..255 /\ b \div 16 # 3
    BY BusAssumption
  <2> QED
    BY <1>2, <1>3, <2>1
<1>4. ASSUME NEW b \in Texts, Send(1, b) PROVE Together'
  BY <1>2, <1>4, BusAssumption
<1>5. CASE Restart
  <2>1. Nothing \in [rs : {0, 1}, byte : 0..255]
    BY DEF Nothing
  <2> QED
    BY <1>5, <2>1, ResetStrobes DEF Restart, Together, TypeOK, StrobeType
<1>6. CASE UNCHANGED vars
  BY <1>6 DEF vars, Together, TypeOK
<1> QED
  BY <1>1, <1>3, <1>4, <1>5, <1>6 DEF Next

-----------------------------------------------------------------------------
(* Together, the display takes the halves as they were meant. *)
LEMMA TogetherInSync == Together => InSync
<1> SUFFICES ASSUME Together, bits = 4
             PROVE  /\ mode = 4
                    /\ Len(todo) \in {0, 2} => high = None
                    /\ Len(todo) = 1 => high = sent.byte \div 16
  BY DEF InSync
<1>1. sent.rs \in {0, 1} /\ sent.byte \in 0..255
  BY DEF Together, TypeOK
<1>2. sent.byte \div 16 \in 0..15 /\ sent.byte % 16 \in 0..15
  BY <1>1
<1>3. Len(SendDataCmd(sent.rs, sent.byte)) = 2
  BY <1>1, <1>2, TwoStrobes, Zenon DEF SendDataCmd
<1>4. Len(Strobes(sent.rs, <<sent.byte % 16>>)) = 1
  <2>1. PICK lo \in 0..15 : lo = sent.byte % 16
    BY <1>2
  <2>2. sent.rs \in {0, 1}
    BY <1>1
  <2>3. Len(Strobes(sent.rs, <<lo>>)) = 1
    BY <2>2, LastStrobe, Zenon
  <2> QED
    BY <2>1, <2>3
<1>5. /\ mode = 4
      /\ \/ todo = <<>> /\ high = None
         \/ Len(todo) = 2 /\ high = None
         \/ Len(todo) = 1 /\ high = sent.byte \div 16
  BY <1>3, <1>4, Zenon DEF Together
<1> QED
  BY <1>5

(* Whatever the program was doing when it was killed, after lcdInit's sequence
   display and driver are at the same half of a byte and stay so. *)
THEOREM StaysInSync == Spec => [](TypeOK /\ InSync)
<1>1. Together => TypeOK /\ InSync
  BY TogetherInSync DEF Together
<1> QED
  BY <1>1, TogetherInit, TogetherNext, PTL DEF Spec

(* The display takes every byte that sendDataCmd was given after lcdInit's
   sequence, as it was given. *)
THEOREM EveryByteArrives == Spec => BytesArrive
<1>1. Together /\ [Next]_vars => [Strobe /\ bits = 4 /\ todo' = <<>> => got' = sent]_vars
  BY StrobeTogether
<1> QED
  BY <1>1, TogetherInit, TogetherNext, PTL DEF Spec, BytesArrive
=============================================================================
