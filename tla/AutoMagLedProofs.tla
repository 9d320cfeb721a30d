-------------------------- MODULE AutoMagLedProofs --------------------------
(***************************************************************************)
(* Proofs about the two LEDs of the board: for any keys, any frames and    *)
(* any order of the terminal, the socket and the board.                    *)
(***************************************************************************)
EXTENDS AutoMag, SequenceTheorems, WellFoundedInduction, TLAPS

(* A set of natural numbers has a least one. *)
LEMMA LeastOf ==
    ASSUME NEW S \in SUBSET Nat, S # {}
    PROVE  \E k \in S : \A j \in S : k <= j
<1>1. PICK k \in S : \A j \in S : ~(<<j, k>> \in OpToRel(<, Nat))
  BY NatLessThanWellFounded, WFMin, Zenon
<1>2. \A j \in S : ~(j < k)
  BY <1>1, Zenon DEF OpToRel
<1> QED
  BY <1>2

(* LastOf is the greatest number of a bounded set. *)
LEMMA LastIs ==
    ASSUME NEW n \in Nat, NEW S \in SUBSET (0..n), S # {}
    PROVE  LastOf(S) \in S /\ \A j \in S : j <= LastOf(S)
<1> DEFINE Above == {m \in Nat : \A j \in S : j <= m}
<1>1. n \in Above
  OBVIOUS
<1>2. PICK m \in Above : \A i \in Above : m <= i
  <2> HIDE DEF Above
  <2>1. Above \subseteq Nat
    BY DEF Above
  <2> QED
    BY <1>1, <2>1, LeastOf
<1>3. m \in S
  <2>1. SUFFICES ASSUME m \notin S PROVE FALSE
    OBVIOUS
  <2>2. PICK j \in S : TRUE
    BY Zenon
  <2>3. \A i \in S : i \in Nat /\ i <= m /\ i # m
    BY <1>2, <2>1
  <2>4. m - 1 \in Nat /\ \A i \in S : i <= m - 1
    BY <1>2, <2>2, <2>3
  <2>5. m - 1 \in Above
    BY <2>4
  <2> QED
    BY <1>2, <2>5
<1>4. \A j \in S : j <= m
  BY <1>2
<1> QED
  BY <1>3, <1>4, Zenon DEF LastOf

-----------------------------------------------------------------------------
(* What was sent and not read, as the board will take it.  A line the program
   leaves open holds keys of the user or nonsense, never a command. *)
Plain == {"empty", "key", "garbled"}
Token == {"eol", "key", "AT", "LED1 SET", "LED1 CLEAR", "LED2 SET", "LED2 CLEAR",
          "CAN ALIGN", "CAN OPEN", "CAN FILTER", "CAN MASK", "LIN OPEN", "LIN CLOSE"}
Led == {"LED1", "LED2"}

(* LineEnds and LineTo for any text o after the line l. *)
EndsOf(o) == {k \in 1..Len(o) : o[k] = "eol"}
EndBefore(o, k) == LastOf({0} \cup {j \in EndsOf(o) : j < k})
Begun(l, end) == IF end = 0 /\ l # "empty" THEN <<l>> ELSE <<>>
Words(o, l, k) == Begun(l, EndBefore(o, k)) \o SubSeq(o, EndBefore(o, k) + 1, k - 1)
LineOf(o, l, k) == TextOf(Words(o, l, k))
About(o, l, led) == {k \in EndsOf(o) : LineOf(o, l, k) \in {LedSet(led), LedClear(led)}}

(* What the board will have once it has read all of o: the text of the line
   begun, and the LEDs that are on. *)
Rest(o, l) == LineOf(o, l, Len(o) + 1)
Lit(o, l, S, led) ==
    IF About(o, l, led) = {} THEN led \in S
    ELSE LineOf(o, l, LastOf(About(o, l, led))) = LedSet(led)
LitOf(o, l, S) == {led \in Led : Lit(o, l, S, led)}

(* The last line end before a place. *)
LEMMA EndIs ==
    ASSUME NEW o \in Seq(Token), NEW k \in 1..Len(o) + 1
    PROVE  /\ EndBefore(o, k) \in 0..k - 1
           /\ EndBefore(o, k) = 0 \/ EndBefore(o, k) \in EndsOf(o)
           /\ \A j \in EndsOf(o) : j < k => j <= EndBefore(o, k)
<1> DEFINE S == {0} \cup {j \in EndsOf(o) : j < k}
<1>1. Len(o) \in Nat /\ S \in SUBSET (0..Len(o)) /\ S # {}
  BY DEF EndsOf
<1>2. EndBefore(o, k) = LastOf(S)
  BY DEF EndBefore
<1> HIDE DEF S
<1>3. EndBefore(o, k) \in S /\ \A j \in S : j <= EndBefore(o, k)
  BY <1>1, <1>2, LastIs, Zenon
<1> QED
  BY <1>1, <1>3 DEF S, EndsOf

(* SubSeq looks at nothing outside its range. *)
Agree(u, o, m, n) == SubSeq(u, m, n) = SubSeq(o, m, n)

(* Two texts that agree on a range have the same SubSeq there. *)
LEMMA SameSubSeq ==
    ASSUME NEW u, NEW o, NEW m \in Int, NEW n \in Int,
           \A i \in m..n : u[i] = o[i] /\ o[i] \in Token /\ u[i] \in Token
    PROVE  Agree(u, o, m, n)
<1>1. PICK a, b : a = SubSeq(u, m, n) /\ b = SubSeq(o, m, n)
  BY Zenon
<1>2. /\ a \in Seq(Token) /\ Len(a) = IF m <= n THEN n - m + 1 ELSE 0
      /\ \A i \in 1..n - m + 1 : a[i] = u[m + i - 1]
  BY <1>1, SubSeqProperties
<1>3. /\ b \in Seq(Token) /\ Len(b) = IF m <= n THEN n - m + 1 ELSE 0
      /\ \A i \in 1..n - m + 1 : b[i] = o[m + i - 1]
  BY <1>1, SubSeqProperties
<1>4. ASSUME NEW i \in 1..Len(a) PROVE a[i] = b[i]
  <2>1. i \in 1..n - m + 1 /\ m + i - 1 \in m..n
    BY <1>2
  <2> QED
    BY <1>2, <1>3, <2>1
<1> QED
  <2>1. a = b
    BY <1>2, <1>3, <1>4, SeqEqual
  <2> QED
    BY <1>1, <2>1, Zenon DEF Agree

(* A token more leaves the lines before it as they are. *)
SameLine(u, o, l, k) == LineOf(u, l, k) = LineOf(o, l, k)

(* So a line up to a place k does not depend on what is appended behind it. *)
LEMMA LinesStay ==
    ASSUME NEW o \in Seq(Token), NEW t \in Token, NEW u, u = Append(o, t),
           NEW k \in 1..Len(o) + 1, NEW l
    PROVE  SameLine(u, o, l, k)
<1>1. /\ u \in Seq(Token) /\ Len(u) = Len(o) + 1 /\ Len(o) \in Nat
      /\ \A i \in 1..Len(o) : u[i] = o[i]
  BY AppendProperties
<1>2. {j \in EndsOf(u) : j < k} = {j \in EndsOf(o) : j < k}
  BY <1>1 DEF EndsOf
<1>3. EndBefore(u, k) = EndBefore(o, k)
  BY <1>2, Zenon DEF EndBefore
<1>4. PICK e : e = EndBefore(o, k)
  OBVIOUS
<1>5. e \in 0..k - 1
  BY <1>4, EndIs
<1>6. SubSeq(u, e + 1, k - 1) = SubSeq(o, e + 1, k - 1)
  <2>1. \A i \in e + 1..k - 1 : u[i] = o[i] /\ o[i] \in Token /\ u[i] \in Token
    BY <1>1, <1>5
  <2>2. e + 1 \in Int /\ k - 1 \in Int
    BY <1>1, <1>5
  <2>3. PICK m \in Int, n \in Int : m = e + 1 /\ n = k - 1
    BY <2>2
  <2>4. \A i \in m..n : u[i] = o[i] /\ o[i] \in Token /\ u[i] \in Token
    BY <2>1, <2>3, Zenon
  <2>5. Agree(u, o, m, n)
    BY <2>4, SameSubSeq, Zenon
  <2> QED
    BY <2>3, <2>5, Zenon DEF Agree
<1> QED
  BY <1>3, <1>4, <1>6, Zenon DEF LineOf, Words, SameLine

(* A line's text is empty only when it has no words. *)
LEMMA TextIs ==
    ASSUME NEW w \in Seq(Token \cup Plain), \A i \in 1..Len(w) : w[i] # "empty"
    PROVE  /\ TextOf(w) = "empty" <=> w = <<>>
           /\ \A t \in Token :
                TextOf(Append(w, t)) = IF TextOf(w) = "empty" THEN t ELSE "garbled"
<1>1. Len(w) \in Nat /\ (w # <<>> => Len(w) \in Nat \ {0})
  BY EmptySeq
<1>2. TextOf(w) = "empty" <=> w = <<>>
  BY <1>1 DEF TextOf
<1>3. ASSUME NEW t \in Token
      PROVE  TextOf(Append(w, t)) = IF w = <<>> THEN t ELSE "garbled"
  <2>1. PICK v : v = Append(w, t)
    BY Zenon
  <2>2. v # <<>> /\ Len(v) = Len(w) + 1
    BY <2>1, AppendProperties
  <2>3. CASE w = <<>>
    <3>1. Len(v) = 1 /\ Head(v) = t
      BY <2>1, <2>3
    <3> QED
      BY <2>1, <2>2, <2>3, <3>1, Zenon DEF TextOf
  <2>4. CASE w # <<>>
    <3>1. Len(v) # 1
      BY <1>1, <2>2, <2>4
    <3> QED
      BY <2>1, <2>2, <2>4, <3>1, Zenon DEF TextOf
  <2> QED
    BY <2>3, <2>4
<1> QED
  BY <1>2, <1>3, Zenon

(* The words of the line begun, one of them perhaps from before. *)
LEMMA WordsAre ==
    ASSUME NEW o \in Seq(Token), NEW l \in Plain
    PROVE  LET w == Words(o, l, Len(o) + 1)
           IN  w \in Seq(Token \cup Plain) /\ \A i \in 1..Len(w) : w[i] # "empty"
<1>1. Len(o) \in Nat /\ Len(o) + 1 \in 1..Len(o) + 1
  OBVIOUS
<1>2. PICK e : e = EndBefore(o, Len(o) + 1)
  OBVIOUS
<1>3. e \in 0..Len(o)
  BY <1>1, <1>2, EndIs
<1>4. PICK a, b : a = Begun(l, e) /\ b = SubSeq(o, e + 1, Len(o))
  BY Zenon
<1>5. /\ a \in Seq(Token \cup Plain) /\ \A i \in 1..Len(a) : a[i] # "empty"
  <2>1. CASE e = 0 /\ l # "empty"
    <3>1. a = <<l>>
      BY <1>4, <2>1, Zenon DEF Begun
    <3> QED
      BY <2>1, <3>1
  <2>2. CASE ~(e = 0 /\ l # "empty")
    <3>1. a = <<>>
      BY <1>4, <2>2, Zenon DEF Begun
    <3> QED
      BY <3>1
  <2> QED
    BY <2>1, <2>2
<1>6. b \in Seq(Token) /\ Len(b) \in Nat
  BY <1>1, <1>3, <1>4, SubSeqProperties
<1>7. b \in Seq(Token \cup Plain) /\ \A i \in 1..Len(b) : b[i] # "empty"
  <2>1. \A i \in 1..Len(b) : b[i] \in Token
    BY <1>6
  <2>2. "empty" \notin Token
    BY Zenon DEF Token
  <2>3. b \in Seq(Token \cup Plain)
    BY <1>6
  <2> QED
    BY <2>1, <2>2, <2>3, Zenon
<1>8. Words(o, l, Len(o) + 1) = a \o b
  <2>1. PICK k : k = Len(o) + 1
    OBVIOUS
  <2>2. k - 1 = Len(o)
    BY <1>1, <2>1
  <2>3. Words(o, l, k) = Begun(l, e) \o SubSeq(o, e + 1, k - 1)
    BY <1>2, <2>1, Zenon DEF Words
  <2> QED
    BY <1>4, <2>1, <2>2, <2>3, Zenon
<1>9. a \o b \in Seq(Token \cup Plain) /\ \A i \in 1..Len(a \o b) : (a \o b)[i] # "empty"
  BY <1>5, <1>7
<1> QED
  BY <1>8, <1>9, Zenon

(* The words of a line may be taken one by one. *)
LEMMA WordsApart ==
    ASSUME NEW a \in Seq(Plain), NEW b \in Seq(Token), NEW t \in Token
    PROVE  a \o (b \o <<t>>) = (a \o b) \o <<t>>
<1>1. PICK S : S = Token \cup Plain
  BY Zenon
<1>2. \A c \in Seq(S), d \in Seq(S), f \in Seq(S) : c \o (d \o f) = (c \o d) \o f
  OBVIOUS
<1>3. a \in Seq(S) /\ b \in Seq(S) /\ <<t>> \in Seq(S)
  BY <1>1
<1> QED
  BY <1>2, <1>3, Zenon

(* Words, with its two places named. *)
WordsAt(o, l, k, e, j) == Words(o, l, k) = Begun(l, e) \o SubSeq(o, e + 1, j)

(* That is how Words is defined, once its two places are known. *)
LEMMA WordsIs ==
    ASSUME NEW o, NEW l, NEW k, NEW e, NEW j, EndBefore(o, k) = e, k - 1 = j
    PROVE  WordsAt(o, l, k, e, j)
BY Zenon DEF Words, WordsAt

(* A token that ends no line is one more word of the line begun. *)
LEMMA WordAdded ==
    ASSUME NEW o \in Seq(Token), NEW t \in Token, t # "eol", NEW u, u = Append(o, t),
           NEW l \in Plain
    PROVE  Rest(u, l) = IF Rest(o, l) = "empty" THEN t ELSE "garbled"
<1>1. PICK n \in Nat : n = Len(o)
  OBVIOUS
<1>2. /\ u \in Seq(Token) /\ Len(u) = n + 1
      /\ \A i \in 1..n : u[i] = o[i]
      /\ u[n + 1] = t
  BY <1>1, AppendProperties
<1>3. EndBefore(u, n + 2) = EndBefore(o, n + 1)
  <2>1. {j \in EndsOf(u) : j < n + 2} = {j \in EndsOf(o) : j < n + 1}
    BY <1>1, <1>2 DEF EndsOf
  <2> QED
    BY <2>1, Zenon DEF EndBefore
<1>4. PICK e : e = EndBefore(o, n + 1)
  OBVIOUS
<1>5. e \in 0..n
  <2>1. n + 1 \in 1..Len(o) + 1
    BY <1>1
  <2> QED
    BY <1>1, <1>4, <2>1, EndIs
<1>6. PICK a, b : a = Begun(l, e) /\ b = SubSeq(o, e + 1, n)
  BY Zenon
<1>7. SubSeq(u, e + 1, n + 1) = b \o <<t>>
  <2>1. PICK m, p : m = e + 1 /\ p = n + 1
    OBVIOUS
  <2>2. m \in 1..Len(u) /\ p \in m..Len(u) /\ p - 1 = n /\ m \in Int /\ n \in Int
    BY <1>2, <1>5, <2>1
  <2>3. SubSeq(u, m, p) = SubSeq(u, m, p - 1) \o <<u[p]>>
    BY <1>2, <2>2, SubSeqRecursiveSecond
  <2>4. \A i \in m..n : u[i] = o[i] /\ o[i] \in Token /\ u[i] \in Token
    BY <1>1, <1>2, <1>5, <2>1
  <2>5. Agree(u, o, m, n)
    BY <2>2, <2>4, SameSubSeq, Zenon
  <2> QED
    BY <1>2, <1>6, <2>1, <2>3, <2>2, <2>5, Zenon DEF Agree
<1>8. PICK w : w = Words(o, l, n + 1)
  OBVIOUS
<1>9. w \in Seq(Token \cup Plain) /\ \A i \in 1..Len(w) : w[i] # "empty"
  BY <1>1, <1>8, WordsAre
<1>10. w = a \o b
  <2>1. n + 1 - 1 = n
    OBVIOUS
  <2>2. WordsAt(o, l, n + 1, e, n)
    <3>1. PICK k : k = n + 1
      OBVIOUS
    <3>2. EndBefore(o, k) = e /\ k - 1 = n
      BY <3>1, <1>4, <2>1
    <3>3. WordsAt(o, l, k, e, n)
      BY <3>2, WordsIs, Zenon
    <3> QED
      BY <3>1, <3>3, Zenon
  <2> QED
    BY <1>6, <1>8, <2>2, Zenon DEF WordsAt
<1>11. Words(u, l, n + 2) = a \o (b \o <<t>>)
  <2>1. n + 2 - 1 = n + 1
    OBVIOUS
  <2>2. WordsAt(u, l, n + 2, e, n + 1)
    <3>1. PICK k : k = n + 2
      OBVIOUS
    <3>2. EndBefore(u, k) = e /\ k - 1 = n + 1
      BY <3>1, <1>3, <1>4, <2>1
    <3>3. WordsAt(u, l, k, e, n + 1)
      BY <3>2, WordsIs, Zenon
    <3> QED
      BY <3>1, <3>3, Zenon
  <2> QED
    BY <1>6, <1>7, <2>2, Zenon DEF WordsAt
<1>12. a \o (b \o <<t>>) = Append(w, t)
  <2>1. b \in Seq(Token) /\ a \in Seq(Plain)
    <3>1. b \in Seq(Token)
      BY <1>1, <1>5, <1>6, SubSeqProperties
    <3>2. <<l>> \in Seq(Plain) /\ <<>> \in Seq(Plain)
      OBVIOUS
    <3>3. a \in Seq(Plain)
      BY <1>6, <3>2, Zenon DEF Begun
    <3> QED
      BY <3>1, <3>3
  <2>2. a \o (b \o <<t>>) = (a \o b) \o <<t>>
    BY <2>1, WordsApart
  <2> QED
    BY <1>9, <1>10, <2>2, AppendIsConcat
<1>13. Rest(u, l) = TextOf(Append(w, t)) /\ Rest(o, l) = TextOf(w)
  <2>1. Len(u) + 1 = n + 2
    BY <1>2
  <2> QED
    BY <1>1, <1>8, <1>11, <1>12, <2>1, Zenon DEF Rest, LineOf
<1> QED
  BY <1>9, <1>13, TextIs, Zenon

(* A line end begins an empty line. *)
LEMMA LineEnded ==
    ASSUME NEW o \in Seq(Token), NEW u, u = Append(o, "eol"), NEW l
    PROVE  Rest(u, l) = "empty"
<1>1. PICK n \in Nat : n = Len(o)
  OBVIOUS
<1>2. u \in Seq(Token) /\ Len(u) = n + 1 /\ u[n + 1] = "eol"
  <2>1. "eol" \in Token
    BY Zenon DEF Token
  <2> QED
    BY <1>1, <2>1, AppendProperties
<1>3. EndBefore(u, n + 2) = n + 1
  <2>1. n + 1 \in EndsOf(u) /\ n + 2 \in 1..Len(u) + 1 /\ n + 1 < n + 2
    BY <1>2 DEF EndsOf
  <2>2. PICK k \in 1..Len(u) + 1 : k = n + 2
    BY <2>1
  <2>3. EndBefore(u, k) \in 0..k - 1 /\ (n + 1 < k => n + 1 <= EndBefore(u, k))
    BY <1>2, <2>1, EndIs, Zenon
  <2>4. EndBefore(u, k) = n + 1
    BY <2>1, <2>2, <2>3
  <2> QED
    BY <2>2, <2>4, Zenon
<1>4. Begun(l, n + 1) = <<>>
  <2>1. n + 1 # 0
    OBVIOUS
  <2> QED
    BY <2>1, Zenon DEF Begun
<1>5. SubSeq(u, n + 1 + 1, n + 1) = <<>> /\ n + 2 - 1 = n + 1
  BY SubSeqEmpty
<1>6. Words(u, l, n + 2) = <<>>
  <2>1. <<>> \o <<>> = <<>>
    OBVIOUS
  <2>2. WordsAt(u, l, n + 2, n + 1, n + 1)
    <3>1. PICK k : k = n + 2
      OBVIOUS
    <3>2. EndBefore(u, k) = n + 1 /\ k - 1 = n + 1
      BY <3>1, <1>3, <1>5
    <3>3. WordsAt(u, l, k, n + 1, n + 1)
      BY <3>2, WordsIs, Zenon
    <3> QED
      BY <3>1, <3>3, Zenon
  <2> QED
    BY <1>4, <1>5, <2>1, <2>2, Zenon DEF WordsAt
<1>7. Len(u) + 1 = n + 2
  BY <1>2
<1> QED
  BY <1>6, <1>7, Zenon DEF Rest, LineOf, TextOf

(* A token that ends no line lights no LED. *)
LEMMA LitKept ==
    ASSUME NEW o \in Seq(Token), NEW t \in Token, t # "eol", NEW u, u = Append(o, t),
           NEW l \in Plain, NEW S, NEW led \in Led
    PROVE  Lit(u, l, S, led) <=> Lit(o, l, S, led)
<1>1. EndsOf(u) = EndsOf(o)
  <2>1. /\ Len(u) = Len(o) + 1 /\ Len(o) \in Nat /\ u[Len(o) + 1] = t
        /\ \A i \in 1..Len(o) : u[i] = o[i]
    BY AppendProperties
  <2> QED
    BY <2>1 DEF EndsOf
<1>2. \A k \in EndsOf(o) : k \in 1..Len(o) + 1
  BY DEF EndsOf
<1>3. \A k \in EndsOf(o) : LineOf(u, l, k) = LineOf(o, l, k)
  <2>1. \A k \in EndsOf(o) : SameLine(u, o, l, k)
    BY <1>2, LinesStay, Zenon
  <2> QED
    BY <2>1, Zenon DEF SameLine
<1>4. About(u, l, led) = About(o, l, led)
  BY <1>1, <1>3, Zenon DEF About
<1>5. CASE About(o, l, led) = {}
  BY <1>4, <1>5, Zenon DEF Lit
<1>6. CASE About(o, l, led) # {}
  <2>1. Len(o) \in Nat /\ About(o, l, led) \in SUBSET (0..Len(o))
    BY DEF About, EndsOf
  <2>2. LastOf(About(o, l, led)) \in EndsOf(o)
    BY <1>6, <2>1, LastIs, Zenon DEF About
  <2>3. LineOf(u, l, LastOf(About(o, l, led))) = LineOf(o, l, LastOf(About(o, l, led)))
    BY <1>3, <2>2, Zenon
  <2> QED
    BY <1>4, <1>6, <2>3, Zenon DEF Lit
<1> QED
  BY <1>5, <1>6

(* At a line end the board obeys the line. *)
LEMMA LitAtEnd ==
    ASSUME NEW o \in Seq(Token), NEW u, u = Append(o, "eol"),
           NEW l \in Plain, NEW S, NEW led \in Led
    PROVE  Lit(u, l, S, led) <=>
             \/ Rest(o, l) = LedSet(led)
             \/ Rest(o, l) # LedClear(led) /\ Lit(o, l, S, led)
<1> DEFINE n == Len(o)
           here == n + 1
<1>1. n \in Nat /\ here \in 1..Len(o) + 1 /\ "eol" \in Token
  <2>1. "eol" \in Token
    BY Zenon DEF Token
  <2> QED
    BY <2>1
<1>2. EndsOf(u) = EndsOf(o) \cup {here}
  <2>1. /\ Len(u) = Len(o) + 1 /\ u[Len(o) + 1] = "eol"
        /\ \A i \in 1..Len(o) : u[i] = o[i]
    BY <1>1, AppendProperties
  <2> QED
    BY <1>1, <2>1 DEF EndsOf
<1>3. \A k \in EndsOf(o) : k \in 1..Len(o) + 1 /\ k < here
  BY DEF EndsOf
<1>4. \A k \in EndsOf(o) : LineOf(u, l, k) = LineOf(o, l, k)
  <2>1. \A k \in EndsOf(o) : SameLine(u, o, l, k)
    BY <1>1, <1>3, LinesStay, Zenon
  <2> QED
    BY <2>1, Zenon DEF SameLine
<1>5. LineOf(u, l, here) = Rest(o, l)
  <2>1. SameLine(u, o, l, here)
    BY <1>1, LinesStay, Zenon
  <2> QED
    BY <2>1, Zenon DEF SameLine, Rest
<1> HIDE DEF n, here
<1>6. LedSet(led) # LedClear(led)
  BY Zenon DEF LedSet, LedClear
<1>7. CASE Rest(o, l) \in {LedSet(led), LedClear(led)}
  <2>1. About(u, l, led) = About(o, l, led) \cup {here}
    BY <1>2, <1>4, <1>5, <1>7 DEF About
  <2>2. \A k \in About(u, l, led) : k <= here /\ k \in 0..n + 1
    BY <1>1, <1>3, <2>1 DEF About, here
  <2>3. LastOf(About(u, l, led)) = here
    <3>1. n + 1 \in Nat /\ About(u, l, led) \in SUBSET (0..n + 1) /\ About(u, l, led) # {}
      BY <1>1, <2>1, <2>2
    <3>2. /\ LastOf(About(u, l, led)) \in About(u, l, led)
          /\ \A j \in About(u, l, led) : j <= LastOf(About(u, l, led))
      BY <3>1, LastIs, Zenon
    <3>3. here <= LastOf(About(u, l, led)) /\ LastOf(About(u, l, led)) <= here
      BY <2>1, <2>2, <3>2
    <3> QED
      BY <2>2, <3>2, <3>3, <1>1 DEF here
  <2>4. Lit(u, l, S, led) <=> Rest(o, l) = LedSet(led)
    <3>1. About(u, l, led) # {}
      BY <2>1
    <3> QED
      BY <1>5, <2>3, <3>1, Zenon DEF Lit
  <2> QED
    BY <1>6, <1>7, <2>4
<1>8. CASE Rest(o, l) \notin {LedSet(led), LedClear(led)}
  <2>1. About(u, l, led) = About(o, l, led)
    BY <1>2, <1>4, <1>5, <1>8 DEF About
  <2>2. Lit(u, l, S, led) <=> Lit(o, l, S, led)
    <3>1. CASE About(o, l, led) = {}
      BY <2>1, <3>1, Zenon DEF Lit
    <3>2. CASE About(o, l, led) # {}
      <4>1. About(o, l, led) \in SUBSET (0..n)
        BY DEF About, EndsOf, n
      <4>2. LastOf(About(o, l, led)) \in EndsOf(o)
        BY <1>1, <3>2, <4>1, LastIs, Zenon DEF About
      <4>3. LineOf(u, l, LastOf(About(o, l, led))) = LineOf(o, l, LastOf(About(o, l, led)))
        BY <1>4, <4>2, Zenon
      <4> QED
        BY <2>1, <3>2, <4>3, Zenon DEF Lit
    <3> QED
      BY <3>1, <3>2
  <2> QED
    BY <1>8, <2>2, Zenon
<1> QED
  BY <1>7, <1>8

(* What the board makes of one more token, and of a text: from a line r and
   LEDs A it comes to the line r2 and the LEDs A2. *)
Obeyed(r, A) ==
    CASE r = "LED1 SET"   -> A \cup {"LED1"}
      [] r = "LED1 CLEAR" -> A \ {"LED1"}
      [] r = "LED2 SET"   -> A \cup {"LED2"}
      [] r = "LED2 CLEAR" -> A \ {"LED2"}
      [] OTHER            -> A

Reads(o, l, S, r, A) ==
    o \in Seq(Token) /\ l \in Plain /\ Rest(o, l) = r /\ LitOf(o, l, S) = A

Takes(w, r, A, r2, A2) ==
    \A o, l, S : Reads(o, l, S, r, A) => Reads(o \o w, l, S, r2, A2)

(* A word of a line. *)
LEMMA TakesWord ==
    ASSUME NEW t \in Token, t # "eol", NEW r, NEW A
    PROVE  Takes(<<t>>, r, A, IF r = "empty" THEN t ELSE "garbled", A)
<1> SUFFICES ASSUME NEW o, NEW l, NEW S, Reads(o, l, S, r, A)
             PROVE  Reads(o \o <<t>>, l, S, IF r = "empty" THEN t ELSE "garbled", A)
  BY Zenon DEF Takes
<1>1. o \in Seq(Token) /\ l \in Plain /\ Rest(o, l) = r /\ LitOf(o, l, S) = A
  BY Zenon DEF Reads
<1>2. PICK u : u = Append(o, t)
  BY Zenon
<1>3. u = o \o <<t>> /\ u \in Seq(Token)
  BY <1>1, <1>2, AppendIsConcat, AppendProperties
<1>4. Rest(u, l) = IF r = "empty" THEN t ELSE "garbled"
  BY <1>1, <1>2, WordAdded, Zenon
<1>5. \A led \in Led : Lit(u, l, S, led) <=> Lit(o, l, S, led)
  BY <1>1, <1>2, LitKept, Zenon
<1>6. LitOf(u, l, S) = A
  BY <1>1, <1>5, Zenon DEF LitOf
<1> QED
  BY <1>1, <1>3, <1>4, <1>6, Zenon DEF Reads

(* A line end. *)
LEMMA TakesEnd ==
    ASSUME NEW r, NEW A
    PROVE  Takes(<<"eol">>, r, A, "empty", Obeyed(r, A))
<1> SUFFICES ASSUME NEW o, NEW l, NEW S, Reads(o, l, S, r, A)
             PROVE  Reads(o \o <<"eol">>, l, S, "empty", Obeyed(r, A))
  BY Zenon DEF Takes
<1>1. o \in Seq(Token) /\ l \in Plain /\ Rest(o, l) = r /\ LitOf(o, l, S) = A
  BY Zenon DEF Reads
<1>2. PICK u : u = Append(o, "eol")
  BY Zenon
<1>3. u = o \o <<"eol">> /\ u \in Seq(Token)
  <2>1. "eol" \in Token
    BY DEF Token
  <2> QED
    BY <1>1, <1>2, <2>1, AppendIsConcat, AppendProperties
<1>4. Rest(u, l) = "empty"
  BY <1>1, <1>2, LineEnded, Zenon
<1>5. \A led \in Led :
        Lit(u, l, S, led) <=> \/ r = LedSet(led)
                              \/ r # LedClear(led) /\ Lit(o, l, S, led)
  BY <1>1, <1>2, LitAtEnd, Zenon
<1>6. /\ A = {led \in Led : Lit(o, l, S, led)}
      /\ LitOf(u, l, S) = {led \in Led : Lit(u, l, S, led)}
  BY <1>1, Zenon DEF LitOf
<1>7. LitOf(u, l, S) = Obeyed(r, A)
  <2> HIDE DEF Lit
  <2>1. CASE r \notin {"LED1 SET", "LED1 CLEAR", "LED2 SET", "LED2 CLEAR"}
    <3>1. Obeyed(r, A) = A
      BY <2>1, Zenon DEF Obeyed
    <3>2. \A led \in Led : Lit(u, l, S, led) <=> Lit(o, l, S, led)
      BY <1>5, <2>1, Zenon DEF Led, LedSet, LedClear
    <3> QED
      BY <1>6, <3>1, <3>2, Zenon
  <2>2. CASE r = "LED1 SET"
    BY <1>5, <1>6, <2>2, Zenon DEF Obeyed, Led, LedSet, LedClear
  <2>3. CASE r = "LED1 CLEAR"
    BY <1>5, <1>6, <2>3, Zenon DEF Obeyed, Led, LedSet, LedClear
  <2>4. CASE r = "LED2 SET"
    BY <1>5, <1>6, <2>4, Zenon DEF Obeyed, Led, LedSet, LedClear
  <2>5. CASE r = "LED2 CLEAR"
    BY <1>5, <1>6, <2>5, Zenon DEF Obeyed, Led, LedSet, LedClear
  <2> QED
    BY <2>1, <2>2, <2>3, <2>4, <2>5, Zenon
<1> QED
  BY <1>1, <1>3, <1>4, <1>7, Zenon DEF Reads

(* One text after the other. *)
LEMMA TakesBoth ==
    ASSUME NEW v \in Seq(Token), NEW w \in Seq(Token),
           NEW r, NEW A, NEW r1, NEW A1, NEW r2, NEW A2,
           Takes(v, r, A, r1, A1), Takes(w, r1, A1, r2, A2)
    PROVE  Takes(v \o w, r, A, r2, A2)
<1>1. \A o \in Seq(Token) : (o \o v) \o w = o \o (v \o w)
  OBVIOUS
<1> SUFFICES ASSUME NEW o, NEW l, NEW S, Reads(o, l, S, r, A)
             PROVE  Reads(o \o (v \o w), l, S, r2, A2)
  BY Zenon DEF Takes
<1>2. Reads((o \o v) \o w, l, S, r2, A2)
  BY Zenon DEF Takes
<1>3. o \in Seq(Token)
  BY Zenon DEF Reads
<1> QED
  BY <1>1, <1>2, <1>3, Zenon

(* A line: a command is obeyed when nothing stands before it. *)
LEMMA TakesLine ==
    ASSUME NEW c \in Token, c # "eol", NEW r, NEW A
    PROVE  /\ Line(c) \in Seq(Token) /\ TwoLines(c) \in Seq(Token)
           /\ Takes(Line(c), r, A, "empty",
                    Obeyed(IF r = "empty" THEN c ELSE "garbled", A))
           /\ Takes(TwoLines(c), r, A, "empty",
                    Obeyed(IF r = "empty" THEN c ELSE "garbled", A))
<1>1. PICK q : q = IF r = "empty" THEN c ELSE "garbled"
  OBVIOUS
<1>2. PICK B : B = Obeyed(q, A)
  OBVIOUS
<1>3. Takes(<<c>>, r, A, q, A) /\ Takes(<<"eol">>, q, A, "empty", B)
  BY <1>1, <1>2, TakesWord, TakesEnd, Zenon
<1>4. Takes(<<"eol">>, "empty", B, "empty", B)
  <2>1. Obeyed("empty", B) = B
    BY DEF Obeyed
  <2>2. Takes(<<"eol">>, "empty", B, "empty", Obeyed("empty", B))
    BY TakesEnd, Zenon
  <2> QED
    BY <2>1, <2>2, Zenon
<1>5. "eol" \in Token
  BY Zenon DEF Token
<1>6. PICK v, w : v = <<c>> /\ w = <<"eol">>
  BY Zenon
<1>7. v \in Seq(Token) /\ w \in Seq(Token) /\ v \o w \in Seq(Token)
  BY <1>5, <1>6
<1>8. Takes(v \o w, r, A, "empty", B)
  BY <1>3, <1>6, <1>7, TakesBoth, Zenon
<1>9. Takes((v \o w) \o w, r, A, "empty", B)
  BY <1>4, <1>6, <1>7, <1>8, TakesBoth, Zenon
<1>10. Line(c) = v \o w /\ TwoLines(c) = (v \o w) \o w
  BY <1>6 DEF Line, TwoLines
<1>11. (v \o w) \o w \in Seq(Token)
  BY <1>7, ConcatProperties
<1> QED
  BY <1>1, <1>2, <1>7, <1>8, <1>9, <1>10, <1>11, Zenon

(* The text of s leaves both LEDs off, whatever was begun before it. *)
LEMMA TakesSetup ==
    ASSUME NEW r \in Plain, NEW A \in SUBSET Led
    PROVE  Setup \in Seq(Token) /\ Takes(Setup, r, A, "empty", {})
<1>1. ASSUME NEW c \in {"AT", "LED1 CLEAR", "LED2 CLEAR", "CAN ALIGN", "CAN OPEN",
                        "CAN FILTER", "CAN MASK"}, NEW B
      PROVE  /\ TwoLines(c) \in Seq(Token)
             /\ Takes(TwoLines(c), "empty", B, "empty", Obeyed(c, B))
  <2>1. c \in Token /\ c # "eol"
    BY Zenon DEF Token
  <2> QED
    BY <2>1, TakesLine, Zenon
<1>2. Takes(TwoLines("AT"), r, A, "empty", A)
  <2>1. "AT" \in Token /\ "AT" # "eol"
    BY DEF Token
  <2>2. Takes(TwoLines("AT"), r, A, "empty",
              Obeyed(IF r = "empty" THEN "AT" ELSE "garbled", A))
    BY <2>1, TakesLine, Zenon
  <2>3. Obeyed(IF r = "empty" THEN "AT" ELSE "garbled", A) = A
    BY DEF Obeyed
  <2> QED
    BY <2>2, <2>3, Zenon
<1>3. /\ Obeyed("LED1 CLEAR", A) = A \ {"LED1"}
      /\ Obeyed("LED2 CLEAR", A \ {"LED1"}) = {}
      /\ \A c \in {"CAN ALIGN", "CAN OPEN", "CAN FILTER", "CAN MASK"} : Obeyed(c, {}) = {}
  BY DEF Obeyed, Led
<1>4. PICK t1, t2, t3, t4, t5, t6, t7 :
        /\ t1 = TwoLines("AT") /\ t2 = TwoLines("LED1 CLEAR") /\ t3 = TwoLines("LED2 CLEAR")
        /\ t4 = TwoLines("CAN ALIGN") /\ t5 = TwoLines("CAN OPEN")
        /\ t6 = TwoLines("CAN FILTER") /\ t7 = TwoLines("CAN MASK")
  BY Zenon
<1>5. /\ t1 \in Seq(Token) /\ t2 \in Seq(Token) /\ t3 \in Seq(Token) /\ t4 \in Seq(Token)
      /\ t5 \in Seq(Token) /\ t6 \in Seq(Token) /\ t7 \in Seq(Token)
  BY <1>1, <1>4, Zenon
<1>6. /\ Takes(t1, r, A, "empty", A)
      /\ Takes(t2, "empty", A, "empty", A \ {"LED1"})
      /\ Takes(t3, "empty", A \ {"LED1"}, "empty", {})
      /\ Takes(t4, "empty", {}, "empty", {})
      /\ Takes(t5, "empty", {}, "empty", {})
      /\ Takes(t6, "empty", {}, "empty", {})
      /\ Takes(t7, "empty", {}, "empty", {})
  <2>1. /\ Takes(t2, "empty", A, "empty", A \ {"LED1"})
        /\ Takes(t3, "empty", A \ {"LED1"}, "empty", {})
    BY <1>1, <1>3, <1>4, Zenon
  <2>2. /\ Takes(t4, "empty", {}, "empty", {}) /\ Takes(t5, "empty", {}, "empty", {})
        /\ Takes(t6, "empty", {}, "empty", {}) /\ Takes(t7, "empty", {}, "empty", {})
    BY <1>1, <1>3, <1>4, Zenon
  <2> QED
    BY <1>2, <1>4, <2>1, <2>2, Zenon
<1>7. \A v, w \in Seq(Token) : v \o w \in Seq(Token)
  OBVIOUS
<1>8. PICK u2, u3, u4, u5, u6 :
        u2 = t1 \o t2 /\ u3 = u2 \o t3 /\ u4 = u3 \o t4 /\ u5 = u4 \o t5 /\ u6 = u5 \o t6
  BY Zenon
<1>9. u2 \in Seq(Token) /\ Takes(u2, r, A, "empty", A \ {"LED1"})
  BY <1>5, <1>6, <1>7, <1>8, TakesBoth, Zenon
<1>10. u3 \in Seq(Token) /\ Takes(u3, r, A, "empty", {})
  BY <1>5, <1>6, <1>7, <1>8, <1>9, TakesBoth, Zenon
<1>11. u4 \in Seq(Token) /\ Takes(u4, r, A, "empty", {})
  BY <1>5, <1>6, <1>7, <1>8, <1>10, TakesBoth, Zenon
<1>12. u5 \in Seq(Token) /\ Takes(u5, r, A, "empty", {})
  BY <1>5, <1>6, <1>7, <1>8, <1>11, TakesBoth, Zenon
<1>13. u6 \in Seq(Token) /\ Takes(u6, r, A, "empty", {})
  BY <1>5, <1>6, <1>7, <1>8, <1>12, TakesBoth, Zenon
<1>14. u6 \o t7 \in Seq(Token) /\ Takes(u6 \o t7, r, A, "empty", {})
  BY <1>5, <1>6, <1>7, <1>13, TakesBoth, Zenon
<1>15. Setup = u6 \o t7
  BY <1>4, <1>8, Zenon DEF Setup
<1> QED
  BY <1>14, <1>15, Zenon

(* A line of keys is no command. *)
LEMMA PlainObeyed ==
    ASSUME NEW r \in Plain, NEW A
    PROVE  Obeyed(r, A) = A
BY Zenon DEF Obeyed, Plain

(* The text for the green LED leaves the green one on and nothing else,
   whatever was begun before it. *)
LEMMA TakesGreen ==
    ASSUME NEW o, NEW l, NEW S, NEW r \in Plain, NEW A \in SUBSET Led, Reads(o, l, S, r, A)
    PROVE  Reads(o \o <<"eol", "eol">> \o Line("LED1 SET") \o Line("LED2 CLEAR"),
                 l, S, "empty", {"LED1"})
<1>1. Takes(<<"eol", "eol">>, r, A, "empty", A)
  <2>1. PICK w : w = <<"eol">>
    BY Zenon
  <2>2. w \in Seq(Token) /\ <<"eol", "eol">> = w \o w
    <3>1. "eol" \in Token
      BY DEF Token
    <3> QED
      BY <2>1, <3>1
  <2>3. Obeyed(r, A) = A /\ Obeyed("empty", A) = A
    BY PlainObeyed DEF Plain
  <2>4. Takes(w, r, A, "empty", A) /\ Takes(w, "empty", A, "empty", A)
    <3>1. Takes(w, r, A, "empty", Obeyed(r, A))
      BY <2>1, TakesEnd, Zenon
    <3>2. Takes(w, "empty", A, "empty", Obeyed("empty", A))
      BY <2>1, TakesEnd, Zenon
    <3> QED
      BY <2>3, <3>1, <3>2, Zenon
  <2>5. Takes(w \o w, r, A, "empty", A)
    BY <2>2, <2>4, TakesBoth, Zenon
  <2> QED
    BY <2>2, <2>5, Zenon
<1>2. /\ Obeyed("LED1 SET", A) = A \cup {"LED1"}
      /\ Obeyed("LED2 CLEAR", A \cup {"LED1"}) = {"LED1"}
  BY DEF Obeyed, Led
<1>3. /\ "LED1 SET" \in Token /\ "LED1 SET" # "eol"
      /\ "LED2 CLEAR" \in Token /\ "LED2 CLEAR" # "eol"
  BY DEF Token
<1>4. Takes(Line("LED1 SET"), "empty", A, "empty", A \cup {"LED1"})
  <2>1. Takes(Line("LED1 SET"), "empty", A, "empty",
              Obeyed(IF "empty" = "empty" THEN "LED1 SET" ELSE "garbled", A))
    BY <1>3, TakesLine, Zenon
  <2> QED
    BY <1>2, <2>1, Zenon
<1>5. Takes(Line("LED2 CLEAR"), "empty", A \cup {"LED1"}, "empty", {"LED1"})
  <2>1. Takes(Line("LED2 CLEAR"), "empty", A \cup {"LED1"}, "empty",
              Obeyed(IF "empty" = "empty" THEN "LED2 CLEAR" ELSE "garbled",
                     A \cup {"LED1"}))
    BY <1>3, TakesLine, Zenon
  <2> QED
    BY <1>2, <2>1, Zenon
<1>6. Reads(o \o <<"eol", "eol">>, l, S, "empty", A)
  BY <1>1, Zenon DEF Takes
<1>7. Reads(o \o <<"eol", "eol">> \o Line("LED1 SET"), l, S, "empty", A \cup {"LED1"})
  BY <1>4, <1>6, Zenon DEF Takes
<1> QED
  BY <1>5, <1>7, Zenon DEF Takes

(* The text for the red LED puts the green one out; it lights the red one
   only on a line of its own. *)
LEMMA TakesRed ==
    ASSUME NEW o, NEW l, NEW S, NEW r \in Plain, NEW A \in SUBSET Led, Reads(o, l, S, r, A)
    PROVE  Reads(o \o Line("LED2 SET") \o Line("LED1 CLEAR"), l, S, "empty",
                 (IF r = "empty" THEN A \cup {"LED2"} ELSE A) \ {"LED1"})
<1>1. PICK q, B : /\ q = (IF r = "empty" THEN "LED2 SET" ELSE "garbled")
                  /\ B = (IF r = "empty" THEN A \cup {"LED2"} ELSE A)
  BY Zenon
<1>2. Obeyed(q, A) = B /\ Obeyed("LED1 CLEAR", B) = B \ {"LED1"}
  BY <1>1, Zenon DEF Obeyed
<1>3. /\ "LED2 SET" \in Token /\ "LED2 SET" # "eol"
      /\ "LED1 CLEAR" \in Token /\ "LED1 CLEAR" # "eol"
  BY DEF Token
<1>4. Takes(Line("LED2 SET"), r, A, "empty", B)
  <2>1. Takes(Line("LED2 SET"), r, A, "empty",
              Obeyed(IF r = "empty" THEN "LED2 SET" ELSE "garbled", A))
    BY <1>3, TakesLine, Zenon
  <2> QED
    BY <1>1, <1>2, <2>1, Zenon
<1>5. Takes(Line("LED1 CLEAR"), "empty", B, "empty", B \ {"LED1"})
  <2>1. Takes(Line("LED1 CLEAR"), "empty", B, "empty",
              Obeyed(IF "empty" = "empty" THEN "LED1 CLEAR" ELSE "garbled", B))
    BY <1>3, TakesLine, Zenon
  <2> QED
    BY <1>2, <2>1, Zenon
<1>6. Reads(o \o Line("LED2 SET"), l, S, "empty", B)
  BY <1>4, Zenon DEF Takes
<1>7. Reads(o \o Line("LED2 SET") \o Line("LED1 CLEAR"), l, S, "empty", B \ {"LED1"})
  BY <1>5, <1>6, Zenon DEF Takes
<1> QED
  BY <1>1, <1>7, Zenon

(* A key on an empty line. *)
LEMMA KeyTaken ==
    ASSUME NEW A
    PROVE  Takes(<<"key">>, "empty", A, "key", A)
<1>1. "key" \in Token /\ "key" # "eol"
  BY DEF Token
<1>2. Takes(<<"key">>, "empty", A, IF "empty" = "empty" THEN "key" ELSE "garbled", A)
  BY <1>1, TakesWord, Zenon
<1> QED
  BY <1>2, Zenon

(* The commands for the LIN bus light no LED. *)
LEMMA LinTaken ==
    ASSUME NEW r \in Plain, NEW A
    PROVE  /\ Takes(Line("LIN CLOSE"), r, A, "empty", A)
           /\ Takes(TwoLines("LIN OPEN"), r, A, "empty", A)
<1>1. /\ "LIN CLOSE" \in Token /\ "LIN CLOSE" # "eol"
      /\ "LIN OPEN" \in Token /\ "LIN OPEN" # "eol"
  BY DEF Token
<1>2. /\ Obeyed(IF r = "empty" THEN "LIN CLOSE" ELSE "garbled", A) = A
      /\ Obeyed(IF r = "empty" THEN "LIN OPEN" ELSE "garbled", A) = A
  BY DEF Obeyed
<1>3. Takes(Line("LIN CLOSE"), r, A, "empty",
            Obeyed(IF r = "empty" THEN "LIN CLOSE" ELSE "garbled", A))
  BY <1>1, TakesLine, Zenon
<1>4. Takes(TwoLines("LIN OPEN"), r, A, "empty",
            Obeyed(IF r = "empty" THEN "LIN OPEN" ELSE "garbled", A))
  BY <1>1, TakesLine, Zenon
<1> QED
  BY <1>2, <1>3, <1>4, Zenon

(* Texts may be sent one by one. *)
Apart(a, b, c) == (a \o b) \o c = a \o (b \o c)

(* Concatenation of texts is associative. *)
LEMMA TextsApart == \A a, b, c \in Seq(Token) : Apart(a, b, c)
BY DEF Apart

(* Keys of the user, however many, light no LED and leave no command begun. *)
LEMMA TakesKeys ==
    ASSUME NEW o, NEW l, NEW S, NEW r \in Plain, NEW A, Reads(o, l, S, r, A),
           NEW w \in Seq({"key", "eol"})
    PROVE  \E q \in Plain : Reads(o \o w, l, S, q, A)
<1> DEFINE Upto(n) == SubSeq(w, 1, n)
           Read(n) == \E q \in Plain : Reads(o \o Upto(n), l, S, q, A)
           Bad == {n \in 0..Len(w) : ~Read(n)}
<1>1. Len(w) \in Nat /\ o \in Seq(Token) /\ w \in Seq(Token)
  <2>1. o \in Seq(Token)
    BY Zenon DEF Reads
  <2>2. "key" \in Token /\ "eol" \in Token
    BY DEF Token
  <2> QED
    BY <2>1, <2>2
<1>2. Read(0)
  <2>1. Upto(0) = <<>>
    BY SubSeqEmpty
  <2>2. o \o <<>> = o
    BY <1>1, ConcatEmptySeq, Zenon
  <2> QED
    BY <2>1, <2>2, Zenon
<1>3. ASSUME NEW n \in 1..Len(w), Read(n - 1) PROVE Read(n)
  <2>1. PICK q \in Plain : Reads(o \o Upto(n - 1), l, S, q, A)
    BY <1>3
  <2>2. Upto(n) = Upto(n - 1) \o <<w[n]>>
    <3>1. 1 \in 1..Len(w) /\ n \in 1..Len(w)
      BY <1>1
    <3> QED
      BY <1>1, <3>1, SubSeqRecursiveSecond
  <2>3. w[n] = "key" \/ w[n] = "eol"
    BY <1>1
  <2>4. \E q2 \in Plain : Takes(<<w[n]>>, q, A, q2, A)
    <3>1. CASE w[n] = "key"
      <4>1. "key" \in Token /\ "key" # "eol"
        BY DEF Token
      <4>2. Takes(<<"key">>, q, A, IF q = "empty" THEN "key" ELSE "garbled", A)
        BY <4>1, TakesWord, Zenon
      <4>3. (IF q = "empty" THEN "key" ELSE "garbled") \in Plain
        BY DEF Plain
      <4> QED
        BY <3>1, <4>2, <4>3, Zenon
    <3>2. CASE w[n] = "eol"
      <4>1. Takes(<<"eol">>, q, A, "empty", Obeyed(q, A)) /\ Obeyed(q, A) = A
        BY TakesEnd, PlainObeyed, Zenon
      <4>2. "empty" \in Plain
        BY DEF Plain
      <4> QED
        BY <3>2, <4>1, <4>2, Zenon
    <3> QED
      BY <2>3, <3>1, <3>2, Zenon
  <2>5. PICK q2 \in Plain : Takes(<<w[n]>>, q, A, q2, A)
    BY <2>4
  <2>6. Reads((o \o Upto(n - 1)) \o <<w[n]>>, l, S, q2, A)
    BY <2>1, <2>5, Zenon DEF Takes
  <2>7. (o \o Upto(n - 1)) \o <<w[n]>> = o \o (Upto(n - 1) \o <<w[n]>>)
    <3>1. PICK v, x : v = Upto(n - 1) /\ x = <<w[n]>>
      BY Zenon
    <3>2. v \in Seq(Token) /\ x \in Seq(Token)
      BY <1>1, <3>1, SubSeqProperties
    <3>3. Apart(o, v, x)
      BY <1>1, <3>2, TextsApart, Zenon
    <3> QED
      BY <3>1, <3>3, Zenon DEF Apart
  <2>8. Reads(o \o Upto(n), l, S, q2, A)
    BY <2>2, <2>6, <2>7, Zenon
  <2> QED
    BY <2>8, Zenon
<1> HIDE DEF Read, Bad, Upto
<1>4. Read(Len(w))
  <2>1. SUFFICES ASSUME ~Read(Len(w)) PROVE FALSE
    OBVIOUS
  <2>2. Bad \in SUBSET Nat /\ Len(w) \in Bad
    BY <1>1, <2>1 DEF Bad
  <2>3. PICK n \in Bad : \A j \in Bad : n <= j
    BY <2>2, LeastOf
  <2>4. n \in 0..Len(w) /\ ~Read(n)
    BY <2>3 DEF Bad
  <2>5. n # 0
    BY <1>2, <2>4
  <2>6. n \in 1..Len(w) /\ n - 1 \in 0..Len(w) /\ ~(n <= n - 1)
    BY <1>1, <2>4, <2>5
  <2>7. Read(n - 1)
    BY <2>3, <2>6 DEF Bad
  <2> QED
    BY <1>3, <2>4, <2>6, <2>7
<1>5. Upto(Len(w)) = w
  BY SubSeqFull DEF Upto
<1> QED
  BY <1>4, <1>5, Zenon DEF Read

-----------------------------------------------------------------------------
Rested == Rest(out, line)
Will == LitOf(out, line, leds)
Believed == (IF green = 1 THEN {"LED1"} ELSE {}) \cup (IF red = 1 THEN {"LED2"} ELSE {})

(* What the board will make of all that was sent to it: never both LEDs; the
   green one alone once the program believes in it; with nobody at the
   terminal, what the program believes once it has switched them. *)
LedInv ==
    /\ out \in Seq(Token) /\ line \in Plain /\ leds \in SUBSET Led
    /\ typed \in Seq(Keys) /\ keys \in Nat
    /\ green \in {0, 1} /\ red \in {0, 1} /\ green + red <= 1
    /\ Rested \in Plain
    /\ Will # Led
    /\ green = 1 /\ ~cleared => Will = {"LED1"}
    /\ keys = 0 => /\ typed = <<>> /\ pc \notin {"lin", "baud"}
                   /\ Rested = "empty"
                   /\ green + red = 1 => Will = Believed

(* What is already sent, as the starting point of more. *)
LEMMA ReadsOut ==
    ASSUME LedInv
    PROVE  Reads(out, line, leds, Rested, Will) /\ Will \in SUBSET Led
<1>1. Will \in SUBSET Led
  BY DEF Will, LitOf
<1> QED
  BY <1>1, Zenon DEF Reads, LedInv, Rested, Will

(* The board reads all that was sent. *)
LEMMA BoardReads ==
    ASSUME NEW l \in Plain, NEW S \in SUBSET Led
    PROVE  Rest(<<>>, l) = l /\ LitOf(<<>>, l, S) = S
<1>1. PICK o : o = <<>>
  OBVIOUS
<1>2. o \in Seq(Token) /\ Len(o) = 0 /\ EndsOf(o) = {}
  <2>1. o \in Seq(Token) /\ Len(o) = 0
    BY <1>1, EmptySeq, Zenon
  <2> QED
    BY <2>1 DEF EndsOf
<1>3. LitOf(o, l, S) = S
  <2>1. \A led : About(o, l, led) = {}
    BY <1>2 DEF About
  <2>2. \A led : Lit(o, l, S, led) <=> led \in S
    BY <2>1, Zenon DEF Lit
  <2> QED
    BY <2>2 DEF LitOf
<1>4. EndBefore(o, 1) = 0
  <2>1. 1 \in 1..Len(o) + 1
    BY <1>2
  <2>2. EndBefore(o, 1) = 0 \/ EndBefore(o, 1) \in EndsOf(o)
    BY <1>2, <2>1, EndIs, Zenon
  <2> QED
    BY <1>2, <2>2
<1>5. SubSeq(o, 0 + 1, 0) = <<>> /\ 1 - 1 = 0 /\ Len(o) + 1 = 1
  BY <1>2, SubSeqEmpty
<1>6. WordsAt(o, l, 1, 0, 0)
  BY <1>4, <1>5, WordsIs, Zenon
<1>7. Words(o, l, 1) = Begun(l, 0)
  <2>1. Begun(l, 0) \o <<>> = Begun(l, 0)
    BY DEF Begun
  <2> QED
    BY <1>5, <1>6, <2>1, Zenon DEF WordsAt
<1>8. TextOf(Begun(l, 0)) = l
  <2>1. CASE l = "empty"
    BY <2>1 DEF Begun, TextOf
  <2>2. CASE l # "empty"
    <3>1. Begun(l, 0) = <<l>>
      BY <2>2 DEF Begun
    <3>2. <<l>> # <<>> /\ Len(<<l>>) = 1 /\ Head(<<l>>) = l
      OBVIOUS
    <3> QED
      BY <3>1, <3>2, Zenon DEF TextOf
  <2> QED
    BY <2>1, <2>2
<1>9. Rest(o, l) = l
  BY <1>5, <1>7, <1>8, Zenon DEF Rest, LineOf
<1> QED
  BY <1>1, <1>3, <1>9, Zenon

(* A step that sends nothing. *)
LEMMA LedQuiet ==
    ASSUME LedInv, UNCHANGED <<out, line, leds, green, red, cleared>>,
           typed' \in Seq(Keys), keys' \in Nat,
           keys' = 0 => keys = 0 /\ typed' = <<>> /\ pc' \notin {"lin", "baud"}
    PROVE  LedInv'
<1>1. Rested' = Rested /\ Will' = Will /\ Believed' = Believed
  BY Zenon DEF Rested, Will, Believed
<1> QED
  BY <1>1 DEF LedInv

(* The user has pressed a key, and the program sends r and A. *)
LEMMA LedSend ==
    ASSUME LedInv, NEW r \in Plain, NEW A, Reads(out', line, leds, r, A),
           UNCHANGED <<line, leds, green, red, keys>>, typed' = <<>>, keys # 0,
           A # Led, green = 1 /\ ~cleared' => A = {"LED1"}
    PROVE  LedInv'
<1>1. Rested' = r /\ Will' = A /\ out' \in Seq(Token)
  BY Zenon DEF Rested, Will, Reads
<1>2. keys' # 0
  BY DEF LedInv
<1>3. typed' \in Seq(Keys)
  BY EmptySeq, Zenon
<1> QED
  BY <1>1, <1>2, <1>3 DEF LedInv

(* What the user types in the loop. *)
LEMMA LedTerminal ==
    ASSUME LedInv, ReadTerminal
    PROVE  LedInv'
<1>1. /\ typed # <<>> /\ typed' = <<>> /\ keys' = keys
      /\ UNCHANGED <<line, leds, green, red, keys>>
  BY Zenon DEF ReadTerminal, board
<1>2. Reads(out, line, leds, Rested, Will) /\ Will \in SUBSET Led /\ Rested \in Plain
  BY ReadsOut DEF LedInv
<1>3. Will # Led /\ (green = 1 /\ ~cleared => Will = {"LED1"}) /\ keys # 0 /\ keys \in Nat
  BY <1>1 DEF LedInv
<1>4. CASE UNCHANGED <<out, cleared>>
  <2>1. typed' \in Seq(Keys)
    BY <1>1, EmptySeq, Zenon
  <2> QED
    BY <1>1, <1>3, <1>4, <2>1, LedQuiet
<1>5. CASE out' = out \o Setup \o <<"key">> /\ cleared' = TRUE
  <2>1. Reads(out \o Setup, line, leds, "empty", {})
    BY <1>2, TakesSetup, Zenon DEF Takes
  <2>2. Takes(<<"key">>, "empty", {}, "key", {})
    BY KeyTaken, Zenon
  <2>3. Reads(out', line, leds, "key", {})
    BY <1>5, <2>1, <2>2, Zenon DEF Takes
  <2>4. "key" \in Plain /\ {} # Led /\ ~(green = 1 /\ ~cleared')
    BY <1>5 DEF Plain, Led
  <2> QED
    BY <1>1, <1>3, <2>3, <2>4, LedSend, Zenon
<1>6. CASE out' = out \o <<Sent(Key), Sent(Key)>> /\ cleared' = cleared
  <2>1. <<Sent(Key), Sent(Key)>> \in Seq({"key", "eol"})
    <3>1. Sent(Key) \in {"key", "eol"}
      BY DEF Sent
    <3>2. \A k \in {"key", "eol"} : <<k, k>> \in Seq({"key", "eol"})
      OBVIOUS
    <3> QED
      BY <3>1, <3>2, Zenon
  <2>2. PICK q \in Plain : Reads(out', line, leds, q, Will)
    BY <1>2, <1>6, <2>1, TakesKeys, Zenon
  <2>3. green = 1 /\ ~cleared' => Will = {"LED1"}
    BY <1>3, <1>6
  <2> QED
    BY <1>1, <1>3, <2>2, <2>3, LedSend, Zenon
<1> QED
  BY <1>4, <1>5, <1>6, Zenon DEF ReadTerminal

(* The text that opens the LIN bus. *)
LEMMA LedLinOpen ==
    ASSUME LedInv, LinOpen, keys # 0, typed' = <<>>,
           UNCHANGED <<line, leds, green, red, keys, cleared>>
    PROVE  LedInv'
<1>1. Reads(out, line, leds, Rested, Will) /\ Will \in SUBSET Led /\ Rested \in Plain
  BY ReadsOut DEF LedInv
<1>2. Reads(out \o TwoLines("LIN OPEN"), line, leds, "empty", Will)
  BY <1>1, LinTaken, Zenon DEF Takes
<1>3. Takes(<<"key">>, "empty", Will, "key", Will)
  BY KeyTaken, <1>1, Zenon
<1>4. "key" \in Plain
  BY DEF Plain
<1>5. Reads(out', line, leds, "key", Will)
  BY <1>2, <1>3, Zenon DEF Takes, LinOpen
<1>6. Will # Led /\ (green = 1 /\ ~cleared' => Will = {"LED1"})
  BY DEF LedInv
<1> QED
  BY <1>4, <1>5, <1>6, LedSend, Zenon

(* What the user types in the LIN menu. *)
LEMMA LedMenu ==
    ASSUME LedInv, ReadLinOption \/ ReadBaudrate
    PROVE  LedInv'
<1>1. /\ typed # <<>> /\ typed' = <<>> /\ cleared' = cleared
      /\ UNCHANGED <<line, leds, green, red, keys>>
  BY Zenon DEF ReadLinOption, ReadBaudrate, board
<1>2. Reads(out, line, leds, Rested, Will) /\ Will \in SUBSET Led /\ Rested \in Plain
  BY ReadsOut DEF LedInv
<1>3. /\ Will # Led /\ keys # 0 /\ keys \in Nat /\ Len(typed) \in Nat
      /\ green = 1 /\ ~cleared' => Will = {"LED1"}
  BY <1>1 DEF LedInv
<1>4. CASE out' = out
  <2>1. typed' \in Seq(Keys)
    BY <1>1, EmptySeq, Zenon
  <2> QED
    BY <1>1, <1>3, <1>4, <2>1, LedQuiet
<1>5. CASE out' = out \o Line("LIN CLOSE") \o [k \in 1..Len(typed) |-> "key"]
  <2>1. Reads(out \o Line("LIN CLOSE"), line, leds, "empty", Will)
    BY <1>2, LinTaken, Zenon DEF Takes
  <2>2. [k \in 1..Len(typed) |-> "key"] \in Seq({"key", "eol"}) /\ "empty" \in Plain
    BY <1>3 DEF Plain
  <2>3. PICK q \in Plain : Reads(out', line, leds, q, Will)
    BY <1>5, <2>1, <2>2, TakesKeys, Zenon
  <2> QED
    BY <1>1, <1>3, <2>3, LedSend, Zenon
<1>6. CASE out' = out \o [k \in 1..Len(typed) |-> Sent(typed[k])]
  <2>1. [k \in 1..Len(typed) |-> Sent(typed[k])] \in Seq({"key", "eol"})
    <3>1. \A k \in 1..Len(typed) : Sent(typed[k]) \in {"key", "eol"}
      BY DEF Sent
    <3> QED
      BY <1>3, <3>1
  <2>2. PICK q \in Plain : Reads(out', line, leds, q, Will)
    BY <1>2, <1>6, <2>1, TakesKeys, Zenon
  <2> QED
    BY <1>1, <1>3, <2>2, LedSend, Zenon
<1>7. CASE LinOpen
  BY <1>1, <1>3, <1>7, LedLinOpen
<1> QED
  BY <1>4, <1>5, <1>6, <1>7, Zenon DEF ReadLinOption, ReadBaudrate

(* The board reads and obeys: what was to come has come. *)
LEMMA LedObey ==
    ASSUME LedInv, Obey
    PROVE  LedInv'
<1>1. out' = <<>> /\ line' = Rested /\ leds' = Will
  <2>1. LineEnds = EndsOf(out) /\ \A k : LineTo(k) = LineOf(out, line, k)
    BY Zenon DEF LineEnds, LineTo, LineOf, Words, Begun, EndBefore, EndsOf
  <2>2. out' = <<>> /\ line' = LineTo(Len(out) + 1)
    BY Zenon DEF Obey
  <2>3. \A led : {k \in LineEnds : LineTo(k) \in {LedSet(led), LedClear(led)}}
                 = About(out, line, led)
    BY <2>1, Zenon DEF About
  <2>4. leds' = {led \in {"LED1", "LED2"} :
                   IF About(out, line, led) = {} THEN led \in leds
                   ELSE LineOf(out, line, LastOf(About(out, line, led))) = LedSet(led)}
    BY <2>1, <2>3, Zenon DEF Obey
  <2> QED
    BY <2>1, <2>2, <2>4, Zenon DEF Rested, Rest, Will, LitOf, Lit, Led
<1>2. Rested \in Plain /\ Will \in SUBSET Led
  BY ReadsOut DEF LedInv
<1>3. Rested' = Rested /\ Will' = Will
  <2>1. Rest(<<>>, Rested) = Rested /\ LitOf(<<>>, Rested, Will) = Will
    BY <1>2, BoardReads, Zenon
  <2>2. Rested' = Rest(<<>>, Rested) /\ Will' = LitOf(<<>>, Rested, Will)
    BY <1>1, Zenon DEF Rested, Will
  <2> QED
    BY <2>1, <2>2, Zenon
<1>4. UNCHANGED <<typed, keys, pc, green, red, cleared>> /\ Believed' = Believed
  BY Zenon DEF Obey, program, Believed
<1>5. out' \in Seq(Token)
  BY <1>1, EmptySeq, Zenon
<1> QED
  BY <1>1, <1>2, <1>3, <1>4, <1>5 DEF LedInv

(* The two texts for the LEDs. *)
LEMMA LedSwitch ==
    ASSUME LedInv, NEW speed, SwitchLeds(speed), UNCHANGED <<line, leds, typed, keys>>,
           pc' = "poll"
    PROVE  LedInv'
<1>1. Reads(out, line, leds, Rested, Will) /\ Will \in SUBSET Led /\ Rested \in Plain
  BY ReadsOut DEF LedInv
<1>2. typed \in Seq(Keys) /\ keys \in Nat /\ "empty" \in Plain
  BY DEF LedInv, Plain
<1>3. CASE /\ out' = out \o <<"eol", "eol">> \o Line("LED1 SET") \o Line("LED2 CLEAR")
           /\ green' = 1 /\ red' = 0 /\ cleared' = FALSE
  <2>1. Reads(out', line, leds, "empty", {"LED1"})
    BY <1>1, <1>3, TakesGreen, Zenon
  <2>2. Rested' = "empty" /\ Will' = {"LED1"} /\ out' \in Seq(Token)
    BY <2>1, Zenon DEF Rested, Will, Reads
  <2>3. green' = 1 /\ red' = 0 /\ cleared' = FALSE
    BY <1>3, Zenon
  <2>4. Believed' = {"LED1"} /\ {"LED1"} # Led
    BY <2>3 DEF Believed, Led
  <2>5. (keys = 0 => typed = <<>>) /\ line \in Plain /\ leds \in SUBSET Led
    BY DEF LedInv
  <2> QED
    BY <1>2, <2>2, <2>3, <2>4, <2>5 DEF LedInv
<1>4. CASE /\ out' = out \o Line("LED2 SET") \o Line("LED1 CLEAR")
           /\ red' = 1 /\ green' = 0 /\ cleared' = FALSE
  <2> DEFINE A == (IF Rested = "empty" THEN Will \cup {"LED2"} ELSE Will) \ {"LED1"}
  <2>1. Reads(out', line, leds, "empty", A)
    BY <1>1, <1>4, TakesRed, Zenon
  <2>2. Rested' = "empty" /\ Will' = A /\ out' \in Seq(Token)
    <3> HIDE DEF A
    <3> QED
      BY <2>1, Zenon DEF Rested, Will, Reads
  <2>3. A # Led /\ (Rested = "empty" => A = {"LED2"})
    BY <1>1, Zenon DEF Led
  <2>4. green' = 0 /\ red' = 1 /\ cleared' = FALSE
    BY <1>4, Zenon
  <2>5. Believed' = {"LED2"}
    BY <2>4 DEF Believed
  <2>6. /\ keys = 0 => typed = <<>> /\ Rested = "empty"
        /\ line \in Plain /\ leds \in SUBSET Led
    BY DEF LedInv
  <2> HIDE DEF A
  <2> QED
    BY <1>2, <2>2, <2>3, <2>4, <2>5, <2>6 DEF LedInv
<1>5. CASE UNCHANGED <<out, green, red, cleared>>
  <2>1. keys' = 0 => keys = 0 /\ typed' = <<>> /\ pc' \notin {"lin", "baud"}
    BY DEF LedInv
  <2> QED
    BY <1>2, <1>5, <2>1, LedQuiet
<1> QED
  BY <1>3, <1>4, <1>5, Zenon DEF SwitchLeds

(* LedInv holds at first. *)
LEMMA LedInit ==
    ASSUME Init
    PROVE  LedInv
<1>1. "empty" \in Plain
  BY DEF Plain
<1>2. out = <<>> /\ line = "empty" /\ typed = <<>> /\ green = 0 /\ red = 0
      /\ pc = "poll" /\ keys = 0 /\ leds \in {{}, {"LED1"}, {"LED2"}}
  BY Zenon DEF Init
<1>3. leds \in SUBSET Led /\ leds # Led
  BY <1>2 DEF Led
<1>4. out \in Seq(Token) /\ typed \in Seq(Keys)
  BY <1>2, EmptySeq, Zenon
<1>5. Rested = "empty" /\ Will = leds
  BY <1>1, <1>2, <1>3, BoardReads, Zenon DEF Rested, Will
<1> QED
  BY <1>1, <1>2, <1>3, <1>4, <1>5 DEF LedInv

(* Every step keeps LedInv, however many pieces a recv returns. *)
LEMMA LedNext ==
    ASSUME LedInv, Next
    PROVE  LedInv'
<1>1. typed \in Seq(Keys) /\ keys \in Nat
      /\ (keys = 0 => typed = <<>> /\ pc \notin {"lin", "baud"})
  BY DEF LedInv
<1>2. CASE ReportMore \/ Answer \/ Close \/ \E f \in Frames : Report(f)
  <2>1. UNCHANGED <<out, line, leds, green, red, cleared, typed, keys, pc>>
    BY <1>2, Zenon DEF ReportMore, Answer, Close, Report, program
  <2> QED
    BY <1>1, <2>1, LedQuiet
<1>3. CASE Obey
  BY <1>3, LedObey
<1>4. ASSUME NEW k \in Keys, Press(k) PROVE LedInv'
  <2>1. UNCHANGED <<out, line, leds, green, red, cleared, pc>>
    BY <1>4, Zenon DEF Press, program, board
  <2>2. typed' \in Seq(Keys)
    BY <1>1, <1>4 DEF Press
  <2>3. keys' \in Nat /\ keys' # 0
    BY <1>1, <1>4 DEF Press
  <2> QED
    BY <2>1, <2>2, <2>3, LedQuiet
<1>5. CASE Terminal
  BY <1>5, LedTerminal, LedMenu, Zenon DEF Terminal
<1>6. CASE TerminalEnds
  <2>1. UNCHANGED <<line, leds, green, red, cleared, typed, keys>> /\ typed = <<>>
    BY <1>6, Zenon DEF TerminalEnds, board
  <2>2. CASE out' = out /\ (pc' = "exit" \/ pc' = "poll")
    BY <1>1, <2>1, <2>2, LedQuiet
  <2>3. CASE pc = "baud" /\ LinOpen
    BY <1>1, <2>1, <2>3, LedLinOpen
  <2> QED
    BY <1>6, <2>2, <2>3, Zenon DEF TerminalEnds
<1>7. ASSUME NEW n \in 1..Merge, RecvHead(n) \/ RecvMid(n) PROVE LedInv'
  <2>1. UNCHANGED <<out, line, leds, green, red, cleared, typed, keys>>
    BY <1>7, Zenon DEF RecvHead, RecvMid, Receive, board
  <2>2. pc' = pc \/ pc' = "part2" \/ pc' = "part3"
    BY <1>7, Zenon DEF RecvHead, RecvMid
  <2> QED
    BY <1>1, <2>1, <2>2, LedQuiet
<1>8. ASSUME NEW n \in 1..Merge, RecvTail(n) PROVE LedInv'
  <2>1. UNCHANGED <<line, leds, typed, keys>> /\ pc' = "poll"
    BY <1>8, Zenon DEF RecvTail, Receive, board
  <2>2. \/ SwitchLeds(SpeedIn(buf[2]))
        \/ UNCHANGED <<out, green, red, cleared>>
    BY <1>8, Zenon DEF RecvTail
  <2>3. CASE SwitchLeds(SpeedIn(buf[2]))
    BY <2>1, <2>3, LedSwitch, Zenon
  <2>4. CASE UNCHANGED <<out, green, red, cleared>>
    BY <1>1, <2>1, <2>4, LedQuiet
  <2> QED
    BY <2>2, <2>3, <2>4
<1>9. CASE RecvEnd
  <2>1. UNCHANGED <<out, line, leds, green, red, cleared, typed, keys>>
        /\ (pc' = "exit" \/ pc' = "poll")
    BY <1>9, Zenon DEF RecvEnd, board
  <2> QED
    BY <1>1, <2>1, LedQuiet
<1> QED
  BY <1>2, <1>3, <1>4, <1>5, <1>6, <1>7, <1>8, <1>9 DEF Next, Socket

(* LedInv is inductive. *)
LEMMA LedStep == LedInv /\ [Next]_vars => LedInv'
<1>1. ASSUME LedInv, UNCHANGED vars PROVE LedInv'
  <2>1. UNCHANGED <<out, line, leds, green, red, cleared, typed, keys, pc>>
    BY <1>1, Zenon DEF vars, program, board
  <2>2. typed' \in Seq(Keys) /\ keys' \in Nat
        /\ (keys' = 0 => keys = 0 /\ typed' = <<>> /\ pc' \notin {"lin", "baud"})
    BY <1>1, <2>1 DEF LedInv
  <2> QED
    BY <1>1, <2>1, <2>2, LedQuiet
<1> QED
  BY <1>1, LedNext

(* With all of its input read the board has the LEDs it was to have. *)
LEMMA LedsAtRest ==
    ASSUME LedInv, out = <<>>
    PROVE  Rested = line /\ Will = leds
<1>1. line \in Plain /\ leds \in SUBSET Led
  BY DEF LedInv
<1> QED
  BY <1>1, BoardReads, Zenon DEF Rested, Will

(* The board is never left with both LEDs on, whatever the user types and
   however the two directions interleave. *)
THEOREM NeverBothLedsOn == Spec => []NeverBothLeds
<1>1. LedInv => NeverBothLeds
  BY LedsAtRest DEF LedInv, NeverBothLeds, Led
<1> QED
  BY <1>1, LedInit, LedStep, PTL DEF Spec

(* Once the program believes in the green LED it is the one that is on,
   unless s has been pressed since. *)
THEOREM GreenStaysCertain == Spec => []GreenIsCertain
<1>1. LedInv => GreenIsCertain
  BY LedsAtRest DEF LedInv, GreenIsCertain
<1> QED
  BY <1>1, LedInit, LedStep, PTL DEF Spec

(* With nobody at the terminal the LEDs, once switched, are those the program
   believes to be on, for any frames and any number of pieces in a recv, and
   however an earlier run of the program has left them. *)
THEOREM LedsStayAsBelieved == Spec => []LedsAsBelieved
<1>1. LedInv => LedsAsBelieved
  <2>1. ASSUME LedInv, AtRest, keys = 0, green + red = 1 PROVE leds = Believed
    <3>1. out = <<>>
      BY <2>1 DEF AtRest
    <3>2. Will = leds /\ Will = Believed
      BY <2>1, <3>1, LedsAtRest DEF LedInv
    <3> QED
      BY <3>2
  <2> QED
    BY <2>1 DEF LedsAsBelieved, Believed
<1> QED
  BY <1>1, LedInit, LedStep, PTL DEF Spec
=============================================================================
