----------------------- MODULE TableNegotiationProofs -----------------------
(***************************************************************************)
(* The ends of TableNegotiation implement Rfc1143, for any options that    *)
(* fit the array, any tables and any requests.                             *)
(***************************************************************************)
EXTENDS TableNegotiation, FiniteSetTheorems, WellFoundedInduction, TLAPS

QState == R!QState
Bytes == {Q_MAKE(a, b) : a \in QState, b \in QState}

(* Q_US and Q_HIM take a byte of Q_MAKE apart again. *)
LEMMA Packing ==
    \A a, b \in QState :
        /\ Q_MAKE(a, b) \in Nat
        /\ Q_US(Q_MAKE(a, b)) = a
        /\ Q_HIM(Q_MAKE(a, b)) = b
<1>1. /\ DOMAIN Number = QState
      /\ \A a \in QState : Number[a] \in 0..5
      /\ \A a, b \in QState : Number[a] = Number[b] => a = b
  BY DEF Number, QState, R!QState
<1>2. ASSUME NEW a \in QState
      PROVE  Name[Number[a]] = a
  <2>1. Name[Number[a]] = CHOOSE s \in DOMAIN Number : Number[s] = Number[a]
    BY <1>1 DEF Name
  <2> QED
    BY <1>1, <2>1
<1>3. ASSUME NEW a \in QState, NEW b \in QState
      PROVE  /\ Q_MAKE(a, b) \in Nat
             /\ Q_MAKE(a, b) % 16 = Number[a]
             /\ Q_MAKE(a, b) \div 16 = Number[b]
  <2>1. Number[a] \in 0..5 /\ Number[b] \in 0..5
    BY <1>1
  <2>2. \A x, y \in 0..5 : x + 16 * y \in Nat /\ (x + 16 * y) % 16 = x /\ (x + 16 * y) \div 16 = y
    OBVIOUS
  <2> QED
    BY <2>1, <2>2 DEF Q_MAKE
<1> QED
  BY <1>2, <1>3 DEF Q_US, Q_HIM

(* A byte of the array is made of two states, and zero of NO and NO. *)
LEMMA BytesPacked ==
    /\ Bytes \subseteq Nat
    /\ 0 \in Bytes /\ Q_US(0) = "NO" /\ Q_HIM(0) = "NO"
    /\ \A s \in Bytes : Q_US(s) \in QState /\ Q_HIM(s) \in QState
<1>1. "NO" \in QState /\ Q_MAKE("NO", "NO") = 0
  BY DEF QState, R!QState, Q_MAKE, Number
<1>2. \A s \in Bytes : \E a, b \in QState : s = Q_MAKE(a, b)
  BY DEF Bytes
<1>3. 0 \in Bytes
  BY <1>1 DEF Bytes
<1> QED
  BY <1>1, <1>2, <1>3, Packing

-----------------------------------------------------------------------------
(* The options for which the array grew: every fourth element. *)
Heads(t) == {t.q[i].telopt : i \in {j \in 1..t.q_size : j % 4 = 1}}

(* The array is as long as q_size says, and that has not wrapped. *)
GoodTable(t) ==
    /\ t.q_size \in Nat /\ t.q_size % 4 = 0
    /\ t = [q |-> t.q, q_size |-> t.q_size]
    /\ t.q \in [1..t.q_size -> [telopt : Nat, state : Bytes]]
    /\ Heads(t) \subseteq Opt
    /\ t.q_size = 4 * Cardinality(Heads(t))

(* Find answers the first element of an option that has one. *)
LEMMA FindFirst ==
    ASSUME NEW t, GoodTable(t), NEW o, Known(t, o)
    PROVE  /\ Find(t, o) \in 1..t.q_size
           /\ t.q[Find(t, o)].telopt = o
           /\ \A j \in 1..Find(t, o) - 1 : t.q[j].telopt # o
<1> DEFINE hits == {i \in 1..t.q_size : t.q[i].telopt = o}
<1>1. hits # {} /\ hits \subseteq Nat
  BY DEF Known, GoodTable
<1>2. PICK x \in hits : \A y \in hits : ~(<<y, x>> \in OpToRel(<, Nat))
  <2> HIDE DEF hits
  <2> QED
    BY <1>1, NatLessThanWellFounded, WFMin, Zenon
<1>3. \A y \in hits : ~(y < x)
  BY <1>1, <1>2, Zenon DEF OpToRel
<1>4. /\ x \in 1..t.q_size
      /\ t.q[x].telopt = o
      /\ \A j \in 1..x - 1 : t.q[j].telopt # o
  BY <1>3 DEF GoodTable
<1> QED
  BY <1>4 DEF Find

(* The array has room for another option: the options it grew for are others. *)
LEMMA Room ==
    ASSUME NEW t, GoodTable(t), NEW o \in Opt, ~Known(t, o)
    PROVE  /\ t.q_size + Grow < UCHAR
           /\ IsFiniteSet(Heads(t)) /\ o \notin Heads(t)
<1>1. o \notin Heads(t)
  BY DEF Known, Heads
<1>2. IsFiniteSet(Opt \ {o}) /\ Cardinality(Opt \ {o}) = Cardinality(Opt) - 1
  BY OptionsAssumption, FS_RemoveElement
<1>3. IsFiniteSet(Heads(t)) /\ Cardinality(Heads(t)) <= Cardinality(Opt \ {o})
  <2>1. Heads(t) \subseteq Opt \ {o}
    BY <1>1 DEF GoodTable
  <2> QED
    BY <1>2, <2>1, FS_Subset
<1>4. Cardinality(Opt) \in Nat /\ Cardinality(Heads(t)) \in Nat
  BY <1>3, OptionsAssumption, FS_CardinalityType
<1>5. t.q_size = 4 * Cardinality(Heads(t)) /\ 4 * Cardinality(Opt) < UCHAR
  BY OptionsAssumption DEF GoodTable, Grow
<1>6. Cardinality(Heads(t)) + 1 <= Cardinality(Opt)
  BY <1>2, <1>3, <1>4
<1>7. t.q_size + 4 < UCHAR
  BY <1>4, <1>5, <1>6, UCharAssumption
<1> QED
  BY <1>1, <1>3, <1>7 DEF Grow

(* Saving the state of an option that has an element changes only that. *)
LEMMA SetKnown ==
    ASSUME NEW t, GoodTable(t), NEW o \in Opt, NEW s \in Bytes, Known(t, o)
    PROVE  /\ GoodTable(Set(t, o, s))
           /\ \A p \in Opt : Get(Set(t, o, s), p) = IF p = o THEN s ELSE Get(t, p)
<1> DEFINE u == Set(t, o, s)
           f == Find(t, o)
<1>1. /\ f \in 1..t.q_size
      /\ t.q[f].telopt = o
  BY FindFirst
<1>2. u = [q |-> [t.q EXCEPT ![f].state = s], q_size |-> t.q_size]
  BY Zenon DEF Set, GoodTable
<1>3. /\ u.q_size = t.q_size
      /\ u.q \in [1..u.q_size -> [telopt : Nat, state : Bytes]]
      /\ \A i \in 1..t.q_size : /\ u.q[i].telopt = t.q[i].telopt
                               /\ u.q[i].state = IF i = f THEN s ELSE t.q[i].state
  BY <1>1, <1>2 DEF GoodTable
<1>4. Heads(u) = Heads(t)
  BY <1>3 DEF Heads
<1>5. GoodTable(u)
  BY <1>2, <1>3, <1>4 DEF GoodTable
<1>6. ASSUME NEW p \in Opt
      PROVE  Get(u, p) = IF p = o THEN s ELSE Get(t, p)
  <2>1. Known(u, p) <=> Known(t, p)
    BY <1>3 DEF Known
  <2>2. CASE ~Known(t, p)
    BY <2>1, <2>2 DEF Get
  <2>3. CASE Known(t, p)
    <3> DEFINE g == Find(t, p)
               h == Find(u, p)
    <3>1. g \in 1..t.q_size /\ t.q[g].telopt = p /\ \A j \in 1..g - 1 : t.q[j].telopt # p
      BY <2>3, FindFirst
    <3>2. h \in 1..u.q_size /\ u.q[h].telopt = p /\ \A j \in 1..h - 1 : u.q[j].telopt # p
      BY <1>5, <2>1, <2>3, FindFirst
    <3>3. g = h
      <4> HIDE DEF g, h, u
      <4>1. t.q_size \in Nat /\ g \in Nat /\ h \in Nat
        BY <3>1, <3>2, <1>3 DEF GoodTable
      <4>2. ~(g < h) /\ ~(h < g)
        BY <3>1, <3>2, <1>3, <4>1
      <4> QED
        BY <4>1, <4>2
    <3>4. p # o => g # f
      BY <1>1, <3>1
    <3>5. p = o => g = f
      OBVIOUS
    <3>6. Get(u, p) = u.q[g].state /\ Get(t, p) = t.q[g].state
      BY <2>1, <2>3, <3>3 DEF Get
    <3> HIDE DEF g, f, u
    <3> QED
      BY <1>3, <3>1, <3>4, <3>5, <3>6
  <2> QED
    BY <2>2, <2>3
<1> QED
  BY <1>5, <1>6

(* So does saving an option for which the array grows; the spare elements are
   what a lookup of option 0 would answer anyway. *)
LEMMA SetNew ==
    ASSUME NEW t, GoodTable(t), NEW o \in Opt, NEW s \in Bytes, ~Known(t, o)
    PROVE  /\ GoodTable(Set(t, o, s))
           /\ \A p \in Opt : Get(Set(t, o, s), p) = IF p = o THEN s ELSE Get(t, p)
<1> DEFINE u == Set(t, o, s)
           n == t.q_size
<1>1. n \in Nat /\ n % 4 = 0 /\ n + 4 < UCHAR /\ o \in Nat
  BY Room, OptionsAssumption DEF GoodTable, Grow
<1>2. u = [q |-> Grown(t, o, s), q_size |-> n + 4]
  <2>1. (n + 4) % UCHAR = n + 4
    BY <1>1, UCharAssumption
  <2> QED
    BY <2>1 DEF Set, Grow
<1>3. /\ u.q_size = n + 4
      /\ u.q \in [1..u.q_size -> [telopt : Nat, state : Bytes]]
      /\ \A i \in 1..n : /\ u.q[i].telopt = t.q[i].telopt
                       /\ u.q[i].state = t.q[i].state
      /\ u.q[n + 1].telopt = o /\ u.q[n + 1].state = s
      /\ \A i \in n + 2..n + 4 : u.q[i].telopt = 0 /\ u.q[i].state = 0
  BY <1>1, <1>2, BytesPacked DEF Grown, Grow, Entry, GoodTable
<1>a. u.q_size = n + 4
  BY <1>3
<1>b. ASSUME NEW i \in 1..n
      PROVE  /\ i \in 1..n + 4
             /\ u.q[i].telopt = t.q[i].telopt
             /\ u.q[i].state = t.q[i].state
  BY <1>1, <1>3
<1>c. u.q[n + 1].telopt = o /\ u.q[n + 1].state = s
  BY <1>3
<1>d. ASSUME NEW i \in n + 2..n + 4
      PROVE  u.q[i].telopt = 0 /\ u.q[i].state = 0
  BY <1>3
<1> HIDE DEF u, n
<1>4. Heads(u) = Heads(t) \cup {o}
  <2>1. Heads(u) = {u.q[i].telopt : i \in {j \in 1..n + 4 : j % 4 = 1}}
    BY <1>a DEF Heads
  <2>2. {j \in 1..n + 4 : j % 4 = 1} = {j \in 1..n : j % 4 = 1} \cup {n + 1}
    BY <1>1
  <2>3. Heads(u) = {u.q[i].telopt : i \in {j \in 1..n : j % 4 = 1}} \cup {o}
    BY <1>c, <2>1, <2>2
  <2>4. {u.q[i].telopt : i \in {j \in 1..n : j % 4 = 1}} = Heads(t)
    BY <1>b DEF Heads, n
  <2> QED
    BY <2>3, <2>4
<1>5. Cardinality(Heads(u)) = Cardinality(Heads(t)) + 1
  BY <1>4, Room, FS_AddElement, Zenon
<1>6. GoodTable(u)
  <2>1. u = [q |-> u.q, q_size |-> u.q_size]
    BY <1>2
  <2>2. u.q_size \in Nat /\ u.q_size % 4 = 0
    BY <1>1, <1>3
  <2>3. Heads(u) \subseteq Opt
    BY <1>4 DEF GoodTable
  <2>4. u.q_size = 4 * Cardinality(Heads(u))
    <3>1. Cardinality(Heads(t)) \in Nat
      BY Room, FS_CardinalityType
    <3> QED
      BY <3>1, <1>3, <1>5 DEF GoodTable, n
  <2> QED
    BY <1>3, <2>1, <2>2, <2>3, <2>4 DEF GoodTable
<1>7. ASSUME NEW p \in Opt
      PROVE  Get(u, p) = IF p = o THEN s ELSE Get(t, p)
  <2>1. ASSUME Known(t, p)
        PROVE  Get(u, p) = Get(t, p) /\ p # o
    <3>1. PICK g \in 1..n : /\ g = Find(t, p)
                            /\ t.q[g].telopt = p
                            /\ \A j \in 1..g - 1 : t.q[j].telopt # p
      BY <2>1, FindFirst DEF n
    <3>2. Known(u, p)
      BY <1>a, <1>b, <3>1 DEF Known
    <3>3. PICK h \in 1..n + 4 : /\ h = Find(u, p)
                                /\ u.q[h].telopt = p
                                /\ \A j \in 1..h - 1 : u.q[j].telopt # p
      BY <1>6, <1>a, <3>2, FindFirst
    <3>4. ~(g < h)
      <4>1. u.q[g].telopt = p
        BY <1>b, <3>1
      <4>2. g < h => g \in 1..h - 1
        BY <1>1
      <4> QED
        BY <3>3, <4>1, <4>2
    <3>5. ~(h < g)
      <4>1. h < g => h \in 1..g - 1 /\ h \in 1..n
        BY <1>1
      <4> QED
        BY <1>b, <3>1, <3>3, <4>1
    <3>6. g = h
      BY <1>1, <3>4, <3>5
    <3> QED
      BY <1>b, <2>1, <3>1, <3>2, <3>3, <3>6 DEF Get
  <2>2. ASSUME ~Known(t, p), Known(u, p)
        PROVE  Get(u, p) = IF p = o THEN s ELSE 0
    <3>1. PICK h \in 1..n + 4 : /\ h = Find(u, p)
                                /\ u.q[h].telopt = p
                                /\ \A j \in 1..h - 1 : u.q[j].telopt # p
      BY <1>6, <1>a, <2>2, FindFirst
    <3>2. h \notin 1..n
      BY <1>b, <2>2, <3>1 DEF Known, n
    <3>3. h = n + 1 \/ h \in n + 2..n + 4
      BY <1>1, <3>2
    <3>4. p = o => h = n + 1
      <4>1. h # n + 1 => n + 1 \in 1..h - 1
        BY <1>1, <3>3
      <4> QED
        BY <1>c, <3>1, <4>1
    <3> QED
      BY <1>c, <1>d, <2>2, <3>1, <3>3, <3>4 DEF Get
  <2>3. Known(u, o)
    <3>1. n + 1 \in 1..n + 4
      BY <1>1
    <3> QED
      BY <1>a, <1>c, <3>1 DEF Known
  <2> QED
    BY <2>1, <2>2, <2>3 DEF Get
<1> QED
  BY <1>6, <1>7 DEF u

(* Saving the state of an option is what it is in a map. *)
LEMMA SetGet ==
    ASSUME NEW t, GoodTable(t), NEW o \in Opt, NEW s \in Bytes
    PROVE  /\ GoodTable(Set(t, o, s))
           /\ \A p \in Opt : Get(Set(t, o, s), p) = IF p = o THEN s ELSE Get(t, p)
<1>1. CASE Known(t, o)
  BY <1>1, SetKnown
<1>2. CASE ~Known(t, o)
  BY <1>2, SetNew
<1> QED
  BY <1>1, <1>2

(* A lookup answers a byte of two states. *)
LEMMA GetTyped ==
    ASSUME NEW t, GoodTable(t), NEW o
    PROVE  Get(t, o) \in Bytes
<1>1. CASE Known(t, o)
  <2>1. Find(t, o) \in 1..t.q_size
    BY <1>1, FindFirst
  <2> QED
    BY <1>1, <2>1 DEF Get, GoodTable
<1>2. CASE ~Known(t, o)
  BY <1>2, BytesPacked DEF Get
<1> QED
  BY <1>1, <1>2

-----------------------------------------------------------------------------
OutcomeType == [q : QState, send : R!Cmd \cup {R!None}, ev : R!Cmd \cup {R!None}]
Streams == [End -> Seq(R!Message)]

(* What holds in every state: the arrays have not wrapped, and the commands
   under way are about options the arrays have room for. *)
TableInv ==
    /\ table = [e \in End |-> table[e]]
    /\ \A e \in End : GoodTable(table[e])
    /\ net \in Streams

(* A branch keeps the arrays good, and to a reader of the arrays it is the
   assignment to one half of one option that Rfc1143 makes of it. *)
LEMMA BranchSaves ==
    ASSUME TableInv, NEW e \in End, NEW o \in Opt, NEW side \in {"us", "him"},
           NEW out \in OutcomeType, NEW n, Branch(e, o, side, out, n)
    PROVE  /\ table' = [f \in End |-> table'[f]]
           /\ \A f \in End : GoodTable(table'[f])
           /\ side = "us" => R!SetUs(e, o, out, n)
           /\ side = "him" => R!SetHim(e, o, out, n)
<1> DEFINE us == IF side = "us" THEN out.q ELSE Half(e, o, "us")
           him == IF side = "him" THEN out.q ELSE Half(e, o, "him")
           b == Q_MAKE(us, him)
<1>1. \A f \in End, p \in Opt : Half(f, p, "us") \in QState /\ Half(f, p, "him") \in QState
  BY GetTyped, BytesPacked DEF Half, TableInv
<1>2. us \in QState /\ him \in QState
  BY <1>1 DEF OutcomeType
<1>3. b \in Bytes /\ Q_US(b) = us /\ Q_HIM(b) = him
  BY <1>2, Packing DEF Bytes
<1>4. /\ net' = R!Sent(n, e, o, out.send)
      /\ R!Report(e, o, out.ev)
  BY DEF Branch
<1>5. CASE out.q = Half(e, o, side)
  <2>1. table' = table
    BY <1>5 DEF Branch
  <2>2. Us' = Us /\ Him' = Him
    BY <2>1 DEF Us, Him, Half
  <2>3. side = "us" => Us = [Us EXCEPT ![e][o] = out.q]
    BY <1>5 DEF Us
  <2>4. side = "him" => Him = [Him EXCEPT ![e][o] = out.q]
    BY <1>5 DEF Him
  <2> QED
    BY <1>4, <2>1, <2>2, <2>3, <2>4 DEF TableInv, R!SetUs, R!SetHim
<1>6. CASE out.q # Half(e, o, side)
  <2>1. table' = [table EXCEPT ![e] = Set(table[e], o, b)]
    BY <1>6 DEF Branch, Save
  <2> HIDE DEF us, him, b
  <2>2. /\ table'[e] = Set(table[e], o, b)
        /\ \A f \in End : f # e => table'[f] = table[f]
        /\ table' = [f \in End |-> table'[f]]
    BY <2>1 DEF TableInv
  <2>3. /\ GoodTable(table'[e])
        /\ \A p \in Opt : Get(table'[e], p) = IF p = o THEN b ELSE Get(table[e], p)
    BY <1>3, <2>2, SetGet DEF TableInv
  <2>4. \A f \in End : GoodTable(table'[f])
    BY <2>2, <2>3 DEF TableInv
  <2>5. \A f \in End, p \in Opt :
          Get(table'[f], p) = IF f = e /\ p = o THEN b ELSE Get(table[f], p)
    BY <2>2, <2>3
  <2>6. \A f \in End, p \in Opt :
          /\ Half(f, p, "us")' = IF f = e /\ p = o THEN us ELSE Half(f, p, "us")
          /\ Half(f, p, "him")' = IF f = e /\ p = o THEN him ELSE Half(f, p, "him")
    BY <1>3, <2>5 DEF Half
  <2>7. Us' = [Us EXCEPT ![e][o] = us] /\ Him' = [Him EXCEPT ![e][o] = him]
    BY <2>6, Zenon DEF Us, Him
  <2>8. CASE side = "us"
    <3>1. us = out.q /\ him = Him[e][o]
      BY <2>8 DEF us, him, Him
    <3>2. Him' = Him
      BY <2>7, <3>1, Zenon DEF Him
    <3> QED
      BY <1>4, <2>2, <2>4, <2>7, <2>8, <3>1, <3>2 DEF R!SetUs
  <2>9. CASE side = "him"
    <3>1. him = out.q /\ us = Us[e][o]
      BY <2>9 DEF us, him, Us
    <3>2. Us' = Us
      BY <2>7, <3>1, Zenon DEF Us
    <3> QED
      BY <1>4, <2>2, <2>4, <2>7, <2>9, <3>1, <3>2 DEF R!SetHim
  <2> QED
    BY <2>8, <2>9
<1> QED
  BY <1>5, <1>6

(* The branches of the handlers are total and typed. *)
LEMMA BranchesTyped ==
    ASSUME NEW q \in QState, NEW o, NEW S
    PROVE  /\ R!OnWill(q, o \in S) \in OutcomeType
           /\ R!OnWont(q) \in OutcomeType
           /\ R!OnDo(q, o \in S) \in OutcomeType
           /\ R!OnDont(q) \in OutcomeType
           /\ \A cmd \in R!Cmd : R!AskOn(q, cmd) \in OutcomeType
           /\ \A cmd \in R!Cmd : R!AskOff(q, cmd) \in OutcomeType
BY DEF R!None, QState, R!QState, R!Cmd, OutcomeType, R!Outcome, R!OnWill, R!OnWont,
       R!OnDo, R!OnDont, R!AskOn, R!AskOff

(* Sending appends at most one command to one stream. *)
LEMMA SentTyped ==
    ASSUME NEW n \in Streams, NEW e \in End, NEW o \in Opt,
           NEW cmd \in R!Cmd \cup {R!None}
    PROVE  R!Sent(n, e, o, cmd) \in Streams
<1>1. CASE cmd = R!None
  BY <1>1 DEF R!Sent
<1>2. CASE cmd # R!None
  <2>1. [cmd |-> cmd, opt |-> o] \in R!Message
    BY <1>2 DEF R!Message
  <2>2. R!Far(e) \in End /\ n[R!Far(e)] \in Seq(R!Message)
    BY DEF R!Far, End, Streams
  <2>3. Append(n[R!Far(e)], [cmd |-> cmd, opt |-> o]) \in Seq(R!Message)
    BY <2>1, <2>2
  <2> QED
    BY <1>2, <2>2, <2>3 DEF R!Sent, Streams
<1> QED
  BY <1>1, <1>2

(* A branch on typed streams keeps the invariant. *)
LEMMA BranchKeepsInv ==
    ASSUME TableInv, NEW e \in End, NEW o \in Opt, NEW side \in {"us", "him"},
           NEW out \in OutcomeType, NEW n \in Streams, Branch(e, o, side, out, n)
    PROVE  TableInv'
<1>1. net' = R!Sent(n, e, o, out.send)
  BY DEF Branch
<1>2. net' \in Streams
  BY <1>1, SentTyped DEF OutcomeType
<1> QED
  BY <1>2, BranchSaves DEF TableInv

(* A lookup answers the state Rfc1143 has for the option. *)
LEMMA HalvesMap ==
    ASSUME TableInv, NEW e \in End, NEW o \in Opt
    PROVE  /\ Half(e, o, "us") = Us[e][o] /\ Us[e][o] \in QState
           /\ Half(e, o, "him") = Him[e][o] /\ Him[e][o] \in QState
<1>1. Half(e, o, "us") \in QState /\ Half(e, o, "him") \in QState
  BY GetTyped, BytesPacked DEF Half, TableInv
<1> QED
  BY <1>1 DEF Us, Him

(* telnet_negotiate on the array is telnet_negotiate of Rfc1143. *)
LEMMA RequestImplements ==
    ASSUME TableInv, NEW e \in End, NEW o \in Opt, NEW cmd \in R!Cmd,
           TelnetNegotiate(e, o, cmd)
    PROVE  TableInv' /\ R!TelnetNegotiate(e, o, cmd)
<1>1. /\ Half(e, o, "us") = Us[e][o] /\ Us[e][o] \in QState
      /\ Half(e, o, "him") = Him[e][o] /\ Him[e][o] \in QState
  BY HalvesMap
<1>2. /\ R!AskOn(Us[e][o], cmd) \in OutcomeType /\ R!AskOff(Us[e][o], cmd) \in OutcomeType
      /\ R!AskOn(Him[e][o], cmd) \in OutcomeType /\ R!AskOff(Him[e][o], cmd) \in OutcomeType
  BY <1>1, BranchesTyped
<1>3. net \in Streams /\ cmd \in Requests[e]
  BY DEF TableInv, TelnetNegotiate
<1>4. CASE cmd = "WILL"
  <2>1. Branch(e, o, "us", R!AskOn(Us[e][o], cmd), net)
    BY <1>1, <1>4 DEF TelnetNegotiate
  <2>2. TableInv' /\ R!SetUs(e, o, R!AskOn(Us[e][o], cmd), net)
    BY <1>2, <1>3, <2>1, BranchSaves, BranchKeepsInv
  <2> QED
    BY <1>3, <1>4, <2>2 DEF R!TelnetNegotiate
<1>5. CASE cmd = "WONT"
  <2>1. Branch(e, o, "us", R!AskOff(Us[e][o], cmd), net)
    BY <1>1, <1>5 DEF TelnetNegotiate
  <2>2. TableInv' /\ R!SetUs(e, o, R!AskOff(Us[e][o], cmd), net)
    BY <1>2, <1>3, <2>1, BranchSaves, BranchKeepsInv
  <2> QED
    BY <1>3, <1>5, <2>2 DEF R!TelnetNegotiate
<1>6. CASE cmd = "DO"
  <2>1. Branch(e, o, "him", R!AskOn(Him[e][o], cmd), net)
    BY <1>1, <1>6 DEF TelnetNegotiate
  <2>2. TableInv' /\ R!SetHim(e, o, R!AskOn(Him[e][o], cmd), net)
    BY <1>2, <1>3, <2>1, BranchSaves, BranchKeepsInv
  <2> QED
    BY <1>3, <1>6, <2>2 DEF R!TelnetNegotiate
<1>7. CASE cmd = "DONT"
  <2>1. Branch(e, o, "him", R!AskOff(Him[e][o], cmd), net)
    BY <1>1, <1>7 DEF TelnetNegotiate
  <2>2. TableInv' /\ R!SetHim(e, o, R!AskOff(Him[e][o], cmd), net)
    BY <1>2, <1>3, <2>1, BranchSaves, BranchKeepsInv
  <2> QED
    BY <1>3, <1>7, <2>2 DEF R!TelnetNegotiate
<1> QED
  BY <1>4, <1>5, <1>6, <1>7 DEF R!Cmd

(* _negotiate on the array is _negotiate of Rfc1143. *)
LEMMA CommandImplements ==
    ASSUME TableInv, NEW e \in End, Negotiate(e)
    PROVE  TableInv' /\ R!Negotiate(e)
<1> DEFINE m == Head(net[e])
           n == [net EXCEPT ![e] = Tail(@)]
           o == m.opt
<1>1. m \in R!Message /\ n \in Streams /\ net[e] # <<>>
  BY DEF Negotiate, TableInv, Streams
<1>2. o \in Opt /\ m.cmd \in R!Cmd
  BY <1>1 DEF R!Message
<1>3. /\ Half(e, o, "us") = Us[e][o] /\ Us[e][o] \in QState
      /\ Half(e, o, "him") = Him[e][o] /\ Him[e][o] \in QState
  BY <1>2, HalvesMap
<1>4. \/ m.cmd = "WILL" /\ Branch(e, o, "him", R!OnWill(Him[e][o], o \in HimTable[e]), n)
      \/ m.cmd = "WONT" /\ Branch(e, o, "him", R!OnWont(Him[e][o]), n)
      \/ m.cmd = "DO" /\ Branch(e, o, "us", R!OnDo(Us[e][o], o \in UsTable[e]), n)
      \/ m.cmd = "DONT" /\ Branch(e, o, "us", R!OnDont(Us[e][o]), n)
  BY <1>3 DEF Negotiate
<1>5. /\ R!OnWill(Him[e][o], o \in HimTable[e]) \in OutcomeType
      /\ R!OnWont(Him[e][o]) \in OutcomeType
      /\ R!OnDo(Us[e][o], o \in UsTable[e]) \in OutcomeType
      /\ R!OnDont(Us[e][o]) \in OutcomeType
  BY <1>3, BranchesTyped
<1> HIDE DEF m, n, o
<1>6. /\ TableInv'
      /\ \/ m.cmd = "WILL" /\ R!SetHim(e, o, R!OnWill(Him[e][o], o \in HimTable[e]), n)
         \/ m.cmd = "WONT" /\ R!SetHim(e, o, R!OnWont(Him[e][o]), n)
         \/ m.cmd = "DO" /\ R!SetUs(e, o, R!OnDo(Us[e][o], o \in UsTable[e]), n)
         \/ m.cmd = "DONT" /\ R!SetUs(e, o, R!OnDont(Us[e][o]), n)
  BY <1>1, <1>2, <1>4, <1>5, BranchSaves, BranchKeepsInv
<1> QED
  BY <1>1, <1>6 DEF R!Negotiate, m, n, o

(* The arrays are empty at first, and answer NO for every option. *)
LEMMA TableInit ==
    ASSUME Init PROVE TableInv /\ R!Init
<1>1. table = [e \in End |-> EmptyTable]
  BY DEF Init
<1>2. GoodTable(EmptyTable)
  <2>1. Heads(EmptyTable) = {}
    BY DEF Heads, EmptyTable
  <2>2. Cardinality({}) = 0
    BY FS_EmptySet
  <2>3. EmptyTable.q_size = 0 /\ EmptyTable.q = <<>>
    BY DEF EmptyTable
  <2>4. \A S : <<>> \in [1..0 -> S]
    OBVIOUS
  <2>5. EmptyTable = [q |-> EmptyTable.q, q_size |-> EmptyTable.q_size]
    BY DEF EmptyTable
  <2> HIDE DEF EmptyTable
  <2> QED
    BY <2>1, <2>2, <2>3, <2>4, <2>5 DEF GoodTable
<1>3. \A o : Get(EmptyTable, o) = 0
  BY DEF Get, Known, EmptyTable
<1>4. /\ Us = [e \in End |-> [o \in Opt |-> "NO"]]
      /\ Him = [e \in End |-> [o \in Opt |-> "NO"]]
  BY <1>1, <1>3, BytesPacked DEF Us, Him, Half
<1>5. net \in Streams
  BY DEF Init, Streams
<1> QED
  BY <1>1, <1>2, <1>4, <1>5 DEF TableInv, Init, R!Init, R!End, End

(* A step of the ends with the arrays is one of Rfc1143, or none. *)
LEMMA TableStep ==
    ASSUME TableInv, [Next]_vars PROVE TableInv' /\ [R!Next]_(R!vars)
<1>1. ASSUME NEW e \in End, NEW o \in Opt, NEW cmd \in R!Cmd, TelnetNegotiate(e, o, cmd)
      PROVE  TableInv' /\ R!Next
  BY <1>1, RequestImplements DEF R!Next, R!Ask, R!End, End
<1>2. ASSUME NEW e \in End, Negotiate(e)
      PROVE  TableInv' /\ R!Next
  BY <1>2, CommandImplements DEF R!Next, R!End, End
<1>3. CASE UNCHANGED vars
  <2>1. table' = table /\ net' = net /\ local' = local /\ remote' = remote
    BY <1>3 DEF vars
  <2>2. Us' = Us /\ Him' = Him
    BY <2>1 DEF Us, Him, Half
  <2> QED
    BY <2>1, <2>2 DEF TableInv, R!vars
<1> QED
  BY <1>1, <1>2, <1>3 DEF Next

(* Two ends that keep the states of their options in the array, as the code
   does, negotiate as Rfc1143 says, for any options that do not make its
   length wrap: the array is searched and grown rightly, option 0 included. *)
THEOREM TableImplementsRfc1143 == Spec => ImplementsRfc1143
<1>1. Init => TableInv /\ R!Init
  BY TableInit
<1>2. TableInv /\ [Next]_vars => TableInv' /\ [R!Next]_(R!vars)
  BY TableStep
<1> QED
  BY <1>1, <1>2, PTL DEF Spec, ImplementsRfc1143

-----------------------------------------------------------------------------
(* What an end knows that asks for nothing, about the states in its array. *)
Knows(e, o) ==
    /\ Us[e][o] \in R!Settled /\ Him[e][o] \in R!Settled
    /\ o \in local[e] <=> Us[e][o] = "YES"
    /\ o \in remote[e] <=> Him[e][o] = "YES"

PassiveInv ==
    /\ local \in [End -> SUBSET Opt] /\ remote \in [End -> SUBSET Opt]
    /\ \A e \in End, o \in Opt : Requests[e] = {} => Knows(e, o)

(* An event changes what the program is told about its own option alone. *)
LEMMA Reported ==
    ASSUME PassiveInv, NEW a \in End, NEW p \in Opt, NEW ev, R!Report(a, p, ev)
    PROVE  /\ local' \in [End -> SUBSET Opt] /\ remote' \in [End -> SUBSET Opt]
           /\ \A e \in End, o \in Opt : e # a \/ o # p =>
                /\ o \in local'[e] <=> o \in local[e]
                /\ o \in remote'[e] <=> o \in remote[e]
           /\ p \in local'[a] <=> ev = "DO" \/ (p \in local[a] /\ ev # "DONT")
           /\ p \in remote'[a] <=> ev = "WILL" \/ (p \in remote[a] /\ ev # "WONT")
BY DEF PassiveInv, R!Report, R!Told

(* An answer to the far end keeps an end that asks for nothing informed. *)
LEMMA PassiveNegotiate ==
    ASSUME TableInv, PassiveInv, NEW a \in End, R!Negotiate(a)
    PROVE  PassiveInv'
<1> DEFINE m == Head(net[a])
           p == m.opt
<1>1. p \in Opt /\ m.cmd \in R!Cmd
  <2>1. net[a] \in Seq(R!Message) /\ net[a] # <<>>
    BY DEF TableInv, Streams, R!Negotiate
  <2>2. m \in R!Message
    BY <2>1
  <2> QED
    BY <2>2 DEF R!Message
<1>2. PICK out, n :
        \/ m.cmd = "WILL" /\ out = R!OnWill(Him[a][p], p \in HimTable[a]) /\ R!SetHim(a, p, out, n)
        \/ m.cmd = "WONT" /\ out = R!OnWont(Him[a][p]) /\ R!SetHim(a, p, out, n)
        \/ m.cmd = "DO" /\ out = R!OnDo(Us[a][p], p \in UsTable[a]) /\ R!SetUs(a, p, out, n)
        \/ m.cmd = "DONT" /\ out = R!OnDont(Us[a][p]) /\ R!SetUs(a, p, out, n)
  BY Zenon DEF R!Negotiate
<1> HIDE DEF m, p
<1>3. R!Report(a, p, out.ev)
  BY <1>2 DEF R!SetUs, R!SetHim
<1>4. /\ local' \in [End -> SUBSET Opt] /\ remote' \in [End -> SUBSET Opt]
      /\ \A e \in End, o \in Opt : e # a \/ o # p =>
            /\ o \in local'[e] <=> o \in local[e]
            /\ o \in remote'[e] <=> o \in remote[e]
      /\ p \in local'[a] <=> out.ev = "DO" \/ (p \in local[a] /\ out.ev # "DONT")
      /\ p \in remote'[a] <=> out.ev = "WILL" \/ (p \in remote[a] /\ out.ev # "WONT")
  BY <1>1, <1>3, Reported
<1>5. PICK U, H : U = Us' /\ H = Him'
  OBVIOUS
<1>6. \/ m.cmd \in {"WILL", "WONT"} /\ U = Us /\ H = [Him EXCEPT ![a][p] = out.q]
      \/ m.cmd \in {"DO", "DONT"} /\ H = Him /\ U = [Us EXCEPT ![a][p] = out.q]
  BY <1>2, <1>5 DEF R!SetUs, R!SetHim
<1>7. ASSUME NEW e \in End, NEW o \in Opt, e # a \/ o # p
      PROVE  U[e][o] = Us[e][o] /\ H[e][o] = Him[e][o]
  <2>1. CASE e # a
    BY <1>6, <2>1, Zenon DEF Us, Him
  <2>2. CASE e = a /\ o # p
    BY <1>6, <2>2, Zenon DEF Us, Him
  <2> QED
    BY <1>7, <2>1, <2>2
<1>8. ASSUME Knows(a, p)
      PROVE  /\ U[a][p] \in R!Settled /\ H[a][p] \in R!Settled
             /\ p \in local'[a] <=> U[a][p] = "YES"
             /\ p \in remote'[a] <=> H[a][p] = "YES"
  <2>1. CASE m.cmd \in {"WILL", "WONT"}
    <3>1. out \in {R!OnWill(Him[a][p], p \in HimTable[a]), R!OnWont(Him[a][p])}
      BY <1>2, <2>1
    <3>2. /\ out.q \in R!Settled
          /\ \/ out.ev = "WILL" /\ out.q = "YES"
             \/ out.ev = "WONT" /\ out.q = "NO"
             \/ out.ev = R!None /\ out.q = Him[a][p]
      BY <1>8, <3>1 DEF Knows, R!OnWill, R!OnWont, R!Outcome, R!Settled, R!None
    <3>3. U = Us /\ H[a][p] = out.q
      BY <1>1, <1>6, <2>1 DEF Him
    <3> QED
      BY <1>4, <1>8, <3>2, <3>3 DEF Knows, R!None
  <2>2. CASE m.cmd \in {"DO", "DONT"}
    <3>1. out \in {R!OnDo(Us[a][p], p \in UsTable[a]), R!OnDont(Us[a][p])}
      BY <1>2, <2>2
    <3>2. /\ out.q \in R!Settled
          /\ \/ out.ev = "DO" /\ out.q = "YES"
             \/ out.ev = "DONT" /\ out.q = "NO"
             \/ out.ev = R!None /\ out.q = Us[a][p]
      BY <1>8, <3>1 DEF Knows, R!OnDo, R!OnDont, R!Outcome, R!Settled, R!None
    <3>3. H = Him /\ U[a][p] = out.q
      BY <1>1, <1>6, <2>2 DEF Us
    <3> QED
      BY <1>4, <1>8, <3>2, <3>3 DEF Knows, R!None
  <2> QED
    BY <1>6, <2>1, <2>2
<1>9. ASSUME NEW e \in End, NEW o \in Opt, Knows(e, o)
      PROVE  Knows(e, o)'
  <2>1. CASE e = a /\ o = p
    BY <1>5, <1>8, <1>9, <2>1, Zenon DEF Knows
  <2>2. CASE e # a \/ o # p
    BY <1>4, <1>5, <1>7, <1>9, <2>2, Zenon DEF Knows
  <2> QED
    BY <2>1, <2>2
<1> QED
  BY <1>4, <1>9, Zenon DEF PassiveInv

(* So does every other step: only an end that asks for something changes its
   own states otherwise. *)
LEMMA PassiveStep ==
    ASSUME TableInv, PassiveInv, [R!Next]_(R!vars)
    PROVE  PassiveInv'
<1>1. ASSUME NEW a \in End, NEW p \in Opt, NEW cmd \in R!Cmd, R!TelnetNegotiate(a, p, cmd)
      PROVE  PassiveInv'
  <2>1. PICK ev : R!Report(a, p, ev)
    BY <1>1 DEF R!TelnetNegotiate, R!SetUs, R!SetHim
  <2>2. Requests[a] # {}
    BY <1>1 DEF R!TelnetNegotiate
  <2>3. PICK U, H : U = Us' /\ H = Him'
    OBVIOUS
  <2>4. \A e \in End : e # a => U[e] = Us[e] /\ H[e] = Him[e]
    BY <1>1, <2>3, Zenon DEF R!TelnetNegotiate, R!SetUs, R!SetHim, Us, Him
  <2>5. \A e \in End, o \in Opt : e # a /\ Knows(e, o) => Knows(e, o)'
    BY <2>1, <2>3, <2>4, Reported, Zenon DEF Knows
  <2>6. local' \in [End -> SUBSET Opt] /\ remote' \in [End -> SUBSET Opt]
    BY <2>1, Reported
  <2> QED
    BY <2>2, <2>5, <2>6 DEF PassiveInv
<1>2. CASE UNCHANGED R!vars
  <2>1. Us' = Us /\ Him' = Him /\ local' = local /\ remote' = remote
    BY <1>2 DEF R!vars
  <2>2. \A e \in End, o \in Opt : Knows(e, o)' <=> Knows(e, o)
    BY <2>1, Zenon DEF Knows
  <2> QED
    BY <2>1, <2>2 DEF PassiveInv
<1> QED
  BY <1>1, <1>2, PassiveNegotiate DEF R!Next, R!Ask, R!End, End

(* AutoMag's do_echo is right whatever the far end asks for, also with the
   array between the options: the events of an end that makes no requests of
   its own tell its program what the array says of every option. *)
THEOREM PassiveEndReadsTheArray == Spec => []PassiveViewCorrect
<1>1. Init => TableInv /\ PassiveInv
  <2> SUFFICES ASSUME Init PROVE PassiveInv
    BY TableInit
  <2>1. R!Init
    BY TableInit
  <2> QED
    BY <2>1 DEF R!Init, R!End, End, R!Settled, PassiveInv, Knows
<1>2. TableInv /\ PassiveInv /\ [Next]_vars => TableInv' /\ PassiveInv'
  BY TableStep, PassiveStep
<1>3. PassiveInv => PassiveViewCorrect
  BY DEF PassiveInv, Knows, PassiveViewCorrect, R!PassiveViewCorrect, R!End, End
<1> QED
  BY <1>1, <1>2, <1>3, PTL DEF Spec
=============================================================================
