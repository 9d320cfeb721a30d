----------------------------- MODULE ChatProofs -----------------------------
(***************************************************************************)
(* The table of the chat server, for any number of slots, any length of    *)
(* the line buffer and of a name, and any bytes: names stay unique, a slot *)
(* without a connection has a name only if bytes were handled after it was *)
(* closed, and the server ends only for the reasons listed.                *)
(***************************************************************************)
EXTENDS Chat, TLAPS, SequenceTheorems, WellFoundedInduction

User == [name : Seq(Chars), sock : {"none"} \cup Connected, line : Seq(Chars)]

(* No slot keeps the number of a closed descriptor: "closed" occurs only in
   the table that Disconnect shows to _message. *)
TableOK ==
    /\ users \in [Slot -> User]
    /\ inRecv \in {0} \cup Slot
    /\ ahead \subseteq Slot

Inv == TableOK /\ NamesUnique /\ ClosedSlotsNameless

-----------------------------------------------------------------------------
(* A set of natural numbers that is not empty has a least element. *)
LEMMA LeastOf ==
    ASSUME NEW S \in SUBSET Nat, S # {}
    PROVE  \E k \in S : \A j \in S : k <= j
<1>1. PICK k \in S : \A j \in S : ~(<<j, k>> \in OpToRel(<, Nat))
  BY NatLessThanWellFounded, WFMin, Zenon
<1>2. \A j \in S : ~(j < k)
  BY <1>1, Zenon DEF OpToRel
<1> QED
  BY <1>2

(* The part of a buffer that is a C string is a sequence of its characters. *)
LEMMA CStringTyped ==
    ASSUME NEW buffer \in Seq(Chars)
    PROVE  CString(buffer) \in Seq(Chars)
<1> DEFINE ends == {k \in 1..Len(buffer) : buffer[k] = NUL}
           first == CHOOSE k \in ends : \A j \in ends : k <= j
<1>1. ASSUME NEW k \in 0..Len(buffer) PROVE SubSeq(buffer, 1, k) \in Seq(Chars)
  BY SubSeqProperties
<1>2. CASE ends = {}
  BY <1>2 DEF CString
<1>3. CASE ends # {}
  <2>1. ends \in SUBSET Nat
    OBVIOUS
  <2>2. \E k \in ends : \A j \in ends : k <= j
    <3> HIDE DEF ends
    <3> QED
      BY <1>3, <2>1, LeastOf
  <2>3. first \in ends
    <3> HIDE DEF ends
    <3> QED
      BY <2>2
  <2>4. first - 1 \in 0..Len(buffer)
    BY <2>3
  <2>5. CString(buffer) = SubSeq(buffer, 1, first - 1)
    BY <1>3, Zenon DEF CString
  <2> QED
    BY <1>1, <2>4, <2>5, Zenon
<1> QED
  BY <1>2, <1>3

-----------------------------------------------------------------------------
(* A step that changes one slot, gives it no name that another slot has, and
   leaves it named without a connection only if bytes came after the close,
   preserves the invariant. *)
LEMMA OneSlot ==
    ASSUME Inv, NEW i \in Slot, NEW u \in User,
           users' = [users EXCEPT ![i] = u],
           \/ u.name \in {Nobody, users[i].name}
           \/ \A j \in Slot : users[j].name # u.name,
           inRecv' \in {0} \cup Slot,
           ahead' \subseteq Slot, ahead \ {i} \subseteq ahead',
           u.sock = "none" /\ u.name # Nobody => i \in ahead'
    PROVE  Inv'
<1>1. users \in [Slot -> User]
  BY DEF Inv, TableOK
<1>2. users' \in [Slot -> User] /\ users'[i] = u
  BY <1>1
<1>3. \A j \in Slot : j # i => users'[j] = users[j]
  BY <1>1
<1>4. NamesUnique'
  BY <1>2, <1>3 DEF Inv, NamesUnique
<1>5. ClosedSlotsNameless'
  BY <1>2, <1>3 DEF Inv, ClosedSlotsNameless
<1> QED
  BY <1>2, <1>4, <1>5 DEF Inv, TableOK

(* linebuffer_push and the handlers it calls change only the user's own slot.
   The slot keeps its socket, unless it gives up socket and name together,
   and takes no name but a free one. *)
LEMMA PushOneSlot ==
    ASSUME Inv, NEW i \in Slot, NEW ch \in Chars, Push(i, ch)
    PROVE  \E u \in User :
             /\ users' = [users EXCEPT ![i] = u]
             /\ \/ u.name \in {Nobody, users[i].name}
                \/ \A j \in Slot : users[j].name # u.name
             /\ u.sock = users[i].sock \/ (u.sock = "none" /\ u.name = Nobody)
<1> DEFINE buffer == users[i].line
           n == Len(buffer)
           Good(u) == /\ users' = [users EXCEPT ![i] = u]
                      /\ \/ u.name \in {Nobody, users[i].name}
                         \/ \A j \in Slot : users[j].name # u.name
                      /\ u.sock = users[i].sock \/ (u.sock = "none" /\ u.name = Nobody)
<1> SUFFICES \E u \in User : Good(u)
  BY Zenon
<1>1. /\ users \in [Slot -> User] /\ users[i] \in User
      /\ buffer \in Seq(Chars) /\ n \in Nat
      /\ Nobody \in Seq(Chars) /\ <<>> \in Seq(Chars)
  BY DEF Inv, TableOK, User, Nobody
<1>2. ASSUME NEW b \in Seq(Chars), OnLine(i, b) PROVE \E u \in User : Good(u)
  <2> DEFINE table == [users EXCEPT ![i].line = <<>>]
             line == CString(b)
             fresh == [users[i] EXCEPT !.line = <<>>]
  <2>0. table = [users EXCEPT ![i] = fresh] /\ line \in Seq(Chars)
    BY <1>1, <1>2, CStringTyped
  <2>1. /\ table \in [Slot -> User]
        /\ table[i] = fresh /\ fresh \in User
        /\ fresh.name = users[i].name /\ fresh.sock = users[i].sock
        /\ \A j \in Slot : table[j].name = users[j].name
    BY <1>1, Zenon DEF User
  <2>2. Login(i, table, line) \/ Quit(i, table, line) \/ Say(i, table, line)
    BY <1>2 DEF OnLine
  <2> HIDE DEF table, line, fresh
  <2>3. CASE users' = table
    <3>1. Good(fresh)
      BY <2>0, <2>1, <2>3
    <3> QED
      BY <2>1, <3>1, Zenon
  <2>4. CASE ~InUse(table, line) /\ users' = [table EXCEPT ![i].name = line]
    <3> DEFINE u == [fresh EXCEPT !.name = line]
    <3>1. u \in User /\ u.name = line /\ u.sock = users[i].sock
      BY <2>0, <2>1 DEF User
    <3>2. users' = [users EXCEPT ![i] = u]
      BY <1>1, <2>0, <2>1, <2>4, Zenon
    <3>3. \A j \in Slot : users[j].name # u.name
      BY <2>1, <2>4, <3>1 DEF InUse
    <3> QED
      BY <3>1, <3>2, <3>3, Zenon
  <2>5. CASE users' = [table EXCEPT ![i].sock = "none", ![i].name = Nobody]
    <3> DEFINE u == [fresh EXCEPT !.sock = "none", !.name = Nobody]
    <3>1. u \in User /\ u.name = Nobody /\ u.sock = "none"
      BY <1>1, <2>1, Zenon DEF User
    <3>2. users' = [users EXCEPT ![i] = u]
      BY <1>1, <2>0, <2>1, <2>5, Zenon
    <3> QED
      BY <3>1, <3>2, Zenon
  <2> QED
    BY <2>2, <2>3, <2>4, <2>5, Zenon DEF Login, Quit, Say
<1>3. AfterCR(buffer) => SubSeq(buffer, 1, n - 1) \in Seq(Chars)
  BY <1>1, SubSeqProperties DEF AfterCR
<1>4. n = LINEBUFFER_SIZE => SubSeq(buffer, 1, n - 1) \in Seq(Chars)
  BY <1>1, SubSeqProperties, ChatAssumption DEF QUIT
<1>5. CASE users' = [users EXCEPT ![i].line = Append(@, ch)]
  <2> DEFINE u == [users[i] EXCEPT !.line = Append(@, ch)]
  <2>1. u \in User /\ u.name = users[i].name /\ u.sock = users[i].sock
    <3>1. Append(users[i].line, ch) \in Seq(Chars)
      BY <1>1
    <3> QED
      BY <1>1, <3>1, Zenon DEF User
  <2>2. users' = [users EXCEPT ![i] = u]
    BY <1>1, <1>5
  <2> QED
    BY <2>1, <2>2, Zenon
<1>6. CASE UNCHANGED users
  <2>1. users' = [users EXCEPT ![i] = users[i]]
    BY <1>1, <1>6
  <2> QED
    BY <1>1, <2>1, Zenon
<1> QED
  BY <1>2, <1>3, <1>4, <1>5, <1>6, Zenon DEF Push

-----------------------------------------------------------------------------
(* The invariant holds of the empty table and is preserved by every step. *)
LEMMA InvInit == Init => Inv
<1> SUFFICES ASSUME Init PROVE Inv
  OBVIOUS
<1>1. users \in [Slot -> User]
  BY DEF Init, User, Nobody
<1>2. \A i \in Slot : users[i].name = Nobody
  BY DEF Init
<1> QED
  BY <1>1, <1>2 DEF Init, Inv, TableOK, NamesUnique, ClosedSlotsNameless

(* Every step of the server keeps Inv. *)
LEMMA InvNext == Inv /\ [Next]_vars => Inv'
<1> SUFFICES ASSUME Inv, [Next]_vars PROVE Inv'
  OBVIOUS
<1>0. /\ users \in [Slot -> User] /\ inRecv \in {0} \cup Slot /\ ahead \subseteq Slot
      /\ \A i \in Slot : users[i] \in User
      /\ Nobody \in Seq(Chars)
  BY DEF Inv, TableOK, Nobody
<1>1. ASSUME NEW i \in Slot, NEW ch \in Chars, NEW more \in BOOLEAN, Byte(i, ch, more)
      PROVE  Inv'
  <2>1. PICK u \in User :
          /\ users' = [users EXCEPT ![i] = u]
          /\ \/ u.name \in {Nobody, users[i].name}
             \/ \A j \in Slot : users[j].name # u.name
          /\ u.sock = users[i].sock \/ (u.sock = "none" /\ u.name = Nobody)
    BY <1>1, PushOneSlot DEF Byte
  <2>2. u.sock = "none" /\ u.name # Nobody => i \in ahead'
    BY <1>1, <2>1 DEF Byte
  <2>3. inRecv' \in {0} \cup Slot /\ ahead' \subseteq Slot /\ ahead \ {i} \subseteq ahead'
    BY <1>0, <1>1 DEF Byte
  <2> QED
    BY <2>1, <2>2, <2>3, OneSlot, Zenon
<1>2. ASSUME NEW i \in Slot, users' = [users EXCEPT ![i].sock = "none", ![i].name = Nobody],
             inRecv' \in {0} \cup Slot, ahead' = ahead
      PROVE  Inv'
  <2> DEFINE u == [users[i] EXCEPT !.sock = "none", !.name = Nobody]
  <2>1. u \in User /\ u.name = Nobody
    BY <1>0, Zenon DEF User
  <2>2. users' = [users EXCEPT ![i] = u]
    BY <1>0, <1>2, Zenon
  <2> HIDE DEF u
  <2> QED
    BY <1>0, <1>2, <2>1, <2>2, OneSlot, Zenon
<1>3. ASSUME NEW i \in Slot, NEW more \in BOOLEAN, Error(i, more) PROVE Inv'
  BY <1>0, <1>2, <1>3, Zenon DEF Error
<1>4. ASSUME NEW i \in Slot, Disconnect(i) PROVE Inv'
  BY <1>0, <1>2, <1>4, Zenon DEF Disconnect
<1>5. ASSUME NEW i \in Slot, NEW sock \in Connected,
             users' = [users EXCEPT ![i].sock = sock],
             inRecv' = inRecv, ahead' \subseteq ahead, ahead \ {i} \subseteq ahead'
      PROVE  Inv'
  <2> DEFINE u == [users[i] EXCEPT !.sock = sock]
  <2>1. u \in User /\ u.name = users[i].name /\ u.sock # "none"
    BY <1>0, Zenon DEF User, Connected
  <2>2. users' = [users EXCEPT ![i] = u]
    BY <1>0, <1>5
  <2> HIDE DEF u
  <2> QED
    BY <1>0, <1>5, <2>1, <2>2, OneSlot, Zenon
<1>6. ASSUME NEW i \in Slot, NEW from, NEW to \in Connected, Leave(i, from, to)
      PROVE  Inv'
  BY <1>5, <1>6, Zenon DEF Leave
<1>7. ASSUME Accept PROVE Inv'
  <2> DEFINE i == CHOOSE k \in Free : \A j \in Free : k <= j
  <2>1. ASSUME Free # {}, ahead' = ahead \ {i}, NEW sock \in {"there", "reset"},
               users' = [users EXCEPT ![i].sock = sock]
        PROVE  Inv'
    <3>1. Free \in SUBSET Nat /\ Free \subseteq Slot
      BY ChatAssumption DEF Free, Slot
    <3>2. i \in Slot
      <4>1. \E k \in Free : \A j \in Free : k <= j
        BY <2>1, <3>1, LeastOf
      <4> QED
        BY <3>1, <4>1, Zenon
    <3>3. inRecv' = inRecv
      BY <1>7 DEF Accept
    <3> HIDE DEF i
    <3> QED
      BY <1>5, <2>1, <3>2, <3>3 DEF Connected
  <2>2. CASE UNCHANGED <<users, ahead>>
    BY <1>7, <2>2 DEF Accept, Inv, TableOK, NamesUnique, ClosedSlotsNameless
  <2> QED
    BY <1>7, <2>1, <2>2, Zenon DEF Accept
<1>8. ASSUME UNCHANGED <<users, inRecv, ahead>> PROVE Inv'
  BY <1>8 DEF Inv, TableOK, NamesUnique, ClosedSlotsNameless
<1>9. ASSUME NEW i \in Slot, RecvFails(i) PROVE Inv'
  BY <1>8, <1>9 DEF RecvFails
<1>10. CASE UNCHANGED vars
  BY <1>8, <1>10 DEF vars
<1>11. {"left", "reset"} \subseteq Connected
  BY DEF Connected
<1> QED
  BY <1>1, <1>3, <1>4, <1>6, <1>7, <1>9, <1>10, <1>11 DEF Next

(* No two users of the chat have the same name, however connections come, log
   in, quit, fail and leave, and although a slot may be closed and taken again
   in the middle of a recv. *)
THEOREM NamesStayUnique == Spec => []NamesUnique
<1>1. Inv => NamesUnique
  BY DEF Inv
<1> QED
  BY <1>1, InvInit, InvNext, PTL DEF Spec

(* A slot without a connection holds a name only if bytes were handled after
   it was closed. *)
THEOREM ClosedSlotsStayNameless == Spec => []ClosedSlotsNameless
<1>1. Inv => ClosedSlotsNameless
  BY DEF Inv
<1> QED
  BY <1>1, InvInit, InvNext, PTL DEF Spec

-----------------------------------------------------------------------------
(* A line, a quit or a byte of the text ends the server only if some
   connection was reset. *)
LEMMA PushEnds ==
    ASSUME Inv, NEW i \in Slot, NEW ch \in Chars, Push(i, ch), up, ~up'
    PROVE  \E j \in Slot : users[j].sock = "reset"
<1>1. users \in [Slot -> User] /\ \A j \in Slot : users[j].sock # "closed"
  BY Zenon DEF Inv, TableOK, User, Connected
<1>2. ASSUME NEW table, \A j \in Slot : table[j].sock \in {"none", users[j].sock},
             Message(table) \/ Reply(i, table)
      PROVE  \E j \in Slot : users[j].sock = "reset"
  BY <1>1, <1>2, Zenon DEF Message, Reply, Recipients
<1>3. ASSUME NEW b, OnLine(i, b) PROVE \E j \in Slot : users[j].sock = "reset"
  <2> DEFINE table == [users EXCEPT ![i].line = <<>>]
             line == CString(b)
             without == [table EXCEPT ![i].sock = "none"]
  <2>1. \A j \in Slot : table[j].sock = users[j].sock
    BY <1>1 DEF User
  <2>2. \A j \in Slot : without[j].sock \in {"none", users[j].sock}
    BY <1>1 DEF User
  <2>3. Login(i, table, line) \/ Quit(i, table, line) \/ Say(i, table, line)
    BY <1>3 DEF OnLine
  <2>4. Message(without) \/ Message(table) \/ Reply(i, table)
    BY <2>3 DEF Login, Quit, Say
  <2> HIDE DEF table, without
  <2> QED
    BY <1>2, <2>1, <2>2, <2>4
<1> QED
  BY <1>2, <1>3 DEF Push

(* The server ends only when it accepts a connection beyond MAX_USERS, when a
   user with a name disconnects, when a connection is reset, or at an error
   event. *)
THEOREM EndsOnlyForAReason == Spec => EndsForAReason
<1> DEFINE Reason ==
        \/ Free = {} /\ Accept
        \/ \E i \in Slot : users[i].name # Nobody /\ Disconnect(i)
        \/ \E i \in Slot : "reset" \in {users[i].sock, users'[i].sock}
        \/ \E i \in Slot, more \in BOOLEAN : Error(i, more)
<1>1. Inv /\ [Next]_vars => [up /\ ~up' => Reason]_vars
  <2> SUFFICES ASSUME Inv, Next, up, ~up' PROVE Reason
    BY DEF vars
  <2>1. ASSUME Accept PROVE Reason
    <3> DEFINE i == CHOOSE k \in Free : \A j \in Free : k <= j
    <3>1. CASE Free # {} /\ Reply(i, users')
      <4>1. Free \in SUBSET Nat /\ Free \subseteq Slot
        BY ChatAssumption DEF Free, Slot
      <4>2. \E k \in Free : \A j \in Free : k <= j
        BY <3>1, <4>1, LeastOf
      <4>3. i \in Slot
        BY <4>1, <4>2, Zenon
      <4>4. users'[i].sock = "reset"
        BY <3>1, Zenon DEF Reply
      <4> HIDE DEF i
      <4> QED
        BY <4>3, <4>4
    <3>2. CASE Free = {}
      BY <2>1, <3>2
    <3> QED
      BY <2>1, <3>1, <3>2, Zenon DEF Accept
  <2>2. ASSUME NEW i \in Slot, NEW ch \in Chars, NEW more \in BOOLEAN, Byte(i, ch, more)
        PROVE  Reason
    BY <2>2, PushEnds DEF Byte
  <2>3. ASSUME NEW i \in Slot, Disconnect(i) PROVE Reason
    BY <2>3, Zenon DEF Disconnect, Silence
  <2>4. ASSUME NEW i \in Slot, RecvFails(i) PROVE Reason
    BY <2>4 DEF RecvFails
  <2>5. ASSUME NEW i \in Slot, NEW from, NEW to, Leave(i, from, to) PROVE Reason
    BY <2>5 DEF Leave
  <2> QED
    BY <2>1, <2>2, <2>3, <2>4, <2>5 DEF Next
<1> QED
  BY <1>1, InvInit, InvNext, PTL DEF Spec, EndsForAReason
=============================================================================
