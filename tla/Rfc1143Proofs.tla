--------------------------- MODULE Rfc1143Proofs ---------------------------
(* Proofs about option negotiation, for every set of options, every pair   *)
(* of telopts tables and every choice of requests.                         *)
EXTENDS Rfc1143, TLAPS

OutcomeType == [q : QState, send : Cmd \cup {None}, ev : Cmd \cup {None}]

(* Each table of _negotiate and telnet_negotiate is total: it answers every *)
(* state with a state, at most one command and at most one event.           *)
LEMMA TablesTyped ==
    ASSUME NEW q \in QState, NEW o, NEW table
    PROVE  /\ OnWill(q, o \in table) \in OutcomeType
           /\ OnWont(q) \in OutcomeType
           /\ OnDo(q, o \in table) \in OutcomeType
           /\ OnDont(q) \in OutcomeType
           /\ \A cmd \in Cmd : AskOn(q, cmd) \in OutcomeType
           /\ \A cmd \in Cmd : AskOff(q, cmd) \in OutcomeType
  BY DEF None, QState, Cmd, OutcomeType, Outcome, OnWill, OnWont, OnDo, OnDont,
         AskOn, AskOff

(* Sending appends at most one well-formed command to one stream. *)
LEMMA SentTyped ==
    ASSUME NEW n \in [End -> Seq(Message)], NEW e \in End, NEW o \in Opt,
           NEW cmd \in Cmd \cup {None}
    PROVE  Sent(n, e, o, cmd) \in [End -> Seq(Message)]
<1>1. CASE cmd = None
  BY <1>1 DEF Sent
<1>2. CASE cmd # None
  <2>1. [cmd |-> cmd, opt |-> o] \in Message
    BY <1>2 DEF Message
  <2>2. Far(e) \in End /\ n[Far(e)] \in Seq(Message)
    BY DEF Far, End
  <2>3. Append(n[Far(e)], [cmd |-> cmd, opt |-> o]) \in Seq(Message)
    BY <2>1, <2>2
  <2> QED
    BY <1>2, <2>2, <2>3 DEF Sent
<1> QED
  BY <1>1, <1>2

(* An event leaves a program's view of the options a set of options. *)
LEMMA ReportTyped ==
    ASSUME TypeOK, NEW e \in End, NEW o \in Opt, NEW ev, Report(e, o, ev)
    PROVE  local' \in [End -> SUBSET Opt] /\ remote' \in [End -> SUBSET Opt]
<1>1. \A on, off : \A S \in SUBSET Opt : Told(S, o, ev, on, off) \in SUBSET Opt
  BY DEF Told
<1> QED
  BY <1>1, Zenon DEF Report, TypeOK

(* A half of an option updated with a typed outcome leaves the state typed. *)
LEMMA SetTyped ==
    ASSUME TypeOK, NEW e \in End, NEW o \in Opt, NEW out \in OutcomeType,
           NEW n \in [End -> Seq(Message)],
           SetUs(e, o, out, n) \/ SetHim(e, o, out, n)
    PROVE  TypeOK'
<1>1. Sent(n, e, o, out.send) \in [End -> Seq(Message)]
  BY SentTyped DEF OutcomeType
<1>2. local' \in [End -> SUBSET Opt] /\ remote' \in [End -> SUBSET Opt]
  BY ReportTyped DEF SetUs, SetHim
<1>3. out.q \in QState
  BY DEF OutcomeType
<1>4. CASE SetUs(e, o, out, n)
  BY <1>1, <1>2, <1>3, <1>4 DEF TypeOK, SetUs
<1>5. CASE SetHim(e, o, out, n)
  BY <1>1, <1>2, <1>3, <1>5 DEF TypeOK, SetHim
<1> QED
  BY <1>4, <1>5

(* The head of a stream is a command, and the rest of it is a stream. *)
LEMMA HeadTyped ==
    ASSUME TypeOK, NEW a \in End, net[a] # <<>>
    PROVE  LET m == Head(net[a])
               n == [net EXCEPT ![a] = Tail(@)]
           IN  /\ m \in Message /\ m.opt \in Opt /\ m.cmd \in Cmd
               /\ n \in [End -> Seq(Message)] /\ n[a] = Tail(net[a])
<1>1. net \in [End -> Seq(Message)] /\ net[a] \in Seq(Message)
  BY DEF TypeOK
<1>2. Head(net[a]) \in Message /\ Tail(net[a]) \in Seq(Message)
  BY <1>1
<1>3. Head(net[a]).opt \in Opt /\ Head(net[a]).cmd \in Cmd
  BY <1>2 DEF Message
<1> QED
  BY <1>1, <1>2, <1>3

(* Every state of the negotiation is well typed, whatever the programs     *)
(* ask: the tables of _negotiate and telnet_negotiate never produce a      *)
(* state or a command that the other end cannot take.                      *)
THEOREM TypeCorrect == Spec => []TypeOK
<1>1. Init => TypeOK
  BY DEF Init, TypeOK, QState, End
<1>2. TypeOK /\ [Next]_vars => TypeOK'
  <2> SUFFICES ASSUME TypeOK, [Next]_vars PROVE TypeOK'
    OBVIOUS
  <2>1. ASSUME NEW e \in End, NEW o \in Opt, NEW cmd \in Cmd,
               TelnetNegotiate(e, o, cmd)
        PROVE  TypeOK'
    <3>1. us[e][o] \in QState /\ him[e][o] \in QState
      BY DEF TypeOK
    <3>2. net \in [End -> Seq(Message)]
      BY DEF TypeOK
    <3> QED
      BY <2>1, <3>1, <3>2, TablesTyped, SetTyped DEF TelnetNegotiate
  <2>2. ASSUME NEW e \in End, Negotiate(e)
        PROVE  TypeOK'
    <3> DEFINE m == Head(net[e])
               n == [net EXCEPT ![e] = Tail(@)]
    <3>1. m \in Message /\ n \in [End -> Seq(Message)]
      BY <2>2 DEF Negotiate, TypeOK
    <3>2. us[e][m.opt] \in QState /\ him[e][m.opt] \in QState /\ m.opt \in Opt
      BY <3>1 DEF TypeOK, Message
    <3> HIDE DEF m, n
    <3>3. /\ OnWill(him[e][m.opt], m.opt \in HimTable[e]) \in OutcomeType
          /\ OnWont(him[e][m.opt]) \in OutcomeType
          /\ OnDo(us[e][m.opt], m.opt \in UsTable[e]) \in OutcomeType
          /\ OnDont(us[e][m.opt]) \in OutcomeType
      BY <3>2, TablesTyped
    <3>4. \/ SetHim(e, m.opt, OnWill(him[e][m.opt], m.opt \in HimTable[e]), n)
          \/ SetHim(e, m.opt, OnWont(him[e][m.opt]), n)
          \/ SetUs(e, m.opt, OnDo(us[e][m.opt], m.opt \in UsTable[e]), n)
          \/ SetUs(e, m.opt, OnDont(us[e][m.opt]), n)
      BY <2>2 DEF Negotiate, m, n
    <3> QED
      BY <3>1, <3>2, <3>3, <3>4, SetTyped
  <2>3. CASE UNCHANGED vars
    BY <2>3 DEF TypeOK, vars
  <2> QED
    BY <2>1, <2>2, <2>3 DEF Next, Ask
<1> QED
  BY <1>1, <1>2, PTL DEF Spec

----------------------------------------------------------------------------
(* What a stream holds about one exchange, when a command joins its end or *)
(* its first command is taken off.                                         *)

(* A command about something else changes nothing. *)
LEMMA AppendOther ==
    ASSUME NEW s \in Seq(Message), NEW m \in Message, NEW o, NEW K,
           ~About(m, o, K), NEW c, NEW d
    PROVE  /\ Holds0(s, o, K) => Holds0(Append(s, m), o, K)
           /\ Holds1(s, o, K, c) => Holds1(Append(s, m), o, K, c)
           /\ Holds2(s, o, K, c, d) => Holds2(Append(s, m), o, K, c, d)
<1> DEFINE t == Append(s, m)
<1>1. /\ Len(s) \in Nat /\ DOMAIN s = 1..Len(s) /\ DOMAIN t = 1..(Len(s) + 1)
      /\ \A i \in 1..Len(s) : t[i] = s[i]
      /\ t[Len(s) + 1] = m
  OBVIOUS
<1>2. Holds0(s, o, K) => Holds0(t, o, K)
  BY <1>1 DEF Holds0
<1>3. Holds1(s, o, K, c) => Holds1(t, o, K, c)
  BY <1>1 DEF Holds1
<1>4. Holds2(s, o, K, c, d) => Holds2(t, o, K, c, d)
  BY <1>1 DEF Holds2
<1> QED
  BY <1>2, <1>3, <1>4

(* A command of the exchange comes after what was there. *)
LEMMA AppendAbout ==
    ASSUME NEW s \in Seq(Message), NEW o \in Opt, NEW K \in SUBSET Cmd,
           NEW c \in K, NEW b \in K
    PROVE  LET t == Append(s, [cmd |-> c, opt |-> o]) IN
           /\ Holds0(s, o, K) => Holds1(t, o, K, c)
           /\ Holds1(s, o, K, b) => Holds2(t, o, K, b, c)
<1> DEFINE m == [cmd |-> c, opt |-> o]
           t == Append(s, m)
<1>1. /\ Len(s) \in Nat /\ DOMAIN s = 1..Len(s) /\ DOMAIN t = 1..(Len(s) + 1)
      /\ \A i \in 1..Len(s) : t[i] = s[i]
      /\ t[Len(s) + 1] = m
  BY DEF Message
<1>2. Holds0(s, o, K) => Holds1(t, o, K, c)
  BY <1>1 DEF Holds0, Holds1
<1>3. Holds1(s, o, K, b) => Holds2(t, o, K, b, c)
  BY <1>1 DEF Holds1, Holds2
<1> QED
  BY <1>2, <1>3

(* Taking off a command about something else changes nothing. *)
LEMMA TailOther ==
    ASSUME NEW s \in Seq(Message), s # <<>>, NEW o, NEW K \in SUBSET Cmd,
           ~About(Head(s), o, K), NEW c \in K, NEW d \in K
    PROVE  /\ Holds0(s, o, K) => Holds0(Tail(s), o, K)
           /\ Holds1(s, o, K, c) => Holds1(Tail(s), o, K, c)
           /\ Holds2(s, o, K, c, d) => Holds2(Tail(s), o, K, c, d)
<1> DEFINE t == Tail(s)
<1>1. /\ Len(s) \in Nat \ {0} /\ DOMAIN s = 1..Len(s) /\ DOMAIN t = 1..(Len(s) - 1)
      /\ \A i \in 1..(Len(s) - 1) : t[i] = s[i + 1]
      /\ Head(s) = s[1]
  OBVIOUS
<1>2. Holds0(s, o, K) => Holds0(t, o, K)
  BY <1>1 DEF Holds0
<1>3. ASSUME Holds1(s, o, K, c) PROVE Holds1(t, o, K, c)
  <2>1. PICK i \in 1..Len(s) : /\ s[i] = [cmd |-> c, opt |-> o]
                               /\ \A k \in DOMAIN s : About(s[k], o, K) => k = i
    BY <1>1, <1>3 DEF Holds1
  <2>2. i # 1
    BY <1>1, <2>1 DEF About
  <2>3. i - 1 \in DOMAIN t /\ t[i - 1] = s[i]
    BY <1>1, <2>2
  <2>4. \A k \in DOMAIN t : About(t[k], o, K) => k = i - 1
    BY <1>1, <2>1
  <2> QED
    BY <2>1, <2>3, <2>4, Zenon DEF Holds1
<1>4. ASSUME Holds2(s, o, K, c, d) PROVE Holds2(t, o, K, c, d)
  <2>1. PICK i \in 1..Len(s), j \in 1..Len(s) :
               /\ i < j
               /\ s[i] = [cmd |-> c, opt |-> o]
               /\ s[j] = [cmd |-> d, opt |-> o]
               /\ \A k \in DOMAIN s : About(s[k], o, K) => k = i \/ k = j
    BY <1>1, <1>4 DEF Holds2
  <2>2. i # 1
    BY <1>1, <2>1 DEF About
  <2>3. /\ i - 1 \in DOMAIN t /\ t[i - 1] = s[i]
        /\ j - 1 \in DOMAIN t /\ t[j - 1] = s[j]
        /\ i - 1 < j - 1
    BY <1>1, <2>1, <2>2
  <2>4. \A k \in DOMAIN t : About(t[k], o, K) => k = i - 1 \/ k = j - 1
    BY <1>1, <2>1
  <2> QED
    BY <2>1, <2>3, <2>4, Zenon DEF Holds2
<1> QED
  BY <1>2, <1>3, <1>4

(* The first command of the exchange is the first one sent. *)
LEMMA TailAbout ==
    ASSUME NEW s \in Seq(Message), s # <<>>, NEW o, NEW K \in SUBSET Cmd,
           About(Head(s), o, K), NEW c \in K, NEW d \in K
    PROVE  /\ ~Holds0(s, o, K)
           /\ Holds1(s, o, K, c) => Head(s).cmd = c /\ Holds0(Tail(s), o, K)
           /\ Holds2(s, o, K, c, d) => Head(s).cmd = c /\ Holds1(Tail(s), o, K, d)
<1> DEFINE t == Tail(s)
<1>1. /\ Len(s) \in Nat \ {0} /\ DOMAIN s = 1..Len(s) /\ DOMAIN t = 1..(Len(s) - 1)
      /\ \A i \in 1..(Len(s) - 1) : t[i] = s[i + 1]
      /\ Head(s) = s[1]
  OBVIOUS
<1>2. ~Holds0(s, o, K)
  BY <1>1 DEF Holds0
<1>3. Holds1(s, o, K, c) => Head(s).cmd = c /\ Holds0(t, o, K)
  BY <1>1 DEF Holds0, Holds1
<1>4. ASSUME Holds2(s, o, K, c, d)
      PROVE  Head(s).cmd = c /\ Holds1(t, o, K, d)
  <2>1. PICK i \in 1..Len(s), j \in 1..Len(s) :
               /\ i < j
               /\ s[i] = [cmd |-> c, opt |-> o]
               /\ s[j] = [cmd |-> d, opt |-> o]
               /\ \A k \in DOMAIN s : About(s[k], o, K) => k = i \/ k = j
    BY <1>1, <1>4 DEF Holds2
  <2>2. i = 1
    BY <1>1, <2>1
  <2>3. j - 1 \in DOMAIN t /\ t[j - 1] = s[j]
    BY <1>1, <2>1, <2>2
  <2>4. \A k \in DOMAIN t : About(t[k], o, K) => k = j - 1
    BY <1>1, <2>1, <2>2
  <2>5. Head(s).cmd = c
    BY <1>1, <2>1, <2>2
  <2>6. Holds1(t, o, K, d)
    BY <2>1, <2>3, <2>4, Zenon DEF Holds1
  <2> QED
    BY <2>5, <2>6
<1> QED
  BY <1>2, <1>3, <1>4

----------------------------------------------------------------------------
(* How the shape of one exchange changes. *)

Put(s, o, cmd) == IF cmd = None THEN s ELSE Append(s, [cmd |-> cmd, opt |-> o])

(* A stream that gains or loses a command about something else leaves the  *)
(* exchange as it was.                                                     *)
LEMMA UpOther ==
    ASSUME NEW up \in Seq(Message), NEW down \in Seq(Message), NEW o \in Opt,
           NEW t \in Seq(Message),
           \/ \E m \in Message : ~About(m, o, Offer) /\ t = Append(up, m)
           \/ up # <<>> /\ ~About(Head(up), o, Offer) /\ t = Tail(up),
           NEW u, NEW h, NEW r, ExchangeOK(u, h, up, down, o, r)
    PROVE  ExchangeOK(u, h, t, down, o, r)
<1>1. /\ Holds0(up, o, Offer) => Holds0(t, o, Offer)
      /\ \A c \in Offer : Holds1(up, o, Offer, c) => Holds1(t, o, Offer, c)
      /\ \A c, d \in Offer : Holds2(up, o, Offer, c, d) => Holds2(t, o, Offer, c, d)
  BY AppendOther, TailOther, ZenonT(30) DEF Offer, Cmd
<1>2. "WILL" \in Offer /\ "WONT" \in Offer
  BY DEF Offer
<1> QED
  BY <1>1, <1>2 DEF ExchangeOK

(* The same for the stream towards the end whose option it is. *)
LEMMA DownOther ==
    ASSUME NEW up \in Seq(Message), NEW down \in Seq(Message), NEW o \in Opt,
           NEW t \in Seq(Message),
           \/ \E m \in Message : ~About(m, o, Reply) /\ t = Append(down, m)
           \/ down # <<>> /\ ~About(Head(down), o, Reply) /\ t = Tail(down),
           NEW u, NEW h, NEW r, ExchangeOK(u, h, up, down, o, r)
    PROVE  ExchangeOK(u, h, up, t, o, r)
<1>1. /\ Holds0(down, o, Reply) => Holds0(t, o, Reply)
      /\ \A c \in Reply : Holds1(down, o, Reply, c) => Holds1(t, o, Reply, c)
      /\ \A c, d \in Reply : Holds2(down, o, Reply, c, d) => Holds2(t, o, Reply, c, d)
  BY AppendOther, TailOther, ZenonT(30) DEF Reply, Cmd
<1>2. "DO" \in Reply /\ "DONT" \in Reply
  BY DEF Reply
<1> QED
  BY <1>1, <1>2 DEF ExchangeOK

(* The end whose option it is takes a DO or a DONT. *)
LEMMA OwnEndReceives ==
    ASSUME NEW up \in Seq(Message), NEW down \in Seq(Message), NEW o \in Opt,
           NEW u \in QState, NEW h \in QState, NEW r, NEW table,
           ExchangeOK(u, h, up, down, o, r),
           down # <<>>, About(Head(down), o, Reply),
           NEW out,
           \/ Head(down).cmd = "DO" /\ out = OnDo(u, o \in table)
           \/ Head(down).cmd = "DONT" /\ out = OnDont(u)
    PROVE  /\ ExchangeOK(out.q, h, Put(up, o, out.send), Tail(down), o, r)
           /\ Head(down).cmd = "DO" => u \notin Withdrawing
<1>1. /\ ~Holds0(down, o, Reply)
      /\ \A c \in Reply : Holds1(down, o, Reply, c)
            => Head(down).cmd = c /\ Holds0(Tail(down), o, Reply)
      /\ \A c, d \in Reply : Holds2(down, o, Reply, c, d)
            => Head(down).cmd = c /\ Holds1(Tail(down), o, Reply, d)
  <2>1. Reply \in SUBSET Cmd /\ "DO" \in Reply
    BY DEF Reply, Cmd
  <2> QED
    BY <2>1, TailAbout, Zenon
<1>2. \A c \in Offer :
        /\ Holds0(up, o, Offer) => Holds1(Append(up, [cmd |-> c, opt |-> o]), o, Offer, c)
        /\ \A b \in Offer : Holds1(up, o, Offer, b)
              => Holds2(Append(up, [cmd |-> c, opt |-> o]), o, Offer, b, c)
  BY AppendAbout, Zenon DEF Offer, Cmd
<1>3. "WILL" \in Offer /\ "WONT" \in Offer /\ "DO" \in Reply /\ "DONT" \in Reply
  BY DEF Offer, Reply
<1>4. CASE Head(down).cmd = "DO" /\ out = OnDo(u, o \in table)
  BY <1>1, <1>2, <1>3, <1>4 DEF ExchangeOK, OnDo, Outcome, Put, None, QState,
     Settled, Offering, Withdrawing
<1>5. CASE Head(down).cmd = "DONT" /\ out = OnDont(u)
  BY <1>1, <1>2, <1>3, <1>5 DEF ExchangeOK, OnDont, Outcome, Put, None, QState,
     Settled, Offering, Withdrawing
<1> QED
  BY <1>4, <1>5

(* The far end takes a WILL or a WONT. *)
LEMMA FarEndReceives ==
    ASSUME NEW up \in Seq(Message), NEW down \in Seq(Message), NEW o \in Opt,
           NEW u \in QState, NEW h \in QState, NEW r, NEW table,
           ExchangeOK(u, h, up, down, o, r),
           up # <<>>, About(Head(up), o, Offer),
           NEW out,
           \/ Head(up).cmd = "WILL" /\ out = OnWill(h, o \in table)
           \/ Head(up).cmd = "WONT" /\ out = OnWont(h)
    PROVE  /\ ExchangeOK(u, out.q, Tail(up), Put(down, o, out.send), o, r)
           /\ Head(up).cmd = "WILL" => h \notin Withdrawing
<1>1. /\ ~Holds0(up, o, Offer)
      /\ \A c \in Offer : Holds1(up, o, Offer, c)
            => Head(up).cmd = c /\ Holds0(Tail(up), o, Offer)
      /\ \A c, d \in Offer : Holds2(up, o, Offer, c, d)
            => Head(up).cmd = c /\ Holds1(Tail(up), o, Offer, d)
  <2>1. Offer \in SUBSET Cmd /\ "WILL" \in Offer
    BY DEF Offer, Cmd
  <2> QED
    BY <2>1, TailAbout, Zenon
<1>2. \A c \in Reply :
        /\ Holds0(down, o, Reply) => Holds1(Append(down, [cmd |-> c, opt |-> o]), o, Reply, c)
        /\ \A b \in Reply : Holds1(down, o, Reply, b)
              => Holds2(Append(down, [cmd |-> c, opt |-> o]), o, Reply, b, c)
  BY AppendAbout, Zenon DEF Reply, Cmd
<1>3. "WILL" \in Offer /\ "WONT" \in Offer /\ "DO" \in Reply /\ "DONT" \in Reply
  BY DEF Offer, Reply
<1>4. CASE Head(up).cmd = "WILL" /\ out = OnWill(h, o \in table)
  BY <1>1, <1>2, <1>3, <1>4 DEF ExchangeOK, OnWill, Outcome, Put, None, QState,
     Settled, Offering, Withdrawing
<1>5. CASE Head(up).cmd = "WONT" /\ out = OnWont(h)
  BY <1>1, <1>2, <1>3, <1>5 DEF ExchangeOK, OnWont, Outcome, Put, None, QState,
     Settled, Offering, Withdrawing
<1> QED
  BY <1>4, <1>5

(* The program at the end whose option it is asks for a change. *)
LEMMA OwnEndAsks ==
    ASSUME NEW up \in Seq(Message), NEW down \in Seq(Message), NEW o \in Opt,
           NEW u \in QState, NEW h \in QState, NEW r,
           ExchangeOK(u, h, up, down, o, r),
           NEW out, out = AskOn(u, "WILL") \/ out = AskOff(u, "WONT")
    PROVE  ExchangeOK(out.q, h, Put(up, o, out.send), down, o, r)
<1>1. \A c \in Offer :
        /\ Holds0(up, o, Offer) => Holds1(Append(up, [cmd |-> c, opt |-> o]), o, Offer, c)
        /\ \A b \in Offer : Holds1(up, o, Offer, b)
              => Holds2(Append(up, [cmd |-> c, opt |-> o]), o, Offer, b, c)
  BY AppendAbout, Zenon DEF Offer, Cmd
<1>2. "WILL" \in Offer /\ "WONT" \in Offer
  BY DEF Offer
<1> QED
  BY <1>1, <1>2 DEF ExchangeOK, AskOn, AskOff, Outcome, Put, None, QState,
     Settled, Offering, Withdrawing

(* The program at the far end asks for a change. *)
LEMMA FarEndAsks ==
    ASSUME NEW up \in Seq(Message), NEW down \in Seq(Message), NEW o \in Opt,
           NEW u \in QState, NEW h \in QState, NEW r,
           ExchangeOK(u, h, up, down, o, r),
           ~({"DO", "DONT"} \subseteq r),
           NEW out,
           \/ "DO" \in r /\ out = AskOn(h, "DO")
           \/ "DONT" \in r /\ out = AskOff(h, "DONT")
    PROVE  ExchangeOK(u, out.q, up, Put(down, o, out.send), o, r)
<1>1. \A c \in Reply :
        /\ Holds0(down, o, Reply) => Holds1(Append(down, [cmd |-> c, opt |-> o]), o, Reply, c)
        /\ \A b \in Reply : Holds1(down, o, Reply, b)
              => Holds2(Append(down, [cmd |-> c, opt |-> o]), o, Reply, b, c)
  BY AppendAbout, Zenon DEF Reply, Cmd
<1>2. "DO" \in Reply /\ "DONT" \in Reply
  BY DEF Reply
<1> QED
  BY <1>1, <1>2 DEF ExchangeOK, AskOn, AskOff, Outcome, Put, None, QState,
     Settled, Offering, Withdrawing

----------------------------------------------------------------------------
(* From one exchange to all of them: a step is about one exchange only.    *)

(* t is stream s after a step that, as far as commands of kind K about o   *)
(* go, changed nothing: it is s, s without its head, or s and one more.    *)
Same(s, t, o, K) ==
    \/ t = s
    \/ s # <<>> /\ ~About(Head(s), o, K) /\ t = Tail(s)
    \/ \E m \in Message : ~About(m, o, K) /\ t = Append(s, m)

(* An exchange is in shape as long as neither of its streams gains or loses *)
(* a command of its own.                                                    *)
LEMMA ExchangeKept ==
    ASSUME NEW up \in Seq(Message), NEW down \in Seq(Message),
           NEW up2 \in Seq(Message), NEW down2 \in Seq(Message), NEW o \in Opt,
           Same(up, up2, o, Offer), Same(down, down2, o, Reply),
           NEW u, NEW h, NEW r, ExchangeOK(u, h, up, down, o, r)
    PROVE  ExchangeOK(u, h, up2, down2, o, r)
<1>1. ExchangeOK(u, h, up2, down, o, r)
  BY UpOther DEF Same
<1> QED
  BY <1>1, DownOther DEF Same

(* The streams before the answer is sent: as they were, or with the        *)
(* command of kind K about p that a received taken off.                    *)
Taken(n, a, p, K) ==
    \/ n = net
    \/ net[a] # <<>> /\ About(Head(net[a]), p, K) /\ n = [net EXCEPT ![a] = Tail(@)]

(* A step on the own side of an option (SetUs) keeps every exchange in      *)
(* shape if it keeps the one it is about.                                   *)
LEMMA UsStep ==
    ASSUME TypeOK, ExchangesOK,
           NEW a \in End, NEW p \in Opt, NEW n \in [End -> Seq(Message)],
           NEW out \in OutcomeType, out.send \in Offer \cup {None},
           Taken(n, a, p, Reply), SetUs(a, p, out, n),
           ExchangeOK(out.q, him[Far(a)][p], Put(net[Far(a)], p, out.send),
                      n[a], p, Requests[Far(a)])
    PROVE  ExchangesOK'
<1> DEFINE m == [cmd |-> out.send, opt |-> p]
<1>1. Far(a) \in End /\ Far(a) # a /\ Far(Far(a)) = a /\ End = {a, Far(a)}
  BY DEF Far, End
<1>2. /\ net' \in [End -> Seq(Message)]
      /\ net'[Far(a)] = Put(net[Far(a)], p, out.send)
      /\ net'[a] = n[a]
  <2>1. Sent(n, a, p, out.send) \in [End -> Seq(Message)]
    BY SentTyped DEF OutcomeType
  <2>2. n[Far(a)] = net[Far(a)]
    BY <1>1 DEF Taken, TypeOK
  <2> QED
    BY <1>1, <2>1, <2>2 DEF SetUs, Sent, Put
<1>3. /\ us' = [us EXCEPT ![a][p] = out.q] /\ him' = him
      /\ \A e \in End, o \in Opt :
            us'[e][o] = IF e = a /\ o = p THEN out.q ELSE us[e][o]
  BY DEF SetUs, TypeOK
<1>4. \A o \in Opt : o # p =>
        /\ Same(net[Far(a)], net'[Far(a)], o, Offer)
        /\ Same(net[a], net'[a], o, Reply)
  BY <1>2, m \in Message \/ out.send = None, TypeOK
    , Zenon DEF Same, Taken, Put, About, OutcomeType, Message, TypeOK
<1>5. \A o \in Opt :
        /\ Same(net[a], net'[a], o, Offer)
        /\ Same(net[Far(a)], net'[Far(a)], o, Reply)
  BY <1>2, Zenon DEF Same, Taken, Put, About, OutcomeType, Message, TypeOK, Offer, Reply, None
<1> SUFFICES ASSUME NEW e \in End, NEW o \in Opt
             PROVE  ExchangeOK(us'[e][o], him'[Far(e)][o], net'[Far(e)],
                               net'[e], o, Requests[Far(e)])
  BY DEF ExchangesOK
<1>6. ExchangeOK(us[e][o], him[Far(e)][o], net[Far(e)], net[e], o, Requests[Far(e)])
  BY DEF ExchangesOK
<1>7. CASE e = a /\ o = p
  BY <1>2, <1>3, <1>7
<1>8. CASE e = a /\ o # p
  BY <1>1, <1>2, <1>3, <1>4, <1>6, <1>8, ExchangeKept DEF TypeOK
<1>9. CASE e = Far(a)
  BY <1>1, <1>2, <1>3, <1>5, <1>6, <1>9, ExchangeKept DEF TypeOK
<1> QED
  BY <1>1, <1>7, <1>8, <1>9

(* The same for a step on the far side of an option (SetHim). *)
LEMMA HimStep ==
    ASSUME TypeOK, ExchangesOK,
           NEW a \in End, NEW p \in Opt, NEW n \in [End -> Seq(Message)],
           NEW out \in OutcomeType, out.send \in Reply \cup {None},
           Taken(n, a, p, Offer), SetHim(a, p, out, n),
           ExchangeOK(us[Far(a)][p], out.q, n[a],
                      Put(net[Far(a)], p, out.send), p, Requests[a])
    PROVE  ExchangesOK'
<1> DEFINE m == [cmd |-> out.send, opt |-> p]
<1>1. Far(a) \in End /\ Far(a) # a /\ Far(Far(a)) = a /\ End = {a, Far(a)}
  BY DEF Far, End
<1>2. /\ net' \in [End -> Seq(Message)]
      /\ net'[Far(a)] = Put(net[Far(a)], p, out.send)
      /\ net'[a] = n[a]
  <2>1. Sent(n, a, p, out.send) \in [End -> Seq(Message)]
    BY SentTyped DEF OutcomeType
  <2>2. n[Far(a)] = net[Far(a)]
    BY <1>1 DEF Taken, TypeOK
  <2> QED
    BY <1>1, <2>1, <2>2 DEF SetHim, Sent, Put
<1>3. /\ him' = [him EXCEPT ![a][p] = out.q] /\ us' = us
      /\ \A e \in End, o \in Opt :
            him'[e][o] = IF e = a /\ o = p THEN out.q ELSE him[e][o]
  BY DEF SetHim, TypeOK
<1>4. \A o \in Opt : o # p =>
        /\ Same(net[Far(a)], net'[Far(a)], o, Reply)
        /\ Same(net[a], net'[a], o, Offer)
  BY <1>2, m \in Message \/ out.send = None, TypeOK
    , Zenon DEF Same, Taken, Put, About, OutcomeType, Message, TypeOK
<1>5. \A o \in Opt :
        /\ Same(net[a], net'[a], o, Reply)
        /\ Same(net[Far(a)], net'[Far(a)], o, Offer)
  BY <1>2, Zenon DEF Same, Taken, Put, About, OutcomeType, Message, TypeOK, Offer, Reply, None
<1> SUFFICES ASSUME NEW e \in End, NEW o \in Opt
             PROVE  ExchangeOK(us'[e][o], him'[Far(e)][o], net'[Far(e)],
                               net'[e], o, Requests[Far(e)])
  BY DEF ExchangesOK
<1>6. ExchangeOK(us[e][o], him[Far(e)][o], net[Far(e)], net[e], o, Requests[Far(e)])
  BY DEF ExchangesOK
<1>7. CASE e = Far(a) /\ o = p
  BY <1>1, <1>2, <1>3, <1>7
<1>8. CASE e = Far(a) /\ o # p
  BY <1>1, <1>2, <1>3, <1>4, <1>6, <1>8, ExchangeKept DEF TypeOK
<1>9. CASE e = a
  BY <1>1, <1>2, <1>3, <1>5, <1>6, <1>9, ExchangeKept DEF TypeOK
<1> QED
  BY <1>1, <1>7, <1>8, <1>9

----------------------------------------------------------------------------
(* No program both asks the far side for an option and against it. *)
OneSidedRequests == \A e \in End : ~({"DO", "DONT"} \subseteq Requests[e])

(* What each table may send: answers of the other kind. *)
LEMMA TablesSend ==
    ASSUME NEW q \in QState, NEW o, NEW table
    PROVE  /\ OnDo(q, o \in table).send \in Offer \cup {None}
           /\ OnDont(q).send \in Offer \cup {None}
           /\ AskOn(q, "WILL").send \in Offer \cup {None}
           /\ AskOff(q, "WONT").send \in Offer \cup {None}
           /\ OnWill(q, o \in table).send \in Reply \cup {None}
           /\ OnWont(q).send \in Reply \cup {None}
           /\ AskOn(q, "DO").send \in Reply \cup {None}
           /\ AskOff(q, "DONT").send \in Reply \cup {None}
  BY DEF None, QState, Offer, Reply, Outcome, OnWill, OnWont, OnDo, OnDont,
         AskOn, AskOff

(* A request keeps every exchange in shape. *)
LEMMA AskStep ==
    ASSUME OneSidedRequests, TypeOK, ExchangesOK,
           NEW a \in End, NEW p \in Opt, NEW cmd \in Cmd,
           TelnetNegotiate(a, p, cmd)
    PROVE  ExchangesOK'
<1>1. Far(a) \in End /\ Far(Far(a)) = a
  BY DEF Far, End
<1>2. us[a][p] \in QState /\ him[a][p] \in QState
      /\ us[Far(a)][p] \in QState /\ him[Far(a)][p] \in QState
      /\ net \in [End -> Seq(Message)]
  BY <1>1 DEF TypeOK
<1>3. /\ ExchangeOK(us[a][p], him[Far(a)][p], net[Far(a)], net[a], p, Requests[Far(a)])
      /\ ExchangeOK(us[Far(a)][p], him[a][p], net[a], net[Far(a)], p, Requests[a])
  BY <1>1 DEF ExchangesOK
<1>4. ASSUME NEW out, out = AskOn(us[a][p], "WILL") \/ out = AskOff(us[a][p], "WONT"),
             SetUs(a, p, out, net)
      PROVE  ExchangesOK'
  <2>1. out \in OutcomeType /\ out.send \in Offer \cup {None}
    BY <1>2, <1>4, TablesTyped, TablesSend, "WILL" \in Cmd, "WONT" \in Cmd, Zenon DEF Cmd
  <2>2. ExchangeOK(out.q, him[Far(a)][p], Put(net[Far(a)], p, out.send), net[a],
                   p, Requests[Far(a)])
    BY <1>1, <1>2, <1>3, <1>4, OwnEndAsks
  <2> QED
    BY <1>2, <1>4, <2>1, <2>2, UsStep DEF Taken
<1>5. ASSUME NEW out,
             \/ "DO" \in Requests[a] /\ out = AskOn(him[a][p], "DO")
             \/ "DONT" \in Requests[a] /\ out = AskOff(him[a][p], "DONT"),
             SetHim(a, p, out, net)
      PROVE  ExchangesOK'
  <2>1. out \in OutcomeType /\ out.send \in Reply \cup {None}
    BY <1>2, <1>5, TablesTyped, TablesSend, "DO" \in Cmd, "DONT" \in Cmd, Zenon DEF Cmd
  <2>2. ExchangeOK(us[Far(a)][p], out.q, net[a], Put(net[Far(a)], p, out.send),
                   p, Requests[a])
    BY <1>1, <1>2, <1>3, <1>5, FarEndAsks DEF OneSidedRequests
  <2> QED
    BY <1>2, <1>5, <2>1, <2>2, HimStep DEF Taken
<1> QED
  BY <1>4, <1>5 DEF TelnetNegotiate

(* An incoming command keeps every exchange in shape, and never is a WILL  *)
(* or a DO that a WANTNO state refuses.                                    *)
LEMMA NegotiateStep ==
    ASSUME TypeOK, ExchangesOK, NEW a \in End, net[a] # <<>>
    PROVE  /\ Negotiate(a) => ExchangesOK'
           /\ Head(net[a]).cmd = "WILL" => him[a][Head(net[a]).opt] \notin Withdrawing
           /\ Head(net[a]).cmd = "DO" => us[a][Head(net[a]).opt] \notin Withdrawing
<1> DEFINE m == Head(net[a])
           p == m.opt
           n == [net EXCEPT ![a] = Tail(@)]
           do == OnDo(us[a][p], p \in UsTable[a])
           dont == OnDont(us[a][p])
           will == OnWill(him[a][p], p \in HimTable[a])
           wont == OnWont(him[a][p])
<1>1. Far(a) \in End /\ Far(Far(a)) = a /\ Far(a) # a
  BY DEF Far, End
<1>2. /\ m \in Message /\ p \in Opt /\ m.cmd \in Cmd
      /\ n \in [End -> Seq(Message)] /\ n[a] = Tail(net[a])
  BY HeadTyped
<1>3. /\ us[a][p] \in QState /\ him[a][p] \in QState
      /\ us[Far(a)][p] \in QState /\ him[Far(a)][p] \in QState
      /\ net[a] \in Seq(Message) /\ net[Far(a)] \in Seq(Message)
  BY <1>1, <1>2 DEF TypeOK
<1>4. /\ ExchangeOK(us[a][p], him[Far(a)][p], net[Far(a)], net[a], p, Requests[Far(a)])
      /\ ExchangeOK(us[Far(a)][p], him[a][p], net[a], net[Far(a)], p, Requests[a])
  BY <1>1, <1>2 DEF ExchangesOK
<1>5. /\ do \in OutcomeType /\ dont \in OutcomeType
      /\ will \in OutcomeType /\ wont \in OutcomeType
      /\ do.send \in Offer \cup {None} /\ dont.send \in Offer \cup {None}
      /\ will.send \in Reply \cup {None} /\ wont.send \in Reply \cup {None}
  BY <1>3, TablesTyped, TablesSend, Zenon
<1>6. /\ m.cmd \in Reply => About(m, p, Reply) /\ Taken(n, a, p, Reply)
      /\ m.cmd \in Offer => About(m, p, Offer) /\ Taken(n, a, p, Offer)
  BY DEF About, Taken
<1>7. "DO" \in Reply /\ "DONT" \in Reply /\ "WILL" \in Offer /\ "WONT" \in Offer
  BY DEF Offer, Reply
<1> HIDE DEF n, do, dont, will, wont
<1>8. CASE m.cmd = "DO"
  <2>1. /\ ExchangeOK(do.q, him[Far(a)][p], Put(net[Far(a)], p, do.send),
                      Tail(net[a]), p, Requests[Far(a)])
        /\ us[a][p] \notin Withdrawing
    BY <1>2, <1>3, <1>4, <1>6, <1>7, <1>8, OwnEndReceives, Zenon DEF do
  <2>2. Negotiate(a) => SetUs(a, p, do, n)
    BY <1>8 DEF Negotiate, do, n
  <2> QED
    BY <1>2, <1>5, <1>6, <1>7, <1>8, <2>1, <2>2, UsStep, Zenon
<1>9. CASE m.cmd = "DONT"
  <2>1. ExchangeOK(dont.q, him[Far(a)][p], Put(net[Far(a)], p, dont.send),
                   Tail(net[a]), p, Requests[Far(a)])
    BY <1>2, <1>3, <1>4, <1>6, <1>7, <1>9, OwnEndReceives, Zenon DEF dont
  <2>2. Negotiate(a) => SetUs(a, p, dont, n)
    BY <1>9 DEF Negotiate, dont, n
  <2> QED
    BY <1>2, <1>5, <1>6, <1>7, <1>9, <2>1, <2>2, UsStep, Zenon
<1>10. CASE m.cmd = "WILL"
  <2>1. /\ ExchangeOK(us[Far(a)][p], will.q, Tail(net[a]),
                      Put(net[Far(a)], p, will.send), p, Requests[a])
        /\ him[a][p] \notin Withdrawing
    BY <1>2, <1>3, <1>4, <1>6, <1>7, <1>10, FarEndReceives, Zenon DEF will
  <2>2. Negotiate(a) => SetHim(a, p, will, n)
    BY <1>10 DEF Negotiate, will, n
  <2> QED
    BY <1>2, <1>5, <1>6, <1>7, <1>10, <2>1, <2>2, HimStep, Zenon
<1>11. CASE m.cmd = "WONT"
  <2>1. ExchangeOK(us[Far(a)][p], wont.q, Tail(net[a]),
                   Put(net[Far(a)], p, wont.send), p, Requests[a])
    BY <1>2, <1>3, <1>4, <1>6, <1>7, <1>11, FarEndReceives, Zenon DEF wont
  <2>2. Negotiate(a) => SetHim(a, p, wont, n)
    BY <1>11 DEF Negotiate, wont, n
  <2> QED
    BY <1>2, <1>5, <1>6, <1>7, <1>11, <2>1, <2>2, HimStep, Zenon
<1> QED
  BY <1>2, <1>8, <1>9, <1>10, <1>11, Zenon DEF Cmd

(* Between two libtelnet ends every exchange keeps one of the eleven       *)
(* shapes of ExchangeOK, for any options, tables and requests, as long as  *)
(* no program asks both for and against an option of the far side.         *)
THEOREM ExchangesInShape ==
    ASSUME OneSidedRequests
    PROVE  Spec => []ExchangesOK
<1>1. Init => ExchangesOK
  <2> SUFFICES ASSUME Init, NEW e \in End, NEW o \in Opt
               PROVE  ExchangeOK(us[e][o], him[Far(e)][o], net[Far(e)], net[e], o,
                                 Requests[Far(e)])
    BY DEF ExchangesOK
  <2>1. Far(e) \in End
    BY DEF Far, End
  <2>2. Holds0(net[Far(e)], o, Offer) /\ Holds0(net[e], o, Reply)
    BY <2>1 DEF Init, Holds0
  <2>3. us[e][o] = "NO" /\ him[Far(e)][o] = "NO"
    BY <2>1 DEF Init
  <2> QED
    BY <2>2, <2>3 DEF ExchangeOK, Settled
<1>2. TypeOK /\ ExchangesOK /\ [Next]_vars => ExchangesOK'
  <2> SUFFICES ASSUME TypeOK, ExchangesOK, [Next]_vars PROVE ExchangesOK'
    OBVIOUS
  <2>1. CASE Ask
    BY <2>1, AskStep DEF Ask
  <2>2. CASE \E e \in End : Negotiate(e)
    BY <2>2, NegotiateStep, Zenon DEF Negotiate
  <2>3. CASE UNCHANGED vars
    BY <2>3 DEF vars, ExchangesOK
  <2> QED
    BY <2>1, <2>2, <2>3 DEF Next
<1> QED
  BY <1>1, <1>2, TypeCorrect, PTL DEF Spec

(* With nothing under way about an option, the two ends hold the same      *)
(* settled state for it.                                                   *)
THEOREM EndsAgree ==
    ASSUME OneSidedRequests
    PROVE  Spec => []Agreement
<1>1. ExchangesOK => Agreement
  <2> SUFFICES ASSUME ExchangesOK, NEW e \in End, NEW o \in Opt,
                      Holds0(net[Far(e)], o, Offer), Holds0(net[e], o, Reply)
               PROVE  us[e][o] \in Settled /\ him[Far(e)][o] = us[e][o]
    BY DEF Agreement
  <2>1. \A s, K, c, d : Holds0(s, o, K) /\ c \in K =>
            ~Holds1(s, o, K, c) /\ ~Holds2(s, o, K, c, d)
    BY DEF Holds0, Holds1, Holds2, About
  <2>2. "DO" \in Reply /\ "DONT" \in Reply /\ "WILL" \in Offer /\ "WONT" \in Offer
    BY DEF Offer, Reply
  <2> QED
    BY <2>1, <2>2, Zenon DEF ExchangesOK, ExchangeOK
<1> QED
  BY <1>1, ExchangesInShape, PTL

(* Neither end ever meets the TELNET_EPROTOCOL branches of _negotiate.     *)
THEOREM ProtocolErrorsNeverHappen ==
    ASSUME OneSidedRequests
    PROVE  Spec => []NoProtocolError
<1>1. TypeOK /\ ExchangesOK => NoProtocolError
  BY NegotiateStep DEF NoProtocolError, Withdrawing
<1> QED
  BY <1>1, TypeCorrect, ExchangesInShape, PTL

----------------------------------------------------------------------------
(* An end that asks for nothing is never in a WANT state, and what the     *)
(* events told its program is the truth about both sides of every option.  *)
PassiveInv ==
    \A e \in End, o \in Opt : Requests[e] = {} =>
        /\ us[e][o] \in Settled /\ him[e][o] \in Settled
        /\ o \in local[e] <=> us[e][o] = "YES"
        /\ o \in remote[e] <=> him[e][o] = "YES"

(* AutoMag's client never calls telnet_negotiate: whatever the far end     *)
(* asks for, its program's view of every option is right, so do_echo is    *)
(* off exactly while the far end echoes.                                   *)
THEOREM PassiveEndInformed == Spec => []PassiveViewCorrect
<1>1. Init => PassiveInv
  BY DEF Init, PassiveInv, Settled
<1>2. TypeOK /\ PassiveInv /\ [Next]_vars => PassiveInv'
  <2> SUFFICES ASSUME TypeOK, PassiveInv, [Next]_vars PROVE PassiveInv'
    OBVIOUS
  <2>1. ASSUME NEW a \in End, NEW p \in Opt, NEW cmd \in Cmd,
               TelnetNegotiate(a, p, cmd)
        PROVE  PassiveInv'
    <3>1. Requests[a] # {}
      BY <2>1 DEF TelnetNegotiate
    <3>2. \A e \in End : e # a => /\ us'[e] = us[e] /\ him'[e] = him[e]
                                  /\ local'[e] = local[e] /\ remote'[e] = remote[e]
      BY <2>1 DEF TelnetNegotiate, SetUs, SetHim, Report, TypeOK
    <3> QED
      BY <3>1, <3>2 DEF PassiveInv
  <2>2. ASSUME NEW a \in End, Negotiate(a)
        PROVE  PassiveInv'
    <3> DEFINE m == Head(net[a])
               p == m.opt
    <3>1. p \in Opt /\ m.cmd \in Cmd
      BY <2>2, HeadTyped, Zenon DEF Negotiate
    <3>2. PICK out, n :
            \/ m.cmd = "WILL" /\ out = OnWill(him[a][p], p \in HimTable[a]) /\ SetHim(a, p, out, n)
            \/ m.cmd = "WONT" /\ out = OnWont(him[a][p]) /\ SetHim(a, p, out, n)
            \/ m.cmd = "DO" /\ out = OnDo(us[a][p], p \in UsTable[a]) /\ SetUs(a, p, out, n)
            \/ m.cmd = "DONT" /\ out = OnDont(us[a][p]) /\ SetUs(a, p, out, n)
      BY <2>2, Zenon DEF Negotiate
    <3> HIDE DEF m, p
    <3>3. /\ local' = [local EXCEPT ![a] = Told(@, p, out.ev, "DO", "DONT")]
          /\ remote' = [remote EXCEPT ![a] = Told(@, p, out.ev, "WILL", "WONT")]
      BY <3>2 DEF SetUs, SetHim, Report
    <3>4. \/ m.cmd \in Offer /\ us' = us /\ him' = [him EXCEPT ![a][p] = out.q]
          \/ m.cmd \in Reply /\ him' = him /\ us' = [us EXCEPT ![a][p] = out.q]
      BY <3>2 DEF SetUs, SetHim, Offer, Reply
    <3>5. ASSUME NEW e \in End, NEW o \in Opt, e # a \/ o # p
          PROVE  /\ us'[e][o] = us[e][o] /\ him'[e][o] = him[e][o]
                 /\ o \in local'[e] <=> o \in local[e]
                 /\ o \in remote'[e] <=> o \in remote[e]
      BY <3>1, <3>3, <3>4, <3>5 DEF TypeOK, Told
    <3>6. ASSUME Requests[a] = {}
          PROVE  /\ us'[a][p] \in Settled /\ him'[a][p] \in Settled
                 /\ p \in local'[a] <=> us'[a][p] = "YES"
                 /\ p \in remote'[a] <=> him'[a][p] = "YES"
      <4>1. /\ us[a][p] \in Settled /\ him[a][p] \in Settled
            /\ p \in local[a] <=> us[a][p] = "YES"
            /\ p \in remote[a] <=> him[a][p] = "YES"
        BY <3>1, <3>6 DEF PassiveInv
      <4>2. CASE m.cmd \in Offer
        <5>1. out \in {OnWill(him[a][p], p \in HimTable[a]), OnWont(him[a][p])}
          BY <3>2, <4>2 DEF Offer
        <5>2. /\ out.q \in Settled
              /\ \/ out.ev = "WILL" /\ out.q = "YES"
                 \/ out.ev = "WONT" /\ out.q = "NO"
                 \/ out.ev = None /\ out.q = him[a][p]
          BY <4>1, <5>1 DEF OnWill, OnWont, Outcome, Settled, None
        <5>3. us' = us /\ him'[a][p] = out.q
          BY <3>1, <3>4, <4>2 DEF TypeOK, Offer, Reply
        <5> QED
          BY <3>1, <3>3, <4>1, <5>2, <5>3 DEF TypeOK, Told, None
      <4>3. CASE m.cmd \in Reply
        <5>1. out \in {OnDo(us[a][p], p \in UsTable[a]), OnDont(us[a][p])}
          BY <3>2, <4>3 DEF Reply
        <5>2. /\ out.q \in Settled
              /\ \/ out.ev = "DO" /\ out.q = "YES"
                 \/ out.ev = "DONT" /\ out.q = "NO"
                 \/ out.ev = None /\ out.q = us[a][p]
          BY <4>1, <5>1 DEF OnDo, OnDont, Outcome, Settled, None
        <5>3. him' = him /\ us'[a][p] = out.q
          BY <3>1, <3>4, <4>3 DEF TypeOK, Offer, Reply
        <5> QED
          BY <3>1, <3>3, <4>1, <5>2, <5>3 DEF TypeOK, Told, None
      <4> QED
        BY <3>4, <4>2, <4>3
    <3> SUFFICES ASSUME NEW e \in End, NEW o \in Opt, Requests[e] = {}
                 PROVE  /\ us'[e][o] \in Settled /\ him'[e][o] \in Settled
                        /\ o \in local'[e] <=> us'[e][o] = "YES"
                        /\ o \in remote'[e] <=> him'[e][o] = "YES"
      BY Zenon DEF PassiveInv
    <3>7. CASE e = a /\ o = p
      BY <3>6, <3>7, Zenon
    <3>8. CASE e # a \/ o # p
      <4>1. /\ us[e][o] \in Settled /\ him[e][o] \in Settled
            /\ o \in local[e] <=> us[e][o] = "YES"
            /\ o \in remote[e] <=> him[e][o] = "YES"
        BY Zenon DEF PassiveInv
      <4> QED
        BY <3>5, <3>8, <4>1, Zenon
    <3> QED
      BY <3>7, <3>8, Zenon
  <2>3. CASE UNCHANGED vars
    BY <2>3 DEF vars, PassiveInv
  <2> QED
    BY <2>1, <2>2, <2>3 DEF Next, Ask
<1>3. TypeOK /\ PassiveInv => PassiveViewCorrect
  BY DEF PassiveInv, PassiveViewCorrect, TypeOK
<1> QED
  BY <1>1, <1>2, <1>3, TypeCorrect, PTL DEF Spec

----------------------------------------------------------------------------
(* An option that its program withdrew comes back on only because that     *)
(* program offers it, or because the far end asks for it and the telopts   *)
(* table lists it: no answer under way turns it on by itself.              *)
THEOREM NothingComesOnByItself == Spec => ComesOnForAReason
<1> DEFINE Reason(e, o) ==
               us[e][o] \notin On /\ us'[e][o] \in On
                   => \/ TelnetNegotiate(e, o, "WILL")
                      \/ Head(net[e]) = [cmd |-> "DO", opt |-> o] /\ o \in UsTable[e]
<1>1. ASSUME TypeOK, Next, NEW e \in End, NEW o \in Opt
      PROVE  Reason(e, o)
  <2>1. ASSUME NEW a \in End, NEW p \in Opt, NEW cmd \in Cmd, TelnetNegotiate(a, p, cmd)
        PROVE  Reason(e, o)
    <3>1. CASE cmd = "WILL" /\ a = e /\ p = o
      BY <2>1, <3>1
    <3>2. us \in [End -> [Opt -> QState]]
      BY <1>1 DEF TypeOK
    <3>3. CASE cmd = "WONT" /\ a = e /\ p = o
      <4>1. us' = [us EXCEPT ![e][o] = AskOff(us[e][o], cmd).q]
        <5>1. SetUs(e, o, AskOff(us[e][o], cmd), net)
          BY <2>1, <3>3 DEF TelnetNegotiate
        <5> QED
          BY <5>1 DEF SetUs
      <4>2. us'[e][o] = AskOff(us[e][o], cmd).q /\ us[e][o] \in QState
        BY <3>2, <4>1
      <4>3. us[e][o] \notin On => AskOff(us[e][o], cmd).q \notin On
        BY <4>2 DEF AskOff, Outcome, On, QState
      <4> QED
        BY <4>2, <4>3
    <3>4. CASE cmd \in {"DO", "DONT"} \/ a # e \/ p # o
      <4>1. us'[e][o] = us[e][o]
        <5>1. CASE us' = us
          BY <5>1
        <5>2. CASE \E q : us' = [us EXCEPT ![a][p] = q] /\ (a # e \/ p # o)
          BY <3>2, <5>2
        <5> QED
          BY <2>1, <3>4, <5>1, <5>2, Zenon DEF TelnetNegotiate, SetUs, SetHim
      <4> QED
        BY <4>1
    <3> QED
      BY <3>1, <3>3, <3>4 DEF Cmd
  <2>2. ASSUME NEW a \in End, Negotiate(a)
        PROVE  Reason(e, o)
    <3> DEFINE m == Head(net[a])
    <3>1. m \in Message /\ m = [cmd |-> m.cmd, opt |-> m.opt]
      <4>1. net[a] \in Seq(Message) /\ net[a] # <<>>
        BY <1>1, <2>2 DEF Negotiate, TypeOK
      <4>2. m \in Message
        BY <4>1
      <4> QED
        BY <4>2 DEF Message
    <3>2. us[e][o] \in QState /\ us \in [End -> [Opt -> QState]]
      BY <1>1 DEF TypeOK
    <3>3. PICK n :
            \/ m.cmd \in {"WILL", "WONT"} /\ us' = us
            \/ m.cmd = "DO" /\ SetUs(a, m.opt, OnDo(us[a][m.opt], m.opt \in UsTable[a]), n)
            \/ m.cmd = "DONT" /\ SetUs(a, m.opt, OnDont(us[a][m.opt]), n)
      BY <2>2, Zenon DEF Negotiate, SetHim
    <3> HIDE DEF m
    <3>4. CASE us' = us
      BY <3>4
    <3>5. CASE a # e \/ m.opt # o
      <4>1. us'[e][o] = us[e][o]
        BY <3>2, <3>3, <3>5 DEF SetUs
      <4> QED
        BY <4>1
    <3>6. CASE a = e /\ m.opt = o /\ m.cmd = "DONT"
      <4>1. us'[e][o] = OnDont(us[e][o]).q
        BY <3>2, <3>3, <3>6 DEF SetUs
      <4>2. us[e][o] \notin On => OnDont(us[e][o]).q \notin On
        BY <3>2 DEF OnDont, Outcome, On, QState
      <4> QED
        BY <4>1, <4>2
    <3>7. CASE a = e /\ m.opt = o /\ m.cmd = "DO"
      <4>1. us'[e][o] = OnDo(us[e][o], o \in UsTable[e]).q
        BY <3>2, <3>3, <3>7 DEF SetUs
      <4>2. us[e][o] \notin On /\ OnDo(us[e][o], o \in UsTable[e]).q \in On
              => o \in UsTable[e]
        BY <3>2 DEF OnDo, Outcome, On, QState
      <4>3. Head(net[e]) = [cmd |-> "DO", opt |-> o]
        BY <3>1, <3>7 DEF m
      <4> QED
        BY <4>1, <4>2, <4>3
    <3> QED
      BY <3>3, <3>4, <3>5, <3>6, <3>7
  <2> QED
    BY <1>1, <2>1, <2>2 DEF Next, Ask
<1>2. TypeOK /\ [Next]_vars =>
        [\A e \in End, o \in Opt :
            us[e][o] \notin On /\ us'[e][o] \in On
                => \/ TelnetNegotiate(e, o, "WILL")
                   \/ /\ Head(net[e]) = [cmd |-> "DO", opt |-> o]
                      /\ o \in UsTable[e]]_vars
  BY <1>1
<1> QED
  BY <1>2, TypeCorrect, PTL DEF Spec, ComesOnForAReason
============================================================================
