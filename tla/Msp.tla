-------------------------------- MODULE Msp ---------------------------------
(***************************************************************************)
(* A connection of the Mesh Stream Protocol of serval-dna: a client socket *)
(* (msp_client.c over the streams of msp_common.h), a server whose         *)
(* listening socket makes a socket of its own for the connection, and the  *)
(* datagrams between them, which may be lost, repeated and reordered.      *)
(*                                                                         *)
(* The library has no thread: each call of the program is one step.  They  *)
(* are msp_send, msp_shutdown and msp_stop, msp_recv for a datagram that   *)
(* has come, and msp_processing, which offers the handler what is in order *)
(* and then transmits.  A call the handler makes from inside               *)
(* msp_processing has the effect of the same call made just before it.     *)
(*                                                                         *)
(* Times are left out: a packet may be retransmitted, an acknowledgement   *)
(* repeated and a connection timed out at any call of msp_processing.      *)
(***************************************************************************)
EXTENDS Integers, Sequences, FiniteSets

CONSTANTS
    MAX_WINDOW_SIZE,
    SeqSize,        \* how many sequence numbers there are (2^16)
    Starts,         \* sequence numbers at which the behaviour begins
    Length,         \* bytes of a message
    Last,           \* bound: by end, the numbers at which it sends no more
    MaxNet          \* bound: datagrams under way, by the end they go to

Client == "client"
Server == "server"
End == {Client, Server}
Peer(e) == IF e = Client THEN Server ELSE Client

ASSUME MspAssumption ==
    /\ MAX_WINDOW_SIZE \in Nat \ {0}
    /\ SeqSize \in Nat /\ SeqSize % 2 = 0 /\ SeqSize > 4 * (MAX_WINDOW_SIZE + 2)
    /\ Starts \subseteq 0..SeqSize - 1
    /\ Length \in Nat \ {0}
    /\ Last \in [End -> SUBSET (0..SeqSize - 1)]
    /\ MaxNet \in [End -> Nat]

VARIABLES
    stream,         \* per end, struct msp_stream
    life,           \* per end, "none", "open" or "freed": the msp_sock
    port,           \* the client's MDP port: "none", "pending" or "bound"
    net,            \* datagrams under way
    sent,           \* per end, the messages msp_send accepted
    got             \* per end, the messages the handler has consumed

vars == <<stream, life, port, net, sent, got>>
app == <<sent, got>>

-----------------------------------------------------------------------------
Inc(seq) == (seq + 1) % SeqSize
Dec(seq) == (seq - 1) % SeqSize

(* compare_wrapped_uint16: the difference as a signed number. *)
Compare(one, two) ==
    LET d == (one - two) % SeqSize
    IN  IF d < SeqSize \div 2 THEN d ELSE d - SeqSize

(* A packet in a window.  body is the message in it, if any; offset counts
   the bytes of it that the handler has taken. *)
Packet(seq, shut, body) ==
    [seq |-> seq, shut |-> shut, body |-> body, sent |-> FALSE, offset |-> 0]

Size(packet) == IF packet.body = <<>> THEN 0 ELSE Length

(* msp_stream_init, with the rest zeroed by emalloc_zero. *)
NewStream ==
    [state |-> {}, tx |-> <<>>, rx |-> <<>>, tx_next |-> 0, rx_next |-> 0,
     previous_ack |-> SeqSize \div 2 - 1]

(* A connection on which n messages have gone each way, all of them received
   and acknowledged. *)
Established(n) ==
    [state |-> {"RECEIVED_DATA", "RECEIVED_PACKET", "DATAOUT"},
     tx |-> <<>>, rx |-> <<>>, tx_next |-> n, rx_next |-> n,
     previous_ack |-> Dec(n)]

-----------------------------------------------------------------------------
\* Mutant: one packet more is released than was acknowledged.
FreeAckedOneMore(window, seq) ==
    SelectSeq(window, LAMBDA p : Compare(p.seq, seq) > 1)

(* free_acked_packets: the window is in order of sequence numbers. *)
FreeAcked(window, seq) == SelectSeq(window, LAMBDA p : Compare(p.seq, seq) > 0)

(* add_packet: in its place, unless it is there already or lies more than
   half the sequence numbers from one end of the window. *)
AddPacket(window, p) ==
    IF \/ \E k \in 1..Len(window) : window[k].seq = p.seq
       \/ /\ window # <<>>
          /\ Compare(window[Len(window)].seq, p.seq) < 0
          /\ Compare(window[1].seq, p.seq) > 0
    THEN window
    ELSE SelectSeq(window, LAMBDA q : Compare(q.seq, p.seq) < 0) \o <<p>>
            \o SelectSeq(window, LAMBDA q : Compare(q.seq, p.seq) > 0)

\* Mutant: the last number acknowledged is taken for the next one expected.
CloseAtNext(s) ==
    IF /\ {"SHUTDOWN_LOCAL", "SHUTDOWN_REMOTE"} \subseteq s.state
       /\ s.tx = <<>>
       /\ s.rx = <<>>
       /\ s.previous_ack = s.rx_next
    THEN [s EXCEPT !.state = @ \cup {"CLOSED"}]
    ELSE s

(* The test at the head of msp_stream_process and at the end of
   msp_consume_packet.  rx_next - 1 is an int and does not wrap. *)
CloseIfDone(s) ==
    IF /\ {"SHUTDOWN_LOCAL", "SHUTDOWN_REMOTE"} \subseteq s.state
       /\ s.tx = <<>>
       /\ s.rx = <<>>
       /\ s.previous_ack = s.rx_next - 1
    THEN [s EXCEPT !.state = @ \cup {"CLOSED"}]
    ELSE s

-----------------------------------------------------------------------------
(* Datagrams.  msp_write_ack_header, and msp_write_preamble for one with a
   packet. *)
Stop(to) == [to |-> to, stop |-> TRUE, first |-> FALSE]

Header(e, s, packets) ==
    [to |-> Peer(e), stop |-> FALSE,
     ack |-> "RECEIVED_DATA" \in s.state,
     first |-> "RECEIVED_PACKET" \notin s.state,
     ack_seq |-> Dec(s.rx_next),
     packets |-> [k \in 1..Len(packets) |->
                    [seq |-> packets[k].seq, shut |-> packets[k].shut,
                     body |-> packets[k].body]]]

-----------------------------------------------------------------------------
(* What a datagram does to the stream of the socket it reaches. *)

(* What msp_stop and a STOP from the peer do to the stream. *)
WithStop(s) ==
    [s EXCEPT !.state = (@ \ {"DATAOUT"}) \cup {"CLOSED", "STOPPED"}, !.tx = <<>>]

WithAck(s, m) == IF m.ack THEN [s EXCEPT !.tx = FreeAcked(@, m.ack_seq)] ELSE s

WithRoom(s) ==
    IF /\ Len(s.tx) < MAX_WINDOW_SIZE
       /\ s.state \cap {"SHUTDOWN_LOCAL", "CLOSED"} = {}
    THEN [s EXCEPT !.state = @ \cup {"DATAOUT"}]
    ELSE s

WithPackets(s, m) ==
    IF m.packets = <<>> THEN s
    ELSE LET p == m.packets[1] IN
         [s EXCEPT !.state = @ \cup {"RECEIVED_DATA"},
                   !.rx = IF Compare(p.seq, s.rx_next) >= 0
                          THEN AddPacket(@, Packet(p.seq, p.shut, p.body))
                          ELSE @]

(* msp_process_packet. *)
ProcessPacket(s, m) ==
    LET t == [s EXCEPT !.state = @ \cup {"RECEIVED_PACKET"}]
    IN  IF m.stop THEN WithStop(t)
        ELSE WithPackets(WithRoom(WithAck(t, m)), m)

-----------------------------------------------------------------------------
(* The network loses, repeats and reorders.  It is kept small by leaving out
   what makes no difference: a datagram the receiver would ignore, then and
   later; what a datagram says once its receiver has no socket; and a first
   datagram that outlives the connection it began.  That one would begin
   another connection at the server: the model has one. *)
Matters(s, l, m) ==
    CASE l = "open"  -> ProcessPacket(s, m) # s
      [] l = "none"  -> m.first
      [] l = "freed" -> ~m.stop /\ ~(m.to = Server /\ m.first)

Stray(to) == [to |-> to, stop |-> FALSE, first |-> FALSE]

Useful(ms, s, l) ==
    {IF l[m.to] = "freed" THEN Stray(m.to) ELSE m :
        m \in {n \in ms : Matters(s[n.to], l[n.to], n)}}

Fits(ms) == \A e \in End : Cardinality({m \in ms : m.to = e}) <= MaxNet[e]

(* What is under way after a step of end e: what was, and what the step sends
   unless the network is full. *)
Carry(e, old, new) ==
    \E left \in {{m \in old : m.to # e}
                    \cup Useful({m \in old : m.to = e}, stream', life')} :
    \E all \in {left \cup Useful(new, stream', life')} :
        net' = IF Fits(all) THEN all ELSE left

Init ==
    \E n \in Starts :
        /\ stream = [e \in End |->
                       IF n # 0 THEN Established(n)
                       ELSE IF e = Client THEN [NewStream EXCEPT !.state = {"DATAOUT"}]
                       ELSE NewStream]
        /\ life = [e \in End |-> IF e = Client \/ n # 0 THEN "open" ELSE "none"]
        /\ port = IF n # 0 THEN "bound" ELSE "none"
        /\ net = {}
        /\ sent = [e \in End |-> <<>>]
        /\ got = [e \in End |-> <<>>]

-----------------------------------------------------------------------------
(* The program's calls. *)

Open(e) == life[e] = "open" /\ "CLOSED" \notin stream[e].state

\* Mutant: the flag stays set when the window is full.
WithSentKeepsFlag(s, body) ==
    [s EXCEPT !.tx = AddPacket(@, Packet(s.tx_next, FALSE, body)),
              !.tx_next = Inc(@)]

(* msp_stream_send once it has decided to accept the message. *)
WithSent(s, body) ==
    LET tx == AddPacket(s.tx, Packet(s.tx_next, FALSE, body)) IN
    [s EXCEPT !.tx = tx,
              !.tx_next = Inc(@),
              !.state = IF Len(tx) >= MAX_WINDOW_SIZE THEN @ \ {"DATAOUT"} ELSE @]

(* msp_send.  The program must not have shut the stream down. *)
Send(e) ==
    LET m == Len(sent[e]) + 1 IN
    /\ Open(e)
    /\ "SHUTDOWN_LOCAL" \notin stream[e].state
    /\ Len(stream[e].tx) <= MAX_WINDOW_SIZE
    /\ stream[e].tx_next \notin Last[e]
    /\ stream' = [stream EXCEPT ![e] = WithSent(@, <<m>>)]
    /\ sent' = [sent EXCEPT ![e] = Append(@, m)]
    /\ UNCHANGED <<life, port, got>>
    /\ Carry(e, net, {})

(* msp_stream_shutdown: the mark goes on the last packet if that has not been
   transmitted yet, and else into a packet of its own. *)
WithShutdown(s) ==
    LET n == Len(s.tx)
        t == IF n > 0 /\ ~s.tx[n].sent
             THEN [s EXCEPT !.tx[n].shut = TRUE]
             ELSE [s EXCEPT !.tx = AddPacket(@, Packet(s.tx_next, TRUE, <<>>)),
                            !.tx_next = Inc(@)]
    IN  [t EXCEPT !.state = (@ \ {"DATAOUT"}) \cup {"SHUTDOWN_LOCAL"}]

Shutdown(e) ==
    /\ Open(e)
    /\ "SHUTDOWN_LOCAL" \notin stream[e].state
    /\ stream' = [stream EXCEPT ![e] = WithShutdown(@)]
    /\ UNCHANGED <<life, port, app>>
    /\ Carry(e, net, {})

(* msp_stop.  The daemon carries the STOP only from a bound port. *)
StopSocket(e) ==
    /\ Open(e)
    /\ stream' = [stream EXCEPT ![e] = WithStop(@)]
    /\ UNCHANGED <<life, port, app>>
    /\ Carry(e, net, IF e = Client /\ port # "bound" THEN {} ELSE {Stop(Peer(e))})

-----------------------------------------------------------------------------
(* msp_recv: a datagram from the other end. *)

(* process_packet: to the connection's socket; or, at the server, to a new
   socket if the datagram says it is the first; or to none, and STOP is the
   answer unless the datagram is a STOP itself. *)
ToSocket(e, m) ==
    /\ life[e] = "open"
    /\ stream' = [stream EXCEPT ![e] = ProcessPacket(@, m)]
    /\ UNCHANGED life

ToListener(e, m) ==
    /\ e = Server
    /\ life[e] = "none"
    /\ life' = [life EXCEPT ![e] = "open"]
    /\ stream' = [stream EXCEPT ![e] = ProcessPacket(NewStream, m)]

ToNobody(e) ==
    /\ life[e] = "freed"
    /\ UNCHANGED <<stream, life>>

Answer(e) == IF life[e] = "freed" THEN {Stop(Peer(e))} ELSE {}

Receive(e, m) ==
    /\ m.to = e
    /\ e = Client => port = "bound"
    /\ ToSocket(e, m) \/ ToListener(e, m) \/ ToNobody(e)
    /\ Carry(e, net \ {m}, Answer(e))
    /\ UNCHANGED <<port, app>>

(* A datagram is lost. *)
Lose(m) ==
    /\ net' = net \ {m}
    /\ UNCHANGED <<stream, life, port, app>>

(* msp_recv: the daemon tells the client the port it has bound. *)
BindReply ==
    /\ port = "pending"
    /\ port' = "bound"
    /\ UNCHANGED <<stream, life, net, app>>

-----------------------------------------------------------------------------
(* msp_processing. *)

(* msp_free: only what the handler was last told remains. *)
Freed(s) ==
    [NewStream EXCEPT !.state = s.state \ {"RECEIVED_DATA", "RECEIVED_PACKET", "DATAOUT"}]

(* msp_stream_process finds that nothing has come for MSP_TIMEOUT;
   process_sock returns and msp_free follows. *)
Timeout(e) ==
    /\ life[e] = "open"
    /\ stream' = [stream EXCEPT ![e] = Freed([@ EXCEPT !.state = @ \cup {"CLOSED", "ERROR"}])]
    /\ life' = [life EXCEPT ![e] = "freed"]
    /\ UNCHANGED <<port, app>>
    /\ Carry(e, net, {})

(* msp_stream_next and msp_consume_packet in process_sock's loop.  ready
   counts the packets the loop can offer, taken those the handler takes whole;
   it may leave one that has bytes left, after taking some of them.  The end
   of the stream is known once its packet is offered. *)
Ready(s) ==
    Cardinality({k \in 1..Len(s.rx) :
                    \A j \in 1..k : s.rx[j].seq = (s.rx_next + j - 1) % SeqSize})

Offered(s, taken) ==
    {k \in 1..Ready(s) : k <= taken + 1}

MayTake(s, taken, bytes) ==
    /\ taken <= Ready(s)
    /\ IF taken = Ready(s) THEN bytes = 0
       ELSE bytes < Size(s.rx[taken + 1]) - s.rx[taken + 1].offset

WithTaken(s, taken, bytes) ==
    LET rest == SubSeq(s.rx, taken + 1, Len(s.rx))
        t == [s EXCEPT
               !.rx = IF bytes = 0 THEN rest ELSE [rest EXCEPT ![1].offset = @ + bytes],
               !.rx_next = (@ + taken) % SeqSize,
               !.state = IF \E k \in Offered(s, taken) : s.rx[k].shut
                         THEN @ \cup {"SHUTDOWN_REMOTE"} ELSE @]
    IN  IF taken = 0 THEN t ELSE CloseIfDone(t)

Bodies(packets) ==
    LET full == SelectSeq(packets, LAMBDA p : p.body # <<>>)
    IN  [k \in 1..Len(full) |-> full[k].body[1]]

(* Which packets process_sock transmits: the new ones and those whose time has
   come; without a port the first of them only, and none while the port is
   awaited. *)
Transmitted(e, s, again) ==
    LET due == {k \in 1..Len(s.tx) : ~s.tx[k].sent \/ k \in again}
    IN  CASE e = Server \/ port = "bound"  -> due
          [] e = Client /\ port = "none"   -> {k \in due : \A j \in due : k <= j}
          [] e = Client /\ port = "pending" -> {}

(* msp_send_packet for the packets in out, or send_ack. *)
Datagrams(e, s, out, ack) ==
    {Header(e, s, <<s.tx[k]>>) : k \in out}
        \cup (IF ack THEN {Header(e, s, <<>>)} ELSE {})

WithTransmitted(s, out, ack) ==
    [s EXCEPT !.tx = [k \in 1..Len(@) |-> [@[k] EXCEPT !.sent = @ \/ k \in out]],
              !.previous_ack = IF out # {} \/ ack THEN Dec(s.rx_next) ELSE @]

(* An acknowledgement goes out alone if it is time and no packet goes out. *)
AckAlone(e, out, ackTime) ==
    out = {} /\ ackTime /\ (e = Client => port # "pending")

(* msp_processing where the connection has not timed out: msp_stream_process,
   process_sock, and msp_free if the stream is closed. *)
Process(e, taken, bytes, again, ackTime) ==
    /\ life[e] = "open"
    /\ MayTake(stream[e], taken, bytes)
    /\ \E s \in {WithTaken(CloseIfDone(stream[e]), taken, bytes)} :
       \E out \in {Transmitted(e, s, again)} :
       \E ack \in {AckAlone(e, out, ackTime)} :
       \E t \in {WithTransmitted(s, out, ack)} :
         /\ stream' = [stream EXCEPT ![e] = IF "CLOSED" \in t.state THEN Freed(t) ELSE t]
         /\ life' = [life EXCEPT ![e] = IF "CLOSED" \in t.state THEN "freed" ELSE @]
         /\ port' = IF e = Client /\ port = "none" /\ (out # {} \/ ack)
                    THEN "pending" ELSE port
         /\ \E new \in {Datagrams(e, s, out, ack)} : Carry(e, net, new)
    /\ got' = [got EXCEPT ![e] = @ \o Bodies(SubSeq(stream[e].rx, 1, taken))]
    /\ UNCHANGED sent

-----------------------------------------------------------------------------
Resendable(e) == {k \in 1..Len(stream[e].tx) : stream[e].tx[k].sent}

Program(e) == Send(e) \/ Shutdown(e) \/ StopSocket(e)

Network ==
    \/ \E m \in net : Lose(m) \/ Receive(m.to, m)
    \/ BindReply

(* Whether it is time for an acknowledgement matters if no packet goes out. *)
Processing(e) ==
    \E taken \in 0..Len(stream[e].rx), bytes \in 0..Length - 1 :
        \/ \E again \in SUBSET Resendable(e) : Process(e, taken, bytes, again, FALSE)
        \/ Process(e, taken, bytes, {}, TRUE)

(* Both sockets are gone, or the server has none and no datagram is left. *)
Finished ==
    /\ life[Client] = "freed" /\ life[Server] # "open" /\ net = {}
    /\ UNCHANGED vars

Next ==
    \/ \E e \in End : Program(e) \/ Processing(e) \/ Timeout(e)
    \/ Network
    \/ Finished

(* msp_processing is called again and again; from time to time the handler
   takes what it is offered, and the oldest packet is sent again or else an
   acknowledgement is repeated. *)
AllDue(e) == Process(e, Ready(stream[e]), 0, {1} \cap Resendable(e), TRUE)

(* The network does not lose for ever what is sent for ever to a socket. *)
Arrives == \E m \in net : life[m.to] # "freed" /\ Receive(m.to, m)

(* An end that hears nothing because the other has gone times out. *)
TimesOut == \E e \in End : life[Peer(e)] = "freed" /\ Timeout(e)

(* None of this favours an end. *)
Fairness ==
    /\ WF_vars(\E e \in End : AllDue(e))
    /\ SF_vars(Arrives)
    /\ WF_vars(TimesOut)
    /\ WF_vars(BindReply)

Spec == Init /\ [][Next]_vars /\ Fairness

-----------------------------------------------------------------------------
(* The assertions in process_sock: the program is told that it may send exactly
   when its window has room and its side is neither shut down nor closed; and
   the window never holds more than one message above its size and the packet
   of the shutdown. *)
WindowFlagRight ==
    \A e \in End : life[e] = "open" =>
        LET s == stream[e] IN
        /\ "DATAOUT" \in s.state <=>
              /\ Len(s.tx) < MAX_WINDOW_SIZE
              /\ s.state \cap {"CLOSED", "SHUTDOWN_LOCAL"} = {}
        /\ Len(s.tx) <= MAX_WINDOW_SIZE + 2

Outcome(s) ==
    IF "CLOSED" \notin s.state THEN "open"
    ELSE IF s.state \cap {"STOPPED", "ERROR"} = {} THEN "finished" ELSE "aborted"

Stream == INSTANCE MessageStream WITH
    Message <- 1..SeqSize,
    shut <- [e \in End |-> "SHUTDOWN_LOCAL" \in stream[e].state],
    eof <- [e \in End |-> "SHUTDOWN_REMOTE" \in stream[e].state],
    outcome <- [e \in End |-> Outcome(stream[e])]

(* The two ends implement a stream of messages in each direction, whatever the
   network does: each message is received once and in order, the end of the
   stream after all of them, and a graceful end means that both programs have
   received everything, although the last acknowledgement may be lost. *)
ImplementsStream == Stream!Spec

(* The counts of packets were multiples of the number of sequence numbers:
   then rx_next - 1 is -1, and the test for closing fails at both ends. *)
WrappedAtTheEnd ==
    \A e \in End : "SHUTDOWN_REMOTE" \in stream[e].state /\ stream[e].rx_next = 0

(* When both programs have shut down, both sockets are closed and freed, even
   if the last acknowledgement is lost or one end has gone; except when the
   numbers of both directions wrap just there. *)
ClosesInTheEnd ==
    (\A e \in End : "SHUTDOWN_LOCAL" \in stream[e].state)
        ~> (\A e \in End : life[e] = "freed") \/ WrappedAtTheEnd
=============================================================================
