-------------------------------- MODULE Chat --------------------------------
(***************************************************************************)
(* telnet-chatd.c, the chat server that comes with libtelnet: a table of   *)
(* user slots that connections take, leave and take again, the line buffer *)
(* and the name of each, and what becomes of the server when it sends to a *)
(* descriptor it has closed.  The option negotiation of the connections    *)
(* is left to Rfc1143; here the bytes are those of the data events.        *)
(*                                                                         *)
(* One recv may bring many bytes: telnet_recv hands all of them to the     *)
(* handlers, even when one of them has closed the user's socket meanwhile. *)
(***************************************************************************)
EXTENDS Naturals, Sequences, FiniteSets

CONSTANTS
    MAX_USERS,
    LINEBUFFER_SIZE,
    MaxName,        \* characters of the longest name, 32 in the code
    Chars           \* bytes that are typed

CR == "\r"
LF == "\n"
NUL == "0"
QUIT == <<"q">>     \* the line "quit"
Nobody == <<>>      \* name == 0; a name is never empty

Slot == 1..MAX_USERS

ASSUME ChatAssumption ==
    /\ MAX_USERS \in Nat \ {0}
    /\ LINEBUFFER_SIZE \in Nat /\ LINEBUFFER_SIZE > Len(QUIT)
    /\ MaxName \in Nat \ {0}

VARIABLES
    users,          \* per slot, struct user_t: name, sock and line buffer
    inRecv,         \* the slot whose bytes telnet_recv is handling, or 0
    up,             \* whether the server runs
    ahead           \* history: slots that got bytes after they were closed,
                    \* until they are taken again

vars == <<users, inRecv, up, ahead>>

(* A sock is "none" (-1), the number of a "closed" descriptor, or an open one
   whose other end is "there", has "left" or has "reset" the connection. *)
Connected == {"there", "left", "reset"}

Init ==
    /\ users = [i \in Slot |-> [name |-> Nobody, sock |-> "none", line |-> <<>>]]
    /\ inRecv = 0
    /\ up = TRUE
    /\ ahead = {}

-----------------------------------------------------------------------------
(* _message: a line for every slot whose sock is not -1.  send on a closed
   descriptor fails with EBADF and _send ends the server; on a connection the
   other end has reset it fails with ECONNRESET, which is ignored, or with
   EPIPE. *)
Recipients(table) == {i \in Slot : table[i].sock # "none"}

Message(table) ==
    \/ /\ \A i \in Recipients(table) : table[i].sock \in Connected
       /\ UNCHANGED up
    \/ /\ \E i \in Recipients(table) : table[i].sock \in {"closed", "reset"}
       /\ up' = FALSE

Silence == UNCHANGED up

(* What is sent to the user of slot i alone: the prompt, the welcome, and the
   ECHO negotiation that follows every data event. *)
Reply(i, table) ==
    \/ UNCHANGED up
    \/ table[i].sock = "reset" /\ up' = FALSE

(* A buffer as the C string the callback sees. *)
CString(buffer) ==
    LET ends == {k \in 1..Len(buffer) : buffer[k] = NUL}
    IN  IF ends = {} THEN buffer
        ELSE SubSeq(buffer, 1, (CHOOSE k \in ends : \A j \in ends : k <= j) - 1)

\* Mutant: names left in closed slots are not looked at.
InUseByConnected(table, name) ==
    \E i \in Slot : table[i].sock # "none" /\ table[i].name = name

InUse(table, name) == \E i \in Slot : table[i].name = name

(* _online for a user without a name. *)
Login(i, table, line) ==
    /\ table[i].name = Nobody
    /\ users' = IF Len(line) \in 1..MaxName /\ ~InUse(table, line)
                THEN [table EXCEPT ![i].name = line] ELSE table
    /\ Reply(i, table)

\* Mutant: the others are told while the slot still has the closed socket.
QuitToldFirst(i, table, line) ==
    /\ table[i].name # Nobody
    /\ line = QUIT
    /\ Message([table EXCEPT ![i].sock = "closed"])
    /\ users' = [table EXCEPT ![i].sock = "none", ![i].name = Nobody]

\* Mutant: the name is not given up.
QuitKeepsName(i, table, line) ==
    /\ table[i].name # Nobody
    /\ line = QUIT
    /\ users' = [table EXCEPT ![i].sock = "none"]
    /\ Message([table EXCEPT ![i].sock = "none"])

(* _online for "quit". *)
Quit(i, table, line) ==
    /\ table[i].name # Nobody
    /\ line = QUIT
    /\ users' = [table EXCEPT ![i].sock = "none", ![i].name = Nobody]
    /\ Message([table EXCEPT ![i].sock = "none"])

(* _online for any other line. *)
Say(i, table, line) ==
    /\ table[i].name # Nobody
    /\ line # QUIT
    /\ users' = table
    /\ Message(table)

OnLine(i, buffer) ==
    LET table == [users EXCEPT ![i].line = <<>>]
        line  == CString(buffer)
    IN  Login(i, table, line) \/ Quit(i, table, line) \/ Say(i, table, line)

(* linebuffer_push. *)
AfterCR(buffer) == buffer # <<>> /\ buffer[Len(buffer)] = CR

Push(i, ch) ==
    LET buffer == users[i].line
        n      == Len(buffer)
    IN  \/ ch = LF /\ AfterCR(buffer) /\ OnLine(i, SubSeq(buffer, 1, n - 1))
        \/ ch = NUL /\ AfterCR(buffer) /\ UNCHANGED users /\ Reply(i, users)
        \/ /\ ~(ch \in {LF, NUL} /\ AfterCR(buffer))
           /\ n # LINEBUFFER_SIZE
           /\ users' = [users EXCEPT ![i].line = Append(@, ch)]
           /\ Reply(i, users)
        \/ /\ ~(ch \in {LF, NUL} /\ AfterCR(buffer))
           /\ n = LINEBUFFER_SIZE
           /\ OnLine(i, SubSeq(buffer, 1, n - 1))

-----------------------------------------------------------------------------
(* recv and telnet_recv: inRecv says whether more bytes of the same recv
   follow. *)
Handling(i) ==
    /\ up
    /\ inRecv = i \/ (inRecv = 0 /\ users[i].sock = "there")

Byte(i, ch, more) ==
    /\ Handling(i)
    /\ Push(i, ch)
    /\ inRecv' = IF more THEN i ELSE 0
    /\ ahead' = IF users[i].sock = "none" THEN ahead \cup {i} ELSE ahead

(* TELNET_EV_ERROR.  The handler frees the telnet_t that telnet_recv goes on
   to use: the rest of the bytes is handled as before, or the server ends. *)
Error(i, more) ==
    /\ Handling(i)
    /\ LET table == [users EXCEPT ![i].sock = "none"] IN
       /\ users' = [table EXCEPT ![i].name = Nobody]
       /\ \/ users[i].name # Nobody /\ Message(table)
          \/ users[i].name = Nobody /\ Silence
          \/ up' = FALSE
    /\ inRecv' = IF more THEN i ELSE 0
    /\ UNCHANGED ahead

(* recv answers 0: the socket is closed, the others are told, and only then
   does the slot give the socket up. *)
Disconnect(i) ==
    /\ up /\ inRecv = 0
    /\ users[i].sock = "left"
    /\ users' = [users EXCEPT ![i].sock = "none", ![i].name = Nobody]
    /\ \/ users[i].name # Nobody /\ Message([users EXCEPT ![i].sock = "closed"])
       \/ users[i].name = Nobody /\ Silence
    /\ UNCHANGED <<inRecv, ahead>>

(* recv fails with ECONNRESET: exit(1). *)
RecvFails(i) ==
    /\ up /\ inRecv = 0
    /\ users[i].sock = "reset"
    /\ up' = FALSE
    /\ UNCHANGED <<users, inRecv, ahead>>

(* accept: the first free slot; the connection may have been reset before the
   welcome is sent.  Without a free slot the connection is closed and the
   code goes on, with the element behind the table, to greet it on the closed
   descriptor. *)
Free == {i \in Slot : users[i].sock = "none"}

Accept ==
    /\ up /\ inRecv = 0
    /\ \/ /\ Free # {}
          /\ LET i == CHOOSE k \in Free : \A j \in Free : k <= j IN
             /\ \E sock \in {"there", "reset"} : users' = [users EXCEPT ![i].sock = sock]
             /\ ahead' = ahead \ {i}
             /\ Reply(i, users')
       \/ /\ Free = {}
          /\ up' = FALSE
          /\ UNCHANGED <<users, ahead>>
    /\ UNCHANGED inRecv

(* The other end closes the connection, or it is reset. *)
Leave(i, from, to) ==
    /\ up
    /\ users[i].sock = from
    /\ users' = [users EXCEPT ![i].sock = to]
    /\ UNCHANGED <<inRecv, up, ahead>>

Next ==
    \/ Accept
    \/ \E i \in Slot :
        \/ \E ch \in Chars, more \in BOOLEAN : Byte(i, ch, more)
        \/ \E more \in BOOLEAN : Error(i, more)
        \/ Disconnect(i)
        \/ RecvFails(i)
        \/ Leave(i, "there", "left")
        \/ Leave(i, "there", "reset")
        \/ Leave(i, "left", "reset")

Spec == Init /\ [][Next]_vars

-----------------------------------------------------------------------------
(* No two users have the same name, although a slot that was closed in the
   middle of a recv may log in once more and be taken over with its name. *)
NamesUnique ==
    \A i, j \in Slot : i # j /\ users[i].name = users[j].name => users[i].name = Nobody

(* A slot that nobody is connected to holds a name only if bytes were handled
   after it was closed; only such a slot welcomes its next user logged in. *)
ClosedSlotsNameless ==
    \A i \in Slot : users[i].sock = "none" /\ users[i].name # Nobody => i \in ahead

(* The server ends only when it accepts a connection beyond MAX_USERS, when a
   user with a name disconnects, when a connection is reset, or at an error
   event: never because of a line, a quit or a user who leaves before the
   login. *)
EndsForAReason ==
    [][up /\ ~up' =>
        \/ Free = {} /\ Accept
        \/ \E i \in Slot : users[i].name # Nobody /\ Disconnect(i)
        \/ \E i \in Slot : "reset" \in {users[i].sock, users'[i].sock}
        \/ \E i \in Slot, more \in BOOLEAN : Error(i, more)]_vars
=============================================================================
