# AutoMag in TLA+

AutoMag is a dashboard for a car, on a Raspberry Pi.  A client program talks
TELNET over TCP to a Carberry board, which reports frames of the car's CAN bus
as text.  The client shows speed, fuel level and temperature on a 2 x 16
character display and switches two LEDs of the board.  The repository holds the
client, the TELNET library it is built on (libtelnet), the display driver it
calls (wiringPi/devLib/lcd.c), and much vendored code beside them, among it the
mesh network daemon serval-dna with a stream protocol of its own.

This directory holds TLA+ models of those parts, the TLC configurations that
check them on small instances, and TLAPS proofs of the central properties for
every instance.  `PROJECT.json` lists components, runs, mutants, the map from
definitions to source lines, findings, hazards and theorems.

## The system: an inventory

| part | source | state | operations | hard behaviour |
|---|---|---|---|---|
| option negotiation | libtelnet.c 329-484, 1191-1273 | `us`, `him` per option | `telnet_negotiate`, `_negotiate` | both ends ask at once; requests put off behind others; endless acknowledgement |
| option table | libtelnet.c 277-326 | `q`, `q_size` | `_get_rfc1143`, `_set_rfc1143` | zero entries look like option 0; `q_size` is an unsigned char |
| stream parser | libtelnet.c 812-1180 | `state`, `sb_telopt`, `buffer`; `start` per call | `telnet_recv`, `_process`, `_buffer_byte`, `_subnegotiate` | the stream is cut anywhere; buffer limit; abandoned buffers |
| sending functions | libtelnet.c 1183-1566 | none | `telnet_send`, `telnet_iac`, `telnet_vprintf`, ... | escaping |
| payload parsers | libtelnet.c 498-809 | none | `_environ_telnet`, `_mssp_telnet`, `_zmp_telnet`, `_ttype_telnet` | empty and cut-off fields |
| compression | libtelnet.c 1343-1368 and zlib code | `z` | `telnet_begin_compress2` | where compressed bytes begin |
| client | util/telnet-projekat1.c | `dataBuffer`, `recieveBuffer`, LED states | the loop of `main` | two descriptors; frames collected with three `recv`; keys typed ahead |
| dashboard | util/telnet-projekat1.c 168-235 | the display | `initLcd`, `lcdScreen` | text left over, rows that spill |
| display driver | devLib/lcd.c | `cx`, `cy`, `lcdControl`, `lcds` | `lcdInit`, `lcdPutchar`, `lcdPosition`, ... | the cursor is a copy that is never read back |
| display bus | devLib/lcd.c 94-170, 460-469 | the half of a byte | `strobe`, `sendDataCmd`, `put4Command` | a program killed between two halves |
| chat server | util/telnet-chatd.c | `users`: name, socket, line buffer | `_online`, `_event_handler`, the loop of `main` | slots reused; sends to closed descriptors; bytes behind a quit |
| proxy | util/telnet-proxy.c | two `telnet_t` | handlers | two negotiations coupled |
| stream protocol of serval-dna | msp_common.h, msp_client.c | `msp_stream`: two windows, state flags, `previous_ack` | `msp_send`, `msp_shutdown`, `msp_stop`, `msp_recv`, `msp_processing` | loss, repetition, reordering; timeouts; numbers that wrap; closing |
| other code | wiringPi core, Sunfounder samples, the rest of serval-dna, earlier clients | | | not part of the running program |

Interactions: `main` calls `telnet_recv` with what the first `recv` of a round
returned; the library answers through `_event_handler`, which sends; `main`
calls `lcdScreen`, which calls the driver, which drives the bus.

What being correct means here: both ends of a connection agree on every option
once the wire is quiet; the application is told what the bytes mean, however
the network cut them; the display shows the last reading where the driver
believes it does; the LEDs follow the speed; keys do what the prompt says.

## Modules

| module | what it models |
|---|---|
| `Rfc1143` | two `telnet_t` negotiating options over FIFO streams |
| `Rfc1143Proofs` | theorems about `Rfc1143` |
| `QTable` | the array behind `_get_rfc1143` / `_set_rfc1143`, as operators |
| `TableNegotiation` | the negotiation of `Rfc1143` by ends that keep their states in a `QTable` |
| `TableNegotiationProofs` | `TableNegotiation` implements `Rfc1143` |
| `TelnetPayload` | the parsers of ENVIRON, MSSP, ZMP and TTYPE payloads, as operators |
| `TelnetParser` | `_process` and its helpers as operators on the parser's record |
| `TelnetStream` | the parser fed with any bytes in any chunks, against a grammar |
| `EventChannel` | abstract: a queue of items |
| `TelnetLink` | the sending functions, a byte stream and the parser, composed |
| `LcdDriver` | lcd.c on one display, as operators |
| `Lcd` | programs calling the driver for several displays |
| `Terminal` | abstract: a screen and a cursor |
| `LcdProofs` | theorems about `Lcd` |
| `LcdBus`, `LcdBusProofs` | the strobes of the 4-bit bus, and restarts; theorems |
| `Dashboard` | `initLcd` and `lcdScreen`, composed with `LcdDriver` |
| `AutoMag` | the loop of the client, the user and the board |
| `AutoMagProofs`, `AutoMagLedProofs` | theorems about `AutoMag`: frames, LEDs |
| `Chat`, `ChatProofs` | the slots of the chat server and the ways it ends; theorems |
| `MessageStream` | abstract: a two-way stream of messages with an end |
| `Msp` | a client, a server and the network between them, for one MSP connection |
| `MC...` | the instances given to TLC |

Correspondence, where it is not one to one:

- **Rfc1143.**  The switch statements of `_negotiate` and `telnet_negotiate`
  are tables from a state to an outcome (new state, command sent, event).
  `local` and `remote` are what a program knows from the events alone, as
  `do_echo` of the client.  `telopts` is given by `UsTable` and `HimTable`.
- **TelnetParser.**  Bytes have their values.  `start` lives in the parser's
  record but is reset for each chunk.  When `start` is beyond the index it is
  subtracted from, the length of the DATA event wraps; the model raises the
  event `Wild`.  `telnet_recv` called from within `_process` behind an accepted
  payload continues the loop (no compression, hence the same bytes).
- **TelnetPayload.**  The in-place splitting of a payload is a function from its
  bytes to fields; strings are read up to their first NUL.  `TelnetParser`
  raises the event of the fields behind the SUBNEGOTIATION event; `TelnetLink`
  counts the fields only.  `telnet_newenviron_value` does not mark the bytes
  VAR, VALUE, ESC and USERVAR, so the calling application does (`Marked`).
- **TableNegotiation.**  A branch that leaves a state as it is does not save it,
  as in the code; the first change of an option appends an element.
- **Chat.**  A socket is a state of the descriptor: none (-1), closed, or open
  with its other end there, gone or reset.  A recv of many bytes is a sequence
  of steps during which `inRecv` holds the slot.  What is sent has no content;
  whether sending ends the server is what matters.  "quit" is one character.
- **Msp.**  Each call of the library is a step.  Times are left out: a packet
  may be sent again, an acknowledgement repeated and a connection timed out at
  any call of `msp_processing`.  A message is a number; the handler may take a
  part of it.  The network is a set of datagrams: receiving one takes it away,
  and retransmission repeats it.  A datagram the receiver would ignore is not
  kept, and what is sent when the network is full is lost.  The client's port
  is bound by the local daemon between its first and its second datagram.
- **LcdDriver.**  Addresses are pairs of line and offset.  The display itself
  is external: memory, address counter, wrap from line to line.  `Beyond` is
  where the value behind the end of `rowOff` leads, an arbitrary constant.
- **Lcd.**  `placed` holds the displays whose cursor a command has put on the
  screen; a wrap does, `lcdCharDef` undoes it.  `asked` is the last request about
  each control bit.  A program makes calls about text, about the bits, or both.
- **LcdBus.**  A byte is two strobes; the display's bus width and the half it
  holds are external.  The delays of the driver are taken to be long enough.
- **AutoMag.**  The stream from the board is in pieces of 8 bytes, the size the
  client copies.  The stream to the board is in words and line ends; the space
  in front of `GPLED LED1 SET` does not matter to the board.  The precedence in
  `rs = read(...) > 0` is modelled: `rs` is 1, so one byte of the key follows
  every choice.  `scanf` takes what was typed and goes on waiting until
  something ends the number; what it leaves in the buffer of stdin can end the
  next one at once.  `recieveBuffer` is not initialized; what it holds has no
  RX2.  An earlier run of the program may have left one of the LEDs on.  The
  history `cut` counts the parts of a frame that came at the end of what their
  `recv` returned: such a part is followed by the next one in the next `recv`.
  `latest` is the last frame whose parts came like that, or `Mixed`.  `Obey`
  reads all that was sent; the properties look at the board only when nothing
  is under way, so the grain makes no difference.

Definitions marked *Mutant* are variations of the definition after them, each a
plausible slip in the code, used to see that a property can fail.

## Runs

| run | instance | checks |
|---|---|---|
| `negotiation` | one option, the client lists it; client asks WILL, WONT, DO, server WILL, WONT, DONT | `ExchangesOK`, `Agreement`, `NoProtocolError`, `ComesOnForAReason`, `RequestAnswered`, `Settles` |
| `negotiation_table` | options 0 and 1 in the array, the client's tables, the server asks anything | `PassiveViewCorrect`, `ImplementsRfc1143` |
| `negotiation_farside` | both ask DO and DONT | `RequestAnswered` **fails** |
| `stream` | all streams of up to 9 bytes over five byte values, chunks of up to 3, buffers of 1 and 2 bytes | `DecodesStream` |
| `link` | three items, calls with awkward bytes, payloads with fields, MSSP variables with no value or two, chunks of up to 4 | `NothingHeldBack`, `ImplementsChannel`, `EverythingHeard` |
| `lcd_terminal` | text on a display of 4 rows of 2, lines of 5, locations on the screen and around it; control bits of two displays | `CursorInStep`, `LastRequestHonoured`, `EachIsATerminal` |
| `lcd_bus` | every data byte, every command the driver sends, restarts anywhere | `InSync`, `BytesArrive` |
| `dashboard` | 2 x 16, lines of 40, readings of 1 to 3 digits, all fuel levels | `ReadingShown`, `NoOldReadingLeft`, `MoreFuelMoreBars` |
| `automag` | three kinds of frames, two frames, a key with a second behind it, the LIN menu, up to two pieces per `recv` | `ShowsLatest`, `SecondPartFollows`, `LedsAsBelieved`, `NeverBothLeds`, `GreenIsCertain`, `SocketServed`, `QuitHonoured` |
| `automag_merged` | two pieces per `recv` | `PartsInPlace` **fails** |
| `chat` | two slots, lines of two bytes, names of one | `NamesUnique`, `ClosedSlotsNameless`, `EndsForAReason` |
| `msp` | window of 1, 16 sequence numbers; a fresh connection and one at number 15; the client sends up to two messages | `WindowFlagRight`, `ImplementsStream`, `ClosesInTheEnd` |

### Why the bounds are enough

- *negotiation*: the streams are not bounded; the exchanges keep at most two
  commands about an option under way.  Options do not interact, and the proofs
  cover any number of them.
- *stream*: 9 bytes hold two subnegotiations in a row, the first ended by the
  start of the second; chunks of 3 hold data, IAC and a command.
- *lcd_terminal*: four rows use both halves of both lines, two columns make
  every second character wrap.  Displays share nothing but `lcdControl`, so the
  program with two of them only switches its bits.
- *negotiation_table*: two options, one of them 0, are enough for an element to
  be found behind spare zero ones.  `UCHAR` is 12, the least that holds them;
  the theorem covers any number of options below the wrap.
- *link*: the longest call, two ENVIRON variables with marked bytes, is cut at
  every place.
- *chat*: two slots let one user's end meet another's message; a third
  connection finds the table full.  One character that is also the line "quit"
  serves as a name and as the command.
- *msp*: a window of 1 is exceeded by the one message above its size that
  `msp_stream_send` accepts and by the packet of the shutdown, so up to three
  packets are under way.  16 numbers are enough for the comparisons to be
  unambiguous, and the second initial state is one packet before the wrap.  Two
  datagrams may be under way to the server and one to the client.  Two messages
  from the client on the fresh connection, and one from the server, were
  checked as well; they take longer and show the same.
- *automag*: two frames are enough to switch from each LED to the other, with a
  key in between; keys typed inside the LIN menu, or behind a key that is not
  yet read, are not counted.  Two pieces per `recv` put a head behind another
  piece, in front of one, and behind the received ones as a leftover.  The
  theorems cover any number of frames, keys and pieces.

### Fairness

- *Rfc1143*: each end reads what has arrived (its poll loop).  No program is
  obliged to ask.
- *TelnetLink*: the receiver reads as long as there are bytes.
- *Msp*: `msp_processing` is called again and again at one end or the other, and
  then offers what is in order and retransmits or acknowledges; a datagram that
  is sent again and again to a socket arrives in the end; an end whose peer has
  gone times out.  The programs are not fair: they need not send or shut down.
- *AutoMag*: the loop goes on when poll or recv can return, and the board sends
  the rest of a frame it has begun.  The user and new frames are not fair.

## Where code and comments disagree

Two runs show a disagreement (`findings` in PROJECT.json):

1. `negotiation_farside`: a DO put off behind a DONT is never sent
   (libtelnet.c 414-417), and the option waits for ever.
2. `automag_merged`: when one `recv` returns the first and the second part of a
   frame, the second part is taken from elsewhere (telnet-projekat1.c 451).

Others were met while modelling.  The models have the behaviour, and the
passing runs state what holds in spite of it:

- `q_size` wraps at the 64th option (libtelnet.c 325): `ImplementsRfc1143` is
  stated and proved up to there.
- An MCCPv1 sequence is not discarded when a chunk ends between its last two
  bytes (libtelnet.c 1042), against the comment at 1039: `DecodesStream` fails
  with WILL and COMPRESS among the bytes.  The `stream` run leaves them out.
- An MSSP payload that ends right behind VAL yields an entry with neither name
  nor value (libtelnet.c 660-706).  The `link` run says variables without a
  value, with an empty one and with several, but no payload ends with VAL.
- In MSP the test for closing compares a `uint16_t` with `next_seq - 1`, an
  `int` (msp_common.h 249): when the numbers of both directions wrap just at
  the end, the connection is never closed.  `ClosesInTheEnd` makes the
  exception, `WrappedAtTheEnd`.
- The chat server ends when a user with a name disconnects, because it sends to
  the descriptor it has just closed (telnet-chatd.c 343-350), and when a
  connection finds the table full (315-322).  `EndsForAReason` lists these.
- A slot closed by a quit may log in again with the bytes behind it, and hands
  the name on to its next user (telnet-chatd.c 157-165).
- A DONT that confirms a WONT raises the WONT event (libtelnet.c 470).
- The unexpected byte that ends an accepted ENVIRON payload is dropped
  (libtelnet.c 1099), against the comment at 1083.  The `stream` run has no
  ENVIRON among its bytes.
- `lcdPosition` accepts a column equal to `cols` and a row equal to `rows`
  (lcd.c 272), against "Ignore invalid locations".  The `lcd_terminal` run
  passes such locations: nothing on the screen changes, and the cursor counts
  as placed again once a command has put it back.  Writing from there is not
  modelled.
- After `lcdCharDef` characters go to the character generator (lcd.c 295); after
  `lcdInit` the display's cursor is one place to the right (lcd.c 492).  The run
  writes there too; the properties hold from the next wrap or placement on.
- `lcdControl` is shared by all displays (lcd.c 80): a request to one display
  also sends it the other bits last asked of another.  `LastRequestHonoured`
  says what is left.
- The second and third `recv` of a frame bypass `telnet_recv`.
- A piece cut elsewhere leaves the client waiting in the second or third `recv`
  when the board falls silent, and no key is read until it speaks again;
  `QuitHonoured` excludes that it never does (`Starved`).
- A q behind another key, or inside the LIN menu, is forgotten; `QuitHonoured`
  is about a q that is read first.
- A key's stray byte garbles the next command for the red LED; `GreenIsCertain`
  and `NeverBothLeds` say what is left.
- Fuel level 0 shows a full tank; a temperature of three digits spills a space
  onto the other row; letters of `km/h` stay behind a shorter speed.
  `MoreFuelMoreBars`, `ReadingShown` and `NoOldReadingLeft` name these.

## What is proved

For every value of the constants, from the named ASSUMEs of the modules and,
where a theorem has one, the condition given here.

**Rfc1143** (`Rfc1143Proofs`)

- `TypeCorrect`: `[]TypeOK`.
- `ExchangesInShape`: `[]ExchangesOK`, if no program asks both for and against
  an option of the far side (`OneSidedRequests`).  `Agreement` is not inductive:
  whether the two states agree when the wire is quiet depends on what each
  command under way will do.  `ExchangeOK` lists the eleven shapes an exchange
  can have, with at most two commands under way.  The proof follows one command
  at a time; lemmas say what sending and taking a command does to the shapes of
  a stream, and that other options' exchanges are left alone.  The condition is
  needed: without it the run `negotiation_farside` reaches an exchange in none
  of the shapes.
- `EndsAgree`, `ProtocolErrorsNeverHappen`: `Agreement` and `NoProtocolError`
  follow from the shapes.
- `NothingComesOnByItself`: the action property `ComesOnForAReason`.
- `PassiveEndInformed`: what a program that never asks knows from the events is
  right, with the strengthening that a passive end is always settled.

**TableNegotiation** (`TableNegotiationProofs`)

- `TableImplementsRfc1143`: `ImplementsRfc1143`, for any set of options whose
  elements the array holds before its length wraps.  The invariant `TableInv`
  says that the array has as many elements as `q_size`, that every element holds
  two states, that the elements of options are the first of each block of four,
  and that the streams hold commands about options.  The lemma `SetGet` is the
  heart of it: a saved option is found with its new state and every other option
  with its old one.  With it what is proved of `Rfc1143` holds of the code's data.
- `PassiveEndReadsTheArray`: `[]PassiveViewCorrect`; `PassiveInv` adds to
  `TableInv` that an option of an end that never asks is settled in the array as
  the events told the program.

**Lcd** (`LcdProofs`), for displays of any size that fits the controller's
lines, any number of displays, any locations and any programs

- `CursorStaysInStep`: `[](TypeOK /\ CursorInStep)`, which is inductive.  The lemma
  `RowFits` is the heart of it: within a row the display's own step to the right
  is the driver's, and at its end the driver sends an address.
- `DisplaysAreTerminals`: the refinement `EachIsATerminal`.  `PlacesApart` says that
  two places on the screen never share an address, so a character changes one
  place only.
- `LastRequestStaysHonoured`: `[]LastRequestHonoured`.  The invariant `Requests`
  adds that `lcdControl` holds the last request about each bit, so that a display
  asked for another bit is not sent an older value of this one.

**LcdBus** (`LcdBusProofs`)

- `StaysInSync`: `[](TypeOK /\ InSync)`.  The invariant `Together` follows the reset
  sequence strobe by strobe: which bus widths and half bytes the display may be
  in after each of them, whatever it was in before.
- `EveryByteArrives`: the action property `BytesArrive`, from the same invariant.

**Chat** (`ChatProofs`), for any number of slots and any lengths

- `NamesStayUnique`, `ClosedSlotsStayNameless`: `[]NamesUnique` and
  `[]ClosedSlotsNameless`; the invariant joins them with the types of the slots.
- `EndsOnlyForAReason`: the action property `EndsForAReason`.

**AutoMag** (`AutoMagProofs`, `AutoMagLedProofs`), for any frames and keys and any
number of pieces in a `recv`

- `TypeCorrect`: `[]TypeOK`.
- `AlwaysShowsLatest`, `SecondPartAlwaysFollows`: `[]ShowsLatest` and
  `[]SecondPartFollows`.  Neither is inductive: that the second `recv` brings the
  right part depends on what is in the socket and still to be sent.  The
  invariant `StreamInv` says of these pieces that every head is followed by the
  two other parts of its frame (`Followed`), and that as long as the parts were
  cut behind one another the missing ones come next (`CutInv`).
- `NeverBothLedsOn`, `GreenStaysCertain`, `LedsStayAsBelieved`: `[]NeverBothLeds`,
  `[]GreenIsCertain` and `[]LedsAsBelieved`.  The properties look at the board at
  rest; the invariant `LedInv` says at every moment which LEDs will be on once
  the board has read what is under way (`Will`), against those the program
  believes in (`Believed`) and the line it has begun (`Rested`).  The lemmas
  before it say what a word, a line end and a whole command add to that.

## What is only model-checked

- Liveness (`RequestAnswered`, `Settles`, `EverythingHeard`, `SocketServed`,
  `QuitHonoured`, `ClosesInTheEnd`): fairness is out of the prover's reach.
- `TypeOK` and `DecodesStream` of `TelnetStream`, `NothingHeldBack` and
  `ImplementsChannel` of `TelnetLink`: the grammar and the payload parsers are
  recursive, and what they compute for every input needs an induction over the
  bytes.
- `ReadingShown`, `NoOldReadingLeft` and `MoreFuelMoreBars` of `Dashboard`: lcdPuts
  is a recursive function over the text, for the same reason.  The single
  characters are covered by the theorems about `Lcd`.
- `WindowFlagRight` and `ImplementsStream` of `Msp`: not proved.  The refinement
  needs an invariant that counts the packets of each direction and relates every
  datagram under way to both windows.

## What is not modelled

- Of libtelnet: allocation failures; proxy mode; compression, where the place at
  which compressed bytes begin depends on what zlib holds back and on calls the
  application makes from inside the handlers, of which the sources say too
  little.  The proxy sample adds to two `TelnetLink`s only the start and end of
  compression, and is left out with it.
- Of the client: connection set-up, failing system calls, a `recv` that ends
  inside one of the pieces of 8 bytes, the exit at `TELNET_EV_ERROR` (the board
  sends text, which raises none), the values of a frame beyond speed and
  identifier.
- Of the driver: `lcdSendCommand` (any byte), writing with the cursor off the
  screen, GPIO set-up, the 8-bit bus.
- Of the chat server: the negotiation of its connections, compression, failures
  of poll and accept.
- Of MSP: several connections of a process, a first datagram that outlives its
  connection, errors of the local daemon, times, the pointers of the packet
  lists, and `msp_server.c`, the daemon's own user of the same streams.
- The rest of serval-dna: a third-party daemon that no other part of the
  repository calls, and by far the largest part of its lines.
- The wiringPi core (hardware registers), the vendor's samples, the earlier
  clients.
