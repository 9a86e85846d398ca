------------------------------ MODULE WsSocket ------------------------------
(***************************************************************************)
(* QWsSocket, the WebSocket of the virtual media programs, as the client   *)
(* of one server over TLS: opening and closing handshake, the messages it  *)
(* puts together from the frames it receives, the frames it cuts messages  *)
(* into, and the same object used for one connection after the other.      *)
(*                                                                         *)
(* A received frame is [op, fin, ok, n, masked, id]: ok if QWsFrame::valid *)
(* accepts it, n bytes of payload, of which the content is just its id.    *)
(* TCP delivers the stream in segments that may end inside of a frame's    *)
(* header or payload.  The two lines of the server's answer to the opening *)
(* handshake, the status and the rest, count one byte each.                *)
(***************************************************************************)
EXTENDS Integers, Sequences, SequencesExt

CONSTANTS
    FrameMenu,     \* the frames the server may send
    Misreadings,   \* the frames that bytes may look like which are none
    Answers,       \* how the server may answer the opening handshake
    Lengths,       \* the lengths of the messages the program writes
    MaxFrameBytes, \* maxBytesPerFrame
    ShortLength,   \* 125: the longest payload without an extended length
    KeyBytes,      \* 16: what a version 0 server sends behind its answer
    MaxFrames,     \* bound: frames the server sends
    MaxWrites,     \* bound: messages the program writes
    MaxSessions    \* bound: calls of connectToHost

Ops == {"text", "binary", "cont", "ping", "pong", "close"}
FrameKinds == [op : Ops, fin : BOOLEAN, ok : BOOLEAN, n : Nat, masked : BOOLEAN]

ASSUME ConstantsAssumption ==
    /\ FrameMenu \subseteq FrameKinds
    /\ \A f \in FrameMenu :
          f.ok /\ f.op \in {"ping", "pong", "close"} => f.fin /\ f.n <= ShortLength
    /\ Misreadings \subseteq FrameKinds
    /\ Answers \subseteq {"accept", "bad status", "bad fields"}
    /\ Lengths \subseteq Nat /\ MaxFrameBytes \in Nat \ {0}
    /\ ShortLength \in Nat /\ KeyBytes \in Nat
    /\ MaxFrames \in Nat /\ MaxWrites \in Nat /\ MaxSessions \in Nat

VARIABLES
    state,      \* QAbstractSocket::state() of the QWsSocket
    tcp,        \* the state of tcpSocket
    old,        \* a replaced tcpSocket that was not closed awaits deletion
    closingHandshakeSent, closingHandshakeReceived,
    reading,    \* _currentFrame->readingState; "Lost" at a header where no frame
                \* begins, "Rest" inside a frame that is none
    continuation, currentDataOpcode, currentData,
    stream,     \* what the server sent and was not read completely
    transit,    \* bytes of it that did not arrive yet
    avail,      \* tcpSocket->bytesAvailable()
    ready,      \* readyRead was emitted for them
    peer,       \* the server on this connection
    sent,       \* the frames written to tcpSocket on this connection
    signals,    \* connected() and disconnected() as they were emitted
    received,   \* the messages of frameReceived() on this connection
    written,    \* the messages given to write() on this connection
    promised,   \* ghost: the messages the server completed on it
    inMessage,  \* ghost: the frames of the one that it did not complete
    behaves,    \* ghost: the server kept to the protocol on it
    misled,     \* ghost: the parser was not reset when it began, or bytes were
                \* taken for what they are not
    frames, writes, sessions   \* the counters of the bounds

flags == <<closingHandshakeSent, closingHandshakeReceived>>
parser == <<reading, continuation, currentDataOpcode, currentData>>
input == <<stream, transit, avail, ready>>
program == <<received, written, writes>>
server == <<peer, promised, inMessage, behaves, frames>>
vars == <<state, tcp, old, flags, parser, input, sent, signals, program, server,
          misled, sessions>>

Init ==
    /\ state = "Unconnected" /\ tcp = "Unconnected" /\ old = FALSE
    /\ closingHandshakeSent = FALSE /\ closingHandshakeReceived = FALSE
    /\ reading = "Header" /\ continuation = FALSE
    /\ currentDataOpcode = "text" /\ currentData = << >>
    /\ stream = << >> /\ transit = 0 /\ avail = 0 /\ ready = FALSE
    /\ peer = "none" /\ sent = << >> /\ signals = << >>
    /\ received = << >> /\ written = << >> /\ promised = << >>
    /\ inMessage = << >> /\ behaves = TRUE /\ misled = FALSE
    /\ frames = 0 /\ writes = 0 /\ sessions = 0
-----------------------------------------------------------------------------
(* What the parser needs for its next step.                                *)
IsLine(item) == item.op \in {"status", "bad status", "fields", "bad fields"}

first == Head(stream)

Needed ==
    IF state = "Connecting" \/ IsLine(first) THEN 1
    ELSE CASE reading \in {"Header", "Length", "Lost"} -> 2
           [] reading = "Mask"   -> IF first.masked THEN 4 ELSE 0
           [] reading = "Body"   -> first.n
           [] reading = "Rest"   -> 1

(* readyRead is handled as far as the bytes go before the next event; the  *)
(* deletion of a replaced socket comes before any other.                   *)
Busy == ready /\ stream # << >> /\ avail >= Needed
Quiet == ~old /\ ~Busy
-----------------------------------------------------------------------------
(* The connection.                                                         *)

\* Mutants: the flags are not reset; the end of a connection that is being
\* closed is not signalled.
TcpUnconnectedKeepsFlags ==
    /\ state' = "Unconnected"
    /\ signals' = IF state = "Unconnected" THEN signals
                                           ELSE Append(signals, "disconnected")
    /\ UNCHANGED flags
TcpUnconnectedSilent ==
    /\ state' = "Unconnected"
    /\ signals' = IF state = "Closing" THEN signals
                                       ELSE Append(signals, "disconnected")
    /\ closingHandshakeSent' = FALSE
    /\ closingHandshakeReceived' = FALSE

(* processTcpStateChanged: what tcpSocket going to UnconnectedState does.  *)
(* The ClosingState before it comes to the same end.                       *)
TcpUnconnected ==
    /\ state' = "Unconnected"
    /\ signals' = IF state = "Unconnected" THEN signals
                                           ELSE Append(signals, "disconnected")
    /\ closingHandshakeSent' = FALSE
    /\ closingHandshakeReceived' = FALSE

(* connectToHost, for wss: a new QSslSocket takes the place of tcpSocket,  *)
(* whatever that one is doing; the parser is left as it is.                *)
connectToHost ==
    /\ Quiet /\ sessions < MaxSessions
    /\ sessions' = sessions + 1
    /\ old' = (tcp # "Unconnected")
    /\ tcp' = "Connecting" /\ state' = "Connecting"
    /\ \/ reading \in {"Header", "Lost"} /\ reading' = "Header"
       \/ reading # "Header" /\ reading' = "Rest"
    /\ misled' = (reading' # "Header" \/ continuation \/ currentData # << >>)
    /\ stream' = << >> /\ transit' = 0 /\ avail' = 0 /\ ready' = FALSE
    /\ peer' = "none" /\ sent' = << >> /\ received' = << >> /\ written' = << >>
    /\ promised' = << >> /\ inMessage' = << >> /\ behaves' = TRUE
    /\ UNCHANGED <<flags, continuation, currentDataOpcode, currentData, signals,
                   frames, writes>>

(* The event loop deletes the replaced socket before anything else.  If it *)
(* was not closed it closes now, and its signals are still connected.      *)
DeleteOld ==
    /\ old
    /\ old' = FALSE
    /\ TcpUnconnected
    /\ UNCHANGED <<tcp, parser, input, sent, program, server, misled, sessions>>

(* onEncrypted, startHandshake: the request goes out in whatever state the *)
(* QWsSocket is.  A server that finds a frame in front of it is puzzled.   *)
onEncrypted ==
    /\ Quiet /\ tcp = "Connecting"
    /\ tcp' = "Connected"
    /\ peer' = IF sent = << >> THEN "asked" ELSE "puzzled"
    /\ UNCHANGED <<state, old, flags, parser, input, sent, signals, program,
                   promised, inMessage, behaves, frames, misled, sessions>>

TcpEnds ==
    /\ Quiet /\ tcp # "Unconnected"
    /\ tcp' = "Unconnected"
    /\ TcpUnconnected
    /\ UNCHANGED <<old, parser, input, sent, program, server, misled, sessions>>

(* tcpSocket->abort(), which also drops what was not read.                 *)
TcpAborted ==
    /\ tcp' = "Unconnected"
    /\ TcpUnconnected
    /\ stream' = << >> /\ transit' = 0 /\ avail' = 0 /\ ready' = FALSE
    /\ UNCHANGED <<old, parser, sent, program, server, misled, sessions>>

(* The connection cannot be set up, is reset or is closed by the server.   *)
TcpLost == tcp # "Closing" /\ TcpEnds

(* disconnectFromHost of tcpSocket has written what was left.              *)
TcpFlushed == tcp = "Closing" /\ TcpEnds

(* A server that refused the opening handshake closes the connection.      *)
ServerHangsUp == peer = "refused" /\ TcpEnds

Frame(op, fin, data) == [op |-> op, fin |-> fin, data |-> data]

\* Mutant: the closing handshake ends only when the server began it.
CloseNeverEnds(handshakeReceived) ==
    IF state = "Unconnected" THEN UNCHANGED <<state, tcp, closingHandshakeSent, sent, signals>>
    ELSE /\ closingHandshakeSent' = TRUE
         /\ sent' = IF closingHandshakeSent THEN sent
                    ELSE Append(sent, Frame("close", TRUE, << >>))
         /\ IF handshakeReceived /\ ~closingHandshakeSent
              THEN /\ state' = "Unconnected" /\ tcp' = "Closing"
                   /\ signals' = Append(signals, "disconnected")
              ELSE /\ state' = "Closing"
                   /\ UNCHANGED <<tcp, signals>>

(* close(), with the value that closingHandshakeReceived has by then.      *)
Close(handshakeReceived) ==
    IF state = "Unconnected" THEN UNCHANGED <<state, tcp, closingHandshakeSent, sent, signals>>
    ELSE /\ closingHandshakeSent' = TRUE
         /\ sent' = IF closingHandshakeSent THEN sent
                    ELSE Append(sent, Frame("close", TRUE, << >>))
         /\ IF handshakeReceived
              THEN /\ state' = "Unconnected" /\ tcp' = "Closing"
                   /\ signals' = Append(signals, "disconnected")
              ELSE /\ state' = "Closing"
                   /\ UNCHANGED <<tcp, signals>>

disconnectFromHost ==
    /\ ~old /\ state # "Unconnected"
    /\ Close(closingHandshakeReceived)
    /\ UNCHANGED <<old, closingHandshakeReceived, parser, input, program, server,
                   misled, sessions>>

(* abort: close() and then tcpSocket->abort(), which ends whatever the     *)
(* former left open.                                                       *)
abort == Quiet /\ tcp # "Unconnected" /\ TcpAborted
-----------------------------------------------------------------------------
(* The server (external).                                                  *)

Line(op) == [op |-> op, n |-> 0]
ServerAnswers(answer) ==
    /\ Quiet /\ tcp = "Connected"
    /\ \/ peer = "asked"
       \/ peer = "puzzled" /\ answer # "accept"
    /\ peer' = IF answer = "accept" THEN "open" ELSE "refused"
    /\ stream' = stream \o
          <<Line(IF answer = "bad status" THEN "bad status" ELSE "status"),
            Line(IF answer = "bad fields" THEN "bad fields" ELSE "fields")>>
    /\ transit' = transit + 2
    /\ UNCHANGED <<state, tcp, old, flags, parser, avail, ready, sent, signals,
                   program, promised, inMessage, behaves, frames, misled, sessions>>

FrameOf(k, id) == [op |-> k.op, fin |-> k.fin, ok |-> k.ok, n |-> k.n,
                   masked |-> k.masked, id |-> id]

Size(k) == 2 + (IF k.n > ShortLength THEN 2 ELSE 0) + (IF k.masked THEN 4 ELSE 0)
             + k.n

(* A frame that the protocol allows at this point.                         *)
Allowed(k) ==
    /\ k.ok
    /\ k.op \in {"text", "binary"} => inMessage = << >>
    /\ k.op = "cont" => inMessage # << >>

(* A frame, and what it adds to the messages the server sent.  A server    *)
(* sends nothing behind its close frame.                                   *)
ServerSends(k) ==
    /\ Quiet /\ tcp = "Connected" /\ peer = "open" /\ frames < MaxFrames
    /\ frames' = frames + 1
    /\ stream' = Append(stream, FrameOf(k, frames'))
    /\ transit' = transit + Size(k)
    /\ peer' = IF k.op = "close" THEN "closed" ELSE "open"
    /\ behaves' = (behaves /\ Allowed(k))
    /\ IF behaves' /\ k.op \in {"text", "binary", "cont"}
         THEN LET message == Append(inMessage, [op |-> k.op, id |-> frames'])
              IN  IF k.fin
                    THEN /\ promised' = Append(promised,
                               [op |-> message[1].op,
                                data |-> [i \in 1 .. Len(message) |-> message[i].id]])
                         /\ inMessage' = << >>
                    ELSE /\ inMessage' = message
                         /\ UNCHANGED promised
         ELSE UNCHANGED <<promised, inMessage>>
    /\ UNCHANGED <<state, tcp, old, flags, parser, avail, ready, sent, signals,
                   program, misled, sessions>>

(* It answers a close frame.                                               *)
ServerCloses ==
    /\ \E i \in 1 .. Len(sent) : sent[i].op = "close"
    /\ Quiet /\ tcp = "Connected" /\ peer = "open"
    /\ peer' = "closed"
    /\ stream' = Append(stream, [op |-> "close", fin |-> TRUE, ok |-> TRUE, n |-> 0,
                                 masked |-> FALSE, id |-> 0])
    /\ transit' = transit + 2
    /\ UNCHANGED <<state, tcp, old, flags, parser, avail, ready, sent, signals,
                   program, promised, inMessage, behaves, frames, misled, sessions>>

(* A segment arrives.                                                      *)
Arrives(bytes) ==
    /\ Quiet /\ tcp = "Connected"
    /\ transit' = transit - bytes
    /\ avail' = avail + bytes
    /\ ready' = TRUE
    /\ UNCHANGED <<state, tcp, old, flags, parser, stream, sent, signals,
                   program, server, misled, sessions>>
-----------------------------------------------------------------------------
(* processHandshake.  A new QWsHandshake reads the lines that are there;   *)
(* when they are not all there they are lost.                              *)

Shaking ==
    /\ ~old /\ ready /\ avail > 0 /\ state = "Connecting" /\ stream # << >>

HandshakePart ==
    /\ Shaking /\ first.op = "status" /\ avail = 1
    /\ stream' = Tail(stream) /\ avail' = 0 /\ ready' = FALSE
    /\ UNCHANGED <<state, tcp, old, flags, parser, transit, sent, signals,
                   program, server, misled, sessions>>

(* read() fails: the first line is not a status line with code 101.        *)
HandshakeFails ==
    /\ Shaking /\ first.op # "status"
    /\ TcpAborted

Behind(items, i) == SubSeq(items, i + 1, Len(items))

(* Where a frame begins, if that is where so many bytes of them are left.  *)
Starts(items, bytes) ==
    {i \in 0 .. Len(items) :
        MapThenSumSet(LAMBDA j : Size(items[j]), i + 1 .. Len(items)) = bytes}

(* The next header is read where so many bytes are left: in step again if  *)
(* a frame begins there, and else out of step.                             *)
GoesOnWith(items, bytes) ==
    \/ /\ Starts(items, bytes) = {}
       /\ reading' = "Lost" /\ stream' = items
    \/ \E i \in Starts(items, bytes) :
          reading' = "Header" /\ stream' = Behind(items, i)

(* All the lines, and, if there are just so many bytes behind them, the    *)
(* accept of a version 0 server.  Frames behind the answer wait until more *)
(* arrives, as processDataV4 returns.                                      *)
ReadAnswer(fields) ==
    /\ Shaking /\ first.op = "status" /\ avail > 1
    /\ stream[2].op = fields
    /\ ready' = FALSE
    /\ \/ /\ avail - 2 # KeyBytes
          /\ avail' = avail - 2
          /\ stream' = Behind(stream, 2)
          /\ UNCHANGED <<reading, misled>>
       \/ /\ avail - 2 = KeyBytes
          /\ avail' = 0 /\ misled' = TRUE
          /\ \/ reading = "Header" /\ GoesOnWith(Behind(stream, 2), transit)
             \/ reading = "Rest" /\ stream' = Behind(stream, 2) /\ UNCHANGED reading

HandshakeComplete ==
    /\ ReadAnswer("fields")
    /\ state' = "Connected"
    /\ signals' = Append(signals, "connected")
    /\ UNCHANGED <<tcp, old, flags, continuation, currentDataOpcode, currentData,
                   transit, sent, program, server, sessions>>

(* isValid() or the comparison of the accept fails: only error() is        *)
(* emitted.                                                                *)
HandshakeInvalid ==
    /\ ReadAnswer("bad fields")
    /\ UNCHANGED <<state, tcp, old, flags, continuation, currentDataOpcode,
                   currentData, transit, sent, signals, program, server, sessions>>
-----------------------------------------------------------------------------
(* processDataV4: one action per case of its switch.                       *)

Parsing(at) ==
    /\ ~old /\ ready /\ state # "Connecting"
    /\ reading = at
    /\ stream # << >> /\ ~IsLine(first)

\* Mutant: a part of the header is read before it is there.
AdvanceUnchecked(bytes, next) ==
    /\ avail' = avail - bytes
    /\ reading' = next
    /\ UNCHANGED <<state, tcp, old, flags, continuation, currentDataOpcode,
                   currentData, stream, transit, ready, sent, signals, program,
                   server, misled, sessions>>

Advance(bytes, next) ==
    /\ avail >= bytes
    /\ avail' = avail - bytes
    /\ reading' = next
    /\ UNCHANGED <<state, tcp, old, flags, continuation, currentDataOpcode,
                   currentData, stream, transit, ready, sent, signals, program,
                   server, misled, sessions>>

HeaderPending ==
    /\ Parsing("Header")
    /\ Advance(2, IF first.n > ShortLength THEN "Length" ELSE "Mask")

PayloadLengthPending == Parsing("Length") /\ Advance(2, "Mask")

MaskPending == Parsing("Mask") /\ Advance(IF first.masked THEN 4 ELSE 0, "Body")

(* The payload is read, and the next header is next.                       *)
ReadBody ==
    /\ Parsing("Body") /\ avail >= first.n
    /\ avail' = avail - first.n
    /\ stream' = Tail(stream)
    /\ reading' = "Header"
    /\ UNCHANGED <<transit, ready, old, server, written, writes, misled, sessions>>

(* Out of step, the next bytes are taken for a frame that looks like k, or *)
(* for what is left of one behind its header.                              *)
Misread(k) ==
    /\ \/ Parsing("Lost") /\ avail >= Size(k) /\ avail' = avail - Size(k)
       \/ /\ Parsing("Rest")
          /\ \E bytes \in 1 .. Size(k) - 2 : avail >= bytes /\ avail' = avail - bytes
    /\ GoesOnWith(stream, avail' + transit)
    /\ UNCHANGED <<transit, ready, old, server, written, writes, misled, sessions>>

(* Or for the beginning of one.                                            *)
MisreadWaits ==
    /\ \/ Parsing("Lost") /\ avail > 1
       \/ Parsing("Rest") /\ avail > 0
    /\ ready' = FALSE
    /\ UNCHANGED <<state, tcp, old, flags, parser, stream, transit, avail, sent,
                   signals, program, server, misled, sessions>>

Invalid(f) ==
    /\ ~f.ok
    /\ closingHandshakeReceived' = (closingHandshakeReceived \/ f.op = "close")
    /\ Close(closingHandshakeReceived')
    /\ UNCHANGED <<continuation, currentDataOpcode, currentData, received>>

Closes(f) ==
    /\ f.ok /\ f.op = "close"
    /\ closingHandshakeReceived' = TRUE
    /\ Close(TRUE)
    /\ UNCHANGED <<continuation, currentDataOpcode, currentData, received>>

(* handlePing: a pong with the payload of the ping.                        *)
Pings(f) ==
    /\ f.ok /\ f.op \in {"ping", "pong"}
    /\ sent' = IF f.op = "ping" /\ state # "Closing"
                 THEN Append(sent, Frame("pong", TRUE, <<f.id>>)) ELSE sent
    /\ UNCHANGED <<state, tcp, flags, continuation, currentDataOpcode,
                   currentData, signals, received>>

DataOpcode(f) == IF f.op = "cont" THEN currentDataOpcode ELSE f.op

(* A continuation of nothing, or a new message inside of one.              *)
Misplaced(f) ==
    /\ f.ok /\ f.op \in {"text", "binary", "cont"}
    /\ (f.op = "cont") # continuation
    /\ currentDataOpcode' = DataOpcode(f)
    /\ Close(closingHandshakeReceived)
    /\ UNCHANGED <<closingHandshakeReceived, continuation, currentData, received>>

\* Mutant: a message is handed on as the data of its last frame only.
HandleLastFrame(f, data) ==
    /\ received' = Append(received, [op |-> DataOpcode(f), data |-> <<f.id>>])
    /\ currentData' = << >>

(* handleData: nothing is delivered while closing, and then currentData is *)
(* kept.                                                                   *)
HandleData(f, data) ==
    \/ /\ state # "Closing"
       /\ received' = Append(received, [op |-> DataOpcode(f), data |-> data])
       /\ currentData' = << >>
    \/ /\ state = "Closing"
       /\ currentData' = data
       /\ UNCHANGED received

Carries(f) ==
    /\ f.ok /\ f.op \in {"text", "binary", "cont"}
    /\ (f.op = "cont") = continuation
    /\ currentDataOpcode' = DataOpcode(f)
    /\ continuation' = ~f.fin
    /\ \/ f.fin /\ HandleData(f, Append(currentData, f.id))
       \/ ~f.fin /\ currentData' = Append(currentData, f.id) /\ UNCHANGED received
    /\ UNCHANGED <<state, tcp, flags, sent, signals>>

InvalidFrame == ReadBody /\ Invalid(first)
CloseFrame == ReadBody /\ Closes(first)
PingFrame == ReadBody /\ Pings(first)
MisplacedFrame == ReadBody /\ Misplaced(first)
DataFrame == ReadBody /\ Carries(first)

MisreadFrame ==
    \E k \in Misreadings :
        LET f == FrameOf(k, 0)
        IN  /\ Misread(k)
            /\ Invalid(f) \/ Closes(f) \/ Pings(f) \/ Misplaced(f) \/ Carries(f)

(* The answer to the opening handshake when the socket is not Connecting   *)
(* any more, parsed as frames.  As all its bytes are ASCII, none of these  *)
(* is valid; the one that starts with "HT" is a close frame.  The parser   *)
(* loses its place, unless the last of them ends with the answer.          *)
AnswerAsFrames ==
    /\ ~old /\ ready /\ avail > 0 /\ state # "Connecting"
    /\ stream # << >> /\ IsLine(first)
    /\ stream' = Tail(stream) /\ avail' = avail - 1 /\ misled' = TRUE
    /\ \/ reading' = "Rest"
       \/ first.op \in {"fields", "bad fields"} /\ reading' = "Header"
    /\ \/ closingHandshakeReceived' = TRUE
       \/ /\ reading = "Rest" \/ first.op \in {"fields", "bad fields"}
          /\ UNCHANGED closingHandshakeReceived
    /\ Close(closingHandshakeReceived')
    /\ UNCHANGED <<old, continuation, currentDataOpcode, currentData, transit,
                   ready, program, server, sessions>>
-----------------------------------------------------------------------------
(* Writing.                                                                *)

\* Mutant: a message of one full frame is not followed by a final one.
ComposeFullFrames(opcode, data) ==
    LET count == (Len(data) + MaxFrameBytes - 1) \div MaxFrameBytes
    IN  [i \in 1 .. count |->
           Frame(IF i = 1 THEN opcode ELSE "cont", i = count,
                 SubSeq(data, (i - 1) * MaxFrameBytes + 1,
                        IF i = count THEN Len(data) ELSE i * MaxFrameBytes))]

(* composeFrames: full frames, and a final one with the rest, which may be *)
(* empty.                                                                  *)
composeFrames(opcode, data) ==
    LET count == Len(data) \div MaxFrameBytes + 1
    IN  [i \in 1 .. count |->
           Frame(IF i = 1 THEN opcode ELSE "cont", i = count,
                 SubSeq(data, (i - 1) * MaxFrameBytes + 1,
                        IF i = count THEN Len(data) ELSE i * MaxFrameBytes))]

(* write: the program writes while it takes the socket for connected.      *)
internalWrite(opcode, n) ==
    LET data == [i \in 1 .. n |-> <<writes + 1, i>>]
    IN  /\ Quiet /\ tcp = "Connected" /\ writes < MaxWrites
        /\ signals # << >> /\ Last(signals) = "connected"
        /\ writes' = writes + 1
        /\ written' = Append(written, [op |-> opcode, data |-> data])
        /\ sent' = sent \o composeFrames(opcode, data)
        /\ UNCHANGED <<state, tcp, old, flags, parser, input, signals, received,
                       server, misled, sessions>>
-----------------------------------------------------------------------------
(* The next-state relation.                                                *)

Program ==
    \/ connectToHost \/ disconnectFromHost \/ abort
    \/ \E opcode \in {"text", "binary"}, n \in Lengths : internalWrite(opcode, n)

Server ==
    \/ \E answer \in Answers : ServerAnswers(answer)
    \/ \E k \in FrameMenu : ServerSends(k)
    \/ ServerCloses

Network ==
    \/ onEncrypted \/ TcpLost \/ TcpFlushed \/ ServerHangsUp
    \/ \E bytes \in 1 .. transit : Arrives(bytes)

processHandshake ==
    HandshakePart \/ HandshakeFails \/ HandshakeComplete \/ HandshakeInvalid

processDataV4 ==
    \/ processHandshake
    \/ HeaderPending \/ PayloadLengthPending \/ MaskPending
    \/ InvalidFrame \/ CloseFrame \/ PingFrame \/ MisplacedFrame \/ DataFrame
    \/ AnswerAsFrames \/ MisreadFrame \/ MisreadWaits

Next == Program \/ DeleteOld \/ Server \/ Network \/ processDataV4

Spec == Init /\ [][Next]_vars

(* The event loop runs, TCP delivers, and the server answers a handshake   *)
(* and a close frame, or hangs up after it refused.  Nothing makes the     *)
(* program connect, write or disconnect, or a connection fail.             *)
Fairness ==
    /\ WF_vars(DeleteOld) /\ WF_vars(processDataV4)
    /\ WF_vars(onEncrypted) /\ WF_vars(TcpFlushed) /\ WF_vars(ServerHangsUp)
    /\ WF_vars(\E bytes \in 1 .. transit : Arrives(bytes))
    /\ WF_vars(\E answer \in Answers : ServerAnswers(answer))
    /\ WF_vars(ServerCloses)

FairSpec == Spec /\ Fairness
-----------------------------------------------------------------------------
(* Properties.                                                             *)

Messages == Seq([op : {"text", "binary"}, data : Seq(Nat)])

(* Every variable of QWsSocket (QWsSocket.h:115-162) and of its            *)
(* environment has its type; in particular the parser never takes more     *)
(* bytes from tcpSocket than it holds.                                     *)
TypeOK ==
    /\ state \in {"Unconnected", "Connecting", "Connected", "Closing"}
    /\ tcp \in {"Unconnected", "Connecting", "Connected", "Closing"}
    /\ {old, closingHandshakeSent, closingHandshakeReceived, continuation,
        ready, behaves, misled} \subseteq BOOLEAN
    /\ reading \in {"Header", "Length", "Mask", "Body", "Lost", "Rest"}
    /\ currentDataOpcode \in {"text", "binary"}
    /\ currentData \in Seq(Nat)
    /\ {transit, avail} \subseteq Nat
    /\ peer \in {"none", "asked", "puzzled", "open", "closed", "refused"}
    /\ \A i \in 1 .. Len(sent) : sent[i].op \in Ops /\ sent[i].fin \in BOOLEAN
    /\ signals \in Seq({"connected", "disconnected"})
    /\ received \in Messages /\ promised \in Messages
    /\ frames \in 0 .. MaxFrames /\ writes \in 0 .. MaxWrites
    /\ sessions \in 0 .. MaxSessions

(* However TCP divides the frames, whatever control frames lie in between  *)
(* and whatever goes wrong later, the messages handed to the program by    *)
(* frameReceived() are those that the server completed, whole and in       *)
(* order, and none is missing once all bytes are read (processDataV4 and   *)
(* handleData).  A connection that began inside of another one's message,  *)
(* and one on which bytes were swallowed with the answer to the handshake  *)
(* or the answer was parsed as frames, are excepted: there messages are    *)
(* skipped and others made up.                                             *)
MessagesIntact ==
    ~misled =>
        /\ IsPrefix(received, promised)
        /\ behaves /\ state = "Connected" /\ stream = << >> => received = promised

(* Therefore the library is the channel of messages that NbdExport takes   *)
(* for granted: what was promised is handed over message by message, or    *)
(* lost with the connection.  Where the parser is misled, nothing is       *)
(* promised: the channel ends by then.                                     *)
Promised == IF misled THEN << >> ELSE promised
Received == IF misled THEN << >> ELSE received

Channel == INSTANCE MessageChannel WITH promised <- Promised, received <- Received

IsChannel == Channel!Spec

IsData(frame) == frame.op \in {"text", "binary", "cont"}

(* A receiver that puts messages together by fragments, from the first     *)
(* frame on.                                                               *)
Receive(messages, frame) ==
    CASE frame.op \in {"text", "binary"} -> Append(messages, frame)
      [] frame.op = "cont" ->
            [messages EXCEPT ![Len(messages)] = Frame(@.op, frame.fin, @.data \o frame.data)]
      [] OTHER -> messages

PutTogether(items) ==
    LET messages[i \in 0 .. Len(items)] ==
            IF i = 0 THEN << >> ELSE Receive(messages[i - 1], items[i])
    IN  messages[Len(items)]

(* The frames that composeFrames cuts the messages of write() into, with   *)
(* the pongs and the close frame in between, are none too long, and come   *)
(* together again to just these messages, each of them complete; also for  *)
(* an empty message and one of a whole number of full frames.              *)
SentIntact ==
    /\ \A i \in 1 .. Len(sent) : IsData(sent[i]) => Len(sent[i].data) <= MaxFrameBytes
    /\ PutTogether(sent) = [i \in 1 .. Len(written) |->
                               Frame(written[i].op, TRUE, written[i].data)]

CloseFrames == {i \in 1 .. Len(sent) : sent[i].op = "close"}

(* The closing handshake belongs to the connection it is made on (close,   *)
(* processTcpStateChanged): a connection becomes open with no close frame  *)
(* sent or received, one that is closing has sent exactly one, and no      *)
(* interplay of the program, the server and the network sends two.         *)
CloseHandshake ==
    ~old =>
        /\ \A i, j \in CloseFrames : i = j
        /\ state = "Connected" => CloseFrames = {} /\ flags = <<FALSE, FALSE>>
        /\ state = "Closing" => CloseFrames # {} /\ closingHandshakeSent

(* The signals connected() and disconnected() tell the program the truth:  *)
(* after the former, and before the latter, the connection is open or      *)
(* being closed; there is no second connected() without disconnected(),    *)
(* and no socket that is anything but unconnected over a dead tcpSocket.   *)
SignalsTrue ==
    ~old =>
        /\ signals # << >> /\ Last(signals) = "connected"
              => state \in {"Connected", "Closing"}
        /\ state = "Connected" => signals # << >> /\ Last(signals) = "connected"
        /\ tcp = "Unconnected" => state = "Unconnected"
        /\ \A i \in 1 .. Len(signals) - 1 :
              signals[i] = "connected" => signals[i + 1] = "disconnected"

(* The parser is misled, or there are bytes that it was not told of: those *)
(* that came in one segment with the answer to the handshake.              *)
Deaf == misled \/ (~ready /\ avail > 0)

(* A closing handshake ends (close, handleControlFrame): a socket that is  *)
(* closing gets to the unconnected state, in whatever phase it was told to *)
(* close and whoever closes first, unless its parser is deaf.              *)
CloseCompletes == state = "Closing" /\ ~Deaf ~> state = "Unconnected" \/ Deaf

(* What QWsSocket.cpp:249 says of connectToHost: a socket that is not      *)
(* unconnected is aborted first, so that no earlier connection is still    *)
(* open behind the new one.                                                *)
EarlierConnectionAborted == ~old
=============================================================================
