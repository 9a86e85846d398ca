--------------------------- MODULE WsSocketProofs ---------------------------
(***************************************************************************)
(* Proofs about WsSocket, for every value of its constants: the signals    *)
(* connected() and disconnected() tell the state of the connection, the    *)
(* types, the closing handshake, the messages that are delivered and the   *)
(* frames that are sent.                                                   *)
(*                                                                         *)
(* SignalsTrue says nothing while a replaced tcpSocket awaits deletion     *)
(* (old).  What makes it inductive is OldConnecting: the new connection is *)
(* not open by then, so that the state change which the deletion brings    *)
(* about emits the disconnected() that is due for the replaced one.        *)
(* CloseHandshake becomes inductive by what a connection begins with       *)
(* (CInv, where it is defined), MessagesIntact by a path that gives every  *)
(* frame of the stream its place in the messages (MInv).  For SentIntact   *)
(* the invariant is the property itself; what takes an argument is that a  *)
(* message is cut into frames that PutTogether turns into it again, by     *)
(* induction over the frames.  IsChannel follows from MInv, step by step.  *)
(*                                                                         *)
(* Few actions touch state, tcp, old and signals: there is one lemma for   *)
(* each way they do it.                                                    *)
(***************************************************************************)
EXTENDS WsSocket, TLAPS, WellFoundedInduction
-----------------------------------------------------------------------------
States == {"Unconnected", "Connecting", "Connected", "Closing"}

SignalTypes ==
    /\ state \in States /\ tcp \in States
    /\ old \in BOOLEAN
    /\ signals \in Seq({"connected", "disconnected"})

Announced == signals # << >> /\ Last(signals) = "connected"

Alternating ==
    \A i \in 1 .. Len(signals) - 1 :
        signals[i] = "connected" => signals[i + 1] = "disconnected"

Agrees ==
    ~old => /\ Announced => state \in {"Connected", "Closing"}
            /\ state = "Connected" => Announced
            /\ tcp = "Unconnected" => state = "Unconnected"

OldConnecting == old => state = "Connecting"

SInv == SignalTypes /\ Alternating /\ Agrees /\ OldConnecting

link == <<state, tcp, old, signals>>
-----------------------------------------------------------------------------
(* Nothing that the signals are about changes.                             *)
LEMMA StillSignals ==
    ASSUME SInv, UNCHANGED link
    PROVE  SInv'
  BY DEF SInv, SignalTypes, Announced, Alternating, Agrees, OldConnecting, link

(* disconnected() may always be emitted.                                   *)
LEMMA AppendDisconnected ==
    ASSUME SInv, signals' = Append(signals, "disconnected")
    PROVE  /\ signals' \in Seq({"connected", "disconnected"})
           /\ Alternating'
           /\ ~Announced'
  <1>1. signals' \in Seq({"connected", "disconnected"})
    BY DEF SInv, SignalTypes
  <1>2. /\ Len(signals') = Len(signals) + 1
        /\ signals'[Len(signals) + 1] = "disconnected"
        /\ \A i \in 1 .. Len(signals) : signals'[i] = signals[i]
    BY DEF SInv, SignalTypes
  <1>3. Alternating'
    <2>. SUFFICES ASSUME NEW i \in 1 .. Len(signals') - 1, signals'[i] = "connected"
                  PROVE  signals'[i + 1] = "disconnected"
      BY DEF Alternating
    <2>1. CASE i = Len(signals)
      BY <1>2, <2>1
    <2>2. CASE i # Len(signals)
      <3>1. i \in 1 .. Len(signals) - 1
        BY <1>2, <2>2 DEF SInv, SignalTypes
      <3>2. QED
        BY <1>2, <3>1 DEF SInv, SignalTypes, Alternating
    <2>3. QED
      BY <2>1, <2>2
  <1>4. ~Announced'
    BY <1>2 DEF Announced, Last
  <1>5. QED
    BY <1>1, <1>3, <1>4

(* tcpSocket, or the one it replaced, becomes unconnected.                 *)
LEMMA UnconnectedSignals ==
    ASSUME SInv, TcpUnconnected, old' = FALSE, tcp' \in States
    PROVE  SInv'
  <1>1. signals' \in Seq({"connected", "disconnected"}) /\ Alternating' /\ ~Announced'
    <2>1. CASE state = "Unconnected"
      BY <2>1 DEF SInv, SignalTypes, Announced, Alternating, Agrees, OldConnecting,
                  TcpUnconnected
    <2>2. CASE state # "Unconnected"
      BY <2>2, AppendDisconnected DEF TcpUnconnected
    <2>3. QED
      BY <2>1, <2>2
  <1>2. QED
    BY <1>1 DEF SInv, SignalTypes, Agrees, OldConnecting, States, TcpUnconnected

(* close().                                                                *)
LEMMA CloseSignals ==
    ASSUME SInv, ~old, UNCHANGED old, NEW handshakeReceived, Close(handshakeReceived)
    PROVE  SInv'
  <1>1. CASE state = "Unconnected"
    BY <1>1, StillSignals DEF Close, link
  <1>2. CASE state # "Unconnected" /\ handshakeReceived
    <2>1. signals' = Append(signals, "disconnected")
      BY <1>2 DEF Close
    <2>2. QED
      BY <1>2, <2>1, AppendDisconnected
      DEF SInv, SignalTypes, Agrees, OldConnecting, States, Close
  <1>3. CASE state # "Unconnected" /\ ~handshakeReceived
    BY <1>3 DEF SInv, SignalTypes, Announced, Alternating, Agrees, OldConnecting,
                States, Close
  <1>4. QED
    BY <1>1, <1>2, <1>3

(* What a frame does, one of the server or one that bytes were taken for.  *)
FrameEffect(f) == Invalid(f) \/ Closes(f) \/ Pings(f) \/ Misplaced(f) \/ Carries(f)

LEMMA FrameSignals ==
    ASSUME SInv, ~old, UNCHANGED old, NEW f, FrameEffect(f)
    PROVE  SInv'
  <1>1. CASE Invalid(f)
    BY <1>1, CloseSignals DEF Invalid
  <1>2. CASE Closes(f)
    BY <1>2, CloseSignals DEF Closes
  <1>3. CASE Misplaced(f)
    BY <1>3, CloseSignals DEF Misplaced
  <1>4. CASE Pings(f) \/ Carries(f)
    BY <1>4, StillSignals DEF Pings, Carries, link
  <1>5. QED
    BY <1>1, <1>2, <1>3, <1>4 DEF FrameEffect

(* connected() is emitted for a socket that was connecting, which no       *)
(* connected() was emitted for.                                            *)
LEMMA ConnectedSignals ==
    ASSUME SInv, HandshakeComplete
    PROVE  SInv'
  <1>1. ~old /\ ~Announced /\ tcp # "Unconnected"
    BY DEF SInv, Agrees, HandshakeComplete, ReadAnswer, Shaking
  <1>2. signals' = Append(signals, "connected") /\ UNCHANGED <<tcp, old>>
    BY DEF HandshakeComplete
  <1>3. /\ signals' \in Seq({"connected", "disconnected"})
        /\ Len(signals') = Len(signals) + 1
        /\ signals'[Len(signals) + 1] = "connected"
        /\ \A i \in 1 .. Len(signals) : signals'[i] = signals[i]
    BY <1>2 DEF SInv, SignalTypes
  <1>4. Announced'
    BY <1>3 DEF Announced, Last, SInv, SignalTypes
  <1>5. Alternating'
    <2>. SUFFICES ASSUME NEW i \in 1 .. Len(signals') - 1, signals'[i] = "connected"
                  PROVE  signals'[i + 1] = "disconnected"
      BY DEF Alternating
    <2>1. CASE i = Len(signals)
      BY <1>1, <1>3, <2>1 DEF Announced, Last, SInv, SignalTypes
    <2>2. CASE i # Len(signals)
      <3>1. i \in 1 .. Len(signals) - 1
        BY <1>3, <2>2 DEF SInv, SignalTypes
      <3>2. QED
        BY <1>3, <3>1 DEF SInv, SignalTypes, Alternating
    <2>3. QED
      BY <2>1, <2>2
  <1>6. QED
    BY <1>1, <1>2, <1>3, <1>4, <1>5
    DEF SInv, SignalTypes, Agrees, OldConnecting, States, HandshakeComplete

(* A new connection.  If there was none before, none is announced.         *)
LEMMA ConnectSignals ==
    ASSUME SInv, connectToHost
    PROVE  SInv'
  <1>1. ~old /\ UNCHANGED signals /\ state' = "Connecting" /\ tcp' = "Connecting"
        /\ old' = (tcp # "Unconnected")
    BY DEF connectToHost, Quiet
  <1>2. ~old' => ~Announced
    BY <1>1 DEF SInv, Agrees
  <1>3. QED
    BY <1>1, <1>2
    DEF SInv, SignalTypes, Announced, Alternating, Agrees, OldConnecting, States
-----------------------------------------------------------------------------
(* No signal was emitted and nothing is connected at first.                *)
THEOREM SignalsInit == Init => SInv
  <1>. SUFFICES ASSUME Init PROVE SInv
    OBVIOUS
  <1>1. signals = << >> /\ state = "Unconnected" /\ tcp = "Unconnected" /\ old = FALSE
    BY DEF Init
  <1>2. SignalTypes
    <2>1. old \in BOOLEAN
      BY <1>1
    <2>2. signals \in Seq({"connected", "disconnected"})
      BY <1>1
    <2>3. state \in States /\ tcp \in States
      BY <1>1 DEF States
    <2>4. QED
      BY <2>1, <2>2, <2>3 DEF SignalTypes
  <1>3. ~Announced
    BY <1>1 DEF Announced
  <1>4. Len(signals) = 0
    BY <1>1
  <1>5. Alternating
    BY <1>4 DEF Alternating
  <1>6. QED
    BY <1>1, <1>2, <1>3, <1>5 DEF SInv, Agrees, OldConnecting

(* Every step keeps SInv.                                                  *)
THEOREM SignalsStep == SInv /\ [Next]_vars => SInv'
  <1>. SUFFICES ASSUME SInv, [Next]_vars
                PROVE  SInv'
    OBVIOUS
  <1>1. CASE connectToHost
    BY <1>1, ConnectSignals
  <1>2. CASE disconnectFromHost
    BY <1>2, CloseSignals DEF disconnectFromHost
  <1>3. CASE abort
    BY <1>3, UnconnectedSignals DEF abort, TcpAborted, Quiet, SInv, SignalTypes, States
  <1>4. CASE \E opcode \in {"text", "binary"}, n \in Lengths : internalWrite(opcode, n)
    BY <1>4, StillSignals DEF internalWrite, link
  <1>5. CASE DeleteOld
    BY <1>5, UnconnectedSignals DEF DeleteOld, SInv, SignalTypes
  <1>6. CASE Server
    BY <1>6, StillSignals DEF Server, ServerAnswers, ServerSends, ServerCloses, link
  <1>7. CASE onEncrypted
    BY <1>7 DEF onEncrypted, Quiet, SInv, SignalTypes, Announced, Alternating, Agrees,
                OldConnecting, States
  <1>8. CASE TcpLost \/ TcpFlushed \/ ServerHangsUp
    BY <1>8, UnconnectedSignals
    DEF TcpLost, TcpFlushed, ServerHangsUp, TcpEnds, Quiet, SInv, SignalTypes, States
  <1>9. CASE \E bytes \in 1 .. transit : Arrives(bytes)
    BY <1>9, StillSignals DEF Arrives, link
  <1>10. CASE HandshakePart \/ HandshakeInvalid
    BY <1>10, StillSignals DEF HandshakePart, HandshakeInvalid, link
  <1>11. CASE HandshakeFails
    BY <1>11, UnconnectedSignals
    DEF HandshakeFails, TcpAborted, Shaking, SInv, SignalTypes, States
  <1>12. CASE HandshakeComplete
    BY <1>12, ConnectedSignals
  <1>13. CASE HeaderPending \/ PayloadLengthPending \/ MaskPending
    BY <1>13, StillSignals
    DEF HeaderPending, PayloadLengthPending, MaskPending, Advance, link
  <1>14. CASE InvalidFrame \/ CloseFrame \/ PingFrame \/ MisplacedFrame \/ DataFrame
    <2>1. ~old /\ UNCHANGED old /\ FrameEffect(first)
      BY <1>14 DEF InvalidFrame, CloseFrame, PingFrame, MisplacedFrame, DataFrame, ReadBody,
                   Parsing, FrameEffect
    <2>2. QED
      BY <2>1, FrameSignals
  <1>15. CASE MisreadFrame
    <2>1. PICK k \in Misreadings : Misread(k) /\ FrameEffect(FrameOf(k, 0))
      BY <1>15 DEF MisreadFrame, FrameEffect
    <2>2. ~old /\ UNCHANGED old
      BY <2>1 DEF Misread, Parsing
    <2>3. QED
      BY <2>1, <2>2, FrameSignals
  <1>16. CASE MisreadWaits
    BY <1>16, StillSignals DEF MisreadWaits, link
  <1>17. CASE AnswerAsFrames
    BY <1>17, CloseSignals DEF AnswerAsFrames
  <1>18. CASE UNCHANGED vars
    BY <1>18, StillSignals DEF vars, link
  <1>19. QED
    BY <1>1, <1>2, <1>3, <1>4, <1>5, <1>6, <1>7, <1>8, <1>9, <1>10, <1>11, <1>12,
       <1>13, <1>14, <1>15, <1>16, <1>17, <1>18
    DEF Next, Program, Network, processHandshake, processDataV4

(* After connected(), and until disconnected(), the connection is open or  *)
(* being closed, whatever the program, the server and the network do and   *)
(* however often the socket is used again (QWsSocket::close,               *)
(* processHandshake, processTcpStateChanged).                              *)
THEOREM SignalsCorrect == Spec => []SignalsTrue
  <1>1. SInv => SignalsTrue
    BY DEF SInv, Alternating, Agrees, Announced, SignalsTrue
  <1>2. QED
    BY SignalsInit, SignalsStep, <1>1, PTL DEF Spec
-----------------------------------------------------------------------------
(* Types.  The frames of the stream and the messages the server did not    *)
(* complete need them too, as the messages of the program are made of them.*)
Lines == [op : {"status", "bad status", "fields", "bad fields"}, n : {0}]
StreamFrames ==
    [op : Ops, fin : BOOLEAN, ok : BOOLEAN, n : Nat, masked : BOOLEAN, id : Nat]
Parts == [op : {"text", "binary", "cont"}, id : Nat]
SentFrames == [op : Ops, fin : BOOLEAN, data : Seq(Nat \cup (Nat \X Nat))]

FlagTypes ==
    /\ closingHandshakeSent \in BOOLEAN /\ closingHandshakeReceived \in BOOLEAN

ParserTypes ==
    /\ reading \in {"Header", "Length", "Mask", "Body", "Lost", "Rest"}
    /\ continuation \in BOOLEAN
    /\ currentDataOpcode \in {"text", "binary"} /\ currentData \in Seq(Nat)

InputTypes ==
    /\ stream \in Seq(Lines \cup StreamFrames)
    /\ transit \in Nat /\ avail \in Nat /\ ready \in BOOLEAN

ProgramTypes ==
    /\ sent \in Seq(SentFrames) /\ received \in Messages
    /\ writes \in 0 .. MaxWrites

ServerTypes ==
    /\ peer \in {"none", "asked", "puzzled", "open", "closed", "refused"}
    /\ promised \in Messages
    /\ inMessage \in Seq(Parts)
    /\ inMessage # << >> => inMessage[1].op \in {"text", "binary"}
    /\ behaves \in BOOLEAN /\ frames \in 0 .. MaxFrames

SessionTypes == misled \in BOOLEAN /\ sessions \in 0 .. MaxSessions

WTypes ==
    FlagTypes /\ ParserTypes /\ InputTypes /\ ProgramTypes /\ ServerTypes /\ SessionTypes

LEMMA AppendTyped ==
    ASSUME NEW S, NEW s \in Seq(S), NEW e \in S
    PROVE  Append(s, e) \in Seq(S)
  OBVIOUS

(* A frame in front of the stream.                                         *)
LEMMA FirstTyped ==
    ASSUME InputTypes, stream # << >>
    PROVE  /\ first \in Lines \cup StreamFrames
           /\ ~IsLine(first) => first \in StreamFrames
           /\ Tail(stream) \in Seq(Lines \cup StreamFrames)
  <1>1. first \in Lines \cup StreamFrames /\ Tail(stream) \in Seq(Lines \cup StreamFrames)
    BY DEF InputTypes, first
  <1>2. first \in Lines => IsLine(first)
    BY DEF Lines, IsLine
  <1>3. QED
    BY <1>1, <1>2

(* close() sends a frame at most.                                          *)
LEMMA CloseTypes ==
    ASSUME sent \in Seq(SentFrames), closingHandshakeSent \in BOOLEAN,
           NEW handshakeReceived, Close(handshakeReceived)
    PROVE  sent' \in Seq(SentFrames) /\ closingHandshakeSent' \in BOOLEAN
  <1>. DEFINE frame == Frame("close", TRUE, << >>)
  <1>1. frame \in SentFrames
    BY DEF Frame, SentFrames, Ops
  <1>2. sent' = sent \/ sent' = Append(sent, frame)
    BY DEF Close
  <1>. HIDE DEF frame
  <1>3. closingHandshakeSent' \in BOOLEAN
    BY DEF Close
  <1>4. QED
    BY <1>1, <1>2, <1>3

(* The full frames that fit into a message.                                *)
LEMMA FullFrames ==
    ASSUME NEW n \in Nat, NEW m \in Nat, m > 0, NEW i \in Nat, i <= n \div m
    PROVE  n \div m \in Nat /\ i * m \in Nat /\ i * m <= n
  <1>1. n \div m \in Nat
    BY SMT
  <1>2. m * (n \div m) <= n
    BY SMT
  <1>3. i * m \in Nat /\ i * m <= m * (n \div m)
    BY <1>1, SMT
  <1>4. QED
    BY <1>1, <1>2, <1>3

(* What composeFrames returns are frames.                                  *)
LEMMA ComposedTypes ==
    ASSUME NEW opcode \in {"text", "binary"}, NEW n \in Nat, NEW w \in Nat
    PROVE  composeFrames(opcode, [i \in 1 .. n |-> <<w, i>>]) \in Seq(SentFrames)
  <1>. DEFINE Items == Nat \cup (Nat \X Nat)
              data == [i \in 1 .. n |-> <<w, i>>]
              count == Len(data) \div MaxFrameBytes + 1
              frame(i) == Frame(IF i = 1 THEN opcode ELSE "cont", i = count,
                                SubSeq(data, (i - 1) * MaxFrameBytes + 1,
                                       IF i = count THEN Len(data) ELSE i * MaxFrameBytes))
  <1>1. data \in Seq(Items) /\ Len(data) = n
    BY DEF data, Items
  <1>. HIDE DEF data, Items
  <1>2. MaxFrameBytes \in Nat /\ MaxFrameBytes > 0
    <2>1. MaxFrameBytes \in Nat \ {0}
      BY ConstantsAssumption, Zenon
    <2>2. QED
      BY <2>1
  <1>. DEFINE full == n \div MaxFrameBytes
  <1>3. full \in Nat
    BY <1>2, FullFrames, 0 \in Nat, 0 <= full
  <1>4. count = full + 1
    BY <1>1
  <1>. HIDE DEF count
  <1>5. ASSUME NEW i \in 1 .. count
        PROVE  frame(i) \in SentFrames
    <2>. DEFINE a == (i - 1) * MaxFrameBytes + 1
                b == IF i = count THEN Len(data) ELSE i * MaxFrameBytes
    <2>1. a \in Nat \ {0}
      <3>1. i - 1 \in Nat /\ i - 1 <= full
        <4>. HIDE DEF full
        <4>1. QED
          BY <1>3, <1>4
      <3>2. (i - 1) * MaxFrameBytes \in Nat
        BY <3>1, <1>2, FullFrames
      <3>3. QED
        BY <3>2
    <2>2. b \in Nat /\ b <= Len(data)
      <3>1. CASE i = count
        BY <3>1, <1>1
      <3>2. CASE i # count
        <4>1. i \in Nat /\ i <= full
          <5>. HIDE DEF full
          <5>1. QED
            BY <3>2, <1>3, <1>4
        <4>2. i * MaxFrameBytes \in Nat /\ i * MaxFrameBytes <= n
          BY <4>1, <1>2, FullFrames
        <4>3. QED
          BY <3>2, <4>2, <1>1
      <3>3. QED
        BY <3>1, <3>2
    <2>. HIDE DEF a, b
    <2>3. SubSeq(data, a, b) \in Seq(Items)
      BY <2>1, <2>2, <1>1
    <2>4. QED
      BY <2>3 DEF a, b, Frame, SentFrames, Ops, Items
  <1>. HIDE DEF frame, count
  <1>6. [i \in 1 .. count |-> frame(i)] \in Seq(SentFrames)
    BY <1>3, <1>4, <1>5
  <1>7. QED
    BY <1>6 DEF composeFrames, frame, count, data

THEOREM TypesInit == Init => WTypes
  <1>. SUFFICES ASSUME Init PROVE WTypes
    OBVIOUS
  <1>1. MaxFrames \in Nat /\ MaxWrites \in Nat /\ MaxSessions \in Nat
    BY ConstantsAssumption, Zenon
  <1>2. /\ closingHandshakeSent = FALSE /\ closingHandshakeReceived = FALSE
        /\ continuation = FALSE /\ ready = FALSE /\ behaves = TRUE /\ misled = FALSE
    BY Zenon DEF Init
  <1>3. /\ reading = "Header" /\ currentDataOpcode = "text" /\ currentData = << >>
        /\ stream = << >> /\ transit = 0 /\ avail = 0
        /\ peer = "none" /\ sent = << >> /\ received = << >> /\ promised = << >>
        /\ inMessage = << >> /\ frames = 0 /\ writes = 0 /\ sessions = 0
    BY Zenon DEF Init
  <1>4. FlagTypes
    BY <1>2 DEF FlagTypes
  <1>5. SessionTypes
    <2>1. misled \in BOOLEAN
      BY <1>2
    <2>2. QED
      BY <1>1, <1>3, <2>1 DEF SessionTypes
  <1>6. ParserTypes
    <2>1. continuation \in BOOLEAN
      BY <1>2
    <2>2. QED
      BY <1>3, <2>1 DEF ParserTypes
  <1>7. InputTypes
    <2>1. ready \in BOOLEAN
      BY <1>2
    <2>2. QED
      BY <1>3, <2>1 DEF InputTypes
  <1>8. ProgramTypes
    BY <1>1, <1>3 DEF ProgramTypes, Messages
  <1>9. ServerTypes
    <2>1. behaves \in BOOLEAN
      BY <1>2
    <2>2. QED
      BY <1>1, <1>3, <2>1 DEF ServerTypes, Messages
  <1>10. QED
    BY <1>4, <1>5, <1>6, <1>7, <1>8, <1>9 DEF WTypes

(* The server.                                                             *)
LEMMA ServerTyped ==
    ASSUME WTypes, Server
    PROVE  WTypes'
  <1>. USE DEF WTypes
  <1>1. ASSUME NEW answer \in Answers, ServerAnswers(answer)
        PROVE  WTypes'
    <2>. DEFINE line1 == Line(IF answer = "bad status" THEN "bad status" ELSE "status")
                line2 == Line(IF answer = "bad fields" THEN "bad fields" ELSE "fields")
    <2>1. line1 \in Lines /\ line2 \in Lines
      BY DEF Line, Lines
    <2>2. stream' = stream \o <<line1, line2>> /\ transit' = transit + 2
          /\ UNCHANGED <<flags, parser, avail, ready, sent, program, promised, inMessage,
                         behaves, frames, misled, sessions>>
          /\ peer' \in {"open", "refused"}
      BY <1>1 DEF ServerAnswers
    <2>. HIDE DEF line1, line2
    <2>3. InputTypes'
      BY <2>1, <2>2 DEF InputTypes
    <2>4. ServerTypes'
      BY <2>2 DEF ServerTypes
    <2>5. QED
      BY <2>2, <2>3, <2>4
      DEF FlagTypes, ParserTypes, ProgramTypes, SessionTypes, flags, parser, program
  <1>2. ASSUME NEW k \in FrameMenu, ServerSends(k)
        PROVE  WTypes'
    <2>. DEFINE frame == FrameOf(k, frames')
                part == [op |-> k.op, id |-> frames']
                message == Append(inMessage, part)
                whole == [op |-> message[1].op,
                          data |-> [i \in 1 .. Len(message) |-> message[i].id]]
    <2>1. k \in FrameKinds
      BY ConstantsAssumption, Zenon
    <2>2. frames' = frames + 1 /\ frames < MaxFrames /\ MaxFrames \in Nat
          /\ stream' = Append(stream, frame) /\ transit' = transit + Size(k)
          /\ peer' \in {"open", "closed"} /\ behaves' = (behaves /\ Allowed(k))
          /\ UNCHANGED <<flags, parser, avail, ready, sent, program, misled, sessions>>
      BY <1>2, ConstantsAssumption DEF ServerSends
    <2>3. frames' \in 0 .. MaxFrames /\ frames' \in Nat
      BY <2>2 DEF ServerTypes
    <2>4. frame \in StreamFrames
      BY <2>1, <2>3 DEF FrameKinds, FrameOf, StreamFrames
    <2>5. Size(k) \in Nat
      <3>1. ShortLength \in Nat
        BY ConstantsAssumption, Zenon
      <3>2. k.n \in Nat
        BY <2>1 DEF FrameKinds
      <3>3. QED
        BY <3>1, <3>2 DEF Size
    <2>6. behaves' /\ k.op \in {"text", "binary", "cont"} =>
             /\ part \in Parts
             /\ message \in Seq(Parts)
             /\ message # << >> /\ message[1].op \in {"text", "binary"}
      <3>. SUFFICES ASSUME behaves', k.op \in {"text", "binary", "cont"}
                    PROVE  /\ part \in Parts
                           /\ message \in Seq(Parts)
                           /\ message # << >> /\ message[1].op \in {"text", "binary"}
        OBVIOUS
      <3>1. part \in Parts /\ part.op = k.op
        BY <2>3 DEF Parts
      <3>2. k.op = "cont" => inMessage # << >>
        BY <2>2 DEF Allowed
      <3>3. k.op \in {"text", "binary"} => inMessage = << >>
        BY <2>2 DEF Allowed
      <3>4. inMessage \in Seq(Parts)
            /\ (inMessage # << >> => inMessage[1].op \in {"text", "binary"})
        BY DEF ServerTypes
      <3>. HIDE DEF part
      <3>5. message \in Seq(Parts)
            /\ message # << >>
        <4>1. message \in Seq(Parts)
          BY <3>1, <3>4
        <4>2. Len(message) = Len(inMessage) + 1
          BY <3>1, <3>4
        <4>3. Len(inMessage) \in Nat
          BY <3>4
        <4>4. message # << >>
          BY <4>2, <4>3
        <4>5. QED
          BY <4>1, <4>4
      <3>6. message[1].op \in {"text", "binary"}
        <4>1. CASE inMessage = << >>
          BY <4>1, <3>1, <3>2
        <4>2. CASE inMessage # << >>
          <5>1. message[1] = inMessage[1]
            BY <4>2, <3>1, <3>4
          <5>2. QED
            BY <4>2, <5>1, <3>4
        <4>3. QED
          BY <4>1, <4>2
      <3>7. QED
        BY <3>1, <3>5, <3>6
    <2>7. behaves' /\ k.op \in {"text", "binary", "cont"} =>
             whole \in [op : {"text", "binary"}, data : Seq(Nat)]
      <3>. HIDE DEF message
      <3>. SUFFICES ASSUME behaves', k.op \in {"text", "binary", "cont"}
                    PROVE  whole \in [op : {"text", "binary"}, data : Seq(Nat)]
        OBVIOUS
      <3>1. message \in Seq(Parts)
            /\ message[1].op \in {"text", "binary"}
        BY <2>6
      <3>2. \A i \in 1 .. Len(message) : message[i] \in Parts
        BY <3>1
      <3>3. \A i \in 1 .. Len(message) : message[i].id \in Nat
        BY <3>2 DEF Parts
      <3>4. [i \in 1 .. Len(message) |-> message[i].id] \in Seq(Nat)
        BY <3>1, <3>3
      <3>5. QED
        BY <3>1, <3>4
    <2>8. \/ /\ behaves' /\ k.op \in {"text", "binary", "cont"}
             /\ promised' = Append(promised, whole) /\ inMessage' = << >>
          \/ /\ behaves' /\ k.op \in {"text", "binary", "cont"}
             /\ inMessage' = message /\ UNCHANGED promised
          \/ UNCHANGED <<promised, inMessage>>
      BY <1>2 DEF ServerSends
    <2>. HIDE DEF whole, message, frame
    <2>9. InputTypes'
      BY <2>2, <2>4, <2>5 DEF InputTypes
    <2>10. behaves' \in BOOLEAN
      BY <2>2 DEF ServerTypes, Allowed
    <2>11. promised' \in Messages
      <3>. DEFINE Wholes == [op : {"text", "binary"}, data : Seq(Nat)]
      <3>1. behaves' /\ k.op \in {"text", "binary", "cont"} => whole \in Wholes
        BY <2>7
      <3>2. promised \in Seq(Wholes)
        BY DEF ServerTypes, Messages
      <3>. HIDE DEF Wholes
      <3>3. promised' \in Seq(Wholes)
        BY <2>8, <3>1, <3>2
      <3>4. QED
        BY <3>3 DEF Wholes, Messages
    <2>12. ServerTypes'
      <3>1. inMessage' \in Seq(Parts)
            /\ (inMessage' # << >> => inMessage'[1].op \in {"text", "binary"})
        <4>1. CASE inMessage' = << >>
          BY <4>1
        <4>2. CASE UNCHANGED inMessage
          BY <4>2 DEF ServerTypes
        <4>3. CASE /\ behaves' /\ k.op \in {"text", "binary", "cont"}
                   /\ inMessage' = message
          BY <4>3, <2>6
        <4>4. QED
          BY <4>1, <4>2, <4>3, <2>8
      <3>2. QED
        BY <2>2, <2>3, <2>10, <2>11, <3>1 DEF ServerTypes
    <2>13. QED
      BY <2>2, <2>9, <2>12
      DEF FlagTypes, ParserTypes, ProgramTypes, SessionTypes, flags, parser, program
  <1>3. ASSUME ServerCloses
        PROVE  WTypes'
    <2>. DEFINE frame == [op |-> "close", fin |-> TRUE, ok |-> TRUE, n |-> 0,
                          masked |-> FALSE, id |-> 0]
    <2>1. frame \in StreamFrames
      BY DEF StreamFrames, Ops
    <2>2. stream' = Append(stream, frame) /\ transit' = transit + 2 /\ peer' = "closed"
          /\ UNCHANGED <<flags, parser, avail, ready, sent, program, promised, inMessage,
                         behaves, frames, misled, sessions>>
      BY <1>3 DEF ServerCloses
    <2>. HIDE DEF frame
    <2>3. QED
      BY <2>1, <2>2
      DEF FlagTypes, ParserTypes, InputTypes, ProgramTypes, ServerTypes, SessionTypes,
          flags, parser, program
  <1>4. QED
    BY <1>1, <1>2, <1>3 DEF Server

(* tcpSocket ends.                                                         *)
LEMMA AbortTyped ==
    ASSUME WTypes, TcpAborted
    PROVE  WTypes'
  <1>1. /\ closingHandshakeSent' = FALSE /\ closingHandshakeReceived' = FALSE
        /\ stream' = << >> /\ transit' = 0 /\ avail' = 0 /\ ready' = FALSE
        /\ UNCHANGED <<parser, sent, program, server, misled, sessions>>
    BY DEF TcpAborted, TcpUnconnected
  <1>2. InputTypes'
    <2>1. ready' \in BOOLEAN
      BY <1>1
    <2>2. QED
      BY <1>1, <2>1 DEF InputTypes
  <1>3. QED
    BY ZenonT(60), <1>1, <1>2
    DEF WTypes, FlagTypes, ParserTypes, ProgramTypes, ServerTypes, SessionTypes, parser,
        program, server

(* What is left behind some items.                                         *)
LEMMA BehindTyped ==
    ASSUME NEW S, NEW s \in Seq(S), NEW i \in Nat
    PROVE  Behind(s, i) \in Seq(S)
  BY DEF Behind

LEMMA GoesOnBehind ==
    ASSUME NEW S, NEW s \in Seq(S), NEW bytes, GoesOnWith(s, bytes)
    PROVE  /\ reading' \in {"Header", "Lost"}
           /\ \E i \in 0 .. Len(s) : stream' = Behind(s, i)
  <1>1. CASE reading' = "Lost" /\ stream' = s
    <2>1. s = Behind(s, 0) /\ 0 \in 0 .. Len(s)
      BY DEF Behind
    <2>2. QED
      BY <1>1, <2>1
  <1>2. CASE \E i \in Starts(s, bytes) : reading' = "Header" /\ stream' = Behind(s, i)
    BY <1>2 DEF Starts
  <1>3. QED
    BY <1>1, <1>2 DEF GoesOnWith

LEMMA GoesOnTyped ==
    ASSUME NEW S, NEW s \in Seq(S), NEW bytes, GoesOnWith(s, bytes)
    PROVE  reading' \in {"Header", "Lost"} /\ stream' \in Seq(S)
  <1>1. PICK i \in 0 .. Len(s) : stream' = Behind(s, i)
    BY GoesOnBehind
  <1>2. Behind(s, i) \in Seq(S)
    BY BehindTyped
  <1>3. QED
    BY <1>1, <1>2, GoesOnBehind

(* The parser and the handshake.                                           *)
LEMMA HandshakeTyped ==
    ASSUME WTypes, processHandshake
    PROVE  WTypes'
  <1>. USE DEF WTypes
  <1>1. CASE HandshakePart
    <2>1. stream # << >> /\ stream' = Tail(stream) /\ avail' = 0 /\ ready' = FALSE
          /\ UNCHANGED <<flags, parser, transit, sent, program, server, misled, sessions>>
      BY <1>1 DEF HandshakePart, Shaking
    <2>2. InputTypes'
      BY <2>1, FirstTyped DEF InputTypes
    <2>3. QED
      BY <2>1, <2>2
      DEF FlagTypes, ParserTypes, ProgramTypes, ServerTypes, SessionTypes, flags, parser,
          program, server
  <1>2. CASE HandshakeFails
    BY <1>2, AbortTyped DEF HandshakeFails
  <1>3. CASE HandshakeComplete \/ HandshakeInvalid
    <2>1. PICK fields : ReadAnswer(fields)
      BY <1>3 DEF HandshakeComplete, HandshakeInvalid
    <2>2. /\ ready' = FALSE /\ avail > 1 /\ (avail' = avail - 2 \/ avail' = 0)
          /\ (misled' = misled \/ misled' = TRUE)
      BY <2>1 DEF ReadAnswer
    <2>3. UNCHANGED <<flags, continuation, currentDataOpcode, currentData, transit, sent,
                      program, server, sessions>>
      BY <1>3 DEF HandshakeComplete, HandshakeInvalid
    <2>4. /\ stream' \in Seq(Lines \cup StreamFrames)
          /\ reading' = reading \/ reading' \in {"Header", "Lost"}
      <3>. DEFINE S == Lines \cup StreamFrames
      <3>1. stream \in Seq(S)
        BY DEF InputTypes
      <3>. HIDE DEF S
      <3>2. Behind(stream, 2) \in Seq(S)
        BY <3>1, BehindTyped
      <3>3. CASE stream' = Behind(stream, 2) /\ reading' = reading
        BY <3>2, <3>3 DEF S
      <3>4. CASE GoesOnWith(Behind(stream, 2), transit)
        BY <3>2, <3>4, GoesOnTyped DEF S
      <3>5. QED
        BY <2>1, <3>3, <3>4 DEF ReadAnswer
    <2>5. InputTypes'
      <3>1. ready' \in BOOLEAN
        BY <2>2
      <3>2. avail' \in Nat
        BY <2>2 DEF InputTypes
      <3>3. QED
        BY <2>3, <2>4, <3>1, <3>2 DEF InputTypes
    <2>6. ParserTypes'
      BY <2>3, <2>4 DEF ParserTypes
    <2>7. SessionTypes'
      <3>1. misled' \in BOOLEAN
        BY <2>2 DEF SessionTypes
      <3>2. QED
        BY <2>3, <3>1 DEF SessionTypes
    <2>8. QED
      BY <2>3, <2>5, <2>6, <2>7
      DEF FlagTypes, ProgramTypes, ServerTypes, flags, program, server
  <1>4. QED
    BY <1>1, <1>2, <1>3 DEF processHandshake

LEMMA HeaderTyped ==
    ASSUME WTypes, HeaderPending \/ PayloadLengthPending \/ MaskPending
    PROVE  WTypes'
  <1>. USE DEF WTypes
  <1>1. PICK bytes \in {0, 2, 4}, next \in {"Length", "Mask", "Body"} : Advance(bytes, next)
    BY DEF HeaderPending, PayloadLengthPending, MaskPending
  <1>2. /\ avail >= bytes /\ avail' = avail - bytes /\ reading' = next
        /\ UNCHANGED <<flags, continuation, currentDataOpcode, currentData, stream, transit,
                       ready, sent, program, server, misled, sessions>>
    BY <1>1 DEF Advance
  <1>3. InputTypes'
    BY <1>1, <1>2 DEF InputTypes
  <1>4. ParserTypes'
    BY <1>1, <1>2 DEF ParserTypes
  <1>5. QED
    BY <1>2, <1>3, <1>4
    DEF FlagTypes, ProgramTypes, ServerTypes, SessionTypes, flags, program, server

(* A frame is read.                                                        *)
LEMMA BodyTyped ==
    ASSUME WTypes, ReadBody
    PROVE  /\ first \in StreamFrames /\ InputTypes' /\ ServerTypes' /\ SessionTypes'
           /\ reading' = "Header" /\ UNCHANGED writes
  <1>. USE DEF WTypes
  <1>1. /\ stream # << >> /\ ~IsLine(first) /\ avail >= first.n /\ avail' = avail - first.n
        /\ stream' = Tail(stream) /\ reading' = "Header"
        /\ UNCHANGED <<transit, ready, server, writes, misled, sessions>>
    BY DEF ReadBody, Parsing
  <1>2. first \in StreamFrames /\ stream' \in Seq(Lines \cup StreamFrames)
    BY <1>1, FirstTyped
  <1>3. first.n \in Nat
    BY <1>2 DEF StreamFrames
  <1>4. InputTypes'
    BY <1>1, <1>2, <1>3 DEF InputTypes
  <1>5. QED
    BY <1>1, <1>2, <1>4 DEF ServerTypes, SessionTypes, server

LEMMA EffectTyped ==
    ASSUME WTypes, NEW f \in StreamFrames, FrameEffect(f), InputTypes', ServerTypes',
           SessionTypes', reading' \in {"Header", "Lost"}, UNCHANGED writes
    PROVE  WTypes'
  <1>. USE DEF WTypes
  <1>2. /\ InputTypes' /\ ServerTypes' /\ SessionTypes'
        /\ reading' \in {"Header", "Lost"} /\ UNCHANGED writes
    OBVIOUS
  <1>4. f.op \in Ops /\ f.fin \in BOOLEAN /\ f.id \in Nat
    BY DEF StreamFrames
  <1>5. f.op \in {"text", "binary", "cont"} => DataOpcode(f) \in {"text", "binary"}
    BY DEF DataOpcode, ParserTypes
  <1>6. CASE Invalid(f) \/ Closes(f)
    <2>1. closingHandshakeReceived' \in BOOLEAN
      BY <1>6 DEF Invalid, Closes, FlagTypes
    <2>2. sent' \in Seq(SentFrames) /\ closingHandshakeSent' \in BOOLEAN
      BY <1>6, CloseTypes DEF Invalid, Closes, ProgramTypes, FlagTypes
    <2>3. UNCHANGED <<continuation, currentDataOpcode, currentData, received>>
      BY <1>6 DEF Invalid, Closes
    <2>4. QED
      BY <1>2, <2>1, <2>2, <2>3 DEF FlagTypes, ParserTypes, ProgramTypes
  <1>7. CASE Pings(f)
    <2>. DEFINE pong == Frame("pong", TRUE, <<f.id>>)
    <2>1. pong \in SentFrames
      <3>1. <<f.id>> \in Seq(Nat \cup (Nat \X Nat))
        BY <1>4
      <3>2. QED
        BY <3>1 DEF Frame, SentFrames, Ops
    <2>2. sent' = sent \/ sent' = Append(sent, pong)
      BY <1>7 DEF Pings
    <2>. HIDE DEF pong
    <2>3. sent' \in Seq(SentFrames)
      BY <2>1, <2>2 DEF ProgramTypes
    <2>4. UNCHANGED <<flags, continuation, currentDataOpcode, currentData, received>>
      BY <1>7 DEF Pings
    <2>5. QED
      BY <1>2, <2>3, <2>4 DEF FlagTypes, ParserTypes, ProgramTypes, flags
  <1>8. CASE Misplaced(f)
    <2>1. sent' \in Seq(SentFrames) /\ closingHandshakeSent' \in BOOLEAN
      BY <1>8, CloseTypes DEF Misplaced, ProgramTypes, FlagTypes
    <2>2. /\ UNCHANGED <<closingHandshakeReceived, continuation, currentData, received>>
          /\ currentDataOpcode' \in {"text", "binary"}
      BY <1>5, <1>8 DEF Misplaced
    <2>3. QED
      BY <1>2, <2>1, <2>2 DEF FlagTypes, ParserTypes, ProgramTypes
  <1>9. CASE Carries(f)
    <2>. DEFINE data == Append(currentData, f.id)
                whole == [op |-> DataOpcode(f), data |-> data]
    <2>1. data \in Seq(Nat)
      BY <1>4 DEF ParserTypes
    <2>2. DataOpcode(f) \in {"text", "binary"}
      BY <1>5, <1>9 DEF Carries
    <2>. HIDE DEF data
    <2>3. whole \in [op : {"text", "binary"}, data : Seq(Nat)]
      BY <2>1, <2>2
    <2>4. /\ currentDataOpcode' = DataOpcode(f) /\ continuation' = ~f.fin
          /\ \/ received' = Append(received, whole) /\ currentData' = << >>
             \/ received' = received /\ currentData' = data
          /\ UNCHANGED <<flags, sent>>
      BY <1>9 DEF Carries, HandleData, data
    <2>. HIDE DEF whole
    <2>5. received' \in Messages /\ currentData' \in Seq(Nat)
      <3>. DEFINE Wholes == [op : {"text", "binary"}, data : Seq(Nat)]
      <3>1. received \in Seq(Wholes) /\ whole \in Wholes
        BY <2>3 DEF ProgramTypes, Messages
      <3>. HIDE DEF Wholes
      <3>2. received' \in Seq(Wholes)
        BY <2>4, <3>1
      <3>3. QED
        <4>1. received' \in Messages
          BY <3>2 DEF Wholes, Messages
        <4>2. currentData' = << >> \/ currentData' = data
          BY <2>4
        <4>3. CASE currentData' = << >>
          BY <4>1, <4>3
        <4>4. CASE currentData' = data
          BY <2>1, <4>1, <4>4
        <4>5. QED
          BY <4>2, <4>3, <4>4
    <2>6. continuation' \in BOOLEAN
      BY <2>4
    <2>7. QED
      BY <1>2, <2>2, <2>4, <2>5, <2>6 DEF FlagTypes, ParserTypes, ProgramTypes, flags
  <1>10. QED
    BY <1>6, <1>7, <1>8, <1>9 DEF FrameEffect

LEMMA FrameTyped ==
    ASSUME WTypes, InvalidFrame \/ CloseFrame \/ PingFrame \/ MisplacedFrame \/ DataFrame
    PROVE  WTypes'
  <1>1. ReadBody /\ FrameEffect(first)
    BY DEF InvalidFrame, CloseFrame, PingFrame, MisplacedFrame, DataFrame, FrameEffect
  <1>2. /\ InputTypes' /\ ServerTypes' /\ SessionTypes' /\ first \in StreamFrames
        /\ reading' = "Header" /\ UNCHANGED writes
    BY <1>1, BodyTyped
  <1>3. QED
    BY <1>1, <1>2, EffectTyped

(* A frame that is none.                                                   *)
LEMMA MisreadingTyped ==
    ASSUME NEW k \in Misreadings
    PROVE  FrameOf(k, 0) \in StreamFrames
  <1>1. k \in FrameKinds
    BY ConstantsAssumption, Zenon
  <1>2. QED
    BY <1>1 DEF FrameKinds, FrameOf, StreamFrames

LEMMA SizeTyped ==
    ASSUME NEW k \in Misreadings
    PROVE  Size(k) \in Nat /\ Size(k) >= 2
  <1>1. k \in FrameKinds /\ ShortLength \in Nat
    BY ConstantsAssumption, Zenon
  <1>2. QED
    BY <1>1 DEF FrameKinds, Size

LEMMA MisreadTyped ==
    ASSUME WTypes, MisreadFrame \/ MisreadWaits
    PROVE  WTypes'
  <1>. USE DEF WTypes
  <1>1. ASSUME NEW k \in Misreadings, Misread(k), FrameEffect(FrameOf(k, 0))
        PROVE  WTypes'
    <2>1. /\ GoesOnWith(stream, avail' + transit)
          /\ UNCHANGED <<transit, ready, old, server, written, writes, misled, sessions>>
      BY <1>1 DEF Misread
    <2>2. avail' \in Nat
      BY <1>1, SizeTyped DEF Misread, InputTypes
    <2>3. reading' \in {"Header", "Lost"} /\ stream' \in Seq(Lines \cup StreamFrames)
      BY <2>1, GoesOnTyped DEF InputTypes
    <2>4. InputTypes'
      BY <2>1, <2>2, <2>3 DEF InputTypes
    <2>5. ServerTypes' /\ SessionTypes'
      BY <2>1 DEF ServerTypes, SessionTypes, server
    <2>6. UNCHANGED writes
      BY <2>1
    <2>7. FrameOf(k, 0) \in StreamFrames
      BY MisreadingTyped
    <2>8. QED
      BY <1>1, <2>3, <2>4, <2>5, <2>6, <2>7, EffectTyped
  <1>2. CASE MisreadWaits
    <2>1. /\ ready' = FALSE
          /\ UNCHANGED <<flags, parser, stream, transit, avail, sent, program, server, misled,
                         sessions>>
      BY <1>2 DEF MisreadWaits
    <2>2. ready' \in BOOLEAN
      BY <2>1
    <2>3. InputTypes'
      BY <2>1, <2>2 DEF InputTypes
    <2>4. QED
      BY <2>1, <2>3
      DEF FlagTypes, ParserTypes, ProgramTypes, ServerTypes, SessionTypes, flags, parser,
          program, server
  <1>3. QED
    BY <1>1, <1>2 DEF MisreadFrame, FrameEffect

LEMMA AnswerTyped ==
    ASSUME WTypes, AnswerAsFrames
    PROVE  WTypes'
  <1>. USE DEF WTypes
  <1>1. /\ stream # << >> /\ avail > 0 /\ stream' = Tail(stream) /\ avail' = avail - 1
        /\ reading' \in {"Header", "Rest"} /\ misled' = TRUE
        /\ UNCHANGED <<continuation, currentDataOpcode, currentData, received, transit, ready,
                       server, writes, sessions>>
    BY DEF AnswerAsFrames, program
  <1>2. InputTypes'
    BY <1>1, FirstTyped DEF InputTypes
  <1>3. closingHandshakeReceived' \in BOOLEAN
    BY DEF AnswerAsFrames, FlagTypes
  <1>4. sent' \in Seq(SentFrames) /\ closingHandshakeSent' \in BOOLEAN
    BY CloseTypes DEF AnswerAsFrames, ProgramTypes, FlagTypes
  <1>5. misled' \in BOOLEAN
    BY <1>1
  <1>6. QED
    BY <1>1, <1>2, <1>3, <1>4, <1>5
    DEF FlagTypes, ParserTypes, ProgramTypes, ServerTypes, SessionTypes, server

(* The program and the network.                                            *)
LEMMA ConnectTyped ==
    ASSUME WTypes, connectToHost
    PROVE  WTypes'
  <1>. USE DEF WTypes
  <1>1. /\ sessions < MaxSessions /\ sessions' = sessions + 1
        /\ misled' = (reading' # "Header" \/ continuation \/ currentData # << >>)
        /\ reading' \in {"Header", "Rest"}
        /\ stream' = << >> /\ transit' = 0 /\ avail' = 0 /\ ready' = FALSE
        /\ peer' = "none" /\ sent' = << >> /\ received' = << >>
        /\ promised' = << >> /\ inMessage' = << >> /\ behaves' = TRUE
        /\ UNCHANGED <<flags, continuation, currentDataOpcode, currentData, frames, writes>>
    BY DEF connectToHost
  <1>2. sessions' \in 0 .. MaxSessions
    <2>1. MaxSessions \in Nat
      BY ConstantsAssumption, Zenon
    <2>2. QED
      BY <1>1, <2>1 DEF SessionTypes
  <1>3. misled' \in BOOLEAN
    BY DEF connectToHost
  <1>4. ready' \in BOOLEAN /\ behaves' \in BOOLEAN
    BY <1>1
  <1>5. received' \in Messages /\ promised' \in Messages
    BY <1>1 DEF Messages
  <1>6. FlagTypes' /\ ParserTypes' /\ SessionTypes'
    BY <1>1, <1>2, <1>3 DEF FlagTypes, ParserTypes, SessionTypes, flags
  <1>7. InputTypes' /\ ProgramTypes'
    BY <1>1, <1>4, <1>5 DEF InputTypes, ProgramTypes
  <1>8. ServerTypes'
    BY <1>1, <1>4, <1>5 DEF ServerTypes
  <1>9. QED
    BY <1>6, <1>7, <1>8

LEMMA WriteTyped ==
    ASSUME WTypes, NEW opcode \in {"text", "binary"}, NEW n \in Lengths,
           internalWrite(opcode, n)
    PROVE  WTypes'
  <1>. USE DEF WTypes
  <1>. DEFINE composed == composeFrames(opcode, [i \in 1 .. n |-> <<writes + 1, i>>])
  <1>1. /\ writes < MaxWrites /\ writes' = writes + 1 /\ sent' = sent \o composed
        /\ UNCHANGED <<flags, parser, input, received, server, misled, sessions>>
    BY DEF internalWrite
  <1>2. n \in Nat /\ MaxWrites \in Nat
    BY ConstantsAssumption, Zenon
  <1>3. writes + 1 \in Nat /\ writes' \in 0 .. MaxWrites
    BY <1>1, <1>2 DEF ProgramTypes
  <1>4. composed \in Seq(SentFrames)
    BY <1>2, <1>3, ComposedTypes
  <1>. HIDE DEF composed
  <1>5. ProgramTypes'
    BY <1>1, <1>3, <1>4 DEF ProgramTypes
  <1>6. QED
    BY <1>1, <1>5
    DEF FlagTypes, ParserTypes, InputTypes, ServerTypes, SessionTypes, flags, parser, input,
        server

(* Every step keeps the types.                                             *)
THEOREM TypesStep == WTypes /\ [Next]_vars => WTypes'
  <1>. SUFFICES ASSUME WTypes, [Next]_vars
                PROVE  WTypes'
    OBVIOUS
  <1>. USE DEF WTypes
  <1>1. CASE disconnectFromHost
    <2>1. sent' \in Seq(SentFrames) /\ closingHandshakeSent' \in BOOLEAN
      BY <1>1, CloseTypes DEF disconnectFromHost, ProgramTypes, FlagTypes
    <2>2. UNCHANGED <<closingHandshakeReceived, parser, input, program, server, misled, sessions>>
      BY <1>1 DEF disconnectFromHost
    <2>3. QED
      BY <2>1, <2>2
      DEF FlagTypes, ParserTypes, InputTypes, ProgramTypes, ServerTypes, SessionTypes, parser,
          input, program, server
  <1>2. CASE abort
    BY <1>2, AbortTyped DEF abort
  <1>3. CASE DeleteOld \/ TcpLost \/ TcpFlushed \/ ServerHangsUp
    <2>1. /\ closingHandshakeSent' = FALSE /\ closingHandshakeReceived' = FALSE
          /\ UNCHANGED <<parser, input, sent, program, server, misled, sessions>>
      BY <1>3 DEF DeleteOld, TcpLost, TcpFlushed, ServerHangsUp, TcpEnds, TcpUnconnected
    <2>2. QED
      BY ZenonT(60), <2>1
      DEF FlagTypes, ParserTypes, InputTypes, ProgramTypes, ServerTypes, SessionTypes, parser,
          input, program, server
  <1>4. CASE onEncrypted
    <2>1. /\ peer' \in {"asked", "puzzled"}
          /\ UNCHANGED <<flags, parser, input, sent, program, promised, inMessage, behaves,
                         frames, misled, sessions>>
      BY <1>4 DEF onEncrypted
    <2>2. QED
      BY <2>1
      DEF FlagTypes, ParserTypes, InputTypes, ProgramTypes, ServerTypes, SessionTypes, flags,
          parser, input, program
  <1>5. ASSUME NEW bytes \in 1 .. transit, Arrives(bytes)
        PROVE  WTypes'
    <2>1. /\ transit' = transit - bytes /\ avail' = avail + bytes /\ ready' = TRUE
          /\ UNCHANGED <<flags, parser, stream, sent, program, server, misled, sessions>>
      BY <1>5 DEF Arrives
    <2>2. ready' \in BOOLEAN
      BY <2>1
    <2>3. InputTypes'
      BY <2>1, <2>2 DEF InputTypes
    <2>4. QED
      BY <2>1, <2>3
      DEF FlagTypes, ParserTypes, ProgramTypes, ServerTypes, SessionTypes, flags, parser,
          program, server
  <1>6. CASE UNCHANGED vars
    BY <1>6
    DEF FlagTypes, ParserTypes, InputTypes, ProgramTypes, ServerTypes, SessionTypes, vars, flags,
        parser, input, program, server
  <1>7. CASE Program
    BY <1>1, <1>2, <1>7, ConnectTyped, WriteTyped DEF Program
  <1>8. CASE Network
    BY <1>3, <1>4, <1>5, <1>8 DEF Network
  <1>9. CASE processDataV4
    BY <1>9, HandshakeTyped, HeaderTyped, FrameTyped, AnswerTyped, MisreadTyped
    DEF processDataV4
  <1>10. QED
    BY <1>3, <1>6, <1>7, <1>8, <1>9, ServerTyped DEF Next

(* Every variable of QWsSocket and of its environment has its type, and    *)
(* the parser never takes more bytes from tcpSocket than it holds          *)
(* (QWsSocket.h, QWsSocket::processDataV4).                                *)
THEOREM Typed == Spec => []TypeOK
  <1>1. SInv /\ WTypes => TypeOK
    <2>. SUFFICES ASSUME SInv, WTypes PROVE TypeOK
      OBVIOUS
    <2>1. \A i \in 1 .. Len(sent) : sent[i].op \in Ops /\ sent[i].fin \in BOOLEAN
      <3>1. sent \in Seq(SentFrames)
        BY DEF WTypes, ProgramTypes
      <3>2. \A i \in 1 .. Len(sent) : sent[i] \in SentFrames
        BY <3>1
      <3>3. QED
        BY <3>2 DEF SentFrames
    <2>2. {old, closingHandshakeSent, closingHandshakeReceived, continuation, ready, behaves,
           misled} \subseteq BOOLEAN
      BY DEF SInv, SignalTypes, WTypes, FlagTypes, ParserTypes, InputTypes, ServerTypes,
             SessionTypes
    <2>3. {transit, avail} \subseteq Nat
      BY DEF WTypes, InputTypes
    <2>4. QED
      BY <2>1, <2>2, <2>3
      DEF TypeOK, SInv, SignalTypes, States, WTypes, ParserTypes, ProgramTypes, ServerTypes,
          SessionTypes
  <1>2. QED
    BY SignalsInit, SignalsStep, TypesInit, TypesStep, <1>1, PTL DEF Spec
-----------------------------------------------------------------------------
(* The closing handshake.  What makes CloseHandshake inductive is that a   *)
(* connection begins with a socket that is not closing: one that is not    *)
(* replaced has no flag set, and the flags are only set where bytes are    *)
(* parsed (Busy), which is over when tcpSocket is unconnected.             *)
AtMostOne == \A i, j \in CloseFrames : i = j

FreshConnection == old => tcp = "Connecting" /\ sent = << >> /\ stream = << >>

NoneSent == CloseFrames = {} /\ ~closingHandshakeSent /\ ~closingHandshakeReceived

OpenConnection == ~old /\ state \in {"Connecting", "Connected"} => NoneSent

ClosingConnection == ~old /\ state = "Closing" => CloseFrames # {} /\ closingHandshakeSent

Over ==
    tcp = "Unconnected" =>
        /\ state = "Unconnected" /\ ~closingHandshakeSent /\ ~closingHandshakeReceived
        /\ ~Busy

ParserWaits == state = "Connecting" => reading \in {"Header", "Lost", "Rest"}

CInv ==
    AtMostOne /\ FreshConnection /\ OpenConnection /\ ClosingConnection /\ Over /\ ParserWaits

(* What the parser waits for is a number of bytes.                         *)
LEMMA NeededBytes ==
    ASSUME WTypes, stream # << >>
    PROVE  /\ Needed \in Nat
           /\ state = "Connecting" \/ IsLine(first) => Needed = 1
           /\ state # "Connecting" /\ ~IsLine(first) =>
                 /\ reading \in {"Header", "Length"} => Needed = 2
                 /\ reading = "Mask" => Needed = IF first.masked THEN 4 ELSE 0
                 /\ reading = "Body" => Needed = first.n
                 /\ reading = "Lost" => Needed = 2
                 /\ reading = "Rest" => Needed = 1
  <1>1. ~IsLine(first) => first.n \in Nat
    BY FirstTyped DEF WTypes, StreamFrames
  <1>2. avail \in Nat /\ reading \in {"Header", "Length", "Mask", "Body", "Lost", "Rest"}
    BY DEF WTypes, InputTypes, ParserTypes
  <1>3. CASE state = "Connecting" \/ IsLine(first)
    <2>1. Needed = 1
      BY <1>3 DEF Needed
    <2>2. QED
      BY <1>3, <2>1
  <1>4. CASE state # "Connecting" /\ ~IsLine(first) /\ reading \in {"Header", "Length"}
    BY <1>4 DEF Needed
  <1>5. CASE state # "Connecting" /\ ~IsLine(first) /\ reading = "Mask"
    BY <1>5 DEF Needed
  <1>6. CASE state # "Connecting" /\ ~IsLine(first) /\ reading = "Body"
    BY <1>1, <1>6 DEF Needed
  <1>7. CASE state # "Connecting" /\ ~IsLine(first) /\ reading \in {"Lost", "Rest"}
    BY <1>7 DEF Needed
  <1>8. QED
    BY <1>2, <1>3, <1>4, <1>5, <1>6, <1>7

(* No byte is parsed that the parser does not wait for.                    *)
LEMMA ParsesWhenBusy ==
    ASSUME WTypes, processDataV4
    PROVE  Busy /\ ~old /\ UNCHANGED old
  <1>1. avail \in Nat
    BY DEF WTypes, InputTypes
  <1>2. CASE processHandshake
    <2>1. Shaking /\ UNCHANGED old
      BY <1>2 DEF processHandshake, HandshakePart, HandshakeFails, HandshakeComplete,
                  HandshakeInvalid, ReadAnswer, TcpAborted
    <2>2. QED
      BY <1>1, <2>1, NeededBytes DEF Busy, Shaking
  <1>3. CASE HeaderPending \/ PayloadLengthPending
    BY <1>1, <1>3, NeededBytes
    DEF HeaderPending, PayloadLengthPending, Parsing, Advance, Busy
  <1>4. CASE MaskPending
    BY <1>1, <1>4, NeededBytes DEF MaskPending, Parsing, Advance, Busy
  <1>5. CASE InvalidFrame \/ CloseFrame \/ PingFrame \/ MisplacedFrame \/ DataFrame
    <2>1. ReadBody
      BY <1>5 DEF InvalidFrame, CloseFrame, PingFrame, MisplacedFrame, DataFrame
    <2>2. QED
      BY <2>1, NeededBytes DEF ReadBody, Parsing, Busy
  <1>6. CASE AnswerAsFrames
    <2>1. /\ stream # << >> /\ IsLine(first) /\ ready /\ avail > 0 /\ ~old /\ UNCHANGED old
      BY <1>6 DEF AnswerAsFrames
    <2>2. Needed = 1
      BY <2>1 DEF Needed
    <2>3. QED
      BY <1>1, <2>1, <2>2 DEF Busy
  <1>7. CASE MisreadFrame
    <2>1. PICK k \in Misreadings : Misread(k)
      BY <1>7 DEF MisreadFrame
    <2>2. Size(k) \in Nat /\ Size(k) >= 2
      BY SizeTyped
    <2>3. /\ stream # << >> /\ ~IsLine(first) /\ state # "Connecting" /\ ready
          /\ ~old /\ UNCHANGED old
          /\ (reading = "Lost" /\ avail >= 2) \/ (reading = "Rest" /\ avail >= 1)
      BY <1>1, <2>1, <2>2 DEF Misread, Parsing
    <2>4. QED
      BY <1>1, <2>3, NeededBytes DEF Busy
  <1>8. CASE MisreadWaits
    BY <1>1, <1>8, NeededBytes DEF MisreadWaits, Parsing, Busy
  <1>9. QED
    BY <1>2, <1>3, <1>4, <1>5, <1>6, <1>7, <1>8 DEF processDataV4

(* The close frames among the frames that were sent.                       *)
LEMMA OneMoreSent ==
    ASSUME sent \in Seq(SentFrames), NEW frame \in SentFrames, sent' = Append(sent, frame)
    PROVE  /\ frame.op # "close" => CloseFrames' = CloseFrames
           /\ frame.op = "close" => CloseFrames' = CloseFrames \cup {Len(sent) + 1}
  <1>1. /\ Len(sent') = Len(sent) + 1 /\ sent'[Len(sent) + 1] = frame
        /\ \A i \in 1 .. Len(sent) : sent'[i] = sent[i]
        /\ Len(sent) \in Nat
    OBVIOUS
  <1>2. 1 .. Len(sent') = (1 .. Len(sent)) \cup {Len(sent) + 1}
    BY <1>1
  <1>3. QED
    BY <1>1, <1>2 DEF CloseFrames

(* Nothing of the closing handshake happens.                               *)
LEMMA KeepsHandshake ==
    ASSUME CInv, ~old, UNCHANGED <<old, state, flags>>, tcp' # "Unconnected",
           CloseFrames' = CloseFrames,
           state = "Connecting" => reading' \in {"Header", "Lost", "Rest"}
    PROVE  CInv'
  BY DEF CInv, AtMostOne, FreshConnection, NoneSent, OpenConnection, ClosingConnection, Over,
         ParserWaits, flags

LEMMA SentKept ==
    ASSUME UNCHANGED sent
    PROVE  CloseFrames' = CloseFrames
  BY DEF CloseFrames

(* close(), whatever it is told of the other side's close frame.           *)
LEMMA KeepsClosing ==
    ASSUME CInv, WTypes, SInv, ~old, UNCHANGED old, tcp # "Unconnected",
           NEW handshakeReceived, Close(handshakeReceived),
           state # "Connecting" \/ UNCHANGED reading
    PROVE  CInv'
  <1>. DEFINE frame == Frame("close", TRUE, << >>)
  <1>1. frame \in SentFrames /\ frame.op = "close"
    BY DEF Frame, SentFrames, Ops
  <1>2. sent \in Seq(SentFrames)
    BY DEF WTypes, ProgramTypes
  <1>3. CASE state = "Unconnected"
    <2>1. UNCHANGED <<state, tcp, sent>>
      BY <1>3 DEF Close
    <2>2. QED
      BY <1>3, <2>1, SentKept
      DEF CInv, AtMostOne, FreshConnection, OpenConnection, ClosingConnection, Over, ParserWaits
  <1>4. CASE state # "Unconnected"
    <2>. HIDE DEF frame
    <2>1. /\ closingHandshakeSent' = TRUE
          /\ sent' = IF closingHandshakeSent THEN sent ELSE Append(sent, frame)
          /\ \/ state' = "Unconnected" /\ tcp' = "Closing"
             \/ state' = "Closing" /\ tcp' = tcp
      BY <1>4 DEF Close, frame
    <2>2. CloseFrames # {} => closingHandshakeSent
      BY <1>4 DEF CInv, OpenConnection, ClosingConnection, NoneSent, SInv, SignalTypes, States
    <2>3. closingHandshakeSent => state = "Closing"
      BY <1>4 DEF CInv, OpenConnection, NoneSent, SInv, SignalTypes, States
    <2>4. AtMostOne' /\ CloseFrames' # {}
      <3>1. CASE closingHandshakeSent
        <4>1. CloseFrames # {}
          BY <2>3, <3>1 DEF CInv, ClosingConnection
        <4>2. QED
          BY <2>1, <3>1, <4>1, SentKept DEF CInv, AtMostOne
      <3>2. CASE ~closingHandshakeSent
        <4>1. CloseFrames = {} /\ sent' = Append(sent, frame)
          BY <2>1, <2>2, <3>2
        <4>2. CloseFrames' = {Len(sent) + 1}
          BY <1>1, <1>2, <4>1, OneMoreSent
        <4>3. QED
          BY <4>2 DEF AtMostOne
      <3>3. QED
        BY <3>1, <3>2
    <2>5. closingHandshakeSent'
      BY <2>1
    <2>6. tcp' # "Unconnected" /\ state' \in {"Unconnected", "Closing"}
      BY <2>1
    <2>7. QED
      BY <2>4, <2>5, <2>6
      DEF CInv, FreshConnection, OpenConnection, ClosingConnection, Over, ParserWaits
  <1>5. QED
    BY <1>3, <1>4

(* A frame, or one that bytes were taken for.                              *)
LEMMA KeepsEffect ==
    ASSUME CInv, WTypes, SInv, ~old, UNCHANGED old, tcp # "Unconnected",
           state # "Connecting", NEW f \in StreamFrames, FrameEffect(f)
    PROVE  CInv'
  <1>1. CASE Invalid(f)
    BY <1>1, KeepsClosing DEF Invalid
  <1>2. CASE Closes(f)
    BY <1>2, KeepsClosing DEF Closes
  <1>3. CASE Misplaced(f)
    BY <1>3, KeepsClosing DEF Misplaced
  <1>4. CASE Pings(f)
    <2>. DEFINE pong == Frame("pong", TRUE, <<f.id>>)
    <2>1. UNCHANGED <<state, tcp, flags>> /\ (sent' = sent \/ sent' = Append(sent, pong))
      BY <1>4 DEF Pings
    <2>2. pong \in SentFrames /\ pong.op = "pong"
      <3>1. <<f.id>> \in Seq(Nat \cup (Nat \X Nat))
        BY DEF StreamFrames
      <3>2. QED
        BY <3>1 DEF Frame, SentFrames, Ops
    <2>. HIDE DEF pong
    <2>3. CloseFrames' = CloseFrames
      BY <2>1, <2>2, SentKept, OneMoreSent DEF WTypes, ProgramTypes
    <2>4. QED
      BY <2>1, <2>3, KeepsHandshake
  <1>5. CASE Carries(f)
    <2>1. UNCHANGED <<state, tcp, flags, sent>>
      BY <1>5 DEF Carries
    <2>2. QED
      BY <2>1, SentKept, KeepsHandshake
  <1>6. QED
    BY <1>1, <1>2, <1>3, <1>4, <1>5 DEF FrameEffect

(* tcpSocket ends, on its own or by abort().                               *)
LEMMA KeepsEnded ==
    ASSUME CInv, WTypes, TcpEnds \/ (~old /\ TcpAborted)
    PROVE  CInv'
  <1>1. /\ ~old /\ UNCHANGED <<old, sent>> /\ tcp' = "Unconnected" /\ state' = "Unconnected"
        /\ closingHandshakeSent' = FALSE /\ closingHandshakeReceived' = FALSE
    BY DEF TcpEnds, TcpAborted, TcpUnconnected, Quiet
  <1>2. ~Busy'
    <2>1. CASE stream' = << >>
      BY <2>1 DEF Busy
    <2>2. CASE stream' # << >>
      <3>1. UNCHANGED input /\ UNCHANGED reading /\ ~Busy
        BY <2>2 DEF TcpEnds, TcpAborted, Quiet, parser
      <3>2. stream # << >> /\ UNCHANGED <<stream, avail, ready, reading, first>>
        BY <2>2, <3>1 DEF input, first
      <3>3. Needed \in Nat
        BY <3>2, NeededBytes
      <3>4. avail \in Nat /\ reading \in {"Header", "Length", "Mask", "Body", "Lost", "Rest"}
        BY DEF WTypes, InputTypes, ParserTypes
      <3>5. ready => avail < Needed
        BY <3>1, <3>2, <3>4, NeededBytes DEF Busy
      <3>6. Needed' \in Nat /\ (ready => avail < Needed')
        <4>1. CASE state = "Connecting" /\ ~IsLine(first)
          <5>1. reading \in {"Header", "Lost", "Rest"}
            BY <4>1 DEF CInv, ParserWaits
          <5>2. Needed = 1
            BY <3>2, <4>1, NeededBytes
          <5>3. Needed' \in {1, 2}
            BY <1>1, <3>2, <4>1, <5>1 DEF Needed, IsLine
          <5>4. QED
            BY <3>4, <3>5, <5>2, <5>3
        <4>2. CASE ~(state = "Connecting" /\ ~IsLine(first))
          <5>1. CASE IsLine(first)
            <6>1. Needed = 1 /\ Needed' = 1
              BY <3>2, <5>1 DEF Needed, IsLine
            <6>2. QED
              BY <3>5, <6>1
          <5>2. CASE state # "Connecting" /\ ~IsLine(first)
            <6>1. state' = "Unconnected" /\ first' = first /\ reading' = reading
              BY <1>1, <3>2
            <6>2. CASE reading = "Mask"
              <7>1. Needed' = Needed
                BY <5>2, <6>1, <6>2 DEF Needed, IsLine
              <7>2. QED
                BY <3>3, <3>5, <7>1
            <6>3. CASE reading = "Body"
              <7>1. Needed' = Needed
                BY <5>2, <6>1, <6>3 DEF Needed, IsLine
              <7>2. QED
                BY <3>3, <3>5, <7>1
            <6>4. CASE reading = "Rest"
              <7>1. Needed' = Needed
                BY <5>2, <6>1, <6>4 DEF Needed, IsLine
              <7>2. QED
                BY <3>3, <3>5, <7>1
            <6>5. CASE reading \in {"Header", "Length", "Lost"}
              <7>1. Needed' = Needed
                BY <5>2, <6>1, <6>5 DEF Needed, IsLine
              <7>2. QED
                BY <3>3, <3>5, <7>1
            <6>6. QED
              BY <3>4, <6>2, <6>3, <6>4, <6>5
          <5>3. QED
            BY <4>2, <5>1, <5>2
        <4>3. QED
          BY <4>1, <4>2
      <3>7. QED
        BY <3>2, <3>4, <3>6 DEF Busy
    <2>3. QED
      BY <2>1, <2>2
  <1>3. QED
    BY <1>1, <1>2, SentKept
    DEF CInv, AtMostOne, FreshConnection, OpenConnection, ClosingConnection, Over, ParserWaits

(* None of the frames of a message is a close frame.                       *)
LEMMA WriteSends ==
    ASSUME WTypes, NEW opcode \in {"text", "binary"}, NEW n \in Lengths,
           internalWrite(opcode, n)
    PROVE  CloseFrames' = CloseFrames
  <1>. DEFINE data == [i \in 1 .. n |-> <<writes + 1, i>>]
              composed == composeFrames(opcode, data)
              count == Len(data) \div MaxFrameBytes + 1
  <1>1. n \in Nat /\ writes + 1 \in Nat
    <2>1. n \in Nat
      BY ConstantsAssumption, Zenon
    <2>2. QED
      BY <2>1 DEF WTypes, ProgramTypes
  <1>2. composed \in Seq(SentFrames)
    BY <1>1, ComposedTypes
  <1>3. \A i \in DOMAIN composed : composed[i].op # "close"
    <2>1. composed = [i \in 1 .. count |->
             Frame(IF i = 1 THEN opcode ELSE "cont", i = count,
                   SubSeq(data, (i - 1) * MaxFrameBytes + 1,
                          IF i = count THEN Len(data) ELSE i * MaxFrameBytes))]
      BY Zenon DEF composeFrames
    <2>. HIDE DEF composed, count, data
    <2>2. DOMAIN composed = 1 .. count
      BY <2>1
    <2>3. ASSUME NEW i \in 1 .. count
          PROVE  composed[i].op = IF i = 1 THEN opcode ELSE "cont"
      BY <2>1, <2>3 DEF Frame
    <2>4. QED
      BY <2>2, <2>3
  <1>4. sent' = sent \o composed /\ sent \in Seq(SentFrames)
    BY DEF internalWrite, WTypes, ProgramTypes
  <1>. HIDE DEF composed
  <1>5. /\ Len(sent') = Len(sent) + Len(composed) /\ Len(sent) \in Nat /\ Len(composed) \in Nat
        /\ \A i \in 1 .. Len(sent) : sent'[i] = sent[i]
        /\ \A i \in 1 .. Len(sent') : i > Len(sent) => sent'[i] = composed[i - Len(sent)]
    BY <1>2, <1>4
  <1>6. ASSUME NEW i \in 1 .. Len(sent'), i > Len(sent)
        PROVE  sent'[i].op # "close"
    <2>1. i - Len(sent) \in DOMAIN composed
      BY <1>2, <1>5, <1>6
    <2>2. QED
      BY <1>3, <1>5, <1>6, <2>1
  <1>7. QED
    BY <1>5, <1>6 DEF CloseFrames

THEOREM ClosingInit == Init => CInv
  <1>. SUFFICES ASSUME Init PROVE CInv
    OBVIOUS
  <1>1. /\ old = FALSE /\ closingHandshakeSent = FALSE /\ closingHandshakeReceived = FALSE
        /\ ready = FALSE
    BY Zenon DEF Init
  <1>2. state = "Unconnected" /\ sent = << >>
    BY Zenon DEF Init
  <1>3. CloseFrames = {}
    BY <1>2 DEF CloseFrames
  <1>4. ~Busy
    BY <1>1 DEF Busy
  <1>5. QED
    BY <1>1, <1>2, <1>3, <1>4
    DEF CInv, AtMostOne, FreshConnection, OpenConnection, ClosingConnection, Over, ParserWaits

THEOREM ClosingStep == CInv /\ SInv /\ WTypes /\ [Next]_vars => CInv'
  <1>. SUFFICES ASSUME CInv, SInv, WTypes, [Next]_vars
                PROVE  CInv'
    OBVIOUS
  <1>1. CASE connectToHost
    <2>1. /\ ~old /\ old' = (tcp # "Unconnected") /\ UNCHANGED flags
          /\ state' = "Connecting" /\ tcp' = "Connecting" /\ reading' \in {"Header", "Rest"}
          /\ stream' = << >> /\ sent' = << >>
      BY <1>1 DEF connectToHost, Quiet
    <2>2. CloseFrames' = {}
      BY <2>1 DEF CloseFrames
    <2>3. ~old' => NoneSent'
      BY <2>1, <2>2 DEF CInv, Over, NoneSent, flags
    <2>4. QED
      BY <2>1, <2>2, <2>3
      DEF CInv, AtMostOne, FreshConnection, OpenConnection, ClosingConnection, Over, ParserWaits
  <1>2. CASE disconnectFromHost
    <2>1. /\ ~old /\ UNCHANGED <<old, reading>> /\ state # "Unconnected"
          /\ Close(closingHandshakeReceived)
      BY <1>2 DEF disconnectFromHost, parser
    <2>2. tcp # "Unconnected"
      BY <2>1 DEF CInv, Over
    <2>3. QED
      BY <2>1, <2>2, KeepsClosing
  <1>3. CASE abort \/ TcpLost \/ TcpFlushed \/ ServerHangsUp
    BY <1>3, KeepsEnded DEF abort, TcpLost, TcpFlushed, ServerHangsUp, Quiet
  <1>4. CASE \E opcode \in {"text", "binary"}, n \in Lengths : internalWrite(opcode, n)
    <2>1. PICK opcode \in {"text", "binary"}, n \in Lengths : internalWrite(opcode, n)
      BY <1>4
    <2>2. /\ ~old /\ UNCHANGED <<old, state, flags, reading>> /\ tcp' # "Unconnected"
      BY <2>1 DEF internalWrite, Quiet, parser
    <2>3. CloseFrames' = CloseFrames
      BY <2>1, WriteSends
    <2>4. QED
      BY <2>2, <2>3, KeepsHandshake DEF CInv, ParserWaits
  <1>5. CASE DeleteOld
    <2>1. /\ old /\ old' = FALSE /\ state' = "Unconnected" /\ UNCHANGED <<tcp, sent>>
      BY <1>5 DEF DeleteOld, TcpUnconnected
    <2>2. QED
      BY <2>1, SentKept
      DEF CInv, AtMostOne, FreshConnection, OpenConnection, ClosingConnection, Over, ParserWaits
  <1>6. CASE Server \/ onEncrypted \/ \E bytes \in 1 .. transit : Arrives(bytes)
    <2>1. /\ ~old /\ UNCHANGED <<old, state, flags, reading, sent>> /\ tcp' # "Unconnected"
      BY <1>6 DEF Server, ServerAnswers, ServerSends, ServerCloses, onEncrypted, Arrives, Quiet,
                  parser
    <2>2. QED
      BY <2>1, SentKept, KeepsHandshake DEF CInv, ParserWaits
  <1>7. CASE processDataV4
    <2>1. ~old /\ UNCHANGED old /\ tcp # "Unconnected"
      BY <1>7, ParsesWhenBusy DEF CInv, Over
    <2>2. CASE HandshakePart \/ HandshakeInvalid
      <3>1. /\ UNCHANGED <<state, tcp, flags, sent>>
            /\ reading' = reading \/ reading' \in {"Header", "Lost"}
        BY <2>2 DEF HandshakePart, HandshakeInvalid, ReadAnswer, GoesOnWith, parser
      <3>2. QED
        BY <2>1, <3>1, SentKept, KeepsHandshake DEF CInv, ParserWaits
    <2>3. CASE HandshakeFails
      BY <2>1, <2>3, KeepsEnded DEF HandshakeFails
    <2>4. CASE HandshakeComplete
      <3>1. state = "Connecting" /\ state' = "Connected" /\ UNCHANGED <<tcp, flags, sent>>
        BY <2>4 DEF HandshakeComplete, ReadAnswer, Shaking
      <3>2. QED
        BY <2>1, <3>1, SentKept
        DEF CInv, AtMostOne, FreshConnection, NoneSent, OpenConnection, ClosingConnection, Over,
            ParserWaits, flags
    <2>5. CASE HeaderPending \/ PayloadLengthPending \/ MaskPending
      <3>1. UNCHANGED <<state, tcp, flags, sent>> /\ state # "Connecting"
        BY <2>5 DEF HeaderPending, PayloadLengthPending, MaskPending, Parsing, Advance
      <3>2. QED
        BY <2>1, <3>1, SentKept, KeepsHandshake
    <2>6. CASE InvalidFrame \/ CloseFrame \/ PingFrame \/ MisplacedFrame \/ DataFrame
      <3>1. ReadBody /\ FrameEffect(first)
        BY <2>6 DEF InvalidFrame, CloseFrame, PingFrame, MisplacedFrame, DataFrame, FrameEffect
      <3>2. first \in StreamFrames
        BY <3>1, BodyTyped
      <3>3. state # "Connecting"
        BY <3>1 DEF ReadBody, Parsing
      <3>4. QED
        BY <2>1, <3>1, <3>2, <3>3, KeepsEffect
    <2>7. CASE MisreadFrame
      <3>1. PICK k \in Misreadings : Misread(k) /\ FrameEffect(FrameOf(k, 0))
        BY <2>7 DEF MisreadFrame, FrameEffect
      <3>2. state # "Connecting"
        BY <3>1 DEF Misread, Parsing
      <3>3. QED
        BY <2>1, <3>1, <3>2, MisreadingTyped, KeepsEffect
    <2>8. CASE MisreadWaits
      <3>1. UNCHANGED <<state, tcp, flags, sent>> /\ state # "Connecting"
        BY <2>8 DEF MisreadWaits, Parsing
      <3>2. QED
        BY <2>1, <3>1, SentKept, KeepsHandshake
    <2>9. CASE AnswerAsFrames
      BY <2>1, <2>9, KeepsClosing DEF AnswerAsFrames
    <2>10. QED
      BY <1>7, <2>2, <2>3, <2>4, <2>5, <2>6, <2>7, <2>8, <2>9
      DEF processDataV4, processHandshake
  <1>8. CASE UNCHANGED vars
    <2>1. UNCHANGED <<old, state, tcp, flags, sent, stream, avail, ready, reading>>
      BY <1>8 DEF vars, input, parser
    <2>2. Busy' = Busy
      BY <2>1 DEF Busy, Needed, IsLine, first
    <2>3. QED
      BY <2>1, <2>2, SentKept
      DEF CInv, AtMostOne, FreshConnection, NoneSent, OpenConnection, ClosingConnection, Over,
          ParserWaits, flags
  <1>9. QED
    BY <1>1, <1>2, <1>3, <1>4, <1>5, <1>6, <1>7, <1>8 DEF Next, Program, Network

(* The closing handshake belongs to the connection it is made on: a        *)
(* connection becomes open with no close frame sent or received, one that  *)
(* is closing has sent one, and none sends two, however the program, the   *)
(* server and the network meet (QWsSocket::close,                          *)
(* processTcpStateChanged).                                                *)
THEOREM ClosingHandshakeCorrect == Spec => []CloseHandshake
  <1>1. CInv /\ WTypes => CloseHandshake
    <2>1. WTypes /\ NoneSent => flags = <<FALSE, FALSE>>
      <3>1. WTypes /\ NoneSent =>
               closingHandshakeSent = FALSE /\ closingHandshakeReceived = FALSE
        BY DEF WTypes, FlagTypes, NoneSent
      <3>2. QED
        BY <3>1 DEF flags
    <2>2. QED
      BY <2>1
      DEF CInv, AtMostOne, NoneSent, OpenConnection, ClosingConnection, CloseHandshake
  <1>2. QED
    BY SignalsInit, SignalsStep, TypesInit, TypesStep, ClosingInit, ClosingStep, <1>1, PTL
    DEF Spec
-----------------------------------------------------------------------------
(* The messages.  Nothing of the stream says where a message begins, so    *)
(* that MessagesIntact is far from inductive.  The invariant is a path:    *)
(* each frame of the stream that was not read has a place, the fragment    *)
(* part + 1 of the message number at, the first one is the place where the *)
(* parser stands, and the last one is where the server stands.  A frame    *)
(* that does not keep to the protocol ends the path; the parser notices    *)
(* it, and nothing is delivered from then on.                              *)

(* The fragments of the message number m: of a promised one, or of the one *)
(* that is open.                                                           *)
SizeOf(pro, open, m) == IF m <= Len(pro) THEN Len(pro[m].data) ELSE Len(open)

Fragment(pro, open, m, j) == IF m <= Len(pro) THEN pro[m].data[j] ELSE open[j].id

OpcodeOf(pro, open, m) == IF m <= Len(pro) THEN pro[m].op ELSE open[1].op

(* A data frame that is the fragment p + 1 of message m.                   *)
Belongs(pro, open, f, m, p) ==
    /\ m \in 1 .. Len(pro) + 1 /\ p < SizeOf(pro, open, m)
    /\ Fragment(pro, open, m, p + 1) = f.id
    /\ (f.op = "cont") = (p > 0)
    /\ p = 0 => OpcodeOf(pro, open, m) = f.op
    /\ f.fin = (m <= Len(pro) /\ p + 1 = SizeOf(pro, open, m))

(* The place behind that of a frame; control frames and lines have none.   *)
Moves(pro, open, f, m, p, m2, p2) ==
    /\ m2 = (IF IsData(f) /\ f.fin THEN m + 1 ELSE m)
    /\ p2 = (IF IsData(f) THEN IF f.fin THEN 0 ELSE p + 1 ELSE p)
    /\ IsData(f) => Belongs(pro, open, f, m, p)

(* A path through the first frames of a stream, to where the server stands.*)
Path(str, e, at, part, pro, open) ==
    /\ at \in [1 .. e -> Nat] /\ part \in [1 .. e -> Nat]
    /\ at[e] = Len(pro) + 1 /\ part[e] = Len(open)
    /\ \A i \in 1 .. e - 1 :
          Moves(pro, open, str[i], at[i], part[i], at[i + 1], part[i + 1])

(* A frame that does not keep to the protocol.                             *)
Bad(f, open) ==
    /\ ~IsLine(f)
    /\ ~(/\ f.ok
         /\ f.op \in {"text", "binary"} => open = << >>
         /\ f.op = "cont" => open # << >>)

(* The path goes to the end of the stream, or to the first such frame.     *)
PathEnd(str, e, open, good) ==
    IF good THEN e = Len(str) + 1 ELSE e <= Len(str) /\ Bad(str[e], open)

OnPath(str, m, p, pro, open, good) ==
    \E e \in 1 .. Len(str) + 1 : \E at, part \in [1 .. e -> Nat] :
        /\ at[1] = m /\ part[1] = p
        /\ Path(str, e, at, part, pro, open)
        /\ PathEnd(str, e, open, good)

(* What the program received, and what the parser has of the next message. *)
Delivered ==
    /\ Len(received) <= Len(promised)
    /\ \A k \in 1 .. Len(received) : received[k] = promised[k]

Collected ==
    LET m == Len(received) + 1
    IN  /\ Len(currentData) <= SizeOf(promised, inMessage, m)
        /\ \A j \in 1 .. Len(currentData) :
              currentData[j] = Fragment(promised, inMessage, m, j)
        /\ continuation = (Len(currentData) > 0)
        /\ Len(currentData) > 0 => currentDataOpcode = OpcodeOf(promised, inMessage, m)

Follows ==
    state \in {"Connecting", "Connected"} =>
        /\ Collected
        /\ OnPath(stream, Len(received) + 1, Len(currentData), promised, inMessage, behaves)

(* The lines of the answer come first, and in pairs; a close frame and     *)
(* lines that are refused come last.  So a socket that is unconnected      *)
(* before its tcpSocket is, or not connected yet, meets no frame.          *)
NothingYet == peer \in {"none", "asked", "puzzled"} \/ tcp = "Connecting" => stream = << >>

InOrder(str, who) ==
    \A i \in 1 .. Len(str) :
        /\ str[i].op = "close" => i = Len(str) /\ who = "closed"
        /\ str[i].op = "bad fields" => i = Len(str) /\ who = "refused"
        /\ str[i].op \in {"status", "bad status"} =>
              i < Len(str) /\ str[i + 1].op \in {"fields", "bad fields"}

LinesFirst ==
    ~misled /\ state \in {"Connecting", "Unconnected"} /\ tcp # "Unconnected" =>
        /\ stream # << >> => IsLine(first)
        /\ peer = "open" => stream # << >>

NotReceived == ~old /\ state = "Closing" => ~closingHandshakeReceived

(* A parser that lost its place was misled.                                *)
Placed == reading \in {"Lost", "Rest"} => misled

SettledInv ==
    NothingYet /\ InOrder(stream, peer) /\ LinesFirst /\ NotReceived /\ Placed

MInv == ~misled => Delivered /\ Follows
-----------------------------------------------------------------------------
(* What the server sends does not change the place of an earlier fragment. *)
Grows(pro, open, pro2, open2) ==
    /\ Len(pro) <= Len(pro2)
    /\ \A m \in 1 .. Len(pro) + 1 :
          /\ SizeOf(pro, open, m) <= SizeOf(pro2, open2, m)
          /\ \A j \in 1 .. SizeOf(pro, open, m) :
                Fragment(pro2, open2, m, j) = Fragment(pro, open, m, j)
          /\ SizeOf(pro, open, m) > 0 => OpcodeOf(pro2, open2, m) = OpcodeOf(pro, open, m)
          /\ m <= Len(pro) => SizeOf(pro2, open2, m) = SizeOf(pro, open, m)
          /\ m = Len(pro) + 1 /\ m <= Len(pro2) =>
                SizeOf(pro, open, m) < SizeOf(pro2, open2, m)

LEMMA SizeIsNat ==
    ASSUME NEW pro \in Messages, NEW open \in Seq(Parts), NEW m \in Nat \ {0}
    PROVE  SizeOf(pro, open, m) \in Nat
  <1>1. m <= Len(pro) => pro[m] \in [op : {"text", "binary"}, data : Seq(Nat)]
    <2>. DEFINE Wholes == [op : {"text", "binary"}, data : Seq(Nat)]
    <2>1. pro \in Seq(Wholes)
      BY DEF Messages
    <2>. HIDE DEF Wholes
    <2>2. m <= Len(pro) => pro[m] \in Wholes
      BY <2>1
    <2>3. QED
      BY <2>2 DEF Wholes
  <1>2. m <= Len(pro) => pro[m].data \in Seq(Nat)
    BY <1>1
  <1>3. QED
    BY <1>2 DEF SizeOf

LEMMA AppendedAt ==
    ASSUME NEW S, NEW s \in Seq(S), NEW e \in S
    PROVE  /\ Len(Append(s, e)) = Len(s) + 1 /\ Len(s) \in Nat
           /\ Append(s, e)[Len(s) + 1] = e
           /\ \A i \in 1 .. Len(s) : Append(s, e)[i] = s[i]
  OBVIOUS

(* A message of the program.                                               *)
Wholes == [op : {"text", "binary"}, data : Seq(Nat)]

LEMMA MessageAppended ==
    ASSUME NEW pro \in Messages, NEW whole \in Wholes
    PROVE  /\ Len(Append(pro, whole)) = Len(pro) + 1 /\ Len(pro) \in Nat
           /\ Append(pro, whole)[Len(pro) + 1] = whole
           /\ \A m \in 1 .. Len(pro) : Append(pro, whole)[m] = pro[m]
  <1>1. pro \in Seq(Wholes) /\ whole \in Wholes
    BY DEF Messages, Wholes
  <1>2. QED
    BY <1>1, AppendedAt

(* One more fragment of the open message.                                  *)
LEMMA GrowsOpen ==
    ASSUME NEW pro \in Messages, NEW open \in Seq(Parts), NEW f \in Parts
    PROVE  /\ Grows(pro, open, pro, Append(open, f))
           /\ Len(Append(open, f)) = Len(open) + 1 /\ Append(open, f)[Len(open) + 1] = f
  <1>. DEFINE open2 == Append(open, f)
  <1>1. /\ Len(open2) = Len(open) + 1 /\ Len(open) \in Nat /\ open2[Len(open) + 1] = f
        /\ \A j \in 1 .. Len(open) : open2[j] = open[j]
    OBVIOUS
  <1>2. Len(pro) \in Nat
    BY DEF Messages
  <1>. HIDE DEF open2
  <1>3. \A m \in 1 .. Len(pro) + 1 : SizeOf(pro, open, m) \in Nat
    BY <1>2, SizeIsNat
  <1>4. Grows(pro, open, pro, open2)
    BY <1>1, <1>2, <1>3 DEF Grows, SizeOf, Fragment, OpcodeOf
  <1>5. QED
    BY <1>1, <1>4 DEF open2

(* The fragment that completes a message.                                  *)
LEMMA GrowsWhole ==
    ASSUME NEW pro \in Messages, NEW open \in Seq(Parts), NEW whole \in Wholes,
           Len(whole.data) = Len(open) + 1,
           \A j \in 1 .. Len(open) : whole.data[j] = open[j].id,
           Len(open) > 0 => whole.op = open[1].op
    PROVE  /\ Grows(pro, open, Append(pro, whole), << >>)
           /\ Len(Append(pro, whole)) = Len(pro) + 1
           /\ Append(pro, whole)[Len(pro) + 1] = whole
  <1>. DEFINE pro2 == Append(pro, whole)
  <1>1. Len(open) \in Nat
    OBVIOUS
  <1>2. /\ Len(pro2) = Len(pro) + 1 /\ Len(pro) \in Nat /\ pro2[Len(pro) + 1] = whole
        /\ \A m \in 1 .. Len(pro) : pro2[m] = pro[m]
    BY MessageAppended
  <1>. HIDE DEF pro2
  <1>3. \A m \in 1 .. Len(pro) + 1 : SizeOf(pro, open, m) \in Nat
    BY <1>2, SizeIsNat
  <1>4. Grows(pro, open, pro2, << >>)
    BY <1>1, <1>2, <1>3 DEF Grows, SizeOf, Fragment, OpcodeOf
  <1>5. QED
    BY <1>2, <1>4 DEF pro2

LEMMA BelongsStill ==
    ASSUME NEW pro \in Messages, NEW open \in Seq(Parts),
           NEW pro2 \in Messages, NEW open2 \in Seq(Parts),
           NEW f, NEW m \in Nat, NEW p \in Nat, Grows(pro, open, pro2, open2),
           Belongs(pro, open, f, m, p)
    PROVE  Belongs(pro2, open2, f, m, p)
  <1>1. Len(pro) \in Nat /\ Len(pro2) \in Nat
    BY DEF Messages
  <1>2. m \in 1 .. Len(pro) + 1 /\ m \in Nat \ {0}
    BY <1>1 DEF Belongs
  <1>3. SizeOf(pro, open, m) \in Nat /\ SizeOf(pro2, open2, m) \in Nat
    BY <1>2, SizeIsNat
  <1>4. p + 1 \in 1 .. SizeOf(pro, open, m)
    BY <1>3 DEF Belongs
  <1>5. QED
    BY <1>1, <1>2, <1>3, <1>4 DEF Belongs, Grows
-----------------------------------------------------------------------------
(* Reading the first frame of a stream follows the path, unless the path   *)
(* ends there.                                                             *)
LEMMA PathHead ==
    ASSUME NEW S, NEW str \in Seq(S), str # << >>, NEW m \in Nat, NEW p \in Nat,
           NEW pro, NEW open, NEW good \in BOOLEAN, OnPath(str, m, p, pro, open, good)
    PROVE  \/ /\ ~good /\ m = Len(pro) + 1 /\ p = Len(open)
              /\ Bad(Head(str), open)
           \/ \E m2, p2 \in Nat : /\ Moves(pro, open, Head(str), m, p, m2, p2)
                                  /\ OnPath(Tail(str), m2, p2, pro, open, good)
  <1>1. PICK e \in 1 .. Len(str) + 1 : \E at, part \in [1 .. e -> Nat] :
           /\ at[1] = m /\ part[1] = p
           /\ Path(str, e, at, part, pro, open)
           /\ PathEnd(str, e, open, good)
    BY DEF OnPath
  <1>2. PICK at \in [1 .. e -> Nat], part \in [1 .. e -> Nat] :
           /\ at[1] = m /\ part[1] = p
           /\ Path(str, e, at, part, pro, open)
           /\ PathEnd(str, e, open, good)
    BY <1>1
  <1>3. /\ Head(str) = str[1] /\ Len(str) \in Nat /\ Len(Tail(str)) = Len(str) - 1
        /\ Len(str) > 0
        /\ \A i \in 1 .. Len(str) - 1 : Tail(str)[i] = str[i + 1]
    OBVIOUS
  <1>4. CASE e = 1
    BY <1>2, <1>3, <1>4 DEF Path, PathEnd
  <1>5. CASE e # 1
    <2>. DEFINE at2 == [i \in 1 .. e - 1 |-> at[i + 1]]
                part2 == [i \in 1 .. e - 1 |-> part[i + 1]]
    <2>1. e \in Nat /\ e > 1 /\ e <= Len(str) + 1
      BY <1>3, <1>5
    <2>2. /\ at2 \in [1 .. e - 1 -> Nat] /\ part2 \in [1 .. e - 1 -> Nat]
          /\ \A i \in 1 .. e - 1 : at2[i] = at[i + 1] /\ part2[i] = part[i + 1]
      BY <2>1
    <2>. HIDE DEF at2, part2
    <2>3. \A i \in 1 .. e - 1 : Moves(pro, open, str[i], at[i], part[i], at[i + 1], part[i + 1])
      BY <1>2 DEF Path
    <2>4. Moves(pro, open, str[1], m, p, at2[1], part2[1])
      BY <1>2, <2>1, <2>2, <2>3
    <2>5. \A i \in 1 .. e - 2 :
             Moves(pro, open, Tail(str)[i], at2[i], part2[i], at2[i + 1], part2[i + 1])
      <3>1. SUFFICES ASSUME NEW i \in 1 .. e - 2
                     PROVE  Moves(pro, open, Tail(str)[i], at2[i], part2[i],
                                  at2[i + 1], part2[i + 1])
        OBVIOUS
      <3>2. /\ i + 1 \in 1 .. e - 1 /\ i \in 1 .. e - 1 /\ i \in 1 .. Len(str) - 1
            /\ (i + 1) + 1 = i + 2
        BY <2>1, <1>3
      <3>3. Moves(pro, open, str[i + 1], at[i + 1], part[i + 1], at[(i + 1) + 1],
                  part[(i + 1) + 1])
        BY <2>3, <3>2
      <3>4. /\ at2[i] = at[i + 1] /\ part2[i] = part[i + 1]
            /\ at2[i + 1] = at[(i + 1) + 1] /\ part2[i + 1] = part[(i + 1) + 1]
            /\ Tail(str)[i] = str[i + 1]
        BY <2>2, <3>2, <1>3
      <3>5. QED
        BY <3>3, <3>4
    <2>6. Path(Tail(str), e - 1, at2, part2, pro, open)
      <3>1. at2[e - 1] = at[e] /\ part2[e - 1] = part[e] /\ (e - 1) - 1 = e - 2
        BY <2>1, <2>2
      <3>2. at[e] = Len(pro) + 1 /\ part[e] = Len(open)
        BY <1>2 DEF Path
      <3>3. QED
        BY <2>2, <2>5, <3>1, <3>2 DEF Path
    <2>7. PathEnd(Tail(str), e - 1, open, good)
      <3>1. CASE good
        BY <1>2, <1>3, <2>1, <3>1 DEF PathEnd
      <3>2. CASE ~good
        <4>1. e <= Len(str) /\ Bad(str[e], open)
          BY <1>2, <3>2 DEF PathEnd
        <4>2. Tail(str)[e - 1] = str[(e - 1) + 1] /\ (e - 1) + 1 = e
          BY <1>3, <2>1, <4>1
        <4>3. e - 1 <= Len(Tail(str))
          BY <1>3, <2>1, <4>1
        <4>4. QED
          BY <3>2, <4>1, <4>2, <4>3 DEF PathEnd
      <3>3. QED
        BY <3>1, <3>2
    <2>8. e - 1 \in 1 .. Len(Tail(str)) + 1
      BY <1>3, <2>1
    <2>9. OnPath(Tail(str), at2[1], part2[1], pro, open, good)
      BY <2>2, <2>6, <2>7, <2>8 DEF OnPath
    <2>10. at2[1] \in Nat /\ part2[1] \in Nat
      BY <2>1, <2>2
    <2>11. QED
      BY <1>3, <2>4, <2>9, <2>10
  <1>6. QED
    BY <1>4, <1>5

(* A frame that has its place makes the path longer.                       *)
LEMMA PathAppend ==
    ASSUME NEW S, NEW str \in Seq(S), NEW f \in S, NEW m \in Nat, NEW p \in Nat,
           NEW pro \in Messages, NEW open \in Seq(Parts),
           NEW pro2 \in Messages, NEW open2 \in Seq(Parts), Grows(pro, open, pro2, open2),
           Moves(pro2, open2, f, Len(pro) + 1, Len(open), Len(pro2) + 1, Len(open2)),
           OnPath(str, m, p, pro, open, TRUE)
    PROVE  OnPath(Append(str, f), m, p, pro2, open2, TRUE)
  <1>. DEFINE e == Len(str) + 1
              str2 == Append(str, f)
  <1>1. PICK at \in [1 .. e -> Nat], part \in [1 .. e -> Nat] :
           at[1] = m /\ part[1] = p /\ Path(str, e, at, part, pro, open)
    BY DEF OnPath, PathEnd
  <1>2. /\ e \in Nat /\ e > 0 /\ Len(str2) = e /\ str2[e] = f
        /\ \A i \in 1 .. e - 1 : str2[i] = str[i]
    OBVIOUS
  <1>3. Len(pro2) \in Nat /\ Len(open2) \in Nat
    BY DEF Messages
  <1>. HIDE DEF e, str2
  <1>. DEFINE at2 == [i \in 1 .. e + 1 |-> IF i <= e THEN at[i] ELSE Len(pro2) + 1]
              part2 == [i \in 1 .. e + 1 |-> IF i <= e THEN part[i] ELSE Len(open2)]
  <1>4. /\ at2 \in [1 .. e + 1 -> Nat] /\ part2 \in [1 .. e + 1 -> Nat]
        /\ at2[e + 1] = Len(pro2) + 1 /\ part2[e + 1] = Len(open2)
        /\ \A i \in 1 .. e : at2[i] = at[i] /\ part2[i] = part[i]
    BY <1>2, <1>3
  <1>. HIDE DEF at2, part2
  <1>5. ASSUME NEW i \in 1 .. e
        PROVE  Moves(pro2, open2, str2[i], at2[i], part2[i], at2[i + 1], part2[i + 1])
    <2>1. CASE i = e
      BY <1>1, <1>2, <1>4, <2>1 DEF Path
    <2>2. CASE i # e
      <3>1. i \in 1 .. e - 1 /\ i + 1 \in 1 .. e
        BY <1>2, <2>2
      <3>2. Moves(pro, open, str[i], at[i], part[i], at[i + 1], part[i + 1])
        BY <1>1, <3>1 DEF Path
      <3>3. at[i] \in Nat /\ part[i] \in Nat
        BY <3>1
      <3>4. Moves(pro2, open2, str[i], at[i], part[i], at[i + 1], part[i + 1])
        BY <3>2, <3>3, BelongsStill DEF Moves
      <3>5. QED
        BY <1>2, <1>4, <3>1, <3>4
    <2>3. QED
      BY <2>1, <2>2
  <1>6. Path(str2, e + 1, at2, part2, pro2, open2)
    <2>1. (e + 1) - 1 = e
      BY <1>2
    <2>2. QED
      BY <1>4, <1>5, <2>1 DEF Path
  <1>7. at2[1] = m /\ part2[1] = p
    BY <1>1, <1>2, <1>4
  <1>8. PathEnd(str2, e + 1, open2, TRUE) /\ e + 1 \in 1 .. Len(str2) + 1
    BY <1>2 DEF PathEnd
  <1>9. OnPath(str2, m, p, pro2, open2, TRUE)
    BY <1>4, <1>6, <1>7, <1>8 DEF OnPath
  <1>10. QED
    BY <1>9 DEF str2

(* One that is bad ends the path, and what is behind it does not matter.   *)
LEMMA PathBad ==
    ASSUME NEW S, NEW str \in Seq(S), NEW f \in S, NEW m \in Nat, NEW p \in Nat,
           NEW pro, NEW open, NEW good \in BOOLEAN, good => Bad(f, open),
           OnPath(str, m, p, pro, open, good)
    PROVE  OnPath(Append(str, f), m, p, pro, open, FALSE)
  <1>. DEFINE str2 == Append(str, f)
  <1>1. PICK e \in 1 .. Len(str) + 1 : \E at, part \in [1 .. e -> Nat] :
           /\ at[1] = m /\ part[1] = p
           /\ Path(str, e, at, part, pro, open)
           /\ PathEnd(str, e, open, good)
    BY DEF OnPath
  <1>2. PICK at \in [1 .. e -> Nat], part \in [1 .. e -> Nat] :
           /\ at[1] = m /\ part[1] = p
           /\ Path(str, e, at, part, pro, open)
           /\ PathEnd(str, e, open, good)
    BY <1>1
  <1>3. /\ Len(str) \in Nat /\ Len(str2) = Len(str) + 1 /\ str2[Len(str) + 1] = f
        /\ \A i \in 1 .. Len(str) : str2[i] = str[i]
    OBVIOUS
  <1>. HIDE DEF str2
  <1>4. \A i \in 1 .. e - 1 : str2[i] = str[i]
    BY <1>3
  <1>5. Path(str2, e, at, part, pro, open)
    BY <1>2, <1>4 DEF Path
  <1>6. PathEnd(str2, e, open, FALSE)
    BY <1>2, <1>3 DEF PathEnd
  <1>7. e \in 1 .. Len(str2) + 1
    BY <1>3
  <1>8. OnPath(str2, m, p, pro, open, FALSE)
    BY <1>2, <1>5, <1>6, <1>7 DEF OnPath
  <1>9. QED
    BY <1>8 DEF str2
-----------------------------------------------------------------------------
(* What the stream looks like from its second item on.                     *)
LEMMA TailItems ==
    ASSUME NEW S, NEW s \in Seq(S), s # << >>
    PROVE  /\ Len(Tail(s)) = Len(s) - 1 /\ Len(s) \in Nat /\ Len(s) > 0
           /\ Head(s) = s[1] /\ Tail(s) \in Seq(S)
           /\ \A i \in 1 .. Len(s) - 1 : Tail(s)[i] = s[i + 1]
  OBVIOUS

LEMMA NoTail ==
    ASSUME NEW S, NEW s \in Seq(S), Len(s) = 1
    PROVE  Tail(s) = << >>
  <1>1. \A t \in Seq(S) : Len(t) = 0 => t = << >>
    OBVIOUS
  <1>2. s # << >>
    OBVIOUS
  <1>3. Tail(s) \in Seq(S) /\ Len(Tail(s)) = 0
    BY <1>2, TailItems
  <1>4. QED
    BY <1>1, <1>3, Zenon

LEMMA NoSecondTail ==
    ASSUME NEW S, NEW s \in Seq(S), Len(s) = 2
    PROVE  Tail(Tail(s)) = << >>
  <1>1. s # << >>
    OBVIOUS
  <1>2. Tail(s) \in Seq(S) /\ Len(Tail(s)) = 1
    BY <1>1, TailItems
  <1>3. QED
    BY <1>2, NoTail

LEMMA HeadOfAppend ==
    ASSUME NEW S, NEW s \in Seq(S), NEW e \in S
    PROVE  /\ Append(s, e) # << >>
           /\ s # << >> => Head(Append(s, e)) = Head(s)
  <1>1. Len(Append(s, e)) = Len(s) + 1 /\ Len(s) \in Nat
    OBVIOUS
  <1>2. Append(s, e) # << >>
    BY <1>1
  <1>3. s # << >> => Append(s, e)[1] = s[1] /\ Head(s) = s[1]
    OBVIOUS
  <1>4. Append(s, e) \in Seq(S)
    OBVIOUS
  <1>5. Head(Append(s, e)) = Append(s, e)[1]
    BY <1>2, <1>4
  <1>6. QED
    BY <1>2, <1>3, <1>5

LEMMA SecondTail ==
    ASSUME NEW S, NEW s \in Seq(S), Len(s) > 1
    PROVE  /\ Behind(s, 2) = Tail(Tail(s))
           /\ s # << >> /\ Tail(s) # << >> /\ Head(Tail(s)) = s[2]
  BY DEF Behind

LEMMA BehindItems ==
    ASSUME NEW S, NEW s \in Seq(S), NEW n \in 0 .. Len(s)
    PROVE  /\ Behind(s, n) \in Seq(S) /\ Len(Behind(s, n)) = Len(s) - n /\ Len(s) \in Nat
           /\ \A i \in 1 .. Len(s) - n : Behind(s, n)[i] = s[n + i]
  BY DEF Behind

LEMMA OrderOfBehind ==
    ASSUME NEW S, NEW str \in Seq(S), NEW n \in 0 .. Len(str), NEW who, InOrder(str, who)
    PROVE  InOrder(Behind(str, n), who)
  <1>. DEFINE rest == Behind(str, n)
  <1>0. /\ Len(rest) = Len(str) - n /\ Len(str) \in Nat
        /\ \A i \in 1 .. Len(str) - n : rest[i] = str[n + i]
    BY BehindItems
  <1>1. /\ Len(rest) = Len(str) - n /\ Len(str) \in Nat /\ n \in Nat
        /\ \A i \in 1 .. Len(str) - n : rest[i] = str[n + i]
    <2>1. n \in Nat
      BY <1>0
    <2>2. QED
      BY <1>0, <2>1
  <1>. HIDE DEF rest
  <1>. SUFFICES ASSUME NEW i \in 1 .. Len(rest)
                PROVE  /\ rest[i].op = "close" => i = Len(rest) /\ who = "closed"
                       /\ rest[i].op = "bad fields" => i = Len(rest) /\ who = "refused"
                       /\ rest[i].op \in {"status", "bad status"} =>
                             i < Len(rest) /\ rest[i + 1].op \in {"fields", "bad fields"}
    BY DEF InOrder, rest
  <1>. DEFINE j == n + i
  <1>2. /\ j \in 1 .. Len(str) /\ rest[i] = str[j] /\ j \in Nat
        /\ (j = Len(str)) = (i = Len(rest)) /\ (j < Len(str)) = (i < Len(rest))
    BY <1>1
  <1>3. j < Len(str) => rest[i + 1] = str[j + 1]
    <2>1. SUFFICES ASSUME j < Len(str) PROVE rest[i + 1] = str[j + 1]
      OBVIOUS
    <2>2. i + 1 \in 1 .. Len(str) - n /\ n + (i + 1) = j + 1
      BY <1>1, <2>1
    <2>3. rest[i + 1] = str[n + (i + 1)]
      BY <1>1, <2>2, Zenon
    <2>4. QED
      BY <2>2, <2>3, Zenon
  <1>4. /\ str[j].op = "close" => j = Len(str) /\ who = "closed"
        /\ str[j].op = "bad fields" => j = Len(str) /\ who = "refused"
        /\ str[j].op \in {"status", "bad status"} =>
              j < Len(str) /\ str[j + 1].op \in {"fields", "bad fields"}
    BY <1>2, Zenon DEF InOrder
  <1>5. QED
    BY <1>2, <1>3, <1>4, Zenon

LEMMA TailBehind ==
    ASSUME NEW S, NEW s \in Seq(S), s # << >>
    PROVE  Tail(s) = Behind(s, 1) /\ 1 \in 0 .. Len(s)
  BY DEF Behind

LEMMA OrderOfTail ==
    ASSUME NEW S, NEW str \in Seq(S), str # << >>, NEW who, InOrder(str, who)
    PROVE  InOrder(Tail(str), who)
  BY TailBehind, OrderOfBehind

(* A frame behind a stream that has none of those which must be the last.  *)
LEMMA OrderOfAppend ==
    ASSUME NEW S, NEW str \in Seq(S), NEW f \in S, f.op \in Ops, InOrder(str, "open"),
           NEW who, who = IF f.op = "close" THEN "closed" ELSE "open"
    PROVE  InOrder(Append(str, f), who)
  <1>. DEFINE longer == Append(str, f)
  <1>1. /\ Len(longer) = Len(str) + 1 /\ Len(str) \in Nat /\ longer[Len(str) + 1] = f
        /\ \A i \in 1 .. Len(str) : longer[i] = str[i]
    BY AppendedAt
  <1>. HIDE DEF longer
  <1>. SUFFICES ASSUME NEW i \in 1 .. Len(longer)
                PROVE  /\ longer[i].op = "close" => i = Len(longer) /\ who = "closed"
                       /\ longer[i].op = "bad fields" => i = Len(longer) /\ who = "refused"
                       /\ longer[i].op \in {"status", "bad status"} =>
                             i < Len(longer) /\ longer[i + 1].op \in {"fields", "bad fields"}
    BY DEF InOrder, longer
  <1>2. CASE i = Len(str) + 1
    BY <1>1, <1>2 DEF Ops
  <1>3. CASE i # Len(str) + 1
    <2>1. i \in 1 .. Len(str) /\ longer[i] = str[i]
      BY <1>1, <1>3
    <2>2. str[i].op \notin {"close", "bad fields"}
      BY <2>1 DEF InOrder
    <2>3. ASSUME str[i].op \in {"status", "bad status"}
          PROVE  i < Len(longer) /\ longer[i + 1].op \in {"fields", "bad fields"}
      <3>1. i < Len(str) /\ str[i + 1].op \in {"fields", "bad fields"}
        BY <2>1, <2>3, Zenon DEF InOrder
      <3>2. i + 1 \in 1 .. Len(str)
        <4>1. Len(str) \in Nat /\ i \in 1 .. Len(str) /\ i < Len(str)
          BY <1>1, <2>1, <3>1, Zenon
        <4>2. QED
          BY <4>1
      <3>3. longer[i + 1] = str[i + 1]
        BY <1>1, <3>2, Zenon
      <3>4. i < Len(longer)
        <4>1. Len(str) \in Nat /\ i \in 1 .. Len(str) /\ Len(longer) = Len(str) + 1
          BY <1>1, <2>1, Zenon
        <4>2. QED
          BY <4>1
      <3>5. QED
        BY <3>1, <3>3, <3>4, Zenon
    <2>4. QED
      BY <1>1, <2>1, <2>2, <2>3
  <1>4. QED
    BY <1>2, <1>3

LEMMA NoneInOrder ==
    ASSUME NEW who
    PROVE  InOrder(<< >>, who)
  <1>1. 1 .. Len(<< >>) = {}
    OBVIOUS
  <1>2. QED
    BY <1>1, Zenon DEF InOrder

LEMMA OrderNow ==
    ASSUME SettledInv
    PROVE  \A i \in 1 .. Len(stream) :
              /\ stream[i].op = "close" => i = Len(stream) /\ peer = "closed"
              /\ stream[i].op = "bad fields" => i = Len(stream) /\ peer = "refused"
              /\ stream[i].op \in {"status", "bad status"} =>
                    i < Len(stream) /\ stream[i + 1].op \in {"fields", "bad fields"}
  BY Zenon DEF InOrder, SettledInv

(* Nothing that SettledInv is about changes but the progress of the parser.*)
LEMMA StillSettled ==
    ASSUME SettledInv,
           UNCHANGED <<stream, peer, state, tcp, old, closingHandshakeReceived, misled>>,
           reading' \in {"Lost", "Rest"} => reading \in {"Lost", "Rest"}
    PROVE  SettledInv'
  <1>1. Placed'
    BY DEF SettledInv, Placed
  <1>2. QED
    BY <1>1 DEF SettledInv, NothingYet, InOrder, LinesFirst, NotReceived, first

(* A frame that is parsed is one of a connection that was open.            *)
LEMMA ParsedWhenOpen ==
    ASSUME SInv, WTypes, CInv, SettledInv, ReadBody, Busy, ~misled
    PROVE  /\ state \in {"Connected", "Closing"} /\ ~old /\ UNCHANGED old
           /\ tcp # "Unconnected" /\ stream # << >> /\ ~closingHandshakeReceived
           /\ stream' = Tail(stream) /\ reading' = "Header"
           /\ UNCHANGED <<peer, server, misled>>
  <1>1. /\ ~old /\ UNCHANGED old /\ state # "Connecting" /\ reading = "Body"
        /\ stream # << >> /\ ~IsLine(first) /\ stream' = Tail(stream)
        /\ reading' = "Header" /\ UNCHANGED <<peer, server, misled>>
    BY DEF ReadBody, Parsing, server
  <1>2. tcp # "Unconnected"
    BY DEF CInv, Over
  <1>3. state # "Unconnected"
    BY <1>1, <1>2 DEF SettledInv, LinesFirst
  <1>4. state \in {"Connected", "Closing"}
    BY <1>1, <1>3 DEF SInv, SignalTypes, States
  <1>5. ~closingHandshakeReceived
    BY <1>1, <1>4 DEF SettledInv, NotReceived, CInv, OpenConnection, NoneSent
  <1>6. QED
    BY <1>1, <1>2, <1>4, <1>5

(* Items are taken off the stream.                                         *)
LEMMA BehindSettled ==
    ASSUME WTypes, SettledInv, stream # << >>, NEW n \in 0 .. Len(stream),
           stream' = Behind(stream, n), UNCHANGED peer, tcp' = tcp \/ tcp' = "Closing"
    PROVE  NothingYet' /\ InOrder(stream', peer')
  <1>1. stream \in Seq(Lines \cup StreamFrames)
    BY DEF WTypes, InputTypes
  <1>2. InOrder(stream', peer')
    BY <1>1, OrderOfBehind DEF SettledInv
  <1>3. QED
    BY <1>2 DEF SettledInv, NothingYet

LEMMA TailSettled ==
    ASSUME WTypes, SettledInv, stream # << >>, stream' = Tail(stream), UNCHANGED peer,
           tcp' = tcp \/ tcp' = "Closing"
    PROVE  NothingYet' /\ InOrder(stream', peer')
  <1>1. stream \in Seq(Lines \cup StreamFrames)
    BY DEF WTypes, InputTypes
  <1>2. InOrder(stream', peer')
    BY <1>1, OrderOfTail DEF SettledInv
  <1>3. QED
    BY <1>2 DEF SettledInv, NothingYet

LEMMA ClosedState ==
    ASSUME NEW handshakeReceived, Close(handshakeReceived)
    PROVE  /\ state = "Unconnected" => UNCHANGED <<state, tcp>>
           /\ state # "Unconnected" /\ handshakeReceived =>
                 state' = "Unconnected" /\ tcp' = "Closing"
           /\ state # "Unconnected" /\ ~handshakeReceived =>
                 state' = "Closing" /\ UNCHANGED tcp
  BY DEF Close

LEMMA EndedSettled ==
    ASSUME SettledInv, tcp' = "Unconnected", state' = "Unconnected",
           UNCHANGED <<peer, reading, misled>>, stream' = stream \/ stream' = << >>
    PROVE  SettledInv'
  <1>1. InOrder(stream', peer')
    BY NoneInOrder DEF SettledInv
  <1>2. QED
    BY <1>1 DEF SettledInv, NothingYet, LinesFirst, NotReceived, Placed

(* The server.                                                             *)
LEMMA ServerSettled ==
    ASSUME WTypes, SettledInv, Server
    PROVE  SettledInv'
  <1>1. ASSUME NEW answer \in Answers, ServerAnswers(answer)
        PROVE  SettledInv'
    <2>. DEFINE line1 == Line(IF answer = "bad status" THEN "bad status" ELSE "status")
                line2 == Line(IF answer = "bad fields" THEN "bad fields" ELSE "fields")
    <2>1. /\ tcp = "Connected" /\ peer \in {"asked", "puzzled"}
          /\ peer' = IF answer = "accept" THEN "open" ELSE "refused"
          /\ stream' = stream \o <<line1, line2>>
          /\ UNCHANGED <<state, tcp, old, flags, parser, misled>>
      BY <1>1 DEF ServerAnswers
    <2>2. stream = << >>
      BY <2>1 DEF SettledInv, NothingYet
    <2>3. /\ line1.op \in {"status", "bad status"} /\ line2.op \in {"fields", "bad fields"}
          /\ line2.op = "bad fields" => answer = "bad fields"
      BY DEF Line
    <2>. HIDE DEF line1, line2
    <2>4. stream' = <<line1, line2>>
      BY <2>1, <2>2
    <2>5. /\ Len(stream') = 2 /\ stream'[1] = line1 /\ stream'[2] = line2
          /\ stream' # << >> /\ Head(stream') = line1
      BY <2>4
    <2>6. InOrder(stream', peer')
      <3>1. 1 .. Len(stream') = {1, 2} /\ 1 + 1 = 2 /\ 1 < Len(stream') /\ 2 = Len(stream')
        BY <2>5
      <3>2. answer = "bad fields" => peer' = "refused"
        BY <2>1
      <3>3. QED
        BY <2>3, <2>5, <3>1, <3>2, Zenon DEF InOrder
    <2>7. IsLine(first')
      BY <2>3, <2>5 DEF IsLine, first
    <2>8. QED
      BY <2>1, <2>5, <2>6, <2>7
      DEF SettledInv, NothingYet, LinesFirst, NotReceived, Placed, flags, parser
  <1>2. ASSUME NEW f \in StreamFrames, stream' = Append(stream, f), tcp = "Connected",
               peer = "open", peer' = IF f.op = "close" THEN "closed" ELSE "open",
               UNCHANGED <<state, tcp, old, flags, parser, misled>>
        PROVE  SettledInv'
    <2>. DEFINE S == Lines \cup StreamFrames
    <2>1. stream \in Seq(S) /\ f \in S /\ f.op \in Ops
      BY DEF WTypes, InputTypes, StreamFrames
    <2>. HIDE DEF S
    <2>2. InOrder(stream', peer')
      <3>1. InOrder(stream, "open")
        BY <1>2 DEF SettledInv
      <3>2. InOrder(Append(stream, f), peer')
        BY <1>2, <2>1, <3>1, OrderOfAppend
      <3>3. QED
        BY <1>2, <3>2
    <2>3. stream' # << >> /\ (stream # << >> => first' = first)
      <3>1. stream # << >> => Head(Append(stream, f)) = Head(stream)
        BY <2>1, HeadOfAppend
      <3>2. Append(stream, f) # << >>
        BY <2>1, HeadOfAppend
      <3>3. QED
        BY <1>2, <3>1, <3>2 DEF first
    <2>4. LinesFirst'
      BY <1>2, <2>3 DEF SettledInv, LinesFirst, IsLine, parser
    <2>5. QED
      BY <1>2, <2>2, <2>4 DEF SettledInv, NothingYet, NotReceived, Placed, flags, parser
  <1>3. ASSUME NEW k \in FrameMenu, ServerSends(k)
        PROVE  SettledInv'
    <2>. DEFINE f == FrameOf(k, frames')
    <2>1. k \in FrameKinds
      BY ConstantsAssumption, Zenon
    <2>2. f \in StreamFrames /\ f.op = k.op
      <3>1. frames' \in Nat
        BY <1>3 DEF ServerSends, WTypes, ServerTypes
      <3>2. QED
        BY <2>1, <3>1 DEF FrameKinds, FrameOf, StreamFrames
    <2>3. /\ stream' = Append(stream, f) /\ tcp = "Connected" /\ peer = "open"
          /\ peer' = IF k.op = "close" THEN "closed" ELSE "open"
          /\ UNCHANGED <<state, tcp, old, flags, parser, misled>>
      BY <1>3 DEF ServerSends
    <2>. HIDE DEF f
    <2>4. QED
      BY <1>2, <2>2, <2>3
  <1>4. ASSUME ServerCloses
        PROVE  SettledInv'
    <2>. DEFINE f == [op |-> "close", fin |-> TRUE, ok |-> TRUE, n |-> 0,
                      masked |-> FALSE, id |-> 0]
    <2>1. f \in StreamFrames /\ f.op = "close"
      BY DEF StreamFrames, Ops
    <2>2. /\ stream' = Append(stream, f) /\ tcp = "Connected" /\ peer = "open"
          /\ peer' = "closed"
          /\ UNCHANGED <<state, tcp, old, flags, parser, misled>>
      BY <1>4 DEF ServerCloses
    <2>. HIDE DEF f
    <2>3. QED
      BY <1>2, <2>1, <2>2
  <1>5. QED
    BY <1>1, <1>3, <1>4 DEF Server

(* The handshake.                                                          *)
LEMMA HandshakeSettled ==
    ASSUME WTypes, SettledInv, processHandshake
    PROVE  SettledInv'
  <1>. DEFINE S == Lines \cup StreamFrames
  <1>1. stream \in Seq(S)
    BY DEF WTypes, InputTypes
  <1>. HIDE DEF S
  <1>2. CASE HandshakePart
    <2>1. /\ stream # << >> /\ first.op = "status" /\ stream' = Tail(stream)
          /\ state = "Connecting"
          /\ UNCHANGED <<state, tcp, old, flags, parser, peer, misled>>
      BY <1>2 DEF HandshakePart, Shaking, server
    <2>2. NothingYet' /\ InOrder(stream', peer')
      BY <2>1, TailSettled
    <2>3. /\ Len(stream) > 1 /\ stream[2].op \in {"fields", "bad fields"}
      <3>1. first = stream[1] /\ 1 \in 1 .. Len(stream)
        BY <1>1, <2>1, TailItems DEF first
      <3>2. stream[1].op = "status"
        BY <2>1, <3>1
      <3>3. 1 < Len(stream) /\ stream[1 + 1].op \in {"fields", "bad fields"}
        BY <3>1, <3>2, OrderNow
      <3>4. 1 + 1 = 2
        OBVIOUS
      <3>5. stream[2].op \in {"fields", "bad fields"}
        BY <3>3, <3>4, Zenon
      <3>6. Len(stream) \in Nat
        BY <1>1
      <3>7. QED
        BY <3>3, <3>5, <3>6
    <2>4. stream' # << >> /\ IsLine(first')
      <3>1. Tail(stream) # << >> /\ Head(Tail(stream)) = stream[2]
        BY <1>1, <2>3, SecondTail
      <3>2. QED
        BY <2>1, <2>3, <3>1 DEF IsLine, first
    <2>5. QED
      BY <2>1, <2>2, <2>4 DEF SettledInv, LinesFirst, NotReceived, Placed, flags, parser
  <1>3. CASE HandshakeFails
    <2>1. /\ tcp' = "Unconnected" /\ state' = "Unconnected" /\ stream' = << >>
          /\ UNCHANGED <<peer, reading, misled>>
      BY <1>3 DEF HandshakeFails, TcpAborted, TcpUnconnected, server, parser
    <2>2. QED
      BY <2>1, EndedSettled
  <1>4. ASSUME NEW fields, ReadAnswer(fields)
        PROVE  /\ stream # << >> /\ stream[2].op = fields /\ Len(stream) > 1
               /\ Behind(stream, 2) \in Seq(S) /\ 2 \in 0 .. Len(stream)
               /\ ~misled' => stream' = Tail(Tail(stream))
    <2>1. /\ stream # << >> /\ first.op = "status" /\ stream[2].op = fields
          /\ stream' = Behind(stream, 2) \/ misled' = TRUE
      BY <1>4 DEF ReadAnswer, Shaking
    <2>2. first = stream[1] /\ 1 \in 1 .. Len(stream)
      BY <1>1, <2>1, TailItems DEF first
    <2>3. 1 < Len(stream)
      BY <2>1, <2>2 DEF SettledInv, InOrder
    <2>4. 2 \in 0 .. Len(stream)
      BY <1>1, <2>3
    <2>5. QED
      BY <1>1, <2>1, <2>3, <2>4, SecondTail, BehindItems
  <1>5. ASSUME NEW fields, ReadAnswer(fields), UNCHANGED peer
        PROVE  InOrder(stream', peer') /\ Placed'
    <2>1. InOrder(Behind(stream, 2), peer)
      BY <1>1, <1>4, <1>5, OrderOfBehind DEF SettledInv
    <2>2. CASE /\ stream' = Behind(stream, 2) /\ UNCHANGED reading
               /\ UNCHANGED misled \/ misled' = TRUE
      BY <1>5, <2>1, <2>2 DEF SettledInv, Placed
    <2>3. CASE GoesOnWith(Behind(stream, 2), transit) /\ misled' = TRUE
      <3>1. PICK n \in 0 .. Len(Behind(stream, 2)) : stream' = Behind(Behind(stream, 2), n)
        BY <1>4, <1>5, <2>3, GoesOnBehind
      <3>2. InOrder(Behind(Behind(stream, 2), n), peer)
        BY <1>4, <1>5, <2>1, OrderOfBehind
      <3>3. QED
        BY <1>5, <2>3, <3>1, <3>2 DEF Placed
    <2>4. QED
      BY <1>5, <2>2, <2>3 DEF ReadAnswer
  <1>6. CASE HandshakeComplete
    <2>1. /\ ReadAnswer("fields") /\ state' = "Connected" /\ UNCHANGED <<tcp, old, peer>>
      BY <1>6 DEF HandshakeComplete, server
    <2>2. InOrder(stream', peer') /\ Placed' /\ stream # << >>
      BY <1>4, <1>5, <2>1
    <2>3. QED
      BY <2>1, <2>2 DEF SettledInv, NothingYet, LinesFirst, NotReceived
  <1>7. CASE HandshakeInvalid
    <2>1. /\ ReadAnswer("bad fields") /\ UNCHANGED <<state, tcp, old, flags, peer>>
      BY <1>7 DEF HandshakeInvalid, server
    <2>2. InOrder(stream', peer') /\ Placed'
      BY <1>5, <2>1
    <2>3. stream # << >> /\ Len(stream) > 1
      BY <1>4, <2>1
    <2>4. stream[2].op = "bad fields" /\ (~misled' => stream' = Tail(Tail(stream)))
      BY <1>4, <2>1
    <2>5. Len(stream) = 2 /\ peer = "refused"
      <3>1. 2 \in 1 .. Len(stream)
        <4>1. Len(stream) \in Nat /\ Len(stream) > 1
          BY <1>1, <2>3
        <4>2. QED
          BY <4>1
      <3>2. QED
        BY <2>4, <3>1, OrderNow
    <2>6. ~misled' => stream' = << >>
      <3>1. Tail(Tail(stream)) = << >>
        BY <1>1, <2>5, NoSecondTail
      <3>2. QED
        BY <2>4, <3>1
    <2>7. QED
      BY <2>1, <2>2, <2>3, <2>5, <2>6 DEF SettledInv, NothingYet, LinesFirst, NotReceived, flags
  <1>8. QED
    BY <1>2, <1>3, <1>6, <1>7 DEF processHandshake

(* A frame.  Once the parser is misled, it is only of interest that none   *)
(* leaves a closing socket that received a close frame.                    *)
LEMMA EffectReceived ==
    ASSUME SInv, WTypes, SettledInv, ~old, NEW f, FrameEffect(f)
    PROVE  NotReceived' /\ (tcp' = tcp \/ tcp' = "Closing")
  <1>1. ASSUME NEW handshakeReceived, Close(handshakeReceived),
               closingHandshakeReceived' = handshakeReceived
        PROVE  NotReceived' /\ (tcp' = tcp \/ tcp' = "Closing")
    BY <1>1, ClosedState DEF NotReceived
  <1>2. CASE Invalid(f)
    BY <1>1, <1>2 DEF Invalid
  <1>3. CASE Closes(f)
    BY <1>1, <1>3 DEF Closes
  <1>4. CASE Misplaced(f)
    BY <1>1, <1>4 DEF Misplaced
  <1>5. CASE Pings(f) \/ Carries(f)
    <2>1. UNCHANGED <<state, tcp, closingHandshakeReceived>>
      BY <1>5 DEF Pings, Carries, flags
    <2>2. QED
      BY <2>1 DEF SettledInv, NotReceived
  <1>6. QED
    BY <1>2, <1>3, <1>4, <1>5 DEF FrameEffect

LEMMA MisledSettled ==
    ASSUME SInv, WTypes, SettledInv, misled', stream # << >>, ~old, NEW f, FrameEffect(f),
           NEW n \in 0 .. Len(stream), stream' = Behind(stream, n), UNCHANGED peer
    PROVE  SettledInv'
  <1>1. NotReceived' /\ (tcp' = tcp \/ tcp' = "Closing")
    BY EffectReceived
  <1>2. NothingYet' /\ InOrder(stream', peer')
    BY <1>1, BehindSettled
  <1>3. QED
    BY <1>1, <1>2 DEF SettledInv, LinesFirst, Placed

LEMMA FrameSettled ==
    ASSUME SInv, WTypes, CInv, SettledInv, ~misled,
           InvalidFrame \/ CloseFrame \/ PingFrame \/ MisplacedFrame \/ DataFrame
    PROVE  SettledInv'
  <1>1. ReadBody
    BY DEF InvalidFrame, CloseFrame, PingFrame, MisplacedFrame, DataFrame
  <1>2. Busy
    BY ParsesWhenBusy DEF processDataV4
  <1>3. /\ state \in {"Connected", "Closing"} /\ ~old /\ UNCHANGED old
        /\ tcp # "Unconnected" /\ stream # << >> /\ ~closingHandshakeReceived
        /\ stream' = Tail(stream) /\ reading' = "Header" /\ UNCHANGED <<peer, misled>>
    BY <1>1, <1>2, ParsedWhenOpen
  <1>4. ASSUME tcp' = tcp \/ tcp' = "Closing", state' \in {"Connected", "Closing"},
               closingHandshakeReceived' = closingHandshakeReceived
        PROVE  SettledInv'
    <2>1. NothingYet' /\ InOrder(stream', peer')
      BY <1>3, <1>4, TailSettled
    <2>2. QED
      BY <1>3, <1>4, <2>1 DEF SettledInv, LinesFirst, NotReceived, Placed
  <1>5. ASSUME first.op = "close", state' = "Unconnected", tcp' = "Closing"
        PROVE  SettledInv'
    <2>1. NothingYet' /\ InOrder(stream', peer')
      BY <1>3, <1>5, TailSettled
    <2>2. stream' = << >> /\ peer = "closed"
      <3>. DEFINE S == Lines \cup StreamFrames
      <3>1. stream \in Seq(S)
        BY DEF WTypes, InputTypes
      <3>. HIDE DEF S
      <3>2. /\ first = stream[1] /\ 1 \in 1 .. Len(stream) /\ Tail(stream) \in Seq(S)
            /\ Len(Tail(stream)) = Len(stream) - 1
        BY SMTT(30), <1>3, <3>1, TailItems DEF first
      <3>3. Len(stream) = 1 /\ peer = "closed"
        BY <1>5, <3>2, OrderNow, Zenon
      <3>4. Tail(stream) = << >>
        BY <3>1, <3>3, NoTail
      <3>5. QED
        BY <1>3, <3>3, <3>4
    <2>3. QED
      BY <1>3, <1>5, <2>1, <2>2 DEF SettledInv, LinesFirst, NotReceived, Placed
  <1>6. CASE InvalidFrame
    <2>1. /\ closingHandshakeReceived' = (closingHandshakeReceived \/ first.op = "close")
          /\ Close(closingHandshakeReceived')
      BY <1>6 DEF InvalidFrame, Invalid
    <2>2. CASE first.op = "close"
      <3>1. state' = "Unconnected" /\ tcp' = "Closing"
        BY <1>3, <2>1, <2>2 DEF Close
      <3>2. QED
        BY <1>5, <2>2, <3>1
    <2>3. CASE first.op # "close"
      <3>1. state' = "Closing" /\ tcp' = tcp
        BY <1>3, <2>1, <2>3 DEF Close
      <3>2. closingHandshakeReceived' = closingHandshakeReceived
        BY <2>1, <2>3 DEF WTypes, FlagTypes
      <3>3. QED
        BY <1>4, <3>1, <3>2
    <2>4. QED
      BY <2>2, <2>3
  <1>7. CASE CloseFrame
    <2>1. first.op = "close" /\ Close(TRUE)
      BY <1>7 DEF CloseFrame, Closes
    <2>2. state' = "Unconnected" /\ tcp' = "Closing"
      BY <1>3, <2>1 DEF Close
    <2>3. QED
      BY <1>5, <2>1, <2>2
  <1>8. CASE PingFrame
    <2>1. UNCHANGED <<state, tcp, flags>>
      BY <1>8 DEF PingFrame, Pings
    <2>2. QED
      BY <1>3, <1>4, <2>1 DEF flags
  <1>9. CASE MisplacedFrame
    <2>1. Close(closingHandshakeReceived) /\ UNCHANGED closingHandshakeReceived
      BY <1>9 DEF MisplacedFrame, Misplaced
    <2>2. state' = "Closing" /\ tcp' = tcp
      BY <1>3, <2>1 DEF Close
    <2>3. QED
      BY <1>4, <2>1, <2>2
  <1>10. CASE DataFrame
    <2>1. UNCHANGED <<state, tcp, flags>>
      BY <1>10 DEF DataFrame, Carries
    <2>2. QED
      BY <1>3, <1>4, <2>1 DEF flags
  <1>11. QED
    BY <1>6, <1>7, <1>8, <1>9, <1>10

(* A frame, or one that bytes were taken for, when the parser was misled.  *)
LEMMA MisreadSettled ==
    ASSUME SInv, WTypes, CInv, SettledInv,
           \/ /\ misled
              /\ InvalidFrame \/ CloseFrame \/ PingFrame \/ MisplacedFrame \/ DataFrame
           \/ MisreadFrame
    PROVE  SettledInv'
  <1>1. ASSUME misled, ReadBody, FrameEffect(first)
        PROVE  SettledInv'
    <2>1. /\ stream # << >> /\ ~old /\ stream' = Tail(stream) /\ UNCHANGED <<peer, misled>>
      BY <1>1 DEF ReadBody, Parsing, server
    <2>2. Tail(stream) = Behind(stream, 1) /\ 1 \in 0 .. Len(stream)
      <3>. DEFINE S == Lines \cup StreamFrames
      <3>1. stream \in Seq(S)
        BY DEF WTypes, InputTypes
      <3>. HIDE DEF S
      <3>2. QED
        BY <2>1, <3>1, TailBehind
    <2>3. QED
      BY <1>1, <2>1, <2>2, MisledSettled
  <1>2. ASSUME NEW k \in Misreadings, Misread(k), FrameEffect(FrameOf(k, 0))
        PROVE  SettledInv'
    <2>1. /\ stream # << >> /\ ~old /\ GoesOnWith(stream, avail' + transit)
          /\ UNCHANGED <<peer, misled>> /\ reading \in {"Lost", "Rest"}
      BY <1>2 DEF Misread, Parsing, server
    <2>2. PICK n \in 0 .. Len(stream) : stream' = Behind(stream, n)
      BY <2>1, GoesOnBehind DEF WTypes, InputTypes
    <2>3. misled'
      BY <2>1 DEF SettledInv, Placed
    <2>4. QED
      BY <1>2, <2>1, <2>2, <2>3, MisledSettled
  <1>3. QED
    BY <1>1, <1>2 DEF MisreadFrame, InvalidFrame, CloseFrame, PingFrame, MisplacedFrame,
                      DataFrame, FrameEffect

LEMMA SettledInit == Init => SettledInv
  <1>. SUFFICES ASSUME Init PROVE SettledInv
    OBVIOUS
  <1>1. stream = << >> /\ tcp = "Unconnected" /\ state = "Unconnected"
    BY Zenon DEF Init
  <1>2. InOrder(stream, peer)
    BY <1>1, NoneInOrder
  <1>3. reading = "Header"
    BY Zenon DEF Init
  <1>4. QED
    BY <1>1, <1>2, <1>3 DEF SettledInv, NothingYet, LinesFirst, NotReceived, Placed

LEMMA SettledStep == SettledInv /\ SInv /\ WTypes /\ CInv /\ [Next]_vars => SettledInv'
  <1>. SUFFICES ASSUME SettledInv, SInv, WTypes, CInv, [Next]_vars
                PROVE  SettledInv'
    OBVIOUS
  <1>1. CASE connectToHost
    <2>1. /\ stream' = << >> /\ peer' = "none" /\ state' = "Connecting"
      BY <1>1 DEF connectToHost
    <2>2. InOrder(stream', peer')
      BY <2>1, NoneInOrder
    <2>3. Placed'
      BY <1>1 DEF connectToHost, Placed
    <2>4. QED
      BY <2>1, <2>2, <2>3 DEF SettledInv, NothingYet, LinesFirst, NotReceived
  <1>2. CASE disconnectFromHost
    <2>1. /\ ~old /\ state # "Unconnected" /\ Close(closingHandshakeReceived)
          /\ UNCHANGED <<old, closingHandshakeReceived, stream, peer, reading, misled>>
      BY <1>2 DEF disconnectFromHost, input, server, parser
    <2>2. ~closingHandshakeReceived
      BY <2>1
      DEF SettledInv, NotReceived, CInv, OpenConnection, NoneSent, SInv, SignalTypes, States
    <2>3. state' = "Closing" /\ UNCHANGED tcp
      BY <2>1, <2>2 DEF Close
    <2>4. QED
      BY <2>1, <2>2, <2>3 DEF SettledInv, NothingYet, LinesFirst, NotReceived, Placed
  <1>3. CASE abort \/ TcpLost \/ TcpFlushed \/ ServerHangsUp
    <2>1. /\ tcp' = "Unconnected" /\ state' = "Unconnected"
          /\ UNCHANGED <<peer, reading, misled>>
          /\ stream' = stream \/ stream' = << >>
      BY <1>3 DEF abort, TcpLost, TcpFlushed, ServerHangsUp, TcpEnds, TcpAborted,
                  TcpUnconnected, server, input, parser
    <2>2. QED
      BY <2>1, EndedSettled
  <1>4. CASE \E opcode \in {"text", "binary"}, n \in Lengths : internalWrite(opcode, n)
    <2>1. UNCHANGED <<stream, peer, state, tcp, old, closingHandshakeReceived, reading,
                     misled>>
      BY <1>4 DEF internalWrite, input, server, flags, parser
    <2>2. QED
      BY <2>1, StillSettled
  <1>5. CASE DeleteOld
    <2>1. /\ old /\ state' = "Unconnected" /\ UNCHANGED <<stream, peer, tcp, reading, misled>>
      BY <1>5 DEF DeleteOld, TcpUnconnected, input, server, parser
    <2>2. state = "Connecting" /\ tcp = "Connecting"
      BY <2>1 DEF SInv, OldConnecting, CInv, FreshConnection
    <2>3. QED
      BY <2>1, <2>2
      DEF SettledInv, NothingYet, InOrder, LinesFirst, NotReceived, Placed, IsLine, first
  <1>6. CASE onEncrypted
    <2>1. /\ tcp = "Connecting" /\ peer' \in {"asked", "puzzled"}
          /\ UNCHANGED <<state, old, stream, closingHandshakeReceived, reading, misled>>
      BY <1>6 DEF onEncrypted, input, flags, parser
    <2>2. stream' = << >>
      BY <2>1 DEF SettledInv, NothingYet
    <2>3. InOrder(stream', peer')
      BY <2>2, NoneInOrder
    <2>4. QED
      BY <2>1, <2>2, <2>3 DEF SettledInv, NothingYet, LinesFirst, NotReceived, Placed
  <1>7. CASE \E bytes \in 1 .. transit : Arrives(bytes)
    <2>1. UNCHANGED <<stream, peer, state, tcp, old, closingHandshakeReceived, reading,
                     misled>>
      BY <1>7 DEF Arrives, input, server, flags, parser
    <2>2. QED
      BY <2>1, StillSettled
  <1>8. CASE HeaderPending \/ PayloadLengthPending \/ MaskPending
    <2>1. /\ UNCHANGED <<stream, peer, state, tcp, old, closingHandshakeReceived, misled>>
          /\ reading' \in {"Length", "Mask", "Body"}
      BY <1>8 DEF HeaderPending, PayloadLengthPending, MaskPending, Parsing, Advance, server,
                  flags
    <2>2. QED
      BY <2>1, StillSettled
  <1>9. CASE AnswerAsFrames
    <2>1. /\ ~old /\ UNCHANGED <<old, peer>> /\ stream # << >> /\ stream' = Tail(stream)
          /\ misled' = TRUE /\ state # "Connecting"
          /\ Close(closingHandshakeReceived')
      BY <1>9 DEF AnswerAsFrames, server
    <2>2. /\ tcp' = tcp \/ tcp' = "Closing"
          /\ state' = "Closing" => ~closingHandshakeReceived'
      BY <2>1 DEF Close
    <2>3. NothingYet' /\ InOrder(stream', peer')
      BY <2>1, <2>2, TailSettled
    <2>4. QED
      BY <2>1, <2>2, <2>3 DEF SettledInv, LinesFirst, NotReceived, Placed
  <1>10. CASE UNCHANGED vars
    <2>1. UNCHANGED <<stream, peer, state, tcp, old, closingHandshakeReceived, reading,
                     misled>>
      BY <1>10 DEF vars, input, server, flags, parser
    <2>2. QED
      BY <2>1, StillSettled
  <1>11. CASE MisreadWaits
    <2>1. UNCHANGED <<stream, peer, state, tcp, old, closingHandshakeReceived, reading,
                     misled>>
      BY <1>11 DEF MisreadWaits, server, flags, parser
    <2>2. QED
      BY <2>1, StillSettled
  <1>12. QED
    BY <1>1, <1>2, <1>3, <1>4, <1>5, <1>6, <1>7, <1>8, <1>9, <1>10, <1>11, ServerSettled,
       HandshakeSettled, FrameSettled, MisreadSettled
    DEF Next, Program, Network, processDataV4

-----------------------------------------------------------------------------
(* Nothing that a path is about changes.                                   *)
LEMMA StillFollows ==
    ASSUME MInv, UNCHANGED <<stream, received, promised, inMessage, behaves, misled, currentData,
                             continuation, currentDataOpcode>>,
           state' \in {"Connecting", "Connected"} => state \in {"Connecting", "Connected"}
    PROVE  MInv'
  BY DEF MInv, Delivered, Follows, Collected

(* What the parser reads is not delivered any more.                        *)
LEMMA NoLongerFollows ==
    ASSUME MInv, UNCHANGED <<received, promised, misled>>,
           state' \notin {"Connecting", "Connected"}
    PROVE  MInv'
  BY DEF MInv, Delivered, Follows

(* A line, or a control frame, has no place.                               *)
LEMMA PathQuietHead ==
    ASSUME NEW S, NEW str \in Seq(S), str # << >>, NEW m \in Nat, NEW p \in Nat,
           NEW pro, NEW open, NEW good \in BOOLEAN, OnPath(str, m, p, pro, open, good),
           ~IsData(Head(str)), ~Bad(Head(str), open)
    PROVE  OnPath(Tail(str), m, p, pro, open, good)
  <1>1. PICK m2 \in Nat, p2 \in Nat : /\ Moves(pro, open, Head(str), m, p, m2, p2)
                                      /\ OnPath(Tail(str), m2, p2, pro, open, good)
    BY PathHead
  <1>2. m2 = m /\ p2 = p
    BY <1>1 DEF Moves
  <1>3. QED
    BY <1>1, <1>2

LEMMA GrowsNot ==
    ASSUME NEW pro \in Messages, NEW open \in Seq(Parts)
    PROVE  Grows(pro, open, pro, open)
  <1>1. Len(pro) \in Nat
    BY DEF Messages
  <1>2. \A m \in 1 .. Len(pro) + 1 : SizeOf(pro, open, m) \in Nat
    BY <1>1, SizeIsNat
  <1>3. QED
    BY <1>1, <1>2 DEF Grows

LEMMA PathQuiet ==
    ASSUME NEW S, NEW str \in Seq(S), NEW f \in S, NEW m \in Nat, NEW p \in Nat,
           NEW pro \in Messages, NEW open \in Seq(Parts), NEW good \in BOOLEAN,
           ~IsData(f), OnPath(str, m, p, pro, open, good)
    PROVE  OnPath(Append(str, f), m, p, pro, open, good)
  <1>1. CASE good
    <2>1. Grows(pro, open, pro, open)
      BY GrowsNot
    <2>2. Moves(pro, open, f, Len(pro) + 1, Len(open), Len(pro) + 1, Len(open))
      BY DEF Moves
    <2>3. OnPath(str, m, p, pro, open, TRUE)
      BY <1>1
    <2>4. OnPath(Append(str, f), m, p, pro, open, TRUE)
      BY <2>1, <2>2, <2>3, PathAppend
    <2>5. QED
      BY <1>1, <2>4
  <1>2. CASE ~good
    <2>1. OnPath(str, m, p, pro, open, FALSE)
      BY <1>2
    <2>2. OnPath(Append(str, f), m, p, pro, open, FALSE)
      BY <2>1, PathBad
    <2>3. QED
      BY <1>2, <2>2
  <1>3. QED
    BY <1>1, <1>2

(* A connection begins with nothing, and the parser with nothing of it.    *)
LEMMA PathOfNothing == OnPath(<< >>, 1, 0, << >>, << >>, TRUE)
  <1>. DEFINE at == [i \in 1 .. 1 |-> 1]
              part == [i \in 1 .. 1 |-> 0]
  <1>1. at \in [1 .. 1 -> Nat] /\ part \in [1 .. 1 -> Nat] /\ at[1] = 1 /\ part[1] = 0
    OBVIOUS
  <1>. HIDE DEF at, part
  <1>2. Len(<< >>) = 0 /\ 0 + 1 = 1 /\ 1 \in 1 .. 0 + 1
    OBVIOUS
  <1>3. 1 .. 1 - 1 = {}
    OBVIOUS
  <1>4. Path(<< >>, 1, at, part, << >>, << >>)
    BY <1>1, <1>2, <1>3, Zenon DEF Path
  <1>5. PathEnd(<< >>, 1, << >>, TRUE)
    BY <1>2, Zenon DEF PathEnd
  <1>6. QED
    BY <1>1, <1>2, <1>4, <1>5, Zenon DEF OnPath

LEMMA ConnectFollows ==
    ASSUME WTypes, connectToHost
    PROVE  MInv'
  <1>. SUFFICES ASSUME ~misled'
                PROVE  Delivered' /\ Follows'
    BY DEF MInv
  <1>1. /\ ~continuation /\ currentData = << >>
        /\ stream' = << >> /\ received' = << >> /\ promised' = << >> /\ inMessage' = << >>
        /\ behaves' = TRUE /\ UNCHANGED <<continuation, currentData>>
    BY DEF connectToHost
  <1>2. Len(<< >>) = 0 /\ 0 + 1 = 1
    OBVIOUS
  <1>3. Delivered'
    BY <1>1, <1>2 DEF Delivered
  <1>4. Collected'
    <2>1. SizeOf(<< >>, << >>, 1) = 0
      BY <1>2 DEF SizeOf
    <2>2. Len(currentData') = 0 /\ continuation' = FALSE
      BY <1>1, <1>2
    <2>3. SizeOf(promised', inMessage', Len(received') + 1) = 0
      BY <1>1, <1>2, <2>1
    <2>. SUFFICES /\ Len(currentData') <= SizeOf(promised', inMessage', Len(received') + 1)
                  /\ \A j \in 1 .. Len(currentData') : FALSE
                  /\ continuation' = (Len(currentData') > 0)
                  /\ ~(Len(currentData') > 0)
      BY DEF Collected
    <2>4. /\ Len(currentData') <= SizeOf(promised', inMessage', Len(received') + 1)
          /\ 1 .. Len(currentData') = {}
          /\ ~(Len(currentData') > 0)
      BY <2>2, <2>3
    <2>5. (Len(currentData') > 0) = FALSE
      BY <2>4
    <2>6. QED
      BY <2>2, <2>4, <2>5, Zenon
  <1>5. OnPath(stream', Len(received') + 1, Len(currentData'), promised', inMessage', behaves')
    BY <1>1, <1>2, PathOfNothing
  <1>6. QED
    BY <1>3, <1>4, <1>5 DEF Follows

-----------------------------------------------------------------------------
(* The handshake takes lines off the stream, and they have no place.       *)
LEMMA LineFollows ==
    ASSUME NEW S, NEW str \in Seq(S), str # << >>, NEW m \in Nat, NEW p \in Nat,
           NEW pro, NEW open, NEW good \in BOOLEAN, OnPath(str, m, p, pro, open, good),
           IsLine(Head(str))
    PROVE  OnPath(Tail(str), m, p, pro, open, good)
  <1>1. ~IsData(Head(str)) /\ ~Bad(Head(str), open)
    BY DEF IsLine, IsData, Bad
  <1>2. QED
    BY <1>1, PathQuietHead

LEMMA PlaceIsNat ==
    ASSUME WTypes
    PROVE  /\ Len(received) \in Nat /\ Len(received) + 1 \in Nat /\ Len(currentData) \in Nat
           /\ Len(promised) \in Nat /\ promised \in Messages /\ inMessage \in Seq(Parts)
           /\ behaves \in BOOLEAN
  BY DEF WTypes, ProgramTypes, ParserTypes, ServerTypes, Messages

LEMMA HandshakeFollows ==
    ASSUME WTypes, SettledInv, MInv, processHandshake
    PROVE  MInv'
  <1>. DEFINE S == Lines \cup StreamFrames
  <1>1. stream \in Seq(S)
    BY DEF WTypes, InputTypes
  <1>. HIDE DEF S
  <1>9. stream # << >> => /\ first = stream[1] /\ 1 \in 1 .. Len(stream)
                          /\ Tail(stream) \in Seq(S)
    BY <1>1, TailItems DEF first
  <1>2. ASSUME UNCHANGED <<received, promised, inMessage, behaves, misled, currentData,
                           continuation, currentDataOpcode, reading>>,
               state = "Connecting",
               \A m, p \in Nat : \A pro, open : \A good \in BOOLEAN :
                  OnPath(stream, m, p, pro, open, good) => OnPath(stream', m, p, pro, open, good)
        PROVE  MInv'
    <2>. SUFFICES ASSUME ~misled
                  PROVE  Delivered' /\ Collected' /\
                         OnPath(stream', Len(received) + 1, Len(currentData), promised,
                                inMessage, behaves)
      BY <1>2 DEF MInv, Follows, Delivered
    <2>1. Delivered /\ Collected /\
          OnPath(stream, Len(received) + 1, Len(currentData), promised, inMessage, behaves)
      BY <1>2 DEF MInv, Follows
    <2>2. OnPath(stream', Len(received) + 1, Len(currentData), promised, inMessage, behaves)
      BY <1>2, <2>1, PlaceIsNat
    <2>3. QED
      BY <1>2, <2>1, <2>2 DEF Delivered, Collected
  <1>3. CASE HandshakePart
    <2>1. /\ stream # << >> /\ first.op = "status" /\ stream' = Tail(stream)
          /\ state = "Connecting"
          /\ UNCHANGED <<received, promised, inMessage, behaves, misled, currentData,
                         continuation, currentDataOpcode, reading>>
      BY <1>3 DEF HandshakePart, Shaking, server, program, parser
    <2>2. IsLine(Head(stream))
      BY <2>1 DEF IsLine, first
    <2>3. \A m, p \in Nat : \A pro, open : \A good \in BOOLEAN :
             OnPath(stream, m, p, pro, open, good) => OnPath(stream', m, p, pro, open, good)
      BY <1>1, <2>1, <2>2, LineFollows
    <2>4. QED
      BY <1>2, <2>1, <2>3
  <1>4. CASE HandshakeFails
    BY <1>4, NoLongerFollows
    DEF HandshakeFails, TcpAborted, TcpUnconnected, server, program
  <1>5. ASSUME NEW fields \in {"fields", "bad fields"}, ReadAnswer(fields),
               UNCHANGED <<received, promised, inMessage, behaves, currentData,
                           continuation, currentDataOpcode>>
        PROVE  MInv'
    <2>1. /\ stream # << >> /\ first.op = "status" /\ stream[2].op = fields
          /\ state = "Connecting"
          /\ misled' = TRUE \/ (stream' = Behind(stream, 2) /\ UNCHANGED <<reading, misled>>)
      BY <1>5 DEF ReadAnswer, Shaking
    <2>2. CASE misled' = TRUE
      BY <2>2 DEF MInv
    <2>3. CASE stream' = Behind(stream, 2) /\ UNCHANGED <<reading, misled>>
      <3>1. first = stream[1] /\ 1 \in 1 .. Len(stream) /\ Tail(stream) \in Seq(S)
        BY <1>9, <2>1
      <3>2. Len(stream) > 1
        BY <2>1, <3>1 DEF SettledInv, InOrder
      <3>3. /\ Behind(stream, 2) = Tail(Tail(stream))
            /\ Tail(stream) # << >> /\ Head(Tail(stream)) = stream[2]
        BY <1>1, <3>2, SecondTail
      <3>4. IsLine(Head(stream)) /\ IsLine(Head(Tail(stream)))
        BY <2>1, <3>3 DEF IsLine, first
      <3>5. \A m, p \in Nat : \A pro, open : \A good \in BOOLEAN :
               OnPath(stream, m, p, pro, open, good) =>
                  OnPath(Tail(stream), m, p, pro, open, good)
        BY <1>1, <2>1, <3>4, LineFollows
      <3>6. \A m, p \in Nat : \A pro, open : \A good \in BOOLEAN :
               OnPath(Tail(stream), m, p, pro, open, good) =>
                  OnPath(Tail(Tail(stream)), m, p, pro, open, good)
        BY <3>1, <3>3, <3>4, LineFollows
      <3>7. \A m, p \in Nat : \A pro, open : \A good \in BOOLEAN :
               OnPath(stream, m, p, pro, open, good) => OnPath(stream', m, p, pro, open, good)
        BY <2>3, <3>3, <3>5, <3>6
      <3>8. QED
        BY <1>2, <1>5, <2>1, <2>3, <3>7
    <2>4. QED
      BY <2>1, <2>2, <2>3
  <1>6. CASE HandshakeComplete
    BY <1>5, <1>6 DEF HandshakeComplete, server, program
  <1>7. CASE HandshakeInvalid
    BY <1>5, <1>7 DEF HandshakeInvalid, server, program
  <1>8. QED
    BY <1>3, <1>4, <1>6, <1>7 DEF processHandshake

-----------------------------------------------------------------------------
(* What was promised stays promised.                                       *)
LEMMA DeliveredStill ==
    ASSUME Delivered, UNCHANGED received, Len(promised) \in Nat, Len(promised') \in Nat,
           Len(received) \in Nat,
           Len(promised) <= Len(promised'),
           \A m \in 1 .. Len(promised) : promised'[m] = promised[m]
    PROVE  Delivered'
  BY DEF Delivered

LEMMA CollectedStill ==
    ASSUME WTypes, WTypes', Delivered, Collected,
           UNCHANGED <<received, currentData, continuation, currentDataOpcode>>,
           Grows(promised, inMessage, promised', inMessage')
    PROVE  Collected'
  <1>. DEFINE m == Len(received) + 1
              n == Len(currentData)
  <1>1. m \in 1 .. Len(promised) + 1 /\ m \in Nat \ {0} /\ n \in Nat
    BY PlaceIsNat DEF Delivered
  <1>2. SizeOf(promised, inMessage, m) \in Nat
    BY <1>1, PlaceIsNat, SizeIsNat
  <1>3. SizeOf(promised', inMessage', m) \in Nat
    <2>1. promised' \in Messages /\ inMessage' \in Seq(Parts)
      BY DEF WTypes, ServerTypes
    <2>2. QED
      BY <1>1, <2>1, SizeIsNat
  <1>4. /\ n <= SizeOf(promised, inMessage, m)
        /\ \A j \in 1 .. n : currentData[j] = Fragment(promised, inMessage, m, j)
        /\ continuation = (n > 0)
        /\ n > 0 => currentDataOpcode = OpcodeOf(promised, inMessage, m)
    BY DEF Collected
  <1>5. /\ SizeOf(promised, inMessage, m) <= SizeOf(promised', inMessage', m)
        /\ \A j \in 1 .. SizeOf(promised, inMessage, m) :
              Fragment(promised', inMessage', m, j) = Fragment(promised, inMessage, m, j)
        /\ SizeOf(promised, inMessage, m) > 0 =>
              OpcodeOf(promised', inMessage', m) = OpcodeOf(promised, inMessage, m)
    BY <1>1, Zenon DEF Grows
  <1>. HIDE DEF m, n
  <1>6. /\ n <= SizeOf(promised', inMessage', m)
        /\ \A j \in 1 .. n : currentData[j] = Fragment(promised', inMessage', m, j)
        /\ n > 0 => currentDataOpcode = OpcodeOf(promised', inMessage', m)
    BY <1>1, <1>2, <1>3, <1>4, <1>5
  <1>7. m' = m /\ n' = n
    BY DEF m, n
  <1>8. QED
    BY <1>4, <1>6, <1>7, Zenon DEF Collected, m, n

(* The server sends a frame that is not one of a message.                  *)
LEMMA QuietFollows ==
    ASSUME WTypes, MInv,
           UNCHANGED <<received, currentData, continuation, currentDataOpcode, promised,
                       inMessage, behaves, misled, reading, state>>,
           NEW f \in Lines \cup StreamFrames, ~IsData(f), stream' = Append(stream, f)
    PROVE  MInv'
  <1>. DEFINE S == Lines \cup StreamFrames
  <1>1. stream \in Seq(S) /\ f \in S
    BY DEF WTypes, InputTypes
  <1>. HIDE DEF S
  <1>. SUFFICES ASSUME ~misled
                PROVE  Delivered' /\ Follows'
    BY DEF MInv
  <1>2. Delivered /\ Follows
    BY DEF MInv
  <1>3. ASSUME state \in {"Connecting", "Connected"}
        PROVE  OnPath(stream', Len(received) + 1, Len(currentData), promised, inMessage,
                      behaves)
    <2>1. OnPath(stream, Len(received) + 1, Len(currentData), promised, inMessage, behaves)
      BY <1>2, <1>3 DEF Follows
    <2>2. QED
      BY <1>1, <2>1, PlaceIsNat, PathQuiet
  <1>4. QED
    BY <1>2, <1>3 DEF Delivered, Follows, Collected

-----------------------------------------------------------------------------
(* The answer to the handshake, a frame of the server and its close frame. *)
LEMMA AnswerFollows ==
    ASSUME WTypes, MInv, NEW answer \in Answers, ServerAnswers(answer)
    PROVE  MInv'
  <1>. DEFINE S == Lines \cup StreamFrames
              line1 == Line(IF answer = "bad status" THEN "bad status" ELSE "status")
              line2 == Line(IF answer = "bad fields" THEN "bad fields" ELSE "fields")
  <1>1. /\ stream' = stream \o <<line1, line2>>
        /\ UNCHANGED <<received, currentData, continuation, currentDataOpcode, promised,
                       inMessage, behaves, misled, reading, state>>
    BY DEF ServerAnswers, program, parser
  <1>2. stream \in Seq(S) /\ line1 \in S /\ line2 \in S /\ ~IsData(line1) /\ ~IsData(line2)
    BY DEF WTypes, InputTypes, Lines, Line, IsData
  <1>. HIDE DEF S, line1, line2
  <1>3. stream \o <<line1, line2>> = Append(Append(stream, line1), line2)
        /\ Append(stream, line1) \in Seq(S)
    BY <1>2
  <1>. SUFFICES ASSUME ~misled
                PROVE  Delivered' /\ Follows'
    BY <1>1 DEF MInv
  <1>4. Delivered /\ Follows
    BY DEF MInv
  <1>5. ASSUME state \in {"Connecting", "Connected"}
        PROVE  OnPath(stream', Len(received) + 1, Len(currentData), promised, inMessage,
                      behaves)
    <2>1. OnPath(stream, Len(received) + 1, Len(currentData), promised, inMessage, behaves)
      BY <1>4, <1>5 DEF Follows
    <2>2. OnPath(Append(stream, line1), Len(received) + 1, Len(currentData), promised,
                 inMessage, behaves)
      BY <1>2, <2>1, PlaceIsNat, PathQuiet
    <2>3. OnPath(Append(Append(stream, line1), line2), Len(received) + 1, Len(currentData),
                 promised, inMessage, behaves)
      BY <1>2, <1>3, <2>2, PlaceIsNat, PathQuiet
    <2>4. QED
      BY <1>1, <1>3, <2>3
  <1>6. QED
    BY <1>1, <1>4, <1>5 DEF Delivered, Follows, Collected

(* A frame of a message takes the server one place further.                *)
LEMMA FragmentFollows ==
    ASSUME WTypes, WTypes', MInv,
           UNCHANGED <<received, currentData, continuation, currentDataOpcode, misled, reading,
                       state>>,
           behaves, behaves', NEW f \in StreamFrames, stream' = Append(stream, f),
           Len(promised) <= Len(promised'),
           \A m \in 1 .. Len(promised) : promised'[m] = promised[m],
           Grows(promised, inMessage, promised', inMessage'),
           Moves(promised', inMessage', f, Len(promised) + 1, Len(inMessage),
                 Len(promised') + 1, Len(inMessage'))
    PROVE  MInv'
  <1>. DEFINE S == Lines \cup StreamFrames
  <1>1. stream \in Seq(S) /\ f \in S
    BY DEF WTypes, InputTypes
  <1>. HIDE DEF S
  <1>. SUFFICES ASSUME ~misled
                PROVE  Delivered' /\ Follows'
    BY DEF MInv
  <1>2. Delivered /\ Follows
    BY DEF MInv
  <1>3. promised' \in Messages /\ inMessage' \in Seq(Parts) /\ Len(promised') \in Nat
    BY DEF WTypes, ServerTypes, Messages
  <1>4. Delivered'
    BY <1>2, <1>3, PlaceIsNat, DeliveredStill
  <1>5. ASSUME state \in {"Connecting", "Connected"}
        PROVE  /\ Collected'
               /\ OnPath(stream', Len(received) + 1, Len(currentData), promised', inMessage',
                         TRUE)
    <2>1. /\ Collected
          /\ OnPath(stream, Len(received) + 1, Len(currentData), promised, inMessage, TRUE)
      BY <1>2, <1>5 DEF Follows
    <2>2. Collected'
      BY <1>2, <2>1, CollectedStill
    <2>3. OnPath(Append(stream, f), Len(received) + 1, Len(currentData), promised', inMessage',
                 TRUE)
      BY <1>1, <1>3, <2>1, PlaceIsNat, PathAppend
    <2>4. QED
      BY <2>2, <2>3
  <1>6. behaves' = TRUE
    BY DEF WTypes, ServerTypes
  <1>7. QED
    BY <1>4, <1>5, <1>6 DEF Follows

(* One that breaks the protocol ends the path.                             *)
LEMMA BreachFollows ==
    ASSUME WTypes, MInv,
           UNCHANGED <<received, currentData, continuation, currentDataOpcode, promised,
                       inMessage, misled, reading, state>>,
           NEW f \in StreamFrames, stream' = Append(stream, f),
           behaves' = FALSE, behaves => Bad(f, inMessage)
    PROVE  MInv'
  <1>. DEFINE S == Lines \cup StreamFrames
  <1>1. stream \in Seq(S) /\ f \in S
    BY DEF WTypes, InputTypes
  <1>. HIDE DEF S
  <1>. SUFFICES ASSUME ~misled
                PROVE  Delivered' /\ Follows'
    BY DEF MInv
  <1>2. Delivered /\ Follows
    BY DEF MInv
  <1>3. ASSUME state \in {"Connecting", "Connected"}
        PROVE  OnPath(stream', Len(received) + 1, Len(currentData), promised, inMessage, FALSE)
    <2>1. OnPath(stream, Len(received) + 1, Len(currentData), promised, inMessage, behaves)
      BY <1>2, <1>3 DEF Follows
    <2>2. QED
      BY <1>1, <2>1, PlaceIsNat, PathBad
  <1>4. QED
    BY <1>2, <1>3 DEF Delivered, Follows, Collected

LEMMA SendFollows ==
    ASSUME WTypes, WTypes', MInv, NEW k \in FrameMenu, ServerSends(k)
    PROVE  MInv'
  <1>. DEFINE f == FrameOf(k, frames')
              part == [op |-> k.op, id |-> frames']
              message == Append(inMessage, part)
              whole == [op |-> message[1].op,
                        data |-> [i \in 1 .. Len(message) |-> message[i].id]]
  <1>1. /\ stream' = Append(stream, f)
        /\ behaves' = (behaves /\ Allowed(k))
        /\ behaves' /\ k.op \in {"text", "binary", "cont"} =>
              IF k.fin THEN promised' = Append(promised, whole) /\ inMessage' = << >>
                       ELSE inMessage' = message /\ UNCHANGED promised
        /\ ~(behaves' /\ k.op \in {"text", "binary", "cont"}) =>
              UNCHANGED <<promised, inMessage>>
        /\ UNCHANGED <<received, currentData, continuation, currentDataOpcode, misled, reading,
                       state>>
    BY DEF ServerSends, program, parser
  <1>2. k \in FrameKinds /\ frames' \in Nat
    <2>1. frames' \in 0 .. MaxFrames
      BY DEF WTypes, ServerTypes
    <2>2. k \in FrameKinds
      BY ConstantsAssumption, Zenon
    <2>3. QED
      BY <2>1, <2>2
  <1>3. /\ f \in StreamFrames /\ f.op = k.op /\ f.fin = k.fin /\ f.ok = k.ok /\ f.id = frames'
        /\ k.op \in Ops /\ k.fin \in BOOLEAN /\ k.ok \in BOOLEAN
    BY <1>2 DEF FrameKinds, FrameOf, StreamFrames
  <1>4. ~IsLine(f)
    BY <1>3 DEF IsLine, Ops
  <1>5. part.op = k.op /\ part.id = frames'
    OBVIOUS
  <1>6. /\ promised \in Messages /\ inMessage \in Seq(Parts) /\ behaves \in BOOLEAN
        /\ inMessage # << >> => inMessage[1].op \in {"text", "binary"}
        /\ promised' \in Messages /\ inMessage' \in Seq(Parts)
        /\ Len(promised) \in Nat /\ Len(inMessage) \in Nat
    BY DEF WTypes, ServerTypes, Messages
  <1>. HIDE DEF f
  <1>7. CASE ~behaves'
    <2>1. behaves => Bad(f, inMessage)
      BY <1>1, <1>3, <1>4, <1>7 DEF Allowed, Bad
    <2>2. behaves' = FALSE
      BY <1>1, <1>6, <1>7
    <2>3. UNCHANGED <<promised, inMessage>>
      BY <1>1, <1>7
    <2>4. QED
      BY <1>1, <1>3, <2>1, <2>2, <2>3, BreachFollows
  <1>8. CASE behaves' /\ k.op \notin {"text", "binary", "cont"}
    <2>1. ~IsData(f)
      BY <1>3, <1>8 DEF IsData
    <2>2. behaves' = behaves
      BY <1>1, <1>6, <1>8
    <2>3. UNCHANGED <<promised, inMessage>>
      BY <1>1, <1>8
    <2>4. QED
      BY <1>1, <1>3, <2>1, <2>2, <2>3, QuietFollows
  <1>9. CASE behaves' /\ k.op \in {"text", "binary", "cont"}
    <2>1. /\ behaves /\ k.ok
          /\ k.op \in {"text", "binary"} => inMessage = << >>
          /\ k.op = "cont" => inMessage # << >>
      BY <1>1, <1>9 DEF Allowed
    <2>2. IsData(f)
      BY <1>3, <1>9 DEF IsData
    <2>3. (f.op = "cont") = (Len(inMessage) > 0)
      <3>1. (f.op = "cont") <=> (Len(inMessage) > 0)
        BY <1>3, <1>6, <1>9, <2>1
      <3>2. QED
        BY <3>1
    <2>4. part \in Parts
      BY <1>2, <1>9 DEF Parts
    <2>5. /\ message \in Seq(Parts) /\ Len(message) = Len(inMessage) + 1
          /\ message[Len(inMessage) + 1] = part
      BY <1>6, <2>4
    <2>. HIDE DEF part
    <2>6. Len(inMessage) = 0 => message[1].op = f.op
      BY <1>3, <1>5, <2>5
    <2>7. CASE k.fin
      <3>1. promised' = Append(promised, whole) /\ inMessage' = << >>
        BY <1>1, <1>9, <2>7
      <3>2. whole \in Wholes
        <4>2. message[1].op \in {"text", "binary"}
          <5>1. CASE inMessage = << >>
            <6>1. k.op \in {"text", "binary"}
              BY <1>9, <2>1, <5>1
            <6>2. Len(inMessage) = 0
              BY <5>1
            <6>3. QED
              BY <1>3, <2>6, <6>1, <6>2
          <5>2. CASE inMessage # << >>
            <6>1. message[1] = inMessage[1]
              BY <1>6, <2>4, <5>2
            <6>2. QED
              BY <1>6, <5>2, <6>1
          <5>3. QED
            BY <5>1, <5>2
        <4>. HIDE DEF message
        <4>3. [i \in 1 .. Len(message) |-> message[i].id] \in Seq(Nat)
          <5>1. Len(message) \in Nat /\ \A i \in 1 .. Len(message) : message[i] \in Parts
            BY <2>5
          <5>2. \A i \in 1 .. Len(message) : message[i].id \in Nat
            BY <5>1 DEF Parts
          <5>3. QED
            BY <5>1, <5>2
        <4>4. QED
          BY <4>2, <4>3 DEF Wholes
      <3>3. /\ Grows(promised, inMessage, promised', inMessage')
            /\ Len(promised') = Len(promised) + 1
            /\ promised'[Len(promised) + 1] = whole
            /\ Len(whole.data) = Len(inMessage) + 1
        <4>1. /\ Len(whole.data) = Len(inMessage) + 1 /\ whole.op = message[1].op
              /\ \A i \in 1 .. Len(message) : whole.data[i] = message[i].id
          BY <2>5
        <4>2. \A j \in 1 .. Len(inMessage) : message[j] = inMessage[j]
          BY <1>6, <2>4
        <4>. HIDE DEF whole, message
        <4>3. \A j \in 1 .. Len(inMessage) : whole.data[j] = inMessage[j].id
          BY <1>6, <2>5, <4>1, <4>2
        <4>4. Len(inMessage) > 0 => whole.op = inMessage[1].op
          BY <1>6, <4>1, <4>2
        <4>5. promised \in Messages /\ inMessage \in Seq(Parts)
          BY <1>6
        <4>6. /\ Grows(promised, inMessage, Append(promised, whole), << >>)
              /\ Len(Append(promised, whole)) = Len(promised) + 1
              /\ Append(promised, whole)[Len(promised) + 1] = whole
          BY <3>2, <4>1, <4>3, <4>4, <4>5, GrowsWhole
        <4>7. QED
          BY <3>1, <4>1, <4>6
      <3>4. \A m \in 1 .. Len(promised) : promised'[m] = promised[m]
        BY <1>6, <3>1, <3>2, MessageAppended
      <3>5. whole.data[Len(inMessage) + 1] = f.id /\ whole.op = message[1].op
        BY <1>3, <1>5, <1>6, <2>5
      <3>. HIDE DEF whole, message
      <3>6. /\ SizeOf(promised', inMessage', Len(promised) + 1) = Len(inMessage) + 1
            /\ Fragment(promised', inMessage', Len(promised) + 1, Len(inMessage) + 1) = f.id
            /\ OpcodeOf(promised', inMessage', Len(promised) + 1) = message[1].op
        BY <1>6, <3>3, <3>5 DEF SizeOf, Fragment, OpcodeOf
      <3>7. f.fin = (Len(promised) + 1 <= Len(promised')
                     /\ Len(inMessage) + 1
                        = SizeOf(promised', inMessage', Len(promised) + 1))
        <4>1. /\ Len(promised) + 1 <= Len(promised')
              /\ Len(inMessage) + 1 = SizeOf(promised', inMessage', Len(promised) + 1)
          BY <1>6, <3>3, <3>6
        <4>2. f.fin = TRUE
          BY <1>3, <2>7
        <4>3. QED
          BY <4>1, <4>2, Zenon
      <3>8. Belongs(promised', inMessage', f, Len(promised) + 1, Len(inMessage))
        BY <1>6, <2>3, <2>6, <3>3, <3>6, <3>7 DEF Belongs
      <3>9. Len(inMessage') = 0
        BY <3>1
      <3>10. Moves(promised', inMessage', f, Len(promised) + 1, Len(inMessage),
                   Len(promised') + 1, Len(inMessage'))
        BY <1>3, <1>6, <2>2, <2>7, <3>3, <3>8, <3>9 DEF Moves
      <3>11. QED
        BY <1>1, <1>3, <1>6, <1>9, <2>1, <3>3, <3>4, <3>10, FragmentFollows
    <2>8. CASE ~k.fin
      <3>1. promised' = promised /\ inMessage' = message
        BY <1>1, <1>9, <2>8
      <3>2. /\ Grows(promised, inMessage, promised', inMessage')
            /\ Len(inMessage') = Len(inMessage) + 1
            /\ inMessage'[Len(inMessage) + 1] = part
        BY <1>6, <2>4, <3>1, GrowsOpen
      <3>. HIDE DEF message
      <3>3. /\ SizeOf(promised', inMessage', Len(promised) + 1) = Len(inMessage) + 1
            /\ Fragment(promised', inMessage', Len(promised) + 1, Len(inMessage) + 1) = f.id
            /\ OpcodeOf(promised', inMessage', Len(promised) + 1) = message[1].op
        BY <1>3, <1>5, <1>6, <3>1, <3>2 DEF SizeOf, Fragment, OpcodeOf
      <3>4. f.fin = (Len(promised) + 1 <= Len(promised')
                     /\ Len(inMessage) + 1
                        = SizeOf(promised', inMessage', Len(promised) + 1))
        BY <1>3, <1>6, <2>8, <3>1
      <3>5. Belongs(promised', inMessage', f, Len(promised) + 1, Len(inMessage))
        BY <1>6, <2>3, <2>6, <3>1, <3>3, <3>4 DEF Belongs
      <3>6. Moves(promised', inMessage', f, Len(promised) + 1, Len(inMessage),
                  Len(promised') + 1, Len(inMessage'))
        BY <1>3, <1>6, <2>2, <2>8, <3>1, <3>2, <3>5 DEF Moves
      <3>7. /\ Len(promised) <= Len(promised')
            /\ \A m \in 1 .. Len(promised) : promised'[m] = promised[m]
        BY <1>6, <3>1
      <3>8. QED
        BY <1>1, <1>3, <1>9, <2>1, <3>2, <3>6, <3>7, FragmentFollows
    <2>9. QED
      BY <2>7, <2>8
  <1>10. QED
    BY <1>7, <1>8, <1>9

-----------------------------------------------------------------------------
(* A control frame in between.                                             *)
LEMMA PingFollows ==
    ASSUME SInv, WTypes, CInv, SettledInv, MInv, PingFrame, ~misled
    PROVE  MInv'
  <1>1. ReadBody /\ first.ok /\ first.op \in {"ping", "pong"}
        /\ UNCHANGED <<state, continuation, currentDataOpcode, currentData, received>>
    BY DEF PingFrame, Pings
  <1>2. Busy
    BY ParsesWhenBusy DEF processDataV4
  <1>3. /\ state \in {"Connected", "Closing"} /\ stream # << >> /\ stream' = Tail(stream)
        /\ UNCHANGED <<server, misled>>
    BY <1>1, <1>2, ParsedWhenOpen
  <1>. SUFFICES Delivered' /\ Follows'
    BY DEF MInv
  <1>4. Delivered /\ Follows
    BY DEF MInv
  <1>5. UNCHANGED <<promised, inMessage, behaves>>
    BY <1>3 DEF server
  <1>6. ASSUME state = "Connected"
        PROVE  /\ Collected
               /\ OnPath(stream', Len(received) + 1, Len(currentData), promised, inMessage,
                         behaves)
    <2>1. /\ Collected
          /\ OnPath(stream, Len(received) + 1, Len(currentData), promised, inMessage, behaves)
      BY <1>3, <1>4, <1>6 DEF Follows
    <2>2. ~IsData(Head(stream)) /\ ~Bad(Head(stream), inMessage)
      BY <1>1 DEF IsData, Bad, first
    <2>. DEFINE S == Lines \cup StreamFrames
    <2>3. stream \in Seq(S)
      BY DEF WTypes, InputTypes
    <2>. HIDE DEF S
    <2>4. OnPath(Tail(stream), Len(received) + 1, Len(currentData), promised, inMessage,
                 behaves)
      BY <1>3, <2>1, <2>2, <2>3, PlaceIsNat, PathQuietHead
    <2>5. QED
      BY <1>3, <2>1, <2>4
  <1>7. QED
    BY <1>1, <1>3, <1>4, <1>5, <1>6 DEF Delivered, Follows, Collected

(* The first frame of the stream, if it is one that keeps to the protocol, *)
(* is the next fragment of the message that the parser puts together.      *)
LEMMA NextFragment ==
    ASSUME SInv, WTypes, CInv, SettledInv, MInv, DataFrame, ~misled, state = "Connected"
    PROVE  LET m == Len(received) + 1
               p == Len(currentData)
           IN  /\ Belongs(promised, inMessage, first, m, p)
               /\ OnPath(stream', IF first.fin THEN m + 1 ELSE m,
                         IF first.fin THEN 0 ELSE p + 1, promised, inMessage, behaves)
  <1>. DEFINE m == Len(received) + 1
              p == Len(currentData)
              S == Lines \cup StreamFrames
  <1>1. /\ ReadBody /\ first.ok /\ first.op \in {"text", "binary", "cont"}
        /\ (first.op = "cont") = continuation
    BY DEF DataFrame, Carries
  <1>2. Busy
    BY ParsesWhenBusy DEF processDataV4
  <1>3. stream # << >> /\ stream' = Tail(stream)
    BY <1>1, <1>2, ParsedWhenOpen
  <1>4. /\ Delivered /\ Collected
        /\ OnPath(stream, m, p, promised, inMessage, behaves)
    BY <1>3 DEF MInv, Follows
  <1>5. stream \in Seq(S) /\ m \in Nat /\ p \in Nat /\ behaves \in BOOLEAN
        /\ inMessage \in Seq(Parts)
    BY PlaceIsNat DEF WTypes, InputTypes
  <1>6. (first.op = "cont") <=> (p > 0)
    <2>1. continuation = (p > 0)
      BY <1>4 DEF Collected
    <2>2. QED
      BY <1>1, <2>1, Zenon
  <1>. HIDE DEF m, p, S
  <1>7. \/ p = Len(inMessage) /\ Bad(first, inMessage)
        \/ \E m2, p2 \in Nat : /\ Moves(promised, inMessage, first, m, p, m2, p2)
                               /\ OnPath(Tail(stream), m2, p2, promised, inMessage, behaves)
    BY <1>3, <1>4, <1>5, PathHead DEF first
  <1>8. ~(p = Len(inMessage) /\ Bad(first, inMessage))
    BY <1>1, <1>5, <1>6 DEF Bad
  <1>9. PICK m2 \in Nat, p2 \in Nat :
           /\ Moves(promised, inMessage, first, m, p, m2, p2)
           /\ OnPath(Tail(stream), m2, p2, promised, inMessage, behaves)
    BY <1>7, <1>8
  <1>10. IsData(first)
    BY <1>1 DEF IsData
  <1>11. /\ Belongs(promised, inMessage, first, m, p)
         /\ m2 = (IF first.fin THEN m + 1 ELSE m) /\ p2 = (IF first.fin THEN 0 ELSE p + 1)
    BY <1>9, <1>10 DEF Moves
  <1>12. QED
    BY <1>3, <1>9, <1>11 DEF m, p

(* The last fragment: what is delivered is what was promised.              *)
LEMMA LastFragment ==
    ASSUME SInv, WTypes, CInv, SettledInv, MInv, DataFrame, ~misled, state = "Connected",
           first.fin
    PROVE  Delivered' /\ Follows'
  <1>. DEFINE m == Len(received) + 1
              p == Len(currentData)
              data == Append(currentData, first.id)
              message == [op |-> DataOpcode(first), data |-> data]
  <1>1. /\ ReadBody /\ first.ok /\ first.op \in {"text", "binary", "cont"}
        /\ currentDataOpcode' = DataOpcode(first) /\ continuation' = ~first.fin
        /\ HandleData(first, data) /\ UNCHANGED state
    BY DEF DataFrame, Carries
  <1>2. /\ received' = Append(received, message) /\ currentData' = << >>
        /\ continuation' = FALSE
    BY <1>1 DEF HandleData
  <1>3. Busy
    BY ParsesWhenBusy DEF processDataV4
  <1>4. /\ stream # << >> /\ ~IsLine(first)
        /\ UNCHANGED <<promised, inMessage, behaves>>
    BY <1>1, <1>3, ParsedWhenOpen DEF server, ReadBody, Parsing
  <1>5. Delivered /\ Collected
    BY <1>4 DEF MInv, Follows
  <1>6. /\ Belongs(promised, inMessage, first, m, p)
        /\ OnPath(stream', m + 1, 0, promised, inMessage, behaves)
    BY NextFragment
  <1>7. /\ Len(received) \in Nat /\ p \in Nat /\ Len(promised) \in Nat
        /\ promised \in Messages /\ received \in Messages /\ currentData \in Seq(Nat)
        /\ inMessage \in Seq(Parts)
    BY PlaceIsNat DEF WTypes, ProgramTypes, ParserTypes
  <1>8. first.id \in Nat /\ first.fin = TRUE
    BY <1>4, FirstTyped DEF WTypes, StreamFrames
  <1>9. m \in 1 .. Len(promised) /\ p + 1 = Len(promised[m].data)
    <2>1. /\ first.fin = (m <= Len(promised) /\ p + 1 = SizeOf(promised, inMessage, m))
          /\ m \in 1 .. Len(promised) + 1
      BY <1>6 DEF Belongs
    <2>2. m <= Len(promised) /\ p + 1 = SizeOf(promised, inMessage, m)
      BY <1>8, <2>1, Zenon
    <2>3. QED
      BY <1>7, <2>1, <2>2 DEF SizeOf
  <1>10. promised[m] \in Wholes
    <2>1. promised \in Seq(Wholes)
      BY <1>7 DEF Messages, Wholes
    <2>2. QED
      BY <1>9, <2>1
  <1>11. promised[m].data = data
    <2>1. promised[m].data \in Seq(Nat)
      BY <1>10 DEF Wholes
    <2>2. /\ data \in Seq(Nat) /\ Len(data) = p + 1 /\ data[p + 1] = first.id
          /\ \A j \in 1 .. p : data[j] = currentData[j]
      BY <1>7, <1>8
    <2>3. \A j \in 1 .. p : currentData[j] = promised[m].data[j]
      BY <1>5, <1>9 DEF Collected, Fragment
    <2>4. promised[m].data[p + 1] = first.id
      BY <1>6, <1>9 DEF Belongs, Fragment
    <2>. HIDE DEF m, p, data
    <2>5. \A j \in 1 .. p + 1 : data[j] = promised[m].data[j]
      BY SMTT(30), <1>7, <2>2, <2>3, <2>4
    <2>6. QED
      BY SMTT(30), <1>7, <1>9, <2>1, <2>2, <2>5
  <1>12. promised[m].op = DataOpcode(first)
    <2>1. CASE p > 0
      <3>1. currentDataOpcode = OpcodeOf(promised, inMessage, m)
        BY <1>5, <2>1 DEF Collected
      <3>2. first.op = "cont"
        BY <1>6, <2>1 DEF Belongs
      <3>3. QED
        BY <1>9, <3>1, <3>2 DEF DataOpcode, OpcodeOf
    <2>2. CASE p = 0
      <3>1. OpcodeOf(promised, inMessage, m) = first.op
        BY <1>6, <2>2 DEF Belongs
      <3>2. first.op # "cont"
        BY <1>6, <2>2 DEF Belongs
      <3>3. QED
        BY <1>9, <3>1, <3>2 DEF DataOpcode, OpcodeOf
    <2>3. QED
      BY <1>7, <2>1, <2>2
  <1>13. promised[m] = message
    BY <1>10, <1>11, <1>12 DEF Wholes
  <1>14. message \in Wholes
    BY <1>10, <1>13
  <1>. HIDE DEF message, data
  <1>15. /\ Len(received') = m /\ received'[m] = message
         /\ \A k \in 1 .. Len(received) : received'[k] = received[k]
    BY <1>2, <1>7, <1>14, MessageAppended
  <1>16. Delivered'
    <2>1. m <= Len(promised) /\ m = Len(received) + 1
      BY <1>7, <1>9
    <2>2. \A k \in 1 .. Len(received) : received[k] = promised[k]
      BY <1>5 DEF Delivered
    <2>. HIDE DEF m
    <2>3. ASSUME NEW k \in 1 .. m
          PROVE  received'[k] = promised[k]
      <3>1. CASE k = m
        BY <1>13, <1>15, <3>1
      <3>2. CASE k # m
        <4>1. k \in 1 .. Len(received)
          BY <1>7, <2>1, <3>2
        <4>2. QED
          BY <1>15, <2>2, <4>1
      <3>3. QED
        BY <3>1, <3>2
    <2>4. QED
      BY <1>4, <1>15, <2>1, <2>3 DEF Delivered
  <1>17. Collected'
    <2>1. Len(currentData') = 0
      BY <1>2
    <2>2. SizeOf(promised', inMessage', Len(received') + 1) \in Nat
      <3>1. Len(received') + 1 \in Nat \ {0}
        BY <1>7, <1>15
      <3>2. QED
        BY <1>4, <1>7, <3>1, SizeIsNat
    <2>3. /\ Len(currentData') <= SizeOf(promised', inMessage', Len(received') + 1)
          /\ 1 .. Len(currentData') = {}
          /\ ~(Len(currentData') > 0)
      BY <2>1, <2>2
    <2>4. (Len(currentData') > 0) = FALSE
      BY <2>3
    <2>. SUFFICES /\ Len(currentData') <= SizeOf(promised', inMessage', Len(received') + 1)
                  /\ \A j \in 1 .. Len(currentData') : FALSE
                  /\ continuation' = (Len(currentData') > 0)
                  /\ ~(Len(currentData') > 0)
      BY DEF Collected
    <2>5. QED
      BY <1>2, <2>3, <2>4, Zenon
  <1>18. OnPath(stream', Len(received') + 1, Len(currentData'), promised', inMessage', behaves')
    <2>1. Len(received') + 1 = m + 1 /\ Len(currentData') = 0
      BY <1>2, <1>15
    <2>2. QED
      BY <1>4, <1>6, <2>1
  <1>19. QED
    BY <1>16, <1>17, <1>18 DEF Follows

(* Another one is collected.                                               *)
LEMMA OneMoreFragment ==
    ASSUME SInv, WTypes, CInv, SettledInv, MInv, DataFrame, ~misled, state = "Connected",
           ~first.fin
    PROVE  Delivered' /\ Follows'
  <1>. DEFINE m == Len(received) + 1
              p == Len(currentData)
              data == Append(currentData, first.id)
  <1>1. /\ ReadBody /\ first.ok /\ first.op \in {"text", "binary", "cont"}
        /\ currentDataOpcode' = DataOpcode(first) /\ continuation' = TRUE
        /\ currentData' = data /\ UNCHANGED <<state, received>>
    BY DEF DataFrame, Carries
  <1>2. Busy
    BY ParsesWhenBusy DEF processDataV4
  <1>3. /\ stream # << >> /\ ~IsLine(first)
        /\ UNCHANGED <<promised, inMessage, behaves>>
    BY <1>1, <1>2, ParsedWhenOpen DEF server, ReadBody, Parsing
  <1>4. Delivered /\ Collected
    BY <1>3 DEF MInv, Follows
  <1>5. /\ Belongs(promised, inMessage, first, m, p)
        /\ OnPath(stream', m, p + 1, promised, inMessage, behaves)
    BY NextFragment
  <1>6. /\ Len(received) \in Nat /\ p \in Nat /\ m \in Nat \ {0}
        /\ promised \in Messages /\ currentData \in Seq(Nat) /\ inMessage \in Seq(Parts)
    BY PlaceIsNat DEF WTypes, ParserTypes
  <1>7. first.id \in Nat
    BY <1>3, FirstTyped DEF WTypes, StreamFrames
  <1>8. /\ Len(data) = p + 1 /\ data[p + 1] = first.id
        /\ \A j \in 1 .. p : data[j] = currentData[j]
    BY <1>6, <1>7
  <1>9. SizeOf(promised, inMessage, m) \in Nat
    BY <1>6, SizeIsNat
  <1>10. DataOpcode(first) = OpcodeOf(promised, inMessage, m)
    <2>1. CASE p > 0
      <3>1. currentDataOpcode = OpcodeOf(promised, inMessage, m)
        BY <1>4, <2>1 DEF Collected
      <3>2. first.op = "cont"
        BY <1>5, <2>1 DEF Belongs
      <3>3. QED
        BY <3>1, <3>2 DEF DataOpcode
    <2>2. CASE p = 0
      <3>1. OpcodeOf(promised, inMessage, m) = first.op
        BY <1>5, <2>2 DEF Belongs
      <3>2. first.op # "cont"
        BY <1>5, <2>2 DEF Belongs
      <3>3. QED
        BY <3>1, <3>2 DEF DataOpcode
    <2>3. QED
      BY <1>6, <2>1, <2>2
  <1>11. /\ p + 1 <= SizeOf(promised, inMessage, m)
         /\ Fragment(promised, inMessage, m, p + 1) = first.id
    BY <1>5, <1>6, <1>9 DEF Belongs
  <1>12. \A j \in 1 .. p : currentData[j] = Fragment(promised, inMessage, m, j)
    BY <1>4 DEF Collected
  <1>. HIDE DEF m, p, data
  <1>13. \A j \in 1 .. p + 1 : data[j] = Fragment(promised, inMessage, m, j)
    BY <1>6, <1>8, <1>11, <1>12
  <1>14. (Len(data) > 0) = TRUE
    BY <1>6, <1>8
  <1>15. /\ Len(data) <= SizeOf(promised, inMessage, m)
         /\ \A j \in 1 .. Len(data) : data[j] = Fragment(promised, inMessage, m, j)
    BY <1>8, <1>11, <1>13
  <1>16. Collected'
    <2>1. Len(received') + 1 = m
      BY <1>1 DEF m
    <2>2. QED
      BY <1>1, <1>3, <1>10, <1>14, <1>15, <2>1, Zenon DEF Collected
  <1>17. OnPath(stream', Len(received') + 1, Len(currentData'), promised', inMessage', behaves')
    BY <1>1, <1>3, <1>5, <1>8 DEF m
  <1>18. QED
    BY <1>1, <1>3, <1>4, <1>16, <1>17 DEF Follows, Delivered

LEMMA DataFollows ==
    ASSUME SInv, WTypes, CInv, SettledInv, MInv, DataFrame, ~misled
    PROVE  MInv'
  <1>1. ReadBody /\ UNCHANGED state
        /\ (state = "Closing" => UNCHANGED received)
    BY DEF DataFrame, Carries, HandleData
  <1>2. Busy
    BY ParsesWhenBusy DEF processDataV4
  <1>3. state \in {"Connected", "Closing"} /\ UNCHANGED <<promised, misled>>
    BY <1>1, <1>2, ParsedWhenOpen DEF server
  <1>4. CASE state = "Closing"
    BY <1>1, <1>3, <1>4, NoLongerFollows
  <1>5. CASE state = "Connected"
    BY <1>3, <1>5, LastFragment, OneMoreFragment DEF MInv
  <1>6. QED
    BY <1>3, <1>4, <1>5
-----------------------------------------------------------------------------
LEMMA MessagesInit == Init => MInv
  <1>. SUFFICES ASSUME Init PROVE MInv
    OBVIOUS
  <1>1. state = "Unconnected" /\ received = << >>
    BY Zenon DEF Init
  <1>2. promised = << >>
    BY Zenon DEF Init
  <1>3. QED
    BY <1>1, <1>2 DEF MInv, Delivered, Follows

(* Every step keeps the path.                                              *)
THEOREM MessagesStep ==
    MInv /\ SettledInv /\ SInv /\ WTypes /\ CInv /\ [Next]_vars => MInv'
  <1>. SUFFICES ASSUME MInv, SettledInv, SInv, WTypes, CInv, [Next]_vars
                PROVE  MInv'
    OBVIOUS
  <1>1. WTypes'
    BY TypesStep
  <1>2. CASE connectToHost
    BY <1>2, ConnectFollows
  <1>3. CASE disconnectFromHost
    <2>1. state # "Unconnected" /\ Close(closingHandshakeReceived)
          /\ UNCHANGED <<received, promised, misled>>
      BY <1>3 DEF disconnectFromHost, program, server
    <2>2. state' \notin {"Connecting", "Connected"}
      BY <2>1, ClosedState
    <2>3. QED
      BY <2>1, <2>2, NoLongerFollows
  <1>4. CASE abort \/ TcpLost \/ TcpFlushed \/ ServerHangsUp \/ DeleteOld
    <2>1. state' = "Unconnected" /\ UNCHANGED <<received, promised, misled>>
      BY <1>4 DEF abort, TcpLost, TcpFlushed, ServerHangsUp, TcpEnds, TcpAborted,
                  DeleteOld, TcpUnconnected, server, program
    <2>2. QED
      BY <2>1, NoLongerFollows
  <1>5. CASE \E opcode \in {"text", "binary"}, n \in Lengths : internalWrite(opcode, n)
    BY <1>5, StillFollows DEF internalWrite, input, server, parser
  <1>6. CASE Server
    <2>1. CASE \E answer \in Answers : ServerAnswers(answer)
      BY <2>1, AnswerFollows
    <2>2. CASE \E k \in FrameMenu : ServerSends(k)
      BY <1>1, <2>2, SendFollows
    <2>3. CASE ServerCloses
      <3>. DEFINE f == [op |-> "close", fin |-> TRUE, ok |-> TRUE, n |-> 0,
                        masked |-> FALSE, id |-> 0]
      <3>1. f \in Lines \cup StreamFrames /\ ~IsData(f)
        BY DEF StreamFrames, Ops, IsData
      <3>2. /\ stream' = Append(stream, f)
            /\ UNCHANGED <<received, currentData, continuation, currentDataOpcode, promised,
                           inMessage, behaves, misled, reading, state>>
        BY <2>3 DEF ServerCloses, program, parser
      <3>. HIDE DEF f
      <3>3. QED
        BY <3>1, <3>2, QuietFollows
    <2>4. QED
      BY <1>6, <2>1, <2>2, <2>3 DEF Server
  <1>7. CASE onEncrypted
    BY <1>7, StillFollows DEF onEncrypted, input, program, parser
  <1>8. CASE \E bytes \in 1 .. transit : Arrives(bytes)
    BY <1>8, StillFollows DEF Arrives, program, server, parser
  <1>9. CASE processHandshake
    BY <1>9, HandshakeFollows
  <1>10. CASE HeaderPending \/ PayloadLengthPending \/ MaskPending
    <2>1. UNCHANGED <<stream, received, promised, inMessage, behaves, misled, currentData,
                      continuation, currentDataOpcode, state>>
      BY <1>10 DEF HeaderPending, PayloadLengthPending, MaskPending, Parsing, Advance,
                   program, server
    <2>2. QED
      BY <2>1, StillFollows
  <1>11. CASE (InvalidFrame \/ CloseFrame \/ MisplacedFrame) /\ ~misled
    <2>1. /\ ReadBody /\ UNCHANGED received
          /\ \E handshakeReceived \in BOOLEAN : Close(handshakeReceived)
      BY <1>11 DEF InvalidFrame, CloseFrame, MisplacedFrame, Invalid, Closes, Misplaced, WTypes,
                  FlagTypes
    <2>2. Busy
      BY <1>11, ParsesWhenBusy DEF processDataV4
    <2>3. state \in {"Connected", "Closing"} /\ UNCHANGED <<promised, misled>>
      BY <1>11, <2>1, <2>2, ParsedWhenOpen DEF server
    <2>4. state' \notin {"Connecting", "Connected"}
      BY <2>1, <2>3, ClosedState
    <2>5. QED
      BY <2>1, <2>3, <2>4, NoLongerFollows
  <1>12. CASE PingFrame /\ ~misled
    BY <1>12, PingFollows
  <1>13. CASE DataFrame /\ ~misled
    BY <1>13, DataFollows
  <1>14. ASSUME misled, UNCHANGED misled
         PROVE  MInv'
    BY <1>14 DEF MInv
  <1>15. CASE /\ misled
              /\ InvalidFrame \/ CloseFrame \/ PingFrame \/ MisplacedFrame \/ DataFrame
    <2>1. UNCHANGED misled
      BY <1>15 DEF InvalidFrame, CloseFrame, PingFrame, MisplacedFrame, DataFrame, ReadBody
    <2>2. QED
      BY <1>14, <1>15, <2>1
  <1>16. CASE MisreadFrame \/ MisreadWaits
    <2>1. reading \in {"Lost", "Rest"} /\ UNCHANGED misled
      BY <1>16 DEF MisreadFrame, Misread, MisreadWaits, Parsing
    <2>2. QED
      BY <1>14, <2>1 DEF SettledInv, Placed
  <1>17. CASE AnswerAsFrames
    BY <1>17 DEF AnswerAsFrames, MInv
  <1>18. CASE UNCHANGED vars
    BY <1>18, StillFollows DEF vars, input, program, server, parser
  <1>19. QED
    BY <1>2, <1>3, <1>4, <1>5, <1>6, <1>7, <1>8, <1>9, <1>10, <1>11, <1>12, <1>13, <1>15,
       <1>16, <1>17, <1>18
    DEF Next, Program, Network, processDataV4

(* The path's end gives the rest: a connection on which nothing is left to *)
(* read has the parser where the server stands.                            *)
LEMMA PathSays ==
    ASSUME WTypes, MInv
    PROVE  MessagesIntact
  <1>. SUFFICES ASSUME ~misled
                PROVE  /\ IsPrefix(received, promised)
                       /\ behaves /\ state = "Connected" /\ stream = << >>
                             => received = promised
    BY DEF MessagesIntact
  <1>1. Delivered /\ Follows
    BY DEF MInv
  <1>2. received \in Seq(Wholes) /\ promised \in Seq(Wholes)
    BY DEF WTypes, ProgramTypes, ServerTypes, Messages, Wholes
  <1>3. /\ Len(received) <= Len(promised)
        /\ \A k \in 1 .. Len(received) : received[k] = promised[k]
    BY <1>1 DEF Delivered
  <1>4. IsPrefix(received, promised)
    BY <1>2, <1>3 DEF IsPrefix
  <1>5. ASSUME behaves, state = "Connected", stream = << >>
        PROVE  received = promised
    <2>1. OnPath(<< >>, Len(received) + 1, Len(currentData), promised, inMessage, TRUE)
      BY <1>1, <1>5 DEF Follows
    <2>2. PICK e \in 1 .. Len(<< >>) + 1 : \E at, part \in [1 .. e -> Nat] :
             /\ at[1] = Len(received) + 1
             /\ Path(<< >>, e, at, part, promised, inMessage)
             /\ PathEnd(<< >>, e, inMessage, TRUE)
      BY <2>1, Zenon DEF OnPath
    <2>3. e = 1
      BY <2>2 DEF PathEnd
    <2>4. Len(promised) + 1 = Len(received) + 1
      BY <2>2, <2>3 DEF Path
    <2>5. Len(received) = Len(promised)
      BY <1>2, <2>4
    <2>6. QED
      BY <1>2, <1>3, <2>5
  <1>6. QED
    BY <1>4, <1>5

(* The messages handed to the program are those that the server completed, *)
(* whole and in order, and none is missing once all bytes are read,        *)
(* however TCP divides the frames and whatever frames and messages there   *)
(* are (processDataV4, handleData).                                        *)
THEOREM MessagesCorrect == Spec => []MessagesIntact
  <1>1. WTypes /\ MInv => MessagesIntact
    BY PathSays
  <1>2. QED
    BY SignalsInit, SignalsStep, TypesInit, TypesStep, ClosingInit, ClosingStep,
       SettledInit, SettledStep, MessagesInit, MessagesStep, <1>1, PTL DEF Spec
-----------------------------------------------------------------------------
(* Induction over the natural numbers, by sets: none is the least one that *)
(* is left out.                                                            *)
LEMMA FromZero ==
    ASSUME NEW S, S \subseteq Nat, 0 \in S, \A n \in S : n + 1 \in S
    PROVE  S = Nat
  <1>. DEFINE T == Nat \ S
  <1>1. ASSUME T # {} PROVE FALSE
    <2>1. PICK x \in T : \A y \in T : ~(<<y, x>> \in OpToRel(<, Nat))
      <3>. HIDE DEF T
      <3>1. T \subseteq Nat
        BY DEF T
      <3>2. QED
        BY <3>1, <1>1, NatLessThanWellFounded, WFMin, Zenon
    <2>2. \A y \in T : ~(y < x)
      BY <2>1 DEF OpToRel
    <2>3. x # 0 /\ x - 1 \in Nat
      OBVIOUS
    <2>4. x - 1 \notin T
      BY <2>2, <2>3
    <2>5. (x - 1) + 1 \in S
      BY <2>3, <2>4
    <2>6. QED
      BY <2>5
  <1>2. QED
    BY <1>1

(* PutTogether is a recursive function.                                    *)
Building(g, items, n) ==
    g = [i \in 0 .. n |-> IF i = 0 THEN << >> ELSE Receive(g[i - 1], items[i])]

LEMMA CanBuild ==
    ASSUME NEW items, NEW n \in Nat
    PROVE  \E g : Building(g, items, n)
  <1>. DEFINE S == {k \in Nat : \E g : Building(g, items, k)}
  <1>1. 0 \in S
    <2>. DEFINE g == [i \in 0 .. 0 |-> << >>]
    <2>1. g = [i \in 0 .. 0 |-> IF i = 0 THEN << >> ELSE Receive(g[i - 1], items[i])]
      OBVIOUS
    <2>2. QED
      BY <2>1 DEF Building
  <1>2. ASSUME NEW k \in S PROVE k + 1 \in S
    <2>1. PICK g : Building(g, items, k)
      OBVIOUS
    <2>. DEFINE h == [i \in 0 .. k + 1 |->
                         IF i = k + 1 THEN Receive(g[k], items[k + 1]) ELSE g[i]]
    <2>2. k \in Nat
      OBVIOUS
    <2>3. \A i \in 0 .. k : g[i] = IF i = 0 THEN << >> ELSE Receive(g[i - 1], items[i])
      BY <2>1, Zenon DEF Building
    <2>4. ASSUME NEW i \in 0 .. k + 1
          PROVE  h[i] = IF i = 0 THEN << >> ELSE Receive(h[i - 1], items[i])
      <3>1. CASE i = k + 1
        <4>1. i # 0 /\ i - 1 = k /\ k \in 0 .. k + 1 /\ k # k + 1
          BY <2>2, <3>1
        <4>2. h[i] = Receive(g[k], items[k + 1]) /\ h[k] = g[k]
          BY <3>1, <4>1
        <4>3. QED
          BY <3>1, <4>1, <4>2, Zenon
      <3>2. CASE i # k + 1
        <4>1. i \in 0 .. k
          BY <2>2, <3>2
        <4>2. h[i] = g[i]
          BY <3>2
        <4>3. CASE i = 0
          BY <2>3, <4>1, <4>2, <4>3, Zenon
        <4>4. CASE i # 0
          <5>1. i - 1 \in 0 .. k + 1 /\ i - 1 # k + 1
            BY <2>2, <4>1, <4>4
          <5>2. h[i - 1] = g[i - 1]
            BY <5>1
          <5>3. QED
            BY <2>3, <4>1, <4>2, <4>4, <5>2, Zenon
        <4>5. QED
          BY <4>3, <4>4
      <3>3. QED
        BY <3>1, <3>2
    <2>5. h = [i \in 0 .. k + 1 |-> h[i]]
      OBVIOUS
    <2>. HIDE DEF h
    <2>6. Building(h, items, k + 1)
      BY <2>4, <2>5, Zenon DEF Building
    <2>7. QED
      BY <2>2, <2>6
  <1>3. S = Nat
    <2>1. S \subseteq Nat
      OBVIOUS
    <2>. HIDE DEF S
    <2>2. QED
      BY <1>1, <1>2, <2>1, FromZero
  <1>4. QED
    BY <1>3

(* The messages after each frame of a sequence.                            *)
Steps(g, items, n) ==
    g[0] = << >> /\ \A i \in 1 .. n : g[i] = Receive(g[i - 1], items[i])

Alike(items, others, n) == \A i \in 1 .. n : items[i] = others[i]

LEMMA BuiltByStep ==
    ASSUME NEW items, NEW n \in Nat, Len(items) = n
    PROVE  \E g : Steps(g, items, n) /\ PutTogether(items) = g[n]
  <1>. DEFINE g == CHOOSE g : Building(g, items, Len(items))
  <1>1. Building(g, items, Len(items))
    BY CanBuild
  <1>2. PutTogether(items) = g[Len(items)]
    BY Zenon DEF PutTogether, Building
  <1>. HIDE DEF g
  <1>3. \A i \in 0 .. n : g[i] = IF i = 0 THEN << >> ELSE Receive(g[i - 1], items[i])
    BY <1>1, Zenon DEF Building
  <1>4. 0 \in 0 .. n /\ \A i \in 1 .. n : i \in 0 .. n /\ i # 0
    OBVIOUS
  <1>5. Steps(g, items, n)
    BY <1>3, <1>4, Zenon DEF Steps
  <1>6. QED
    BY <1>2, <1>5, Zenon

(* The same steps on the same frames come to the same messages.            *)
LEMMA SameSteps ==
    ASSUME NEW g, NEW h, NEW items, NEW others, NEW n \in Nat,
           Steps(g, items, n), Steps(h, others, n), Alike(items, others, n)
    PROVE  g[n] = h[n]
  <1>. DEFINE S == {k \in Nat : k <= n => g[k] = h[k]}
  <1>1. 0 \in S
    <2>1. g[0] = h[0]
      BY Zenon DEF Steps
    <2>2. QED
      BY <2>1
  <1>2. ASSUME NEW k \in S PROVE k + 1 \in S
    <2>1. k \in Nat /\ (k <= n => g[k] = h[k])
      OBVIOUS
    <2>2. CASE k + 1 <= n
      <3>1. k <= n /\ k + 1 \in 1 .. n /\ (k + 1) - 1 = k
        BY <2>1, <2>2
      <3>2. g[k + 1] = Receive(g[(k + 1) - 1], items[k + 1])
        BY <3>1, Zenon DEF Steps
      <3>3. h[k + 1] = Receive(h[(k + 1) - 1], others[k + 1])
        BY <3>1, Zenon DEF Steps
      <3>4. items[k + 1] = others[k + 1]
        BY <3>1, Zenon DEF Alike
      <3>5. g[k + 1] = h[k + 1]
        BY <2>1, <3>1, <3>2, <3>3, <3>4, Zenon
      <3>6. QED
        BY <2>1, <3>5
    <2>3. CASE ~(k + 1 <= n)
      BY <2>1, <2>3
    <2>4. QED
      BY <2>2, <2>3
  <1>3. S = Nat
    <2>1. S \subseteq Nat
      OBVIOUS
    <2>. HIDE DEF S
    <2>2. QED
      BY <1>1, <1>2, <2>1, FromZero
  <1>4. n \in S
    BY <1>3
  <1>5. QED
    BY <1>4
-----------------------------------------------------------------------------
(* The parts of a message, joined.                                         *)
LEMMA JoinedParts ==
    ASSUME NEW S, NEW s \in Seq(S), NEW a \in Nat, NEW b \in Nat, a <= b, b <= Len(s)
    PROVE  SubSeq(s, 1, a) \o SubSeq(s, a + 1, b) = SubSeq(s, 1, b)
  <1>. DEFINE left == SubSeq(s, 1, a)
              right == SubSeq(s, a + 1, b)
              all == SubSeq(s, 1, b)
  <1>1. /\ left \in Seq(S) /\ Len(left) = a
        /\ \A i \in 1 .. a : left[i] = s[i]
    OBVIOUS
  <1>2. /\ right \in Seq(S) /\ Len(right) = b - a
        /\ \A i \in 1 .. b - a : right[i] = s[a + i]
    OBVIOUS
  <1>3. /\ all \in Seq(S) /\ Len(all) = b
        /\ \A i \in 1 .. b : all[i] = s[i]
    OBVIOUS
  <1>. HIDE DEF left, right, all
  <1>. DEFINE both == left \o right
  <1>4. /\ both \in Seq(S) /\ Len(both) = b
        /\ \A i \in 1 .. a : both[i] = left[i]
        /\ \A i \in 1 .. b : i > a => both[i] = right[i - a]
    BY <1>1, <1>2
  <1>. HIDE DEF both
  <1>5. ASSUME NEW i \in 1 .. b PROVE both[i] = all[i]
    <2>1. CASE i <= a
      <3>1. i \in 1 .. a
        BY <2>1
      <3>2. QED
        BY <1>1, <1>3, <1>4, <3>1
    <2>2. CASE i > a
      <3>1. i - a \in 1 .. b - a /\ a + (i - a) = i
        BY <2>2
      <3>2. both[i] = right[i - a] /\ right[i - a] = s[a + (i - a)]
        BY <1>2, <1>4, <2>2, <3>1
      <3>3. QED
        BY <1>3, <3>1, <3>2
    <2>3. QED
      BY <2>1, <2>2
  <1>6. both = all
    BY <1>3, <1>4, <1>5
  <1>7. QED
    BY <1>6 DEF both, left, right, all

LEMMA WholeAgain ==
    ASSUME NEW S, NEW s \in Seq(S)
    PROVE  SubSeq(s, 1, Len(s)) = s
  OBVIOUS

LEMMA LastReplaced ==
    ASSUME NEW S, NEW s \in Seq(S), NEW x \in S, NEW y \in S
    PROVE  [Append(s, x) EXCEPT ![Len(s) + 1] = y] = Append(s, y)
  <1>. DEFINE old1 == Append(s, x)
              new1 == Append(s, y)
              n == Len(s) + 1
  <1>1. /\ old1 \in Seq(S) /\ Len(old1) = n /\ new1 \in Seq(S) /\ Len(new1) = n
        /\ n \in Nat /\ new1[n] = y
        /\ \A i \in 1 .. n : i # n => new1[i] = old1[i]
    OBVIOUS
  <1>. HIDE DEF old1, new1, n
  <1>. DEFINE e == [old1 EXCEPT ![n] = y]
  <1>2. /\ e \in Seq(S) /\ Len(e) = n
        /\ \A i \in 1 .. n : e[i] = IF i = n THEN y ELSE old1[i]
    <2>1. old1 \in [1 .. n -> S]
      BY <1>1
    <2>2. /\ e \in [1 .. n -> S]
          /\ \A i \in 1 .. n : e[i] = IF i = n THEN y ELSE old1[i]
      BY <2>1
    <2>3. QED
      BY <1>1, <2>2
  <1>. HIDE DEF e
  <1>3. \A i \in 1 .. n : e[i] = new1[i]
    BY <1>1, <1>2
  <1>4. e = new1
    BY <1>1, <1>2, <1>3
  <1>5. QED
    BY <1>4 DEF e, old1, new1, n

(* The bytes that are in front of the frame i of a message, and behind it. *)
LEMMA FullFrameBytes ==
    ASSUME NEW n \in Nat, NEW m \in Nat, m > 0
    PROVE  n \div m \in Nat /\ n < (n \div m) * m + m
  BY SMT

LEMMA NextMultiple ==
    ASSUME NEW k \in Nat, NEW m \in Nat
    PROVE  (k + 1) * m = k * m + m /\ k * m \in Nat
  BY SMT

-----------------------------------------------------------------------------
(* A message as write() was given it, and one put together from frames.    *)
Texts == [op : {"text", "binary"}, data : Seq(Nat \X Nat)]
Assembled == [op : {"text", "binary"}, fin : BOOLEAN, data : Seq(Nat \X Nat)]

Complete(messages) ==
    [i \in 1 .. Len(messages) |-> Frame(messages[i].op, TRUE, messages[i].data)]

SentInv == written \in Seq(Texts) /\ SentIntact

LEMMA FrameHas ==
    ASSUME NEW frame, NEW op, NEW fin, NEW data, frame = Frame(op, fin, data)
    PROVE  frame.op = op /\ frame.fin = fin /\ frame.data = data
  BY DEF Frame

LEMMA Concatenated ==
    ASSUME NEW S, NEW s \in Seq(S), NEW t \in Seq(S)
    PROVE  /\ s \o t \in Seq(S) /\ Len(s) \in Nat /\ Len(t) \in Nat
           /\ Len(s \o t) = Len(s) + Len(t)
           /\ \A i \in 1 .. Len(s) : (s \o t)[i] = s[i]
           /\ \A i \in 1 .. Len(t) : (s \o t)[Len(s) + i] = t[i]
  OBVIOUS

LEMMA ReceiveFirst ==
    ASSUME NEW messages, NEW frame, frame.op \in {"text", "binary"}
    PROVE  Receive(messages, frame) = Append(messages, frame)
  BY DEF Receive

LEMMA ReceiveNext ==
    ASSUME NEW messages \in Seq(Assembled), NEW opcode \in {"text", "binary"},
           NEW begun \in Seq(Nat \X Nat), NEW more \in Seq(Nat \X Nat), NEW fin \in BOOLEAN,
           NEW open \in BOOLEAN
    PROVE  Receive(Append(messages, Frame(opcode, open, begun)), Frame("cont", fin, more))
           = Append(messages, Frame(opcode, fin, begun \o more))
  <1>. DEFINE x == Frame(opcode, open, begun)
              y == Frame(opcode, fin, begun \o more)
              f == Frame("cont", fin, more)
              all == Append(messages, x)
  <1>1. begun \o more \in Seq(Nat \X Nat)
    OBVIOUS
  <1>2. x \in Assembled /\ y \in Assembled
    BY <1>1 DEF Frame, Assembled
  <1>3. x.op = opcode /\ x.data = begun /\ f.op = "cont" /\ f.fin = fin /\ f.data = more
    BY DEF Frame
  <1>4. y = Frame(x.op, f.fin, x.data \o f.data)
    BY <1>3
  <1>. HIDE DEF x, y, f
  <1>5. Len(all) = Len(messages) + 1 /\ all[Len(messages) + 1] = x
    BY <1>2
  <1>. HIDE DEF all
  <1>6. Receive(all, f)
        = [all EXCEPT ![Len(all)] = Frame(@.op, f.fin, @.data \o f.data)]
    BY <1>3 DEF Receive
  <1>7. [all EXCEPT ![Len(all)] = Frame(@.op, f.fin, @.data \o f.data)]
        = [all EXCEPT ![Len(all)] = Frame(all[Len(all)].op, f.fin, all[Len(all)].data \o f.data)]
    BY Zenon
  <1>8. [all EXCEPT ![Len(all)] = Frame(all[Len(all)].op, f.fin, all[Len(all)].data \o f.data)]
        = [all EXCEPT ![Len(messages) + 1] = y]
    BY <1>4, <1>5, Zenon
  <1>9. [all EXCEPT ![Len(messages) + 1] = y] = Append(messages, y)
    BY <1>2, LastReplaced DEF all
  <1>10. Receive(all, f) = Append(messages, y)
    BY <1>6, <1>7, <1>8, <1>9, Zenon
  <1>11. QED
    BY <1>10 DEF all, x, y, f

Joins(messages, opcode, begun, open, fin, more) ==
    /\ messages \in Seq(Assembled) /\ opcode \in {"text", "binary"}
    /\ begun \in Seq(Nat \X Nat) /\ more \in Seq(Nat \X Nat) /\ open \in BOOLEAN /\ fin \in BOOLEAN

LEMMA ReceiveMore ==
    ASSUME NEW messages, NEW opcode, NEW begun, NEW open, NEW fin, NEW more,
           Joins(messages, opcode, begun, open, fin, more)
    PROVE  Receive(Append(messages, Frame(opcode, open, begun)), Frame("cont", fin, more))
           = Append(messages, Frame(opcode, fin, begun \o more))
  BY ReceiveNext DEF Joins

(* What composeFrames cuts comes together again, and no part is too long.  *)
LEMMA ComposedTogether ==
    ASSUME NEW opcode \in {"text", "binary"}, NEW data \in Seq(Nat \X Nat),
           NEW items \in Seq(SentFrames), PutTogether(items) \in Seq(Assembled),
           composeFrames(opcode, data) \in Seq(SentFrames)
    PROVE  /\ PutTogether(items \o composeFrames(opcode, data))
                 = Append(PutTogether(items), Frame(opcode, TRUE, data))
           /\ \A i \in 1 .. Len(composeFrames(opcode, data)) :
                 Len(composeFrames(opcode, data)[i].data) <= MaxFrameBytes
  <1>. DEFINE full == Len(data) \div MaxFrameBytes
              count == full + 1
              end(k) == IF k = count THEN Len(data) ELSE k * MaxFrameBytes
              last(k) == k + 1 = count
              part(k) == SubSeq(data, k * MaxFrameBytes + 1, end(k + 1))
              composed == composeFrames(opcode, data)
              before == PutTogether(items)
  <1>1. MaxFrameBytes \in Nat /\ MaxFrameBytes > 0 /\ Len(data) \in Nat
    <2>1. MaxFrameBytes \in Nat \ {0}
      BY ConstantsAssumption, Zenon
    <2>2. QED
      BY <2>1
  <1>2. full \in Nat
    BY <1>1, FullFrameBytes
  <1>3. composed = [i \in 1 .. count |->
             Frame(IF i = 1 THEN opcode ELSE "cont", i = count,
                   SubSeq(data, (i - 1) * MaxFrameBytes + 1,
                          IF i = count THEN Len(data) ELSE i * MaxFrameBytes))]
    BY Zenon DEF composeFrames
  <1>4. \A k \in 0 .. full : /\ k * MaxFrameBytes \in Nat /\ k * MaxFrameBytes <= Len(data)
                             /\ (k + 1) * MaxFrameBytes = k * MaxFrameBytes + MaxFrameBytes
    <2>1. SUFFICES ASSUME NEW k \in 0 .. full
                   PROVE  /\ k * MaxFrameBytes \in Nat /\ k * MaxFrameBytes <= Len(data)
                          /\ (k + 1) * MaxFrameBytes = k * MaxFrameBytes + MaxFrameBytes
      OBVIOUS
    <2>2. k \in Nat /\ k <= full
      BY <1>2
    <2>3. QED
      BY <1>1, <2>2, FullFrames, NextMultiple
  <1>5. Len(data) < full * MaxFrameBytes + MaxFrameBytes
    BY <1>1, FullFrameBytes
  <1>. HIDE DEF full
  <1>6. \A k \in 0 .. full :
           /\ k * MaxFrameBytes <= end(k + 1) /\ end(k + 1) <= Len(data) /\ end(k + 1) \in Nat
           /\ end(k + 1) <= k * MaxFrameBytes + MaxFrameBytes
           /\ k < full => end(k + 1) = (k + 1) * MaxFrameBytes
    <2>1. SUFFICES ASSUME NEW k \in 0 .. full
                   PROVE  /\ k * MaxFrameBytes <= end(k + 1) /\ end(k + 1) <= Len(data)
                          /\ end(k + 1) \in Nat
                          /\ end(k + 1) <= k * MaxFrameBytes + MaxFrameBytes
                          /\ k < full => end(k + 1) = (k + 1) * MaxFrameBytes
      OBVIOUS
    <2>2. CASE k = full
      <3>1. end(k + 1) = Len(data)
        BY <2>2
      <3>2. k * MaxFrameBytes \in Nat /\ k * MaxFrameBytes <= Len(data)
        BY <1>4
      <3>3. Len(data) < k * MaxFrameBytes + MaxFrameBytes
        BY <1>5, <2>2
      <3>. HIDE DEF end
      <3>4. QED
        BY <1>1, <1>2, <2>2, <3>1, <3>2, <3>3
    <2>3. CASE k # full
      <3>1. k + 1 \in 0 .. full /\ k + 1 # count
        BY <1>2, <2>3
      <3>2. end(k + 1) = (k + 1) * MaxFrameBytes
        BY <3>1
      <3>3. (k + 1) * MaxFrameBytes \in Nat /\ (k + 1) * MaxFrameBytes <= Len(data)
        BY <1>4, <3>1
      <3>4. /\ k * MaxFrameBytes \in Nat
            /\ (k + 1) * MaxFrameBytes = k * MaxFrameBytes + MaxFrameBytes
        BY <1>4
      <3>. HIDE DEF end
      <3>5. QED
        BY <1>1, <3>2, <3>3, <3>4
    <2>4. QED
      BY <2>2, <2>3
  <1>7. \A k \in 0 .. full :
           composed[k + 1] = Frame(IF k = 0 THEN opcode ELSE "cont", last(k), part(k))
    <2>1. SUFFICES ASSUME NEW k \in 0 .. full
                   PROVE  composed[k + 1] = Frame(IF k = 0 THEN opcode ELSE "cont",
                                                  last(k), part(k))
      OBVIOUS
    <2>2. k + 1 \in 1 .. count /\ (k + 1) - 1 = k /\ (k + 1 = 1 <=> k = 0)
      BY <1>2
    <2>. HIDE DEF composed, count
    <2>3. composed[k + 1] =
             Frame(IF k + 1 = 1 THEN opcode ELSE "cont", k + 1 = count,
                   SubSeq(data, ((k + 1) - 1) * MaxFrameBytes + 1, end(k + 1)))
      BY <1>3, <2>2, Zenon
    <2>4. (IF k + 1 = 1 THEN opcode ELSE "cont") = IF k = 0 THEN opcode ELSE "cont"
      BY <2>2
    <2>. HIDE DEF end
    <2>5. QED
      BY <2>2, <2>3, <2>4, Zenon
  <1>8. Len(composed) = count /\ composed \in Seq(SentFrames)
    BY <1>2, <1>3
  <1>. HIDE DEF composed, end
  <1>9. \A k \in 0 .. full : /\ part(k) \in Seq(Nat \X Nat) /\ Len(part(k)) <= MaxFrameBytes
                             /\ SubSeq(data, 1, end(k + 1)) \in Seq(Nat \X Nat)
    <2>1. SUFFICES ASSUME NEW k \in 0 .. full
                   PROVE  /\ part(k) \in Seq(Nat \X Nat) /\ Len(part(k)) <= MaxFrameBytes
                          /\ SubSeq(data, 1, end(k + 1)) \in Seq(Nat \X Nat)
      OBVIOUS
    <2>. DEFINE a == k * MaxFrameBytes
                b == end(k + 1)
    <2>2. a \in Nat /\ b \in Nat /\ a <= b /\ b <= Len(data) /\ b <= a + MaxFrameBytes
      BY <1>4, <1>6
    <2>. HIDE DEF a, b
    <2>3. SubSeq(data, a + 1, b) \in Seq(Nat \X Nat) /\ Len(SubSeq(data, a + 1, b)) = b - a
      BY <1>1, <2>2
    <2>4. SubSeq(data, 1, b) \in Seq(Nat \X Nat)
      BY <1>1, <2>2
    <2>5. Len(SubSeq(data, a + 1, b)) <= MaxFrameBytes
      BY <1>1, <2>2, <2>3
    <2>6. QED
      BY <2>3, <2>4, <2>5 DEF a, b
  <1>. HIDE DEF part, last
  <1>10. \A i \in 1 .. Len(composed) : Len(composed[i].data) <= MaxFrameBytes
    <2>1. SUFFICES ASSUME NEW i \in 1 .. Len(composed)
                   PROVE  Len(composed[i].data) <= MaxFrameBytes
      OBVIOUS
    <2>2. i - 1 \in 0 .. full /\ (i - 1) + 1 = i
      BY <1>2, <1>8
    <2>3. composed[(i - 1) + 1] = Frame(IF i - 1 = 0 THEN opcode ELSE "cont",
                                        last(i - 1), part(i - 1))
      BY <1>7, <2>2, Zenon
    <2>4. composed[i].data = part(i - 1)
      BY <2>2, <2>3, FrameHas
    <2>5. QED
      BY <1>9, <2>2, <2>4
  <1>. DEFINE longer == items \o composed
              length == Len(items)
  <1>11. /\ length \in Nat /\ Len(longer) = length + count
         /\ \A i \in 1 .. length : longer[i] = items[i]
         /\ \A i \in 1 .. count : longer[length + i] = composed[i]
    <2>1. /\ Len(items \o composed) = Len(items) + Len(composed) /\ Len(items) \in Nat
          /\ \A i \in 1 .. Len(items) : (items \o composed)[i] = items[i]
          /\ \A i \in 1 .. Len(composed) : (items \o composed)[Len(items) + i] = composed[i]
      <3>1. composed \in Seq(SentFrames)
        BY <1>8
      <3>2. QED
        BY <3>1, Concatenated
    <2>2. QED
      BY <1>8, <2>1, Zenon
  <1>. HIDE DEF longer, length
  <1>12. PICK g : Steps(g, items, length) /\ before = g[length]
    BY <1>11, BuiltByStep DEF length
  <1>13. PICK h : Steps(h, longer, length + count)
                  /\ PutTogether(longer) = h[length + count]
    <2>1. length + count \in Nat
      BY <1>2, <1>11
    <2>2. QED
      BY <1>11, <2>1, BuiltByStep
  <1>14. h[length] = before
    <2>1. \A i \in 1 .. length : i \in 1 .. length + count
      BY <1>2, <1>11
    <2>2. Steps(h, longer, length)
      BY <1>13, <2>1, Zenon DEF Steps
    <2>3. Alike(items, longer, length)
      BY <1>11, Zenon DEF Alike
    <2>4. g[length] = h[length]
      BY <1>11, <1>12, <2>2, <2>3, SameSteps
    <2>5. QED
      BY <1>12, <2>4
  <1>15. \A k \in 0 .. full :
            h[length + k + 1] = Receive(h[length + k], composed[k + 1])
    <2>1. SUFFICES ASSUME NEW k \in 0 .. full
                   PROVE  h[length + k + 1] = Receive(h[length + k], composed[k + 1])
      OBVIOUS
    <2>2. /\ length + k + 1 \in 1 .. length + count /\ (length + k + 1) - 1 = length + k
          /\ k + 1 \in 1 .. count /\ length + (k + 1) = length + k + 1
      BY <1>2, <1>11
    <2>3. h[length + k + 1] = Receive(h[(length + k + 1) - 1], longer[length + k + 1])
      BY <1>13, <2>2, Zenon DEF Steps
    <2>4. longer[length + (k + 1)] = composed[k + 1]
      BY <1>11, <2>2, Zenon
    <2>5. QED
      BY <2>2, <2>3, <2>4, Zenon
  <1>. HIDE DEF before
  <1>. DEFINE P(k) == h[length + k + 1] = Append(before, Frame(opcode, last(k),
                                                               SubSeq(data, 1, end(k + 1))))
              S == {k \in Nat : k <= full => P(k)}
  <1>16. 0 \in S
    <2>1. 0 \in 0 .. full /\ length + 0 = length /\ 0 * MaxFrameBytes = 0 /\ 0 + 1 = 1
      BY <1>1, <1>2, <1>11
    <2>2. h[length + 0 + 1] = Receive(h[length + 0], composed[0 + 1])
      BY <1>15, <2>1, Zenon
    <2>3. composed[0 + 1] = Frame(opcode, last(0), SubSeq(data, 0 + 1, end(0 + 1)))
      <3>1. composed[0 + 1] = Frame(IF 0 = 0 THEN opcode ELSE "cont", last(0), part(0))
        BY <1>7, <2>1, Zenon
      <3>2. part(0) = SubSeq(data, 0 + 1, end(0 + 1))
        BY <2>1, Zenon DEF part
      <3>3. QED
        BY <3>1, <3>2, Zenon
    <2>4. composed[0 + 1].op \in {"text", "binary"}
      BY <2>3, FrameHas
    <2>5. Receive(before, composed[0 + 1]) = Append(before, composed[0 + 1])
      BY <2>4, ReceiveFirst
    <2>6. h[length + 0 + 1] = Append(before, composed[0 + 1])
      BY <1>14, <2>1, <2>2, <2>5, Zenon
    <2>7. h[length + 0 + 1] = Append(before, Frame(opcode, last(0),
                                                   SubSeq(data, 1, end(0 + 1))))
      BY <2>1, <2>3, <2>6, Zenon
    <2>8. P(0)
      BY <2>7
    <2>. HIDE DEF P
    <2>9. QED
      BY <2>8
  <1>17. ASSUME NEW k \in S PROVE k + 1 \in S
    <2>1. k \in Nat /\ (k <= full => P(k))
      <3>. HIDE DEF P
      <3>1. QED
        OBVIOUS
    <2>. HIDE DEF S
    <2>2. CASE k + 1 <= full
      <3>1. /\ k \in 0 .. full /\ k < full /\ k <= full /\ k + 1 \in 0 .. full /\ k + 1 # count
            /\ length + (k + 1) = length + k + 1 /\ k + 1 # 0
        <4>1. k \in Nat
          BY <2>1
        <4>2. QED
          BY <1>2, <1>11, <2>2, <4>1
      <3>. DEFINE begun == SubSeq(data, 1, (k + 1) * MaxFrameBytes)
      <3>2. end(k + 1) = (k + 1) * MaxFrameBytes
        BY <1>6, <3>1
      <3>3. h[length + k + 1] = Append(before, Frame(opcode, last(k),
                                                     SubSeq(data, 1, end(k + 1))))
        BY <2>1, <3>1, Zenon
      <3>5. h[length + (k + 1)] = Append(before, Frame(opcode, last(k), begun))
        BY <3>1, <3>2, <3>3, Zenon
      <3>6. composed[(k + 1) + 1] = Frame("cont", last(k + 1), part(k + 1))
        BY <1>7, <3>1, Zenon
      <3>7. h[length + (k + 1) + 1] = Receive(h[length + (k + 1)], composed[(k + 1) + 1])
        BY <1>15, <3>1, Zenon
      <3>8. /\ begun \in Seq(Nat \X Nat) /\ part(k + 1) \in Seq(Nat \X Nat)
            /\ last(k) \in BOOLEAN /\ last(k + 1) \in BOOLEAN
        <4>1. SubSeq(data, 1, end(k + 1)) \in Seq(Nat \X Nat)
          BY <1>9, <3>1, Zenon
        <4>2. part(k + 1) \in Seq(Nat \X Nat)
          BY <1>9, <3>1, Zenon
        <4>3. QED
          BY <3>2, <4>1, <4>2, Zenon DEF last
      <3>9. begun \o part(k + 1) = SubSeq(data, 1, end((k + 1) + 1))
        <4>. DEFINE a == (k + 1) * MaxFrameBytes
                    b == end((k + 1) + 1)
        <4>1. a \in Nat /\ b \in Nat /\ a <= b /\ b <= Len(data)
          BY <1>4, <1>6, <3>1, Zenon
        <4>2. part(k + 1) = SubSeq(data, a + 1, b)
          BY Zenon DEF part
        <4>. HIDE DEF a, b
        <4>3. SubSeq(data, 1, a) \o SubSeq(data, a + 1, b) = SubSeq(data, 1, b)
          BY <4>1, JoinedParts
        <4>4. QED
          BY <4>2, <4>3, Zenon DEF a, b
      <3>. HIDE DEF begun
      <3>10. before \in Seq(Assembled)
        BY DEF before
      <3>11. Receive(Append(before, Frame(opcode, last(k), begun)),
                     Frame("cont", last(k + 1), part(k + 1)))
             = Append(before, Frame(opcode, last(k + 1), begun \o part(k + 1)))
        <4>. DEFINE open == last(k)
                    fin == last(k + 1)
                    more == part(k + 1)
        <4>1. Joins(before, opcode, begun, open, fin, more)
          BY <3>8, <3>10, Zenon DEF Joins
        <4>. HIDE DEF open, fin, more
        <4>2. Receive(Append(before, Frame(opcode, open, begun)), Frame("cont", fin, more))
              = Append(before, Frame(opcode, fin, begun \o more))
          BY <4>1, ReceiveMore, SMT
        <4>3. QED
          BY <4>2, Zenon DEF open, fin, more
      <3>12. h[length + (k + 1) + 1] =
                Append(before, Frame(opcode, last(k + 1),
                                     SubSeq(data, 1, end((k + 1) + 1))))
        BY <3>5, <3>6, <3>7, <3>9, <3>11, Zenon
      <3>13. P(k + 1)
        BY <3>12
      <3>. HIDE DEF P
      <3>14. k + 1 \in Nat
        BY <2>1
      <3>15. QED
        BY <3>13, <3>14 DEF S
    <2>3. CASE ~(k + 1 <= full)
      <3>. HIDE DEF P
      <3>1. QED
        BY <2>1, <2>3 DEF S
    <2>4. QED
      BY <2>2, <2>3
  <1>18. S = Nat
    <2>1. S \subseteq Nat
      OBVIOUS
    <2>. HIDE DEF S
    <2>2. QED
      BY <1>16, <1>17, <2>1, FromZero
  <1>19. h[length + full + 1] = Append(before, Frame(opcode, last(full),
                                                     SubSeq(data, 1, end(full + 1))))
    <2>1. P(full)
      <3>. HIDE DEF P
      <3>1. full \in S
        BY <1>2, <1>18, Zenon
      <3>2. full <= full
        BY <1>2
      <3>3. QED
        BY <3>1, <3>2, Zenon
    <2>2. QED
      BY <2>1
  <1>20. /\ (last(full)) = TRUE /\ end(full + 1) = Len(data)
         /\ length + full + 1 = length + count
    BY <1>2, <1>11 DEF end, last
  <1>21. PutTogether(longer) = Append(before, Frame(opcode, TRUE, data))
    <2>1. SubSeq(data, 1, Len(data)) = data
      BY WholeAgain
    <2>2. QED
      BY <1>13, <1>19, <1>20, <2>1, Zenon
  <1>22. QED
    BY <1>10, <1>21 DEF longer, composed, before

-----------------------------------------------------------------------------
LEMMA NothingTogether == PutTogether(<< >>) = << >>
  <1>1. Len(<< >>) = 0 /\ 0 \in Nat
    OBVIOUS
  <1>2. PICK g : Steps(g, << >>, 0) /\ PutTogether(<< >>) = g[0]
    BY <1>1, BuiltByStep
  <1>3. QED
    BY <1>2 DEF Steps

(* A control frame in between is not one of a message.                     *)
LEMMA QuietTogether ==
    ASSUME NEW items \in Seq(SentFrames), NEW f \in SentFrames, ~IsData(f)
    PROVE  PutTogether(Append(items, f)) = PutTogether(items)
  <1>. DEFINE longer == Append(items, f)
              n == Len(items)
  <1>1. /\ n \in Nat /\ n + 1 \in Nat /\ Len(longer) = n + 1 /\ longer[n + 1] = f
        /\ \A i \in 1 .. n : longer[i] = items[i]
    BY AppendedAt
  <1>. HIDE DEF longer
  <1>2. PICK g : Steps(g, items, n) /\ PutTogether(items) = g[n]
    BY <1>1, BuiltByStep
  <1>3. PICK h : Steps(h, longer, n + 1) /\ PutTogether(longer) = h[n + 1]
    BY <1>1, BuiltByStep
  <1>. HIDE DEF n
  <1>4. g[n] = h[n]
    <2>1. \A i \in 1 .. n : i \in 1 .. n + 1
      BY <1>1
    <2>2. Steps(h, longer, n)
      BY <1>3, <2>1, Zenon DEF Steps
    <2>3. Alike(items, longer, n)
      BY <1>1, Zenon DEF Alike
    <2>4. QED
      BY <1>1, <1>2, <2>2, <2>3, SameSteps
  <1>5. h[n + 1] = Receive(h[n], f)
    <2>1. n + 1 \in 1 .. n + 1 /\ (n + 1) - 1 = n
      BY <1>1
    <2>2. h[n + 1] = Receive(h[(n + 1) - 1], longer[n + 1])
      BY <1>3, <2>1, Zenon DEF Steps
    <2>3. QED
      BY <1>1, <2>1, <2>2, Zenon
  <1>6. Receive(h[n], f) = h[n]
    BY DEF Receive, IsData
  <1>7. QED
    BY <1>2, <1>3, <1>4, <1>5, <1>6 DEF longer

(* The messages of write() are the complete ones.                          *)
LEMMA CompleteTyped ==
    ASSUME NEW messages \in Seq(Texts)
    PROVE  Complete(messages) \in Seq(Assembled)
  <1>. DEFINE whole(i) == Frame(messages[i].op, TRUE, messages[i].data)
  <1>1. ASSUME NEW i \in 1 .. Len(messages)
        PROVE  whole(i) \in Assembled
    <2>1. messages[i] \in Texts
      OBVIOUS
    <2>2. messages[i].op \in {"text", "binary"} /\ messages[i].data \in Seq(Nat \X Nat)
      BY <2>1 DEF Texts
    <2>3. QED
      BY <2>2 DEF Frame, Assembled
  <1>2. Len(messages) \in Nat
    OBVIOUS
  <1>. HIDE DEF whole
  <1>3. [i \in 1 .. Len(messages) |-> whole(i)] \in Seq(Assembled)
    BY <1>1, <1>2
  <1>4. QED
    BY <1>3 DEF Complete, whole

LEMMA OneMoreComplete ==
    ASSUME NEW messages \in Seq(Texts), NEW text \in Texts
    PROVE  Complete(Append(messages, text))
           = Append(Complete(messages), Frame(text.op, TRUE, text.data))
  <1>. DEFINE longer == Append(messages, text)
              n == Len(messages)
              last == Frame(text.op, TRUE, text.data)
              left == Complete(longer)
              right == Append(Complete(messages), last)
  <1>1. /\ n \in Nat /\ Len(longer) = n + 1 /\ longer[n + 1] = text
        /\ \A i \in 1 .. n : longer[i] = messages[i]
        /\ longer \in Seq(Texts)
    BY AppendedAt
  <1>2. last \in Assembled
    BY DEF Frame, Assembled, Texts
  <1>3. Complete(messages) \in Seq(Assembled) /\ left \in Seq(Assembled)
    BY <1>1, CompleteTyped
  <1>. HIDE DEF longer, last
  <1>4. /\ Len(Complete(messages)) = n
        /\ \A i \in 1 .. n : Complete(messages)[i]
                             = Frame(messages[i].op, TRUE, messages[i].data)
    BY <1>1 DEF Complete
  <1>5. /\ Len(left) = n + 1
        /\ \A i \in 1 .. n + 1 : left[i] = Frame(longer[i].op, TRUE, longer[i].data)
    BY <1>1 DEF Complete
  <1>6. /\ right \in Seq(Assembled) /\ Len(right) = n + 1 /\ right[n + 1] = last
        /\ \A i \in 1 .. n : right[i] = Complete(messages)[i]
    BY <1>2, <1>3, <1>4
  <1>. HIDE DEF left, right, n
  <1>7. ASSUME NEW i \in 1 .. n + 1 PROVE left[i] = right[i]
    <2>1. CASE i = n + 1
      BY <1>1, <1>5, <1>6, <2>1 DEF last
    <2>2. CASE i # n + 1
      <3>1. i \in 1 .. n
        BY <1>1, <2>2
      <3>2. QED
        BY <1>1, <1>4, <1>5, <1>6, <3>1
    <2>3. QED
      BY <2>1, <2>2
  <1>8. left = right
    BY <1>1, <1>3, <1>5, <1>6, <1>7
  <1>9. QED
    BY <1>8 DEF left, right, longer, last

LEMMA SentInit == Init => SentInv
  <1>. SUFFICES ASSUME Init PROVE SentInv
    OBVIOUS
  <1>1. sent = << >> /\ written = << >>
    BY Zenon DEF Init
  <1>2. written \in Seq(Texts) /\ Len(sent) = 0
    BY <1>1
  <1>3. Complete(<< >>) = << >>
    BY DEF Complete
  <1>4. PutTogether(sent) = Complete(written)
    BY <1>1, <1>3, NothingTogether
  <1>5. QED
    BY <1>2, <1>4 DEF SentInv, SentIntact, Complete

LEMMA StillSent ==
    ASSUME SentInv, UNCHANGED <<sent, written>>
    PROVE  SentInv'
  BY DEF SentInv, SentIntact

LEMMA QuietSent ==
    ASSUME SentInv, WTypes, UNCHANGED written, NEW f \in SentFrames, ~IsData(f),
           sent' = sent \/ sent' = Append(sent, f)
    PROVE  SentInv'
  <1>1. CASE sent' = sent
    BY <1>1, StillSent
  <1>2. CASE sent' = Append(sent, f)
    <2>1. sent \in Seq(SentFrames)
      BY DEF WTypes, ProgramTypes
    <2>2. PutTogether(sent') = PutTogether(sent)
      BY <1>2, <2>1, QuietTogether
    <2>3. /\ Len(sent') = Len(sent) + 1 /\ Len(sent) \in Nat /\ sent'[Len(sent) + 1] = f
          /\ \A i \in 1 .. Len(sent) : sent'[i] = sent[i]
      BY <1>2, <2>1, AppendedAt
    <2>4. \A i \in 1 .. Len(sent') : IsData(sent'[i]) => Len(sent'[i].data) <= MaxFrameBytes
      <3>1. SUFFICES ASSUME NEW i \in 1 .. Len(sent'), IsData(sent'[i])
                     PROVE  Len(sent'[i].data) <= MaxFrameBytes
        OBVIOUS
      <3>2. i \in 1 .. Len(sent)
        BY <2>3, <3>1
      <3>3. QED
        BY <2>3, <3>1, <3>2, Zenon DEF SentInv, SentIntact
    <2>5. QED
      BY <2>2, <2>4, Zenon DEF SentInv, SentIntact
  <1>3. QED
    BY <1>1, <1>2

LEMMA CloseSent ==
    ASSUME SentInv, WTypes, UNCHANGED written, NEW handshakeReceived, Close(handshakeReceived)
    PROVE  SentInv'
  <1>. DEFINE f == Frame("close", TRUE, << >>)
  <1>1. f \in SentFrames /\ ~IsData(f)
    BY DEF Frame, SentFrames, Ops, IsData
  <1>2. sent' = sent \/ sent' = Append(sent, f)
    BY DEF Close
  <1>. HIDE DEF f
  <1>3. QED
    BY <1>1, <1>2, QuietSent

LEMMA EffectSent ==
    ASSUME SentInv, WTypes, UNCHANGED written, NEW f \in StreamFrames, FrameEffect(f)
    PROVE  SentInv'
  <1>1. CASE Invalid(f)
    BY <1>1, CloseSent DEF Invalid
  <1>2. CASE Closes(f)
    BY <1>2, CloseSent DEF Closes
  <1>3. CASE Misplaced(f)
    BY <1>3, CloseSent DEF Misplaced
  <1>4. CASE Pings(f)
    <2>. DEFINE pong == Frame("pong", TRUE, <<f.id>>)
    <2>1. f.id \in Nat
      BY DEF StreamFrames
    <2>2. pong \in SentFrames /\ ~IsData(pong)
      BY <2>1 DEF Frame, SentFrames, Ops, IsData
    <2>3. sent' = sent \/ sent' = Append(sent, pong)
      BY <1>4 DEF Pings
    <2>. HIDE DEF pong
    <2>4. QED
      BY <2>2, <2>3, QuietSent
  <1>5. CASE Carries(f)
    BY <1>5, StillSent DEF Carries
  <1>6. QED
    BY <1>1, <1>2, <1>3, <1>4, <1>5 DEF FrameEffect

LEMMA WriteSent ==
    ASSUME SentInv, WTypes, NEW opcode \in {"text", "binary"}, NEW n \in Lengths,
           internalWrite(opcode, n)
    PROVE  SentInv'
  <1>. DEFINE data == [i \in 1 .. n |-> <<writes + 1, i>>]
              text == [op |-> opcode, data |-> data]
              composed == composeFrames(opcode, data)
  <1>1. written' = Append(written, text) /\ sent' = sent \o composed
    BY DEF internalWrite
  <1>2. n \in Nat /\ writes + 1 \in Nat
    <2>1. n \in Nat
      BY ConstantsAssumption, Zenon
    <2>2. QED
      BY <2>1 DEF WTypes, ProgramTypes
  <1>3. data \in Seq(Nat \X Nat)
    BY <1>2
  <1>4. composed \in Seq(SentFrames)
    BY <1>2, ComposedTypes
  <1>. HIDE DEF data
  <1>5. text \in Texts /\ text.op = opcode /\ text.data = data
    BY <1>3 DEF Texts
  <1>. HIDE DEF text
  <1>6. sent \in Seq(SentFrames) /\ written \in Seq(Texts)
    BY DEF WTypes, ProgramTypes, SentInv
  <1>7. PutTogether(sent) = Complete(written)
    BY Zenon DEF SentInv, SentIntact, Complete
  <1>8. PutTogether(sent) \in Seq(Assembled)
    BY <1>6, <1>7, CompleteTyped
  <1>9. /\ PutTogether(sent \o composed) = Append(PutTogether(sent), Frame(opcode, TRUE, data))
        /\ \A i \in 1 .. Len(composed) : Len(composed[i].data) <= MaxFrameBytes
    BY <1>3, <1>4, <1>6, <1>8, ComposedTogether
  <1>. HIDE DEF composed
  <1>10. Complete(Append(written, text)) = Append(Complete(written), Frame(opcode, TRUE, data))
    BY <1>5, <1>6, OneMoreComplete
  <1>11. PutTogether(sent') = Complete(written')
    BY <1>1, <1>7, <1>9, <1>10, Zenon
  <1>12. written' \in Seq(Texts)
    BY <1>1, <1>5, <1>6
  <1>13. \A i \in 1 .. Len(sent') : IsData(sent'[i]) => Len(sent'[i].data) <= MaxFrameBytes
    <2>1. /\ Len(sent \o composed) = Len(sent) + Len(composed) /\ Len(sent) \in Nat
          /\ Len(composed) \in Nat
          /\ \A i \in 1 .. Len(sent) : (sent \o composed)[i] = sent[i]
          /\ \A i \in 1 .. Len(composed) : (sent \o composed)[Len(sent) + i] = composed[i]
      BY <1>4, <1>6, Concatenated
    <2>2. SUFFICES ASSUME NEW i \in 1 .. Len(sent'), IsData(sent'[i])
                   PROVE  Len(sent'[i].data) <= MaxFrameBytes
      OBVIOUS
    <2>3. CASE i <= Len(sent)
      <3>1. i \in 1 .. Len(sent)
        BY <2>3
      <3>2. sent'[i] = sent[i]
        BY <1>1, <2>1, <3>1, Zenon
      <3>3. QED
        BY <2>2, <3>1, <3>2, Zenon DEF SentInv, SentIntact
    <2>4. CASE i > Len(sent)
      <3>1. i - Len(sent) \in 1 .. Len(composed) /\ Len(sent) + (i - Len(sent)) = i
        BY <1>1, <2>1, <2>4
      <3>2. sent'[i] = composed[i - Len(sent)]
        BY <1>1, <2>1, <3>1, Zenon
      <3>3. QED
        BY <1>9, <3>1, <3>2, Zenon
    <2>5. QED
      BY <2>1, <2>3, <2>4
  <1>14. QED
    BY <1>11, <1>12, <1>13, Zenon DEF SentInv, SentIntact, Complete

LEMMA ConnectSent ==
    ASSUME connectToHost
    PROVE  SentInv'
  <1>1. sent' = << >> /\ written' = << >>
    BY DEF connectToHost
  <1>2. written' \in Seq(Texts) /\ Len(sent') = 0
    BY <1>1
  <1>3. Complete(<< >>) = << >>
    BY DEF Complete
  <1>4. PutTogether(sent') = Complete(written')
    BY <1>1, <1>3, NothingTogether
  <1>5. QED
    BY <1>2, <1>4 DEF SentInv, SentIntact, Complete

(* Every step keeps what was written.                                      *)
THEOREM SentStep == SentInv /\ WTypes /\ [Next]_vars => SentInv'
  <1>. SUFFICES ASSUME SentInv, WTypes, [Next]_vars
                PROVE  SentInv'
    OBVIOUS
  <1>1. CASE connectToHost
    BY <1>1, ConnectSent
  <1>2. CASE disconnectFromHost
    BY <1>2, CloseSent DEF disconnectFromHost, program
  <1>3. CASE abort \/ TcpLost \/ TcpFlushed \/ ServerHangsUp \/ DeleteOld
    BY <1>3, StillSent
    DEF abort, TcpLost, TcpFlushed, ServerHangsUp, TcpEnds, TcpAborted, DeleteOld, program
  <1>4. CASE \E opcode \in {"text", "binary"}, n \in Lengths : internalWrite(opcode, n)
    BY <1>4, WriteSent
  <1>5. CASE Server
    BY <1>5, StillSent DEF Server, ServerAnswers, ServerSends, ServerCloses, program
  <1>6. CASE onEncrypted
    BY <1>6, StillSent DEF onEncrypted, program
  <1>7. CASE \E bytes \in 1 .. transit : Arrives(bytes)
    BY <1>7, StillSent DEF Arrives, program
  <1>8. CASE processHandshake
    BY <1>8, StillSent
    DEF processHandshake, HandshakePart, HandshakeFails, TcpAborted, HandshakeComplete,
        HandshakeInvalid, program
  <1>9. CASE HeaderPending \/ PayloadLengthPending \/ MaskPending
    BY <1>9, StillSent DEF HeaderPending, PayloadLengthPending, MaskPending, Advance, program
  <1>10. CASE InvalidFrame \/ CloseFrame \/ PingFrame \/ MisplacedFrame \/ DataFrame
    <2>1. ReadBody /\ FrameEffect(first)
      BY <1>10 DEF InvalidFrame, CloseFrame, PingFrame, MisplacedFrame, DataFrame, FrameEffect
    <2>2. first \in StreamFrames /\ UNCHANGED written
      BY <2>1, BodyTyped DEF ReadBody
    <2>3. QED
      BY <2>1, <2>2, EffectSent
  <1>11. CASE MisreadFrame
    <2>1. PICK k \in Misreadings : Misread(k) /\ FrameEffect(FrameOf(k, 0))
      BY <1>11 DEF MisreadFrame, FrameEffect
    <2>2. FrameOf(k, 0) \in StreamFrames /\ UNCHANGED written
      BY <2>1, MisreadingTyped DEF Misread
    <2>3. QED
      BY <2>1, <2>2, EffectSent
  <1>12. CASE MisreadWaits
    BY <1>12, StillSent DEF MisreadWaits, program
  <1>13. CASE AnswerAsFrames
    BY <1>13, CloseSent DEF AnswerAsFrames, program
  <1>14. CASE UNCHANGED vars
    BY <1>14, StillSent DEF vars, program
  <1>15. QED
    BY <1>1, <1>2, <1>3, <1>4, <1>5, <1>6, <1>7, <1>8, <1>9, <1>10, <1>11, <1>12, <1>13,
       <1>14
    DEF Next, Program, Network, processDataV4

(* The frames that composeFrames cuts a message into are none too long and *)
(* come together again to the message, whatever its length, maxBytesPer-   *)
(* Frame, and the control frames in between.                               *)
THEOREM SentCorrect == Spec => []SentIntact
  <1>1. SentInv => SentIntact
    BY DEF SentInv
  <1>2. QED
    BY TypesInit, TypesStep, SentInit, SentStep, <1>1, PTL DEF Spec
-----------------------------------------------------------------------------
(* The channel of messages.  A message is promised by the server's last    *)
(* fragment and handed over by handleData; that it is the right one is     *)
(* what Delivered says of the state behind the step.                       *)
Same == UNCHANGED <<promised, received, misled>>

LEMMA AppendedIsWhole ==
    ASSUME NEW messages \in Messages, NEW whole, Append(messages, whole) \in Messages
    PROVE  whole \in Wholes
  <1>. DEFINE longer == Append(messages, whole)
  <1>1. messages \in Seq(Wholes) /\ longer \in Seq(Wholes)
    BY DEF Messages, Wholes
  <1>2. Len(messages) + 1 \in 1 .. Len(longer) /\ longer[Len(messages) + 1] = whole
    BY <1>1
  <1>. HIDE DEF longer
  <1>3. QED
    BY <1>1, <1>2

LEMMA OneAtATime ==
    ASSUME WTypes, Placed, [Next]_vars
    PROVE  \/ Same
           \/ promised' = << >> /\ received' = << >>
           \/ misled'
           \/ /\ \E message \in Wholes : promised' = Append(promised, message)
              /\ UNCHANGED <<received, misled>>
           \/ /\ \E message \in Wholes : received' = Append(received, message)
              /\ UNCHANGED <<promised, misled>>
  <1>1. WTypes'
    BY TypesStep
  <1>2. CASE connectToHost
    BY <1>2 DEF connectToHost
  <1>3. CASE disconnectFromHost
    BY <1>3, Zenon DEF disconnectFromHost, program, server, Same
  <1>4. CASE abort \/ TcpLost \/ TcpFlushed \/ ServerHangsUp \/ DeleteOld
    BY <1>4 DEF abort, TcpLost, TcpFlushed, ServerHangsUp, TcpEnds, TcpAborted,
                DeleteOld, TcpUnconnected, server, program, Same
  <1>5. CASE \E opcode \in {"text", "binary"}, n \in Lengths : internalWrite(opcode, n)
    BY <1>5 DEF internalWrite, input, server, parser, Same
  <1>6. CASE Server
    <2>1. CASE \E answer \in Answers : ServerAnswers(answer)
      BY <2>1 DEF ServerAnswers, program, parser, Same
    <2>2. CASE \E k \in FrameMenu : ServerSends(k)
      <3>1. PICK k \in FrameMenu : ServerSends(k)
        BY <2>2
      <3>2. UNCHANGED <<received, misled>>
        BY <3>1 DEF ServerSends, program
      <3>. DEFINE message == Append(inMessage, [op |-> k.op, id |-> frames'])
                  whole == [op |-> message[1].op,
                            data |-> [i \in 1 .. Len(message) |-> message[i].id]]
      <3>3. promised' = promised \/ promised' = Append(promised, whole)
        BY <3>1, Zenon DEF ServerSends
      <3>. HIDE DEF whole
      <3>4. CASE promised' = promised
        BY <3>2, <3>4 DEF Same
      <3>5. CASE promised' = Append(promised, whole)
        <4>1. whole \in Wholes
          BY <1>1, <3>5, AppendedIsWhole DEF WTypes, ServerTypes
        <4>2. QED
          BY <3>2, <3>5, <4>1, Zenon
      <3>6. QED
        BY <3>3, <3>4, <3>5
    <2>3. CASE ServerCloses
      BY <2>3 DEF ServerCloses, program, Same
    <2>4. QED
      BY <1>6, <2>1, <2>2, <2>3 DEF Server
  <1>7. CASE onEncrypted
    BY <1>7 DEF onEncrypted, program, server, Same
  <1>8. CASE \E bytes \in 1 .. transit : Arrives(bytes)
    BY <1>8 DEF Arrives, program, server, Same
  <1>9. CASE processHandshake
    <2>1. CASE HandshakePart \/ HandshakeFails
      BY <2>1 DEF HandshakePart, HandshakeFails, TcpAborted, program, server, Same
    <2>2. CASE HandshakeComplete \/ HandshakeInvalid
      <3>1. UNCHANGED <<promised, received>> /\ (UNCHANGED misled \/ misled' = TRUE)
        BY <2>2 DEF HandshakeComplete, HandshakeInvalid, ReadAnswer, program, server
      <3>2. QED
        BY <3>1, Zenon DEF Same
    <2>3. QED
      BY <1>9, <2>1, <2>2 DEF processHandshake
  <1>10. CASE processDataV4 /\ ~processHandshake
    <2>1. CASE HeaderPending \/ PayloadLengthPending \/ MaskPending
      BY <2>1 DEF HeaderPending, PayloadLengthPending, MaskPending, Advance, program,
                  server, Same
    <2>2. CASE InvalidFrame \/ CloseFrame \/ PingFrame \/ MisplacedFrame
      BY <2>2 DEF InvalidFrame, CloseFrame, PingFrame, MisplacedFrame, Invalid, Closes,
                  Pings, Misplaced, ReadBody, server, Same
    <2>3. CASE DataFrame
      <3>1. UNCHANGED <<promised, misled>>
        BY <2>3 DEF DataFrame, ReadBody, server
      <3>. DEFINE whole == [op |-> DataOpcode(first), data |-> Append(currentData, first.id)]
      <3>2. received' = received \/ received' = Append(received, whole)
        BY <2>3, Zenon DEF DataFrame, Carries, HandleData
      <3>. HIDE DEF whole
      <3>3. CASE received' = received
        BY <3>1, <3>3 DEF Same
      <3>4. CASE received' = Append(received, whole)
        <4>1. whole \in Wholes
          BY <1>1, <3>4, AppendedIsWhole DEF WTypes, ProgramTypes
        <4>2. QED
          BY <3>1, <3>4, <4>1, Zenon
      <3>5. QED
        BY <3>2, <3>3, <3>4
    <2>4. CASE AnswerAsFrames
      <3>1. misled' = TRUE
        BY <2>4 DEF AnswerAsFrames
      <3>2. QED
        BY <3>1, Zenon
    <2>5. CASE MisreadFrame
      <3>1. PICK k \in Misreadings : Misread(k)
        BY <2>5 DEF MisreadFrame
      <3>2. reading \in {"Lost", "Rest"} /\ misled' = misled
        BY <3>1 DEF Misread, Parsing
      <3>3. QED
        BY <3>2, Zenon DEF Placed
    <2>6. CASE MisreadWaits
      BY <2>6 DEF MisreadWaits, program, server, Same
    <2>7. QED
      BY <1>10, <2>1, <2>2, <2>3, <2>4, <2>5, <2>6 DEF processDataV4
  <1>11. CASE UNCHANGED vars
    BY <1>11 DEF vars, program, server, Same
  <1>12. QED
    BY <1>2, <1>3, <1>4, <1>5, <1>6, <1>7, <1>8, <1>9, <1>10, <1>11
    DEF Next, Program, Network

(* What is handed over is what the channel holds next.                     *)
LEMMA NextInLine ==
    ASSUME received \in Seq(Wholes), promised \in Seq(Wholes), Delivered',
           UNCHANGED promised, NEW message \in Wholes,
           received' = Append(received, message)
    PROVE  /\ Len(received) < Len(promised)
           /\ received' = Append(received, promised[Len(received) + 1])
  <1>1. Len(received') = Len(received) + 1 /\ received'[Len(received) + 1] = message
    OBVIOUS
  <1>2. Len(received') <= Len(promised) /\ received'[Len(received')] = promised[Len(received')]
    <2>1. Len(received') \in 1 .. Len(received')
      BY <1>1
    <2>2. QED
      BY <2>1, Zenon DEF Delivered
  <1>3. message = promised[Len(received) + 1]
    BY <1>1, <1>2
  <1>4. QED
    BY <1>1, <1>2, <1>3

(* One step of the socket is one of the channel, or none.                  *)
THEOREM ChannelStep ==
    WTypes /\ SettledInv /\ MInv' /\ [Next]_vars
      => [Channel!Next]_<<Promised, Received>>
  <1>. SUFFICES ASSUME WTypes, SettledInv, MInv', [Next]_vars
                PROVE  Channel!Next \/ UNCHANGED <<Promised, Received>>
    BY Zenon
  <1>1. received \in Seq(Wholes) /\ promised \in Seq(Wholes)
    BY DEF WTypes, ProgramTypes, ServerTypes, Messages, Wholes
  <1>2. CASE Same
    BY <1>2 DEF Same, Promised, Received
  <1>3. CASE promised' = << >> /\ received' = << >>
    BY <1>3 DEF Channel!Next, Channel!Reconnect, Promised, Received
  <1>4. CASE misled'
    <2>1. Promised' = << >> /\ Received' = << >>
      BY <1>4 DEF Promised, Received
    <2>2. QED
      BY <2>1, Zenon DEF Channel!Next, Channel!Reconnect
  <1>5. ASSUME ~misled, NEW message \in Wholes, promised' = Append(promised, message),
               UNCHANGED <<received, misled>>
        PROVE  Channel!Next
    <2>1. /\ Len(promised') = Len(promised) + 1
          /\ SubSeq(promised', 1, Len(promised)) = promised
      <3>1. /\ promised' \in Seq(Wholes) /\ Len(promised') = Len(promised) + 1
            /\ \A i \in 1 .. Len(promised) : promised'[i] = promised[i]
        BY <1>1, <1>5
      <3>2. QED
        BY <1>1, <3>1
    <2>2. Promised = promised /\ Promised' = promised' /\ UNCHANGED Received
      BY <1>5 DEF Promised, Received
    <2>3. Channel!Promise
      BY <2>1, <2>2, Zenon DEF Channel!Promise
    <2>4. QED
      BY <2>3 DEF Channel!Next
  <1>6. ASSUME ~misled, NEW message \in Wholes, received' = Append(received, message),
               UNCHANGED <<promised, misled>>
        PROVE  Channel!Next
    <2>1. Delivered'
      BY <1>6 DEF MInv
    <2>2. /\ Len(received) < Len(promised)
          /\ received' = Append(received, promised[Len(received) + 1])
      BY <1>1, <1>6, <2>1, NextInLine
    <2>3. Channel!Deliver
      BY <1>6, <2>2 DEF Channel!Deliver, Promised, Received
    <2>4. QED
      BY <2>3 DEF Channel!Next
  <1>7. \/ Same
        \/ promised' = << >> /\ received' = << >>
        \/ misled'
        \/ /\ \E message \in Wholes : promised' = Append(promised, message)
           /\ UNCHANGED <<received, misled>>
        \/ /\ \E message \in Wholes : received' = Append(received, message)
           /\ UNCHANGED <<promised, misled>>
    BY OneAtATime DEF SettledInv
  <1>8. QED
    BY <1>2, <1>3, <1>4, <1>5, <1>6, <1>7

(* The socket implements the channel of messages that the programs take it *)
(* for, whatever frames, segments, errors and connections there are, but   *)
(* for connections on which the parser is misled, where the channel ends   *)
(* by then: it was not reset when they began, the bytes behind the answer  *)
(* were swallowed, or the answer was parsed as frames.                     *)
THEOREM ImplementsChannel == Spec => IsChannel
  <1>1. Init => Channel!Init
    BY DEF Init, Channel!Init, Promised, Received
  <1>2. QED
    BY <1>1, SignalsInit, SignalsStep, TypesInit, TypesStep, ClosingInit, ClosingStep,
       SettledInit, SettledStep, MessagesInit, MessagesStep, ChannelStep, PTL
    DEF Spec, IsChannel, Channel!Spec
=============================================================================
