------------------------------- MODULE WsServer -------------------------------
(***************************************************************************)
(* The WebSocket server: QWsServer with the QTlsServer under it, and the   *)
(* reading of the client's request by QWsHandshake.                        *)
(*                                                                         *)
(* A request is a sequence of lines, of which each segment brings some,    *)
(* and maybe eight bytes of the next one; behind the empty line a client   *)
(* of the first version of the protocol sends eight bytes more, here two   *)
(* halves.  dataReceived runs for every segment.                           *)
(***************************************************************************)
EXTENDS Integers, Sequences, FiniteSets, SequencesExt

CONSTANTS
    Conns,       \* connections that clients may make
    Requests,    \* what clients send: sequences of Line and "half"
    MaxPending,  \* maxPendingConnections()
    MaxFields    \* fields of a request that has no end: 1000

Fields == {"host", "upgrade", "connection", "version", "key", "keys", "x"}

(* "other" is a first line that is no GET of HTTP 1.1, "bad" a line that   *)
(* is no field, "long" one of more than 1000 characters.                   *)
Line == {"get", "other", "bad", "long", "end"} \cup Fields

ASSUME ServerAssumption ==
    /\ IsFiniteSet(Conns)
    /\ \A r \in Requests :
         /\ r \in Seq(Line \cup {"half"}) /\ r # << >>
         /\ \A i \in 1 .. Len(r) : r[i] = "half" =>
              /\ \E j \in 1 .. i - 1 : r[j] = "end"
              /\ \A j \in i .. Len(r) : r[j] = "half"
    /\ MaxPending \in Nat \ {0} /\ MaxFields \in Nat

VARIABLES
    tls,         \* the server was made for TLS
    listening,
    conn,        \* the connections
    handshakeBuffer,     \* the handshakes, by connection
    pendingConnections,
    signals,     \* newConnection() that the application has not followed up
    taken,       \* sockets that nextPendingConnection returned
    dropped,     \* sockets that did not fit into the queue
    defined      \* FALSE when an empty queue has been asked for its head

queue == <<pendingConnections, signals, taken, dropped, defined>>
vars == <<tls, listening, conn, handshakeBuffer, queue>>

Unborn == [state |-> "none", object |-> "none", request |-> << >>,
           arrived |-> 0, read |-> 0, cut |-> FALSE, damaged |-> FALSE,
           answer |-> "none"]

Init ==
    /\ tls \in BOOLEAN /\ listening = TRUE
    /\ conn = [c \in Conns |-> Unborn]
    /\ handshakeBuffer = << >>
    /\ pendingConnections = << >> /\ signals = 0
    /\ taken = {} /\ dropped = {} /\ defined = TRUE
-----------------------------------------------------------------------------
(* The handshake of one connection: what was read of the request.          *)

NewHandshake ==
    [readStarted |-> FALSE, complete |-> FALSE, fields |-> {}, key3 |-> FALSE]

With(c, handshake) ==
    [d \in DOMAIN handshakeBuffer \cup {c} |->
        IF d = c THEN handshake ELSE handshakeBuffer[d]]

Without(c) ==
    [d \in DOMAIN handshakeBuffer \ {c} |-> handshakeBuffer[d]]

Least(numbers, otherwise) ==
    IF numbers = {} THEN otherwise
    ELSE CHOOSE i \in numbers : \A j \in numbers : i <= j

(* What waits in the socket: whole lines, then bytes without a line end.   *)
Unread(k, read) == SubSeq(k.request, read + 1, k.arrived)

Whole(k) ==
    LET halves == { i \in k.read + 1 .. k.arrived : k.request[i] = "half" }
    IN  SubSeq(k.request, k.read + 1, Least(halves, k.arrived + 1) - 1)

\* Mutant: one line for each call.
FirstLine(lines, started) == IF lines = << >> THEN << >> ELSE <<Head(lines)>>

(* The lines that one call reads: up to the empty line, to one that is too *)
(* long, or to a first line that is not what it should be.                 *)
LinesRead(lines, started) ==
    LET Stops(i) == lines[i] \in {"end", "long"} \/ (i = 1 /\ ~started /\ lines[i] # "get")
    IN  SubSeq(lines, 1, Least({ i \in 1 .. Len(lines) : Stops(i) }, Len(lines)))

\* Mutant: the fields are those of the last segment.
FieldsOfSegment(k, handshake, lines) ==
    { lines[i] : i \in { j \in 1 .. Len(lines) : ~(j = 1 /\ k.damaged) } } \cap Fields

(* fields: a line that lost its beginning is no field.                     *)
FieldsAfter(k, handshake, lines) ==
    handshake.fields \cup
        ({ lines[i] : i \in { j \in 1 .. Len(lines) : ~(j = 1 /\ k.damaged) } } \cap Fields)

\* Mutant: it is not looked whether they are there.
NoBytesCounted(k, lines) == TRUE

(* Eight bytes are left in the socket, whatever they are.                  *)
EightBytes(k, lines) ==
    LET left == Unread(k, k.read + Len(lines))
    IN  \/ left = <<"half", "half">> /\ ~k.cut
        \/ left = << >> /\ k.cut

(* QWsHandshake::read, of so many lines.                                   *)
Read(k, handshake, lines) ==
    LET fields == FieldsAfter(k, handshake, lines)
        complete == handshake.complete \/ Contains(lines, "end")
        refused ==
            \/ Contains(lines, "long")
            \/ lines # << >> /\ ~handshake.readStarted /\ Head(lines) # "get"
            \/ ~complete /\ Cardinality(fields) > MaxFields
        takes == ~refused /\ "keys" \in fields /\ EightBytes(k, lines)
    IN  [refused |-> refused, cut |-> takes /\ k.cut,
         read |-> k.read + Len(lines) + IF takes /\ ~k.cut THEN 2 ELSE 0,
         damaged |-> (k.damaged /\ lines = << >>) \/ (takes /\ k.cut),
         handshake |-> [readStarted |-> handshake.readStarted \/ lines # << >>,
                        complete |-> complete, fields |-> fields,
                        key3 |-> handshake.key3 \/ takes]]

(* QWsHandshake::isValid.                                                  *)
isValid(handshake) ==
    /\ {"host", "upgrade", "connection"} \subseteq handshake.fields
    /\ IF "version" \in handshake.fields THEN "key" \in handshake.fields
       ELSE "keys" \in handshake.fields /\ handshake.key3
-----------------------------------------------------------------------------
(* Connections.                                                            *)

(* newTcpConnection, newTlsConnection: the reading of the request begins.  *)
Begun(c, k) ==
    /\ conn' = [conn EXCEPT ![c] = [k EXCEPT !.state = "handshake", !.object = "tcp"]]
    /\ handshakeBuffer' = With(c, NewHandshake)

NewConnection(c, r) ==
    /\ listening /\ conn[c].state = "none"
    /\ ~tls /\ Begun(c, [Unborn EXCEPT !.request = r])
    /\ UNCHANGED <<tls, listening, queue>>

(* QTlsServer::incomingConnection: the descriptor cannot be set, a file    *)
(* cannot be opened, or TLS begins.                                        *)
IncomingConnection(c, r) ==
    /\ listening /\ conn[c].state = "none"
    /\ tls
    /\ \E new \in { <<"ended", "deleted">>, <<"stuck", "orphan">>,
                    <<"encrypting", "orphan">> } :
         conn' = [conn EXCEPT ![c] = [Unborn EXCEPT !.request = r, !.state = new[1],
                                                    !.object = new[2]]]
    /\ UNCHANGED <<tls, listening, handshakeBuffer, queue>>

TlsSocketEncrypted(c) ==
    /\ conn[c].state = "encrypting"
    /\ Begun(c, conn[c])
    /\ UNCHANGED <<tls, listening, queue>>

\* Mutant: the handshake is not taken out of the buffer.
HandshakeLeft(c) == UNCHANGED handshakeBuffer

(* tcpSocketDisconnected.                                                  *)
HandshakeDeleted(c) == handshakeBuffer' = Without(c)

(* The connection ends: by the client, or closed here and flushed.  Only   *)
(* the socket of a handshake has somebody who deletes it.                  *)
Disconnected(c) ==
    /\ conn[c].state \in {"encrypting", "stuck", "handshake", "closing", "open"}
    /\ IF conn[c].state \in {"handshake", "closing"}
         THEN /\ conn' = [conn EXCEPT ![c].state = "ended", ![c].object = "deleted"]
              /\ HandshakeDeleted(c)
         ELSE /\ conn' = [conn EXCEPT ![c].state = "ended"]
              /\ UNCHANGED handshakeBuffer
    /\ UNCHANGED <<tls, listening, queue>>

\* Mutant: one too many.
AddPendingConnectionToo(c) ==
    IF Len(pendingConnections) <= MaxPending
      THEN pendingConnections' = Append(pendingConnections, c) /\ UNCHANGED dropped
      ELSE dropped' = dropped \cup {c} /\ UNCHANGED pendingConnections

addPendingConnection(c) ==
    IF Len(pendingConnections) < MaxPending
      THEN pendingConnections' = Append(pendingConnections, c) /\ UNCHANGED dropped
      ELSE dropped' = dropped \cup {c} /\ UNCHANGED pendingConnections

(* showErrorAndClose: the connection is closed when the answer is flushed, *)
(* at once or later.                                                       *)
ShowErrorAndClose(c, k) ==
    /\ \/ /\ conn' = [conn EXCEPT ![c] = [k EXCEPT !.state = "closing", !.answer = "400"]]
          /\ handshakeBuffer' = With(c, NewHandshake)
       \/ /\ conn' = [conn EXCEPT ![c] = [k EXCEPT !.state = "ended", !.object = "deleted",
                                                   !.answer = "400"]]
          /\ HandshakeDeleted(c)
    /\ UNCHANGED queue

(* The answer is sent, and a QWsSocket takes the socket over.              *)
Accept(c, k) ==
    /\ conn' = [conn EXCEPT ![c] = [k EXCEPT !.state = "open", !.object = "ws",
                                             !.answer = "101"]]
    /\ handshakeBuffer' = Without(c)
    /\ addPendingConnection(c)
    /\ signals' = signals + 1
    /\ UNCHANGED <<taken, defined>>

dataReceived(c, k) ==
    \E lines \in { LinesRead(Whole(k), handshakeBuffer[c].readStarted) } :
    \E result \in { Read(k, handshakeBuffer[c], lines) } :
    \E after \in { [k EXCEPT !.read = result.read, !.damaged = result.damaged,
                             !.cut = k.cut /\ ~result.cut] } :
        IF result.refused \/ (result.handshake.complete /\ ~isValid(result.handshake))
          THEN ShowErrorAndClose(c, after)
        ELSE IF result.handshake.complete THEN Accept(c, after)
        ELSE /\ conn' = [conn EXCEPT ![c] = after]
             /\ handshakeBuffer' = With(c, result.handshake)
             /\ UNCHANGED queue

(* A segment: the request up to an item, and maybe eight bytes of the next *)
(* line.                                                                   *)
SegmentUpto(c, upto, cut) ==
    /\ conn[c].state = "handshake"
    /\ upto > conn[c].arrived \/ (cut /\ ~conn[c].cut /\ ~conn[c].damaged)
    /\ cut => upto < Len(conn[c].request) /\ conn[c].request[upto + 1] \in Line \ {"end"}
    /\ dataReceived(c, [conn[c] EXCEPT !.arrived = upto, !.cut = cut])
    /\ UNCHANGED <<tls, listening>>

Segment(c) ==
    \E upto \in conn[c].arrived .. Len(conn[c].request), cut \in BOOLEAN :
        SegmentUpto(c, upto, cut)

(* The application asks for a socket after a newConnection().              *)
NextPendingConnection ==
    /\ signals > 0 /\ defined
    /\ signals' = signals - 1
    /\ IF pendingConnections = << >>
         THEN defined' = FALSE /\ UNCHANGED <<pendingConnections, taken>>
         ELSE /\ taken' = taken \cup {Head(pendingConnections)}
              /\ pendingConnections' = Tail(pendingConnections)
              /\ UNCHANGED defined
    /\ UNCHANGED <<tls, listening, conn, handshakeBuffer, dropped>>

(* QWsServer::close leaves the connections alone.                          *)
Close ==
    /\ listening /\ listening' = FALSE
    /\ UNCHANGED <<tls, conn, handshakeBuffer, queue>>

Next ==
    \/ \E c \in Conns :
         /\ defined
         /\ \/ \E r \in Requests : NewConnection(c, r) \/ IncomingConnection(c, r)
            \/ TlsSocketEncrypted(c) \/ Segment(c) \/ Disconnected(c)
    \/ NextPendingConnection
    \/ defined /\ Close

Spec == Init /\ [][Next]_vars

(* TLS comes up, and all that a client has sent arrives, unless it goes    *)
(* away.                                                                   *)
Progress(c) ==
    /\ defined
    /\ TlsSocketEncrypted(c) \/ SegmentUpto(c, Len(conn[c].request), FALSE)

FairSpec == Spec /\ \A c \in Conns : WF_vars(Progress(c))
-----------------------------------------------------------------------------
(* Properties.                                                             *)

\* The types of the server's state.
TypeOK ==
    /\ {tls, listening, defined} \subseteq BOOLEAN
    /\ \A c \in Conns :
         /\ conn[c].state \in {"none", "stuck", "encrypting", "handshake", "closing",
                               "open", "ended"}
         /\ conn[c].object \in {"none", "orphan", "tcp", "ws", "deleted"}
         /\ conn[c].read <= conn[c].arrived
         /\ conn[c].arrived <= Len(conn[c].request)
         /\ conn[c].answer \in {"none", "101", "400"}
    /\ \A c \in DOMAIN handshakeBuffer :
         handshakeBuffer[c] \in [readStarted : BOOLEAN, complete : BOOLEAN,
                                 fields : SUBSET Fields, key3 : BOOLEAN]
    /\ pendingConnections \in Seq(Conns) /\ signals \in Nat
    /\ taken \subseteq Conns /\ dropped \subseteq Conns

(* What a server that saw the whole request at once would answer: it reads *)
(* up to the empty line.                                                   *)
Verdict(r) ==
    LET ends == { i \in 1 .. Len(r) : r[i] = "end" }
        head == SubSeq(r, 1, Least(ends, Len(r)))
        fields == Range(head) \cap Fields
    IN  IF \/ Head(r) # "get" \/ Contains(head, "long")
           \/ ends # {} /\ ~(/\ {"host", "upgrade", "connection"} \subseteq fields
                             /\ "key" \in fields /\ "version" \in fields)
          THEN "400"
        ELSE IF ends = {} THEN "none" ELSE "101"

\* The answer is decided by the request, not by the segments it came in, with
\* two exceptions: a request of the first version, whose eight bytes must come
\* with the empty line, and one of more than MaxFields fields.
VerdictOfRequest ==
    \A c \in Conns :
        LET r == conn[c].request
        IN  conn[c].answer # "none" /\ ~Contains(r, "keys")
              /\ Cardinality(Range(r) \cap Fields) <= MaxFields
                => conn[c].answer = Verdict(r)

Queued(c) == Cardinality({ i \in DOMAIN pendingConnections : pendingConnections[i] = c })

\* Each accepted connection is in the queue, was handed out or was dropped by a
\* full queue, and only once; there is a newConnection() for each socket of
\* the queue, so that the queue is asked in vain only after one was dropped.
EachSocketOnce ==
    /\ \A c \in Conns :
         Queued(c) + (IF c \in taken THEN 1 ELSE 0) + (IF c \in dropped THEN 1 ELSE 0)
            = IF conn[c].answer = "101" THEN 1 ELSE 0
    /\ Len(pendingConnections) <= MaxPending
    /\ signals >= Len(pendingConnections)
    /\ signals > Len(pendingConnections) \/ ~defined => dropped # {}

\* There is a handshake for each connection that is being answered and for no
\* other, whatever ends the connection, and its socket is deleted with it; only
\* a connection that ended before TLS was up leaves a socket to nobody.
NothingLeaks ==
    /\ DOMAIN handshakeBuffer = { c \in Conns : conn[c].state \in {"handshake", "closing"} }
    /\ \A c \in Conns :
         /\ conn[c].state = "ended" => conn[c].object # "tcp"
         /\ conn[c].object = "orphan" => tls /\ conn[c].arrived = 0
         /\ conn[c].object = "ws" <=> conn[c].answer = "101"

\* A client that sends a whole request gets an answer, unless the connection
\* ends or the server had no key.
Answered ==
    \A c \in Conns :
        conn[c].state \in {"encrypting", "handshake"} /\ Contains(conn[c].request, "end")
            ~> conn[c].answer # "none" \/ conn[c].state = "ended" \/ ~defined
=============================================================================
