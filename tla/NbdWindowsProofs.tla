-------------------------- MODULE NbdWindowsProofs --------------------------
(***************************************************************************)
(* Proofs about both NBD servers.  The first part is SamePhase, that the   *)
(* client and MainWindow agree on where the negotiation is.  Which padding *)
(* the export has was decided when the server read the client's flags,     *)
(* several messages earlier, so that PhaseInv follows the flags from the   *)
(* greeting on:                                                            *)
(*   greeted            nothing was said, and the server is in state 1;    *)
(*   its flags sent     they are the first field the server will read in   *)
(*                      state 1, and what glob_flags holds in 2 .. 5;      *)
(*   ready              SamePhase.                                         *)
(* That nobody is misled takes the byte stream: as long as no data was     *)
(* taken for an option, what the client waits for and what the server has  *)
(* still to parse belong to the same option (StepInv).                     *)
(*                                                                         *)
(* The second part is that a write which the Windows server answers        *)
(* without an error is stored.  The handlers that differ from those on     *)
(* Linux keep the inductive invariant IInv of NbdExportProofs as well, and *)
(* on Windows no write is stored at a wrong place, and one that failed is  *)
(* answered with the error (WinInv), so that AckedWriteStored has only     *)
(* read-only images left as an exception.                                  *)
(***************************************************************************)
EXTENDS NbdExportProofs, NbdWindows

Negotiating == client \in {"choosing", "waiting", "naming"}

(* The export with the padding for flag z was the last word of the         *)
(* negotiation.                                                            *)
Exported(w, z) ==
    \E i \in 1 .. Len(w) :
        /\ w[i] = Message("export", IF z = 1 THEN 0 ELSE ZeroPad, << >>)
        /\ \A j \in i + 1 .. Len(w) :
              w[j].kind \notin {"greeting", "unsup", "export"}

PhaseInv ==
    /\ client = "greeted" => nego_state = 1 /\ inbound = << >>
    /\ Negotiating /\ nego_state = 1 =>
          inbound # << >> /\ inbound[1] = Field("cflags", 0, noZeroes)
    /\ Negotiating /\ nego_state \in 2 .. 5 => glob_flags = (noZeroes = 1)
    /\ client = "ready" => nego_state \in {6, 7} /\ Exported(wire, noZeroes)

(* The option that the client waits to have answered is the one that the   *)
(* server has still to parse: its code is field 4 - nego_state of the      *)
(* stream, and nothing but its data is behind it.                          *)
OptionAt(s, p, code) ==
    /\ p \in 1 .. Len(s)
    /\ s[p].kind = "opt" /\ s[p].id = OptionCode[code]
    /\ p > 1 => s[p - 1].kind = "magic"
    /\ code = "UNKNOWN" => /\ Len(s) = p + s[p].n
                           /\ \A i \in p + 1 .. Len(s) : s[i].kind = "optdata"

Asks(code) == nego_state \in 1 .. 3 /\ OptionAt(inbound, 4 - nego_state, code)

(* What the "TODO" box leaves.                                             *)
DataLeft == nego_state = 3 /\ \A i \in 1 .. Len(inbound) : inbound[i].kind = "optdata"

Chooses == \/ nego_state = 1 /\ Len(inbound) = 1
           \/ nego_state = 2 /\ inbound = << >>

StepInv ==
    /\ client = "misled" => strayed
    /\ ~strayed =>
          /\ client = "choosing" => Chooses
          /\ client = "waiting" => Asks("UNKNOWN") \/ DataLeft
          /\ client = "naming" => Asks("EXPORT_NAME") \/ nego_state \in {4, 5}

-----------------------------------------------------------------------------
(* What is sent.                                                           *)

(* The answers of handle_request and handle_write do not reopen the        *)
(* negotiation.                                                            *)
LEMMA AnswersAfterExport ==
    ASSUME NEW w \in Seq(Messages), NEW u \in Seq(Messages), NEW z,
           Exported(w, z), \A i \in 1 .. Len(u) : u[i].kind \in {"reply", "data"}
    PROVE  Exported(w \o u, z)
  <1>1. PICK i \in 1 .. Len(w) :
           /\ w[i] = Message("export", IF z = 1 THEN 0 ELSE ZeroPad, << >>)
           /\ \A j \in i + 1 .. Len(w) :
                 w[j].kind \notin {"greeting", "unsup", "export"}
    BY DEF Exported
  <1>2. /\ Len(w \o u) = Len(w) + Len(u)
        /\ \A j \in 1 .. Len(w) : (w \o u)[j] = w[j]
        /\ \A j \in Len(w) + 1 .. Len(w) + Len(u) : (w \o u)[j] = u[j - Len(w)]
    OBVIOUS
  <1>3. ASSUME NEW j \in i + 1 .. Len(w \o u)
        PROVE  (w \o u)[j].kind \notin {"greeting", "unsup", "export"}
    <2>1. CASE j <= Len(w)
      BY <1>1, <1>2, <2>1
    <2>2. CASE j > Len(w)
      <3>1. j - Len(w) \in 1 .. Len(u) /\ (w \o u)[j] = u[j - Len(w)]
        BY <1>2, <2>2
      <3>2. QED
        BY <3>1
    <2>3. QED
      BY <2>1, <2>2
  <1>4. i \in 1 .. Len(w \o u) /\ (w \o u)[i] = w[i]
    BY <1>2
  <1>5. QED
    BY <1>1, <1>3, <1>4 DEF Exported

(* The export itself, sent by SendExport.                                  *)
LEMMA ExportSent ==
    ASSUME NEW w \in Seq(Messages), NEW z
    PROVE  Exported(w \o <<Message("export", IF z = 1 THEN 0 ELSE ZeroPad, << >>)>>, z)
  <1> DEFINE e == Message("export", IF z = 1 THEN 0 ELSE ZeroPad, << >>)
             v == w \o <<e>>
  <1> HIDE DEF e
  <1>1. Len(v) = Len(w) + 1 /\ v[Len(w) + 1] = e
    OBVIOUS
  <1>2. Len(w) + 1 \in 1 .. Len(v)
    BY <1>1
  <1>3. \A j \in Len(w) + 1 + 1 .. Len(v) : FALSE
    BY <1>1
  <1> HIDE DEF v
  <1>4. \E i \in 1 .. Len(v) :
           /\ v[i] = e
           /\ \A j \in i + 1 .. Len(v) : v[j].kind \notin {"greeting", "unsup", "export"}
    BY <1>1, <1>2, <1>3
  <1>5. QED
    BY <1>4 DEF Exported, e, v

(* What is sent are replies and data, if anything.                         *)
AnswersSent ==
    \/ wire' = wire
    \/ \E u \in Seq(Messages) :
          /\ wire' = wire \o u
          /\ \A i \in 1 .. Len(u) : u[i].kind \in {"reply", "data"}

LEMMA OneAnswer ==
    ASSUME NEW m \in Messages, m.kind = "reply", Send(<<m>>)
    PROVE  AnswersSent
  <1>1. <<m>> \in Seq(Messages) /\ \A i \in 1 .. Len(<<m>>) : <<m>>[i].kind = "reply"
    OBVIOUS
  <1>2. wire' = wire \/ wire' = wire \o <<m>>
    BY DEF Send
  <1>3. QED
    BY <1>1, <1>2 DEF AnswersSent

LEMMA TwoAnswers ==
    ASSUME NEW m \in Messages, m.kind = "reply",
           NEW d \in Messages, d.kind = "data", Send(<<m, d>>)
    PROVE  AnswersSent
  <1>1. <<m, d>> \in Seq(Messages)
    OBVIOUS
  <1>2. \A i \in 1 .. Len(<<m, d>>) : <<m, d>>[i].kind \in {"reply", "data"}
    OBVIOUS
  <1>3. wire' = wire \/ wire' = wire \o <<m, d>>
    BY DEF Send
  <1>4. QED
    BY <1>1, <1>2, <1>3 DEF AnswersSent

(* What a request or a payload is answered with.                           *)
LEMMA AnswersOnly ==
    ASSUME IInv, Transmit \/ ReceivePayload
    PROVE  AnswersSent
  <1>1. TypeOK /\ wire \in Seq(Messages) /\ write_handle \in Nat
    BY DEF IInv, TypeOK
  <1>2. ASSUME NEW h \in Nat
        PROVE  Reply(h) \in Messages /\ Reply(h).kind = "reply"
    BY PlainMessages DEF Reply, Message
  <1>5. CASE HandleRead \/ HandleReadFails
    <2>1. cut > 0 /\ inbound[1].kind = "req" /\ ~BadLength(Request)
      BY <1>1, <1>5 DEF HandleRead, HandleReadFails, ParsingRequest, Parsing
    <2>2. inbound[1].id \in Nat
      BY <1>1, <2>1, FirstField
    <2>3. Request \in Requests
      BY <1>1, <2>1, RequestTypes DEF IInv
    <2>4. Request.len \in 1 .. MaxCells
      BY <2>1, <2>3, InExport
    <2>5. PICK n \in 0 .. Request.len :
             Send(<<Reply(inbound[1].id),
                    Message("data", inbound[1].id, ReadData(Request, n))>>)
      <3>1. CASE HandleRead
        BY <2>4, <3>1 DEF HandleRead
      <3>2. CASE HandleReadFails
        BY <2>4, <3>2 DEF HandleReadFails
      <3>3. QED
        BY <1>5, <3>1, <3>2
    <2>6. Message("data", inbound[1].id, ReadData(Request, n)) \in Messages
      BY <1>1, <2>1, <2>2, <2>3, ReadTypes
    <2>7. Message("data", inbound[1].id, ReadData(Request, n)).kind = "data"
      BY DEF Message
    <2>8. QED
      BY <1>2, <2>2, <2>5, <2>6, <2>7, TwoAnswers
  <1>6. CASE Transmit /\ ~HandleRead /\ ~HandleReadFails
    BY <1>6 DEF AnswersSent, Transmit, RejectRange, BeginWrite, HandleDisc, IgnoreCommand,
       RejectGarbage
  <1>7. CASE ReceivePayload
    <2>1. wire' = wire \/ Send(<<Reply(write_handle)>>)
      BY <1>7 DEF ReceivePayload, DropPayload, WritePayload, WriteFails, Received
    <2>2. QED
      BY <1>1, <1>2, <2>1, OneAnswer DEF AnswersSent
  <1>8. QED
    BY <1>5, <1>6, <1>7

-----------------------------------------------------------------------------
(* One lemma for each kind of step.                                        *)

LEMMA OptionCodes ==
    \A o \in OptionMenu : /\ o.code \in {"EXPORT_NAME", "ABORT", "UNKNOWN"}
                          /\ o.parts \in Nat
  BY ConstantsAssumption DEF ConstantsAssumption, Options

(* Connecting, boxes, the end of a connection, and the proxy: either the   *)
(* client is greeted by a server in state 1, or it stays away.             *)
LEMMA ConnectPhase ==
    ASSUME IInv, PhaseInv, Connect \/ CloseDialog \/ LinkDown \/ Proxy
    PROVE  PhaseInv'
  <1>1. /\ link = "down" => client = "off"
        /\ dialog = "opening" => client = "off" /\ inbound = << >>
    BY DEF IInv, Silent
  <1>2. ASSUME client' = "off" PROVE PhaseInv'
    BY <1>2 DEF PhaseInv, Negotiating
  <1>3. ASSUME client' = "greeted", nego_state' = 1, inbound' = << >> PROVE PhaseInv'
    BY <1>3 DEF PhaseInv, Negotiating
  <1>4. ASSUME UNCHANGED <<client, nego_state, glob_flags, noZeroes, inbound, wire>>
        PROVE  PhaseInv'
    BY <1>4 DEF PhaseInv, Negotiating
  <1>5. CASE onConnected
    BY <1>3, <1>5 DEF onConnected
  <1>6. CASE onConnectedReadOnly \/ onConnectedNoDevice
    BY <1>1, <1>2, <1>6 DEF onConnectedReadOnly, onConnectedNoDevice, peer
  <1>7. CASE CloseDialog
    <2>1. CASE dialog = "info" /\ UNCHANGED <<offset, nego_state, wire, client>>
      BY <1>4, <1>7, <2>1 DEF CloseDialog, asked
    <2>2. CASE dialog = "opening" /\ negotiate
      BY <1>1, <1>2, <1>3, <1>7, <2>2 DEF CloseDialog, negotiate
    <2>3. QED
      BY <1>7, <2>1, <2>2 DEF CloseDialog
  <1>8. CASE LinkDown
    BY <1>2, <1>8 DEF LinkDown
  <1>9. CASE Proxy
    BY <1>4, <1>9 DEF Proxy, Frame, server, peer, asked
  <1>10. QED
    BY <1>5, <1>6, <1>7, <1>8, <1>9 DEF Connect

(* The client: its flags are the first thing it says, and only a client    *)
(* that has its export sends requests.                                     *)
LEMMA ClientPhase ==
    ASSUME IInv, PhaseInv, Client
    PROVE  PhaseInv'
  <1>1. TypeOK /\ inbound \in Seq(Fields)
    BY DEF IInv, TypeOK
  <1>2. CASE ClientFlags
    <2>1. nego_state' = 1 /\ inbound = << >> /\ client' = "choosing"
      BY <1>2 DEF ClientFlags, PhaseInv, server
    <2>2. inbound' = <<Field("cflags", 0, noZeroes')>>
      BY <1>2, <2>1 DEF ClientFlags
    <2>3. QED
      BY <2>1, <2>2 DEF PhaseInv, Negotiating
  <1>3. ASSUME NEW o \in OptionMenu, ClientOption(o)
        PROVE  PhaseInv'
    <2>1. client = "choosing" /\ client' \in {"off", "waiting", "naming"}
            /\ UNCHANGED <<nego_state, glob_flags, noZeroes>>
      BY <1>3, OptionCodes DEF ClientOption, server
    <2>2. PICK u \in Seq(Fields) : inbound' = inbound \o u
      BY <1>1, <1>3, OptionBytes
    <2>3. inbound # << >> => inbound' # << >> /\ inbound'[1] = inbound[1]
      BY <1>1, <2>2
    <2>4. QED
      BY <2>1, <2>3 DEF PhaseInv, Negotiating
  <1>4. ASSUME NEW r \in RequestMenu, ClientRequest(r)
        PROVE  PhaseInv'
    <2>1. client = "ready" /\ client' \in {"off", "ready"}
            /\ UNCHANGED <<nego_state, wire, noZeroes>>
      BY <1>4 DEF ClientRequest, server
    <2>2. QED
      BY <2>1 DEF PhaseInv, Negotiating
  <1>5. QED
    BY <1>2, <1>3, <1>4 DEF Client

(* The export is sent with what the flags of this connection said.         *)
LEMMA ExportPhase ==
    ASSUME IInv, PhaseInv, nego_state \in {4, 5}, cut > 0, SendExport,
           UNCHANGED <<glob_flags, noZeroes>>
    PROVE  PhaseInv'
  <1>1. /\ TypeOK /\ wire \in Seq(Messages) /\ cut \in Nat
        /\ client \in Clients
    BY DEF IInv, TypeOK, Clients
  <1>2. client \in {"off", "choosing", "waiting", "naming", "misled"} /\ nego_state' = 6
    <2>1. inbound # << >>
      BY <1>1, FirstField
    <2>2. QED
      BY <1>1, <2>1 DEF PhaseInv, SendExport, Clients
  <1>3. CASE client # "naming"
    BY <1>2, <1>3 DEF SendExport, Heard, PhaseInv, Negotiating
  <1>4. CASE client = "naming"
    <2>1. link # "down"
      BY <1>4 DEF IInv, Silent
    <2>2. glob_flags = (noZeroes = 1)
      BY <1>4 DEF PhaseInv, Negotiating
    <2>3. wire' = wire \o <<Message("export", IF noZeroes = 1 THEN 0 ELSE ZeroPad, << >>)>>
      BY <2>1, <2>2 DEF SendExport, Send
    <2>4. Exported(wire', noZeroes)
      BY <1>1, <2>3, ExportSent
    <2>5. client' = "ready"
      BY <1>4 DEF SendExport, Heard
    <2>6. QED
      BY <1>2, <2>4, <2>5 DEF PhaseInv, Negotiating
  <1>5. QED
    BY <1>3, <1>4

(* The states 0 to 5 of onBinaryMessageReceived: the flags are read once,  *)
(* and the export is sent with what they said, whatever was misparsed in   *)
(* between.                                                                *)
LEMMA NegotiatePhase ==
    ASSUME IInv, PhaseInv, Negotiate
    PROVE  PhaseInv'
  <1>1. TypeOK /\ wire \in Seq(Messages) /\ glob_flags \in BOOLEAN
          /\ client \in Clients
          /\ cut \in Nat
    BY DEF IInv, TypeOK, Clients
  <1>2. nego_state \in 0 .. 5 /\ cut > 0
    BY DEF Negotiate, Parsing, ParseFlags, ParseMagic, ParseExportName,
         ParseAbort, ParseUnknownOption, ParseShortOption, ParseStrayData,
         ParseNameSize, ParseName, DropMessage
  <1>3. inbound # << >>
    BY <1>1, <1>2, FirstField
  <1>4. client \in {"off", "choosing", "waiting", "naming", "misled"}
    BY <1>1, <1>2, <1>3 DEF PhaseInv, Clients
  <1>5. UNCHANGED noZeroes
    BY DEF Negotiate, ParseFlags, ParseMagic, ParseExportName,
         ParseAbort, ParseUnknownOption, ParseShortOption, ParseStrayData,
         ParseNameSize, ParseName, DropMessage, peer, asked
  <1>6. CASE ParseFlags
    <2>1. nego_state = 1 /\ nego_state' = 2 /\ client' = client
            /\ glob_flags' = (inbound[1].n = 1)
      BY <1>6 DEF ParseFlags, Parsing, peer
    <2>2. Negotiating => inbound[1].n = noZeroes
      BY <2>1 DEF PhaseInv, Field
    <2>3. Negotiating' = Negotiating
      BY <2>1 DEF Negotiating
    <2>4. QED
      BY <1>4, <1>5, <2>1, <2>2, <2>3 DEF PhaseInv
  <1>7. ASSUME nego_state \in 2 .. 5, nego_state' \in {0, 2, 3, 4, 5},
               UNCHANGED glob_flags, client' \in {client, "choosing", "misled"},
               client' = "choosing" => client \in {"choosing", "waiting"}
        PROVE  PhaseInv'
    <2>1. Negotiating' => Negotiating
      BY <1>7 DEF Negotiating
    <2>2. client' \notin {"greeted", "ready"} /\ nego_state' # 1
      BY <1>4, <1>7
    <2>3. QED
      BY <1>5, <1>7, <2>1, <2>2 DEF PhaseInv
  <1>8. CASE \/ ParseMagic \/ ParseExportName \/ ParseAbort \/ ParseUnknownOption
             \/ ParseShortOption \/ ParseStrayData
    <2>1. /\ nego_state \in 2 .. 5 /\ nego_state' \in {0, 2, 3, 4, 5}
          /\ UNCHANGED glob_flags
          /\ client' = client \/ Heard("waiting", "choosing")
      BY <1>8 DEF ParseMagic, ParseExportName, ParseAbort, ParseUnknownOption,
         ParseShortOption, ParseStrayData, Parsing, server, peer
    <2>2. Heard("waiting", "choosing") =>
             /\ client' \in {client, "choosing", "misled"}
             /\ client' = "choosing" => client = "waiting"
      BY DEF Heard
    <2>3. QED
      BY <1>7, <2>1, <2>2
  <1>9. ASSUME nego_state \in {4, 5}, SendExport, UNCHANGED glob_flags
        PROVE  PhaseInv'
    BY <1>2, <1>5, <1>9, ExportPhase
  <1>10. CASE ParseNameSize
    <2>1. nego_state = 4 /\ UNCHANGED glob_flags
            /\ \/ nego_state' = 5 /\ UNCHANGED <<wire, client>>
               \/ SendExport
      BY <1>10 DEF ParseNameSize, Parsing
    <2>2. QED
      BY <1>7, <1>9, <2>1
  <1>11. CASE ParseName
    BY <1>9, <1>11 DEF ParseName, Parsing
  <1>12. CASE DropMessage
    BY <1>4, <1>12 DEF DropMessage, Parsing, server, peer, PhaseInv, Negotiating
  <1>13. QED
    BY <1>6, <1>8, <1>10, <1>11, <1>12 DEF Negotiate

(* The states 6 and 7 never return to the negotiation.                     *)
LEMMA AnsweredPhase ==
    ASSUME IInv, PhaseInv, nego_state \in {6, 7}, cut > 0, nego_state' \in {6, 7},
           UNCHANGED <<client, noZeroes>>, AnswersSent
    PROVE  PhaseInv'
  <1>1. wire \in Seq(Messages) /\ inbound # << >>
    BY FirstField DEF IInv, TypeOK
  <1>2. client = "ready" => Exported(wire', noZeroes)
    <2>1. client = "ready" => Exported(wire, noZeroes)
      BY DEF PhaseInv
    <2>2. QED
      BY <1>1, <2>1, AnswersAfterExport DEF AnswersSent
  <1>3. client # "greeted"
    BY <1>1 DEF PhaseInv
  <1>4. QED
    BY <1>2, <1>3 DEF PhaseInv, Negotiating

LEMMA TransmitPhase ==
    ASSUME IInv, PhaseInv, Transmit \/ ReceivePayload
    PROVE  PhaseInv'
  <1>1. nego_state \in {6, 7} /\ cut > 0
    BY DEF Transmit, ReceivePayload, Parsing, ParsingRequest, RejectRange, BeginWrite,
       HandleRead, HandleReadFails, HandleDisc, IgnoreCommand, RejectGarbage,
       DropPayload, WritePayload, WriteFails
  <1>2. nego_state' \in {6, 7} /\ UNCHANGED <<client, noZeroes>>
    <2>1. CASE Transmit
      BY <1>1, <2>1 DEF Transmit, RejectRange, BeginWrite,
         HandleRead, HandleReadFails, HandleDisc, IgnoreCommand, RejectGarbage,
         server, peer, asked
    <2>2. CASE ReceivePayload
      BY <1>1, <2>2 DEF ReceivePayload, DropPayload, WritePayload, WriteFails, Received,
         peer, asked
    <2>3. QED
      BY <2>1, <2>2
  <1>3. QED
    BY <1>1, <1>2, AnswersOnly, AnsweredPhase

(* Every step keeps the agreement.                                         *)
LEMMA NextPhase == IInv /\ PhaseInv /\ [Next]_vars => PhaseInv'
  <1>1. SUFFICES ASSUME IInv, PhaseInv, [Next]_vars PROVE PhaseInv'
    OBVIOUS
  <1>2. CASE Connect \/ CloseDialog \/ LinkDown \/ Proxy
    BY <1>1, <1>2, ConnectPhase
  <1>3. CASE Client
    BY <1>1, <1>3, ClientPhase
  <1>4. CASE Negotiate
    BY <1>1, <1>4, NegotiatePhase
  <1>5. CASE Transmit \/ ReceivePayload
    BY <1>1, <1>5, TransmitPhase
  <1>6. CASE UNCHANGED vars
    BY <1>1, <1>6 DEF vars, server, peer, asked, PhaseInv, Negotiating
  <1>7. QED
    BY <1>1, <1>2, <1>3, <1>4, <1>5, <1>6 DEF Next, onBinaryMessageReceived

-----------------------------------------------------------------------------
(* Nobody is misled as long as no data was taken for an option.            *)

LEMMA StepFree ==
    ASSUME strayed' \/ client' \notin {"choosing", "waiting", "naming", "misled"}
    PROVE  StepInv'
  BY DEF StepInv

LEMMA StepSame ==
    ASSUME StepInv, UNCHANGED <<client, nego_state, inbound, strayed>>
    PROVE  StepInv'
  BY DEF StepInv, Asks, DataLeft, Chooses

(* Outside of the states 1 to 5 only a strayed client negotiates.          *)
LEMMA StepPast ==
    ASSUME StepInv, nego_state \in {0, 6, 7}, client' \in {client, "off"},
           UNCHANGED strayed
    PROVE  StepInv'
  <1>1. strayed \/ client \notin {"choosing", "waiting", "naming", "misled"}
    BY DEF StepInv, Asks, DataLeft, Chooses
  <1>2. strayed => strayed'
    OBVIOUS
  <1>3. QED
    BY <1>1, <1>2, StepFree

(* Connecting, boxes, the end of a connection, and the proxy.              *)
LEMMA ConnectInStep ==
    ASSUME IInv, StepInv,
           Connect \/ WinConnected \/ WinConnectedNoDevice \/ CloseDialog \/ LinkDown \/ Proxy
    PROVE  StepInv'
  <1>1. /\ link = "down" => client = "off"
        /\ dialog = "opening" => client = "off"
    BY DEF IInv, Silent
  <1>2. ASSUME client' \in {"off", "greeted"} PROVE StepInv'
    BY <1>2, StepFree
  <1>3. CASE Connect \/ WinConnected \/ WinConnectedNoDevice
    BY <1>1, <1>2, <1>3 DEF Connect, onConnected, onConnectedReadOnly,
       onConnectedNoDevice, WinConnected, WinConnectedNoDevice, peer
  <1>4. CASE CloseDialog
    <2>1. CASE dialog = "info" /\ UNCHANGED <<offset, nego_state, wire, client>>
      BY <1>4, <2>1, StepSame DEF CloseDialog, session
    <2>2. CASE dialog = "opening" /\ negotiate
      BY <1>1, <1>2, <2>2 DEF negotiate
    <2>3. QED
      BY <1>4, <2>1, <2>2 DEF CloseDialog
  <1>5. CASE LinkDown
    BY <1>2, <1>5 DEF LinkDown
  <1>6. CASE Proxy
    BY <1>6, StepSame DEF Proxy, Frame, server, peer, session
  <1>7. QED
    BY <1>3, <1>4, <1>5, <1>6

(* What ClientOption appends: the option that the client then waits for.   *)
LEMMA OptionSent ==
    ASSUME TypeOK, Chooses, NEW o \in OptionMenu, ClientOption(o), o.code # "ABORT"
    PROVE  Asks(o.code)'
  <1> DEFINE m == Field("magic", 0, 0)
             c == Field("opt", OptionCode[o.code], o.parts)
             size == <<Field("namesize", 0, o.parts)>>
             name == [i \in 1 .. o.parts |-> Field("name", 0, i)]
             data == [i \in 1 .. o.parts |-> Field("optdata", 0, i)]
             p == 4 - nego_state
             s == inbound \o <<m, c>>
  <1>1. /\ o.code \in {"EXPORT_NAME", "UNKNOWN"} /\ o.parts \in Nat
        /\ inbound \in Seq(Fields) /\ OptionCode[o.code] \in Nat
    BY OptionCodes DEF TypeOK, OptionCode
  <1>2. m \in Fields /\ c \in Fields /\ Field("namesize", 0, o.parts) \in Fields
    BY <1>1, FieldTypes
  <1>3. /\ m.kind = "magic" /\ c.kind = "opt" /\ c.id = OptionCode[o.code]
        /\ c.n = o.parts
    BY DEF Field
  <1>4. /\ name \in Seq(Fields) /\ data \in Seq(Fields) /\ Len(data) = o.parts
        /\ \A i \in 1 .. o.parts : data[i].kind = "optdata"
    <2>1. name \in [1 .. o.parts -> Fields] /\ data \in [1 .. o.parts -> Fields]
      BY <1>1, FieldTypes
    <2>2. \A i \in 1 .. o.parts : data[i].kind = "optdata"
      BY DEF Field
    <2> HIDE DEF name, data
    <2>3. QED
      BY <1>1, <2>1, <2>2, FunctionIsSeq
  <1>5. size \in Seq(Fields)
    BY <1>2
  <1>6. /\ nego_state \in {1, 2} /\ UNCHANGED nego_state
        /\ \/ o.code = "EXPORT_NAME" /\ inbound' = s \o (size \o name)
           \/ o.code = "UNKNOWN" /\ inbound' = s \o data
    BY <1>1 DEF Chooses, ClientOption, server
  <1> HIDE DEF m, c, size, name, data
  <1>7. /\ s \in Seq(Fields) /\ p \in {2, 3} /\ Len(s) = p
        /\ s[p - 1] = m /\ s[p] = c
    <2>1. Len(inbound) = 2 - nego_state /\ nego_state \in {1, 2}
      <3>1. CASE nego_state = 1
        BY <3>1 DEF Chooses
      <3>2. CASE nego_state = 2
        BY <3>2, EmptySeq DEF Chooses
      <3>3. QED
        BY <1>6, <3>1, <3>2
    <2>2. p \in {2, 3} /\ Len(inbound) = p - 2
      BY <2>1
    <2> HIDE DEF p
    <2>3. <<m, c>> \in Seq(Fields) /\ Len(<<m, c>>) = 2
            /\ <<m, c>>[1] = m /\ <<m, c>>[2] = c
      BY <1>2
    <2>4. s \in Seq(Fields) /\ Len(s) = p
      BY <1>1, <2>2, <2>3, ConcatProperties
    <2>5. s[p - 1] = <<m, c>>[1]
      BY <1>1, <2>2, <2>3, ConcatProperties
    <2>6. s[p] = <<m, c>>[2]
      BY <1>1, <2>2, <2>3, ConcatProperties
    <2>7. QED
      BY <2>2, <2>3, <2>4, <2>5, <2>6
  <1> HIDE DEF s, p
  <1>8. ASSUME NEW t \in Seq(Fields), inbound' = s \o t
        PROVE  /\ Len(inbound') = p + Len(t)
               /\ inbound'[p - 1] = m /\ inbound'[p] = c
               /\ \A i \in p + 1 .. Len(inbound') :
                     i - p \in 1 .. Len(t) /\ inbound'[i] = t[i - p]
    BY <1>7, <1>8
  <1>9. CASE o.code = "EXPORT_NAME"
    <2>1. size \o name \in Seq(Fields)
      BY <1>4, <1>5, ConcatProperties
    <2>2. inbound' = s \o (size \o name)
      BY <1>6, <1>9
    <2>3. p \in 1 .. Len(inbound') /\ inbound'[p - 1] = m /\ inbound'[p] = c
      BY <1>7, <1>8, <2>1, <2>2
    <2>4. OptionAt(inbound', p, o.code)
      BY <1>3, <1>9, <2>3 DEF OptionAt
    <2>5. QED
      BY <1>6, <2>4 DEF Asks, p
  <1>10. CASE o.code = "UNKNOWN"
    <2>1. inbound' = s \o data
      BY <1>6, <1>10
    <2>2. /\ Len(inbound') = p + o.parts
          /\ inbound'[p - 1] = m /\ inbound'[p] = c
          /\ \A i \in p + 1 .. Len(inbound') :
                i - p \in 1 .. o.parts /\ inbound'[i] = data[i - p]
      BY <1>4, <1>8, <2>1
    <2>3. /\ p \in 1 .. Len(inbound')
          /\ \A i \in p + 1 .. Len(inbound') : inbound'[i].kind = "optdata"
      <3>1. p \in {2, 3}
        BY <1>7, Zenon
      <3>2. Len(inbound') = p + o.parts
        BY <2>2, Zenon
      <3>3. o.parts \in Nat
        BY <1>1
      <3>4. p \in 1 .. Len(inbound')
        BY <3>1, <3>2, <3>3
      <3>5. QED
        BY Zenon, <1>4, <2>2, <3>4
    <2>4. OptionAt(inbound', p, o.code)
      BY <1>3, <2>2, <2>3 DEF OptionAt
    <2>5. QED
      BY <1>6, <2>4 DEF Asks, p
  <1>11. QED
    BY <1>1, <1>9, <1>10

LEMMA ClientInStep ==
    ASSUME IInv, PhaseInv, StepInv, Client
    PROVE  StepInv'
  <1>1. TypeOK /\ inbound \in Seq(Fields) /\ strayed \in BOOLEAN
    BY DEF IInv, TypeOK
  <1>2. CASE ClientFlags
    <2>1. /\ client' = "choosing" /\ nego_state' = 1
          /\ inbound' = <<Field("cflags", 0, noZeroes')>>
      BY <1>2 DEF ClientFlags, PhaseInv, server
    <2>2. Chooses'
      BY <2>1 DEF Chooses
    <2>3. QED
      BY <2>1, <2>2 DEF StepInv
  <1>3. ASSUME NEW o \in OptionMenu, ClientOption(o)
        PROVE  StepInv'
    <2>1. client = "choosing" /\ UNCHANGED strayed
      BY <1>3 DEF ClientOption, session
    <2>2. CASE strayed
      BY <2>1, <2>2, StepFree
    <2>3. CASE ~strayed /\ o.code = "ABORT"
      BY <1>3, <2>3, StepFree DEF ClientOption
    <2>4. CASE ~strayed /\ o.code # "ABORT"
      <3>1. Asks(o.code)'
        BY <1>1, <1>3, <2>1, <2>4, OptionSent DEF StepInv
      <3>2. \/ o.code = "EXPORT_NAME" /\ client' = "naming"
            \/ o.code = "UNKNOWN" /\ client' = "waiting"
        BY <1>3, <2>4, OptionCodes DEF ClientOption
      <3>3. CASE o.code = "EXPORT_NAME" /\ client' = "naming"
        BY <3>1, <3>3 DEF StepInv
      <3>4. CASE o.code = "UNKNOWN" /\ client' = "waiting"
        BY <3>1, <3>4 DEF StepInv
      <3>5. QED
        BY <3>2, <3>3, <3>4
    <2>5. QED
      BY <2>2, <2>3, <2>4
  <1>4. ASSUME NEW r \in RequestMenu, ClientRequest(r)
        PROVE  StepInv'
    <2>1. client' \in {"off", "ready"}
      BY <1>4 DEF ClientRequest
    <2>2. QED
      BY <2>1, StepFree
  <1>5. QED
    BY <1>2, <1>3, <1>4 DEF Client

(* One field less, one state further.                                      *)
LEMMA AsksNext ==
    ASSUME TypeOK, cut > 0, Consume(1), NEW code, Asks(code),
           nego_state \in {1, 2}, nego_state' = nego_state + 1
    PROVE  Asks(code)'
  <1> DEFINE p == 4 - nego_state
             t == inbound'
  <1>1. p \in {2, 3} /\ 4 - nego_state' = p - 1 /\ nego_state' \in 1 .. 3
    OBVIOUS
  <1>2. /\ t \in Seq(Fields) /\ Len(t) = Len(inbound) - 1 /\ Len(inbound) \in Nat
        /\ \A i \in 1 .. Len(t) : t[i] = inbound[i + 1]
    <2>1. cut \in 1 .. Len(inbound) /\ 1 \in 0 .. cut /\ inbound \in Seq(Fields)
      BY FirstField DEF TypeOK
    <2>2. QED
      BY <2>1, ConsumeTypes
  <1>3. OptionAt(inbound, p, code)
    BY DEF Asks
  <1> HIDE DEF p, t
  <1>4. p - 1 \in 1 .. Len(t) /\ t[p - 1] = inbound[p]
    BY <1>1, <1>2, <1>3 DEF OptionAt
  <1>5. p - 1 > 1 => t[p - 1 - 1] = inbound[p - 1]
    BY <1>1, <1>2, <1>4
  <1>6. \A i \in p - 1 + 1 .. Len(t) : i + 1 \in p + 1 .. Len(inbound) /\ t[i] = inbound[i + 1]
    BY <1>1, <1>2
  <1>7. OptionAt(t, p - 1, code)
    <2>1. inbound[p].n \in Nat
      <3>1. inbound \in Seq(Fields) /\ p \in 1 .. Len(inbound)
        BY <1>1, <1>3 DEF TypeOK, OptionAt
      <3>2. inbound[p] \in Fields
        BY <3>1
      <3>3. QED
        BY <3>2 DEF Fields
    <2>2. /\ t[p - 1].kind = "opt" /\ t[p - 1].id = OptionCode[code]
          /\ p - 1 > 1 => t[p - 1 - 1].kind = "magic"
      BY <1>1, <1>3, <1>4, <1>5 DEF OptionAt
    <2>3. CASE code = "UNKNOWN"
      <3>1. Len(t) = p - 1 + t[p - 1].n
        BY <1>1, <1>2, <1>3, <1>4, <2>1, <2>3 DEF OptionAt
      <3>2. \A i \in p + 1 .. Len(inbound) : inbound[i].kind = "optdata"
        BY <1>3, <2>3 DEF OptionAt
      <3>3. \A i \in p - 1 + 1 .. Len(t) : t[i].kind = "optdata"
        BY Zenon, <1>6, <3>2
      <3>4. QED
        BY <1>4, <2>2, <3>1, <3>3 DEF OptionAt
    <2>4. QED
      BY <1>4, <2>2, <2>3 DEF OptionAt
  <1>8. QED
    BY <1>1, <1>7 DEF Asks, t

(* The states 0 to 5: an answer goes to a client that waits for it, unless *)
(* data was taken for an option.                                           *)
LEMMA NegotiateInStep ==
    ASSUME IInv, PhaseInv, StepInv, Negotiate \/ WinParseNameSize \/ WinParseName
    PROVE  StepInv'
  <1>1. TypeOK /\ client \in Clients /\ cut \in Nat /\ strayed \in BOOLEAN
          /\ inbound \in Seq(Fields)
    BY DEF IInv, TypeOK, Clients
  <1>2. nego_state \in 0 .. 5 /\ cut > 0 /\ client \notin {"greeted", "ready"}
    <2>1. nego_state \in 0 .. 5 /\ cut > 0
      BY DEF Negotiate, Parsing, ParseFlags, ParseMagic, ParseExportName,
         ParseAbort, ParseUnknownOption, ParseShortOption, ParseStrayData,
         ParseNameSize, ParseName, DropMessage, WinParseNameSize, WinParseName
    <2>2. inbound # << >>
      BY <1>1, <2>1, FirstField
    <2>3. QED
      BY <2>1, <2>2 DEF PhaseInv
  <1>3. CASE ParseStrayData
    BY <1>3, StepFree DEF ParseStrayData
  <1>4. ASSUME ~ParseStrayData PROVE UNCHANGED strayed
    BY <1>4 DEF Negotiate, ParseFlags, ParseMagic, ParseExportName,
       ParseAbort, ParseUnknownOption, ParseShortOption,
       ParseNameSize, ParseName, DropMessage, WinParseNameSize, WinParseName, session
  <1>5. CASE ~ParseStrayData /\ strayed
    BY <1>4, <1>5, StepFree
  <1>6. ASSUME client = "off" PROVE client' = "off"
    BY <1>6 DEF Negotiate, ParseFlags, ParseMagic, ParseExportName,
       ParseAbort, ParseUnknownOption, ParseShortOption, ParseStrayData,
       ParseNameSize, ParseName, DropMessage, WinParseNameSize, WinParseName,
       SendExport, Heard, peer
  <1>7. CASE ~ParseStrayData /\ ~strayed /\ client = "off"
    BY <1>6, <1>7, StepFree
  <1>8. CASE ~ParseStrayData /\ ~strayed /\ client # "off"
    <2>1. client \in {"choosing", "waiting", "naming"}
      BY <1>1, <1>2, <1>8 DEF StepInv, Clients
    <2>2. /\ cut \in 1 .. Len(inbound) /\ 1 \in 0 .. cut
          /\ inbound[1].n \in Nat
      BY <1>1, <1>2, FirstField
    <2>3. CASE client = "choosing"
      <3>1. nego_state = 1 /\ Len(inbound) = 1
        BY <1>8, <2>2, <2>3 DEF StepInv, Chooses
      <3>2. ParseFlags
        BY <1>8, <3>1 DEF Negotiate, Parsing, ParseMagic, ParseExportName,
           ParseAbort, ParseUnknownOption, ParseShortOption,
           ParseNameSize, ParseName, DropMessage, WinParseNameSize, WinParseName
      <3>3. client' = "choosing" /\ nego_state' = 2 /\ Len(inbound') = 0
              /\ inbound' \in Seq(Fields)
        BY <1>1, <1>2, <2>2, <2>3, <3>1, <3>2, ConsumeTypes DEF ParseFlags, peer
      <3>4. Chooses'
        BY <3>3, EmptySeq DEF Chooses
      <3>5. QED
        BY <3>3, <3>4 DEF StepInv
    <2>4. ASSUME NEW code \in {"UNKNOWN", "EXPORT_NAME"}, Asks(code), nego_state \in {1, 2}
          PROVE  Asks(code)' /\ UNCHANGED client
      <3>1. ParseFlags \/ ParseMagic
        BY <1>8, <2>4 DEF Negotiate, Parsing, ParseExportName,
           ParseAbort, ParseUnknownOption, ParseShortOption,
           ParseNameSize, ParseName, DropMessage, WinParseNameSize, WinParseName
      <3>2. nego_state = 2 => inbound[1].kind = "magic"
        BY <2>4 DEF Asks, OptionAt
      <3>3. Consume(1) /\ nego_state' = nego_state + 1 /\ UNCHANGED client
        BY <3>1, <3>2 DEF ParseFlags, ParseMagic, Parsing, peer
      <3>4. QED
        BY <1>1, <1>2, <2>4, <3>3, AsksNext
    <2>5. CASE client = "waiting"
      <3>1. CASE Asks("UNKNOWN") /\ nego_state \in {1, 2}
        BY <2>4, <2>5, <3>1 DEF StepInv
      <3>2. CASE Asks("UNKNOWN") /\ nego_state = 3
        <4>1. /\ inbound[1].kind = "opt" /\ inbound[1].id = OptionCode["UNKNOWN"]
              /\ Len(inbound) = 1 + inbound[1].n
              /\ \A i \in 2 .. Len(inbound) : inbound[i].kind = "optdata"
          BY <3>2 DEF Asks, OptionAt
        <4>2. ParseUnknownOption \/ ParseShortOption
          BY <1>8, <3>2, <4>1 DEF Negotiate, Parsing, ParseFlags, ParseMagic,
             ParseExportName, ParseAbort, ParseNameSize, ParseName, DropMessage,
             WinParseNameSize, WinParseName, OptionCode
        <4>3. CASE ParseUnknownOption
          <5>1. 1 + inbound[1].n \in 0 .. cut /\ Consume(1 + inbound[1].n)
                  /\ client' = "choosing" /\ nego_state' = 2
            BY <2>2, <2>5, <4>3 DEF ParseUnknownOption, Heard
          <5>2. Len(inbound') = 0 /\ inbound' \in Seq(Fields)
            BY <1>1, <1>2, <2>2, <4>1, <5>1, ConsumeTypes
          <5>3. Chooses'
            BY <5>1, <5>2, EmptySeq DEF Chooses
          <5>4. QED
            BY <5>1, <5>3 DEF StepInv
        <4>4. CASE ParseShortOption
          <5>1. Consume(1) /\ client' = "waiting" /\ nego_state' = 3
            BY <2>5, <3>2, <4>4 DEF ParseShortOption, server, peer
          <5>2. /\ Len(inbound') = Len(inbound) - 1
                /\ \A i \in 1 .. Len(inbound') : inbound'[i] = inbound[i + 1]
            BY <1>1, <1>2, <2>2, <5>1, ConsumeTypes
          <5>3. \A i \in 1 .. Len(inbound') : i + 1 \in 2 .. Len(inbound)
            BY <2>2, <5>2
          <5>4. DataLeft'
            BY <4>1, <5>1, <5>2, <5>3 DEF DataLeft
          <5>5. QED
            BY <5>1, <5>4 DEF StepInv
        <4>5. QED
          BY <4>2, <4>3, <4>4
      <3>3. CASE DataLeft
        <4>1. nego_state = 3 /\ inbound[1].kind = "optdata"
          BY <2>2, <3>3 DEF DataLeft
        <4>2. FALSE
          BY <1>8, <4>1 DEF Negotiate, Parsing, ParseFlags, ParseMagic,
             ParseExportName, ParseAbort, ParseUnknownOption, ParseShortOption,
             ParseNameSize, ParseName, DropMessage, WinParseNameSize, WinParseName
        <4>3. QED
          BY <4>2
      <3>4. QED
        BY <1>8, <2>5, <3>1, <3>2, <3>3 DEF StepInv, Asks
    <2>6. CASE client = "naming"
      <3>1. CASE Asks("EXPORT_NAME") /\ nego_state \in {1, 2}
        BY <2>4, <2>6, <3>1 DEF StepInv
      <3>2. CASE Asks("EXPORT_NAME") /\ nego_state = 3
        <4>1. inbound[1].kind = "opt" /\ inbound[1].id = OptionCode["EXPORT_NAME"]
          BY <3>2 DEF Asks, OptionAt
        <4>2. ParseExportName
          BY <1>8, <3>2, <4>1 DEF Negotiate, Parsing, ParseFlags, ParseMagic,
             ParseUnknownOption, ParseShortOption, ParseAbort, ParseNameSize, ParseName,
             DropMessage, WinParseNameSize, WinParseName, OptionCode
        <4>3. client' = "naming" /\ nego_state' = 4
          BY <2>6, <4>2 DEF ParseExportName, peer
        <4>4. QED
          BY <4>3 DEF StepInv
      <3>3. CASE nego_state \in {4, 5}
        <4>1. ParseNameSize \/ ParseName \/ WinParseNameSize \/ WinParseName
          BY <1>8, <3>3 DEF Negotiate, Parsing, ParseFlags, ParseMagic,
             ParseExportName, ParseAbort, ParseUnknownOption, ParseShortOption,
             DropMessage
        <4>2. \/ client' = "naming" /\ nego_state' = 5
              \/ client' = "ready"
          BY <2>6, <4>1 DEF ParseNameSize, ParseName, WinParseNameSize, WinParseName,
             SendExport, Heard
        <4>3. QED
          BY <4>2, StepFree DEF StepInv
      <3>4. QED
        BY <1>8, <2>6, <3>1, <3>2, <3>3 DEF StepInv, Asks
    <2>7. QED
      BY <2>1, <2>3, <2>5, <2>6
  <1>9. QED
    BY <1>1, <1>3, <1>5, <1>7, <1>8

LEMMA TransmitInStep ==
    ASSUME IInv, StepInv, Transmit \/ ReceivePayload
    PROVE  StepInv'
  <1>1. nego_state \in {6, 7}
    BY DEF Transmit, ReceivePayload, Parsing, ParsingRequest, RejectRange, BeginWrite,
       HandleRead, HandleReadFails, HandleDisc, IgnoreCommand, RejectGarbage,
       DropPayload, WritePayload, WriteFails
  <1>2. UNCHANGED <<client, strayed>>
    BY DEF Transmit, RejectRange, BeginWrite,
       HandleRead, HandleReadFails, HandleDisc, IgnoreCommand, RejectGarbage,
       ReceivePayload, DropPayload, WritePayload, WriteFails, Received, peer, session
  <1>3. QED
    BY <1>1, <1>2, StepPast

LEMMA NextInStep == IInv /\ PhaseInv /\ StepInv /\ [Next]_vars => StepInv'
  <1>1. SUFFICES ASSUME IInv, PhaseInv, StepInv, [Next]_vars PROVE StepInv'
    OBVIOUS
  <1>2. CASE Connect \/ CloseDialog \/ LinkDown \/ Proxy
    BY <1>1, <1>2, ConnectInStep
  <1>3. CASE Client
    BY <1>1, <1>3, ClientInStep
  <1>4. CASE Negotiate
    BY <1>1, <1>4, NegotiateInStep
  <1>5. CASE Transmit \/ ReceivePayload
    BY <1>1, <1>5, TransmitInStep
  <1>6. CASE UNCHANGED vars
    BY <1>1, <1>6, StepSame DEF vars, server, peer, session
  <1>7. QED
    BY <1>1, <1>2, <1>3, <1>4, <1>5, <1>6 DEF Next, onBinaryMessageReceived

(* Client and server of the program for Linux agree on the phase: nobody   *)
(* is answered out of turn unless data was taken for an option, and a      *)
(* client that has its export has the padding it asked for from a server   *)
(* past the negotiation: for every menu of options and data, every cut     *)
(* into messages, and over reconnects.                                     *)
THEOREM PhaseAgreed == Spec => []SamePhase
  <1>1. Init => PhaseInv /\ StepInv
    BY DEF Init, PhaseInv, Negotiating, StepInv
  <1>2. PhaseInv /\ StepInv => SamePhase
    BY DEF PhaseInv, StepInv, SamePhase, Exported
  <1>3. QED
    BY <1>1, <1>2, Invariance, NextPhase, NextInStep, PTL DEF Spec
-----------------------------------------------------------------------------
(* The handlers of Windows: types.                                         *)

(* handle_read: the reply is out in any case, and some data behind it.     *)
LEMMA WinReadSends ==
    ASSUME TypeOK, WellFormed(inbound, reqs), WinRead
    PROVE  /\ nego_state = 6 /\ cut > 0 /\ dialog = "none" /\ inbound[1].kind = "req"
           /\ inbound[1].id \in 1 .. Len(reqs) /\ reqs[inbound[1].id].cmd = "READ"
           /\ Consume(1) /\ offset' \in Nat
           /\ UNCHANGED <<link, server, allowWrite, fh, image, damaged, dialog, peer,
                          session, build>>
           /\ \E d \in Messages : d.kind = "data" /\ Send(<<Reply(inbound[1].id), d>>)
  <1> DEFINE h == inbound[1].id
             r == Request
  <1>1. /\ WinReading
        /\ UNCHANGED <<link, server, allowWrite, fh, image, damaged, dialog, peer,
                       session, build>>
        /\ nego_state = 6 /\ cut > 0 /\ dialog = "none" /\ inbound[1].kind = "req"
        /\ ~BadLength(r) /\ r.cmd = "READ" /\ Consume(1)
    BY DEF WinRead, WinHandleRead, WinHandleReadFails, WinHandleReadShort,
       WinReading, ParsingRequest, Parsing
  <1>2. r \in Requests /\ h \in 1 .. Len(reqs) /\ r = reqs[h] /\ h \in Nat
    BY <1>1, RequestTypes, FirstField DEF Request
  <1>3. r.len \in 1 .. MaxCells /\ r.len \in Nat /\ r.from \in Nat
          /\ r.from + r.len <= FileCells
    BY <1>1, <1>2, InExport DEF Requests
  <1>4. ASSUME NEW v \in Seq(Value)
        PROVE  Message("data", h, v) \in Messages /\ Message("data", h, v).kind = "data"
    BY <1>2, MessageTypes DEF Message
  <1>5. CASE WinHandleRead
    <2>1. /\ Send(<<Reply(h), Message("data", h, ReadData(r, r.len))>>)
          /\ offset' = r.from + r.len
      BY <1>5 DEF WinHandleRead
    <2>2. Message("data", h, ReadData(r, r.len)) \in Messages
      BY <1>1, <1>2, <1>3, ReadTypes
    <2>3. Message("data", h, ReadData(r, r.len)).kind = "data"
      BY DEF Message
    <2> DEFINE d == Message("data", h, ReadData(r, r.len))
    <2>4. d \in Messages /\ d.kind = "data" /\ Send(<<Reply(h), d>>)
      BY <2>1, <2>2, <2>3
    <2> HIDE DEF d
    <2>5. offset' \in Nat
      BY <1>3, <2>1
    <2>6. QED
      BY <1>1, <1>2, <2>4, <2>5
  <1>6. CASE WinHandleReadFails
    <2>1. Send(<<Reply(h), Message("data", h, << >>)>>) /\ offset' = r.from
      BY <1>6 DEF WinHandleReadFails
    <2>2. << >> \in Seq(Value)
      OBVIOUS
    <2>3. QED
      BY <1>1, <1>2, <1>3, <1>4, <2>1, <2>2
  <1>7. CASE WinHandleReadShort
    <2> DEFINE D(n) == [i \in 1 .. r.len |-> IF i <= n THEN image[r.from + i - 1]
                                                       ELSE <<0, -1>>]
    <2>1. PICK n \in 0 .. r.len - 1 :
             /\ Send(<<Reply(h), Message("data", h, D(n))>>)
             /\ offset' = r.from + n
      BY <1>7 DEF WinHandleReadShort
    <2>2. D(n) \in [1 .. r.len -> Value]
      <3>1. \A i \in 1 .. r.len : r.from + i - 1 \in Cells
        BY <1>3, ConstantsAssumption DEF Cells, ConstantsAssumption
      <3>2. \A i \in 1 .. r.len : image[r.from + i - 1] \in Value
        BY <3>1 DEF TypeOK
      <3>3. <<0, -1>> \in Value
        BY DEF Value
      <3>4. QED
        BY <3>2, <3>3
    <2>3. D(n) \in Seq(Value)
      BY <1>3, <2>2, FunctionIsSeq
    <2> HIDE DEF D
    <2>4. offset' \in Nat
      BY <1>3, <2>1
    <2> DEFINE d == Message("data", h, D(n))
    <2>5. d \in Messages /\ d.kind = "data" /\ Send(<<Reply(h), d>>)
      BY <1>4, <2>1, <2>3
    <2> HIDE DEF d
    <2>6. QED
      BY <1>1, <1>2, <2>4, <2>5
  <1>8. QED
    BY <1>5, <1>6, <1>7 DEF WinRead

(* A fault of a write, and what WriteFile stored before it.                *)
LEMMA WinStoredFacts ==
    ASSUME TypeOK, cut > 0, NEW n \in 0 .. pass_write
    PROVE  /\ n \in Nat /\ WinStored(n) \in [Cells -> Value]
           /\ \A c \in Cells :
                 WinStored(n)[c] =
                    IF offset <= c /\ c < offset + n
                      THEN <<inbound[c - offset + 1].id, inbound[c - offset + 1].n>>
                      ELSE image[c]
           /\ \A c \in Cells : offset <= c /\ c < offset + n =>
                 c - offset \in Nat /\ c - offset < pass_write
                   /\ c - offset + 1 \in 1 .. cut
  <1>1. pass_write \in 0 .. cut /\ cut \in 1 .. Len(inbound) /\ offset \in Nat
          /\ cut \in Nat /\ pass_write \in Nat
    BY PassTypes DEF TypeOK
  <1>2. n \in Nat /\ n <= pass_write
    BY <1>1
  <1>3. \A c \in Cells : offset <= c /\ c < offset + n =>
           c - offset \in Nat /\ c - offset < pass_write /\ c - offset + 1 \in 1 .. cut
    BY <1>1, <1>2 DEF Cells
  <1>4. \A j \in 1 .. cut : <<inbound[j].id, inbound[j].n>> \in Value
    BY FirstField DEF Value, Fields
  <1>5. image \in [Cells -> Value]
    BY DEF TypeOK
  <1>6. QED
    BY <1>2, <1>3, <1>4, <1>5 DEF WinStored

LEMMA ErrorReplyFacts ==
    ASSUME NEW h \in Nat
    PROVE  /\ ErrorReply(h) \in Messages /\ IsReply(ErrorReply(h))
           /\ ErrorReply(h).id = h /\ ErrorReply(h).vals # << >>
  <1>1. <<<<1, 0>>>> \in Seq(Value) /\ <<<<1, 0>>>> # << >>
    BY DEF Value
  <1>2. QED
    BY <1>1, MessageTypes DEF ErrorReply, Message, IsReply

LEMMA WinTypes ==
    ASSUME TypeOK, WellFormed(inbound, reqs),
           \/ WinConnected \/ WinConnectedNoDevice \/ WinParseNameSize \/ WinParseName
           \/ WinRead \/ WinReadOverruns \/ WinWritePayload \/ WinWriteFails
    PROVE  TypeOK'
  <1>1. /\ wire \in Seq(Messages) /\ << >> \in Seq(Fields) /\ Len(<< >>) = 0 /\ cut \in Nat
        /\ allowWrite \in BOOLEAN /\ write_handle \in Nat /\ write_len \in Nat
        /\ image \in [Cells -> Value] /\ offset \in Nat
        /\ damaged \subseteq (Nat \X {"dropped", "shifted", "failed"})
    BY DEF TypeOK
  <1>2. CASE WinConnected
    <2>1. wire' \in Seq(Messages)
      BY <1>1, <1>2, PlainMessages DEF WinConnected
    <2>2. QED
      <3>1. strayed' \in BOOLEAN
        BY <1>2 DEF WinConnected
      <3>2. QED
        BY <1>1, <1>2, <2>1, <3>1 DEF WinConnected, TypeOK, write, asked
  <1>3. CASE WinConnectedNoDevice
    <2>1. UNCHANGED <<nego_state, glob_flags, write_from, write_len, write_handle,
              image, damaged, client, noZeroes, reqs, options, cut, wire, dialog,
              allowWrite>>
      BY <1>3 DEF WinConnectedNoDevice, server, write, peer, asked
    <2>2. link' = "up" /\ fh' \in {"open", "closed"} /\ offset' = 0
            /\ sessions' = sessions + 1 /\ cut = 0 /\ inbound' = << >>
      BY <1>3 DEF WinConnectedNoDevice
    <2>3. strayed' \in BOOLEAN
      BY <1>3 DEF WinConnectedNoDevice
    <2>4. QED
      BY <1>1, <2>1, <2>2, <2>3 DEF TypeOK
  <1>4. CASE WinParseNameSize \/ WinParseName
    <2>1. /\ cut > 0 /\ cut \in 0 .. cut /\ 1 \in 0 .. cut
          /\ \E k \in 0 .. cut : Consume(k)
          /\ UNCHANGED <<link, glob_flags, write, device, dialog, asked, session>>
      BY <1>1, <1>4, NameConsumed DEF WinParseNameSize, WinParseName, Parsing
    <2>2. LockVolume => allowWrite' \in BOOLEAN
      BY <1>1 DEF LockVolume
    <2>3. SendExport => wire' \in Seq(Messages) /\ nego_state' = 6
                          /\ client' \in {client, "ready", "misled"}
      BY <1>1, PlainMessages, SendTypes, HeardClients DEF SendExport, ZeroPad
    <2>4. /\ wire' \in Seq(Messages) /\ nego_state' \in {5, 6}
          /\ client' \in {client, "ready", "misled"} /\ allowWrite' \in BOOLEAN
      BY <1>1, <1>4, <2>2, <2>3 DEF WinParseNameSize, WinParseName
    <2>5. inbound' \in Seq(Fields) /\ cut' \in 0 .. Len(inbound')
      BY <2>1, ConsumeTypes
    <2>6. QED
      BY <2>1, <2>4, <2>5 DEF TypeOK, write, device, asked, session
  <1>5. CASE WinRead
    <2>1. PICK d \in Messages : Send(<<Reply(inbound[1].id), d>>)
      BY <1>5, WinReadSends
    <2>2. inbound[1].id \in Nat /\ 1 \in 0 .. cut /\ Reply(inbound[1].id) \in Messages
      BY <1>1, <1>5, WinReadSends, FirstField, PlainMessages
    <2>3. wire' \in Seq(Messages)
      BY <1>1, <2>1, <2>2, SendTypes
    <2>4. inbound' \in Seq(Fields) /\ cut' \in 0 .. Len(inbound')
      BY <1>5, <2>2, WinReadSends, ConsumeTypes
    <2>5. /\ offset' \in Nat
          /\ UNCHANGED <<link, server, allowWrite, fh, image, damaged, dialog, peer,
                         session>>
      BY <1>5, WinReadSends
    <2>6. QED
      BY <2>3, <2>4, <2>5 DEF TypeOK, server, write, peer, asked, session
  <1>6. CASE WinReadOverruns
    BY <1>6 DEF WinReadOverruns, TypeOK, server, write, device, asked,
         session
  <1>7. ASSUME cut > 0, Consume(pass_write), NEW n \in 0 .. pass_write,
               image' = WinStored(n), offset' = offset + n,
               nego_state' \in 0 .. 7, write_len' \in Nat, wire' \in Seq(Messages),
               damaged' \subseteq (Nat \X {"dropped", "shifted", "failed"}),
               UNCHANGED <<link, glob_flags, write_from, write_handle, allowWrite,
                           fh, dialog, peer, session>>
        PROVE  TypeOK'
    <2>1. image' \in [Cells -> Value] /\ offset' \in Nat
      BY <1>1, <1>7, WinStoredFacts
    <2>2. inbound' \in Seq(Fields) /\ cut' \in 0 .. Len(inbound')
      BY <1>7, PassTypes, ConsumeTypes
    <2>3. QED
      BY <1>7, <2>1, <2>2 DEF TypeOK, peer, asked, session
  <1>8. CASE WinWritePayload
    <2>1. /\ nego_state = 7 /\ cut > 0 /\ Received
          /\ image' = WinStored(pass_write) /\ offset' = offset + pass_write
          /\ UNCHANGED <<link, glob_flags, write_from, write_handle, allowWrite, fh,
                         damaged, dialog, peer, session>>
      BY <1>8 DEF WinWritePayload, Parsing
    <2>2. pass_write \in 0 .. pass_write /\ pass_write <= write_len /\ pass_write \in Nat
      BY <1>1, <2>1, PassTypes
    <2>3. /\ Consume(pass_write) /\ nego_state' \in 0 .. 7 /\ write_len' \in Nat
          /\ wire' \in Seq(Messages)
      BY <1>1, <2>1, <2>2, PlainMessages, SendTypes DEF Received
    <2>4. QED
      BY <1>1, <1>7, <2>1, <2>2, <2>3
  <1>9. CASE WinWriteFails
    <2>1. PICK n \in 0 .. pass_write - 1 : image' = WinStored(n) /\ offset' = offset + n
      BY <1>9 DEF WinWriteFails
    <2>2. /\ cut > 0 /\ Consume(pass_write) /\ nego_state' = 6 /\ Damage("failed")
          /\ Send(<<ErrorReply(write_handle)>>)
          /\ UNCHANGED <<link, glob_flags, write_from, write_len, write_handle, allowWrite,
                         fh, dialog, peer, session>>
      BY <1>9 DEF WinWriteFails, Parsing, write
    <2>3. n \in 0 .. pass_write
      BY <2>1, <2>2, PassTypes
    <2>4. wire' \in Seq(Messages)
      BY <1>1, <2>2, ErrorReplyFacts, SendTypes
    <2>5. damaged' \subseteq (Nat \X {"dropped", "shifted", "failed"})
      BY <1>1, <2>2 DEF Damage
    <2>6. QED
      BY <1>1, <1>7, <2>1, <2>2, <2>3, <2>4, <2>5
  <1>10. QED
    BY <1>2, <1>3, <1>4, <1>5, <1>6, <1>8, <1>9
-----------------------------------------------------------------------------
(* The handlers of Windows: what is received, stored and answered.         *)

(* While payload is received, what WriteFile stores of it is where it      *)
(* belongs.                                                                *)
LEMMA WinStoredInSync ==
    ASSUME IInv, cut > 0, nego_state = 7, NEW n \in 0 .. pass_write, NEW c \in Cells
    PROVE  WinStored(n)[c] = IF offset <= c /\ c < offset + n
                               THEN <<write_handle, Got + (c - offset)>> ELSE image[c]
  <1>1. TypeOK /\ Receiving
    BY OutputInSync DEF IInv
  <1>2. /\ write_len \in Nat /\ pass_write \in Nat /\ pass_write <= write_len
        /\ Pending.len \in Nat
        /\ \A i \in 1 .. write_len : inbound[i] = Field("cell", write_handle, Got + i - 1)
    <2>1. pass_write \in Nat /\ pass_write <= write_len /\ write_len \in Nat
      BY <1>1, PassTypes DEF TypeOK
    <2>2. Pending.len \in Nat
      BY <1>1, SentRequest DEF IInv, PayloadInSync, Pending, TypeOK
    <2>3. QED
      BY <1>1, <2>1, <2>2 DEF IInv, PayloadInSync, Got
  <1>3. Got \in Int
    BY <1>2 DEF Got
  <1>4. CASE offset <= c /\ c < offset + n
    <2>1. c - offset \in Nat /\ c - offset + 1 \in 1 .. write_len
      BY <1>1, <1>2, <1>4, WinStoredFacts
    <2>2. inbound[c - offset + 1] = Field("cell", write_handle, Got + (c - offset + 1) - 1)
      BY <1>2, <2>1
    <2>3. Got + (c - offset + 1) - 1 = Got + (c - offset)
      BY <1>3, <2>1
    <2>4. /\ inbound[c - offset + 1].id = write_handle
          /\ inbound[c - offset + 1].n = Got + (c - offset)
      BY <2>2, <2>3 DEF Field
    <2>5. QED
      BY <1>1, <1>4, <2>4, WinStoredFacts
  <1>5. CASE ~(offset <= c /\ c < offset + n)
    BY <1>1, <1>5, WinStoredFacts
  <1>6. QED
    BY <1>4, <1>5

LEMMA WinPayloadStep ==
    ASSUME IInv, WinWritePayload \/ WinWriteFails
    PROVE  IInv'
  <1> DEFINE h == write_handle
             n == pass_write
  <1>1. /\ TypeOK /\ TypeOK' /\ nego_state = 7 /\ cut > 0 /\ Receiving
        /\ write_len \in Nat /\ h \in Nat /\ offset \in Nat
    BY WinTypes, OutputInSync DEF IInv, TypeOK, WinWritePayload, WinWriteFails, Parsing
  <1>2. n \in 1 .. write_len /\ n \in Nat /\ n \in 0 .. n
    <2>1. write_len > 0
      BY <1>1 DEF IInv, PayloadInSync
    <2>2. QED
      BY <1>1, <2>1, PassTypes
  <1>3. Reply(h) \in Messages /\ IsReply(Reply(h)) /\ Reply(h).id = h
    BY <1>1, PlainMessages DEF Reply, Message, IsReply
  <1>4. ASSUME NEW w \in 0 .. n, image' = WinStored(w)
        PROVE  \A c \in Cells : image'[c] = IF offset <= c /\ c < offset + w
                                              THEN <<h, Got + (c - offset)>> ELSE image[c]
    BY <1>1, <1>4, WinStoredInSync
  <1>5. CASE WinWritePayload
    <2>1. /\ Received /\ image' = WinStored(n) /\ offset' = offset + n
          /\ UNCHANGED <<write_from, write_handle, reqs, link, client, dialog, damaged>>
      BY <1>5 DEF WinWritePayload, peer, asked
    <2>2. \A c \in Cells : image'[c] = IF offset <= c /\ c < offset + n
                                         THEN <<h, Got + (c - offset)>> ELSE image[c]
      BY <1>2, <1>4, <2>1
    <2>3. \A g : IntactNext(g) <=> Intact(g)
      BY <2>1 DEF IntactNext, Intact
    <2>4. /\ Consume(n) /\ write_len' <= write_len /\ write_len' = write_len - n
          /\ \/ nego_state' = 7 /\ n < write_len /\ UNCHANGED wire
             \/ /\ nego_state' = 6 /\ n = write_len
                /\ wire' = wire \/ wire' = wire \o <<Reply(h)>>
      BY <1>1, <1>2, <2>1 DEF Received, Send
    <2> HIDE DEF n
    <2>5. \A c \in Cells : image'[c] = image[c] \/ image'[c][1] = h
      <3>1. TAKE c \in Cells
      <3>2. CASE offset <= c /\ c < offset + n
        <4>1. image'[c] = <<h, Got + (c - offset)>>
          BY <2>2, <3>2
        <4>2. QED
          BY <4>1
      <3>3. CASE ~(offset <= c /\ c < offset + n)
        BY <2>2, <3>3
      <3>4. QED
        BY <3>2, <3>3
    <2>6. IntactNext(h) =>
            /\ Intact(h) /\ offset' = offset + n /\ write_len' = write_len - n
            /\ \A c \in Cells : image'[c] = IF offset <= c /\ c < offset + n
                                              THEN <<h, Got + (c - offset)>> ELSE image[c]
      BY <2>1, <2>2, <2>3, <2>4
    <2>7. \/ /\ nego_state' = 7 /\ n < write_len
             /\ write_len' = write_len - n /\ UNCHANGED wire
          \/ /\ nego_state' = 6 /\ n = write_len
             /\ \E m \in Messages : /\ IsReply(m) /\ m.id = h
                                    /\ wire' = wire \/ wire' = wire \o <<m>>
      BY <1>3, <2>4
    <2>8. Effects
      BY <2>1, <2>3, <2>4, <2>5, <2>6, <2>7 DEF Effects, n
    <2>9. QED
      BY <1>1, <2>8, EffectsStep
  <1>6. CASE WinWriteFails
    <2>1. PICK w \in 0 .. n - 1 : image' = WinStored(w)
      BY <1>6 DEF WinWriteFails
    <2>2. w \in 0 .. n
      BY <1>2, <2>1
    <2>3. \A c \in Cells : image'[c] = image[c] \/ image'[c][1] = h
      <3>1. TAKE c \in Cells
      <3>2. image'[c] = IF offset <= c /\ c < offset + w
                          THEN <<h, Got + (c - offset)>> ELSE image[c]
        BY <1>4, <2>1, <2>2
      <3>3. CASE offset <= c /\ c < offset + w
        <4>1. image'[c] = <<h, Got + (c - offset)>>
          BY <3>2, <3>3
        <4>2. QED
          BY <4>1
      <3>4. CASE ~(offset <= c /\ c < offset + w)
        BY <3>2, <3>4
      <3>5. QED
        BY <3>3, <3>4
    <2>4. /\ Consume(n) /\ nego_state' = 6 /\ Damage("failed")
          /\ Send(<<ErrorReply(h)>>)
          /\ UNCHANGED <<write_from, write_len, write_handle, reqs, link, client, dialog>>
      BY <1>6 DEF WinWriteFails, write, peer, asked
    <2>5. ~IntactNext(h) /\ \A g : g # h => (IntactNext(g) <=> Intact(g))
      BY <2>4 DEF Damage, IntactNext, Intact
    <2>6. /\ ErrorReply(h) \in Messages /\ IsReply(ErrorReply(h)) /\ ErrorReply(h).id = h
          /\ wire' = wire \/ wire' = wire \o <<ErrorReply(h)>>
      BY <1>1, <2>4, ErrorReplyFacts DEF Send
    <2>7. write_len' <= write_len
      BY <1>1, <2>4
    <2> HIDE DEF n
    <2>8. Effects
      BY <2>3, <2>4, <2>5, <2>6, <2>7 DEF Effects, n
    <2>9. QED
      BY <1>1, <2>8, EffectsStep
  <1>7. QED
    BY <1>5, <1>6

(* The other handlers.                                                     *)
LEMMA WinStep ==
    ASSUME IInv, \/ WinConnected \/ WinConnectedNoDevice \/ WinParseNameSize
                 \/ WinParseName \/ WinRead \/ WinReadOverruns
    PROVE  IInv'
  <1>1. TypeOK /\ TypeOK' /\ WellFormed(inbound, reqs) /\ cut \in Nat
    BY SMTT(30), WinTypes DEF IInv, TypeOK
  <1>2. CASE WinConnected
    <2>1. /\ inbound' = << >> /\ link = "down" /\ link' = "up" /\ dialog' = "none"
          /\ nego_state' = 1
          /\ UNCHANGED <<write_len, reqs, image, damaged>>
          /\ wire' = wire \o <<Message("greeting", 0, << >>)>>
      BY <1>2 DEF WinConnected, write, asked
    <2>2. Silent' /\ ~Receiving'
      BY <2>1 DEF Silent, Receiving
    <2>3. QED
      BY <1>1, <2>1, <2>2, GreetedStep
  <1>3. CASE WinConnectedNoDevice
    <2>1. /\ inbound' = << >> /\ link = "down" /\ link' = "up" /\ dialog' = "none"
          /\ UNCHANGED <<write_len, reqs, image, damaged, client, wire>>
      BY <1>3 DEF WinConnectedNoDevice, server, write, peer, asked
    <2>2. Silent' /\ ~Receiving'
      BY <2>1 DEF IInv, Silent, Receiving
    <2>3. QED
      BY <1>1, <2>1, <2>2, GreetedStep
  <1>4. CASE WinParseNameSize \/ WinParseName
    <2> DEFINE E == Message("export", IF glob_flags THEN 0 ELSE ZeroPad, << >>)
    <2>1. E \in Messages /\ ~IsReply(E)
      <3>1. (IF glob_flags THEN 0 ELSE ZeroPad) \in Nat
        BY DEF ZeroPad
      <3>2. QED
        BY <3>1, PlainMessages DEF IsReply, Message
    <2>2. /\ nego_state \in 4 .. 5 /\ nego_state' \in 5 .. 6 /\ cut > 0
          /\ dialog' = "none"
          /\ UNCHANGED <<write, reqs, image, damaged, link>>
          /\ client = "off" => client' = "off"
          /\ TakeNameSize \/ TakeName
          /\ wire' = wire \/ wire' = wire \o <<E>>
      BY <1>4, HeardClients
      DEF WinParseNameSize, WinParseName, Parsing, SendExport, Send, device, asked
    <2> HIDE DEF E
    <2>3. \E k \in 0 .. cut : Consume(k)
      BY <1>1, <2>2, NameConsumed
    <2>4. QED
      BY <1>1, <2>1, <2>2, <2>3, NegotiatedStep
  <1>5. CASE WinRead
    <2>1. /\ nego_state = 6 /\ cut > 0 /\ dialog = "none" /\ inbound[1].kind = "req"
          /\ reqs[inbound[1].id].cmd # "WRITE" /\ Consume(1)
          /\ UNCHANGED <<link, server, image, damaged, dialog, peer>>
      BY <1>1, <1>5, WinReadSends
    <2>2. PICK d \in Messages : d.kind = "data" /\ Send(<<Reply(inbound[1].id), d>>)
      BY <1>1, <1>5, WinReadSends
    <2>3. UNCHANGED <<link, nego_state, write_len, reqs, image, damaged, dialog, client>>
      BY <2>1 DEF server, write, peer, asked
    <2>4. Silent' /\ ~Receiving'
      BY <2>1, <2>3 DEF IInv, Silent, Receiving
    <2>5. QED
      BY <1>1, <2>1, <2>2, <2>3, <2>4, ReadStep DEF IsReply
  <1>6. CASE WinReadOverruns
    <2>1. /\ link' = "down" /\ client' = "off"
          /\ UNCHANGED <<nego_state, write, offset, image, damaged, reqs, inbound, wire,
                         dialog>>
      BY <1>6 DEF WinReadOverruns, server, device, asked
    <2>2. Silent'
      BY <2>1 DEF IInv, Silent
    <2>3. QED
      BY <1>1, <2>1, <2>2, StillStep
  <1>7. QED
    BY <1>2, <1>3, <1>4, <1>5, <1>6

(* What onBinaryMessageReceived shares with the program for Linux.         *)
LEMMA WinCases ==
    ASSUME WinNext
    PROVE  \/ CloseDialog \/ LinkDown \/ Proxy
           \/ Client
           \/ Negotiate
           \/ Transmit
           \/ DropPayload
           \/ WinWritePayload \/ WinWriteFails
           \/ \/ WinConnected \/ WinConnectedNoDevice \/ WinParseNameSize
              \/ WinParseName \/ WinRead \/ WinReadOverruns
  BY DEF WinNext, WinNegotiate, WinTransmit, WinReceivePayload, Negotiate, Transmit

LEMMA WinNextInv ==
    ASSUME IInv, WinNext
    PROVE  IInv'
  <1>1. CASE CloseDialog \/ LinkDown \/ Proxy
    BY <1>1, ConnectStep
  <1>2. CASE Client
    BY <1>2, ClientStep
  <1>3. CASE Negotiate
    BY <1>3, NegotiateStep
  <1>4. CASE Transmit
    BY <1>4, TransmitStep, BeginWriteStep
  <1>5. CASE DropPayload
    BY <1>5, PayloadStep DEF ReceivePayload
  <1>6. CASE WinWritePayload \/ WinWriteFails
    BY <1>6, WinPayloadStep
  <1>7. CASE \/ WinConnected \/ WinConnectedNoDevice \/ WinParseNameSize
             \/ WinParseName \/ WinRead \/ WinReadOverruns
    BY <1>7, WinStep
  <1>8. QED
    BY <1>1, <1>2, <1>3, <1>4, <1>5, <1>6, <1>7, WinCases
-----------------------------------------------------------------------------
(* The end of the negotiation on Windows.                                  *)
LEMMA WinNextPhase ==
    ASSUME IInv, PhaseInv, WinNext
    PROVE  PhaseInv'
  <1>1. TypeOK /\ WellFormed(inbound, reqs) /\ write_handle \in Nat
    BY DEF IInv, TypeOK
  <1>2. ASSUME client' = "off" PROVE PhaseInv'
    BY <1>2 DEF PhaseInv, Negotiating
  <1>3. CASE WinConnected
    BY <1>3 DEF WinConnected, PhaseInv, Negotiating
  <1>4. CASE WinConnectedNoDevice
    <2>1. client' = "off"
      BY <1>4 DEF WinConnectedNoDevice, peer, IInv, Silent
    <2>2. QED
      BY <1>2, <2>1
  <1>5. CASE WinParseNameSize \/ WinParseName
    <2>1. /\ nego_state \in {4, 5} /\ cut > 0 /\ UNCHANGED <<glob_flags, noZeroes>>
          /\ \/ SendExport
             \/ nego_state = 4 /\ nego_state' = 5 /\ UNCHANGED <<client, wire>>
      BY <1>5 DEF WinParseNameSize, WinParseName, Parsing, asked
    <2>2. CASE SendExport
      BY <2>1, <2>2, ExportPhase
    <2>3. CASE nego_state = 4 /\ nego_state' = 5 /\ UNCHANGED <<client, wire>>
      BY <2>1, <2>3 DEF PhaseInv, Negotiating
    <2>4. QED
      BY <2>1, <2>2, <2>3
  <1>6. CASE WinRead
    <2>1. /\ nego_state = 6 /\ cut > 0 /\ inbound[1].id \in Nat
          /\ UNCHANGED <<nego_state, client, noZeroes>>
      BY <1>1, <1>6, WinReadSends, FirstField DEF server, peer, asked
    <2>2. PICK d \in Messages : d.kind = "data" /\ Send(<<Reply(inbound[1].id), d>>)
      BY <1>1, <1>6, WinReadSends
    <2>3. Reply(inbound[1].id) \in Messages /\ Reply(inbound[1].id).kind = "reply"
      BY <2>1, PlainMessages DEF Reply, Message
    <2>4. AnswersSent
      BY <2>2, <2>3, TwoAnswers
    <2>5. QED
      BY <2>1, <2>4, AnsweredPhase
  <1>7. CASE WinReadOverruns
    BY <1>2, <1>7 DEF WinReadOverruns
  <1>8. CASE WinWritePayload \/ WinWriteFails
    <2>1. /\ nego_state = 7 /\ cut > 0 /\ nego_state' \in {6, 7}
          /\ UNCHANGED <<client, noZeroes>>
          /\ wire' = wire \/ (\E m \in {Reply(write_handle), ErrorReply(write_handle)} :
                                 Send(<<m>>))
      BY <1>8 DEF WinWritePayload, WinWriteFails, Parsing, Received, peer, asked
    <2>2. \A m \in {Reply(write_handle), ErrorReply(write_handle)} :
             m \in Messages /\ m.kind = "reply"
      BY <1>1, PlainMessages, ErrorReplyFacts DEF Reply, ErrorReply, Message
    <2>3. AnswersSent
      BY <2>1, <2>2, OneAnswer DEF AnswersSent
    <2>4. QED
      BY <2>1, <2>3, AnsweredPhase
  <1>9. CASE CloseDialog \/ LinkDown \/ Proxy
    BY <1>9, ConnectPhase
  <1>10. CASE Client
    BY <1>10, ClientPhase
  <1>11. CASE Negotiate
    BY <1>11, NegotiatePhase
  <1>12. CASE Transmit \/ DropPayload
    BY <1>12, TransmitPhase DEF ReceivePayload
  <1>13. QED
    BY <1>3, <1>4, <1>5, <1>6, <1>7, <1>8, <1>9, <1>10, <1>11, <1>12, WinCases

LEMMA WinNextInStep ==
    ASSUME IInv, PhaseInv, StepInv, WinNext
    PROVE  StepInv'
  <1>1. TypeOK /\ WellFormed(inbound, reqs)
    BY DEF IInv
  <1>2. CASE CloseDialog \/ LinkDown \/ Proxy \/ WinConnected \/ WinConnectedNoDevice
    BY <1>2, ConnectInStep
  <1>3. CASE Client
    BY <1>3, ClientInStep
  <1>4. CASE Negotiate \/ WinParseNameSize \/ WinParseName
    BY <1>4, NegotiateInStep
  <1>5. CASE Transmit \/ DropPayload
    BY <1>5, TransmitInStep DEF ReceivePayload
  <1>6. CASE WinRead
    BY <1>1, <1>6, WinReadSends, StepPast DEF server, peer, session
  <1>7. CASE WinReadOverruns
    BY <1>7, StepFree DEF WinReadOverruns
  <1>8. CASE WinWritePayload \/ WinWriteFails
    BY <1>8, StepPast DEF WinWritePayload, WinWriteFails, Parsing, peer, session
  <1>9. QED
    BY <1>2, <1>3, <1>4, <1>5, <1>6, <1>7, <1>8, WinCases
-----------------------------------------------------------------------------
(* What Windows answers without an error is stored.                        *)

(* Write h is over: what is received or read from the stream is newer.     *)
Passed(h) ==
    /\ h \in 1 .. Len(reqs)
    /\ Later(inbound, h)
    /\ Receiving => h < write_handle

(* Nothing is stored at a wrong place, and a write that failed is over,    *)
(* and its only answer is the error.                                       *)
WinInv ==
    build = "windows" =>
        /\ \A d \in damaged : d[2] # "shifted" /\ (d[2] = "failed" => Passed(d[1]))
        /\ \A i \in 1 .. Len(wire) :
              IsReply(wire[i]) /\ wire[i].vals = << >>
                 => <<wire[i].id, "failed">> \notin damaged

(* What is over stays over when the stream is consumed up to the write     *)
(* that is received next.                                                  *)
LEMMA PassedConsume ==
    ASSUME IInv, NEW k \in 0 .. Len(inbound),
           inbound' = SubSeq(inbound, k + 1, Len(inbound)), UNCHANGED reqs,
           \/ ~Receiving'
           \/ Receiving /\ UNCHANGED write_handle
           \/ inbound # << >> /\ inbound[1].kind = "req" /\ write_handle' = inbound[1].id,
           NEW h, Passed(h)
    PROVE  Passed(h)'
  <1>1. inbound \in Seq(Fields) /\ h \in 1 .. Len(reqs) /\ h \in Int
    BY DEF IInv, TypeOK, Passed
  <1>2. /\ Len(inbound') = Len(inbound) - k /\ inbound' \in Seq(Fields)
        /\ \A i \in 1 .. Len(inbound') : inbound'[i] = inbound[i + k]
    BY <1>1, SuffixTypes
  <1>3. Later(inbound', h)
    BY <1>1, <1>2, SuffixStream DEF Passed
  <1>4. Receiving' => h < write_handle'
    <2>1. inbound # << >> /\ inbound[1].kind = "req" => h < inbound[1].id
      <3>1. inbound # << >> => 1 \in 1 .. Len(inbound)
        BY <1>1
      <3>2. QED
        BY <3>1 DEF Passed, Later, IsReq
    <2>2. QED
      BY <2>1 DEF Passed
  <1>5. QED
    BY <1>1, <1>3, <1>4 DEF Passed, Later, IsReq

(* Nothing fails, and only a write that is not over is answered.           *)
LEMMA WinKept ==
    ASSUME IInv, WinInv, build = "windows",
           damaged' \subseteq damaged \cup {<<write_handle, "dropped">>},
           \A h : Passed(h) => Passed(h)',
           NEW u \in Seq(Messages), wire' = wire \/ wire' = wire \o u,
           \A i \in 1 .. Len(u) : IsReply(u[i]) => ~Passed(u[i].id)
    PROVE  WinInv'
  <1>1. wire \in Seq(Messages)
    BY DEF IInv, TypeOK
  <1>2. /\ \A d \in damaged : d[2] # "shifted" /\ (d[2] = "failed" => Passed(d[1]))
        /\ \A i \in 1 .. Len(wire) :
              IsReply(wire[i]) /\ wire[i].vals = << >>
                 => <<wire[i].id, "failed">> \notin damaged
    BY DEF WinInv
  <1>3. ASSUME NEW d \in damaged'
        PROVE  d[2] # "shifted" /\ (d[2] = "failed" => d \in damaged /\ Passed(d[1])')
    <2>1. CASE d \in damaged
      BY <1>2, <2>1
    <2>2. CASE d = <<write_handle, "dropped">>
      BY <2>2
    <2>3. QED
      BY <2>1, <2>2
  <1>4. \A g : <<g, "failed">> \in damaged' => <<g, "failed">> \in damaged
    <2>1. \A g : <<g, "failed">>[2] = "failed"
      OBVIOUS
    <2>2. QED
      BY <1>3, <2>1
  <1>5. ASSUME NEW i \in 1 .. Len(wire'), IsReply(wire'[i]), wire'[i].vals = << >>
        PROVE  <<wire'[i].id, "failed">> \notin damaged'
    <2>1. CASE i \in 1 .. Len(wire) /\ wire'[i] = wire[i]
      BY <1>2, <1>4, <1>5, <2>1
    <2>2. CASE ~(i \in 1 .. Len(wire) /\ wire'[i] = wire[i])
      <3>1. i - Len(wire) \in 1 .. Len(u) /\ wire'[i] = u[i - Len(wire)]
        BY <1>1, <2>2
      <3>2. ~Passed(wire'[i].id)
        BY <1>5, <3>1
      <3>3. <<wire'[i].id, "failed">> \notin damaged
        <4> DEFINE d == <<wire'[i].id, "failed">>
        <4>1. d[1] = wire'[i].id /\ d[2] = "failed"
          OBVIOUS
        <4> HIDE DEF d
        <4>2. d \notin damaged
          BY <1>2, <3>2, <4>1
        <4>3. QED
          BY <4>2 DEF d
      <3>4. QED
        BY <1>4, <3>3
    <2>3. QED
      BY <2>1, <2>2
  <1>6. QED
    BY <1>3, <1>5 DEF WinInv, IsReply

(* The same when nothing is sent.                                          *)
LEMMA WinQuiet ==
    ASSUME IInv, WinInv, build = "windows",
           damaged' \subseteq damaged \cup {<<write_handle, "dropped">>},
           \A h : Passed(h) => Passed(h)', UNCHANGED wire
    PROVE  WinInv'
  <1> DEFINE u == << >>
  <1>1. u \in Seq(Messages) /\ \A i \in 1 .. Len(u) : FALSE
    OBVIOUS
  <1> HIDE DEF u
  <1>2. \A i \in 1 .. Len(u) : IsReply(u[i]) => ~Passed(u[i].id)
    BY <1>1
  <1>3. QED
    BY <1>1, <1>2, WinKept

(* A write that is received or a request that is parsed is not over.       *)
LEMMA NotPassed ==
    ASSUME TypeOK, cut > 0
    PROVE  /\ nego_state = 7 => ~Passed(write_handle)
           /\ inbound[1].kind = "req" => ~Passed(inbound[1].id)
  <1>1. 1 \in 1 .. Len(inbound) /\ inbound # << >> /\ inbound[1].id \in Nat
          /\ write_handle \in Nat
    BY FirstField DEF TypeOK
  <1>2. QED
    BY <1>1 DEF Passed, Receiving, Later, IsReq

(* A write that fails is answered with the error and is over at once.      *)
LEMMA WinFailed ==
    ASSUME IInv, WinInv, IInv', build = "windows", WinWriteFails
    PROVE  WinInv'
  <1> DEFINE h == write_handle
             e == ErrorReply(h)
  <1>1. /\ TypeOK /\ inbound \in Seq(Fields) /\ wire \in Seq(Messages) /\ cut \in Nat
        /\ nego_state = 7 /\ cut > 0 /\ h \in Nat /\ Receiving
        /\ e \in Messages /\ e.vals # << >>
    <2>1. TypeOK /\ nego_state = 7 /\ cut > 0 /\ h \in Nat
      BY DEF IInv, TypeOK, WinWriteFails, Parsing
    <2>2. Receiving
      BY <2>1, OutputInSync
    <2>3. QED
      BY <2>1, <2>2, ErrorReplyFacts DEF TypeOK
  <1>2. /\ Consume(pass_write) /\ nego_state' = 6 /\ UNCHANGED <<write_handle, reqs>>
        /\ damaged' = damaged \cup {<<h, "failed">>}
        /\ wire' = wire \/ wire' = wire \o <<e>>
    BY DEF WinWriteFails, Send, Damage, write, peer, asked
  <1> HIDE DEF e
  <1>3. PICK k \in 0 .. Len(inbound) : inbound' = SubSeq(inbound, k + 1, Len(inbound))
    BY <1>1, <1>2, PassTypes, ConsumesOK
  <1>4. ~Receiving'
    BY <1>2 DEF Receiving
  <1>5. \A g : Passed(g) => Passed(g)'
    BY <1>2, <1>3, <1>4, PassedConsume
  <1>6. Passed(h)'
    <2>1. h \in 1 .. Len(reqs) /\ Later(inbound, h)
      BY <1>1 DEF IInv, PayloadInSync, Progress
    <2>2. /\ Len(inbound') = Len(inbound) - k /\ inbound' \in Seq(Fields)
          /\ \A i \in 1 .. Len(inbound') : inbound'[i] = inbound[i + k]
      BY <1>1, <1>3, SuffixTypes
    <2>3. Later(inbound', h)
      <3>1. \A g \in Int : Later(inbound, g) => Later(inbound', g)
        BY <1>1, <2>2, SuffixStream
      <3>2. h \in Int
        BY <1>1
      <3>3. QED
        BY <2>1, <3>1, <3>2
    <2>4. QED
      BY <1>2, <1>4, <2>1, <2>3 DEF Passed, Later, IsReq
  <1>7. /\ \A d \in damaged : d[2] # "shifted" /\ (d[2] = "failed" => Passed(d[1]))
        /\ \A i \in 1 .. Len(wire) :
              IsReply(wire[i]) /\ wire[i].vals = << >>
                 => <<wire[i].id, "failed">> \notin damaged
    BY DEF WinInv
  <1>8. ASSUME NEW d \in damaged'
        PROVE  d[2] # "shifted" /\ (d[2] = "failed" => Passed(d[1])')
    <2>1. CASE d \in damaged
      BY <1>5, <1>7, <2>1
    <2>2. CASE d = <<h, "failed">>
      <3>1. d[1] = h /\ d[2] = "failed"
        BY <2>2
      <3>2. Passed(d[1])'
        BY <1>2, <1>6, <3>1 DEF Passed, Later, IsReq, Receiving
      <3>3. QED
        BY <3>1, <3>2
    <2>3. QED
      BY <1>2, <2>1, <2>2
  <1>9. ASSUME NEW i \in 1 .. Len(wire'), IsReply(wire'[i]), wire'[i].vals = << >>
        PROVE  <<wire'[i].id, "failed">> \notin damaged'
    <2>1. i \in 1 .. Len(wire) /\ wire'[i] = wire[i]
      <3>1. CASE wire' = wire
        BY <3>1
      <3>2. CASE wire' = wire \o <<e>>
        <4>1. Len(wire') = Len(wire) + 1 /\ wire'[Len(wire) + 1] = e
          BY <1>1, <3>2
        <4>2. i # Len(wire) + 1
          BY <1>1, <1>9, <4>1
        <4>3. QED
          BY <1>1, <3>2, <4>1, <4>2
      <3>3. QED
        BY <1>2, <3>1, <3>2
    <2>2. <<wire[i].id, "failed">> \notin damaged
      BY <1>7, <1>9, <2>1
    <2>3. wire[i].id # h
      <3>1. wire[i].id \in Replied
        BY <1>9, <2>1, InReplied
      <3>2. wire[i].id < h
        BY <1>1, <3>1 DEF IInv, AnsweredIsOld
      <3>3. QED
        BY <1>1, <3>2
    <2>4. <<wire[i].id, "failed">> # <<h, "failed">>
      BY <2>3
    <2>5. QED
      BY <1>2, <2>1, <2>2, <2>4
  <1>10. QED
    BY <1>8, <1>9 DEF WinInv, IsReply

(* The program for Windows keeps it.                                       *)
LEMMA WinNextStored ==
    ASSUME IInv, WinInv, build = "windows", WinNext
    PROVE  WinInv'
  <1>1. /\ TypeOK /\ inbound \in Seq(Fields) /\ wire \in Seq(Messages) /\ cut \in Nat
        /\ reqs \in Seq(Requests) 
        /\ write_handle \in Nat /\ WellFormed(inbound, reqs)
    BY DEF IInv, TypeOK
  <1>2. ASSUME NEW k \in 0 .. Len(inbound),
               inbound' = SubSeq(inbound, k + 1, Len(inbound)), UNCHANGED reqs,
               \/ ~Receiving'
               \/ Receiving /\ UNCHANGED write_handle
               \/ inbound # << >> /\ inbound[1].kind = "req" /\ write_handle' = inbound[1].id,
               damaged' \subseteq damaged \cup {<<write_handle, "dropped">>},
               NEW u \in Seq(Messages), wire' = wire \/ wire' = wire \o u,
               \A i \in 1 .. Len(u) : IsReply(u[i]) => ~Passed(u[i].id)
        PROVE  WinInv'
    <2>1. \A h : Passed(h) => Passed(h)'
      BY <1>2, PassedConsume
    <2>2. QED
      BY <1>2, <2>1, WinKept
  <1>3. ASSUME UNCHANGED <<nego_state, write_handle, reqs, inbound, damaged, wire>>
        PROVE  WinInv'
    <2>1. \A h : Passed(h) => Passed(h)'
      BY <1>3 DEF Passed, Receiving, Later, IsReq
    <2>2. QED
      BY <1>3, <2>1, WinQuiet
  <1>4. ASSUME inbound' = << >>, UNCHANGED <<reqs, damaged>>,
               wire' \in {wire, wire \o <<Message("greeting", 0, << >>)>>}
        PROVE  WinInv'
    <2> DEFINE g == Message("greeting", 0, << >>)
    <2>1. g \in Messages /\ ~IsReply(g)
      BY PlainMessages DEF IsReply, Message
    <2> HIDE DEF g
    <2>2. <<g>> \in Seq(Messages) /\ \A i \in 1 .. Len(<<g>>) : ~IsReply(<<g>>[i])
      BY <2>1
    <2>3. /\ Len(inbound) \in 0 .. Len(inbound)
          /\ inbound' = SubSeq(inbound, Len(inbound) + 1, Len(inbound))
      BY <1>1, <1>4, SubSeqEmpty
    <2>4. ~Receiving' /\ damaged' \subseteq damaged \cup {<<write_handle, "dropped">>}
      BY <1>4 DEF Receiving
    <2>5. wire' = wire \/ wire' = wire \o <<g>>
      BY <1>4 DEF g
    <2>6. QED
      BY <1>2, <1>4, <2>2, <2>3, <2>4, <2>5
  <1>5. CASE CloseDialog \/ LinkDown \/ Proxy
    <2>1. CASE CloseDialog /\ dialog = "opening"
      <3>1. inbound' = << >> /\ UNCHANGED <<reqs, damaged>>
              /\ wire' \in {wire, wire \o <<Message("greeting", 0, << >>)>>}
        BY <2>1 DEF CloseDialog, negotiate, Send, asked, IInv, Silent
      <3>2. QED
        BY <1>4, <3>1
    <2>2. CASE \/ LinkDown \/ Proxy
               \/ CloseDialog /\ dialog # "opening"
      <3>1. UNCHANGED <<nego_state, write_handle, reqs, inbound, damaged, wire>>
        BY <2>2 DEF LinkDown, Proxy, Frame, CloseDialog, negotiate, server, write, device,
           peer, asked
      <3>2. QED
        BY <1>3, <3>1
    <2>3. QED
      BY <1>5, <2>1, <2>2
  <1>6. CASE WinConnected \/ WinConnectedNoDevice
    <2>1. /\ inbound' = << >> /\ UNCHANGED <<reqs, damaged>>
          /\ wire' \in {wire, wire \o <<Message("greeting", 0, << >>)>>}
      BY <1>6 DEF WinConnected, WinConnectedNoDevice, peer, asked
    <2>2. QED
      BY <1>4, <2>1
  <1>7. CASE Client
    <2>1. /\ UNCHANGED <<nego_state, write_handle, damaged, wire>> /\ client # "off"
      BY <1>7 DEF Client, ClientFlags, ClientOption, ClientRequest, server, write, device
    <2>2. PICK v \in Seq(Fields), rs \in Seq(Requests) :
             /\ inbound' = inbound \o v /\ reqs' = reqs \o rs
             /\ \A h \in 0 .. Len(reqs) : Later(inbound, h) => Later(inbound', h)
      BY <1>7, ClientAppends
    <2>3. Len(reqs') >= Len(reqs) /\ Len(reqs') \in Nat /\ Len(reqs) \in Nat
      BY <1>1, <2>2
    <2>4. Receiving' => Receiving
      BY <2>1 DEF Receiving, IInv, Silent
    <2>5. ASSUME NEW h, Passed(h) PROVE Passed(h)'
      <3>1. h \in 1 .. Len(reqs') /\ Later(inbound', h) /\ (Receiving' => h < write_handle)
        BY <2>2, <2>3, <2>4, <2>5 DEF Passed
      <3>2. QED
        BY <2>1, <3>1 DEF Passed, Later, IsReq
    <2>6. QED
      BY <2>1, <2>5, WinQuiet
  <1>8. CASE Negotiate
    <2>1. PICK m \in Messages : ~IsReply(m) /\ (wire' = wire \/ wire' = wire \o <<m>>)
      BY <1>8, NegotiateSends
    <2>2. /\ nego_state' # 7 /\ UNCHANGED <<reqs, damaged>> /\ cut > 0
          /\ \E n \in 0 .. cut : Consume(n)
      BY <1>8, NegotiateSends
    <2>3. <<m>> \in Seq(Messages) /\ \A i \in 1 .. Len(<<m>>) : ~IsReply(<<m>>[i])
      BY <2>1
    <2>4. ~Receiving' /\ \E k \in 0 .. Len(inbound) :
                            inbound' = SubSeq(inbound, k + 1, Len(inbound))
      BY <1>1, <2>2, ConsumesOK DEF Receiving
    <2>5. QED
      BY <1>2, <2>1, <2>2, <2>3, <2>4
  <1>9. CASE WinParseNameSize \/ WinParseName
    <2> DEFINE E == Message("export", IF glob_flags THEN 0 ELSE ZeroPad, << >>)
    <2>1. E \in Messages /\ ~IsReply(E)
      <3>1. (IF glob_flags THEN 0 ELSE ZeroPad) \in Nat
        BY DEF ZeroPad
      <3>2. QED
        BY <3>1, PlainMessages DEF IsReply, Message
    <2>2. /\ nego_state' \in 5 .. 6 /\ cut > 0 /\ UNCHANGED <<reqs, damaged>>
          /\ TakeNameSize \/ TakeName
          /\ wire' = wire \/ wire' = wire \o <<E>>
      BY <1>9 DEF WinParseNameSize, WinParseName, Parsing, SendExport, Send, device, asked
    <2> HIDE DEF E
    <2>3. <<E>> \in Seq(Messages) /\ \A i \in 1 .. Len(<<E>>) : ~IsReply(<<E>>[i])
      BY <2>1
    <2>4. \E k \in 0 .. cut : Consume(k)
      BY <1>1, <2>2, NameConsumed
    <2>5. ~Receiving' /\ \E k \in 0 .. Len(inbound) :
                            inbound' = SubSeq(inbound, k + 1, Len(inbound))
      BY <1>1, <2>2, <2>4, ConsumesOK DEF Receiving
    <2>6. QED
      BY <1>2, <2>2, <2>3, <2>5
  <1>10. CASE WinTransmit
    <2>1. /\ cut > 0 /\ UNCHANGED <<reqs, damaged, wire>> /\ \E n \in 0 .. cut : Consume(n)
          /\ \/ nego_state' = 6
             \/ inbound[1].kind = "req" /\ write_handle' = inbound[1].id
      <3>1. CASE BeginWrite
        BY <1>1, <3>1 DEF BeginWrite, ParsingRequest, Parsing, peer, asked
      <3>2. CASE RejectRange \/ HandleDisc \/ IgnoreCommand \/ RejectGarbage
        BY SMTT(30), <1>1, <3>2 DEF RejectRange, HandleDisc, IgnoreCommand, RejectGarbage,
           ParsingRequest, Parsing, server, device, peer, asked
      <3>3. QED
        BY <1>10, <3>1, <3>2 DEF WinTransmit
    <2>2. inbound # << >>
      BY <1>1, <2>1, FirstField
    <2>3. \/ ~Receiving'
          \/ inbound # << >> /\ inbound[1].kind = "req" /\ write_handle' = inbound[1].id
      BY <2>1, <2>2 DEF Receiving
    <2>4. \E k \in 0 .. Len(inbound) : inbound' = SubSeq(inbound, k + 1, Len(inbound))
      BY <1>1, <2>1, ConsumesOK
    <2>5. \A h : Passed(h) => Passed(h)'
      BY <2>1, <2>3, <2>4, PassedConsume
    <2>6. QED
      BY <2>1, <2>5, WinQuiet
  <1>11. CASE WinRead
    <2> DEFINE h == inbound[1].id
    <2>1. /\ nego_state' = 6 /\ cut > 0 /\ inbound[1].kind = "req" /\ Consume(1)
          /\ UNCHANGED <<reqs, damaged>> /\ h \in Nat
      BY <1>1, <1>11, WinReadSends, FirstField DEF server, peer, asked
    <2>2. PICK d \in Messages : d.kind = "data" /\ Send(<<Reply(h), d>>)
      BY <1>1, <1>11, WinReadSends
    <2>3. Reply(h) \in Messages /\ Reply(h).id = h /\ ~IsReply(d)
      BY <2>1, <2>2, PlainMessages DEF Reply, Message, IsReply
    <2> DEFINE u == <<Reply(h), d>>
    <2>4. u \in Seq(Messages) /\ \A i \in 1 .. Len(u) : IsReply(u[i]) => ~Passed(u[i].id)
      <3>1. ~Passed(h)
        BY <1>1, <2>1, NotPassed
      <3>2. QED
        BY <2>3, <3>1
    <2>5. wire' = wire \/ wire' = wire \o u
      BY <2>2 DEF Send
    <2> HIDE DEF u
    <2>6. 1 \in 0 .. cut
      BY <1>1, <2>1
    <2>7. ~Receiving' /\ \E k \in 0 .. Len(inbound) :
                            inbound' = SubSeq(inbound, k + 1, Len(inbound))
      BY <1>1, <2>1, <2>6, ConsumesOK DEF Receiving
    <2>8. QED
      BY <1>2, <2>1, <2>4, <2>5, <2>7
  <1>12. CASE WinReadOverruns
    BY <1>12 DEF WinReadOverruns, WinInv
  <1>13. CASE DropPayload \/ WinWritePayload
    <2> DEFINE m == Reply(write_handle)
    <2>1. /\ nego_state = 7 /\ cut > 0 /\ Consume(pass_write)
          /\ UNCHANGED <<write_handle, reqs>>
          /\ damaged' \subseteq damaged \cup {<<write_handle, "dropped">>}
          /\ wire' = wire \/ wire' = wire \o <<m>>
      BY <1>13 DEF DropPayload, WinWritePayload, Parsing, Received, Damage, Send, peer, asked
    <2>2. m \in Messages /\ m.id = write_handle
      BY <1>1, PlainMessages DEF Reply, Message
    <2> HIDE DEF m
    <2>3. <<m>> \in Seq(Messages)
            /\ \A i \in 1 .. Len(<<m>>) : IsReply(<<m>>[i]) => ~Passed(<<m>>[i].id)
      <3>1. ~Passed(write_handle)
        BY <1>1, <2>1, NotPassed
      <3>2. QED
        BY <2>2, <3>1
    <2>4. Receiving
      BY <1>1, <2>1, OutputInSync DEF IInv
    <2>5. \E k \in 0 .. Len(inbound) : inbound' = SubSeq(inbound, k + 1, Len(inbound))
      BY <1>1, <2>1, PassTypes, ConsumesOK
    <2>6. QED
      BY <1>2, <2>1, <2>3, <2>4, <2>5
  <1>14. CASE WinWriteFails
    BY <1>14, WinPayloadStep, WinFailed
  <1>15. QED
    BY <1>5, <1>6, <1>7, <1>8, <1>9, <1>10, <1>11, <1>12, <1>13, <1>14
       DEF WinNext, WinNegotiate, WinReceivePayload, Negotiate
-----------------------------------------------------------------------------
(* The theorems about both programs.                                       *)

(* The inductive invariant of either program.                              *)
BuildInv == IInv /\ PhaseInv /\ StepInv /\ WinInv

LEMMA BuildInitInv == BuildInit => BuildInv
  <1>1. SUFFICES ASSUME BuildInit PROVE BuildInv
    OBVIOUS
  <1>2. Init /\ IInv
    BY <1>1, InitInv DEF BuildInit
  <1>3. PhaseInv /\ StepInv /\ WinInv
    BY <1>2 DEF Init, PhaseInv, Negotiating, StepInv, WinInv
  <1>4. QED
    BY <1>2, <1>3 DEF BuildInv

LEMMA BuildNextInv == BuildInv /\ [BuildNext]_buildVars => BuildInv'
  <1>1. SUFFICES ASSUME BuildInv, [BuildNext]_buildVars PROVE BuildInv'
    OBVIOUS
  <1>2. IInv /\ PhaseInv /\ StepInv /\ WinInv
    BY <1>1 DEF BuildInv
  <1>3. CASE build = "linux" /\ Next /\ UNCHANGED build
    BY <1>2, <1>3, NextInv, NextPhase, NextInStep DEF BuildInv, WinInv
  <1>4. CASE build = "windows" /\ WinNext
    BY <1>2, <1>4, WinNextInv, WinNextPhase, WinNextInStep, WinNextStored DEF BuildInv
  <1>5. CASE UNCHANGED buildVars
    <2>1. UNCHANGED vars /\ UNCHANGED <<build, nego_state, write_handle, reqs, inbound,
                                        damaged, wire>>
      BY <1>5 DEF buildVars, vars, server, write, device, peer, asked
    <2>2. IInv' /\ PhaseInv' /\ StepInv'
      BY <1>2, <2>1, NextInv, NextPhase, NextInStep
    <2>3. WinInv'
      BY <1>2, <2>1 DEF WinInv, Passed, Receiving, Later, IsReq, IsReply
    <2>4. QED
      BY <2>2, <2>3 DEF BuildInv
  <1>6. QED
    BY <1>1, <1>3, <1>4, <1>5 DEF BuildNext

LEMMA BuildInvariance == BuildSpec => []BuildInv
  BY BuildInitInv, BuildNextInv, PTL DEF BuildSpec

(* Client and server agree on the phase, in both programs: nobody is       *)
(* answered out of turn unless data was taken for an option, and a client  *)
(* that has its export has the padding it asked for from a server past the *)
(* negotiation: for every menu of options and data, every cut into         *)
(* messages, and over reconnects.                                          *)
THEOREM BothAgree == BuildSpec => []SamePhase
  <1>1. BuildInv => SamePhase
    BY DEF BuildInv, PhaseInv, StepInv, SamePhase, Exported
  <1>2. QED
    BY <1>1, BuildInvariance, PTL

(* What handle_write of Windows answers without an error is on the volume, *)
(* however the payload was cut, whatever failed before it or in between,   *)
(* unless the volume is locked by somebody else.                           *)
THEOREM AnsweredIsStored == BuildSpec => []NoErrorMeansStored
  <1>1. ASSUME BuildInv PROVE NoErrorMeansStored
    <2>1. SUFFICES ASSUME build = "windows", NEW i \in 1 .. Len(wire), IsReply(wire[i]),
                          wire[i].vals = << >>, reqs[wire[i].id].cmd = "WRITE",
                          <<wire[i].id, "dropped">> \notin damaged,
                          NEW j \in 0 .. reqs[wire[i].id].len - 1
                   PROVE  \/ image[reqs[wire[i].id].from + j] = <<wire[i].id, j>>
                          \/ image[reqs[wire[i].id].from + j][1] > wire[i].id
      BY DEF NoErrorMeansStored
    <2> DEFINE h == wire[i].id
               d == <<h, "shifted">>
    <2>7. h \in Replied
      BY <2>1, InReplied
    <2>2. <<h, "failed">> \notin damaged
      BY <1>1, <2>1 DEF BuildInv, WinInv
    <2>3. d[2] = "shifted"
      OBVIOUS
    <2> HIDE DEF d
    <2>4. d \notin damaged
      BY <1>1, <2>1, <2>3 DEF BuildInv, WinInv
    <2>5. Intact(h)
      BY <2>1, <2>2, <2>4 DEF Intact, d
    <2>6. QED
      BY <1>1, <2>1, <2>7, <2>5 DEF BuildInv, IInv, AckedWriteStored
  <1>2. QED
    BY <1>1, BuildInvariance, PTL

(* What NbdExportProofs shows of the program for Linux holds of both: no   *)
(* variable leaves its range, the parser stands at the payload it expects, *)
(* no handle is answered twice, and nothing is stored out of bounds.       *)
THEOREM BothInSync ==
    BuildSpec => [](TypeOK /\ PayloadInSync /\ RepliesInOrder /\ NoStrayWrite)
  BY BuildInvariance, PTL DEF BuildInv, IInv
=============================================================================
