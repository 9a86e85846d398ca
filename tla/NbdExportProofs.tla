-------------------------- MODULE NbdExportProofs --------------------------
(***************************************************************************)
(* Proofs about NbdExport, for every value of its constants: types, and    *)
(* that writes are received in sync with the byte stream, stored where     *)
(* they belong, and answered in order.                                     *)
(*                                                                         *)
(* The safety properties are proved together, as parts of the inductive    *)
(* invariant IInv.  What has to be added to them says how the stream, the  *)
(* parser and the image are related:                                       *)
(*   WellFormed     the payload of a write follows its request, so that    *)
(*                  the parser enters state 7 in sync;                     *)
(*   AnsweredIsOld, StoredIsOld, Progress                                  *)
(*                  replied < being received < still in the stream;        *)
(*   Silent         why a state 7 that outlived its connection is harmless:*)
(*                  no byte arrives before a greeting resets it.           *)
(* The steps fall into five groups, one lemma each: IdleStep (consumes a   *)
(* part of the stream that is no payload), StillStep (nothing relevant     *)
(* changes), AppendStep (the client sends), BeginWriteStep and EffectsStep *)
(* (payload is received).                                                  *)
(***************************************************************************)
EXTENDS NbdExport, TLAPS, SequenceTheorems
-----------------------------------------------------------------------------

(* check_length looks for a 64-bit overflow first: without one the sum is  *)
(* exact.                                                                  *)
LEMMA SumModWrap ==
    ASSUME NEW a \in 0 .. Wrap - 1, NEW b \in Nat, b <= MaxCells,
           (a + b) % Wrap >= a
    PROVE  (a + b) % Wrap = a + b
  BY ConstantsAssumption DEF ConstantsAssumption

(* What check_length guarantees of a request it lets pass.                 *)
LEMMA InExport ==
    ASSUME NEW r \in Requests, ~BadLength(r)
    PROVE  /\ r.len \in 1 .. MaxCells
           /\ r.from \in Nat
           /\ r.from + r.len <= FileCells
  <1>1. r.from \in 0 .. Wrap - 1 /\ r.len \in Nat
    BY DEF Requests
  <1>2. r.len \in 1 .. MaxCells /\ (r.from + r.len) % Wrap >= r.from
    BY <1>1, ConstantsAssumption DEF BadLength, ConstantsAssumption
  <1>3. (r.from + r.len) % Wrap = r.from + r.len
    BY <1>1, <1>2, SumModWrap
  <1>4. r.from + r.len <= FileCells
    BY <1>1, <1>3, ConstantsAssumption DEF BadLength, ConstantsAssumption
  <1>5. QED
    BY <1>1, <1>2, <1>4, ConstantsAssumption DEF ConstantsAssumption

(* Types of what is put on the byte stream and on the wire.                *)
LEMMA FieldTypes ==
    ASSUME NEW id \in Nat, NEW n \in Nat,
           NEW kind \in {"cflags", "magic", "opt", "optdata", "namesize",
                         "name", "req", "cell"}
    PROVE  Field(kind, id, n) \in Fields
  BY DEF Field, Fields

(* The same for messages to the client.                                    *)
LEMMA MessageTypes ==
    ASSUME NEW kind \in {"greeting", "unsup", "export", "reply", "data"},
           NEW id \in Nat, NEW vals \in Seq(Value)
    PROVE  Message(kind, id, vals) \in Messages
  BY DEF Message, Messages

(* WRITE_BINARY sends messages, or nothing.                                *)
LEMMA SendTypes ==
    ASSUME wire \in Seq(Messages)
    PROVE  /\ \A m \in Messages : Send(<<m>>) => wire' \in Seq(Messages)
           /\ \A m, n \in Messages : Send(<<m, n>>) => wire' \in Seq(Messages)
  BY DEF Send

(* A function on 1 .. n is a sequence of length n.                         *)
LEMMA FunctionIsSeq ==
    ASSUME NEW S, NEW n \in Nat, NEW f \in [1 .. n -> S]
    PROVE  f \in Seq(S) /\ Len(f) = n
  BY SeqDef

(* What is left when read_len has advanced over k fields.                  *)
LEMMA SuffixTypes ==
    ASSUME NEW s \in Seq(Fields), NEW k \in 0 .. Len(s)
    PROVE  /\ SubSeq(s, k + 1, Len(s)) \in Seq(Fields)
           /\ Len(SubSeq(s, k + 1, Len(s))) = Len(s) - k
           /\ \A i \in 1 .. Len(s) - k :
                 SubSeq(s, k + 1, Len(s))[i] = s[i + k]
  <1>1. \A i \in k + 1 .. Len(s) : s[i] \in Fields
    OBVIOUS
  <1>2. QED
    BY <1>1, SubSeqProperties

(***************************************************************************)
(* The inductive invariant.                                                *)
(***************************************************************************)

IsReq(s, i) == s[i].kind = "req"

(* Every request in the byte stream is one the client sent, the payload of *)
(* a write follows it, and requests come in the order they were sent.      *)
WellFormed(s, rs) ==
    \A i \in 1 .. Len(s) : IsReq(s, i) =>
        /\ s[i].id \in 1 .. Len(rs)
        /\ rs[s[i].id].cmd = "WRITE" =>
              /\ i + rs[s[i].id].len <= Len(s)
              /\ \A k \in 1 .. rs[s[i].id].len :
                    s[i + k] = Field("cell", s[i].id, k - 1)
        /\ \A j \in 1 .. i - 1 : IsReq(s, j) => s[j].id < s[i].id

(* No request in the byte stream is older than h.                          *)
Later(s, h) == \A i \in 1 .. Len(s) : IsReq(s, i) => h < s[i].id

(* What was answered is older than what is in the byte stream, and, for a  *)
(* write, within the export.                                               *)
AnsweredIsOld ==
    \A h \in Replied :
        /\ h \in 1 .. Len(reqs)
        /\ Later(inbound, h)
        /\ Receiving => h < write_handle
        /\ reqs[h].cmd = "WRITE" => reqs[h].from + reqs[h].len <= FileCells

(* What is on the image is not newer than the write being received.        *)
StoredIsOld ==
    \A c \in Cells :
        /\ image[c][1] \in 0 .. Len(reqs)
        /\ Later(inbound, image[c][1])
        /\ Receiving => image[c][1] <= write_handle

(* The write being received is older than what is in the byte stream; as   *)
(* long as it is intact, the part of the payload that came is stored, and  *)
(* the file offset is where the rest belongs.                              *)
Got == Pending.len - write_len
Progress ==
    Receiving =>
        /\ Later(inbound, write_handle)
        /\ Intact(write_handle) =>
              /\ offset = write_from + Got
              /\ \A i \in 0 .. Got - 1 :
                    image[write_from + i] = <<write_handle, i>>

(* The client is silent without a connection, while a box of opendevice    *)
(* holds up the negotiation, and after a connection that left state 7.     *)
Silent ==
    /\ link = "down" => client = "off"
    /\ dialog = "opening" => client = "off" /\ inbound = << >>
    /\ nego_state = 7 /\ inbound = << >> => client = "off"

IInv ==
    /\ TypeOK
    /\ write_len <= MaxCells
    /\ WellFormed(inbound, reqs)
    /\ AnsweredIsOld
    /\ StoredIsOld
    /\ Progress
    /\ Silent
    /\ PayloadInSync
    /\ RepliesInOrder
    /\ AckedWriteStored
    /\ NoStrayWrite

(***************************************************************************)
(* Types.                                                                  *)
(***************************************************************************)

(* The state in which the program starts is well typed.                    *)
LEMMA InitTypes == Init => TypeOK
  <1>1. [c \in Cells |-> <<0, c>>] \in [Cells -> Value]
    BY ConstantsAssumption DEF Cells, Value, ConstantsAssumption
  <1>2. SUFFICES ASSUME Init PROVE TypeOK
    OBVIOUS
  <1>3. glob_flags \in BOOLEAN /\ allowWrite \in BOOLEAN /\ strayed \in BOOLEAN
    BY <1>2 DEF Init
  <1>4. /\ link = "down" /\ nego_state \in 0 .. 7
        /\ write_from = 0 /\ write_len = 0 /\ write_handle = 0
        /\ fh = "none" /\ offset = 0 /\ image = [c \in Cells |-> <<0, c>>]
        /\ dialog = "none" /\ client = "off" /\ noZeroes = 0 /\ reqs = << >>
        /\ inbound = << >> /\ cut = 0 /\ wire = << >>
        /\ options = 0 /\ sessions = 0 /\ damaged = {}
    BY <1>2 DEF Init
  <1>5. QED
    BY <1>1, <1>3, <1>4 DEF TypeOK

(* What a case of onBinaryMessageReceived finds and leaves.                *)
LEMMA ConsumeTypes ==
    ASSUME TypeOK, cut > 0,
           NEW k \in 0 .. cut, Consume(k)
    PROVE  /\ inbound' \in Seq(Fields) /\ cut' \in 0 .. Len(inbound')
           /\ Len(inbound') = Len(inbound) - k
           /\ \A i \in 1 .. Len(inbound') : inbound'[i] = inbound[i + k]
  <1>1. cut \in 1 .. Len(inbound) /\ inbound \in Seq(Fields)
    BY DEF TypeOK
  <1>2. k \in 0 .. Len(inbound)
    BY <1>1
  <1>3. QED
    BY <1>1, <1>2, SuffixTypes DEF Consume

(* A message that is being handled has a first field.                      *)
LEMMA FirstField ==
    ASSUME TypeOK, cut > 0
    PROVE  /\ cut \in 1 .. Len(inbound)
           /\ inbound[1].id \in Nat /\ inbound[1].n \in Nat
           /\ \A j \in 1 .. cut : inbound[j] \in Fields
  <1>1. cut \in 1 .. Len(inbound) /\ \A j \in 1 .. Len(inbound) : inbound[j] \in Fields
    BY DEF TypeOK
  <1>2. QED
    BY <1>1 DEF Fields

(* The messages without data.                                              *)
LEMMA PlainMessages ==
    /\ Message("greeting", 0, << >>) \in Messages
    /\ Message("unsup", 0, << >>) \in Messages
    /\ \A z \in Nat : Message("export", z, << >>) \in Messages
    /\ \A h \in Nat : Reply(h) \in Messages
  <1>1. << >> \in Seq(Value)
    OBVIOUS
  <1>2. QED
    BY <1>1, MessageTypes DEF Reply

(* Connecting, modal boxes and the end of a connection keep the types.     *)
LEMMA ConnectTypes ==
    ASSUME TypeOK, Connect \/ CloseDialog \/ LinkDown
    PROVE  TypeOK'
  <1>1. wire \in Seq(Messages) /\ << >> \in Seq(Fields) /\ Len(<< >>) = 0 /\ cut \in Nat
    BY DEF TypeOK
  <1>2. CASE onConnected
    <2>1. wire' \in Seq(Messages)
      BY <1>1, <1>2, PlainMessages DEF onConnected
    <2>2. offset' \in Nat /\ sessions' \in Nat
      BY <1>2, ConstantsAssumption DEF onConnected, TypeOK, ConstantsAssumption
    <2>3. strayed' \in BOOLEAN
      BY <1>2 DEF onConnected
    <2>4. QED
      BY <1>1, <1>2, <2>1, <2>2, <2>3 DEF onConnected, TypeOK, write, asked
  <1>3. CASE onConnectedReadOnly
    <2>1. allowWrite' \in BOOLEAN /\ strayed' \in BOOLEAN
      BY <1>3 DEF onConnectedReadOnly
    <2>2. UNCHANGED <<nego_state, glob_flags, write_from, write_len, write_handle,
              image, damaged, client, noZeroes, reqs, options, cut, wire>>
      BY <1>3 DEF onConnectedReadOnly, server, write, peer, asked
    <2>3. link' = "up" /\ fh' = "open" /\ offset' = 0 /\ dialog' = "opening"
            /\ sessions' = sessions + 1 /\ cut = 0 /\ inbound' = << >>
      BY <1>3 DEF onConnectedReadOnly
    <2>4. QED
      BY <1>1, <2>1, <2>2, <2>3 DEF TypeOK
  <1>4. CASE onConnectedNoDevice
    <2>1. allowWrite' \in BOOLEAN /\ strayed' \in BOOLEAN
          /\ dialog' \in {"info", "none"}
      BY <1>4 DEF onConnectedNoDevice
    <2>2. UNCHANGED <<nego_state, glob_flags, write_from, write_len, write_handle,
              offset, image, damaged, client, noZeroes, reqs, options, cut, wire>>
      BY <1>4 DEF onConnectedNoDevice, server, write, peer, asked
    <2>3. link' = "up" /\ fh' = "closed" /\ sessions' = sessions + 1
            /\ cut = 0 /\ inbound' = << >>
      BY <1>4 DEF onConnectedNoDevice
    <2>4. QED
      BY <1>1, <2>1, <2>2, <2>3 DEF TypeOK
  <1>5. CASE CloseDialog
    <2>1. wire' \in Seq(Messages)
      BY <1>1, <1>5, PlainMessages, SendTypes DEF CloseDialog, negotiate
    <2>2. offset' \in Nat
      BY <1>5, ConstantsAssumption DEF CloseDialog, TypeOK, ConstantsAssumption
    <2>3. QED
      BY <1>5, <2>1, <2>2 DEF CloseDialog, negotiate, TypeOK, write, asked,
         session
  <1>6. CASE LinkDown
    BY <1>6 DEF LinkDown, TypeOK, server, write, device, asked,
         session
  <1>7. QED
    BY <1>2, <1>3, <1>4, <1>5, <1>6 DEF Connect

(* The payload of write h, as the client sends it.                         *)
LEMMA PayloadTypes ==
    ASSUME NEW h \in Nat, NEW n \in Nat
    PROVE  /\ Payload(h, n) \in Seq(Fields)
           /\ Len(Payload(h, n)) = n
           /\ \A i \in 1 .. n : Payload(h, n)[i] = Field("cell", h, i - 1)
  <1>1. Payload(h, n) \in [1 .. n -> Fields]
    BY FieldTypes DEF Payload
  <1>2. QED
    BY <1>1, FunctionIsSeq DEF Payload

(* What ClientFlags appends to the byte stream: no request.                *)
LEMMA FlagBytes ==
    ASSUME TypeOK, ClientFlags
    PROVE  /\ noZeroes' \in {0, 1}
           /\ \E u \in Seq(Fields) : /\ inbound' = inbound \o u
                                     /\ \A i \in 1 .. Len(u) : ~IsReq(u, i)
  <1>1. noZeroes' \in {0, 1}
    BY ConstantsAssumption DEF ClientFlags, ConstantsAssumption
  <1>2. Field("cflags", 0, noZeroes') \in Fields
    BY <1>1, FieldTypes
  <1> DEFINE f == Field("cflags", 0, noZeroes')
             u == <<f>>
  <1>3. f.kind # "req"
    BY DEF Field
  <1>4. inbound \in Seq(Fields) /\ inbound' = Append(inbound, f)
    BY DEF TypeOK, ClientFlags
  <1> HIDE DEF f
  <1>5. u \in Seq(Fields) /\ \A i \in 1 .. Len(u) : ~IsReq(u, i)
    BY <1>2, <1>3 DEF IsReq, f
  <1>6. inbound' = inbound \o u
    BY <1>2, <1>4, AppendIsConcat DEF f
  <1>7. QED
    BY <1>1, <1>5, <1>6

(* What ClientOption appends to the byte stream: no request.               *)
LEMMA OptionBytes ==
    ASSUME TypeOK, NEW o \in OptionMenu, ClientOption(o)
    PROVE  \E u \in Seq(Fields) : /\ inbound' = inbound \o u
                                 /\ \A i \in 1 .. Len(u) : ~IsReq(u, i)
  <1> DEFINE Plain(u) == u \in Seq(Fields) /\ \A i \in 1 .. Len(u) : u[i].kind # "req"
             head == <<Field("magic", 0, 0),
                       Field("opt", OptionCode[o.code], o.parts)>>
             size == <<Field("namesize", 0, o.parts)>>
             name == [i \in 1 .. o.parts |-> Field("name", 0, i)]
             data == [i \in 1 .. o.parts |-> Field("optdata", 0, i)]
  <1>1. /\ o.code \in {"EXPORT_NAME", "ABORT", "UNKNOWN"} /\ o.parts \in Nat
        /\ OptionCode[o.code] \in Nat
    BY ConstantsAssumption DEF ConstantsAssumption, Options, OptionCode
  <1>2. Plain(head) /\ Plain(size)
    <2>1. /\ Field("magic", 0, 0) \in Fields
          /\ Field("opt", OptionCode[o.code], o.parts) \in Fields
          /\ Field("namesize", 0, o.parts) \in Fields
      BY <1>1, FieldTypes
    <2>2. /\ Field("magic", 0, 0).kind # "req"
          /\ Field("opt", OptionCode[o.code], o.parts).kind # "req"
          /\ Field("namesize", 0, o.parts).kind # "req"
      BY DEF Field
    <2>3. QED
      BY <2>1, <2>2
  <1>3. Plain(name) /\ Plain(data)
    <2>1. name \in [1 .. o.parts -> Fields] /\ data \in [1 .. o.parts -> Fields]
      BY <1>1, FieldTypes
    <2>2. \A i \in 1 .. o.parts : name[i].kind # "req" /\ data[i].kind # "req"
      BY DEF Field
    <2> HIDE DEF name, data
    <2>3. /\ name \in Seq(Fields) /\ Len(name) = o.parts
          /\ data \in Seq(Fields) /\ Len(data) = o.parts
      BY <1>1, <2>1, FunctionIsSeq
    <2>4. QED
      BY <2>2, <2>3
  <1>4. Plain(<< >>)
    OBVIOUS
  <1>5. ASSUME NEW s, NEW t, Plain(s), Plain(t)
        PROVE  Plain(s \o t)
    <2>1. /\ s \o t \in Seq(Fields) /\ Len(s \o t) = Len(s) + Len(t)
          /\ \A i \in 1 .. Len(s) + Len(t) :
                (s \o t)[i] = IF i <= Len(s) THEN s[i] ELSE t[i - Len(s)]
      BY <1>5, ConcatProperties
    <2>2. \A i \in 1 .. Len(s) + Len(t) : IF i <= Len(s) THEN i \in 1 .. Len(s)
                                         ELSE i - Len(s) \in 1 .. Len(t)
      BY <1>5
    <2>3. QED
      BY <1>5, <2>1, <2>2
  <1>6. inbound \in Seq(Fields)
    BY DEF TypeOK
  <1>7. \/ inbound' = inbound \o head \o (size \o name)
        \/ inbound' = inbound \o head \o data
        \/ inbound' = inbound \o head \o << >>
    BY <1>1 DEF ClientOption
  <1>8. Plain(size \o name)
    BY <1>2, <1>3, <1>5
  <1> HIDE DEF head, size, name, data
  <1>9. PICK t : Plain(t) /\ inbound' = inbound \o head \o t
    BY <1>3, <1>4, <1>7, <1>8
  <1>10. Plain(head \o t)
    BY <1>2, <1>5, <1>9
  <1>11. inbound' = inbound \o (head \o t)
    BY SMTT(30), <1>2, <1>6, <1>9, ConcatAssociative
  <1>12. QED
    BY <1>10, <1>11 DEF IsReq

(* What ClientRequest appends: a request and its payload.                  *)
LEMMA RequestBytes ==
    ASSUME TypeOK, NEW r \in RequestMenu, ClientRequest(r)
    PROVE  LET h == Len(reqs) + 1
               n == IF r.cmd = "WRITE" THEN r.len ELSE 0
           IN  /\ r \in Requests /\ h \in Nat /\ n \in Nat
               /\ inbound' = Append(inbound, Field("req", h, 0)) \o Payload(h, n)
               /\ \E u \in Seq(Fields) : inbound' = inbound \o u
  <1> DEFINE h == Len(reqs) + 1
             n == IF r.cmd = "WRITE" THEN r.len ELSE 0
             f == Field("req", h, 0)
  <1>1. inbound \in Seq(Fields) /\ h \in Nat
    BY DEF TypeOK
  <1>2. r \in Requests /\ n \in Nat
    BY ConstantsAssumption DEF ConstantsAssumption, Requests
  <1>3. inbound' = Append(inbound, f) \o Payload(h, n)
    BY DEF ClientRequest
  <1> HIDE DEF h, n
  <1>4. f \in Fields /\ Payload(h, n) \in Seq(Fields)
    BY <1>1, <1>2, FieldTypes, PayloadTypes
  <1> HIDE DEF f
  <1>5. Append(inbound, f) = inbound \o <<f>>
    BY <1>1, <1>4, AppendIsConcat
  <1>6. inbound' = inbound \o (<<f>> \o Payload(h, n))
    BY <1>1, <1>3, <1>4, <1>5, ConcatAssociative
  <1>7. <<f>> \o Payload(h, n) \in Seq(Fields)
    BY <1>4, ConcatProperties
  <1>8. QED
    BY <1>1, <1>2, <1>3, <1>6, <1>7 DEF h, n, f

(* The client and the proxy keep the types.                                *)
LEMMA ClientTypes ==
    ASSUME TypeOK, Client \/ Proxy
    PROVE  TypeOK'
  <1> USE DEF TypeOK
  <1>1. inbound \in Seq(Fields) /\ cut \in 0 .. Len(inbound) /\ reqs \in Seq(Requests)
    OBVIOUS
  <1>2. ASSUME NEW u \in Seq(Fields), inbound' = inbound \o u
        PROVE  inbound' \in Seq(Fields) /\ cut \in 0 .. Len(inbound')
    BY <1>1, <1>2, ConcatProperties
  <1>3. CASE ClientFlags
    BY <1>2, <1>3, FlagBytes DEF ClientFlags, server, write, device, session
  <1>4. ASSUME NEW o \in OptionMenu, ClientOption(o)
        PROVE  TypeOK'
    <2>1. inbound' \in Seq(Fields) /\ cut \in 0 .. Len(inbound')
      BY <1>2, <1>4, OptionBytes
    <2>2. /\ options' = options + 1
          /\ UNCHANGED <<link, nego_state, glob_flags, write_from, write_len,
                write_handle, allowWrite, fh, offset, image, damaged, dialog,
                noZeroes, reqs, cut, wire, sessions, strayed>>
      BY <1>4 DEF ClientOption, server, write, device, session
    <2>3. o.code \in {"EXPORT_NAME", "ABORT", "UNKNOWN"}
      BY ConstantsAssumption DEF ConstantsAssumption, Options
    <2>4. client' \in {"off", "waiting", "naming"}
      BY <1>4, <2>3 DEF ClientOption
    <2>5. QED
      BY <2>1, <2>2, <2>4
  <1>5. ASSUME NEW r \in RequestMenu, ClientRequest(r)
        PROVE  TypeOK'
    <2>1. r \in Requests /\ inbound' \in Seq(Fields) /\ cut \in 0 .. Len(inbound')
      BY <1>2, <1>5, RequestBytes
    <2>2. reqs' \in Seq(Requests)
      BY <1>1, <1>5, <2>1 DEF ClientRequest
    <2>3. QED
      BY <1>5, <2>1, <2>2 DEF ClientRequest, server, write, device, session
  <1>6. CASE Proxy
    BY <1>6 DEF Proxy, Frame, server, write, device, peer, asked,
         session
  <1>7. QED
    BY <1>3, <1>4, <1>5, <1>6 DEF Client

Clients == {"off", "greeted", "choosing", "waiting", "naming", "misled", "ready"}

(* What an answer makes of the client.                                     *)
LEMMA HeardClients ==
    ASSUME NEW expected, NEW next, expected # "off", Heard(expected, next)
    PROVE  /\ client' \in {client, next, "misled"}
           /\ client = "off" => client' = "off"
  BY DEF Heard

LEMMA SomeConsumed ==
    ASSUME cut \in Nat, ConsumeSome
    PROVE  \E k \in 0 .. cut : Consume(k)
  BY DEF ConsumeSome

LEMMA NameConsumed ==
    ASSUME cut \in Nat, cut > 0, TakeNameSize \/ TakeName
    PROVE  \E k \in 0 .. cut : Consume(k)
  <1>1. 1 \in 0 .. cut /\ cut \in 0 .. cut
    OBVIOUS
  <1>2. QED
    BY <1>1, SomeConsumed DEF TakeNameSize, TakeName

(* States 1 to 5 and 0 keep the types: step 4 is what all their cases have *)
(* in common.                                                             *)
LEMMA NegotiateTypes ==
    ASSUME TypeOK, Negotiate
    PROVE  TypeOK'
  <1>1. cut \in Nat /\ wire \in Seq(Messages)
    BY DEF TypeOK
  <1>2. cut > 0 /\ cut \in 0 .. cut /\ 1 \in 0 .. cut
    BY <1>1 DEF Negotiate, Parsing, ParseFlags, ParseMagic, ParseExportName,
         ParseAbort, ParseUnknownOption, ParseShortOption, ParseStrayData,
         ParseNameSize, ParseName, DropMessage
  <1>3. /\ inbound[1].n \in Nat
        /\ inbound[1].n <= cut - 1 => 1 + inbound[1].n \in 0 .. cut
    BY <1>1, <1>2, FirstField
  <1>4. ASSUME NEW k \in 0 .. cut, Consume(k),
               link' \in {"down", "up", "closing"}, nego_state' \in 0 .. 7,
               glob_flags' \in BOOLEAN, dialog' \in {"none", "info"},
               client' \in Clients, strayed' \in BOOLEAN,
               wire' \in Seq(Messages),
               UNCHANGED <<write, allowWrite, device, asked, sessions>>
        PROVE  TypeOK'
    BY <1>2, <1>4, ConsumeTypes DEF TypeOK, Clients, write, device, asked
  <1>5. SendExport => wire' \in Seq(Messages) /\ nego_state' = 6
                        /\ client' \in {client, "ready", "misled"}
    BY <1>1, PlainMessages, SendTypes, HeardClients DEF SendExport, ZeroPad
  <1>6. /\ link \in {"down", "up", "closing"} /\ nego_state \in 0 .. 7
        /\ glob_flags \in BOOLEAN
        /\ client \in Clients /\ {"ready", "choosing", "misled"} \subseteq Clients
        /\ strayed \in BOOLEAN
    BY DEF TypeOK, Clients
  <1>7. CASE ParseFlags
    <2>1. glob_flags' \in BOOLEAN
      BY <1>7 DEF ParseFlags
    <2>2. QED
      BY <1>1, <1>2, <1>4, <1>6, <1>7, <2>1 DEF ParseFlags, Parsing, peer, session
  <1>8. CASE ParseMagic
    BY <1>1, <1>2, <1>4, <1>6, <1>8, SomeConsumed
    DEF ParseMagic, Parsing, peer, session
  <1>9. CASE ParseExportName
    BY <1>1, <1>2, <1>4, <1>6, <1>9 DEF ParseExportName, Parsing, peer, session
  <1>10. CASE ParseAbort
    BY <1>1, <1>2, <1>4, <1>6, <1>10 DEF ParseAbort, Parsing, peer, session
  <1>11. CASE ParseUnknownOption
    BY <1>1, <1>2, <1>3, <1>4, <1>6, <1>11, PlainMessages, SendTypes, HeardClients
    DEF ParseUnknownOption, Parsing, session
  <1>12. CASE ParseShortOption
    BY <1>1, <1>2, <1>4, <1>6, <1>12 DEF ParseShortOption, Parsing, server, peer,
         session
  <1>13. CASE ParseStrayData
    <2>1. /\ strayed' \in BOOLEAN
          /\ wire' \in Seq(Messages) /\ client' \in Clients
          /\ nego_state' \in 0 .. 7 /\ link' \in {"down", "up", "closing"}
          /\ dialog' \in {"none", "info"} /\ UNCHANGED glob_flags
      BY <1>1, <1>6, <1>13, PlainMessages, SendTypes, HeardClients
      DEF ParseStrayData, Parsing
    <2>2. PICK k \in 0 .. cut : Consume(k)
      BY <1>1, <1>13, SomeConsumed DEF ParseStrayData
    <2>3. QED
      BY <1>4, <1>6, <1>13, <2>1, <2>2 DEF ParseStrayData
  <1>14. CASE ParseNameSize
    <2>1. PICK k \in 0 .. cut : Consume(k)
      BY <1>1, <1>2, <1>14, NameConsumed DEF ParseNameSize
    <2>2. QED
      BY <1>1, <1>4, <1>5, <1>6, <1>14, <2>1 DEF ParseNameSize, Parsing, session
  <1>15. CASE ParseName
    <2>1. PICK k \in 0 .. cut : Consume(k)
      BY <1>1, <1>2, <1>15, NameConsumed DEF ParseName
    <2>2. QED
      BY <1>1, <1>4, <1>5, <1>6, <1>15, <2>1 DEF ParseName, Parsing, session
  <1>16. CASE DropMessage
    BY <1>1, <1>2, <1>4, <1>6, <1>16 DEF DropMessage, Parsing, server, peer,
         session
  <1>17. QED
    BY <1>7, <1>8, <1>9, <1>10, <1>11, <1>12, <1>13, <1>14, <1>15, <1>16
    DEF Negotiate

(* A request at the front of the stream is one the client sent.            *)
LEMMA RequestTypes ==
    ASSUME TypeOK, WellFormed(inbound, reqs), cut > 0, inbound[1].kind = "req"
    PROVE  /\ inbound[1].id \in 1 .. Len(reqs)
           /\ Request \in Requests
  <1>1. inbound \in Seq(Fields) /\ 1 \in 1 .. Len(inbound) /\ reqs \in Seq(Requests)
    BY FirstField DEF TypeOK
  <1>2. inbound[1].id \in 1 .. Len(reqs)
    BY <1>1 DEF WellFormed, IsReq
  <1>3. QED
    BY <1>1, <1>2 DEF Request

(* handle_read reads cells of the image only.                              *)
LEMMA ReadTypes ==
    ASSUME TypeOK, NEW r \in Requests, ~BadLength(r), NEW n \in 0 .. r.len,
           NEW id \in Nat
    PROVE  Message("data", id, ReadData(r, n)) \in Messages
  <1>1. n \in Nat /\ \A i \in 1 .. n : r.from + ((i - 1) % ReadCells) \in Cells
    <2>1. /\ r.len \in 1 .. MaxCells /\ r.from \in Nat /\ r.from + r.len <= FileCells
          /\ ReadCells \in Nat \ {0} /\ FileCells \in Nat /\ MaxCells \in Nat
      BY InExport, ConstantsAssumption DEF ConstantsAssumption
    <2>2. n \in Nat
      BY <2>1
    <2>3. SUFFICES ASSUME NEW i \in 1 .. n
                   PROVE  r.from + ((i - 1) % ReadCells) \in Cells
      BY <2>2
    <2>4. (i - 1) % ReadCells \in 0 .. i - 1
      <3>1. i - 1 \in Nat
        BY <2>2
      <3>2. QED
        BY <2>1, <3>1
    <2>5. QED
      BY <2>1, <2>2, <2>4 DEF Cells
  <1>2. image \in [Cells -> Value]
    BY DEF TypeOK
  <1>3. ReadData(r, n) \in [1 .. n -> Value]
    BY <1>1, <1>2 DEF ReadData
  <1>4. ReadData(r, n) \in Seq(Value)
    BY <1>1, <1>3, FunctionIsSeq
  <1>5. QED
    BY <1>4, MessageTypes

(* State 6, handle_request, keeps the types.                               *)
LEMMA TransmitTypes ==
    ASSUME TypeOK, WellFormed(inbound, reqs), Transmit
    PROVE  TypeOK'
  <1>1. cut \in Nat /\ wire \in Seq(Messages)
    BY DEF TypeOK
  <1>2. nego_state = 6 /\ cut > 0 /\ cut \in 0 .. cut /\ 1 \in 0 .. cut
    BY <1>1 DEF Transmit, Parsing, ParsingRequest, RejectRange, BeginWrite,
         HandleRead, HandleReadFails, HandleDisc, IgnoreCommand, RejectGarbage
  <1>3. ASSUME NEW k \in 0 .. cut, Consume(k),
               link' \in {"down", "up", "closing"}, nego_state' \in 0 .. 7,
               write_from' \in Nat, write_len' \in Nat, write_handle' \in Nat,
               fh' \in {"none", "open", "closed"}, offset' \in Nat,
               dialog' \in {"none", "info"}, wire' \in Seq(Messages),
               UNCHANGED <<glob_flags, allowWrite, image, damaged, peer, session>>
        PROVE  TypeOK'
    BY <1>2, <1>3, ConsumeTypes DEF TypeOK, peer, asked, session
  <1>4. /\ link \in {"down", "up", "closing"} /\ write_from \in Nat
        /\ write_len \in Nat /\ write_handle \in Nat
        /\ fh \in {"none", "open", "closed"} /\ offset \in Nat
    BY DEF TypeOK
  <1>5. inbound[1].id \in Nat
    BY <1>2, FirstField
  <1>6. ASSUME inbound[1].kind = "req"
        PROVE  /\ Request \in Requests /\ Request.len \in Nat /\ Request.from \in Nat
               /\ ~BadLength(Request) => Request.len \in 1 .. MaxCells
    <2>1. Request \in Requests
      BY <1>2, <1>6, RequestTypes
    <2>2. QED
      BY <2>1, InExport DEF Requests
  <1>7. CASE RejectRange
    BY <1>1, <1>2, <1>3, <1>4, <1>7 DEF RejectRange, server, write, device
  <1>8. CASE BeginWrite
    BY <1>1, <1>2, <1>3, <1>4, <1>5, <1>6, <1>8 DEF BeginWrite, ParsingRequest, Parsing
  <1>9. CASE HandleRead
    <2>1. Request \in Requests /\ ~BadLength(Request) /\ Request.len \in 1 .. MaxCells
            /\ Request.from \in Nat
      BY <1>6, <1>9 DEF HandleRead, ParsingRequest
    <2>2. offset' \in Nat
      <3>1. Request.len - 1 \in Nat /\ ReadCells \in Nat \ {0}
        BY <2>1, ConstantsAssumption DEF ConstantsAssumption
      <3>2. (Request.len - 1) % ReadCells \in Nat
        BY <3>1
      <3>3. QED
        BY <1>9, <2>1, <3>2 DEF HandleRead
    <2>3. wire' \in Seq(Messages)
      <3>1. Request.len \in 0 .. Request.len
        BY <1>6, <1>9 DEF HandleRead, ParsingRequest
      <3>2. Message("data", inbound[1].id, ReadData(Request, Request.len)) \in Messages
        BY <1>5, <2>1, <3>1, ReadTypes
      <3>3. QED
        BY <1>1, <1>5, <1>9, <3>2, PlainMessages, SendTypes DEF HandleRead
    <2>4. QED
      BY <1>1, <1>2, <1>3, <1>4, <1>9, <2>2, <2>3
      DEF HandleRead, ParsingRequest, Parsing, server, write
  <1>10. CASE HandleReadFails
    <2>1. Request \in Requests /\ ~BadLength(Request) /\ Request.len \in Nat
            /\ Request.from \in Nat
      BY <1>6, <1>10 DEF HandleReadFails, ParsingRequest
    <2>2. PICK n \in 0 .. Request.len - 1 :
             Send(<<Reply(inbound[1].id),
                    Message("data", inbound[1].id, ReadData(Request, n))>>)
      BY <1>10 DEF HandleReadFails
    <2>3. Message("data", inbound[1].id, ReadData(Request, n)) \in Messages
      <3>1. n \in 0 .. Request.len
        BY <2>1
      <3>2. QED
        BY <1>5, <2>1, <3>1, ReadTypes
    <2>4. wire' \in Seq(Messages)
      BY <1>1, <1>5, <2>2, <2>3, PlainMessages, SendTypes
    <2>5. QED
      BY <1>1, <1>2, <1>3, <1>4, <1>10, <2>1, <2>4
      DEF HandleReadFails, ParsingRequest, Parsing, server, write
  <1>11. CASE HandleDisc
    BY <1>1, <1>2, <1>3, <1>4, <1>11 DEF HandleDisc, server, write
  <1>12. CASE IgnoreCommand
    BY <1>1, <1>2, <1>3, <1>4, <1>12
    DEF IgnoreCommand, ParsingRequest, Parsing, server, write, device
  <1>13. CASE RejectGarbage
    <2>1. PICK k \in 1 .. cut : Consume(k)
      BY <1>13 DEF RejectGarbage
    <2>2. k \in 0 .. cut
      BY <1>1
    <2>3. QED
      BY <1>1, <1>2, <1>3, <1>4, <1>13, <2>1, <2>2 DEF RejectGarbage, server, write, device
  <1>14. QED
    BY <1>7, <1>8, <1>9, <1>10, <1>11, <1>12, <1>13 DEF Transmit

(* handle_write: what it stores is payload or what the buffer holds behind *)
(* it.                                                                     *)
LEMMA PassTypes ==
    ASSUME TypeOK, cut > 0
    PROVE  /\ pass_write \in 0 .. cut /\ pass_write <= write_len
           /\ (write_len > 0 => pass_write > 0)
           /\ cut \in 1 .. Len(inbound)
  BY FirstField DEF pass_write, TypeOK

(* The image stays an image.                                               *)
LEMMA StoredTypes ==
    ASSUME TypeOK, cut > 0, write_len <= MaxCells, NEW n \in 0 .. 2 * MaxCells
    PROVE  Stored(n) \in [Cells -> Value]
  <1>1. pass_write \in Nat /\ pass_write <= cut /\ pass_write <= MaxCells
          /\ cut \in 1 .. Len(inbound) /\ MaxCells \in Nat
    BY PassTypes, ConstantsAssumption DEF TypeOK, ConstantsAssumption
  <1>2. Buffer \in [0 .. 2 * MaxCells -> Value]
    <2>1. \A j \in 0 .. 2 * MaxCells : j < pass_write =>
             <<inbound[j + 1].id, inbound[j + 1].n>> \in Value
      BY <1>1, FirstField DEF Value, Fields
    <2>2. <<write_handle, -1>> \in Value
      BY DEF TypeOK, Value
    <2>3. QED
      BY <2>1, <2>2 DEF Buffer
  <1>3. Output \in [0 .. 2 * MaxCells -> Value]
    <2> DEFINE nb == pass_write - 1
               rest == [Buffer EXCEPT ![0] = Buffer[nb]]
    <2>1. nb > 0 => rest \in [0 .. 2 * MaxCells -> Value]
      BY <1>1, <1>2
    <2>2. \A j \in 0 .. 2 * MaxCells : nb > 0 /\ j >= nb => j - nb \in 0 .. 2 * MaxCells
      BY <1>1
    <2>3. Output = [j \in 0 .. 2 * MaxCells |->
                      IF pass_write % 2 = 1 /\ nb > 0 /\ j >= nb
                        THEN rest[j - nb] ELSE Buffer[j]]
      BY DEF Output
    <2> HIDE DEF nb, rest
    <2>4. QED
      BY <1>2, <2>1, <2>2, <2>3
  <1>4. \A c \in Cells : offset <= c /\ c < offset + n => c - offset \in 0 .. 2 * MaxCells
    BY <1>1 DEF TypeOK, Cells
  <1>5. image \in [Cells -> Value]
    BY DEF TypeOK
  <1>6. QED
    BY <1>3, <1>4, <1>5 DEF Stored

(* However many cells handle_write stores, the buffer holds them.          *)
LEMMA CountTypes ==
    ASSUME TypeOK, cut > 0, write_len <= MaxCells, NEW n \in Counts
    PROVE  n \in 0 .. 2 * MaxCells
  BY PassTypes, ConstantsAssumption DEF Counts, TypeOK, ConstantsAssumption

(* State 7, handle_write, keeps the types.                                 *)
LEMMA PayloadStepTypes ==
    ASSUME TypeOK, write_len <= MaxCells, ReceivePayload
    PROVE  TypeOK'
  <1>1. /\ cut \in Nat /\ wire \in Seq(Messages)
        /\ write_len \in Nat /\ write_handle \in Nat /\ offset \in Nat
        /\ image \in [Cells -> Value]
        /\ damaged \subseteq (Nat \X {"dropped", "shifted", "failed"})
    BY DEF TypeOK
  <1>2. nego_state = 7 /\ cut > 0
    BY <1>1 DEF ReceivePayload, Parsing, DropPayload, WritePayload, WriteFails
  <1>3. pass_write \in 0 .. cut /\ pass_write <= write_len
    BY <1>2, PassTypes
  <1>4. ASSUME Consume(pass_write),
               nego_state' \in {6, 7}, write_len' \in Nat, offset' \in Nat,
               image' \in [Cells -> Value], wire' \in Seq(Messages),
               damaged' \subseteq (Nat \X {"dropped", "shifted", "failed"}),
               UNCHANGED <<link, glob_flags, write_from, write_handle, allowWrite,
                           fh, dialog, peer, session>>
        PROVE  TypeOK'
    BY <1>2, <1>3, <1>4, ConsumeTypes DEF TypeOK, peer, asked, session
  <1>5. Received => /\ Consume(pass_write) /\ nego_state' \in {6, 7}
                    /\ write_len' \in Nat /\ wire' \in Seq(Messages)
    BY <1>1, <1>2, <1>3, PlainMessages, SendTypes DEF Received
  <1>6. \A cause \in {"dropped", "shifted", "failed"} :
           Damage(cause) => damaged' \subseteq (Nat \X {"dropped", "shifted", "failed"})
    BY <1>1 DEF Damage
  <1>7. CASE DropPayload
    BY <1>1, <1>4, <1>5, <1>6, <1>7 DEF DropPayload
  <1>8. CASE WritePayload
    <2>1. PICK n \in Counts : image' = Stored(n) /\ offset' = offset + n
      BY <1>8 DEF WritePayload
    <2>2. n \in 0 .. 2 * MaxCells /\ MaxCells \in Nat
      BY <1>2, CountTypes, ConstantsAssumption DEF ConstantsAssumption
    <2>3. image' \in [Cells -> Value] /\ offset' \in Nat
      BY <1>1, <1>2, <2>1, <2>2, StoredTypes
    <2>4. QED
      BY <1>1, <1>4, <1>5, <1>6, <1>8, <2>3 DEF WritePayload
  <1>9. CASE WriteFails
    <2>1. PICK n \in Counts : \E w \in 0 .. n : image' = Stored(w) /\ offset' = offset + w
      BY <1>9 DEF WriteFails
    <2>2. n \in 0 .. 2 * MaxCells /\ MaxCells \in Nat
      BY <1>2, CountTypes, ConstantsAssumption DEF ConstantsAssumption
    <2>3. PICK w \in 0 .. 2 * MaxCells : image' = Stored(w) /\ offset' = offset + w
      BY <2>1, <2>2
    <2>4. image' \in [Cells -> Value] /\ offset' \in Nat
      BY <1>1, <1>2, <2>2, <2>3, StoredTypes
    <2>5. wire' \in Seq(Messages)
      BY <1>1, <1>9, PlainMessages, SendTypes DEF WriteFails
    <2>6. QED
      BY <1>1, <1>4, <1>6, <1>9, <2>4, <2>5 DEF WriteFails, write
  <1>10. QED
    BY <1>7, <1>8, <1>9 DEF ReceivePayload

(***************************************************************************)
(* The byte stream.                                                        *)
(***************************************************************************)

(* The parts of a request the client sent.                                 *)
LEMMA SentRequest ==
    ASSUME NEW rs \in Seq(Requests), NEW h \in 1 .. Len(rs)
    PROVE  rs[h].len \in Nat /\ rs[h].from \in 0 .. Wrap - 1 /\ rs[h].cmd \in Commands
  <1>1. rs[h] \in Requests
    OBVIOUS
  <1>2. QED
    BY <1>1 DEF Requests

(* What is left of the byte stream after the first k fields.               *)
LEMMA SuffixStream ==
    ASSUME NEW s \in Seq(Fields), NEW t \in Seq(Fields), NEW k \in 0 .. Len(s),
           Len(t) = Len(s) - k, \A i \in 1 .. Len(t) : t[i] = s[i + k]
    PROVE  /\ \A rs \in Seq(Requests) : WellFormed(s, rs) => WellFormed(t, rs)
           /\ \A h \in Int : Later(s, h) => Later(t, h)
  <1>1. \A i \in 1 .. Len(t) : i + k \in 1 .. Len(s) /\ t[i] = s[i + k]
    OBVIOUS
  <1>2. \A h \in Int : Later(s, h) => Later(t, h)
    BY <1>1 DEF Later, IsReq
  <1>3. ASSUME NEW rs \in Seq(Requests), WellFormed(s, rs),
               NEW i \in 1 .. Len(t), IsReq(t, i)
        PROVE  /\ t[i].id \in 1 .. Len(rs)
               /\ rs[t[i].id].cmd = "WRITE" =>
                     /\ i + rs[t[i].id].len <= Len(t)
                     /\ \A n \in 1 .. rs[t[i].id].len :
                           t[i + n] = Field("cell", t[i].id, n - 1)
               /\ \A j \in 1 .. i - 1 : IsReq(t, j) => t[j].id < t[i].id
    <2>1. i + k \in 1 .. Len(s) /\ IsReq(s, i + k) /\ t[i] = s[i + k]
      BY <1>1, <1>3 DEF IsReq
    <2>2. t[i].id \in 1 .. Len(rs)
      BY <1>3, <2>1 DEF WellFormed
    <2>3. ASSUME rs[t[i].id].cmd = "WRITE"
          PROVE  /\ i + rs[t[i].id].len <= Len(t)
                 /\ \A n \in 1 .. rs[t[i].id].len :
                       t[i + n] = Field("cell", t[i].id, n - 1)
      <3>1. rs[t[i].id].len \in Nat
        BY <2>2, SentRequest
      <3>2. /\ i + k + rs[t[i].id].len <= Len(s)
            /\ \A n \in 1 .. rs[t[i].id].len :
                  s[i + k + n] = Field("cell", t[i].id, n - 1)
        BY <1>3, <2>1, <2>3 DEF WellFormed
      <3>3. i + rs[t[i].id].len <= Len(t)
        BY <3>1, <3>2
      <3>4. ASSUME NEW n \in 1 .. rs[t[i].id].len
            PROVE  t[i + n] = Field("cell", t[i].id, n - 1)
        <4>1. i + n \in 1 .. Len(t) /\ i + n + k = i + k + n
          BY SMTT(30), <3>1, <3>3
        <4>2. QED
          BY <1>1, <3>2, <4>1
      <3>5. QED
        BY <3>3, <3>4
    <2>4. ASSUME NEW j \in 1 .. i - 1, IsReq(t, j)
          PROVE  t[j].id < t[i].id
      <3>1. j \in 1 .. Len(t) /\ j + k \in 1 .. i + k - 1
        OBVIOUS
      <3>2. IsReq(s, j + k) /\ t[j] = s[j + k]
        BY <1>1, <2>4, <3>1 DEF IsReq
      <3>3. QED
        BY <1>3, <2>1, <3>1, <3>2 DEF WellFormed
    <2>5. QED
      BY <2>2, <2>3, <2>4
  <1>4. QED
    BY <1>2, <1>3 DEF WellFormed

(* Fields without a request at the end of the byte stream.                 *)
LEMMA AppendNoRequest ==
    ASSUME NEW s \in Seq(Fields), NEW u \in Seq(Fields), NEW rs \in Seq(Requests),
           \A i \in 1 .. Len(u) : ~IsReq(u, i)
    PROVE  /\ WellFormed(s, rs) => WellFormed(s \o u, rs)
           /\ \A h \in Int : Later(s, h) => Later(s \o u, h)
  <1>1. /\ Len(s \o u) = Len(s) + Len(u) /\ Len(s) \in Nat /\ Len(u) \in Nat
        /\ \A i \in 1 .. Len(s) : (s \o u)[i] = s[i]
        /\ \A i \in 1 .. Len(s \o u) : i > Len(s) =>
              i - Len(s) \in 1 .. Len(u) /\ (s \o u)[i] = u[i - Len(s)]
    BY ConcatProperties
  <1>2. \A i \in 1 .. Len(s \o u) : IsReq(s \o u, i) => i \in 1 .. Len(s) /\ IsReq(s, i)
    BY <1>1 DEF IsReq
  <1>3. \A h \in Int : Later(s, h) => Later(s \o u, h)
    BY <1>1, <1>2 DEF Later
  <1>4. ASSUME WellFormed(s, rs), NEW i \in 1 .. Len(s), IsReq(s, i)
        PROVE  /\ s[i].id \in 1 .. Len(rs)
               /\ rs[s[i].id].cmd = "WRITE" =>
                     /\ i + rs[s[i].id].len <= Len(s \o u)
                     /\ \A k \in 1 .. rs[s[i].id].len :
                           (s \o u)[i + k] = Field("cell", s[i].id, k - 1)
               /\ \A j \in 1 .. i - 1 : IsReq(s \o u, j) => (s \o u)[j].id < s[i].id
    <2>1. s[i].id \in 1 .. Len(rs)
      BY <1>4 DEF WellFormed
    <2>0. rs[s[i].id].len \in Nat
      BY <2>1, SentRequest
    <2>2. rs[s[i].id].cmd = "WRITE" =>
             /\ i + rs[s[i].id].len <= Len(s)
             /\ \A k \in 1 .. rs[s[i].id].len : s[i + k] = Field("cell", s[i].id, k - 1)
      BY <1>4 DEF WellFormed
    <2>3. \A j \in 1 .. i - 1 : IsReq(s, j) => s[j].id < s[i].id
      BY <1>4 DEF WellFormed
    <2>4. \A j \in 1 .. i - 1 : IsReq(s \o u, j) => (s \o u)[j].id < s[i].id
      BY <1>1, <2>3 DEF IsReq
    <2>5. QED
      BY SMTT(30), <1>1, <2>0, <2>1, <2>2, <2>4
  <1>5. ASSUME WellFormed(s, rs) PROVE WellFormed(s \o u, rs)
    <2>1. SUFFICES ASSUME NEW i \in 1 .. Len(s \o u), IsReq(s \o u, i)
          PROVE  /\ (s \o u)[i].id \in 1 .. Len(rs)
                 /\ rs[(s \o u)[i].id].cmd = "WRITE" =>
                       /\ i + rs[(s \o u)[i].id].len <= Len(s \o u)
                       /\ \A k \in 1 .. rs[(s \o u)[i].id].len :
                             (s \o u)[i + k] = Field("cell", (s \o u)[i].id, k - 1)
                 /\ \A j \in 1 .. i - 1 :
                       IsReq(s \o u, j) => (s \o u)[j].id < (s \o u)[i].id
      BY DEF WellFormed
    <2>2. i \in 1 .. Len(s) /\ IsReq(s, i) /\ (s \o u)[i] = s[i]
      BY <1>1, <1>2, <2>1
    <2>3. QED
      BY <1>4, <1>5, <2>2
  <1>6. QED
    BY <1>3, <1>5

(* A request and its payload at the end of the byte stream.                *)
LEMMA AppendRequest ==
    ASSUME NEW s \in Seq(Fields), NEW rs \in Seq(Requests), NEW r \in Requests,
           NEW n \in Nat, r.cmd = "WRITE" => n = r.len,
           WellFormed(s, rs)
    PROVE  LET h == Len(rs) + 1
               t == Append(s, Field("req", h, 0)) \o Payload(h, n)
           IN  /\ WellFormed(t, Append(rs, r))
               /\ \A g \in Int : g < h /\ Later(s, g) => Later(t, g)
  <1> DEFINE h == Len(rs) + 1
             p == Append(s, Field("req", h, 0))
             q == Append(rs, r)
             u == Payload(h, n)
  <1>0. h \in Nat /\ Len(s) \in Nat
    OBVIOUS
  <1>1. /\ h \in Nat /\ Len(s) \in Nat /\ Field("req", h, 0) \in Fields
        /\ Field("req", h, 0).kind = "req" /\ Field("req", h, 0).id = h
        /\ \A k \in Nat : Field("cell", h, k).kind = "cell"
    <2> HIDE DEF h
    <2>1. Field("req", h, 0) \in Fields
      BY <1>0, FieldTypes
    <2>2. QED
      BY <1>0, <2>1 DEF Field
  <1>2. /\ u \in Seq(Fields) /\ Len(u) = n
        /\ \A i \in 1 .. n : u[i] = Field("cell", h, i - 1)
    BY <1>1, PayloadTypes
  <1>3. /\ q \in Seq(Requests) /\ Len(q) = h /\ q[h] = r
        /\ \A g \in 1 .. Len(rs) : q[g] = rs[g]
    OBVIOUS
  <1>4. /\ p \in Seq(Fields) /\ Len(p) = Len(s) + 1 /\ p[Len(p)] = Field("req", h, 0)
        /\ \A i \in 1 .. Len(s) : p[i] = s[i]
    BY <1>1
  <1> HIDE DEF h, p, q, u
  <1>5. \A i \in 1 .. Len(s) : IsReq(s, i) => s[i].id \in 1 .. Len(rs) /\ s[i].id < h
    BY <1>1 DEF WellFormed, h
  <1>6. /\ Len(p \o u) = Len(s) + 1 + n
        /\ \A i \in 1 .. Len(s) : (p \o u)[i] = s[i]
        /\ (p \o u)[Len(s) + 1] = Field("req", h, 0)
        /\ \A i \in 1 .. n : (p \o u)[Len(s) + 1 + i] = Field("cell", h, i - 1)
    <2>1. /\ Len(p \o u) = Len(p) + Len(u)
          /\ \A i \in 1 .. Len(p) + Len(u) : (p \o u)[i] =
                IF i <= Len(p) THEN p[i] ELSE u[i - Len(p)]
      BY <1>2, <1>4, ConcatProperties
    <2>2. \A i \in 1 .. n : /\ Len(s) + 1 + i \in 1 .. Len(p) + Len(u)
                            /\ ~(Len(s) + 1 + i <= Len(p))
                            /\ (Len(s) + 1 + i) - Len(p) = i
      BY <1>1, <1>2, <1>4
    <2>3. \A i \in 1 .. Len(s) + 1 : i \in 1 .. Len(p) + Len(u) /\ i <= Len(p)
      BY <1>1, <1>2, <1>4
    <2>4. QED
      BY SMTT(30), <1>1, <1>2, <1>4, <2>1, <2>2, <2>3
  <1> DEFINE t == p \o u
  <1>7. /\ Len(t) = Len(s) + 1 + n
        /\ \A i \in 1 .. Len(s) : t[i] = s[i]
        /\ t[Len(s) + 1] = Field("req", h, 0)
        /\ \A i \in 1 .. n : t[Len(s) + 1 + i] = Field("cell", h, i - 1)
    BY <1>6
  <1> HIDE DEF t
  <1>8. \A i \in 1 .. Len(t) :
           IsReq(t, i) => \/ i \in 1 .. Len(s) /\ IsReq(s, i) /\ t[i] = s[i]
                          \/ i = Len(s) + 1
    <2>1. \A i \in 1 .. Len(t) :
             i > Len(s) + 1 => i - (Len(s) + 1) \in 1 .. n
                                 /\ Len(s) + 1 + (i - (Len(s) + 1)) = i
                                 /\ i - (Len(s) + 1) - 1 \in Nat
      BY <1>1, <1>7
    <2>2. \A i \in 1 .. Len(t) : i > Len(s) + 1 => t[i].kind = "cell"
      BY <1>1, <1>7, <2>1
    <2>3. QED
      BY <1>1, <1>7, <2>2 DEF IsReq
  <1>9. \A g \in Int : g < h /\ Later(s, g) => Later(t, g)
    BY <1>1, <1>7, <1>8 DEF Later
  <1>10. WellFormed(t, q)
    <2>1. SUFFICES ASSUME NEW i \in 1 .. Len(t), IsReq(t, i)
          PROVE  /\ t[i].id \in 1 .. Len(q)
                 /\ q[t[i].id].cmd = "WRITE" =>
                       /\ i + q[t[i].id].len <= Len(t)
                       /\ \A k \in 1 .. q[t[i].id].len :
                             t[i + k] = Field("cell", t[i].id, k - 1)
                 /\ \A j \in 1 .. i - 1 : IsReq(t, j) => t[j].id < t[i].id
      BY DEF WellFormed
    <2>2. CASE i = Len(s) + 1
      <3>1. t[i].id = h /\ q[h] = r
        BY <1>1, <1>3, <1>7, <2>2
      <3>2. ASSUME NEW j \in 1 .. i - 1, IsReq(t, j) PROVE t[j].id < h
        <4>1. j \in 1 .. Len(s) /\ j \in 1 .. Len(t) /\ j # Len(s) + 1
          BY <1>1, <1>7, <2>2
        <4>2. IsReq(s, j) /\ t[j] = s[j]
          BY <1>8, <3>2, <4>1
        <4>3. QED
          BY <1>5, <4>1, <4>2
      <3>3. r.cmd = "WRITE" =>
               /\ i + r.len <= Len(t)
               /\ \A k \in 1 .. r.len : t[i + k] = Field("cell", h, k - 1)
        <4>1. r.cmd = "WRITE" => r.len = n
          OBVIOUS
        <4>2. i + n <= Len(t)
          BY <1>1, <1>7, <2>2
        <4>3. \A k \in 1 .. n : t[i + k] = Field("cell", h, k - 1)
          BY <1>7, <2>2
        <4>4. QED
          BY <4>1, <4>2, <4>3
      <3>4. h \in 1 .. Len(q)
        BY <1>0, <1>3 DEF h
      <3>5. QED
        BY <3>1, <3>2, <3>3, <3>4
    <2>3. CASE i \in 1 .. Len(s) /\ IsReq(s, i) /\ t[i] = s[i]
      <3>1. s[i].id \in 1 .. Len(rs) /\ q[s[i].id] = rs[s[i].id]
              /\ s[i].id \in 1 .. Len(q)
        BY <1>3, <1>5, <2>3, <1>1 DEF h
      <3>2. rs[s[i].id].len \in Nat
        BY <3>1, SentRequest
      <3>3. ASSUME rs[s[i].id].cmd = "WRITE"
            PROVE  /\ i + rs[s[i].id].len <= Len(t)
                   /\ \A k \in 1 .. rs[s[i].id].len :
                         t[i + k] = Field("cell", s[i].id, k - 1)
        <4>1. /\ i + rs[s[i].id].len <= Len(s)
              /\ \A k \in 1 .. rs[s[i].id].len :
                    s[i + k] = Field("cell", s[i].id, k - 1)
          BY <2>3, <3>3 DEF WellFormed
        <4>2. \A k \in 1 .. rs[s[i].id].len : i + k \in 1 .. Len(s)
          BY SMTT(30), <1>1, <2>3, <3>2, <4>1
        <4>3. \A k \in 1 .. rs[s[i].id].len : t[i + k] = s[i + k]
          BY <1>7, <4>2
        <4>4. i + rs[s[i].id].len <= Len(t)
          BY <1>1, <1>7, <2>3, <3>2, <4>1
        <4>5. QED
          BY <4>1, <4>3, <4>4
      <3>4. ASSUME NEW j \in 1 .. i - 1, IsReq(t, j) PROVE t[j].id < s[i].id
        <4>1. j \in 1 .. Len(s) /\ j \in 1 .. Len(t) /\ j # Len(s) + 1
          BY <1>1, <1>7, <2>3
        <4>2. IsReq(s, j) /\ t[j] = s[j]
          BY <1>8, <3>4, <4>1
        <4>3. QED
          BY <2>3, <4>1, <4>2 DEF WellFormed
      <3>5. QED
        BY <2>3, <3>1, <3>3, <3>4
    <2>4. QED
      BY <1>8, <2>1, <2>2, <2>3
  <1>11. QED
    BY <1>9, <1>10 DEF h, p, q, u, t

(***************************************************************************)
(* The replies.                                                            *)
(***************************************************************************)

(* The handles that were answered.                                         *)
LEMMA InReplied ==
    \A g : g \in Replied <=> \E i \in 1 .. Len(wire) : IsReply(wire[i]) /\ wire[i].id = g
  BY DEF Replied

(* The same after the step.                                                *)
LEMMA InRepliedNext ==
    \A g : g \in Replied' <=>
              \E i \in 1 .. Len(wire') : IsReply(wire'[i]) /\ wire'[i].id = g
  BY DEF Replied, IsReply

(* Messages are sent, of which only the first may be a reply, to h.        *)
LEMMA SendReply ==
    ASSUME TypeOK, RepliesInOrder, NEW h \in Nat, NEW msgs \in Seq(Messages),
           wire' = wire \/ wire' = wire \o msgs,
           \A i \in 1 .. Len(msgs) : IsReply(msgs[i]) => i = 1 /\ msgs[i].id = h,
           \/ \A i \in 1 .. Len(msgs) : ~IsReply(msgs[i])
           \/ \A g \in Replied : g < h
    PROVE  /\ RepliesInOrder'
           /\ \A g \in Replied' : g \in Replied \/ g = h
           /\ (\A i \in 1 .. Len(msgs) : ~IsReply(msgs[i])) => Replied' = Replied
  <1>1. wire \in Seq(Messages)
    BY DEF TypeOK
  <1>2. CASE wire' = wire
    <2>1. Replied' = Replied
      BY <1>2, InReplied, InRepliedNext
    <2>2. RepliesInOrder'
      BY <1>2 DEF RepliesInOrder, IsReply
    <2>3. QED
      BY <2>1, <2>2
  <1>3. CASE wire' = wire \o msgs
    <2>1. /\ Len(wire') = Len(wire) + Len(msgs) /\ Len(wire) \in Nat /\ Len(msgs) \in Nat
          /\ \A i \in 1 .. Len(wire') : wire'[i] =
                IF i <= Len(wire) THEN wire[i] ELSE msgs[i - Len(wire)]
      BY <1>1, <1>3, ConcatProperties
    <2>2. \A i \in 1 .. Len(wire) : i \in 1 .. Len(wire') /\ wire'[i] = wire[i]
      BY <2>1
    <2>3. ASSUME NEW i \in 1 .. Len(wire'), IsReply(wire'[i])
          PROVE  \/ i \in 1 .. Len(wire) /\ IsReply(wire[i]) /\ wire'[i] = wire[i]
                 \/ /\ i = Len(wire) + 1 /\ wire'[i].id = h
                    /\ Len(msgs) >= 1 /\ IsReply(msgs[1])
      <3>1. CASE i <= Len(wire)
        BY <2>1, <2>2, <2>3, <3>1
      <3>2. CASE ~(i <= Len(wire))
        <4>1. i - Len(wire) \in 1 .. Len(msgs) /\ wire'[i] = msgs[i - Len(wire)]
          BY <2>1, <3>2
        <4>2. i - Len(wire) = 1 /\ msgs[i - Len(wire)].id = h
          BY <2>3, <4>1
        <4>3. QED
          BY <2>1, <2>3, <4>1, <4>2
      <3>3. QED
        BY <3>1, <3>2
    <2>4. \A g \in Replied' : g \in Replied \/ g = h
      BY <2>3, InReplied, InRepliedNext
    <2>5. (\A i \in 1 .. Len(msgs) : ~IsReply(msgs[i])) => Replied' = Replied
      <3>1. SUFFICES ASSUME \A i \in 1 .. Len(msgs) : ~IsReply(msgs[i])
                     PROVE  Replied' = Replied
        OBVIOUS
      <3>2. \A i \in 1 .. Len(wire') :
               IsReply(wire'[i]) => i \in 1 .. Len(wire) /\ wire'[i] = wire[i]
        BY <2>1, <2>3, <3>1
      <3>3. \A g : g \in Replied' => g \in Replied
        BY <3>2, InReplied, InRepliedNext
      <3>4. \A g : g \in Replied => g \in Replied'
        BY <2>2, InReplied, InRepliedNext
      <3>5. QED
        BY <3>3, <3>4
    <2>6. RepliesInOrder'
      <3>1. SUFFICES ASSUME NEW i \in 1 .. Len(wire'), NEW j \in 1 .. Len(wire'),
                            i < j, IsReply(wire'[i]), IsReply(wire'[j])
                     PROVE  wire'[i].id < wire'[j].id
        BY DEF RepliesInOrder, IsReply
      <3>2. CASE j \in 1 .. Len(wire) /\ IsReply(wire[j]) /\ wire'[j] = wire[j]
        <4>1. i \in 1 .. Len(wire) /\ IsReply(wire[i]) /\ wire'[i] = wire[i]
          BY <2>1, <2>3, <3>1, <3>2
        <4>2. QED
          BY <3>1, <3>2, <4>1 DEF RepliesInOrder
      <3>3. CASE /\ j = Len(wire) + 1 /\ wire'[j].id = h
                 /\ Len(msgs) >= 1 /\ IsReply(msgs[1])
        <4>1. i \in 1 .. Len(wire) /\ IsReply(wire[i]) /\ wire'[i] = wire[i]
          BY <2>1, <2>3, <3>1, <3>3
        <4>2. wire[i].id \in Replied
          BY <4>1, InReplied
        <4>3. \A g \in Replied : g < h
          BY <2>1, <3>3
        <4>4. QED
          BY <3>3, <4>1, <4>2, <4>3
      <3>4. QED
        BY <2>3, <3>1, <3>2, <3>3
    <2>7. QED
      BY <2>4, <2>5, <2>6
  <1>4. QED
    BY <1>2, <1>3

(***************************************************************************)
(* Steps that receive no payload.                                          *)
(***************************************************************************)

(* Part of the byte stream is consumed, and the next field is not payload; *)
(* a request that is not a write may be answered.                          *)
LEMMA IdleStep ==
    ASSUME IInv, TypeOK', write_len' = write_len, Silent', ~Receiving',
           UNCHANGED <<reqs, image, damaged>>,
           NEW k \in 0 .. Len(inbound),
           inbound' = SubSeq(inbound, k + 1, Len(inbound)),
           RepliesInOrder',
           \A g \in Replied' :
              \/ g \in Replied
              \/ g \in 1 .. Len(reqs) /\ Later(inbound', g) /\ reqs[g].cmd # "WRITE"
    PROVE  IInv'
  <1>1. inbound \in Seq(Fields) /\ inbound' \in Seq(Fields) /\ reqs \in Seq(Requests)
    BY DEF IInv, TypeOK
  <1>2. /\ WellFormed(inbound, reqs) => WellFormed(inbound', reqs)
        /\ \A h \in Int : Later(inbound, h) => Later(inbound', h)
    <2>1. /\ Len(inbound') = Len(inbound) - k
          /\ \A i \in 1 .. Len(inbound') : inbound'[i] = inbound[i + k]
      BY <1>1, SuffixTypes
    <2>2. QED
      BY <1>1, <2>1, SuffixStream
  <1>3. WellFormed(inbound', reqs')
    BY <1>2 DEF IInv
  <1>4. AnsweredIsOld'
    <2>1. SUFFICES ASSUME NEW g \in Replied'
                   PROVE  /\ g \in 1 .. Len(reqs) /\ Later(inbound', g)
                          /\ reqs[g].cmd = "WRITE" =>
                                reqs[g].from + reqs[g].len <= FileCells
      BY DEF AnsweredIsOld, Later, IsReq
    <2>2. CASE g \in Replied
      BY <1>2, <2>2 DEF IInv, AnsweredIsOld
    <2>3. QED
      BY <2>1, <2>2
  <1>5. StoredIsOld'
    <2>1. \A c \in Cells : /\ image[c][1] \in 0 .. Len(reqs)
                           /\ Later(inbound', image[c][1])
      BY <1>1, <1>2 DEF IInv, StoredIsOld
    <2>2. QED
      BY <2>1 DEF StoredIsOld, Later, IsReq
  <1>6. Progress' /\ PayloadInSync'
    BY DEF Progress, PayloadInSync
  <1>7. AckedWriteStored'
    <2>1. \A g \in Replied' : reqs[g].cmd = "WRITE" => g \in Replied
      OBVIOUS
    <2>2. QED
      BY <2>1 DEF IInv, AckedWriteStored, Intact
  <1>8. NoStrayWrite'
    BY DEF IInv, NoStrayWrite, Intact
  <1>9. QED
    BY <1>3, <1>4, <1>5, <1>6, <1>7, <1>8 DEF IInv

(* Nothing changes that the invariants speak of.                           *)
LEMMA StillStep ==
    ASSUME IInv, TypeOK', Silent',
           UNCHANGED <<nego_state, write, offset, image, damaged, reqs, inbound, wire>>
    PROVE  IInv'
  <1>1. UNCHANGED <<write_from, write_len, write_handle>>
    BY DEF write
  <1>2. /\ Replied' = Replied /\ (Receiving' <=> Receiving) /\ Pending' = Pending
        /\ \A h : Intact(h)' <=> Intact(h)
    BY <1>1 DEF Replied, Receiving, Pending, Intact, IsReply
  <1>3. WellFormed(inbound, reqs)' /\ AnsweredIsOld' /\ StoredIsOld'
    BY <1>1, <1>2 DEF IInv, WellFormed, AnsweredIsOld, StoredIsOld, Later, IsReq
  <1>4. Progress' /\ PayloadInSync'
    BY <1>1, <1>2 DEF IInv, Progress, PayloadInSync, Got, Later, IsReq
  <1>5. RepliesInOrder' /\ AckedWriteStored' /\ NoStrayWrite'
    BY <1>1, <1>2 DEF IInv, RepliesInOrder, AckedWriteStored, NoStrayWrite, IsReply, Intact
  <1>6. QED
    BY <1>1, <1>3, <1>4, <1>5 DEF IInv

(* The byte stream starts anew, and the client may be greeted.             *)
LEMMA GreetedStep ==
    ASSUME IInv, TypeOK', Silent', ~Receiving', inbound' = << >>,
           UNCHANGED <<write_len, reqs, image, damaged>>,
           wire' \in {wire, wire \o <<Message("greeting", 0, << >>)>>}
    PROVE  IInv'
  <1>1. TypeOK /\ inbound \in Seq(Fields) /\ RepliesInOrder
    BY DEF IInv, TypeOK
  <1>2. /\ Len(inbound) \in 0 .. Len(inbound)
        /\ inbound' = SubSeq(inbound, Len(inbound) + 1, Len(inbound))
    BY <1>1, SubSeqEmpty
  <1>3. <<Message("greeting", 0, << >>)>> \in Seq(Messages)
          /\ ~IsReply(<<Message("greeting", 0, << >>)>>[1])
    BY PlainMessages DEF IsReply, Message
  <1>4. \A i \in 1 .. Len(<<Message("greeting", 0, << >>)>>) :
           ~IsReply(<<Message("greeting", 0, << >>)>>[i])
    BY <1>3
  <1>5. RepliesInOrder' /\ Replied' = Replied
    BY <1>1, <1>3, <1>4, SendReply
  <1>6. QED
    BY <1>2, <1>5, IdleStep

(* Connecting, modal boxes, the end of a connection and the proxy keep the *)
(* invariant.                                                              *)
LEMMA ConnectStep ==
    ASSUME IInv, Connect \/ CloseDialog \/ LinkDown \/ Proxy
    PROVE  IInv'
  <1>1. TypeOK /\ TypeOK' /\ inbound \in Seq(Fields) /\ RepliesInOrder
    BY ConnectTypes, ClientTypes DEF IInv, TypeOK
  <1>2. ASSUME Connect
        PROVE  IInv'
    <2>1. /\ inbound' = << >> /\ link = "down" /\ link' = "up"
          /\ UNCHANGED <<write_len, reqs, image, damaged>>
          /\ wire' \in {wire, wire \o <<Message("greeting", 0, << >>)>>}
      <3>1. CASE onConnected
        BY <3>1 DEF onConnected, write, asked
      <3>2. CASE onConnectedReadOnly
        BY <3>2 DEF onConnectedReadOnly, server, write, peer, asked
      <3>3. CASE onConnectedNoDevice
        BY <3>3 DEF onConnectedNoDevice, server, write, peer, asked
      <3>4. QED
        BY <1>2, <3>1, <3>2, <3>3 DEF Connect
    <2>2. client = "off"
      BY <2>1 DEF IInv, Silent
    <2>3. Silent' /\ ~Receiving'
      BY <1>2, <2>1, <2>2 DEF Connect, onConnected, onConnectedReadOnly,
         onConnectedNoDevice, server, peer, Silent, Receiving
    <2>4. QED
      BY <1>1, <2>1, <2>3, GreetedStep
  <1>3. ASSUME CloseDialog, dialog = "opening"
        PROVE  IInv'
    <2>1. inbound = << >> /\ client = "off"
      BY <1>3 DEF IInv, Silent
    <2>2. /\ inbound' = << >> /\ nego_state' = 1
          /\ UNCHANGED <<write_len, reqs, image, damaged>>
          /\ wire' \in {wire, wire \o <<Message("greeting", 0, << >>)>>}
      BY <1>3, <2>1 DEF CloseDialog, negotiate, Send, write, asked
    <2>3. Silent' /\ ~Receiving'
      BY <1>3, <2>1, <2>2 DEF CloseDialog, negotiate, Silent, Receiving
    <2>4. QED
      BY <1>1, <2>2, <2>3, GreetedStep
  <1>4. ASSUME \/ LinkDown \/ Proxy
               \/ CloseDialog /\ dialog # "opening"
        PROVE  IInv'
    <2>1. UNCHANGED <<nego_state, write, offset, image, damaged, reqs, inbound, wire>>
            /\ client' \in {client, "off"}
      BY <1>4 DEF LinkDown, Proxy, Frame, CloseDialog, negotiate, server, device,
         peer, asked
    <2>2. Silent'
      BY <1>4, <2>1 DEF LinkDown, Proxy, Frame, CloseDialog, IInv, Silent
    <2>3. QED
      BY <1>1, <2>1, <2>2, StillStep
  <1>5. QED
    BY <1>2, <1>3, <1>4

(* The client adds to the byte stream.                                     *)
LEMMA AppendStep ==
    ASSUME IInv, TypeOK', Silent', client # "off",
           UNCHANGED <<nego_state, write, offset, image, damaged, wire>>,
           NEW u \in Seq(Fields), inbound' = inbound \o u,
           NEW rs \in Seq(Requests), reqs' = reqs \o rs,
           WellFormed(inbound', reqs'),
           \A h \in 0 .. Len(reqs) : Later(inbound, h) => Later(inbound', h)
    PROVE  IInv'
  <1>1. /\ inbound \in Seq(Fields) /\ reqs \in Seq(Requests)
        /\ UNCHANGED <<write_from, write_len, write_handle>>
    BY DEF IInv, TypeOK, write
  <1>2. /\ Len(inbound) \in Nat /\ Len(inbound') >= Len(inbound)
        /\ \A i \in 1 .. Len(inbound) : inbound'[i] = inbound[i]
        /\ Len(reqs) \in Nat /\ Len(reqs') >= Len(reqs)
        /\ \A h \in 1 .. Len(reqs) : h \in 1 .. Len(reqs') /\ reqs'[h] = reqs[h]
    BY <1>1, ConcatProperties
  <1>3. Replied' = Replied /\ (\A h : Intact(h)' <=> Intact(h))
    BY DEF Replied, Intact, IsReply
  <1>4. Receiving' => Receiving
    BY <1>1, <1>2 DEF IInv, Silent, Receiving
  <1>5. \A h \in Replied : h \in 1 .. Len(reqs) /\ reqs'[h] = reqs[h]
    BY <1>2 DEF IInv, AnsweredIsOld
  <1>6. Receiving => /\ write_handle \in 1 .. Len(reqs) /\ Pending' = Pending
                     /\ Later(inbound', write_handle)
    BY <1>1, <1>2 DEF IInv, PayloadInSync, Pending, Progress
  <1>7. AnsweredIsOld'
    <2>1. \A h \in Replied : Later(inbound', h)
      BY <1>1, <1>5 DEF IInv, AnsweredIsOld
    <2>2. QED
      BY <1>1, <1>2, <1>3, <1>4, <1>5, <2>1 DEF IInv, AnsweredIsOld, Later, IsReq
  <1>8. StoredIsOld'
    <2>1. \A c \in Cells : image[c][1] \in 0 .. Len(reqs) /\ Later(inbound', image[c][1])
      BY DEF IInv, StoredIsOld
    <2>2. QED
      BY <1>1, <1>2, <1>4, <2>1 DEF IInv, StoredIsOld, Later, IsReq
  <1>9. Progress'
    BY <1>1, <1>3, <1>4, <1>6 DEF IInv, Progress, Got, Later, IsReq
  <1>10. PayloadInSync'
    <2>1. SUFFICES ASSUME Receiving
                   PROVE  /\ write_handle \in 1 .. Len(reqs')
                          /\ Pending.cmd = "WRITE" /\ Pending.from = write_from
                          /\ write_len \in 1 .. Pending.len
                          /\ write_from + Pending.len <= FileCells
                          /\ write_len <= Len(inbound')
                          /\ \A i \in 1 .. write_len :
                                inbound'[i] = Field("cell", write_handle,
                                                    Pending.len - write_len + i - 1)
      BY <1>1, <1>4, <1>6 DEF PayloadInSync
    <2>2. write_len \in 1 .. Pending.len /\ write_len <= Len(inbound) /\ write_len \in Nat
      BY <2>1 DEF IInv, PayloadInSync, TypeOK
    <2>3. \A i \in 1 .. write_len : i \in 1 .. Len(inbound)
      BY <1>2, <2>2
    <2>4. write_len <= Len(inbound') /\ write_handle \in 1 .. Len(reqs')
      <3>1. Len(inbound') \in Nat
        BY <1>2 DEF TypeOK
      <3>2. QED
        BY <1>2, <1>6, <2>1, <2>2, <3>1
    <2>5. QED
      BY <1>2, <2>1, <2>3, <2>4 DEF IInv, PayloadInSync
  <1>11. RepliesInOrder'
    BY DEF IInv, RepliesInOrder, IsReply
  <1>12. AckedWriteStored'
    BY ZenonT(60), <1>3, <1>5 DEF IInv, AckedWriteStored
  <1>13. NoStrayWrite'
    <2>1. \A c \in Cells : image[c][1] # 0 =>
             image[c][1] \in 1 .. Len(reqs) /\ reqs'[image[c][1]] = reqs[image[c][1]]
      BY <1>2 DEF IInv, StoredIsOld
    <2>2. QED
      BY <1>3, <2>1 DEF IInv, NoStrayWrite
  <1>14. QED
    BY <1>1, <1>7, <1>8, <1>9, <1>10, <1>11, <1>12, <1>13 DEF IInv

(* What the client sends: a request, if any, is the newest of the stream,  *)
(* and its payload follows it.                                             *)
LEMMA ClientAppends ==
    ASSUME IInv, Client
    PROVE  \E u \in Seq(Fields), rs \in Seq(Requests) :
              /\ inbound' = inbound \o u /\ reqs' = reqs \o rs
              /\ WellFormed(inbound', reqs')
              /\ \A h \in 0 .. Len(reqs) : Later(inbound, h) => Later(inbound', h)
  <1>1. /\ TypeOK /\ TypeOK' /\ inbound \in Seq(Fields) /\ reqs \in Seq(Requests)
        /\ WellFormed(inbound, reqs)
    BY ClientTypes DEF IInv, TypeOK
  <1>2. << >> \in Seq(Requests) /\ reqs \o << >> = reqs
    BY <1>1, ConcatEmptySeq
  <1>3. ASSUME NEW u \in Seq(Fields), inbound' = inbound \o u, UNCHANGED reqs,
               \A i \in 1 .. Len(u) : ~IsReq(u, i)
        PROVE  /\ WellFormed(inbound', reqs') /\ reqs' = reqs \o << >>
               /\ \A h \in 0 .. Len(reqs) : Later(inbound, h) => Later(inbound', h)
    BY <1>1, <1>2, <1>3, AppendNoRequest
  <1>4. CASE ClientFlags
    BY <1>1, <1>2, <1>3, <1>4, FlagBytes DEF ClientFlags
  <1>5. CASE \E o \in OptionMenu : ClientOption(o)
    BY <1>1, <1>2, <1>3, <1>5, OptionBytes DEF ClientOption
  <1>6. ASSUME NEW r \in RequestMenu, ClientRequest(r)
        PROVE  \E u \in Seq(Fields), rs \in Seq(Requests) :
                  /\ inbound' = inbound \o u /\ reqs' = reqs \o rs
                  /\ WellFormed(inbound', reqs')
                  /\ \A h \in 0 .. Len(reqs) : Later(inbound, h) => Later(inbound', h)
    <2> DEFINE h == Len(reqs) + 1
               n == IF r.cmd = "WRITE" THEN r.len ELSE 0
    <2>1. /\ r \in Requests /\ h \in Nat /\ n \in Nat
          /\ inbound' = Append(inbound, Field("req", h, 0)) \o Payload(h, n)
      BY <1>1, <1>6, RequestBytes
    <2>2. PICK u \in Seq(Fields) : inbound' = inbound \o u
      BY <1>1, <1>6, RequestBytes
    <2>3. reqs' = Append(reqs, r) /\ reqs' = reqs \o <<r>> /\ <<r>> \in Seq(Requests)
      BY <1>1, <1>6, <2>1, AppendIsConcat DEF ClientRequest
    <2>4. /\ WellFormed(inbound', reqs')
          /\ \A g \in Int : g < h /\ Later(inbound, g) => Later(inbound', g)
      BY <1>1, <2>1, <2>3, AppendRequest
    <2>5. \A g \in 0 .. Len(reqs) : Later(inbound, g) => Later(inbound', g)
      <3>1. \A g \in 0 .. Len(reqs) : g \in Int /\ g < h
        BY <1>1
      <3>2. QED
        BY <2>4, <3>1
    <2>6. QED
      BY <2>2, <2>3, <2>4, <2>5
  <1>7. QED
    BY <1>4, <1>5, <1>6 DEF Client

(* The client keeps the invariant.                                         *)
LEMMA ClientStep ==
    ASSUME IInv, Client
    PROVE  IInv'
  <1>1. TypeOK' /\ inbound \in Seq(Fields)
    BY ClientTypes DEF IInv, TypeOK
  <1>2. /\ UNCHANGED <<link, nego_state, write, offset, image, damaged, dialog, wire>>
        /\ client # "off"
    BY DEF Client, ClientFlags, ClientOption, ClientRequest, server, device
  <1>3. PICK u \in Seq(Fields), rs \in Seq(Requests) :
           /\ inbound' = inbound \o u /\ reqs' = reqs \o rs
           /\ WellFormed(inbound', reqs')
           /\ \A h \in 0 .. Len(reqs) : Later(inbound, h) => Later(inbound', h)
    BY ClientAppends
  <1>4. Silent'
    <2>1. link # "down" /\ dialog # "opening" /\ ~(nego_state = 7 /\ inbound = << >>)
      BY <1>2 DEF IInv, Silent
    <2>2. inbound # << >> => inbound' # << >>
      BY <1>1, <1>3, ConcatSimplifications
    <2>3. QED
      BY <1>2, <2>1, <2>2 DEF Silent
  <1>5. QED
    BY <1>1, <1>2, <1>3, <1>4, AppendStep

(* What the two groups of steps have in common.                            *)
LEMMA ConsumesOK ==
    ASSUME TypeOK, cut > 0, NEW n \in 0 .. cut, Consume(n)
    PROVE  \E k \in 0 .. Len(inbound) : inbound' = SubSeq(inbound, k + 1, Len(inbound))
  BY FirstField DEF Consume

(* A step of the negotiation receives no request and answers none.         *)
LEMMA NegotiatedStep ==
    ASSUME IInv, TypeOK', nego_state \in 0 .. 5, nego_state' # 7, cut > 0,
           \E n \in 0 .. cut : Consume(n),
           UNCHANGED <<write, reqs, image, damaged>>,
           dialog' # "opening", link' = "down" => link = "down",
           client = "off" => client' = "off",
           NEW m \in Messages, ~IsReply(m), wire' = wire \/ wire' = wire \o <<m>>
    PROVE  IInv'
  <1>1. Silent' /\ ~Receiving' /\ UNCHANGED write_len
    BY DEF IInv, Silent, Receiving, write
  <1>2. <<m>> \in Seq(Messages) /\ \A i \in 1 .. Len(<<m>>) : ~IsReply(<<m>>[i])
    OBVIOUS
  <1>3. TypeOK /\ RepliesInOrder
    BY DEF IInv
  <1>4. RepliesInOrder' /\ Replied' = Replied
    BY <1>2, <1>3, SendReply
  <1>5. QED
    BY <1>1, <1>3, <1>4, ConsumesOK, IdleStep

(* What a case of the negotiation does to the stream and to the client.    *)
LEMMA NegotiateSends ==
    ASSUME IInv, Negotiate
    PROVE  /\ TypeOK' /\ nego_state \in 0 .. 5 /\ cut > 0
           /\ \E n \in 0 .. cut : Consume(n)
           /\ UNCHANGED <<write, reqs, image, damaged>>
           /\ nego_state' # 7 /\ dialog' # "opening"
           /\ link' = "down" => link = "down"
           /\ client = "off" => client' = "off"
           /\ \E m \in Messages : /\ ~IsReply(m)
                                  /\ wire' = wire \/ wire' = wire \o <<m>>
  <1>1. /\ TypeOK /\ TypeOK' /\ cut \in Nat /\ RepliesInOrder
    BY SMTT(30), NegotiateTypes DEF IInv, TypeOK
  <1>2. nego_state \in 0 .. 5 /\ cut > 0 /\ dialog = "none" /\ cut \in 0 .. cut /\ 1 \in 0 .. cut
    BY <1>1 DEF Negotiate, Parsing, ParseFlags, ParseMagic, ParseExportName,
         ParseAbort, ParseUnknownOption, ParseShortOption, ParseStrayData,
         ParseNameSize, ParseName, DropMessage
  <1>3. inbound[1].n <= cut - 1 => 1 + inbound[1].n \in 0 .. cut
    BY <1>1, <1>2, FirstField
  <1> DEFINE E == Message("export", IF glob_flags THEN 0 ELSE ZeroPad, << >>)
             U == Message("unsup", 0, << >>)
  <1>4. /\ \E n \in 0 .. cut : Consume(n)
        /\ UNCHANGED <<write, reqs, image, damaged>>
        /\ nego_state' # 7 /\ dialog' # "opening"
        /\ link' = "down" => link = "down"
        /\ client = "off" => client' = "off"
        /\ wire' = wire \/ wire' = wire \o <<E>> \/ wire' = wire \o <<U>>
    <2>1. CASE \/ ParseFlags \/ ParseMagic \/ ParseExportName \/ ParseAbort
               \/ ParseShortOption \/ DropMessage
      BY <1>1, <1>2, <2>1, SomeConsumed
      DEF ParseFlags, ParseMagic, ParseExportName, ParseAbort,
          ParseShortOption, DropMessage, server, device, peer, asked
    <2>2. CASE ParseUnknownOption
      BY <1>2, <1>3, <2>2, HeardClients DEF ParseUnknownOption, Send, device, asked
    <2>3. CASE ParseStrayData
      BY <1>1, <1>2, <2>3, SomeConsumed, HeardClients
      DEF ParseStrayData, Send, device, asked
    <2>4. CASE ParseNameSize
      BY <1>1, <1>2, <2>4, NameConsumed, HeardClients
      DEF ParseNameSize, SendExport, Send, device, asked
    <2>5. CASE ParseName
      BY <1>1, <1>2, <2>5, NameConsumed, HeardClients
      DEF ParseName, SendExport, Send, device, asked
    <2>6. QED
      BY <2>1, <2>2, <2>3, <2>4, <2>5 DEF Negotiate
  <1>5. E \in Messages /\ ~IsReply(E) /\ U \in Messages /\ ~IsReply(U)
    <2>1. (IF glob_flags THEN 0 ELSE ZeroPad) \in Nat
      BY DEF ZeroPad
    <2>2. QED
      BY <2>1, PlainMessages DEF IsReply, Message
  <1> HIDE DEF E, U
  <1>6. QED
    BY <1>1, <1>2, <1>4, <1>5

(* The negotiation keeps the invariant: it receives and answers no         *)
(* request.                                                                *)
LEMMA NegotiateStep ==
    ASSUME IInv, Negotiate
    PROVE  IInv'
  BY NegotiateSends, NegotiatedStep

(* A request that is no write is answered, and what else was sent is no    *)
(* reply.                                                                  *)
LEMMA ReadStep ==
    ASSUME IInv, TypeOK', Silent', ~Receiving', cut > 0,
           inbound[1].kind = "req", reqs[inbound[1].id].cmd # "WRITE", Consume(1),
           UNCHANGED <<write_len, reqs, image, damaged>>,
           NEW d \in Messages, ~IsReply(d), Send(<<Reply(inbound[1].id), d>>)
    PROVE  IInv'
  <1> DEFINE h == inbound[1].id
             m == <<Reply(h), d>>
  <1>1. /\ TypeOK /\ cut \in Nat /\ RepliesInOrder /\ inbound \in Seq(Fields)
        /\ WellFormed(inbound, reqs) /\ reqs \in Seq(Requests)
    BY SMTT(30) DEF IInv, TypeOK
  <1>2. h \in 1 .. Len(reqs) /\ h \in Nat /\ 1 \in 0 .. cut
    BY <1>1, RequestTypes
  <1>3. Reply(h) \in Messages /\ Reply(h).id = h
    BY <1>2, PlainMessages DEF Message, Reply
  <1>4. /\ m \in Seq(Messages)
        /\ \A i \in 1 .. Len(m) : IsReply(m[i]) => i = 1 /\ m[i].id = h
    BY <1>3
  <1>5. wire' = wire \/ wire' = wire \o m
    BY DEF Send
  <1>6. \A g \in Replied : g < h
    <2>1. 1 \in 1 .. Len(inbound) /\ IsReq(inbound, 1)
      BY <1>1, FirstField DEF IsReq
    <2>2. QED
      BY <2>1 DEF IInv, AnsweredIsOld, Later
  <1>7. Later(inbound', h)
    <2>1. /\ Len(inbound') = Len(inbound) - 1 /\ inbound' \in Seq(Fields)
          /\ \A i \in 1 .. Len(inbound') : inbound'[i] = inbound[i + 1]
      BY <1>1, <1>2, ConsumeTypes
    <2>2. ASSUME NEW i \in 1 .. Len(inbound'), IsReq(inbound', i)
          PROVE  h < inbound'[i].id
      <3>1. i + 1 \in 1 .. Len(inbound) /\ 1 \in 1 .. i /\ IsReq(inbound, i + 1)
              /\ 1 \in 1 .. i + 1 - 1
        BY <2>1, <2>2 DEF IsReq
      <3>2. IsReq(inbound, 1)
        BY DEF IsReq
      <3>3. QED
        BY <1>1, <2>1, <3>1, <3>2 DEF WellFormed
    <2>3. QED
      BY <2>2 DEF Later
  <1> HIDE DEF m
  <1>8. RepliesInOrder' /\ \A g \in Replied' : g \in Replied \/ g = h
    BY <1>1, <1>2, <1>4, <1>5, <1>6, SendReply
  <1>9. \A g \in Replied' :
            \/ g \in Replied
            \/ g \in 1 .. Len(reqs) /\ Later(inbound', g) /\ reqs[g].cmd # "WRITE"
    BY <1>2, <1>7, <1>8
  <1>10. QED
    BY <1>1, <1>2, <1>8, <1>9, ConsumesOK, IdleStep

(* A request that is not a write, or is rejected.                          *)
LEMMA TransmitStep ==
    ASSUME IInv, Transmit, ~BeginWrite
    PROVE  IInv'
  <1>1. /\ TypeOK /\ TypeOK' /\ cut \in Nat /\ RepliesInOrder /\ inbound \in Seq(Fields)
        /\ WellFormed(inbound, reqs) /\ reqs \in Seq(Requests)
    BY SMTT(30), TransmitTypes DEF IInv, TypeOK
  <1>2. nego_state = 6 /\ cut > 0 /\ dialog = "none" /\ cut \in 0 .. cut /\ 1 \in 0 .. cut
    BY <1>1 DEF Transmit, Parsing, ParsingRequest, RejectRange, BeginWrite,
         HandleRead, HandleReadFails, HandleDisc, IgnoreCommand, RejectGarbage
  <1>3. /\ UNCHANGED <<nego_state, write, reqs, image, damaged, client>>
        /\ dialog' # "opening"
        /\ link' = "down" => link = "down"
        /\ \E n \in 1 .. cut : Consume(n)
    BY <1>1, <1>2 DEF Transmit, RejectRange, HandleRead, HandleReadFails, HandleDisc,
       IgnoreCommand, RejectGarbage, server, device, peer, asked
  <1>4. Silent' /\ ~Receiving' /\ UNCHANGED write_len
    BY <1>2, <1>3 DEF IInv, Silent, Receiving, write
  <1>5. \E n \in 0 .. cut : Consume(n)
    BY <1>1, <1>3
  <1>6. CASE UNCHANGED wire
    <2>1. RepliesInOrder' /\ Replied' = Replied
      BY <1>6 DEF IInv, RepliesInOrder, Replied, IsReply
    <2>2. QED
      BY <1>1, <1>2, <1>3, <1>4, <1>5, <2>1, ConsumesOK, IdleStep
  <1>7. CASE HandleRead \/ HandleReadFails
    <2> DEFINE h == inbound[1].id
               D(n) == Message("data", h, ReadData(Request, n))
    <2>1. /\ inbound[1].kind = "req" /\ reqs[h].cmd = "READ" /\ ~BadLength(Request)
          /\ Consume(1)
      BY <1>7 DEF HandleRead, HandleReadFails, ParsingRequest, Request
    <2>2. h \in 1 .. Len(reqs) /\ Request \in Requests /\ h \in Nat
      BY <1>1, <1>2, <2>1, RequestTypes
    <2>3. PICK n \in 0 .. Request.len : Send(<<Reply(h), D(n)>>)
      <3>1. Request.len \in Nat
        BY <2>2 DEF Requests
      <3>2. QED
        BY <1>7, <3>1 DEF HandleRead, HandleReadFails
    <2>4. D(n) \in Messages /\ Reply(h) \in Messages /\ Reply(h).id = h
            /\ ~IsReply(D(n))
      BY <1>1, <2>1, <2>2, ReadTypes, PlainMessages DEF IsReply, Message, Reply
    <2> HIDE DEF D
    <2>5. QED
      BY <1>1, <1>2, <1>3, <1>4, <2>1, <2>3, <2>4, ReadStep
  <1>8. QED
    BY <1>6, <1>7 DEF Transmit, RejectRange, HandleDisc, IgnoreCommand, RejectGarbage

(***************************************************************************)
(* Writes.                                                                 *)
(***************************************************************************)

(* Accepting a write keeps the invariant: its payload is next in the byte  *)
(* stream.                                                                 *)
LEMMA BeginWriteStep ==
    ASSUME IInv, BeginWrite
    PROVE  IInv'
  <1> DEFINE h == inbound[1].id
             r == reqs[h]
  <1>1. /\ TypeOK /\ TypeOK' /\ inbound \in Seq(Fields) /\ reqs \in Seq(Requests)
        /\ WellFormed(inbound, reqs) /\ cut \in Nat
    <2>1. TypeOK /\ WellFormed(inbound, reqs)
      BY DEF IInv
    <2>2. TypeOK'
      BY <2>1, TransmitTypes DEF Transmit
    <2>3. inbound \in Seq(Fields) /\ reqs \in Seq(Requests) /\ cut \in Nat
      BY <2>1 DEF TypeOK
    <2>4. QED
      BY <2>1, <2>2, <2>3
  <1>2. /\ cut > 0 /\ dialog = "none" /\ inbound[1].kind = "req"
        /\ r.cmd = "WRITE" /\ ~BadLength(r) /\ Request = r
        /\ write_handle' = h /\ write_from' = r.from /\ write_len' = r.len
        /\ offset' = r.from /\ nego_state' = 7 /\ Consume(1)
        /\ UNCHANGED <<link, image, damaged, dialog, client, reqs, wire>>
    BY DEF BeginWrite, ParsingRequest, Parsing, Request, peer, asked
  <1>3. h \in 1 .. Len(reqs) /\ r \in Requests /\ 1 \in 1 .. Len(inbound)
          /\ IsReq(inbound, 1) /\ 1 \in 0 .. cut
    BY <1>1, <1>2, RequestTypes, FirstField DEF IsReq
  <1>4. r.len \in 1 .. MaxCells /\ r.from \in Nat /\ r.from + r.len <= FileCells
          /\ MaxCells \in Nat
    BY <1>2, <1>3, InExport, ConstantsAssumption DEF ConstantsAssumption
  <1>5. /\ Len(inbound') = Len(inbound) - 1 /\ inbound' \in Seq(Fields)
        /\ \A i \in 1 .. Len(inbound') : inbound'[i] = inbound[i + 1]
    BY <1>1, <1>2, <1>3, ConsumeTypes
  <1> HIDE DEF h, r
  <1>6. /\ WellFormed(inbound', reqs)
        /\ \A g \in Int : Later(inbound, g) => Later(inbound', g)
    <2>1. 1 \in 0 .. Len(inbound)
      BY <1>3
    <2>2. QED
      BY <1>1, <1>5, <2>1, SuffixStream
  <1>7. /\ 1 + r.len <= Len(inbound)
        /\ \A k \in 1 .. r.len : inbound[1 + k] = Field("cell", h, k - 1)
    BY <1>1, <1>2, <1>3 DEF WellFormed, h, r
  <1>8. Later(inbound', h)
    <2>1. ASSUME NEW i \in 1 .. Len(inbound'), IsReq(inbound', i)
          PROVE  h < inbound'[i].id
      <3>1. i + 1 \in 1 .. Len(inbound) /\ IsReq(inbound, i + 1) /\ 1 \in 1 .. i + 1 - 1
        BY <1>1, <1>5, <2>1 DEF IsReq
      <3>2. QED
        BY SMTT(30), <1>1, <1>3, <1>5, <3>1 DEF WellFormed, h
    <2>2. QED
      BY <2>1 DEF Later
  <1>9. Replied' = Replied /\ (\A g : Intact(g)' <=> Intact(g)) /\ Pending' = r
    BY <1>2 DEF Replied, Intact, IsReply, Pending, r
  <1>10. \A g \in Replied : g < h /\ Later(inbound', g) /\ g \in Int
    BY <1>1, <1>3, <1>6 DEF IInv, AnsweredIsOld, Later, h
  <1>11. AnsweredIsOld'
    BY <1>2, <1>9, <1>10 DEF IInv, AnsweredIsOld, Later, IsReq
  <1>12. StoredIsOld'
    <2>1. \A c \in Cells : /\ image[c][1] \in 0 .. Len(reqs) /\ image[c][1] \in Int
                           /\ Later(inbound, image[c][1])
      BY <1>1 DEF IInv, StoredIsOld
    <2>2. \A c \in Cells : Later(inbound', image[c][1]) /\ image[c][1] < h
      BY <1>3, <1>6, <2>1 DEF Later, h
    <2>3. \A c \in Cells : image[c][1] <= h
      BY <1>3, <2>1, <2>2
    <2>4. QED
      BY <1>2, <2>1, <2>2, <2>3 DEF StoredIsOld, Later, IsReq
  <1>13. Got' = 0
    BY <1>2, <1>4, <1>9 DEF Got
  <1>14. Progress'
    BY <1>2, <1>4, <1>8, <1>13 DEF Progress, Later, IsReq
  <1>15. PayloadInSync'
    <2>1. r.len <= Len(inbound') /\ r.len \in 1 .. r.len
      BY <1>1, <1>4, <1>5, <1>7
    <2>2. ASSUME NEW i \in 1 .. r.len
          PROVE  inbound'[i] = Field("cell", h, r.len - r.len + i - 1)
      <3>1. i \in 1 .. Len(inbound') /\ 1 + i = i + 1 /\ r.len - r.len + i - 1 = i - 1
        BY <1>4, <1>5, <2>1
      <3>2. QED
        BY <1>5, <1>7, <3>1
    <2>3. QED
      BY <1>2, <1>3, <1>4, <1>9, <2>1, <2>2 DEF PayloadInSync, h
  <1>16. Silent'
    <2>1. inbound' # << >>
      BY <1>1, <1>4, <1>5, <1>7
    <2>2. QED
      BY <1>2, <2>1 DEF IInv, Silent
  <1>17. RepliesInOrder' /\ AckedWriteStored' /\ NoStrayWrite'
    BY <1>2, <1>9 DEF IInv, RepliesInOrder, AckedWriteStored, NoStrayWrite, IsReply
  <1>18. QED
    BY <1>1, <1>2, <1>4, <1>6, <1>11, <1>12, <1>14, <1>15, <1>16, <1>17 DEF IInv

(* What the buffer holds while the stream is in sync.                      *)
LEMMA OutputInSync ==
    ASSUME IInv, cut > 0, nego_state = 7
    PROVE  /\ Receiving
           /\ \A j \in 0 .. 2 * MaxCells :
                 /\ Output[j][1] = write_handle
                 /\ pass_write % 2 = 0 /\ j < pass_write =>
                       Output[j] = <<write_handle, Got + j>>
  <1>1. TypeOK /\ cut \in 1 .. Len(inbound) /\ inbound \in Seq(Fields)
    BY FirstField DEF IInv, TypeOK
  <1>2. inbound # << >> /\ Receiving
    BY <1>1 DEF Receiving
  <1>3. /\ write_len \in Nat /\ pass_write \in Nat /\ pass_write <= write_len
        /\ pass_write <= MaxCells /\ MaxCells \in Nat /\ write_handle \in Nat
        /\ write_len \in 1 .. Pending.len
        /\ \A i \in 1 .. write_len : inbound[i] = Field("cell", write_handle, Got + i - 1)
    BY <1>1, <1>2, PassTypes, ConstantsAssumption
    DEF IInv, PayloadInSync, TypeOK, ConstantsAssumption, Got
  <1>4. \A j \in 0 .. 2 * MaxCells :
           /\ Buffer[j][1] = write_handle
           /\ j < pass_write => Buffer[j] = <<write_handle, Got + j>>
    <2>1. Got \in Int
      <3>1. Pending.len \in Nat
        BY <1>1, <1>2, SentRequest DEF IInv, PayloadInSync, Pending, TypeOK
      <3>2. QED
        BY <1>3, <3>1 DEF Got
    <2>2. ASSUME NEW j \in 0 .. 2 * MaxCells, j < pass_write
          PROVE  Buffer[j] = <<write_handle, Got + j>>
      <3>1. j + 1 \in 1 .. write_len /\ Got + (j + 1) - 1 = Got + j
        BY <1>3, <2>1, <2>2
      <3>2. inbound[j + 1] = Field("cell", write_handle, Got + j)
        <4>1. inbound[j + 1] = Field("cell", write_handle, Got + (j + 1) - 1)
          BY <1>3, <3>1
        <4>2. QED
          BY <3>1, <4>1
      <3>3. inbound[j + 1].id = write_handle /\ inbound[j + 1].n = Got + j
        BY <3>2 DEF Field
      <3>4. QED
        BY <2>2, <3>3 DEF Buffer
    <2>3. ASSUME NEW j \in 0 .. 2 * MaxCells, ~(j < pass_write)
          PROVE  Buffer[j] = <<write_handle, -1>>
      BY <2>3 DEF Buffer
    <2>4. QED
      BY <2>2, <2>3
  <1>5. ASSUME NEW j \in 0 .. 2 * MaxCells
        PROVE  Output[j][1] = write_handle
    <2> DEFINE nb == pass_write - 1
               rest == [Buffer EXCEPT ![0] = Buffer[nb]]
    <2>1. Output[j] = IF pass_write % 2 = 1 /\ nb > 0 /\ j >= nb
                        THEN rest[j - nb] ELSE Buffer[j]
      BY DEF Output
    <2>2. nb > 0 => nb \in 0 .. 2 * MaxCells
      BY <1>3
    <2>3. nb > 0 /\ j >= nb => j - nb \in 0 .. 2 * MaxCells
      BY <1>3
    <2>4. DOMAIN Buffer = 0 .. 2 * MaxCells
      BY DEF Buffer
    <2>5. ASSUME nb > 0, j >= nb PROVE rest[j - nb][1] = write_handle
      <3>1. rest[j - nb] = Buffer[j - nb] \/ rest[j - nb] = Buffer[nb]
        BY <2>3, <2>4, <2>5
      <3>2. QED
        BY <1>4, <2>2, <2>3, <2>5, <3>1
    <2>6. QED
      BY <1>4, <2>1, <2>5
  <1>6. ASSUME NEW j \in 0 .. 2 * MaxCells, pass_write % 2 = 0, j < pass_write
        PROVE  Output[j] = <<write_handle, Got + j>>
    <2>1. Output[j] = Buffer[j]
      BY <1>6 DEF Output
    <2>2. QED
      BY <1>4, <1>6, <2>1
  <1>7. QED
    BY <1>2, <1>5, <1>6

IntactNext(h) == \A cause \in {"dropped", "shifted", "failed"} :
                    <<h, cause>> \notin damaged'

(* What a step of handle_write does to the state that the invariants speak *)
(* of: it stores only cells of this write; an undamaged payload it stores  *)
(* where it belongs; and it either waits for more or sends the reply.      *)
Effects ==
    /\ Consume(pass_write)
    /\ UNCHANGED <<write_from, write_handle, reqs, link, client, dialog>>
    /\ \A c \in Cells : image'[c] = image[c] \/ image'[c][1] = write_handle
    /\ \A h : h # write_handle => (IntactNext(h) <=> Intact(h))
    /\ IntactNext(write_handle) =>
          /\ Intact(write_handle)
          /\ offset' = offset + pass_write
          /\ write_len' = write_len - pass_write
          /\ \A c \in Cells : image'[c] = IF offset <= c /\ c < offset + pass_write
                                         THEN <<write_handle, Got + (c - offset)>>
                                         ELSE image[c]
    /\ write_len' <= write_len
    /\ \/ /\ nego_state' = 7 /\ pass_write < write_len
          /\ write_len' = write_len - pass_write
          /\ UNCHANGED wire
       \/ /\ nego_state' = 6
          /\ pass_write = write_len \/ ~IntactNext(write_handle)
          /\ \E m \in Messages : /\ IsReply(m) /\ m.id = write_handle
                                 /\ wire' = wire \/ wire' = wire \o <<m>>

(* Where the stream stands when p of the a cells that were left of the n   *)
(* cells of a write have come: l fields hold the rest.                     *)
LEMMA PayloadLeft ==
    ASSUME NEW a \in Nat, NEW n \in Nat, NEW l \in Nat, a <= n, a <= l,
           NEW p \in 1 .. a, p < a
    PROVE  /\ a - p \in 1 .. n /\ a - p <= l - p
           /\ \A i \in 1 .. a - p : /\ i \in 1 .. l - p /\ i + p \in 1 .. a
                                    /\ n - (a - p) + i - 1 = (n - a) + (i + p) - 1
  OBVIOUS

(* Receiving payload keeps the invariant.                                  *)
LEMMA EffectsStep ==
    ASSUME IInv, TypeOK', cut > 0, nego_state = 7, Effects
    PROVE  IInv'
  <1> DEFINE h == write_handle
  <1>1. /\ TypeOK /\ inbound \in Seq(Fields) /\ reqs \in Seq(Requests)
        /\ WellFormed(inbound, reqs) /\ cut \in 1 .. Len(inbound) /\ Receiving
        /\ RepliesInOrder /\ image \in [Cells -> Value] /\ offset \in Nat
    BY OutputInSync, FirstField DEF IInv, TypeOK
  <1>2. /\ h \in 1 .. Len(reqs) /\ Pending.cmd = "WRITE" /\ Pending.from = write_from
        /\ write_len \in 1 .. Pending.len /\ write_len <= Len(inbound)
        /\ write_from + Pending.len <= FileCells
        /\ \A i \in 1 .. write_len : inbound[i] = Field("cell", h, Got + i - 1)
    BY <1>1 DEF IInv, PayloadInSync, Got
  <1>3. /\ Pending.len \in Nat /\ write_from \in Nat /\ write_len \in Nat
        /\ FileCells \in Nat /\ Got \in Nat /\ Got + write_len = Pending.len
    <2>1. Pending.len \in Nat
      BY <1>1, <1>2, SentRequest DEF Pending
    <2>2. write_from \in Nat /\ write_len \in Nat /\ FileCells \in Nat
      BY <1>1, ConstantsAssumption DEF TypeOK, ConstantsAssumption
    <2>3. QED
      BY <1>2, <2>1, <2>2 DEF Got
  <1>4. pass_write \in 1 .. write_len /\ pass_write \in 0 .. cut
    BY <1>1, <1>2, <1>3, PassTypes
  <1>5. /\ Len(inbound') = Len(inbound) - pass_write /\ inbound' \in Seq(Fields)
        /\ \A i \in 1 .. Len(inbound') : inbound'[i] = inbound[i + pass_write]
    BY <1>1, <1>4, ConsumeTypes DEF Effects
  <1>6. /\ WellFormed(inbound', reqs)
        /\ \A g \in Int : Later(inbound, g) => Later(inbound', g)
    <2>1. pass_write \in 0 .. Len(inbound)
      BY <1>1, <1>4
    <2>2. QED
      BY <1>1, <1>5, <2>1, SuffixStream
  <1>7. /\ UNCHANGED <<write_from, write_handle, reqs, link, client, dialog>>
        /\ Pending' = Pending /\ write_len' <= MaxCells
    <2>1. MaxCells \in Nat /\ write_len' \in Nat /\ write_len <= MaxCells
      BY ConstantsAssumption DEF IInv, TypeOK, ConstantsAssumption
    <2>2. QED
      BY <1>3, <2>1 DEF Effects, Pending
  <1>8. Later(inbound, h) /\ Later(inbound', h) /\ \A g \in Replied : g < h /\ g \in Int
    BY <1>1, <1>2, <1>6 DEF IInv, Progress, AnsweredIsOld
  <1>9. Receiving' => /\ nego_state' = 7 /\ pass_write < write_len
                      /\ write_len' = write_len - pass_write /\ UNCHANGED wire
    BY DEF Effects, Receiving
  <1>10. RepliesInOrder' /\ \A g \in Replied' : g \in Replied \/ g = h
    <2>1. Reply(h) \in Messages /\ Reply(h).id = h /\ h \in Nat
      BY <1>1, <1>2, PlainMessages DEF Reply, Message
    <2>2. PICK m \in Messages : m.id = h /\ (wire' = wire \/ wire' = wire \o <<m>>)
      BY <2>1 DEF Effects
    <2>3. /\ <<m>> \in Seq(Messages)
          /\ \A i \in 1 .. Len(<<m>>) : IsReply(<<m>>[i]) => i = 1 /\ <<m>>[i].id = h
      BY <2>2
    <2>4. QED
      BY <1>1, <1>8, <2>1, <2>2, <2>3, SendReply
  <1>11. h \in Replied' => pass_write = write_len \/ ~IntactNext(h)
    <2>1. h \notin Replied
      BY <1>2, <1>8
    <2>2. UNCHANGED wire => Replied' = Replied
      BY DEF Replied, IsReply
    <2>3. QED
      BY <2>1, <2>2 DEF Effects
  <1>12. AnsweredIsOld'
    <2>1. SUFFICES ASSUME NEW g \in Replied'
                   PROVE  /\ g \in 1 .. Len(reqs)
                          /\ Later(inbound', g)
                          /\ Receiving' => g < h
                          /\ reqs[g].cmd = "WRITE" =>
                                reqs[g].from + reqs[g].len <= FileCells
      BY <1>7 DEF AnsweredIsOld, Later, IsReq
    <2>2. CASE g \in Replied
      BY <1>6, <1>8, <2>2 DEF IInv, AnsweredIsOld
    <2>3. CASE g = h /\ g \notin Replied
      <3>1. ~UNCHANGED wire
        BY <2>1, <2>3 DEF Replied, IsReply
      <3>2. QED
        BY <1>2, <1>8, <1>9, <2>3, <3>1 DEF Pending
    <2>4. QED
      BY <1>10, <2>2, <2>3
  <1>13. \A c \in Cells : image'[c] = image[c] \/ image'[c][1] = h
    BY DEF Effects
  <1>14. StoredIsOld'
    <2>1. \A c \in Cells : /\ image[c][1] \in 0 .. Len(reqs)
                           /\ Later(inbound, image[c][1]) /\ image[c][1] <= h
      BY <1>1 DEF IInv, StoredIsOld
    <2>2. \A c \in Cells : /\ image'[c][1] \in 0 .. Len(reqs)
                           /\ Later(inbound', image'[c][1]) /\ image'[c][1] <= h
      BY <1>1, <1>2, <1>6, <1>8, <1>13, <2>1
    <2>3. QED
      BY <1>7, <2>2 DEF StoredIsOld, Later, IsReq
  <1>15. ASSUME IntactNext(h)
         PROVE  /\ Intact(h) /\ offset = write_from + Got
                /\ offset' = offset + pass_write
                /\ \A i \in 0 .. Got - 1 : image[write_from + i] = <<h, i>>
                /\ \A c \in Cells :
                      image'[c] = IF offset <= c /\ c < offset + pass_write
                                    THEN <<h, Got + (c - offset)>> ELSE image[c]
    <2>1. /\ Intact(h) /\ offset' = offset + pass_write
          /\ \A c \in Cells :
                image'[c] = IF offset <= c /\ c < offset + pass_write
                              THEN <<h, Got + (c - offset)>> ELSE image[c]
      BY <1>15 DEF Effects
    <2>2. /\ offset = write_from + Got
          /\ \A i \in 0 .. Got - 1 : image[write_from + i] = <<h, i>>
      BY <1>1, <2>1 DEF IInv, Progress
    <2>3. QED
      BY <2>1, <2>2
  <1>16. ASSUME IntactNext(h), NEW i \in 0 .. Got + pass_write - 1
         PROVE  image'[write_from + i] = <<h, i>>
    <2>0. offset = write_from + Got /\ pass_write \in Nat /\ i \in Nat
      BY <1>3, <1>4, <1>15, <1>16
    <2>1. write_from + i \in Cells
      BY <1>2, <1>3, <1>4 DEF Cells
    <2>2. CASE i < Got
      <3>1. image[write_from + i] = <<h, i>>
        BY <1>3, <1>15, <1>16, <2>0, <2>2
      <3>2. ~(offset <= write_from + i)
        BY <1>3, <2>0, <2>2
      <3>3. QED
        BY <1>15, <1>16, <2>1, <3>1, <3>2
    <2>3. CASE i >= Got
      <3>1. /\ offset <= write_from + i /\ write_from + i < offset + pass_write
            /\ Got + ((write_from + i) - offset) = i
        BY <1>3, <1>4, <2>0, <2>3
      <3>2. QED
        BY <1>15, <1>16, <2>1, <3>1
    <2>4. QED
      BY <1>3, <2>2, <2>3
  <1>17. Progress'
    <2>1. SUFFICES ASSUME Receiving'
                   PROVE  /\ Later(inbound', h)
                          /\ IntactNext(h) =>
                                /\ offset' = write_from + Got'
                                /\ \A i \in 0 .. Got' - 1 :
                                      image'[write_from + i] = <<h, i>>
      BY <1>7 DEF Progress, Later, IsReq, Intact, IntactNext
    <2>2. Got' = Got + pass_write
      BY <1>3, <1>4, <1>7, <1>9, <2>1 DEF Got
    <2>3. IntactNext(h) => offset' = write_from + Got'
      <3>1. SUFFICES ASSUME IntactNext(h) PROVE offset' = write_from + Got'
        OBVIOUS
      <3>2. offset = write_from + Got /\ offset' = offset + pass_write
        BY <1>1, <3>1 DEF IInv, Progress, Effects
      <3>3. QED
        BY <1>1, <1>3, <1>4, <2>2, <3>2
    <2>4. IntactNext(h) => \A i \in 0 .. Got' - 1 : image'[write_from + i] = <<h, i>>
      <3>1. SUFFICES ASSUME IntactNext(h), NEW i \in 0 .. Got' - 1
                     PROVE  image'[write_from + i] = <<h, i>>
        OBVIOUS
      <3>2. i \in 0 .. Got + pass_write - 1
        BY <1>3, <1>4, <2>2, <3>1
      <3>3. QED
        BY <1>16, <3>1, <3>2
    <2>5. QED
      BY <1>8, <2>3, <2>4
  <1>18. PayloadInSync'
    <2>1. SUFFICES ASSUME Receiving'
                   PROVE  /\ write_len' \in 1 .. Pending.len
                          /\ write_len' <= Len(inbound')
                          /\ \A i \in 1 .. write_len' :
                                inbound'[i] = Field("cell", h, Pending.len - write_len' + i - 1)
      BY <1>2, <1>7 DEF PayloadInSync
    <2>2. write_len' = write_len - pass_write /\ pass_write < write_len
      BY <1>9, <2>1
    <2>3. /\ write_len' \in 1 .. Pending.len /\ write_len' <= Len(inbound')
          /\ \A i \in 1 .. write_len' :
                /\ i \in 1 .. Len(inbound') /\ i + pass_write \in 1 .. write_len
                /\ Pending.len - write_len' + i - 1
                     = (Pending.len - write_len) + (i + pass_write) - 1
      <3>1. /\ write_len \in Nat /\ Pending.len \in Nat /\ Len(inbound) \in Nat
            /\ write_len <= Pending.len /\ write_len <= Len(inbound)
            /\ pass_write \in 1 .. write_len /\ pass_write < write_len
        BY <1>1, <1>2, <1>3, <1>4, <2>2
      <3>2. Len(inbound') = Len(inbound) - pass_write
        BY <1>5
      <3>3. QED
        BY SMTT(30), <2>2, <3>1, <3>2, PayloadLeft
    <2>4. ASSUME NEW i \in 1 .. write_len'
          PROVE  inbound'[i] = Field("cell", h, Pending.len - write_len' + i - 1)
      <3>1. /\ i \in 1 .. Len(inbound') /\ i + pass_write \in 1 .. write_len
            /\ Pending.len - write_len' + i - 1 = Got + (i + pass_write) - 1
        BY <2>3 DEF Got
      <3>2. inbound'[i] = Field("cell", h, Got + (i + pass_write) - 1)
        BY <1>2, <1>5, <3>1
      <3>3. QED
        BY <3>1, <3>2
    <2>5. QED
      BY <2>3, <2>4
  <1>19. Silent'
    <2>1. nego_state' = 7 => inbound' # << >>
      <3>1. nego_state' = 7 => pass_write < write_len
        BY DEF Effects
      <3>2. nego_state' = 7 => Len(inbound') > 0
        BY <1>1, <1>2, <1>3, <1>4, <1>5, <3>1
      <3>3. QED
        BY <1>5, <3>2
    <2>2. dialog # "opening"
      BY <1>1 DEF IInv, Silent, Receiving
    <2>3. QED
      BY <1>7, <2>1, <2>2 DEF IInv, Silent
  <1>20. AckedWriteStored'
    <2>1. SUFFICES ASSUME NEW g \in Replied', reqs[g].cmd = "WRITE", IntactNext(g),
                          NEW i \in 0 .. reqs[g].len - 1
                   PROVE  \/ image'[reqs[g].from + i] = <<g, i>>
                          \/ image'[reqs[g].from + i][1] > g
      BY <1>7 DEF AckedWriteStored, Intact, IntactNext
    <2>2. CASE g = h
      <3>1. Pending = reqs[g]
        BY <2>2 DEF Pending
      <3>2. pass_write = write_len
        BY <1>11, <2>1, <2>2
      <3>3. i \in 0 .. Got + pass_write - 1
        BY <1>3, <1>4, <2>1, <3>1, <3>2
      <3>4. image'[write_from + i] = <<h, i>>
        BY <1>16, <2>1, <2>2, <3>3
      <3>5. QED
        BY <1>2, <2>2, <3>1, <3>4
    <2>3. CASE g \in Replied /\ g # h
      <3>1. /\ g \in 1 .. Len(reqs) /\ reqs[g].from + reqs[g].len <= FileCells
            /\ g < h /\ Intact(g)
        BY <1>1, <1>8, <2>1, <2>3 DEF IInv, AnsweredIsOld, Effects
      <3>2. reqs[g].len \in Nat /\ reqs[g].from \in Nat
        BY <1>1, <3>1, SentRequest, ConstantsAssumption DEF ConstantsAssumption
      <3>3. reqs[g].from + i \in Cells
        BY SMTT(30), <1>3, <3>1, <3>2 DEF Cells
      <3>4. \/ image[reqs[g].from + i] = <<g, i>>
            \/ image[reqs[g].from + i][1] > g
        BY <2>1, <2>3, <3>1 DEF IInv, AckedWriteStored
      <3>5. QED
        BY <1>13, <3>1, <3>3, <3>4
    <2>4. QED
      BY <1>10, <2>1, <2>2, <2>3
  <1>21. NoStrayWrite'
    <2>1. SUFFICES ASSUME NEW c \in Cells, image'[c][1] # 0, IntactNext(image'[c][1])
                   PROVE  /\ image'[c][2] \in 0 .. reqs[image'[c][1]].len - 1
                          /\ c = reqs[image'[c][1]].from + image'[c][2]
      BY <1>7 DEF NoStrayWrite, Intact, IntactNext
    <2>2. CASE image'[c] = image[c]
      <3>1. Intact(image[c][1])
        <4>1. IntactNext(image[c][1])
          BY <2>1, <2>2
        <4>2. CASE image[c][1] = h
          BY <1>15, <4>1, <4>2
        <4>3. CASE image[c][1] # h
          BY <4>1, <4>3 DEF Effects
        <4>4. QED
          BY <4>2, <4>3
      <3>2. QED
        BY <2>1, <2>2, <3>1 DEF IInv, NoStrayWrite
    <2>3. CASE image'[c] # image[c]
      <3>1. image'[c][1] = h /\ IntactNext(h)
        BY <1>13, <2>1, <2>3
      <3>2. /\ offset = write_from + Got /\ offset <= c /\ c < offset + pass_write
            /\ image'[c] = <<h, Got + (c - offset)>>
        BY <1>15, <2>1, <2>3, <3>1
      <3>3. image'[c][2] = Got + (c - offset) /\ c \in Int
        BY <3>2 DEF Cells
      <3>4. Got + (c - offset) \in 0 .. Pending.len - 1
        <4>1. c - offset \in 0 .. pass_write - 1
          BY <1>1, <1>4, <3>2, <3>3
        <4>2. \A d \in 0 .. pass_write - 1 : Got + d \in 0 .. Pending.len - 1
          BY <1>3, <1>4
        <4>3. QED
          BY <4>1, <4>2
      <3>6. c = write_from + (Got + (c - offset))
        BY <1>1, <1>3, <3>2, <3>3
      <3>5. QED
        BY <1>2, <3>1, <3>3, <3>4, <3>6 DEF Pending
    <2>4. QED
      BY <2>2, <2>3
  <1>22. QED
    BY <1>6, <1>7, <1>10, <1>12, <1>14, <1>17, <1>18, <1>19, <1>20, <1>21 DEF IInv

(* Each case of handle_write has these effects.                            *)
LEMMA PayloadStep ==
    ASSUME IInv, ReceivePayload
    PROVE  IInv'
  <1> DEFINE h == write_handle
             n == pass_write
  <1>1. /\ TypeOK /\ TypeOK' /\ write_len <= MaxCells /\ MaxCells \in Nat
        /\ image \in [Cells -> Value] /\ offset \in Nat /\ write_len \in Nat
    BY PayloadStepTypes, ConstantsAssumption DEF IInv, TypeOK, ConstantsAssumption
  <1>2. nego_state = 7 /\ cut > 0
    BY <1>1 DEF ReceivePayload, DropPayload, WritePayload, WriteFails, Parsing, TypeOK
  <1>3. /\ n \in 1 .. write_len /\ n \in Nat /\ n <= MaxCells
        /\ \A j \in 0 .. 2 * MaxCells :
              /\ Output[j][1] = h
              /\ n % 2 = 0 /\ j < n => Output[j] = <<h, Got + j>>
    <2>1. write_len > 0
      BY <1>1, <1>2, OutputInSync DEF IInv, PayloadInSync
    <2>2. n \in 1 .. write_len /\ n \in Nat /\ n <= MaxCells
      BY SMTT(30), <1>1, <1>2, <2>1, PassTypes DEF TypeOK
    <2>3. QED
      BY <1>2, <2>2, OutputInSync
  <1> HIDE DEF n
  <1>4. ASSUME NEW w \in 0 .. 2 * MaxCells, NEW c \in Cells
        PROVE  /\ Stored(w)[c] = image[c] \/ Stored(w)[c][1] = h
               /\ w = n /\ n % 2 = 0 =>
                     Stored(w)[c] = IF offset <= c /\ c < offset + n
                                      THEN <<h, Got + (c - offset)>> ELSE image[c]
    <2>1. Stored(w)[c] = IF offset <= c /\ c < offset + w THEN Output[c - offset]
                                                           ELSE image[c]
      BY DEF Stored
    <2>2. offset <= c /\ c < offset + w => c - offset \in 0 .. 2 * MaxCells /\ c - offset < w
      BY <1>1 DEF Cells
    <2>3. QED
      BY <1>3, <2>1, <2>2
  <1>5. \A w \in Counts : w \in 0 .. 2 * MaxCells /\ (n % 2 = 0 => w = n)
    <2>1. \A w \in Counts : w \in 0 .. 2 * MaxCells
      BY <1>1, <1>2, CountTypes
    <2>2. n % 2 = 0 => Counts = {n}
      BY <1>3 DEF Counts, n
    <2>3. QED
      BY <2>1, <2>2
  <1>0. Reply(h) \in Messages /\ IsReply(Reply(h)) /\ Reply(h).id = h
    BY <1>1, PlainMessages DEF Reply, Message, IsReply, TypeOK
  <1>6. ASSUME NEW cause \in {"dropped", "shifted", "failed"}, Damage(cause)
        PROVE  ~IntactNext(h) /\ \A g : g # h => (IntactNext(g) <=> Intact(g))
    BY <1>6 DEF Damage, IntactNext, Intact
  <1>7. ASSUME Received
        PROVE  /\ Consume(n) /\ write_len' <= write_len /\ write_len' = write_len - n
               /\ \/ nego_state' = 7 /\ n < write_len /\ UNCHANGED wire
                  \/ /\ nego_state' = 6 /\ n = write_len
                     /\ wire' = wire \/ wire' = wire \o <<Reply(h)>>
    BY <1>1, <1>2, <1>3, <1>7 DEF Received, Send, n
  <1>8. CASE DropPayload
    <2>1. /\ Received /\ Damage("dropped")
          /\ UNCHANGED <<write_from, write_handle, reqs, link, client, dialog, image>>
      BY <1>8 DEF DropPayload, peer, asked
    <2>2. Effects
      BY <1>0, <1>6, <1>7, <2>1 DEF Effects, n
    <2>3. QED
      BY <1>1, <1>2, <2>2, EffectsStep
  <1>9. CASE WritePayload
    <2>1. /\ Received
          /\ UNCHANGED <<write_from, write_handle, reqs, link, client, dialog>>
          /\ IF n % 2 = 0 THEN UNCHANGED damaged ELSE Damage("shifted")
      BY <1>9 DEF WritePayload, peer, asked, n
    <2>2. PICK w \in Counts : image' = Stored(w) /\ offset' = offset + w
      BY <1>9 DEF WritePayload
    <2>3. \A c \in Cells : image'[c] = image[c] \/ image'[c][1] = h
      BY <1>4, <1>5, <2>2
    <2>4. CASE n % 2 = 0
      <3>1. \A g : IntactNext(g) <=> Intact(g)
        BY <2>1, <2>4 DEF IntactNext, Intact
      <3>2. /\ offset' = offset + n
            /\ \A c \in Cells : image'[c] = IF offset <= c /\ c < offset + n
                                              THEN <<h, Got + (c - offset)>> ELSE image[c]
        BY <1>4, <1>5, <2>2, <2>4
      <3>3. Effects
        BY <1>0, <1>7, <2>1, <2>3, <3>1, <3>2 DEF Effects, n
      <3>4. QED
        BY <1>1, <1>2, <3>3, EffectsStep
    <2>5. CASE n % 2 # 0
      <3>1. Damage("shifted")
        BY <2>1, <2>5
      <3>2. Effects
        BY <1>0, <1>6, <1>7, <2>1, <2>3, <3>1 DEF Effects, n
      <3>3. QED
        BY <1>1, <1>2, <3>2, EffectsStep
    <2>6. QED
      BY <2>4, <2>5
  <1>10. CASE WriteFails
    <2>1. /\ Consume(n) /\ Damage("failed") /\ nego_state' = 6 /\ UNCHANGED write_len
          /\ UNCHANGED <<write_from, write_handle, reqs, link, client, dialog>>
          /\ wire' = wire \/ wire' = wire \o <<Reply(h)>>
      BY <1>10 DEF WriteFails, Send, write, peer, asked, n
    <2>2. PICK m \in Counts : \E w \in 0 .. m : image' = Stored(w)
      BY <1>10 DEF WriteFails
    <2>3. PICK w \in 0 .. 2 * MaxCells : image' = Stored(w)
      BY <1>1, <1>5, <2>2
    <2>4. \A c \in Cells : image'[c] = image[c] \/ image'[c][1] = h
      BY <1>4, <2>3
    <2>5. write_len' <= write_len
      BY <1>1, <2>1
    <2>6. Effects
      BY <1>0, <1>6, <2>1, <2>4, <2>5 DEF Effects, n
    <2>7. QED
      BY <1>1, <1>2, <2>6, EffectsStep
  <1>11. QED
    BY <1>8, <1>9, <1>10 DEF ReceivePayload

-----------------------------------------------------------------------------
(* The theorems.                                                           *)

(* The inductive invariant holds at first.                                 *)
LEMMA InitInv == Init => IInv
  <1>1. SUFFICES ASSUME Init PROVE IInv
    OBVIOUS
  <1>2. /\ TypeOK /\ link = "down" /\ client = "off" /\ wire = << >> /\ inbound = << >>
        /\ write_len = 0 /\ reqs = << >> /\ dialog = "none"
        /\ image = [c \in Cells |-> <<0, c>>]
    BY <1>1, InitTypes DEF Init
  <1>3. Replied = {} /\ ~Receiving /\ (\A c \in Cells : image[c][1] = 0)
    BY <1>2 DEF Replied, Receiving
  <1>4. WellFormed(inbound, reqs) /\ (\A h : Later(inbound, h))
    BY <1>2 DEF WellFormed, Later
  <1>5. AnsweredIsOld /\ StoredIsOld /\ Progress /\ Silent /\ PayloadInSync
    BY <1>2, <1>3, <1>4 DEF AnsweredIsOld, StoredIsOld, Progress, Silent, PayloadInSync
  <1>6. RepliesInOrder /\ AckedWriteStored /\ NoStrayWrite
    BY <1>2, <1>3 DEF RepliesInOrder, AckedWriteStored, NoStrayWrite
  <1>7. write_len <= MaxCells
    BY <1>2, ConstantsAssumption DEF ConstantsAssumption
  <1>8. QED
    BY <1>2, <1>4, <1>5, <1>6, <1>7 DEF IInv

(* Every step keeps the inductive invariant.                               *)
LEMMA NextInv == IInv /\ [Next]_vars => IInv'
  <1>1. SUFFICES ASSUME IInv, [Next]_vars PROVE IInv'
    OBVIOUS
  <1>2. CASE Connect \/ CloseDialog \/ LinkDown \/ Proxy
    BY <1>1, <1>2, ConnectStep
  <1>3. CASE Client
    BY <1>1, <1>3, ClientStep
  <1>4. CASE Negotiate
    BY <1>1, <1>4, NegotiateStep
  <1>5. CASE Transmit
    BY <1>1, <1>5, TransmitStep, BeginWriteStep
  <1>6. CASE ReceivePayload
    BY <1>1, <1>6, PayloadStep
  <1>7. CASE UNCHANGED vars
    <2>1. UNCHANGED <<link, nego_state, write, offset, image, damaged, reqs, inbound,
              wire, client, dialog>>
      BY <1>7 DEF vars, server, device, peer, asked
    <2>2. TypeOK'
      BY <1>1, <1>7 DEF IInv, TypeOK, vars, server, write, device, peer, asked,
         session
    <2>3. Silent'
      BY <1>1, <2>1 DEF IInv, Silent
    <2>4. QED
      BY <1>1, <2>1, <2>2, <2>3, StillStep
  <1>8. QED
    BY <1>1, <1>2, <1>3, <1>4, <1>5, <1>6, <1>7 DEF Next, onBinaryMessageReceived

(* The inductive invariant holds for ever.                                 *)
THEOREM Invariance == Spec => []IInv
  BY InitInv, NextInv, PTL DEF Spec

(* Every variable keeps its type: no offset, length or index leaves its    *)
(* range, whatever the client sends and however the stream is cut.         *)
THEOREM TypeCorrect == Spec => []TypeOK
  BY Invariance, PTL DEF IInv

(* While handle_write receives, the stream stands at the next cell of the  *)
(* write that handle_request accepted, and that write is within the        *)
(* export.                                                                 *)
THEOREM InSync == Spec => []PayloadInSync
  BY Invariance, PTL DEF IInv

(* send order of nbd_reply: no handle twice, and in the order of the       *)
(* requests, over all connections.                                         *)
THEOREM AnswersInOrder == Spec => []RepliesInOrder
  BY Invariance, PTL DEF IInv

(* What handle_write acknowledged and received undamaged is on the image,  *)
(* unless a later write stored something there.                            *)
THEOREM WritesStored == Spec => []AckedWriteStored
  BY Invariance, PTL DEF IInv

(* No undamaged write touches a cell outside its range or puts a cell of   *)
(* its payload at a wrong place.                                           *)
THEOREM WritesInBounds == Spec => []NoStrayWrite
  BY Invariance, PTL DEF IInv
=============================================================================
