--------------------------- MODULE NbdBlockProofs ---------------------------
(***************************************************************************)
(* NbdExport implements BlockExport: with a device that does not fail, a   *)
(* proxy that does not divide sectors, and reads of one block, every step  *)
(* asks for something, reads or writes what was asked for, finishes such a *)
(* write, or does none of this.                                            *)
(*                                                                         *)
(* IInv says what a step finds in the byte stream and on the image.  What  *)
(* BlockConditions add is collected in BInv:                               *)
(*   Faultless      no write is damaged, and the image is writable;        *)
(*   Opened         whoever can still ask for something finds fh open;     *)
(*   DiscIsLast     nothing is asked for behind NBD_CMD_DISC, which closes *)
(*                  fh;                                                    *)
(*   WholeSectors   a message ends with a sector, and what is left of a    *)
(*                  write is whole sectors, so that handle_write never     *)
(*                  comes to its second write(2);                          *)
(*   FromMenu       what was asked for is in RequestMenu;                  *)
(*   DataReplied    a read's data follows its reply, so that answers are   *)
(*                  as old as replies.                                     *)
(***************************************************************************)
EXTENDS NbdExportProofs

NoReq(s) == \A i \in 1 .. Len(s) : ~IsReq(s, i)

IsDisc(s, rs, i) == IsReq(s, i) /\ rs[s[i].id].cmd = "DISC"
HasDisc(s, rs) == \E i \in 1 .. Len(s) : IsDisc(s, rs, i)

EndsSector(s, n) == n > 0 /\ s[n].kind = "cell" => s[n].n % 2 = 1

Faultless == allowWrite = TRUE /\ damaged = {} /\ dialog # "opening"

Opened == fh # "open" => client = "off" /\ ~Receiving /\ NoReq(inbound)

DiscIsLast ==
    /\ HasDisc(inbound, reqs) => client = "off"
    /\ \A i \in 1 .. Len(inbound) : IsDisc(inbound, reqs, i) =>
          \A j \in i + 1 .. Len(inbound) : ~IsReq(inbound, j)

WholeSectors ==
    /\ EndsSector(inbound, cut)
    /\ Receiving => write_len % 2 = 0 /\ Pending.len % 2 = 0

FromMenu ==
    /\ Len(reqs) <= MaxRequests
    /\ \A h \in 1 .. Len(reqs) : reqs[h] \in RequestMenu

DataReplied ==
    \A i \in 1 .. Len(wire) : wire[i].kind = "data" => wire[i].id \in Replied

BInv == Faultless /\ Opened /\ DiscIsLast /\ WholeSectors /\ FromMenu /\ DataReplied

-----------------------------------------------------------------------------
(* The byte stream and the wire.                                           *)

(* What a case of onBinaryMessageReceived leaves of the message and of the *)
(* requests behind it.                                                     *)
LEMMA ConsumeKeeps ==
    ASSUME TypeOK, cut > 0, NEW k \in 0 .. cut, Consume(k)
    PROVE  /\ EndsSector(inbound, cut) => EndsSector(inbound', cut')
           /\ NoReq(inbound) => NoReq(inbound')
           /\ \A rs : HasDisc(inbound', rs) => HasDisc(inbound, rs)
           /\ \A rs, i \in 1 .. Len(inbound') :
                 IsDisc(inbound', rs, i) <=> IsDisc(inbound, rs, i + k)
           /\ Len(inbound') = Len(inbound) - k
           /\ \A i \in 1 .. Len(inbound') :
                 i + k \in 1 .. Len(inbound) /\ inbound'[i] = inbound[i + k]
  <1>1. /\ cut \in 1 .. Len(inbound) /\ inbound \in Seq(Fields) /\ k \in Nat
        /\ cut' = cut - k /\ Len(inbound') = Len(inbound) - k
        /\ \A i \in 1 .. Len(inbound') : inbound'[i] = inbound[i + k]
    BY FirstField, ConsumeTypes DEF TypeOK, Consume
  <1>2. \A i \in 1 .. Len(inbound') : i + k \in 1 .. Len(inbound)
    BY <1>1
  <1>3. NoReq(inbound) => NoReq(inbound')
    BY <1>1, <1>2 DEF NoReq, IsReq
  <1>4. \A rs, i \in 1 .. Len(inbound') :
           IsDisc(inbound', rs, i) <=> IsDisc(inbound, rs, i + k)
    BY <1>1 DEF IsDisc, IsReq
  <1>5. ASSUME NEW rs, HasDisc(inbound', rs)
        PROVE  HasDisc(inbound, rs)
    <2>1. PICK i \in 1 .. Len(inbound') : IsDisc(inbound', rs, i)
      BY <1>5 DEF HasDisc
    <2>2. i + k \in 1 .. Len(inbound)
      BY <1>2
    <2>3. IsDisc(inbound, rs, i + k)
      BY <1>1, <2>1 DEF IsDisc, IsReq
    <2>4. QED
      BY <2>2, <2>3 DEF HasDisc
  <1>6. EndsSector(inbound, cut) => EndsSector(inbound', cut')
    <2>1. cut' > 0 => cut' \in 1 .. Len(inbound') /\ cut' + k = cut
      BY <1>1
    <2>3. cut' > 0 => inbound'[cut'] = inbound[cut]
      BY <1>1, <2>1
    <2>2. QED
      BY <1>1, <2>1, <2>3 DEF EndsSector
  <1>7. QED
    BY <1>1, <1>2, <1>3, <1>4, <1>5, <1>6

(* A message that counts as an answer of BlockExport, and what BlockExport *)
(* sees of it.                                                             *)
AnswerIn(m, rs) == \/ m.kind = "data"
                   \/ m.kind = "reply" /\ rs[m.id].cmd = "WRITE"
Seen(m) == [id |-> m.id, vals |-> m.vals]

LEMMA InAnswers ==
    \A x : x \in Answers <=>
              \E i \in 1 .. Len(wire) : AnswerIn(wire[i], reqs) /\ x = Seen(wire[i])
  BY Zenon DEF Answers, IsAnswer, AnswerIn, Seen

(* The same after the step.                                                *)
LEMMA InAnswersNext ==
    \A x : x \in Answers' <=>
              \E i \in 1 .. Len(wire') : AnswerIn(wire'[i], reqs') /\ x = Seen(wire'[i])
  BY Zenon DEF Answers, IsAnswer, AnswerIn, Seen

(* What was answered was replied to.                                       *)
LEMMA AnswersReplied ==
    ASSUME DataReplied
    PROVE  \A a \in Answers : a.id \in Replied
  <1>1. SUFFICES ASSUME NEW a \in Answers PROVE a.id \in Replied
    OBVIOUS
  <1>2. PICK i \in 1 .. Len(wire) : AnswerIn(wire[i], reqs) /\ a = Seen(wire[i])
    BY InAnswers
  <1>3. a.id = wire[i].id
    BY <1>2 DEF Seen
  <1>4. QED
    BY <1>2, <1>3, InReplied DEF AnswerIn, DataReplied, IsReply

(* The client's new requests change no answer.                             *)
LEMMA AnswersKept ==
    ASSUME IInv, DataReplied, UNCHANGED wire,
           \A h \in 1 .. Len(reqs) : reqs'[h] = reqs[h]
    PROVE  Answers' = Answers
  <1>1. ASSUME NEW i \in 1 .. Len(wire)
        PROVE  AnswerIn(wire[i], reqs') <=> AnswerIn(wire[i], reqs)
    <2>1. wire[i].kind = "reply" => wire[i].id \in Replied
      BY InReplied DEF IsReply
    <2>2. wire[i].kind = "reply" => reqs'[wire[i].id] = reqs[wire[i].id]
      BY <2>1 DEF IInv, AnsweredIsOld
    <2>3. QED
      BY <2>2 DEF AnswerIn
  <1>2. \A x : x \in Answers' <=> x \in Answers
    BY <1>1, InAnswers, InAnswersNext
  <1>3. QED
    BY <1>2

(* What is sent is added to the answers, as far as it is one.              *)
LEMMA AnswersGrow ==
    ASSUME wire \in Seq(Messages), NEW u \in Seq(Messages), wire' = wire \o u,
           UNCHANGED reqs
    PROVE  \A x : x \in Answers' <=>
              \/ x \in Answers
              \/ \E i \in 1 .. Len(u) : AnswerIn(u[i], reqs) /\ x = Seen(u[i])
  <1>1. /\ Len(wire') = Len(wire) + Len(u) /\ Len(wire) \in Nat /\ Len(u) \in Nat
        /\ \A i \in 1 .. Len(wire') : wire'[i] =
              IF i <= Len(wire) THEN wire[i] ELSE u[i - Len(wire)]
    BY ConcatProperties
  <1>2. \A i \in 1 .. Len(wire) : i \in 1 .. Len(wire') /\ wire'[i] = wire[i]
    BY <1>1
  <1>3. \A i \in 1 .. Len(u) :
           Len(wire) + i \in 1 .. Len(wire') /\ wire'[Len(wire) + i] = u[i]
    BY <1>1
  <1>4. \A i \in 1 .. Len(wire') :
           \/ i \in 1 .. Len(wire) /\ wire'[i] = wire[i]
           \/ i - Len(wire) \in 1 .. Len(u) /\ wire'[i] = u[i - Len(wire)]
    BY <1>1
  <1>5. ASSUME NEW x, x \in Answers'
        PROVE  \/ x \in Answers
               \/ \E i \in 1 .. Len(u) : AnswerIn(u[i], reqs) /\ x = Seen(u[i])
    <2>1. PICK i \in 1 .. Len(wire') : AnswerIn(wire'[i], reqs') /\ x = Seen(wire'[i])
      BY <1>5, InAnswersNext
    <2>2. QED
      BY <1>4, <2>1, InAnswers
  <1>6. ASSUME NEW x, x \in Answers
        PROVE  x \in Answers'
    BY <1>2, <1>6, InAnswers, InAnswersNext
  <1>7. ASSUME NEW i \in 1 .. Len(u), AnswerIn(u[i], reqs)
        PROVE  Seen(u[i]) \in Answers'
    BY <1>3, <1>7, InAnswersNext
  <1>8. QED
    BY <1>5, <1>6, <1>7

(* Messages that are neither replies nor data.                             *)
LEMMA OtherMessages ==
    ASSUME IInv, DataReplied, UNCHANGED reqs, NEW m \in Messages,
           m.kind \notin {"reply", "data"}, wire' = wire \/ wire' = wire \o <<m>>
    PROVE  Answers' = Answers /\ DataReplied'
  <1>1. wire \in Seq(Messages) /\ <<m>> \in Seq(Messages) /\ reqs \in Seq(Requests)
    BY DEF IInv, TypeOK
  <1>2. CASE wire' = wire
    <2>1. Answers' = Answers
      BY <1>2, AnswersKept
    <2>2. QED
      BY <1>2, <2>1 DEF DataReplied, Replied, IsReply
  <1>3. CASE wire' = wire \o <<m>>
    <2>1. /\ Len(wire') = Len(wire) + 1
          /\ \A i \in 1 .. Len(wire) : wire'[i] = wire[i]
          /\ wire'[Len(wire) + 1] = m
      BY <1>1, <1>3
    <2>2. \A x : x \in Answers' <=> x \in Answers
      <3>1. \A i \in 1 .. Len(<<m>>) : ~AnswerIn(<<m>>[i], reqs)
        BY DEF AnswerIn
      <3>2. QED
        BY <1>1, <1>3, <3>1, AnswersGrow
    <2>3. \A i \in 1 .. Len(wire') :
             IsReply(wire'[i]) \/ wire'[i].kind = "data" => i \in 1 .. Len(wire)
      BY <2>1 DEF IsReply
    <2>4. Replied' = Replied
      BY <2>1, <2>3 DEF Replied, IsReply
    <2>5. DataReplied'
      BY <2>1, <2>3, <2>4 DEF DataReplied
    <2>6. QED
      BY <2>2, <2>5
  <1>4. QED
    BY <1>2, <1>3

-----------------------------------------------------------------------------
(* Steps that neither store nor answer.                                    *)

(* What is consumed puts nothing behind NBD_CMD_DISC.                      *)
LEMMA DiscKept ==
    ASSUME TypeOK, DiscIsLast, cut > 0, NEW k \in 0 .. cut, Consume(k),
           UNCHANGED reqs, client = "off" => client' = "off"
    PROVE  DiscIsLast'
  <1>1. cut \in 1 .. Len(inbound) /\ inbound \in Seq(Fields)
    BY FirstField DEF TypeOK
  <1>2. HasDisc(inbound', reqs) => client' = "off"
    BY ConsumeKeeps DEF DiscIsLast
  <1>3. ASSUME NEW i \in 1 .. Len(inbound'), IsDisc(inbound', reqs, i),
               NEW j \in i + 1 .. Len(inbound')
        PROVE  ~IsReq(inbound', j)
    <2>1. /\ i + k \in 1 .. Len(inbound) /\ inbound'[i] = inbound[i + k]
          /\ Len(inbound') = Len(inbound) - k
      BY ConsumeKeeps
    <2>2. j \in 1 .. Len(inbound') /\ j + k \in i + k + 1 .. Len(inbound)
      BY <1>1, <2>1
    <2>3. inbound'[j] = inbound[j + k]
      BY <2>2, ConsumeKeeps
    <2>4. IsDisc(inbound, reqs, i + k)
      BY <1>3, <2>1 DEF IsDisc, IsReq
    <2>5. ~IsReq(inbound, j + k)
      BY <2>1, <2>2, <2>4 DEF DiscIsLast
    <2>6. QED
      BY <2>3, <2>5 DEF IsReq
  <1>4. QED
    BY <1>2, <1>3 DEF DiscIsLast, HasDisc, IsDisc, IsReq

(* A part of the message is consumed, and the server waits for a request   *)
(* or goes on negotiating.                                                 *)
LEMMA ConsumeStep ==
    ASSUME IInv, BInv, cut > 0, NEW k \in 0 .. cut, Consume(k),
           UNCHANGED <<allowWrite, damaged, reqs>>, dialog' # "opening",
           ~Receiving', client = "off" => client' = "off",
           UNCHANGED fh \/ (client = "off" /\ NoReq(inbound')),
           DataReplied'
    PROVE  BInv'
  <1>1. TypeOK /\ inbound \in Seq(Fields) /\ cut \in 1 .. Len(inbound)
    BY FirstField DEF IInv, TypeOK
  <1>2. Faultless' /\ FromMenu'
    BY DEF BInv, Faultless, FromMenu
  <1>3. Opened'
    <2>1. CASE UNCHANGED fh
      BY <1>1, <2>1, ConsumeKeeps DEF BInv, Opened, NoReq, IsReq
    <2>2. CASE client = "off" /\ NoReq(inbound')
      BY <2>2 DEF Opened, NoReq, IsReq
    <2>3. QED
      BY <2>1, <2>2
  <1>4. DiscIsLast'
    BY <1>1, DiscKept DEF BInv
  <1>5. WholeSectors'
    <2>1. EndsSector(inbound', cut')
      BY <1>1, ConsumeKeeps DEF BInv, WholeSectors
    <2>2. QED
      BY <2>1 DEF WholeSectors, EndsSector
  <1>6. QED
    BY <1>2, <1>3, <1>4, <1>5 DEF BInv

(* A step that leaves the byte stream, the wire and the device alone.      *)
LEMMA SameStep ==
    ASSUME IInv, BInv, dialog' # "opening", client' \in {client, "off"},
           UNCHANGED <<allowWrite, damaged, nego_state, write, fh, reqs, inbound, wire>>,
           EndsSector(inbound', cut')
    PROVE  BInv' /\ Answers' = Answers
  <1>1. Answers' = Answers
    BY AnswersKept DEF BInv
  <1>2. (Receiving' <=> Receiving) /\ Pending' = Pending /\ UNCHANGED write_len
          /\ Replied' = Replied
    BY DEF Receiving, Pending, write, Replied, IsReply
  <1>3. Faultless' /\ FromMenu' /\ DataReplied'
    BY <1>2 DEF BInv, Faultless, FromMenu, DataReplied
  <1>4. Opened' /\ DiscIsLast'
    BY <1>2 DEF BInv, Opened, DiscIsLast, NoReq, HasDisc, IsDisc, IsReq
  <1>5. WholeSectors'
    BY <1>2 DEF BInv, WholeSectors, EndsSector
  <1>6. QED
    BY <1>1, <1>3, <1>4, <1>5 DEF BInv

(* Connecting, boxes, the end of a connection, and the proxy, which cuts   *)
(* behind sectors.                                                         *)
LEMMA ConnectBlock ==
    ASSUME BlockConditions, IInv, BInv, Connect \/ CloseDialog \/ LinkDown \/ Proxy
    PROVE  BInv' /\ UNCHANGED <<reqs, image, Answers>>
  <1>1. /\ TypeOK /\ cut \in Nat /\ inbound \in Seq(Fields)
        /\ dialog # "opening" /\ IOFaults = FALSE /\ TidyFrames = TRUE
    BY ConstantsAssumption
    DEF IInv, TypeOK, BInv, Faultless, BlockConditions, ConstantsAssumption
  <1>2. CASE onConnected
    <2>1. /\ cut = 0 /\ UNCHANGED <<cut, dialog, allowWrite, damaged, reqs, image>>
          /\ inbound' = << >> /\ fh' = "open"
          /\ wire' = wire \o <<Message("greeting", 0, << >>)>>
      BY <1>2 DEF onConnected, asked
    <2>2. Answers' = Answers /\ DataReplied'
      <3>1. Message("greeting", 0, << >>).kind = "greeting"
        BY DEF Message
      <3>2. QED
        BY <2>1, <3>1, PlainMessages, OtherMessages DEF BInv
    <2>3. Faultless' /\ FromMenu'
      BY <2>1 DEF BInv, Faultless, FromMenu
    <2>4. Opened' /\ DiscIsLast' /\ WholeSectors'
      BY <2>1 DEF Opened, DiscIsLast, WholeSectors, HasDisc, EndsSector, Receiving
    <2>5. QED
      BY <2>1, <2>2, <2>3, <2>4 DEF BInv
  <1>3. CASE onConnectedReadOnly \/ onConnectedNoDevice
    BY <1>1, <1>3 DEF onConnectedReadOnly, onConnectedNoDevice
  <1>4. CASE CloseDialog \/ LinkDown
    <2>1. /\ dialog' # "opening" /\ client' \in {client, "off"}
          /\ UNCHANGED <<allowWrite, damaged, nego_state, write, fh, reqs, inbound, wire,
                         cut, image>>
      BY <1>1, <1>4 DEF CloseDialog, LinkDown, server, device, asked
    <2>2. EndsSector(inbound', cut')
      BY <2>1 DEF BInv, WholeSectors
    <2>3. QED
      BY <2>1, <2>2, SameStep
  <1>5. CASE Proxy
    <2>1. PICK n \in 1 .. Len(inbound) : Frame(n)
      BY <1>5 DEF Proxy
    <2>2. /\ dialog' # "opening" /\ client' = client /\ cut' = n
          /\ UNCHANGED <<allowWrite, damaged, nego_state, write, fh, reqs, inbound, wire,
                         image>>
      BY <1>1, <2>1 DEF Frame, server, device, peer, asked
    <2>3. EndsSector(inbound', cut')
      BY <1>1, <2>1, <2>2 DEF Frame, TidyCut, EndsSector
    <2>4. QED
      BY <2>2, <2>3, SameStep
  <1>6. QED
    BY <1>2, <1>3, <1>4, <1>5 DEF Connect

(* The client adds to the byte stream, behind the message being handled.   *)
LEMMA ClientBlock ==
    ASSUME IInv, BInv, Client
    PROVE  BInv' /\ (Block!Next \/ UNCHANGED <<reqs, image, Answers>>)
  <1>1. /\ TypeOK /\ inbound \in Seq(Fields) /\ reqs \in Seq(Requests)
        /\ cut \in 0 .. Len(inbound) /\ WellFormed(inbound, reqs)
    BY DEF IInv, TypeOK
  <1>2. /\ UNCHANGED <<nego_state, write, image, allowWrite, fh, damaged, dialog, wire, cut>>
        /\ client # "off"
    BY DEF Client, ClientFlags, ClientOption, ClientRequest, server, device
  <1>3. fh = "open" /\ ~HasDisc(inbound, reqs)
    BY <1>2 DEF BInv, Opened, DiscIsLast
  <1>4. ASSUME NEW u \in Seq(Fields), inbound' = inbound \o u,
               \A h \in 1 .. Len(reqs) : reqs'[h] = reqs[h],
               FromMenu', DiscIsLast'
        PROVE  BInv' /\ UNCHANGED <<image, Answers>>
    <2>1. Answers' = Answers /\ Replied' = Replied
      BY <1>2, <1>4, AnswersKept DEF BInv, Replied, IsReply
    <2>2. Faultless' /\ Opened' /\ DataReplied'
      BY <1>2, <1>3, <2>1 DEF BInv, Faultless, Opened, DataReplied
    <2>3. EndsSector(inbound', cut')
      <3>1. cut > 0 => inbound'[cut] = inbound[cut]
        BY <1>1, <1>4
      <3>2. QED
        BY <1>2, <3>1 DEF BInv, WholeSectors, EndsSector
    <2>4. Receiving' => Receiving
      BY <1>2 DEF IInv, Silent, Receiving
    <2>5. Receiving => Pending' = Pending /\ UNCHANGED write_len
      BY <1>2, <1>4 DEF IInv, PayloadInSync, Pending, write
    <2>6. WholeSectors'
      BY <2>3, <2>4, <2>5 DEF BInv, WholeSectors, EndsSector
    <2>7. QED
      BY <1>2, <1>4, <2>1, <2>2, <2>6 DEF BInv
  <1>5. ASSUME NEW u \in Seq(Fields), inbound' = inbound \o u, UNCHANGED reqs,
               \A i \in 1 .. Len(u) : ~IsReq(u, i)
        PROVE  BInv' /\ UNCHANGED <<image, Answers>>
    <2>1. ASSUME NEW i \in 1 .. Len(inbound'), IsReq(inbound', i)
          PROVE  i \in 1 .. Len(inbound) /\ inbound'[i] = inbound[i]
      <3>1. CASE i <= Len(inbound)
        BY <1>1, <1>5, <3>1
      <3>2. CASE i > Len(inbound)
        <4>1. i - Len(inbound) \in 1 .. Len(u) /\ inbound'[i] = u[i - Len(inbound)]
          BY <1>1, <1>5, <3>2
        <4>2. QED
          BY <1>5, <2>1, <4>1 DEF IsReq
      <3>3. QED
        BY <1>1, <3>1, <3>2
    <2>2. \A i \in 1 .. Len(inbound') : ~IsDisc(inbound', reqs', i)
      BY <1>3, <1>5, <2>1 DEF HasDisc, IsDisc, IsReq
    <2>3. DiscIsLast' /\ FromMenu'
      BY SMTT(30), <1>5, <2>2 DEF DiscIsLast, HasDisc, BInv, FromMenu, IsDisc, IsReq
    <2>4. QED
      BY <1>4, <1>5, <2>3
  <1>6. ASSUME ClientFlags
        PROVE  BInv' /\ UNCHANGED <<reqs, image, Answers>>
    BY <1>1, <1>5, <1>6, FlagBytes DEF ClientFlags
  <1>7. ASSUME NEW o \in OptionMenu, ClientOption(o)
        PROVE  BInv' /\ UNCHANGED <<reqs, image, Answers>>
    BY <1>1, <1>5, <1>7, OptionBytes DEF ClientOption
  <1>8. ASSUME NEW r \in RequestMenu, ClientRequest(r)
        PROVE  BInv' /\ Block!Ask(r)
    <2> DEFINE h == Len(reqs) + 1
               n == IF r.cmd = "WRITE" THEN r.len ELSE 0
               f == Field("req", h, 0)
               p == Payload(h, n)
    <2>1. /\ r \in Requests /\ h \in Nat /\ n \in Nat
          /\ inbound' = Append(inbound, f) \o p
      BY <1>1, <1>8, RequestBytes
    <2>2. PICK u \in Seq(Fields) : inbound' = inbound \o u
      BY <1>1, <1>8, RequestBytes
    <2>3. /\ reqs' = Append(reqs, r) /\ Len(reqs) < MaxRequests
          /\ client' = IF r.cmd = "DISC" THEN "off" ELSE client
      BY <1>8 DEF ClientRequest
    <2>4. /\ Len(reqs') = h /\ reqs'[h] = r
          /\ \A g \in 1 .. Len(reqs) : reqs'[g] = reqs[g]
          /\ \A g \in 1 .. Len(reqs') : g = h \/ g \in 1 .. Len(reqs)
      BY <1>1, <2>1, <2>3
    <2>5. FromMenu'
      <3>1. MaxRequests \in Nat
        BY ConstantsAssumption DEF ConstantsAssumption
      <3>2. Len(reqs') <= MaxRequests
        BY <1>1, <2>3, <2>4, <3>1
      <3>3. QED
        BY <2>4, <3>2 DEF BInv, FromMenu
    <2>6. /\ f \in Fields /\ f.id = h /\ p \in Seq(Fields) /\ Len(p) = n
          /\ \A i \in 1 .. n : p[i].kind = "cell"
      <3>1. f \in Fields /\ f.id = h
        BY <2>1, FieldTypes DEF Field
      <3>2. /\ p \in Seq(Fields) /\ Len(p) = n
            /\ \A i \in 1 .. n : p[i] = Field("cell", h, i - 1)
        BY <2>1, PayloadTypes
      <3> HIDE DEF h, n, f, p
      <3>3. \A i \in 1 .. n : p[i].kind = "cell"
        BY <3>2 DEF Field
      <3>4. QED
        BY <3>1, <3>2, <3>3
    <2>6a. n \in Nat /\ Len(inbound) \in Nat
      BY <1>1, <2>1
    <2> HIDE DEF h, n, f, p
    <2>7. /\ Len(inbound') = Len(inbound) + 1 + n
          /\ \A i \in 1 .. Len(inbound) : inbound'[i] = inbound[i]
          /\ inbound'[Len(inbound) + 1] = f
          /\ \A i \in Len(inbound) + 2 .. Len(inbound') :
                inbound'[i] = p[i - (Len(inbound) + 1)]
      <3> DEFINE g == Append(inbound, f)
      <3>1. /\ g \in Seq(Fields) /\ Len(g) = Len(inbound) + 1
            /\ \A i \in 1 .. Len(inbound) : g[i] = inbound[i]
            /\ g[Len(inbound) + 1] = f
        BY <1>1, <2>6, AppendProperties
      <3>2. inbound' = g \o p
        BY <2>1
      <3> HIDE DEF g
      <3>3. /\ Len(inbound') = Len(g) + n
            /\ \A i \in 1 .. Len(g) + n : inbound'[i] =
                  IF i <= Len(g) THEN g[i] ELSE p[i - Len(g)]
        BY <2>6, <3>1, <3>2, ConcatProperties
      <3>4. QED
        BY <2>6a, <3>1, <3>3
    <2>8. ASSUME NEW i \in 1 .. Len(inbound'), IsReq(inbound', i)
          PROVE  i \in 1 .. Len(inbound) \/ i = Len(inbound) + 1
      <3>1. SUFFICES ASSUME i \in Len(inbound) + 2 .. Len(inbound') PROVE FALSE
        <4>1. Len(inbound') \in Nat
          BY <2>7, <2>6a
        <4>2. QED
          BY <2>6a, <4>1
      <3>2. i - (Len(inbound) + 1) \in 1 .. n
        BY <1>1, <2>1, <2>7, <3>1
      <3>3. QED
        BY <2>6, <2>7, <2>8, <3>1, <3>2 DEF IsReq
    <2>9. ASSUME NEW i \in 1 .. Len(inbound'), IsDisc(inbound', reqs', i)
          PROVE  i = Len(inbound) + 1 /\ r.cmd = "DISC"
      <3>1. CASE i \in 1 .. Len(inbound)
        <4>1. IsReq(inbound, i) /\ inbound[i].id \in 1 .. Len(reqs)
          BY <1>1, <2>7, <2>9, <3>1 DEF IsDisc, IsReq, WellFormed
        <4>2. IsDisc(inbound, reqs, i)
          BY <2>4, <2>7, <2>9, <3>1, <4>1 DEF IsDisc
        <4>3. QED
          BY <1>3, <3>1, <4>2 DEF HasDisc
      <3>2. CASE i = Len(inbound) + 1
        BY <2>4, <2>6, <2>7, <2>9, <3>2 DEF IsDisc
      <3>3. QED
        BY <2>8, <2>9, <3>1, <3>2 DEF IsDisc
    <2>10. DiscIsLast'
      <3>1. HasDisc(inbound', reqs') => client' = "off"
        BY <2>3, <2>9 DEF HasDisc
      <3>2. ASSUME NEW i \in 1 .. Len(inbound'), IsDisc(inbound', reqs', i),
                   NEW j \in i + 1 .. Len(inbound')
            PROVE  ~IsReq(inbound', j)
        <4>1. i = Len(inbound) + 1
          BY <2>9, <3>2
        <4>2. j \in 1 .. Len(inbound') /\ j \notin 1 .. Len(inbound) /\ j # Len(inbound) + 1
          BY <1>1, <4>1
        <4>3. QED
          BY <2>8, <4>2
      <3>3. QED
        BY <3>1, <3>2 DEF DiscIsLast, HasDisc, IsDisc, IsReq
    <2>11. BInv' /\ UNCHANGED <<image, Answers>>
      BY <1>4, <2>2, <2>4, <2>5, <2>10
    <2>12. QED
      BY <2>3, <2>11 DEF Block!Ask
  <1>9. QED
    BY <1>6, <1>7, <1>8 DEF Client, Block!Next

(* The negotiation, whatever it answers.                                   *)
LEMMA NegotiateBlock ==
    ASSUME IInv, BInv, Negotiate
    PROVE  BInv' /\ UNCHANGED <<reqs, image, Answers>>
  <1>1. TypeOK /\ cut \in Nat
    BY DEF IInv, TypeOK
  <1>2. cut > 0 /\ dialog = "none" /\ cut \in 0 .. cut /\ 1 \in 0 .. cut
    BY <1>1 DEF Negotiate, Parsing, ParseFlags, ParseMagic, ParseExportName,
         ParseAbort, ParseUnknownOption, ParseShortOption, ParseStrayData,
         ParseNameSize, ParseName, DropMessage
  <1>3. inbound[1].n <= cut - 1 => 1 + inbound[1].n \in 0 .. cut
    BY <1>1, <1>2, FirstField
  <1> DEFINE E == Message("export", IF glob_flags THEN 0 ELSE ZeroPad, << >>)
             U == Message("unsup", 0, << >>)
  <1>4. /\ \E k \in 0 .. cut : Consume(k)
        /\ UNCHANGED <<allowWrite, fh, reqs, image, damaged>>
        /\ nego_state' # 7 /\ dialog' # "opening"
        /\ client = "off" => client' = "off"
        /\ wire' = wire \/ wire' = wire \o <<E>> \/ wire' = wire \o <<U>>
    <2>1. CASE \/ ParseFlags \/ ParseMagic \/ ParseExportName \/ ParseAbort
               \/ ParseShortOption \/ DropMessage
      BY <1>1, <1>2, <2>1, SomeConsumed
      DEF ParseFlags, ParseMagic, ParseExportName, ParseAbort,
          ParseShortOption, DropMessage, Parsing, server, device, peer, asked
    <2>2. CASE ParseUnknownOption
      BY <1>2, <1>3, <2>2, HeardClients DEF ParseUnknownOption, Send, device, asked
    <2>3. CASE ParseStrayData
      BY <1>1, <1>2, <2>3, SomeConsumed, HeardClients
      DEF ParseStrayData, Parsing, Send, device, asked
    <2>4. CASE ParseNameSize
      BY <1>1, <1>2, <2>4, NameConsumed, HeardClients
      DEF ParseNameSize, SendExport, Send, device, asked
    <2>5. CASE ParseName
      BY <1>1, <1>2, <2>5, NameConsumed, HeardClients
      DEF ParseName, SendExport, Send, device, asked
    <2>6. QED
      BY <2>1, <2>2, <2>3, <2>4, <2>5 DEF Negotiate
  <1>5. /\ E \in Messages /\ E.kind \notin {"reply", "data"}
        /\ U \in Messages /\ U.kind \notin {"reply", "data"}
    <2>1. (IF glob_flags THEN 0 ELSE ZeroPad) \in Nat
      BY DEF ZeroPad
    <2>2. QED
      BY <2>1, PlainMessages DEF Message
  <1> HIDE DEF E, U
  <1>6. Answers' = Answers /\ DataReplied'
    BY <1>4, <1>5, OtherMessages DEF BInv
  <1>7. ~Receiving'
    BY <1>4 DEF Receiving
  <1>8. QED
    BY <1>2, <1>4, <1>6, <1>7, ConsumeStep

(* Requests that are rejected, ignored, or end the session.                *)
LEMMA RejectBlock ==
    ASSUME IInv, BInv, RejectRange \/ HandleDisc \/ IgnoreCommand \/ RejectGarbage
    PROVE  BInv' /\ UNCHANGED <<reqs, image, Answers>>
  <1>1. TypeOK /\ cut \in Nat
    BY DEF IInv, TypeOK
  <1>2. nego_state = 6 /\ cut > 0 /\ dialog = "none"
    BY DEF RejectRange, HandleDisc, IgnoreCommand, RejectGarbage, ParsingRequest, Parsing
  <1>3. PICK k \in 1 .. cut : Consume(k) /\ (HandleDisc => k = 1)
    BY <1>1, <1>2 DEF RejectRange, HandleDisc, IgnoreCommand, RejectGarbage,
       ParsingRequest, Parsing
  <1>4. /\ UNCHANGED <<nego_state, allowWrite, reqs, image, damaged, client, wire>>
        /\ dialog' # "opening" /\ k \in 0 .. cut
        /\ ~HandleDisc => UNCHANGED fh
    BY <1>1, <1>2 DEF RejectRange, HandleDisc, IgnoreCommand, RejectGarbage,
       server, device, peer, asked
  <1>5. Answers' = Answers /\ DataReplied'
    BY <1>4, AnswersKept DEF BInv, DataReplied, Replied, IsReply
  <1>6. ~Receiving'
    BY <1>2, <1>4 DEF Receiving
  <1>7. HandleDisc => client = "off" /\ NoReq(inbound')
    <2>1. SUFFICES ASSUME HandleDisc PROVE client = "off" /\ NoReq(inbound')
      OBVIOUS
    <2>2. inbound[1].kind = "req" /\ reqs[inbound[1].id].cmd = "DISC" /\ k = 1
      BY <1>3, <2>1 DEF HandleDisc, ParsingRequest, Request
    <2>3. 1 \in 1 .. Len(inbound) /\ IsDisc(inbound, reqs, 1)
      BY <1>1, <1>2, <2>2, FirstField DEF IsDisc, IsReq
    <2>4. client = "off" /\ \A j \in 1 + 1 .. Len(inbound) : ~IsReq(inbound, j)
      BY <2>3 DEF BInv, DiscIsLast, HasDisc
    <2>5. \A i \in 1 .. Len(inbound') :
             i + 1 \in 1 .. Len(inbound) /\ inbound'[i] = inbound[i + 1]
      BY <1>1, <1>2, <1>3, <1>4, <2>2, ConsumeKeeps
    <2>6. NoReq(inbound')
      BY SMTT(30), <1>1, <2>4, <2>5 DEF NoReq, IsReq, TypeOK
    <2>7. QED
      BY <2>4, <2>6
  <1>8. QED
    BY <1>2, <1>3, <1>4, <1>5, <1>6, <1>7, ConsumeStep

(* An accepted write: nothing is stored yet.                               *)
LEMMA BeginBlock ==
    ASSUME IInv, BInv, BeginWrite
    PROVE  BInv' /\ UNCHANGED <<reqs, image, Answers>>
  <1> DEFINE r == reqs[inbound[1].id]
  <1>1. TypeOK /\ cut \in Nat /\ WellFormed(inbound, reqs)
    BY DEF IInv, TypeOK
  <1>2. /\ cut > 0 /\ inbound[1].kind = "req" /\ ~BadLength(r) /\ Consume(1)
        /\ write_handle' = inbound[1].id /\ write_len' = r.len
        /\ UNCHANGED <<allowWrite, fh, image, damaged, dialog, client, reqs, wire>>
    BY DEF BeginWrite, ParsingRequest, Parsing, Request, peer, asked
  <1>3. 1 \in 1 .. Len(inbound) /\ 1 \in 0 .. cut /\ IsReq(inbound, 1)
    BY <1>1, <1>2, FirstField DEF IsReq
  <1>4. write_len' % 2 = 0 /\ Pending'.len % 2 = 0
    <2>1. r.len % 2 = 0
      BY <1>2 DEF BadLength
    <2>2. QED
      BY <1>2, <2>1 DEF Pending
  <1>5. Answers' = Answers /\ DataReplied' /\ Faultless' /\ FromMenu'
    BY <1>2, AnswersKept DEF BInv, DataReplied, Replied, IsReply, Faultless, FromMenu
  <1>6. fh = "open"
    BY <1>3 DEF BInv, Opened, NoReq
  <1>7. DiscIsLast'
    BY <1>1, <1>2, <1>3, DiscKept DEF BInv
  <1>8. WholeSectors'
    <2>1. EndsSector(inbound', cut')
      BY <1>1, <1>2, <1>3, ConsumeKeeps DEF BInv, WholeSectors
    <2>2. QED
      BY <1>4, <2>1 DEF WholeSectors, EndsSector, Pending
  <1>9. Opened'
    BY <1>2, <1>6 DEF Opened
  <1>10. QED
    BY <1>2, <1>5, <1>7, <1>8, <1>9 DEF BInv

-----------------------------------------------------------------------------
(* Reads.                                                                  *)

(* handle_read is Read: the data is what the image holds.                  *)
LEMMA ReadBlock ==
    ASSUME BlockConditions, IInv, BInv, HandleRead
    PROVE  BInv' /\ (Block!Next \/ UNCHANGED <<reqs, image, Answers>>)
  <1> DEFINE h == inbound[1].id
             r == reqs[h]
             d == Message("data", h, ReadData(r, r.len))
             m == <<Reply(h), d>>
  <1>1. /\ TypeOK /\ cut \in Nat /\ WellFormed(inbound, reqs)
        /\ wire \in Seq(Messages) /\ reqs \in Seq(Requests)
    BY DEF IInv, TypeOK
  <1>2. /\ nego_state = 6 /\ cut > 0 /\ dialog = "none" /\ inbound[1].kind = "req"
        /\ r.cmd = "READ" /\ ~BadLength(r) /\ Consume(1)
        /\ UNCHANGED <<nego_state, allowWrite, fh, image, damaged, dialog, client, reqs>>
        /\ Send(m)
    BY DEF HandleRead, ParsingRequest, Parsing, Request, server, peer, asked
  <1>3. 1 \in 1 .. Len(inbound) /\ 1 \in 0 .. cut /\ IsReq(inbound, 1) /\ h \in Nat
    BY <1>1, <1>2, FirstField DEF IsReq
  <1>4. h \in 1 .. Len(reqs) /\ r \in Requests
    BY <1>1, <1>2, RequestTypes DEF Request
  <1>5. h \in 1 .. MaxRequests /\ r.len <= ReadCells
    <2>1. h \in 1 .. MaxRequests
      BY <1>1, <1>4, ConstantsAssumption DEF BInv, FromMenu, ConstantsAssumption
    <2>2. r.len <= ReadCells
      BY <1>2, <1>4 DEF BInv, FromMenu, BlockConditions
    <2>3. QED
      BY <2>1, <2>2
  <1>6. ReadData(r, r.len) = [i \in 1 .. r.len |-> image[r.from + i - 1]]
    <2>1. r.len \in Nat /\ r.from \in Nat /\ ReadCells \in Nat \ {0}
      BY <1>2, <1>4, InExport, ConstantsAssumption DEF Requests, ConstantsAssumption
    <2>2. ASSUME NEW i \in 1 .. r.len
          PROVE  r.from + ((i - 1) % ReadCells) = r.from + i - 1
      <3>1. i - 1 \in 0 .. ReadCells - 1
        BY <1>5, <2>1
      <3>2. (i - 1) % ReadCells = i - 1
        BY <2>1, <3>1
      <3>3. QED
        BY <2>1, <3>2
    <2>3. QED
      BY <2>2 DEF ReadData
  <1>7. /\ d \in Messages /\ d.kind = "data" /\ d.id = h /\ d.vals = ReadData(r, r.len)
        /\ Reply(h) \in Messages /\ Reply(h).kind = "reply" /\ Reply(h).id = h
    <2>1. r.len \in 0 .. r.len
      BY <1>4 DEF Requests
    <2>2. QED
      BY <1>1, <1>2, <1>3, <1>4, <2>1, ReadTypes, PlainMessages DEF Message, Reply
  <1>8. \A a \in Answers : a.id < h
    BY <1>3, AnswersReplied DEF BInv, IInv, AnsweredIsOld, Later
  <1> HIDE DEF h, r, d
  <1>9. CASE UNCHANGED wire
    <2>1. Answers' = Answers /\ DataReplied'
      BY <1>2, <1>9, AnswersKept DEF BInv, DataReplied, Replied, IsReply
    <2>2. ~Receiving'
      BY <1>2 DEF Receiving
    <2>3. BInv'
      BY <1>2, <1>3, <2>1, <2>2, ConsumeStep
    <2>4. QED
      BY <1>2, <2>1, <2>3
  <1>10. CASE wire' = wire \o m
    <2>1. m \in Seq(Messages) /\ Len(m) = 2 /\ m[1] = Reply(h) /\ m[2] = d
      BY <1>7
    <2>2. \A x : x \in Answers' <=> x \in Answers \/ x = Seen(d)
      <3>1. ~AnswerIn(m[1], reqs) /\ AnswerIn(m[2], reqs)
        BY <1>2, <1>7, <2>1 DEF AnswerIn, r
      <3>2. \A i \in 1 .. Len(m) : i = 1 \/ i = 2
        BY <2>1
      <3>3. 2 \in 1 .. Len(m)
        BY <2>1
      <3> HIDE DEF m
      <3>4. QED
        BY <1>1, <1>2, <1>10, <2>1, <3>1, <3>2, <3>3, AnswersGrow
    <2>3. DataReplied'
      <3>1. /\ Len(wire') = Len(wire) + 2 /\ Len(wire) \in Nat
            /\ \A i \in 1 .. Len(wire) : i \in 1 .. Len(wire') /\ wire'[i] = wire[i]
            /\ wire'[Len(wire) + 1] = m[1] /\ wire'[Len(wire) + 2] = m[2]
        BY <1>1, <1>10, <2>1
      <3>2. \A g \in Replied : g \in Replied'
        BY <3>1, InReplied, InRepliedNext
      <3>3. h \in Replied'
        <4>1. Len(wire) + 1 \in 1 .. Len(wire') /\ IsReply(wire'[Len(wire) + 1])
                /\ wire'[Len(wire) + 1].id = h
          BY <1>7, <2>1, <3>1 DEF IsReply
        <4>2. QED
          BY <4>1, InRepliedNext
      <3>4. ASSUME NEW i \in 1 .. Len(wire'), wire'[i].kind = "data"
            PROVE  wire'[i].id \in Replied'
        <4>1. i \in 1 .. Len(wire) \/ i = Len(wire) + 1 \/ i = Len(wire) + 2
          BY <3>1
        <4>2. CASE i \in 1 .. Len(wire)
          BY <3>1, <3>2, <3>4, <4>2 DEF BInv, DataReplied
        <4>3. CASE i = Len(wire) + 1 \/ i = Len(wire) + 2
          BY <1>7, <2>1, <3>1, <3>3, <4>3
        <4>4. QED
          BY <4>1, <4>2, <4>3
      <3>5. QED
        BY <3>4 DEF DataReplied
    <2>4. ~Receiving'
      BY <1>2 DEF Receiving
    <2>5. BInv'
      BY <1>2, <1>3, <2>3, <2>4, ConsumeStep
    <2>6. Answers' = Answers \cup {[id |-> h, vals |-> ReadData(r, r.len)]}
      BY <1>7, <2>2 DEF Seen
    <2>7. Block!Serves(h, "READ")
      <3>1. r.len > 0 /\ r.from + r.len <= FileCells
        BY <1>2, <1>4, InExport, ConstantsAssumption DEF ConstantsAssumption
      <3>2. QED
        BY <1>2, <1>8, <3>1 DEF Block!Serves, r
    <2>8. Block!Read(h)
      BY <1>2, <1>6, <2>6, <2>7 DEF Block!Read, Block!Answer, r
    <2>9. QED
      BY <1>1, <1>4, <2>5, <2>8 DEF Block!Next
  <1>11. QED
    BY <1>2, <1>9, <1>10 DEF Send

-----------------------------------------------------------------------------
(* Writes.                                                                 *)

(* handle_write gets whole sectors.                                        *)
LEMMA EvenPass ==
    ASSUME IInv, BInv, cut > 0, nego_state = 7
    PROVE  pass_write % 2 = 0
  <1>1. /\ cut \in 1 .. Len(inbound) /\ Receiving /\ write_len \in Nat
        /\ write_len % 2 = 0 /\ Pending.len % 2 = 0
    BY FirstField, OutputInSync DEF IInv, TypeOK, BInv, WholeSectors
  <1>2. CASE write_len <= cut
    <2>1. pass_write = write_len
      BY <1>1, <1>2 DEF pass_write
    <2>2. QED
      BY <1>1, <2>1
  <1>3. CASE cut < write_len
    <2>1. inbound[cut] = Field("cell", write_handle, Pending.len - write_len + cut - 1)
      BY <1>1, <1>3 DEF IInv, PayloadInSync
    <2>2. inbound[cut].kind = "cell" /\ inbound[cut].n = Pending.len - write_len + cut - 1
      BY <2>1 DEF Field
    <2>3. (Pending.len - write_len + cut - 1) % 2 = 1
      BY <1>1, <2>2 DEF BInv, WholeSectors, EndsSector
    <2>4. Pending.len \in Nat
      BY <1>1, SentRequest DEF IInv, TypeOK, PayloadInSync, Pending
    <2>5. cut % 2 = 0
      BY <1>1, <2>3, <2>4
    <2>6. QED
      BY <1>3, <2>5 DEF pass_write
  <1>4. QED
    BY <1>1, <1>2, <1>3

(* What handle_write does then: the payload goes where it belongs.         *)
LEMMA WriteEffects ==
    ASSUME BlockConditions, IInv, BInv, ReceivePayload
    PROVE  /\ nego_state = 7 /\ cut > 0 /\ Receiving
           /\ pass_write \in 1 .. write_len /\ pass_write \in 0 .. cut
           /\ pass_write % 2 = 0 /\ Received
           /\ UNCHANGED <<allowWrite, fh, damaged, dialog, client, reqs, write_handle>>
           /\ offset = write_from + Got
           /\ \A c \in Cells : image'[c] = IF offset <= c /\ c < offset + pass_write
                                          THEN <<write_handle, Got + (c - offset)>>
                                          ELSE image[c]
  <1>1. nego_state = 7 /\ cut > 0
    BY DEF ReceivePayload, DropPayload, WritePayload, WriteFails, Parsing
  <1>2. TypeOK /\ Receiving /\ pass_write % 2 = 0 /\ write_len <= MaxCells
    BY <1>1, OutputInSync, EvenPass DEF IInv
  <1>3. pass_write \in 1 .. write_len /\ pass_write \in 0 .. cut /\ pass_write # 1
    <2>1. write_len > 0
      BY <1>2 DEF IInv, PayloadInSync, TypeOK
    <2>2. pass_write \in 0 .. cut /\ pass_write <= write_len /\ pass_write > 0
      BY <1>1, <1>2, <2>1, PassTypes
    <2>3. QED
      BY SMTT(30), <1>2, <2>2 DEF TypeOK
  <1>4. allowWrite = TRUE /\ fh = "open" /\ IOFaults = FALSE /\ damaged = {}
    BY <1>2, ConstantsAssumption
    DEF BInv, Faultless, Opened, BlockConditions, ConstantsAssumption
  <1>5. WritePayload
    BY <1>3, <1>4 DEF ReceivePayload, DropPayload, WriteFails
  <1>6. /\ Received
        /\ UNCHANGED <<allowWrite, fh, damaged, dialog, client, reqs, write_handle>>
    BY <1>2, <1>5 DEF WritePayload, peer, asked
  <1>7. image' = Stored(pass_write)
    <2>1. Counts = {pass_write}
      BY <1>2, <1>3 DEF Counts
    <2>2. QED
      BY <1>5, <2>1 DEF WritePayload
  <1>8. offset = write_from + Got
    BY <1>2, <1>4 DEF IInv, Progress, Intact
  <1>9. ASSUME NEW c \in Cells
        PROVE  image'[c] = IF offset <= c /\ c < offset + pass_write
                             THEN <<write_handle, Got + (c - offset)>> ELSE image[c]
    <2>1. image'[c] = IF offset <= c /\ c < offset + pass_write
                        THEN Output[c - offset] ELSE image[c]
      BY <1>7 DEF Stored
    <2>2. ASSUME offset <= c, c < offset + pass_write
          PROVE  Output[c - offset] = <<write_handle, Got + (c - offset)>>
      <3>1. pass_write <= MaxCells /\ pass_write \in Nat /\ MaxCells \in Nat
              /\ offset \in Nat /\ c \in Int
        BY <1>2, <1>3, ConstantsAssumption DEF TypeOK, ConstantsAssumption, Cells
      <3>2. c - offset \in 0 .. 2 * MaxCells /\ c - offset < pass_write
        BY <2>2, <3>1
      <3>3. QED
        BY <1>1, <1>2, <3>2, OutputInSync
    <2>3. QED
      BY <2>1, <2>2
  <1>10. QED
    BY <1>1, <1>2, <1>3, <1>6, <1>8, <1>9

(* The reply to a write, or none.                                          *)
LEMMA ReplySent ==
    ASSUME wire \in Seq(Messages), UNCHANGED reqs, DataReplied,
           NEW h \in Nat, reqs[h].cmd = "WRITE", wire' = wire \o <<Reply(h)>>
    PROVE  /\ DataReplied'
           /\ Answers' = Answers \cup {[id |-> h, vals |-> << >>]}
  <1> DEFINE m == Reply(h)
             u == <<m>>
  <1>1. m \in Messages /\ m.kind = "reply" /\ m.id = h /\ m.vals = << >>
    BY PlainMessages DEF Reply, Message
  <1> HIDE DEF m
  <1>2. u \in Seq(Messages) /\ Len(u) = 1 /\ u[1] = m /\ 1 \in 1 .. Len(u)
    BY <1>1
  <1>3. /\ Len(wire') = Len(wire) + 1 /\ Len(wire) \in Nat
        /\ \A i \in 1 .. Len(wire) : i \in 1 .. Len(wire') /\ wire'[i] = wire[i]
        /\ wire'[Len(wire) + 1] = m
    BY <1>1 DEF m
  <1>4. AnswerIn(m, reqs)
    BY <1>1 DEF AnswerIn
  <1>5. wire' = wire \o u
    BY DEF m
  <1> HIDE DEF u
  <1>6. \A x : x \in Answers' <=> x \in Answers \/ x = Seen(m)
    <2>1. \A i \in 1 .. Len(u) : i = 1
      BY <1>2
    <2>2. QED
      BY <1>2, <1>4, <1>5, <2>1, AnswersGrow
  <1>7. Seen(m) = [id |-> h, vals |-> << >>]
    BY <1>1 DEF Seen
  <1>8. ASSUME NEW i \in 1 .. Len(wire'), wire'[i].kind = "data"
        PROVE  wire'[i].id \in Replied'
    <2>1. i \in 1 .. Len(wire) \/ i = Len(wire) + 1
      BY <1>3
    <2>2. i \in 1 .. Len(wire)
      BY <1>1, <1>3, <1>8, <2>1
    <2>3. wire[i].id \in Replied /\ wire'[i] = wire[i]
      BY <1>3, <1>8, <2>2 DEF DataReplied
    <2>4. wire[i].id \in Replied'
      BY <1>3, <2>3, InReplied, InRepliedNext
    <2>5. QED
      BY <2>3, <2>4
  <1>9. QED
    BY <1>6, <1>7, <1>8 DEF DataReplied

(* A difference of whole sectors is whole sectors.                         *)
LEMMA EvenDifference ==
    ASSUME NEW a \in Int, NEW b \in Int, a % 2 = 0, b % 2 = 0
    PROVE  (a - b) % 2 = 0
  OBVIOUS

(* A message of payload is Write; the one that ends in a reply is          *)
(* FinishWrite.                                                            *)
LEMMA WriteBlock ==
    ASSUME BlockConditions, IInv, BInv, ReceivePayload
    PROVE  BInv' /\ (Block!Next \/ UNCHANGED <<reqs, image, Answers>>)
  <1> DEFINE h == write_handle
             n == pass_write
             r == Pending
  <1>1. /\ TypeOK /\ wire \in Seq(Messages) /\ reqs \in Seq(Requests)
        /\ write_from \in Nat /\ write_len \in Nat /\ DOMAIN image = Cells
        /\ FileCells \in Nat
    BY ConstantsAssumption DEF IInv, TypeOK, ConstantsAssumption
  <1>2. /\ nego_state = 7 /\ cut > 0 /\ Receiving /\ Received
        /\ n \in 1 .. write_len /\ n \in 0 .. cut /\ n % 2 = 0
        /\ UNCHANGED <<allowWrite, fh, damaged, dialog, client, reqs, write_handle>>
        /\ offset = write_from + Got
        /\ \A c \in Cells : image'[c] = IF offset <= c /\ c < offset + n
                                       THEN <<h, Got + (c - offset)>> ELSE image[c]
    BY WriteEffects
  <1>3. /\ h \in 1 .. Len(reqs) /\ r.cmd = "WRITE" /\ r.from = write_from
        /\ write_from + r.len <= FileCells /\ write_len \in 1 .. r.len
        /\ r.len \in Nat /\ r = reqs[h]
    <2>1. /\ h \in 1 .. Len(reqs) /\ r.cmd = "WRITE" /\ r.from = write_from
          /\ write_from + r.len <= FileCells /\ write_len \in 1 .. r.len
      BY <1>2 DEF IInv, PayloadInSync
    <2>2. QED
      BY <1>1, <2>1, SentRequest DEF Pending
  <1>4. Got \in Nat /\ Got + write_len = r.len /\ n \in Nat
    <2> HIDE DEF r, n
    <2>1. Got = r.len - write_len
      BY DEF Got, r
    <2>2. write_len \in 1 .. r.len /\ r.len \in Nat
      BY <1>3
    <2>3. Got \in Nat /\ Got + write_len = r.len
      BY <2>1, <2>2
    <2>4. n \in Nat
      BY <1>1, <1>2
    <2>5. QED
      BY <2>3, <2>4
  <1>5. h \in 1 .. MaxRequests /\ h \in Nat
    BY <1>1, <1>3, ConstantsAssumption DEF BInv, FromMenu, ConstantsAssumption
  <1>6. \A a \in Answers : a.id < h
    BY <1>2, AnswersReplied DEF BInv, IInv, AnsweredIsOld
  <1>7. DOMAIN image' = Cells
    BY PayloadStepTypes DEF IInv, TypeOK
  <1>8. /\ Consume(n) /\ write_len' = write_len - n
        /\ \/ nego_state' = 7 /\ UNCHANGED wire
           \/ /\ nego_state' = 6 /\ n = write_len
              /\ UNCHANGED wire \/ wire' = wire \o <<Reply(h)>>
    BY <1>2 DEF Received, Send
  <1>9. /\ UNCHANGED wire => Answers' = Answers /\ DataReplied'
        /\ ~UNCHANGED wire => /\ DataReplied' /\ n = write_len
                             /\ Answers' = Answers \cup {[id |-> h, vals |-> << >>]}
    <2>1. CASE UNCHANGED wire
      BY <1>2, <2>1, AnswersKept DEF BInv, DataReplied, Replied, IsReply
    <2>2. CASE ~UNCHANGED wire
      BY <1>1, <1>2, <1>3, <1>5, <1>8, <2>2, ReplySent DEF BInv
    <2>3. QED
      BY <2>1, <2>2
  <1>10. Pending' = r
    BY <1>2 DEF Pending
  <1> HIDE DEF h, n, r
  <1>11. BInv'
    <2>1. Faultless' /\ FromMenu'
      BY <1>2 DEF BInv, Faultless, FromMenu
    <2>2. fh = "open"
      BY <1>2 DEF BInv, Opened
    <2>3. Opened'
      BY <1>2, <2>2 DEF Opened
    <2>4. DiscIsLast'
      BY <1>1, <1>2, <1>8, DiscKept DEF BInv
    <2>5. EndsSector(inbound', cut')
      BY <1>1, <1>2, <1>8, ConsumeKeeps DEF BInv, WholeSectors
    <2>6. write_len' % 2 = 0 /\ r.len % 2 = 0
      <3>1. write_len % 2 = 0 /\ r.len % 2 = 0
        BY <1>2 DEF BInv, WholeSectors, r
      <3>2. write_len \in Int /\ n \in Int /\ n % 2 = 0 /\ write_len' = write_len - n
        BY <1>1, <1>2, <1>4, <1>8
      <3>3. (write_len - n) % 2 = 0
        BY <3>1, <3>2, EvenDifference
      <3>4. QED
        BY <3>1, <3>2, <3>3
    <2>7. WholeSectors'
      BY <1>10, <2>5, <2>6 DEF WholeSectors, EndsSector
    <2>8. QED
      BY <1>9, <2>1, <2>3, <2>4, <2>7 DEF BInv
  <1>12. Block!Serves(h, "WRITE") /\ h \in DOMAIN reqs
    BY <1>1, <1>2, <1>3, <1>6 DEF Block!Serves
  <1>13. /\ \A c : c \in Block!Target(h) <=> c \in write_from .. write_from + r.len - 1
         /\ \A c : Block!Written(h, c) = <<h, c - write_from>>
    BY <1>3 DEF Block!Target, Block!Written
  <1>14. ASSUME NEW c \in Cells, offset <= c, c < offset + n
         PROVE  /\ c \in Block!Target(h)
                /\ image'[c] = Block!Written(h, c)
    <2>1. c \in Int /\ offset \in Nat
      BY <1>1 DEF Cells, TypeOK
    <2>2. Got + (c - offset) = c - write_from
      BY SMTT(30), <1>1, <1>2, <1>4, <2>1
    <2>3. c \in write_from .. write_from + r.len - 1
      <3>1. /\ write_from \in Nat /\ write_len \in Nat /\ n \in 1 .. write_len
            /\ offset = write_from + Got /\ Got \in Nat /\ Got + write_len = r.len
        BY <1>1, <1>2, <1>4
      <3>2. c < write_from + r.len /\ write_from <= c
        BY <1>14, <2>1, <3>1
      <3>3. QED
        BY <2>1, <3>1, <3>2
    <2>4. QED
      BY <1>2, <1>13, <1>14, <2>2, <2>3
  <1>15. CASE UNCHANGED wire
    <2> DEFINE part == {c \in Cells : offset <= c /\ c < offset + n}
    <2>1. part \in SUBSET Block!Target(h)
      BY <1>14
    <2>2. image' = [c \in Block!Cells |->
                       IF c \in part THEN Block!Written(h, c) ELSE image[c]]
      <3>1. \A c \in Cells :
               image'[c] = IF c \in part THEN Block!Written(h, c) ELSE image[c]
        BY <1>2, <1>14
      <3>2. image' = [c \in Cells |-> image'[c]]
        BY <1>7, PayloadStepTypes DEF IInv, TypeOK
      <3> HIDE DEF part
      <3>3. QED
        BY <3>1, <3>2 DEF Cells, Block!Cells
    <2> HIDE DEF part
    <2>3. Block!Write(h)
      BY <1>9, <1>12, <1>15, <2>1, <2>2 DEF Block!Write
    <2>4. QED
      BY <1>11, <1>12, <2>3 DEF Block!Next
  <1>16. CASE ~UNCHANGED wire
    <2>1. ASSUME NEW c \in Cells, c \in Block!Target(h)
          PROVE  image'[c] = Block!Written(h, c)
      <3>1. /\ write_from <= c /\ c < write_from + r.len /\ c \in Int /\ offset \in Nat
            /\ n = write_len
        BY <1>1, <1>4, <1>9, <1>13, <1>16, <2>1 DEF Cells, TypeOK
      <3>2. CASE offset <= c
        <4>1. c < offset + n
          BY SMTT(30), <1>1, <1>2, <1>4, <3>1, <3>2
        <4>2. QED
          BY <1>14, <3>2, <4>1
      <3>3. CASE c < offset
        <4>1. c - write_from \in 0 .. Got - 1 /\ write_from + (c - write_from) = c
          BY <1>1, <1>2, <1>4, <3>1, <3>3
        <4>2. Intact(h)
          BY DEF BInv, Faultless, Intact
        <4>3. \A i \in 0 .. Got - 1 : image[write_from + i] = <<h, i>>
          BY <1>2, <4>2 DEF IInv, Progress, h
        <4>4. image[c] = <<h, c - write_from>>
          BY <4>1, <4>3
        <4>5. ~(offset <= c)
          BY <3>1, <3>3
        <4>6. QED
          BY <1>2, <1>13, <4>4, <4>5
      <3>4. QED
        BY <3>1, <3>2, <3>3
    <2>2. ASSUME NEW c \in Cells, c \notin Block!Target(h)
          PROVE  image'[c] = image[c]
      BY <1>2, <1>14, <2>2
    <2>3. image' = [c \in Block!Cells |->
                       IF c \in Block!Target(h) THEN Block!Written(h, c) ELSE image[c]]
      <3>1. \A c \in Cells : image'[c] =
               IF c \in Block!Target(h) THEN Block!Written(h, c) ELSE image[c]
        BY <2>1, <2>2
      <3>2. image' = [c \in Cells |-> image'[c]]
        BY <1>7, PayloadStepTypes DEF IInv, TypeOK
      <3>3. QED
        BY <3>1, <3>2 DEF Cells, Block!Cells
    <2>4. Block!FinishWrite(h)
      BY <1>9, <1>12, <1>16, <2>3 DEF Block!FinishWrite, Block!Answer
    <2>5. QED
      BY <1>11, <1>12, <2>4 DEF Block!Next
  <1>17. QED
    BY <1>15, <1>16

-----------------------------------------------------------------------------
(* The refinement.                                                         *)

(* The state in which the program starts.                                  *)
LEMMA InitBlock == BlockConditions /\ Init => BInv /\ Block!Init
  <1>1. SUFFICES ASSUME BlockConditions, Init PROVE BInv /\ Block!Init
    OBVIOUS
  <1>2. /\ allowWrite = TRUE /\ damaged = {} /\ dialog = "none" /\ client = "off"
        /\ inbound = << >> /\ cut = 0 /\ reqs = << >> /\ wire = << >>
        /\ image = [c \in Cells |-> <<0, c>>]
    BY <1>1 DEF Init
  <1>3. BInv
    BY <1>2, ConstantsAssumption
    DEF BInv, Faultless, Opened, DiscIsLast, WholeSectors, FromMenu, DataReplied,
        Receiving, NoReq, HasDisc, EndsSector, ConstantsAssumption
  <1>4. Answers = {}
    <2>1. \A x : x \notin Answers
      BY <1>2, InAnswers
    <2>2. QED
      BY <2>1
  <1>5. QED
    BY <1>2, <1>3, <1>4 DEF Block!Init, Block!Cells, Cells

(* Every step is one of BlockExport, or stutters.                          *)
LEMMA NextBlock ==
    ASSUME BlockConditions
    PROVE  IInv /\ BInv /\ [Next]_vars => BInv' /\ [Block!Next]_<<reqs, image, Answers>>
  <1>1. SUFFICES ASSUME IInv, BInv, [Next]_vars
                 PROVE  BInv' /\ [Block!Next]_<<reqs, image, Answers>>
    OBVIOUS
  <1>2. CASE Connect \/ CloseDialog \/ LinkDown \/ Proxy
    BY <1>1, <1>2, ConnectBlock
  <1>3. CASE Client
    BY <1>1, <1>3, ClientBlock
  <1>4. CASE Negotiate
    BY <1>1, <1>4, NegotiateBlock
  <1>5. CASE HandleReadFails
    <2>1. /\ TypeOK /\ cut > 0 /\ inbound[1].kind = "req"
          /\ IOFaults \/ fh # "open"
      BY <1>1, <1>5 DEF HandleReadFails, ParsingRequest, Parsing, IInv
    <2>2. 1 \in 1 .. Len(inbound) /\ IsReq(inbound, 1)
      BY <2>1, FirstField DEF IsReq
    <2>3. FALSE
      BY <1>1, <2>1, <2>2 DEF BInv, Opened, NoReq, BlockConditions
    <2>4. QED
      BY <2>3
  <1>6. CASE Transmit /\ ~HandleReadFails
    BY <1>1, <1>6, RejectBlock, BeginBlock, ReadBlock DEF Transmit
  <1>7. CASE ReceivePayload
    BY <1>1, <1>7, WriteBlock
  <1>8. CASE UNCHANGED vars
    <2>1. /\ UNCHANGED <<allowWrite, damaged, nego_state, write, fh, reqs, inbound, wire,
                         cut, image, dialog, client>>
      BY <1>8 DEF vars, server, device, peer, asked
    <2>2. dialog' # "opening" /\ client' \in {client, "off"} /\ EndsSector(inbound', cut')
      BY <1>1, <2>1 DEF BInv, Faultless, WholeSectors
    <2>3. QED
      BY <1>1, <2>1, <2>2, SameStep
  <1>9. QED
    BY <1>1, <1>2, <1>3, <1>4, <1>5, <1>6, <1>7, <1>8 DEF Next, onBinaryMessageReceived

(* The server is a block device: the parser, the buffers, the seeks and    *)
(* the two halves of a write together do what BlockExport does, for any    *)
(* image, requests, cuts between sectors, and connections.                 *)
THEOREM Implements ==
    ASSUME BlockConditions
    PROVE  Spec => IsBlockDevice
  <1>1. Init => BInv /\ Block!Init
    BY InitBlock
  <1>2. IInv /\ BInv /\ [Next]_vars => BInv' /\ [Block!Next]_<<reqs, image, Answers>>
    BY NextBlock
  <1>3. QED
    BY <1>1, <1>2, Invariance, PTL DEF Spec, IsBlockDevice, Block!Spec
=============================================================================
