----------------------------- MODULE NbdExport -----------------------------
(***************************************************************************)
(* The NBD server that NBDServerWSLinux runs behind a WebSocket: it serves *)
(* one file or block device to a BMC.  Every WebSocket message that the    *)
(* BMC's proxy cuts out of the NBD client's byte stream is handed to       *)
(* MainWindow::onBinaryMessageReceived, which parses it with the state     *)
(* machine nego_state: 1..5 negotiate, 6 expects a request, 7 the payload  *)
(* of an accepted write.                                                   *)
(*                                                                         *)
(* Units.  Offsets and lengths count cells of 256 bytes, half a sector, so *)
(* that a message boundary inside a sector can be expressed.  A value of a *)
(* cell is <<w, i>>: cell i of the payload of write w.  <<0, c>> is what   *)
(* cell c of the image holds at first, <<w, -1>> is buffer content that    *)
(* write w stored and no client sent.                                      *)
(***************************************************************************)
EXTENDS Integers, Sequences, FiniteSets

CONSTANTS
    FileCells,    \* fsize: the size of the image
    MaxCells,     \* BUFSIZE - sizeof(struct nbd_reply): the largest request
    ReadCells,    \* rbuf_size: the block in which a read is answered
    Wrap,         \* 2^64: the width of "from"
    RequestMenu,  \* the requests the client may send
    FlagMenu,     \* what the client may set NBD_FLAG_C_NO_ZEROES to
    OptionMenu,   \* the options the client may send in negotiation
    MaxRequests,  \* bound: requests sent
    MaxOptions,   \* bound: options sent
    MaxSessions,  \* bound: WebSocket connections
    IOFaults,     \* whether open, read and write may fail
    TidyFrames    \* whether the proxy only cuts where the server expects it

Commands == {"READ", "WRITE", "DISC", "TRIM"}
Requests == [cmd : Commands, from : 0 .. Wrap - 1, len : Nat]

(* An option: its code, and the parts of the name (EXPORT_NAME) or of the  *)
(* data (any other option) that follow it.                                 *)
Options == [code : {"EXPORT_NAME", "ABORT", "UNKNOWN"}, parts : Nat]

ASSUME ConstantsAssumption ==
    /\ FileCells \in Nat /\ MaxCells \in Nat \ {0} /\ ReadCells \in Nat \ {0}
    /\ Wrap \in Nat /\ FileCells + MaxCells < Wrap
    /\ RequestMenu \subseteq Requests
    /\ FlagMenu \subseteq {0, 1}
    /\ OptionMenu \subseteq Options
    /\ MaxRequests \in Nat /\ MaxOptions \in Nat /\ MaxSessions \in Nat
    /\ IOFaults \in BOOLEAN /\ TidyFrames \in BOOLEAN

Cells == 0 .. FileCells - 1

VARIABLES
    link,          \* the WebSocket: "down", "up", "closing"
    nego_state,    \* MainWindow::nego_state
    glob_flags,    \* the F_NO_ZEROES bit of MainWindow::glob_flags
    write_from, write_len, write_handle,  \* the write being received
    allowWrite,    \* MainWindow::allowWrite
    fh,            \* the descriptor of the image: "none", "open", "closed"
    offset,        \* the file offset of fh
    image,         \* the content of the image
    dialog,        \* the modal box on the screen: "none", "info", "opening"
    client,        \* the NBD client on the BMC
    noZeroes,      \* the flag it sent on this connection
    reqs,          \* the requests it sent; a handle is an index of reqs
    inbound,       \* its byte stream, from the first byte not yet parsed
    cut,           \* how much of inbound is the message being handled
    wire,          \* everything the server sent
    options, sessions,  \* the counters of the bounds
    damaged,       \* ghost: the writes whose payload met a fault
    strayed        \* ghost: option data was parsed for an option here

write == <<write_from, write_len, write_handle>>
server == <<nego_state, glob_flags, write>>
device == <<fh, offset, image, damaged>>
asked == <<noZeroes, reqs, options>>
peer == <<client, asked>>
session == <<sessions, strayed>>
vars == <<link, server, allowWrite, device, dialog, peer, inbound, cut, wire,
          session>>
-----------------------------------------------------------------------------
(* What travels.  To the server: fields of the byte stream, none of which  *)
(* a message boundary divides.  To the client: replies.                    *)

Field(kind, id, n) == [kind |-> kind, id |-> id, n |-> n]
Fields == [kind : {"cflags", "magic", "opt", "optdata", "namesize", "name",
                   "req", "cell"},
           id : Nat, n : Nat]

OptionCode == [EXPORT_NAME |-> 1, ABORT |-> 2, UNKNOWN |-> 7]

Value == (Nat \X (Nat \cup {-1}))

Message(kind, id, vals) == [kind |-> kind, id |-> id, vals |-> vals]
Messages == [kind : {"greeting", "unsup", "export", "reply", "data"},
             id : Nat, vals : Seq(Value)]

ZeroPad == 124

(* WRITE_BINARY: what is written to a closed socket is lost; a closing one *)
(* still sends.                                                            *)
Send(msgs) == wire' = IF link = "down" THEN wire ELSE wire \o msgs

(* nbd_reply: the handle of the request, error always 0.                   *)
Reply(h) == Message("reply", h, << >>)

(* The client hears the answer that it expects in one of its states.  One  *)
(* that it does not expect misleads it.                                    *)
Heard(expected, next) ==
    client' = CASE client = expected -> next
                [] client = "off" -> "off"
                [] OTHER -> "misled"

(* The constructor leaves nego_state uninitialized.                        *)
Init ==
    /\ link = "down" /\ nego_state \in 0 .. 7 /\ glob_flags = FALSE
    /\ write_from = 0 /\ write_len = 0 /\ write_handle = 0
    /\ allowWrite = TRUE /\ fh = "none" /\ offset = 0
    /\ image = [c \in Cells |-> <<0, c>>]
    /\ dialog = "none" /\ client = "off" /\ noZeroes = 0 /\ reqs = << >>
    /\ inbound = << >> /\ cut = 0 /\ wire = << >>
    /\ options = 0 /\ sessions = 0 /\ damaged = {} /\ strayed = FALSE
-----------------------------------------------------------------------------
(* Connecting.                                                             *)

(* negotiate(): NBDMAGIC, IHAVEOPT and the small flags.                    *)
negotiate ==
    /\ Send(<<Message("greeting", 0, << >>)>>)
    /\ nego_state' = 1
    /\ client' = IF link = "down" THEN client ELSE "greeted"

(* onConnected, opendevice: the image opens as asked for.  The descriptor  *)
(* of an earlier session is overwritten.                                   *)
onConnected ==
    /\ link = "down" /\ cut = 0 /\ dialog = "none"
    /\ sessions < MaxSessions
    /\ link' = "up" /\ sessions' = sessions + 1 /\ strayed' = FALSE
    /\ fh' = "open" /\ offset' = FileCells
    /\ nego_state' = 1 /\ client' = "greeted"
    /\ wire' = wire \o <<Message("greeting", 0, << >>)>>
    /\ inbound' = << >>
    /\ UNCHANGED <<glob_flags, write, allowWrite, image, damaged, dialog,
                   asked, cut>>

(* opendevice: O_RDWR is refused, the image is opened read only, and a     *)
(* modal box says so before the negotiation starts.                        *)
onConnectedReadOnly ==
    /\ link = "down" /\ cut = 0 /\ dialog = "none"
    /\ sessions < MaxSessions
    /\ IOFaults /\ allowWrite
    /\ link' = "up" /\ sessions' = sessions + 1 /\ strayed' = FALSE
    /\ fh' = "open" /\ offset' = 0 /\ allowWrite' = FALSE
    /\ dialog' = "opening"
    /\ inbound' = << >>
    /\ UNCHANGED <<server, image, damaged, peer, cut, wire>>

(* opendevice fails: the connection stays up, nothing is negotiated.       *)
onConnectedNoDevice ==
    /\ link = "down" /\ cut = 0 /\ dialog = "none"
    /\ sessions < MaxSessions
    /\ IOFaults
    /\ link' = "up" /\ sessions' = sessions + 1 /\ strayed' = FALSE
    /\ fh' = "closed" /\ allowWrite' = FALSE
    /\ dialog' = IF allowWrite THEN "info" ELSE "none"
    /\ inbound' = << >>
    /\ UNCHANGED <<server, offset, image, damaged, peer, cut, wire>>

(* The user closes the modal box; a box of opendevice had kept the         *)
(* negotiation waiting.                                                    *)
CloseDialog ==
    /\ dialog # "none"
    /\ dialog' = "none"
    /\ \/ /\ dialog = "info"
          /\ UNCHANGED <<offset, nego_state, wire, client>>
       \/ /\ dialog = "opening"
          /\ offset' = FileCells
          /\ negotiate
    /\ UNCHANGED <<link, glob_flags, write, allowWrite, fh, image, damaged,
                   asked, inbound, cut, session>>

(* The connection ends, from either side.  The event loop notices between  *)
(* two messages, or while a modal box is open in the middle of one.        *)
LinkDown ==
    /\ link # "down"
    /\ cut = 0 \/ dialog # "none"
    /\ link' = "down" /\ client' = "off"
    /\ UNCHANGED <<server, allowWrite, device, dialog, asked, inbound, cut,
                   wire, session>>
-----------------------------------------------------------------------------
(* The client and the proxy on the BMC (external).                         *)

ClientFlags ==
    /\ client = "greeted"
    /\ client' = "choosing"
    /\ noZeroes' \in FlagMenu
    /\ inbound' = Append(inbound, Field("cflags", 0, noZeroes'))
    /\ UNCHANGED <<link, server, allowWrite, device, dialog, reqs, options,
                   cut, wire, session>>

(* EXPORT_NAME is followed by a name, any other option by its data.        *)
ClientOption(o) ==
    /\ client = "choosing" /\ options < MaxOptions
    /\ options' = options + 1
    /\ client' = CASE o.code = "ABORT" -> "off"
                   [] o.code = "EXPORT_NAME" -> "naming"
                   [] o.code = "UNKNOWN" -> "waiting"
    /\ inbound' =
          inbound
          \o <<Field("magic", 0, 0), Field("opt", OptionCode[o.code], o.parts)>>
          \o CASE o.code = "EXPORT_NAME" ->
                    <<Field("namesize", 0, o.parts)>>
                    \o [i \in 1 .. o.parts |-> Field("name", 0, i)]
               [] o.code = "UNKNOWN" ->
                    [i \in 1 .. o.parts |-> Field("optdata", 0, i)]
               [] o.code = "ABORT" -> << >>
    /\ UNCHANGED <<link, server, allowWrite, device, dialog, noZeroes, reqs,
                   cut, wire, session>>

Payload(h, len) == [i \in 1 .. len |-> Field("cell", h, i - 1)]

(* Requests are pipelined: the client does not wait for replies.           *)
ClientRequest(r) ==
    /\ client = "ready" /\ Len(reqs) < MaxRequests
    /\ reqs' = Append(reqs, r)
    /\ inbound' = Append(inbound, Field("req", Len(reqs) + 1, 0))
                  \o Payload(Len(reqs) + 1, IF r.cmd = "WRITE" THEN r.len ELSE 0)
    /\ client' = IF r.cmd = "DISC" THEN "off" ELSE client
    /\ UNCHANGED <<link, server, allowWrite, device, dialog, noZeroes, options,
                   cut, wire, session>>

(* Cuts that the server copes with: not inside a sector, not between an    *)
(* option and its data, not inside a name.                                 *)
TidyCut(n) ==
    /\ inbound[n].kind = "cell" => inbound[n].n % 2 = 1
    /\ n < Len(inbound) =>
          /\ inbound[n + 1].kind # "optdata"
          /\ inbound[n + 1].kind = "name" => inbound[n + 1].n = 1

(* The proxy turns the first n fields into a message.                      *)
Frame(n) ==
    /\ link = "up" /\ dialog = "none" /\ cut = 0
    /\ TidyFrames => TidyCut(n)
    /\ cut' = n
    /\ UNCHANGED <<link, server, allowWrite, device, dialog, peer, inbound,
                   wire, session>>
-----------------------------------------------------------------------------
(* onBinaryMessageReceived: one action per case of its switch.  The loop   *)
(* stands still while a modal box is open.                                 *)

Parsing(state) == nego_state = state /\ cut > 0 /\ dialog = "none"

(* read_len advances over k fields.                                        *)
Consume(k) ==
    /\ inbound' = SubSeq(inbound, k + 1, Len(inbound))
    /\ cut' = cut - k

(* A parser that is out of step reads across fields.                       *)
ConsumeSome == \E k \in 1 .. cut : Consume(k)

\* Mutant: glob_flags is not cleared for a new connection.
ParseFlagsKept ==
    /\ Parsing(1)
    /\ glob_flags' = (glob_flags \/ inbound[1].n = 1)
    /\ nego_state' = 2
    /\ Consume(1)
    /\ UNCHANGED <<link, write, allowWrite, device, dialog, peer, wire,
                   session>>

ParseFlags ==
    /\ Parsing(1)
    /\ glob_flags' = (inbound[1].n = 1)
    /\ nego_state' = 2
    /\ Consume(1)
    /\ UNCHANGED <<link, write, allowWrite, device, dialog, peer, wire,
                   session>>

(* Whatever the eight bytes are: the magic is not compared.                *)
ParseMagic ==
    /\ Parsing(2)
    /\ nego_state' = 3
    /\ \/ inbound[1].kind = "magic" /\ Consume(1)
       \/ inbound[1].kind # "magic" /\ ConsumeSome
    /\ UNCHANGED <<link, glob_flags, write, allowWrite, device, dialog, peer,
                   wire, session>>

ParseExportName ==
    /\ Parsing(3) /\ inbound[1].kind = "opt"
    /\ inbound[1].id = OptionCode["EXPORT_NAME"]
    /\ nego_state' = 4
    /\ Consume(1)
    /\ UNCHANGED <<link, glob_flags, write, allowWrite, device, dialog, peer,
                   wire, session>>

ParseAbort ==
    /\ Parsing(3) /\ inbound[1].kind = "opt"
    /\ inbound[1].id = OptionCode["ABORT"]
    /\ nego_state' = 0
    /\ link' = IF link = "up" THEN "closing" ELSE link
    /\ Consume(1)
    /\ UNCHANGED <<glob_flags, write, allowWrite, device, dialog, peer, wire,
                   session>>

\* Mutant: "greater" for "not less" in the test for the option's data.
ParseUnknownOptionStrict ==
    /\ Parsing(3) /\ inbound[1].kind = "opt"
    /\ inbound[1].id = OptionCode["UNKNOWN"]
    /\ inbound[1].n < cut - 1
    /\ Send(<<Message("unsup", 0, << >>)>>)
    /\ Heard("waiting", "choosing")
    /\ nego_state' = 2
    /\ Consume(1 + inbound[1].n)
    /\ UNCHANGED <<link, glob_flags, write, allowWrite, device, dialog, asked,
                   session>>

(* Another option, with all its data in the message: answered and skipped. *)
ParseUnknownOption ==
    /\ Parsing(3) /\ inbound[1].kind = "opt"
    /\ inbound[1].id = OptionCode["UNKNOWN"]
    /\ inbound[1].n <= cut - 1
    /\ Send(<<Message("unsup", 0, << >>)>>)
    /\ Heard("waiting", "choosing")
    /\ nego_state' = 2
    /\ Consume(1 + inbound[1].n)
    /\ UNCHANGED <<link, glob_flags, write, allowWrite, device, dialog, asked,
                   session>>

(* Its data is not all there: a "TODO" box, and the parser goes on in      *)
(* state 3 with whatever comes next.                                       *)
ParseShortOption ==
    /\ Parsing(3) /\ inbound[1].kind = "opt"
    /\ inbound[1].id = OptionCode["UNKNOWN"]
    /\ inbound[1].n > cut - 1
    /\ dialog' = "info"
    /\ Consume(1)
    /\ UNCHANGED <<link, server, allowWrite, device, peer, wire, session>>

(* Option data, or what follows it, taken for an option code and its      *)
(* length: an EXPORT_NAME if it reads as 1, an abort if it reads as 2, and *)
(* else what reads as the length decides.  The magic of an option reads as *)
(* neither 1 nor 2.                                                        *)
ParseStrayData ==
    /\ Parsing(3) /\ inbound[1].kind # "opt"
    /\ strayed' = TRUE
    /\ \/ /\ inbound[1].kind # "magic"
          /\ nego_state' = 4
          /\ UNCHANGED <<link, wire, client, dialog>>
       \/ /\ inbound[1].kind # "magic"
          /\ nego_state' = 0
          /\ link' = IF link = "up" THEN "closing" ELSE link
          /\ UNCHANGED <<wire, client, dialog>>
       \/ /\ Send(<<Message("unsup", 0, << >>)>>)
          /\ Heard("waiting", "choosing")
          /\ nego_state' = 2
          /\ UNCHANGED <<link, dialog>>
       \/ /\ dialog' = "info"
          /\ UNCHANGED <<link, wire, client, nego_state>>
    /\ ConsumeSome
    /\ UNCHANGED <<glob_flags, write, allowWrite, device, asked, sessions>>

(* The size of the export, its flags, and the padding unless the client    *)
(* asked to leave it out.                                                  *)
SendExport ==
    /\ Send(<<Message("export", IF glob_flags THEN 0 ELSE ZeroPad, << >>)>>)
    /\ Heard("naming", "ready")
    /\ nego_state' = 6

TakeNameSize == \/ inbound[1].kind = "namesize" /\ Consume(1)
                \/ inbound[1].kind # "namesize" /\ ConsumeSome

(* What a parser out of step reads there may be zero or not.               *)
ParseNameSize ==
    /\ Parsing(4)
    /\ \/ /\ inbound[1].kind = "namesize" => inbound[1].n > 0
          /\ nego_state' = 5
          /\ UNCHANGED <<wire, client>>
       \/ /\ inbound[1].kind = "namesize" => inbound[1].n = 0
          /\ SendExport
    /\ TakeNameSize
    /\ UNCHANGED <<link, glob_flags, write, allowWrite, device, dialog, asked,
                   session>>

(* A size that the client sent was not converted to host order, so it      *)
(* always reads as 128 or more: 127 bytes are skipped, which is all that   *)
(* the message holds.                                                      *)
TakeName == IF strayed THEN ConsumeSome ELSE Consume(cut)

ParseName ==
    /\ Parsing(5)
    /\ SendExport
    /\ TakeName
    /\ UNCHANGED <<link, glob_flags, write, allowWrite, device, dialog, asked,
                   session>>

(* Any other state: the message is dropped.                                *)
DropMessage ==
    /\ Parsing(0)
    /\ Consume(cut)
    /\ UNCHANGED <<link, server, allowWrite, device, dialog, peer, wire,
                   session>>
-----------------------------------------------------------------------------
(* State 6: handle_request.                                                *)

Request == reqs[inbound[1].id]

(* The request a write is being received for.                              *)
Pending == reqs[write_handle]

ParsingRequest(cmd) ==
    /\ Parsing(6) /\ inbound[1].kind = "req"
    /\ Request.cmd = cmd

\* Mutants: the overflow is not looked for; only the start has to be in the
\* export; the last cell counts as out of range.
BadLengthNoOverflow(r) ==
    r.len > MaxCells \/ r.len = 0 \/ r.len % 2 # 0
       \/ (r.from + r.len) % Wrap > FileCells
BadLengthStartOnly(r) ==
    r.len > MaxCells \/ r.len = 0 \/ r.len % 2 # 0 \/ r.from > FileCells
BadLengthLastCell(r) ==
    r.len > MaxCells \/ r.len = 0 \/ r.len % 2 # 0
       \/ r.from + r.len >= FileCells

(* check_length, with its 64-bit sum; a cell is half a sector.             *)
BadLength(r) ==
    LET end == (r.from + r.len) % Wrap
    IN  \/ end < r.from
        \/ r.len > MaxCells
        \/ r.len = 0
        \/ r.len % 2 # 0
        \/ end > FileCells

(* No reply, only a modal box; a payload that follows is not skipped.      *)
RejectRange ==
    /\ Parsing(6) /\ inbound[1].kind = "req"
    /\ Request.cmd # "DISC" /\ BadLength(Request)
    /\ dialog' = "info"
    /\ Consume(1)
    /\ UNCHANGED <<link, server, allowWrite, device, peer, wire, session>>

\* Mutant: no lseek to the start of the write.
BeginWriteNoSeek ==
    /\ ParsingRequest("WRITE") /\ ~BadLength(Request)
    /\ write_handle' = inbound[1].id
    /\ write_from' = Request.from
    /\ write_len' = Request.len
    /\ nego_state' = 7
    /\ Consume(1)
    /\ UNCHANGED <<link, glob_flags, allowWrite, device, dialog, peer, wire,
                   session>>

BeginWrite ==
    /\ ParsingRequest("WRITE") /\ ~BadLength(Request)
    /\ write_handle' = inbound[1].id
    /\ write_from' = Request.from
    /\ write_len' = Request.len
    /\ offset' = Request.from
    /\ nego_state' = 7
    /\ Consume(1)
    /\ UNCHANGED <<link, glob_flags, allowWrite, fh, image, damaged, dialog,
                   peer, wire, session>>

(* handle_read, for n of the cells asked for.  Every block is read at      *)
(* "from", which the loop never advances.                                  *)
ReadData(r, n) == [i \in 1 .. n |-> image[r.from + ((i - 1) % ReadCells)]]

(* The reply leaves before the first read.                                 *)
HandleRead ==
    /\ ParsingRequest("READ") /\ ~BadLength(Request)
    /\ fh = "open"
    /\ Send(<<Reply(inbound[1].id),
              Message("data", inbound[1].id, ReadData(Request, Request.len))>>)
    /\ offset' = Request.from + ((Request.len - 1) % ReadCells) + 1
    /\ Consume(1)
    /\ UNCHANGED <<link, server, allowWrite, fh, image, damaged, dialog, peer,
                   session>>

(* A block cannot be read: the blocks before it were sent, nothing follows.*)
HandleReadFails ==
    /\ ParsingRequest("READ") /\ ~BadLength(Request)
    /\ IOFaults \/ fh # "open"
    /\ \E n \in 0 .. Request.len - 1 :
          /\ n % ReadCells = 0
          /\ fh # "open" => n = 0
          /\ Send(<<Reply(inbound[1].id),
                    Message("data", inbound[1].id, ReadData(Request, n))>>)
    /\ offset' = Request.from
    /\ Consume(1)
    /\ UNCHANGED <<link, server, allowWrite, fh, image, damaged, dialog, peer,
                   session>>

(* The descriptor is closed, fh keeps its number.                          *)
HandleDisc ==
    /\ ParsingRequest("DISC")
    /\ link' = IF link = "up" THEN "closing" ELSE link
    /\ fh' = "closed"
    /\ dialog' = "info"
    /\ Consume(1)
    /\ UNCHANGED <<server, allowWrite, offset, image, damaged, peer, wire,
                   session>>

(* Any other command: no reply.                                            *)
IgnoreCommand ==
    /\ ParsingRequest("TRIM") /\ ~BadLength(Request)
    /\ Consume(1)
    /\ UNCHANGED <<link, server, allowWrite, device, dialog, peer, wire,
                   session>>

(* 28-byte windows over bytes that are no request: each fails the magic    *)
(* test with a modal box, and the windows meet the start of a later        *)
(* request of the message only after a multiple of 28 bytes, which is      *)
(* seven cells.  Names and option data have any size, and may end there.   *)
(* The boxes are shown as one.                                             *)
Sized(j) == \A i \in 1 .. j : inbound[i].kind \in {"cell", "req"}
EndsGarbage(j) ==
    \/ j = cut
    \/ /\ j < cut /\ inbound[j + 1].kind = "req"
       /\ Sized(j) => Cardinality({i \in 1 .. j : inbound[i].kind = "cell"}) % 7 = 0

RejectGarbage ==
    /\ Parsing(6) /\ inbound[1].kind # "req"
    /\ \E j \in 1 .. cut :
          /\ EndsGarbage(j)
          /\ \A i \in 1 .. j - 1 : Sized(i) => ~EndsGarbage(i)
          /\ Consume(j)
    /\ dialog' = "info"
    /\ UNCHANGED <<link, server, allowWrite, device, peer, wire, session>>
-----------------------------------------------------------------------------
(* State 7: handle_write, called with what the message holds of the        *)
(* payload.                                                                *)

\* Mutant: not limited to the rest of the write.
PassAll == cut

pass_write == IF cut < write_len THEN cut ELSE write_len

(* The buffer on the stack: the payload, then zeros.                       *)
Buffer == [j \in 0 .. 2 * MaxCells |->
             IF j < pass_write THEN <<inbound[j + 1].id, inbound[j + 1].n>>
                               ELSE <<write_handle, -1>>]

(* What the two calls of write(2) store, one after the other: the whole    *)
(* sectors, then the rest, moved to the front of the buffer but written    *)
(* with nb, the size of the first write.  Without a whole sector nb is not *)
(* initialized, and any count is written.                                  *)
Counts == IF pass_write = 1 THEN 0 .. MaxCells
          ELSE IF pass_write % 2 = 0 THEN {pass_write}
          ELSE {2 * (pass_write - 1)}

Output ==
    LET nb   == pass_write - 1
        rest == [Buffer EXCEPT ![0] = Buffer[nb]]
    IN  [j \in 0 .. 2 * MaxCells |->
           IF pass_write % 2 = 1 /\ nb > 0 /\ j >= nb
             THEN rest[j - nb]
             ELSE Buffer[j]]

\* Mutant: every message is stored at the start of the write.
StoredAtStart(n) ==
    [c \in Cells |-> IF write_from <= c /\ c < write_from + n
                     THEN Output[c - write_from] ELSE image[c]]

(* The image after n cells of it were stored at the file offset.           *)
Stored(n) ==
    [c \in Cells |-> IF offset <= c /\ c < offset + n THEN Output[c - offset]
                                                      ELSE image[c]]

\* Mutant: the reply goes out with the first message of the payload.
ReceivedEarly ==
    /\ write_len' = write_len - pass_write
    /\ \/ /\ write_len = Pending.len
          /\ Send(<<Reply(write_handle)>>)
       \/ /\ write_len # Pending.len
          /\ UNCHANGED wire
    /\ nego_state' = IF pass_write = write_len THEN 6 ELSE 7
    /\ Consume(pass_write)

(* The end of handle_write: the reply goes out with the last byte.         *)
Received ==
    /\ write_len' = write_len - pass_write
    /\ \/ /\ pass_write = write_len
          /\ Send(<<Reply(write_handle)>>)
          /\ nego_state' = 6
       \/ /\ pass_write # write_len
          /\ UNCHANGED <<wire, nego_state>>
    /\ Consume(pass_write)

Damage(cause) == damaged' = damaged \cup {<<write_handle, cause>>}

(* A read-only image: the payload is dropped, the write acknowledged.      *)
DropPayload ==
    /\ Parsing(7) /\ ~allowWrite
    /\ Received
    /\ Damage("dropped")
    /\ UNCHANGED <<link, glob_flags, write_from, write_handle, allowWrite, fh,
                   offset, image, dialog, peer, session>>

WritePayload ==
    /\ Parsing(7) /\ allowWrite /\ fh = "open"
    /\ \E n \in Counts : image' = Stored(n) /\ offset' = offset + n
    /\ Received
    /\ IF pass_write % 2 = 0 THEN UNCHANGED damaged ELSE Damage("shifted")
    /\ UNCHANGED <<link, glob_flags, write_from, write_handle, allowWrite, fh,
                   dialog, peer, session>>

\* Mutant: after the reply the rest of the payload is still received.
WriteFailsGoesOn ==
    /\ Parsing(7) /\ allowWrite /\ IOFaults
    /\ UNCHANGED <<image, offset>>
    /\ Send(<<Reply(write_handle)>>)
    /\ write_len' = write_len - pass_write
    /\ nego_state' = IF pass_write = write_len THEN 6 ELSE 7
    /\ Consume(pass_write)
    /\ Damage("failed")
    /\ UNCHANGED <<link, glob_flags, write_from, write_handle, allowWrite, fh,
                   dialog, peer, session>>

(* write(2) stores less than asked for; an uninitialized count needs no    *)
(* fault for that.  The write is answered at once, as a success, and the   *)
(* parser expects a request although payload may be left.                  *)
WriteFails ==
    /\ Parsing(7) /\ allowWrite
    /\ IOFaults \/ fh # "open" \/ pass_write = 1
    /\ \E n \in Counts : \E w \in 0 .. n :
          /\ w = 0 \/ (w < n /\ fh = "open")
          /\ image' = Stored(w) /\ offset' = offset + w
    /\ Send(<<Reply(write_handle)>>)
    /\ nego_state' = 6
    /\ Consume(pass_write)
    /\ Damage("failed")
    /\ UNCHANGED <<link, glob_flags, write, allowWrite, fh, dialog, peer,
                   session>>
-----------------------------------------------------------------------------
Connect == onConnected \/ onConnectedReadOnly \/ onConnectedNoDevice

Client ==
    \/ ClientFlags
    \/ \E o \in OptionMenu : ClientOption(o)
    \/ \E r \in RequestMenu : ClientRequest(r)

Proxy == \E n \in 1 .. Len(inbound) : Frame(n)

Negotiate ==
    \/ ParseFlags \/ ParseMagic \/ ParseExportName \/ ParseAbort
    \/ ParseUnknownOption \/ ParseShortOption \/ ParseStrayData
    \/ ParseNameSize \/ ParseName \/ DropMessage

Transmit ==
    \/ RejectRange \/ BeginWrite \/ HandleRead \/ HandleReadFails
    \/ HandleDisc \/ IgnoreCommand \/ RejectGarbage

ReceivePayload ==
    \/ DropPayload \/ WritePayload \/ WriteFails

onBinaryMessageReceived == Negotiate \/ Transmit \/ ReceivePayload

Next == Connect \/ CloseDialog \/ LinkDown \/ Client \/ Proxy
        \/ onBinaryMessageReceived

Spec == Init /\ [][Next]_vars

(* The event loop runs every handler to its end, the proxy forwards what   *)
(* it holds, and the user closes the boxes.  Nothing makes the user        *)
(* connect, the client send or the connection fail.                        *)
Fairness ==
    /\ WF_vars(onBinaryMessageReceived)
    /\ WF_vars(Proxy)
    /\ WF_vars(CloseDialog)

FairSpec == Spec /\ Fairness
-----------------------------------------------------------------------------
(* Properties.                                                             *)

IsReply(m) == m.kind = "reply"
Replied == {wire[i].id : i \in {j \in 1 .. Len(wire) : IsReply(wire[j])}}

(* A 7 that a lost connection left behind is followed by no bytes.         *)
Receiving == nego_state = 7 /\ inbound # << >>

TypeOK ==
    /\ link \in {"down", "up", "closing"}
    /\ nego_state \in 0 .. 7
    /\ glob_flags \in BOOLEAN
    /\ write_from \in Nat /\ write_len \in Nat /\ write_handle \in Nat
    /\ allowWrite \in BOOLEAN
    /\ fh \in {"none", "open", "closed"}
    /\ offset \in Nat
    /\ image \in [Cells -> Value]
    /\ dialog \in {"none", "info", "opening"}
    /\ client \in {"off", "greeted", "choosing", "waiting", "naming",
                  "misled", "ready"}
    /\ noZeroes \in {0, 1}
    /\ reqs \in Seq(Requests)
    /\ inbound \in Seq(Fields)
    /\ cut \in 0 .. Len(inbound)
    /\ wire \in Seq(Messages)
    /\ options \in Nat /\ sessions \in Nat /\ strayed \in BOOLEAN
    /\ damaged \subseteq (Nat \X {"dropped", "shifted", "failed"})

(* While state 7 receives payload there is something left to receive (or   *)
(* the loop of onBinaryMessageReceived would spin for ever on an empty     *)
(* write), the write is one the export can hold although "from" plus "len" *)
(* is computed modulo 2^64, and the byte stream stands exactly at the next *)
(* cell of this very write: no byte of it was lost, parsed as a request or *)
(* taken from another write.                                               *)
PayloadInSync ==
    Receiving =>
        /\ write_handle \in 1 .. Len(reqs)
        /\ Pending.cmd = "WRITE" /\ Pending.from = write_from
        /\ write_len \in 1 .. Pending.len
        /\ write_from + Pending.len <= FileCells
        /\ write_len <= Len(inbound)
        /\ \A i \in 1 .. write_len :
              inbound[i] = Field("cell", write_handle,
                                 Pending.len - write_len + i - 1)

(* The client matches answers by handle alone, so no request is answered   *)
(* twice, and the server, which finishes one request before it parses the  *)
(* next, answers in the order of the requests, over all connections and    *)
(* whatever was rejected or failed in between.                             *)
RepliesInOrder ==
    \A i, j \in 1 .. Len(wire) :
        i < j /\ IsReply(wire[i]) /\ IsReply(wire[j]) => wire[i].id < wire[j].id

Intact(h) == \A cause \in {"dropped", "shifted", "failed"} :
                <<h, cause>> \notin damaged

(* A write that was acknowledged, and whose payload met no fault, is on    *)
(* the image cell by cell, except where a later write stored something:    *)
(* however its payload was cut into messages, whatever requests were       *)
(* rejected, failed or were misparsed around it, and after reconnecting.   *)
AckedWriteStored ==
    \A h \in Replied :
        reqs[h].cmd = "WRITE" /\ Intact(h) =>
            \A i \in 0 .. reqs[h].len - 1 :
                \/ image[reqs[h].from + i] = <<h, i>>
                \/ image[reqs[h].from + i][1] > h

(* An intact write, acknowledged, in progress or cut off by the end of the *)
(* connection, touches no cell outside of its range and puts no cell of    *)
(* its payload at a wrong place.                                           *)
NoStrayWrite ==
    \A c \in Cells :
        LET w == image[c][1]
            i == image[c][2]
        IN  w # 0 /\ Intact(w) =>
                /\ i \in 0 .. reqs[w].len - 1
                /\ c = reqs[w].from + i

(* Client and server agree on where they are.  An answer reaches only a    *)
(* client that waits for this kind of answer, so that no side enters the   *)
(* transmission without the other, unless the parser took option data for  *)
(* an option: data that comes in a later message than its option may be    *)
(* answered twice, or with the export, while the client negotiates.  And   *)
(* whatever was misparsed on the way, a client that has its export finds   *)
(* the server past the negotiation, and the export carried the padding     *)
(* that the flags of this connection ask for, not those of an earlier one. *)
SamePhase ==
    /\ client = "misled" => strayed
    /\ client = "ready" =>
        /\ nego_state \in {6, 7}
        /\ \E i \in 1 .. Len(wire) :
              /\ wire[i] = Message("export", IF noZeroes = 1 THEN 0 ELSE ZeroPad,
                                   << >>)
              /\ \A j \in i + 1 .. Len(wire) :
                    wire[j].kind \notin {"greeting", "unsup", "export"}

(* nbdprotocol.h: a reply is sent after the request is completed or failed *)
(* and its error field tells which.  As every reply says 0, a write whose  *)
(* data did not reach the image may never be answered.                     *)
AckMeansCompleted ==
    \A h \in Replied : reqs[h].cmd = "WRITE" => Intact(h)

(* nbdprotocol.h, for reads: the data that follows a reply with error 0 is *)
(* that of the range asked for.                                            *)
ReadRepliesAreTrue ==
    \A i \in 1 .. Len(wire) :
        wire[i].kind = "data" =>
            LET r == reqs[wire[i].id]
            IN  /\ Len(wire[i].vals) = r.len
                /\ \A j \in 1 .. r.len :
                      wire[i].vals[j] = <<0, r.from + j - 1>>
                         \/ wire[i].vals[j][1] > 0

(* The answers of BlockExport: the data of a read, the reply to a write.   *)
IsAnswer(m) == \/ m.kind = "data"
               \/ m.kind = "reply" /\ reqs[m.id].cmd = "WRITE"
Answers == {[id |-> wire[i].id, vals |-> wire[i].vals] :
               i \in {j \in 1 .. Len(wire) : IsAnswer(wire[j])}}

Block == INSTANCE BlockExport
           WITH requests <- reqs, store <- image, answers <- Answers,
                Menu <- RequestMenu

(* What that takes: a device that does not fail, a proxy that does not     *)
(* divide sectors, and reads that fit into one block.                      *)
BlockConditions ==
    /\ ~IOFaults /\ TidyFrames
    /\ \A r \in RequestMenu : r.cmd = "READ" => r.len <= ReadCells

(* Under BlockConditions the server is a block device: a read is answered  *)
(* with its own range as the image holds it, a write is answered when its  *)
(* whole payload is on the image, nothing else changes the image, and the  *)
(* answers are in the order of the requests.  All the parsing, splitting   *)
(* and seeking, what is rejected and what is taken for garbage, implement  *)
(* that, over any number of connections.                                   *)
IsBlockDevice == Block!Spec

(* Under these conditions, and with requests within the export, every read *)
(* and write is answered, unless the connection ends, although the proxy   *)
(* may cut a payload into many messages and requests are pipelined behind  *)
(* it.                                                                     *)
EveryRequestAnswered ==
    \A h \in 1 .. MaxRequests :
        (h <= Len(reqs) /\ reqs[h].cmd \in {"READ", "WRITE"})
            ~> (h \in Replied \/ link = "down")

(* And every option gets its answer, so that the negotiation never stands  *)
(* still with the client waiting.                                          *)
Awaiting == client \in {"waiting", "naming"}
EveryOptionAnswered == Awaiting ~> ~Awaiting
=============================================================================
