# Verification of openbmc-util

openbmc-util is Nuvoton's collection of host side tools for BMCs: a virtual
media client that serves a disk to the BMC over NBD in a WebSocket, an SVF
player for the BMC's JTAG master, a tool that hands a file to the BMC through a
shared memory mailbox, a client for a JTAG debug server, and a few tests. This
directory holds TLA+ models of that code, the TLC configurations that check
them on small instances, and theorems with proofs for TLAPS.

## 1. Inventory

| Component | State it keeps | Operations | Interacts with |
|---|---|---|---|
| NBD server, Linux (`virtual_media/NBDServerWSLinux/{websocket-client,nbd-server-ws}.cpp`) | `nego_state`, `glob_flags`, `write_from/len/handle`, `allowWrite`, `fh` and its file offset | `onConnected`, `opendevice`, `negotiate`, `onBinaryMessageReceived`, `handle_request/read/write` | the WebSocket library by signals (`frameReceived`, `connected`, `disconnected`) and `write`; the image by `read/write/lseek` |
| Main window, Linux (`mainwindow.cpp`) | buttons, `login_get_sid`, `connected_to_wss`, `SID`, `connection_flag`; the lists of devices and of BMCs | Start, Stop, Exit, Mount, Unmount, search for BMCs, the watcher of `/dev` | shares the descriptor, `allowWrite` and the socket with the NBD server; logs in over its own SSL socket |
| WebSocket library (`virtual_media/QtWebsocket`) | connection state, `closingHandshakeSent/Received`, parser state, `currentFrame`, `currentData` | `connectToHost`, `close`, `abort`, `processHandshake`, `processDataV4`, `composeFrames`, `handleControlFrame` | a TCP or TLS socket below, the programs above |
| WebSocket server (`QWsServer.cpp`, `QTlsServer.cpp`) | sockets in the handshake, the queue of pending connections | `newTcpConnection`, `dataReceived`, `addPendingConnection`, `nextPendingConnection` | as above |
| NBD server and main window, Windows | as on Linux, and the volume lock, the lists of drives and of export types | as on Linux; `handle_lockio`, `nativeEvent`, `checkDriveType` | as on Linux; volume control and device messages of Windows |
| `virtual_media_openbmc2.6` | as above | a copy, in which the login of the Windows program differs | as above |
| SVF player (`loadsvf/src/svf.c`) | `svf_para` (the parameters of the last scan of each kind), the buffers and `svf_buffer_index`, the list of pending comparisons, `loop` and `file_offset` | one per SVF command | the JTAG scan layer |
| JTAG scan layer (`loadsvf/src/{jtag,main}.c`) | the driver's descriptor, the current TAP state | `JTAG_set_tap_state`, `JTAG_dr_scan`, `JTAG_ir_scan`, `JTAG_wait_cycles` | the driver by `ioctl` |
| Mailbox transfer (`xfer_mbox_mem/tools`) | file, mapped memory, IPMI descriptor and sequence number | `sendContents`, `sendFile`, `updaterMain`, `sendPacket` | `/dev/mem`, PCI, IPMI |
| Mailbox cleanup (`xfer_mbox_mem/cleanup`) | five files | remove them | IPMI handler on the BMC |
| ARM debug client (`jtag_socket_client_arm`) | registers saved at halt, the halted flag | `halt`, `go`, `regs`, `mem32`, breakpoints | the JTAG server by one request and one `recv` at a time |
| VDM tests (`vdm-test`: `main.cpp`, `vdm_per_test.c`, `vdm_test.c`) | what was sent and received, the bytes of `--data`, timeout | measure writing, print what is read, take packets apart | the VDM driver by `read`, `write`, `poll`, `ioctl` |
| Other tests, configuration (`espitest`, `ldap_server`, `bios`) | - | - | device files |

About 7 000 of the repository's 20 053 lines are the second copy of the virtual
media programs, `virtual_media_openbmc2.6`. It is the first one but for a path, for
logging and for the condition of one login, so that a model of the one is a model
of the other; where they differ, MediaSession has both (`Builds`).

What is hard in it:

- **NBD server.** The client's byte stream arrives in WebSocket messages whose
  boundaries the BMC's proxy chooses; each is parsed by a call of its own, with
  the state carried over in members. Requests are pipelined. The range check
  works modulo 2^64. `write(2)` may fail half way through a payload. Modal boxes
  run a nested event loop inside the handlers. Members outlive the connection.
  Correct means: the parser never loses its place in a payload, replies are
  given once and in order, and the image holds exactly the acknowledged writes.
- **Main window.** Start, Stop and Exit in any order around a login and a
  connection that end when they like; signals connected twice, a descriptor
  closed twice. Correct means: one open descriptor per session, each message
  handled once, Start possible whenever no session runs.
- **WebSocket library.** Opening and closing handshake against the states of
  the TCP socket; messages cut into frames and put together again from
  arbitrary segments. Correct means: a channel of whole messages in order, one
  `disconnected` for each `connected`, nothing carried over to the next
  connection.
- **SVF player.** Parameters that persist from scan to scan with rules about
  lengths and masks, comparisons deferred to later commands, loops over the
  file. Correct means: every TDO given is compared under the mask of its own
  command, and a mismatch that no loop repeats is reported in the log. (The run
  itself fails only if a later command finds the mismatch; what the comparison at
  the end of the file finds is logged and the exit code is 0.)
- **Mailbox transfer.** Partial reads, failing writes. Correct means: success is
  reported only if the whole file was handed over.
- **ARM debug client.** Answers divided or delayed, commands that borrow registers.
  Correct means: the program goes on with the registers with which it stopped.
- **The window before a session.** Drives come and go while the list is shown, a
  search goes over a range of addresses. Correct means: what is listed is there,
  the drive that was chosen is the one exported, no address is left out.
- **VDM tests.** Failing writes, packets that come in word by word. Correct means:
  what is reported was measured.

`PROJECT.json` lists the hazards line by line, with the properties that cover
them.

## 2. Plan

1. **NbdExport**, with the abstract specification **BlockExport** and the proofs
   **NbdExportProofs** and **NbdBlockProofs**: the core of the repository. *Done.*
2. **MediaSession**: the main window's buttons, the login over SSL, how often the
   slots are connected, the life of the descriptor, for the three programs. *Done*,
   with **MediaSessionProofs**.
3. **WsSocket**: the client's WebSocket, opening and closing handshake over TLS,
   cutting and reassembling messages, with the abstract specification
   **MessageChannel** and the proofs **WsSocketProofs**. *Done.* **WsServer**: *done*,
   with **WsServerProofs**.
4. **SvfPlayer**, with the scan layer inside: what the layer does with a scan depends
   on nothing but the scan. *Done*, with **SvfPlayerProofs**.
5. **NbdWindows** over NbdExport: the server of Windows, step by step beside the
   one of Linux. *Done*, with **NbdWindowsProofs**.
6. **MailboxTransfer**, **ArmDebugClient**, **VdmTests**, **BmcSearch** and
   **ExportWindow**, five small programs or windows that one run checks side by
   side. *Done*, with **HostToolsProofs**.

Every safety property of the runs that pass is proved for all values of the
constants, and so are the two refinements: NbdExport implements BlockExport, and
WsSocket implements MessageChannel, the channel that NbdExport takes for granted, on
connections whose parser is not misled (section 5).
Left is liveness, which only TLC checks (section 9).

## 3. NbdExport and NbdWindows

### What stands for what

One cell is 256 bytes, half a sector, so that a message boundary inside a sector
can be expressed. A value `<<w, i>>` names cell `i` of the payload of write `w`;
so the image always shows which write stored what.

| Model | Code |
|---|---|
| `link` | the WebSocket; `closing` after `disconnectFromHost`, when what was written is still sent |
| `nego_state`, `glob_flags`, `write_from`, `write_len`, `write_handle`, `allowWrite`, `fh` | the members of `MainWindow` of the same names; `nego_state` starts with any value, as the constructor does not set it |
| `offset`, `image` | the file offset of `fh` and the content of the file or device |
| `dialog` | the modal box on the screen |
| `inbound`, `cut` | the client's bytes that are not parsed yet, as a sequence of protocol fields, and how many of them belong to the message being handled (`got_len - read_len`) |
| `wire` | everything that `WRITE_BINARY` sent |
| `client`, `noZeroes`, `reqs` | the NBD client on the BMC; `naming` and `waiting` for the answer to an option, `misled` by an answer that it did not wait for |
| `damaged` | ghost: which writes met a fault (dropped, failed, shifted) |
| `strayed` | ghost: on this connection option data was parsed for an option |

`onConnected`, `onConnectedReadOnly`, `onConnectedNoDevice` are the slot of that
name with the outcomes of `opendevice`. `Frame` delivers a message of any size.
`onBinaryMessageReceived` has one action for each case of the `switch`; a step is
one turn of its loop, so that the code is followed also where a modal box opens
between two turns. `RejectRange` ... `IgnoreCommand` are the branches of
`handle_request`, `HandleRead` and `HandleReadFails` are `handle_read`,
`DropPayload`, `WritePayload` and `WriteFails` are the ways through `handle_write`.
`BadLength` is `check_length` with its sum modulo `Wrap` = 2^64. `ParseStrayData`
is state 3 over bytes that are no option: they may read as `NBD_OPT_EXPORT_NAME`,
as `NBD_OPT_ABORT`, or as an option that is skipped or not, and from then on the
parser takes any number of fields at a time (`ConsumeSome`), as nothing tells where
it stands in them.

Kept although it looks odd, because the code does it: the second `write(2)` of a
chunk uses the `nb` of the first, or an uninitialized one; the name size is
not converted to host order, so that a name always eats the rest of its message;
a rejected request gets no reply and its payload is parsed as requests; option
data that comes in a later message is parsed as an option, even as the one that
brings the export while the client negotiates; reads seek to the
start for every block; the reply to a failed write says 0.

### Runs

Two connections and two or three requests suffice for one request to disturb the
next and for one connection to disturb the next, which is all the state that the
members carry; images of four or six cells have room for two overlapping writes,
a write of several sectors, a cut inside a sector and a read of two blocks.
`Wrap` is chosen so that `from + len` can wrap into the image. Bounds:
`MaxRequests`, `MaxOptions`, `MaxSessions`; the other constants size the data.
Deadlock is not checked, as the client stops when its bounds are reached.

| Run | Question | Instance | Distinct states |
|---|---|---|---|
| `nbd_engine` | Does the engine keep its place and the image its content, whatever cut, fault, rejected request or reconnect comes in between? (`PayloadInSync`, `RepliesInOrder`, `AckedWriteStored`, `NoStrayWrite`) | 2 connections, 2 requests of 8 kinds, 2 options, one of them unknown, all cuts, all faults | 5.0 million |
| `nbd_negotiate` | Do client and server agree on the phase unless option data was parsed for an option, and is what Windows acknowledges stored? (`SamePhase`, `NoErrorMeansStored`) | both programs, 2 connections, 2 requests of 6 kinds, 2 options of 4 kinds, both flags, all cuts | 2.8 million |
| `nbd_block` | Is it a block device, and does it answer? (`IsBlockDevice`, `EveryRequestAnswered`, `EveryOptionAnswered`) | 1 connection, 3 good requests, tidy cuts, no faults | 6.8 thousand |
| `nbd_ack` | Is a write only acknowledged when it was stored? It is not. | 1 request | violation |
| `nbd_long_read` | Does a read return the data of its range? Not if longer than 128 KiB. | 1 request | violation |

`SamePhase` says of every connection that a client which has its export finds the
server in transmission, with the padding of its own flags; and that an answer
reaches only a client that waits for it, unless `strayed`. The exception is the
code's: with two fields of option data in a later message TLC finds the export, or a
second answer, at a client that goes on negotiating (`misled`). What such a client
does then is not modelled.

`BlockExport` knows the requests that were asked, the store and the answers. Each
answer is to a request within the export that none as late was answered before;
`Read` returns what the range of its request holds at that moment, `Write` puts any
part of the payload of its request to its place, and `FinishWrite`, which answers,
all of it. Nothing else changes the store.

`nbd_block` assumes what a kernel NBD client and a proxy that forwards its
socket reads in whole sectors give: cuts at sector boundaries, an option together
with its data, requests in range and reads no larger than the read buffer, and a
device that does not fail. `IsBlockDevice` needs of these `BlockConditions` only,
which say nothing of ranges, and is proved from them for any number of
connections (section 9); that everything is answered needs good requests too,
and one connection, as the answer to a request is lost with its connection.
Without those conditions the server is not a block device; the other runs and
`NbdExportProofs` do without them and say what still holds.

### NbdWindows

The program for Windows has the same engine with other calls below it. The module
EXTENDS NbdExport, keeps its variables and replaces the actions that differ;
`build` says which program runs, so that one run compares both.

| Model | Code |
|---|---|
| `WinConnected`, `WinConnectedNoDevice` | `opendevice` of Windows: there is no second attempt for reading only |
| `WinNegotiate` | the phases with `handle_lockio` before the export is confirmed: a lock that fails after its 70 attempts leaves the export read only; `handle_unlockio` calls nothing |
| `WinHandleRead`, `WinHandleReadFails`, `WinHandleReadShort`, `WinReadOverruns` | `handle_read`: an error is answered; a short `ReadFile` is answered without an error, with what the buffer held before; a read longer than `rbuffer` writes beyond it, which the model takes for the end of the program |
| `WinWritePayload`, `WinWriteFails` | `handle_write`: whole sectors, then the tail; a failure is answered at once with an error, and what is left of the payload is parsed as requests |

`NoErrorMeansStored` is what `AckMeansCompleted` asks of Linux, where it fails.

### Fairness

`FairSpec` has weak fairness on the parser (Qt's event loop runs a handler to its
end), on the proxy (it forwards what it holds) and on closing a modal box (a user
who never does stops the program, and is not the code's doing). Nothing makes a
user connect, the client send, or a connection fail.

### Findings

1. `nbdprotocol.h:32-37` says that a reply is sent after the request is completed
   or an error occurred and that its `error` field tells which. `handle_write`
   answers dropped and failed writes with error 0 (`nbd_ack`).
2. `handle_read` never advances `from`, so that the second and later blocks of a
   read beyond 128 KiB repeat the first (`nbd_long_read`).

## 4. MediaSession

The life of sessions in the main window: what the buttons, the login over SSL, the
WebSocket's signals and the device leave to each other and to the next session.
NbdExport models what happens inside one connection, WsSocket the socket below;
here a connection is `link` and a negotiation one step.

| Model | Code |
|---|---|
| `build` | the three programs: Linux, Windows, and Windows of the 2.6 tree |
| `buttons`, `box` | the set of the enabled buttons; the modal box inside `on_StartB_clicked`, behind which the event loop runs on |
| `login_get_sid`, `connected_to_wss`, `allowWrite`, `fh` | the members; `fh` begins with garbage, as the constructor does not set it |
| `ssl` | the SSL sockets ever created: requests that wait for an answer, lines of answers that were not read, how often `readyRead` is connected (`reads`) |
| `link`, `slots` | `wsSocket_vmws`, and how often each slot is connected to it |
| `table`, `locked` | the owner of every number the system gave out (the lowest free one), and the handle that locked the volume |
| `asked`, `leftover`, `irregular`, `offered`, `volume`, `hitch` | ghosts: the presses of Start, what Stop left under way, and the mishaps that the properties except |

`SslMessageReceived` is `onSslMessageReceived` for a segment with any number of
lines, called as often as it is connected; `ConnectedtoWS`, `Connectedto`, `Start`,
`Stop`, `Cancel`, `Mount` ... are the functions of those names. Kept because the code
does it: every handler uses the newest SSL socket, whichever one signalled; Search
enables Start whatever is going on; Exit on Windows ends nothing and keeps
`connected_to_wss`; NBD_CMD_DISC and Stop close `fh` without forgetting it.

The run `media` (1.6 million distinct states) has all three programs, two SSL
sockets, two presses of Start between two of Stop, four numbers (two for SSL, one
for the WebSocket, one more for a device) and one request that waits. Two of each is
what one session can leave to the next. The model stops where a number of another
object was closed (`astray`) or a null pointer followed (`crashed`).

- `ConnectedOncePerStart`: messages are handled once.
- `OnlyTheDeviceIsClosed`, `DeviceClosed`, `WritesLocked`: the descriptor that is
  closed, left open, or written through, is the right one. In a session that is
  regular (started once, after a Stop that left nothing under way) the program
  never closes another object's number, at most one device is open, and none after
  the session was stopped.
- `NeverLocked`: the window does not end without a button.
- `SessionComes`: a Start leads to an exported device or gives the buttons back,
  under weak fairness of the login, of the opening and of the negotiation: the
  network and the BMC answer, or the connection fails (`hitch`).

The exceptions they name are behaviours of the code: each was put in because TLC
found the trace without it.

## 5. WsSocket

One `QWsSocket` as the programs use it (client mode, `wss://`, protocol version
13, an address instead of a name), over a server that is external: it may accept
or refuse the opening handshake, send frames that are not valid or not in place,
close first, or vanish.

| Model | Code |
|---|---|
| `state`, `tcp` | `QAbstractSocket::state()` of the QWsSocket and of its `tcpSocket`; host lookup counts as connecting |
| `old` | the `QSslSocket` that `connectToHost` replaced and gave to `deleteLater`, still connected |
| `closingHandshakeSent/Received`, `continuation`, `currentData`, `currentDataOpcode`, `reading` | the members of the same names, and `_currentFrame->readingState`; "Lost" is HeaderPending at bytes where no frame begins, "Rest" any later state inside a frame that is none |
| `stream`, `transit`, `avail`, `ready` | the server's items that are not read completely; their bytes on the way, in `tcpSocket`, and announced by `readyRead` |
| `sent`, `written`, `received`, `signals` | what went to `tcpSocket`, to `write()`, out by `frameReceived()`, and the `connected()` and `disconnected()` emitted |
| `promised`, `inMessage`, `behaves`, `misled` | ghosts: the messages the server completed, whether it kept to the protocol, and whether the parser was led astray |

`HandshakePart` ... `HandshakeInvalid` are the ways through `processHandshake`,
`HeaderPending` ... `DataFrame` the cases of the `switch` in `processDataV4` and
what becomes of a complete frame; both forms of an extended length are one.
`Invalid`, `Closes`, `Pings`, `Misplaced` and `Carries` are what a frame does, apart
from where its bytes come from. Out of step the parser takes bytes for frames that
nobody sent: `MisreadFrame` has one of `Misreadings` come out, of any size, and do
what any frame does; where the bytes that are left happen to begin with a frame, the
parser may be in step again (`GoesOnWith`).
`Close` is `close()`, `TcpUnconnected` the last case of `processTcpStateChanged`.
A handler runs as far as its bytes go before the next event (`Quiet`); only
`disconnectFromHost`, which the program calls in its slots, comes in between.

Kept because the code does it: frames in one segment with the answer wait for
further bytes; 16 bytes behind the answer are swallowed as the accept of a version
0 server, and parsing goes on behind them, in step or out of it; an answer that
comes in two segments fails; one that fails to validate leaves the TCP connection
open; a socket that was told to close before the answer
came parses the answer as frames; the parser and `currentData` survive into the
next connection; the deletion of the replaced socket sets the new one unconnected.

| Run | Question | Instance | Distinct states |
|---|---|---|---|
| `ws_messages` | Are messages whole, and do handshake and signals fit their connection? (`MessagesIntact`, `CloseHandshake`, `SignalsTrue`) | 2 connections, 3 frames of 7 kinds, 3 misreadings, all segments | 2.8 million |
| `ws_close` | Does what is written leave whole, and does closing end? (`SentIntact`, `CloseCompletes`) | 2 connections, 2 frames of 6 kinds, 1 write of 3 lengths | 416 thousand |
| `ws_reconnect` | Does `connectToHost` abort an earlier connection? It does not. | 2 connections | violation |

Three frames are a fragmented message with something between its fragments, two
connections what one can leave to the next. `ShortLength` is 1 in place of 125 and
`KeyBytes` 3 in place of 16, so that extended lengths and the swallowed bytes occur
with short frames; `MaxFrameBytes` is 2 in place of 1400, with messages that
are empty, of exactly one frame's length and longer. Bounds: `MaxFrames`, `MaxWrites`,
`MaxSessions`.
Deadlock is not checked, as the program stops when its bounds are reached.

`MessagesIntact` excepts connections on which the parser is `misled`: it was in the
middle of something when they began, bytes were swallowed with the answer, or the
answer was parsed as frames. There messages are skipped, made up, or glued together.
`CloseHandshake` and `SignalsTrue` hold on these connections too. `CloseCompletes`
excepts them, and one whose last bytes came with the answer (`Deaf`): without the
exceptions TLC finds the message that is glued to a previous connection's and the
close frame that nobody reads.

**MessageChannel** is what the programs, and NbdExport, take the library for: the
messages that one side sent over a connection, and those that the other side was
handed, one by one, whole and in order; what was not handed over when the connection
ends is lost. `IsChannel` says that WsSocket implements it, with the messages that
the server completed for those sent (`Promised`) and `received` for those handed over
(`Received`). Where the parser is misled the code keeps no such promise, and the
channel ends by then. It is proved (section 9) and is no property of a run.

`PutTogether` is the receiver at the other end, which `SentIntact` needs: it takes the
frames of `sent` one by one and ignores control frames.

`FairSpec`: weak fairness on the event loop, on TLS and on TCP's delivery, and on
the server answering a request and a close frame or hanging up after it refused,
as the protocol demands. Nothing makes the program act or a connection fail, so
that a close may not rely on that.

Finding 3: `QWsSocket.cpp:249` says that `connectToHost` aborts an earlier
connection; the condition in line 250 can never be true (`ws_reconnect`).

## 6. WsServer

`QWsServer` with `QTlsServer` under it and the reading of the request in
`QWsHandshake`. A request is a sequence of lines; a segment brings some, and maybe
eight bytes of the next line or the two halves of the eight bytes that version 0
sends behind the empty line.

| Model | Code |
|---|---|
| `conn` | each connection: its state, who owns its socket (`object`), how much of the request arrived and was read |
| `handshakeBuffer`, `pendingConnections` | the members of the same names |
| `signals`, `taken`, `dropped` | `newConnection()` not followed up; sockets given to the application; sockets for which the queue had no room |
| `NewConnection`, `IncomingConnection`, `TlsSocketEncrypted` | `newTcpConnection`, `QTlsServer::incomingConnection`, `newTlsConnection` |
| `Segment`, `Read`, `isValid` | `dataReceived`, `QWsHandshake::read`, `isValid` |
| `Accept`, `ShowErrorAndClose`, `Disconnected`, `NextPendingConnection`, `Close` | the functions of these names |

The run `ws_server` (112 thousand distinct states): two connections over TCP or TLS,
a queue for one, `MaxFields` 5 in place of 1000, requests of both versions, complete,
invalid and without an end. Two connections fill a queue of one; nothing else
joins them.

- `VerdictOfRequest`: the answer does not depend on the segments. It excepts requests
  of version 0, whose eight bytes must arrive with the empty line, else the request is
  refused or eight bytes of a half line are taken for them; and requests of more
  than 1000 fields, which are refused if a segment ends there.
- `EachSocketOnce`, `NothingLeaks`: no socket is handed out twice or forgotten, unless
  a full queue dropped it. Then it stays open and unowned, and one `newConnection()`
  too many makes `nextPendingConnection` read the head of an empty queue (`defined`
  is FALSE and the model stops).
- `Answered`, under weak fairness of TLS and of the arrival of what the client sent.
  A server that cannot open its key file answers nobody and closes nothing (`stuck`).

## 7. SvfPlayer

`handle_svf_command` and the scan layer. The file is chosen while it is read; the
commands of a loop are remembered (`body`) and read again. A bit of an expected value
is `<<command, position>>`, so that a bit that got to another place differs.

| Model | Code |
|---|---|
| `para`, `ends`, `trst` | `svf_para` |
| `pending` | `svf_check_tdo_para` up to its index |
| `buf`, `svf_buffer_index` | the TDI, TDO and mask buffers, bit by bit |
| `loop`, `file_offset` | the members; `Reads` seeks back with `next` |
| `tap` | the state that the driver keeps |
| `upset`, `mismatch`, `before`, `turns`, `rounds` | ghosts: the driver failed or a scan had a bad length; a comparison failed, and had when the loop began; how often the loop's body began, and should |
| `SetState` ... `DoEndLoop` | the cases of `svf_run_command`, each with the comparison at its end (`Settle`) |
| `Scan`, `Stored`, `NewPara` | `XXR_common` and the scan: parameters that persist, masks, buffers |
| `Chunk`, `Left`, `ScanTap` | `JTAG_dr_scan` and `JTAG_ir_scan` split into transfers |

Kept because the code does it: results of scans, of RUNTEST and of STATE are ignored;
the last comparison's result is ignored, and the exit code is 0; a scan of
2049 to 2055 bits asks for a transfer one byte too long (`TooLong`).

The run `svf_play` (280 thousand distinct states): files of four commands from a
menu with every command, bytes of two bits, transfers of two bytes, a list of six
comparisons, a device that answers the first or the third bit of a scan wrongly. Four
commands are a loop with two scans in it, or with one and a scan before or behind it; a
list that small is half full, and a transfer that small divided, within them.
Properties:

- `PendingIntact`, `ReportsTrue`: a comparison that waits finds what its own scan
  read; what is logged is what did not match.
- `LoopBound`: the body of a loop is played LOOP times at the most; ENDLOOP goes on
  before that (`GoesOn`) only if all scans of the turn matched, and repeats the body
  (`Repeats`) only if one did not. What is not ruled out is an end of the whole play
  inside a loop: a mismatch that is found when the list becomes half full (svf.c:1570)
  fails the command at once, whatever turns are left, and so does a LOOP or a refused
  command inside it. The body is played once even if LOOP says 0, as in the code.
- `TapStable`: the TAP rests in a stable state between two commands.
- `ChunksCover`: scans of up to `LongestScan` bits, here four transfers, are shifted
  completely.
- `Terminates`: the play ends, under weak fairness of `Next`, as the program is one
  thread that waits for nobody.

## 8. Host tools and windows

Five modules that share nothing are checked by one run, `host_tools` (1.8 million
distinct states), in which `tool` chooses the one that runs: **MCHostTools** composes
them and states their properties.

**MailboxTransfer** is one run of `xfer_mbox_mem`: the search for a PCI device, the
copy of the file chunk by chunk, the announcement of its size over IPMI. A cell is
8 KiB; the windows (8 and 2 cells) and the limit (2) keep the proportions of
`p2a.hpp` and `updater.cpp`; sizes go from empty to longer than either window.
`TransferTrue`: a size is only announced when the file is in the window, and only
the answer to the request is taken for it. The code's exceptions: reads and writes
that do less than asked go unnoticed; a size that is refused comes too late to
save the window's content, and the tool still exits with 0; an interrupt before the
first message ends the waiting.

**ArmDebugClient** is the prompt of `jtag_client.py`, packet by packet, on R0, R1 and
the PC. `ProgramUndisturbed`: a program that goes on has the registers with which it
stopped. The exceptions are the ghost `amiss`: an answer that one `recv` does not
return whole (`divided`), a lost connection, a register number out of bounds
(`wreg 16` loads R0), and a `go` after a stop that `halt` did not see first
(`blind`). Two stops and six commands are a session with a breakpoint and every
command between two stops. Assumed: commands that use registers are given while the
core is stopped.

**VdmTests** has the programs of `vdm-test`. `VdmReportsTrue`: a round is reported
with what the driver took, `vdm_test` keeps its place in the stream of packets, its
timeout is silence. Exceptions: "Total receive" includes what was sent before and counts a
part of a word as words; a body read too early puts it out of step; a second
`--data` overruns its buffer. `RxTimeout` is 3 in place of 15, `Batch` and
`BatchesEnd` 2 and 3 in place of 5000 and 95000, `DataBuffer` 2 in place of 100;
sizes are the real ones around one, two and three packets of 80 bytes.

**BmcSearch** is the loop of both Search buttons over addresses that wrap around
after `LastAddress`. `SearchCovers` (in `WindowTrue`): every address of the range is
asked once, and the list says who answered. A last address in another notation
than `inet_ntoa`'s is never met, so that the search does not end; liveness is
therefore not claimed.

**ExportWindow** has the list of drives and what enables Start, on Windows by
messages, on Linux by a watcher; a list that is made anew is any list of the drives
in the order of their names (there is one), and a removed drive is looked for as
`findText` does, the first of its name. `ListTrue`, `PickKept`, `StartAfterSearch`
(in `WindowTrue`): the list has the drives that are there, each once. Exceptions:
changes before the window is shown, and all drives but the first of a message. Kept
because the code does it: with a file alone no export type is current, and Start
takes the branch for devices; removing the first item leaves no current drive
although others are listed; on Linux every change selects the first entry again. Two
drives of five kinds and three changes are a drive that replaces another one while a
third thing happens. Of the search it has the result only.

Bounds of the run: `MaxMessages`, `MaxStops`, `MaxCommands`, `MaxFaults`, `MaxPackets`,
`MaxChanges`; the tools stop when they end or reach them, so deadlock is not checked.
None of them claims liveness: they wait for a user or a device.

## 9. Proofs

`NbdExportProofs` proves, for every image size, request menu, number of requests,
options and connections, and every cut and fault, from `ConstantsAssumption`
alone:

- `TypeCorrect`: `Spec => []TypeOK`
- `InSync`: `Spec => []PayloadInSync`
- `AnswersInOrder`: `Spec => []RepliesInOrder`
- `WritesStored`: `Spec => []AckedWriteStored`
- `WritesInBounds`: `Spec => []NoStrayWrite`

all from `Invariance`: `Spec => []IInv`. None of the properties is inductive on
its own. What a step of the parser does depends on what is still in `inbound`,
so that `IInv` adds:

- `WellFormed`: a request in `inbound` belongs to a request that the client sent,
  and behind each write comes exactly its payload, in order, except for a payload
  that has begun to be parsed;
- `AnsweredIsOld` and `StoredIsOld`: whatever was answered or stored belongs to a
  request older than any still in `inbound`; this is what makes the order of the
  replies and "a later write stored there" inductive over reconnects;
- `Progress`: while a payload is received, the part of it that was parsed is on
  the image and the file offset stands behind it, unless it met a fault; this
  turns into `AckedWriteStored` at the moment of the reply;
- `Silent`: the client says nothing without a connection, before the greeting, or
  after a connection that ended in state 7; so a state 7 that outlived its
  connection meets no byte before the greeting of the next one resets it;
- the bound of `write_len` by `MaxCells`, by which the buffer is large enough.

The range check carries the argument against overflow: `from + len` smaller than
`from` is the only way for the sum modulo `Wrap` to be within the image when the
true one is not, and `FileCells + MaxCells < Wrap` (an image is far from 2^64
bytes) excludes a wrap by more than once.

`NbdWindowsProofs` proves, from the same assumption and for both programs, `BothAgree`:
`BuildSpec => []SamePhase`. Which padding the client got was decided several messages
before it has its export; `PhaseInv` follows its flags from the greeting, where
nothing was said yet, over the time when they are the first field the server will
read, and that when `glob_flags` holds them, to the export that was sent. That an
answer finds its client waiting is `StepInv`: as long as nothing strayed, a client
that waits has its option, and only what belongs to it, in front of the parser, at
the place that `nego_state` calls for (`Asks`), and one that does not wait has
nothing there that would be answered. It also
proves that the handlers of Windows keep `IInv` (`BothInSync`) and from this
`AnsweredIsStored`: `BuildSpec => []NoErrorMeansStored`. `AckedWriteStored` of `IInv`
excepts damaged writes; `WinInv` says of the program for Windows what the damage
can be: no write is at a wrong place, since it has no second write with a stale
length, and one that failed was answered with the error. What is left as an
exception are the payloads that a read-only export drops.

`NbdBlockProofs` proves `Implements`: under `BlockConditions`,
`Spec => IsBlockDevice`, that is, NbdExport implements BlockExport with the image for
its store, the client's requests and, for its answers, the set of what was sent as
data or as reply to a write. A request of the client maps to `Ask`, a message of
payload to `Write`, the one that ends in a reply to `FinishWrite`, `handle_read` to
`Read`, everything else to a stutter. `BInv` adds to
`IInv` what the conditions give: no write is damaged (`Faultless`); whoever can still
ask for something finds the image open (`Opened`), for which nothing may be asked
behind NBD_CMD_DISC (`DiscIsLast`); messages and what is left of a write are whole
sectors, so that the second `write(2)` never happens (`WholeSectors`); data follows
its reply, so that answers are as old as replies (`DataReplied`).

`MediaSessionProofs` proves all the invariants of MediaSession, for any of the three
programs, any finite non-empty set of descriptors and any bounds: `Typed`,
`ConnectedOnce`, `DeviceIsClosed`, `DeviceNotKept`, `VolumeLocked` and
`ButtonsComeBack`. What a Start may still connect is counted by the flag
`connected_to_wss` (`Connections`), because after a Stop that left nothing behind
nothing waits that could connect (`Quiet`). In a regular session the device has the
number `fh`, and `fh` is no number of another object whenever something may close
it (`Owned`); on Windows this needs that no older SSL socket is alive (`Older`). The
login of a session in which nothing went wrong is in one of four stages, each of
which waits for an answer of the BMC (`LoginStage`, `Progress`), so that the buttons
come back.

`WsSocketProofs` proves all the invariants of WsSocket from `ConstantsAssumption`
alone, for any frames, sizes, cuts and numbers of connections: `Typed`,
`SignalsCorrect` (`[]SignalsTrue`), `ClosingHandshakeCorrect` (`[]CloseHandshake`),
`MessagesCorrect` (`[]MessagesIntact`) and `SentCorrect` (`[]SentIntact`).
`SignalsTrue` is silent while a replaced `tcpSocket` awaits its deletion;
`OldConnecting` adds that the new connection is not open by then, so that the state
change brought about by the deletion emits the `disconnected()` that is due. There
is one lemma for each way in which an action touches the states and the signals. The
closing handshake rests on `CInv`: the connection that replaces another begins with
nothing sent (`FreshConnection`); one that is connecting or open has sent no close
frame and has no flag set (`OpenConnection`); one that is closing has sent one
(`ClosingConnection`), and none sends two (`AtMostOne`); the flags are only set
where bytes are parsed, which is over when `tcpSocket` is unconnected (`Over`).

`MessagesIntact` is far from inductive, as nothing of the stream says where a message
begins. `MInv` describes the way of the parser: every frame that is not yet read has a
place, the number of a message and of a fragment in it (`Belongs`); a data frame
leads to the next place, a control frame or a line of the answer leads nowhere
(`Moves`); the path begins where the parser stands and ends where the server stands
(`Path`), or at a frame that breaks the protocol, behind which the parser delivers
nothing (`Bad`). What the parser has are the messages and fragments before its place
(`Delivered`, `Collected`). A frame that is sent makes the path longer (`Grows`: earlier
places stay), one that is read takes its first step away. `SettledInv` adds the order
in which things come on one connection: the answer to the handshake is first, and
nothing follows a close frame or a refusal. All of it is claimed only of connections
that are not `misled`, and a parser that lost its place is on one that is (`Placed`).
From it follows `ImplementsChannel`: `Spec => IsChannel`: a step
adds at most one message to what is promised or to what is received (`OneAtATime`), and
one that is received is the next of those promised, as `Delivered` holds behind the
step (`NextInLine`).

`SentIntact` is its own invariant, with the types of what was written. Its difficulty
is that `composeFrames` cuts a message into any number of frames and that
`PutTogether` is recursive. Its values are reached step by step (`BuiltByStep`), the
same frames come to the same messages (`SameSteps`), and after the k-th frame of a
message the receiver has the first k * `MaxFrameBytes` items of it
(`ComposedTogether`). These are inductions over the natural numbers, made by sets
(`FromZero`): a number that is missing from a set that has 0, and n + 1 with n, would
have a least one, as < is well-founded.

`WsServerProofs` proves, from `ServerAssumption`, for any connections, queue length
and requests: `TypeCorrect`, `AnswersDeserved` (`[]VerdictOfRequest`), `SocketsOnce`
(`[]EachSocketOnce`) and `NothingLeft` (`[]NothingLeaks`). That the division into
segments does not matter rests on `ReadSoFar`: what a handshake has gathered is what
the request says up to the line that was read, and nothing in that part would have
ended the reading. Requests of version 0 and of more than `MaxFields` fields are
excepted as in the property. `Sockets` counts each socket in the queue, among those
taken, or among those dropped.

`SvfPlayerProofs` proves, for files of any length, any menu of commands and any
sizes of transfers and buffers: `TypeCorrect`, `ComparisonsIntact`
(`[]PendingIntact`), `ErrorsReported` (`[]ReportsTrue`), `LoopsBounded`
(`LoopBound`), `TapRests` (`[]TapStable`) and `ChunksCorrect` (`[]ChunksCover`).
The invariant has, beside the types, where in the file the player is and what it
remembers of a loop (`Place`); that each waiting comparison lies within the used
part of the buffers and says truly whether it was missed (`Kept`), as later scans
are stored behind it; that the list has room for a scan (`Room`); and that a
mismatch is what was missed or reported so far (`Truth`); and that `loop` counts the
turns that are left (`LoopCount`). `LoopBound` follows: at an ENDLOOP
all comparisons of the turn are pending, so that the decision is that of the ghost
`mismatch` (`EndLoopTurns`). `ChunksCover` depends on
no state: a transfer takes all the bits that are left or fills the driver's buffer
(`OneTransfer`), so at least one bit (`Progress`), and by induction over the
transfers (`LeftFalls`, by `FromZero` again) nothing is left of a scan of any length
(`ScanIsCovered`, which says `Covered(bits)` for every `bits \in Nat`);
`ChunksCorrect` is this for every value of `LongestScan`.

`HostToolsProofs` proves all the invariants of MCHostTools, from the assumptions
that each program's module makes about its constants (numbers are natural, drives
are finitely many): `ToolsTyped`, `TransferCorrect`, `DebugCorrect`, `VdmCorrect` and
`WindowCorrect`. Only one of the programs runs, so that each has an inductive
invariant of its own:

- `TransferInv`: a file that fits the window is staged by one chunk, because a window
  is never smaller than the largest size that is announced (`HasWindow`, `Staging`);
  an answer was compared with an id that was set (`Answering`).
- `DebugInv`: unless something of `amiss` happened, at every packet of every command
  each register of the program is in the core or in the variable that the command
  saved it to (`Borrowed`), and the saved PC is the program's (`KnownPc`).
- `VdmInv`: the words in the driver follow one another and the packets
  (`InSequence`, `NextToCome`), and `vdm_test` stands at the word that it takes the
  next one for (`ReadNext`), unless it read a packet that was still coming in; the
  timeouts count the silent reads (`TimeInv`).
- `SearchInv`: the k-th address asked is the first one plus k - 1, modulo the number of
  addresses (`TriedInv`), and the loop has not passed the last one (`CursorInv`), so
  that it has asked just as many as lie between them when it meets it.
- `ListInv`: of a drive that the program heard of, the list is right when no message
  about it waits, a listed drive is there unless a removal waits, and the last
  message tells whether it is there (`Follows`); each drive is listed once, so that
  removing the first of a name removes the drive.

With these, every invariant of a run that passes is proved. Only model-checked is
liveness, which is out of TLAPS's reach: `EveryRequestAnswered`,
`EveryOptionAnswered`, `CloseCompletes`, `Answered`, `Terminates` and `SessionComes`.

## 10. What is not modelled

- In NbdExport: a box only stops the parser, its other effects (a timer, another
  button pressed behind it) belong to MediaSession; what a client does that was
  misled by an answer; messages that divide a field of the protocol (the code reads
  beyond the message then); payload that looks like a request's magic; names of
  more than 127 bytes; writes past the end of the image by a chunk that is out of
  step. `case 8` of the parser is unreachable.
- In WsSocket: version 0, plain TCP and server mode, which the programs do not use;
  the content of frames, among it the status code of a close frame; name lookup;
  which frames the bytes look like that a parser finds out of step (`Misreadings`
  stands for them).
- In MediaSession: the boxes of a read-only image and of NBD_CMD_DISC, which are
  atomic here (NbdExport has them); an export type changed between Start and the
  negotiation; the account, settings, and the BMC that was chosen: on Windows `-c` gets
  the first address of the range, and the result of `get_request_ip` is not used.
- In NbdWindows: the lock's single attempts; which error the mapper chooses.
- In WsServer: `incomingConnection(int)`, which Qt 5 does not call; the texts of the
  answers; the destructor.
- In SvfPlayer: the text of the file, values of TDI, the clock, the path between two
  states, numbers of `ioctl`s.
- In the host tools: the mapping of memory, texts, times and rates, R2 to R14, the
  bits of instructions and of the JTAG protocol; `closeEvent`, whose busy states never
  occur.
- Left out for good: the eSPI tests (one `ioctl` each), the handler that removes the
  mailbox's files (a loop over `remove`), SSDP, widgets, LDAP configuration, BIOS
  images, generated build files: none of them keeps a state that could be wrong.

## 11. Running

    tlc -workers 2 -config NbdEngine.cfg MCNbdExport.tla
    tlc -workers 2 -config NbdBlock.cfg MCNbdExport.tla
    tlc -workers 2 -config NbdNegotiate.cfg MCNbdWindows.tla
    tlc -workers 2 -config MediaSession.cfg MCMediaSession.tla
    tlc -workers 2 -config WsMessages.cfg MCWsSocket.tla
    tlc -workers 2 -config WsClose.cfg MCWsSocket.tla
    tlc -workers 2 -config WsServer.cfg MCWsServer.tla
    tlc -workers 2 -config SvfPlay.cfg MCSvfPlayer.tla
    tlc -workers 2 -config HostTools.cfg MCHostTools.tla
    tlapm NbdExportProofs.tla
    tlapm NbdWindowsProofs.tla
    tlapm NbdBlockProofs.tla
    tlapm MediaSessionProofs.tla
    tlapm WsSocketProofs.tla
    tlapm WsServerProofs.tla
    tlapm SvfPlayerProofs.tla
    tlapm HostToolsProofs.tla

The three runs that end with a counterexample are `NbdAck.cfg` and `NbdLongRead.cfg`
of MCNbdExport, and `WsReconnect.cfg` of MCWsSocket.
