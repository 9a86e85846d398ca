----------------------------- MODULE NbdWindows -----------------------------
(***************************************************************************)
(* The NBD server of NBDServerWSWindows beside that of NBDServerWSLinux.   *)
(* The Windows program is a copy that went its own way at the device: it   *)
(* has no read-only fallback, locks the volume at the end of the           *)
(* negotiation, answers a write that failed with an error, writes a tail   *)
(* with its own length, and reads a request in one piece.  Everything of   *)
(* NbdExport that is not redefined here is the same code in both.          *)
(***************************************************************************)
EXTENDS NbdExport

VARIABLE build   \* the program that runs: "linux", "windows", or "crashed"

buildVars == <<vars, build>>

BuildInit == Init /\ build \in {"linux", "windows"}
-----------------------------------------------------------------------------
(* opendevice and onConnected.  allowWrite stays as it is, and without the *)
(* right to write nothing is opened.                                       *)
WinConnected ==
    /\ link = "down" /\ cut = 0 /\ dialog = "none"
    /\ sessions < MaxSessions
    /\ link' = "up" /\ sessions' = sessions + 1 /\ strayed' = FALSE
    /\ fh' = "open" /\ offset' = 0
    /\ nego_state' = 1 /\ client' = "greeted"
    /\ wire' = wire \o <<Message("greeting", 0, << >>)>>
    /\ inbound' = << >>
    /\ UNCHANGED <<glob_flags, write, allowWrite, image, damaged, dialog,
                   asked, cut>>

(* CreateFile fails, or the length of the volume cannot be found out and   *)
(* the handle stays: no negotiation, no message.                           *)
WinConnectedNoDevice ==
    /\ link = "down" /\ cut = 0 /\ dialog = "none"
    /\ sessions < MaxSessions
    /\ IOFaults
    /\ link' = "up" /\ sessions' = sessions + 1 /\ strayed' = FALSE
    /\ fh' \in {"open", "closed"} /\ offset' = 0
    /\ inbound' = << >>
    /\ UNCHANGED <<server, allowWrite, image, damaged, dialog, peer, cut, wire>>

(* handle_lockio: a volume that stays locked by somebody else after 70     *)
(* tries is exported read only.  An image file is not locked.              *)
LockVolume == allowWrite' \in IF IOFaults THEN {allowWrite, FALSE}
                                          ELSE {allowWrite}

(* States 4 and 5: the export is announced first, then the volume locked.  *)
WinParseNameSize ==
    /\ Parsing(4)
    /\ \/ /\ inbound[1].kind = "namesize" => inbound[1].n > 0
          /\ nego_state' = 5
          /\ UNCHANGED <<wire, client, allowWrite>>
       \/ /\ inbound[1].kind = "namesize" => inbound[1].n = 0
          /\ SendExport /\ LockVolume
    /\ TakeNameSize
    /\ UNCHANGED <<link, glob_flags, write, device, dialog, asked, session>>

WinParseName ==
    /\ Parsing(5)
    /\ SendExport /\ LockVolume
    /\ TakeName
    /\ UNCHANGED <<link, glob_flags, write, device, dialog, asked, session>>

(* The other cases of the switch.                                          *)
WinNegotiate ==
    \/ ParseFlags \/ ParseMagic \/ ParseExportName \/ ParseAbort
    \/ ParseUnknownOption \/ ParseShortOption \/ ParseStrayData
    \/ WinParseNameSize \/ WinParseName \/ DropMessage
-----------------------------------------------------------------------------
(* handle_read: one ReadFile of the whole request.                         *)

WinReading ==
    /\ ParsingRequest("READ") /\ ~BadLength(Request)
    /\ Consume(1)
    /\ UNCHANGED <<link, server, allowWrite, fh, image, damaged, dialog, peer,
                   session, build>>

WinHandleRead ==
    /\ WinReading /\ fh = "open" /\ Request.len <= ReadCells
    /\ Send(<<Reply(inbound[1].id),
              Message("data", inbound[1].id, ReadData(Request, Request.len))>>)
    /\ offset' = Request.from + Request.len

(* It fails: the reply is out, no data follows.                            *)
WinHandleReadFails ==
    /\ WinReading /\ (IOFaults \/ fh # "open")
    /\ Send(<<Reply(inbound[1].id), Message("data", inbound[1].id, << >>)>>)
    /\ offset' = Request.from

(* It succeeds with less than asked for, which only counts as a failure    *)
(* together with one: the rest of the data is what the buffer held.        *)
WinHandleReadShort ==
    /\ WinReading /\ IOFaults /\ fh = "open" /\ Request.len <= ReadCells
    /\ \E n \in 0 .. Request.len - 1 :
          /\ Send(<<Reply(inbound[1].id),
                    Message("data", inbound[1].id,
                            [i \in 1 .. Request.len |->
                               IF i <= n THEN image[Request.from + i - 1]
                                         ELSE <<0, -1>>])>>)
          /\ offset' = Request.from + n

(* A request that is larger than rbuffer overwrites the stack: undefined,  *)
(* taken for the end of the program.                                       *)
WinReadOverruns ==
    /\ ParsingRequest("READ") /\ ~BadLength(Request)
    /\ fh = "open" /\ Request.len > ReadCells
    /\ build' = "crashed" /\ link' = "down" /\ client' = "off"
    /\ UNCHANGED <<server, allowWrite, device, dialog, asked, inbound, cut,
                   wire, session>>

WinRead == WinHandleRead \/ WinHandleReadFails \/ WinHandleReadShort
-----------------------------------------------------------------------------
(* handle_write.                                                           *)

\* Mutant: the tail of a message that is no whole sector is not written.
WinStoredSectors(n) ==
    [c \in Cells |-> IF offset <= c /\ c < offset + n - (n % 2)
                     THEN <<inbound[c - offset + 1].id, inbound[c - offset + 1].n>>
                     ELSE image[c]]

(* The image after n cells of the message were stored at the file offset:  *)
(* whole sectors first, then the tail with its own length.                 *)
WinStored(n) ==
    [c \in Cells |-> IF offset <= c /\ c < offset + n
                     THEN <<inbound[c - offset + 1].id, inbound[c - offset + 1].n>>
                     ELSE image[c]]

WinWritePayload ==
    /\ Parsing(7) /\ allowWrite /\ fh = "open"
    /\ image' = WinStored(pass_write) /\ offset' = offset + pass_write
    /\ Received
    /\ UNCHANGED <<link, glob_flags, write_from, write_handle, allowWrite, fh,
                   damaged, dialog, peer, session>>

(* error_mapper: EACCES, EIO, ERANGE or EINVAL, never 0.                   *)
ErrorReply(h) == Message("reply", h, <<<<1, 0>>>>)

(* WriteFile fails or stores less: the write is answered at once with the  *)
(* error, and the parser expects a request although payload may be left.   *)
WinWriteFails ==
    /\ Parsing(7) /\ allowWrite
    /\ IOFaults \/ fh # "open"
    /\ \E w \in 0 .. pass_write - 1 :
          /\ w = 0 \/ fh = "open"
          /\ image' = WinStored(w) /\ offset' = offset + w
    /\ Send(<<ErrorReply(write_handle)>>)
    /\ nego_state' = 6
    /\ Consume(pass_write)
    /\ Damage("failed")
    /\ UNCHANGED <<link, glob_flags, write, allowWrite, fh, dialog, peer,
                   session>>

WinReceivePayload == DropPayload \/ WinWritePayload \/ WinWriteFails

(* handle_request, with the check_length of both programs.                 *)
WinTransmit ==
    RejectRange \/ BeginWrite \/ HandleDisc \/ IgnoreCommand \/ RejectGarbage
-----------------------------------------------------------------------------
WinNext ==
    \/ /\ \/ WinConnected \/ WinConnectedNoDevice \/ CloseDialog \/ LinkDown
          \/ Client \/ Proxy
          \/ WinNegotiate \/ WinTransmit \/ WinReceivePayload
       /\ UNCHANGED build
    \/ WinRead \/ WinReadOverruns

BuildNext ==
    \/ build = "linux" /\ Next /\ UNCHANGED build
    \/ build = "windows" /\ WinNext

BuildSpec == BuildInit /\ [][BuildNext]_buildVars
-----------------------------------------------------------------------------
(* What error_mapper and the write loop of Windows are for: a write that   *)
(* was answered without an error is on the volume, cell by cell, unless a  *)
(* later write stored something there or the export is read only.  So      *)
(* neither a payload in several messages, cut inside a sector, nor a       *)
(* failure in its first, middle or last part, a rejected request before it *)
(* or a reconnect is reported as success; on Linux, AckMeansCompleted      *)
(* fails for all of these.                                                 *)
NoErrorMeansStored ==
    build = "windows" =>
        \A m \in {wire[i] : i \in 1 .. Len(wire)} :
            (/\ IsReply(m) /\ m.vals = << >> /\ reqs[m.id].cmd = "WRITE"
             /\ <<m.id, "dropped">> \notin damaged)
            => \A i \in 0 .. reqs[m.id].len - 1 :
                  \/ image[reqs[m.id].from + i] = <<m.id, i>>
                  \/ image[reqs[m.id].from + i][1] > m.id
=============================================================================
