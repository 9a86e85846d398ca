---------------------------- MODULE MediaSession ----------------------------
(***************************************************************************)
(* The life of sessions in the main window of the virtual media programs:  *)
(* Start opens an SSL socket and logs in, the answer opens the WebSocket,  *)
(* its connection opens the device and negotiates, Stop (Cancel) takes     *)
(* everything down.  The buttons, two flags, the slots that were connected *)
(* to the WebSocket and the descriptor fh are kept from one session to the *)
(* next.                                                                   *)
(*                                                                         *)
(* NbdExport models what happens inside one WebSocket connection, WsSocket *)
(* the WebSocket itself.  The programs for Linux and Windows share the     *)
(* login and differ in their buttons; the Windows program of the tree for  *)
(* OpenBMC 2.6 differs from the other in the condition of the login.       *)
(***************************************************************************)
EXTENDS Integers, Sequences, FiniteSets, FiniteSetsExt

CONSTANTS
    Builds,      \* which of the programs: "linux", "windows", "windows26"
    Fds,         \* numbers of descriptors or handles
    MaxSockets,  \* bound: SSL sockets created
    MaxAsked,    \* bound: presses of Start between two of Stop
    MaxRequests  \* bound: requests of one SSL socket that wait for an answer

ASSUME ConstantsAssumption ==
    /\ Builds \subseteq {"linux", "windows", "windows26"}
    /\ Fds \subseteq Nat \ {0} /\ Fds # {} /\ IsFiniteSet(Fds)
    /\ {MaxSockets, MaxAsked, MaxRequests} \subseteq Nat

(* Who owns a number: the SSL sockets are 1, 2, ...                        *)
Free == 0
Device == -1
Ws == -2

Failed == -1    \* open() failed, INVALID_HANDLE_VALUE

VARIABLES
    build,
    running,   \* "yes", "exited"; "crashed" and "astray" end the model: a null
               \* pointer was followed, a number of another object was closed
    buttons,   \* those that are enabled; stop is Cancel on Windows
    box,       \* a box that on_StartB_clicked shows, and what is left to do
    login_get_sid, connected_to_wss,
    ssl,       \* the SSL sockets ever created; sslSocket is the last one
    link,      \* wsSocket_vmws
    slots,     \* how often each slot is connected to its signals
    nego,      \* nego_state: "none" 0, "begun" 1 .. 5, "done" 6 and 7
    table, fh, \* the owner of each number; the device's number
    allowWrite,
    kind,      \* what is exported: "device" or "image" (Windows)
    locked,    \* the handle that holds the lock of the volume, 0 if none
    asked,     \* ghost: presses of Start since the last Stop
    leftover,  \* ghost: the last Stop left something under way behind
    irregular, \* ghost: Start was pressed twice, or after such a Stop
    offered,   \* ghost: NBDMAGIC was sent on this connection: the client waits
               \* for it before it sends anything
    volume,    \* ghost: the negotiation found a device to be locked
    hitch      \* ghost: something went wrong since Start: the login was refused, a
               \* connection lost, the file or device could not be opened, the
               \* export has no name, the answer to the login came in one piece,
               \* or Start was pressed again

session == <<login_get_sid, connected_to_wss>>
socket == <<link, slots>>
device == <<fh, allowWrite, locked>>
export == <<nego, offered, volume>>
ghosts == <<asked, leftover, irregular>>
vars == <<build, running, buttons, box, session, ssl, socket, export, table,
          device, kind, ghosts, hitch>>

Windows == build \in {"windows", "windows26"}

Init ==
    /\ build \in Builds /\ running = "yes" /\ box = "none"
    /\ buttons = {}
    /\ login_get_sid = FALSE /\ connected_to_wss = FALSE
    /\ ssl = << >> /\ link = "unconnected" /\ slots = 0 /\ nego = "none"
    /\ table = [n \in Fds |-> Free]
    /\ fh \in {0, Min(Fds)}    \* not initialised: no number, or one that gets used
    /\ allowWrite = TRUE /\ kind = "image" /\ locked = 0
    /\ asked = 0 /\ leftover = FALSE /\ irregular = FALSE
    /\ offered = FALSE /\ volume = FALSE /\ hitch = FALSE
-----------------------------------------------------------------------------
(* Numbers.                                                                *)

FreeFds(t) == { n \in Fds : t[n] = Free }

Given(t, owner) == [t EXCEPT ![Min(FreeFds(t))] = owner]

Released(t, owner) == [n \in DOMAIN t |-> IF t[n] = owner THEN Free ELSE t[n]]

(* if (fh) close(fh): whatever has the number is closed.                   *)
CloseFh(t) ==
    /\ table' = IF fh \in Fds THEN [t EXCEPT ![fh] = Free] ELSE t
    /\ running' = IF fh \in Fds /\ t[fh] \notin {Free, Device}
                    THEN "astray" ELSE running
    /\ locked' = IF locked = fh THEN 0 ELSE locked
    /\ UNCHANGED <<fh, allowWrite>>
-----------------------------------------------------------------------------
(* The login over SSL.                                                     *)

newest == Len(ssl)

NewSocket == [link |-> "connecting", reads |-> 0, requests |-> << >>, lines |-> << >>]

Down(s) == [link |-> "down", reads |-> s.reads, requests |-> << >>, lines |-> << >>]

(* http_get and http_post: what is written to a socket that is down is     *)
(* lost.                                                                   *)
Post(s, request) ==
    IF s.link = "down" THEN s ELSE [s EXCEPT !.requests = Append(@, request)]

Waits(s) == s.link = "connecting" \/ s.requests # << >> \/ s.lines # << >>

Outstanding == \E i \in DOMAIN ssl : Waits(ssl[i])

(* onSslConnected uses the newest socket, whichever socket has connected.  *)
SslConnected(i) ==
    /\ ssl[i].link = "connecting"
    /\ LET up == [ssl EXCEPT ![i].link = "up"]
           reader == [up[newest] EXCEPT !.reads = @ + 1]
       IN  ssl' = [up EXCEPT ![newest] = Post(reader, "login")]
    /\ UNCHANGED <<build, running, buttons, box, session, socket, export, table,
                   device, kind, ghosts, hitch>>

SslLost(i) ==
    /\ ssl[i].link # "down"
    /\ ssl' = [ssl EXCEPT ![i] = Down(@)]
    /\ table' = Released(table, i)
    /\ hitch' = (hitch \/ Waits(ssl[i]))
    /\ UNCHANGED <<build, running, buttons, box, session, socket, export, device,
                   kind, ghosts>>

(* The BMC answers the next request.  The lines are those that the program *)
(* looks for; "other" is an answer without a body.                         *)
Answers(request) ==
    IF request = "login" THEN { <<"cookie", "length", "body">>, <<"length", "body">> }
    ELSE { <<"length", "body">>, <<"other">> }

SslAnswered(i) ==
    /\ ssl[i].link = "up" /\ ssl[i].requests # << >>
    /\ \E a \in Answers(Head(ssl[i].requests)) :
         /\ ssl' = [ssl EXCEPT ![i].requests = Tail(@), ![i].lines = @ \o a]
         /\ hitch' = (hitch \/ (Head(ssl[i].requests) = "login" /\ a[1] # "cookie"))
    /\ UNCHANGED <<build, running, buttons, box, session, socket, export, table,
                   device, kind, ghosts>>

(* The build for OpenBMC 2.6 does not wait for a segment without a length. *)
AtOnce == build = "windows26"

\* Mutant: the flag is not looked at, so that every answer connects.
ConnectsAgain(sid, calls, body) ==
    sid /\ (~body \/ calls >= 2 \/ AtOnce)

(* The end of onSslMessageReceived, called so many times for one segment:  *)
(* only the first call finds lines, of which one may tell of a body.       *)
Connects(sid, calls, body) ==
    sid /\ ~connected_to_wss /\ (~body \/ calls >= 2 \/ AtOnce)

(* ConnectedtoWS.  The connection that the socket may have is dropped.     *)
ConnectedtoWS ==
    /\ connected_to_wss' = TRUE
    /\ slots' = slots + 1 /\ link' = "connecting"
    /\ FreeFds(Released(table, Ws)) # {}
    /\ table' = Given(Released(table, Ws), Ws)

\* Mutant: the flag is reset by every segment, as a line in comments did.
SidOfSegment(seen) == "cookie" \in seen

SidAfter(seen) == login_get_sid \/ "cookie" \in seen

(* readyRead of socket i: a segment with n whole lines has arrived.  The   *)
(* slot reads the newest socket, whichever socket the segment is for.      *)
SslMessageReceived(i, n) ==
    /\ ssl[i].reads > 0 /\ ssl[i].lines # << >> /\ n <= Len(ssl[i].lines)
    /\ ssl' = [ssl EXCEPT ![i].lines = SubSeq(@, n + 1, Len(@))]
    /\ LET seen == IF i # newest THEN {}
                   ELSE { ssl[i].lines[j] : j \in 1 .. n }
           sid == SidAfter(seen)
           body == "length" \in seen
       IN  /\ login_get_sid' = sid
           /\ IF Connects(sid, ssl[i].reads, body)
                THEN ConnectedtoWS /\ UNCHANGED hitch
                ELSE /\ UNCHANGED <<connected_to_wss, socket, table>>
                     /\ hitch' = (hitch \/ {"cookie", "length", "body"} \subseteq seen)
    /\ UNCHANGED <<build, running, buttons, box, export, device, kind, ghosts>>
-----------------------------------------------------------------------------
(* The WebSocket.                                                          *)

(* opendevice falls back to reading, for good; on Windows it does not.     *)
opendevice(failures) ==
    /\ allowWrite' \in {allowWrite, FALSE}
    /\ failures > 0 => ~allowWrite'

opendeviceWindows == UNCHANGED allowWrite

(* onConnected: each of the slots opens the device, and begins to          *)
(* negotiate if it could.                                                  *)
WsConnected ==
    /\ link = "connecting" /\ link' = "open"
    /\ \E new \in SUBSET FreeFds(table) :
         LET failures == slots - Cardinality(new)
         IN  /\ failures >= 0
             /\ table' = [n \in Fds |-> IF n \in new THEN Device ELSE table[n]]
             /\ fh' \in new \cup IF failures > 0 THEN {Failed} ELSE {}
             /\ nego' = IF new # {} THEN "begun" ELSE nego
             /\ offered' = (new # {})
             /\ hitch' = (hitch \/ new = {})
             /\ IF Windows THEN opendeviceWindows ELSE opendevice(failures)
    /\ volume' = (volume /\ nego' # "begun")
    /\ UNCHANGED <<build, running, buttons, box, session, ssl, slots, locked, kind,
                   asked, leftover, irregular>>

\* Mutants: that the lock failed is not noticed; it never fails.
LockUnnoticed == locked' \in {locked, fh} /\ UNCHANGED allowWrite
LockAlways == locked' = fh /\ UNCHANGED allowWrite

(* handle_lockio: it fails while another handle to the volume is open, and *)
(* may fail for other programs' handles.                                   *)
Lock ==
    \/ /\ locked' = fh /\ UNCHANGED allowWrite
       /\ \A n \in Fds \ {fh} : table[n] # Device
    \/ allowWrite' = FALSE /\ UNCHANGED locked

(* The export name was read; the buttons are only set if it was not empty. *)
Negotiated(named) ==
    /\ buttons' = IF named THEN (buttons \ {"unmount"}) \cup {"mount", "stop"}
                            ELSE buttons
    /\ volume' = FALSE
    /\ UNCHANGED <<locked, allowWrite>>

(* A device is locked first; the lock counts for the combo box of then.    *)
NegotiatedWindows(named) ==
    /\ buttons' = IF named THEN (buttons \ {"unmount"}) \cup {"mount"} ELSE buttons
    /\ volume' = (kind = "device")
    /\ IF kind = "device" THEN Lock ELSE UNCHANGED <<locked, allowWrite>>

Negotiation ==
    /\ running = "yes"
    /\ link = "open" /\ offered /\ nego = "begun" /\ nego' = "done"
    /\ \E named \in BOOLEAN :
         /\ IF Windows THEN NegotiatedWindows(named) ELSE Negotiated(named)
         /\ hitch' = (hitch \/ ~named)
    /\ UNCHANGED <<build, running, box, session, ssl, socket, offered, table, fh, kind,
                   ghosts>>

Idle == {"start"}

\* Mutant: the buttons stay as they are.
AbortedUnseen == buttons

Aborted ==
    IF Windows THEN (buttons \ {"stop"}) \cup {"start"} ELSE Idle

(* NBD_OPT_ABORT: the slots stay connected.                                *)
OptAbort ==
    /\ link = "open" /\ offered /\ nego = "begun"
    /\ link' = "closing" /\ nego' = "none"
    /\ buttons' = Aborted
    /\ UNCHANGED <<build, running, box, session, ssl, slots, offered, volume, table, device,
                   kind, ghosts, hitch>>

(* NBD_CMD_DISC.                                                           *)
Disc ==
    /\ link = "open" /\ offered /\ nego = "done"
    /\ link' = "closing"
    /\ CloseFh(table)
    /\ UNCHANGED <<build, buttons, box, session, ssl, slots, export, kind, ghosts, hitch>>

(* onDisconnected only logs.                                               *)
WsLost ==
    /\ link # "unconnected" /\ link' = "unconnected"
    /\ table' = Released(table, Ws)
    /\ hitch' = TRUE
    /\ UNCHANGED <<build, running, buttons, box, session, ssl, slots, export, device,
                   kind, ghosts>>
-----------------------------------------------------------------------------
(* The buttons.                                                            *)

User == running = "yes" /\ box = "none"

(* Search enables Start, whatever is going on.                             *)
Search ==
    /\ User
    /\ "start" \notin buttons /\ buttons' = buttons \cup {"start"}
    /\ UNCHANGED <<build, running, box, session, ssl, socket, export, table, device, kind,
                   ghosts, hitch>>

(* Every change of account or password on Windows decides anew whether     *)
(* Start is enabled.                                                       *)
setReadWriteButtonState ==
    /\ User /\ Windows
    /\ buttons' \in {buttons \cup {"start"}, buttons \ {"start"}}
    /\ UNCHANGED <<build, running, box, session, ssl, socket, export, table, device, kind,
                   ghosts, hitch>>

(* What every Start does first.                                            *)
Resets ==
    /\ User /\ "start" \in buttons /\ asked < MaxAsked
    /\ login_get_sid' = FALSE /\ connected_to_wss' = FALSE
    /\ asked' = asked + 1
    /\ irregular' = (irregular \/ asked > 0 \/ leftover)
    /\ UNCHANGED <<build, running, socket, export, device, leftover>>

(* nbd_server_start: the file can be opened and closed again, and          *)
(* Connectedto creates the next SSL socket.                                *)
Connectedto ==
    /\ newest < MaxSockets /\ FreeFds(table) # {}
    /\ ssl' = Append(ssl, NewSocket)
    /\ table' = Given(table, newest + 1)
    /\ hitch' = (asked > 0 \/ leftover)

(* The file cannot be opened: there is a box.                              *)
NoFile ==
    /\ UNCHANGED <<ssl, table>>
    /\ hitch' = TRUE

\* Mutant: Stop is enabled at once, as lines in comments did.
StartedStoppable == (buttons \ {"start"}) \cup {"stop"}

Started == buttons \ {"start"}

(* on_StartB_clicked on Linux.                                             *)
Start ==
    /\ ~Windows /\ Resets
    /\ buttons' = Started
    /\ \/ Connectedto /\ UNCHANGED box
       \/ NoFile /\ box' = "failed"
    /\ UNCHANGED kind

(* on_bStart_clicked: for a device the buttons stay as they are if it      *)
(* cannot be opened; for an image the result is not looked at.             *)
StartWindows ==
    /\ Windows /\ Resets
    /\ \/ /\ Connectedto /\ kind' \in {"device", "image"}
          /\ buttons' = (buttons \ {"start"}) \cup {"stop"}
          /\ UNCHANGED box
       \/ NoFile /\ kind' = "device" /\ UNCHANGED <<buttons, box>>
       \/ NoFile /\ kind' = "image" /\ box' = "image" /\ UNCHANGED buttons

(* The rest of Start when the box of nbd_server_start is closed.           *)
BoxClosed ==
    /\ running = "yes" /\ box # "none" /\ box' = "none"
    /\ buttons' = IF box = "failed" THEN Idle
                  ELSE (buttons \ {"start"}) \cup {"stop"}
    /\ UNCHANGED <<build, running, session, ssl, socket, export, table, device, kind, ghosts,
                   hitch>>

\* Mutant: the slots stay connected.
SlotsKept == UNCHANGED slots

SlotsOff == slots' = 0

(* disconnectFromHost, disconnect() and abort of the WebSocket.            *)
WsTakenDown ==
    /\ link' = "unconnected" /\ SlotsOff
    /\ asked' = 0
    /\ UNCHANGED <<build, box, login_get_sid, export, kind, irregular, hitch>>

(* on_StopB_clicked on Linux.                                              *)
Stop ==
    /\ ~Windows /\ User /\ "stop" \in buttons
    /\ WsTakenDown /\ connected_to_wss' = FALSE
    /\ CloseFh(Released(table, Ws))
    /\ buttons' = Idle
    /\ leftover' = Outstanding
    /\ UNCHANGED ssl

(* The newest SSL socket is closed as well; there may be none.             *)
TakenDownWindows ==
    /\ WsTakenDown
    /\ IF ssl = << >>
         THEN /\ running' = "crashed" /\ leftover' = FALSE
              /\ table' = Released(table, Ws)
              /\ UNCHANGED <<ssl, device>>
         ELSE /\ ssl' = [ssl EXCEPT ![newest] = Down(@)]
              /\ leftover' = \E i \in 1 .. newest - 1 : Waits(ssl[i])
              /\ CloseFh(Released(Released(table, Ws), newest))

(* on_bCancel_clicked.                                                     *)
Cancel ==
    /\ Windows /\ User /\ "stop" \in buttons
    /\ TakenDownWindows /\ connected_to_wss' = FALSE
    /\ buttons' = Idle

(* on_bExit_clicked does not end the program, and leaves the flag.         *)
ExitWindows ==
    /\ Windows /\ User
    /\ TakenDownWindows /\ UNCHANGED connected_to_wss
    /\ buttons' = (buttons \ {"stop"}) \cup {"start"}

(* on_ExitB_clicked.                                                       *)
Exit ==
    /\ ~Windows /\ User /\ running' = "exited"
    /\ UNCHANGED <<build, buttons, box, session, ssl, socket, export, table, device, kind,
                   ghosts, hitch>>

http_get ==
    /\ Len(ssl[newest].requests) < MaxRequests /\ ssl[newest].lines = << >>
    /\ ssl' = [ssl EXCEPT ![newest] = Post(@, "get")]
    /\ UNCHANGED <<build, running, box, session, socket, export, table, device, kind, ghosts,
                   hitch>>

(* on_MountB_clicked and on_UnmountB_clicked.                              *)
Mount ==
    /\ ~Windows /\ User
    /\ \E pressed \in buttons \cap {"mount", "unmount"} :
          buttons' = {"stop"} \cup ({"mount", "unmount"} \ {pressed})
    /\ http_get

(* on_bMountUSB_clicked and on_bUmountUSB_clicked.                         *)
MountWindows ==
    /\ Windows /\ User
    /\ \E pressed \in buttons \cap {"mount", "unmount"} :
          buttons' = (buttons \cup {"mount", "unmount"}) \ {pressed}
    /\ http_get
-----------------------------------------------------------------------------
(* What the network and the BMC owe: connections come up or fail, answers  *)
(* arrive, the client negotiates.                                          *)
Login ==
    /\ running = "yes"
    /\ \E i \in DOMAIN ssl :
          \/ SslConnected(i) \/ SslAnswered(i)
          \/ \E n \in 1 .. Len(ssl[i].lines) : SslMessageReceived(i, n)

Opening == running = "yes" /\ WsConnected

(* What may happen besides.                                                *)
Mishap ==
    /\ running = "yes"
    /\ \/ \E i \in DOMAIN ssl : SslLost(i) \/ SslMessageReceived(i, 0)
       \/ WsLost \/ OptAbort \/ Disc

Buttons ==
    \/ Search \/ setReadWriteButtonState \/ Start \/ StartWindows \/ BoxClosed
    \/ Stop \/ Cancel \/ ExitWindows \/ Exit \/ Mount
    \/ MountWindows

Next == Login \/ Opening \/ Negotiation \/ Mishap \/ Buttons

Spec == Init /\ [][Next]_vars

(* The event loop runs on, also while a box is shown.                      *)
FairSpec == Spec /\ WF_vars(Login) /\ WF_vars(Opening) /\ WF_vars(Negotiation)
-----------------------------------------------------------------------------
(* Properties.                                                             *)

Socket == [link : {"connecting", "up", "down"}, reads : Nat,
           requests : Seq({"login", "get"}),
           lines : Seq({"cookie", "length", "body", "other"})]

\* The types of the window's state; each number belongs to one object.
TypeOK ==
    /\ build \in Builds /\ running \in {"yes", "exited", "crashed", "astray"}
    /\ buttons \subseteq {"start", "stop", "mount", "unmount"}
    /\ box \in {"none", "failed", "image"}
    /\ login_get_sid \in BOOLEAN /\ connected_to_wss \in BOOLEAN
    /\ allowWrite \in BOOLEAN /\ leftover \in BOOLEAN /\ irregular \in BOOLEAN
    /\ offered \in BOOLEAN /\ volume \in BOOLEAN /\ hitch \in BOOLEAN
    /\ ssl \in Seq(Socket)
    /\ link \in {"unconnected", "connecting", "open", "closing"}
    /\ slots \in Nat /\ asked \in 0 .. MaxAsked
    /\ nego \in {"none", "begun", "done"} /\ kind \in {"device", "image"}
    /\ table \in [Fds -> {Free, Device, Ws} \cup DOMAIN ssl]
    /\ fh \in Fds \cup {0, Failed} /\ locked \in Fds \cup {0}

\* Each press of Start connects the slots of the WebSocket once at the most,
\* whatever answers arrive in whatever pieces on whichever SSL socket, and a
\* Stop takes them off: a message is handled once unless Start was pressed
\* again without a Stop.  Only what Stop left under way can connect once more.
ConnectedOncePerStart == slots <= asked + IF leftover THEN 1 ELSE 0

\* Stop, Cancel and DISC close the number of a device or of nothing, although
\* fh is kept over sessions, was never initialised before the first of them, and
\* numbers are given out again, unless Start was pressed twice or Stop left
\* something under way before a Start.
OnlyTheDeviceIsClosed == running = "astray" => irregular

\* A device is open at most once, and none is left open when the session has
\* been stopped, unless Start was pressed twice; what Stop left under way may
\* open one after it.
DeviceClosed ==
    ~irregular =>
        LET devices == { n \in Fds : table[n] = Device }
        IN  /\ Cardinality(devices) <= 1
            /\ asked = 0 /\ ~leftover => devices = {}

\* Windows writes to a volume only while the handle it writes with holds the
\* lock of the volume.
WritesLocked ==
    link = "open" /\ nego = "done" /\ volume /\ allowWrite /\ fh \in Fds
        => locked = fh

\* The Linux window never leaves its user with neither Start nor Stop while
\* nothing is under way, except after a refused login, a lost connection, a
\* device that cannot be opened, an export without a name, or an answer to the
\* login that came in one piece.
NeverLocked ==
    running = "yes" /\ ~Windows /\ box = "none" /\ asked > 0 /\ ~hitch
      /\ buttons \cap {"start", "stop"} = {}
        => \/ Waits(ssl[newest]) \/ link = "connecting"
           \/ link = "open" /\ nego = "begun"

\* A Start ends in an exported device or gives the buttons back, unless one of
\* the mishaps of NeverLocked occurs.
SessionComes ==
    asked > 0 /\ ~connected_to_wss
        ~> \/ link = "open" /\ nego = "done"
           \/ asked = 0 \/ "start" \in buttons \/ hitch \/ running # "yes"
=============================================================================
