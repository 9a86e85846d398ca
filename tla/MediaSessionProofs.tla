------------------------- MODULE MediaSessionProofs -------------------------
(***************************************************************************)
(* Proofs about MediaSession, for any of the programs, any finite set of   *)
(* descriptors and any bounds.                                             *)
(*                                                                         *)
(* What a Start may still connect is counted by the flag connected_to_wss  *)
(* (Connections), because after a Stop that left nothing behind nothing    *)
(* waits that could connect (Quiet).  In a regular session the one device  *)
(* has the number fh, and fh is no number of another object whenever       *)
(* something may close it (Owned).  The login of a session in which        *)
(* nothing went wrong is in one of four stages (Progress).                 *)
(***************************************************************************)
EXTENDS MediaSession, TLAPS, SequenceTheorems, FiniteSetTheorems
-----------------------------------------------------------------------------
(* While NBDMAGIC is answered, a device is open, fh or another.              *)
Offering ==
    link = "open" =>
        /\ fh \in Fds \cup {Failed}
        /\ offered => \E n \in Fds : table[n] = Device

(* 1 when the slots were connected since the last Start.                   *)
Flag == IF connected_to_wss THEN 1 ELSE 0

(* What Stop leaves when nothing was under way.                            *)
Quiet ==
    /\ slots = 0 /\ link = "unconnected"
    /\ \A i \in DOMAIN ssl : ~Waits(ssl[i])
    /\ Windows => ssl = << >> \/ ssl[newest].link = "down"
    /\ ~Windows => buttons \subseteq {"start"}

Connections ==
    /\ slots <= asked + Flag
    /\ ~leftover /\ asked > 0 => slots + 1 <= asked + Flag
    /\ ~leftover /\ asked = 0 => Quiet
    /\ link # "unconnected" => slots > 0
    /\ slots > 0 => ssl # << >>
    /\ box # "none" => asked > 0

(* Only the Windows programs have a box for an image.                      *)
Boxes == box = "image" => Windows

(* No SSL socket but the newest waits for anything.                        *)
Older == \A i \in 1 .. newest - 1 : ~Waits(ssl[i])

(* A session that is regular was asked for once, with nothing behind it.   *)
Regular ==
    ~irregular =>
        /\ asked <= 1
        /\ leftover => asked = 0 /\ ~Windows
        /\ Windows => Older

(* Who has the numbers, and fh, in a regular session.                      *)
Owned ==
    ~irregular =>
        /\ \A n \in Fds : table[n] = Device =>
              n = fh /\ slots > 0 /\ link # "connecting"
        /\ link = "open" /\ offered => fh \in Fds /\ table[fh] = Device
        /\ Windows => \A n \in Fds :
              table[n] \in {Free, Device, Ws} \/ (asked > 0 /\ table[n] = newest)
        /\ ~Windows /\ ~(buttons \subseteq {"start"}) =>
              slots > 0 /\ (fh \in Fds => table[fh] \in {Free, Device})

(* The stages of a login that goes well, as the newest socket s sees it.   *)
LoginStage(s) ==
    \/ s = NewSocket
    \/ s.link = "up" /\ s.requests = <<"login">> /\ s.lines = << >>
    \/ s.link = "up" /\ s.requests = << >> /\ s.lines = <<"cookie", "length", "body">>
    \/ s.link = "up" /\ s.requests = << >> /\ s.lines = <<"body">> /\ login_get_sid

(* A session on Linux in which nothing went wrong.                         *)
Progress ==
    ~Windows /\ asked > 0 /\ ~hitch =>
        /\ asked = 1 /\ ~leftover
        /\ ~connected_to_wss =>
              /\ ssl # << >> /\ LoginStage(ssl[newest])
              /\ Older
              /\ link = "unconnected"
              /\ buttons \cap {"mount", "unmount"} = {}
        /\ connected_to_wss =>
              \/ link = "connecting"
              \/ link = "open" /\ nego = "begun"
              \/ buttons \cap {"start", "stop"} # {}
-----------------------------------------------------------------------------
(* Numbers.                                                                *)

LEMMA FdsFacts == Fds # {} /\ Failed \notin Fds /\ 0 \notin Fds
                  /\ \A n \in Fds : n \in Nat
  BY ConstantsAssumption DEF Failed

LEMMA Bounds == MaxAsked \in Nat
  BY ConstantsAssumption

LEMMA MinFacts ==
    ASSUME NEW S \in SUBSET Fds, S # {}
    PROVE  Min(S) \in S
  <1>1. \E i \in S : \A j \in S : i <= j
    <2> DEFINE R == OpToRel(<, Nat)
    <2>1. IsWellFoundedOn(R, Nat) /\ S \subseteq Nat
      BY NatLessThanWellFounded, FdsFacts
    <2>2. PICK i \in S : \A j \in S : ~(<<j, i>> \in R)
      <3> HIDE DEF R
      <3> QED
        BY <2>1, WFMin
    <2>3. \A j \in S : i <= j
      <3> TAKE j \in S
      <3>1. i \in Nat /\ j \in Nat /\ ~(<<j, i>> \in R)
        BY <2>1, <2>2
      <3> QED
        BY <3>1, Zenon, SMT DEF OpToRel
    <2> QED
      BY <2>3
  <1> QED
    BY <1>1 DEF Min

LEMMA GivenFacts ==
    ASSUME NEW t, DOMAIN t = Fds, FreeFds(t) # {}, NEW owner
    PROVE  /\ Min(FreeFds(t)) \in Fds /\ t[Min(FreeFds(t))] = Free
           /\ Given(t, owner) = [t EXCEPT ![Min(FreeFds(t))] = owner]
  BY MinFacts DEF FreeFds, Given

LEMMA GivenOthers ==
    ASSUME NEW S, NEW t \in [Fds -> S], FreeFds(t) # {}, NEW owner
    PROVE  /\ Given(t, owner) \in [Fds -> S \cup {owner}]
           /\ \A n \in Fds : \/ Given(t, owner)[n] = t[n]
                             \/ t[n] = Free /\ Given(t, owner)[n] = owner
  BY GivenFacts

LEMMA ReleasedFacts ==
    ASSUME NEW S, NEW t \in [Fds -> S], Free \in S, NEW owner
    PROVE  /\ Released(t, owner) \in [Fds -> S]
           /\ \A n \in Fds : Released(t, owner)[n] =
                                IF t[n] = owner THEN Free ELSE t[n]
  BY DEF Released
-----------------------------------------------------------------------------
(* Types.                                                                  *)

Line == {"cookie", "length", "body", "other"}

LEMMA SocketTypes == NewSocket \in Socket
  BY DEF NewSocket, Socket

LEMMA DownFacts ==
    ASSUME NEW s \in Socket
    PROVE  /\ Down(s) \in Socket /\ Down(s).link = "down"
           /\ Down(s).requests = << >> /\ Down(s).lines = << >>
  BY DEF Down, Socket

LEMMA PostFacts ==
    ASSUME NEW s \in Socket, NEW request \in {"login", "get"}
    PROVE  /\ Post(s, request) \in Socket
           /\ Post(s, request).link = s.link /\ Post(s, request).lines = s.lines
           /\ Post(s, request).requests = IF s.link = "down" THEN s.requests
                                          ELSE Append(s.requests, request)
  <1>1. Append(s.requests, request) \in Seq({"login", "get"})
    BY DEF Socket
  <1> QED
    BY <1>1 DEF Post, Socket

LEMMA AnswerTypes ==
    ASSUME NEW request, NEW a \in Answers(request)
    PROVE  a \in Seq(Line)
  <1>1. <<"cookie", "length", "body">> \in Seq(Line)
    BY DEF Line
  <1>2. <<"length", "body">> \in Seq(Line)
    BY DEF Line
  <1>3. <<"other">> \in Seq(Line)
    BY DEF Line
  <1>4. a \in {<<"cookie", "length", "body">>, <<"length", "body">>, <<"other">>}
    BY Zenon DEF Answers
  <1> QED
    BY <1>1, <1>2, <1>3, <1>4, Zenon

Numbers == {Free, Device, Ws} \cup DOMAIN ssl

LEMMA CloseFhTypes ==
    ASSUME TypeOK, NEW t \in [Fds -> Numbers], CloseFh(t)
    PROVE  /\ table' \in [Fds -> Numbers]
           /\ running' \in {"yes", "exited", "crashed", "astray"}
           /\ fh' \in Fds \cup {0, Failed} /\ locked' \in Fds \cup {0}
           /\ allowWrite' \in BOOLEAN
  BY DEF CloseFh, TypeOK, Numbers

LEMMA InitTypes == Init => TypeOK
  <1> SUFFICES ASSUME Init
               PROVE  TypeOK
    OBVIOUS
  <1>1. Min(Fds) \in Fds
    BY FdsFacts, MinFacts
  <1>2. ssl = << >> /\ ssl \in Seq(Socket)
    BY DEF Init
  <1>3. table \in [Fds -> {Free, Device, Ws} \cup DOMAIN ssl]
    BY DEF Init
  <1>4. asked \in 0 .. MaxAsked
    BY ConstantsAssumption DEF Init
  <1> QED
    BY <1>1, <1>2, <1>3, <1>4 DEF Init, TypeOK

(* The slot that takes the lines of a segment either opens the WebSocket,  *)
(* which takes a free number, or leaves it alone.                          *)
Connecting ==
    /\ ~connected_to_wss /\ connected_to_wss' = TRUE
    /\ slots' = slots + 1 /\ link' = "connecting"
    /\ FreeFds(Released(table, Ws)) # {}
    /\ table' = Given(Released(table, Ws), Ws)
    /\ hitch' = hitch

NotConnecting == UNCHANGED <<connected_to_wss, link, slots, table>>

LEMMA Replaced ==
    ASSUME TypeOK, NEW i \in DOMAIN ssl, NEW s \in Socket
    PROVE  /\ [ssl EXCEPT ![i] = s] \in Seq(Socket)
           /\ DOMAIN [ssl EXCEPT ![i] = s] = DOMAIN ssl
           /\ Len([ssl EXCEPT ![i] = s]) = Len(ssl)
  BY DEF TypeOK

LEMMA Elements ==
    ASSUME TypeOK, NEW i \in DOMAIN ssl
    PROVE  /\ ssl[i] \in Socket /\ newest \in DOMAIN ssl /\ ssl[newest] \in Socket
           /\ i \in 1 .. newest /\ newest \in Nat
  BY DEF TypeOK, newest

LEMMA SocketUpdates ==
    ASSUME NEW s \in Socket
    PROVE  /\ [s EXCEPT !.link = "up"] \in Socket
           /\ [s EXCEPT !.reads = @ + 1] \in Socket
  BY DEF Socket

(* onSslConnected.                                                         *)
LEMMA ConnectedFacts ==
    ASSUME TypeOK, NEW i \in DOMAIN ssl, SslConnected(i)
    PROVE  \E s \in Socket, t \in Socket :
             /\ ssl[i].link = "connecting" /\ newest \in DOMAIN ssl
             /\ s = [ssl[i] EXCEPT !.link = "up"]
             /\ t = [(IF i = newest THEN s ELSE ssl[newest]) EXCEPT !.reads = @ + 1]
             /\ ssl' = [[ssl EXCEPT ![i] = s] EXCEPT ![newest] = Post(t, "login")]
             /\ Post(t, "login") \in Socket
  <1> DEFINE s == [ssl[i] EXCEPT !.link = "up"]
             up == [ssl EXCEPT ![i] = s]
             t == [(IF i = newest THEN s ELSE ssl[newest]) EXCEPT !.reads = @ + 1]
  <1>1. ssl[i] \in Socket /\ newest \in DOMAIN ssl /\ ssl[newest] \in Socket
    BY Elements
  <1>2. s \in Socket
    BY <1>1, SocketUpdates, Zenon
  <1>3. t \in Socket
    BY <1>1, <1>2, SocketUpdates, Zenon
  <1>4. up[newest] = IF i = newest THEN s ELSE ssl[newest]
    BY <1>1 DEF TypeOK
  <1>5. ssl' = [up EXCEPT ![newest] = Post([up[newest] EXCEPT !.reads = @ + 1], "login")]
        /\ ssl[i].link = "connecting"
    BY Zenon DEF SslConnected
  <1>6. newest \in DOMAIN up
    BY <1>1 DEF TypeOK
  <1>9. ssl' = [up EXCEPT ![newest] = Post(t, "login")]
    <2> DEFINE q == [up[newest] EXCEPT !.reads = @ + 1]
    <2>1. ssl' = [up EXCEPT ![newest] = Post(q, "login")]
      BY <1>5
    <2>2. q = t
      BY <1>4, Zenon
    <2> QED
      BY <2>1, <2>2, Zenon
  <1>10. Post(t, "login") \in Socket
    BY <1>3, PostFacts
  <1> QED
    BY <1>1, <1>2, <1>3, <1>5, <1>9, <1>10, Zenon

LEMMA ReceivedRange ==
    ASSUME TypeOK, NEW i \in DOMAIN ssl
    PROVE  /\ 0 \in 0 .. Len(ssl[i].lines)
           /\ 1 .. Len(ssl[i].lines) \subseteq 0 .. Len(ssl[i].lines)
  <1>1. ssl[i] \in Socket
    BY DEF TypeOK
  <1>2. Len(ssl[i].lines) \in Nat
    BY <1>1 DEF Socket
  <1> QED
    BY <1>2

LEMMA ReceivedFacts ==
    ASSUME TypeOK, NEW i \in DOMAIN ssl, NEW n \in 0 .. Len(ssl[i].lines),
           SslMessageReceived(i, n)
    PROVE  /\ ssl[i] \in Socket /\ ssl[i].lines # << >> /\ ssl[i].lines \in Seq(Line)
           /\ ssl' = [ssl EXCEPT ![i].lines = SubSeq(@, n + 1, Len(@))]
           /\ ssl' \in Seq(Socket) /\ Len(ssl') = Len(ssl)
           /\ Connecting \/ NotConnecting
           /\ UNCHANGED <<build, running, buttons, box, nego, offered, volume, fh,
                          allowWrite, locked, kind, asked, leftover, irregular>>
           /\ login_get_sid' \in BOOLEAN /\ hitch' \in BOOLEAN
           /\ login_get_sid => login_get_sid'
           /\ hitch => hitch'
  <1>1. ssl[i] \in Socket /\ ssl[i].lines \in Seq(Line)
    <2>1. ssl \in Seq(Socket)
      BY DEF TypeOK
    <2>2. ssl[i] \in Socket
      BY <2>1
    <2> QED
      BY <2>2 DEF Socket, Line
  <1>2. SubSeq(ssl[i].lines, n + 1, Len(ssl[i].lines)) \in Seq(Line)
    BY <1>1, SubSeqProperties
  <1>3. ssl' = [ssl EXCEPT ![i].lines = SubSeq(@, n + 1, Len(@))]
        /\ ssl[i].lines # << >>
    BY DEF SslMessageReceived
  <1>4. [ssl[i] EXCEPT !.lines = SubSeq(@, n + 1, Len(@))] \in Socket
    BY <1>1, <1>2 DEF Socket, Line
  <1>5. ssl' \in Seq(Socket) /\ Len(ssl') = Len(ssl)
    BY <1>3, <1>4 DEF TypeOK
  <1>6. /\ Connecting \/ NotConnecting
        /\ login_get_sid' \in BOOLEAN /\ hitch' \in BOOLEAN
        /\ login_get_sid => login_get_sid'
        /\ hitch => hitch'
    <2> DEFINE seen == IF i # newest THEN {} ELSE { ssl[i].lines[j] : j \in 1 .. n }
               connects == Connects(SidAfter(seen), ssl[i].reads, "length" \in seen)
    <2>1. /\ login_get_sid' = SidAfter(seen)
          /\ \/ connects /\ ConnectedtoWS /\ UNCHANGED hitch
             \/ /\ ~connects /\ UNCHANGED <<connected_to_wss, socket, table>>
                /\ hitch' = (hitch \/ {"cookie", "length", "body"} \subseteq seen)
      BY Zenon DEF SslMessageReceived
    <2>2. login_get_sid' = (login_get_sid \/ "cookie" \in seen)
      BY <2>1, Zenon DEF SidAfter
    <2>3. connects => ~connected_to_wss
      BY Zenon DEF Connects
    <2>4. login_get_sid \in BOOLEAN /\ hitch \in BOOLEAN
      BY Zenon DEF TypeOK
    <2> HIDE DEF seen, connects
    <2>5. /\ login_get_sid' \in BOOLEAN /\ hitch' \in BOOLEAN
          /\ login_get_sid => login_get_sid'
          /\ hitch => hitch'
      BY <2>1, <2>2, <2>4, Zenon
    <2>6. ASSUME connects PROVE Connecting
      BY <2>1, <2>3, <2>6, Zenon DEF ConnectedtoWS, Connecting
    <2>7. ASSUME ~connects PROVE NotConnecting
      BY <2>1, <2>7, Zenon DEF NotConnecting, socket
    <2> QED
      BY <2>5, <2>6, <2>7, Zenon
  <1>7. UNCHANGED <<build, running, buttons, box, nego, offered, volume, fh,
                    allowWrite, locked, kind, asked, leftover, irregular>>
    BY DEF SslMessageReceived, export, device, ghosts
  <1> QED
    BY <1>1, <1>3, <1>5, <1>6, <1>7

(* onConnected: each of the slots opens a device in a number of its own.   *)
LEMMA OpenedFacts ==
    ASSUME TypeOK, WsConnected
    PROVE  \E new \in SUBSET FreeFds(table) :
             /\ IsFiniteSet(new) /\ Cardinality(new) <= slots
             /\ table' = [n \in Fds |-> IF n \in new THEN Device ELSE table[n]]
             /\ fh' \in new \cup {Failed}
             /\ Cardinality(new) = slots => fh' \in new
             /\ nego' = IF new # {} THEN "begun" ELSE nego
             /\ offered' = (new # {}) /\ hitch' = (hitch \/ new = {})
             /\ allowWrite' \in BOOLEAN
             /\ link = "connecting" /\ link' = "open"
             /\ volume' = (volume /\ nego' # "begun")
             /\ UNCHANGED <<build, running, buttons, box, login_get_sid,
                            connected_to_wss, ssl, slots, locked, kind,
                            asked, leftover, irregular>>
  <1>1. PICK new \in SUBSET FreeFds(table) :
             LET failures == slots - Cardinality(new)
             IN  /\ failures >= 0
                 /\ table' = [n \in Fds |-> IF n \in new THEN Device ELSE table[n]]
                 /\ fh' \in new \cup IF failures > 0 THEN {Failed} ELSE {}
                 /\ nego' = IF new # {} THEN "begun" ELSE nego
                 /\ offered' = (new # {})
                 /\ hitch' = (hitch \/ new = {})
                 /\ IF Windows THEN opendeviceWindows ELSE opendevice(failures)
    BY Zenon DEF WsConnected
  <1>2. new \subseteq Fds /\ IsFiniteSet(new) /\ Cardinality(new) \in Nat
    BY ConstantsAssumption, FS_Subset, FS_CardinalityType DEF FreeFds
  <1>3. slots \in Nat
    BY DEF TypeOK
  <1>4. /\ Cardinality(new) <= slots /\ fh' \in new \cup {Failed}
        /\ Cardinality(new) = slots => fh' \in new
    BY <1>1, <1>2, <1>3
  <1>5. allowWrite' \in BOOLEAN
    BY <1>1 DEF opendeviceWindows, opendevice, TypeOK
  <1>6. /\ link = "connecting" /\ link' = "open"
        /\ volume' = (volume /\ nego' # "begun")
        /\ UNCHANGED <<build, running, buttons, box, login_get_sid,
                       connected_to_wss, ssl, slots, locked, kind,
                       asked, leftover, irregular>>
    BY DEF WsConnected, session
  <1> QED
    BY <1>1, <1>2, <1>4, <1>5, <1>6, Zenon

(* Each Start, whatever becomes of it.                                     *)
StartFrame ==
    UNCHANGED <<build, running, link, slots, nego, offered, volume, fh, allowWrite,
                locked, leftover>>

LEMMA StartFacts ==
    ASSUME TypeOK, Start \/ StartWindows
    PROVE  /\ login_get_sid' = FALSE /\ connected_to_wss' = FALSE
           /\ asked < MaxAsked /\ asked' = asked + 1
           /\ irregular' = (irregular \/ asked > 0 \/ leftover)
           /\ StartFrame
           /\ buttons' \subseteq {"start", "stop", "mount", "unmount"}
           /\ ~Windows => buttons' = buttons \ {"start"}
           /\ kind' \in {"device", "image"} /\ box' \in {"none", "failed", "image"}
           /\ box' \in {"none", "failed"} \/ Windows
           /\ hitch' \in BOOLEAN
           /\ Connectedto \/ NoFile
  <1>1. Resets
    BY DEF Start, StartWindows
  <1>2. Connectedto \/ NoFile
    BY DEF Start, StartWindows
  <1>3. hitch' \in BOOLEAN
    BY <1>2 DEF Connectedto, NoFile
  <1>4. buttons' \subseteq {"start", "stop", "mount", "unmount"}
    BY DEF Start, StartWindows, Started, TypeOK
  <1>5. ~Windows => buttons' = buttons \ {"start"}
    BY DEF Start, StartWindows, Started
  <1>6. kind' \in {"device", "image"} /\ box' \in {"none", "failed", "image"}
    BY DEF Start, StartWindows, TypeOK
  <1>7. box' \in {"none", "failed"} \/ Windows
    BY DEF Start, StartWindows, Resets, User
  <1> QED
    BY <1>7, <1>1, <1>2, <1>3, <1>4, <1>5, <1>6
    DEF Resets, StartFrame, socket, export, device

LEMMA ConnectedtoFacts ==
    ASSUME TypeOK, Connectedto
    PROVE  /\ ssl' = Append(ssl, NewSocket) /\ ssl' \in Seq(Socket)
           /\ newest \in Nat /\ Len(ssl') = newest + 1
           /\ \A i \in 1 .. newest : ssl'[i] = ssl[i]
           /\ ssl'[newest + 1] = NewSocket
           /\ table' \in [Fds -> {Free, Device, Ws} \cup DOMAIN ssl']
           /\ \A n \in Fds : \/ table'[n] = table[n]
                             \/ (table[n] = Free /\ table'[n] = newest + 1)
  <1> DEFINE S == {Free, Device, Ws} \cup DOMAIN ssl
  <1>1. /\ ssl' = Append(ssl, NewSocket) /\ FreeFds(table) # {}
        /\ table' = Given(table, newest + 1)
    BY DEF Connectedto
  <1>2. ssl \in Seq(Socket) /\ table \in [Fds -> S]
    BY DEF TypeOK
  <1>3. /\ ssl' \in Seq(Socket)
        /\ newest \in Nat /\ Len(ssl') = newest + 1
        /\ \A i \in 1 .. newest : ssl'[i] = ssl[i]
        /\ ssl'[newest + 1] = NewSocket
        /\ DOMAIN ssl' = 1 .. newest + 1 /\ DOMAIN ssl = 1 .. newest
    BY <1>1, <1>2, SocketTypes DEF newest
  <1>4. /\ table' \in [Fds -> S \cup {newest + 1}]
        /\ \A n \in Fds : \/ table'[n] = table[n]
                          \/ (table[n] = Free /\ table'[n] = newest + 1)
    <2> HIDE DEF S
    <2>1. table' \in [Fds -> S \cup {newest + 1}]
      BY <1>1, <1>2, GivenOthers
    <2>2. /\ Min(FreeFds(table)) \in Fds /\ table[Min(FreeFds(table))] = Free
          /\ table' = [table EXCEPT ![Min(FreeFds(table))] = newest + 1]
      BY <1>1, <1>2, GivenFacts
    <2> QED
      BY <1>2, <2>1, <2>2
  <1>5. S \cup {newest + 1} \subseteq {Free, Device, Ws} \cup DOMAIN ssl'
    BY <1>3
  <1>6. table' \in [Fds -> {Free, Device, Ws} \cup DOMAIN ssl']
    BY <1>4, <1>5
  <1> QED
    BY <1>1, <1>3, <1>4, <1>6

(* Stop, Cancel and Exit.  Of the SSL sockets Windows takes the newest down *)
(* as well; without any it follows a null pointer.                         *)
LEMMA StoppedFacts ==
    ASSUME TypeOK, Stop \/ Cancel \/ ExitWindows
    PROVE  /\ link' = "unconnected" /\ slots' = 0 /\ asked' = 0
           /\ running = "yes" /\ box = "none"
           /\ UNCHANGED <<build, box, login_get_sid, nego, offered, volume, kind,
                          irregular, hitch>>
           /\ connected_to_wss' \in BOOLEAN /\ leftover' \in BOOLEAN
           /\ buttons' \subseteq {"start", "stop", "mount", "unmount"}
           /\ ~Windows => buttons' = {"start"} /\ "stop" \in buttons
           /\ \/ /\ ~Windows /\ CloseFh(Released(table, Ws)) /\ ssl' = ssl
                 /\ leftover' = Outstanding /\ connected_to_wss' = FALSE
              \/ /\ Windows /\ ssl = << >> /\ ssl' = ssl /\ leftover' = FALSE
                 /\ running' = "crashed" /\ table' = Released(table, Ws)
                 /\ UNCHANGED <<fh, allowWrite, locked>>
              \/ /\ Windows /\ ssl # << >>
                 /\ ssl' = [ssl EXCEPT ![newest] = Down(@)]
                 /\ leftover' = \E i \in 1 .. newest - 1 : Waits(ssl[i])
                 /\ CloseFh(Released(Released(table, Ws), newest))
  <1>1. CASE Stop
    BY <1>1, Zenon DEF Stop, WsTakenDown, SlotsOff, Idle, export, Outstanding,
        User
  <1>2. CASE Cancel \/ ExitWindows
    <2> running = "yes" /\ box = "none"
      BY <1>2 DEF Cancel, ExitWindows, User
    <2>1. Windows /\ TakenDownWindows /\ connected_to_wss' \in BOOLEAN
          /\ buttons' \subseteq {"start", "stop", "mount", "unmount"}
      BY <1>2 DEF Cancel, ExitWindows, Idle, TypeOK
    <2>2. /\ link' = "unconnected" /\ slots' = 0 /\ asked' = 0
          /\ UNCHANGED <<build, box, login_get_sid, nego, offered, volume, kind,
                         irregular, hitch>>
      BY <2>1, Zenon DEF TakenDownWindows, WsTakenDown, SlotsOff, export
    <2>3. CASE ssl = << >>
      BY <2>1, <2>2, <2>3, Zenon DEF TakenDownWindows, device
    <2>4. CASE ssl # << >>
      BY <2>1, <2>2, <2>4, Zenon DEF TakenDownWindows
    <2> QED
      BY <2>3, <2>4
  <1> QED
    BY <1>1, <1>2

(* Mount and Unmount ask the newest SSL socket, if there is one.           *)
LEMMA PostedFacts ==
    ASSUME TypeOK, http_get
    PROVE  /\ ssl' \in Seq(Socket) /\ DOMAIN ssl' = DOMAIN ssl /\ Len(ssl') = Len(ssl)
           /\ \A i \in DOMAIN ssl :
                ssl'[i] = IF i = newest THEN Post(ssl[i], "get") ELSE ssl[i]
  <1>1. ssl' = [ssl EXCEPT ![newest] = Post(ssl[newest], "get")]
    BY DEF http_get
  <1>2. CASE ssl = << >>
    <2>1. DOMAIN ssl = {} /\ DOMAIN ssl' = {}
      BY <1>1, <1>2
    <2>2. ssl' \in [1 .. 0 -> Socket]
      <3>1. ssl' = [i \in DOMAIN ssl |-> ssl'[i]]
        BY <1>1
      <3>2. DOMAIN ssl = 1 .. 0
        BY <2>1
      <3> QED
        BY <2>1, <3>1, <3>2
    <2>3. ssl' \in Seq(Socket) /\ Len(ssl') = 0
      BY <2>1, <2>2, SeqDef
    <2> QED
      BY <1>2, <2>1, <2>3
  <1>3. CASE ssl # << >>
    <2>1. newest \in DOMAIN ssl /\ ssl[newest] \in Socket
      BY <1>3 DEF TypeOK, newest
    <2>2. Post(ssl[newest], "get") \in Socket
      BY <2>1, PostFacts
    <2> QED
      BY <1>1, <2>1, <2>2 DEF TypeOK
  <1> QED
    BY <1>2, <1>3

LEMMA TypesStep == TypeOK /\ Offering /\ [Next]_vars => TypeOK'
  <1> SUFFICES ASSUME TypeOK, Offering, [Next]_vars
               PROVE  TypeOK'
    OBVIOUS
  <1> USE DEF newest
  <1>1. CASE UNCHANGED vars
    BY <1>1 DEF TypeOK, vars, session, socket, device, export, ghosts
  <1>2. ASSUME NEW i \in DOMAIN ssl, SslConnected(i)
        PROVE  TypeOK'
    <2>1. PICK s \in Socket, t \in Socket :
             /\ newest \in DOMAIN ssl /\ Post(t, "login") \in Socket
             /\ ssl' = [[ssl EXCEPT ![i] = s] EXCEPT ![newest] = Post(t, "login")]
      BY <1>2, ConnectedFacts, ZenonT(60)
    <2>2. ssl' \in Seq(Socket) /\ DOMAIN ssl' = DOMAIN ssl
      BY <2>1 DEF TypeOK
    <2> QED
      BY <1>2, <2>2 DEF SslConnected, TypeOK, session, socket, device, export, ghosts
  <1>3. ASSUME NEW i \in DOMAIN ssl, SslAnswered(i)
        PROVE  TypeOK'
    <2>1. PICK a \in Answers(Head(ssl[i].requests)) :
             ssl' = [ssl EXCEPT ![i].requests = Tail(@), ![i].lines = @ \o a]
      BY <1>3, Zenon DEF SslAnswered
    <2>2. ssl[i] \in Socket /\ ssl[i].requests # << >> /\ a \in Seq(Line)
      BY <1>3, Elements, AnswerTypes DEF SslAnswered
    <2>3. [ssl[i] EXCEPT !.requests = Tail(@), !.lines = @ \o a] \in Socket
      <3>1. /\ ssl[i].requests \in Seq({"login", "get"})
            /\ ssl[i].lines \in Seq(Line)
        BY <2>2 DEF Socket, Line
      <3>2. /\ Tail(ssl[i].requests) \in Seq({"login", "get"})
            /\ ssl[i].lines \o a \in Seq(Line)
        BY <2>2, <3>1
      <3> QED
        BY <2>2, <3>2 DEF Socket, Line
    <2>4. ssl' = [ssl EXCEPT ![i] = [ssl[i] EXCEPT !.requests = Tail(@), !.lines = @ \o a]]
      BY <2>1, Zenon
    <2>5. ssl' \in Seq(Socket) /\ DOMAIN ssl' = DOMAIN ssl
      BY <2>3, <2>4, Replaced, Zenon
    <2> QED
      BY <1>3, <2>5 DEF SslAnswered, TypeOK, session, socket, device, export, ghosts
  <1>4. ASSUME NEW i \in DOMAIN ssl, NEW n \in 0 .. Len(ssl[i].lines),
               SslMessageReceived(i, n)
        PROVE  TypeOK'
    <2>1. /\ ssl' \in Seq(Socket) /\ Len(ssl') = Len(ssl)
          /\ Connecting \/ NotConnecting
          /\ UNCHANGED <<build, running, buttons, box, nego, offered, volume, fh,
                         allowWrite, locked, kind, asked, leftover, irregular>>
          /\ login_get_sid' \in BOOLEAN /\ hitch' \in BOOLEAN
      BY <1>4, ReceivedFacts, Zenon
    <2>2. DOMAIN ssl' = DOMAIN ssl
      BY <2>1 DEF TypeOK
    <2>3. CASE NotConnecting
      BY <2>1, <2>2, <2>3 DEF NotConnecting, TypeOK
    <2>4. CASE Connecting
      <3>1. table \in [Fds -> Numbers]
        BY DEF TypeOK, Numbers
      <3>2. Released(table, Ws) \in [Fds -> Numbers]
        BY <3>1, ReleasedFacts DEF Numbers
      <3>3. table' \in [Fds -> Numbers \cup {Ws}]
        BY <2>4, <3>2, GivenOthers DEF Connecting
      <3>4. table' \in [Fds -> {Free, Device, Ws} \cup DOMAIN ssl']
        BY <2>2, <3>3 DEF Numbers
      <3> QED
        BY <2>1, <2>4, <3>4 DEF Connecting, TypeOK
    <2> QED
      BY <2>1, <2>3, <2>4
  <1>5. ASSUME NEW i \in DOMAIN ssl, SslLost(i)
        PROVE  TypeOK'
    <2>1. ssl' = [ssl EXCEPT ![i] = Down(ssl[i])] /\ table' = Released(table, i)
          /\ hitch' \in BOOLEAN
      BY <1>5 DEF SslLost, TypeOK
    <2>2. Down(ssl[i]) \in Socket
      BY Elements, DownFacts
    <2>3. ssl' \in Seq(Socket) /\ DOMAIN ssl' = DOMAIN ssl
      BY <2>1, <2>2, Replaced
    <2>4. table' \in [Fds -> {Free, Device, Ws} \cup DOMAIN ssl]
      BY <2>1, ReleasedFacts DEF TypeOK
    <2> QED
      BY <1>5, <2>1, <2>3, <2>4 DEF SslLost, TypeOK, session, socket, device, export, ghosts
  <1>6. CASE WsConnected
    <2>1. PICK new \in SUBSET FreeFds(table) :
             /\ table' = [n \in Fds |-> IF n \in new THEN Device ELSE table[n]]
             /\ fh' \in new \cup {Failed}
             /\ nego' = IF new # {} THEN "begun" ELSE nego
             /\ offered' = (new # {}) /\ hitch' = (hitch \/ new = {})
             /\ allowWrite' \in BOOLEAN /\ link' = "open"
             /\ volume' = (volume /\ nego' # "begun")
             /\ UNCHANGED <<build, running, buttons, box, login_get_sid,
                            connected_to_wss, ssl, slots, locked, kind,
                            asked, leftover, irregular>>
      BY <1>6, OpenedFacts, Zenon
    <2>2. fh' \in Fds \cup {Failed}
      BY <2>1 DEF FreeFds
    <2>3. table' \in [Fds -> {Free, Device, Ws} \cup DOMAIN ssl']
      BY <2>1 DEF TypeOK
    <2> QED
      BY <2>1, <2>2, <2>3 DEF TypeOK
  <1>7. CASE Negotiation
    <2>1. PICK named \in BOOLEAN :
             /\ \/ Windows /\ NegotiatedWindows(named)
                \/ ~Windows /\ Negotiated(named)
             /\ hitch' = (hitch \/ ~named)
      BY <1>7, Zenon DEF Negotiation
    <2>2. /\ buttons' \subseteq {"start", "stop", "mount", "unmount"}
          /\ volume' \in BOOLEAN
      BY <2>1 DEF NegotiatedWindows, Negotiated, Lock, TypeOK
    <2>3. PICK n \in Fds : table[n] = Device
      BY <1>7, Zenon DEF Negotiation, Offering
    <2>4. ASSUME Lock PROVE allowWrite' \in BOOLEAN /\ locked' \in Fds \cup {0}
      <3>1. fh \in Fds \/ (fh = Failed /\ n \in Fds \ {fh})
        <4>1. fh \in Fds \cup {Failed}
          BY <1>7, Zenon DEF Negotiation, Offering
        <4> QED
          BY <2>3, <4>1, FdsFacts
      <3> QED
        BY <2>3, <2>4, <3>1 DEF Lock, TypeOK
    <2>5. allowWrite' \in BOOLEAN /\ locked' \in Fds \cup {0}
      BY <2>1, <2>4 DEF NegotiatedWindows, Negotiated, TypeOK
    <2> QED
      BY <1>7, <2>1, <2>2, <2>5 DEF Negotiation, TypeOK, session, socket, ghosts
  <1>8. CASE OptAbort
    BY <1>8 DEF OptAbort, Aborted, Idle, TypeOK, session, socket, device, export, ghosts
  <1>9. CASE Disc
    <2>1. CloseFh(table) /\ table \in [Fds -> Numbers]
      BY <1>9 DEF Disc, TypeOK, Numbers
    <2> QED
      BY <1>9, <2>1, CloseFhTypes
      DEF Disc, TypeOK, Numbers, session, socket, device, export, ghosts
  <1>10. CASE WsLost
    <2>1. table' \in [Fds -> {Free, Device, Ws} \cup DOMAIN ssl']
      BY <1>10, ReleasedFacts DEF WsLost, TypeOK
    <2> QED
      BY <1>10, <2>1 DEF WsLost, TypeOK, session, socket, device, export, ghosts
  <1>11. CASE Search
    BY <1>11 DEF Search, TypeOK, session, socket, device, export, ghosts
  <1>12. CASE setReadWriteButtonState
    BY <1>12 DEF setReadWriteButtonState, TypeOK, session, socket, device, export, ghosts
  <1>13. CASE Start \/ StartWindows
    <2>1. ssl' \in Seq(Socket)
          /\ table' \in [Fds -> {Free, Device, Ws} \cup DOMAIN ssl']
      <3>1. CASE Connectedto
        BY <3>1, ConnectedtoFacts
      <3>2. CASE NoFile
        BY <3>2 DEF NoFile, TypeOK
      <3> QED
        BY <1>13, <3>1, <3>2, StartFacts
    <2>2. asked' \in 0 .. MaxAsked
      <3>1. asked < MaxAsked /\ asked' = asked + 1
        BY <1>13, StartFacts, Zenon
      <3> QED
        BY <3>1, Bounds DEF TypeOK
    <2>3. /\ login_get_sid' = FALSE /\ connected_to_wss' = FALSE
          /\ irregular' = (irregular \/ asked > 0 \/ leftover)
          /\ StartFrame
          /\ buttons' \subseteq {"start", "stop", "mount", "unmount"}
          /\ kind' \in {"device", "image"} /\ box' \in {"none", "failed", "image"}
          /\ hitch' \in BOOLEAN
      BY <1>13, StartFacts, Zenon
    <2> QED
      BY <2>1, <2>2, <2>3, ZenonT(60) DEF StartFrame, TypeOK
  <1>15. CASE BoxClosed
    BY <1>15 DEF BoxClosed, Idle, TypeOK, session, socket, device, export, ghosts
  <1>16. CASE Stop \/ Cancel \/ ExitWindows
    <2> DEFINE t == Released(table, Ws)
    <2>1. t \in [Fds -> Numbers] /\ Released(t, newest) \in [Fds -> Numbers]
      BY ReleasedFacts DEF TypeOK, Numbers
    <2>2. ssl' \in Seq(Socket) /\ DOMAIN ssl' = DOMAIN ssl
      <3>1. ASSUME ssl # << >>
            PROVE  newest \in DOMAIN ssl /\ Down(ssl[newest]) \in Socket
        BY <3>1, DownFacts DEF TypeOK
      <3> QED
        <4>1. CASE ssl' = ssl
          BY <4>1 DEF TypeOK
        <4>2. CASE ssl # << >> /\ ssl' = [ssl EXCEPT ![newest] = Down(@)]
          BY <3>1, <4>2, Replaced
        <4> QED
          BY <1>16, <4>1, <4>2, StoppedFacts, Zenon
    <2>3. /\ table' \in [Fds -> Numbers]
          /\ running' \in {"yes", "exited", "crashed", "astray"}
          /\ fh' \in Fds \cup {0, Failed} /\ locked' \in Fds \cup {0}
          /\ allowWrite' \in BOOLEAN
      <3> HIDE DEF t
      <3>1. CASE CloseFh(t) \/ CloseFh(Released(t, newest))
        BY <2>1, <3>1, CloseFhTypes
      <3>2. CASE running' = "crashed" /\ table' = t /\ UNCHANGED <<fh, allowWrite, locked>>
        BY <2>1, <3>2 DEF TypeOK
      <3> QED
        BY <1>16, <3>1, <3>2, StoppedFacts, Zenon DEF t
    <2>4. asked' \in 0 .. MaxAsked /\ slots' \in Nat
      <3>1. asked' = 0 /\ slots' = 0
        BY <1>16, StoppedFacts, Zenon
      <3> QED
        BY <3>1, Bounds
    <2>5. /\ link' = "unconnected"
          /\ UNCHANGED <<build, box, login_get_sid, nego, offered, volume, kind,
                         irregular, hitch>>
          /\ connected_to_wss' \in BOOLEAN /\ leftover' \in BOOLEAN
          /\ buttons' \subseteq {"start", "stop", "mount", "unmount"}
      BY <1>16, StoppedFacts, Zenon
    <2> QED
      BY <2>2, <2>3, <2>4, <2>5 DEF TypeOK, Numbers
  <1>19. CASE Exit
    BY <1>19 DEF Exit, TypeOK, session, socket, device, export, ghosts
  <1>20. CASE Mount \/ MountWindows
    <2>1. ssl' \in Seq(Socket) /\ DOMAIN ssl' = DOMAIN ssl
      BY <1>20, PostedFacts DEF Mount, MountWindows
    <2>2. buttons' \subseteq {"start", "stop", "mount", "unmount"}
      BY <1>20 DEF Mount, MountWindows, TypeOK
    <2> QED
      BY <1>20, <2>1, <2>2
      DEF Mount, MountWindows, http_get, TypeOK, session, socket, device, export, ghosts
  <1> QED
    BY <1>1, <1>2, <1>3, <1>4, <1>5, <1>6, <1>7, <1>8, <1>9, <1>10, <1>11, <1>12,
       <1>13, <1>15, <1>16, <1>19, <1>20, ReceivedRange
       DEF Next, Login, Opening, Mishap, Buttons
-----------------------------------------------------------------------------
(* What the actions change of the SSL sockets and of the numbers.          *)

LEMMA DownWaits ==
    ASSUME NEW s \in Socket
    PROVE  /\ ~Waits(Down(s)) /\ Down(s).link = "down"
           /\ s.link = "down" => Post(s, "get") = s
  BY DownFacts DEF Waits, Post

LEMMA LoginFacts ==
    ASSUME TypeOK, NEW i \in DOMAIN ssl, SslConnected(i) \/ SslAnswered(i)
    PROVE  /\ Waits(ssl[i]) /\ Len(ssl') = Len(ssl)
           /\ UNCHANGED <<build, running, buttons, box, login_get_sid,
                          connected_to_wss, link, slots, nego, offered, volume, table,
                          fh, allowWrite, locked, kind, asked, leftover, irregular>>
           /\ hitch => hitch'
  <1>1. CASE SslConnected(i)
    <2>1. PICK s \in Socket, t \in Socket :
             ssl' = [[ssl EXCEPT ![i] = s] EXCEPT ![newest] = Post(t, "login")]
      BY <1>1, ConnectedFacts, ZenonT(60)
    <2>2. Len(ssl') = Len(ssl)
      BY <2>1 DEF TypeOK
    <2> QED
      BY <1>1, <2>2, Zenon
      DEF SslConnected, Waits, session, socket, export, device, ghosts
  <1>2. CASE SslAnswered(i)
    <2>1. PICK a \in Answers(Head(ssl[i].requests)) :
             /\ ssl' = [ssl EXCEPT ![i].requests = Tail(@), ![i].lines = @ \o a]
             /\ hitch' = (hitch \/ (Head(ssl[i].requests) = "login" /\ a[1] # "cookie"))
      BY <1>2, Zenon DEF SslAnswered
    <2>2. Len(ssl') = Len(ssl)
      BY <2>1 DEF TypeOK
    <2> QED
      BY <1>2, <2>1, <2>2, Zenon
      DEF SslAnswered, Waits, session, socket, export, device, ghosts
  <1> QED
    BY <1>1, <1>2

LEMMA LostFacts ==
    ASSUME TypeOK, NEW i \in DOMAIN ssl, SslLost(i)
    PROVE  /\ Len(ssl') = newest /\ DOMAIN ssl' = DOMAIN ssl /\ i \in 1 .. newest
           /\ \A j \in DOMAIN ssl : ssl'[j] = IF j = i THEN Down(ssl[j]) ELSE ssl[j]
           /\ \A n \in Fds : table'[n] = IF table[n] = i THEN Free ELSE table[n]
           /\ hitch' = (hitch \/ Waits(ssl[i]))
           /\ UNCHANGED <<build, running, buttons, box, login_get_sid,
                          connected_to_wss, link, slots, nego, offered, volume,
                          fh, allowWrite, locked, kind, asked, leftover, irregular>>
  <1>1. /\ ssl' = [ssl EXCEPT ![i] = Down(@)] /\ table' = Released(table, i)
        /\ hitch' = (hitch \/ Waits(ssl[i]))
        /\ UNCHANGED <<build, running, buttons, box, login_get_sid,
                       connected_to_wss, link, slots, nego, offered, volume,
                       fh, allowWrite, locked, kind, asked, leftover, irregular>>
    BY Zenon DEF SslLost, session, socket, export, device, ghosts
  <1>2. ssl \in Seq(Socket) /\ table \in [Fds -> Numbers] /\ Free \in Numbers
    BY DEF TypeOK, Numbers
  <1>3. \A n \in Fds : table'[n] = IF table[n] = i THEN Free ELSE table[n]
    BY <1>1, <1>2, ReleasedFacts
  <1>4. /\ Len(ssl') = newest /\ DOMAIN ssl' = DOMAIN ssl
        /\ \A j \in DOMAIN ssl : ssl'[j] = IF j = i THEN Down(ssl[j]) ELSE ssl[j]
    BY <1>1, <1>2 DEF newest
  <1> QED
    BY <1>1, <1>3, <1>4, Elements

LEMMA ConnectingTable ==
    ASSUME TypeOK, Connecting
    PROVE  \A n \in Fds : \/ table'[n] = table[n]
                          \/ (table[n] = Ws /\ table'[n] = Free)
                          \/ (table[n] = Free /\ table'[n] = Ws)
  <1> DEFINE t == Released(table, Ws)
  <1>1. table \in [Fds -> Numbers] /\ Free \in Numbers
    BY DEF TypeOK, Numbers
  <1>2. t \in [Fds -> Numbers]
        /\ \A n \in Fds : t[n] = IF table[n] = Ws THEN Free ELSE table[n]
    BY <1>1, ReleasedFacts
  <1>3. FreeFds(t) # {} /\ table' = Given(t, Ws)
    BY Zenon DEF Connecting
  <1> HIDE DEF t
  <1>4. /\ Min(FreeFds(t)) \in Fds /\ t[Min(FreeFds(t))] = Free
        /\ table' = [t EXCEPT ![Min(FreeFds(t))] = Ws]
    BY <1>2, <1>3, GivenFacts
  <1> QED
    BY <1>2, <1>4

LEMMA ClosedTable ==
    ASSUME TypeOK, NEW t \in [Fds -> Numbers], CloseFh(t)
    PROVE  /\ \A n \in Fds : table'[n] = IF n = fh THEN Free ELSE t[n]
           /\ running' = running
                \/ (running' = "astray" /\ fh \in Fds /\ t[fh] \notin {Free, Device})
           /\ UNCHANGED <<fh, allowWrite>>
  BY DEF CloseFh

(* What a Stop leaves of the numbers, and what its close may have hit.     *)
LEMMA StoppedTable ==
    ASSUME TypeOK, Stop \/ Cancel \/ ExitWindows
    PROVE  /\ \A n \in Fds :
                table'[n] = IF \/ table[n] = Ws \/ (Windows /\ table[n] = newest)
                               \/ (running' # "crashed" /\ n = fh)
                              THEN Free ELSE table[n]
           /\ UNCHANGED fh
           /\ running' = "crashed" => Windows /\ ssl = << >>
           /\ running' = "astray" =>
                 /\ fh \in Fds /\ table[fh] \notin {Free, Device, Ws}
                 /\ Windows => table[fh] # newest
  <1> DEFINE t == Released(table, Ws)
             u == Released(t, newest)
  <1>1. table \in [Fds -> Numbers] /\ Free \in Numbers
    BY DEF TypeOK, Numbers
  <1>2. /\ t \in [Fds -> Numbers]
        /\ \A n \in Fds : t[n] = IF table[n] = Ws THEN Free ELSE table[n]
    BY <1>1, ReleasedFacts
  <1>3. /\ u \in [Fds -> Numbers]
        /\ \A n \in Fds : u[n] = IF t[n] = newest THEN Free ELSE t[n]
    <2> HIDE DEF t
    <2> QED
      BY <1>1, <1>2, ReleasedFacts
  <1>4. running = "yes" /\ Free # Ws
    BY DEF Stop, Cancel, ExitWindows, User, Free, Ws
  <1>5. \/ ~Windows /\ CloseFh(t)
        \/ /\ Windows /\ ssl = << >> /\ running' = "crashed" /\ table' = t
           /\ UNCHANGED fh
        \/ Windows /\ ssl # << >> /\ CloseFh(u)
    BY StoppedFacts, Zenon
  <1> HIDE DEF t, u
  <1>6. CASE ~Windows /\ CloseFh(t)
    BY <1>1, <1>2, <1>4, <1>6, ClosedTable
  <1>7. CASE /\ Windows /\ ssl = << >> /\ running' = "crashed" /\ table' = t
             /\ UNCHANGED fh
    BY <1>2, <1>4, <1>7 DEF newest, Free
  <1>8. CASE Windows /\ ssl # << >> /\ CloseFh(u)
    BY <1>1, <1>2, <1>3, <1>4, <1>8, ClosedTable
  <1> QED
    BY <1>5, <1>6, <1>7, <1>8
-----------------------------------------------------------------------------
(* The steps that leave a part of the state alone.                         *)

LEMMA OfferingStep == TypeOK /\ Offering /\ [Next]_vars => Offering'
  <1> SUFFICES ASSUME TypeOK, Offering, [Next]_vars
               PROVE  Offering'
    OBVIOUS
  <1> USE DEF Offering
  <1>1. CASE UNCHANGED <<link, fh, offered, table>>
    BY <1>1
  <1>2. CASE link' # "open"
    BY <1>2
  <1>3. ASSUME NEW i \in DOMAIN ssl, NEW n \in 0 .. Len(ssl[i].lines),
               SslMessageReceived(i, n)
        PROVE  Offering'
    <2>1. /\ Connecting \/ NotConnecting
          /\ UNCHANGED <<fh, offered>>
      BY <1>3, ReceivedFacts, Zenon
    <2> QED
      BY <1>1, <1>2, <2>1 DEF Connecting, NotConnecting
  <1>4. ASSUME NEW i \in DOMAIN ssl, SslLost(i)
        PROVE  Offering'
    <2>1. /\ i \in Nat \ {0} /\ UNCHANGED <<link, fh, offered>>
          /\ \A n \in Fds : table'[n] = IF table[n] = i THEN Free ELSE table[n]
      BY <1>4, LostFacts, Elements
    <2> QED
      BY <2>1 DEF Device
  <1>5. CASE WsConnected
    <2>1. PICK new \in SUBSET FreeFds(table) :
             /\ table' = [n \in Fds |-> IF n \in new THEN Device ELSE table[n]]
             /\ fh' \in new \cup {Failed}
             /\ offered' = (new # {})
      BY <1>5, OpenedFacts, Zenon
    <2> QED
      BY <2>1 DEF FreeFds
  <1>6. CASE Start \/ StartWindows
    <2>1. UNCHANGED <<link, fh, offered>>
      BY <1>6, StartFacts, Zenon DEF StartFrame
    <2>2. \A n \in Fds : table[n] = Device => table'[n] = Device
      <3>1. CASE Connectedto
        BY <3>1, ConnectedtoFacts DEF Device, Free
      <3>2. CASE NoFile
        BY <3>2 DEF NoFile
      <3> QED
        BY <1>6, <3>1, <3>2, StartFacts, Zenon
    <2> QED
      BY <2>1, <2>2
  <1> QED
    <2>1. ASSUME NEW i \in DOMAIN ssl, SslConnected(i) \/ SslAnswered(i)
          PROVE  Offering'
      BY <1>1, <2>1 DEF SslConnected, SslAnswered, socket, device, export
    <2>2. CASE Negotiation \/ Search \/ setReadWriteButtonState \/ BoxClosed \/ Exit
               \/ Mount \/ MountWindows \/ UNCHANGED vars
      <3>1. UNCHANGED <<link, fh, offered, table>>
        BY <2>2 DEF Negotiation, Search, setReadWriteButtonState, BoxClosed, Exit, Mount,
                    MountWindows, http_get, vars, socket, device, export
      <3> QED
        BY <1>1, <3>1
    <2>3. CASE OptAbort \/ Disc \/ WsLost \/ Stop \/ Cancel \/ ExitWindows
      <3>1. CASE OptAbort \/ Disc \/ WsLost
        BY <1>2, <3>1 DEF OptAbort, Disc, WsLost
      <3>2. CASE Stop \/ Cancel \/ ExitWindows
        BY <1>2, <3>2, StoppedFacts
      <3> QED
        BY <2>3, <3>1, <3>2
    <2> QED
      BY <1>3, <1>4, <1>5, <1>6, <2>1, <2>2, <2>3, ReceivedRange
      DEF Next, Login, Opening, Mishap, Buttons

LEMMA ConnectionsStep ==
    TypeOK /\ TypeOK' /\ Connections /\ [Next]_vars => Connections'
  <1> SUFFICES ASSUME TypeOK, TypeOK', Connections, [Next]_vars
               PROVE  Connections'
    OBVIOUS
  <1>1. /\ slots \in Nat /\ slots' \in Nat /\ asked \in Nat /\ asked' \in Nat
        /\ Flag \in {0, 1} /\ Flag' \in {0, 1}
        /\ newest \in Nat /\ DOMAIN ssl = 1 .. newest
    BY Bounds DEF TypeOK, Flag, newest
  <1>2. CASE UNCHANGED <<build, buttons, box, ssl, link, slots, asked, leftover,
                         connected_to_wss>>
    BY <1>2 DEF Connections, Quiet, Flag, newest, Windows, Waits
  <1>3. ASSUME NEW i \in DOMAIN ssl, SslConnected(i) \/ SslAnswered(i)
        PROVE  Connections'
    <2>1. /\ Waits(ssl[i]) /\ Len(ssl') = Len(ssl)
          /\ UNCHANGED <<box, connected_to_wss, link, slots, asked, leftover>>
      BY <1>3, LoginFacts, Zenon
    <2>2. ~Quiet
      BY <2>1 DEF Quiet
    <2> QED
      BY <2>1, <2>2 DEF Connections, Flag
  <1>4. ASSUME NEW i \in DOMAIN ssl, NEW n \in 0 .. Len(ssl[i].lines),
               SslMessageReceived(i, n)
        PROVE  Connections'
    <2>1. /\ ssl[i].lines # << >> /\ Len(ssl') = Len(ssl)
          /\ Connecting \/ NotConnecting
          /\ UNCHANGED <<box, asked, leftover>>
      BY <1>4, ReceivedFacts, Zenon
    <2>2. ~Quiet
      <3>1. Waits(ssl[i])
        BY <2>1, Zenon DEF Waits
      <3> QED
        BY <3>1, Zenon DEF Quiet
    <2>3. CASE NotConnecting
      BY <2>1, <2>2, <2>3 DEF NotConnecting, Connections, Flag
    <2>4. CASE Connecting
      <3>1. Flag = 0 /\ Flag' = 1 /\ slots' = slots + 1 /\ ssl' # << >>
        BY <2>1, <2>4 DEF Connecting, Flag
      <3> QED
        BY <1>1, <2>1, <2>2, <3>1 DEF Connections
    <2> QED
      BY <2>1, <2>3, <2>4
  <1>5. ASSUME NEW i \in DOMAIN ssl, SslLost(i)
        PROVE  Connections'
    <2>1. /\ Len(ssl') = newest /\ DOMAIN ssl' = DOMAIN ssl
          /\ \A j \in DOMAIN ssl : ssl'[j] = IF j = i THEN Down(ssl[j]) ELSE ssl[j]
          /\ UNCHANGED <<build, buttons, box, connected_to_wss, link, slots, asked,
                         leftover>>
      BY <1>5, LostFacts, Zenon
    <2>2. \A j \in DOMAIN ssl : ~Waits(Down(ssl[j])) /\ Down(ssl[j]).link = "down"
      BY DownWaits, Elements
    <2>3. Quiet => Quiet'
      <3>1. ASSUME Quiet, NEW j \in DOMAIN ssl
            PROVE  ~Waits(ssl'[j])
        BY <2>1, <2>2, <3>1 DEF Quiet
      <3>2. ASSUME Quiet, Windows
            PROVE  ssl' = << >> \/ ssl'[newest].link = "down"
        BY <1>1, <2>1, <2>2, <3>2 DEF Quiet, TypeOK
      <3> QED
        BY <2>1, <3>1, <3>2 DEF Quiet, Windows, newest, Waits
    <2> QED
      BY <2>1, <2>3 DEF Connections, Flag, newest
  <1>6. CASE WsConnected \/ Negotiation \/ OptAbort \/ Disc
    <2>1. /\ link # "unconnected" /\ link' # "unconnected"
          /\ UNCHANGED <<box, connected_to_wss, ssl, slots, asked, leftover>>
      BY <1>6 DEF WsConnected, Negotiation, OptAbort, Disc, session, socket, ghosts
    <2> QED
      BY <2>1 DEF Connections, Quiet, Flag
  <1>7. CASE WsLost
    BY <1>7 DEF WsLost, Connections, Quiet, Flag, session, ghosts
  <1>8. CASE Search \/ setReadWriteButtonState \/ BoxClosed
    <2>1. /\ UNCHANGED <<build, connected_to_wss, ssl, link, slots, asked, leftover>>
          /\ box' # "none" => box' = box
          /\ buttons \subseteq {"start"} /\ ~Windows /\ box = "none"
               => buttons' \subseteq {"start"}
      BY <1>8 DEF Search, setReadWriteButtonState, BoxClosed, session, socket, ghosts
    <2> QED
      BY <2>1 DEF Connections, Quiet, Flag, Windows, newest, Waits
  <1>9. CASE Start \/ StartWindows
    <2>1. /\ Flag' = 0 /\ asked' = asked + 1 /\ UNCHANGED <<link, slots, leftover>>
      BY <1>9, StartFacts, Zenon DEF StartFrame, Flag
    <2>2. ssl # << >> => ssl' # << >>
      <3>1. CASE Connectedto
        BY <3>1, ConnectedtoFacts
      <3>2. CASE NoFile
        BY <3>2 DEF NoFile
      <3> QED
        BY <1>9, <3>1, <3>2, StartFacts, Zenon
    <2> QED
      BY <1>1, <2>1, <2>2 DEF Connections, Quiet
  <1>10. CASE Stop \/ Cancel \/ ExitWindows
    <2>1. /\ link' = "unconnected" /\ slots' = 0 /\ asked' = 0 /\ box' = "none"
          /\ build' = build /\ (~Windows => buttons' = {"start"})
      <3>1. link' = "unconnected" /\ slots' = 0 /\ asked' = 0
        BY <1>10, StoppedFacts
      <3>2. box = "none" /\ box' = box /\ build' = build
        BY <1>10, StoppedFacts
      <3>3. ~Windows => buttons' = {"start"}
        BY <1>10, StoppedFacts
      <3> QED
        BY <3>1, <3>2, <3>3
    <2>2. ASSUME ~leftover'
          PROVE  Quiet'
      <3>1. CASE ~Windows /\ ssl' = ssl /\ leftover' = Outstanding
        BY <2>1, <2>2, <3>1 DEF Quiet, Outstanding, Windows
      <3>2. CASE Windows /\ ssl = << >> /\ ssl' = ssl
        BY <2>1, <3>2 DEF Quiet, Windows
      <3>3. CASE /\ Windows /\ ssl # << >>
                 /\ ssl' = [ssl EXCEPT ![newest] = Down(@)]
                 /\ leftover' = \E i \in 1 .. newest - 1 : Waits(ssl[i])
        <4>1. /\ newest \in DOMAIN ssl /\ ssl[newest] \in Socket
              /\ Len(ssl') = newest /\ DOMAIN ssl' = DOMAIN ssl
              /\ \A j \in DOMAIN ssl : ssl'[j] = IF j = newest THEN Down(ssl[j])
                                                            ELSE ssl[j]
          BY <3>3 DEF TypeOK, newest
        <4>2. ~Waits(Down(ssl[newest])) /\ Down(ssl[newest]).link = "down"
          BY <4>1, DownWaits
        <4>3. \A j \in DOMAIN ssl' : ~Waits(ssl'[j])
          BY <1>1, <2>2, <3>3, <4>1, <4>2
        <4> QED
          BY <2>1, <3>3, <4>1, <4>2, <4>3 DEF Quiet, Windows, newest
      <3> QED
        BY <1>10, <3>1, <3>2, <3>3, StoppedFacts, Zenon
    <2>3. ~leftover' => Quiet'
      BY <2>2, Zenon
    <2> QED
      BY <2>1, <2>3 DEF Connections, Flag
  <1>11. CASE Mount \/ MountWindows
    <2>1. /\ http_get /\ buttons \cap {"mount", "unmount"} # {}
          /\ UNCHANGED <<build, box, connected_to_wss, link, slots, asked, leftover>>
          /\ (Mount /\ ~Windows) \/ (MountWindows /\ Windows)
      BY <1>11 DEF Mount, MountWindows, http_get, session, socket, ghosts
    <2>2. /\ DOMAIN ssl' = DOMAIN ssl /\ Len(ssl') = Len(ssl)
          /\ \A i \in DOMAIN ssl :
                ssl'[i] = IF i = newest THEN Post(ssl[i], "get") ELSE ssl[i]
      BY <2>1, PostedFacts
    <2>3. CASE ~Windows
      <3>1. ~Quiet
        BY <2>1, <2>3 DEF Quiet
      <3> QED
        BY <2>1, <2>2, <3>1 DEF Connections, Flag
    <2>4. CASE Windows
      <3>1. ASSUME Quiet, NEW i \in DOMAIN ssl
            PROVE  ssl'[i] = ssl[i]
        <4>1. ssl[i] \in Socket /\ (i = newest => ssl[i].link = "down")
          BY <2>4, <3>1, Elements DEF Quiet
        <4> QED
          BY <2>2, <4>1, DownWaits
      <3>2. Quiet => Quiet'
        BY <2>1, <2>2, <2>4, <3>1 DEF Quiet, Windows, newest, TypeOK
      <3> QED
        BY <2>1, <2>2, <3>2 DEF Connections, Flag
    <2> QED
      BY <2>3, <2>4
  <1> QED
    <2>1. CASE Exit \/ UNCHANGED vars
      BY <1>2, <2>1 DEF Exit, vars, session, socket, ghosts
    <2> QED
      BY <1>3, <1>4, <1>5, <1>6, <1>7, <1>8, <1>9, <1>10, <1>11, <2>1, ReceivedRange
      DEF Next, Login, Opening, Mishap, Buttons

LEMMA OlderStep ==
    ASSUME TypeOK, [Next]_vars, Older, Len(ssl') = Len(ssl)
    PROVE  Older'
  <1>1. /\ newest \in Nat /\ DOMAIN ssl = 1 .. newest
        /\ \A i \in DOMAIN ssl : ssl[i] \in Socket
    BY DEF TypeOK, newest
  <1>2. CASE UNCHANGED ssl
    BY <1>2 DEF Older, newest, Waits
  <1>3. ASSUME NEW s, \A i \in DOMAIN ssl : i # newest => ssl'[i] = ssl[i]
        PROVE  Older'
    BY <1>1, <1>3 DEF Older, newest, Waits
  <1>4. ASSUME NEW i \in DOMAIN ssl, SslConnected(i)
        PROVE  Older'
    <2>1. i = newest
      BY <1>1, <1>4, LoginFacts DEF Older
    <2>2. PICK s \in Socket, t \in Socket :
             ssl' = [[ssl EXCEPT ![i] = s] EXCEPT ![newest] = Post(t, "login")]
      BY <1>4, ConnectedFacts, ZenonT(60)
    <2> QED
      BY <1>3, <2>1, <2>2 DEF TypeOK
  <1>5. ASSUME NEW i \in DOMAIN ssl, SslAnswered(i)
        PROVE  Older'
    <2>1. i = newest
      BY <1>1, <1>5, LoginFacts DEF Older
    <2>2. PICK a \in Answers(Head(ssl[i].requests)) :
             ssl' = [ssl EXCEPT ![i].requests = Tail(@), ![i].lines = @ \o a]
      BY <1>5, Zenon DEF SslAnswered
    <2> QED
      BY <1>3, <2>1, <2>2 DEF TypeOK
  <1>6. ASSUME NEW i \in DOMAIN ssl, NEW n \in 0 .. Len(ssl[i].lines),
               SslMessageReceived(i, n)
        PROVE  Older'
    <2>1. /\ ssl[i].lines # << >>
          /\ ssl' = [ssl EXCEPT ![i].lines = SubSeq(@, n + 1, Len(@))]
      BY <1>6, ReceivedFacts, Zenon
    <2>2. Waits(ssl[i])
      BY <2>1, Zenon DEF Waits
    <2>3. i = newest
      BY <1>1, <2>2 DEF Older
    <2> QED
      BY <1>3, <2>1, <2>3 DEF TypeOK
  <1>7. ASSUME NEW i \in DOMAIN ssl, SslLost(i)
        PROVE  Older'
    <2>1. \A j \in DOMAIN ssl : ssl'[j] = IF j = i THEN Down(ssl[j]) ELSE ssl[j]
      BY <1>7, LostFacts, Zenon
    <2>2. \A j \in DOMAIN ssl : ~Waits(Down(ssl[j]))
      BY <1>1, DownWaits
    <2> QED
      BY <1>1, <2>1, <2>2 DEF Older, newest
  <1>8. CASE Start \/ StartWindows
    <2>1. CASE Connectedto
      BY <2>1, ConnectedtoFacts DEF newest
    <2>2. CASE NoFile
      BY <1>2, <2>2 DEF NoFile
    <2> QED
      BY <1>8, <2>1, <2>2, StartFacts, Zenon
  <1>9. CASE Stop \/ Cancel \/ ExitWindows
    <2>1. ssl' = ssl \/ ssl' = [ssl EXCEPT ![newest] = Down(@)]
      BY <1>9, StoppedFacts, Zenon
    <2> QED
      BY <1>2, <1>3, <2>1 DEF TypeOK
  <1>10. CASE Mount \/ MountWindows
    <2>1. \A i \in DOMAIN ssl :
             ssl'[i] = IF i = newest THEN Post(ssl[i], "get") ELSE ssl[i]
      BY <1>10, PostedFacts, Zenon DEF Mount, MountWindows
    <2> QED
      BY <1>3, <2>1
  <1> QED
    <2>1. CASE WsConnected \/ Negotiation \/ OptAbort \/ Disc \/ WsLost \/ Search
               \/ setReadWriteButtonState \/ BoxClosed \/ Exit \/ UNCHANGED vars
      <3>1. UNCHANGED ssl
        BY <2>1 DEF WsConnected, Negotiation, OptAbort, Disc, WsLost, Search,
                    setReadWriteButtonState, BoxClosed, Exit, vars
      <3> QED
        BY <1>2, <3>1
    <2> QED
      BY <1>4, <1>5, <1>6, <1>7, <1>8, <1>9, <1>10, <2>1, ReceivedRange
      DEF Next, Login, Opening, Mishap, Buttons

(* All actions but Start and Stop.                                         *)
LEMMA OtherFrames ==
    ASSUME TypeOK, [Next]_vars,
           ~(Start \/ StartWindows), ~(Stop \/ Cancel \/ ExitWindows)
    PROVE  /\ UNCHANGED <<build, asked, leftover, irregular>> /\ Len(ssl') = Len(ssl)
           /\ box' \in {box, "none"}
  <1> DEFINE Frame == /\ UNCHANGED <<build, asked, leftover, irregular>>
                      /\ Len(ssl') = Len(ssl) /\ box' \in {box, "none"}
  <1>1. ASSUME NEW i \in DOMAIN ssl, SslConnected(i) \/ SslAnswered(i)
        PROVE  Frame
    BY <1>1, LoginFacts, Zenon
  <1>2. ASSUME NEW i \in DOMAIN ssl, NEW n \in 0 .. Len(ssl[i].lines),
               SslMessageReceived(i, n)
        PROVE  Frame
    BY <1>2, ReceivedFacts, Zenon
  <1>3. ASSUME NEW i \in DOMAIN ssl, SslLost(i)
        PROVE  Frame
    BY <1>3, LostFacts, Zenon DEF newest
  <1>4. CASE Mount \/ MountWindows
    <2>1. Len(ssl') = Len(ssl)
      BY <1>4, PostedFacts, Zenon DEF Mount, MountWindows
    <2> QED
      BY <1>4, <2>1 DEF Mount, MountWindows, http_get, ghosts
  <1>5. CASE WsConnected \/ Negotiation \/ OptAbort \/ Disc \/ WsLost \/ Search
             \/ setReadWriteButtonState \/ BoxClosed \/ Exit \/ UNCHANGED vars
    BY <1>5 DEF WsConnected, Negotiation, OptAbort, Disc, WsLost, Search,
                setReadWriteButtonState, BoxClosed, Exit, vars, ghosts
  <1> QED
    BY <1>1, <1>2, <1>3, <1>4, <1>5, ReceivedRange
    DEF Next, Login, Opening, Mishap, Buttons

LEMMA RegularStep ==
    TypeOK /\ Connections /\ Regular /\ [Next]_vars => Regular'
  <1> SUFFICES ASSUME TypeOK, Connections, Regular, [Next]_vars
               PROVE  Regular'
    OBVIOUS
  <1>1. CASE Start \/ StartWindows
    <2>1. /\ asked' = asked + 1 /\ irregular' = (irregular \/ asked > 0 \/ leftover)
          /\ leftover' = leftover /\ build' = build
      BY <1>1, StartFacts, Zenon DEF StartFrame
    <2>2. asked \in Nat /\ newest \in Nat /\ DOMAIN ssl = 1 .. newest
      BY Bounds DEF TypeOK, newest
    <2>5. ASSUME ~irregular'
          PROVE  asked = 0 /\ ~leftover
      <3>1. ~(asked > 0) /\ ~leftover
        BY <2>1, <2>5, Zenon
      <3> QED
        BY <2>2, <3>1
    <2>3. ASSUME ~irregular'
          PROVE  Older'
      <3>1. \A i \in DOMAIN ssl : ~Waits(ssl[i])
        <4>1. asked = 0 /\ ~leftover
          BY <2>2, <2>3, <2>5
        <4> QED
          BY <4>1, Zenon DEF Connections, Quiet
      <3>2. CASE Connectedto
        BY <2>2, <3>1, <3>2, ConnectedtoFacts DEF Older, newest, Waits
      <3>3. CASE NoFile
        BY <2>2, <3>1, <3>3 DEF NoFile, Older, newest, Waits
      <3> QED
        BY <1>1, <3>2, <3>3, StartFacts, Zenon
    <2>4. ~irregular' => asked' <= 1 /\ ~leftover'
      BY <2>1, <2>5
    <2> QED
      BY <2>3, <2>4 DEF Regular
  <1>2. CASE Stop \/ Cancel \/ ExitWindows
    <2>1. asked' = 0 /\ irregular' = irregular /\ build' = build
      BY <1>2, StoppedFacts
    <2>2. \/ ~Windows
          \/ leftover' = FALSE /\ ssl' = ssl
          \/ /\ leftover' = \E i \in 1 .. newest - 1 : Waits(ssl[i])
             /\ ssl' = [ssl EXCEPT ![newest] = Down(@)]
      BY <1>2, StoppedFacts, Zenon
    <2>3. ASSUME ~irregular, Windows
          PROVE  ~leftover' /\ Older'
      <3>1. Older
        BY <2>3 DEF Regular
      <3>2. Len(ssl') = Len(ssl)
        <4>1. ssl' = ssl \/ ssl' = [ssl EXCEPT ![newest] = Down(@)]
          BY <2>2, <2>3, Zenon
        <4> QED
          BY <4>1 DEF TypeOK
      <3>3. Older'
        BY <3>1, <3>2, OlderStep
      <3> QED
        BY <2>2, <2>3, <3>1, <3>3 DEF Older
    <2> QED
      BY <2>1, <2>3 DEF Regular, Windows
  <1>3. CASE ~(Start \/ StartWindows) /\ ~(Stop \/ Cancel \/ ExitWindows)
    <2>1. UNCHANGED <<build, asked, leftover, irregular>> /\ Len(ssl') = Len(ssl)
      BY <1>3, OtherFrames
    <2>2. Older => Older'
      BY <2>1, OlderStep
    <2> QED
      BY <2>1, <2>2 DEF Regular, Windows
  <1> QED
    BY <1>1, <1>2, <1>3

LEMMA BoxesStep == TypeOK /\ Boxes /\ [Next]_vars => Boxes'
  <1> SUFFICES ASSUME TypeOK, Boxes, [Next]_vars
               PROVE  Boxes'
    OBVIOUS
  <1>1. CASE Start \/ StartWindows
    <2>1. box' \in {"none", "failed"} \/ Windows
      BY <1>1, StartFacts
    <2>2. build' = build
      BY <1>1, StartFacts DEF StartFrame
    <2> QED
      BY <2>1, <2>2 DEF Boxes, Windows
  <1>2. CASE Stop \/ Cancel \/ ExitWindows
    BY <1>2, StoppedFacts DEF Boxes, Windows
  <1>3. CASE ~(Start \/ StartWindows) /\ ~(Stop \/ Cancel \/ ExitWindows)
    BY <1>3, OtherFrames DEF Boxes, Windows
  <1> QED
    BY <1>1, <1>2, <1>3
-----------------------------------------------------------------------------
(* The numbers of a regular session.                                       *)

LEMMA OneSlot ==
    ASSUME TypeOK, Connections, Regular, ~irregular
    PROVE  slots \in Nat /\ slots <= Flag
  <1>1. slots \in Nat /\ asked \in Nat /\ Flag \in {0, 1} /\ asked <= 1
    BY Bounds DEF TypeOK, Flag, Regular
  <1>2. CASE leftover
    BY <1>1, <1>2 DEF Connections, Regular
  <1>3. CASE ~leftover /\ asked = 0
    BY <1>1, <1>3 DEF Connections, Quiet
  <1>4. CASE ~leftover /\ asked > 0
    BY <1>1, <1>4 DEF Connections
  <1> QED
    BY <1>1, <1>2, <1>3, <1>4

LEMMA OwnersDiffer == Free = 0 /\ Device = -1 /\ Ws = -2 /\ Failed = -1
  BY DEF Free, Device, Ws, Failed

LEMMA OwnedStep ==
    TypeOK /\ Connections /\ Regular /\ Boxes /\ Owned /\ OnlyTheDeviceIsClosed /\ [Next]_vars
      => Owned' /\ OnlyTheDeviceIsClosed'
  <1> SUFFICES ASSUME TypeOK, Connections, Regular, Boxes, Owned, OnlyTheDeviceIsClosed, [Next]_vars
               PROVE  Owned' /\ OnlyTheDeviceIsClosed'
    OBVIOUS
  <1>1. /\ slots \in Nat /\ asked \in Nat /\ newest \in Nat /\ DOMAIN ssl = 1 .. newest
        /\ ~irregular => slots <= Flag /\ Flag \in {0, 1}
    BY OneSlot, Bounds DEF TypeOK, newest, Flag
  <1>2. CASE /\ UNCHANGED <<build, running, table, fh, slots, offered, asked, irregular>>
             /\ Len(ssl') = Len(ssl)
             /\ link' \in {link, "closing"}
             /\ ~Windows /\ buttons \subseteq {"start"} => buttons' \subseteq {"start"}
    BY <1>2 DEF Owned, OnlyTheDeviceIsClosed, Windows, newest
  <1>3. ASSUME NEW i \in DOMAIN ssl, SslConnected(i) \/ SslAnswered(i)
        PROVE  Owned' /\ OnlyTheDeviceIsClosed'
    BY <1>2, <1>3, LoginFacts
  <1>4. ASSUME NEW i \in DOMAIN ssl, NEW n \in 0 .. Len(ssl[i].lines),
               SslMessageReceived(i, n)
        PROVE  Owned' /\ OnlyTheDeviceIsClosed'
    <2>1. /\ Len(ssl') = Len(ssl)
          /\ Connecting \/ NotConnecting
          /\ UNCHANGED <<build, running, buttons, offered, fh, asked, irregular>>
      BY <1>4, ReceivedFacts, Zenon
    <2>2. CASE NotConnecting
      BY <1>2, <2>1, <2>2 DEF NotConnecting
    <2>3. CASE Connecting
      <3>1. link' = "connecting" /\ slots' = slots + 1 /\ Flag = 0
        BY <2>3 DEF Connecting, Flag
      <3>2. \A n1 \in Fds : \/ table'[n1] = table[n1]
                            \/ (table[n1] = Ws /\ table'[n1] = Free)
                            \/ (table[n1] = Free /\ table'[n1] = Ws)
        BY <2>3, ConnectingTable
      <3>3. ~irregular => slots = 0
        BY <1>1, <3>1
      <3> QED
        BY <2>1, <3>1, <3>2, <3>3, OwnersDiffer DEF Owned, OnlyTheDeviceIsClosed, Windows, newest
    <2> QED
      BY <2>1, <2>2, <2>3
  <1>5. ASSUME NEW i \in DOMAIN ssl, SslLost(i)
        PROVE  Owned' /\ OnlyTheDeviceIsClosed'
    <2>1. /\ Len(ssl') = newest
          /\ \A n \in Fds : table'[n] = IF table[n] = i THEN Free ELSE table[n]
          /\ UNCHANGED <<build, running, buttons, link, slots, offered, fh, asked,
                         irregular>>
      BY <1>5, LostFacts, Zenon
    <2>2. i # Device
      BY <1>1, OwnersDiffer
    <2> QED
      BY <2>1, <2>2, OwnersDiffer DEF Owned, OnlyTheDeviceIsClosed, Windows, newest
  <1>6. CASE WsConnected
    <2>1. PICK new \in SUBSET FreeFds(table) :
             /\ IsFiniteSet(new) /\ Cardinality(new) <= slots
             /\ table' = [n \in Fds |-> IF n \in new THEN Device ELSE table[n]]
             /\ fh' \in new \cup {Failed}
             /\ Cardinality(new) = slots => fh' \in new
             /\ offered' = (new # {})
             /\ link = "connecting" /\ link' = "open"
             /\ UNCHANGED <<build, running, buttons, ssl, slots, asked, irregular>>
      BY <1>6, OpenedFacts, Zenon
    <2>2. ASSUME ~irregular
          PROVE  new = {} \/ new = {fh'}
      <3>1. Cardinality(new) \in Nat /\ Cardinality(new) <= 1
        BY <1>1, <2>1, <2>2, FS_CardinalityType
      <3>2. CASE Cardinality(new) = 0
        BY <2>1, <3>2, FS_EmptySet
      <3>3. CASE Cardinality(new) = 1
        <4>1. \E m : new = {m}
          BY <2>1, <3>3, FS_Singleton
        <4>2. slots = 1
          BY <1>1, <2>1, <2>2, <3>3
        <4> QED
          BY <2>1, <3>3, <4>1, <4>2
      <3> QED
        BY <3>1, <3>2, <3>3
    <2>3. ~irregular => slots > 0 /\ \A n \in Fds : table[n] # Device
      BY <2>1 DEF Connections, Owned
    <2>4. new \subseteq Fds
      BY DEF FreeFds
    <2> QED
      BY <2>1, <2>2, <2>3, <2>4, FdsFacts DEF Owned, OnlyTheDeviceIsClosed, Windows, newest
  <1>7. CASE Negotiation
    <2>1. /\ link = "open" /\ offered
          /\ UNCHANGED <<build, running, ssl, link, slots, offered, table, fh, asked,
                         irregular>>
      BY <1>7 DEF Negotiation, socket, ghosts
    <2>2. slots > 0
      BY <2>1 DEF Connections
    <2> QED
      BY <2>1, <2>2 DEF Owned, OnlyTheDeviceIsClosed, Windows, newest
  <1>8. CASE OptAbort
    <2>1. /\ link' = "closing" /\ (~Windows => buttons' = {"start"})
          /\ UNCHANGED <<build, running, ssl, slots, offered, table, fh, asked, irregular>>
      BY <1>8 DEF OptAbort, Aborted, Idle, device, ghosts
    <2> QED
      BY <1>2, <2>1
  <1>9. CASE Disc
    <2>1. /\ link = "open" /\ offered /\ link' = "closing" /\ CloseFh(table)
          /\ UNCHANGED <<build, buttons, ssl, slots, offered, asked, irregular>>
      BY <1>9 DEF Disc, export, ghosts
    <2>2. table \in [Fds -> Numbers]
      BY DEF TypeOK, Numbers
    <2>3. /\ \A n \in Fds : table'[n] = IF n = fh THEN Free ELSE table[n]
          /\ running' = running
               \/ (running' = "astray" /\ fh \in Fds /\ table[fh] \notin {Free, Device})
          /\ fh' = fh
      BY <2>1, <2>2, ClosedTable
    <2> QED
      BY <2>1, <2>3, OwnersDiffer DEF Owned, OnlyTheDeviceIsClosed, Windows, newest
  <1>10. CASE WsLost
    <2>1. /\ link' = "unconnected" /\ table' = Released(table, Ws)
          /\ UNCHANGED <<build, running, buttons, ssl, slots, offered, fh, asked,
                         irregular>>
      BY <1>10 DEF WsLost, export, device, ghosts
    <2>2. table \in [Fds -> Numbers] /\ Free \in Numbers
      BY DEF TypeOK, Numbers
    <2>3. \A n \in Fds : table'[n] = IF table[n] = Ws THEN Free ELSE table[n]
      BY <2>1, <2>2, ReleasedFacts
    <2> QED
      BY <2>1, <2>3, OwnersDiffer DEF Owned, OnlyTheDeviceIsClosed, Windows, newest
  <1>11. CASE Search \/ setReadWriteButtonState \/ BoxClosed
    <2>1. /\ UNCHANGED <<build, running, ssl, link, slots, offered, table, fh, asked,
                         irregular>>
          /\ buttons \subseteq {"start"} /\ ~Windows => buttons' \subseteq {"start"}
      BY <1>11
      DEF Search, setReadWriteButtonState, BoxClosed, Boxes, Idle, TypeOK, socket,
          export, device, ghosts
    <2> QED
      BY <1>2, <2>1
  <1>12. CASE Start \/ StartWindows
    <2>1. /\ asked' = asked + 1 /\ irregular' = (irregular \/ asked > 0 \/ leftover)
          /\ UNCHANGED <<build, running, link, slots, offered, fh>>
          /\ ~Windows => buttons' = buttons \ {"start"}
      BY <1>12, StartFacts, Zenon DEF StartFrame
    <2>2. ASSUME ~irregular'
          PROVE  ~irregular /\ asked = 0 /\ Quiet
      <3>1. ~(asked > 0) /\ ~leftover /\ ~irregular
        BY <2>1, <2>2, Zenon
      <3> QED
        BY <1>1, <3>1 DEF Connections
    <2>3. /\ \A n \in Fds : table'[n] = table[n] \/ table'[n] = Len(ssl')
          /\ Len(ssl') # Device
      <3>1. CASE Connectedto
        BY <1>1, <3>1, ConnectedtoFacts, OwnersDiffer
      <3>2. CASE NoFile
        BY <1>1, <3>2, OwnersDiffer DEF NoFile, newest
      <3> QED
        BY <1>12, <3>1, <3>2, StartFacts, Zenon
    <2>4. OnlyTheDeviceIsClosed'
      BY <2>1 DEF OnlyTheDeviceIsClosed
    <2>5. ASSUME ~irregular'
          PROVE  /\ slots = 0 /\ link = "unconnected"
                 /\ \A n \in Fds : table[n] # Device
                 /\ Windows => \A n \in Fds : table[n] \in {Free, Device, Ws}
                 /\ ~Windows => buttons \subseteq {"start"}
      BY <2>2, <2>5 DEF Quiet, Owned
    <2>6. asked' > 0
      BY <1>1, <2>1
    <2>7. Owned'
      BY <2>1, <2>3, <2>5, <2>6 DEF Owned, Windows, newest
    <2> QED
      BY <2>4, <2>7
  <1>13. CASE Stop \/ Cancel \/ ExitWindows
    <2>1. /\ link' = "unconnected" /\ slots' = 0 /\ asked' = 0
          /\ irregular' = irregular /\ build' = build
          /\ ~Windows => buttons' = {"start"} /\ "stop" \in buttons
      BY <1>13, StoppedFacts
    <2>2. /\ \A n \in Fds :
                table'[n] = IF \/ table[n] = Ws \/ (Windows /\ table[n] = newest)
                               \/ (running' # "crashed" /\ n = fh)
                              THEN Free ELSE table[n]
          /\ fh' = fh
          /\ running' = "crashed" => Windows /\ ssl = << >>
          /\ running' = "astray" =>
                 /\ fh \in Fds /\ table[fh] \notin {Free, Device, Ws}
                 /\ Windows => table[fh] # newest
      BY <1>13, StoppedTable, Zenon
    <2>3. OnlyTheDeviceIsClosed'
      <3>1. ~Windows => ~(buttons \subseteq {"start"})
        BY <2>1
      <3> QED
        BY <2>1, <2>2, <3>1 DEF OnlyTheDeviceIsClosed, Owned
    <2>4. ASSUME ~irregular, NEW n \in Fds
          PROVE  table'[n] # Device
      <3>1. CASE running' = "crashed"
        <4>1. slots = 0
          BY <1>1, <2>2, <3>1 DEF Connections
        <4> QED
          BY <1>1, <2>2, <2>4, <4>1, OwnersDiffer DEF Owned
      <3>2. CASE running' # "crashed"
        BY <2>2, <2>4, <3>2, OwnersDiffer DEF Owned
      <3> QED
        BY <3>1, <3>2
    <2>5. ASSUME ~irregular, Windows, NEW n \in Fds
          PROVE  table'[n] \in {Free, Device, Ws}
      BY <2>2, <2>5 DEF Owned
    <2> QED
      BY <2>1, <2>3, <2>4, <2>5 DEF Owned, Windows
  <1>14. CASE Mount \/ MountWindows
    <2>1. /\ http_get /\ (~Windows => ~(buttons \subseteq {"start"}))
          /\ UNCHANGED <<build, running, link, slots, offered, table, fh, asked, irregular>>
      BY <1>14 DEF Mount, MountWindows, http_get, socket, export, device, ghosts
    <2>2. Len(ssl') = Len(ssl)
      BY <2>1, PostedFacts
    <2> QED
      BY <1>2, <2>1, <2>2
  <1> QED
    <2>1. CASE Exit \/ UNCHANGED vars
      BY <2>1 DEF Exit, vars, socket, export, device, ghosts, Owned, OnlyTheDeviceIsClosed, Windows, newest
    <2> QED
      BY <1>3, <1>4, <1>5, <1>6, <1>7, <1>8, <1>9, <1>10, <1>11, <1>12, <1>13, <1>14,
         <2>1, ReceivedRange
      DEF Next, Login, Opening, Mishap, Buttons
-----------------------------------------------------------------------------
(* The lock of the volume.                                                 *)

LEMMA WritesLockedStep == TypeOK /\ WritesLocked /\ [Next]_vars => WritesLocked'
  <1> SUFFICES ASSUME TypeOK, WritesLocked, [Next]_vars
               PROVE  WritesLocked'
    OBVIOUS
  <1>1. CASE UNCHANGED <<link, nego, volume, allowWrite, fh, locked>>
    BY <1>1 DEF WritesLocked
  <1>2. CASE link' # "open"
    BY <1>2 DEF WritesLocked
  <1>3. ASSUME NEW i \in DOMAIN ssl, NEW n \in 0 .. Len(ssl[i].lines),
               SslMessageReceived(i, n)
        PROVE  WritesLocked'
    <2>1. /\ Connecting \/ NotConnecting
          /\ UNCHANGED <<nego, volume, allowWrite, fh, locked>>
      BY <1>3, ReceivedFacts, Zenon
    <2> QED
      BY <1>1, <1>2, <2>1 DEF Connecting, NotConnecting
  <1>4. CASE WsConnected
    <2>1. PICK new \in SUBSET FreeFds(table) :
             /\ Cardinality(new) <= slots /\ fh' \in new \cup {Failed}
             /\ nego' = IF new # {} THEN "begun" ELSE nego
      BY <1>4, OpenedFacts, Zenon
    <2>2. CASE new = {}
      BY <2>1, <2>2, FdsFacts DEF WritesLocked
    <2>3. CASE new # {}
      BY <2>1, <2>3 DEF WritesLocked
    <2> QED
      BY <2>2, <2>3
  <1>5. CASE Negotiation
    <2>1. PICK named \in BOOLEAN :
             \/ Windows /\ NegotiatedWindows(named)
             \/ ~Windows /\ Negotiated(named)
      BY <1>5, Zenon DEF Negotiation
    <2>2. fh' = fh
      BY <1>5, Zenon DEF Negotiation
    <2>3. \/ volume' = FALSE \/ allowWrite' = FALSE \/ locked' = fh
      BY <2>1 DEF NegotiatedWindows, Negotiated, Lock
    <2> QED
      BY <2>2, <2>3 DEF WritesLocked
  <1>6. ASSUME NEW i \in DOMAIN ssl, SslConnected(i) \/ SslAnswered(i) \/ SslLost(i)
        PROVE  WritesLocked'
    BY <1>1, <1>6, LoginFacts, LostFacts
  <1>7. CASE OptAbort \/ Disc \/ WsLost
    BY <1>2, <1>7 DEF OptAbort, Disc, WsLost
  <1>8. CASE Start \/ StartWindows
    BY <1>1, <1>8, StartFacts DEF StartFrame
  <1>9. CASE Stop \/ Cancel \/ ExitWindows
    BY <1>2, <1>9, StoppedFacts
  <1> QED
    <2>1. CASE Search \/ setReadWriteButtonState \/ BoxClosed \/ Exit
               \/ Mount \/ MountWindows \/ UNCHANGED vars
      <3>1. UNCHANGED <<link, nego, volume, allowWrite, fh, locked>>
        BY <2>1 DEF Search, setReadWriteButtonState, BoxClosed, Exit, Mount,
                    MountWindows, http_get, vars, socket, device, export
      <3> QED
        BY <1>1, <3>1
    <2> QED
      BY <1>3, <1>4, <1>5, <1>6, <1>7, <1>8, <1>9, <2>1, ReceivedRange
      DEF Next, Login, Opening, Mishap, Buttons
-----------------------------------------------------------------------------
(* The stages of a login that goes well.                                   *)

Answer == <<"cookie", "length", "body">>

LEMMA AnswerFacts ==
    /\ Len(Answer) = 3 /\ Answer # << >> /\ Answer \in Seq(Line)
    /\ SubSeq(Answer, 1, 3) = Answer /\ SubSeq(Answer, 3, 3) = <<"body">>
    /\ Answer[1] = "cookie" /\ Answer[2] = "length" /\ Answer[3] = "body"
  <1>1. /\ Len(Answer) = 3 /\ Answer # << >> /\ Answer \in Seq(Line)
        /\ Answer[1] = "cookie" /\ Answer[2] = "length" /\ Answer[3] = "body"
    BY DEF Answer, Line
  <1>2. SubSeq(Answer, 1, 3) = Answer
    BY <1>1
  <1>3. SubSeq(Answer, 3, 3) = <<"body">>
    <2> DEFINE s == SubSeq(Answer, 3, 3)
    <2>1. s \in Seq(Line) /\ Len(s) = 1 /\ s[1] = "body"
      BY <1>1
    <2>2. <<"body">> \in Seq(Line) /\ Len(<<"body">>) = 1 /\ <<"body">>[1] = "body"
      BY DEF Line
    <2> HIDE DEF s
    <2>3. \A j \in 1 .. Len(s) : s[j] = <<"body">>[j]
      BY <2>1, <2>2
    <2>4. s = <<"body">>
      BY <2>1, <2>2, <2>3, SeqEqual
    <2> QED
      BY <2>4, Zenon DEF s
  <1> QED
    BY <1>1, <1>2, <1>3

LEMMA BodyFacts ==
    /\ Len(<<"body">>) = 1 /\ <<"body">> # << >> /\ <<"body">>[1] = "body"
  OBVIOUS

(* A segment of n lines that does not connect takes the login on.          *)
LEMMA ReceivedStage ==
    ASSUME TypeOK, ssl # << >>, LoginStage(ssl[newest]), ~connected_to_wss,
           NEW n \in 0 .. Len(ssl[newest].lines), SslMessageReceived(newest, n)
    PROVE  \/ hitch' = TRUE
           \/ Connecting
           \/ NotConnecting /\ LoginStage(ssl[newest])'
  <1> DEFINE lines == ssl[newest].lines
             seen == { lines[j] : j \in 1 .. n }
             body == "length" \in seen
             sid == login_get_sid \/ "cookie" \in seen
  <1>1. newest \in DOMAIN ssl /\ ssl[newest] \in Socket /\ newest \in Nat
    BY DEF TypeOK, newest
  <1>2. /\ lines # << >> /\ Len(ssl') = Len(ssl)
        /\ ssl' = [ssl EXCEPT ![newest].lines = SubSeq(@, n + 1, Len(@))]
    BY <1>1, ReceivedFacts, Zenon
  <1>3. /\ newest' = newest /\ ssl'[newest].lines = SubSeq(lines, n + 1, Len(lines))
        /\ ssl'[newest].link = ssl[newest].link
        /\ ssl'[newest].requests = ssl[newest].requests
    BY <1>1, <1>2 DEF TypeOK, Socket, newest
  <1>4. /\ login_get_sid' = sid
        /\ \/ Connects(sid, ssl[newest].reads, body) /\ ConnectedtoWS /\ UNCHANGED hitch
           \/ /\ ~Connects(sid, ssl[newest].reads, body)
              /\ UNCHANGED <<connected_to_wss, socket, table>>
              /\ hitch' = (hitch \/ {"cookie", "length", "body"} \subseteq seen)
    BY Zenon DEF SslMessageReceived, SidAfter
  <1>5. sid /\ ~body => Connects(sid, ssl[newest].reads, body)
    BY Zenon DEF Connects
  <1>6. ASSUME Connects(sid, ssl[newest].reads, body)
        PROVE  Connecting
    BY <1>4, <1>6, Zenon DEF Connecting, ConnectedtoWS
  <1>7. ASSUME ~Connects(sid, ssl[newest].reads, body),
               ~({"cookie", "length", "body"} \subseteq seen)
        PROVE  NotConnecting /\ LoginStage(ssl[newest])'
    <2>1. NotConnecting
      BY <1>4, <1>7, Zenon DEF NotConnecting, socket
    <2>2. ~(sid /\ ~body)
      BY <1>5, <1>7, Zenon
    <2>3. CASE /\ ssl[newest].link = "up" /\ ssl[newest].requests = << >>
               /\ lines = Answer
      <3>1. n \in 0 .. 3
        BY <2>3, AnswerFacts
      <3>2. CASE n = 0
        <4>1. ssl'[newest].lines = Answer
          BY <1>3, <2>3, <3>2, AnswerFacts
        <4> QED
          BY <1>3, <2>1, <2>3, <4>1, Zenon DEF LoginStage, Answer
      <3>3. CASE n = 1
        <4>1. "cookie" \in seen /\ "length" \notin seen
          BY <2>3, <3>3, AnswerFacts
        <4> QED
          BY <2>2, <4>1, Zenon
      <3>4. CASE n = 2
        <4>1. "cookie" \in seen /\ ssl'[newest].lines = <<"body">>
          BY <1>3, <2>3, <3>4, AnswerFacts
        <4> QED
          BY <1>3, <1>4, <2>1, <2>3, <4>1, Zenon DEF LoginStage
      <3>5. CASE n = 3
        <4>1. "cookie" \in seen /\ "length" \in seen /\ "body" \in seen
          BY <2>3, <3>5, AnswerFacts
        <4> QED
          BY <1>7, <4>1
      <3> QED
        BY <3>1, <3>2, <3>3, <3>4, <3>5
    <2>4. CASE lines = <<"body">> /\ login_get_sid
      <3>1. body
        BY <2>2, <2>4, Zenon
      <3>2. n \in 0 .. 1 /\ \A j \in 1 .. n : lines[j] = "body"
        BY <2>4, BodyFacts
      <3> QED
        BY <3>1, <3>2
    <2> QED
      <3>1. NewSocket.lines = << >>
        BY DEF NewSocket
      <3> QED
        BY <1>2, <2>3, <2>4, <3>1, Zenon DEF LoginStage, Answer
  <1>8. CASE {"cookie", "length", "body"} \subseteq seen
    BY <1>4, <1>6, <1>8, Zenon
  <1> QED
    BY <1>6, <1>7, <1>8, Zenon

LEMMA ConnectedStage ==
    ASSUME TypeOK, ssl # << >>, LoginStage(ssl[newest]), SslConnected(newest)
    PROVE  LoginStage(ssl[newest])'
  <1>1. newest \in DOMAIN ssl /\ newest \in Nat
    BY DEF TypeOK, newest
  <1>2. PICK s \in Socket, t \in Socket :
           /\ ssl[newest].link = "connecting"
           /\ s = [ssl[newest] EXCEPT !.link = "up"]
           /\ t = [(IF newest = newest THEN s ELSE ssl[newest]) EXCEPT !.reads = @ + 1]
           /\ ssl' = [[ssl EXCEPT ![newest] = s] EXCEPT ![newest] = Post(t, "login")]
    BY <1>1, ConnectedFacts, Zenon
  <1>3. ssl[newest] = NewSocket
    BY <1>2 DEF LoginStage
  <1>4. t.link = "up" /\ t.requests = << >> /\ t.lines = << >>
    BY <1>2, <1>3 DEF NewSocket
  <1>5. newest' = newest /\ ssl'[newest] = Post(t, "login")
    BY <1>1, <1>2 DEF TypeOK, newest
  <1>6. /\ Post(t, "login").link = "up" /\ Post(t, "login").lines = << >>
        /\ Post(t, "login").requests = Append(<< >>, "login")
    BY <1>4, PostFacts
  <1>7. Append(<< >>, "login") = <<"login">>
    OBVIOUS
  <1> QED
    BY <1>5, <1>6, <1>7, Zenon DEF LoginStage

LEMMA AnsweredStage ==
    ASSUME TypeOK, ssl # << >>, LoginStage(ssl[newest]), SslAnswered(newest)
    PROVE  hitch' = TRUE \/ LoginStage(ssl[newest])'
  <1>1. newest \in DOMAIN ssl /\ newest \in Nat /\ ssl[newest] \in Socket
    BY DEF TypeOK, newest
  <1>2. PICK a \in Answers(Head(ssl[newest].requests)) :
           /\ ssl[newest].requests # << >>
           /\ ssl' = [ssl EXCEPT ![newest].requests = Tail(@), ![newest].lines = @ \o a]
           /\ hitch' = (hitch \/ (Head(ssl[newest].requests) = "login" /\ a[1] # "cookie"))
    BY Zenon DEF SslAnswered
  <1>3. /\ ssl[newest].link = "up" /\ ssl[newest].requests = <<"login">>
        /\ ssl[newest].lines = << >>
    <2>1. NewSocket.requests = << >>
      BY DEF NewSocket
    <2> QED
      BY <1>2, <2>1, Zenon DEF LoginStage
  <1>4. Head(<<"login">>) = "login" /\ Tail(<<"login">>) = << >>
    OBVIOUS
  <1>5. a = Answer \/ a = <<"length", "body">>
    BY <1>2, <1>3, <1>4, Zenon DEF Answers, Answer
  <1>6. CASE a = <<"length", "body">>
    <2>1. a[1] # "cookie"
      BY <1>6
    <2> QED
      BY <1>2, <1>3, <1>4, <2>1, Zenon
  <1>7. CASE a = Answer
    <2>1. << >> \o Answer = Answer
      BY AnswerFacts, ConcatEmptySeq
    <2>2. /\ newest' = newest /\ ssl'[newest].link = ssl[newest].link
          /\ ssl'[newest].requests = Tail(ssl[newest].requests)
          /\ ssl'[newest].lines = ssl[newest].lines \o a
      <3> DEFINE r == Tail(ssl[newest].requests)
                 l == ssl[newest].lines \o a
      <3>1. ssl' = [ssl EXCEPT ![newest] = [ssl[newest] EXCEPT !.requests = r, !.lines = l]]
        BY <1>2, Zenon
      <3>2. /\ newest' = newest
            /\ ssl'[newest] = [ssl[newest] EXCEPT !.requests = r, !.lines = l]
        <4> HIDE DEF r, l
        <4> QED
          BY <1>1, <3>1 DEF TypeOK, newest
      <3>3. /\ ssl'[newest].link = ssl[newest].link
            /\ ssl'[newest].requests = r /\ ssl'[newest].lines = l
        <4> HIDE DEF r, l
        <4> QED
          BY <1>1, <3>2 DEF Socket
      <3> QED
        BY <3>2, <3>3
    <2> QED
      BY <1>3, <1>4, <1>7, <2>1, <2>2, Zenon DEF LoginStage, Answer
  <1> QED
    BY <1>5, <1>6, <1>7

LEMMA StageWaits ==
    ASSUME NEW s, LoginStage(s)
    PROVE  Waits(s)
  <1>1. NewSocket.link = "connecting"
    BY DEF NewSocket
  <1>2. /\ <<"login">> # << >> /\ <<"cookie", "length", "body">> # << >>
        /\ <<"body">> # << >>
    OBVIOUS
  <1> QED
    BY <1>1, <1>2, Zenon DEF LoginStage, Waits

LEMMA ProgressStep ==
    TypeOK /\ TypeOK' /\ Connections /\ Boxes /\ Progress /\ [Next]_vars => Progress'
  <1> SUFFICES ASSUME TypeOK, TypeOK', Connections, Boxes, Progress, [Next]_vars,
                      ~Windows', asked' > 0, ~hitch'
               PROVE  /\ asked' = 1 /\ ~leftover'
                      /\ ~connected_to_wss' =>
                            /\ ssl' # << >> /\ LoginStage(ssl[newest])'
                            /\ Older'
                            /\ link' = "unconnected"
                            /\ buttons' \cap {"mount", "unmount"} = {}
                      /\ connected_to_wss' =>
                            \/ link' = "connecting"
                            \/ link' = "open" /\ nego' = "begun"
                            \/ buttons' \cap {"start", "stop"} # {}
    BY DEF Progress
  <1> DEFINE Waiting == /\ ssl # << >> /\ LoginStage(ssl[newest]) /\ Older
                        /\ link = "unconnected"
                        /\ buttons \cap {"mount", "unmount"} = {}
             Leads == \/ link = "connecting"
                      \/ link = "open" /\ nego = "begun"
                      \/ buttons \cap {"start", "stop"} # {}
             Goal == /\ asked' = 1 /\ ~leftover'
                     /\ ~connected_to_wss' => Waiting'
                     /\ connected_to_wss' => Leads'
  <1> SUFFICES Goal
    BY Zenon
  <1>1. newest \in Nat /\ DOMAIN ssl = 1 .. newest /\ (ssl # << >> => newest \in DOMAIN ssl)
    BY DEF TypeOK, newest
  <1>2. Windows' <=> Windows
    <2>1. build' = build
      <3>1. CASE Start \/ StartWindows
        BY <3>1, StartFacts DEF StartFrame
      <3>2. CASE Stop \/ Cancel \/ ExitWindows
        BY <3>2, StoppedFacts
      <3> QED
        BY <3>1, <3>2, OtherFrames
    <2> QED
      BY <2>1 DEF Windows
  <1>3. ASSUME UNCHANGED <<asked, leftover>>, hitch => hitch'
        PROVE  /\ asked' = 1 /\ ~leftover'
               /\ ~connected_to_wss => Waiting
               /\ connected_to_wss => Leads
    BY <1>2, <1>3 DEF Progress
  <1>4. ASSUME UNCHANGED <<asked, leftover, connected_to_wss, link, nego, buttons>>,
               hitch => hitch', Len(ssl') = Len(ssl),
               ~connected_to_wss => LoginStage(ssl[newest])'
        PROVE  Goal
    <2>1. Older => Older'
      BY <1>4, OlderStep
    <2>2. ssl # << >> => ssl' # << >>
      BY <1>4 DEF TypeOK
    <2> QED
      BY <1>3, <1>4, <2>1, <2>2, Zenon
  <1>5. ASSUME UNCHANGED <<asked, leftover, connected_to_wss, ssl, login_get_sid>>,
               hitch => hitch',
               ~connected_to_wss /\ Waiting =>
                   link' = "unconnected" /\ buttons' \cap {"mount", "unmount"} = {},
               connected_to_wss /\ Leads => Leads'
        PROVE  Goal
    <2>1. Waiting => ssl' # << >> /\ LoginStage(ssl[newest])' /\ Older'
      BY <1>5 DEF LoginStage, Older, newest, Waits
    <2> QED
      BY <1>3, <1>5, <2>1, Zenon
  <1>6. ASSUME NEW i \in DOMAIN ssl, ~connected_to_wss, UNCHANGED <<asked, leftover>>,
               hitch => hitch', Waits(ssl[i])
        PROVE  /\ ssl # << >> /\ LoginStage(ssl[newest]) /\ Older /\ i = newest
    <2>1. Waiting
      BY <1>3, <1>6, Zenon
    <2>2. i = newest
      BY <1>1, <1>6, <2>1 DEF Older
    <2> QED
      BY <2>1, <2>2, Zenon
  <1>7. ASSUME NEW i \in DOMAIN ssl, SslConnected(i) \/ SslAnswered(i)
        PROVE  Goal
    <2>1. /\ Waits(ssl[i]) /\ Len(ssl') = Len(ssl) /\ (hitch => hitch')
          /\ UNCHANGED <<asked, leftover, connected_to_wss, link, nego, buttons>>
      BY <1>7, LoginFacts, Zenon
    <2>2. ASSUME ~connected_to_wss PROVE LoginStage(ssl[newest])'
      <3>1. /\ ssl # << >> /\ LoginStage(ssl[newest]) /\ i = newest
        BY <1>6, <2>1, <2>2, Zenon
      <3> QED
        BY <1>7, <3>1, ConnectedStage, AnsweredStage, Zenon
    <2> QED
      BY <1>4, <2>1, <2>2, Zenon
  <1>8. ASSUME NEW i \in DOMAIN ssl, NEW n \in 0 .. Len(ssl[i].lines),
               SslMessageReceived(i, n)
        PROVE  Goal
    <2>1. /\ ssl[i].lines # << >> /\ Len(ssl') = Len(ssl) /\ (hitch => hitch')
          /\ UNCHANGED <<asked, leftover, nego, buttons>>
          /\ Connecting \/ NotConnecting
      BY <1>8, ReceivedFacts, Zenon
    <2>2. Waits(ssl[i])
      BY <2>1, Zenon DEF Waits
    <2>3. CASE Connecting
      <3>1. connected_to_wss' = TRUE /\ link' = "connecting"
        BY <2>3 DEF Connecting
      <3> QED
        BY <1>3, <2>1, <3>1, Zenon
    <2>4. CASE NotConnecting /\ ~Connecting
      <3>1. UNCHANGED <<connected_to_wss, link>>
        BY <2>4 DEF NotConnecting
      <3>2. ASSUME ~connected_to_wss PROVE LoginStage(ssl[newest])'
        <4>1. ssl # << >> /\ LoginStage(ssl[newest]) /\ i = newest
          BY <1>6, <2>1, <2>2, <3>2, Zenon
        <4>2. n \in 0 .. Len(ssl[newest].lines) /\ SslMessageReceived(newest, n)
          BY <1>8, <4>1, Zenon
        <4> QED
          BY <2>4, <3>2, <4>1, <4>2, ReceivedStage, Zenon
      <3> QED
        BY <1>4, <2>1, <3>1, <3>2, Zenon
    <2> QED
      BY <2>1, <2>3, <2>4, Zenon
  <1>9. ASSUME NEW i \in DOMAIN ssl, SslLost(i)
        PROVE  Goal
    <2>1. /\ Len(ssl') = Len(ssl) /\ (hitch => hitch')
          /\ UNCHANGED <<asked, leftover, connected_to_wss, link, nego, buttons, login_get_sid>>
          /\ ~Waits(ssl[i]) /\ newest' = newest
          /\ \A j \in DOMAIN ssl : ssl'[j] = IF j = i THEN Down(ssl[j]) ELSE ssl[j]
      BY <1>9, LostFacts, Zenon DEF newest
    <2>2. ASSUME ~connected_to_wss PROVE LoginStage(ssl[newest])'
      <3>1. ssl # << >> /\ LoginStage(ssl[newest])
        BY <1>3, <2>1, <2>2, Zenon
      <3>2. i # newest
        BY <2>1, <3>1, StageWaits, Zenon
      <3>3. ssl'[newest] = ssl[newest]
        BY <1>1, <2>1, <3>1, <3>2, Zenon
      <3> QED
        BY <2>1, <3>1, <3>3, Zenon DEF LoginStage
    <2> QED
      BY <1>4, <2>1, <2>2, Zenon
  <1>10. CASE WsConnected
    <2>1. PICK new \in SUBSET FreeFds(table) :
             /\ nego' = IF new # {} THEN "begun" ELSE nego
             /\ hitch' = (hitch \/ new = {})
             /\ link = "connecting" /\ link' = "open"
             /\ UNCHANGED <<buttons, login_get_sid, connected_to_wss, ssl, asked, leftover>>
      BY <1>10, OpenedFacts, Zenon
    <2>2. ~hitch /\ new # {} /\ nego' = "begun"
      BY <2>1, Zenon
    <2>3. ~Waiting
      BY <2>1
    <2> QED
      BY <1>5, <2>1, <2>2, <2>3, Zenon
  <1>11. CASE Negotiation
    <2>1. PICK named \in BOOLEAN :
             /\ Negotiated(named) /\ hitch' = (hitch \/ ~named)
             /\ UNCHANGED <<login_get_sid, connected_to_wss, ssl, asked, leftover, link>>
             /\ link = "open"
      BY <1>2, <1>11, Zenon DEF Negotiation, session, socket, ghosts
    <2>2. named /\ (hitch => hitch')
      BY <2>1, Zenon
    <2>3. "stop" \in buttons'
      BY <2>1, <2>2 DEF Negotiated
    <2>4. ~Waiting
      BY <2>1
    <2>5. Leads'
      BY <2>3
    <2> QED
      BY <1>5, <2>1, <2>2, <2>4, <2>5, Zenon
  <1>12. CASE OptAbort \/ Disc \/ WsLost
    <2>1. CASE OptAbort
      <3>1. /\ link = "open" /\ buttons' = {"start"}
            /\ UNCHANGED <<asked, leftover, connected_to_wss, ssl, login_get_sid, hitch>>
        BY <1>2, <2>1 DEF OptAbort, Aborted, Idle, session, ghosts
      <3> QED
        BY <1>5, <3>1
    <2>2. CASE Disc
      <3>1. /\ link = "open" /\ nego = "done"
            /\ UNCHANGED <<asked, leftover, connected_to_wss, ssl, login_get_sid, hitch,
                           buttons>>
        BY <2>2 DEF Disc, session, ghosts
      <3> QED
        BY <1>5, <3>1
    <2>3. CASE WsLost
      BY <2>3 DEF WsLost
    <2> QED
      BY <1>12, <2>1, <2>2, <2>3
  <1>13. CASE Search \/ setReadWriteButtonState \/ BoxClosed \/ Exit \/ UNCHANGED vars
    <2>1. /\ UNCHANGED <<asked, leftover, connected_to_wss, ssl, login_get_sid, hitch,
                         link, nego>>
          /\ \/ buttons' = buttons
             \/ buttons' = buttons \cup {"start"}
             \/ buttons' = {"start"}
      BY <1>2, <1>13
      DEF Search, setReadWriteButtonState, BoxClosed, Exit, vars, session, ghosts,
          socket, export, Idle, Boxes, TypeOK
    <2> QED
      BY <1>5, <2>1
  <1>14. CASE Start \/ StartWindows
    <2>1. /\ connected_to_wss' = FALSE /\ asked' = asked + 1
          /\ UNCHANGED <<link, leftover>> /\ buttons' = buttons \ {"start"}
          /\ Connectedto \/ NoFile
      BY <1>2, <1>14, StartFacts DEF StartFrame
    <2>2. Connectedto /\ asked = 0 /\ ~leftover
      BY <2>1 DEF NoFile, Connectedto, TypeOK
    <2>3. /\ link = "unconnected" /\ buttons \subseteq {"start"}
          /\ \A i \in DOMAIN ssl : ~Waits(ssl[i])
      BY <1>2, <2>2 DEF Connections, Quiet
    <2>4. /\ Len(ssl') = newest + 1 /\ ssl'[newest + 1] = NewSocket
          /\ \A i \in 1 .. newest : ssl'[i] = ssl[i]
      BY <2>2, ConnectedtoFacts
    <2>5. newest' = newest + 1 /\ ssl' # << >>
      BY <1>1, <2>4 DEF newest
    <2>6. Older'
      BY <1>1, <2>3, <2>4, <2>5 DEF Older, Waits
    <2>7. LoginStage(ssl[newest])'
      BY <2>4, <2>5, Zenon DEF LoginStage
    <2> QED
      BY <2>1, <2>2, <2>3, <2>5, <2>6, <2>7
  <1>15. CASE Stop \/ Cancel \/ ExitWindows
    <2>1. asked' = 0
      BY <1>15, StoppedFacts
    <2> QED
      BY <2>1
  <1>16. CASE Mount \/ MountWindows
    <2>1. Mount
      BY <1>2, <1>16 DEF MountWindows
    <2>2. /\ UNCHANGED <<asked, leftover, connected_to_wss, hitch>>
          /\ buttons \cap {"mount", "unmount"} # {} /\ "stop" \in buttons'
      BY <2>1 DEF Mount, http_get, session, ghosts
    <2> QED
      BY <1>3, <2>2
  <1> QED
    BY <1>7, <1>8, <1>9, <1>10, <1>11, <1>12, <1>13, <1>14, <1>15, <1>16,
       ReceivedRange
    DEF Next, Login, Opening, Mishap, Buttons
-----------------------------------------------------------------------------
(* Invariants.                                                             *)

Invariant ==
    /\ TypeOK /\ Offering /\ Connections /\ Boxes /\ Regular /\ Owned
    /\ OnlyTheDeviceIsClosed /\ WritesLocked /\ Progress

LEMMA InvariantInit == Init => Invariant
  <1> SUFFICES ASSUME Init PROVE Invariant
    OBVIOUS
  <1>1. TypeOK
    BY InitTypes
  <1>2. Offering /\ Boxes /\ OnlyTheDeviceIsClosed /\ WritesLocked /\ Progress
    BY DEF Init, Offering, Boxes, OnlyTheDeviceIsClosed, WritesLocked, Progress
  <1>3. Connections
    BY <1>1 DEF Init, Connections, Flag, Quiet, TypeOK
  <1>4. Regular
    BY DEF Init, Regular, Older, newest
  <1>5. Owned
    BY OwnersDiffer DEF Init, Owned
  <1> QED
    BY <1>1, <1>2, <1>3, <1>4, <1>5 DEF Invariant

LEMMA InvariantStep == Invariant /\ [Next]_vars => Invariant'
  <1> SUFFICES ASSUME Invariant, [Next]_vars PROVE Invariant'
    OBVIOUS
  <1>1. /\ TypeOK /\ Offering /\ Connections /\ Boxes /\ Regular /\ Owned
        /\ OnlyTheDeviceIsClosed /\ WritesLocked /\ Progress
    BY Zenon DEF Invariant
  <1>2. TypeOK'
    BY <1>1, TypesStep, Zenon
  <1>3. Offering' /\ Boxes' /\ WritesLocked'
    BY <1>1, OfferingStep, BoxesStep, WritesLockedStep, Zenon
  <1>4. Connections'
    BY <1>1, <1>2, ConnectionsStep, Zenon
  <1>5. Regular'
    BY <1>1, <1>2, RegularStep, Zenon
  <1>6. Owned' /\ OnlyTheDeviceIsClosed'
    BY <1>1, <1>2, <1>3, <1>4, <1>5, OwnedStep, Zenon
  <1>7. Progress'
    BY <1>1, <1>2, ProgressStep, Zenon
  <1> QED
    BY <1>2, <1>3, <1>4, <1>5, <1>6, <1>7, Zenon DEF Invariant

(* The inductive invariant: the parts above with the invariants that are   *)
(* their own strengthening.                                                *)
THEOREM InvariantHolds == Spec => []Invariant
  BY InvariantInit, InvariantStep, PTL DEF Spec

(* The types of the window's state.                                        *)
THEOREM Typed == Spec => []TypeOK
  <1>1. Invariant => TypeOK
    BY Zenon DEF Invariant
  <1> QED
    BY <1>1, InvariantHolds, PTL

(* on_StartB_clicked resets connected_to_wss and login_get_sid, and the    *)
(* slots of wsSocket_vmws are connected once for that, in whatever pieces  *)
(* the answers to the login come: a Stop that left nothing behind took     *)
(* down whatever could connect once more.                                  *)
THEOREM ConnectedOnce == Spec => []ConnectedOncePerStart
  <1>1. Invariant => ConnectedOncePerStart
    <2> SUFFICES ASSUME Invariant PROVE ConnectedOncePerStart
      OBVIOUS
    <2>1. TypeOK /\ Connections
      BY Zenon DEF Invariant
    <2>2. slots \in Nat /\ asked \in Nat /\ Flag \in {0, 1}
      BY <2>1, Bounds DEF TypeOK, Flag
    <2>3. CASE leftover
      BY <2>1, <2>2, <2>3 DEF Connections, ConnectedOncePerStart
    <2>4. CASE ~leftover /\ asked > 0
      BY <2>1, <2>2, <2>4 DEF Connections, ConnectedOncePerStart
    <2>5. CASE ~leftover /\ asked = 0
      BY <2>1, <2>2, <2>5 DEF Connections, Quiet, ConnectedOncePerStart
    <2> QED
      BY <2>2, <2>3, <2>4, <2>5
  <1> QED
    BY <1>1, InvariantHolds, PTL

(* The close(fh) of Stop, Cancel, Exit and NBD_CMD_DISC finds the number   *)
(* of a device or of nothing, unless Start was pressed twice or after a    *)
(* Stop that left something under way.                                     *)
THEOREM DeviceIsClosed == Spec => []OnlyTheDeviceIsClosed
  <1>1. Invariant => OnlyTheDeviceIsClosed
    BY Zenon DEF Invariant
  <1> QED
    BY <1>1, InvariantHolds, PTL

(* onConnected opens the device once, and Stop closes it.                  *)
THEOREM DeviceNotKept == Spec => []DeviceClosed
  <1>1. Invariant => DeviceClosed
    <2> SUFFICES ASSUME Invariant, ~irregular
                 PROVE  LET devices == { n \in Fds : table[n] = Device }
                        IN  /\ Cardinality(devices) <= 1
                            /\ asked = 0 /\ ~leftover => devices = {}
      BY DEF DeviceClosed
    <2> DEFINE devices == { n \in Fds : table[n] = Device }
    <2>1. Connections /\ Owned
      BY Zenon DEF Invariant
    <2>2. \A n \in Fds : table[n] = Device => n = fh /\ slots > 0
      BY <2>1 DEF Owned
    <2>3. devices \subseteq {fh}
      BY <2>2
    <2>4. IsFiniteSet({fh}) /\ Cardinality({fh}) = 1
      BY FS_Singleton
    <2>5. Cardinality(devices) <= 1
      BY <2>3, <2>4, FS_Subset
    <2>6. ASSUME asked = 0, ~leftover PROVE devices = {}
      <3>1. slots = 0
        BY <2>1, <2>6 DEF Connections, Quiet
      <3> QED
        BY <2>2, <3>1
    <2> QED
      BY <2>5, <2>6
  <1> QED
    BY <1>1, InvariantHolds, PTL

(* handle_lockio and the writes of the Windows programs: a volume is       *)
(* written to through the handle that holds its lock.                      *)
THEOREM VolumeLocked == Spec => []WritesLocked
  <1>1. Invariant => WritesLocked
    BY Zenon DEF Invariant
  <1> QED
    BY <1>1, InvariantHolds, PTL

(* on_StartB_clicked disables Start and leaves Stop disabled: one of them  *)
(* is enabled again unless something is under way or went wrong.           *)
THEOREM ButtonsComeBack == Spec => []NeverLocked
  <1>1. Invariant => NeverLocked
    <2> SUFFICES ASSUME Invariant, ~Windows, asked > 0, ~hitch,
                        buttons \cap {"start", "stop"} = {}
                 PROVE  \/ Waits(ssl[newest]) \/ link = "connecting"
                        \/ link = "open" /\ nego = "begun"
      BY Zenon DEF NeverLocked
    <2>1. Progress
      BY Zenon DEF Invariant
    <2>2. CASE connected_to_wss
      BY <2>1, <2>2 DEF Progress
    <2>3. CASE ~connected_to_wss
      <3>1. LoginStage(ssl[newest])
        BY <2>1, <2>3 DEF Progress
      <3> QED
        BY <3>1, StageWaits, Zenon
    <2> QED
      BY <2>2, <2>3
  <1> QED
    BY <1>1, InvariantHolds, PTL
=============================================================================
