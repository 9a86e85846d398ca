----------------------------- MODULE BmcSearch ------------------------------
(* The search for BMCs over a range of IPv4 addresses, of both NBD server  *)
(* programs: the handler of the Search button, which keeps the event loop  *)
(* until it ends.  Addresses are numbers that wrap around.                 *)
EXTENDS Integers, Sequences, FiniteSets

CONSTANTS
    LastAddress,  \* addresses are 0 .. LastAddress
    RangeTexts    \* what the user may enter as first and as last address

(* A text is an address and how it is written: "plain", as inet_ntoa       *)
(* writes it, or "odd": another notation of it, or no address at all,      *)
(* which inet_addr takes for the last one.                                 *)
ASSUME SearchConstants ==
    /\ LastAddress \in Nat
    /\ RangeTexts \subseteq (0 .. LastAddress) \X {"plain", "odd"}

VARIABLES
    host,       \* the program: "Windows" or "Linux"
    first,      \* lineEdit_IP, Line_IP_Start
    last,       \* lineEdit_Scan_End, Line_IP_End
    searching,  \* "no", "yes", or "done": the loop is left
    cursor,     \* DestIP_Start, cStr
    offset,     \* i
    exist,      \* how many answered
    live,       \* comboBox_Live_RMS, comboBoxBMC: each text with its data
    tried       \* ghost: the addresses asked by this search, and the answers

bmcSearch == <<host, first, last, searching, cursor, offset, exist, live, tried>>
-----------------------------------------------------------------------------
SearchInit ==
    /\ host \in {"Windows", "Linux"}
    /\ first \in RangeTexts /\ last = first
    /\ searching = "no" /\ cursor = first /\ offset = 0 /\ exist = 0
    /\ live = << >> /\ tried = << >>

(* Windows copies the first address into the last one.                     *)
EditFirst ==
    /\ searching = "no"
    /\ first' \in RangeTexts
    /\ last' = IF host = "Windows" THEN first' ELSE last
    /\ UNCHANGED <<host, searching, cursor, offset, exist, live, tried>>

EditLast ==
    /\ searching = "no"
    /\ last' \in RangeTexts
    /\ UNCHANGED <<host, first, searching, cursor, offset, exist, live, tried>>

ClickSearch ==
    /\ searching = "no"
    /\ searching' = "yes" /\ cursor' = first
    /\ offset' = 0 /\ exist' = 0
    /\ live' = << >> /\ tried' = << >>
    /\ UNCHANGED <<host, first, last>>

(* What the probes may return, whoever has the address: no ARP answer; no  *)
(* socket library, nothing within a second, an open port; nmap's verdict.  *)
send_ARP_to_IP == {0, 1}
PortCheck == {-2, -1, 1}
check_ip_alive == {0, 1}

ProbeResults ==
    {alive \in BOOLEAN :
        IF host = "Windows"
        THEN \E arp \in send_ARP_to_IP, port \in PortCheck : alive = (arp = 1 /\ port = 1)
        ELSE \E nmap \in check_ip_alive : alive = (nmap = 1)}

AdvGetNextIPPointer(text) == <<(text[1] + 1) % (LastAddress + 1), "plain">>

\* Mutant: the next address is compared.
AfterProbeStepsFirst ==
    /\ cursor' = AdvGetNextIPPointer(cursor) /\ offset' = offset + 1
    /\ searching' = IF cursor' = last THEN "done" ELSE "yes"

(* The loop ends after the last address.                                   *)
AfterProbe ==
    IF cursor = last
    THEN searching' = "done" /\ UNCHANGED <<cursor, offset>>
    ELSE /\ cursor' = AdvGetNextIPPointer(cursor) /\ offset' = offset + 1
         /\ UNCHANGED searching

(* One address.  A search that has been once around is not followed any    *)
(* further: it goes on like that.                                          *)
Probe ==
    /\ searching = "yes" /\ Len(tried) <= LastAddress + 2
    /\ \E answers \in ProbeResults :
          /\ live' = IF answers THEN Append(live, <<cursor, offset>>) ELSE live
          /\ exist' = IF answers THEN exist + 1 ELSE exist
          /\ tried' = Append(tried, <<cursor[1], answers>>)
    /\ AfterProbe
    /\ UNCHANGED <<host, first, last>>

(* The handler returns; what it does to the window is in ExportWindow.     *)
SearchReturns ==
    /\ searching = "done" /\ searching' = "no"
    /\ UNCHANGED <<host, first, last, cursor, offset, exist, live, tried>>

SearchNext == EditFirst \/ EditLast \/ ClickSearch \/ Probe \/ SearchReturns
=============================================================================
