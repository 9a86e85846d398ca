------------------------------ MODULE VdmTests ------------------------------
(***************************************************************************)
(* The three programs of vdm-test, which exercise the driver for PCIe      *)
(* vendor defined messages: vdmtest (main.cpp) measures writing and then   *)
(* prints what it reads, vdm_per_test measures writing, and vdm_test sends *)
(* the bytes of its command line or takes packets apart.                   *)
(*                                                                         *)
(* The driver is external: it takes all of a write, a part of it or none,  *)
(* fails, and hands out the words of a packet as they come in.             *)
(***************************************************************************)
EXTENDS Integers, Sequences

CONSTANTS
    TxSizes,       \* --txsize
    TxLoops,       \* --txloop
    DataLens,      \* the lengths of --data, in digits
    DataBuffer,    \* SEND_DATA_BUFF_SIZE, 100
    RxTimeout,     \* 15: the seconds that vdm_test waits in mode send
    Batch,         \* 5000: packets are counted by batches
    BatchesEnd,    \* 95000: the count that ends receive_poll
    PacketLens,    \* the lengths of packets, without the header
    MaxFaults,     \* bound: failing calls
    MaxPackets     \* bound: packets that arrive

ASSUME VdmConstants ==
    /\ TxSizes \subseteq Nat /\ TxLoops \subseteq Nat
    /\ DataLens \subseteq Nat /\ DataBuffer \in Nat
    /\ RxTimeout \in Nat \ {0} /\ Batch \in Nat \ {0} /\ BatchesEnd \in Nat
    /\ PacketLens \subseteq Nat /\ MaxFaults \in Nat /\ MaxPackets \in Nat

mtu == 80
HeaderWords == 4

VARIABLES
    test,       \* the program and its mode
    stage,      \* "args", then "tx", "rx", "header", "body", and "exit"
    txsize, txloop,
    sent, total, \* i: the writes of this round; and what they count
    dataIdx,    \* DataIdx: how much of data_to_send is filled
    timeout, counted,  \* of vdm_test; counted is j + i
    asked,      \* the words of the packet that vdm_test has not read
    fifo,       \* the words <<packet, position>> that the driver has
    packets,    \* the lengths of the packets that arrived
    behind,     \* the words of the last one that are still to come
    faults,
    taken,      \* ghost: the writes that the driver took this round
    bytes,      \* ghost: their bytes; later, the bytes that were read
    silent,     \* ghost: reads in a row that found nothing
    odd         \* ghost: what makes the programs' reports untrue

transmit == <<txsize, txloop, sent>>
driver == <<fifo, packets, behind>>
tally == <<taken, bytes, silent>>
vdm == <<test, stage, transmit, total, dataIdx, timeout, counted, asked, driver,
         faults, tally, odd>>

Tests == {"vdmtest", "vdmtest tx", "vdmtest rx", "vdm_per_test",
          "vdm_test receive", "vdm_test send", "vdm_test receive_poll"}
Perf == {"vdmtest", "vdmtest tx", "vdmtest rx"}
Packets == Tests \ (Perf \cup {"vdm_per_test"})

VdmInit ==
    /\ test \in Tests /\ stage = "args"
    /\ txsize = mtu /\ txloop = 1 /\ sent = 0 /\ total = 0
    /\ dataIdx = 0 /\ timeout = 0 /\ counted = 0 /\ asked = 0
    /\ fifo = << >> /\ packets = << >> /\ behind = 0 /\ faults = 0
    /\ taken = 0 /\ bytes = 0 /\ silent = 0 /\ odd = {}

Goes(to) == stage' = to
Fault == faults < MaxFaults /\ faults' = faults + 1

(* The device cannot be opened, or, in vdm_per_test, be set up.            *)
OpenDeviceFails ==
    /\ stage = "args" /\ Goes("exit")
    /\ UNCHANGED <<test, transmit, total, dataIdx, timeout, counted, asked,
                   driver, faults, tally, odd>>
-----------------------------------------------------------------------------
(* Measuring.                                                              *)

(* Of vdmtest a failing ioctl does not stop the setup.                     *)
OpenToTransmit ==
    /\ stage = "args" /\ test \notin Packets
    /\ txsize' \in TxSizes
    /\ IF test \in Perf THEN txloop' \in TxLoops ELSE txloop' = 1
    /\ Goes(IF test = "vdmtest rx" THEN "rx" ELSE "tx")
    /\ UNCHANGED <<test, sent, total, dataIdx, timeout, counted, asked, driver,
                   faults, tally, odd>>

writelen == IF txsize < mtu THEN txsize ELSE mtu
cnt == (txsize \div mtu) + (IF txsize % mtu # 0 THEN 1 ELSE 0)

(* What vdm_per_test writes has one byte for the route in place of the     *)
(* header's twelve; a negative length is refused by the kernel.            *)
PerWrite == writelen + 1 - 12
Written == IF test \in Perf THEN writelen ELSE PerWrite
Amounts(n) == IF n < 0 THEN {} ELSE {0, n \div 2, n}

WritePacket ==
    /\ stage = "tx" /\ txloop > 0 /\ sent < cnt
    /\ \E n \in Amounts(Written) :
          /\ total' = total + (IF test \in Perf THEN n ELSE n - 1 + 12)
          /\ bytes' = bytes + n
    /\ sent' = sent + 1 /\ taken' = taken + 1
    /\ UNCHANGED <<test, stage, txsize, txloop, dataIdx, timeout, counted,
                   asked, driver, faults, silent, odd>>

\* Mutant: the packet that failed is not sent again.
WriteFailsSkips ==
    /\ stage = "tx" /\ txloop > 0 /\ sent < cnt /\ Fault
    /\ sent' = sent + 1
    /\ UNCHANGED <<test, stage, txsize, txloop, total, dataIdx, timeout,
                   counted, asked, driver, tally, odd>>

(* vdmtest clears the driver's errors and writes the packet again, without *)
(* end; vdm_per_test gives up.                                             *)
WriteFails ==
    /\ stage = "tx" /\ txloop > 0 /\ sent < cnt
    /\ \/ test \in Perf /\ Fault /\ UNCHANGED stage
       \/ test \notin Perf /\ Goes("exit") /\ UNCHANGED faults
    /\ UNCHANGED <<test, transmit, total, dataIdx, timeout, counted, asked,
                   driver, tally, odd>>

(* The round is reported; its total remains when it was the last.          *)
RoundEnds ==
    /\ stage = "tx" /\ (txloop = 0 \/ sent = cnt)
    /\ IF txloop > 1
         THEN /\ txloop' = txloop - 1 /\ sent' = 0 /\ total' = 0
              /\ taken' = 0 /\ bytes' = 0
              /\ UNCHANGED <<stage, odd>>
         ELSE /\ Goes(IF test = "vdmtest" THEN "rx" ELSE "exit")
              /\ odd' = IF total > 0 THEN odd \cup {"sent"} ELSE odd
              /\ bytes' = 0
              /\ UNCHANGED <<txloop, sent, total, taken>>
    /\ UNCHANGED <<test, txsize, dataIdx, timeout, counted, asked, driver,
                   faults, silent>>

(* A read of vdmtest: what is left of a word counts as that many words.    *)
ReceivePacket ==
    /\ stage = "rx" /\ Len(packets) < MaxPackets
    /\ \E rc \in {4, 6, mtu} :
          /\ packets' = Append(packets, rc)
          /\ total' = total + (rc \div 4) + (rc % 4)
          /\ bytes' = bytes + rc
          /\ odd' = IF rc % 4 # 0 THEN odd \cup {"part of a word"} ELSE odd
    /\ UNCHANGED <<test, stage, transmit, dataIdx, timeout, counted, asked,
                   fifo, behind, faults, taken, silent>>

(* An interrupted poll and a failing read go on, a failing poll does not.  *)
ReceiveFails ==
    /\ stage = "rx" /\ Fault
    /\ stage' \in {"rx", "exit"}
    /\ UNCHANGED <<test, transmit, total, dataIdx, timeout, counted, asked,
                   driver, tally, odd>>
-----------------------------------------------------------------------------
(* vdm_test.                                                               *)

(* --data: the byte for the route, then two digits for each byte, up to    *)
(* the byte with a character that is no digit, which is stored as well.    *)
(* A second --data goes behind the first.                                  *)
ParseData ==
    /\ stage = "args" /\ test \in Packets /\ ~("overrun" \in odd)
    /\ \E len \in DataLens :
          LET whole == len % 2 = 0 /\ len \div 2 <= DataBuffer
          IN  \E n \in IF whole THEN 0 .. len \div 2 ELSE {0} :
                 /\ len > 0 /\ whole => n > 0
                 /\ dataIdx' = dataIdx + 1 + n
    /\ odd' = odd \cup (IF dataIdx > 0 THEN {"again"} ELSE {})
                  \cup (IF dataIdx' > DataBuffer + 1 THEN {"overrun"} ELSE {})
    /\ UNCHANGED <<test, stage, transmit, total, timeout, counted, asked,
                   driver, faults, tally>>

(* The setup; in mode send, also the write, whose result is only printed.  *)
OpenForPackets ==
    /\ stage = "args" /\ test \in Packets /\ ~("overrun" \in odd)
    /\ Goes("header")
    /\ UNCHANGED <<test, transmit, total, dataIdx, timeout, counted, asked,
                   driver, faults, tally, odd>>

(* A packet comes in, and its words one by one.                            *)
PacketArrives ==
    /\ stage \in {"header", "body"} /\ behind = 0 /\ Len(packets) < MaxPackets
    /\ \E n \in PacketLens : /\ packets' = Append(packets, n)
                             /\ behind' = HeaderWords + n
    /\ UNCHANGED <<test, stage, transmit, total, dataIdx, timeout, counted,
                   asked, fifo, faults, tally, odd>>

WordArrives ==
    /\ behind > 0 /\ stage # "exit"
    /\ LET p == Len(packets)
       IN  fifo' = Append(fifo, <<p, HeaderWords + packets[p] - behind>>)
    /\ behind' = behind - 1
    /\ UNCHANGED <<test, stage, transmit, total, dataIdx, timeout, counted,
                   asked, packets, faults, tally, odd>>

(* The length field of a word that is taken for a header: the one of its   *)
(* packet, and anything elsewhere.                                         *)
LengthIn(w) == IF w[2] = 0 THEN {packets[w[1]]} ELSE PacketLens

ReadHeader ==
    /\ stage = "header" /\ fifo # << >>
    /\ \E n \in LengthIn(Head(fifo)) : asked' = n + HeaderWords - 1
    /\ fifo' = Tail(fifo)
    /\ counted' = IF test = "vdm_test receive_poll" THEN counted + 1 ELSE counted
    /\ silent' = 0
    /\ Goes("body")
    /\ UNCHANGED <<test, transmit, total, dataIdx, timeout, packets, behind,
                   faults, taken, bytes, odd>>

(* The whole batches, j, end receive_poll.                                 *)
Enough(n) == test = "vdm_test receive_poll" /\ (n \div Batch) * Batch >= BatchesEnd

\* Mutant: the seconds that were waited in all are counted.
ReadBodyWaited ==
    /\ stage = "body"
    /\ LET n == IF asked < Len(fifo) THEN asked ELSE Len(fifo)
       IN  /\ fifo' = SubSeq(fifo, n + 1, Len(fifo))
           /\ odd' = IF n < asked THEN odd \cup {"short"} ELSE odd
    /\ Goes(IF Enough(counted) THEN "exit" ELSE "header")
    /\ UNCHANGED <<test, transmit, total, dataIdx, timeout, counted, asked,
                   packets, behind, faults, tally>>

(* The rest of the packet is read at once, complete or not.                *)
ReadBody ==
    /\ stage = "body"
    /\ LET n == IF asked < Len(fifo) THEN asked ELSE Len(fifo)
       IN  /\ fifo' = SubSeq(fifo, n + 1, Len(fifo))
           /\ odd' = IF n < asked THEN odd \cup {"short"} ELSE odd
    /\ timeout' = 0
    /\ Goes(IF Enough(counted) THEN "exit" ELSE "header")
    /\ UNCHANGED <<test, transmit, total, dataIdx, counted, asked, packets,
                   behind, faults, tally>>

(* Nothing to read: mode send waits up to RxTimeout seconds, mode receive  *)
(* for ever, and receive_poll is not woken up.                             *)
NothingToRead ==
    /\ stage = "header" /\ fifo = << >> /\ test = "vdm_test send"
    /\ timeout' = timeout + 1 /\ silent' = silent + 1
    /\ Goes(IF timeout' >= RxTimeout THEN "exit" ELSE "header")
    /\ UNCHANGED <<test, transmit, total, dataIdx, counted, asked, driver,
                   faults, taken, bytes, odd>>
-----------------------------------------------------------------------------
VdmNext ==
    \/ OpenDeviceFails \/ OpenToTransmit \/ WritePacket \/ WriteFails \/ RoundEnds
    \/ ReceivePacket \/ ReceiveFails
    \/ ParseData \/ OpenForPackets \/ PacketArrives \/ WordArrives
    \/ ReadHeader \/ ReadBody \/ NothingToRead
=============================================================================
