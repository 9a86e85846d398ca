---------------------------- MODULE MCHostTools ----------------------------
(* The small programs that a user runs beside or on the BMC, one of them   *)
(* at a time.  Their properties are stated here, over small instances.     *)
EXTENDS MailboxTransfer, ArmDebugClient, VdmTests, ExportWindow

VARIABLE tool   \* the one that runs

ToolsInit ==
    /\ MailboxInit /\ DebugInit /\ VdmInit /\ SearchInit /\ WindowInit
    /\ tool \in {"xfer_mbox_mem", "jtag_client", "vdm-test", "NBDServerWS", "search"}
    /\ tool # "vdm-test" => test = "vdmtest"
    /\ tool # "NBDServerWS" => \A n \in Drives : attached[n] = Absent
    /\ tool # "search" => first = <<1, "plain">>
    /\ tool \notin {"NBDServerWS", "search"} => host = "Linux"

ToolsNext ==
    /\ \/ /\ tool = "xfer_mbox_mem" /\ MailboxNext
          /\ UNCHANGED <<debug, vdm, bmcSearch, exportWindow>>
       \/ /\ tool = "jtag_client" /\ DebugNext
          /\ UNCHANGED <<mailbox, vdm, bmcSearch, exportWindow>>
       \/ /\ tool = "vdm-test" /\ VdmNext
          /\ UNCHANGED <<mailbox, debug, bmcSearch, exportWindow>>
       \/ /\ tool = "search" /\ SearchNext
          /\ UNCHANGED <<mailbox, debug, vdm, exportWindow>>
       \/ /\ tool = "NBDServerWS" /\ WindowNext
          /\ UNCHANGED <<mailbox, debug, vdm, bmcSearch>>
    /\ UNCHANGED tool

ToolsSpec == ToolsInit /\ [][ToolsNext]_<<mailbox, debug, vdm, bmcSearch, exportWindow, tool>>

\* From an empty file to one that is longer than either window.
MCSizes == {0, 1, 2, 3, 9}

Kind(type_, bus_, media_, ready_) ==
    [type |-> type_, bus |-> bus_, media |-> media_, ready |-> ready_]

\* A stick, an empty card reader, a hard disk, a slow USB disk, a floppy.
MCDriveKinds ==
    {Kind("removable", "usb", "disk", "yes"), Kind("removable", "sd", "disk", "no"),
     Kind("fixed", "sata", "disk", "yes"), Kind("fixed", "usb", "disk", "slowly"),
     Kind("removable", "usb", "floppy", "yes")}

\* Ranges of one, of some and of all addresses, and one that never ends.
MCRangeTexts == {<<1, "plain">>, <<3, "plain">>, <<1, "odd">>, <<4, "odd">>}
-----------------------------------------------------------------------------
DebugValues == {Junk, Data} \cup (Registers \X (0 .. MaxStops))

(* The types of each program's variables.                                 *)
MailboxTypes ==
    /\ phase \in {"scan", "open", "read", "size", "poll", "exit"}
    /\ p2aLength \in {0} \cup {PCIDeviceList[d].Length : d \in DOMAIN PCIDeviceList}
    /\ file \in [size : {0} \cup Sizes, version : 0 .. 2]
    /\ readPos \in Nat
    /\ window \in [0 .. p2aLength - 1 -> (0 .. 2) \X Nat]
    /\ told \in 0 .. maxImageSize
    /\ messages \in 0 .. MaxMessages
    /\ reply \in {"unset", "other", "own"}
    /\ result \in {"none", "answer", "garbage", "exception"}
    /\ exitCode \in {-1, 0, 1}
    /\ hitches \subseteq {"short read", "short write", "read error", "replaced"}

DebugTypes ==
    /\ client \in Guarded \cup {"prompt", "gone", "id", "halt", "go", "regs", "clrBP"}
    /\ step \in 0 .. 5 /\ index \in Registers \cup {16}
    /\ saved \in [{"Regs0", "PC", "R0", "R1"} -> DebugValues]
    /\ core \in {"runs", "fresh", "used"}
    /\ reg \in [Registers -> DebugValues]
    /\ program \in [Registers -> DebugValues]
    /\ stops \in 0 .. MaxStops /\ commands \in 0 .. MaxCommands
    /\ breakpoint \in BOOLEAN /\ knows \in BOOLEAN
    /\ amiss \subseteq {"divided", "lost", "index", "blind"}

VdmTypes ==
    /\ test \in Tests
    /\ stage \in {"args", "tx", "rx", "header", "body", "exit"}
    /\ txsize \in TxSizes \cup {mtu}
    /\ fifo \in Seq(Nat \X Nat) /\ packets \in Seq(Nat)
    /\ odd \subseteq {"sent", "part of a word", "again", "overrun", "short"}

Numbers ==
    /\ txloop \in Nat /\ sent \in Nat /\ total \in Nat /\ bytes \in Nat /\ taken \in Nat
    /\ dataIdx \in Nat /\ timeout \in Nat /\ counted \in Nat /\ asked \in Nat
    /\ behind \in Nat /\ faults \in Nat /\ silent \in Nat

Addresses == 0 .. LastAddress

SearchTypes ==
    /\ host \in {"Windows", "Linux"}
    /\ first \in RangeTexts /\ last \in RangeTexts
    /\ searching \in {"no", "yes", "done"}
    /\ cursor \in Addresses \X {"plain", "odd"}
    /\ offset \in Nat /\ exist \in Nat
    /\ live \in Seq((RangeTexts \cup (Addresses \X {"plain"})) \X Nat)
    /\ tried \in Seq(Addresses \X BOOLEAN)

Kinds ==
    [type : {"removable", "fixed", "other"}, bus : {"usb", "sd", "sata", "unknown"},
     media : {"disk", "floppy"}, ready : {"yes", "slowly", "no"}]

DriveTypes ==
    /\ host \in {"Windows", "Linux"}
    /\ view \in {"starting", "shown"}
    /\ attached \in [Drives -> Kinds \cup {Absent}]
    /\ listed \in Seq(Drives)
    /\ notices \in Seq({"arrival", "removal", "directory"} \X SUBSET Drives)
    /\ overlooked \subseteq Drives

(* No chunk leaves the window that was found, no word in the driver is of  *)
(* a packet that was not sent, and what is chosen is among the choices.    *)
TypeOK ==
    /\ MailboxTypes /\ DebugTypes /\ VdmTypes /\ Numbers /\ SearchTypes /\ DriveTypes
    /\ \A k \in DOMAIN fifo : fifo[k][1] \in DOMAIN packets
    /\ selected \in Range(listed) \cup {0}
    /\ currentType \in Range(types) \cup {"none"}
    /\ exporting \in {"no", "device", "image"}

(* When the BMC is told a size, that many cells of the file are in the     *)
(* window, in place.  It rests on two numbers of different files: chunks   *)
(* of a longer file are laid over each other, and it is the limit of       *)
(* updater.cpp, looked at after the copy, that keeps such a file from      *)
(* being announced, because no window of p2a.hpp is smaller.  Excepted are *)
(* the faults that the tool does not notice: a read that returned less     *)
(* than it could or failed, a short pwrite, and a file that was replaced   *)
(* after its transfer began.                                               *)
MailboxHoldsFile ==
    told > 0 /\ hitches = {} =>
        /\ told <= p2aLength
        /\ \A i \in 0 .. told - 1 : window[i] = <<file.version, i>>

(* What sendPacket takes for its answer is the answer to its request: not  *)
(* a message for somebody else that came before it, whatever interrupted   *)
(* the waiting.  The exception is an interrupt before the first message,   *)
(* when the id that is compared is not set yet; and a transfer that failed *)
(* is never announced.                                                     *)
ReplyIsAnswer ==
    /\ result \in {"answer", "garbage"} =>
          told > 0 /\ (IF result = "answer" THEN reply = "own" ELSE messages = 0)
    /\ exitCode = -1 => told = 0

(* The transfer of a file ends as it says.                                 *)
TransferTrue == MailboxHoldsFile /\ ReplyIsAnswer

(* Debugging leaves the program as it was: at the prompt, R0 and R1 of a   *)
(* stopped core hold what the program or the last wreg put there, although *)
(* every command works through them; and a core that runs again does so    *)
(* with its registers, where it stopped (a PC that wreg set is lost).      *)
(* Excepted are a divided answer, a lost connection, a register number     *)
(* that is out of bounds, and a "go" after a stop that the last "halt" did *)
(* not see first: a breakpoint, another command before it, or a second     *)
(* halt.                                                                   *)
ProgramUndisturbed ==
    amiss = {} =>
        /\ core = "runs" => reg = program
        /\ client = "prompt" /\ core # "runs" =>
              reg[0] = program[0] /\ reg[1] = program[1]

(* A round of vdmtest, and the run of vdm_per_test, are reported when the  *)
(* driver took every packet of them, in spite of the writes that failed in *)
(* between, and with the bytes that it took.                               *)
RoundComplete ==
    stage = "tx" /\ sent = cnt =>
        /\ taken = cnt
        /\ total = bytes + (IF test = "vdm_per_test" THEN 11 * cnt ELSE 0)

(* "Total receive" is what was read, unless packets were sent before in    *)
(* the same run or one ended within a word.                                *)
TotalTrue ==
    stage = "rx" /\ odd = {} => 4 * total = bytes

(* vdm_test reads a header where a packet begins, as long as it never read *)
(* a packet that was still coming in.                                      *)
AtPacket ==
    stage = "header" /\ "short" \notin odd /\ fifo # << >> => Head(fifo)[2] = 0

(* It gives up after so many reads in a row that found nothing, not sooner *)
(* because it waited for earlier packets, and not later.                   *)
TimeoutIsSilence ==
    test = "vdm_test send" =>
        /\ timeout <= RxTimeout
        /\ stage = "header" => silent = timeout
        /\ timeout = RxTimeout => silent = RxTimeout

(* What one --data holds fits data_to_send.                                *)
DataFits == odd \cap {"again"} = {} => dataIdx <= DataBuffer + 1

(* What the tests of the VDM driver report is what they measured.          *)
VdmReportsTrue ==
    tool = "vdm-test" =>
        /\ RoundComplete /\ TotalTrue
        /\ AtPacket /\ TimeoutIsSilence /\ DataFits
(* A search asks every address from the first one to the last exactly      *)
(* once, also over the end of the address space, and lists those that      *)
(* answered, in order and with the offset that get_request_ip adds.  A     *)
(* last address that inet_ntoa would write otherwise is never met, unless  *)
(* it is the first one as well.                                            *)
SearchCovers ==
    searching # "no" =>
        /\ \A k \in DOMAIN tried :
              tried[k][1] = (first[1] + k - 1) % (LastAddress + 1)
        /\ first[2] = "plain" /\ last[2] = "plain" =>
              LET count == 1 + ((last[1] - first[1]) % (LastAddress + 1))
              IN  /\ Len(tried) <= count
                  /\ searching = "done" => Len(tried) = count
        /\ searching = "done" => last[2] = "plain" \/ last = first
        /\ Len(live) = Cardinality({k \in DOMAIN tried : tried[k][2]})
        /\ \A k \in DOMAIN live :
              /\ tried[live[k][2] + 1] = <<live[k][1][1], TRUE>>
              /\ k > 1 => live[k - 1][2] < live[k][2]

(* When no message waits, the drives that are listed are those that are    *)
(* there and can be exported, each once, and on Windows no hard disk; the  *)
(* Linux program lists them by their names.  Excepted are drives that the  *)
(* program was not told of: they came or went before it listened, or were  *)
(* not the first of a message.                                             *)
ListTrue ==
    notices = << >> =>
        /\ Range(listed) \ overlooked = Present \ overlooked
        /\ IsInjective(listed)
        /\ host = "Windows" =>
              \A n \in Range(listed) \ overlooked : attached[n].bus # "sata"

(* On Windows a drive that the user chose stays the one that Start exports *)
(* while it is listed, whatever else comes and goes.                       *)
PickKept ==
    host = "Windows" /\ picked # 0 => selected = picked /\ picked \in Range(listed)

(* Start is enabled and an export begins only after a search found a BMC,  *)
(* though Cancel enables it without looking.                               *)
StartAfterSearch ==
    startEnabled \/ exporting # "no" => searchDone

(* What the window shows is what there is to export.                       *)
WindowTrue ==
    /\ tool = "search" => SearchCovers
    /\ tool = "NBDServerWS" => ListTrue /\ PickKept /\ StartAfterSearch
=============================================================================
