--------------------------- MODULE HostToolsProofs ---------------------------
(***************************************************************************)
(* Proofs about the small programs of MCHostTools, for every value of      *)
(* their constants: what each of them tells its user is true.              *)
(*                                                                         *)
(* Only one of the programs runs, and none touches the state of another,   *)
(* so that every program has an invariant of its own: TransferInv,         *)
(* DebugInv, VdmInv, SearchInv and ListInv, each of them inductive         *)
(* together with the types of its variables.                               *)
(***************************************************************************)
EXTENDS MCHostTools, FiniteSetTheorems, WellFoundedInduction, TLAPS
-----------------------------------------------------------------------------
(* xfer_mbox_mem.                                                          *)
Before == phase \in {"scan", "open", "read", "size"}

(* A window was found, and it is longer than any size that is told.        *)
HasWindow == phase \in {"open", "read", "size", "poll"} \/ told > 0 => p2aLength >= maxImageSize

(* A file that fits is staged by one chunk.                                *)
Staging ==
    hitches = {} =>
        /\ phase \in {"scan", "open"} => readPos = 0
        /\ phase \in {"read", "size"} \/ told > 0 => file.size > 0
        /\ phase = "size" \/ told > 0 => readPos >= file.size
        /\ (phase \in {"read", "size"} \/ told > 0) /\ file.size <= p2aLength =>
              \/ readPos = 0
              \/ /\ readPos = file.size
                 /\ \A i \in 0 .. file.size - 1 : window[i] = <<file.version, i>>

Answering ==
    /\ Before => told = 0 /\ messages = 0 /\ reply = "unset"
    /\ Before \/ phase = "poll" => exitCode = 1 /\ result = "none"
    /\ phase = "poll" => told > 0
    /\ told > 0 => told = file.size /\ phase \in {"poll", "exit"}
    /\ reply = "unset" <=> messages = 0

TransferInv == MailboxTypes /\ HasWindow /\ Staging /\ Answering /\ ReplyIsAnswer
-----------------------------------------------------------------------------
(* jtag_client.                                                            *)
Memory32 == client \in {"mem32", "wmem32"}

(* A command starts at its first packet, and the prompt has none.          *)
Steps ==
    /\ client = "prompt" => step = 0
    /\ client \notin {"prompt", "gone"} => step > 0

Runs ==
    core = "runs" =>
        /\ reg = program
        /\ client \in {"prompt", "gone", "id", "setBP", "clrBP"} \/ At("halt", 1)

(* Where the registers of the program are while a command borrows them.    *)
Borrowed ==
    client # "gone" =>
        /\ step <= 1 \/ (Memory32 /\ step = 2) => reg[0] = program[0]
        /\ ~(Memory32 /\ step > 3) => reg[1] = program[1]
        /\ client = "halt" /\ step > 1 => saved.Regs0 = program[0]
        /\ (client = "go" \/ Memory32) /\ step > 1 => saved.R0 = program[0]
        /\ Memory32 /\ step > 2 => saved.R1 = program[1]

(* The PC that go puts back.                                               *)
KnownPc ==
    knows =>
        /\ At("halt", 2) => core = "fresh"
        /\ core # "runs" /\ ~At("halt", 2) => saved.PC = program[15]

Undisturbed ==
    /\ Steps /\ Runs /\ Borrowed /\ KnownPc
    /\ core = "fresh" => reg = program
    /\ \A r \in Registers : program[r] # Junk

DebugInv == DebugTypes /\ (amiss = {} => Undisturbed)
-----------------------------------------------------------------------------
(* The tests of the VDM driver.                                            *)
Stages ==
    /\ stage = "args" => sent = 0 /\ total = 0 /\ bytes = 0 /\ taken = 0 /\ timeout = 0 /\ silent = 0
    /\ stage \in {"tx", "rx"} => test \notin Packets
    /\ stage \in {"header", "body"} => test \in Packets
    /\ test \notin Packets => fifo = << >> /\ behind = 0

RoundInv ==
    stage = "tx" => taken = sent
                    /\ total = bytes + (IF test = "vdm_per_test" THEN 11 * sent ELSE 0)

(* The words of its packet from the k-th of the driver on.                 *)
Left(k) == HeaderWords + packets[fifo[k][1]] - fifo[k][2]

(* The words that the driver has follow one another, and the next to come  *)
(* follows the last.                                                       *)
InSequence ==
    \A k, l \in 1 .. Len(fifo) :
        k <= l /\ l - k <= Left(k) =>
            fifo[l] = IF l - k < Left(k) THEN <<fifo[k][1], fifo[k][2] + l - k>>
                                         ELSE <<fifo[k][1] + 1, 0>>

NextToCome ==
    /\ behind > 0 => packets # << >>
    /\ packets # << >> => behind <= HeaderWords + packets[Len(packets)]
    /\ \A k \in 1 .. Len(fifo) :
          /\ fifo[k][1] \in 1 .. Len(packets)
          /\ Left(k) > 0
          /\ fifo[k][1] = Len(packets) => Left(k) = Len(fifo) - k + 1 + behind
          /\ fifo[k][1] < Len(packets) =>
                /\ Left(k) <= Len(fifo) - k + 1
                /\ Left(k) = Len(fifo) - k + 1 =>
                      /\ fifo[k][1] = Len(packets) - 1
                      /\ behind = HeaderWords + packets[Len(packets)]

(* What is read next is where the program takes it to be.                  *)
ReadNext ==
    "short" \notin odd =>
        /\ stage = "header" =>
              IF fifo # << >> THEN fifo[1][2] = 0
              ELSE behind > 0 => behind = HeaderWords + packets[Len(packets)]
        /\ stage = "body" =>
              IF fifo # << >>
              THEN fifo[1][2] = 1 /\ asked = HeaderWords + packets[fifo[1][1]] - 1
              ELSE /\ packets # << >> /\ asked = behind
                   /\ asked = HeaderWords + packets[Len(packets)] - 1
        /\ stage = "args" => fifo = << >> /\ behind = 0

TimeInv ==
    /\ timeout <= RxTimeout
    /\ stage # "exit" => timeout < RxTimeout
    /\ stage = "header" => silent = timeout
    /\ stage = "body" => silent = 0
    /\ timeout = RxTimeout => silent = RxTimeout

VdmInv ==
    /\ VdmTypes /\ Numbers /\ Stages /\ RoundInv /\ TotalTrue
    /\ InSequence /\ NextToCome /\ ReadNext /\ TimeInv /\ DataFits
-----------------------------------------------------------------------------
(* The search for BMCs.                                                    *)
Distance == (last[1] - first[1]) % (LastAddress + 1)

CursorInv ==
    searching # "no" =>
        /\ cursor = IF offset = 0 THEN first
                    ELSE <<(first[1] + offset) % (LastAddress + 1), "plain">>
        /\ Len(tried) = offset + IF searching = "done" THEN 1 ELSE 0
        /\ searching = "done" => cursor = last
        /\ first[2] = "plain" /\ last[2] = "plain" => offset <= Distance

Hits == {k \in DOMAIN tried : tried[k][2]}

LiveInv ==
    /\ Len(live) = Cardinality(Hits)
    /\ \A k \in 1 .. Len(live) :
          /\ live[k][2] + 1 \in 1 .. Len(tried)
          /\ tried[live[k][2] + 1] = <<live[k][1][1], TRUE>>
          /\ k > 1 => live[k - 1][2] < live[k][2]

TriedInv ==
    searching # "no" =>
        \A k \in 1 .. Len(tried) : tried[k][1] = (first[1] + k - 1) % (LastAddress + 1)

SearchInv == SearchTypes /\ CursorInv /\ LiveInv /\ TriedInv
-----------------------------------------------------------------------------
(* The window.                                                             *)
Pending(n) == {k \in 1 .. Len(notices) : n \in notices[k][2]}

Masks ==
    \A k \in 1 .. Len(notices) :
        IF host = "Windows" THEN notices[k][2] # { } /\ notices[k][1] # "directory"
                            ELSE notices[k][1] = "directory"

(* A drive that the program heard of is listed as it is when no message    *)
(* about it waits; a listed one is as it was unless it was removed; and    *)
(* the last message tells whether it is there.                             *)
Follows(n) ==
    /\ Pending(n) = {} => (n \in Range(listed) <=> n \in Present)
    /\ n \in Range(listed) /\ (\A k \in Pending(n) : notices[k][1] = "arrival") => n \in Present
    /\ \A k \in Pending(n) :
          (\A l \in Pending(n) : l <= k) /\ notices[k][1] = "removal" => attached[n] = Absent

DrivesInv ==
    /\ DriveTypes /\ Masks /\ IsInjective(listed)
    /\ view = "starting" => notices = << >>
    /\ host = "Windows" => \A n \in Drives \ overlooked : Follows(n)
    /\ host = "Linux" /\ notices = << >> => Range(listed) \ overlooked = Present \ overlooked

(* The current drive is one of the list, and the one the user chose.       *)
PickInv == selected \in Range(listed) \cup {0} /\ PickKept

ChoiceInv ==
    /\ types \in Seq({"Device", "Image"})
    /\ currentType \in Range(types) \cup {"none"}
    /\ exporting \in {"no", "device", "image"}
    /\ host = "Linux" => types = <<"Device", "Image">>
    /\ StartAfterSearch

ListInv == DrivesInv /\ PickInv /\ ChoiceInv
-----------------------------------------------------------------------------
(* xfer_mbox_mem: the steps.                                               *)
THEOREM TransferInit == ToolsInit => TransferInv
  <1>. SUFFICES ASSUME ToolsInit PROVE TransferInv
    OBVIOUS
  <1>1. /\ phase = "scan" /\ p2aLength = 0
        /\ file = [size |-> 0, version |-> 0] /\ readPos = 0
        /\ window = << >> /\ told = 0
        /\ messages = 0 /\ reply = "unset" /\ result = "none"
        /\ exitCode = 1 /\ hitches = {}
    BY DEF ToolsInit, MailboxInit
  <1>2. window \in [0 .. p2aLength - 1 -> (0 .. 2) \X Nat]
    BY <1>1
  <1>3. MailboxTypes
    <2>1. MaxMessages \in Nat
      BY MailboxConstants
    <2>2. file \in [size : {0} \cup Sizes, version : 0 .. 2]
      BY <1>1
    <2>3. QED
      BY <1>1, <1>2, <2>1, <2>2 DEF MailboxTypes, maxImageSize
  <1>4. QED
    BY <1>1, <1>3 DEF TransferInv, HasWindow, Staging, Answering, Before, ReplyIsAnswer

(* The lengths of the windows.                                             *)
LEMMA Windows ==
    ASSUME MailboxTypes
    PROVE  p2aLength \in {0, 2, 8} /\ file.size \in Nat /\ file.version \in 0 .. 2
  <1>1. DOMAIN PCIDeviceList = {1, 2}
    BY DEF PCIDeviceList
  <1>2. PCIDeviceList[1].Length = 8 /\ PCIDeviceList[2].Length = 2
    BY DEF PCIDeviceList
  <1>3. p2aLength \in {0, 2, 8}
    BY <1>1, <1>2 DEF MailboxTypes
  <1>4. file.size \in {0} \cup Sizes /\ file.version \in 0 .. 2
    BY DEF MailboxTypes
  <1>5. \A n \in {0} \cup Sizes : n \in Nat
    BY MailboxConstants
  <1>6. QED
    BY <1>3, <1>4, <1>5

(* The tool ends before the BMC is told anything.                          *)
LEMMA EndsUntold ==
    ASSUME TransferInv, Before, phase' = "exit", exitCode' \in {-1, 0, 1},
           result' \in {"none", "exception"},
           UNCHANGED <<p2aLength, file, readPos, window, told, messages, reply, hitches>>
    PROVE  TransferInv'
  <1>. USE DEF TransferInv
  <1>1. MailboxTypes'
    BY DEF MailboxTypes
  <1>2. told = 0 /\ messages = 0 /\ reply = "unset"
    BY DEF Answering
  <1>3. QED
    BY <1>1, <1>2 DEF HasWindow, Staging, Answering, Before, ReplyIsAnswer

LEMMA FindDeviceKeeps ==
    ASSUME TransferInv, FindDevice
    PROVE  TransferInv'
  <1>. USE DEF TransferInv
  <1>1. /\ phase = "scan"
        /\ UNCHANGED <<readPos, told, messages, reply, result, hitches>>
    BY DEF FindDevice
  <1>2. PICK bars \in [1 .. Len(PCIDeviceList) -> Bars], size \in Sizes :
          LET usable == {d \in DOMAIN bars : bars[d] = "memory"}
          IN  \/ /\ usable = {} /\ Fails
                 /\ UNCHANGED <<p2aLength, file, window>>
              \/ \E d \in usable :
                    /\ \A other \in usable : d <= other
                    /\ phase' = "open" /\ UNCHANGED exitCode
                    /\ p2aLength' = PCIDeviceList[d].Length
                    /\ window' = Empty(PCIDeviceList[d].Length)
                    /\ file' = [size |-> size, version |-> 1]
    BY DEF FindDevice
  <1>3. CASE Fails /\ UNCHANGED <<p2aLength, file, window>>
    BY <1>1, <1>3, EndsUntold DEF Fails, Before, Answering
  <1>4. ASSUME NEW d \in 1 .. Len(PCIDeviceList), phase' = "open", UNCHANGED exitCode,
               p2aLength' = PCIDeviceList[d].Length,
               window' = Empty(PCIDeviceList[d].Length),
               file' = [size |-> size, version |-> 1]
        PROVE  TransferInv'
    <2>1. d \in DOMAIN PCIDeviceList
      BY <1>4 DEF PCIDeviceList
    <2>2. p2aLength' \in {2, 8}
      BY <1>4, <2>1 DEF PCIDeviceList
    <2>3. window' \in [0 .. p2aLength' - 1 -> (0 .. 2) \X Nat]
      BY <1>4, <2>2 DEF Empty
    <2>4. file' \in [size : {0} \cup Sizes, version : 0 .. 2]
      BY <1>4
    <2>5. p2aLength' \in {0} \cup {PCIDeviceList[e].Length : e \in DOMAIN PCIDeviceList}
      BY <1>4, <2>1
    <2>6. MailboxTypes'
      BY <1>1, <1>4, <2>3, <2>4, <2>5 DEF MailboxTypes
    <2>7. told = 0 /\ messages = 0 /\ reply = "unset" /\ exitCode = 1 /\ result = "none"
      BY <1>1 DEF Answering, Before
    <2>8. hitches = {} => readPos = 0
      BY <1>1 DEF Staging
    <2>9. QED
      BY <1>1, <1>4, <2>2, <2>6, <2>7, <2>8
      DEF HasWindow, Staging, Answering, Before, ReplyIsAnswer, maxImageSize
  <1>5. QED
    BY <1>2, <1>3, <1>4

LEMMA OpenFileKeeps ==
    ASSUME TransferInv, OpenFile
    PROVE  TransferInv'
  <1>. USE DEF TransferInv
  <1>1. /\ phase = "open"
        /\ UNCHANGED <<p2aLength, file, readPos, window, told, messages, reply, result, hitches>>
    BY DEF OpenFile
  <1>2. CASE Fails
    BY <1>1, <1>2, EndsUntold DEF Fails, Before, Answering
  <1>3. CASE file.size > 0 /\ phase' = "read" /\ UNCHANGED exitCode
    <2>1. MailboxTypes'
      BY <1>1, <1>3 DEF MailboxTypes
    <2>2. told = 0 /\ messages = 0 /\ reply = "unset" /\ exitCode = 1 /\ result = "none"
      BY <1>1 DEF Answering, Before
    <2>3. QED
      BY <1>1, <1>3, <2>1, <2>2 DEF HasWindow, Staging, Answering, Before, ReplyIsAnswer
  <1>4. QED
    BY <1>2, <1>3 DEF OpenFile

LEMMA TransferChunkKeeps ==
    ASSUME TransferInv, TransferChunk
    PROVE  TransferInv'
  <1>. USE DEF TransferInv
  <1>1. /\ phase = "read" /\ readPos < file.size
        /\ UNCHANGED <<phase, p2aLength, file, told, messages, reply, result, exitCode>>
    BY DEF TransferChunk
  <1>2. PICK n \in 1 .. Chunk : \E stored \in 0 .. n :
          /\ window' = Staged(stored)
          /\ readPos' = readPos + n
          /\ hitches' = hitches \cup (IF n < Chunk THEN {"short read"} ELSE {})
                                \cup (IF stored < n THEN {"short write"} ELSE {})
    BY DEF TransferChunk
  <1>3. PICK stored \in 0 .. n :
          /\ window' = Staged(stored)
          /\ readPos' = readPos + n
          /\ hitches' = hitches \cup (IF n < Chunk THEN {"short read"} ELSE {})
                                \cup (IF stored < n THEN {"short write"} ELSE {})
    BY <1>2
  <1>4. /\ p2aLength \in {2, 8} /\ file.size \in Nat /\ file.version \in 0 .. 2
        /\ readPos \in Nat
    <2>1. p2aLength \in {0, 2, 8} /\ file.size \in Nat /\ file.version \in 0 .. 2
      BY Windows
    <2>2. p2aLength >= 2 /\ readPos \in Nat
      BY <1>1 DEF HasWindow, maxImageSize, MailboxTypes
    <2>3. QED
      BY <2>1, <2>2
  <1>5. Chunk \in Nat /\ Chunk <= p2aLength /\ Chunk <= file.size - readPos
        /\ (file.size - readPos <= p2aLength => Chunk = file.size - readPos)
    BY <1>1, <1>4 DEF Chunk
  <1>6. DOMAIN window = 0 .. p2aLength - 1
    BY DEF MailboxTypes
  <1>7. DOMAIN window \cup (0 .. stored - 1) = 0 .. p2aLength - 1
    BY <1>4, <1>5, <1>6
  <1>8. window' = [i \in 0 .. p2aLength - 1 |->
                     IF i < stored THEN <<file.version, readPos + i>> ELSE window[i]]
    BY <1>3, <1>7 DEF Staged
  <1>9. window' \in [0 .. p2aLength - 1 -> (0 .. 2) \X Nat]
    <2>1. \A i \in 0 .. p2aLength - 1 : window[i] \in (0 .. 2) \X Nat
      BY DEF MailboxTypes
    <2>2. \A i \in 0 .. p2aLength - 1 : <<file.version, readPos + i>> \in (0 .. 2) \X Nat
      BY <1>4
    <2>3. QED
      BY <1>8, <2>1, <2>2
  <1>10. MailboxTypes'
    <2>1. readPos' \in Nat
      <3>1. readPos' = readPos + n
        BY <1>3
      <3>2. n \in Nat
        BY <1>5
      <3>3. QED
        BY <1>4, <3>1, <3>2
    <2>2. hitches' \subseteq {"short read", "short write", "read error", "replaced"}
      BY <1>3 DEF MailboxTypes
    <2>3. QED
      BY <1>1, <1>9, <2>1, <2>2 DEF MailboxTypes
  <1>11. told = 0
    BY <1>1 DEF Answering, Before
  <1>12. Staging'
    <2>. SUFFICES ASSUME hitches' = {}
                  PROVE  /\ file.size > 0
                         /\ file.size <= p2aLength =>
                               \/ readPos' = 0
                               \/ /\ readPos' = file.size
                                  /\ \A i \in 0 .. file.size - 1 : window'[i] = <<file.version, i>>
      BY <1>1, <1>11 DEF Staging
    <2>1. hitches = {} /\ n = Chunk /\ stored = n
      <3>1. n <= Chunk /\ stored <= n
        BY <1>5
      <3>2. hitches = {} /\ ~(n < Chunk) /\ ~(stored < n)
        BY <1>3
      <3>3. QED
        BY <1>5, <3>1, <3>2
    <2>2. file.size > 0
      BY <1>1, <2>1 DEF Staging
    <2>3. ASSUME file.size <= p2aLength
          PROVE  /\ readPos' = file.size
                 /\ \A i \in 0 .. file.size - 1 : window'[i] = <<file.version, i>>
      <3>1. readPos = 0
        BY <1>1, <1>4, <2>1, <2>3 DEF Staging
      <3>2. Chunk = file.size
        BY <1>4, <1>5, <2>3, <3>1
      <3>3. stored = file.size /\ readPos' = file.size
        <4>1. readPos' = readPos + n
          BY <1>3
        <4>2. QED
          BY <1>4, <2>1, <3>1, <3>2, <4>1
      <3>4. ASSUME NEW i \in 0 .. file.size - 1
            PROVE  window'[i] = <<file.version, i>>
        BY <1>4, <1>8, <2>3, <3>1, <3>3
      <3>5. QED
        BY <3>3, <3>4
    <2>4. QED
      BY <2>2, <2>3
  <1>13. HasWindow' /\ Answering' /\ ReplyIsAnswer'
    BY <1>1 DEF HasWindow, Answering, Before, ReplyIsAnswer
  <1>14. QED
    BY <1>10, <1>12, <1>13

LEMMA EndOfFileKeeps ==
    ASSUME TransferInv, EndOfFile
    PROVE  TransferInv'
  <1>. USE DEF TransferInv
  <1>1. /\ phase = "read" /\ phase' = "size"
        /\ hitches' = IF readPos < file.size THEN hitches \cup {"read error"} ELSE hitches
        /\ UNCHANGED <<p2aLength, file, readPos, window, told, messages, reply, result, exitCode>>
    BY DEF EndOfFile
  <1>2. MailboxTypes'
    BY <1>1 DEF MailboxTypes
  <1>3. file.size \in Nat /\ readPos \in Nat
    BY Windows DEF MailboxTypes
  <1>4. told = 0
    BY <1>1 DEF Answering, Before
  <1>5. hitches' = {} => hitches = {} /\ readPos >= file.size
    <2>1. CASE readPos < file.size
      BY <1>1, <2>1
    <2>2. CASE ~(readPos < file.size)
      <3>1. readPos >= file.size
        BY <1>3, <2>2
      <3>2. QED
        BY <1>1, <2>2, <3>1
    <2>3. QED
      BY <2>1, <2>2
  <1>6. Staging'
    BY <1>1, <1>4, <1>5 DEF Staging
  <1>7. QED
    BY <1>1, <1>2, <1>6 DEF HasWindow, Answering, Before, ReplyIsAnswer

LEMMA FileReplacedKeeps ==
    ASSUME TransferInv, FileReplaced
    PROVE  TransferInv'
  <1>. USE DEF TransferInv
  <1>1. /\ phase \in {"open", "read", "size"}
        /\ hitches' = IF phase = "open" THEN hitches ELSE hitches \cup {"replaced"}
        /\ UNCHANGED <<phase, p2aLength, readPos, window, told, messages, reply, result, exitCode>>
    BY DEF FileReplaced
  <1>2. PICK size \in Sizes : file' = [size |-> size, version |-> 2]
    BY DEF FileReplaced
  <1>3. file' \in [size : {0} \cup Sizes, version : 0 .. 2]
    BY <1>2
  <1>4. MailboxTypes'
    BY <1>1, <1>3 DEF MailboxTypes
  <1>5. told = 0
    BY <1>1 DEF Answering, Before
  <1>6. hitches' = {} => hitches = {} /\ phase = "open"
    BY <1>1
  <1>7. Staging'
    BY <1>1, <1>5, <1>6 DEF Staging
  <1>8. QED
    BY <1>1, <1>4, <1>5, <1>7 DEF HasWindow, Answering, Before, ReplyIsAnswer

LEMMA SendSizeKeeps ==
    ASSUME TransferInv, SendSize
    PROVE  TransferInv'
  <1>. USE DEF TransferInv
  <1>1. /\ phase = "size" /\ phase' = "poll" /\ ~Oversized(file.size) /\ told' = file.size
        /\ UNCHANGED <<p2aLength, file, readPos, window, messages, reply, result, exitCode, hitches>>
    BY DEF SendSize
  <1>2. file.size \in 1 .. maxImageSize
    <2>1. file.size \in Nat
      BY Windows
    <2>2. QED
      BY <1>1, <2>1 DEF Oversized, maxImageSize
  <1>3. MailboxTypes'
    <2>1. told' \in 0 .. maxImageSize
      BY <1>1, <1>2 DEF maxImageSize
    <2>2. QED
      BY <1>1, <2>1 DEF MailboxTypes
  <1>4. Staging'
    BY <1>1 DEF Staging
  <1>5. QED
    BY <1>1, <1>2, <1>3, <1>4 DEF HasWindow, Answering, Before, ReplyIsAnswer, maxImageSize

(* The loop that waits for the answer.                                     *)
LEMMA PollKeeps ==
    ASSUME TransferInv, ReceiveMessage \/ PollInterrupted \/ PollFails
    PROVE  TransferInv'
  <1>. USE DEF TransferInv
  <1>1. /\ phase = "poll"
        /\ UNCHANGED <<p2aLength, file, readPos, window, told, hitches>>
        /\ phase' \in {"poll", "exit"}
    BY DEF ReceiveMessage, PollInterrupted, PollFails, Ends, Answered
  <1>2. told > 0 /\ exitCode = 1 /\ result = "none"
    BY <1>1 DEF Answering
  <1>3. HasWindow' /\ Staging'
    BY <1>1, <1>2 DEF HasWindow, Staging
  <1>4. messages \in Nat /\ MaxMessages \in Nat /\ told \in Nat
    <2>1. MaxMessages \in Nat
      BY MailboxConstants
    <2>2. messages \in 0 .. MaxMessages /\ told \in 0 .. maxImageSize
      BY DEF MailboxTypes
    <2>3. QED
      BY <2>1, <2>2 DEF maxImageSize
  <1>5. /\ messages' \in 0 .. MaxMessages /\ reply' \in {"unset", "other", "own"}
        /\ (reply' = "unset" <=> messages' = 0)
    <2>1. CASE ReceiveMessage
      <3>1. messages < MaxMessages /\ messages' = messages + 1 /\ reply' \in {"other", "own"}
        BY <2>1 DEF ReceiveMessage
      <3>2. QED
        BY <1>4, <3>1
    <2>2. CASE PollInterrupted \/ PollFails
      BY <2>2 DEF PollInterrupted, PollFails, MailboxTypes, Answering
    <2>3. QED
      BY <2>1, <2>2
  <1>6. \/ phase' = "poll" /\ exitCode' = 1 /\ result' = "none"
        \/ phase' = "exit" /\ exitCode' = 0 /\ result' = "exception"
        \/ phase' = "exit" /\ exitCode' = 0 /\ result' = "answer" /\ reply' = "own"
        \/ phase' = "exit" /\ exitCode' = 0 /\ result' = "garbage" /\ reply' = "unset"
    BY <1>1, <1>2 DEF ReceiveMessage, PollInterrupted, PollFails, Ends, Answered
  <1>7. MailboxTypes'
    BY <1>1, <1>5, <1>6 DEF MailboxTypes
  <1>8. Answering'
    BY <1>1, <1>2, <1>5, <1>6 DEF Answering, Before
  <1>9. ReplyIsAnswer'
    BY <1>1, <1>2, <1>5, <1>6 DEF ReplyIsAnswer
  <1>10. QED
    BY <1>3, <1>7, <1>8, <1>9

(* No step of any program breaks what the transfer rests on.               *)
THEOREM TransferStep == TransferInv /\ [ToolsNext]_<<mailbox, debug, vdm, bmcSearch, exportWindow, tool>>
                            => TransferInv'
  <1>. SUFFICES ASSUME TransferInv, [ToolsNext]_<<mailbox, debug, vdm, bmcSearch, exportWindow, tool>>
                PROVE  TransferInv'
    OBVIOUS
  <1>1. CASE UNCHANGED mailbox
    BY ZenonT(60), <1>1 DEF mailbox, TransferInv, MailboxTypes, HasWindow, Staging, Answering, Before,
                ReplyIsAnswer
  <1>2. CASE MailboxNext
    <2>1. Before => told = 0 /\ exitCode = 1 /\ result = "none"
      BY DEF TransferInv, Answering
    <2>2. CASE BadOptions \/ StagingFails \/ SizeRefused \/ SendFails
      BY <2>1, <2>2, EndsUntold
      DEF BadOptions, StagingFails, SizeRefused, SendFails, Fails, Ends, Before
    <2>3. QED
      BY <1>2, <2>2, FindDeviceKeeps, OpenFileKeeps, TransferChunkKeeps, EndOfFileKeeps,
         FileReplacedKeeps, SendSizeKeeps, PollKeeps
      DEF MailboxNext
  <1>3. QED
    BY <1>1, <1>2 DEF ToolsNext

(* When the BMC is told a size, that much of the file is in the window, in *)
(* place, and what the tool takes for the BMC's answer is that; a transfer *)
(* that failed is not announced (updater.cpp, transfer.cpp).               *)
THEOREM TransferCorrect == ToolsSpec => []TransferTrue
  <1>1. TransferInv => TransferTrue
    <2>. SUFFICES ASSUME TransferInv, told > 0, hitches = {}
                  PROVE  /\ told <= p2aLength
                         /\ \A i \in 0 .. told - 1 : window[i] = <<file.version, i>>
      BY DEF TransferTrue, MailboxHoldsFile, TransferInv
    <2>1. told = file.size /\ told \in 0 .. 2 /\ p2aLength >= 2
      BY DEF TransferInv, Answering, MailboxTypes, HasWindow, maxImageSize
    <2>2. p2aLength \in {0, 2, 8} /\ file.size \in Nat /\ readPos \in Nat
      BY Windows DEF TransferInv, MailboxTypes
    <2>3. file.size > 0 /\ readPos >= file.size
      BY DEF TransferInv, Staging
    <2>4. \A i \in 0 .. file.size - 1 : window[i] = <<file.version, i>>
      BY <2>1, <2>2, <2>3 DEF TransferInv, Staging
    <2>5. QED
      BY <2>1, <2>2, <2>4
  <1>2. QED
    BY TransferInit, TransferStep, <1>1, PTL DEF ToolsSpec
-----------------------------------------------------------------------------
(* The tests of the VDM driver: the steps.                                 *)
reading == <<timeout, asked, fifo, packets, behind, silent>>

(* vdm-test: its invariant holds at first, and no step breaks it.          *)
THEOREM VdmInvInit == ToolsInit => VdmInv
  <1>. SUFFICES ASSUME ToolsInit PROVE VdmInv
    OBVIOUS
  <1>1. /\ test \in Tests /\ stage = "args"
        /\ txsize = mtu /\ txloop = 1 /\ sent = 0 /\ total = 0
        /\ dataIdx = 0 /\ timeout = 0 /\ counted = 0 /\ asked = 0
        /\ fifo = << >> /\ packets = << >> /\ behind = 0 /\ faults = 0
        /\ taken = 0 /\ bytes = 0 /\ silent = 0 /\ odd = {}
    BY DEF ToolsInit, VdmInit
  <1>2. RxTimeout \in Nat \ {0} /\ DataBuffer \in Nat
    BY VdmConstants
  <1>3. VdmTypes /\ Numbers
    BY <1>1 DEF VdmTypes, Numbers
  <1>4. InSequence /\ NextToCome /\ ReadNext
    BY <1>1 DEF InSequence, NextToCome, ReadNext
  <1>5. TimeInv /\ DataFits
    BY <1>1, <1>2 DEF TimeInv, DataFits
  <1>6. Stages /\ RoundInv /\ TotalTrue
    BY <1>1 DEF Stages, RoundInv, TotalTrue
  <1>7. QED
    BY <1>3, <1>4, <1>5, <1>6 DEF VdmInv

(* Measuring does not touch what packets are read from.                    *)
LEMMA NotReading ==
    ASSUME VdmInv, UNCHANGED reading, stage' \in {"args", "tx", "rx", "exit"},
           stage' = "args" => stage = "args", stage = "exit" => stage' = "exit",
           odd \subseteq odd'
    PROVE  InSequence' /\ NextToCome' /\ ReadNext' /\ TimeInv'
  <1>1. UNCHANGED <<timeout, asked, fifo, packets, behind, silent>>
    BY DEF reading
  <1>2. InSequence' /\ NextToCome'
    BY <1>1 DEF VdmInv, InSequence, NextToCome, Left
  <1>3. ReadNext'
    BY <1>1 DEF VdmInv, ReadNext
  <1>4. TimeInv'
    BY <1>1 DEF VdmInv, TimeInv
  <1>5. QED
    BY <1>2, <1>3, <1>4

LEMMA OpenDeviceFailsKeeps ==
    ASSUME VdmInv, OpenDeviceFails
    PROVE  VdmInv'
  <1>1. /\ stage = "args" /\ stage' = "exit"
        /\ UNCHANGED <<test, txsize, txloop, sent, total, dataIdx, timeout, counted, asked,
                       fifo, packets, behind, faults, taken, bytes, silent, odd>>
    BY DEF OpenDeviceFails, Goes, transmit, driver, tally
  <1>2. VdmTypes' /\ Numbers' /\ Stages' /\ RoundInv' /\ TotalTrue' /\ DataFits'
    BY <1>1 DEF VdmInv, VdmTypes, Numbers, Stages, RoundInv, TotalTrue, DataFits
  <1>3. QED
    BY <1>1, <1>2, NotReading DEF VdmInv, reading

LEMMA OpenToTransmitKeeps ==
    ASSUME VdmInv, OpenToTransmit
    PROVE  VdmInv'
  <1>1. /\ stage = "args" /\ test \notin Packets /\ stage' \in {"tx", "rx"}
        /\ txsize' \in TxSizes /\ (txloop' \in TxLoops \/ txloop' = 1)
        /\ UNCHANGED <<test, sent, total, dataIdx, timeout, counted, asked,
                       fifo, packets, behind, faults, taken, bytes, silent, odd>>
    BY DEF OpenToTransmit, Goes, driver, tally
  <1>2. txloop' \in Nat
    <2>1. \A n \in TxLoops : n \in Nat
      BY VdmConstants
    <2>2. CASE txloop' \in TxLoops
      BY <2>1, <2>2
    <2>3. CASE txloop' = 1
      BY <2>3
    <2>4. QED
      BY <1>1, <2>2, <2>3
  <1>3. sent = 0 /\ total = 0 /\ bytes = 0 /\ taken = 0
    BY <1>1 DEF VdmInv, Stages
  <1>4. VdmTypes' /\ Numbers'
    BY <1>1, <1>2 DEF VdmInv, VdmTypes, Numbers
  <1>5. Stages' /\ RoundInv' /\ TotalTrue' /\ DataFits'
    BY <1>1, <1>3 DEF VdmInv, Stages, RoundInv, TotalTrue, DataFits
  <1>6. QED
    BY <1>1, <1>4, <1>5, NotReading DEF VdmInv, reading

LEMMA WritePacketKeeps ==
    ASSUME VdmInv, WritePacket
    PROVE  VdmInv'
  <1>1. /\ stage = "tx" /\ sent' = sent + 1 /\ taken' = taken + 1
        /\ UNCHANGED <<test, stage, txsize, txloop, dataIdx, timeout, counted, asked,
                       fifo, packets, behind, faults, silent, odd>>
    BY DEF WritePacket, driver
  <1>2. PICK amount \in Amounts(Written) :
          /\ total' = total + (IF test \in Perf THEN amount ELSE amount - 1 + 12)
          /\ bytes' = bytes + amount
    BY DEF WritePacket
  <1>3. Written \in Int
    <2>1. txsize \in Nat
      <3>1. TxSizes \subseteq Nat
        BY VdmConstants
      <3>2. txsize \in TxSizes \cup {80}
        BY DEF VdmInv, VdmTypes, mtu
      <3>3. QED
        BY <3>1, <3>2
    <2>2. QED
      BY <2>1 DEF Written, PerWrite, writelen, mtu
  <1>4. amount \in Nat
    BY <1>2, <1>3 DEF Amounts
  <1>5. test \in Perf <=> test # "vdm_per_test"
    BY <1>1 DEF VdmInv, VdmTypes, Stages, Tests, Packets, Perf
  <1>6. /\ sent \in Nat /\ taken \in Nat /\ total \in Nat /\ bytes \in Nat /\ taken = sent
        /\ total = bytes + (IF test = "vdm_per_test" THEN 11 * sent ELSE 0)
    BY <1>1 DEF VdmInv, Numbers, RoundInv
  <1>7. /\ sent' \in Nat /\ taken' \in Nat /\ total' \in Nat /\ bytes' \in Nat
        /\ taken' = sent'
        /\ total' = bytes' + (IF test = "vdm_per_test" THEN 11 * sent' ELSE 0)
    <2>1. CASE test = "vdm_per_test"
      <3>1. total' = total + (amount - 1 + 12) /\ total = bytes + 11 * sent
        BY <1>2, <1>5, <1>6, <2>1
      <3>2. QED
        BY <1>1, <1>2, <1>4, <1>6, <2>1, <3>1
    <2>2. CASE test # "vdm_per_test"
      <3>1. total' = total + amount /\ total = bytes
        BY <1>2, <1>5, <1>6, <2>2
      <3>2. QED
        BY <1>1, <1>2, <1>4, <1>6, <2>2, <3>1
    <2>3. QED
      BY <2>1, <2>2
  <1>8. VdmTypes' /\ Numbers'
    BY <1>1, <1>7 DEF VdmInv, VdmTypes, Numbers
  <1>9. Stages' /\ RoundInv' /\ TotalTrue' /\ DataFits'
    BY <1>1, <1>7 DEF VdmInv, Stages, RoundInv, TotalTrue, DataFits
  <1>10. QED
    BY <1>1, <1>8, <1>9, NotReading DEF VdmInv, reading

LEMMA WriteFailsKeeps ==
    ASSUME VdmInv, WriteFails
    PROVE  VdmInv'
  <1>1. /\ stage = "tx" /\ stage' \in {"tx", "exit"} /\ (faults' = faults \/ faults' = faults + 1)
        /\ UNCHANGED <<test, txsize, txloop, sent, total, dataIdx, timeout, counted, asked,
                       fifo, packets, behind, taken, bytes, silent, odd>>
    BY DEF WriteFails, Fault, Goes, transmit, driver, tally
  <1>2. VdmTypes' /\ Numbers'
    <2>1. faults' \in Nat
      BY <1>1 DEF VdmInv, Numbers
    <2>2. QED
      BY <1>1, <2>1 DEF VdmInv, VdmTypes, Numbers
  <1>3. Stages' /\ RoundInv' /\ TotalTrue' /\ DataFits'
    BY <1>1 DEF VdmInv, Stages, RoundInv, TotalTrue, DataFits
  <1>4. QED
    BY <1>1, <1>2, <1>3, NotReading DEF VdmInv, reading

LEMMA RoundEndsKeeps ==
    ASSUME VdmInv, RoundEnds
    PROVE  VdmInv'
  <1>1. /\ stage = "tx"
        /\ UNCHANGED <<test, txsize, dataIdx, timeout, counted, asked, fifo, packets, behind,
                       faults, silent>>
    BY DEF RoundEnds, driver
  <1>2. CASE txloop > 1
    <2>1. /\ txloop' = txloop - 1 /\ sent' = 0 /\ total' = 0 /\ taken' = 0 /\ bytes' = 0
          /\ UNCHANGED <<stage, odd>>
      BY <1>2 DEF RoundEnds
    <2>2. txloop' \in Nat
      BY <1>2, <2>1 DEF VdmInv, Numbers
    <2>3. VdmTypes' /\ Numbers'
      BY <1>1, <2>1, <2>2 DEF VdmInv, VdmTypes, Numbers
    <2>4. Stages' /\ RoundInv' /\ TotalTrue' /\ DataFits'
      BY <1>1, <2>1 DEF VdmInv, Stages, RoundInv, TotalTrue, DataFits
    <2>5. QED
      BY <1>1, <2>1, <2>3, <2>4, NotReading DEF VdmInv, reading
  <1>3. CASE ~(txloop > 1)
    <2>1. /\ stage' = IF test = "vdmtest" THEN "rx" ELSE "exit"
          /\ odd' = IF total > 0 THEN odd \cup {"sent"} ELSE odd
          /\ bytes' = 0
          /\ UNCHANGED <<txloop, sent, total, taken>>
      BY <1>3 DEF RoundEnds, Goes
    <2>2. VdmTypes' /\ Numbers'
      <3>1. odd' \subseteq {"sent", "part of a word", "again", "overrun", "short"}
        BY <2>1 DEF VdmInv, VdmTypes
      <3>2. QED
        BY <1>1, <2>1, <3>1 DEF VdmInv, VdmTypes, Numbers
    <2>3. odd' = {} => total = 0
      <3>1. total \in Nat
        BY DEF VdmInv, Numbers
      <3>2. CASE total > 0
        BY <2>1, <3>2
      <3>3. CASE ~(total > 0)
        BY <3>1, <3>3
      <3>4. QED
        BY <3>2, <3>3
    <2>4. TotalTrue'
      BY <2>1, <2>3 DEF TotalTrue
    <2>5. Stages' /\ RoundInv' /\ DataFits'
      BY <1>1, <2>1 DEF VdmInv, Stages, RoundInv, DataFits
    <2>6. odd \subseteq odd' /\ stage' \in {"rx", "exit"}
      BY <2>1
    <2>7. QED
      BY <1>1, <2>2, <2>4, <2>5, <2>6, NotReading DEF VdmInv, reading
  <1>4. QED
    BY <1>2, <1>3

(* The reads of vdmtest.  packets only counts them.                        *)
LEMMA ReceivePacketKeeps ==
    ASSUME VdmInv, ReceivePacket
    PROVE  VdmInv'
  <1>1. /\ stage = "rx"
        /\ UNCHANGED <<test, stage, txsize, txloop, sent, dataIdx, timeout, counted, asked,
                       fifo, behind, faults, taken, silent>>
    BY DEF ReceivePacket, transmit
  <1>2. PICK rc \in {4, 6, mtu} :
          /\ packets' = Append(packets, rc)
          /\ total' = total + (rc \div 4) + (rc % 4)
          /\ bytes' = bytes + rc
          /\ odd' = IF rc % 4 # 0 THEN odd \cup {"part of a word"} ELSE odd
    BY DEF ReceivePacket
  <1>3. /\ rc \in Nat /\ rc \div 4 \in Nat /\ rc % 4 \in Nat
        /\ (rc % 4 = 0 => 4 * (rc \div 4) = rc)
    <2>1. CASE rc = 4
      BY <2>1
    <2>2. CASE rc = 6
      BY <2>2
    <2>3. CASE rc = 80
      BY <2>3
    <2>4. QED
      BY <1>2, <2>1, <2>2, <2>3 DEF mtu
  <1>4. fifo = << >> /\ behind = 0
    BY <1>1 DEF VdmInv, Stages
  <1>5. total \in Nat /\ bytes \in Nat
    BY DEF VdmInv, Numbers
  <1>6. packets' \in Seq(Nat) /\ packets' # << >> /\ packets'[Len(packets')] \in Nat
    <2>1. packets \in Seq(Nat) /\ packets' = Append(packets, rc)
      BY <1>2 DEF VdmInv, VdmTypes
    <2>2. QED
      BY <1>3, <2>1
  <1>7. VdmTypes' /\ Numbers'
    <2>1. total' \in Nat /\ bytes' \in Nat
      <3>1. /\ total' = total + (rc \div 4) + (rc % 4)
            /\ bytes' = bytes + rc
        BY <1>2
      <3>2. \A a, b, c \in Nat : a + b + c \in Nat
        OBVIOUS
      <3>3. total' \in Nat
        BY <1>3, <1>5, <3>1, <3>2
      <3>4. QED
        BY <1>3, <1>5, <3>1, <3>3
    <2>2. odd' \subseteq {"sent", "part of a word", "again", "overrun", "short"}
      BY <1>2 DEF VdmInv, VdmTypes
    <2>3. QED
      BY <1>1, <1>6, <2>1, <2>2 DEF VdmInv, VdmTypes, Numbers
  <1>8. TotalTrue'
    <2>. SUFFICES ASSUME odd' = {} PROVE 4 * total' = bytes'
      BY DEF TotalTrue
    <2>1. odd = {} /\ rc % 4 = 0
      BY <1>2
    <2>2. 4 * total = bytes
      BY <1>1, <2>1 DEF VdmInv, TotalTrue
    <2>3. QED
      BY <1>2, <1>3, <1>5, <2>1, <2>2
  <1>9. odd \subseteq odd'
    BY <1>2
  <1>10. Stages' /\ RoundInv' /\ DataFits'
    BY <1>1, <1>9 DEF VdmInv, Stages, RoundInv, DataFits
  <1>11. InSequence' /\ NextToCome'
    <2>1. Len(fifo') = 0 /\ behind' = 0
      BY <1>1, <1>4
    <2>2. QED
      BY <1>6, <2>1 DEF InSequence, NextToCome, HeaderWords
  <1>12. ReadNext' /\ TimeInv'
    BY <1>1 DEF VdmInv, ReadNext, TimeInv
  <1>13. QED
    BY <1>7, <1>8, <1>10, <1>11, <1>12 DEF VdmInv

LEMMA ReceiveFailsKeeps ==
    ASSUME VdmInv, ReceiveFails
    PROVE  VdmInv'
  <1>1. /\ stage = "rx" /\ stage' \in {"rx", "exit"} /\ faults' = faults + 1
        /\ UNCHANGED <<test, txsize, txloop, sent, total, dataIdx, timeout, counted, asked,
                       fifo, packets, behind, taken, bytes, silent, odd>>
    BY DEF ReceiveFails, Fault, transmit, driver, tally
  <1>2. VdmTypes' /\ Numbers'
    <2>1. faults' \in Nat
      BY <1>1 DEF VdmInv, Numbers
    <2>2. QED
      BY <1>1, <2>1 DEF VdmInv, VdmTypes, Numbers
  <1>3. Stages' /\ RoundInv' /\ TotalTrue' /\ DataFits'
    BY <1>1 DEF VdmInv, Stages, RoundInv, TotalTrue, DataFits
  <1>4. QED
    BY <1>1, <1>2, <1>3, NotReading DEF VdmInv, reading

LEMMA ParseDataKeeps ==
    ASSUME VdmInv, ParseData
    PROVE  VdmInv'
  <1>1. /\ stage = "args" /\ test \in Packets
        /\ UNCHANGED <<test, stage, txsize, txloop, sent, total, timeout, counted, asked,
                       fifo, packets, behind, faults, taken, bytes, silent>>
    BY DEF ParseData, transmit, driver, tally
  <1>2. PICK len \in DataLens :
          LET whole == len % 2 = 0 /\ len \div 2 <= DataBuffer
          IN  \E n \in IF whole THEN 0 .. len \div 2 ELSE {0} :
                 /\ len > 0 /\ whole => n > 0
                 /\ dataIdx' = dataIdx + 1 + n
    BY DEF ParseData
  <1>3. DataBuffer \in Nat /\ dataIdx \in Nat
    BY VdmConstants DEF VdmInv, Numbers
  <1>4. \E n \in 0 .. DataBuffer : dataIdx' = dataIdx + 1 + n
    <2>1. len \in Nat
      BY VdmConstants
    <2>2. DEFINE half == len \div 2
    <2>3. half \in Nat
      BY <2>1
    <2>4. CASE len % 2 = 0 /\ half <= DataBuffer
      <3>1. \E n \in 0 .. half : dataIdx' = dataIdx + 1 + n
        BY <1>2, <2>4
      <3>2. HIDE DEF half
      <3>3. 0 .. half \subseteq 0 .. DataBuffer
        BY <1>3, <2>3, <2>4
      <3>4. QED
        BY <3>1, <3>3
    <2>5. CASE ~(len % 2 = 0 /\ half <= DataBuffer)
      <3>1. dataIdx' = dataIdx + 1 + 0
        BY <1>2, <2>5
      <3>2. 0 \in 0 .. DataBuffer
        BY <1>3
      <3>3. QED
        BY <3>1, <3>2
    <2>6. QED
      BY <2>4, <2>5
  <1>5. dataIdx' \in Nat /\ (dataIdx = 0 => dataIdx' <= DataBuffer + 1)
    BY <1>3, <1>4
  <1>6. odd' = odd \cup (IF dataIdx > 0 THEN {"again"} ELSE {})
                   \cup (IF dataIdx' > DataBuffer + 1 THEN {"overrun"} ELSE {})
    BY DEF ParseData
  <1>7. odd \subseteq odd' /\ odd' \subseteq {"sent", "part of a word", "again", "overrun", "short"}
    BY <1>6 DEF VdmInv, VdmTypes
  <1>8. dataIdx > 0 => "again" \in odd'
    BY <1>6
  <1>9. DataFits'
    BY <1>3, <1>5, <1>8 DEF DataFits
  <1>10. VdmTypes' /\ Numbers' /\ Stages' /\ RoundInv' /\ TotalTrue'
    BY <1>1, <1>5, <1>7 DEF VdmInv, VdmTypes, Numbers, Stages, RoundInv, TotalTrue
  <1>11. QED
    BY <1>1, <1>7, <1>9, <1>10, NotReading DEF VdmInv, reading

LEMMA OpenForPacketsKeeps ==
    ASSUME VdmInv, OpenForPackets
    PROVE  VdmInv'
  <1>1. /\ stage = "args" /\ stage' = "header" /\ test \in Packets
        /\ UNCHANGED <<test, txsize, txloop, sent, total, dataIdx, timeout, counted, asked,
                       fifo, packets, behind, faults, taken, bytes, silent, odd>>
    BY DEF OpenForPackets, Goes, transmit, driver, tally
  <1>2. timeout = 0 /\ silent = 0 /\ RxTimeout \in Nat \ {0}
    BY <1>1, VdmConstants DEF VdmInv, Stages
  <1>3. VdmTypes' /\ Numbers' /\ Stages' /\ RoundInv' /\ TotalTrue' /\ DataFits'
    BY <1>1 DEF VdmInv, VdmTypes, Numbers, Stages, RoundInv, TotalTrue, DataFits
  <1>4. InSequence' /\ NextToCome'
    BY <1>1 DEF VdmInv, InSequence, NextToCome, Left
  <1>5. ReadNext'
    BY <1>1 DEF VdmInv, ReadNext
  <1>6. TimeInv'
    BY <1>1, <1>2 DEF TimeInv
  <1>7. QED
    BY <1>3, <1>4, <1>5, <1>6 DEF VdmInv

(* Every word that the driver has is of a packet that came.                *)
LEMMA WordsOfPackets ==
    ASSUME VdmInv
    PROVE  /\ fifo \in Seq(Nat \X Nat) /\ packets \in Seq(Nat) /\ behind \in Nat
           /\ Len(fifo) \in Nat /\ Len(packets) \in Nat
           /\ \A k \in 1 .. Len(fifo) :
                 /\ fifo[k][1] \in 1 .. Len(packets) /\ fifo[k][2] \in Nat
                 /\ fifo[k] = <<fifo[k][1], fifo[k][2]>>
                 /\ packets[fifo[k][1]] \in Nat
                 /\ Left(k) \in Nat /\ Left(k) > 0
  <1>1. fifo \in Seq(Nat \X Nat) /\ packets \in Seq(Nat) /\ behind \in Nat
    BY DEF VdmInv, VdmTypes, Numbers
  <1>2. ASSUME NEW k \in 1 .. Len(fifo)
        PROVE  /\ fifo[k][1] \in 1 .. Len(packets) /\ fifo[k][2] \in Nat
               /\ fifo[k] = <<fifo[k][1], fifo[k][2]>>
               /\ packets[fifo[k][1]] \in Nat
               /\ Left(k) \in Nat /\ Left(k) > 0
    <2>1. fifo[k] \in Nat \X Nat
      BY <1>1
    <2>2. fifo[k][1] \in 1 .. Len(packets) /\ Left(k) > 0
      BY DEF VdmInv, NextToCome
    <2>3. packets[fifo[k][1]] \in Nat
      BY <1>1, <2>2
    <2>4. Left(k) \in Int
      BY <2>1, <2>3 DEF Left, HeaderWords
    <2>5. QED
      BY <2>1, <2>2, <2>3, <2>4
  <1>3. QED
    BY <1>1, <1>2

LEMMA PacketArrivesKeeps ==
    ASSUME VdmInv, PacketArrives
    PROVE  VdmInv'
  <1>1. /\ stage \in {"header", "body"} /\ behind = 0
        /\ UNCHANGED <<test, stage, txsize, txloop, sent, total, dataIdx, timeout, counted,
                       asked, fifo, faults, taken, bytes, silent, odd>>
    BY DEF PacketArrives, transmit, tally
  <1>2. PICK n \in PacketLens : packets' = Append(packets, n) /\ behind' = HeaderWords + n
    BY DEF PacketArrives
  <1>3. n \in Nat
    BY VdmConstants
  <1>4. /\ packets' \in Seq(Nat) /\ Len(packets') = Len(packets) + 1
        /\ packets'[Len(packets')] = n /\ packets' # << >>
        /\ \A p \in 1 .. Len(packets) : packets'[p] = packets[p]
    BY <1>2, <1>3, WordsOfPackets
  <1>5. behind' \in Nat /\ behind' = HeaderWords + n /\ behind' > 0
    BY <1>2, <1>3 DEF HeaderWords
  <1>6. test \in Packets
    BY <1>1 DEF VdmInv, VdmTypes, Stages, Tests, Packets
  <1>7. VdmTypes' /\ Numbers' /\ Stages' /\ RoundInv' /\ TotalTrue' /\ DataFits'
    BY <1>1, <1>4, <1>5, <1>6
    DEF VdmInv, VdmTypes, Numbers, Stages, RoundInv, TotalTrue, DataFits
  <1>8. \A k \in 1 .. Len(fifo) : Left(k)' = Left(k)
    BY <1>1, <1>4, WordsOfPackets DEF Left
  <1>9. InSequence'
    BY <1>1, <1>8 DEF VdmInv, InSequence
  <1>10. NextToCome'
    <2>1. ASSUME NEW k \in 1 .. Len(fifo)
          PROVE  /\ Left(k) <= Len(fifo) - k + 1
                 /\ Left(k) = Len(fifo) - k + 1 => fifo[k][1] = Len(packets)
      <3>1. CASE fifo[k][1] = Len(packets)
        BY SMTT(30), <1>1, <3>1, WordsOfPackets DEF VdmInv, NextToCome
      <3>2. CASE fifo[k][1] # Len(packets)
        <4>1. fifo[k][1] < Len(packets)
          BY <3>2, WordsOfPackets
        <4>2. packets[Len(packets)] \in Nat
          <5>1. fifo[k][1] \in 1 .. Len(packets) /\ Len(packets) \in Nat
            BY WordsOfPackets
          <5>2. Len(packets) \in 1 .. Len(packets)
            BY <5>1
          <5>3. packets \in Seq(Nat)
            BY WordsOfPackets
          <5>4. QED
            BY <5>2, <5>3
        <4>3. behind # HeaderWords + packets[Len(packets)]
          BY <1>1, <4>2 DEF HeaderWords
        <4>4. QED
          BY <4>1, <4>3 DEF VdmInv, NextToCome
      <3>3. QED
        BY <3>1, <3>2
    <2>2. \A k \in 1 .. Len(fifo) :
             fifo[k][1] \in 1 .. Len(packets') /\ fifo[k][1] < Len(packets') /\ Left(k) > 0
      <3>1. ASSUME NEW k \in 1 .. Len(fifo)
            PROVE  /\ fifo[k][1] \in 1 .. Len(packets) /\ Left(k) > 0
                   /\ Len(packets) \in Nat /\ Len(packets') = Len(packets) + 1
        BY <1>4, WordsOfPackets
      <3>2. \A a, b, c \in Nat : a \in 1 .. b /\ c = b + 1 => a \in 1 .. c /\ a < c
        OBVIOUS
      <3>3. ASSUME NEW k \in 1 .. Len(fifo)
            PROVE  fifo[k][1] \in 1 .. Len(packets') /\ fifo[k][1] < Len(packets') /\ Left(k) > 0
        <4>1. fifo[k][1] \in Nat /\ Len(packets') \in Nat
          BY <3>1
        <4>2. QED
          BY <3>1, <3>2, <4>1
      <3>4. QED
        BY <3>3
    <2>3. Len(packets') - 1 = Len(packets)
      BY <1>4, WordsOfPackets
    <2>4. QED
      BY <1>1, <1>4, <1>5, <1>8, <2>1, <2>2, <2>3 DEF NextToCome
  <1>11. ReadNext'
    <2>. SUFFICES ASSUME "short" \notin odd PROVE ReadNext'
      BY <1>1 DEF ReadNext
    <2>1. CASE stage = "header"
      BY <1>1, <1>4, <1>5, <2>1 DEF VdmInv, ReadNext
    <2>2. CASE stage = "body"
      <3>1. fifo # << >>
        <4>. SUFFICES ASSUME fifo = << >> PROVE FALSE
          OBVIOUS
        <4>1. packets # << >> /\ asked = 0 /\ asked = HeaderWords + packets[Len(packets)] - 1
          BY <1>1, <2>2 DEF VdmInv, ReadNext
        <4>2. packets[Len(packets)] \in Nat
          BY <4>1, WordsOfPackets
        <4>3. QED
          BY <4>1, <4>2 DEF HeaderWords
      <3>2. fifo[1][1] \in 1 .. Len(packets)
        BY <3>1, WordsOfPackets
      <3>3. fifo[1][2] = 1 /\ asked = HeaderWords + packets[fifo[1][1]] - 1
        BY <2>2, <3>1 DEF VdmInv, ReadNext
      <3>4. QED
        BY <1>1, <1>4, <2>2, <3>1, <3>2, <3>3 DEF ReadNext
    <2>3. QED
      BY <1>1, <2>1, <2>2
  <1>12. TimeInv'
    BY <1>1 DEF VdmInv, TimeInv
  <1>13. QED
    BY <1>7, <1>9, <1>10, <1>11, <1>12 DEF VdmInv

LEMMA WordArrivesKeeps ==
    ASSUME VdmInv, WordArrives
    PROVE  VdmInv'
  <1> DEFINE newest == packets[Len(packets)]
  <1> DEFINE word == <<Len(packets), HeaderWords + newest - behind>>
  <1>1. /\ behind > 0 /\ stage # "exit"
        /\ fifo' = Append(fifo, word) /\ behind' = behind - 1
        /\ UNCHANGED <<test, stage, txsize, txloop, sent, total, dataIdx, timeout, counted,
                       asked, packets, faults, taken, bytes, silent, odd>>
    BY DEF WordArrives, transmit, tally
  <1>2. packets # << >> /\ behind <= HeaderWords + newest
    BY <1>1 DEF VdmInv, NextToCome
  <1>3. newest \in Nat /\ Len(packets) \in Nat \ {0}
    BY <1>2, WordsOfPackets
  <1>4. word \in Nat \X Nat /\ behind' \in Nat
    BY SMTT(30), <1>1, <1>2, <1>3, WordsOfPackets DEF HeaderWords
  <1>5. /\ fifo' \in Seq(Nat \X Nat) /\ Len(fifo') = Len(fifo) + 1
        /\ fifo'[Len(fifo) + 1] = word /\ fifo' # << >>
        /\ \A k \in 1 .. Len(fifo) : fifo'[k] = fifo[k]
    <2>. HIDE DEF word
    <2>1. QED
      BY <1>1, <1>4, WordsOfPackets
  <1>6. test \in Packets
    BY <1>1 DEF VdmInv, Numbers, Stages
  <1>7. VdmTypes' /\ Numbers'
    BY <1>1, <1>4, <1>5 DEF VdmInv, VdmTypes, Numbers
  <1>8. Stages' /\ RoundInv' /\ TotalTrue' /\ DataFits' /\ TimeInv'
    BY <1>1, <1>6 DEF VdmInv, Stages, RoundInv, TotalTrue, DataFits, TimeInv
  <1>9. \A k \in 1 .. Len(fifo) : Left(k)' = Left(k)
    BY <1>1, <1>5 DEF Left
  <1>10. ASSUME NEW k, k = Len(fifo) + 1
         PROVE  Left(k)' = behind
    <2>1. fifo'[k] = word
      BY <1>5, <1>10
    <2>2. Left(k)' = HeaderWords + newest - (HeaderWords + newest - behind)
      <3>1. fifo'[k][1] = Len(packets) /\ fifo'[k][2] = HeaderWords + newest - behind
        BY <2>1
      <3>2. Left(k)' = HeaderWords + packets'[fifo'[k][1]] - fifo'[k][2]
        BY DEF Left
      <3>3. packets'[fifo'[k][1]] = newest
        BY <1>1, <3>1
      <3>. HIDE DEF newest, word
      <3>4. QED
        BY <3>1, <3>2, <3>3
    <2>3. QED
      BY <1>3, <2>2, WordsOfPackets DEF HeaderWords
  <1>11. \A k \in 1 .. Len(fifo) :
            /\ fifo[k][1] = Len(packets) => Left(k) = Len(fifo) - k + 1 + behind
            /\ fifo[k][1] < Len(packets) =>
                  /\ Left(k) <= Len(fifo) - k + 1
                  /\ Left(k) = Len(fifo) - k + 1 =>
                        fifo[k][1] = Len(packets) - 1 /\ behind = HeaderWords + newest
    BY DEF VdmInv, NextToCome
  <1>12. ASSUME NEW k \in 1 .. Len(fifo), Len(fifo) + 1 - k <= Left(k)
         PROVE  word = IF Len(fifo) + 1 - k < Left(k)
                       THEN <<fifo[k][1], fifo[k][2] + (Len(fifo) + 1 - k)>>
                       ELSE <<fifo[k][1] + 1, 0>>
    <2>1. /\ fifo[k][1] \in 1 .. Len(packets) /\ fifo[k][2] \in Nat /\ Left(k) \in Nat
          /\ behind \in Nat /\ Len(fifo) \in Nat /\ Len(packets) \in Nat
      BY WordsOfPackets
    <2>2. CASE fifo[k][1] = Len(packets)
      <3>1. Left(k) = Len(fifo) - k + 1 + behind /\ Left(k) = HeaderWords + newest - fifo[k][2]
        BY <1>11, <2>2 DEF Left
      <3>2. Len(fifo) + 1 - k < Left(k)
        BY <1>1, <2>1, <3>1
      <3>3. HeaderWords + newest - behind = fifo[k][2] + (Len(fifo) + 1 - k)
        <4>1. \A a, b, c, d, e \in Int :
                 e - k + 1 + b = 4 + a - c => 4 + a - b = c + (e + 1 - k)
          OBVIOUS
        <4>2. newest \in Int /\ behind \in Int /\ fifo[k][2] \in Int /\ Len(fifo) \in Int
          BY <1>3, <2>1
        <4>. HIDE DEF newest
        <4>3. QED
          BY SMTT(30), <3>1, <4>1, <4>2 DEF HeaderWords
      <3>4. QED
        BY <2>2, <3>2, <3>3
    <2>3. CASE fifo[k][1] # Len(packets)
      <3>1. fifo[k][1] < Len(packets)
        BY <2>1, <2>3
      <3>2. Left(k) = Len(fifo) - k + 1
        BY <1>11, <1>12, <2>1, <3>1
      <3>3. fifo[k][1] = Len(packets) - 1 /\ behind = HeaderWords + newest
        BY <1>11, <3>1, <3>2
      <3>4. HeaderWords + newest - behind = 0 /\ fifo[k][1] + 1 = Len(packets)
        BY <1>3, <2>1, <3>3 DEF HeaderWords
      <3>5. ~(Len(fifo) + 1 - k < Left(k))
        BY <2>1, <3>2
      <3>6. QED
        BY <3>4, <3>5
    <2>4. QED
      BY <2>2, <2>3
  <1>13. InSequence'
    <2>. SUFFICES ASSUME NEW k \in 1 .. Len(fifo'), NEW l \in 1 .. Len(fifo'),
                         k <= l, l - k <= Left(k)'
                  PROVE  fifo'[l] = IF l - k < Left(k)'
                                    THEN <<fifo'[k][1], fifo'[k][2] + l - k>>
                                    ELSE <<fifo'[k][1] + 1, 0>>
      BY DEF InSequence
    <2>1. CASE l \in 1 .. Len(fifo)
      <3>1. k \in 1 .. Len(fifo)
        BY <2>1, WordsOfPackets
      <3>2. Left(k)' = Left(k) /\ fifo'[k] = fifo[k] /\ fifo'[l] = fifo[l]
        BY <1>5, <1>9, <2>1, <3>1
      <3>3. fifo[l] = IF l - k < Left(k) THEN <<fifo[k][1], fifo[k][2] + l - k>>
                                         ELSE <<fifo[k][1] + 1, 0>>
        BY <2>1, <3>1, <3>2 DEF VdmInv, InSequence
      <3>4. QED
        BY <3>2, <3>3
    <2>2. CASE l \notin 1 .. Len(fifo)
      <3>1. l = Len(fifo) + 1
        BY <1>5, <2>2, WordsOfPackets
      <3>2. CASE k = l
        <4>1. l - k = 0 /\ Left(k)' > 0 /\ fifo'[k] = word
          <5>1. Left(k)' = behind /\ fifo'[k] = word
            BY <1>5, <1>10, <3>1, <3>2
          <5>2. l - k = 0
            BY <3>2
          <5>3. QED
            BY <1>1, <5>1, <5>2
        <4>2. word[2] + l - k = word[2] /\ word = <<word[1], word[2]>>
          BY <1>4, <3>2
        <4>3. QED
          BY <3>2, <4>1, <4>2
      <3>3. CASE k # l
        <4>1. k \in 1 .. Len(fifo)
          BY <3>1, <3>3, WordsOfPackets
        <4>2. Left(k)' = Left(k) /\ fifo'[k] = fifo[k] /\ fifo'[l] = word
          BY <1>5, <1>9, <3>1, <4>1
        <4>3. fifo[k][2] + (Len(fifo) + 1 - k) = fifo[k][2] + l - k
          BY <3>1, <4>1, WordsOfPackets
        <4>4. QED
          BY <1>12, <3>1, <4>1, <4>2, <4>3
      <3>4. QED
        BY <3>2, <3>3
    <2>3. QED
      BY <2>1, <2>2
  <1>14. NextToCome'
    <2>1. ASSUME NEW k \in 1 .. Len(fifo')
          PROVE  /\ fifo'[k][1] \in 1 .. Len(packets)
                 /\ Left(k)' > 0
                 /\ fifo'[k][1] = Len(packets) => Left(k)' = Len(fifo') - k + 1 + behind'
                 /\ fifo'[k][1] < Len(packets) =>
                       /\ Left(k)' <= Len(fifo') - k + 1
                       /\ Left(k)' # Len(fifo') - k + 1
      <3>1. CASE k = Len(fifo) + 1
        <4>1. fifo'[k] = word /\ Left(k)' = behind /\ behind \in Nat
          <5>1. Left(k)' = behind
            BY <1>10, <3>1
          <5>2. QED
            BY <1>5, <3>1, <5>1, WordsOfPackets
        <4>2. word[1] = Len(packets)
          OBVIOUS
        <4>3. Len(fifo') - k + 1 + behind' = behind
          BY <1>1, <1>5, <3>1, <4>1, WordsOfPackets
        <4>. HIDE DEF word, newest
        <4>4. QED
          BY <1>1, <1>3, <4>1, <4>2, <4>3
      <3>2. CASE k # Len(fifo) + 1
        <4>1. k \in 1 .. Len(fifo)
          BY <1>5, <3>2, WordsOfPackets
        <4>2. /\ fifo'[k] = fifo[k] /\ Left(k)' = Left(k)
              /\ fifo[k][1] \in 1 .. Len(packets) /\ Left(k) \in Nat /\ Left(k) > 0
              /\ behind \in Nat /\ Len(fifo) \in Nat /\ Len(fifo') = Len(fifo) + 1
          BY <1>5, <1>9, <4>1, WordsOfPackets
        <4>3. /\ fifo[k][1] = Len(packets) => Left(k) = Len(fifo) - k + 1 + behind
              /\ fifo[k][1] < Len(packets) => Left(k) <= Len(fifo) - k + 1
          BY <1>11, <4>1
        <4>4. Len(fifo') - k + 1 = Len(fifo) - k + 2 /\ behind' = behind - 1
          BY <1>1, <4>2
        <4>. HIDE DEF newest
        <4>5. Left(k) = Len(fifo) - k + 1 + behind => Left(k) = Len(fifo') - k + 1 + behind'
          BY <4>2, <4>4
        <4>6. Left(k) <= Len(fifo) - k + 1 =>
                Left(k) <= Len(fifo') - k + 1 /\ Left(k) # Len(fifo') - k + 1
          BY <4>2, <4>4
        <4>7. QED
          BY <4>2, <4>3, <4>5, <4>6
      <3>3. QED
        BY <3>1, <3>2
    <2>2. behind' <= HeaderWords + newest
      BY <1>1, <1>2, <1>3, WordsOfPackets DEF HeaderWords
    <2>3. QED
      BY <1>1, <1>2, <2>1, <2>2 DEF NextToCome
  <1>15. ReadNext'
    <2>. SUFFICES ASSUME "short" \notin odd PROVE ReadNext'
      BY <1>1 DEF ReadNext
    <2>1. stage # "args"
      BY <1>1 DEF VdmInv, ReadNext
    <2>2. CASE fifo # << >>
      <3>1. 1 \in 1 .. Len(fifo)
        BY <2>2, WordsOfPackets
      <3>2. fifo'[1] = fifo[1]
        BY <1>5, <3>1
      <3>3. QED
        BY <1>1, <1>5, <2>1, <2>2, <3>2 DEF VdmInv, ReadNext
    <2>3. CASE fifo = << >>
      <3>1. fifo'[1] = word
        BY <1>5, <2>3
      <3>2. stage = "header" => HeaderWords + newest - behind = 0
        BY <1>1, <1>3, <2>3 DEF VdmInv, ReadNext, HeaderWords
      <3>3. stage = "body" => HeaderWords + newest - behind = 1 /\ asked = HeaderWords + newest - 1
        BY <1>1, <1>3, <2>3 DEF VdmInv, ReadNext, HeaderWords
      <3>4. word[1] = Len(packets) /\ word[2] = HeaderWords + newest - behind
        OBVIOUS
      <3>5. /\ stage = "header" => fifo'[1][2] = 0
            /\ stage = "body" => fifo'[1][2] = 1 /\ asked = HeaderWords + packets[fifo'[1][1]] - 1
        BY <3>1, <3>2, <3>3, <3>4
      <3>. HIDE DEF word
      <3>6. QED
        BY <1>1, <1>5, <2>1, <3>5 DEF ReadNext
    <2>4. QED
      BY <2>2, <2>3
  <1>16. QED
    BY <1>7, <1>8, <1>13, <1>14, <1>15 DEF VdmInv

LEMMA RestOfSequence ==
    ASSUME NEW S, NEW s \in Seq(S), NEW n \in 0 .. Len(s)
    PROVE  /\ SubSeq(s, n + 1, Len(s)) \in Seq(S)
           /\ Len(SubSeq(s, n + 1, Len(s))) = Len(s) - n
           /\ \A k \in 1 .. Len(s) - n : SubSeq(s, n + 1, Len(s))[k] = s[k + n]
                                      /\ k + n \in 1 .. Len(s)
  OBVIOUS

(* Reading takes words from the front; the rest keeps its order.           *)
LEMMA WordsRead ==
    ASSUME VdmInv, NEW n \in 0 .. Len(fifo), fifo' = SubSeq(fifo, n + 1, Len(fifo)),
           UNCHANGED <<packets, behind>>
    PROVE  /\ fifo' \in Seq(Nat \X Nat) /\ Len(fifo') = Len(fifo) - n
           /\ \A k \in 1 .. Len(fifo') : fifo'[k] = fifo[k + n] /\ k + n \in 1 .. Len(fifo)
           /\ InSequence' /\ NextToCome'
  <1>1. fifo \in Seq(Nat \X Nat) /\ Len(fifo) \in Nat
    BY WordsOfPackets
  <1>2. /\ fifo' \in Seq(Nat \X Nat) /\ Len(fifo') = Len(fifo) - n
        /\ \A k \in 1 .. Len(fifo') : fifo'[k] = fifo[k + n] /\ k + n \in 1 .. Len(fifo)
    BY <1>1, RestOfSequence
  <1>3. \A k \in 1 .. Len(fifo') : Left(k)' = Left(k + n)
    BY <1>2 DEF Left
  <1>4. InSequence'
    <2>. SUFFICES ASSUME NEW k \in 1 .. Len(fifo'), NEW l \in 1 .. Len(fifo'),
                         k <= l, l - k <= Left(k)'
                  PROVE  fifo'[l] = IF l - k < Left(k)'
                                    THEN <<fifo'[k][1], fifo'[k][2] + l - k>>
                                    ELSE <<fifo'[k][1] + 1, 0>>
      BY DEF InSequence
    <2>1. /\ k + n \in 1 .. Len(fifo) /\ l + n \in 1 .. Len(fifo) /\ Left(k)' = Left(k + n)
          /\ fifo'[k] = fifo[k + n] /\ fifo'[l] = fifo[l + n]
      BY <1>2, <1>3
    <2>2. k + n <= l + n /\ (l + n) - (k + n) = l - k
      BY <1>2
    <2>3. fifo[l + n] = IF (l + n) - (k + n) < Left(k + n)
                        THEN <<fifo[k + n][1], fifo[k + n][2] + (l + n) - (k + n)>>
                        ELSE <<fifo[k + n][1] + 1, 0>>
      BY <2>1, <2>2 DEF VdmInv, InSequence
    <2>4. fifo[k + n][2] + (l + n) - (k + n) = fifo[k + n][2] + l - k
      BY <2>1, WordsOfPackets
    <2>5. QED
      BY <2>1, <2>2, <2>3, <2>4
  <1>5. NextToCome'
    <2>1. ASSUME NEW k \in 1 .. Len(fifo')
          PROVE  /\ fifo'[k] = fifo[k + n] /\ k + n \in 1 .. Len(fifo)
                 /\ Left(k)' = Left(k + n)
                 /\ Len(fifo') - k + 1 = Len(fifo) - (k + n) + 1
      BY SMTT(30), <1>1, <1>2, <1>3
    <2>2. \A m \in 1 .. Len(fifo) :
          /\ fifo[m][1] \in 1 .. Len(packets)
          /\ Left(m) > 0
          /\ fifo[m][1] = Len(packets) => Left(m) = Len(fifo) - m + 1 + behind
          /\ fifo[m][1] < Len(packets) =>
                /\ Left(m) <= Len(fifo) - m + 1
                /\ Left(m) = Len(fifo) - m + 1 =>
                      /\ fifo[m][1] = Len(packets) - 1
                      /\ behind = HeaderWords + packets[Len(packets)]
      BY DEF VdmInv, NextToCome
    <2>3. \A k \in 1 .. Len(fifo') :
          /\ fifo'[k][1] \in 1 .. Len(packets)
          /\ Left(k)' > 0
          /\ fifo'[k][1] = Len(packets) => Left(k)' = Len(fifo') - k + 1 + behind
          /\ fifo'[k][1] < Len(packets) =>
                /\ Left(k)' <= Len(fifo') - k + 1
                /\ Left(k)' = Len(fifo') - k + 1 =>
                      /\ fifo'[k][1] = Len(packets) - 1
                      /\ behind = HeaderWords + packets[Len(packets)]
      BY <2>1, <2>2, Zenon
    <2>4. /\ behind > 0 => packets # << >>
          /\ packets # << >> => behind <= HeaderWords + packets[Len(packets)]
      BY DEF VdmInv, NextToCome
    <2>5. QED
      BY <2>3, <2>4 DEF NextToCome
  <1>6. QED
    BY <1>2, <1>4, <1>5

LEMMA ReadHeaderKeeps ==
    ASSUME VdmInv, ReadHeader
    PROVE  VdmInv'
  <1>1. /\ stage = "header" /\ stage' = "body" /\ fifo # << >> /\ fifo' = Tail(fifo)
        /\ silent' = 0 /\ (counted' = counted \/ counted' = counted + 1)
        /\ UNCHANGED <<test, txsize, txloop, sent, total, dataIdx, timeout, packets, behind,
                       faults, taken, bytes, odd>>
    BY DEF ReadHeader, Goes, transmit
  <1>2. PICK n \in LengthIn(Head(fifo)) : asked' = n + HeaderWords - 1
    BY DEF ReadHeader
  <1>3. /\ fifo \in Seq(Nat \X Nat) /\ Len(fifo) \in Nat \ {0} /\ 1 \in 1 .. Len(fifo)
        /\ Head(fifo) = fifo[1]
    BY <1>1, WordsOfPackets
  <1>4. fifo' = SubSeq(fifo, 1 + 1, Len(fifo)) /\ 1 \in 0 .. Len(fifo)
    BY <1>1, <1>3
  <1>5. /\ fifo' \in Seq(Nat \X Nat) /\ Len(fifo') = Len(fifo) - 1
        /\ \A k \in 1 .. Len(fifo') : fifo'[k] = fifo[k + 1]
        /\ InSequence' /\ NextToCome'
    BY <1>1, <1>4, WordsRead
  <1>6. /\ fifo[1][1] \in 1 .. Len(packets) /\ fifo[1] = <<fifo[1][1], fifo[1][2]>>
        /\ packets[fifo[1][1]] \in Nat
    BY <1>3, WordsOfPackets
  <1>7. n \in Nat
    <2>1. \A m \in PacketLens : m \in Nat
      BY VdmConstants
    <2>2. CASE fifo[1][2] = 0
      BY <1>2, <1>3, <1>6, <2>2 DEF LengthIn
    <2>3. CASE fifo[1][2] # 0
      BY <1>2, <1>3, <2>1, <2>3 DEF LengthIn
    <2>4. QED
      BY <2>2, <2>3
  <1>8. VdmTypes' /\ Numbers'
    <2>1. asked' \in Nat /\ counted' \in Nat
      BY <1>1, <1>2, <1>7 DEF VdmInv, Numbers, HeaderWords
    <2>2. QED
      BY <1>1, <1>5, <2>1 DEF VdmInv, VdmTypes, Numbers
  <1>9. test \in Packets
    BY <1>1 DEF VdmInv, Stages
  <1>10. Stages' /\ RoundInv' /\ TotalTrue' /\ DataFits'
    BY <1>1, <1>9 DEF VdmInv, Stages, RoundInv, TotalTrue, DataFits
  <1>11. TimeInv'
    <2>1. RxTimeout \in Nat \ {0}
      BY VdmConstants
    <2>2. QED
      BY <1>1, <2>1 DEF VdmInv, Numbers, TimeInv
  <1>12. ReadNext'
    <2>. SUFFICES ASSUME "short" \notin odd
                  PROVE  IF fifo' # << >>
                         THEN fifo'[1][2] = 1 /\ asked' = HeaderWords + packets[fifo'[1][1]] - 1
                         ELSE /\ packets # << >> /\ asked' = behind
                              /\ asked' = HeaderWords + packets[Len(packets)] - 1
      BY <1>1 DEF ReadNext
    <2>1. fifo[1][2] = 0
      BY <1>1 DEF VdmInv, ReadNext
    <2>2. n = packets[fifo[1][1]] /\ Left(1) = HeaderWords + n
      BY <1>2, <1>3, <1>6, <2>1 DEF LengthIn, Left, HeaderWords
    <2>3. asked' = Left(1) - 1 /\ Left(1) >= 4 /\ asked' = HeaderWords + n - 1
      BY <1>2, <1>7, <2>2 DEF HeaderWords
    <2>4. CASE fifo' # << >>
      <3>1. 2 \in 1 .. Len(fifo) /\ fifo'[1] = fifo[2]
        BY <1>3, <1>5, <2>4
      <3>2. 2 - 1 <= Left(1) /\ 2 - 1 < Left(1) /\ 1 <= 2
        BY <1>7, <2>2, <2>3 DEF HeaderWords
      <3>3. fifo[2] = IF 2 - 1 < Left(1) THEN <<fifo[1][1], fifo[1][2] + 2 - 1>>
                                         ELSE <<fifo[1][1] + 1, 0>>
        BY <1>3, <3>1, <3>2 DEF VdmInv, InSequence
      <3>4. fifo[2] = <<fifo[1][1], 1>>
        BY <2>1, <3>2, <3>3
      <3>5. fifo'[1][1] = fifo[1][1] /\ fifo'[1][2] = 1
        BY <3>1, <3>4
      <3>6. QED
        BY <2>2, <2>3, <2>4, <3>5
    <2>5. CASE fifo' = << >>
      <3>1. Len(fifo) = 1
        BY <1>3, <1>5, <2>5
      <3>2. /\ fifo[1][1] = Len(packets) => Left(1) = Len(fifo) - 1 + 1 + behind
            /\ fifo[1][1] < Len(packets) => Left(1) <= Len(fifo) - 1 + 1
        BY <1>3 DEF VdmInv, NextToCome
      <3>3. fifo[1][1] = Len(packets)
        BY <1>6, <1>7, <2>2, <2>3, <3>1, <3>2 DEF HeaderWords
      <3>4. Left(1) = 1 + behind
        BY <3>1, <3>2, <3>3, WordsOfPackets
      <3>5. packets # << >> /\ asked' = behind
        BY <1>6, <2>3, <3>4, WordsOfPackets
      <3>6. asked' = HeaderWords + packets[Len(packets)] - 1
        BY <2>2, <2>3, <3>3
      <3>7. QED
        BY <2>5, <3>5, <3>6
    <2>6. QED
      BY <2>4, <2>5
  <1>13. QED
    BY <1>5, <1>8, <1>10, <1>11, <1>12 DEF VdmInv

LEMMA ReadBodyKeeps ==
    ASSUME VdmInv, ReadBody
    PROVE  VdmInv'
  <1> DEFINE n == IF asked < Len(fifo) THEN asked ELSE Len(fifo)
  <1>1. /\ stage = "body" /\ stage' \in {"header", "exit"} /\ timeout' = 0
        /\ fifo' = SubSeq(fifo, n + 1, Len(fifo))
        /\ odd' = IF n < asked THEN odd \cup {"short"} ELSE odd
        /\ UNCHANGED <<test, txsize, txloop, sent, total, dataIdx, counted, asked, packets,
                       behind, faults, taken, bytes, silent>>
    BY DEF ReadBody, Goes, transmit, tally
  <1>2. n \in 0 .. Len(fifo) /\ asked \in Nat /\ Len(fifo) \in Nat
    BY WordsOfPackets DEF VdmInv, Numbers
  <1>3. /\ fifo' \in Seq(Nat \X Nat) /\ Len(fifo') = Len(fifo) - n
        /\ \A k \in 1 .. Len(fifo') : fifo'[k] = fifo[k + n]
        /\ InSequence' /\ NextToCome'
    <2>. HIDE DEF n
    <2>1. QED
      BY <1>1, <1>2, WordsRead
  <1>4. odd \subseteq odd' /\ odd' \subseteq {"sent", "part of a word", "again", "overrun", "short"}
    BY <1>1 DEF VdmInv, VdmTypes
  <1>5. test \in Packets
    BY <1>1 DEF VdmInv, Stages
  <1>6. VdmTypes' /\ Numbers'
    BY <1>1, <1>3, <1>4 DEF VdmInv, VdmTypes, Numbers
  <1>7. Stages' /\ RoundInv' /\ TotalTrue'
    BY <1>1, <1>5 DEF VdmInv, Stages, RoundInv, TotalTrue
  <1>8. DataFits'
    BY <1>1, <1>4 DEF VdmInv, DataFits
  <1>9. TimeInv'
    <2>1. RxTimeout \in Nat \ {0}
      BY VdmConstants
    <2>2. QED
      BY <1>1, <2>1 DEF VdmInv, TimeInv
  <1>10. ReadNext'
    <2>. SUFFICES ASSUME "short" \notin odd'
                  PROVE  IF fifo' # << >> THEN fifo'[1][2] = 0
                         ELSE behind > 0 => behind = HeaderWords + packets[Len(packets)]
      BY <1>1 DEF ReadNext
    <2>1. "short" \notin odd /\ n = asked /\ asked <= Len(fifo)
      <3>1. ~(n < asked)
        BY <1>1
      <3>2. QED
        BY <1>1, <1>2, <3>1
    <2>2. fifo # << >>
      <3>. SUFFICES ASSUME fifo = << >> PROVE FALSE
        OBVIOUS
      <3>1. packets # << >> /\ asked = HeaderWords + packets[Len(packets)] - 1
        BY <1>1, <2>1 DEF VdmInv, ReadNext
      <3>2. packets[Len(packets)] \in Nat
        BY <3>1, WordsOfPackets
      <3>3. asked <= 0
        BY <2>1
      <3>4. QED
        BY <1>2, <3>1, <3>2, <3>3 DEF HeaderWords
    <2>3. fifo[1][2] = 1 /\ asked = HeaderWords + packets[fifo[1][1]] - 1
      BY <1>1, <2>1, <2>2 DEF VdmInv, ReadNext
    <2>4. /\ 1 \in 1 .. Len(fifo) /\ fifo[1][1] \in 1 .. Len(packets)
          /\ packets[fifo[1][1]] \in Nat
      BY <2>2, WordsOfPackets
    <2>5. Left(1) = asked /\ asked > 0
      BY <2>3, <2>4 DEF Left, HeaderWords
    <2>6. CASE asked < Len(fifo)
      <3>1. asked + 1 \in 1 .. Len(fifo) /\ Len(fifo') > 0
        BY <1>2, <1>3, <2>1, <2>6
      <3>2. fifo'[1] = fifo[asked + 1] /\ fifo' # << >>
        BY <1>2, <1>3, <2>1, <3>1
      <3>3. 1 <= asked + 1 /\ (asked + 1) - 1 <= Left(1) /\ ~((asked + 1) - 1 < Left(1))
        BY <1>2, <2>5
      <3>4. fifo[asked + 1] = IF (asked + 1) - 1 < Left(1)
                              THEN <<fifo[1][1], fifo[1][2] + (asked + 1) - 1>>
                              ELSE <<fifo[1][1] + 1, 0>>
        BY <2>4, <3>1, <3>3 DEF VdmInv, InSequence
      <3>5. QED
        BY <3>2, <3>3, <3>4
    <2>7. CASE ~(asked < Len(fifo))
      <3>1. asked = Len(fifo) /\ fifo' = << >>
        BY <1>2, <1>3, <2>1, <2>7
      <3>2. /\ fifo[1][1] = Len(packets) => Left(1) = Len(fifo) - 1 + 1 + behind
            /\ fifo[1][1] < Len(packets) =>
                  (Left(1) = Len(fifo) - 1 + 1 => behind = HeaderWords + packets[Len(packets)])
        BY <2>4 DEF VdmInv, NextToCome
      <3>3. CASE fifo[1][1] = Len(packets)
        <4>1. behind = 0
          BY <1>2, <2>5, <3>1, <3>2, <3>3, WordsOfPackets
        <4>2. QED
          BY <3>1, <4>1
      <3>4. CASE fifo[1][1] < Len(packets)
        <4>1. Left(1) = Len(fifo) - 1 + 1
          BY <1>2, <2>5, <3>1
        <4>2. QED
          BY <3>1, <3>2, <3>4, <4>1
      <3>5. QED
        BY <2>4, <3>3, <3>4, WordsOfPackets
    <2>8. QED
      BY <2>6, <2>7
  <1>11. QED
    BY <1>3, <1>6, <1>7, <1>8, <1>9, <1>10 DEF VdmInv

LEMMA NothingToReadKeeps ==
    ASSUME VdmInv, NothingToRead
    PROVE  VdmInv'
  <1>1. /\ stage = "header" /\ timeout' = timeout + 1 /\ silent' = silent + 1
        /\ stage' = IF timeout' >= RxTimeout THEN "exit" ELSE "header"
        /\ UNCHANGED <<test, txsize, txloop, sent, total, dataIdx, counted, asked, fifo,
                       packets, behind, faults, taken, bytes, odd>>
    BY DEF NothingToRead, Goes, transmit, driver
  <1>2. /\ timeout \in Nat /\ silent \in Nat /\ RxTimeout \in Nat \ {0}
        /\ silent = timeout /\ timeout < RxTimeout
    BY <1>1, VdmConstants DEF VdmInv, Numbers, TimeInv
  <1>3. test \in Packets
    BY <1>1 DEF VdmInv, Stages
  <1>4. timeout' \in Nat /\ silent' \in Nat /\ stage' \in {"exit", "header"}
    BY <1>1, <1>2
  <1>5. VdmTypes' /\ Numbers' /\ Stages' /\ RoundInv' /\ TotalTrue' /\ DataFits'
    BY <1>1, <1>3, <1>4 DEF VdmInv, VdmTypes, Numbers, Stages, RoundInv, TotalTrue, DataFits
  <1>6. InSequence' /\ NextToCome' /\ ReadNext'
    BY <1>1, <1>4 DEF VdmInv, InSequence, NextToCome, ReadNext, Left
  <1>7. TimeInv'
    BY <1>1, <1>2 DEF TimeInv
  <1>8. QED
    BY <1>5, <1>6, <1>7 DEF VdmInv

(* A test runs alone; the other programs do not touch the driver.          *)
THEOREM VdmStep == VdmInv /\ [ToolsNext]_<<mailbox, debug, vdm, bmcSearch, exportWindow, tool>>
                       => VdmInv'
  <1>. SUFFICES ASSUME VdmInv, [ToolsNext]_<<mailbox, debug, vdm, bmcSearch, exportWindow, tool>>
                PROVE  VdmInv'
    OBVIOUS
  <1>1. CASE UNCHANGED vdm
    <2>1. UNCHANGED <<test, stage, txsize, txloop, sent, total, dataIdx, timeout, counted, asked,
                      fifo, packets, behind, faults, taken, bytes, silent, odd>>
      BY <1>1 DEF vdm, transmit, driver, tally
    <2>2. VdmTypes' /\ Numbers' /\ Stages' /\ RoundInv' /\ TotalTrue' /\ DataFits'
      BY <2>1 DEF VdmInv, VdmTypes, Numbers, Stages, RoundInv, TotalTrue, DataFits
    <2>3. InSequence' /\ NextToCome'
      BY <2>1 DEF VdmInv, InSequence, NextToCome, Left
    <2>4. ReadNext' /\ TimeInv'
      BY <2>1 DEF VdmInv, ReadNext, TimeInv
    <2>5. QED
      BY <2>2, <2>3, <2>4 DEF VdmInv
  <1>2. CASE VdmNext
    BY <1>2, OpenDeviceFailsKeeps, OpenToTransmitKeeps, WritePacketKeeps, WriteFailsKeeps,
       RoundEndsKeeps, ReceivePacketKeeps, ReceiveFailsKeeps, ParseDataKeeps,
       OpenForPacketsKeeps, PacketArrivesKeeps, WordArrivesKeeps, ReadHeaderKeeps,
       ReadBodyKeeps, NothingToReadKeeps
    DEF VdmNext
  <1>3. QED
    BY <1>1, <1>2 DEF ToolsNext

(* What the tests of the VDM driver report is what they measured: rounds   *)
(* with the packets that the driver took, reads that begin at packets, a   *)
(* timeout after that much silence, and data that fits (main.cpp,          *)
(* vdm_per_test.c and vdm_test.c).                                         *)
THEOREM VdmCorrect == ToolsSpec => []VdmReportsTrue
  <1>1. VdmInv => VdmReportsTrue
    <2>. SUFFICES ASSUME VdmInv
                  PROVE  /\ RoundComplete /\ TotalTrue
                         /\ AtPacket /\ TimeoutIsSilence /\ DataFits
      BY DEF VdmReportsTrue
    <2>1. RoundComplete
      BY DEF VdmInv, RoundInv, RoundComplete
    <2>2. AtPacket
      <3>1. fifo # << >> => Head(fifo) = fifo[1]
        BY WordsOfPackets
      <3>2. QED
        BY <3>1 DEF VdmInv, ReadNext, AtPacket
    <2>3. TimeoutIsSilence
      BY DEF VdmInv, TimeInv, TimeoutIsSilence
    <2>4. QED
      BY <2>1, <2>2, <2>3 DEF VdmInv
  <1>2. QED
    BY VdmInvInit, VdmStep, <1>1, PTL DEF ToolsSpec
-----------------------------------------------------------------------------
(* jtag_client: the steps.                                                 *)
LEMMA DebugData ==
    /\ Junk \in DebugValues /\ Data \in DebugValues /\ Data # Junk
    /\ MaxStops \in Nat /\ MaxCommands \in Nat
    /\ \A n \in 0 .. MaxStops : AtStop(n) \in [Registers -> DebugValues]
    /\ \A n : \A r \in Registers : n \in 0 .. MaxStops => AtStop(n)[r] # Junk
  <1>1. MaxStops \in Nat /\ MaxCommands \in Nat
    BY DebugConstants
  <1>2. Junk \in DebugValues /\ Data \in DebugValues /\ Data # Junk
    BY DEF DebugValues, Junk, Data
  <1>3. ASSUME NEW n \in 0 .. MaxStops
        PROVE  AtStop(n) \in [Registers -> DebugValues] /\ \A r \in Registers : AtStop(n)[r] # Junk
    <2>1. \A r \in Registers : <<r, n>> \in DebugValues
      BY DEF DebugValues
    <2>2. \A r \in Registers : <<r, n>> # Junk
      BY DEF Registers, Junk
    <2>3. QED
      BY <2>1, <2>2 DEF AtStop
  <1>4. QED
    BY <1>1, <1>2, <1>3

(* jtag_client starts before its first command, with a core that runs.     *)
THEOREM DebugInvInit == ToolsInit => DebugInv
  <1>. SUFFICES ASSUME ToolsInit PROVE DebugInv
    OBVIOUS
  <1>1. /\ client = "prompt" /\ step = 0 /\ index = 0
        /\ saved = [Regs0 |-> Data, PC |-> Data, R0 |-> Data, R1 |-> Data]
        /\ core = "runs" /\ reg = AtStop(0) /\ program = AtStop(0)
        /\ stops = 0 /\ commands = 0 /\ breakpoint = FALSE
        /\ knows = FALSE /\ amiss = {}
    BY DEF ToolsInit, DebugInit
  <1>2. saved \in [{"Regs0", "PC", "R0", "R1"} -> DebugValues]
    BY <1>1, DebugData
  <1>3. 0 \in 0 .. MaxStops /\ 0 \in 0 .. MaxCommands
    BY DebugData
  <1>4. reg \in [Registers -> DebugValues] /\ \A r \in Registers : program[r] # Junk
    BY <1>1, <1>3, DebugData
  <1>5. breakpoint \in BOOLEAN /\ knows \in BOOLEAN
    BY <1>1, Zenon
  <1>6. DebugTypes
    BY <1>1, <1>2, <1>3, <1>4, <1>5 DEF DebugTypes, Registers
  <1>7. Steps /\ Runs /\ Borrowed /\ KnownPc
    BY <1>1 DEF Steps, Runs, Borrowed, KnownPc, Memory32
  <1>8. QED
    BY <1>1, <1>4, <1>6, <1>7 DEF DebugInv, Undisturbed

(* The answer to a packet, for every way of receiving it.                  *)
Taken(values, final) ==
    /\ saved' \in [{"Regs0", "PC", "R0", "R1"} -> DebugValues]
    /\ client' \in Guarded \cup {"prompt", "gone", "id", "halt", "go", "regs", "clrBP"}
    /\ step' \in 0 .. 5
    /\ amiss' \subseteq {"divided", "lost", "index", "blind"}
    /\ amiss' = {} =>
          /\ amiss = {} /\ saved' = values
          /\ IF final THEN client' = "prompt" /\ step' = 0
                      ELSE client' = client /\ step' = step + 1

LEMMA Received ==
    ASSUME DebugTypes, NEW v \in {"Regs0", "PC", "R0", "R1"}, NEW value \in DebugValues,
           NEW final \in BOOLEAN, final \/ step < 5, Receive(v, value, final)
    PROVE  Taken([saved EXCEPT ![v] = value], final)
  <1>1. /\ saved \in [{"Regs0", "PC", "R0", "R1"} -> DebugValues]
        /\ client \in Guarded \cup {"prompt", "gone", "id", "halt", "go", "regs", "clrBP"}
        /\ step \in 0 .. 5 /\ amiss \subseteq {"divided", "lost", "index", "blind"}
    BY DEF DebugTypes
  <1>2. CASE UNCHANGED amiss /\ saved' = [saved EXCEPT ![v] = value] /\ Continue(final)
    BY <1>1, <1>2 DEF Taken, Continue
  <1>3. CASE /\ amiss' = amiss \cup {"divided"}
             /\ saved' = [saved EXCEPT ![v] = Junk] /\ Continue(final)
    BY <1>1, <1>3, DebugData DEF Taken, Continue
  <1>4. CASE amiss' = amiss \cup {"divided"} /\ UNCHANGED saved /\ Raise
    BY <1>1, <1>4 DEF Taken, Raise
  <1>5. QED
    BY <1>2, <1>3, <1>4 DEF Receive

LEMMA Shown ==
    ASSUME DebugTypes, NEW final \in BOOLEAN, final \/ step < 5, Show(final) \/ Ignore(final)
    PROVE  Taken(saved, final)
  <1>1. /\ saved \in [{"Regs0", "PC", "R0", "R1"} -> DebugValues]
        /\ client \in Guarded \cup {"prompt", "gone", "id", "halt", "go", "regs", "clrBP"}
        /\ step \in 0 .. 5 /\ amiss \subseteq {"divided", "lost", "index", "blind"}
    BY DEF DebugTypes
  <1>2. saved' = saved
    BY DEF Show, Ignore
  <1>3. CASE amiss' \in {amiss, amiss \cup {"divided"}} /\ Continue(final)
    BY <1>1, <1>2, <1>3 DEF Taken, Continue
  <1>4. CASE amiss' = amiss \cup {"divided"} /\ Raise
    BY <1>1, <1>2, <1>4 DEF Taken, Raise
  <1>5. QED
    BY <1>3, <1>4 DEF Show, Ignore

LEMMA BreakpointHitKeeps ==
    ASSUME DebugInv, BreakpointHit
    PROVE  DebugInv'
  <1>1. /\ core = "runs" /\ stops < MaxStops /\ stops' = stops + 1
        /\ core' = "fresh" /\ knows' = FALSE
        /\ reg' = AtStop(stops') /\ program' = AtStop(stops')
        /\ UNCHANGED <<client, step, index, saved, commands, breakpoint, amiss>>
    BY DEF BreakpointHit
  <1>2. stops' \in 0 .. MaxStops
    BY <1>1, DebugData DEF DebugInv, DebugTypes
  <1>3. reg' \in [Registers -> DebugValues] /\ reg' = program'
        /\ \A r \in Registers : program'[r] # Junk
    BY <1>1, <1>2, DebugData
  <1>4. knows' \in BOOLEAN
    BY <1>1, Zenon
  <1>5. DebugTypes'
    BY <1>1, <1>2, <1>3, <1>4 DEF DebugInv, DebugTypes
  <1>6. ASSUME amiss' = {} PROVE Undisturbed'
    <2>1. Steps /\ Runs
      BY <1>1, <1>6 DEF DebugInv, Undisturbed
    <2>2. client \in {"prompt", "gone", "id", "setBP", "clrBP"} \/ At("halt", 1)
      BY <1>1, <2>1 DEF Runs
    <2>3. Steps' /\ Runs' /\ KnownPc'
      BY <1>1, <2>1 DEF Steps, Runs, KnownPc
    <2>4. Borrowed'
      BY <1>1, <1>3, <2>2 DEF Borrowed, Memory32, At
    <2>5. QED
      BY <1>3, <2>3, <2>4 DEF Undisturbed
  <1>7. QED
    BY <1>5, <1>6 DEF DebugInv

LEMMA TypeCommandKeeps ==
    ASSUME DebugInv, TypeCommand
    PROVE  DebugInv'
  <1>1. /\ client = "prompt" /\ commands < MaxCommands /\ commands' = commands + 1
        /\ step' = 1
        /\ UNCHANGED <<saved, core, reg, program, stops, breakpoint, knows, amiss>>
    BY DEF TypeCommand, Typed, target
  <1>2. /\ client' \in {"id", "halt", "setBP", "clrBP"} \/
           (core # "runs" /\ client' \in {"go", "regs", "mem32", "wmem32", "wreg", "rreg"})
        /\ index' \in Registers \cup {16}
    <2>1. 0 \in Registers
      BY DEF Registers
    <2>2. QED
      BY <2>1 DEF TypeCommand, Typed
  <1>3. commands' \in 0 .. MaxCommands
    BY <1>1, DebugData DEF DebugInv, DebugTypes
  <1>4. DebugTypes'
    BY <1>1, <1>2, <1>3 DEF DebugInv, DebugTypes, Guarded
  <1>5. ASSUME amiss' = {} PROVE Undisturbed'
    <2>1. Undisturbed
      BY <1>1, <1>5 DEF DebugInv
    <2>2. Steps' /\ Runs'
      BY <1>1, <1>2, <2>1 DEF Undisturbed, Steps, Runs, At
    <2>3. Borrowed'
      <3>1. reg[0] = program[0] /\ reg[1] = program[1]
        BY <1>1, <2>1 DEF Undisturbed, Steps, Borrowed, Memory32
      <3>2. QED
        BY <1>1, <3>1 DEF Borrowed
    <2>4. KnownPc'
      BY <1>1, <2>1 DEF Undisturbed, KnownPc, At
    <2>5. QED
      BY <1>1, <2>1, <2>2, <2>3, <2>4 DEF Undisturbed
  <1>6. QED
    BY <1>4, <1>5 DEF DebugInv

(* The client is gone: the core keeps what it has.                         *)
LEMMA GoneKeeps ==
    ASSUME DebugInv, Quit \/ ConnectionLost
    PROVE  DebugInv'
  <1>1. /\ client' = "gone"
        /\ (amiss' = amiss /\ client = "prompt") \/ amiss' = amiss \cup {"lost"}
        /\ UNCHANGED <<step, index, saved, core, reg, program, stops, breakpoint, commands, knows>>
    BY DEF Quit, ConnectionLost, target
  <1>2. DebugTypes'
    BY <1>1 DEF DebugInv, DebugTypes
  <1>3. ASSUME amiss' = {} PROVE Undisturbed'
    <2>1. Undisturbed /\ client = "prompt"
      BY <1>1, <1>3 DEF DebugInv
    <2>2. QED
      BY <1>1, <2>1 DEF Undisturbed, Steps, Runs, Borrowed, KnownPc, At
  <1>4. QED
    BY <1>2, <1>3 DEF DebugInv

(* What is given back is never missing, unless an answer was divided.      *)
LEMMA NoValueKeeps ==
    ASSUME DebugInv, NoValue
    PROVE  DebugInv'
  <1>1. /\ step' = 0
        /\ UNCHANGED <<index, saved, core, reg, program, stops, breakpoint, commands, knows, amiss>>
        /\ client' \in {"prompt", "gone"}
    BY DEF NoValue, Raise, target
  <1>2. \/ client = "halt" /\ step = 4 /\ saved.Regs0 = Junk
        \/ client = "go" /\ step = 2 /\ saved.R0 = Junk
        \/ /\ client \in {"mem32", "wmem32"} /\ step > 2
           /\ saved.R0 = Junk \/ saved.R1 = Junk
    BY DEF NoValue, At
  <1>3. DebugTypes'
    BY <1>1 DEF DebugInv, DebugTypes
  <1>4. ASSUME amiss' = {} PROVE FALSE
    <2>1. Borrowed /\ program[0] # Junk /\ program[1] # Junk
      BY <1>1, <1>4 DEF DebugInv, Undisturbed, Registers
    <2>2. step \in 0 .. 5
      BY DEF DebugInv, DebugTypes
    <2>3. QED
      BY <1>2, <2>1, <2>2 DEF Borrowed, Memory32
  <1>5. QED
    BY <1>3, <1>4 DEF DebugInv

LEMMA IdKeeps ==
    ASSUME DebugInv, Id
    PROVE  DebugInv'
  <1>1. /\ client = "id" /\ step = 1
        /\ UNCHANGED <<index, core, reg, program, stops, breakpoint, commands, knows>>
    BY DEF Id, At, target
  <1>2. Taken(saved, TRUE)
    BY Shown DEF Id, DebugInv
  <1>3. DebugTypes'
    BY <1>1, <1>2 DEF DebugInv, DebugTypes, Taken
  <1>4. ASSUME amiss' = {} PROVE Undisturbed'
    <2>1. Undisturbed /\ client' = "prompt" /\ step' = 0 /\ saved' = saved
      BY <1>2, <1>4 DEF Taken, DebugInv
    <2>2. QED
      BY <1>1, <2>1 DEF Undisturbed, Steps, Runs, Borrowed, KnownPc, Memory32, At
  <1>5. QED
    BY <1>3, <1>4 DEF DebugInv

LEMMA HaltStopKeeps ==
    ASSUME DebugInv, HaltStop
    PROVE  DebugInv'
  <1>1. /\ client = "halt" /\ step = 1 /\ (knows' <=> core # "used")
        /\ Receive("Regs0", reg'[0], FALSE)
        /\ UNCHANGED <<index, commands, breakpoint>>
    BY DEF HaltStop, At
  <1>2. /\ stops' \in 0 .. MaxStops /\ core' \in {"fresh", "used"}
        /\ reg' \in [Registers -> DebugValues] /\ program' \in [Registers -> DebugValues]
        /\ \/ core = "runs" /\ core' = "fresh" /\ reg' = program'
              /\ \A r \in Registers : program'[r] # Junk
           \/ core # "runs" /\ UNCHANGED <<core, reg, program>>
    <2>1. CASE /\ core = "runs" /\ stops < MaxStops
               /\ stops' = stops + 1 /\ core' = "fresh"
               /\ reg' = AtStop(stops') /\ program' = AtStop(stops')
      <3>1. stops' \in 0 .. MaxStops
        BY <2>1, DebugData DEF DebugInv, DebugTypes
      <3>2. QED
        BY <2>1, <3>1, DebugData
    <2>2. CASE core # "runs" /\ UNCHANGED <<stops, core, reg, program>>
      BY <2>2 DEF DebugInv, DebugTypes
    <2>3. QED
      BY <2>1, <2>2 DEF HaltStop
  <1>3. Taken([saved EXCEPT !["Regs0"] = reg'[0]], FALSE)
    <2>1. reg'[0] \in DebugValues
      BY <1>2 DEF Registers
    <2>2. DebugTypes /\ step < 5
      BY <1>1 DEF DebugInv
    <2>3. QED
      BY <1>1, <2>1, <2>2, Received, Zenon
  <1>4. knows' \in BOOLEAN
    BY DEF HaltStop
  <1>5. DebugTypes'
    BY <1>1, <1>2, <1>3, <1>4 DEF DebugInv, DebugTypes, Taken
  <1>6. ASSUME amiss' = {} PROVE Undisturbed'
    <2>1. /\ Undisturbed /\ client' = "halt" /\ step' = 2
          /\ saved' = [saved EXCEPT !["Regs0"] = reg'[0]]
      BY <1>1, <1>3, <1>6 DEF Taken, DebugInv
    <2>2. saved'.Regs0 = reg'[0]
      BY <2>1 DEF DebugInv, DebugTypes
    <2>3. /\ reg'[0] = program'[0] /\ reg'[1] = program'[1]
          /\ (core' = "fresh" => reg' = program')
          /\ \A r \in Registers : program'[r] # Junk
      BY <1>1, <1>2, <2>1 DEF Undisturbed, Borrowed, Memory32
    <2>4. core' # "runs" /\ (knows' => core' = "fresh")
      BY <1>1, <1>2, <2>1 DEF DebugInv, DebugTypes
    <2>5. Steps' /\ Runs' /\ KnownPc'
      BY <2>1, <2>4 DEF Steps, Runs, KnownPc, At
    <2>6. Borrowed'
      BY <2>1, <2>2, <2>3 DEF Borrowed, Memory32
    <2>7. QED
      BY <2>3, <2>5, <2>6 DEF Undisturbed
  <1>7. QED
    BY <1>5, <1>6 DEF DebugInv

LEMMA HaltPcKeeps ==
    ASSUME DebugInv, HaltPc
    PROVE  DebugInv'
  <1>1. /\ client = "halt" /\ step = 2 /\ core' = "used"
        /\ reg' = [reg EXCEPT ![0] = IF core = "fresh" THEN reg[15] ELSE Junk]
        /\ Receive("PC", reg'[0], FALSE)
        /\ UNCHANGED <<index, program, stops, commands, breakpoint, knows>>
    BY DEF HaltPc, At, LoadReg, Others
  <1>2. /\ reg' \in [Registers -> DebugValues] /\ reg'[0] \in DebugValues
        /\ reg'[1] = reg[1] /\ (core = "fresh" => reg'[0] = reg[15])
    BY <1>1, DebugData DEF DebugInv, DebugTypes, Registers
  <1>3. Taken([saved EXCEPT !["PC"] = reg'[0]], FALSE)
    <2>1. DebugTypes /\ step < 5
      BY <1>1 DEF DebugInv
    <2>2. QED
      BY <1>1, <1>2, <2>1, Received, Zenon
  <1>4. DebugTypes'
    BY <1>1, <1>2, <1>3 DEF DebugInv, DebugTypes, Taken
  <1>5. ASSUME amiss' = {} PROVE Undisturbed'
    <2>1. /\ Undisturbed /\ client' = "halt" /\ step' = 3
          /\ saved' = [saved EXCEPT !["PC"] = reg'[0]]
      BY <1>1, <1>3, <1>5 DEF Taken, DebugInv
    <2>2. saved'.PC = reg'[0] /\ saved'.Regs0 = saved.Regs0
      BY <2>1 DEF DebugInv, DebugTypes
    <2>3. Steps' /\ Runs'
      BY <1>1, <2>1 DEF Steps, Runs
    <2>4. Borrowed'
      BY <1>1, <1>2, <2>1, <2>2 DEF Undisturbed, Borrowed, Memory32
    <2>5. KnownPc'
      BY <1>1, <1>2, <2>1, <2>2 DEF Undisturbed, KnownPc, At
    <2>6. QED
      BY <1>1, <2>1, <2>3, <2>4, <2>5 DEF Undisturbed
  <1>6. QED
    BY <1>4, <1>5 DEF DebugInv

(* The packets that only put R0 in; the last two give it back.             *)
LEMMA HaltRestKeeps ==
    ASSUME DebugInv, HaltCpsr \/ HaltRestore
    PROVE  DebugInv'
  <1>1. /\ client = "halt" /\ step \in 3 .. 5 /\ core' = "used"
        /\ UNCHANGED <<index, program, stops, commands, breakpoint, knows>>
    <2>1. CASE HaltCpsr
      BY <2>1 DEF HaltCpsr, At, LoadReg, Others
    <2>2. CASE HaltRestore
      BY <2>2 DEF HaltRestore, At, LoadReg, Others
    <2>3. QED
      BY <2>1, <2>2
  <1>2. PICK value \in DebugValues :
          /\ reg' = [reg EXCEPT ![0] = value]
          /\ step > 3 => value = saved.Regs0
    <2>1. saved.Regs0 \in DebugValues
      BY DEF DebugInv, DebugTypes
    <2>2. CASE HaltCpsr
      <3>1. reg' = [reg EXCEPT ![0] = Data] /\ step = 3
        BY <2>2 DEF HaltCpsr, LoadReg, At
      <3>2. Data \in DebugValues
        BY DebugData, Zenon
      <3>3. ~(step > 3)
        BY <3>1
      <3>4. QED
        BY <3>1, <3>2, <3>3, Zenon
    <2>3. CASE HaltRestore
      BY <2>1, <2>3 DEF HaltRestore, LoadReg
    <2>4. QED
      BY <2>2, <2>3
  <1>3. reg' \in [Registers -> DebugValues] /\ reg'[0] = value /\ reg'[1] = reg[1]
    BY <1>2 DEF DebugInv, DebugTypes, Registers
  <1>4. IF step = 5 THEN Taken(saved, TRUE) ELSE Taken(saved, FALSE)
    <2>1. CASE step = 5
      <3>1. Show(TRUE)
        <4>1. ~HaltCpsr
          BY <2>1 DEF HaltCpsr, At
        <4>2. HaltRestore
          BY <4>1
        <4>3. step # 4
          BY <2>1
        <4>4. QED
          BY <4>2, <4>3, Zenon DEF HaltRestore
      <3>2. QED
        BY <2>1, <3>1, Shown DEF DebugInv
    <2>2. CASE step # 5
      <3>1. Show(FALSE) \/ Ignore(FALSE)
        BY <1>1, <2>2 DEF HaltCpsr, HaltRestore, At
      <3>2. step < 5
        BY <1>1, <2>2
      <3>3. Taken(saved, FALSE)
        BY <3>1, <3>2, Shown DEF DebugInv
      <3>4. QED
        BY <2>2, <3>3
    <2>3. QED
      BY <2>1, <2>2
  <1>5. DebugTypes'
    BY <1>1, <1>3, <1>4 DEF DebugInv, DebugTypes, Taken
  <1>6. ASSUME amiss' = {} PROVE Undisturbed'
    <2>1. /\ Undisturbed /\ saved' = saved
          /\ IF step = 5 THEN client' = "prompt" /\ step' = 0
                         ELSE client' = "halt" /\ step' = step + 1
      BY <1>1, <1>4, <1>6 DEF Taken, DebugInv
    <2>2. saved.Regs0 = program[0] /\ reg[1] = program[1]
      BY <1>1, <2>1 DEF Undisturbed, Borrowed, Memory32
    <2>3. step' \in {0, 4, 5} /\ (step' = 0 => step = 5)
          /\ (step' = 0 <=> client' = "prompt") /\ client' \in {"prompt", "halt"}
      BY <1>1, <2>1
    <2>4. Steps' /\ Runs'
      BY <1>1, <2>3 DEF Steps, Runs
    <2>5. Borrowed'
      BY <1>1, <1>2, <1>3, <2>1, <2>2, <2>3 DEF Borrowed, Memory32
    <2>6. KnownPc'
      <3>1. core # "runs"
        BY <1>1, <2>1 DEF Undisturbed, Runs, At
      <3>2. QED
        BY <1>1, <2>1, <2>3, <3>1 DEF Undisturbed, KnownPc, At
    <2>7. QED
      BY <1>1, <2>1, <2>4, <2>5, <2>6 DEF Undisturbed
  <1>7. QED
    BY <1>5, <1>6 DEF DebugInv

LEMMA SaveR0Keeps ==
    ASSUME DebugInv, SaveR0
    PROVE  DebugInv'
  <1>1. /\ step = 1 /\ client \in {"go", "mem32", "wmem32"} /\ core' = "used"
        /\ Receive("R0", reg[0], FALSE)
        /\ UNCHANGED <<reg, index, program, stops, commands, breakpoint, knows>>
    BY DEF SaveR0, StoreReg, Others
  <1>2. Taken([saved EXCEPT !["R0"] = reg[0]], FALSE)
    <2>1. reg[0] \in DebugValues
      BY DEF DebugInv, DebugTypes, Registers
    <2>2. DebugTypes /\ step < 5
      BY <1>1 DEF DebugInv
    <2>3. QED
      BY <1>1, <2>1, <2>2, Received, Zenon
  <1>3. DebugTypes'
    BY <1>1, <1>2 DEF DebugInv, DebugTypes, Taken
  <1>4. ASSUME amiss' = {} PROVE Undisturbed'
    <2>1. /\ Undisturbed /\ client' = client /\ step' = 2
          /\ saved' = [saved EXCEPT !["R0"] = reg[0]]
      BY <1>1, <1>2, <1>4 DEF Taken, DebugInv
    <2>2. saved'.R0 = reg[0] /\ saved'.PC = saved.PC
      BY <2>1 DEF DebugInv, DebugTypes
    <2>3. reg[0] = program[0] /\ reg[1] = program[1] /\ core # "runs"
      BY <1>1, <2>1 DEF Undisturbed, Borrowed, Runs, Memory32, At
    <2>4. Steps' /\ Runs'
      BY <1>1, <2>1 DEF Steps, Runs
    <2>5. Borrowed'
      BY <1>1, <2>1, <2>2, <2>3 DEF Borrowed, Memory32
    <2>6. KnownPc'
      BY <1>1, <2>1, <2>2, <2>3 DEF Undisturbed, KnownPc, At
    <2>7. QED
      BY <1>1, <2>1, <2>4, <2>5, <2>6 DEF Undisturbed
  <1>5. QED
    BY <1>3, <1>4 DEF DebugInv

LEMMA GoRestartKeeps ==
    ASSUME DebugInv, GoRestart
    PROVE  DebugInv'
  <1>1. /\ client = "go" /\ step = 2 /\ core' = "runs"
        /\ client' = "prompt" /\ step' = 0
        /\ reg' = [reg EXCEPT ![15] = saved.PC, ![0] = saved.R0]
        /\ UNCHANGED <<saved, index, program, stops, commands, breakpoint, knows>>
    BY DEF GoRestart, At, Continue, Others
  <1>2. PICK d \in {{}, {"divided"}} :
          amiss' = amiss \cup (IF knows THEN {} ELSE {"blind"}) \cup d
    BY DEF GoRestart
  <1>3. saved.PC \in DebugValues /\ saved.R0 \in DebugValues /\ reg \in [Registers -> DebugValues]
    BY DEF DebugInv, DebugTypes
  <1>4. /\ reg' \in [Registers -> DebugValues]
        /\ reg'[0] = saved.R0 /\ reg'[1] = reg[1] /\ reg'[15] = saved.PC
    BY <1>1, <1>3 DEF Registers
  <1>5. amiss' \subseteq {"divided", "lost", "index", "blind"}
    BY <1>2 DEF DebugInv, DebugTypes
  <1>6. DebugTypes'
    BY <1>1, <1>4, <1>5 DEF DebugInv, DebugTypes
  <1>7. ASSUME amiss' = {} PROVE Undisturbed'
    <2>1. Undisturbed /\ knows
      BY <1>2, <1>7 DEF DebugInv
    <2>2. saved.R0 = program[0] /\ reg[1] = program[1] /\ core # "runs"
      BY <1>1, <2>1 DEF Undisturbed, Borrowed, Runs, Memory32, At
    <2>3. saved.PC = program[15]
      BY <1>1, <2>1, <2>2 DEF Undisturbed, KnownPc, At
    <2>4. reg' = program
      <3>1. program \in [Registers -> DebugValues]
        BY DEF DebugInv, DebugTypes
      <3>2. \A r \in Registers : reg'[r] = program[r]
        BY <1>4, <2>2, <2>3 DEF Registers
      <3>3. QED
        BY <1>4, <3>1, <3>2
    <2>5. Steps' /\ Runs' /\ Borrowed' /\ KnownPc'
      BY <1>1, <2>4 DEF Steps, Runs, Borrowed, KnownPc, Memory32, At
    <2>6. QED
      BY <1>1, <2>1, <2>5 DEF Undisturbed
  <1>8. QED
    BY <1>6, <1>7 DEF DebugInv

(* regs and rreg only look.                                                *)
LEMMA LookKeeps ==
    ASSUME DebugInv, DumpRegs \/ ReadReg
    PROVE  DebugInv'
  <1>1. /\ client \in {"regs", "rreg"} /\ step = 1 /\ core' = "used"
        /\ UNCHANGED <<reg, index, program, stops, commands, breakpoint, knows>>
    BY DEF DumpRegs, ReadReg, At, StoreReg, Others
  <1>2. PICK values \in [{"Regs0", "PC", "R0", "R1"} -> DebugValues] :
          Taken(values, TRUE) /\ values.PC = saved.PC
    <2>1. CASE DumpRegs
      <3>1. reg[0] \in DebugValues /\ saved \in [{"Regs0", "PC", "R0", "R1"} -> DebugValues]
        BY DEF DebugInv, DebugTypes, Registers
      <3>2. DebugTypes /\ Receive("Regs0", reg[0], TRUE)
        BY <2>1 DEF DebugInv, DumpRegs
      <3>3. Taken([saved EXCEPT !["Regs0"] = reg[0]], TRUE)
        BY <3>1, <3>2, Received, Zenon
      <3>4. /\ [saved EXCEPT !["Regs0"] = reg[0]] \in [{"Regs0", "PC", "R0", "R1"} -> DebugValues]
            /\ [saved EXCEPT !["Regs0"] = reg[0]].PC = saved.PC
        BY <3>1
      <3>5. QED
        BY <3>3, <3>4
    <2>2. CASE ReadReg
      <3>1. Taken(saved, TRUE)
        BY <2>2, Shown DEF ReadReg, DebugInv
      <3>2. QED
        BY <3>1 DEF DebugInv, DebugTypes
    <2>3. QED
      BY <2>1, <2>2
  <1>3. DebugTypes'
    BY <1>1, <1>2 DEF DebugInv, DebugTypes, Taken
  <1>4. ASSUME amiss' = {} PROVE Undisturbed'
    <2>1. Undisturbed /\ client' = "prompt" /\ step' = 0 /\ saved'.PC = saved.PC
      BY <1>2, <1>4 DEF Taken, DebugInv
    <2>2. core # "runs" /\ reg[0] = program[0] /\ reg[1] = program[1]
      BY <1>1, <2>1 DEF Undisturbed, Runs, Borrowed, Memory32, At
    <2>3. QED
      BY <1>1, <2>1, <2>2 DEF Undisturbed, Steps, Runs, Borrowed, KnownPc, Memory32, At
  <1>5. QED
    BY <1>3, <1>4 DEF DebugInv

LEMMA WriteRegKeeps ==
    ASSUME DebugInv, WriteReg
    PROVE  DebugInv'
  <1>1. /\ client = "wreg" /\ step = 1 /\ core' = "used"
        /\ client' = "prompt" /\ step' = 0
        /\ reg' = [reg EXCEPT ![index % 16] = Data]
        /\ program' = IF index \in {0, 1} THEN [program EXCEPT ![index] = Data] ELSE program
        /\ UNCHANGED <<saved, index, stops, commands, breakpoint, knows>>
    BY DEF WriteReg, At, LoadReg, Continue
  <1>2. PICK d \in {{}, {"divided"}} :
          amiss' = amiss \cup (IF index > 15 THEN {"index"} ELSE {}) \cup d
    BY DEF WriteReg
  <1>3. /\ reg \in [Registers -> DebugValues] /\ program \in [Registers -> DebugValues]
        /\ index \in {0, 1, 15, 16} /\ Data \in DebugValues /\ Data # Junk
    BY DebugData DEF DebugInv, DebugTypes, Registers
  <1>4. /\ reg' \in [Registers -> DebugValues]
        /\ index = 0 => reg'[0] = Data /\ reg'[1] = reg[1]
        /\ index = 1 => reg'[0] = reg[0] /\ reg'[1] = Data
        /\ index = 15 => reg'[0] = reg[0] /\ reg'[1] = reg[1]
    BY <1>1, <1>3 DEF Registers
  <1>5. /\ program' \in [Registers -> DebugValues] /\ program'[15] = program[15]
        /\ index = 0 => program'[0] = Data /\ program'[1] = program[1]
        /\ index = 1 => program'[0] = program[0] /\ program'[1] = Data
        /\ index \in {15, 16} => program' = program
    BY <1>1, <1>3 DEF Registers
  <1>6. amiss' \subseteq {"divided", "lost", "index", "blind"}
    BY <1>2 DEF DebugInv, DebugTypes
  <1>7. DebugTypes'
    BY <1>1, <1>4, <1>5, <1>6 DEF DebugInv, DebugTypes
  <1>8. ASSUME amiss' = {} PROVE Undisturbed'
    <2>1. Undisturbed /\ index \in {0, 1, 15}
      BY <1>2, <1>3, <1>8 DEF DebugInv
    <2>2. core # "runs" /\ reg[0] = program[0] /\ reg[1] = program[1]
      BY <1>1, <2>1 DEF Undisturbed, Runs, Borrowed, Memory32, At
    <2>3. reg'[0] = program'[0] /\ reg'[1] = program'[1]
      BY <1>4, <1>5, <2>1, <2>2
    <2>4. \A r \in Registers : program'[r] # Junk
      <3>1. program[0] # Junk /\ program[1] # Junk /\ program[15] # Junk
        BY <2>1 DEF Undisturbed, Registers
      <3>2. program'[0] # Junk /\ program'[1] # Junk /\ program'[15] # Junk
        BY <1>3, <1>5, <2>1, <3>1
      <3>3. QED
        BY <3>2 DEF Registers
    <2>5. Steps' /\ Runs' /\ Borrowed'
      BY <1>1, <2>3 DEF Steps, Runs, Borrowed, Memory32
    <2>6. KnownPc'
      BY <1>1, <1>5, <2>1, <2>2 DEF Undisturbed, KnownPc, At
    <2>7. QED
      BY <1>1, <2>4, <2>5, <2>6 DEF Undisturbed
  <1>9. QED
    BY <1>7, <1>8 DEF DebugInv

LEMMA SaveR1Keeps ==
    ASSUME DebugInv, SaveR1
    PROVE  DebugInv'
  <1>1. /\ step = 2 /\ client \in {"mem32", "wmem32"} /\ core' = "used"
        /\ Receive("R1", reg[1], FALSE)
        /\ UNCHANGED <<reg, index, program, stops, commands, breakpoint, knows>>
    BY DEF SaveR1, At, StoreReg, Others
  <1>2. Taken([saved EXCEPT !["R1"] = reg[1]], FALSE)
    <2>1. reg[1] \in DebugValues
      BY DEF DebugInv, DebugTypes, Registers
    <2>2. DebugTypes /\ step < 5
      BY <1>1 DEF DebugInv
    <2>3. QED
      BY <1>1, <2>1, <2>2, Received, Zenon
  <1>3. DebugTypes'
    BY <1>1, <1>2 DEF DebugInv, DebugTypes, Taken
  <1>4. ASSUME amiss' = {} PROVE Undisturbed'
    <2>1. /\ Undisturbed /\ client' = client /\ step' = 3
          /\ saved' = [saved EXCEPT !["R1"] = reg[1]]
      BY <1>1, <1>2, <1>4 DEF Taken, DebugInv
    <2>2. saved'.R1 = reg[1] /\ saved'.R0 = saved.R0 /\ saved'.PC = saved.PC
      BY <2>1 DEF DebugInv, DebugTypes
    <2>3. saved.R0 = program[0] /\ reg[1] = program[1] /\ core # "runs"
      BY <1>1, <2>1 DEF Undisturbed, Borrowed, Runs, Memory32, At
    <2>4. Steps' /\ Runs'
      BY <1>1, <2>1 DEF Steps, Runs
    <2>5. Borrowed'
      BY <1>1, <2>1, <2>2, <2>3 DEF Borrowed, Memory32
    <2>6. KnownPc'
      BY <1>1, <2>1, <2>2, <2>3 DEF Undisturbed, KnownPc, At
    <2>7. QED
      BY <1>1, <2>1, <2>4, <2>5, <2>6 DEF Undisturbed
  <1>5. QED
    BY <1>3, <1>4 DEF DebugInv

(* The access itself, and the fetch: both registers are borrowed.          *)
LEMMA AccessKeeps ==
    ASSUME DebugInv, AccessMemory \/ FetchValue
    PROVE  DebugInv'
  <1>1. /\ client \in {"mem32", "wmem32"} /\ step \in {3, 4} /\ core' = "used"
        /\ reg' = IF step = 3 THEN [reg EXCEPT ![0] = Data, ![1] = Data] ELSE reg
        /\ Show(FALSE) \/ Ignore(FALSE)
        /\ UNCHANGED <<index, program, stops, commands, breakpoint, knows>>
    <2>1. CASE AccessMemory
      <3>1. client \in {"mem32", "wmem32"} /\ step = 3
        BY <2>1 DEF AccessMemory, At
      <3>2. Ignore(FALSE)
        BY <2>1, Zenon DEF AccessMemory
      <3>3. QED
        BY <2>1, <3>1, <3>2 DEF AccessMemory, Others
    <2>2. CASE FetchValue
      <3>1. client = "mem32" /\ step = 4
        BY <2>2 DEF FetchValue, At
      <3>2. Show(FALSE)
        BY <2>2, Zenon DEF FetchValue
      <3>3. /\ core' = "used" /\ reg' = reg
            /\ UNCHANGED <<index, program, stops, commands, breakpoint, knows>>
        BY <2>2 DEF FetchValue, StoreReg, Others
      <3>4. step \in {3, 4} /\ step # 3
        BY <3>1
      <3>5. QED
        BY <3>1, <3>2, <3>3, <3>4, Zenon
    <2>3. QED
      BY <2>1, <2>2
  <1>2. Taken(saved, FALSE)
    <2>1. step < 5
      BY <1>1
    <2>2. QED
      BY <1>1, <2>1, Shown DEF DebugInv
  <1>3. reg' \in [Registers -> DebugValues]
    <2>1. Data \in DebugValues
      BY DebugData, Zenon
    <2>2. QED
      BY <1>1, <2>1 DEF DebugInv, DebugTypes, Registers
  <1>4. DebugTypes'
    BY <1>1, <1>2, <1>3 DEF DebugInv, DebugTypes, Taken
  <1>5. ASSUME amiss' = {} PROVE Undisturbed'
    <2>1. /\ Undisturbed /\ client' = client /\ step' = step + 1 /\ saved' = saved
      BY <1>1, <1>2, <1>5 DEF Taken, DebugInv
    <2>2. step' \in {4, 5}
      BY <1>1, <2>1
    <2>3. saved.R0 = program[0] /\ saved.R1 = program[1] /\ core # "runs"
      BY <1>1, <2>1 DEF Undisturbed, Borrowed, Runs, Memory32, At
    <2>4. Steps' /\ Runs'
      BY <1>1, <2>1, <2>2 DEF Steps, Runs
    <2>5. Borrowed'
      BY <1>1, <2>1, <2>2, <2>3 DEF Borrowed, Memory32
    <2>6. KnownPc'
      BY <1>1, <2>1, <2>3 DEF Undisturbed, KnownPc, At
    <2>7. QED
      BY <1>1, <2>1, <2>4, <2>5, <2>6 DEF Undisturbed
  <1>6. QED
    BY <1>4, <1>5 DEF DebugInv

LEMMA GiveBackKeeps ==
    ASSUME DebugInv, GiveBack
    PROVE  DebugInv'
  <1>1. /\ client \in {"mem32", "wmem32"} /\ step \in {4, 5} /\ core' = "used"
        /\ reg' = [reg EXCEPT ![0] = saved.R0, ![1] = saved.R1]
        /\ UNCHANGED <<index, program, stops, commands, breakpoint, knows>>
    BY DEF GiveBack, At, Others
  <1>2. Taken(saved, TRUE)
    BY Shown DEF GiveBack, DebugInv
  <1>3. /\ reg' \in [Registers -> DebugValues]
        /\ reg'[0] = saved.R0 /\ reg'[1] = saved.R1
    <2>1. saved.R0 \in DebugValues /\ saved.R1 \in DebugValues /\ reg \in [Registers -> DebugValues]
      BY DEF DebugInv, DebugTypes
    <2>2. QED
      BY <1>1, <2>1 DEF Registers
  <1>4. DebugTypes'
    BY <1>1, <1>2, <1>3 DEF DebugInv, DebugTypes, Taken
  <1>5. ASSUME amiss' = {} PROVE Undisturbed'
    <2>1. Undisturbed /\ client' = "prompt" /\ step' = 0 /\ saved' = saved
      BY <1>2, <1>5 DEF Taken, DebugInv
    <2>2. saved.R0 = program[0] /\ saved.R1 = program[1] /\ core # "runs"
      BY <1>1, <2>1 DEF Undisturbed, Borrowed, Runs, Memory32, At
    <2>3. Steps' /\ Runs' /\ Borrowed'
      BY <1>1, <1>3, <2>1, <2>2 DEF Steps, Runs, Borrowed, Memory32
    <2>4. KnownPc'
      BY <1>1, <2>1, <2>2 DEF Undisturbed, KnownPc, At
    <2>5. QED
      BY <1>1, <2>1, <2>3, <2>4 DEF Undisturbed
  <1>6. QED
    BY <1>4, <1>5 DEF DebugInv

LEMMA SetBreakpointKeeps ==
    ASSUME DebugInv, SetBreakpoint
    PROVE  DebugInv'
  <1>1. /\ client \in {"setBP", "clrBP"} /\ step = 1
        /\ UNCHANGED <<index, core, reg, program, stops, commands, knows>>
    BY DEF SetBreakpoint, At
  <1>2. breakpoint' \in BOOLEAN
    BY DEF SetBreakpoint
  <1>3. Taken(saved, TRUE)
    BY Shown DEF SetBreakpoint, DebugInv
  <1>4. DebugTypes'
    BY <1>1, <1>2, <1>3 DEF DebugInv, DebugTypes, Taken
  <1>5. ASSUME amiss' = {} PROVE Undisturbed'
    <2>1. Undisturbed /\ client' = "prompt" /\ step' = 0 /\ saved' = saved
      BY <1>3, <1>5 DEF Taken, DebugInv
    <2>2. QED
      BY <1>1, <2>1 DEF Undisturbed, Steps, Runs, Borrowed, KnownPc, Memory32, At
  <1>6. QED
    BY <1>4, <1>5 DEF DebugInv

(* Every packet of every command keeps the registers of the program known. *)
THEOREM DebugStep == DebugInv /\ [ToolsNext]_<<mailbox, debug, vdm, bmcSearch, exportWindow, tool>>
                         => DebugInv'
  <1>. SUFFICES ASSUME DebugInv, [ToolsNext]_<<mailbox, debug, vdm, bmcSearch, exportWindow, tool>>
                PROVE  DebugInv'
    OBVIOUS
  <1>1. CASE UNCHANGED debug
    BY <1>1 DEF debug, DebugInv, DebugTypes, Undisturbed, Steps, Runs, Borrowed, KnownPc, Memory32, At
  <1>2. CASE DebugNext
    BY <1>2, BreakpointHitKeeps, TypeCommandKeeps, GoneKeeps, NoValueKeeps, IdKeeps, HaltStopKeeps,
       HaltPcKeeps, HaltRestKeeps, SaveR0Keeps, GoRestartKeeps, LookKeeps, WriteRegKeeps,
       SaveR1Keeps, AccessKeeps, GiveBackKeeps, SetBreakpointKeeps
    DEF DebugNext, Halt, Memory
  <1>3. QED
    BY <1>1, <1>2 DEF ToolsNext

(* Debugging leaves the program as it was: what a command borrows it gives *)
(* back, and a core that runs again has its registers (jtag_client.py).    *)
THEOREM DebugCorrect == ToolsSpec => []ProgramUndisturbed
  <1>1. DebugInv => ProgramUndisturbed
    <2>. SUFFICES ASSUME DebugInv, amiss = {}
                  PROVE  /\ core = "runs" => reg = program
                         /\ client = "prompt" /\ core # "runs" =>
                               reg[0] = program[0] /\ reg[1] = program[1]
      BY DEF ProgramUndisturbed
    <2>1. Steps /\ Runs /\ Borrowed
      BY DEF DebugInv, Undisturbed
    <2>2. QED
      BY <2>1 DEF Steps, Runs, Borrowed, Memory32
  <1>2. QED
    BY DebugInvInit, DebugStep, <1>1, PTL DEF ToolsSpec
-----------------------------------------------------------------------------
(* The search for BMCs: addresses wrap around.                             *)
LEMMA Remainder ==
    ASSUME NEW n \in Nat \ {0}, NEW a \in Nat
    PROVE  a % n \in 0 .. n - 1 /\ a = n * (a \div n) + (a % n) /\ a \div n \in Nat
  <1>1. a % n \in 0 .. n - 1
    OBVIOUS
  <1>2. a = n * (a \div n) + (a % n)
    OBVIOUS
  <1>3. a \div n \in Nat
    OBVIOUS
  <1>4. QED
    BY <1>1, <1>2, <1>3

LEMMA OneRemainder ==
    ASSUME NEW n \in Nat \ {0}, NEW p \in Int, NEW q \in Int,
           NEW r \in 0 .. n - 1, NEW s \in 0 .. n - 1, n * p + r = n * q + s
    PROVE  r = s
  <1>1. ASSUME NEW d \in Nat \ {0} PROVE n * d >= n
    <2>1. d - 1 \in Nat /\ n * (d - 1) >= 0
      OBVIOUS
    <2>2. n * d = n * (d - 1) + n
      OBVIOUS
    <2>3. QED
      BY <2>1, <2>2
  <1>2. ~(p > q)
    <2>1. SUFFICES ASSUME p > q PROVE FALSE
      OBVIOUS
    <2>2. n * (p - q) >= n
      <3>1. p - q \in Nat \ {0}
        BY <2>1
      <3>2. QED
        BY <1>1, <3>1
    <2>3. n * (p - q) = n * p - n * q
      OBVIOUS
    <2>4. QED
      BY <2>2, <2>3
  <1>3. ~(p < q)
    <2>1. SUFFICES ASSUME p < q PROVE FALSE
      OBVIOUS
    <2>2. n * (q - p) >= n
      <3>1. q - p \in Nat \ {0}
        BY <2>1
      <3>2. QED
        BY <1>1, <3>1
    <2>3. n * (q - p) = n * q - n * p
      OBVIOUS
    <2>4. QED
      BY <2>2, <2>3
  <1>4. p = q
    BY <1>2, <1>3
  <1>5. QED
    BY <1>4

(* Stepping from an address, wherever it came from, is counting on.        *)
LEMMA Successor ==
    ASSUME NEW n \in Nat \ {0}, NEW a \in Nat
    PROVE  ((a % n) + 1) % n = (a + 1) % n
  <1> DEFINE r == a % n
  <1> DEFINE s == (a + 1) % n
  <1> DEFINE p == a \div n
  <1> DEFINE q == (a + 1) \div n
  <1>1. r \in 0 .. n - 1 /\ a = n * p + r /\ p \in Nat
    BY Remainder
  <1>2. s \in 0 .. n - 1 /\ a + 1 = n * q + s /\ q \in Nat
    <2>1. a + 1 \in Nat
      OBVIOUS
    <2>2. QED
      BY <2>1, Remainder
  <1>3. CASE r + 1 < n
    <2>1. (r + 1) % n = r + 1
      BY <1>1, <1>3
    <2>. HIDE DEF r, s, p, q
    <2>2. n * p + (r + 1) = n * q + s /\ r + 1 \in 0 .. n - 1
      <3>1. n * p \in Int /\ n * q \in Int
        BY <1>1, <1>2
      <3>2. QED
        BY <1>1, <1>2, <1>3, <3>1
    <2>3. r + 1 = s
      BY <1>1, <1>2, <2>2, OneRemainder
    <2>4. QED
      BY <2>1, <2>3 DEF r, s
  <1>4. CASE ~(r + 1 < n)
    <2>1. (r + 1) % n = 0
      <3>1. r + 1 = n
        BY <1>1, <1>4
      <3>2. QED
        BY <3>1
    <2>. HIDE DEF r, s, p, q
    <2>2. n * (p + 1) + 0 = n * q + s /\ 0 \in 0 .. n - 1 /\ p + 1 \in Int
      <3>1. n * p \in Int /\ n * q \in Int
        BY <1>1, <1>2
      <3>2. n * (p + 1) = n * p + n
        BY <1>1
      <3>3. QED
        BY <1>1, <1>2, <1>4, <3>1, <3>2
    <2>3. 0 = s
      BY <1>1, <1>2, <2>2, OneRemainder
    <2>4. QED
      BY <2>1, <2>3 DEF r, s
  <1>5. QED
    BY <1>3, <1>4

(* As far behind a as b is, one is at b; and no nearer.                    *)
LEMMA Between ==
    ASSUME NEW n \in Nat \ {0}, NEW a \in 0 .. n - 1, NEW b \in 0 .. n - 1
    PROVE  /\ (b - a) % n \in 0 .. n - 1
           /\ \A d \in 0 .. n - 1 : (a + d) % n = b <=> d = (b - a) % n
  <1>1. (b - a) % n = IF b >= a THEN b - a ELSE b - a + n
    <2>1. CASE b >= a
      <3>1. b - a \in 0 .. n - 1
        BY <2>1
      <3>2. QED
        BY <2>1, <3>1
    <2>2. CASE ~(b >= a)
      <3>1. b - a \in Int /\ -n <= b - a /\ b - a < 0
        BY <2>2
      <3>2. (b - a) % n = b - a + n
        BY <3>1
      <3>3. QED
        BY <2>2, <3>2
    <2>3. QED
      BY <2>1, <2>2
  <1>2. ASSUME NEW d \in 0 .. n - 1
        PROVE  (a + d) % n = IF a + d < n THEN a + d ELSE a + d - n
    <2>1. CASE a + d < n
      BY <2>1
    <2>2. CASE ~(a + d < n)
      <3>1. a + d \in n .. 2 * n - 1
        BY <2>2
      <3>2. QED
        BY <2>2, <3>1
    <2>3. QED
      BY <2>1, <2>2
  <1>3. (b - a) % n \in 0 .. n - 1
    BY <1>1
  <1>4. ASSUME NEW d \in 0 .. n - 1
        PROVE  (a + d) % n = b <=> d = (b - a) % n
    <2> DEFINE there == (a + d) % n
    <2> DEFINE distance == (b - a) % n
    <2>1. there = IF a + d < n THEN a + d ELSE a + d - n
      BY <1>2
    <2>2. distance = IF b >= a THEN b - a ELSE b - a + n
      BY <1>1
    <2>. HIDE DEF there, distance
    <2>3. there = b <=> d = distance
      BY <2>1, <2>2
    <2>4. QED
      BY <2>3 DEF there, distance
  <1>5. QED
    BY <1>3, <1>4

LEMMA SearchData ==
    /\ LastAddress + 1 \in Nat \ {0}
    /\ \A t \in RangeTexts : t = <<t[1], t[2]>> /\ t[1] \in Addresses /\ t[2] \in {"plain", "odd"}
  <1>1. LastAddress \in Nat
    BY SearchConstants
  <1>2. \A t \in RangeTexts : t \in (0 .. LastAddress) \X {"plain", "odd"}
    BY SearchConstants
  <1>3. QED
    BY <1>1, <1>2 DEF Addresses

(* Where the loop is, from how often it went around.                       *)
LEMMA CursorAt ==
    ASSUME SearchTypes, CursorInv, searching # "no"
    PROVE  /\ cursor[1] = (first[1] + offset) % (LastAddress + 1)
           /\ cursor \in RangeTexts \cup (Addresses \X {"plain"})
           /\ first[1] \in Addresses /\ last[1] \in Addresses /\ offset \in Nat
           /\ cursor = <<cursor[1], cursor[2]>> /\ cursor[1] \in Addresses
  <1>1. /\ cursor = IF offset = 0 THEN first
                    ELSE <<(first[1] + offset) % (LastAddress + 1), "plain">>
        /\ first \in RangeTexts /\ last \in RangeTexts /\ offset \in Nat
    BY DEF CursorInv, SearchTypes
  <1>2. /\ LastAddress + 1 \in Nat \ {0} /\ LastAddress \in Nat
        /\ first[1] \in Addresses /\ last[1] \in Addresses /\ first = <<first[1], first[2]>>
    BY <1>1, SearchData, SearchConstants
  <1>3. (first[1] + offset) % (LastAddress + 1) \in 0 .. LastAddress
    <2>1. first[1] + offset \in Nat
      BY <1>1, <1>2 DEF Addresses
    <2>2. (first[1] + offset) % (LastAddress + 1) \in 0 .. (LastAddress + 1) - 1
      BY <1>2, <2>1, Remainder
    <2>3. (LastAddress + 1) - 1 = LastAddress
      BY <1>2
    <2>4. QED
      BY <2>2, <2>3
  <1>4. CASE offset = 0
    <2>1. (first[1] + offset) % (LastAddress + 1) = first[1]
      BY <1>2, <1>4 DEF Addresses
    <2>2. QED
      BY <1>1, <1>2, <1>4, <2>1
  <1>5. CASE offset # 0
    <2> DEFINE here == (first[1] + offset) % (LastAddress + 1)
    <2>1. cursor = <<here, "plain">> /\ here \in Addresses
      BY <1>1, <1>3, <1>5 DEF Addresses
    <2>. HIDE DEF here
    <2>2. /\ cursor[1] = here /\ cursor[2] = "plain" /\ cursor \in Addresses \X {"plain"}
      BY <2>1
    <2>3. QED
      BY <1>1, <1>2, <2>1, <2>2 DEF here
  <1>6. QED
    BY <1>4, <1>5

(* No address was asked yet.                                               *)
THEOREM SearchInvInit == ToolsInit => SearchInv
  <1>. SUFFICES ASSUME ToolsInit PROVE SearchInv
    OBVIOUS
  <1>1. /\ host \in {"Windows", "Linux"} /\ first \in RangeTexts /\ last = first
        /\ searching = "no" /\ cursor = first /\ offset = 0 /\ exist = 0
        /\ live = << >> /\ tried = << >>
    BY DEF ToolsInit, SearchInit
  <1>2. cursor \in Addresses \X {"plain", "odd"}
    BY <1>1, SearchData
  <1>3. SearchTypes
    BY <1>1, <1>2 DEF SearchTypes
  <1>4. CursorInv /\ TriedInv
    BY <1>1 DEF CursorInv, TriedInv
  <1>5. LiveInv
    <2>1. Hits = {}
      BY <1>1 DEF Hits
    <2>2. QED
      BY <1>1, <2>1, FS_EmptySet DEF LiveInv
  <1>6. QED
    BY <1>3, <1>4, <1>5 DEF SearchInv

LEMMA ClickSearchKeeps ==
    ASSUME SearchInv, ClickSearch
    PROVE  SearchInv'
  <1>1. /\ searching = "no" /\ searching' = "yes" /\ cursor' = first
        /\ offset' = 0 /\ exist' = 0 /\ live' = << >> /\ tried' = << >>
        /\ UNCHANGED <<host, first, last>>
    BY DEF ClickSearch
  <1>2. first \in RangeTexts /\ last \in RangeTexts
    BY DEF SearchInv, SearchTypes
  <1>3. SearchTypes'
    <2>1. cursor' \in Addresses \X {"plain", "odd"}
      BY <1>1, <1>2, SearchData
    <2>2. QED
      BY <1>1, <2>1 DEF SearchInv, SearchTypes
  <1>4. CursorInv'
    <2>1. Distance \in Nat
      <3>1. first[1] \in Addresses /\ last[1] \in Addresses /\ LastAddress + 1 \in Nat \ {0}
        BY <1>2, SearchData
      <3>2. QED
        BY <3>1 DEF Distance, Addresses
    <2>2. Distance' = Distance
      BY <1>1 DEF Distance
    <2>3. QED
      BY <1>1, <2>1, <2>2 DEF CursorInv
  <1>5. LiveInv' /\ TriedInv'
    <2>1. Hits' = {}
      BY <1>1 DEF Hits
    <2>2. Len(live') = 0 /\ Len(tried') = 0
      BY <1>1
    <2>3. QED
      BY <2>1, <2>2, FS_EmptySet DEF LiveInv, TriedInv
  <1>6. QED
    BY <1>3, <1>4, <1>5 DEF SearchInv

LEMMA ProbeKeeps ==
    ASSUME SearchInv, Probe
    PROVE  SearchInv'
  <1> DEFINE N == LastAddress + 1
  <1>1. searching = "yes" /\ AfterProbe /\ UNCHANGED <<host, first, last>>
    BY DEF Probe
  <1>2. PICK answers \in BOOLEAN :
          /\ live' = IF answers THEN Append(live, <<cursor, offset>>) ELSE live
          /\ exist' = IF answers THEN exist + 1 ELSE exist
          /\ tried' = Append(tried, <<cursor[1], answers>>)
    <2>1. \A answers \in ProbeResults : answers \in BOOLEAN
      BY Zenon DEF ProbeResults
    <2>2. QED
      BY <2>1, Zenon DEF Probe
  <1>3. /\ cursor[1] = (first[1] + offset) % N
        /\ cursor \in RangeTexts \cup (Addresses \X {"plain"})
        /\ first[1] \in Addresses /\ last[1] \in Addresses /\ offset \in Nat
        /\ cursor = <<cursor[1], cursor[2]>> /\ cursor[1] \in Addresses
    BY <1>1, CursorAt DEF SearchInv
  <1>4. N \in Nat \ {0} /\ LastAddress \in Nat
    BY SearchData, SearchConstants
  <1>5. /\ tried \in Seq(Addresses \X BOOLEAN) /\ Len(tried) = offset
        /\ live \in Seq((RangeTexts \cup (Addresses \X {"plain"})) \X Nat)
        /\ exist \in Nat
    BY <1>1 DEF SearchInv, SearchTypes, CursorInv
  <1>6. /\ tried' \in Seq(Addresses \X BOOLEAN) /\ Len(tried') = offset + 1
        /\ tried'[offset + 1] = <<cursor[1], answers>>
        /\ \A k \in 1 .. Len(tried) : tried'[k] = tried[k]
    BY <1>2, <1>3, <1>5
  <1>7. /\ exist' \in Nat
        /\ live' \in Seq((RangeTexts \cup (Addresses \X {"plain"})) \X Nat)
        /\ \A k \in 1 .. Len(live) : live'[k] = live[k]
        /\ Len(live') = Len(live) + (IF answers THEN 1 ELSE 0)
        /\ answers => live'[Len(live) + 1] = <<cursor, offset>>
    <2>1. CASE answers
      <3>1. live' = Append(live, <<cursor, offset>>) /\ exist' = exist + 1
        BY <1>2, <2>1
      <3>2. <<cursor, offset>> \in (RangeTexts \cup (Addresses \X {"plain"})) \X Nat
        BY <1>3
      <3>3. QED
        BY <1>5, <2>1, <3>1, <3>2
    <2>2. CASE ~answers
      BY <1>2, <1>5, <2>2
    <2>3. QED
      BY <2>1, <2>2
  <1>8. Hits' = IF answers THEN Hits \cup {offset + 1} ELSE Hits
    <2>1. DOMAIN tried = 1 .. offset /\ DOMAIN tried' = 1 .. offset + 1
      BY <1>5, <1>6
    <2>2. /\ \A k \in 1 .. offset : tried'[k][2] <=> tried[k][2]
          /\ tried'[offset + 1][2] <=> answers
      BY <1>5, <1>6
    <2>3. \A k : k \in 1 .. offset + 1 <=> k \in 1 .. offset \/ k = offset + 1
      BY <1>3
    <2>4. \A k : k \in Hits' <=> k \in Hits \/ (k = offset + 1 /\ answers)
      BY <2>1, <2>2, <2>3, Zenon DEF Hits
    <2>5. QED
      BY <2>4
  <1>9. LiveInv'
    <2>1. IsFiniteSet(Hits) /\ offset + 1 \notin Hits
      <3>1. Hits \subseteq 1 .. offset
        BY <1>5 DEF Hits
      <3>2. IsFiniteSet(1 .. offset)
        BY <1>3, FS_Interval
      <3>3. QED
        BY <1>3, <3>1, <3>2, FS_Subset
    <2>2. Len(live) = Cardinality(Hits) /\ Len(live) \in Nat
      BY <1>5 DEF SearchInv, LiveInv
    <2>3. Len(live') = Cardinality(Hits')
      <3>1. CASE answers
        <4>1. Cardinality(Hits \cup {offset + 1}) = Cardinality(Hits) + 1
          BY <2>1, FS_AddElement
        <4>2. QED
          BY <1>7, <1>8, <2>2, <3>1, <4>1
      <3>2. CASE ~answers
        BY <1>7, <1>8, <2>2, <3>2
      <3>3. QED
        BY <3>1, <3>2
    <2>4. ASSUME NEW k \in 1 .. Len(live)
          PROVE  /\ live'[k] = live[k] /\ live[k][2] \in Nat
                 /\ live[k][2] + 1 \in 1 .. offset
                 /\ tried'[live[k][2] + 1] = <<live[k][1][1], TRUE>>
                 /\ k > 1 => live[k - 1][2] < live[k][2]
      <3>1. /\ live[k][2] + 1 \in 1 .. Len(tried)
            /\ tried[live[k][2] + 1] = <<live[k][1][1], TRUE>>
            /\ k > 1 => live[k - 1][2] < live[k][2]
        BY DEF SearchInv, LiveInv
      <3>2. live[k] \in (RangeTexts \cup (Addresses \X {"plain"})) \X Nat
        BY <1>5
      <3>3. QED
        BY <1>5, <1>6, <1>7, <3>1, <3>2
    <2>5. ASSUME NEW k \in 1 .. Len(live')
          PROVE  /\ live'[k][2] + 1 \in 1 .. Len(tried')
                 /\ tried'[live'[k][2] + 1] = <<live'[k][1][1], TRUE>>
                 /\ k > 1 => live'[k - 1][2] < live'[k][2]
      <3>1. CASE k \in 1 .. Len(live)
        <4>1. k > 1 => live'[k - 1] = live[k - 1]
          BY <1>7, <2>2, <3>1
        <4>2. live[k][2] + 1 \in 1 .. offset + 1
          <5>1. live[k][2] \in Nat /\ live[k][2] + 1 \in 1 .. offset
            BY <2>4, <3>1
          <5>2. QED
            BY <1>3, <5>1
        <4>3. QED
          BY <1>6, <2>4, <3>1, <4>1, <4>2
      <3>2. CASE k \notin 1 .. Len(live)
        <4>1. answers /\ k = Len(live) + 1
          BY <1>7, <2>2, <3>2
        <4>2. live'[k] = <<cursor, offset>>
          BY <1>7, <4>1
        <4>3. live'[k][2] = offset /\ live'[k][1] = cursor
          BY <4>2
        <4>4. k > 1 => k - 1 \in 1 .. Len(live)
          BY <2>2, <4>1
        <4>5. ASSUME k > 1 PROVE live'[k - 1][2] < offset
          <5>1. /\ live'[k - 1] = live[k - 1] /\ live[k - 1][2] \in Nat
                /\ live[k - 1][2] + 1 \in 1 .. offset
            BY <2>4, <4>4, <4>5
          <5>2. QED
            BY <1>3, <5>1
        <4>6. tried'[offset + 1] = <<cursor[1], TRUE>> /\ offset + 1 \in 1 .. Len(tried')
          BY <1>3, <1>6, <4>1
        <4>7. QED
          BY <4>3, <4>5, <4>6
      <3>3. QED
        BY <3>1, <3>2
    <2>6. QED
      BY <2>3, <2>5 DEF LiveInv
  <1>10. TriedInv'
    <2>1. \A k \in 1 .. Len(tried) : tried[k][1] = (first[1] + k - 1) % N
      BY <1>1 DEF SearchInv, TriedInv
    <2>2. tried'[offset + 1][1] = (first[1] + (offset + 1) - 1) % N
      <3>1. first[1] + (offset + 1) - 1 = first[1] + offset
        BY <1>3 DEF Addresses
      <3>2. tried'[offset + 1][1] = cursor[1]
        BY <1>6
      <3>3. QED
        BY <1>3, <3>1, <3>2
    <2>3. \A k \in 1 .. offset + 1 : k \in 1 .. offset \/ k = offset + 1
      BY <1>3
    <2>4. \A k \in 1 .. offset + 1 : tried'[k][1] = (first[1] + k - 1) % N
      BY <1>5, <1>6, <2>1, <2>2, <2>3, Zenon
    <2>5. QED
      BY <1>1, <1>6, <2>4 DEF TriedInv
  <1>11. CASE cursor = last
    <2>1. searching' = "done" /\ cursor' = cursor /\ offset' = offset
      BY <1>1, <1>11 DEF AfterProbe
    <2>2. SearchTypes'
      BY <1>1, <1>6, <1>7, <2>1 DEF SearchInv, SearchTypes
    <2>3. CursorInv'
      BY <1>1, <1>6, <1>11, <2>1 DEF SearchInv, CursorInv, Distance
    <2>4. QED
      BY <1>9, <1>10, <2>2, <2>3 DEF SearchInv
  <1>12. CASE cursor # last
    <2>1. /\ searching' = "yes" /\ offset' = offset + 1
          /\ cursor' = <<(cursor[1] + 1) % N, "plain">>
      BY <1>1, <1>12 DEF AfterProbe, AdvGetNextIPPointer
    <2>2. (cursor[1] + 1) % N = (first[1] + (offset + 1)) % N
      <3>1. first[1] + offset \in Nat /\ (first[1] + offset) + 1 = first[1] + (offset + 1)
        BY <1>3 DEF Addresses
      <3>2. (((first[1] + offset) % N) + 1) % N = ((first[1] + offset) + 1) % N
        BY <1>4, <3>1, Successor
      <3>3. QED
        BY <1>3, <3>1, <3>2
    <2>3. (cursor[1] + 1) % N \in Addresses
      <3>1. cursor[1] + 1 \in Nat
        BY <1>3 DEF Addresses
      <3>2. (cursor[1] + 1) % N \in 0 .. N - 1
        BY <1>4, <3>1, Remainder
      <3>3. N - 1 = LastAddress
        BY <1>4
      <3>4. QED
        BY <3>2, <3>3 DEF Addresses
    <2>4. SearchTypes'
      <3>1. cursor' \in Addresses \X {"plain", "odd"} /\ offset' \in Nat
        BY <1>3, <2>1, <2>3
      <3>2. QED
        BY <1>1, <1>6, <1>7, <2>1, <3>1 DEF SearchInv, SearchTypes
    <2>5. ASSUME first[2] = "plain", last[2] = "plain" PROVE offset + 1 <= Distance
      <3>1. offset <= Distance
        BY <1>1, <2>5 DEF SearchInv, CursorInv
      <3>2. first[1] \in 0 .. N - 1 /\ last[1] \in 0 .. N - 1
        BY <1>3, <1>4 DEF Addresses
      <3>3. Distance \in 0 .. N - 1
            /\ \A d \in 0 .. N - 1 : (first[1] + d) % N = last[1] <=> d = Distance
        BY <1>4, <3>2, Between DEF Distance
      <3>4. offset # Distance
        <4>. SUFFICES ASSUME offset = Distance PROVE FALSE
          OBVIOUS
        <4>1. cursor[1] = last[1]
          BY <1>3, <3>3
        <4>2. cursor[2] = "plain"
          BY <1>1, <2>5 DEF SearchInv, CursorInv
        <4>3. last = <<last[1], last[2]>>
          BY SearchData DEF SearchInv, SearchTypes
        <4>4. QED
          BY <1>3, <1>12, <2>5, <4>1, <4>2, <4>3
      <3>5. QED
        BY <1>3, <3>1, <3>3, <3>4
    <2>6. CursorInv'
      <3>1. Distance' = Distance
        BY <1>1 DEF Distance
      <3>2. offset' # 0
        BY <1>3, <2>1
      <3>3. cursor' = <<(first[1] + offset') % N, "plain">>
        BY <2>1, <2>2
      <3>. HIDE DEF N
      <3>4. QED
        BY <1>1, <1>3, <1>6, <2>1, <2>5, <3>1, <3>2, <3>3 DEF CursorInv, N
    <2>7. QED
      BY <1>9, <1>10, <2>4, <2>6 DEF SearchInv
  <1>13. QED
    BY <1>11, <1>12

(* Every address asked is the one after the last one asked.                *)
THEOREM SearchStep == SearchInv /\ [ToolsNext]_<<mailbox, debug, vdm, bmcSearch, exportWindow, tool>>
                          => SearchInv'
  <1>. SUFFICES ASSUME SearchInv, [ToolsNext]_<<mailbox, debug, vdm, bmcSearch, exportWindow, tool>>
                PROVE  SearchInv'
    OBVIOUS
  <1>1. CASE UNCHANGED bmcSearch
    BY <1>1 DEF bmcSearch, SearchInv, SearchTypes, CursorInv, LiveInv, TriedInv, Distance, Hits
  <1>2. CASE EditFirst \/ EditLast \/ SearchReturns
    <2>1. /\ searching' = "no" /\ first' \in RangeTexts /\ last' \in RangeTexts
          /\ UNCHANGED <<host, cursor, offset, exist, live, tried>>
      BY <1>2 DEF EditFirst, EditLast, SearchReturns, SearchInv, SearchTypes
    <2>2. QED
      BY <2>1 DEF SearchInv, SearchTypes, CursorInv, LiveInv, TriedInv, Hits
  <1>3. QED
    BY <1>1, <1>2, ClickSearchKeeps, ProbeKeeps DEF ToolsNext, SearchNext

LEMMA SearchInvCovers == SearchInv => SearchCovers
  <1>. SUFFICES ASSUME SearchInv, searching # "no" PROVE SearchCovers
    BY DEF SearchCovers
  <1> DEFINE N == LastAddress + 1
  <1>1. /\ cursor[1] = (first[1] + offset) % N /\ offset \in Nat
        /\ first[1] \in Addresses /\ last[1] \in Addresses
    BY CursorAt DEF SearchInv
  <1>2. /\ tried \in Seq(Addresses \X BOOLEAN)
        /\ live \in Seq((RangeTexts \cup (Addresses \X {"plain"})) \X Nat)
        /\ Len(tried) = offset + IF searching = "done" THEN 1 ELSE 0
        /\ DOMAIN tried = 1 .. Len(tried) /\ DOMAIN live = 1 .. Len(live)
    BY DEF SearchInv, SearchTypes, CursorInv
  <1>3. N \in Nat \ {0} /\ LastAddress \in Nat
    BY SearchData, SearchConstants
  <1>4. ASSUME first[2] = "plain", last[2] = "plain"
        PROVE  Len(tried) <= 1 + Distance /\ (searching = "done" => Len(tried) = 1 + Distance)
    <2>1. offset <= Distance
      BY <1>4 DEF SearchInv, CursorInv
    <2>2. first[1] \in 0 .. N - 1 /\ last[1] \in 0 .. N - 1
      BY <1>1, <1>3 DEF Addresses
    <2>3. Distance \in 0 .. N - 1
          /\ \A d \in 0 .. N - 1 : (first[1] + d) % N = last[1] <=> d = Distance
      BY <1>3, <2>2, Between DEF Distance
    <2>4. searching = "done" => offset = Distance
      <3>. SUFFICES ASSUME searching = "done" PROVE offset = Distance
        OBVIOUS
      <3>1. cursor[1] = last[1]
        BY DEF SearchInv, CursorInv
      <3>2. offset \in 0 .. N - 1
        BY <1>1, <1>3, <2>1, <2>3
      <3>3. QED
        BY <1>1, <2>3, <3>1, <3>2
    <2>5. QED
      BY <1>1, <1>2, <2>1, <2>3, <2>4
  <1>5. searching = "done" => last[2] = "plain" \/ last = first
    <2>1. searching = "done" => last = cursor
      BY DEF SearchInv, CursorInv
    <2>2. cursor = first \/ cursor = <<(first[1] + offset) % N, "plain">>
      BY DEF SearchInv, CursorInv
    <2>3. QED
      BY <2>1, <2>2
  <1>6. \A k \in DOMAIN tried : tried[k][1] = (first[1] + k - 1) % N
    BY <1>2 DEF SearchInv, TriedInv
  <1>7. /\ Len(live) = Cardinality({k \in DOMAIN tried : tried[k][2]})
        /\ \A k \in DOMAIN live :
              /\ tried[live[k][2] + 1] = <<live[k][1][1], TRUE>>
              /\ k > 1 => live[k - 1][2] < live[k][2]
    BY <1>2 DEF SearchInv, LiveInv, Hits
  <1>8. QED
    BY <1>4, <1>5, <1>6, <1>7 DEF SearchCovers, Distance
-----------------------------------------------------------------------------
(* The window: the steps.                                                  *)
drivesSeen == <<host, view, attached, listed, notices, overlooked>>

LEMMA FirstOfMask ==
    ASSUME NEW mask \in SUBSET Drives, mask # {}
    PROVE  FirstDriveFromMask(mask) \in mask
  <1>1. \A n \in mask : n \in Nat
    BY WindowConstants
  <1>2. PICK n \in mask : \A o \in mask : ~(<<o, n>> \in OpToRel(<, Nat))
    <2>1. mask \subseteq Nat
      BY <1>1
    <2>2. QED
      BY <2>1, NatLessThanWellFounded, WFMin
  <1>3. ASSUME NEW o \in mask PROVE n <= o
    <2>1. o < n => <<o, n>> \in OpToRel(<, Nat)
      BY <1>1, Zenon DEF OpToRel
    <2>2. ~(o < n)
      BY <1>2, <2>1, Zenon
    <2>3. QED
      BY <1>1, <2>2
  <1>4. QED
    BY <1>3 DEF FirstDriveFromMask

(* Lists.                                                                  *)
LEMMA Listed ==
    ASSUME NEW S, NEW s \in Seq(S)
    PROVE  /\ Range(s) = {s[k] : k \in 1 .. Len(s)} /\ Range(s) \subseteq S
           /\ IsInjective(s) <=> \A k, l \in 1 .. Len(s) : s[k] = s[l] => k = l
           /\ s = << >> <=> Range(s) = {}
  <1>1. DOMAIN s = 1 .. Len(s) /\ Len(s) \in Nat
    OBVIOUS
  <1>2. Range(s) = {s[k] : k \in 1 .. Len(s)}
    BY <1>1 DEF Range
  <1>3. IsInjective(s) <=> \A k, l \in 1 .. Len(s) : s[k] = s[l] => k = l
    BY <1>1 DEF IsInjective
  <1>4. s = << >> <=> Range(s) = {}
    <2>1. CASE s = << >>
      BY <1>2, <2>1
    <2>2. CASE s # << >>
      <3>1. 1 \in 1 .. Len(s)
        BY <2>2
      <3>2. s[1] \in Range(s)
        BY <1>2, <3>1
      <3>3. QED
        BY <2>2, <3>2
    <2>3. QED
      BY <2>1, <2>2
  <1>5. QED
    BY <1>2, <1>3, <1>4

LEMMA Lengthened ==
    ASSUME NEW S, NEW s \in Seq(S), NEW e \in S
    PROVE  /\ Append(s, e) \in Seq(S) /\ Range(Append(s, e)) = Range(s) \cup {e}
           /\ IsInjective(s) /\ e \notin Range(s) => IsInjective(Append(s, e))
  <1> DEFINE t == Append(s, e)
  <1>1. /\ t \in Seq(S) /\ Len(t) = Len(s) + 1 /\ Len(s) \in Nat /\ t[Len(s) + 1] = e
        /\ \A k \in 1 .. Len(s) : t[k] = s[k]
    OBVIOUS
  <1>. HIDE DEF t
  <1>2. \A k : k \in 1 .. Len(t) <=> k \in 1 .. Len(s) \/ k = Len(s) + 1
    BY <1>1
  <1>3. Range(t) = Range(s) \cup {e}
    <2>1. Range(t) = {t[k] : k \in 1 .. Len(t)} /\ Range(s) = {s[k] : k \in 1 .. Len(s)}
      BY <1>1, Listed
    <2>2. \A x : x \in Range(t) <=> x \in Range(s) \cup {e}
      BY <1>1, <1>2, <2>1
    <2>3. QED
      BY <2>2
  <1>4. ASSUME IsInjective(s), e \notin Range(s) PROVE IsInjective(t)
    <2>1. \A k \in 1 .. Len(s) : s[k] # e
      BY <1>4, Listed
    <2>2. \A k, l \in 1 .. Len(s) : s[k] = s[l] => k = l
      BY <1>4, Listed
    <2>3. \A k, l \in 1 .. Len(t) : t[k] = t[l] => k = l
      BY <1>1, <1>2, <2>1, <2>2
    <2>4. QED
      BY <1>1, <2>3, Listed
  <1>5. QED
    BY <1>1, <1>3, <1>4 DEF t

LEMMA Joined ==
    ASSUME NEW S, NEW s \in Seq(S), NEW t \in Seq(S)
    PROVE  s \o t \in Seq(S) /\ Len(s \o t) = Len(s) + Len(t)
  OBVIOUS

LEMMA Shortened ==
    ASSUME NEW S, NEW s \in Seq(S), NEW i \in 1 .. Len(s), IsInjective(s)
    PROVE  /\ RemoveAt(s, i) \in Seq(S) /\ IsInjective(RemoveAt(s, i))
           /\ Range(RemoveAt(s, i)) = Range(s) \ {s[i]}
  <1> DEFINE t == RemoveAt(s, i)
  <1>1. /\ t \in Seq(S) /\ Len(t) = Len(s) - 1 /\ Len(s) \in Nat
        /\ \A k \in 1 .. Len(s) - 1 : t[k] = IF k < i THEN s[k] ELSE s[k + 1]
    <2> DEFINE before == SubSeq(s, 1, i - 1)
    <2> DEFINE after == SubSeq(s, i + 1, Len(s))
    <2>1. /\ before \in Seq(S) /\ Len(before) = i - 1 /\ Len(s) \in Nat
          /\ \A k \in 1 .. i - 1 : before[k] = s[k]
      OBVIOUS
    <2>2. /\ after \in Seq(S) /\ Len(after) = Len(s) - i
          /\ \A k \in 1 .. Len(s) - i : after[k] = s[k + i]
      BY RestOfSequence
    <2>3. t = before \o after
      BY DEF RemoveAt
    <2>. HIDE DEF before, after, t
    <2>4. t \in Seq(S) /\ Len(t) = Len(s) - 1
      <3>1. t \in Seq(S) /\ Len(t) = Len(before) + Len(after)
        BY <2>1, <2>2, <2>3, Joined, Zenon
      <3>2. Len(before) + Len(after) = Len(s) - 1
        BY <2>1, <2>2
      <3>3. QED
        BY <3>1, <3>2
    <2>5. ASSUME NEW k \in 1 .. Len(s) - 1
          PROVE  t[k] = IF k < i THEN s[k] ELSE s[k + 1]
      <3>1. CASE k < i
        <4>1. k \in 1 .. Len(before) /\ k \in 1 .. i - 1
          BY <2>1, <3>1
        <4>2. QED
          BY <2>1, <2>2, <2>3, <3>1, <4>1
      <3>2. CASE ~(k < i)
        <4>1. k - (i - 1) \in 1 .. Len(s) - i /\ (k - (i - 1)) + i = k + 1
          BY <2>1, <3>2
        <4>2. after[k - (i - 1)] = s[k + 1]
          BY <2>2, <4>1
        <4>3. t[k] = after[k - Len(before)]
          BY <2>1, <2>2, <2>3, <3>2
        <4>4. QED
          BY <2>1, <3>2, <4>2, <4>3
      <3>3. QED
        BY <3>1, <3>2
    <2>6. QED
      BY <2>1, <2>4, <2>5
  <1>. HIDE DEF t
  <1>2. \A k, l \in 1 .. Len(s) : s[k] = s[l] => k = l
    BY Listed
  <1>3. \A k, l \in 1 .. Len(t) : t[k] = t[l] => k = l
    <2>. SUFFICES ASSUME NEW k \in 1 .. Len(t), NEW l \in 1 .. Len(t), t[k] = t[l]
                  PROVE  k = l
      OBVIOUS
    <2> DEFINE u == IF k < i THEN k ELSE k + 1
    <2> DEFINE v == IF l < i THEN l ELSE l + 1
    <2>1. u \in 1 .. Len(s) /\ v \in 1 .. Len(s) /\ t[k] = s[u] /\ t[l] = s[v]
      BY <1>1
    <2>2. u = v
      BY <1>2, <2>1
    <2>3. QED
      BY <1>1, <2>2
  <1>4. Range(t) = Range(s) \ {s[i]}
    <2>1. Range(t) = {t[k] : k \in 1 .. Len(t)} /\ Range(s) = {s[k] : k \in 1 .. Len(s)}
      BY <1>1, Listed
    <2>2. ASSUME NEW x, x \in Range(t) PROVE x \in Range(s) \ {s[i]}
      <3>1. PICK k \in 1 .. Len(t) : x = t[k]
        BY <2>1, <2>2
      <3>2. PICK m \in 1 .. Len(s) : m # i /\ x = s[m]
        <4>1. CASE k < i
          <5>1. k \in 1 .. Len(s) /\ k # i /\ x = s[k]
            BY <1>1, <3>1, <4>1
          <5>2. QED
            BY <5>1
        <4>2. CASE ~(k < i)
          <5>1. k + 1 \in 1 .. Len(s) /\ k + 1 # i /\ x = s[k + 1]
            BY <1>1, <3>1, <4>2
          <5>2. QED
            BY <5>1
        <4>3. QED
          BY <4>1, <4>2
      <3>3. QED
        BY <1>2, <2>1, <3>2
    <2>3. ASSUME NEW x, x \in Range(s) \ {s[i]} PROVE x \in Range(t)
      <3>1. PICK m \in 1 .. Len(s) : x = s[m] /\ m # i
        BY <2>1, <2>3
      <3>2. CASE m < i
        <4>1. m \in 1 .. Len(t) /\ t[m] = s[m]
          BY <1>1, <3>2
        <4>2. QED
          BY <2>1, <3>1, <4>1
      <3>3. CASE ~(m < i)
        <4>1. m - 1 \in 1 .. Len(t) /\ t[m - 1] = s[m]
          <5>1. m - 1 \in 1 .. Len(s) - 1 /\ ~(m - 1 < i) /\ (m - 1) + 1 = m
            BY <1>1, <3>1, <3>3
          <5>2. QED
            BY <1>1, <5>1
        <4>2. QED
          BY <2>1, <3>1, <4>1
      <3>4. QED
        BY <3>2, <3>3
    <2>4. QED
      BY <2>2, <2>3
  <1>5. QED
    BY <1>1, <1>3, <1>4, Listed DEF t

LEMMA AbsentFails == ~checkDriveType(Absent)
  <1>1. Absent.type = "no root"
    BY DEF Absent
  <1>2. QED
    BY <1>1 DEF checkDriveType

(* A message that is sent, for a drive that the program hears of.          *)
LEMMA FollowsTold ==
    ASSUME DriveTypes, NEW n \in Drives, Follows(n),
           NEW what \in {"arrival", "removal"}, NEW mask \in SUBSET Drives,
           notices' = Append(notices, <<what, mask>>), UNCHANGED <<host, listed>>,
           n \notin mask => attached'[n] = attached[n],
           n \in mask /\ what = "removal" => attached'[n] = Absent,
           n \in mask /\ what = "arrival" /\ n \in Present => n \in Present'
    PROVE  Follows(n)'
  <1> DEFINE m == Len(notices) + 1
  <1>1. /\ Len(notices') = m /\ Len(notices) \in Nat /\ notices'[m] = <<what, mask>>
        /\ \A k \in 1 .. Len(notices) : notices'[k] = notices[k]
    <2> DEFINE note == <<what, mask>>
    <2> DEFINE Note == {"arrival", "removal", "directory"} \X SUBSET Drives
    <2>1. note \in Note /\ notices \in Seq(Note)
      BY DEF DriveTypes
    <2>. HIDE DEF note, Note
    <2>2. QED
      BY <2>1
  <1>2. notices'[m][1] = what /\ notices'[m][2] = mask
    BY <1>1
  <1>3. \A k : k \in 1 .. m <=> k \in 1 .. Len(notices) \/ k = m
    BY <1>1
  <1>4. \A k : k \in Pending(n)' <=> k \in Pending(n) \/ (k = m /\ n \in mask)
    <2>1. \A k : k \in Pending(n)' <=> k \in 1 .. Len(notices') /\ n \in notices'[k][2]
      BY DEF Pending
    <2>2. QED
      BY <1>1, <1>2, <1>3, <2>1 DEF Pending
  <1>5. \A k \in Pending(n) : notices'[k] = notices[k] /\ k < m
    BY <1>1 DEF Pending
  <1>6. CASE n \notin mask
    <2>1. Pending(n)' = Pending(n)
      BY <1>4, <1>6
    <2>2. n \in Present' <=> n \in Present
      BY <1>6 DEF Present
    <2>3. QED
      BY <1>5, <1>6, <2>1, <2>2 DEF Follows
  <1>7. CASE n \in mask
    <2>1. m \in Pending(n)'
      BY <1>4, <1>7
    <2>2. ASSUME n \in Range(listed), \A k \in Pending(n)' : notices'[k][1] = "arrival"
          PROVE  n \in Present'
      <3>1. what = "arrival"
        BY <1>2, <2>1, <2>2
      <3>2. \A k \in Pending(n) : notices[k][1] = "arrival"
        BY <1>4, <1>5, <2>2
      <3>3. n \in Present
        BY <2>2, <3>2 DEF Follows
      <3>4. QED
        BY <1>7, <3>1, <3>3
    <2>3. ASSUME NEW k \in Pending(n)', \A l \in Pending(n)' : l <= k, notices'[k][1] = "removal"
          PROVE  attached'[n] = Absent
      <3>1. m <= k
        BY <2>1, <2>3
      <3>2. k = m
        <4>1. CASE k \in Pending(n)
          <5>1. k \in Nat /\ m \in Nat /\ k < m
            BY <1>1, <1>5, <4>1 DEF Pending
          <5>2. QED
            BY <3>1, <5>1
        <4>2. QED
          BY <1>4, <2>3, <4>1
      <3>3. QED
        BY <1>2, <1>7, <2>3, <3>2
    <2>4. QED
      BY <2>1, <2>2, <2>3 DEF Follows
  <1>8. QED
    BY <1>6, <1>7

(* A message that is taken.                                                *)
LEMMA FollowsHeard ==
    ASSUME DriveTypes, NEW n \in Drives, Follows(n), notices # << >>,
           notices[1][1] \in {"arrival", "removal"},
           notices' = Tail(notices), UNCHANGED <<host, attached>>,
           n \notin notices[1][2] => (n \in Range(listed') <=> n \in Range(listed)),
           n \in notices[1][2] /\ notices[1][1] = "arrival" =>
              (n \in Range(listed') <=> n \in Range(listed) \/ n \in Present),
           n \in notices[1][2] /\ notices[1][1] = "removal" => n \notin Range(listed')
    PROVE  Follows(n)'
  <1>1. /\ Len(notices) \in Nat \ {0} /\ Len(notices') = Len(notices) - 1
        /\ \A k \in 1 .. Len(notices) - 1 : notices'[k] = notices[k + 1]
    BY DEF DriveTypes
  <1>2. \A k : k \in Pending(n)' <=> k \in 1 .. Len(notices) - 1 /\ k + 1 \in Pending(n)
    <2>1. \A k : k \in Pending(n)' <=> k \in 1 .. Len(notices') /\ n \in notices'[k][2]
      BY DEF Pending
    <2>2. \A k \in 1 .. Len(notices) - 1 : k + 1 \in 1 .. Len(notices)
      BY <1>1
    <2>3. QED
      BY <1>1, <2>1, <2>2 DEF Pending
  <1>3. \A k \in Pending(n) : k # 1 => k - 1 \in Pending(n)' /\ notices'[k - 1] = notices[k]
    <2>. SUFFICES ASSUME NEW k \in Pending(n), k # 1
                  PROVE  k - 1 \in Pending(n)' /\ notices'[k - 1] = notices[k]
      OBVIOUS
    <2>1. k - 1 \in 1 .. Len(notices) - 1 /\ (k - 1) + 1 = k
      BY <1>1 DEF Pending
    <2>2. QED
      BY <1>1, <1>2, <2>1
  <1>4. \A k \in Pending(n)' : k + 1 \in Pending(n) /\ notices'[k] = notices[k + 1]
    BY <1>1, <1>2
  <1>5. n \in Present' <=> n \in Present
    BY DEF Present
  <1>6. 1 \in Pending(n) <=> n \in notices[1][2]
    BY <1>1 DEF Pending
  <1>7. (\A k \in Pending(n)' : notices'[k][1] = "arrival")
           <=> (\A k \in Pending(n) : k = 1 \/ notices[k][1] = "arrival")
    <2>1. ASSUME \A k \in Pending(n)' : notices'[k][1] = "arrival", NEW k \in Pending(n), k # 1
          PROVE  notices[k][1] = "arrival"
      <3>1. k - 1 \in Pending(n)' /\ notices'[k - 1] = notices[k]
        BY <1>3, <2>1
      <3>2. notices'[k - 1][1] = "arrival"
        BY <2>1, <3>1, Zenon
      <3>3. QED
        BY <3>1, <3>2
    <2>2. ASSUME \A k \in Pending(n) : k = 1 \/ notices[k][1] = "arrival", NEW k \in Pending(n)'
          PROVE  notices'[k][1] = "arrival"
      <3>1. k + 1 # 1
        BY <1>1, <1>2, <2>2
      <3>2. QED
        BY <1>4, <2>2, <3>1
    <2>3. QED
      BY <2>1, <2>2
  <1>8. Pending(n)' = {} => \A k \in Pending(n) : k = 1
    BY <1>3
  <1>9. ASSUME Pending(n)' = {} PROVE n \in Range(listed') <=> n \in Present
    <2>1. CASE n \notin notices[1][2]
      <3>1. Pending(n) = {}
        BY <1>6, <1>8, <1>9, <2>1
      <3>2. QED
        BY <2>1, <3>1 DEF Follows
    <2>2. CASE n \in notices[1][2] /\ notices[1][1] = "arrival"
      <3>1. n \in Range(listed) => n \in Present
        BY <1>8, <1>9, <2>2 DEF Follows
      <3>2. QED
        BY <2>2, <3>1
    <2>3. CASE n \in notices[1][2] /\ notices[1][1] = "removal"
      <3>1. 1 \in Pending(n) /\ \A l \in Pending(n) : l <= 1
        BY <1>6, <1>8, <1>9, <2>3
      <3>2. attached[n] = Absent
        BY <2>3, <3>1 DEF Follows
      <3>3. n \notin Present
        BY <3>2, AbsentFails DEF Present
      <3>4. QED
        BY <2>3, <3>3
    <2>4. QED
      BY <2>1, <2>2, <2>3
  <1>10. ASSUME n \in Range(listed'), \A k \in Pending(n)' : notices'[k][1] = "arrival"
         PROVE  n \in Present
    <2>1. \A k \in Pending(n) : k = 1 \/ notices[k][1] = "arrival"
      BY <1>7, <1>10
    <2>2. CASE n \notin notices[1][2]
      <3>1. \A k \in Pending(n) : notices[k][1] = "arrival"
        BY <1>6, <2>1, <2>2
      <3>2. QED
        BY <1>10, <2>2, <3>1 DEF Follows
    <2>3. CASE n \in notices[1][2] /\ notices[1][1] = "arrival"
      <3>1. \A k \in Pending(n) : notices[k][1] = "arrival"
        BY <2>1, <2>3
      <3>2. QED
        BY <1>10, <2>3, <3>1 DEF Follows
    <2>4. QED
      BY <1>10, <2>2, <2>3
  <1>11. ASSUME NEW k \in Pending(n)', \A l \in Pending(n)' : l <= k, notices'[k][1] = "removal"
         PROVE  attached[n] = Absent
    <2>1. k + 1 \in Pending(n) /\ notices[k + 1][1] = "removal" /\ k \in Nat \ {0}
      BY <1>1, <1>2, <1>4, <1>11
    <2>2. \A l \in Pending(n) : l <= k + 1
      <3>. SUFFICES ASSUME NEW l \in Pending(n) PROVE l <= k + 1
        OBVIOUS
      <3>1. l \in Nat
        BY <1>1 DEF Pending
      <3>2. CASE l = 1
        BY <2>1, <3>2
      <3>3. CASE l # 1
        <4>1. l - 1 <= k
          BY <1>3, <1>11, <3>3
        <4>2. QED
          BY <2>1, <3>1, <4>1
      <3>4. QED
        BY <3>2, <3>3
    <2>3. QED
      BY <2>1, <2>2 DEF Follows
  <1>12. QED
    BY <1>5, <1>9, <1>10, <1>11 DEF Follows

LEMMA FollowsStays ==
    ASSUME NEW n \in Drives, Follows(n), UNCHANGED <<host, listed, notices>>,
           attached'[n] = attached[n]
    PROVE  Follows(n)'
  <1>1. Pending(n)' = Pending(n)
    BY DEF Pending
  <1>2. n \in Present' <=> n \in Present
    BY DEF Present
  <1>3. QED
    BY <1>1, <1>2 DEF Follows

(* A change of drives, and what the program is told of it.                 *)
LEMMA Told ==
    ASSUME DrivesInv, NEW what \in {"arrival", "removal"},
           NEW mask \in SUBSET Drives, mask # {},
           attached' \in [Drives -> Kinds \cup {Absent}],
           \A n \in Drives \ mask : attached'[n] = attached[n],
           what = "removal" => \A n \in mask : attached'[n] = Absent,
           what = "arrival" => \A n \in mask : n \in Present => n \in Present',
           Tell(what, mask), UNCHANGED <<host, view, listed>>
    PROVE  DrivesInv'
  <1>1. host \in {"Windows", "Linux"} /\ view \in {"starting", "shown"}
    BY DEF DrivesInv, DriveTypes
  <1>2. CASE view = "starting"
    <2>1. overlooked' = overlooked \cup mask /\ UNCHANGED notices
      BY <1>2 DEF Tell
    <2>2. DriveTypes' /\ Masks' /\ IsInjective(listed)' /\ notices' = << >>
      BY <1>2, <2>1 DEF DrivesInv, DriveTypes, Masks, IsInjective
    <2>3. ASSUME host = "Windows", NEW n \in Drives \ overlooked' PROVE Follows(n)'
      <3>1. n \in Drives /\ n \notin mask /\ n \notin overlooked
        BY <2>1, <2>3
      <3>2. Follows(n) /\ attached'[n] = attached[n]
        BY <2>3, <3>1 DEF DrivesInv
      <3>3. QED
        BY <2>1, <3>1, <3>2, FollowsStays
    <2>4. ASSUME host = "Linux" PROVE Range(listed') \ overlooked' = Present' \ overlooked'
      <3>1. Range(listed) \ overlooked = Present \ overlooked
        BY <1>2, <2>4 DEF DrivesInv
      <3>2. \A n \in Drives \ mask : n \in Present' <=> n \in Present
        BY DEF Present
      <3>3. Present \subseteq Drives /\ Present' \subseteq Drives
        BY DEF Present
      <3>4. QED
        BY <2>1, <3>1, <3>2, <3>3
    <2>5. QED
      BY <1>2, <2>2, <2>3, <2>4 DEF DrivesInv
  <1>3. CASE view = "shown" /\ host = "Linux"
    <2>1. notices' = <<<<"directory", { }>>>> /\ UNCHANGED overlooked
      BY <1>3 DEF Tell
    <2>2. /\ notices' \in Seq({"arrival", "removal", "directory"} \X SUBSET Drives)
          /\ notices' # << >> /\ Len(notices') = 1 /\ notices'[1][1] = "directory"
      BY <2>1
    <2>3. DriveTypes' /\ Masks' /\ IsInjective(listed)'
      BY <1>3, <2>1, <2>2 DEF DrivesInv, DriveTypes, Masks, IsInjective
    <2>4. QED
      BY <1>3, <2>2, <2>3 DEF DrivesInv
  <1>4. CASE view = "shown" /\ host = "Windows"
    <2>1. notices' = Append(notices, <<what, mask>>) /\ UNCHANGED overlooked
      BY <1>4 DEF Tell
    <2>2. /\ notices' \in Seq({"arrival", "removal", "directory"} \X SUBSET Drives)
          /\ Len(notices) \in Nat /\ Len(notices') = Len(notices) + 1
          /\ \A k \in 1 .. Len(notices) : notices'[k] = notices[k]
          /\ notices'[Len(notices) + 1] = <<what, mask>>
      <3> DEFINE note == <<what, mask>>
      <3> DEFINE Note == {"arrival", "removal", "directory"} \X SUBSET Drives
      <3>1. note \in Note /\ notices \in Seq(Note)
        BY DEF DrivesInv, DriveTypes
      <3>2. notices' = Append(notices, note)
        BY <2>1
      <3>. HIDE DEF note, Note
      <3>3. /\ notices' \in Seq(Note)
            /\ Len(notices) \in Nat /\ Len(notices') = Len(notices) + 1
            /\ \A k \in 1 .. Len(notices) : notices'[k] = notices[k]
            /\ notices'[Len(notices) + 1] = note
        BY <3>1, <3>2
      <3>4. QED
        BY <3>3 DEF note, Note
    <2>3. Masks'
      <3>1. \A k \in 1 .. Len(notices) : notices[k][2] # {} /\ notices[k][1] # "directory"
        BY <1>4 DEF DrivesInv, Masks
      <3>2. \A k \in 1 .. Len(notices') : k \in 1 .. Len(notices) \/ k = Len(notices) + 1
        BY <2>2
      <3>3. <<what, mask>>[1] = what /\ <<what, mask>>[2] = mask /\ what # "directory"
        OBVIOUS
      <3>4. \A k \in 1 .. Len(notices') : notices'[k][2] # {} /\ notices'[k][1] # "directory"
        BY <2>2, <3>1, <3>2, <3>3
      <3>5. QED
        BY <1>4, <3>4 DEF Masks
    <2>4. DriveTypes' /\ IsInjective(listed)'
      BY <2>1, <2>2 DEF DrivesInv, DriveTypes, IsInjective
    <2>5. ASSUME NEW n \in Drives \ overlooked' PROVE Follows(n)'
      <3>1. n \in Drives /\ Follows(n) /\ DriveTypes
        BY <1>4, <2>1, <2>5 DEF DrivesInv
      <3>2. /\ n \notin mask => attached'[n] = attached[n]
            /\ n \in mask /\ what = "removal" => attached'[n] = Absent
            /\ n \in mask /\ what = "arrival" /\ n \in Present => n \in Present'
        BY <3>1
      <3>3. QED
        BY <2>1, <3>1, <3>2, FollowsTold
    <2>6. QED
      BY <1>4, <2>3, <2>4, <2>5 DEF DrivesInv
  <1>5. QED
    BY <1>1, <1>2, <1>3, <1>4

LEMMA AttachKeeps == DrivesInv /\ Attach => DrivesInv'
  <1>. SUFFICES ASSUME DrivesInv, Attach PROVE DrivesInv'
    OBVIOUS
  <1>1. PICK mask \in (SUBSET {n \in Drives : attached[n] = Absent}) \ {{ }}, k \in DriveKinds :
          /\ attached' = [n \in Drives |-> IF n \in mask THEN k ELSE attached[n]]
          /\ Tell("arrival", mask)
    BY DEF Attach
  <1>2. UNCHANGED <<host, view, listed>>
    BY DEF Attach
  <1>3. mask \in SUBSET Drives /\ mask # {}
    <2>1. \A m \in mask : m \in {n \in Drives : attached[n] = Absent}
      OBVIOUS
    <2>2. mask # {}
      OBVIOUS
    <2>3. QED
      BY <2>1, <2>2
  <1>4. k \in Kinds
    BY WindowConstants DEF Kinds
  <1>5. attached \in [Drives -> Kinds \cup {Absent}]
    BY DEF DrivesInv, DriveTypes
  <1>6. attached' \in [Drives -> Kinds \cup {Absent}]
    BY <1>1, <1>4, <1>5
  <1>7. \A n \in Drives \ mask : attached'[n] = attached[n]
    BY <1>1
  <1>8. \A n \in mask : n \notin Present
    <2>1. \A n \in mask : attached[n] = Absent
      OBVIOUS
    <2>2. QED
      BY <2>1, AbsentFails DEF Present
  <1>9. QED
    BY <1>1, <1>2, <1>3, <1>6, <1>7, <1>8, Told

LEMMA DetachKeeps == DrivesInv /\ Detach => DrivesInv'
  <1>. SUFFICES ASSUME DrivesInv, Detach PROVE DrivesInv'
    OBVIOUS
  <1>1. PICK mask \in (SUBSET {n \in Drives : attached[n] # Absent}) \ {{ }} :
          /\ attached' = [n \in Drives |-> IF n \in mask THEN Absent ELSE attached[n]]
          /\ Tell("removal", mask)
    BY DEF Detach
  <1>2. UNCHANGED <<host, view, listed>>
    BY DEF Detach
  <1>3. mask \in SUBSET Drives /\ mask # {}
    <2>1. \A m \in mask : m \in {n \in Drives : attached[n] # Absent}
      OBVIOUS
    <2>2. mask # {}
      OBVIOUS
    <2>3. QED
      BY <2>1, <2>2
  <1>4. attached \in [Drives -> Kinds \cup {Absent}]
    BY DEF DrivesInv, DriveTypes
  <1>5. attached' \in [Drives -> Kinds \cup {Absent}]
    BY <1>1, <1>4
  <1>6. /\ \A n \in Drives \ mask : attached'[n] = attached[n]
        /\ \A n \in mask : attached'[n] = Absent
    BY <1>1, <1>3
  <1>7. QED
    BY <1>1, <1>2, <1>3, <1>5, <1>6, Told

LEMMA AnnounceKeeps == DrivesInv /\ Announce => DrivesInv'
  <1>. SUFFICES ASSUME DrivesInv, Announce PROVE DrivesInv'
    OBVIOUS
  <1>1. PICK n \in Drives :
          /\ attached[n] # Absent
          /\ attached' = [attached EXCEPT ![n].ready = IF @ = "no" THEN "yes" ELSE @]
          /\ Tell("arrival", {n})
    BY DEF Announce
  <1>2. host = "Windows" /\ UNCHANGED <<host, view, listed>>
    BY DEF Announce
  <1>3. attached \in [Drives -> Kinds \cup {Absent}]
    BY DEF DrivesInv, DriveTypes
  <1>4. attached[n] \in Kinds
    BY <1>1, <1>3
  <1> DEFINE k == attached[n]
  <1> DEFINE r == IF k.ready = "no" THEN "yes" ELSE k.ready
  <1> DEFINE l == [type |-> k.type, bus |-> k.bus, media |-> k.media, ready |-> r]
  <1>5. attached'[n] = l /\ \A m \in Drives \ {n} : attached'[m] = attached[m]
    <2>1. [k EXCEPT !.ready = r] = l
      BY <1>4 DEF Kinds
    <2>2. attached' = [attached EXCEPT ![n] = [k EXCEPT !.ready = r]]
      BY <1>1
    <2>3. QED
      BY <1>3, <2>1, <2>2
  <1>6. l \in Kinds
    BY <1>4 DEF Kinds
  <1>7. attached' \in [Drives -> Kinds \cup {Absent}]
    <2>1. \A m \in Drives : attached'[m] \in Kinds \cup {Absent}
      BY <1>3, <1>5, <1>6
    <2>2. attached' = [m \in Drives |-> attached'[m]]
      BY <1>1, <1>3
    <2>3. QED
      BY <2>1, <2>2
  <1>8. n \in Present => n \in Present'
    <2>1. checkDriveType(k) => checkDriveType(l)
      BY DEF checkDriveType, GetMediaType, GetDisksProperty
    <2>2. QED
      BY <1>2, <1>5, <2>1 DEF Present
  <1>. HIDE DEF k, r, l
  <1>9. QED
    BY <1>1, <1>2, <1>5, <1>7, <1>8, Told

(* What findText does not find is not listed: here the list is injective,  *)
(* so that the first of a name is the only one.                            *)
LEMMA NotFound ==
    ASSUME NEW n \in Drives, listed \in Seq(Drives), IsInjective(listed), FoundAt(n) = {}
    PROVE  n \notin Range(listed)
  <1>. SUFFICES ASSUME NEW i \in 1 .. Len(listed), listed[i] = n PROVE FALSE
    BY Listed
  <1>1. \A k, l \in 1 .. Len(listed) : listed[k] = listed[l] => k = l
    BY Listed
  <1>2. DOMAIN listed = 1 .. Len(listed) /\ Len(listed) \in Nat
    OBVIOUS
  <1>3. \A j \in 1 .. i - 1 : j \in 1 .. Len(listed) /\ j # i
    BY <1>2
  <1>4. i \in FoundAt(n)
    BY <1>1, <1>2, <1>3 DEF FoundAt
  <1>5. QED
    BY <1>4

(* DeviceArrival and DeviceRemoveComplete.                                 *)
LEMMA NoticeTaken ==
    ASSUME DrivesInv, NEW what \in {"arrival", "removal"}, Notice(what)
    PROVE  /\ host = "Windows" /\ notices # << >> /\ notices[1][1] = what
           /\ notices[1][2] \in SUBSET Drives /\ notices[1][2] # {}
           /\ DriveTypes /\ Masks' /\ notices' = Tail(notices)
           /\ notices' \in Seq({"arrival", "removal", "directory"} \X SUBSET Drives)
           /\ UNCHANGED <<host, view, attached>> /\ view = "shown"
  <1>1. /\ notices # << >> /\ notices[1][1] = what /\ notices' = Tail(notices)
        /\ UNCHANGED <<host, view, attached>> /\ view = "shown"
    BY DEF Notice
  <1>2. DriveTypes /\ Masks
    BY DEF DrivesInv
  <1>3. 1 \in 1 .. Len(notices) /\ Len(notices) \in Nat
    BY <1>1, <1>2 DEF DriveTypes
  <1>4. host = "Windows" /\ notices[1][2] # {}
    BY <1>1, <1>2, <1>3 DEF Masks, DriveTypes
  <1>5. notices[1][2] \in SUBSET Drives
    BY <1>2, <1>3 DEF DriveTypes
  <1>6. /\ notices' \in Seq({"arrival", "removal", "directory"} \X SUBSET Drives)
        /\ Len(notices') = Len(notices) - 1
        /\ \A k \in 1 .. Len(notices) - 1 : notices'[k] = notices[k + 1]
    <2> DEFINE Note == {"arrival", "removal", "directory"} \X SUBSET Drives
    <2>1. notices \in Seq(Note)
      BY <1>2 DEF DriveTypes
    <2>. HIDE DEF Note
    <2>2. notices' \in Seq(Note) /\ Len(notices') = Len(notices) - 1
      BY <1>1, <2>1
    <2>3. \A k \in 1 .. Len(notices) - 1 : notices'[k] = notices[k + 1]
      BY <1>1, <2>1
    <2>4. QED
      BY <2>2, <2>3 DEF Note
  <1>7. Masks'
    <2>1. \A k \in 1 .. Len(notices') :
             k + 1 \in 1 .. Len(notices) /\ notices'[k] = notices[k + 1]
      BY <1>3, <1>6
    <2>2. QED
      BY <1>1, <1>2, <1>4, <2>1 DEF Masks
  <1>8. QED
    BY <1>1, <1>2, <1>4, <1>5, <1>6, <1>7, Zenon

LEMMA ArrivalKeeps == DrivesInv /\ DeviceArrival => DrivesInv'
  <1>. SUFFICES ASSUME DrivesInv, DeviceArrival PROVE DrivesInv'
    OBVIOUS
  <1> DEFINE mask == notices[1][2]
  <1> DEFINE n == FirstDriveFromMask(mask)
  <1>1. /\ Notice("arrival")
        /\ listed' = IF Adds(n) THEN Append(listed, n) ELSE listed
        /\ overlooked' = overlooked \cup (mask \ {n})
    BY DEF DeviceArrival
  <1>2. /\ host = "Windows" /\ notices # << >> /\ notices[1][1] = "arrival"
        /\ mask \in SUBSET Drives /\ mask # {}
        /\ DriveTypes /\ Masks' /\ notices' = Tail(notices)
        /\ notices' \in Seq({"arrival", "removal", "directory"} \X SUBSET Drives)
        /\ UNCHANGED <<host, view, attached>> /\ view = "shown"
    BY <1>1, NoticeTaken, Zenon
  <1>3. n \in mask
    BY <1>2, FirstOfMask
  <1>. HIDE DEF n
  <1>4. n \in Drives /\ listed \in Seq(Drives) /\ IsInjective(listed)
    BY <1>2, <1>3 DEF DrivesInv, DriveTypes
  <1>5. /\ listed' \in Seq(Drives) /\ IsInjective(listed')
        /\ \A m \in Drives : m \in Range(listed') <=>
              m \in Range(listed) \/ (m = n /\ checkDriveType(attached[n]))
    <2>1. CASE Adds(n)
      BY <1>1, <1>4, <2>1, Lengthened DEF Adds
    <2>2. CASE ~Adds(n)
      BY <1>1, <1>4, <2>2 DEF Adds
    <2>3. QED
      BY <2>1, <2>2
  <1>6. n \in Present <=> checkDriveType(attached[n])
    BY <1>2, <1>4 DEF Present
  <1>7. overlooked' \subseteq Drives
    BY <1>1, <1>2 DEF DriveTypes
  <1>8. DriveTypes'
    BY <1>2, <1>5, <1>7 DEF DriveTypes
  <1>9. ASSUME NEW m \in Drives \ overlooked' PROVE Follows(m)'
    <2>1. m \in Drives /\ m \notin overlooked /\ (m \in mask => m = n)
      BY <1>1, <1>9
    <2>2. Follows(m)
      BY <1>2, <2>1 DEF DrivesInv
    <2>3. /\ m \notin mask => (m \in Range(listed') <=> m \in Range(listed))
          /\ m \in mask => (m \in Range(listed') <=> m \in Range(listed) \/ m \in Present)
      BY <1>3, <1>5, <1>6, <2>1
    <2>4. QED
      BY <1>2, <2>1, <2>2, <2>3, FollowsHeard
  <1>10. QED
    BY <1>2, <1>5, <1>8, <1>9 DEF DrivesInv

LEMMA RemovalKeeps == DrivesInv /\ DeviceRemoveComplete => DrivesInv'
  <1>. SUFFICES ASSUME DrivesInv, DeviceRemoveComplete PROVE DrivesInv'
    OBVIOUS
  <1> DEFINE mask == notices[1][2]
  <1> DEFINE n == FirstDriveFromMask(mask)
  <1>1. /\ Notice("removal")
        /\ (FoundAt(n) = {} /\ UNCHANGED listed) \/ \E i \in FoundAt(n) : listed' = RemoveAt(listed, i)
        /\ overlooked' = overlooked \cup (mask \ {n})
    BY DEF DeviceRemoveComplete
  <1>2. /\ host = "Windows" /\ notices # << >> /\ notices[1][1] = "removal"
        /\ mask \in SUBSET Drives /\ mask # {}
        /\ DriveTypes /\ Masks' /\ notices' = Tail(notices)
        /\ notices' \in Seq({"arrival", "removal", "directory"} \X SUBSET Drives)
        /\ UNCHANGED <<host, view, attached>> /\ view = "shown"
    BY <1>1, NoticeTaken, Zenon
  <1>3. n \in mask
    BY <1>2, FirstOfMask
  <1>. HIDE DEF n
  <1>4. n \in Drives /\ listed \in Seq(Drives) /\ IsInjective(listed)
    BY <1>2, <1>3 DEF DrivesInv, DriveTypes
  <1>5. /\ listed' \in Seq(Drives) /\ IsInjective(listed')
        /\ Range(listed') = Range(listed) \ {n}
    <2>1. CASE FoundAt(n) = {} /\ UNCHANGED listed
      <3>1. n \notin Range(listed)
        BY <1>4, <2>1, NotFound
      <3>2. QED
        BY <1>4, <2>1, <3>1
    <2>2. ASSUME NEW i \in FoundAt(n), listed' = RemoveAt(listed, i)
          PROVE  /\ listed' \in Seq(Drives) /\ IsInjective(listed')
                 /\ Range(listed') = Range(listed) \ {n}
      <3>1. i \in 1 .. Len(listed) /\ listed[i] = n
        BY <1>4 DEF FoundAt
      <3>2. QED
        BY <1>4, <2>2, <3>1, Shortened
    <2>3. QED
      BY <1>1, <2>1, <2>2
  <1>6. overlooked' \subseteq Drives
    BY <1>1, <1>2 DEF DriveTypes
  <1>7. DriveTypes'
    BY <1>2, <1>5, <1>6 DEF DriveTypes
  <1>8. ASSUME NEW m \in Drives \ overlooked' PROVE Follows(m)'
    <2>1. m \in Drives /\ m \notin overlooked /\ (m \in mask => m = n)
      BY <1>1, <1>8
    <2>2. Follows(m)
      BY <1>2, <2>1 DEF DrivesInv
    <2>3. /\ m \notin mask => (m \in Range(listed') <=> m \in Range(listed))
          /\ m \in mask => m \notin Range(listed')
      BY <1>3, <1>5, <2>1
    <2>4. QED
      BY <1>2, <2>1, <2>2, <2>3, FollowsHeard
  <1>9. QED
    BY <1>2, <1>5, <1>7, <1>8 DEF DrivesInv

(* A list that is made anew.                                               *)
LEMMA ListMade ==
    ASSUME NEW list \in getLogicalDrives
    PROVE  list \in Seq(Drives) /\ Range(list) = Present /\ IsInjective(list)
  <1>1. /\ list \in [1 .. Cardinality(Present) -> Present] /\ Range(list) = Present
        /\ \A i, j \in DOMAIN list : i < j => list[i] < list[j]
    BY DEF getLogicalDrives
  <1>2. Present \subseteq Drives
    BY DEF Present
  <1>3. Cardinality(Present) \in Nat
    BY <1>2, WindowConstants, FS_Subset, FS_CardinalityType
  <1>4. \A n \in Drives : n \in Nat
    BY WindowConstants
  <1>5. list \in Seq(Drives)
    BY <1>1, <1>2, <1>3
  <1>6. \A i, j \in DOMAIN list : list[i] = list[j] => i = j
    <2>. SUFFICES ASSUME NEW i \in DOMAIN list, NEW j \in DOMAIN list, list[i] = list[j], i # j
                  PROVE  FALSE
      OBVIOUS
    <2>1. list[i] \in Nat /\ list[j] \in Nat
      BY <1>1, <1>2, <1>4
    <2>2. i \in Int /\ j \in Int
      BY <1>1, <1>3
    <2>3. i < j \/ j < i
      BY <2>2
    <2>4. QED
      BY <1>1, <2>1, <2>3
  <1>7. QED
    BY <1>1, <1>5, <1>6 DEF IsInjective

LEMMA FirstListed ==
    ASSUME NEW S, NEW s \in Seq(S)
    PROVE  FirstOf(s) \in Range(s) \cup {0}
  <1>1. CASE s = << >>
    BY <1>1 DEF FirstOf
  <1>2. CASE s # << >>
    <2>1. 1 \in 1 .. Len(s)
      BY <1>2
    <2>2. QED
      BY <1>2, <2>1, Listed DEF FirstOf
  <1>3. QED
    BY <1>1, <1>2

LEMMA DirectoryKeeps == DrivesInv /\ check_usb_device => DrivesInv'
  <1>. SUFFICES ASSUME DrivesInv, check_usb_device PROVE DrivesInv'
    OBVIOUS
  <1>1. /\ notices # << >> /\ notices[1][1] = "directory" /\ notices' = Tail(notices)
        /\ listed' \in getLogicalDrives /\ overlooked' = { }
        /\ UNCHANGED <<host, view, attached>> /\ view = "shown"
    BY DEF check_usb_device, Notice
  <1>2. DriveTypes /\ Masks
    BY DEF DrivesInv
  <1>3. 1 \in 1 .. Len(notices) /\ Len(notices) \in Nat
    BY <1>1, <1>2 DEF DriveTypes
  <1>4. host = "Linux"
    BY <1>1, <1>2, <1>3 DEF Masks, DriveTypes
  <1>5. listed' \in Seq(Drives) /\ Range(listed') = Present /\ IsInjective(listed')
    BY <1>1, ListMade
  <1>6. Present' = Present
    BY <1>1 DEF Present
  <1>7. /\ notices' \in Seq({"arrival", "removal", "directory"} \X SUBSET Drives)
        /\ Len(notices') = Len(notices) - 1
        /\ \A k \in 1 .. Len(notices) - 1 : notices'[k] = notices[k + 1]
    <2> DEFINE Note == {"arrival", "removal", "directory"} \X SUBSET Drives
    <2>1. notices \in Seq(Note)
      BY <1>2 DEF DriveTypes
    <2>. HIDE DEF Note
    <2>2. notices' \in Seq(Note) /\ Len(notices') = Len(notices) - 1
      BY <1>1, <2>1
    <2>3. \A k \in 1 .. Len(notices) - 1 : notices'[k] = notices[k + 1]
      BY <1>1, <2>1
    <2>4. QED
      BY <2>2, <2>3 DEF Note
  <1>8. Masks'
    <2>1. \A k \in 1 .. Len(notices') :
             k + 1 \in 1 .. Len(notices) /\ notices'[k] = notices[k + 1]
      BY <1>3, <1>7
    <2>2. QED
      BY <1>1, <1>2, <1>4, <2>1 DEF Masks
  <1>9. DriveTypes'
    BY <1>1, <1>2, <1>5, <1>7 DEF DriveTypes
  <1>10. QED
    BY <1>1, <1>4, <1>5, <1>6, <1>8, <1>9 DEF DrivesInv

LEMMA SeenStays == DrivesInv /\ UNCHANGED drivesSeen => DrivesInv'
  <1>. SUFFICES ASSUME DrivesInv, UNCHANGED drivesSeen PROVE DrivesInv'
    OBVIOUS
  <1>1. UNCHANGED <<host, view, attached, listed, notices, overlooked>>
    BY DEF drivesSeen
  <1>2. DriveTypes' /\ Masks' /\ IsInjective(listed)'
    BY <1>1 DEF DrivesInv, DriveTypes, Masks, IsInjective
  <1>3. ASSUME host = "Windows", NEW n \in Drives \ overlooked PROVE Follows(n)'
    BY <1>1, <1>3, FollowsStays DEF DrivesInv
  <1>4. Present' = Present
    BY <1>1 DEF Present
  <1>5. QED
    BY <1>1, <1>2, <1>3, <1>4 DEF DrivesInv

LEMMA ShowKeeps == DrivesInv /\ ShowWindow => DrivesInv'
  <1>. SUFFICES ASSUME DrivesInv, ShowWindow PROVE DrivesInv'
    OBVIOUS
  <1>1. view' = "shown" /\ UNCHANGED <<host, attached, listed, notices, overlooked>>
    BY DEF ShowWindow, drivesList
  <1>2. DriveTypes' /\ Masks' /\ IsInjective(listed)'
    BY <1>1 DEF DrivesInv, DriveTypes, Masks, IsInjective
  <1>3. ASSUME host = "Windows", NEW n \in Drives \ overlooked PROVE Follows(n)'
    BY <1>1, <1>3, FollowsStays DEF DrivesInv
  <1>4. Present' = Present
    BY <1>1 DEF Present
  <1>5. QED
    BY <1>1, <1>2, <1>3, <1>4 DEF DrivesInv

(* The list of drives through every step of the window.                    *)
LEMMA DrivesStep == DrivesInv /\ WindowNext => DrivesInv'
  <1>. SUFFICES ASSUME DrivesInv, WindowNext PROVE DrivesInv'
    OBVIOUS
  <1>1. \/ Attach \/ Detach \/ Announce
        \/ DeviceArrival \/ DeviceRemoveComplete \/ check_usb_device
        \/ ShowWindow \/ UNCHANGED drivesSeen
    BY DEF WindowNext, drivesSeen, Clickable, drivesList, PickDrive, PickType, Browse,
           BrowseLinux, DropFile, EditCredentials, ClickedSearch, WindowStart, WindowStop
  <1>2. QED
    BY <1>1, AttachKeeps, DetachKeeps, AnnounceKeeps, ArrivalKeeps, RemovalKeeps,
       DirectoryKeeps, ShowKeeps, SeenStays, Zenon

(* The drive that Start exports.                                           *)
LEMMA PickArrival == DrivesInv /\ PickInv /\ DeviceArrival => PickInv'
  <1>. SUFFICES ASSUME DrivesInv, PickInv, DeviceArrival PROVE PickInv'
    OBVIOUS
  <1> DEFINE n == FirstDriveFromMask(notices[1][2])
  <1>1. /\ listed' = IF Adds(n) THEN Append(listed, n) ELSE listed
        /\ selected' = IF Adds(n) /\ listed = << >> THEN n ELSE selected
        /\ UNCHANGED <<host, picked>>
    BY DEF DeviceArrival, Notice
  <1>2. n \in Drives
    <2>1. notices[1][2] \in SUBSET Drives /\ notices[1][2] # {}
      BY NoticeTaken DEF DeviceArrival
    <2>2. QED
      BY <2>1, FirstOfMask
  <1>. HIDE DEF n
  <1>3. listed \in Seq(Drives) /\ Append(listed, n) \in Seq(Drives)
    BY <1>2 DEF DrivesInv, DriveTypes
  <1>4. CASE Adds(n)
    <2>1. Range(listed') = Range(listed) \cup {n}
      BY <1>1, <1>2, <1>3, <1>4, Lengthened
    <2>2. CASE listed = << >>
      <3>1. Range(listed) = {}
        BY <1>3, <2>2, Listed
      <3>2. host = "Windows" => picked = 0
        BY <3>1 DEF PickInv, PickKept
      <3>3. QED
        BY <1>1, <1>4, <2>1, <2>2, <3>2 DEF PickInv, PickKept
    <2>3. CASE listed # << >>
      BY <1>1, <2>1, <2>3 DEF PickInv, PickKept
    <2>4. QED
      BY <2>2, <2>3
  <1>5. CASE ~Adds(n)
    BY <1>1, <1>5 DEF PickInv, PickKept
  <1>6. QED
    BY <1>4, <1>5

LEMMA PickRemoval == DrivesInv /\ PickInv /\ DeviceRemoveComplete => PickInv'
  <1>. SUFFICES ASSUME DrivesInv, PickInv, DeviceRemoveComplete PROVE PickInv'
    OBVIOUS
  <1> DEFINE n == FirstDriveFromMask(notices[1][2])
  <1>1. /\ \/ FoundAt(n) = {} /\ UNCHANGED <<listed, selected>>
           \/ \E i \in FoundAt(n) :
                 /\ listed' = RemoveAt(listed, i)
                 /\ selected' = IF selected # n THEN selected
                                ELSE IF i = 1 THEN 0 ELSE listed[i - 1]
        /\ picked' = IF picked = n THEN 0 ELSE picked
        /\ UNCHANGED host
    BY DEF DeviceRemoveComplete, Notice
  <1>. HIDE DEF n
  <1>2. listed \in Seq(Drives) /\ IsInjective(listed)
    BY DEF DrivesInv, DriveTypes
  <1>3. \A i, j \in 1 .. Len(listed) : listed[i] = listed[j] => i = j
    BY <1>2, Listed
  <1>4. CASE FoundAt(n) = {} /\ UNCHANGED <<listed, selected>>
    BY <1>1, <1>4 DEF PickInv, PickKept
  <1>5. ASSUME NEW i \in FoundAt(n), listed' = RemoveAt(listed, i),
               selected' = IF selected # n THEN selected
                           ELSE IF i = 1 THEN 0 ELSE listed[i - 1]
        PROVE  PickInv'
    <2>1. i \in 1 .. Len(listed) /\ listed[i] = n /\ DOMAIN listed = 1 .. Len(listed)
      BY <1>2 DEF FoundAt
    <2>2. Range(listed') = Range(listed) \ {n}
      BY <1>2, <1>5, <2>1, Shortened
    <2>3. selected' \in Range(listed') \cup {0}
      <3>1. CASE selected # n
        BY <1>5, <2>2, <3>1 DEF PickInv
      <3>2. CASE selected = n /\ i = 1
        BY <1>5, <3>2
      <3>3. CASE selected = n /\ i # 1
        <4>1. i - 1 \in 1 .. Len(listed) /\ i - 1 # i
          BY <1>2, <2>1, <3>3
        <4>2. listed[i - 1] \in Range(listed) /\ listed[i - 1] # n
          BY <1>2, <1>3, <2>1, <4>1, Listed
        <4>3. QED
          BY <1>5, <2>2, <3>3, <4>2
      <3>4. QED
        BY <3>1, <3>2, <3>3
    <2>4. PickKept'
      BY <1>1, <1>5, <2>2 DEF PickInv, PickKept
    <2>5. QED
      BY <2>3, <2>4 DEF PickInv
  <1>6. QED
    BY <1>1, <1>4, <1>5

LEMMA PickDirectory == DrivesInv /\ PickInv /\ check_usb_device => PickInv'
  <1>. SUFFICES ASSUME DrivesInv, PickInv, check_usb_device PROVE PickInv'
    OBVIOUS
  <1>1. /\ notices # << >> /\ notices[1][1] = "directory"
        /\ listed' \in getLogicalDrives /\ selected' = FirstOf(listed')
        /\ UNCHANGED host
    BY DEF check_usb_device, Notice
  <1>2. host = "Linux"
    <2>1. 1 \in 1 .. Len(notices)
      BY <1>1 DEF DrivesInv, DriveTypes
    <2>2. QED
      BY <1>1, <2>1 DEF DrivesInv, DriveTypes, Masks
  <1>3. selected' \in Range(listed') \cup {0}
    BY <1>1, ListMade, FirstListed
  <1>4. QED
    BY <1>1, <1>2, <1>3 DEF PickInv, PickKept

LEMMA PickStep == DrivesInv /\ PickInv /\ WindowNext => PickInv'
  <1>. SUFFICES ASSUME DrivesInv, PickInv, WindowNext PROVE PickInv'
    OBVIOUS
  <1>1. \/ DeviceArrival \/ DeviceRemoveComplete \/ check_usb_device
        \/ PickDrive \/ UNCHANGED <<host, listed, selected, picked>>
    BY DEF WindowNext, Clickable, drivesList, Attach, Detach, Announce, ShowWindow, PickType,
           Browse, BrowseLinux, DropFile, EditCredentials, ClickedSearch, WindowStart, WindowStop
  <1>2. CASE PickDrive
    BY <1>2 DEF PickDrive, Clickable, PickInv, PickKept
  <1>3. CASE UNCHANGED <<host, listed, selected, picked>>
    BY <1>3 DEF PickInv, PickKept
  <1>4. QED
    BY <1>1, <1>2, <1>3, PickArrival, PickRemoval, PickDirectory, Zenon

(* What is exported, and when.                                             *)
LEMMA TypesMade ==
    ASSUME NEW drive \in {<< >>, <<"Device">>}, NEW image \in {<< >>, <<"Image">>}
    PROVE  /\ drive \o image \in Seq({"Device", "Image"})
           /\ drive # << >> => "Device" \in Range(drive \o image)
  <1> DEFINE all == drive \o image
  <1>1. /\ all \in Seq({"Device", "Image"}) /\ Len(all) = Len(drive) + Len(image)
        /\ drive # << >> => all[1] = "Device"
    <2>1. drive \in Seq({"Device", "Image"}) /\ image \in Seq({"Device", "Image"})
      <3>1. << >> \in Seq({"Device", "Image"})
        OBVIOUS
      <3>2. <<"Device">> \in Seq({"Device", "Image"}) /\ <<"Image">> \in Seq({"Device", "Image"})
        OBVIOUS
      <3>3. QED
        BY <3>1, <3>2, Zenon
    <2>2. all \in Seq({"Device", "Image"}) /\ Len(all) = Len(drive) + Len(image)
      BY <2>1, Joined, Zenon
    <2>3. ASSUME drive # << >> PROVE all[1] = "Device"
      <3>1. Len(drive) = 1 /\ drive[1] = "Device" /\ Len(image) \in Nat
        BY <2>3
      <3>2. all[1] = drive[1]
        BY <2>1, <3>1
      <3>3. QED
        BY <3>1, <3>2
    <2>4. QED
      BY <2>2, <2>3
  <1>2. drive # << >> => 1 \in 1 .. Len(all)
    <2>1. drive # << >> => Len(drive) = 1
      OBVIOUS
    <2>2. Len(image) \in Nat
      OBVIOUS
    <2>3. QED
      BY <1>1, <2>1, <2>2
  <1>. HIDE DEF all
  <1>3. drive # << >> => "Device" \in Range(all)
    BY <1>1, <1>2, Listed
  <1>4. QED
    BY <1>1, <1>3 DEF all

LEMMA TypesChecked ==
    ASSUME check_devie_file
    PROVE  types' \in Seq({"Device", "Image"}) /\ currentType' \in Range(types') \cup {"none"}
  <1> DEFINE drive == IF listed # << >> THEN <<"Device">> ELSE << >>
  <1> DEFINE image == IF imageFile' # "none" THEN <<"Image">> ELSE << >>
  <1>1. types' = drive \o image /\ currentType' = IF drive = << >> THEN "none" ELSE "Device"
    BY DEF check_devie_file
  <1>2. drive \in {<< >>, <<"Device">>} /\ image \in {<< >>, <<"Image">>}
    OBVIOUS
  <1>. HIDE DEF drive, image
  <1>3. QED
    BY <1>1, <1>2, TypesMade

LEMMA ChoiceStep == ChoiceInv /\ WindowNext => ChoiceInv'
  <1>. SUFFICES ASSUME ChoiceInv, WindowNext PROVE ChoiceInv'
    OBVIOUS
  <1>1. \/ PickType \/ Browse \/ BrowseLinux \/ EditCredentials
        \/ ClickedSearch \/ WindowStart \/ WindowStop
        \/ UNCHANGED <<host, controls>>
    BY DEF WindowNext, Clickable, controls, Attach, Detach, Announce, DeviceArrival,
           DeviceRemoveComplete, check_usb_device, Notice, ShowWindow, PickDrive, DropFile
  <1>2. CASE PickType
    BY <1>2 DEF PickType, Clickable, ChoiceInv, StartAfterSearch
  <1>3. CASE Browse
    BY <1>3, TypesChecked DEF Browse, Clickable, ChoiceInv, StartAfterSearch
  <1>4. CASE BrowseLinux
    <2>1. host = "Linux" /\ currentType' = "Image" /\ UNCHANGED <<host, types, startEnabled, searchDone, exporting>>
      BY <1>4 DEF BrowseLinux, Clickable
    <2>2. types = <<"Device", "Image">>
      BY <2>1 DEF ChoiceInv
    <2>3. types \in Seq({"Device", "Image"}) /\ 2 \in 1 .. Len(types) /\ types[2] = "Image"
      BY <2>2
    <2>4. "Image" \in Range(types)
      BY <2>3, Listed
    <2>5. QED
      BY <2>1, <2>4 DEF ChoiceInv, StartAfterSearch
  <1>5. CASE EditCredentials
    <2>1. UNCHANGED <<host, types, currentType, searchDone, exporting>>
      BY <1>5 DEF EditCredentials, Clickable
    <2>2. startEnabled' => searchDone'
      BY <1>5, Zenon DEF EditCredentials, setReadWriteButton
    <2>3. QED
      BY <2>1, <2>2 DEF ChoiceInv, StartAfterSearch
  <1>6. CASE ClickedSearch
    <2>1. searchDone' = TRUE /\ UNCHANGED <<host, exporting>>
      BY <1>6 DEF ClickedSearch, Clickable
    <2>2. CASE host = "Windows"
      BY <1>6, <2>1, <2>2, TypesChecked DEF ClickedSearch, ChoiceInv, StartAfterSearch
    <2>3. CASE host # "Windows"
      BY <1>6, <2>1, <2>3 DEF ClickedSearch, ChoiceInv, StartAfterSearch
    <2>4. QED
      BY <2>2, <2>3
  <1>7. CASE WindowStart
    BY <1>7 DEF WindowStart, Clickable, ChoiceInv, StartAfterSearch
  <1>8. CASE WindowStop
    BY <1>8 DEF WindowStop, Clickable, ChoiceInv, StartAfterSearch
  <1>9. CASE UNCHANGED <<host, controls>>
    BY <1>9 DEF controls, ChoiceInv, StartAfterSearch
  <1>10. QED
    BY <1>1, <1>2, <1>3, <1>4, <1>5, <1>6, <1>7, <1>8, <1>9, Zenon

(* The first list holds what is there, and nothing waits.                  *)
THEOREM ListInvInit == ToolsInit => ListInv
  <1>. SUFFICES ASSUME ToolsInit PROVE ListInv
    OBVIOUS
  <1>1. host \in {"Windows", "Linux"}
    BY DEF ToolsInit, SearchInit
  <1>2. /\ view = "starting" /\ attached \in [Drives -> DriveKinds \cup {Absent}]
        /\ listed \in getLogicalDrives /\ selected = FirstOf(listed)
        /\ notices = << >> /\ startEnabled = FALSE /\ exporting = "no"
        /\ overlooked = { } /\ picked = 0
    BY DEF ToolsInit, WindowInit
  <1>3. listed \in Seq(Drives) /\ Range(listed) = Present /\ IsInjective(listed)
    BY <1>2, ListMade
  <1>4. DriveKinds \subseteq Kinds
    BY WindowConstants DEF Kinds
  <1>5. DriveTypes
    <2>1. attached \in [Drives -> Kinds \cup {Absent}]
      BY <1>2, <1>4
    <2>2. QED
      BY <1>1, <1>2, <1>3, <2>1 DEF DriveTypes
  <1>6. DrivesInv
    <2>1. \A n \in Drives : Pending(n) = {}
      BY <1>2 DEF Pending
    <2>2. \A n \in Drives : Follows(n)
      BY <1>3, <2>1 DEF Follows
    <2>3. Masks
      BY <1>2 DEF Masks
    <2>4. QED
      BY <1>2, <1>3, <1>5, <2>2, <2>3 DEF DrivesInv
  <1>7. PickInv
    BY <1>2, <1>3, FirstListed DEF PickInv, PickKept
  <1>8. ChoiceInv
    <2>1. StartAfterSearch
      BY <1>2 DEF StartAfterSearch
    <2> DEFINE drive == IF listed # << >> THEN <<"Device">> ELSE << >>
    <2> DEFINE image == IF imageFile # "none" THEN <<"Image">> ELSE << >>
    <2>2. /\ types = IF host = "Linux" THEN <<"Device", "Image">> ELSE drive \o image
          /\ currentType = IF types # << >> /\ types[1] = "Device" THEN "Device" ELSE "none"
      BY DEF ToolsInit, WindowInit
    <2>3. drive \in {<< >>, <<"Device">>} /\ image \in {<< >>, <<"Image">>}
      OBVIOUS
    <2>. HIDE DEF drive, image
    <2>4. types \in Seq({"Device", "Image"}) /\ (host = "Linux" => types = <<"Device", "Image">>)
      <3>1. CASE host = "Linux"
        BY <2>2, <3>1
      <3>2. CASE host # "Linux"
        BY <2>2, <2>3, <3>2, TypesMade
      <3>3. QED
        BY <3>1, <3>2
    <2>5. currentType \in Range(types) \cup {"none"}
      <3>1. CASE types # << >> /\ types[1] = "Device"
        <4>1. 1 \in 1 .. Len(types)
          BY <2>4, <3>1
        <4>2. "Device" \in Range(types)
          BY <2>4, <3>1, <4>1, Listed
        <4>3. QED
          BY <2>2, <3>1, <4>2
      <3>2. CASE ~(types # << >> /\ types[1] = "Device")
        BY <2>2, <3>2
      <3>3. QED
        BY <3>1, <3>2
    <2>6. QED
      BY <1>2, <2>1, <2>4, <2>5 DEF ChoiceInv
  <1>9. QED
    BY <1>6, <1>7, <1>8 DEF ListInv

(* The window changes by its own steps only; a search changes nothing that *)
(* the list of drives rests on.                                            *)
THEOREM ListStep ==
    ListInv /\ [ToolsNext]_<<mailbox, debug, vdm, bmcSearch, exportWindow, tool>> => ListInv'
  <1>. SUFFICES ASSUME ListInv, [ToolsNext]_<<mailbox, debug, vdm, bmcSearch, exportWindow, tool>>
                PROVE  ListInv'
    OBVIOUS
  <1>1. WindowNext \/ UNCHANGED exportWindow
    BY DEF ToolsNext
  <1>2. CASE WindowNext
    BY <1>2, DrivesStep, PickStep, ChoiceStep, Zenon DEF ListInv
  <1>3. CASE UNCHANGED exportWindow
    <2>1. /\ UNCHANGED drivesSeen /\ UNCHANGED <<selected, picked>>
          /\ UNCHANGED controls
      BY <1>3 DEF exportWindow, drivesSeen, drivesList, form, controls
    <2>2. DrivesInv'
      BY <2>1, SeenStays DEF ListInv
    <2>3. PickInv'
      BY <2>1 DEF ListInv, PickInv, PickKept, drivesSeen
    <2>4. ChoiceInv'
      BY <2>1 DEF ListInv, ChoiceInv, StartAfterSearch, drivesSeen, controls
    <2>5. QED
      BY <2>2, <2>3, <2>4 DEF ListInv
  <1>4. QED
    BY <1>1, <1>2, <1>3

(* When nothing waits, the list is what is there.                          *)
LEMMA ListInvTrue == ListInv => ListTrue
  <1>. SUFFICES ASSUME ListInv, notices = << >> PROVE ListTrue
    BY DEF ListTrue
  <1>1. DrivesInv /\ DriveTypes /\ host \in {"Windows", "Linux"} /\ IsInjective(listed)
    BY DEF ListInv, DrivesInv, DriveTypes
  <1>2. Range(listed) \subseteq Drives /\ Present \subseteq Drives
    BY <1>1, Listed DEF DriveTypes, Present
  <1>3. CASE host = "Linux"
    BY <1>1, <1>3 DEF DrivesInv, ListTrue
  <1>4. CASE host = "Windows"
    <2>1. \A n \in Drives \ overlooked : n \in Range(listed) <=> n \in Present
      <3>1. \A n \in Drives : Pending(n) = {}
        BY DEF Pending
      <3>2. QED
        BY <1>1, <1>4, <3>1 DEF DrivesInv, Follows
    <2>2. Range(listed) \ overlooked = Present \ overlooked
      BY <1>2, <2>1
    <2>3. \A n \in Range(listed) \ overlooked : attached[n].bus # "sata"
      BY <1>4, <2>2 DEF Present, checkDriveType
    <2>4. QED
      BY <1>1, <2>2, <2>3 DEF ListTrue
  <1>5. QED
    BY <1>1, <1>3, <1>4

(* WindowTrue: a search asks every address of its range once and lists     *)
(* those that answer; the window lists the drives that are there; a drive  *)
(* that the user chose stays the one that is exported; and nothing is      *)
(* exported before a search.  For every set of drives, kinds and ranges.   *)
THEOREM WindowCorrect == ToolsSpec => []WindowTrue
  <1>1. SearchInv /\ ListInv => WindowTrue
    BY SearchInvCovers, ListInvTrue DEF WindowTrue, ListInv, PickInv, ChoiceInv
  <1>2. QED
    BY <1>1, SearchInvInit, SearchStep, ListInvInit, ListStep, PTL DEF ToolsSpec

(* TypeOK: every variable of every program keeps its type, no chunk of a   *)
(* file leaves the window, and the words that the driver of vdm-test keeps *)
(* are of packets that were sent.                                          *)
THEOREM ToolsTyped == ToolsSpec => []TypeOK
  <1>1. ASSUME TransferInv, DebugInv, VdmInv, SearchInv, ListInv PROVE TypeOK
    <2>1. MailboxTypes /\ DebugTypes /\ VdmTypes /\ Numbers /\ SearchTypes /\ DriveTypes
      <3>1. MailboxTypes
        BY <1>1 DEF TransferInv
      <3>2. DebugTypes
        BY <1>1 DEF DebugInv
      <3>3. VdmTypes /\ Numbers
        BY <1>1 DEF VdmInv
      <3>4. SearchTypes /\ DriveTypes
        BY <1>1 DEF SearchInv, ListInv, DrivesInv
      <3>5. QED
        BY <3>1, <3>2, <3>3, <3>4
    <2>2. \A k \in DOMAIN fifo : fifo[k][1] \in DOMAIN packets
      <3>1. DOMAIN fifo = 1 .. Len(fifo) /\ DOMAIN packets = 1 .. Len(packets)
        <4> DEFINE Words == Nat \X Nat
        <4>1. fifo \in Seq(Words) /\ packets \in Seq(Nat)
          BY <2>1, Zenon DEF VdmTypes
        <4>. HIDE DEF Words
        <4>2. QED
          BY <4>1
      <3>2. \A k \in 1 .. Len(fifo) : fifo[k][1] \in 1 .. Len(packets)
        BY <1>1 DEF VdmInv, NextToCome
      <3>3. QED
        BY <3>1, <3>2
    <2>3. /\ selected \in Range(listed) \cup {0} /\ currentType \in Range(types) \cup {"none"}
          /\ exporting \in {"no", "device", "image"}
      BY <1>1 DEF ListInv, PickInv, ChoiceInv
    <2>4. QED
      BY <2>1, <2>2, <2>3, Zenon DEF TypeOK
  <1>2. QED
    BY <1>1, TransferInit, TransferStep, DebugInvInit, DebugStep, VdmInvInit, VdmStep,
       SearchInvInit, SearchStep, ListInvInit, ListStep, PTL DEF ToolsSpec
=============================================================================
