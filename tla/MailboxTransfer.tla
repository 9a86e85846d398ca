--------------------------- MODULE MailboxTransfer ---------------------------
(***************************************************************************)
(* xfer_mbox_mem: one run of the host tool that copies a file (the SMBIOS  *)
(* table) through a PCI window into the memory it shares with the BMC, and *)
(* then tells the BMC the size of the file by an IPMI request.             *)
(*                                                                         *)
(* Units.  A cell is 8 KiB: the windows and the limit of the code keep     *)
(* their proportions.  A cell of the file is <<v, i>>: its position and    *)
(* the version of the file, which somebody else may replace.               *)
(***************************************************************************)
EXTENDS Integers, Sequences

CONSTANTS
    Sizes,        \* the sizes of files that are tried
    MaxMessages   \* bound: messages the IPMI driver has for the tool

ASSUME MailboxConstants == Sizes \subseteq Nat /\ MaxMessages \in Nat

(* PCIDeviceList, in the order of the search: the length of the window.    *)
PCIDeviceList == <<[name |-> "aspeed", Length |-> 8],
                   [name |-> "nuvoton", Length |-> 2]>>
maxImageSize == 2

Bars == {"absent", "io", "memory"}

VARIABLES
    phase,      \* what the tool is about to do
    p2aLength,  \* the length of the window that was found
    file,       \* [size, version] of the file named by --image
    readPos,    \* what is read of it through inputFd
    window,     \* the shared memory, <<0, 0>> where nothing was stored
    told,       \* the size the BMC was told, 0 if none
    messages,   \* how many messages the driver delivered
    reply,      \* reply.msgid: "unset", "other", "own"
    result,     \* how sendPacket ended
    exitCode,   \* of the process; 1 while it runs
    hitches     \* ghost: what went wrong unnoticed

mailbox == <<phase, p2aLength, file, readPos, window, told, messages, reply,
             result, exitCode, hitches>>

MailboxInit ==
    /\ phase = "scan" /\ p2aLength = 0
    /\ file = [size |-> 0, version |-> 0] /\ readPos = 0
    /\ window = << >> /\ told = 0
    /\ messages = 0 /\ reply = "unset" /\ result = "none"
    /\ exitCode = 1 /\ hitches = {}

(* A ToolException or another one reaches main.                            *)
Fails == phase' = "exit" /\ exitCode' = -1
Ends == phase' = "exit" /\ exitCode' = 0

Empty(n) == [i \in 0 .. n - 1 |-> <<0, 0>>]

(* The options are checked before anything is touched.                     *)
BadOptions ==
    /\ phase = "scan" /\ phase' = "exit" /\ exitCode' = 1
    /\ UNCHANGED <<p2aLength, file, readPos, window, told, messages, reply,
                   result, hitches>>

(* The first of the list that is present with a memory bar.                *)
FindDevice ==
    /\ phase = "scan"
    /\ \E bars \in [1 .. Len(PCIDeviceList) -> Bars], size \in Sizes :
          LET usable == {d \in DOMAIN bars : bars[d] = "memory"}
          IN  \/ /\ usable = {} /\ Fails
                 /\ UNCHANGED <<p2aLength, file, window>>
              \/ \E d \in usable :
                    /\ \A other \in usable : d <= other
                    /\ phase' = "open" /\ UNCHANGED exitCode
                    /\ p2aLength' = PCIDeviceList[d].Length
                    /\ window' = Empty(PCIDeviceList[d].Length)
                    /\ file' = [size |-> size, version |-> 1]
    /\ UNCHANGED <<readPos, told, messages, reply, result, hitches>>

(* Opening, and the size 0 that also stands for a stat that failed.        *)
OpenFile ==
    /\ phase = "open"
    /\ \/ Fails
       \/ file.size > 0 /\ phase' = "read" /\ UNCHANGED exitCode
    /\ UNCHANGED <<p2aLength, file, readPos, window, told, messages, reply,
                   result, hitches>>

\* Mutant: the read is not limited to the buffer, which is as long as the window.
RestOfFile == file.size - readPos

(* What read() returns at best.                                            *)
Chunk == LET rest == file.size - readPos
         IN  IF rest < p2aLength THEN rest ELSE p2aLength

(* io->write: every chunk goes to the start of the window.                 *)
Staged(n) == [i \in DOMAIN window \cup (0 .. n - 1) |->
                IF i < n THEN <<file.version, readPos + i>> ELSE window[i]]

(* A chunk is read and staged.  Neither a read that returns less than it   *)
(* could nor a pwrite that stores less than it should is noticed.          *)
TransferChunk ==
    /\ phase = "read" /\ readPos < file.size
    /\ \E n \in 1 .. Chunk : \E stored \in 0 .. n :
          /\ window' = Staged(stored)
          /\ readPos' = readPos + n
          /\ hitches' = hitches \cup (IF n < Chunk THEN {"short read"} ELSE {})
                                \cup (IF stored < n THEN {"short write"} ELSE {})
    /\ UNCHANGED <<phase, p2aLength, file, told, messages, reply, result,
                   exitCode>>

(* io->write cannot open or map the memory.                                *)
StagingFails ==
    /\ phase = "read" /\ readPos < file.size
    /\ Fails
    /\ UNCHANGED <<p2aLength, file, readPos, window, told, messages, reply,
                   result, hitches>>

(* The loop ends when nothing is read, which an error is too.              *)
EndOfFile ==
    /\ phase = "read"
    /\ phase' = "size"
    /\ hitches' = IF readPos < file.size THEN hitches \cup {"read error"}
                                         ELSE hitches
    /\ UNCHANGED <<p2aLength, file, readPos, window, told, messages, reply,
                   result, exitCode>>

(* Somebody writes another file over this one.                             *)
FileReplaced ==
    /\ phase \in {"open", "read", "size"} /\ file.version = 1
    /\ \E size \in Sizes : file' = [size |-> size, version |-> 2]
    /\ hitches' = IF phase = "open" THEN hitches ELSE hitches \cup {"replaced"}
    /\ UNCHANGED <<phase, p2aLength, readPos, window, told, messages, reply,
                   result, exitCode>>
-----------------------------------------------------------------------------
(* updaterMain, after the file: its size is looked up once more.           *)

\* Mutant: the size is compared with the window that happens to be there.
OversizedForAspeed(n) == n = 0 \/ n > PCIDeviceList[1].Length

Oversized(n) == n = 0 \/ n > maxImageSize

(* A size that is refused, or cannot be found out: the tool ends well and  *)
(* the BMC is not told.                                                    *)
SizeRefused ==
    /\ phase = "size"
    /\ Ends
    /\ UNCHANGED <<p2aLength, file, readPos, window, told, messages, reply,
                   result, hitches>>

(* sendPacket: no IPMI device, or the request cannot be sent.              *)
SendFails ==
    /\ phase = "size" /\ ~Oversized(file.size)
    /\ Ends /\ result' = "exception"
    /\ UNCHANGED <<p2aLength, file, readPos, window, told, messages, reply,
                   hitches>>

SendSize ==
    /\ phase = "size" /\ ~Oversized(file.size)
    /\ told' = file.size
    /\ phase' = "poll"
    /\ UNCHANGED <<p2aLength, file, readPos, window, messages, reply, result,
                   exitCode, hitches>>

(* The loop has left with matching ids: the first byte of the buffer       *)
(* decides, and an exception of IPMI does not reach main.                  *)
Answered(with) == Ends /\ result' \in {with, "exception"}

(* A message is received; one with another id only leaves its id behind.   *)
ReceiveMessage ==
    /\ phase = "poll" /\ messages < MaxMessages
    /\ messages' = messages + 1
    /\ \/ /\ reply' = "own"
          /\ Answered("answer")
       \/ /\ reply' = "other"
          /\ UNCHANGED <<phase, exitCode, result>>
    /\ UNCHANGED <<p2aLength, file, readPos, window, told, hitches>>

\* Mutant: an interrupted poll takes any message for the answer.
PollInterruptedEnds ==
    /\ phase = "poll"
    /\ Answered("garbage")
    /\ UNCHANGED <<p2aLength, file, readPos, window, told, messages, reply,
                   hitches>>

(* EINTR: "continue" goes to the condition of the loop, which compares     *)
(* with an id that is not set before the first message.                    *)
PollInterrupted ==
    /\ phase = "poll"
    /\ \/ reply = "unset" /\ Answered("garbage")
       \/ UNCHANGED <<phase, exitCode, result>>
    /\ UNCHANGED <<p2aLength, file, readPos, window, told, messages, reply,
                   hitches>>

(* Fifteen seconds without a message, or an error of poll or receive.      *)
PollFails ==
    /\ phase = "poll"
    /\ Ends /\ result' = "exception"
    /\ UNCHANGED <<p2aLength, file, readPos, window, told, messages, reply,
                   hitches>>
-----------------------------------------------------------------------------
MailboxNext ==
    \/ BadOptions \/ FindDevice \/ OpenFile \/ TransferChunk \/ StagingFails
    \/ EndOfFile \/ FileReplaced \/ SizeRefused \/ SendFails \/ SendSize
    \/ ReceiveMessage \/ PollInterrupted \/ PollFails
=============================================================================
