--------------------------- MODULE ArmDebugClient ---------------------------
(***************************************************************************)
(* jtag_client.py: the prompt from which a user debugs the ARM9 core of a  *)
(* BMC through its JTAG daemon.  A command is a fixed sequence of packets. *)
(* A packet puts instructions into the stopped core by scan chain 1, and   *)
(* each one is followed by a single recv, whatever that returns.  R0 (and  *)
(* R1 for memory) carries data in and out, so that every command borrows   *)
(* registers of the program and has to give them back.                     *)
(*                                                                         *)
(* A value is <<r, n>>, what the program had in r at its n-th stop, or     *)
(* data of the client.  Register 15 is the PC.  Assumed of the user:       *)
(* commands that use registers are given while the core is stopped.        *)
(***************************************************************************)
EXTENDS Integers

CONSTANTS MaxStops,      \* bound: how often the core stops
          MaxCommands    \* bound: commands typed

ASSUME DebugConstants == MaxStops \in Nat /\ MaxCommands \in Nat

Registers == {0, 1, 15}

VARIABLES
    client,     \* "prompt", the command under way, or "gone"
    step,       \* its packet
    index,      \* the register that wreg or rreg names
    saved,      \* the variables Regs[0], PC, R0 and R1 of the client
    core,       \* "runs"; stopped and "fresh", or "used": instructions ran
    reg,        \* its registers
    program,    \* ghost: what they are to be for the program and the user
    stops, commands,
    breakpoint, \* whether watchpoint unit 0 is set
    knows,      \* ghost: the last halt found the core just stopped
    amiss       \* ghost: what spoiled the session

debug == <<client, step, index, saved, core, reg, program, stops, commands,
           breakpoint, knows, amiss>>
target == <<core, reg, program, stops, breakpoint>>

Junk == <<-1, 0>>
Data == <<-2, 0>>
AtStop(n) == [r \in Registers |-> <<r, n>>]

DebugInit ==
    /\ client = "prompt" /\ step = 0 /\ index = 0
    /\ saved = [Regs0 |-> Data, PC |-> Data, R0 |-> Data, R1 |-> Data]
    /\ core = "runs" /\ reg = AtStop(0) /\ program = AtStop(0)
    /\ stops = 0 /\ commands = 0 /\ breakpoint = FALSE
    /\ knows = FALSE /\ amiss = {}
-----------------------------------------------------------------------------
(* The program meets the breakpoint; nobody tells the client.              *)
BreakpointHit ==
    /\ core = "runs" /\ breakpoint /\ stops < MaxStops
    /\ stops' = stops + 1 /\ core' = "fresh" /\ knows' = FALSE
    /\ reg' = AtStop(stops') /\ program' = AtStop(stops')
    /\ UNCHANGED <<client, step, index, saved, commands, breakpoint, amiss>>

Typed(command) ==
    /\ client = "prompt" /\ commands < MaxCommands
    /\ commands' = commands + 1
    /\ client' = command /\ step' = 1

(* One line of input.  A register number that is out of bounds is only     *)
(* complained about.  Lines that are not understood change nothing.        *)
TypeCommand ==
    /\ \/ \E c \in {"id", "halt", "setBP", "clrBP"} : Typed(c) /\ index' = 0
       \/ \E c \in {"go", "regs", "mem32", "wmem32"} :
             core # "runs" /\ Typed(c) /\ index' = 0
       \/ \E c \in {"wreg", "rreg"} :
             core # "runs" /\ Typed(c) /\ index' \in Registers \cup {16}
    /\ UNCHANGED <<saved, target, knows, amiss>>

Quit ==
    /\ client = "prompt" /\ client' = "gone"
    /\ UNCHANGED <<step, index, saved, target, commands, knows, amiss>>

(* The connection is lost.  Where the exception is caught the prompt stays,*)
(* but nothing reaches the core any more.                                  *)
ConnectionLost ==
    /\ client # "gone" /\ client' = "gone"
    /\ amiss' = amiss \cup {"lost"}
    /\ UNCHANGED <<step, index, saved, target, commands, knows>>

(* The commands whose code is inside try ... except Exception: there an    *)
(* exception is printed, elsewhere it ends the client.  The core stays as  *)
(* it is.                                                                  *)
Guarded == {"wreg", "rreg", "mem32", "wmem32", "setBP"}

Raise ==
    /\ client' = IF client \in Guarded THEN "prompt" ELSE "gone"
    /\ step' = 0

Continue(last) ==
    IF last THEN client' = "prompt" /\ step' = 0
            ELSE UNCHANGED client /\ step' = step + 1

(* recv, when the answer carries "value" for the variable v: all of it     *)
(* arrived; or a part of it, or what was left of an earlier answer, which  *)
(* is read as another number, as None, or raises.  After one divided       *)
(* answer every later one is taken for its successor.                      *)
Receive(v, value, last) ==
    \/ /\ "divided" \notin amiss /\ UNCHANGED amiss
       /\ saved' = [saved EXCEPT ![v] = value]
       /\ Continue(last)
    \/ /\ amiss' = amiss \cup {"divided"}
       /\ saved' = [saved EXCEPT ![v] = Junk]
       /\ Continue(last)
    \/ /\ amiss' = amiss \cup {"divided"}
       /\ UNCHANGED saved
       /\ Raise

(* recv, when the answer is only shown.                                    *)
Show(last) ==
    /\ UNCHANGED saved
    /\ \/ amiss' \in {amiss, amiss \cup {"divided"}} /\ Continue(last)
       \/ amiss' = amiss \cup {"divided"} /\ Raise

(* recv, when the answer is not looked at.                                 *)
Ignore(last) ==
    /\ UNCHANGED saved
    /\ amiss' \in {amiss, amiss \cup {"divided"}} /\ Continue(last)

At(command, k) == client = command /\ step = k
Others == <<index, program, stops, commands, breakpoint, knows>>

(* STR to the data bus leaves the registers alone.                         *)
StoreReg == core' = "used" /\ UNCHANGED reg

(* MOV Rr, #0 and LDR Rr: the value goes in by way of the data bus.        *)
LoadReg(r, value) == core' = "used" /\ reg' = [reg EXCEPT ![r] = value]

(* A value that turns out to be None cannot be put into a packet.          *)
NoValue ==
    /\ \/ At("halt", 4) /\ saved.Regs0 = Junk
       \/ At("go", 2) /\ saved.R0 = Junk
       \/ (At("mem32", 5) \/ At("wmem32", 4)) /\ Junk \in {saved.R0, saved.R1}
    /\ Raise
    /\ UNCHANGED <<index, saved, target, commands, knows, amiss>>
-----------------------------------------------------------------------------
Id ==
    /\ At("id", 1) /\ Show(TRUE)
    /\ UNCHANGED <<index, target, commands, knows>>

(* halt: DBGRQ stops the core, unless it is stopped, and R0 is read.       *)
HaltStop ==
    /\ At("halt", 1)
    /\ \/ /\ core = "runs" /\ stops < MaxStops
          /\ stops' = stops + 1 /\ core' = "fresh"
          /\ reg' = AtStop(stops') /\ program' = AtStop(stops')
       \/ /\ core # "runs"
          /\ UNCHANGED <<stops, core, reg, program>>
    /\ knows' = (core # "used")
    /\ Receive("Regs0", reg'[0], FALSE)
    /\ UNCHANGED <<index, commands, breakpoint>>

(* MOV R0, PC: the constant that is subtracted counts the instructions     *)
(* since the core stopped, and no others may have been executed.           *)
HaltPc ==
    /\ At("halt", 2)
    /\ LoadReg(0, IF core = "fresh" THEN reg[15] ELSE Junk)
    /\ Receive("PC", reg'[0], FALSE)
    /\ UNCHANGED Others

(* MRS R0, CPSR.                                                           *)
HaltCpsr ==
    /\ At("halt", 3)
    /\ LoadReg(0, Data) /\ Show(FALSE)
    /\ UNCHANGED Others

(* R0 is given back, and once more by the packet that dumps the other      *)
(* registers, which begins with the bytes of the packet before it.         *)
HaltRestore ==
    /\ At("halt", 4) \/ At("halt", 5)
    /\ LoadReg(0, saved.Regs0)
    /\ IF step = 4 THEN Ignore(FALSE) ELSE Show(TRUE)
    /\ UNCHANGED Others

(* go, and both memory commands, save R0 first.                            *)
SaveR0 ==
    /\ step = 1 /\ client \in {"go", "mem32", "wmem32"}
    /\ StoreReg /\ Receive("R0", reg[0], FALSE)
    /\ UNCHANGED Others

(* go: the PC that halt read goes in through R0, then R0 itself; RESTART.  *)
GoRestart ==
    /\ At("go", 2)
    /\ reg' = [reg EXCEPT ![15] = saved.PC, ![0] = saved.R0]
    /\ core' = "runs"
    /\ UNCHANGED saved /\ Continue(TRUE)
    /\ amiss' \in {amiss \cup (IF knows THEN {} ELSE {"blind"}) \cup d :
                     d \in {{}, {"divided"}}}
    /\ UNCHANGED Others

(* regs: STM dumps R0 to R14.                                              *)
DumpRegs ==
    /\ At("regs", 1)
    /\ StoreReg /\ Receive("Regs0", reg[0], TRUE)
    /\ UNCHANGED Others

(* wreg: a number of 16 runs over into the base register of the opcode,    *)
(* and loads R0.                                                           *)
WriteReg ==
    /\ At("wreg", 1)
    /\ LoadReg(index % 16, Data)
    /\ program' = IF index \in {0, 1} THEN [program EXCEPT ![index] = Data]
                                      ELSE program
    /\ UNCHANGED saved /\ Continue(TRUE)
    /\ amiss' \in {amiss \cup (IF index > 15 THEN {"index"} ELSE {}) \cup d :
                     d \in {{}, {"divided"}}}
    /\ UNCHANGED <<index, stops, commands, breakpoint, knows>>

(* rreg: what is shown beside the register, Regs[index], is what the last  *)
(* halt or regs read, or raises.                                           *)
ReadReg ==
    /\ At("rreg", 1)
    /\ StoreReg /\ Show(TRUE)
    /\ UNCHANGED Others

\* Mutant: R1 is not saved but taken to be what it was the last time.
SaveR1Once ==
    /\ At("mem32", 2) \/ At("wmem32", 2)
    /\ StoreReg
    /\ IF saved.R1 = Data THEN Receive("R1", reg[1], FALSE) ELSE Ignore(FALSE)
    /\ UNCHANGED Others

SaveR1 ==
    /\ At("mem32", 2) \/ At("wmem32", 2)
    /\ StoreReg /\ Receive("R1", reg[1], FALSE)
    /\ UNCHANGED Others

(* R0 := address; LDR or STR of R1 at system speed, which restarts the     *)
(* core for one instruction.                                               *)
AccessMemory ==
    /\ At("mem32", 3) \/ At("wmem32", 3)
    /\ reg' = [reg EXCEPT ![0] = Data, ![1] = Data] /\ core' = "used"
    /\ Ignore(FALSE)
    /\ UNCHANGED Others

(* mem32: DBGRQ again, and R1 is read.                                     *)
FetchValue ==
    /\ At("mem32", 4)
    /\ StoreReg /\ Show(FALSE)
    /\ UNCHANGED Others

GiveBack ==
    /\ At("mem32", 5) \/ At("wmem32", 4)
    /\ reg' = [reg EXCEPT ![0] = saved.R0, ![1] = saved.R1] /\ core' = "used"
    /\ Ignore(TRUE)
    /\ UNCHANGED Others

SetBreakpoint ==
    /\ At("setBP", 1) \/ At("clrBP", 1)
    /\ breakpoint' = (client = "setBP")
    /\ Ignore(TRUE)
    /\ UNCHANGED <<index, core, reg, program, stops, commands, knows>>
-----------------------------------------------------------------------------
Halt == HaltStop \/ HaltPc \/ HaltCpsr \/ HaltRestore
Memory == SaveR1 \/ AccessMemory \/ FetchValue \/ GiveBack

DebugNext ==
    \/ BreakpointHit \/ TypeCommand \/ Quit \/ ConnectionLost \/ NoValue
    \/ Id \/ Halt \/ SaveR0 \/ GoRestart \/ DumpRegs \/ WriteReg \/ ReadReg
    \/ Memory \/ SetBreakpoint
=============================================================================
