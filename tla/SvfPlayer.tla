------------------------------ MODULE SvfPlayer ------------------------------
(***************************************************************************)
(* loadsvf plays an SVF file to the device behind the BMC's JTAG master.   *)
(* Scans carry parameters over to later scans, what they read is compared  *)
(* with the expected TDO some commands later, and LOOP ... ENDLOOP repeats *)
(* a part of the file until the comparisons in it succeed.                 *)
(*                                                                         *)
(* The file is chosen as it is read; the commands of a loop are remembered *)
(* and read again where it seeks back.  A bit of an expected value is      *)
(* <<command, position>>, so that a value at another place is another one. *)
(* As the standard asks, a scan that changes the length has a TDI; what    *)
(* TDI is does not matter here.                                            *)
(***************************************************************************)
EXTENDS Integers, Sequences, SequencesExt

CONSTANTS
    Menu,        \* the commands a file may be made of
    ByteSize,    \* 8: bits in a byte of the buffers
    XferBytes,   \* TDI_DATA_SIZE, 256: what one transfer of the driver holds
    ParaSize,    \* SVF_CHECK_TDO_PARA_SIZE, 1024
    Deviations,  \* which bits of a scan the device may answer wrongly
    LongestScan, \* bound: the bits of a scan that ChunksCover looks at
    MaxCommands  \* bound: commands in the file

TapStates == {"RESET", "IDLE", "DRPAUSE", "IRPAUSE", "DRSHIFT", "IRSHIFT"}
Stable == {"RESET", "IDLE", "DRPAUSE", "IRPAUSE"}
Kinds == {"HDR", "SDR", "TDR", "HIR", "SIR", "TIR"}
TrstModes == {"ON", "OFF", "Z", "ABSENT"}
Mask == Seq({0, 1})

ScanCommand == [op : Kinds, len : Nat, tdo : BOOLEAN, mask : Mask]

Command ==
    ScanCommand
    \cup [op : {"LOOP"}, n : Int]
    \cup [op : {"ENDLOOP", "PIO"}]
    \cup [op : {"ENDDR", "ENDIR"}, state : TapStates]
    \cup [op : {"STATE"}, state : TapStates]
    \cup [op : {"FREQUENCY"}]
    \cup [op : {"TRST"}, mode : TrstModes]
    \cup [op : {"RUNTEST"}, run : TapStates \cup {"none"},
                            end : TapStates \cup {"none"}]

ASSUME ConstantsAssumption ==
    /\ Menu \subseteq Command
    /\ \A c \in Menu : c.op \in Kinds => c.mask = << >> \/ Len(c.mask) = c.len
    /\ ByteSize \in Nat \ {0} /\ XferBytes \in Nat \ {0}
    /\ ParaSize \in Nat /\ ParaSize >= 2
    /\ Deviations \subseteq SUBSET Nat
    /\ MaxCommands \in Nat /\ LongestScan \in Nat

VARIABLES
    phase,      \* "start", "play", "close" behind the loop over the file, "done"
    ret,        \* what handle_svf_command returns
    next, body, \* the number of the next command, and the commands that were
                \* read behind file_offset and may be read again
    loop, file_offset,
    para,       \* svf_para: the parameters of the last scan of each kind
    ends,       \* svf_para: the end states
    trst,
    pending,    \* svf_check_tdo_para up to svf_check_tdo_para_index
    buf,        \* the TDI, TDO and mask buffers, bit by bit
    svf_buffer_index,
    tap,        \* the state of the TAP
    reported,   \* "tdo check error" was logged
    upset,      \* ghost: the driver failed, or a DR scan was empty or too long
    mismatch,   \* ghost: a comparison failed that no ENDLOOP repeats
    before,     \* ghost: its value when the loop began
    turns, rounds  \* ghost: how often the loop's body began, and should

reading == <<next, body>>
looping == <<loop, file_offset, before, turns, rounds>>
parameters == <<para, ends, trst>>
buffers == <<buf, svf_buffer_index>>
vars == <<phase, ret, reading, looping, parameters, pending, buffers, tap,
          reported, upset, mismatch>>

NoPara == [len |-> 0, tdo |-> 0, mask |-> << >>]

Init ==
    /\ phase = "start" /\ ret = "ok"
    /\ next = 1 /\ body = << >> /\ loop = 0 /\ file_offset = 1
    /\ para = [k \in Kinds |-> NoPara]
    /\ ends = [dr |-> "IDLE", ir |-> "IDLE", run |-> "IDLE", runend |-> "IDLE"]
    /\ trst = "Z"
    /\ pending = << >> /\ buf = << >> /\ svf_buffer_index = 0
    /\ tap = "RESET" /\ reported = FALSE
    /\ upset = FALSE /\ mismatch = FALSE /\ before = FALSE
    /\ turns = 0 /\ rounds = 0
-----------------------------------------------------------------------------
(* Splitting a scan for the driver.                                        *)

Bytes(bits) == (bits + ByteSize - 1) \div ByteSize

\* Mutant: the last bytes are rounded down.
ChunkFloor(bits) ==
    LET n == IF bits \div ByteSize > XferBytes THEN XferBytes
             ELSE bits \div ByteSize
    IN  IF n * ByteSize > bits THEN bits ELSE n * ByteSize

(* The bits that JTAG_dr_scan shifts next when this many are left.         *)
Chunk(bits) ==
    LET n == IF bits \div ByteSize > XferBytes THEN XferBytes ELSE Bytes(bits)
    IN  IF n * ByteSize > bits THEN bits ELSE n * ByteSize

(* What is left of a scan after so many transfers.                         *)
Left(bits) ==
    LET left[k \in 0 .. bits] ==
            IF k = 0 THEN bits ELSE left[k - 1] - Chunk(left[k - 1])
    IN  left

(* A transfer that does not fit: a byte behind tdi and tdo is written.     *)
TooLong(bits) ==
    \E k \in 0 .. bits : Bytes(Chunk(Left(bits)[k])) > XferBytes
-----------------------------------------------------------------------------
(* The list of comparisons.                                                *)

Differs(b, p) ==
    p.enabled /\ \E i \in p.base + 1 .. p.base + p.len :
                    b[i].mask = 1 /\ b[i].got # b[i].want

Mismatch(b, list) == \E i \in DOMAIN list : Differs(b, list[i])

Fails ==
    /\ phase' = "close" /\ ret' = "fail"

(* A command that the player refuses, or that fails.                       *)
Refuse ==
    /\ Fails
    /\ UNCHANGED <<looping, parameters, pending, buffers, tap, reported, upset,
                   mismatch>>

(* svf_check_tdo(false).                                                   *)
CheckTdo(b, list) ==
    IF Mismatch(b, list)
      THEN /\ Fails /\ reported' = TRUE
           /\ pending' = list /\ buf' = b
      ELSE /\ pending' = << >> /\ buf' = << >>
           /\ UNCHANGED <<phase, ret, reported>>

(* The end of svf_run_command: compare when the list is half full.         *)
Settle(b, list) ==
    IF Len(list) >= ParaSize \div 2
      THEN CheckTdo(b, list)
      ELSE /\ pending' = list /\ buf' = b
           /\ UNCHANGED <<phase, ret, reported>>

SettleUnchanged ==
    Settle(buf, pending) /\ UNCHANGED svf_buffer_index
-----------------------------------------------------------------------------
(* Commands that change parameters.                                        *)

EndLoopStays == UNCHANGED <<looping, mismatch>>

Other == EndLoopStays /\ UNCHANGED <<upset, tap>>

\* Mutant: the state is taken as it is.
AnyEndState(c) ==
    /\ ends' = IF c.op = "ENDDR" THEN [ends EXCEPT !.dr = c.state]
                                 ELSE [ends EXCEPT !.ir = c.state]
    /\ SettleUnchanged /\ Other
    /\ UNCHANGED <<para, trst>>

EndState(c) ==
    IF c.state \notin Stable THEN Refuse
    ELSE /\ ends' = IF c.op = "ENDDR" THEN [ends EXCEPT !.dr = c.state]
                                      ELSE [ends EXCEPT !.ir = c.state]
         /\ SettleUnchanged /\ Other
         /\ UNCHANGED <<para, trst>>

(* FREQUENCY sets the clock of the driver, which nothing here depends on.  *)
Frequency ==
    /\ SettleUnchanged /\ Other
    /\ UNCHANGED parameters

Trst(c) ==
    IF trst = "ABSENT" THEN Refuse
    ELSE /\ trst' = c.mode
         /\ SettleUnchanged /\ Other
         /\ UNCHANGED <<para, ends>>

Zeros(n) == [i \in 1 .. n |-> 0]
Ones(n) == [i \in 1 .. n |-> 1]

(* XXR_common: the mask stays if the length does and TDO comes without a   *)
(* mask; without TDO it is all zero.                                       *)
NewMask(p, c) ==
    CASE ~c.tdo -> Zeros(c.len)
      [] c.tdo /\ c.mask # << >> -> c.mask
      [] c.tdo /\ c.mask = << >> /\ c.len # p.len -> Ones(c.len)
      [] OTHER -> p.mask

NewPara(p, c, id) ==
    [len |-> c.len, mask |-> NewMask(p, c),
     tdo |-> CASE c.tdo -> id
               [] ~c.tdo /\ c.len > p.len -> 0
               [] OTHER -> p.tdo]

Padding(c, id) ==
    /\ para' = [para EXCEPT ![c.op] = NewPara(para[c.op], c, id)]
    /\ SettleUnchanged /\ Other
    /\ UNCHANGED <<ends, trst>>
-----------------------------------------------------------------------------
(* Scans.                                                                  *)

Head3(k) == IF k = "SDR" THEN "HDR" ELSE "HIR"
Tail3(k) == IF k = "SDR" THEN "TDR" ELSE "TIR"

Expected(p) == [j \in 1 .. p.len |-> <<p.tdo, j>>]

(* Header, data and trailer as buf_set_buf puts them together.             *)
Want(ps, k) == Expected(ps[Head3(k)]) \o Expected(ps[k]) \o Expected(ps[Tail3(k)])
Masks(ps, k) == ps[Head3(k)].mask \o ps[k].mask \o ps[Tail3(k)].mask

Wrong == <<0, 0>>
Blank == [got |-> Wrong, want |-> Wrong, mask |-> 0]

(* The buffers with a scan at the given place: what was read fills whole   *)
(* bytes; of a scan without TDO only its TDI is written.                   *)
Stored(b, base, want, mask, wrong, tdo) ==
    LET n == Len(want)
        region == base + 1 .. base + ByteSize * Bytes(n)
        old(i) == IF i \in DOMAIN b THEN b[i] ELSE Blank
        bit(i) ==
            CASE ~tdo \/ i - base > n -> [old(i) EXCEPT !.got = Wrong]
              [] OTHER -> [got  |-> IF i - base \in wrong THEN Wrong
                                    ELSE want[i - base],
                           want |-> want[i - base], mask |-> mask[i - base]]
    IN  [i \in DOMAIN b \cup region |-> IF i \in region THEN bit(i) ELSE b[i]]

\* Mutant: the index is advanced by whole bytes only.
AdvanceFloor(index, bits) == index + bits \div ByteSize

Advance(index, bits) == index + Bytes(bits)

(* svf_add_check_para; that it refuses when the list is full is ignored.   *)
AddCheck(list, p) == IF Len(list) >= ParaSize THEN list ELSE Append(list, p)

\* Mutant: the transfer that ends a whole number of bytes does not end the scan.
ScanTapShift(k, bits) ==
    LET end == IF k = "SDR" THEN ends.dr ELSE ends.ir
    IN  /\ tap' = IF bits % ByteSize = 0 THEN "DRSHIFT" ELSE end
        /\ UNCHANGED upset

(* Where the TAP is after the scan, and whether all went well.             *)
ScanTap(k, bits) ==
    LET end == IF k = "SDR" THEN ends.dr ELSE ends.ir
        shift == IF k = "SDR" THEN "DRSHIFT" ELSE "IRSHIFT"
    IN  \/ /\ bits > 0 /\ (k = "SIR" => Bytes(bits) <= XferBytes)
           /\ ~(k = "SDR" /\ TooLong(bits))
           /\ \/ tap' = end /\ UNCHANGED upset
              \/ ~upset /\ upset' = TRUE /\ tap' \in {tap, shift, end}
        \/ k = "SDR" /\ bits = 0 /\ tap' = shift /\ upset' = TRUE
        \/ k = "SDR" /\ TooLong(bits) /\ tap' \in {end, shift} /\ upset' = TRUE
        \/ /\ k = "SIR" /\ (bits = 0 \/ Bytes(bits) > XferBytes)
           /\ UNCHANGED tap /\ upset' = TRUE

(* SDR and SIR.  The result of the scan is ignored: if the driver fails,   *)
(* TDI takes the place of what was to be read.                             *)
Scan(c, id) ==
    LET k == c.op
        ps == [para EXCEPT ![k] = NewPara(para[k], c, id)]
        n == ps[Head3(k)].len + c.len + ps[Tail3(k)].len
        base == ByteSize * svf_buffer_index
        mask == Masks(ps, k)
    IN  /\ para' = ps
        /\ ScanTap(k, n)
        /\ svf_buffer_index' = Advance(svf_buffer_index, n)
        /\ \E wrong \in IF c.tdo THEN Deviations ELSE {{}} :
             LET miss == \E i \in wrong : mask[i] = 1
             IN  /\ wrong \subseteq 1 .. n
                 /\ mismatch' = (mismatch \/ miss)
                 /\ \E b \in {Stored(buf, base, Want(ps, k), mask, wrong, c.tdo)} :
                      Settle(b, AddCheck(pending,
                                         [enabled |-> c.tdo, base |-> base,
                                          len |-> n, miss |-> miss]))
        /\ UNCHANGED <<looping, ends, trst>>
-----------------------------------------------------------------------------
(* RUNTEST and STATE move the TAP; a failure of the driver is ignored.     *)

RunTest(c) ==
    LET run == IF c.run = "none" THEN ends.run ELSE c.run
        end == IF c.end # "none" THEN c.end
               ELSE IF c.run = "none" THEN ends.runend ELSE c.run
    IN  IF {run, end} \subseteq Stable
          THEN /\ ends' = [ends EXCEPT !.run = run, !.runend = end]
               /\ \/ tap' = end /\ UNCHANGED upset
                  \/ ~upset /\ upset' = TRUE /\ tap' \in {tap, run, end}
               /\ SettleUnchanged /\ EndLoopStays
               /\ UNCHANGED <<para, trst>>
          ELSE Refuse

State(c) ==
    IF c.state \notin Stable THEN Refuse
    ELSE /\ \/ tap' = c.state /\ UNCHANGED upset
            \/ ~upset /\ upset' = TRUE /\ UNCHANGED tap
         /\ SettleUnchanged /\ EndLoopStays
         /\ UNCHANGED parameters
-----------------------------------------------------------------------------
(* Loops.                                                                  *)

\* Mutant: the comparisons from before the loop are left for its end.
LoopUnchecked(c) ==
    /\ loop' = c.n - 1 /\ file_offset' = next + 1
    /\ before' = mismatch /\ turns' = 1 /\ rounds' = c.n
    /\ SettleUnchanged
    /\ UNCHANGED <<parameters, tap, upset, mismatch>>

(* LOOP compares what is pending first.                                    *)
LoopBegins(c) ==
    /\ CheckTdo(buf, pending)
    /\ IF Mismatch(buf, pending)
         THEN UNCHANGED looping
         ELSE /\ loop' = c.n - 1 /\ file_offset' = next + 1
              /\ before' = mismatch /\ turns' = 1 /\ rounds' = c.n
    /\ UNCHANGED <<parameters, svf_buffer_index, tap, upset, mismatch>>

\* Mutant: only the last comparison of the turn is looked at.
JumpsOnLast == loop > 0 /\ pending # << >> /\ Differs(buf, Last(pending))

Jumps == loop > 0 /\ Mismatch(buf, pending)

\* Mutant: the counter is not counted down.
EndLoopForever ==
    \/ /\ loop > 0 /\ ~Jumps
       /\ loop' = 0 /\ pending' = << >> /\ buf' = << >>
       /\ UNCHANGED <<phase, ret, reported, svf_buffer_index, file_offset,
                      before, turns, rounds, mismatch>>
    \/ /\ Jumps
       /\ turns' = turns + 1 /\ mismatch' = before
       /\ pending' = << >> /\ buf' = << >>
       /\ UNCHANGED <<phase, ret, reported, svf_buffer_index, loop, file_offset,
                      before, rounds>>
    \/ loop <= 0 /\ SettleUnchanged /\ EndLoopStays

(* ENDLOOP: go on if all matched, else once more; the comparisons of the   *)
(* last turn stay pending.                                                 *)
EndLoop ==
    /\ \/ /\ loop > 0 /\ ~Jumps
          /\ loop' = 0 /\ pending' = << >> /\ buf' = << >>
          /\ UNCHANGED <<phase, ret, reported, svf_buffer_index, file_offset,
                         before, turns, rounds, mismatch>>
       \/ /\ Jumps
          /\ loop' = loop - 1 /\ turns' = turns + 1 /\ mismatch' = before
          /\ pending' = << >> /\ buf' = << >>
          /\ UNCHANGED <<phase, ret, reported, svf_buffer_index, file_offset,
                         before, rounds>>
       \/ loop <= 0 /\ SettleUnchanged /\ EndLoopStays
-----------------------------------------------------------------------------
(* The run.                                                                *)

(* JTAG_initialize, then opening the file.                                 *)
Initialize ==
    /\ phase = "start"
    /\ \/ phase' = "play" /\ tap' = "IDLE" /\ UNCHANGED ret
       \/ phase' = "done" /\ ret' = "fail" /\ tap' \in {"RESET", "IDLE"}
    /\ UNCHANGED <<reading, looping, parameters, pending, buffers, reported,
                   upset, mismatch>>

Known == next - file_offset + 1 \in DOMAIN body

(* svf_read_command_from_file: the next command, the same as before where  *)
(* a loop has gone back.  What follows it on its line is not read.         *)
Reads(c) ==
    /\ phase = "play"
    /\ IF Known THEN c = body[next - file_offset + 1] ELSE next <= MaxCommands
    /\ next' = IF c.op = "ENDLOOP" /\ Jumps THEN file_offset ELSE next + 1
    /\ body' = CASE Known -> body
                 [] ~Known /\ loop > 0 /\ c.op # "LOOP" -> Append(body, c)
                 [] OTHER -> << >>

\* Mutant: svf_getline does not notice the end of the file.
EndOfFileUnnoticed == phase = "play" /\ ~Known /\ UNCHANGED vars

(* The end of the file, or of its last line that is complete.              *)
EndOfFile ==
    /\ phase = "play" /\ ~Known
    /\ phase' = "close"
    /\ UNCHANGED <<ret, reading, looping, parameters, pending, buffers, tap,
                   reported, upset, mismatch>>

(* The end of handle_svf_command: it compares what is pending, without     *)
(* looking at the result, and frees everything.                            *)
Close ==
    /\ phase = "close"
    /\ phase' = "done"
    /\ reported' = (reported \/ Mismatch(buf, pending))
    /\ pending' = << >> /\ buf' = << >> /\ svf_buffer_index' = 0
    /\ UNCHANGED <<ret, reading, looping, parameters, tap, upset, mismatch>>

(* svf_run_command.                                                        *)
SetState == \E c \in Menu : c.op \in {"ENDDR", "ENDIR"} /\ Reads(c) /\ EndState(c)
SetFrequency == \E c \in Menu : c.op = "FREQUENCY" /\ Reads(c) /\ Frequency
SetTrst == \E c \in Menu : c.op = "TRST" /\ Reads(c) /\ Trst(c)
SetPadding == \E c \in Menu : /\ c.op \in Kinds \ {"SDR", "SIR"}
                            /\ Reads(c) /\ Padding(c, next)
DoScan == \E c \in Menu : c.op \in {"SDR", "SIR"} /\ Reads(c) /\ Scan(c, next)
DoRunTest == \E c \in Menu : c.op = "RUNTEST" /\ Reads(c) /\ RunTest(c)
DoState == \E c \in Menu : c.op = "STATE" /\ Reads(c) /\ State(c)
DoLoop == \E c \in Menu : c.op = "LOOP" /\ Reads(c) /\ LoopBegins(c)
DoEndLoop == /\ \E c \in Menu : c.op = "ENDLOOP" /\ Reads(c)
             /\ EndLoop
             /\ UNCHANGED <<parameters, tap, upset>>
Unknown == \E c \in Menu : c.op = "PIO" /\ Reads(c) /\ Refuse

Next ==
    \/ Initialize \/ EndOfFile \/ Close
    \/ SetState \/ SetFrequency \/ SetTrst \/ SetPadding
    \/ DoScan \/ DoRunTest \/ DoState \/ DoLoop \/ DoEndLoop \/ Unknown

Spec == Init /\ [][Next]_vars

(* The program is one thread that waits for nobody; the driver returns.    *)
FairSpec == Spec /\ WF_vars(Next)
-----------------------------------------------------------------------------
(* Properties.                                                             *)

Bit == [got : Int \X Int, want : Int \X Int, mask : {0, 1}]

\* The types of the player's state.
TypeOK ==
    /\ phase \in {"start", "play", "close", "done"} /\ ret \in {"ok", "fail"}
    /\ body \in Seq(Menu)
    /\ next \in 1 .. MaxCommands + 1 /\ file_offset \in 1 .. MaxCommands + 1
    /\ loop \in Int /\ turns \in Nat /\ rounds \in Int
    /\ \A k \in Kinds : /\ para[k].len \in Nat /\ para[k].tdo \in 0 .. MaxCommands
                        /\ para[k].mask \in Mask /\ Len(para[k].mask) = para[k].len
    /\ {ends.dr, ends.ir, ends.run, ends.runend} \subseteq Stable
    /\ trst \in TrstModes
    /\ svf_buffer_index \in Nat
    /\ \A i \in DOMAIN buf : buf[i] \in Bit
    /\ tap \in TapStates
    /\ {reported, upset, mismatch, before} \subseteq BOOLEAN

\* While a comparison waits for the commands behind it, no later scan and no
\* later parameter reaches its part of the buffers: its result is the one its
\* own scan had under its own mask.  The list always has room for the next
\* one (svf_add_check_para is refused silently).
PendingIntact ==
    /\ \A i \in DOMAIN pending : Differs(buf, pending[i]) <=> pending[i].miss
    /\ phase = "play" => Len(pending) < ParaSize

\* "tdo check error" is reported exactly if some scan did not return what the
\* file expects, unless that scan was in a turn of a loop that was repeated,
\* wherever in the file the comparison takes place.
ReportsTrue ==
    /\ reported => mismatch
    /\ phase = "done" /\ mismatch => reported

\* The body of a loop is played as often as LOOP says at the most.  ENDLOOP goes
\* on before that only if every scan of this turn returned what was expected,
\* and repeats the body only if one did not, however many comparisons wait for
\* it.  What else ends a loop is not ruled out: a mismatch that is found because
\* the list is half full ends the play inside it, whatever turns are left.
TurnsBounded == turns > 1 => turns <= rounds
GoesOn == loop > 0 /\ loop' = 0 /\ turns' < rounds'
Repeats == turns > 0 /\ turns' > turns
LoopBound ==
    [][TurnsBounded' /\ (GoesOn => ~mismatch) /\ (Repeats => mismatch)]_vars

\* Between two commands the TAP rests in a stable state, whatever end states
\* the file sets, as long as the driver works and no scan is empty or too long.
TapStable == phase # "start" /\ ~upset => tap \in Stable

\* A scan of up to LongestScan bits is shifted completely, in transfers that
\* fill the driver's buffer but for the last; each fits it, unless up to seven
\* bits are left over that make it one byte too long.  (It depends on no state
\* and is evaluated once.)
Covered(bits) ==
    LET left == Left(bits)
        full == ByteSize * XferBytes
    IN  /\ left[bits] = 0
        /\ \A k \in 0 .. bits :
              /\ left[k] > Chunk(left[k]) => Chunk(left[k]) = full
              /\ Bytes(Chunk(left[k])) > XferBytes =>
                    left[k] \in full + 1 .. full + ByteSize - 1

ChunksCover == phase = "start" => \A bits \in 0 .. LongestScan : Covered(bits)

\* Playing a file comes to its end, in spite of the loops that seek back.
Terminates == <>(phase = "done")
=============================================================================
