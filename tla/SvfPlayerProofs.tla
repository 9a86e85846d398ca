--------------------------- MODULE SvfPlayerProofs ---------------------------
(***************************************************************************)
(* Proofs about SvfPlayer, for files of any length, any menu of commands,  *)
(* any sizes of bytes, transfers and of the list of comparisons.           *)
(*                                                                         *)
(* A comparison that waits is safe because it lies below the place where   *)
(* the next scan is stored, in a part of the buffers that exists (Kept);   *)
(* therefore a failed one is a mismatch that is still to be reported       *)
(* (Truth), as long as the list has room for it (Room).                    *)
(*                                                                         *)
(* ChunksCover is about the recursive function Left: what it holds is      *)
(* proved by induction over the transfers (LeftFalls).                     *)
(***************************************************************************)
EXTENDS SvfPlayer, TLAPS, SequenceTheorems, WellFoundedInduction
-----------------------------------------------------------------------------
Para == [len : Nat, tdo : 0 .. MaxCommands, mask : Mask]
Comparison == [enabled : BOOLEAN, base : Nat, len : Nat, miss : BOOLEAN]

Types ==
    /\ phase \in {"start", "play", "close", "done"} /\ ret \in {"ok", "fail"}
    /\ loop \in Int /\ turns \in Nat /\ rounds \in Int
    /\ para \in [Kinds -> Para]
    /\ \A k \in Kinds : Len(para[k].mask) = para[k].len
    /\ ends \in [dr : Stable, ir : Stable, run : Stable, runend : Stable]
    /\ trst \in TrstModes
    /\ tap \in TapStates
    /\ reported \in BOOLEAN /\ upset \in BOOLEAN
    /\ mismatch \in BOOLEAN /\ before \in BOOLEAN

(* Where the player is in the file: what is remembered of a loop ends      *)
(* within the file, and holds no LOOP.                                     *)
Place ==
    /\ next \in 1 .. MaxCommands + 1 /\ file_offset \in 1 .. next
    /\ body \in Seq(Menu)
    /\ file_offset + Len(body) <= MaxCommands + 1
    /\ \A i \in 1 .. Len(body) : body[i].op # "LOOP"

(* The buffers b and the list agree, when index bytes are in use.          *)
Kept(b, list, index) ==
    /\ list \in Seq(Comparison) /\ index \in Nat
    /\ \A i \in DOMAIN b : b[i] \in Bit
    /\ \A i \in 1 .. Len(list) :
         /\ list[i].base + list[i].len <= ByteSize * index
         /\ list[i].enabled => \A j \in list[i].base + 1 .. list[i].base + list[i].len :
                                  j \in DOMAIN b
         /\ Differs(b, list[i]) <=> list[i].miss

Missed(list) == \E i \in 1 .. Len(list) : list[i].miss

Playing == phase \in {"start", "play"}

Room == Playing => Len(pending) < ParaSize \div 2

Truth ==
    /\ ~before
    /\ Playing => ~reported
    /\ phase = "start" => ~mismatch
    /\ phase # "done" => (reported => mismatch) /\ (mismatch <=> Missed(pending))
    /\ phase = "done" => (mismatch <=> reported)

(* What TurnsBounded needs to be inductive.                                *)
LoopCount ==
    /\ TurnsBounded
    /\ loop > 0 => loop = rounds - turns

SInv ==
    /\ Types /\ Place
    /\ Kept(buf, pending, svf_buffer_index)
    /\ Room /\ Truth
    /\ LoopCount /\ TapStable
-----------------------------------------------------------------------------
(* Helpers.                                                                *)

(* A number of bits fits the bytes that are taken for it.                  *)
LEMMA BytesHold ==
    ASSUME NEW bits \in Nat
    PROVE  Bytes(bits) \in Nat /\ bits <= ByteSize * Bytes(bits)
  BY ConstantsAssumption DEF Bytes

LEMMA HalfList == ParaSize \div 2 \in Nat /\ 1 <= ParaSize \div 2 /\ ParaSize \div 2 < ParaSize
  BY ConstantsAssumption

(* A mask and an expected value go with the length.                        *)
LEMMA NewParaType ==
    ASSUME NEW p \in Para, Len(p.mask) = p.len, NEW c \in Menu, c.op \in Kinds,
           NEW id \in 0 .. MaxCommands
    PROVE  NewPara(p, c, id) \in Para /\ Len(NewPara(p, c, id).mask) = c.len
           /\ NewPara(p, c, id).len = c.len /\ c.len \in Nat /\ c.tdo \in BOOLEAN
  <1>1. c \in ScanCommand
    BY ConstantsAssumption DEF Command, ScanCommand, Kinds
  <1>2. c.len \in Nat /\ c.tdo \in BOOLEAN /\ c.mask \in Seq({0, 1})
        /\ (c.mask = << >> \/ Len(c.mask) = c.len)
    BY <1>1, ConstantsAssumption DEF ScanCommand, Mask
  <1>3. /\ Zeros(c.len) \in Seq({0, 1}) /\ Len(Zeros(c.len)) = c.len
        /\ Ones(c.len) \in Seq({0, 1}) /\ Len(Ones(c.len)) = c.len
    BY <1>2 DEF Zeros, Ones
  <1>4. NewMask(p, c) \in Seq({0, 1}) /\ Len(NewMask(p, c)) = c.len
    BY <1>2, <1>3 DEF NewMask, Para, Mask
  <1>5. NewPara(p, c, id).tdo \in 0 .. MaxCommands
    BY <1>2, ConstantsAssumption DEF NewPara, Para
  <1>6. QED
    BY <1>2, <1>4, <1>5 DEF NewPara, Para, Mask
-----------------------------------------------------------------------------
(* The list of comparisons.                                                *)

Undisturbed == UNCHANGED <<buf, pending, svf_buffer_index, mismatch, before>>

(* The list is empty: nothing was missed.                                  *)
LEMMA NothingKept ==
    ASSUME NEW index \in Nat
    PROVE  Kept(<< >>, << >>, index) /\ ~Missed(<< >>)
  BY DEF Kept, Missed

(* A failed comparison is one that was missed.                             *)
LEMMA MismatchIsMissed ==
    ASSUME NEW b, NEW list, NEW index, Kept(b, list, index)
    PROVE  Mismatch(b, list) <=> Missed(list)
  BY DEF Kept, Mismatch, Missed

(* svf_check_tdo(false) while playing.                                     *)
LEMMA CheckTdoKeeps ==
    ASSUME NEW b, NEW list, phase = "play", reported = FALSE, ~before',
           Kept(b, list, svf_buffer_index'), mismatch' <=> Missed(list),
           CheckTdo(b, list)
    PROVE  /\ Kept(buf', pending', svf_buffer_index') /\ Room' /\ Truth'
           /\ phase' \in {"play", "close"} /\ ret' \in {ret, "fail"}
           /\ reported' \in BOOLEAN
           /\ phase' = "play" <=> ~Mismatch(b, list)
  <1>1. Mismatch(b, list) <=> Missed(list)
    BY MismatchIsMissed
  <1>2. svf_buffer_index' \in Nat
    BY DEF Kept
  <1>3. CASE Mismatch(b, list)
    BY <1>1, <1>3 DEF CheckTdo, Fails, Room, Truth, Playing
  <1>4. CASE ~Mismatch(b, list)
    <2>1. pending' = << >> /\ buf' = << >> /\ UNCHANGED <<phase, ret, reported>>
      BY <1>4 DEF CheckTdo
    <2>2. Kept(buf', pending', svf_buffer_index') /\ ~Missed(pending')
      BY <1>2, <2>1, NothingKept
    <2>3. Room'
      BY <2>1, HalfList DEF Room
    <2>4. Truth'
      BY <1>1, <1>4, <2>1, <2>2 DEF Truth, Playing
    <2>5. QED
      BY <1>4, <2>1, <2>2, <2>3, <2>4
  <1>5. QED
    BY <1>3, <1>4

(* The end of a command.                                                   *)
LEMMA SettleKeeps ==
    ASSUME NEW b, NEW list, phase = "play", reported = FALSE, ~before',
           Kept(b, list, svf_buffer_index'), mismatch' <=> Missed(list),
           Settle(b, list)
    PROVE  /\ Kept(buf', pending', svf_buffer_index') /\ Room' /\ Truth'
           /\ phase' \in {"play", "close"} /\ ret' \in {ret, "fail"}
           /\ reported' \in BOOLEAN
  <1>1. CASE Len(list) >= ParaSize \div 2
    BY <1>1, CheckTdoKeeps DEF Settle
  <1>2. CASE ~(Len(list) >= ParaSize \div 2)
    <2>1. pending' = list /\ buf' = b /\ UNCHANGED <<phase, ret, reported>>
      BY <1>2 DEF Settle
    <2>2. Room'
      <3>1. Len(list) \in Nat
        BY DEF Kept
      <3>2. QED
        BY <1>2, <2>1, <3>1, HalfList DEF Room
    <2>3. Truth'
      BY <2>1 DEF Truth, Playing
    <2>4. QED
      BY <2>1, <2>2, <2>3
  <1>3. QED
    BY <1>1, <1>2

(* A command that neither scans nor loops.                                 *)
LEMMA SettleUnchangedKeeps ==
    ASSUME SInv, phase = "play", SettleUnchanged, UNCHANGED <<mismatch, before>>
    PROVE  /\ Kept(buf', pending', svf_buffer_index') /\ Room' /\ Truth'
           /\ phase' \in {"play", "close"} /\ ret' \in {ret, "fail"}
           /\ reported' \in BOOLEAN
  <1>1. /\ reported = FALSE /\ ~before'
        /\ Kept(buf, pending, svf_buffer_index')
        /\ mismatch' <=> Missed(pending)
        /\ Settle(buf, pending)
    BY DEF SInv, Types, Truth, Playing, SettleUnchanged
  <1>2. QED
    BY <1>1, SettleKeeps
-----------------------------------------------------------------------------
(* Storing a scan.                                                         *)

Entry(want, mask, wrong, tdo, base) ==
    [enabled |-> tdo, base |-> base, len |-> Len(want),
     miss |-> \E i \in wrong : mask[i] = 1]

(* A scan is stored behind all that waits, and compares as it ended.       *)
LEMMA StoredKeeps ==
    ASSUME NEW b, NEW list, NEW index, Kept(b, list, index),
           NEW want \in Seq(Int \X Int), \A j \in 1 .. Len(want) : want[j] # Wrong,
           NEW mask \in Seq({0, 1}), Len(mask) = Len(want),
           NEW wrong \in SUBSET (1 .. Len(want)),
           NEW tdo \in BOOLEAN, ~tdo => wrong = {}
    PROVE  LET base == ByteSize * index
           IN  Kept(Stored(b, base, want, mask, wrong, tdo),
                    Append(list, Entry(want, mask, wrong, tdo, base)),
                    Advance(index, Len(want)))
  <1>. DEFINE base == ByteSize * index
              n == Len(want)
              region == base + 1 .. base + ByteSize * Bytes(n)
              st == Stored(b, base, want, mask, wrong, tdo)
              entry == Entry(want, mask, wrong, tdo, base)
  <1>1. /\ n \in Nat /\ index \in Nat /\ base \in Nat
        /\ Bytes(n) \in Nat /\ n <= ByteSize * Bytes(n)
        /\ Advance(index, n) = index + Bytes(n)
        /\ ByteSize * Advance(index, n) = base + ByteSize * Bytes(n)
        /\ ByteSize * Bytes(n) \in Nat
    <2>1. n \in Nat /\ index \in Nat /\ base \in Nat /\ ByteSize \in Nat
      BY ConstantsAssumption DEF Kept
    <2>2. Bytes(n) \in Nat /\ n <= ByteSize * Bytes(n)
      BY <2>1, BytesHold
    <2>3. ByteSize * (index + Bytes(n)) = ByteSize * index + ByteSize * Bytes(n)
      BY <2>1, <2>2
    <2>4. QED
      BY <2>1, <2>2, <2>3 DEF Advance
  <1>2. DOMAIN st = DOMAIN b \cup region
    BY DEF Stored
  <1>3. ASSUME NEW i \in DOMAIN b, i \notin region
        PROVE  st[i] = b[i]
    BY <1>3 DEF Stored
  <1>4. ASSUME NEW i \in region, ~tdo \/ i - base > n
        PROVE  st[i] = [(IF i \in DOMAIN b THEN b[i] ELSE Blank) EXCEPT !.got = Wrong]
    BY <1>4 DEF Stored
  <1>5. ASSUME NEW i \in region, tdo, i - base <= n
        PROVE  st[i] = [got  |-> IF i - base \in wrong THEN Wrong ELSE want[i - base],
                        want |-> want[i - base], mask |-> mask[i - base]]
    BY <1>5, <1>1 DEF Stored
  <1>5a. /\ \A i \in region : i \in Int /\ i > base
         /\ \A j \in 1 .. n : base + j \in region
    BY SMTT(30), <1>1
  <1>5b. /\ n = Len(want) /\ Len(mask) = n /\ mask \in Seq({0, 1})
         /\ wrong \subseteq 1 .. n
         /\ entry.base = base /\ entry.len = n /\ entry.enabled = tdo
         /\ (entry.miss <=> \E i \in wrong : mask[i] = 1)
         /\ entry.miss \in BOOLEAN
         /\ entry = Entry(want, mask, wrong, tdo, base)
    BY DEF Entry
  <1>. HIDE DEF base, n, region, st, entry
  <1>6. ASSUME NEW i \in DOMAIN st
        PROVE  st[i] \in Bit
    <2>1. Wrong \in Int \X Int /\ Blank \in Bit
      BY DEF Wrong, Blank, Bit
    <2>2. i \in DOMAIN b => b[i] \in Bit
      BY DEF Kept
    <2>3. CASE i \notin region
      BY <1>2, <1>3, <2>2, <2>3
    <2>4. CASE i \in region /\ (~tdo \/ i - base > n)
      <3>. DEFINE old == IF i \in DOMAIN b THEN b[i] ELSE Blank
      <3>1. old \in Bit
        BY <2>1, <2>2
      <3>2. st[i] = [old EXCEPT !.got = Wrong]
        BY <1>4, <2>4
      <3>. HIDE DEF old
      <3>3. QED
        BY <2>1, <3>1, <3>2 DEF Bit
    <2>5. CASE i \in region /\ tdo /\ ~(i - base > n)
      <3>1. i - base \in 1 .. n
        BY <1>1, <1>5a, <2>5
      <3>2. want[i - base] \in Int \X Int /\ mask[i - base] \in {0, 1}
        BY <1>5b, <3>1, ElementOfSeq
      <3>3. i - base <= n
        BY <1>1, <2>5, <3>1
      <3>4. PICK got \in Int \X Int, right \in Int \X Int, bit \in {0, 1} :
              st[i] = [got |-> got, want |-> right, mask |-> bit]
        BY <1>5, <2>1, <2>5, <3>2, <3>3
      <3>5. QED
        BY <3>4 DEF Bit
    <2>6. QED
      BY <2>3, <2>4, <2>5
  <1>7. entry \in Comparison
    BY <1>1, <1>5b DEF Entry, Comparison
  <1>8. /\ Append(list, entry) \in Seq(Comparison)
        /\ Len(Append(list, entry)) = Len(list) + 1
        /\ \A i \in 1 .. Len(list) : Append(list, entry)[i] = list[i]
        /\ Append(list, entry)[Len(list) + 1] = entry
    BY <1>7, AppendProperties DEF Kept
  <1>9. ASSUME NEW i \in 1 .. Len(list)
        PROVE  /\ list[i].base + list[i].len <= ByteSize * Advance(index, n)
               /\ list[i].enabled => \A j \in list[i].base + 1 .. list[i].base + list[i].len :
                                        j \in DOMAIN st
               /\ Differs(st, list[i]) <=> list[i].miss
    <2>1. list[i] \in Comparison /\ list[i].base + list[i].len <= base
      BY DEF Kept, base
    <2>2. list[i].enabled =>
            \A j \in list[i].base + 1 .. list[i].base + list[i].len :
                j \in DOMAIN b /\ j \notin region
      BY SMTT(30), <1>1, <1>5a, <2>1 DEF Kept, Comparison
    <2>3. Differs(st, list[i]) <=> Differs(b, list[i])
      BY <1>3, <2>2 DEF Differs
    <2>4. list[i].base + list[i].len <= ByteSize * Advance(index, n)
      BY <1>1, <2>1 DEF Comparison
    <2>5. QED
      BY <1>2, <2>2, <2>3, <2>4 DEF Kept
  <1>10. /\ entry.base + entry.len <= ByteSize * Advance(index, n)
         /\ \A j \in entry.base + 1 .. entry.base + entry.len : j \in DOMAIN st
         /\ Differs(st, entry) <=> entry.miss
    <2>1. \A j \in base + 1 .. base + n : j \in region /\ j - base \in 1 .. n
      <3>. SUFFICES ASSUME NEW j \in base + 1 .. base + n
                    PROVE  j \in region /\ j - base \in 1 .. n
        OBVIOUS
      <3>1. j - base \in 1 .. n /\ base + (j - base) = j
        BY <1>1
      <3>2. QED
        BY <1>5a, <3>1
    <2>2. base + n <= ByteSize * Advance(index, n)
      BY <1>1
    <2>3. Differs(st, entry) <=> entry.miss
      <3>1. CASE ~tdo
        BY <1>5b, <3>1 DEF Differs
      <3>2. CASE tdo
        <4>1. ASSUME NEW j \in 1 .. n
              PROVE  /\ st[base + j].mask = mask[j]
                     /\ st[base + j].got # st[base + j].want <=> j \in wrong
          <5>1. base + j \in region /\ (base + j) - base = j /\ j <= n /\ want[j] # Wrong
            BY <1>1, <1>5a, <1>5b
          <5>2. st[base + j] = [got  |-> IF j \in wrong THEN Wrong ELSE want[j],
                                want |-> want[j], mask |-> mask[j]]
            BY <1>5, <3>2, <5>1
          <5>3. QED
            BY <5>1, <5>2
        <4>2. ASSUME NEW j \in wrong, mask[j] = 1
              PROVE  Differs(st, entry)
          <5>1. j \in 1 .. n /\ base + j \in base + 1 .. base + n
            BY <1>1, <1>5b
          <5>2. st[base + j].mask = 1 /\ st[base + j].got # st[base + j].want
            BY <4>1, <4>2, <5>1
          <5>3. base + j \in entry.base + 1 .. entry.base + entry.len /\ entry.enabled
            BY <1>5b, <3>2, <5>1
          <5>4. QED
            BY <5>2, <5>3, Zenon DEF Differs
        <4>3. ASSUME Differs(st, entry)
              PROVE  \E j \in wrong : mask[j] = 1
          <5>1. PICK i \in base + 1 .. base + n : st[i].mask = 1 /\ st[i].got # st[i].want
            BY <1>5b, <4>3 DEF Differs
          <5>2. i - base \in 1 .. n /\ base + (i - base) = i
            BY <1>1
          <5>3. mask[i - base] = 1 /\ i - base \in wrong
            BY <4>1, <5>1, <5>2
          <5>4. QED
            BY <5>3
        <4>4. QED
          BY <1>5b, <4>2, <4>3
      <3>3. QED
        BY <3>1, <3>2
    <2>4. QED
      BY <1>2, <1>5b, <2>1, <2>2, <2>3
  <1>11. ASSUME NEW i \in 1 .. Len(Append(list, entry))
         PROVE  LET e == Append(list, entry)[i]
                IN  /\ e.base + e.len <= ByteSize * Advance(index, n)
                    /\ e.enabled => \A j \in e.base + 1 .. e.base + e.len : j \in DOMAIN st
                    /\ Differs(st, e) <=> e.miss
    <2>1. CASE i = Len(list) + 1
      BY <1>8, <1>10, <2>1
    <2>2. CASE i # Len(list) + 1
      <3>1. i \in 1 .. Len(list) /\ Append(list, entry)[i] = list[i]
        BY <1>8, <2>2 DEF Kept
      <3>2. QED
        BY <1>9, <3>1
    <2>3. QED
      BY <2>1, <2>2
  <1>12. Advance(index, n) \in Nat
    BY <1>1
  <1>13. QED
    BY <1>6, <1>8, <1>11, <1>12 DEF Kept, base, n, st, entry
-----------------------------------------------------------------------------
(* The commands.                                                           *)

(* Reading a command leaves the player within the file.                    *)
LEMMA ReadsKeepPlace ==
    ASSUME Types, Place, NEW c \in Menu, Reads(c)
    PROVE  /\ phase = "play" /\ next \in 1 .. MaxCommands
           /\ file_offset' = file_offset => Place'
           /\ c.op = "LOOP" /\ file_offset' = next + 1 => Place'
  <1>1. /\ MaxCommands \in Nat /\ next \in Nat /\ file_offset \in Nat /\ Len(body) \in Nat
        /\ DOMAIN body = 1 .. Len(body) /\ phase = "play"
    BY SMTT(30), ConstantsAssumption DEF Place, Reads
  <1>2. CASE Known
    <2>1. /\ next - file_offset + 1 \in 1 .. Len(body)
          /\ c = body[next - file_offset + 1]
          /\ next' = IF c.op = "ENDLOOP" /\ Jumps THEN file_offset ELSE next + 1
          /\ body' = body
      BY <1>1, <1>2 DEF Reads, Known
    <2>2. c.op # "LOOP" /\ next <= MaxCommands
      BY <1>1, <2>1 DEF Place
    <2>3. QED
      BY <1>1, <2>1, <2>2 DEF Place
  <1>3. CASE ~Known
    <2>1. /\ next <= MaxCommands
          /\ next' = IF c.op = "ENDLOOP" /\ Jumps THEN file_offset ELSE next + 1
          /\ body' = IF loop > 0 /\ c.op # "LOOP" THEN Append(body, c) ELSE << >>
      BY <1>3 DEF Reads
    <2>2. file_offset + Len(body) <= next
      BY <1>1, <1>3 DEF Known, Place
    <2>3. CASE loop > 0 /\ c.op # "LOOP"
      <3>1. /\ body' \in Seq(Menu) /\ Len(body') = Len(body) + 1
            /\ \A i \in 1 .. Len(body') : body'[i].op # "LOOP"
        BY <1>1, <2>1, <2>3, AppendProperties DEF Place
      <3>2. QED
        BY <1>1, <2>1, <2>2, <2>3, <3>1 DEF Place
    <2>4. CASE ~(loop > 0 /\ c.op # "LOOP")
      <3>1. body' = << >> /\ body' \in Seq(Menu) /\ Len(body') = 0
        BY <2>1, <2>4
      <3>2. QED
        BY <1>1, <2>1, <3>1 DEF Place
    <2>5. QED
      BY <2>3, <2>4
  <1>4. QED
    BY <1>2, <1>3

(* A command that the player refuses.                                      *)
LEMMA RefuseKeeps ==
    ASSUME SInv, phase = "play", Place', Refuse
    PROVE  SInv'
  BY DEF SInv, Types, Kept, Differs, Room, Truth, Playing, Missed, LoopCount, TurnsBounded, TapStable, Refuse,
         Fails, looping, parameters, buffers

(* A command that sets parameters or moves the TAP.                        *)
LEMMA ParametersKeep ==
    ASSUME SInv, phase = "play", Place', SettleUnchanged, EndLoopStays,
           para' \in [Kinds -> Para],
           \A k \in Kinds : Len(para'[k].mask) = para'[k].len,
           ends' \in [dr : Stable, ir : Stable, run : Stable, runend : Stable],
           trst' \in TrstModes, tap' \in TapStates, upset' \in BOOLEAN,
           ~upset' => tap' \in Stable
    PROVE  SInv'
  <1>1. /\ Kept(buf', pending', svf_buffer_index') /\ Room' /\ Truth'
        /\ phase' \in {"play", "close"} /\ ret' \in {ret, "fail"} /\ reported' \in BOOLEAN
    BY SettleUnchangedKeeps DEF EndLoopStays, looping
  <1>2. Types'
    BY <1>1 DEF SInv, Types, EndLoopStays, looping
  <1>3. LoopCount' /\ TapStable'
    BY DEF SInv, LoopCount, TurnsBounded, TapStable, EndLoopStays, looping
  <1>4. QED
    BY <1>1, <1>2, <1>3 DEF SInv

LEMMA SetStateKeeps == SInv /\ SetState => SInv'
  <1>. SUFFICES ASSUME SInv, NEW c \in Menu, c.op \in {"ENDDR", "ENDIR"}, Reads(c), EndState(c)
                PROVE  SInv'
    BY DEF SetState
  <1>1. phase = "play" /\ (file_offset' = file_offset => Place')
    BY ReadsKeepPlace DEF SInv
  <1>2. CASE c.state \notin Stable
    BY <1>1, <1>2, RefuseKeeps DEF EndState, Refuse, looping
  <1>3. CASE c.state \in Stable
    <2>1. /\ SettleUnchanged /\ EndLoopStays /\ UNCHANGED <<upset, tap, para, trst>>
          /\ ends' \in [dr : Stable, ir : Stable, run : Stable, runend : Stable]
      BY <1>3 DEF EndState, Other, SInv, Types
    <2>2. Place'
      BY <1>1, <2>1 DEF EndLoopStays, looping
    <2>3. QED
      BY <1>1, <2>1, <2>2, ParametersKeep DEF SInv, Types, TapStable
  <1>4. QED
    BY <1>2, <1>3

LEMMA SetFrequencyKeeps == SInv /\ SetFrequency => SInv'
  <1>. SUFFICES ASSUME SInv, NEW c \in Menu, Reads(c), Frequency
                PROVE  SInv'
    BY DEF SetFrequency
  <1>1. phase = "play" /\ (file_offset' = file_offset => Place')
    BY ReadsKeepPlace DEF SInv
  <1>2. SettleUnchanged /\ EndLoopStays /\ UNCHANGED <<upset, tap, para, ends, trst>>
    BY DEF Frequency, Other, parameters
  <1>3. Place'
    BY <1>1, <1>2 DEF EndLoopStays, looping
  <1>4. QED
    BY <1>1, <1>2, <1>3, ParametersKeep DEF SInv, Types, TapStable

LEMMA SetTrstKeeps == SInv /\ SetTrst => SInv'
  <1>. SUFFICES ASSUME SInv, NEW c \in Menu, c.op = "TRST", Reads(c), Trst(c)
                PROVE  SInv'
    BY DEF SetTrst
  <1>1. phase = "play" /\ (file_offset' = file_offset => Place')
    BY ReadsKeepPlace DEF SInv
  <1>2. CASE trst = "ABSENT"
    BY <1>1, <1>2, RefuseKeeps DEF Trst, Refuse, looping
  <1>3. CASE trst # "ABSENT"
    <2>1. /\ SettleUnchanged /\ EndLoopStays /\ UNCHANGED <<upset, tap, para, ends>>
          /\ trst' = c.mode
      BY <1>3 DEF Trst, Other
    <2>2. c.mode \in TrstModes
      BY ConstantsAssumption DEF Command, ScanCommand, Kinds
    <2>3. Place'
      BY <1>1, <2>1 DEF EndLoopStays, looping
    <2>4. QED
      BY <1>1, <2>1, <2>2, <2>3, ParametersKeep DEF SInv, Types, TapStable
  <1>4. QED
    BY <1>2, <1>3

LEMMA SetPaddingKeeps == SInv /\ SetPadding => SInv'
  <1>. SUFFICES ASSUME SInv, NEW c \in Menu, c.op \in Kinds, Reads(c), Padding(c, next)
                PROVE  SInv'
    BY DEF SetPadding
  <1>1. /\ phase = "play" /\ next \in 0 .. MaxCommands
        /\ (file_offset' = file_offset => Place')
    BY ReadsKeepPlace, ConstantsAssumption DEF SInv
  <1>2. /\ SettleUnchanged /\ EndLoopStays /\ UNCHANGED <<upset, tap, ends, trst>>
        /\ para' = [para EXCEPT ![c.op] = NewPara(para[c.op], c, next)]
    BY DEF Padding, Other
  <1>3. /\ NewPara(para[c.op], c, next) \in Para
        /\ Len(NewPara(para[c.op], c, next).mask) = NewPara(para[c.op], c, next).len
    BY <1>1, NewParaType DEF SInv, Types
  <1>4. /\ para' \in [Kinds -> Para]
        /\ \A k \in Kinds : Len(para'[k].mask) = para'[k].len
    BY <1>2, <1>3 DEF SInv, Types
  <1>5. Place'
    BY <1>1, <1>2 DEF EndLoopStays, looping
  <1>6. QED
    BY <1>1, <1>2, <1>4, <1>5, ParametersKeep DEF SInv, Types, TapStable

LEMMA RunTestKeeps == SInv /\ DoRunTest => SInv'
  <1>. SUFFICES ASSUME SInv, NEW c \in Menu, Reads(c), RunTest(c)
                PROVE  SInv'
    BY DEF DoRunTest
  <1>1. phase = "play" /\ (file_offset' = file_offset => Place')
    BY ReadsKeepPlace DEF SInv
  <1>2. CASE Refuse
    BY <1>1, <1>2, RefuseKeeps DEF Refuse, looping
  <1>3. CASE ~Refuse
    <2>1. PICK run \in Stable, end \in Stable :
             /\ ends' = [ends EXCEPT !.run = run, !.runend = end]
             /\ \/ tap' = end /\ UNCHANGED upset
                \/ ~upset /\ upset' = TRUE /\ tap' \in {tap, run, end}
             /\ SettleUnchanged /\ EndLoopStays
             /\ UNCHANGED <<para, trst>>
      BY <1>3 DEF RunTest
    <2>2. Place'
      BY <1>1, <2>1 DEF EndLoopStays, looping
    <2>3. ends' \in [dr : Stable, ir : Stable, run : Stable, runend : Stable]
      BY <2>1 DEF SInv, Types
    <2>4. tap' \in TapStates /\ upset' \in BOOLEAN /\ (~upset' => tap' \in Stable)
      BY <2>1 DEF SInv, Types, Stable, TapStates
    <2>5. QED
      BY <1>1, <2>1, <2>2, <2>3, <2>4, ParametersKeep DEF SInv, Types
  <1>4. QED
    BY <1>2, <1>3

LEMMA StateKeeps == SInv /\ DoState => SInv'
  <1>. SUFFICES ASSUME SInv, NEW c \in Menu, Reads(c), State(c)
                PROVE  SInv'
    BY DEF DoState
  <1>1. phase = "play" /\ (file_offset' = file_offset => Place')
    BY ReadsKeepPlace DEF SInv
  <1>2. CASE c.state \notin Stable
    BY <1>1, <1>2, RefuseKeeps DEF State, Refuse, looping
  <1>3. CASE c.state \in Stable
    <2>1. /\ SettleUnchanged /\ EndLoopStays /\ UNCHANGED parameters
          /\ \/ tap' = c.state /\ UNCHANGED upset
             \/ upset' = TRUE /\ UNCHANGED tap
      BY <1>3 DEF State
    <2>2. Place'
      BY <1>1, <2>1 DEF EndLoopStays, looping
    <2>3. tap' \in TapStates /\ upset' \in BOOLEAN /\ (~upset' => tap' \in Stable)
      BY <1>3, <2>1 DEF SInv, Types, Stable, TapStates
    <2>4. QED
      BY <1>1, <2>1, <2>2, <2>3, ParametersKeep DEF SInv, Types, parameters
  <1>4. QED
    BY <1>2, <1>3

LEMMA UnknownKeeps == SInv /\ Unknown => SInv'
  BY ReadsKeepPlace, RefuseKeeps DEF SInv, Unknown, Refuse, looping
-----------------------------------------------------------------------------
(* Scans.                                                                  *)

LEMMA ThreeParts ==
    ASSUME NEW S, NEW s \in Seq(S), NEW t \in Seq(S), NEW u \in Seq(S)
    PROVE  s \o t \o u \in Seq(S) /\ Len(s \o t \o u) = Len(s) + Len(t) + Len(u)
  <1>1. s \o t \in Seq(S) /\ Len(s \o t) = Len(s) + Len(t)
    BY ConcatProperties
  <1>2. QED
    BY <1>1, ConcatProperties

(* What is expected of a scan and its mask have the scan's length, and no  *)
(* expected bit is the wrong one.                                          *)
LEMMA WantAndMask ==
    ASSUME NEW ps \in [Kinds -> Para], \A k \in Kinds : Len(ps[k].mask) = ps[k].len,
           NEW k \in {"SDR", "SIR"}
    PROVE  LET n == ps[Head3(k)].len + ps[k].len + ps[Tail3(k)].len
           IN  /\ n \in Nat
               /\ Want(ps, k) \in Seq(Int \X Int) /\ Len(Want(ps, k)) = n
               /\ \A j \in 1 .. n : Want(ps, k)[j] # Wrong
               /\ Masks(ps, k) \in Seq({0, 1}) /\ Len(Masks(ps, k)) = n
  <1>. DEFINE Good == { v \in Int \X Int : v # Wrong }
              h == Head3(k)
              t == Tail3(k)
  <1>1. h \in Kinds /\ k \in Kinds /\ t \in Kinds
    BY DEF Head3, Tail3, Kinds
  <1>2. ASSUME NEW q \in Kinds
        PROVE  /\ ps[q].len \in Nat /\ ps[q].mask \in Seq({0, 1}) /\ Len(ps[q].mask) = ps[q].len
               /\ Expected(ps[q]) \in Seq(Good) /\ Len(Expected(ps[q])) = ps[q].len
    <2>1. /\ ps[q].len \in Nat /\ ps[q].tdo \in Int
          /\ ps[q].mask \in Seq({0, 1}) /\ Len(ps[q].mask) = ps[q].len
      BY ConstantsAssumption DEF Para, Mask
    <2>2. \A j \in 1 .. ps[q].len : <<ps[q].tdo, j>> \in Good
      BY <2>1 DEF Wrong
    <2>3. QED
      BY <2>1, <2>2 DEF Expected
  <1>. HIDE DEF Good, h, t
  <1>3. /\ Expected(ps[h]) \in Seq(Good) /\ Len(Expected(ps[h])) = ps[h].len
        /\ Expected(ps[k]) \in Seq(Good) /\ Len(Expected(ps[k])) = ps[k].len
        /\ Expected(ps[t]) \in Seq(Good) /\ Len(Expected(ps[t])) = ps[t].len
    BY <1>1, <1>2
  <1>4. /\ ps[h].mask \in Seq({0, 1}) /\ Len(ps[h].mask) = ps[h].len
        /\ ps[k].mask \in Seq({0, 1}) /\ Len(ps[k].mask) = ps[k].len
        /\ ps[t].mask \in Seq({0, 1}) /\ Len(ps[t].mask) = ps[t].len
    BY <1>1, <1>2
  <1>. DEFINE eh == Expected(ps[h])
              ek == Expected(ps[k])
              et == Expected(ps[t])
              mh == ps[h].mask
              mk == ps[k].mask
              mt == ps[t].mask
  <1>. HIDE DEF eh, ek, et, mh, mk, mt
  <1>4a. eh \in Seq(Good) /\ ek \in Seq(Good) /\ et \in Seq(Good)
    BY <1>3 DEF eh, ek, et
  <1>4b. mh \in Seq({0, 1}) /\ mk \in Seq({0, 1}) /\ mt \in Seq({0, 1})
    BY <1>4 DEF mh, mk, mt
  <1>4c. eh \o ek \o et \in Seq(Good) /\ Len(eh \o ek \o et) = Len(eh) + Len(ek) + Len(et)
    BY <1>4a, ThreeParts
  <1>4d. mh \o mk \o mt \in Seq({0, 1}) /\ Len(mh \o mk \o mt) = Len(mh) + Len(mk) + Len(mt)
    BY <1>4b, ThreeParts
  <1>5. /\ Want(ps, k) \in Seq(Good)
        /\ Len(Want(ps, k)) = ps[h].len + ps[k].len + ps[t].len
        /\ Masks(ps, k) \in Seq({0, 1})
        /\ Len(Masks(ps, k)) = ps[h].len + ps[k].len + ps[t].len
    BY <1>3, <1>4, <1>4c, <1>4d DEF Want, Masks, h, t, eh, ek, et, mh, mk, mt
  <1>6. ps[h].len + ps[k].len + ps[t].len \in Nat
    BY <1>1, <1>2
  <1>7. Good \subseteq Int \X Int /\ \A v \in Good : v # Wrong
    BY DEF Good
  <1>8. Want(ps, k) \in Seq(Int \X Int)
    BY <1>5, <1>7, SeqMonotonic
  <1>9. \A j \in 1 .. Len(Want(ps, k)) : Want(ps, k)[j] # Wrong
    BY <1>5, <1>7, ElementOfSeq
  <1>10. QED
    BY <1>5, <1>6, <1>8, <1>9 DEF h, t

(* The TAP rests after a scan that went well.                              *)
LEMMA ScanTapRests ==
    ASSUME SInv, NEW k \in {"SDR", "SIR"}, NEW bits \in Nat, ScanTap(k, bits)
    PROVE  /\ tap' \in TapStates /\ upset' \in BOOLEAN
           /\ ~upset' => tap' \in Stable
  BY DEF SInv, Types, ScanTap, Stable, TapStates

LEMMA ScanKeeps == SInv /\ DoScan => SInv'
  <1>. SUFFICES ASSUME SInv, NEW c \in Menu, c.op \in {"SDR", "SIR"}, Reads(c), Scan(c, next)
                PROVE  SInv'
    BY DEF DoScan
  <1>. DEFINE k == c.op
              new == NewPara(para[k], c, next)
              ps == [para EXCEPT ![k] = new]
              n == ps[Head3(k)].len + c.len + ps[Tail3(k)].len
              base == ByteSize * svf_buffer_index
              want == Want(ps, k)
              mask == Masks(ps, k)
  <1>1. /\ phase = "play" /\ next \in 0 .. MaxCommands
        /\ (file_offset' = file_offset => Place')
    BY ReadsKeepPlace, ConstantsAssumption DEF SInv
  <1>2. /\ new \in Para /\ Len(new.mask) = new.len /\ new.len = c.len /\ c.tdo \in BOOLEAN
        /\ k \in Kinds
    BY <1>1, NewParaType DEF SInv, Types, Kinds
  <1>3. /\ ps \in [Kinds -> Para] /\ \A q \in Kinds : Len(ps[q].mask) = ps[q].len
        /\ ps[k].len = c.len
    BY <1>2 DEF SInv, Types
  <1>. HIDE DEF new, ps
  <1>4. /\ n \in Nat /\ want \in Seq(Int \X Int) /\ Len(want) = n
        /\ \A j \in 1 .. n : want[j] # Wrong
        /\ mask \in Seq({0, 1}) /\ Len(mask) = n
    BY <1>3, WantAndMask
  <1>. HIDE DEF n, want, mask, k
  <1>5. /\ para' = ps /\ ScanTap(k, n)
        /\ svf_buffer_index' = Advance(svf_buffer_index, n)
        /\ UNCHANGED <<loop, file_offset, before, turns, rounds, ends, trst>>
    BY DEF Scan, k, ps, new, n, looping
  <1>6. PICK wrong \in SUBSET (1 .. n) :
          /\ ~c.tdo => wrong = {}
          /\ mismatch' = (mismatch \/ \E i \in wrong : mask[i] = 1)
          /\ Settle(Stored(buf, base, want, mask, wrong, c.tdo),
                    AddCheck(pending, Entry(want, mask, wrong, c.tdo, base)))
    <2>1. PICK wrong \in IF c.tdo THEN Deviations ELSE {{}} :
            /\ wrong \subseteq 1 .. n
            /\ mismatch' = (mismatch \/ \E i \in wrong : mask[i] = 1)
            /\ \E b \in {Stored(buf, base, want, mask, wrong, c.tdo)} :
                 Settle(b, AddCheck(pending, [enabled |-> c.tdo, base |-> base, len |-> n,
                                              miss |-> \E i \in wrong : mask[i] = 1]))
      BY DEF Scan, k, ps, new, n, want, mask
    <2>2. QED
      BY <1>4, <2>1 DEF Entry
  <1>. DEFINE entry == Entry(want, mask, wrong, c.tdo, base)
              b == Stored(buf, base, want, mask, wrong, c.tdo)
              list == Append(pending, entry)
  <1>7. AddCheck(pending, entry) = list
    <2>1. Len(pending) \in Nat /\ Len(pending) < ParaSize \div 2
      BY <1>1 DEF SInv, Room, Playing, Kept
    <2>2. ~(Len(pending) >= ParaSize)
      BY <2>1, HalfList, ConstantsAssumption
    <2>3. QED
      BY <2>2 DEF AddCheck
  <1>8. Kept(b, list, svf_buffer_index')
    BY <1>2, <1>4, <1>5, <1>6, StoredKeeps DEF SInv
  <1>9. Missed(list) <=> Missed(pending) \/ \E i \in wrong : mask[i] = 1
    <2>1. /\ list \in Seq(Comparison) /\ pending \in Seq(Comparison)
          /\ entry.miss <=> \E i \in wrong : mask[i] = 1
      BY <1>8 DEF SInv, Kept, Entry
    <2>. HIDE DEF entry
    <2>2. /\ Len(list) = Len(pending) + 1 /\ Len(pending) \in Nat
          /\ list[Len(pending) + 1] = entry
          /\ \A i \in 1 .. Len(pending) : list[i] = pending[i]
      BY <2>1
    <2>3. Missed(list) <=> Missed(pending) \/ entry.miss
      BY <2>2 DEF Missed
    <2>4. QED
      BY <2>1, <2>3
  <1>. HIDE DEF b, list
  <1>10. /\ reported = FALSE /\ ~before' /\ (mismatch' <=> Missed(list))
         /\ mismatch' \in BOOLEAN
    BY <1>1, <1>5, <1>6, <1>9 DEF SInv, Types, Truth, Playing
  <1>11. Settle(b, list)
    BY <1>6, <1>7 DEF b
  <1>12. /\ Kept(buf', pending', svf_buffer_index') /\ Room' /\ Truth'
         /\ phase' \in {"play", "close"} /\ ret' \in {ret, "fail"}
         /\ reported' \in BOOLEAN
    BY <1>1, <1>8, <1>10, <1>11, SettleKeeps
  <1>13. tap' \in TapStates /\ upset' \in BOOLEAN /\ (~upset' => tap' \in Stable)
    BY <1>4, <1>5, ScanTapRests DEF k
  <1>14. Types'
    BY <1>3, <1>5, <1>10, <1>12, <1>13 DEF SInv, Types
  <1>15. Place' /\ LoopCount' /\ TapStable'
    BY <1>1, <1>5, <1>13 DEF SInv, LoopCount, TurnsBounded, TapStable
  <1>16. QED
    BY <1>12, <1>14, <1>15 DEF SInv
-----------------------------------------------------------------------------
(* Loops.                                                                  *)

LEMMA LoopKeeps == SInv /\ DoLoop => SInv'
  <1>. SUFFICES ASSUME SInv, NEW c \in Menu, c.op = "LOOP", Reads(c), LoopBegins(c)
                PROVE  SInv'
    BY DEF DoLoop
  <1>1. /\ phase = "play" /\ c.n \in Int
        /\ (file_offset' = file_offset \/ file_offset' = next + 1 => Place')
    BY ReadsKeepPlace, ConstantsAssumption DEF SInv, Command, ScanCommand, Kinds
  <1>2. /\ CheckTdo(buf, pending)
        /\ UNCHANGED <<para, ends, trst, svf_buffer_index, tap, upset, mismatch>>
    BY DEF LoopBegins, parameters
  <1>3. /\ reported = FALSE /\ ~before
        /\ Kept(buf, pending, svf_buffer_index') /\ (mismatch' <=> Missed(pending))
        /\ (Mismatch(buf, pending) <=> Missed(pending))
    BY <1>1, <1>2, MismatchIsMissed DEF SInv, Types, Truth, Playing
  <1>4. /\ Place' /\ ~before' /\ LoopCount'
        /\ loop' \in Int /\ turns' \in Nat /\ rounds' \in Int /\ before' \in BOOLEAN
    <2>1. CASE Mismatch(buf, pending)
      <3>1. UNCHANGED <<loop, file_offset, before, turns, rounds>>
        BY <2>1 DEF LoopBegins, looping
      <3>2. QED
        BY <1>1, <1>3, <3>1 DEF SInv, Types, LoopCount, TurnsBounded
    <2>2. CASE ~Mismatch(buf, pending)
      <3>1. /\ loop' = c.n - 1 /\ file_offset' = next + 1
            /\ before' = mismatch /\ turns' = 1 /\ rounds' = c.n
        BY <2>2 DEF LoopBegins
      <3>2. ~mismatch
        BY <1>2, <1>3, <2>2
      <3>3. QED
        BY <1>1, <3>1, <3>2 DEF SInv, Types, LoopCount, TurnsBounded
    <2>3. QED
      BY <2>1, <2>2
  <1>5. /\ Kept(buf', pending', svf_buffer_index') /\ Room' /\ Truth'
        /\ phase' \in {"play", "close"} /\ ret' \in {ret, "fail"} /\ reported' \in BOOLEAN
    BY <1>1, <1>2, <1>3, <1>4, CheckTdoKeeps
  <1>6. Types' /\ TapStable'
    BY <1>1, <1>2, <1>4, <1>5 DEF SInv, Types, TapStable
  <1>7. QED
    BY <1>4, <1>5, <1>6 DEF SInv

LEMMA EndLoopKeeps == SInv /\ DoEndLoop => SInv'
  <1>. SUFFICES ASSUME SInv, NEW c \in Menu, c.op = "ENDLOOP", Reads(c), EndLoop,
                       UNCHANGED <<para, ends, trst, tap, upset>>
                PROVE  SInv'
    BY DEF DoEndLoop, parameters
  <1>1. phase = "play" /\ (file_offset' = file_offset => Place')
    BY ReadsKeepPlace DEF SInv
  <1>2. /\ Mismatch(buf, pending) <=> Missed(pending)
        /\ ~before /\ ~reported /\ (mismatch <=> Missed(pending))
        /\ svf_buffer_index \in Nat
    BY <1>1, MismatchIsMissed DEF SInv, Truth, Playing, Kept
  <1>3. CASE loop > 0
    <2>1. /\ pending' = << >> /\ buf' = << >>
          /\ UNCHANGED <<phase, ret, reported, svf_buffer_index, file_offset, before, rounds>>
          /\ mismatch' = (IF Jumps THEN before ELSE mismatch)
          /\ IF Jumps THEN loop' = loop - 1 /\ turns' = turns + 1
                      ELSE loop' = 0 /\ turns' = turns
      BY <1>3 DEF EndLoop, SInv, Types
    <2>2. Kept(buf', pending', svf_buffer_index') /\ ~Missed(pending')
      BY <1>2, <2>1, NothingKept
    <2>3. ~mismatch'
      BY <1>2, <1>3, <2>1 DEF Jumps
    <2>4. Truth' /\ Room'
      BY <1>1, <1>2, <2>1, <2>2, <2>3, HalfList DEF Truth, Playing, Room
    <2>5. LoopCount'
      BY <1>3, <2>1 DEF SInv, Types, LoopCount, TurnsBounded
    <2>6. Types' /\ Place' /\ TapStable'
      BY <1>1, <1>3, <2>1 DEF SInv, Types, TapStable
    <2>7. QED
      BY <2>2, <2>4, <2>5, <2>6 DEF SInv
  <1>4. CASE ~(loop > 0)
    <2>1. SettleUnchanged /\ EndLoopStays
      BY <1>4 DEF EndLoop, Jumps, SInv, Types
    <2>2. Place'
      BY <1>1, <2>1 DEF EndLoopStays, looping
    <2>3. QED
      BY <1>1, <2>1, <2>2, ParametersKeep DEF SInv, Types, TapStable
  <1>5. QED
    BY <1>3, <1>4
-----------------------------------------------------------------------------
(* The run.                                                                *)

LEMMA InitializeKeeps == SInv /\ Initialize => SInv'
  <1>. SUFFICES ASSUME SInv, Initialize
                PROVE  SInv'
    OBVIOUS
  <1>1. /\ phase = "start" /\ phase' \in {"play", "done"} /\ ret' \in {ret, "fail"}
        /\ tap' \in {"RESET", "IDLE"}
        /\ UNCHANGED <<next, body, loop, file_offset, before, turns, rounds, para, ends,
                       trst, pending, buf, svf_buffer_index, reported, upset, mismatch>>
    BY DEF Initialize, reading, looping, parameters, buffers
  <1>2. Missed(pending') <=> Missed(pending)
    BY <1>1
  <1>3. Kept(buf', pending', svf_buffer_index')
    BY <1>1 DEF SInv
  <1>4. Types' /\ Place' /\ Room' /\ LoopCount' /\ TapStable'
    BY <1>1 DEF SInv, Types, Place, Room, Playing, LoopCount, TurnsBounded, TapStable, Stable, TapStates
  <1>5. Truth'
    BY <1>1, <1>2 DEF SInv, Types, Truth, Playing
  <1>6. QED
    BY <1>3, <1>4, <1>5 DEF SInv

LEMMA EndOfFileKeeps == SInv /\ EndOfFile => SInv'
  BY DEF SInv, Types, Place, Kept, Differs, Room, Truth, Playing, Missed, LoopCount, TurnsBounded, TapStable,
         EndOfFile, reading, looping, parameters, buffers

LEMMA CloseKeeps == SInv /\ Close => SInv'
  <1>. SUFFICES ASSUME SInv, Close
                PROVE  SInv'
    OBVIOUS
  <1>1. /\ phase = "close" /\ phase' = "done"
        /\ reported' = (reported \/ Mismatch(buf, pending))
        /\ pending' = << >> /\ buf' = << >> /\ svf_buffer_index' = 0
        /\ UNCHANGED <<ret, next, body, loop, file_offset, before, turns, rounds, para, ends,
                       trst, tap, upset, mismatch>>
    BY DEF Close, reading, looping, parameters
  <1>2. Kept(buf', pending', svf_buffer_index')
    BY <1>1, NothingKept
  <1>3. Mismatch(buf, pending) <=> Missed(pending)
    BY MismatchIsMissed DEF SInv
  <1>4. Truth' /\ reported' \in BOOLEAN
    BY <1>1, <1>3 DEF SInv, Types, Truth, Playing
  <1>5. Types' /\ Place' /\ Room' /\ LoopCount' /\ TapStable'
    BY <1>1, <1>4 DEF SInv, Types, Place, Room, Playing, LoopCount, TurnsBounded, TapStable
  <1>6. QED
    BY <1>2, <1>4, <1>5 DEF SInv

LEMMA StutterKeeps == SInv /\ UNCHANGED vars => SInv'
  BY DEF SInv, Types, Place, Kept, Differs, Room, Truth, Playing, Missed, LoopCount, TurnsBounded, TapStable,
         vars, reading, looping, parameters, buffers

LEMMA InitSInv == Init => SInv
  <1>. SUFFICES ASSUME Init
                PROVE  SInv
    OBVIOUS
  <1>1. Types
    <2>1. NoPara \in Para /\ Len(NoPara.mask) = NoPara.len
      BY ConstantsAssumption DEF NoPara, Para, Mask
    <2>2. /\ para \in [Kinds -> Para]
          /\ \A k \in Kinds : Len(para[k].mask) = para[k].len
      BY <2>1 DEF Init
    <2>3. ends \in [dr : Stable, ir : Stable, run : Stable, runend : Stable]
      BY DEF Init, Stable
    <2>4. /\ phase = "start" /\ ret = "ok" /\ loop = 0 /\ turns = 0 /\ rounds = 0
          /\ trst = "Z" /\ tap = "RESET"
          /\ reported = FALSE /\ upset = FALSE /\ mismatch = FALSE /\ before = FALSE
      BY DEF Init
    <2>5. loop \in Int /\ turns \in Nat /\ rounds \in Int /\ tap \in TapStates /\ trst \in TrstModes
      BY <2>4 DEF TapStates, TrstModes
    <2>6. /\ phase \in {"start", "play", "close", "done"} /\ ret \in {"ok", "fail"}
          /\ reported \in BOOLEAN /\ upset \in BOOLEAN
          /\ mismatch \in BOOLEAN /\ before \in BOOLEAN
      BY <2>4
    <2>7. QED
      BY <2>2, <2>3, <2>5, <2>6 DEF Types
  <1>2. Place
    BY ConstantsAssumption DEF Init, Place
  <1>3. Kept(buf, pending, svf_buffer_index) /\ ~Missed(pending)
    BY NothingKept DEF Init
  <1>4. Room /\ Truth
    BY <1>3, HalfList DEF Init, Room, Truth, Playing
  <1>5. LoopCount /\ TapStable
    BY DEF Init, LoopCount, TurnsBounded, TapStable
  <1>6. QED
    BY <1>1, <1>2, <1>3, <1>4, <1>5 DEF SInv

(* The invariant holds in every state of every run.                        *)
THEOREM Invariance == Spec => []SInv
  <1>1. SInv /\ [Next]_vars => SInv'
    BY InitializeKeeps, EndOfFileKeeps, CloseKeeps, SetStateKeeps, SetFrequencyKeeps,
       SetTrstKeeps, SetPaddingKeeps, ScanKeeps, RunTestKeeps, StateKeeps, LoopKeeps,
       EndLoopKeeps, UnknownKeeps, StutterKeeps
    DEF Next
  <1>2. QED
    BY InitSInv, <1>1, PTL DEF Spec

(* The types of the player's state, in every run of svf_run_command.       *)
THEOREM TypeCorrect == Spec => []TypeOK
  <1>1. SInv => TypeOK
    <2>. SUFFICES ASSUME SInv
                  PROVE  TypeOK
      OBVIOUS
    <2>1. MaxCommands \in Nat /\ next \in 1 .. MaxCommands + 1
          /\ file_offset \in 1 .. MaxCommands + 1
      BY ConstantsAssumption DEF SInv, Place
    <2>2. \A k \in Kinds : /\ para[k].len \in Nat /\ para[k].tdo \in 0 .. MaxCommands
                           /\ para[k].mask \in Mask /\ Len(para[k].mask) = para[k].len
      BY DEF SInv, Types, Para
    <2>3. {ends.dr, ends.ir, ends.run, ends.runend} \subseteq Stable
      BY DEF SInv, Types
    <2>4. QED
      BY <2>1, <2>2, <2>3 DEF SInv, Types, Place, Kept, TypeOK
  <1>2. QED
    BY Invariance, <1>1, PTL

(* What waits in svf_check_tdo_para is compared as its own scan ended,     *)
(* whatever is scanned in between.                                         *)
THEOREM ComparisonsIntact == Spec => []PendingIntact
  <1>1. SInv => PendingIntact
    <2>. SUFFICES ASSUME SInv
                  PROVE  PendingIntact
      OBVIOUS
    <2>1. pending \in Seq(Comparison) /\ DOMAIN pending = 1 .. Len(pending)
          /\ Len(pending) \in Nat
      BY DEF SInv, Kept
    <2>2. \A i \in DOMAIN pending : Differs(buf, pending[i]) <=> pending[i].miss
      BY <2>1 DEF SInv, Kept
    <2>3. phase = "play" => Len(pending) < ParaSize
      BY <2>1, HalfList, ConstantsAssumption DEF SInv, Room, Playing
    <2>4. QED
      BY <2>2, <2>3 DEF PendingIntact
  <1>2. QED
    BY Invariance, <1>1, PTL

(* An error is reported exactly for a scan that did not match.             *)
THEOREM ErrorsReported == Spec => []ReportsTrue
  <1>1. SInv => ReportsTrue
    BY DEF SInv, Types, Truth, ReportsTrue
  <1>2. QED
    BY Invariance, <1>1, PTL

(* What LoopBound says of a step.                                          *)
TurnStep == (GoesOn => ~mismatch) /\ (Repeats => mismatch)

(* A LOOP begins with the first turn, inside another loop, too.            *)
LEMMA LoopTurns == SInv /\ DoLoop => TurnStep
  <1>. SUFFICES ASSUME SInv, NEW c \in Menu, c.op = "LOOP", LoopBegins(c)
                PROVE  ~GoesOn /\ ~Repeats
    BY DEF DoLoop, TurnStep
  <1>1. c.n \in Int /\ turns \in Nat
    BY ConstantsAssumption DEF SInv, Types, Command, ScanCommand, Kinds
  <1>2. CASE UNCHANGED <<loop, turns>>
    BY <1>1, <1>2 DEF GoesOn, Repeats
  <1>3. CASE loop' = c.n - 1 /\ turns' = 1 /\ rounds' = c.n
    BY <1>1, <1>3 DEF GoesOn, Repeats
  <1>4. QED
    BY <1>2, <1>3 DEF LoopBegins, looping

(* ENDLOOP decides by all comparisons of the turn: all are pending.        *)
LEMMA EndLoopTurns == SInv /\ DoEndLoop => TurnStep
  <1>. SUFFICES ASSUME SInv, phase = "play", EndLoop
                PROVE  TurnStep
    BY DEF DoEndLoop, Reads
  <1>1. Mismatch(buf, pending) <=> mismatch
    <2>1. Mismatch(buf, pending) <=> Missed(pending)
      BY MismatchIsMissed DEF SInv
    <2>2. mismatch <=> Missed(pending)
      BY DEF SInv, Truth
    <2>3. QED
      BY <2>1, <2>2
  <1>2. loop \in Int /\ turns \in Nat
    BY DEF SInv, Types
  <1>3. CASE loop > 0 /\ ~Jumps
    <2>1. turns' = turns
      BY <1>2, <1>3 DEF EndLoop, Jumps
    <2>2. ~mismatch
      BY <1>1, <1>3 DEF Jumps
    <2>3. QED
      BY <1>2, <2>1, <2>2 DEF TurnStep, Repeats
  <1>4. CASE Jumps
    <2>1. /\ loop' = loop - 1 /\ turns' = turns + 1 /\ rounds' = rounds
          /\ loop = rounds - turns /\ rounds \in Int
      BY <1>4 DEF EndLoop, Jumps, SInv, Types, LoopCount
    <2>2. ~GoesOn
      BY <1>2, <2>1 DEF GoesOn
    <2>3. mismatch
      BY <1>1, <1>4 DEF Jumps
    <2>4. QED
      BY <2>2, <2>3 DEF TurnStep
  <1>5. CASE ~(loop > 0)
    <2>1. UNCHANGED turns
      BY <1>5 DEF EndLoop, EndLoopStays, looping, Jumps
    <2>2. QED
      BY <1>2, <1>5, <2>1 DEF TurnStep, GoesOn, Repeats
  <1>6. QED
    BY <1>3, <1>4, <1>5

(* No loop is played more often than LOOP says; ENDLOOP goes on before     *)
(* that only if all scans of the turn matched, and repeats only if one     *)
(* did not.                                                                *)
THEOREM LoopsBounded == Spec => LoopBound
  <1>1. SInv' => TurnsBounded'
    BY DEF SInv, LoopCount
  <1>2. SInv /\ SInv' /\ [Next]_vars
          => [TurnsBounded' /\ (GoesOn => ~mismatch) /\ (Repeats => mismatch)]_vars
    <2>. SUFFICES ASSUME SInv, SInv', [Next]_vars
                  PROVE  TurnStep
      BY <1>1 DEF TurnStep
    <2>1. CASE DoLoop
      BY <2>1, LoopTurns
    <2>2. CASE DoEndLoop
      BY <2>2, EndLoopTurns
    <2>3. CASE UNCHANGED <<loop, turns>>
      <3>1. loop \in Int /\ turns \in Nat
        BY DEF SInv, Types
      <3>2. QED
        BY <2>3, <3>1 DEF TurnStep, GoesOn, Repeats
    <2>4. CASE Initialize \/ EndOfFile \/ Close
      BY <2>3, <2>4 DEF Initialize, EndOfFile, Close, looping
    <2>5. CASE SetState \/ SetFrequency \/ SetTrst \/ SetPadding
      BY <2>3, <2>5 DEF SetState, SetFrequency, SetTrst, SetPadding, EndState,
         Frequency, Trst, Padding, Refuse, Other, EndLoopStays, looping
    <2>6. CASE DoScan \/ DoRunTest \/ DoState \/ Unknown
      <3>1. UNCHANGED <<loop, turns>>
        <4>1. CASE DoScan
          BY <4>1 DEF DoScan, Scan, looping
        <4>2. CASE DoRunTest
          BY <4>2 DEF DoRunTest, RunTest, Refuse, EndLoopStays, looping
        <4>3. CASE DoState
          BY <4>3 DEF DoState, State, Refuse, EndLoopStays, looping
        <4>4. CASE Unknown
          BY <4>4 DEF Unknown, Refuse, looping
        <4>5. QED
          BY <2>6, <4>1, <4>2, <4>3, <4>4
      <3>2. QED
        BY <2>3, <3>1
    <2>7. CASE UNCHANGED vars
      BY <2>3, <2>7 DEF vars, looping
    <2>8. QED
      BY <2>1, <2>2, <2>4, <2>5, <2>6, <2>7 DEF Next
  <1>3. QED
    BY Invariance, <1>2, PTL DEF LoopBound, Spec

(* The TAP rests in a stable state between two commands.                   *)
THEOREM TapRests == Spec => []TapStable
  <1>1. SInv => TapStable
    BY DEF SInv
  <1>2. QED
    BY Invariance, <1>1, PTL
-----------------------------------------------------------------------------
(* The transfers of a scan.  First of all, one of them.                    *)

(* Division rounds down.                                                   *)
LEMMA Divided ==
    ASSUME NEW a \in Nat, NEW d \in Nat, d > 0
    PROVE  /\ a \div d \in Nat
           /\ d * (a \div d) <= a /\ a < d * (a \div d) + d
  <1>1. a \div d \in Nat
    BY SMT
  <1>2. d * (a \div d) <= a
    BY SMT
  <1>3. a < d * (a \div d) + d
    BY SMT
  <1>4. QED
    BY <1>1, <1>2, <1>3

LEMMA Product ==
    ASSUME NEW d \in Nat \ {0}, NEW m \in Nat, NEW n \in Nat
    PROVE  /\ d * m \in Nat /\ m * d = d * m
           /\ m < n => d * m + d <= d * n
           /\ m <= n => d * m <= d * n
  <1>1. d * m \in Nat /\ d * n \in Nat /\ m * d = d * m
    OBVIOUS
  <1>2. ASSUME m < n PROVE d * m + d <= d * n
    <2>1. PICK k \in Nat : n = m + 1 + k
      <3>1. n - m - 1 \in Nat /\ n = m + 1 + (n - m - 1)
        BY <1>2
      <3>2. QED
        BY <3>1
    <2>2. d * n = d * m + d + d * k /\ d * k \in Nat
      BY <2>1
    <2>3. QED
      BY <1>1, <2>2
  <1>3. QED
    BY <1>1, <1>2

(* The bytes of some bits.                                                 *)
LEMMA BytesOf ==
    ASSUME NEW bits \in Nat
    PROVE  /\ Bytes(bits) \in Nat
           /\ bits <= ByteSize * Bytes(bits)
           /\ ByteSize * Bytes(bits) <= bits + ByteSize - 1
  <1>1. ByteSize \in Nat \ {0} /\ bits + ByteSize - 1 \in Nat
    BY ConstantsAssumption
  <1>. DEFINE q == (bits + ByteSize - 1) \div ByteSize
  <1>2. /\ q \in Nat
        /\ ByteSize * q <= bits + ByteSize - 1
        /\ bits + ByteSize - 1 < ByteSize * q + ByteSize
    BY <1>1, Divided
  <1>3. Bytes(bits) = q
    BY DEF Bytes
  <1>. HIDE DEF q
  <1>4. ByteSize * q \in Nat
    BY <1>1, <1>2, Product
  <1>. DEFINE p == ByteSize * q
  <1>5. p \in Nat /\ p <= bits + ByteSize - 1 /\ bits + ByteSize - 1 < p + ByteSize
    BY <1>2, <1>4
  <1>6. bits <= p
    <2>. HIDE DEF p
    <2>1. QED
      BY <1>1, <1>5
  <1>7. QED
    BY <1>2, <1>3, <1>5, <1>6

Full == ByteSize * XferBytes

(* A transfer takes all bits, if they are not more than the buffer of the  *)
(* driver holds and a few; otherwise it fills the buffer.                  *)
LEMMA OneTransfer ==
    ASSUME NEW bits \in Nat
    PROVE  \/ Chunk(bits) = bits /\ bits < Full + ByteSize
           \/ Chunk(bits) = Full /\ Full + ByteSize <= bits
  <1>. DEFINE d == bits \div ByteSize
  <1>1. ByteSize \in Nat \ {0} /\ XferBytes \in Nat \ {0}
    BY ConstantsAssumption
  <1>2. d \in Nat /\ ByteSize * d <= bits /\ bits < ByteSize * d + ByteSize
    BY <1>1, Divided
  <1>3. Full \in Nat /\ XferBytes * ByteSize = Full
    BY <1>1, Product DEF Full
  <1>4. CASE d > XferBytes
    <2>1. Chunk(bits) = IF Full > bits THEN bits ELSE Full
      BY <1>3, <1>4 DEF Chunk
    <2>. HIDE DEF d
    <2>2. Full + ByteSize <= ByteSize * d
      BY <1>1, <1>2, <1>4, Product DEF Full
    <2>3. ByteSize * d \in Nat
      BY <1>1, <1>2, Product
    <2>. DEFINE p == ByteSize * d
    <2>4. p \in Nat /\ Full + ByteSize <= p /\ p <= bits
      BY <1>2, <2>2, <2>3
    <2>. HIDE DEF p
    <2>5. Full + ByteSize <= bits
      BY <1>1, <1>3, <2>4
    <2>6. QED
      BY <1>1, <1>3, <2>1, <2>5
  <1>5. CASE ~(d > XferBytes)
    <2>1. Chunk(bits) = IF Bytes(bits) * ByteSize > bits
                          THEN bits ELSE Bytes(bits) * ByteSize
      BY <1>5 DEF Chunk
    <2>. HIDE DEF d
    <2>2. Bytes(bits) \in Nat /\ bits <= ByteSize * Bytes(bits)
      BY BytesOf
    <2>3. /\ ByteSize * Bytes(bits) \in Nat
          /\ Bytes(bits) * ByteSize = ByteSize * Bytes(bits)
      BY <1>1, <2>2, Product
    <2>4. Chunk(bits) = bits
      BY <2>1, <2>2, <2>3
    <2>5. d <= XferBytes
      BY <1>1, <1>2, <1>5
    <2>6. ByteSize * d <= Full /\ ByteSize * d \in Nat
      BY <1>1, <1>2, <2>5, Product DEF Full
    <2>. DEFINE p == ByteSize * d
    <2>7. p \in Nat /\ p <= Full /\ bits < p + ByteSize
      BY <1>2, <2>6
    <2>. HIDE DEF p
    <2>8. bits < Full + ByteSize
      BY <1>1, <1>3, <2>7
    <2>9. QED
      BY <2>4, <2>8
  <1>6. QED
    BY <1>4, <1>5

(* A transfer takes something, unless nothing is left, and not more than   *)
(* is left.                                                                *)
LEMMA Progress ==
    ASSUME NEW bits \in Nat
    PROVE  /\ Chunk(bits) \in 0 .. bits
           /\ bits > 0 => Chunk(bits) > 0
  <1>1. ByteSize \in Nat \ {0} /\ XferBytes \in Nat \ {0}
    BY ConstantsAssumption
  <1>2. Full \in Nat /\ Full >= ByteSize
    <2>1. ByteSize * 1 <= ByteSize * XferBytes /\ ByteSize * XferBytes \in Nat
      BY <1>1, Product
    <2>2. QED
      BY <1>1, <2>1 DEF Full
  <1>3. QED
    BY <1>1, <1>2, OneTransfer

(* Only a few bits more than the buffer of the driver holds are too many.  *)
LEMMA FewTooMany ==
    ASSUME NEW bits \in Nat
    PROVE  /\ bits > Chunk(bits) => Chunk(bits) = Full
           /\ Bytes(Chunk(bits)) > XferBytes =>
                 bits \in Full + 1 .. Full + ByteSize - 1
  <1>1. ByteSize \in Nat \ {0} /\ XferBytes \in Nat \ {0}
    BY ConstantsAssumption
  <1>2. Full \in Nat
    BY <1>1, Product DEF Full
  <1>3. bits > Chunk(bits) => Chunk(bits) = Full
    BY OneTransfer
  <1>4. ASSUME Bytes(Chunk(bits)) > XferBytes PROVE Chunk(bits) > Full
    <2>1. Chunk(bits) \in Nat
      BY Progress
    <2>. DEFINE q == Bytes(Chunk(bits))
                p == ByteSize * q
    <2>2. q \in Nat /\ p <= Chunk(bits) + ByteSize - 1
      BY <2>1, BytesOf
    <2>3. XferBytes < q
      BY <1>1, <1>4, <2>2
    <2>. HIDE DEF q
    <2>4. Full + ByteSize <= p /\ p \in Nat
      BY <1>1, <2>2, <2>3, Product DEF Full
    <2>. HIDE DEF p
    <2>5. QED
      BY <1>1, <1>2, <2>1, <2>2, <2>4
  <1>5. QED
    BY <1>1, <1>2, <1>3, <1>4, OneTransfer
-----------------------------------------------------------------------------
(* Induction over the natural numbers, by sets: none is the least one that *)
(* is left out.                                                            *)
LEMMA FromZero ==
    ASSUME NEW S, S \subseteq Nat, 0 \in S, \A n \in S : n + 1 \in S
    PROVE  S = Nat
  <1>. DEFINE T == Nat \ S
  <1>1. ASSUME T # {} PROVE FALSE
    <2>1. PICK x \in T : \A y \in T : ~(<<y, x>> \in OpToRel(<, Nat))
      <3>. HIDE DEF T
      <3>1. T \subseteq Nat
        BY DEF T
      <3>2. QED
        BY <3>1, <1>1, NatLessThanWellFounded, WFMin, Zenon
    <2>2. \A y \in T : ~(y < x)
      BY <2>1 DEF OpToRel
    <2>3. x # 0 /\ x - 1 \in Nat
      OBVIOUS
    <2>4. x - 1 \notin T
      BY <2>2, <2>3
    <2>5. (x - 1) + 1 \in S
      BY <2>3, <2>4
    <2>6. QED
      BY <2>5
  <1>2. QED
    BY <1>1

(* Left is a recursive function.                                           *)
Falling(left, bits, n) ==
    left = [k \in 0 .. n |-> IF k = 0 THEN bits ELSE left[k - 1] - Chunk(left[k - 1])]

LEMMA CanFall ==
    ASSUME NEW bits, NEW n \in Nat
    PROVE  \E left : Falling(left, bits, n)
  <1>. DEFINE S == {k \in Nat : \E left : Falling(left, bits, k)}
  <1>1. 0 \in S
    <2>. DEFINE left == [k \in 0 .. 0 |-> bits]
    <2>1. left = [k \in 0 .. 0 |->
                    IF k = 0 THEN bits ELSE left[k - 1] - Chunk(left[k - 1])]
      OBVIOUS
    <2>2. QED
      BY <2>1 DEF Falling
  <1>2. ASSUME NEW n1 \in S PROVE n1 + 1 \in S
    <2>1. PICK left : Falling(left, bits, n1)
      OBVIOUS
    <2>. DEFINE longer == [k \in 0 .. n1 + 1 |->
                             IF k = n1 + 1 THEN left[n1] - Chunk(left[n1]) ELSE left[k]]
    <2>2. n1 \in Nat
      OBVIOUS
    <2>3. \A k \in 0 .. n1 :
             left[k] = IF k = 0 THEN bits ELSE left[k - 1] - Chunk(left[k - 1])
      BY <2>1, Zenon DEF Falling
    <2>4. ASSUME NEW k \in 0 .. n1 + 1
          PROVE  longer[k] = IF k = 0 THEN bits ELSE longer[k - 1] - Chunk(longer[k - 1])
      <3>1. CASE k = n1 + 1
        <4>1. k # 0 /\ k - 1 = n1 /\ n1 \in 0 .. n1 + 1 /\ n1 # n1 + 1
          BY <2>2, <3>1
        <4>2. longer[k] = left[n1] - Chunk(left[n1]) /\ longer[n1] = left[n1]
          BY <3>1, <4>1
        <4>3. QED
          BY <3>1, <4>1, <4>2, Zenon
      <3>2. CASE k # n1 + 1
        <4>1. k \in 0 .. n1
          BY <2>2, <3>2
        <4>2. longer[k] = left[k]
          BY <3>2
        <4>3. CASE k = 0
          BY <2>3, <4>1, <4>2, <4>3, Zenon
        <4>4. CASE k # 0
          <5>1. k - 1 \in 0 .. n1 + 1 /\ k - 1 # n1 + 1
            BY <2>2, <4>1, <4>4
          <5>2. longer[k - 1] = left[k - 1]
            BY <5>1
          <5>3. QED
            BY <2>3, <4>1, <4>2, <4>4, <5>2, Zenon
        <4>5. QED
          BY <4>3, <4>4
      <3>3. QED
        BY <3>1, <3>2
    <2>5. longer = [k \in 0 .. n1 + 1 |-> longer[k]]
      OBVIOUS
    <2>. HIDE DEF longer
    <2>6. Falling(longer, bits, n1 + 1)
      BY <2>4, <2>5, Zenon DEF Falling
    <2>7. QED
      BY <2>2, <2>6
  <1>3. S = Nat
    <2>1. S \subseteq Nat
      OBVIOUS
    <2>. HIDE DEF S
    <2>2. QED
      BY <1>1, <1>2, <2>1, FromZero
  <1>4. QED
    BY <1>3

(* What is left, transfer by transfer.                                     *)
LEMMA LeftByStep ==
    ASSUME NEW bits \in Nat
    PROVE  /\ Left(bits)[0] = bits
           /\ \A k \in 1 .. bits :
                 Left(bits)[k] = Left(bits)[k - 1] - Chunk(Left(bits)[k - 1])
  <1>. DEFINE left == CHOOSE left : Falling(left, bits, bits)
  <1>1. Falling(left, bits, bits)
    BY CanFall
  <1>2. Left(bits) = left
    BY Zenon DEF Left, Falling
  <1>. HIDE DEF left
  <1>3. \A k \in 0 .. bits :
           left[k] = IF k = 0 THEN bits ELSE left[k - 1] - Chunk(left[k - 1])
    BY <1>1, Zenon DEF Falling
  <1>4. 0 \in 0 .. bits /\ \A k \in 1 .. bits : k \in 0 .. bits /\ k # 0
    OBVIOUS
  <1>5. /\ left[0] = bits
        /\ \A k \in 1 .. bits : left[k] = left[k - 1] - Chunk(left[k - 1])
    BY <1>3, <1>4, Zenon
  <1>6. QED
    BY <1>2, <1>5, Zenon

(* Each transfer takes at least one bit, as long as there are any.         *)
LEMMA LeftFalls ==
    ASSUME NEW bits \in Nat, NEW k \in 0 .. bits
    PROVE  Left(bits)[k] \in 0 .. bits - k
  <1>. DEFINE left == Left(bits)
              S == {n \in Nat : n <= bits => left[n] \in 0 .. bits - n}
  <1>1. 0 \in S
    <2>1. left[0] = bits
      BY LeftByStep
    <2>2. QED
      BY <2>1
  <1>2. ASSUME NEW n \in S PROVE n + 1 \in S
    <2>1. n \in Nat /\ (n <= bits => left[n] \in 0 .. bits - n)
      OBVIOUS
    <2>. HIDE DEF left
    <2>2. CASE n + 1 <= bits
      <3>1. n <= bits /\ n + 1 \in 1 .. bits /\ (n + 1) - 1 = n
        BY <2>1, <2>2
      <3>2. left[n + 1] = left[(n + 1) - 1] - Chunk(left[(n + 1) - 1])
        BY <3>1, LeftByStep, Zenon DEF left
      <3>3. left[n + 1] = left[n] - Chunk(left[n])
        BY <3>1, <3>2, Zenon
      <3>4. left[n] \in Nat /\ left[n] <= bits - n
        BY <2>1, <3>1
      <3>5. Chunk(left[n]) \in 0 .. left[n] /\ (left[n] > 0 => Chunk(left[n]) > 0)
        BY <3>4, Progress
      <3>6. left[n + 1] \in 0 .. bits - (n + 1)
        BY <2>1, <2>2, <3>3, <3>4, <3>5
      <3>7. QED
        BY <2>1, <3>6
    <2>3. CASE ~(n + 1 <= bits)
      BY <2>1, <2>3
    <2>4. QED
      BY <2>2, <2>3
  <1>3. S = Nat
    <2>1. S \subseteq Nat
      OBVIOUS
    <2>. HIDE DEF S
    <2>2. QED
      BY <1>1, <1>2, <2>1, FromZero
  <1>4. k \in S /\ k <= bits
    BY <1>3
  <1>5. QED
    BY <1>4

(* A scan of any length is shifted completely by JTAG_dr_scan, in          *)
(* transfers that fit the buffer of the driver or miss it by a few bits.   *)
THEOREM ScanIsCovered ==
    ASSUME NEW bits \in Nat
    PROVE  Covered(bits)
  <1>1. Left(bits)[bits] = 0
    <2>1. bits \in 0 .. bits /\ bits - bits = 0
      OBVIOUS
    <2>2. Left(bits)[bits] \in 0 .. bits - bits
      BY <2>1, LeftFalls
    <2>3. QED
      BY <2>1, <2>2
  <1>2. ASSUME NEW k \in 0 .. bits PROVE Left(bits)[k] \in Nat
    <2>1. Left(bits)[k] \in 0 .. bits - k
      BY LeftFalls
    <2>2. QED
      BY <2>1
  <1>3. QED
    BY <1>1, <1>2, FewTooMany, Zenon DEF Covered, Full

(* ChunksCover, however long the longest scan that it looks at may be.     *)
THEOREM ChunksCorrect == Spec => []ChunksCover
  <1>1. ASSUME NEW bits \in 0 .. LongestScan PROVE bits \in Nat
    BY ConstantsAssumption
  <1>2. ChunksCover
    BY <1>1, ScanIsCovered, Zenon DEF ChunksCover
  <1>3. QED
    BY <1>2, PTL
=============================================================================
