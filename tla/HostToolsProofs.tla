--------------------------- MODULE HostToolsProofs ---------------------------
(***************************************************************************)
(* Proofs about the programs that use the bus and what receives their      *)
(* commands: hbdechex and hbpack hand hbexec the commands spelt on the bus *)
(* channel, zipdbg shows, steps and writes what its user means, and        *)
(* flashdrvr leaves in the flash what its caller asked for.                *)
(***************************************************************************)
EXTENDS HbInput, ZipDbg, FlashDrvr, WellFoundedInduction, SequenceTheorems, TLAPS

-----------------------------------------------------------------------------
(* The incoming path of hbconsole.v, for a command word of any number of   *)
(* digits, as long as the console channel carries nothing hbdechex would   *)
(* take for a character.                                                   *)

\* The input side has always got ahead of hbpack by the one character that
\* hbdechex holds.
Ahead ==
    /\ w_reset => spelling = "none" /\ digits = <<>> /\ due_next = None
    /\ ~w_reset /\ ~dec_stb =>
         /\ due_next = None
         /\ cmd_loaded <=> spelling # "none"
         /\ cmd_loaded => r_cmd = spelling /\ r_word = LowDigits(digits)
    /\ ~w_reset /\ dec_stb /\ dec_bits \in Digits =>
         /\ due_next = None
         /\ cmd_loaded <=> spelling # "none"
         /\ cmd_loaded => /\ r_cmd = spelling
                          /\ ShiftIn(r_word, dec_bits) = LowDigits(digits)
    /\ ~w_reset /\ dec_stb /\ dec_bits \notin Digits =>
         /\ digits = <<>>
         /\ spelling = IF dec_bits \in Commands THEN dec_bits ELSE "none"
         /\ due_next = IF cmd_loaded THEN [cmd |-> r_cmd, v |-> r_word] ELSE None

IInv == TypeOK /\ Ahead /\ CommandsAreTheBusChannels

\* The register holds the low digits of what was shifted into it.
LEMMA LowDigitsType ==
    ASSUME NEW ds \in Seq(Digits)
    PROVE  LowDigits(ds) \in Value
BY HbInputAssumption DEF LowDigits, Value

\* Without digits the register is all zeros.
LEMMA LowDigitsEmpty == LowDigits(<<>>) = Zeros
BY HbInputAssumption DEF LowDigits, Zeros

\* Shifting a digit in (hbpack) keeps the register the low digits of the text.
LEMMA ShiftInAppend ==
    ASSUME NEW ds \in Seq(Digits), NEW d \in Digits
    PROVE  LowDigits(Append(ds, d)) = ShiftIn(LowDigits(ds), d)
<1>1. Len(Append(ds, d)) = Len(ds) + 1 /\ Len(ds) \in Nat
  OBVIOUS
<1>2. ASSUME NEW i \in 1 .. NDigits
      PROVE  LowDigits(Append(ds, d))[i] = ShiftIn(LowDigits(ds), d)[i]
  <2>1. CASE i = NDigits
    BY <1>1, <2>1, HbInputAssumption DEF LowDigits, ShiftIn
  <2>2. CASE i < NDigits /\ i > NDigits - Len(ds) - 1
    <3>1. Len(ds) + 1 - NDigits + i \in 1 .. Len(ds)
      BY <1>1, <2>2, HbInputAssumption
    <3>2. LowDigits(Append(ds, d))[i] = ds[Len(ds) + 1 - NDigits + i]
      BY <1>1, <2>2, <3>1, HbInputAssumption DEF LowDigits
    <3>3. ShiftIn(LowDigits(ds), d)[i] = ds[Len(ds) - NDigits + (i + 1)]
      BY <1>1, <2>2, <3>1, HbInputAssumption DEF LowDigits, ShiftIn
    <3>. QED  BY <1>1, <3>2, <3>3, HbInputAssumption
  <2>3. CASE i < NDigits /\ ~(i > NDigits - Len(ds) - 1)
    BY <1>1, <2>3, HbInputAssumption DEF LowDigits, ShiftIn
  <2>. QED  BY <2>1, <2>2, <2>3, HbInputAssumption
<1>. QED  BY <1>2, HbInputAssumption DEF LowDigits, ShiftIn

\* The shift register keeps its width.
LEMMA ShiftInType ==
    ASSUME NEW v \in Value, NEW d \in Digits
    PROVE  ShiftIn(v, d) \in Value
BY HbInputAssumption DEF ShiftIn, Value

\* Zero is a value of the register.
LEMMA ZerosType == Zeros \in Value
BY HbInputAssumption DEF Zeros, Value

\* The initial state satisfies the invariant.
LEMMA InitIInv == Init => IInv
<1>. SUFFICES ASSUME Init PROVE IInv
  OBVIOUS
<1>1. TypeOK
  <2>1. [cmd |-> "R", v |-> Zeros] \in CmdWord
    BY ZerosType DEF CmdWord, Commands
  <2>2. digits \in Seq(Digits)
    BY DEF Init
  <2>3. dec_stb \in BOOLEAN /\ w_reset \in BOOLEAN /\ cmd_loaded \in BOOLEAN
        /\ o_pck_stb \in BOOLEAN /\ o_console_stb \in BOOLEAN
    BY Zenon DEF Init
  <2>. QED  BY ZerosType, <2>1, <2>2, <2>3 DEF Init, TypeOK, Commands
<1>2. Ahead
  BY DEF Init, Ahead
<1>3. CommandsAreTheBusChannels
  BY DEF Init, CommandsAreTheBusChannels
<1>. QED  BY <1>1, <1>2, <1>3 DEF IInv

\* A silent console channel: nothing on it but the filler
Silent == ConsoleChars \subseteq {"7f"}

\* One clock preserves it while the console channel is silent.
LEMMA ClockIInv ==
    ASSUME Silent, IInv, NEW in \in Bytes \cup {NoByte}, Clock(in)
    PROVE  IInv'
<1>. USE HbInputAssumption
<1>0. /\ in.ch \in {"bus", "console", "none"}
      /\ in.c \in BusChars
      /\ in.ch # "bus" => in.c = "7f"
      /\ in # NoByte /\ in.c # "7f" <=> in.ch = "bus" /\ in.c # "7f"
  <2>1. CASE in \in [ch : {"bus"}, c : BusChars]
    <3>1. in.ch = "bus" /\ in.c \in BusChars
      BY <2>1
    <3>. QED  BY <3>1 DEF NoByte
  <2>2. CASE in \in [ch : {"console"}, c : ConsoleChars]
    <3>1. in.ch = "console" /\ in.c = "7f"
      BY <2>2 DEF Silent
    <3>. QED  BY <3>1 DEF BusChars
  <2>3. CASE in = NoByte
    BY <2>3 DEF NoByte, BusChars
  <2>. QED  BY <2>1, <2>2, <2>3 DEF Bytes
<1>1. TypeOK'
  <2>1. dec_stb' \in BOOLEAN /\ w_reset' \in BOOLEAN
        /\ dec_bits' \in Digits \cup Commands \cup {"T", "other"}
    BY DEF Clock, HbDechex, Decode
  <2>2. /\ cmd_loaded' \in BOOLEAN /\ o_pck_stb' \in BOOLEAN
        /\ r_cmd' \in Commands /\ r_word' \in Value /\ o_pck_word' \in CmdWord
    <3>1. CASE w_reset
      <4>1. [cmd |-> "R", v |-> Zeros] \in CmdWord
        BY ZerosType DEF CmdWord, Commands
      <4>. QED  BY <3>1, <4>1, ZerosType DEF Clock, HbPack, Commands
    <3>2. CASE ~w_reset /\ ~dec_stb
      BY <3>2 DEF IInv, TypeOK, Clock, HbPack
    <3>3. CASE ~w_reset /\ dec_stb
      <4>1. [cmd |-> r_cmd, v |-> r_word] \in CmdWord
        BY DEF IInv, TypeOK, CmdWord
      <4>2. CASE dec_bits \in Digits
        <5>1. r_word' \in Value
          BY <3>3, <4>2, ShiftInType DEF IInv, TypeOK, Clock, HbPack
        <5>. QED  BY <3>3, <4>1, <4>2, <5>1 DEF IInv, TypeOK, Clock, HbPack
      <4>3. CASE dec_bits \notin Digits
        <5>1. /\ cmd_loaded' = (dec_bits \in Commands) /\ o_pck_stb' = cmd_loaded
              /\ r_cmd' = IF dec_bits \in Commands THEN dec_bits ELSE "S"
              /\ r_word' = Zeros
              /\ o_pck_word' = [cmd |-> r_cmd, v |-> r_word]
          BY <3>3, <4>3 DEF Clock, HbPack
        <5>2. cmd_loaded' \in BOOLEAN /\ o_pck_stb' \in BOOLEAN
          <6>1. cmd_loaded \in BOOLEAN
            BY DEF IInv, TypeOK
          <6>2. o_pck_stb' \in BOOLEAN
            BY <5>1, <6>1
          <6>3. (dec_bits \in Commands) \in BOOLEAN
            OBVIOUS
          <6>. QED  BY <5>1, <6>2, <6>3
        <5>3. r_cmd' \in Commands
          BY <5>1 DEF Commands
        <5>. QED  BY <4>1, <5>1, <5>2, <5>3, ZerosType
      <4>. QED  BY <4>2, <4>3
    <3>. QED  BY <3>1, <3>2, <3>3 DEF IInv, TypeOK
  <2>3. o_console_stb' \in BOOLEAN
    BY DEF Clock, ToConsole
  <2>4. /\ spelling' \in Commands \cup {"none"} /\ digits' \in Seq(Digits)
        /\ due' \in CmdWord \cup {None}
    BY DEF IInv, TypeOK, Clock, History
  <2>5. due_next' \in CmdWord \cup {None}
    BY LowDigitsType DEF IInv, TypeOK, Clock, History, Spelt, CmdWord
  <2>. QED  BY <2>1, <2>2, <2>3, <2>4, <2>5 DEF TypeOK
<1>2. CommandsAreTheBusChannels'
  <2>1. due' = due_next
    BY DEF Clock, History
  <2>. QED
    BY <2>1 DEF IInv, TypeOK, Ahead, CommandsAreTheBusChannels, Clock, HbPack, None
<1>. DEFINE heard == in.ch = "bus" /\ in.c # "7f"
<1>3. \* what hbpack holds after this clock is what was spelt before it
      /\ cmd_loaded' <=> spelling # "none"
      /\ cmd_loaded' => r_cmd' = spelling /\ r_word' = LowDigits(digits)
  <2>1. CASE w_reset
    BY <2>1 DEF IInv, Ahead, Clock, HbPack
  <2>2. CASE ~w_reset /\ ~dec_stb
    BY <2>2 DEF IInv, Ahead, Clock, HbPack
  <2>3. CASE ~w_reset /\ dec_stb /\ dec_bits \in Digits
    BY <2>3 DEF IInv, Ahead, Clock, HbPack
  <2>4. CASE ~w_reset /\ dec_stb /\ dec_bits \notin Digits
    BY <2>4, LowDigitsEmpty DEF IInv, Ahead, Clock, HbPack, Commands
  <2>. QED  BY <2>1, <2>2, <2>3, <2>4 DEF IInv, TypeOK
<1>4. Ahead'
  <2>1. CASE ~heard
    <3>1. ~w_reset' /\ ~dec_stb'
      BY <1>0, <2>1 DEF Clock, HbDechex
    <3>2. due_next' = None /\ spelling' = spelling /\ digits' = digits
      BY <2>1 DEF Clock, History
    <3>. QED  BY <1>3, <3>1, <3>2 DEF Ahead
  <2>2. CASE heard /\ in.c \in Digits
    <3>1. ~w_reset' /\ dec_stb' /\ dec_bits' = in.c
      BY <1>0, <2>2 DEF Clock, HbDechex, Decode
    <3>2. /\ due_next' = None /\ spelling' = spelling
          /\ digits' = IF spelling # "none" THEN Append(digits, in.c) ELSE digits
      BY <2>2 DEF Clock, History
    <3>3. spelling # "none" => LowDigits(digits') = ShiftIn(LowDigits(digits), in.c)
      BY <2>2, <3>2, ShiftInAppend DEF IInv, TypeOK
    <3>. QED  BY <1>3, <2>2, <3>1, <3>2, <3>3 DEF Ahead
  <2>3. CASE heard /\ in.c = "T"
    <3>1. w_reset'
      BY <1>0, <2>3 DEF Clock, HbDechex
    <3>2. due_next' = None /\ spelling' = "none" /\ digits' = <<>>
      BY <2>3 DEF Clock, History, Commands
    <3>. QED  BY <3>1, <3>2 DEF Ahead
  <2>4. CASE heard /\ in.c \notin Digits /\ in.c # "T"
    <3>1. /\ ~w_reset' /\ dec_stb'
          /\ dec_bits' = IF in.c \in Commands THEN in.c ELSE "other"
      BY <1>0, <2>4 DEF Clock, HbDechex, Decode
    <3>2. /\ digits' = <<>>
          /\ spelling' = IF in.c \in Commands THEN in.c ELSE "none"
          /\ due_next' = IF spelling # "none" THEN Spelt(spelling, digits) ELSE None
      BY <2>4 DEF Clock, History
    <3>3. dec_bits' \notin Digits /\ (dec_bits' \in Commands <=> in.c \in Commands)
      BY <3>1, <2>4 DEF Commands
    <3>. QED  BY <1>3, <3>1, <3>2, <3>3 DEF Ahead, Spelt
  <2>. QED  BY <2>1, <2>2, <2>3, <2>4
<1>. QED  BY <1>1, <1>2, <1>4 DEF IInv

\* It holds in every reachable state.
LEMMA InputInvariance ==
    ASSUME Silent
    PROVE  Spec => []IInv
<1>1. IInv /\ [Next]_vars => IInv'
  <2>1. IInv /\ UNCHANGED vars => IInv'
    BY DEF IInv, TypeOK, Ahead, CommandsAreTheBusChannels, vars, dechex, pack, history
  <2>. QED  BY <2>1, ClockIInv DEF Next
<1>. QED  BY <1>1, InitIInv, PTL DEF Spec

\* With a silent console channel hbexec gets exactly the commands the host
\* has spelt, whatever the width of the word and however long the digits.
THEOREM CommandsArrive ==
    ASSUME Silent
    PROVE  Spec => []CommandsAreTheBusChannels
<1>1. IInv => CommandsAreTheBusChannels
  BY DEF IInv
<1>. QED  BY <1>1, InputInvariance, PTL

-----------------------------------------------------------------------------
(* The debugger, for any registers, values, number of polls and keys, on   *)
(* the port it is written for.                                             *)

DbgTypes ==
    /\ zc \in [halt : BOOLEAN, halted : BOOLEAN, work : BOOLEAN, step : BOOLEAN, sel : 0 .. 63,
               regs : [RegIds -> RegValues], runs : Nat, steps : Nat]
    /\ dbg \in [pc : {"start", "refresh", "select", "poll", "read", "keys", "edit", "gone", "exit"},
                i : 1 .. Len(DbgRegs) + 1, err : Nat, seen : [RegIds -> RegValues],
                valid : BOOLEAN, cursor : CursorCells, users : BOOLEAN]

\* A CPU that says it has halted stands still until it is told otherwise.
HaltedStandsStill == zc.halted => zc.halt /\ ~zc.work /\ ~zc.step

\* The instructions completed, in progress and still to be begun.
InstructionsDue == zc.runs + (IF zc.work THEN 1 ELSE 0) + (IF zc.step THEN 1 ELSE 0)

StepsAreCounted ==
    /\ dbg.pc = "start" => zc.runs = 0 /\ zc.steps = 0 /\ ~zc.step
    /\ dbg.pc \notin {"start", "gone"} => zc.halt /\ InstructionsDue <= zc.steps + 1

\* The registers read so far are the CPU's, which has halted.
ReadSoFar ==
    /\ dbg.valid => zc.halted /\ dbg.seen = zc.regs
    /\ dbg.pc \in {"select", "poll", "read"} =>
         /\ zc.halted /\ ~dbg.valid /\ dbg.i <= Len(DbgRegs)
         /\ \A j \in 1 .. dbg.i - 1 : dbg.seen[DbgRegs[j]] = zc.regs[DbgRegs[j]]
    /\ dbg.pc \in {"poll", "read"} => zc.sel = DbgRegs[dbg.i]
    /\ dbg.pc = "edit" => ~dbg.valid /\ zc.sel = CellRegister(dbg.cursor)

DbgIInv == DbgTypes /\ HaltedStandsStill /\ StepsAreCounted /\ ReadSoFar

\* The port is the pair of registers the tools are written for.
PairPort == Port = "pair"

RegNumbers == 0 .. 31

\* Each register the debugger reads has a number of the CPU's.
LEMMA RegNumbersOf ==
    /\ Len(DbgRegs) \in Nat /\ 1 \in 1 .. Len(DbgRegs)
    /\ \A i \in 1 .. Len(DbgRegs) : DbgRegs[i] \in 0 .. 63 /\ DbgRegs[i] \in RegIds
<1>1. DbgRegs \in Seq(RegNumbers) /\ Len(DbgRegs) > 0
  BY DbgAssumption DEF RegNumbers
<1>2. \A i \in 1 .. Len(DbgRegs) : DbgRegs[i] \in RegNumbers
  BY <1>1
<1>3. \A i \in 1 .. Len(DbgRegs) : DbgRegs[i] \in RegIds
  BY <1>1 DEF RegIds
<1>. QED  BY <1>1, <1>2, <1>3 DEF RegNumbers

LEMMA DbgInitIInv == DbgInit => DbgIInv
<1>. SUFFICES ASSUME DbgInit PROVE DbgIInv
  OBVIOUS
<1>. USE DbgAssumption
<1>1. DbgTypes
  <2>2. [r \in RegIds |-> 0] \in [RegIds -> RegValues]
    OBVIOUS
  <2>3. zc.sel \in 0 .. 63 /\ dbg.i \in 1 .. Len(DbgRegs) + 1 /\ dbg.cursor \in CursorCells
    BY RegNumbersOf DEF DbgInit, CursorCells
  <2>. QED  BY <2>2, <2>3 DEF DbgInit, DbgTypes
<1>2. HaltedStandsStill /\ StepsAreCounted /\ ReadSoFar
  BY DEF DbgInit, HaltedStandsStill, StepsAreCounted, InstructionsDue, ReadSoFar
<1>. QED  BY <1>1, <1>2 DEF DbgIInv

\* The CPU begins, ends and stops.
LEMMA CpuIInv ==
    ASSUME DbgIInv, CpuBegin \/ CpuEnd \/ CpuStop
    PROVE  DbgIInv'
<1>. USE DbgAssumption
<1>1. CASE CpuBegin
  <2>1. DbgTypes'
    BY <1>1 DEF DbgIInv, DbgTypes, CpuBegin
  <2>2. HaltedStandsStill' /\ StepsAreCounted' /\ ReadSoFar'
    BY <1>1 DEF DbgIInv, DbgTypes, CpuBegin, HaltedStandsStill, StepsAreCounted, InstructionsDue, ReadSoFar
  <2>. QED  BY <2>1, <2>2 DEF DbgIInv
<1>2. CASE CpuEnd
  <2>1. PICK r \in RegIds, v \in RegValues :
           zc' = [zc EXCEPT !.work = FALSE, !.regs[r] = v,
                            !.runs = IF dbg.pc = "start" \/ @ > MaxKeys THEN @ ELSE @ + 1]
    BY <1>2 DEF CpuEnd
  <2>2. /\ zc.work /\ ~zc'.work /\ zc'.halt = zc.halt /\ zc'.step = zc.step /\ ~zc.halted
        /\ zc'.halted = zc.halted /\ zc'.steps = zc.steps /\ zc'.sel = zc.sel /\ dbg' = dbg
    BY <1>2, <2>1 DEF DbgIInv, DbgTypes, HaltedStandsStill, CpuEnd
  <2>3. /\ zc'.runs \in Nat /\ zc'.runs <= zc.runs + 1
        /\ dbg.pc = "start" => zc'.runs = zc.runs
    BY <2>1 DEF DbgIInv, DbgTypes
  <2>4. DbgTypes'
    <3>1. zc.regs \in [RegIds -> RegValues]
      BY DEF DbgIInv, DbgTypes
    <3>2. [zc.regs EXCEPT ![r] = v] \in [RegIds -> RegValues]
      BY <3>1
    <3>3. zc' = [[zc EXCEPT !.work = FALSE, !.runs = zc'.runs] EXCEPT !.regs = [zc.regs EXCEPT ![r] = v]]
      BY <2>1 DEF DbgIInv, DbgTypes
    <3>. QED  BY <2>2, <2>3, <3>2, <3>3 DEF DbgIInv, DbgTypes
  <2>5. HaltedStandsStill' /\ ReadSoFar'
    BY <2>2 DEF DbgIInv, DbgTypes, HaltedStandsStill, ReadSoFar
  <2>6. StepsAreCounted'
    BY <2>2, <2>3 DEF DbgIInv, DbgTypes, StepsAreCounted, InstructionsDue
  <2>. QED  BY <2>4, <2>5, <2>6 DEF DbgIInv
<1>3. CASE CpuStop
  <2>1. DbgTypes'
    BY <1>3 DEF DbgIInv, DbgTypes, CpuStop
  <2>2. HaltedStandsStill' /\ StepsAreCounted' /\ ReadSoFar'
    BY <1>3 DEF DbgIInv, DbgTypes, CpuStop, HaltedStandsStill, StepsAreCounted, InstructionsDue, ReadSoFar
  <2>. QED  BY <2>1, <2>2 DEF DbgIInv
<1>. QED  BY <1>1, <1>2, <1>3

\* A write to the control register of the pair: what the CPU keeps of it.
LEMMA WriteCtrlFacts ==
    ASSUME PairPort, DbgIInv, NEW cmd \in {"halt", "step", "go", "reset"}, NEW a \in 0 .. 63,
           zc' = WriteCtrl(cmd, a)
    PROVE  /\ zc' \in [halt : BOOLEAN, halted : BOOLEAN, work : BOOLEAN, step : BOOLEAN, sel : 0 .. 63,
                       regs : [RegIds -> RegValues], runs : Nat, steps : Nat]
           /\ HaltedStandsStill'
           /\ zc'.regs = zc.regs /\ zc'.runs = zc.runs
           /\ cmd \in {"halt", "reset"} => zc'.sel = a /\ zc'.steps = zc.steps /\ zc'.halt
           /\ cmd = "halt" => zc'.halted = zc.halted /\ zc'.work = zc.work /\ zc'.step = zc.step
           /\ cmd = "reset" => ~zc'.work /\ ~zc'.step
           /\ cmd = "step" => zc'.steps = zc.steps + 1 /\ zc'.halt /\ zc'.work = zc.work
           /\ cmd = "go" => (zc.halted => ~zc'.halt)
<1>. USE DbgAssumption
<1>1. CASE cmd = "halt"
  BY <1>1 DEF PairPort, WriteCtrl, Select, DbgIInv, DbgTypes, HaltedStandsStill
<1>2. CASE cmd = "reset"
  BY <1>2 DEF PairPort, WriteCtrl, DbgIInv, DbgTypes, HaltedStandsStill
<1>3. CASE cmd = "step"
  <2>. DEFINE b == zc.halted
              n == zc.steps + 1
  <2>1. zc' = [zc EXCEPT !.step = b, !.steps = n, !.halt = TRUE, !.halted = FALSE]
    BY <1>3 DEF PairPort, WriteCtrl
  <2>2. b \in BOOLEAN /\ n \in Nat
    BY DEF DbgIInv, DbgTypes
  <2>. HIDE DEF b, n
  <2>3. zc' \in [halt : BOOLEAN, halted : BOOLEAN, work : BOOLEAN, step : BOOLEAN, sel : 0 .. 63,
                 regs : [RegIds -> RegValues], runs : Nat, steps : Nat]
    BY <2>1, <2>2 DEF DbgIInv, DbgTypes
  <2>4. /\ zc'.regs = zc.regs /\ zc'.runs = zc.runs /\ ~zc'.halted
        /\ zc'.steps = n /\ zc'.halt /\ zc'.work = zc.work
    BY <2>1 DEF DbgIInv, DbgTypes
  <2>. QED  BY <1>3, <2>3, <2>4 DEF HaltedStandsStill, n
<1>4. CASE cmd = "go"
  <2>. DEFINE b == ~zc.halted
  <2>1. zc' = [zc EXCEPT !.halt = b, !.halted = FALSE]
    BY <1>4 DEF PairPort, WriteCtrl, Released
  <2>2. b \in BOOLEAN /\ (zc.halted => ~b)
    BY DEF DbgIInv, DbgTypes
  <2>. HIDE DEF b
  <2>. QED  BY <1>4, <2>1, <2>2 DEF DbgIInv, DbgTypes, HaltedStandsStill
<1>. QED  BY <1>1, <1>2, <1>3, <1>4

\* Reading: main's first halt, a refresh, and each register selected, waited
\* for and read.
LEMMA RefreshIInv ==
    ASSUME DbgIInv, Refresh, PairPort
    PROVE  DbgIInv'
<1>1. zc' = zc /\ (Stalled <=> ~zc.halted)
  BY DEF PairPort, Stalled, Refresh
<1>2. CASE ~zc.halted
  BY <1>1, <1>2 DEF Refresh, DbgIInv, DbgTypes, HaltedStandsStill, StepsAreCounted, InstructionsDue, ReadSoFar
<1>3. CASE zc.halted
  <2>1. dbg' = [dbg EXCEPT !.pc = "select", !.i = 1, !.valid = FALSE] /\ dbg.pc = "refresh"
    BY <1>1, <1>3 DEF Refresh
  <2>2. dbg' \in [pc : {"start", "refresh", "select", "poll", "read", "keys", "edit", "gone", "exit"},
                  i : 1 .. Len(DbgRegs) + 1, err : Nat, seen : [RegIds -> RegValues],
                  valid : BOOLEAN, cursor : CursorCells, users : BOOLEAN]
    <3>. DEFINE one == 1
    <3>1. one \in 1 .. Len(DbgRegs) + 1
      BY RegNumbersOf
    <3>2. dbg' = [dbg EXCEPT !.pc = "select", !.i = one, !.valid = FALSE]
      BY <2>1
    <3>. HIDE DEF one
    <3>. QED  BY <3>1, <3>2 DEF DbgIInv, DbgTypes
  <2>3. dbg'.pc = "select" /\ dbg'.i = 1 /\ ~dbg'.valid /\ dbg'.seen = dbg.seen
    BY <2>1 DEF DbgIInv, DbgTypes
  <2>4. ReadSoFar'
    BY RegNumbersOf, <1>1, <1>3, <2>3 DEF ReadSoFar
  <2>5. StepsAreCounted'
    BY <1>1, <2>1, <2>3 DEF DbgIInv, StepsAreCounted, InstructionsDue
  <2>. QED  BY <1>1, <2>2, <2>4, <2>5 DEF DbgIInv, DbgTypes, HaltedStandsStill
<1>. QED  BY <1>2, <1>3

LEMMA FirstHaltIInv ==
    ASSUME DbgIInv, FirstHalt, PairPort
    PROVE  DbgIInv'
<1>1. /\ zc' \in [halt : BOOLEAN, halted : BOOLEAN, work : BOOLEAN, step : BOOLEAN, sel : 0 .. 63,
                  regs : [RegIds -> RegValues], runs : Nat, steps : Nat]
      /\ HaltedStandsStill' /\ zc'.halt /\ zc'.regs = zc.regs /\ zc'.runs = zc.runs
      /\ zc'.steps = zc.steps /\ zc'.halted = zc.halted /\ zc'.work = zc.work /\ zc'.step = zc.step
  <2>1. zc' = WriteCtrl("halt", 0) /\ 0 \in 0 .. 63
    BY DEF FirstHalt
  <2>. QED  BY <2>1, WriteCtrlFacts
<1>2. dbg' = [dbg EXCEPT !.pc = "refresh"] /\ dbg.pc = "start"
  BY DEF FirstHalt
<1>. QED
  BY <1>1, <1>2 DEF DbgIInv, DbgTypes, StepsAreCounted, InstructionsDue, ReadSoFar

LEMMA SelectRegIInv ==
    ASSUME DbgIInv, SelectReg, PairPort
    PROVE  DbgIInv'
<1>0. dbg.i \in 1 .. Len(DbgRegs) /\ DbgRegs[dbg.i] \in 0 .. 63
  <2>1. dbg.i \in 1 .. Len(DbgRegs)
    BY RegNumbersOf DEF SelectReg, DbgIInv, DbgTypes, ReadSoFar
  <2>. QED  BY <2>1, RegNumbersOf
<1>1. /\ zc' \in [halt : BOOLEAN, halted : BOOLEAN, work : BOOLEAN, step : BOOLEAN, sel : 0 .. 63,
                  regs : [RegIds -> RegValues], runs : Nat, steps : Nat]
      /\ HaltedStandsStill' /\ zc'.halt /\ zc'.regs = zc.regs /\ zc'.runs = zc.runs
      /\ zc'.steps = zc.steps /\ zc'.halted = zc.halted /\ zc'.work = zc.work /\ zc'.step = zc.step
      /\ zc'.sel = DbgRegs[dbg.i]
  BY <1>0, WriteCtrlFacts DEF SelectReg
<1>2. dbg' = [dbg EXCEPT !.pc = "poll", !.err = 0] /\ dbg.pc = "select"
  BY DEF SelectReg
<1>3. DbgTypes'
  BY <1>1, <1>2 DEF DbgIInv, DbgTypes
<1>4. /\ dbg'.pc = "poll" /\ dbg'.i = dbg.i /\ dbg'.valid = dbg.valid /\ dbg'.seen = dbg.seen
      /\ dbg'.cursor = dbg.cursor
  BY <1>2 DEF DbgIInv, DbgTypes
<1>5. StepsAreCounted'
  BY <1>1, <1>2, <1>4 DEF DbgIInv, StepsAreCounted, InstructionsDue
<1>6. ReadSoFar'
  BY <1>0, <1>1, <1>2, <1>4 DEF DbgIInv, ReadSoFar
<1>. QED  BY <1>1, <1>3, <1>5, <1>6 DEF DbgIInv

LEMMA PollIInv ==
    ASSUME DbgIInv, Poll, PairPort
    PROVE  DbgIInv'
<1>1. zc' = zc /\ dbg.pc = "poll" /\ dbg' = [dbg EXCEPT !.pc = "read"]
  BY DEF PairPort, Stalled, Poll, DbgIInv, ReadSoFar
<1>. QED
  BY <1>1 DEF DbgIInv, DbgTypes, HaltedStandsStill, StepsAreCounted, InstructionsDue, ReadSoFar

LEMMA ReadRegIInv ==
    ASSUME DbgIInv, ReadReg, PairPort
    PROVE  DbgIInv'
<1>. DEFINE last == dbg.i = Len(DbgRegs)
            r == DbgRegs[dbg.i]
            seen == [dbg.seen EXCEPT ![r] = zc.regs[r]]
<1>0. dbg.i \in 1 .. Len(DbgRegs) /\ r \in RegIds /\ dbg.pc = "read" /\ zc' = zc /\ zc.sel = r
  <2>1. dbg.i \in 1 .. Len(DbgRegs)
    BY RegNumbersOf DEF ReadReg, DbgIInv, DbgTypes, ReadSoFar
  <2>. QED  BY <2>1, RegNumbersOf DEF ReadReg, DbgIInv, ReadSoFar
<1>1. dbg' = [dbg EXCEPT !.seen = seen, !.i = @ + 1, !.valid = last,
                         !.pc = IF last THEN "keys" ELSE "select"]
  BY <1>0 DEF ReadReg, PairPort, Selected
<1>2. seen \in [RegIds -> RegValues]
  BY <1>0 DEF DbgIInv, DbgTypes
<1>3. \A j \in 1 .. dbg.i : seen[DbgRegs[j]] = zc.regs[DbgRegs[j]]
  <2>. TAKE j \in 1 .. dbg.i
  <2>1. DbgRegs[j] \in RegIds
    BY <1>0, RegNumbersOf
  <2>2. dbg.seen \in [RegIds -> RegValues]
    BY DEF DbgIInv, DbgTypes
  <2>3. CASE j = dbg.i
    BY <1>0, <2>1, <2>2, <2>3
  <2>4. CASE j # dbg.i
    <3>1. dbg.seen[DbgRegs[j]] = zc.regs[DbgRegs[j]]
      BY <1>0, <2>4 DEF DbgIInv, DbgTypes, ReadSoFar
    <3>. QED  BY <1>0, <2>1, <2>2, <3>1
  <2>. QED  BY <2>3, <2>4
<1>4. last => seen = zc.regs
  <2>. SUFFICES ASSUME last PROVE seen = zc.regs
    OBVIOUS
  <2>1. \A k \in RegIds : seen[k] = zc.regs[k]
    BY <1>0, <1>3, DbgAssumption DEF RegIds
  <2>. QED  BY <1>2, <2>1 DEF DbgIInv, DbgTypes
<1>5. last \in BOOLEAN
  OBVIOUS
<1>6. ~last => dbg.i + 1 <= Len(DbgRegs)
  BY <1>0
<1>. HIDE DEF last, seen
<1>7. DbgTypes'
  <2>. DEFINE n == dbg.i + 1
              k == IF last THEN "keys" ELSE "select"
  <2>1. n \in 1 .. Len(DbgRegs) + 1 /\ k \in {"keys", "select"}
    BY <1>0, RegNumbersOf
  <2>2. dbg' = [dbg EXCEPT !.seen = seen, !.i = n, !.valid = last, !.pc = k]
    BY <1>1
  <2>. HIDE DEF n, k
  <2>. QED  BY <1>0, <1>2, <1>5, <2>1, <2>2 DEF DbgIInv, DbgTypes
<1>8. HaltedStandsStill' /\ StepsAreCounted'
  BY <1>0, <1>1 DEF DbgIInv, DbgTypes, HaltedStandsStill, StepsAreCounted, InstructionsDue
<1>9. ReadSoFar'
  <2>1. CASE last
    <3>1. dbg'.pc = "keys" /\ dbg'.valid /\ dbg'.seen = seen
      BY <1>1, <2>1 DEF DbgIInv, DbgTypes
    <3>. QED  BY <1>0, <1>4, <2>1, <3>1 DEF DbgIInv, ReadSoFar
  <2>2. CASE ~last
    <3>1. dbg'.pc = "select" /\ ~dbg'.valid /\ dbg'.seen = seen /\ dbg'.i = dbg.i + 1
      BY <1>1, <2>2 DEF DbgIInv, DbgTypes
    <3>. QED  BY <1>0, <1>3, <1>6, <2>2, <3>1 DEF DbgIInv, ReadSoFar
  <2>. QED  BY <2>1, <2>2
<1>. QED  BY <1>7, <1>8, <1>9 DEF DbgIInv

\* An edit writes the register the control port has selected: the CPU has
\* halted, and its screen is no longer shown as valid.
LEMMA EditIInv ==
    ASSUME DbgIInv, PairPort, NEW v \in RegValues, Edit(v)
    PROVE  DbgIInv' /\ \A r \in RegIds : zc'.regs[r] # zc.regs[r] => CellRegister(dbg.cursor) = r
<1>1. /\ dbg.pc = "edit" /\ zc.halted /\ zc.sel = CellRegister(dbg.cursor)
      /\ zc' = IF zc.sel \in RegIds THEN WriteReg(zc.sel, v) ELSE zc
      /\ dbg' = [dbg EXCEPT !.pc = "refresh"]
  BY DEF Edit, PairPort, Stalled, Selected, DbgIInv, ReadSoFar
<1>2. zc.halt /\ ~zc.work /\ ~zc.step /\ ~dbg.valid
  BY <1>1 DEF DbgIInv, HaltedStandsStill, ReadSoFar, DbgTypes
<1>3. /\ zc' \in [halt : BOOLEAN, halted : BOOLEAN, work : BOOLEAN, step : BOOLEAN, sel : 0 .. 63,
                  regs : [RegIds -> RegValues], runs : Nat, steps : Nat]
      /\ zc'.halt /\ zc'.halted = zc.halted /\ zc'.work = zc.work /\ zc'.step = zc.step
      /\ zc'.runs = zc.runs /\ zc'.steps = zc.steps
      /\ \A r \in RegIds : zc'.regs[r] # zc.regs[r] => zc.sel = r
  <2>1. CASE zc.sel \in RegIds
    <3>. DEFINE regs == [zc.regs EXCEPT ![zc.sel] = v]
    <3>1. zc' = [zc EXCEPT !.regs = regs, !.halt = TRUE]
      BY <1>1, <2>1 DEF WriteReg
    <3>2. regs \in [RegIds -> RegValues] /\ \A r \in RegIds : regs[r] # zc.regs[r] => zc.sel = r
      BY <2>1 DEF DbgIInv, DbgTypes
    <3>. HIDE DEF regs
    <3>. QED  BY <1>1, <1>2, <3>1, <3>2 DEF DbgIInv, DbgTypes
  <2>2. CASE zc.sel \notin RegIds
    BY <1>1, <1>2, <2>2 DEF DbgIInv, DbgTypes
  <2>. QED  BY <2>1, <2>2
<1>4. DbgTypes'
  BY <1>1, <1>3 DEF DbgIInv, DbgTypes
<1>5. dbg'.pc = "refresh" /\ dbg'.valid = dbg.valid
  BY <1>1 DEF DbgIInv, DbgTypes
<1>6. HaltedStandsStill' /\ ReadSoFar'
  BY <1>2, <1>3, <1>5 DEF HaltedStandsStill, ReadSoFar
<1>7. StepsAreCounted'
  BY <1>1, <1>3, <1>5 DEF DbgIInv, StepsAreCounted, InstructionsDue
<1>. QED  BY <1>1, <1>3, <1>4, <1>6, <1>7 DEF DbgIInv

\* The CPU left alone, and of the screen only what is no longer needed changed.
LEMMA LeftAloneIInv ==
    ASSUME DbgIInv, DbgTypes', zc' = zc, dbg.pc \notin {"start", "gone"},
           dbg'.pc \in {"refresh", "edit", "exit"},
           dbg'.pc = "edit" => dbg.pc = "edit" /\ dbg'.cursor = dbg.cursor,
           dbg'.valid => dbg.valid, dbg'.seen = dbg.seen
    PROVE  DbgIInv'
<1>1. HaltedStandsStill' /\ ReadSoFar'
  BY DEF DbgIInv, HaltedStandsStill, ReadSoFar
<1>2. StepsAreCounted'
  BY DEF DbgIInv, StepsAreCounted, InstructionsDue
<1>. QED  BY <1>1, <1>2 DEF DbgIInv

LEMMA EditStalledIInv ==
    ASSUME DbgIInv, EditStalled
    PROVE  DbgIInv'
<1>1. /\ dbg.pc = "edit" /\ zc' = zc
      /\ dbg' = IF dbg.err + 1 < MAXERR THEN [dbg EXCEPT !.err = @ + 1] ELSE [dbg EXCEPT !.pc = "exit"]
  BY DEF EditStalled
<1>2. CASE dbg.err + 1 < MAXERR
  <2>1. DbgTypes'
    BY <1>1, <1>2 DEF DbgIInv, DbgTypes
  <2>2. dbg'.pc = "edit" /\ dbg'.cursor = dbg.cursor /\ dbg'.valid = dbg.valid /\ dbg'.seen = dbg.seen
    BY <1>1, <1>2 DEF DbgIInv, DbgTypes
  <2>. QED  BY <1>1, <2>1, <2>2, LeftAloneIInv
<1>3. CASE ~(dbg.err + 1 < MAXERR)
  <2>1. DbgTypes'
    BY <1>1, <1>3 DEF DbgIInv, DbgTypes
  <2>2. dbg'.pc = "exit" /\ dbg'.valid = dbg.valid /\ dbg'.seen = dbg.seen
    BY <1>1, <1>3 DEF DbgIInv, DbgTypes
  <2>. QED  BY <1>1, <2>1, <2>2, LeftAloneIInv
<1>. QED  BY <1>2, <1>3

LEMMA QuitIInv ==
    ASSUME DbgIInv, Quit
    PROVE  DbgIInv'
<1>1. dbg.pc \notin {"start", "gone"} /\ zc' = zc /\ dbg' = [dbg EXCEPT !.pc = "exit", !.valid = FALSE]
  BY DEF Quit
<1>2. DbgTypes' /\ dbg'.pc = "exit" /\ ~dbg'.valid /\ dbg'.seen = dbg.seen
  BY <1>1 DEF DbgIInv, DbgTypes
<1>. QED  BY <1>1, <1>2, LeftAloneIInv

\* The registers of the cells have numbers of six bits, and the cursor keys
\* stay among the cells.
LEMMA CellsOf ==
    ASSUME NEW c \in CursorCells
    PROVE  CellRegister(c) \in 0 .. 63 /\ MoveCursor(c) \subseteq CursorCells
BY DEF CursorCells, CellRegister, MoveCursor

LEMMA KeyIInv ==
    ASSUME DbgIInv, Key, PairPort
    PROVE  DbgIInv' /\ (dbg'.pc = "gone" /\ zc.halted => ~zc'.halt)
<1>0. dbg.pc = "keys" /\ zc.halt /\ InstructionsDue <= zc.steps + 1 /\ 0 \in 0 .. 63
  <2>1. dbg.pc = "keys"
    BY DEF Key
  <2>2. zc.halt /\ InstructionsDue <= zc.steps + 1
    BY <2>1 DEF DbgIInv, StepsAreCounted
  <2>3. 0 \in 0 .. 63
    OBVIOUS
  <2>. QED  BY <2>1, <2>2, <2>3
<1>1. ASSUME NEW cmd \in {"step", "reset"}, zc' = WriteCtrl(cmd, 0),
             dbg' = [dbg EXCEPT !.pc = "refresh", !.valid = FALSE]
      PROVE  DbgIInv' /\ (dbg'.pc = "gone" /\ zc.halted => ~zc'.halt)
  <2>1. /\ zc' \in [halt : BOOLEAN, halted : BOOLEAN, work : BOOLEAN, step : BOOLEAN, sel : 0 .. 63,
                    regs : [RegIds -> RegValues], runs : Nat, steps : Nat]
        /\ HaltedStandsStill' /\ zc'.runs = zc.runs /\ zc'.halt
        /\ cmd = "reset" => ~zc'.work /\ ~zc'.step /\ zc'.steps = zc.steps
        /\ cmd = "step" => zc'.steps = zc.steps + 1 /\ zc'.work = zc.work
    BY <1>0, <1>1, WriteCtrlFacts
  <2>2. DbgTypes'
    BY <1>1, <2>1 DEF DbgIInv, DbgTypes
  <2>3. dbg'.pc = "refresh" /\ ~dbg'.valid
    BY <1>1 DEF DbgIInv, DbgTypes
  <2>4. InstructionsDue' <= zc'.steps + 1
    <3>1. zc.runs \in Nat /\ zc.steps \in Nat
      BY DEF DbgIInv, DbgTypes
    <3>. QED  BY <1>0, <1>1, <2>1, <3>1 DEF InstructionsDue
  <2>5. StepsAreCounted' /\ ReadSoFar'
    BY <2>1, <2>3, <2>4 DEF StepsAreCounted, ReadSoFar
  <2>. QED  BY <2>1, <2>2, <2>3, <2>5 DEF DbgIInv
<1>2. ASSUME zc' = WriteCtrl("go", 0), dbg' = [dbg EXCEPT !.pc = "gone", !.valid = FALSE]
      PROVE  DbgIInv' /\ (dbg'.pc = "gone" /\ zc.halted => ~zc'.halt)
  <2>1. /\ zc' \in [halt : BOOLEAN, halted : BOOLEAN, work : BOOLEAN, step : BOOLEAN, sel : 0 .. 63,
                    regs : [RegIds -> RegValues], runs : Nat, steps : Nat]
        /\ HaltedStandsStill' /\ (zc.halted => ~zc'.halt)
    BY <1>0, <1>2, WriteCtrlFacts
  <2>2. DbgTypes'
    BY <1>2, <2>1 DEF DbgIInv, DbgTypes
  <2>3. dbg'.pc = "gone" /\ ~dbg'.valid
    BY <1>2 DEF DbgIInv, DbgTypes
  <2>. QED  BY <2>1, <2>2, <2>3 DEF DbgIInv, StepsAreCounted, ReadSoFar
<1>3. ASSUME zc' = WriteCtrl("halt", CellRegister(dbg.cursor)),
             dbg' = [dbg EXCEPT !.pc = "edit", !.err = 0, !.valid = FALSE]
      PROVE  DbgIInv' /\ (dbg'.pc = "gone" /\ zc.halted => ~zc'.halt)
  <2>. DEFINE cell == CellRegister(dbg.cursor)
  <2>0. cell \in 0 .. 63
    BY CellsOf DEF DbgIInv, DbgTypes
  <2>1. /\ zc' \in [halt : BOOLEAN, halted : BOOLEAN, work : BOOLEAN, step : BOOLEAN, sel : 0 .. 63,
                    regs : [RegIds -> RegValues], runs : Nat, steps : Nat]
        /\ HaltedStandsStill' /\ zc'.halt /\ zc'.regs = zc.regs /\ zc'.runs = zc.runs
        /\ zc'.steps = zc.steps /\ zc'.halted = zc.halted /\ zc'.work = zc.work /\ zc'.step = zc.step
        /\ zc'.sel = cell
    BY <1>3, <2>0, WriteCtrlFacts
  <2>2. DbgTypes'
    BY <1>3, <2>1 DEF DbgIInv, DbgTypes
  <2>3. dbg'.pc = "edit" /\ ~dbg'.valid /\ dbg'.cursor = dbg.cursor
    BY <1>3 DEF DbgIInv, DbgTypes
  <2>4. StepsAreCounted' /\ ReadSoFar'
    BY <1>0, <2>1, <2>3 DEF StepsAreCounted, InstructionsDue, ReadSoFar
  <2>. QED  BY <2>1, <2>2, <2>3, <2>4 DEF DbgIInv
<1>4. ASSUME zc' = zc, NEW b \in BOOLEAN, dbg' = [dbg EXCEPT !.pc = "refresh", !.users = b]
      PROVE  DbgIInv' /\ (dbg'.pc = "gone" /\ zc.halted => ~zc'.halt)
  <2>1. DbgTypes' /\ dbg'.pc = "refresh" /\ dbg'.valid = dbg.valid /\ dbg'.seen = dbg.seen
    BY <1>4 DEF DbgIInv, DbgTypes
  <2>. QED  BY <1>0, <1>4, <2>1, LeftAloneIInv
<1>5. ASSUME zc' = zc, NEW c \in MoveCursor(dbg.cursor), dbg' = [dbg EXCEPT !.pc = "refresh", !.cursor = c]
      PROVE  DbgIInv' /\ (dbg'.pc = "gone" /\ zc.halted => ~zc'.halt)
  <2>0. c \in CursorCells
    BY <1>5, CellsOf DEF DbgIInv, DbgTypes
  <2>1. DbgTypes' /\ dbg'.pc = "refresh" /\ dbg'.valid = dbg.valid /\ dbg'.seen = dbg.seen
    BY <1>5, <2>0 DEF DbgIInv, DbgTypes
  <2>. QED  BY <1>0, <1>5, <2>1, LeftAloneIInv
<1>. QED  BY <1>1, <1>2, <1>3, <1>4, <1>5 DEF Key

\* A debugger step keeps the invariant, and does what its user means by it.
DbgPromise ==
    /\ \A v \in RegValues : Edit(v) =>
         \A r \in RegIds : zc'.regs[r] # zc.regs[r] => CellRegister(dbg.cursor) = r
    /\ (dbg'.pc = "gone" /\ dbg.pc = "keys" /\ zc.halted) => ~zc'.halt

LEMMA DbgNextIInv ==
    ASSUME DbgIInv, [DbgNext]_dbgVars, PairPort
    PROVE  DbgIInv' /\ DbgPromise
<1>1. CASE \E v \in RegValues : Edit(v)
  <2>1. DbgIInv'
    BY <1>1, EditIInv
  <2>2. dbg.pc = "edit"
    BY <1>1 DEF Edit
  <2>. QED  BY <2>1, <2>2, EditIInv DEF DbgPromise
<1>2. CASE Key
  <2>1. \A v : ~Edit(v)
    BY <1>2 DEF Key, Edit
  <2>. QED  BY <1>2, <2>1, KeyIInv DEF DbgPromise
<1>3. CASE ~Key /\ ~\E v \in RegValues : Edit(v)
  <2>1. DbgIInv'
    <3>1. CASE UNCHANGED dbgVars
      BY <3>1 DEF dbgVars, DbgIInv, DbgTypes, HaltedStandsStill, StepsAreCounted, InstructionsDue, ReadSoFar
    <3>. QED
      BY <1>3, <3>1, FirstHaltIInv, RefreshIInv, SelectRegIInv, PollIInv, ReadRegIInv, EditStalledIInv,
         QuitIInv, CpuIInv DEF DbgNext, DbgStep
  <2>2. dbg.pc = "keys" => dbg'.pc # "gone"
    <3>1. dbg'.pc = dbg.pc \/ dbg.pc # "keys" \/ Quit
      BY <1>3 DEF DbgNext, DbgStep, CpuBegin, CpuEnd, CpuStop, FirstHalt, Refresh, SelectReg, Poll,
                  ReadReg, EditStalled, dbgVars
    <3>2. Quit => dbg'.pc = "exit"
      BY DEF Quit, DbgIInv, DbgTypes
    <3>. QED  BY <3>1, <3>2
  <2>. QED  BY <1>3, <2>1, <2>2 DEF DbgPromise
<1>. QED  BY <1>1, <1>2, <1>3

\* On the port they are written for the tools do what their user means: a
\* screen shown as valid is one moment of the CPU although its registers were
\* read one by one, a step key lets it complete one instruction, an edit
\* writes the register under the cursor and no other, and g lets it go.
THEOREM DebuggerStaysTrue ==
    ASSUME PairPort
    PROVE  DbgSpec => DebuggerIsTrue
<1>1. DbgInit => DbgIInv
  BY DbgInitIInv
<1>2. DbgIInv /\ [DbgNext]_dbgVars => DbgIInv' /\ DbgPromise
  BY DbgNextIInv
<1>3. DbgIInv => ScreenIsOneMoment /\ StepsAreSingle
  <2>. SUFFICES ASSUME DbgIInv PROVE ScreenIsOneMoment /\ StepsAreSingle
    OBVIOUS
  <2>1. ScreenIsOneMoment
    BY DEF DbgIInv, ReadSoFar, ScreenIsOneMoment
  <2>2. StepsAreSingle
    BY DEF DbgIInv, DbgTypes, StepsAreCounted, InstructionsDue, StepsAreSingle
  <2>. QED  BY <2>1, <2>2
<1>4. DbgPromise =>
        /\ [\A v \in RegValues : Edit(v) =>
              \A r \in RegIds : zc'.regs[r] # zc.regs[r] => CellRegister(dbg.cursor) = r]_dbgVars
        /\ [(dbg'.pc = "gone" /\ dbg.pc = "keys" /\ zc.halted) => ~zc'.halt]_dbgVars
  BY DEF DbgPromise
<1>. QED
  BY <1>1, <1>2, <1>3, <1>4, PTL DEF DbgSpec, DebuggerIsTrue, EditsTheCell, GoReleasesTheCpu

-----------------------------------------------------------------------------
(* Multiples: what the flash's pages and sectors, and the masks that work  *)
(* their first bytes out, rest on.                                         *)

\* x is a whole number of ds.
Multiple(x, d) == \E k \in Int : x = k * d

\* Division with a remainder.
LEMMA DivMod ==
    ASSUME NEW a \in Int, NEW d \in Nat \ {0}
    PROVE  a % d \in 0 .. d - 1 /\ a \div d \in Int /\ a = (a \div d) * d + (a % d)
OBVIOUS

\* Two different multiples are at least a unit apart.
LEMMA MultipleGap ==
    ASSUME NEW d \in Nat \ {0}, NEW s, NEW t, Multiple(s, d), Multiple(t, d), s < t
    PROVE  s + d <= t
<1>1. PICK j \in Int : s = j * d
  BY DEF Multiple
<1>2. PICK k \in Int : t = k * d
  BY DEF Multiple
<1>3. j < k
  <2>1. CASE k <= j
    <3>1. \A x \in Int, y \in Int : x <= y => x * d <= y * d
       OBVIOUS
    <3>. QED BY <1>1, <1>2, <2>1, <3>1
  <2>. QED BY <2>1
<1>4. PICK m \in Nat : k = j + 1 + m
  <2>1. k - j - 1 \in Nat /\ k = j + 1 + (k - j - 1)
    BY <1>3
  <2>. QED BY <2>1
<1>5. t = s + d + m * d /\ m * d >= 0
  BY <1>1, <1>2, <1>4
<1>. QED  BY <1>1, <1>2, <1>5

\* What a mask leaves of an address: the multiple at or below it.
LEMMA BaseMultiple ==
    ASSUME NEW a \in Int, NEW d \in Nat \ {0}
    PROVE  /\ Multiple(a - (a % d), d) /\ a - (a % d) \in Int
           /\ a - (a % d) <= a /\ a < a - (a % d) + d
<1>1. a - (a % d) = (a \div d) * d
  BY DivMod
<1>2. a % d \in 0 .. d - 1 /\ a \div d \in Int
  BY DivMod
<1>3. Multiple(a - (a % d), d)
  BY <1>1, <1>2 DEF Multiple
<1>. QED  BY <1>2, <1>3

\* It is the only one within a unit below the address.
LEMMA BaseUnique ==
    ASSUME NEW a \in Int, NEW d \in Nat \ {0}, NEW s \in Int, Multiple(s, d), s <= a, a < s + d
    PROVE  a - (a % d) = s
<1>. DEFINE t == a - (a % d)
<1>1. Multiple(t, d) /\ t \in Int /\ t <= a /\ a < t + d
  BY BaseMultiple
<1>. HIDE DEF t
<1>2. ~(s < t)
  <2>. SUFFICES ASSUME s < t PROVE FALSE
    OBVIOUS
  <2>1. s + d <= t
    BY <1>1, MultipleGap
  <2>. QED  BY <1>1, <2>1
<1>3. ~(t < s)
  <2>. SUFFICES ASSUME t < s PROVE FALSE
    OBVIOUS
  <2>1. t + d <= s
    BY <1>1, MultipleGap
  <2>. QED  BY <1>1, <2>1
<1>4. t = s
  BY <1>1, <1>2, <1>3
<1>. QED  BY <1>4 DEF t

\* The two ways to say it.
LEMMA MultipleOfMod ==
    ASSUME NEW x \in Int, NEW d \in Nat \ {0}
    PROVE  x % d = 0 <=> Multiple(x, d)
<1>1. ASSUME x % d = 0 PROVE Multiple(x, d)
  <2>1. x - (x % d) = x
    BY <1>1
  <2>. QED  BY <2>1, BaseMultiple
<1>2. ASSUME Multiple(x, d) PROVE x % d = 0
  <2>0. x <= x /\ x < x + d
    OBVIOUS
  <2>1. x - (x % d) = x
    BY <1>2, <2>0, BaseUnique
  <2>2. x % d \in Int
    BY DivMod
  <2>. QED  BY <2>1, <2>2
<1>. QED  BY <1>1, <1>2

\* Multiples add up.
LEMMA MultipleSum ==
    ASSUME NEW d \in Nat \ {0}, NEW s \in Int, NEW t \in Int, Multiple(s, d), Multiple(t, d)
    PROVE  Multiple(s + t, d)
<1>1. PICK j \in Int : s = j * d
  BY DEF Multiple
<1>2. PICK k \in Int : t = k * d
  BY DEF Multiple
<1>3. s + t = (j + k) * d /\ j + k \in Int
  BY <1>1, <1>2
<1>. QED  BY <1>3 DEF Multiple

\* A sector of pages in a flash of sectors.
LEMMA MultipleTrans ==
    ASSUME NEW d \in Nat \ {0}, NEW e \in Nat, NEW x \in Int, Multiple(x, e), Multiple(e, d)
    PROVE  Multiple(x, d)
<1>1. PICK j \in Int : x = j * e
  BY DEF Multiple
<1>2. PICK k \in Int : e = k * d
  BY DEF Multiple
<1>3. x = (j * k) * d /\ j * k \in Int
  BY <1>1, <1>2
<1>. QED  BY <1>3 DEF Multiple

-----------------------------------------------------------------------------
(* The flash under any master of its pins, for any geometry of pages and   *)
(* sectors and any bytes and transactions.                                 *)

FlashRec ==
    [state : FlashStates, sreg : SUBSET {"WIP", "WEL", "DPD"}, timing : BOOLEAN,
     mem : [FAddrs -> 0 .. 1], pmem : [0 .. PageSize - 1 -> 0 .. 1], addr : FAddrs, count : Nat,
     mode : {"SPI", "DSPI", "QSPI"}, xip : BOOLEAN, out : 0 .. 1]

QuadReads == {"QUAD_READ_CMD", "QUAD_READ", "QUAD_READ_IDLE"}
DualReads == {"DUAL_READ_CMD", "DUAL_READ", "DUAL_READ_IDLE"}
Writing == {"WRSR", "PP", "QPP", "SECTOR_ERASE", "BULK_ERASE"}

\* A read keeps its bus width while it goes on, and is not begun asleep; a
\* write is not accepted while another one is in progress.
WideReads(d) ==
    /\ d.state \in QuadReads \cup DualReads => "DPD" \notin d.sreg
    /\ d.state \in QuadReads /\ (d.count > 0 \/ d.xip) => d.mode = "QSPI"
    /\ d.state \in DualReads /\ (d.count > 0 \/ d.xip) => d.mode = "DSPI"
    /\ d.state = "QUAD_READ_IDLE" => d.mode = "QSPI"
    /\ d.state = "DUAL_READ_IDLE" => d.mode = "DSPI"
OneWrite(d) == d.state \in Writing => "WIP" \notin d.sreg

FlashIInv == fl \in FlashRec /\ WideReads(fl) /\ OneWrite(fl)

LEMMA CmdNumbers ==
    /\ Cmd.NOP = 0 /\ Cmd.WRSR = 1 /\ Cmd.PP = 2 /\ Cmd.SLOW_READ = 3 /\ Cmd.WRDI = 4 /\ Cmd.RDSR = 5
    /\ Cmd.WREN = 6 /\ Cmd.FAST_READ = 11 /\ Cmd.CLSR = 48 /\ Cmd.QPP = 50 /\ Cmd.RDCR = 53
    /\ Cmd.RDID = 159 /\ Cmd.RELEASE = 171 /\ Cmd.POWER_DOWN = 185 /\ Cmd.DUAL_READ = 187
    /\ Cmd.BULK_ERASE = 199 /\ Cmd.SECTOR_ERASE = 216 /\ Cmd.QUAD_READ = 235
BY DEF Cmd

\* What a command byte may do: write commands are taken with the write
\* enable and nothing else set, and no command but RELEASE wakes the device.
To(d, s) == [d EXCEPT !.state = s]
OpcodeResult(d, e) ==
    \/ "DPD" \in d.sreg /\ e = d
    \/ WriteAllowed(d) /\ \E s \in Writing : e = To(d, s)
    \/ \E s \in {"INVALID", "RDCR", "CLSR", "RDID", "SLOW_READ", "FAST_READ"} : e = To(d, s)
    \/ e = [To(d, "IDLE") EXCEPT !.sreg = @ \ {"WEL"}]
    \/ e = [To(d, "IDLE") EXCEPT !.sreg = @ \union {"WEL"}]
    \/ e = [To(d, "IDLE") EXCEPT !.sreg = @ \union {"DPD"}]
    \/ e = [To(d, "RDSR") EXCEPT !.out = IF Busy(d) THEN 1 ELSE 0]
    \/ "DPD" \notin d.sreg /\ e = [To(d, "DUAL_READ_CMD") EXCEPT !.mode = "DSPI"]
    \/ "DPD" \notin d.sreg /\ e = [To(d, "QUAD_READ_CMD") EXCEPT !.mode = "QSPI"]
    \/ e = [To(d, "RELEASE") EXCEPT !.sreg = @ \ {"DPD"}, !.timing = @ \/ "DPD" \in d.sreg]
    \/ e = [To(d, "IDLE") EXCEPT !.mode = "SPI"]

LEMMA OpcodeArms ==
    ASSUME NEW d, NEW b
    PROVE  OpcodeResult(d, Opcode(d, b))
<1>. DEFINE e == Opcode(d, b)
<1>1. CASE "DPD" \in d.sreg /\ b # Cmd.RELEASE
  <2>1. e = d
    BY <1>1 DEF Opcode
  <2>. QED  BY <1>1, <2>1 DEF OpcodeResult
<1>2. CASE b = Cmd.RELEASE
  <2>1. e = [To(d, "RELEASE") EXCEPT !.sreg = @ \ {"DPD"}, !.timing = @ \/ "DPD" \in d.sreg]
    BY <1>2, CmdNumbers DEF Opcode, To
  <2>. QED  BY <2>1 DEF OpcodeResult
<1>3. CASE "DPD" \notin d.sreg /\ b # Cmd.RELEASE
  <2>1. ASSUME b \in {1, 2, 50, 216, 199}, WriteAllowed(d)
        PROVE  \E s \in Writing : e = To(d, s)
    <3>1. b = 1 => e = To(d, "WRSR")
      BY <1>3, <2>1, CmdNumbers DEF Opcode, To
    <3>2. b = 2 => e = To(d, "PP")
      BY <1>3, <2>1, CmdNumbers DEF Opcode, To
    <3>3. b = 50 => e = To(d, "QPP")
      BY <1>3, <2>1, CmdNumbers DEF Opcode, To
    <3>4. b = 216 => e = To(d, "SECTOR_ERASE")
      BY <1>3, <2>1, CmdNumbers DEF Opcode, To
    <3>5. b = 199 => e = To(d, "BULK_ERASE")
      BY <1>3, <2>1, CmdNumbers DEF Opcode, To
    <3>. HIDE DEF e
    <3>. QED  BY <2>1, <3>1, <3>2, <3>3, <3>4, <3>5 DEF Writing
  <2>2. b \in {1, 2, 50, 216, 199} /\ ~WriteAllowed(d) => e = To(d, "INVALID")
    BY <1>3, CmdNumbers DEF Opcode, To
  <2>3. b = 4 => e = [To(d, "IDLE") EXCEPT !.sreg = @ \ {"WEL"}]
    BY <1>3, CmdNumbers DEF Opcode, To
  <2>4. b = 6 => e = [To(d, "IDLE") EXCEPT !.sreg = @ \union {"WEL"}]
    BY <1>3, CmdNumbers DEF Opcode, To
  <2>5. b = 5 => e = [To(d, "RDSR") EXCEPT !.out = IF Busy(d) THEN 1 ELSE 0]
    BY <1>3, CmdNumbers DEF Opcode, To
  <2>6. /\ b = 53 => e = To(d, "RDCR")
        /\ b = 48 => e = To(d, "CLSR")
        /\ b = 159 => e = To(d, "RDID")
    BY <1>3, CmdNumbers DEF Opcode, To
  <2>7. /\ b = 3 => e = To(d, "SLOW_READ")
        /\ b = 11 => e = To(d, "FAST_READ")
    BY <1>3, CmdNumbers DEF Opcode, To
  <2>8. /\ b = 187 => e = [To(d, "DUAL_READ_CMD") EXCEPT !.mode = "DSPI"]
        /\ b = 235 => e = [To(d, "QUAD_READ_CMD") EXCEPT !.mode = "QSPI"]
    BY <1>3, CmdNumbers DEF Opcode, To
  <2>9. b = 185 => \/ e = To(d, "INVALID")
                   \/ e = [To(d, "IDLE") EXCEPT !.sreg = @ \union {"DPD"}]
    BY <1>3, CmdNumbers DEF Opcode, To
  <2>10. b \notin {1, 2, 50, 216, 199, 4, 6, 5, 53, 48, 159, 3, 11, 187, 235, 185}
           => e = [To(d, "IDLE") EXCEPT !.mode = "SPI"]
    BY <1>3, CmdNumbers DEF Opcode, To
  <2>. SUFFICES OpcodeResult(d, e)
    OBVIOUS
  <2>. HIDE DEF e
  <2>11. CASE b \in {1, 2, 50, 216, 199}
    <3>1. ((\E s \in Writing : e = To(d, s)) /\ WriteAllowed(d)) \/ e = To(d, "INVALID")
      BY <2>1, <2>2, <2>11
    <3>. QED  BY <3>1 DEF OpcodeResult
  <2>12. CASE b \in {53, 48, 159, 3, 11}
    <3>1. \E s \in {"INVALID", "RDCR", "CLSR", "RDID", "SLOW_READ", "FAST_READ"} : e = To(d, s)
      BY <2>6, <2>7, <2>12
    <3>. QED  BY <3>1 DEF OpcodeResult
  <2>13. CASE b \in {4, 6, 5}
    BY <2>3, <2>4, <2>5, <2>13 DEF OpcodeResult
  <2>14. CASE b \in {187, 235}
    BY <1>3, <2>8, <2>14 DEF OpcodeResult
  <2>15. CASE b = 185
    BY <2>9, <2>15 DEF OpcodeResult
  <2>16. CASE b \notin {1, 2, 50, 216, 199, 4, 6, 5, 53, 48, 159, 3, 11, 187, 235, 185}
    BY <2>10, <2>16 DEF OpcodeResult
  <2>17. \/ b \in {1, 2, 50, 216, 199} \/ b \in {53, 48, 159, 3, 11} \/ b \in {4, 6, 5}
         \/ b \in {187, 235} \/ b = 185
         \/ b \notin {1, 2, 50, 216, 199, 4, 6, 5, 53, 48, 159, 3, 11, 187, 235, 185}
    OBVIOUS
  <2>. QED  BY <2>11, <2>12, <2>13, <2>14, <2>15, <2>16, <2>17, Zenon
<1>. QED  BY <1>1, <1>2, <1>3

\* A command byte leaves the memory alone.
LEMMA OpcodeKeeps ==
    ASSUME NEW d \in FlashRec, NEW b, OneWrite(d),
           d.state \in QuadReads \cup DualReads => "DPD" \notin d.sreg
    PROVE  LET e == Opcode(d, b)
           IN  e \in FlashRec /\ e.mem = d.mem /\ WideReads(e) /\ OneWrite(e)
<1>. DEFINE e == Opcode(d, b)
            Goal == e \in FlashRec /\ e.mem = d.mem /\ WideReads(e) /\ OneWrite(e)
<1>. SUFFICES Goal
  OBVIOUS
<1>0. OpcodeResult(d, e)
  BY OpcodeArms
<1>. HIDE DEF e
<1>1. CASE "DPD" \in d.sreg /\ e = d
  BY <1>1 DEF WideReads, QuadReads, DualReads
<1>2. ASSUME WriteAllowed(d), NEW s \in Writing, e = To(d, s) PROVE Goal
  <2>1. e \in FlashRec /\ e.mem = d.mem /\ e.state = s /\ e.sreg = d.sreg
    BY <1>2 DEF To, FlashRec, FlashStates, Writing
  <2>2. "WIP" \notin d.sreg
    BY <1>2 DEF WriteAllowed
  <2>. QED  BY <2>1, <2>2 DEF WideReads, OneWrite, QuadReads, DualReads, Writing
<1>3. ASSUME NEW s \in {"INVALID", "RDCR", "CLSR", "RDID", "SLOW_READ", "FAST_READ"}, e = To(d, s) PROVE Goal
  <2>1. e \in FlashRec /\ e.mem = d.mem /\ e.state = s
    BY <1>3 DEF To, FlashRec, FlashStates
  <2>. QED  BY <2>1 DEF WideReads, OneWrite, QuadReads, DualReads, Writing
<1>4. ASSUME NEW x \in SUBSET {"WIP", "WEL", "DPD"}, e = [To(d, "IDLE") EXCEPT !.sreg = x] PROVE Goal
  <2>1. e \in FlashRec /\ e.mem = d.mem /\ e.state = "IDLE"
    BY <1>4 DEF To, FlashRec, FlashStates
  <2>. QED  BY <2>1 DEF WideReads, OneWrite, QuadReads, DualReads, Writing
<1>5. ASSUME NEW x \in 0 .. 1, e = [To(d, "RDSR") EXCEPT !.out = x] PROVE Goal
  <2>1. e \in FlashRec /\ e.mem = d.mem /\ e.state = "RDSR"
    BY <1>5 DEF To, FlashRec, FlashStates
  <2>. QED  BY <2>1 DEF WideReads, OneWrite, QuadReads, DualReads, Writing
<1>6. ASSUME "DPD" \notin d.sreg, e = [To(d, "DUAL_READ_CMD") EXCEPT !.mode = "DSPI"] PROVE Goal
  <2>1. e \in FlashRec /\ e.mem = d.mem /\ e.state = "DUAL_READ_CMD" /\ e.mode = "DSPI" /\ e.sreg = d.sreg
    BY <1>6 DEF To, FlashRec, FlashStates
  <2>. QED  BY <1>6, <2>1 DEF WideReads, OneWrite, QuadReads, DualReads, Writing
<1>7. ASSUME "DPD" \notin d.sreg, e = [To(d, "QUAD_READ_CMD") EXCEPT !.mode = "QSPI"] PROVE Goal
  <2>1. e \in FlashRec /\ e.mem = d.mem /\ e.state = "QUAD_READ_CMD" /\ e.mode = "QSPI" /\ e.sreg = d.sreg
    BY <1>7 DEF To, FlashRec, FlashStates
  <2>. QED  BY <1>7, <2>1 DEF WideReads, OneWrite, QuadReads, DualReads, Writing
<1>8. ASSUME NEW x \in SUBSET {"WIP", "WEL", "DPD"}, NEW t \in BOOLEAN,
             e = [To(d, "RELEASE") EXCEPT !.sreg = x, !.timing = t] PROVE Goal
  <2>1. e \in FlashRec /\ e.mem = d.mem /\ e.state = "RELEASE"
    BY <1>8 DEF To, FlashRec, FlashStates
  <2>. QED  BY <2>1 DEF WideReads, OneWrite, QuadReads, DualReads, Writing
<1>9. ASSUME e = [To(d, "IDLE") EXCEPT !.mode = "SPI"] PROVE Goal
  <2>1. e \in FlashRec /\ e.mem = d.mem /\ e.state = "IDLE"
    BY <1>9 DEF To, FlashRec, FlashStates
  <2>. QED  BY <2>1 DEF WideReads, OneWrite, QuadReads, DualReads, Writing
<1>10. /\ d.sreg \in SUBSET {"WIP", "WEL", "DPD"} /\ d.timing \in BOOLEAN
       /\ (d.timing \/ "DPD" \in d.sreg) \in BOOLEAN /\ (IF Busy(d) THEN 1 ELSE 0) \in 0 .. 1
       /\ To(d, "IDLE").sreg = d.sreg /\ To(d, "RELEASE").sreg = d.sreg
       /\ To(d, "RELEASE").timing = d.timing
  BY DEF FlashRec, To
<1>11. /\ e = [To(d, "IDLE") EXCEPT !.sreg = @ \ {"WEL"}] => Goal
       /\ e = [To(d, "IDLE") EXCEPT !.sreg = @ \union {"WEL"}] => Goal
       /\ e = [To(d, "IDLE") EXCEPT !.sreg = @ \union {"DPD"}] => Goal
  BY <1>4, <1>10
<1>12. e = [To(d, "RDSR") EXCEPT !.out = IF Busy(d) THEN 1 ELSE 0] => Goal
  BY <1>5, <1>10
<1>13. e = [To(d, "RELEASE") EXCEPT !.sreg = @ \ {"DPD"}, !.timing = @ \/ "DPD" \in d.sreg] => Goal
  BY <1>8, <1>10
<1>. HIDE DEF Goal
<1>. QED
  BY <1>0, <1>1, <1>2, <1>3, <1>6, <1>7, <1>9, <1>11, <1>12, <1>13 DEF OpcodeResult

\* Pages and sectors lie in the flash whole.
LEMMA FlashMultiples ==
    /\ PageSize \in Nat \ {0} /\ SectorSize \in Nat \ {0} /\ FlashSize \in Nat \ {0, 1}
    /\ Multiple(SectorSize, PageSize) /\ Multiple(FlashSize, SectorSize) /\ Multiple(FlashSize, PageSize)
<1>1. PageSize \in Nat \ {0} /\ SectorSize \in Nat \ {0} /\ FlashSize \in Nat \ {0, 1}
  BY FlashGeometry
<1>2. Multiple(SectorSize, PageSize) /\ Multiple(FlashSize, SectorSize)
  BY <1>1, FlashGeometry, MultipleOfMod
<1>3. Multiple(FlashSize, PageSize)
  BY <1>1, <1>2, MultipleTrans
<1>. QED  BY <1>1, <1>2, <1>3

\* The page of an address, and the sector.
LEMMA PageOfAddress ==
    ASSUME NEW a \in FAddrs
    PROVE  /\ PageBase(a) \in Nat /\ Multiple(PageBase(a), PageSize) /\ a % PageSize \in 0 .. PageSize - 1
           /\ PageBase(a) <= a /\ a < PageBase(a) + PageSize /\ PageBase(a) + PageSize <= FlashSize
<1>. USE FlashMultiples
<1>1. a \in Int /\ a >= 0 /\ a < FlashSize
  BY DEF FAddrs
<1>2. /\ Multiple(PageBase(a), PageSize) /\ PageBase(a) \in Int
      /\ PageBase(a) <= a /\ a < PageBase(a) + PageSize
  BY <1>1, BaseMultiple DEF PageBase
<1>3. a % PageSize \in 0 .. PageSize - 1
  BY <1>1, DivMod
<1>4. PageBase(a) >= 0
  <2>1. Multiple(0, PageSize)
    BY DEF Multiple
  <2>2. PageBase(a) < 0 => PageBase(a) + PageSize <= 0
    BY <1>2, <2>1, MultipleGap
  <2>. QED  BY <1>1, <1>2, <2>2
<1>5. PageBase(a) + PageSize <= FlashSize
  <2>1. PageBase(a) < FlashSize
    BY <1>1, <1>2
  <2>. QED  BY <1>2, <2>1, MultipleGap
<1>. QED  BY <1>2, <1>3, <1>4, <1>5

LEMMA SectorOfAddress ==
    ASSUME NEW a \in FAddrs
    PROVE  /\ SectorBase(a) \in Nat /\ Multiple(SectorBase(a), SectorSize)
           /\ SectorBase(a) <= a /\ a < SectorBase(a) + SectorSize /\ SectorBase(a) + SectorSize <= FlashSize
<1>. USE FlashMultiples
<1>1. a \in Int /\ a >= 0 /\ a < FlashSize
  BY DEF FAddrs
<1>2. /\ Multiple(SectorBase(a), SectorSize) /\ SectorBase(a) \in Int
      /\ SectorBase(a) <= a /\ a < SectorBase(a) + SectorSize
  BY <1>1, BaseMultiple DEF SectorBase
<1>4. SectorBase(a) >= 0
  <2>1. Multiple(0, SectorSize)
    BY DEF Multiple
  <2>2. SectorBase(a) < 0 => SectorBase(a) + SectorSize <= 0
    BY <1>2, <2>1, MultipleGap
  <2>. QED  BY <1>1, <1>2, <2>2
<1>5. SectorBase(a) + SectorSize <= FlashSize
  <2>1. SectorBase(a) < FlashSize
    BY <1>1, <1>2
  <2>. QED  BY <1>2, <2>1, MultipleGap
<1>. QED  BY <1>2, <1>4, <1>5

\* The address of a page program goes round in its page.
LEMMA NextInPageType ==
    ASSUME NEW a \in FAddrs
    PROVE  NextInPage(a) \in FAddrs
<1>. DEFINE k == a + 1
<1>1. k % PageSize \in 0 .. PageSize - 1
  <2>1. k \in Int /\ PageSize \in Nat \ {0}
    BY FlashMultiples DEF FAddrs
  <2>. HIDE DEF k
  <2>. QED  BY <2>1, DivMod
<1>. QED  BY <1>1, PageOfAddress, FlashMultiples DEF NextInPage, FAddrs

\* What a later byte of a transaction leaves alone.
Same(d, e) == /\ e \in FlashRec /\ e.state = d.state /\ e.sreg = d.sreg /\ e.mode = d.mode
              /\ e.count = d.count /\ e.mem = d.mem

LEMMA NextByteKeeps ==
    ASSUME NEW d \in FlashRec
    PROVE  Same(d, NextByte(d))
<1>. DEFINE k == d.addr + 1
<1>1. k % FlashSize \in FAddrs
  <2>1. k \in Int /\ FlashSize \in Nat \ {0}
    BY FlashMultiples DEF FlashRec, FAddrs
  <2>. HIDE DEF k
  <2>2. k % FlashSize \in 0 .. FlashSize - 1
    BY <2>1, DivMod
  <2>. QED  BY <2>2 DEF FAddrs
<1>2. d.mem[d.addr] \in 0 .. 1
  BY DEF FlashRec
<1>. DEFINE m == d.mem[d.addr]
            a == (d.addr + 1) % FlashSize
<1>3. NextByte(d) = [d EXCEPT !.out = m, !.addr = a]
  BY DEF NextByte
<1>4. m \in 0 .. 1 /\ a \in FAddrs
  BY <1>1, <1>2
<1>. HIDE DEF m, a
<1>. QED  BY <1>3, <1>4 DEF Same, FlashRec

LEMMA ReadByteKeeps ==
    ASSUME NEW d \in FlashRec, NEW n \in Nat, NEW b \in FAddrs
    PROVE  Same(d, ReadByte(d, n, b))
<1>. DEFINE latch == [d EXCEPT !.addr = b]
            x == (b = 1)
            mode == [d EXCEPT !.xip = x]
            silent == [d EXCEPT !.out = 0]
            e == ReadByte(d, n, b)
<1>1. Same(d, d) /\ Same(d, latch) /\ Same(d, silent)
  BY DEF Same, FlashRec
<1>2. Same(d, mode)
  <2>1. x \in BOOLEAN
    OBVIOUS
  <2>. HIDE DEF x
  <2>. QED  BY <2>1 DEF Same, FlashRec
<1>3. Same(d, NextByte(d)) /\ Same(d, NextByte(latch)) /\ Same(d, NextByte(mode))
  BY <1>1, <1>2, NextByteKeeps DEF Same
<1>4. \/ e = latch \/ e = mode \/ e = silent
      \/ e = NextByte(d) \/ e = NextByte(latch) \/ e = NextByte(mode)
  <2>1. CASE n = 4
    BY <2>1 DEF ReadByte
  <2>2. CASE n = 5
    BY <2>2 DEF ReadByte
  <2>3. CASE n # 4 /\ n # 5
    <3>1. CASE d.state \in {"SLOW_READ", "FAST_READ"}
      BY <2>3, <3>1 DEF ReadByte
    <3>2. CASE d.state = "DUAL_READ_CMD"
      BY <2>3, <3>2 DEF ReadByte
    <3>3. CASE d.state = "QUAD_READ_CMD"
      BY <2>3, <3>3 DEF ReadByte
    <3>4. CASE d.state = "DUAL_READ"
      BY <2>3, <3>4 DEF ReadByte
    <3>5. CASE d.state = "QUAD_READ"
      BY <2>3, <3>5 DEF ReadByte
    <3>6. CASE d.state \notin {"SLOW_READ", "FAST_READ", "QUAD_READ_CMD", "QUAD_READ",
                             "DUAL_READ_CMD", "DUAL_READ"}
      BY <2>3, <3>6 DEF ReadByte
    <3>. QED  BY <3>1, <3>2, <3>3, <3>4, <3>5, <3>6
  <2>. QED  BY <2>1, <2>2, <2>3
<1>. HIDE DEF latch, mode, silent, e
<1>5. Same(d, e)
  BY <1>1, <1>2, <1>3, <1>4
<1>. QED  BY <1>5 DEF e

\* A later byte of a page program: the page buffer, the address, the width.
LEMMA ProgramByteKeeps ==
    ASSUME NEW d \in FlashRec, NEW n \in Nat, NEW b \in FAddrs
    PROVE  LET e == ProgramByte(d, n, b)
           IN  e \in FlashRec /\ e.state = d.state /\ e.sreg = d.sreg /\ e.mem = d.mem
<1>. DEFINE e == ProgramByte(d, n, b)
<1>1. CASE n = 4
  <2>. DEFINE m == IF d.state = "QPP" THEN "QSPI" ELSE d.mode
              pm == [i \in DOMAIN d.pmem |-> Erased]
  <2>1. e = [d EXCEPT !.addr = b, !.pmem = pm, !.mode = m]
    BY <1>1 DEF ProgramByte
  <2>2. m \in {"SPI", "DSPI", "QSPI"} /\ pm \in [0 .. PageSize - 1 -> 0 .. 1]
    BY DEF FlashRec, Erased
  <2>. HIDE DEF m, pm, e
  <2>3. e \in FlashRec /\ e.state = d.state /\ e.sreg = d.sreg /\ e.mem = d.mem
    BY <2>1, <2>2 DEF FlashRec
  <2>. QED  BY <2>3 DEF e
<1>2. CASE n > 4
  <2>. DEFINE a == NextInPage(d.addr)
              x == IF b = Erased THEN Erased ELSE 0
              pm == [d.pmem EXCEPT ![d.addr % PageSize] = x]
  <2>1. e = [d EXCEPT !.pmem = pm, !.addr = a]
    BY <1>2 DEF ProgramByte
  <2>2. a \in FAddrs
    BY NextInPageType DEF FlashRec
  <2>3. x \in 0 .. 1
    BY DEF Erased
  <2>4. pm \in [0 .. PageSize - 1 -> 0 .. 1]
    <3>. HIDE DEF x
    <3>. QED  BY <2>3 DEF FlashRec
  <2>. HIDE DEF a, pm, e
  <2>5. e \in FlashRec /\ e.state = d.state /\ e.sreg = d.sreg /\ e.mem = d.mem
    BY <2>1, <2>2, <2>4 DEF FlashRec
  <2>. QED  BY <2>5 DEF e
<1>3. CASE n < 4
  BY <1>3 DEF ProgramByte
<1>. QED  BY <1>1, <1>2, <1>3

\* A later byte of a transaction leaves the memory alone.
LEMMA LaterByteKeeps ==
    ASSUME NEW d \in FlashRec, NEW n \in Nat, NEW b \in FAddrs, WideReads(d), OneWrite(d),
           n > 1, d.count > 0
    PROVE  LET e == LaterByte(d, n, b)
           IN  e \in FlashRec /\ e.mem = d.mem /\ WideReads(e) /\ OneWrite(e)
<1>. DEFINE e == LaterByte(d, n, b)
            Goal == e \in FlashRec /\ e.mem = d.mem /\ WideReads(e) /\ OneWrite(e)
<1>. SUFFICES Goal
  OBVIOUS
<1>1. CASE d.state \in {"PP", "QPP"}
  <2>1. e = ProgramByte(d, n, b)
    BY <1>1 DEF LaterByte
  <2>. HIDE DEF e
  <2>2. e \in FlashRec /\ e.state = d.state /\ e.sreg = d.sreg /\ e.mem = d.mem
    BY <2>1, ProgramByteKeeps
  <2>. QED  BY <1>1, <2>2 DEF WideReads, OneWrite, QuadReads, DualReads
<1>2. CASE d.state = "SECTOR_ERASE"
  <2>1. e = [d EXCEPT !.addr = b] \/ e = [d EXCEPT !.out = 0]
    BY <1>2 DEF LaterByte
  <2>. HIDE DEF e
  <2>2. Same(d, e)
    BY <2>1 DEF FlashRec, Same
  <2>. QED  BY <1>2, <2>2 DEF WideReads, OneWrite, QuadReads, DualReads, Same
<1>3. CASE d.state = "WRSR"
  <2>. DEFINE r == d.sreg \ {"WEL", "DPD"}
  <2>1. e = [d EXCEPT !.sreg = r] \/ e = [d EXCEPT !.state = "exit"] \/ e = [d EXCEPT !.out = 0]
    BY <1>3 DEF LaterByte
  <2>2. r \in SUBSET {"WIP", "WEL", "DPD"} /\ (("WIP" \in r) => "WIP" \in d.sreg)
    BY DEF FlashRec
  <2>. HIDE DEF e, r
  <2>3. /\ e \in FlashRec /\ e.state \in {"WRSR", "exit"} /\ e.mem = d.mem
        /\ e.sreg = r \/ e.sreg = d.sreg
    BY <1>3, <2>1, <2>2 DEF FlashRec, FlashStates
  <2>. QED  BY <1>3, <2>2, <2>3 DEF WideReads, OneWrite, QuadReads, DualReads, Writing
<1>4. CASE d.state = "CLSR"
  <2>1. e = [d EXCEPT !.state = "exit"]
    BY <1>4 DEF LaterByte
  <2>. HIDE DEF e
  <2>2. e \in FlashRec /\ e.state = "exit" /\ e.mem = d.mem
    BY <2>1 DEF FlashRec, FlashStates
  <2>. QED  BY <2>2 DEF WideReads, OneWrite, QuadReads, DualReads, Writing
<1>5. CASE d.state = "RDSR"
  <2>. DEFINE x == IF Busy(d) THEN 1 ELSE 0
  <2>1. e = [d EXCEPT !.out = x] /\ x \in 0 .. 1
    BY <1>5 DEF LaterByte
  <2>. HIDE DEF e, x
  <2>2. Same(d, e)
    BY <2>1 DEF FlashRec, Same
  <2>. QED  BY <1>5, <2>2 DEF WideReads, OneWrite, QuadReads, DualReads, Same
<1>6. CASE d.state \in {"SLOW_READ", "FAST_READ", "QUAD_READ_CMD", "QUAD_READ",
                        "DUAL_READ_CMD", "DUAL_READ"}
  <2>1. e = ReadByte(d, n, b)
    BY <1>6 DEF LaterByte
  <2>. HIDE DEF e
  <2>2. Same(d, e)
    BY <2>1, ReadByteKeeps
  <2>3. (e.state = d.state) /\ e.sreg = d.sreg /\ e.mode = d.mode /\ d.count > 0
    BY <2>2 DEF Same
  <2>. QED  BY <1>6, <2>2, <2>3 DEF WideReads, OneWrite, QuadReads, DualReads, Same
<1>7. CASE d.state \notin {"PP", "QPP", "SECTOR_ERASE", "WRSR", "CLSR", "RDSR", "SLOW_READ", "FAST_READ",
                           "QUAD_READ_CMD", "QUAD_READ", "DUAL_READ_CMD", "DUAL_READ"}
  <2>1. e = [d EXCEPT !.out = 0]
    BY <1>7 DEF LaterByte
  <2>. HIDE DEF e
  <2>2. Same(d, e)
    BY <2>1 DEF FlashRec, Same
  <2>. QED  BY <1>7, <2>2 DEF WideReads, OneWrite, QuadReads, DualReads, Same
<1>. HIDE DEF Goal
<1>. QED  BY <1>1, <1>2, <1>3, <1>4, <1>5, <1>6, <1>7

\* A byte of a transaction, its first or a later one.
LEMMA XferKeeps ==
    ASSUME NEW d \in FlashRec, NEW b, WideReads(d), OneWrite(d), d.count > 0 => b \in FAddrs
    PROVE  LET e == Xfer(d, b)
           IN  e \in FlashRec /\ e.mem = d.mem /\ WideReads(e) /\ OneWrite(e)
<1>. DEFINE n == d.count + 1
            c == [d EXCEPT !.count = n]
            e == Xfer(d, b)
            Goal == e \in FlashRec /\ e.mem = d.mem /\ WideReads(e) /\ OneWrite(e)
<1>. SUFFICES Goal
  OBVIOUS
<1>1. d.count \in Nat /\ n \in Nat /\ n > 0 /\ (n > 1 <=> d.count > 0) /\ (n = 3 => d.count > 0)
  BY DEF FlashRec
<1>2. /\ c \in FlashRec /\ c.state = d.state /\ c.sreg = d.sreg /\ c.mode = d.mode /\ c.xip = d.xip
      /\ c.mem = d.mem /\ c.count = n
  <2>. HIDE DEF n
  <2>. QED  BY <1>1 DEF FlashRec
<1>3. OneWrite(c) /\ (d.state \in QuadReads \cup DualReads => "DPD" \notin d.sreg)
  BY <1>2 DEF OneWrite, WideReads
<1>4. CASE d.state \in {"QUAD_READ_IDLE", "DUAL_READ_IDLE"}
  <2>1. CASE n = 3
    <3>. DEFINE s == IF d.state = "QUAD_READ_IDLE" THEN "QUAD_READ" ELSE "DUAL_READ"
    <3>1. e = [c EXCEPT !.addr = b, !.out = 0, !.state = s] /\ b \in FAddrs
      BY <1>1, <1>4, <2>1 DEF Xfer
    <3>2. s \in FlashStates
      BY DEF FlashStates
    <3>. HIDE DEF s, e, c
    <3>3. e \in FlashRec
      <4>. DEFINE y == 0
      <4>1. e = [c EXCEPT !.addr = b, !.out = y, !.state = s] /\ y \in 0 .. 1 /\ b \in FAddrs
        BY <3>1
      <4>. HIDE DEF y
      <4>. QED  BY <1>2, <4>1, <3>2 DEF FlashRec
    <3>4. e.mem = c.mem /\ e.state = s /\ e.sreg = c.sreg /\ e.mode = c.mode
      BY <1>2, <3>1 DEF FlashRec
    <3>. QED  BY <1>2, <1>4, <3>3, <3>4 DEF s, WideReads, OneWrite, QuadReads, DualReads, Writing
  <2>2. CASE n # 3
    <3>1. e = [c EXCEPT !.out = 0]
      BY <1>4, <2>2 DEF Xfer
    <3>. HIDE DEF e, c
    <3>2. e \in FlashRec /\ e.mem = d.mem /\ e.state = d.state /\ e.sreg = d.sreg /\ e.mode = d.mode
      BY <1>2, <3>1 DEF FlashRec
    <3>. QED  BY <1>3, <1>4, <3>2 DEF WideReads, OneWrite, QuadReads, DualReads, Writing
  <2>. QED  BY <2>1, <2>2
<1>5. CASE d.state \notin {"QUAD_READ_IDLE", "DUAL_READ_IDLE"}
  <2>1. CASE n = 1
    <3>1. e = Opcode(c, b)
      BY <1>5, <2>1 DEF Xfer
    <3>. HIDE DEF e, c
    <3>. QED  BY <1>2, <1>3, <3>1, OpcodeKeeps
  <2>2. CASE n # 1
    <3>1. e = LaterByte(c, n, b)
      BY <1>5, <2>2 DEF Xfer
    <3>2. n > 1 /\ d.count > 0 /\ b \in FAddrs
      BY <1>1, <2>2
    <3>3. WideReads(c)
      <4>. HIDE DEF n, c
      <4>. QED  BY <1>2, <3>2 DEF WideReads
    <3>. HIDE DEF e, c, n
    <3>. QED  BY <1>1, <1>2, <1>3, <3>1, <3>2, <3>3, LaterByteKeeps
  <2>. QED  BY <2>1, <2>2
<1>. QED  BY <1>4, <1>5

\* The end of a transaction: the only thing that writes, and it begins the
\* write cycle.
LEMMA DeselectKeeps ==
    ASSUME NEW d0 \in FlashRec, WideReads(d0), OneWrite(d0)
    PROVE  LET e == Deselect(d0)
           IN  /\ e \in FlashRec /\ WideReads(e) /\ OneWrite(e)
               /\ e.mem # d0.mem => ~Busy(d0) /\ Busy(e) /\ e.timing
<1>. DEFINE d == [d0 EXCEPT !.count = 0, !.out = 0]
            e == Deselect(d0)
            Goal == /\ e \in FlashRec /\ WideReads(e) /\ OneWrite(e)
                    /\ e.mem # d0.mem => ~Busy(d0) /\ Busy(e) /\ e.timing
<1>. SUFFICES Goal
  OBVIOUS
<1>1. /\ d \in FlashRec /\ d.state = d0.state /\ d.sreg = d0.sreg /\ d.mode = d0.mode /\ d.xip = d0.xip
      /\ d.mem = d0.mem /\ d.count = 0 /\ d.addr = d0.addr /\ d.pmem = d0.pmem
  <2>. DEFINE x == 0
              y == 0
  <2>1. x \in Nat /\ y \in 0 .. 1 /\ d = [d0 EXCEPT !.count = x, !.out = y] /\ x = 0
    OBVIOUS
  <2>. HIDE DEF d, x, y
  <2>. QED  BY <2>1 DEF FlashRec
<1>10. "IDLE" \in FlashStates
  BY DEF FlashStates
<1>2. ASSUME NEW m \in [FAddrs -> 0 .. 1]
      PROVE  LET w == WriteCycle(d, m)
             IN  w \in FlashRec /\ w.state = "IDLE" /\ "WIP" \in w.sreg /\ w.timing /\ w.addr = d.addr
  <2>. DEFINE r == (d.sreg \ {"WEL"}) \union {"WIP"}
              w == WriteCycle(d, m)
  <2>1. w = [d EXCEPT !.state = "IDLE", !.timing = TRUE, !.mem = m, !.sreg = r]
    BY DEF WriteCycle
  <2>. HIDE DEF d
  <2>2. r \in SUBSET {"WIP", "WEL", "DPD"} /\ "WIP" \in r
    <3>1. d.sreg \in SUBSET {"WIP", "WEL", "DPD"}
      BY <1>1 DEF FlashRec
    <3>. QED  BY <3>1
  <2>. HIDE DEF r, w
  <2>3. w \in FlashRec /\ w.state = "IDLE" /\ w.sreg = r /\ w.timing /\ w.addr = d.addr
    BY <1>1, <1>10, <2>1, <2>2 DEF FlashRec
  <2>. QED  BY <2>2, <2>3 DEF w
<1>. HIDE DEF d
<1>3. CASE d.state \in {"PP", "QPP"}
  <2>. DEFINE w == WriteCycle(d, Programmed(d))
  <2>1. e = [w EXCEPT !.mode = "SPI"]
    BY <1>1, <1>3 DEF Deselect, d
  <2>2. Programmed(d) \in [FAddrs -> 0 .. 1]
    <3>1. ASSUME NEW a \in FAddrs
          PROVE  d.mem[a] \in 0 .. 1 /\ d.mem[a] * d.pmem[a % PageSize] \in 0 .. 1
      <4>1. d.mem[a] \in 0 .. 1 /\ d.pmem[a % PageSize] \in 0 .. 1
        BY <1>1, PageOfAddress DEF FlashRec
      <4>2. \A x \in 0 .. 1, y \in 0 .. 1 : x * y \in 0 .. 1
        OBVIOUS
      <4>. QED  BY <4>1, <4>2
    <3>. QED  BY <3>1 DEF Programmed
  <2>3. w \in FlashRec /\ w.state = "IDLE" /\ "WIP" \in w.sreg /\ w.timing
    BY <1>2, <2>2
  <2>. HIDE DEF e, w
  <2>4. e \in FlashRec /\ e.state = "IDLE" /\ "WIP" \in e.sreg /\ e.timing
    BY <2>1, <2>3 DEF FlashRec
  <2>. QED  BY <1>1, <1>3, <2>4 DEF WideReads, OneWrite, QuadReads, DualReads, Writing, Busy
<1>4. CASE d.state = "SECTOR_ERASE"
  <2>. DEFINE w == WriteCycle(d, SectorErased(d))
              a == SectorBase(w.addr)
  <2>1. e = [w EXCEPT !.addr = a]
    BY <1>1, <1>4 DEF Deselect, d
  <2>2. SectorErased(d) \in [FAddrs -> 0 .. 1]
    BY <1>1 DEF SectorErased, Erased, FlashRec
  <2>3. w \in FlashRec /\ w.state = "IDLE" /\ "WIP" \in w.sreg /\ w.timing
    BY <1>2, <2>2
  <2>. HIDE DEF w
  <2>4. a \in FAddrs
    BY <2>3, SectorOfAddress, FlashMultiples DEF FlashRec, FAddrs
  <2>. HIDE DEF e, a
  <2>5. e \in FlashRec /\ e.state = "IDLE" /\ "WIP" \in e.sreg /\ e.timing
    BY <2>1, <2>3, <2>4 DEF FlashRec
  <2>. QED  BY <1>1, <1>4, <2>5 DEF WideReads, OneWrite, QuadReads, DualReads, Writing, Busy
<1>5. CASE d.state \in {"WRSR", "BULK_ERASE"}
  <2>1. \E m \in [FAddrs -> 0 .. 1] : e = WriteCycle(d, m)
    <3>1. d.state = "WRSR" => e = WriteCycle(d, d.mem)
      BY <1>1 DEF Deselect, d
    <3>2. d.state = "BULK_ERASE" => e = WriteCycle(d, [a \in FAddrs |-> Erased])
      BY <1>1 DEF Deselect, d
    <3>3. d.mem \in [FAddrs -> 0 .. 1] /\ [a \in FAddrs |-> Erased] \in [FAddrs -> 0 .. 1]
      BY <1>1 DEF FlashRec, Erased
    <3>. QED  BY <1>5, <3>1, <3>2, <3>3
  <2>2. e \in FlashRec /\ e.state = "IDLE" /\ "WIP" \in e.sreg /\ e.timing
    BY <1>2, <2>1
  <2>. HIDE DEF e
  <2>. QED  BY <1>1, <1>5, <2>2 DEF WideReads, OneWrite, QuadReads, DualReads, Writing, Busy
<1>6. CASE d.state = "CLSR"
  <2>. DEFINE r == d.sreg \ {"DPD"}
  <2>1. e = [d EXCEPT !.state = "IDLE", !.sreg = r]
    BY <1>1, <1>6 DEF Deselect, d
  <2>2. r \in SUBSET {"WIP", "WEL", "DPD"}
    BY <1>1 DEF FlashRec
  <2>. HIDE DEF e, r
  <2>3. e \in FlashRec /\ e.state = "IDLE" /\ e.mem = d.mem
    BY <1>1, <1>10, <2>1, <2>2 DEF FlashRec
  <2>. QED  BY <1>1, <2>3 DEF WideReads, OneWrite, QuadReads, DualReads, Writing
<1>7. CASE d.state = "RELEASE"
  <2>1. e = [d EXCEPT !.state = "IDLE", !.timing = TRUE]
    BY <1>1, <1>7 DEF Deselect, d
  <2>. HIDE DEF e
  <2>2. e \in FlashRec /\ e.state = "IDLE" /\ e.mem = d.mem
    BY <1>1, <1>10, <2>1 DEF FlashRec
  <2>. QED  BY <1>1, <2>2 DEF WideReads, OneWrite, QuadReads, DualReads, Writing
<1>8. CASE d.state \in {"QUAD_READ_CMD", "QUAD_READ", "DUAL_READ_CMD", "DUAL_READ"}
  <2>. DEFINE s == IF d.state \in {"QUAD_READ_CMD", "QUAD_READ"} THEN "QUAD_READ_IDLE" ELSE "DUAL_READ_IDLE"
  <2>1. e = KeepReading(d, s)
    <3>1. d.state \in {"QUAD_READ_CMD", "QUAD_READ"} => e = KeepReading(d, "QUAD_READ_IDLE")
      BY <1>1 DEF Deselect, d
    <3>2. d.state \in {"DUAL_READ_CMD", "DUAL_READ"} => e = KeepReading(d, "DUAL_READ_IDLE")
      BY <1>1 DEF Deselect, d
    <3>. QED  BY <1>8, <3>1, <3>2
  <2>2. s \in FlashStates
    BY DEF FlashStates
  <2>. HIDE DEF e, s
  <2>3. CASE d.xip
    <3>1. e = [d EXCEPT !.state = s]
      BY <2>1, <2>3 DEF KeepReading
    <3>2. e \in FlashRec /\ e.state = s /\ e.mem = d.mem /\ e.mode = d.mode /\ e.sreg = d.sreg
      BY <1>1, <2>2, <3>1 DEF FlashRec
    <3>. QED  BY <1>1, <1>8, <2>3, <3>2 DEF s, WideReads, OneWrite, QuadReads, DualReads, Writing
  <2>4. CASE ~d.xip
    <3>1. e = [d EXCEPT !.mode = "SPI"]
      BY <2>1, <2>4 DEF KeepReading
    <3>2. /\ e \in FlashRec /\ e.state = d.state /\ e.mem = d.mem /\ ~e.xip /\ e.sreg = d.sreg
          /\ e.count = 0
      BY <1>1, <2>4, <3>1 DEF FlashRec
    <3>. QED  BY <1>1, <1>8, <3>2 DEF WideReads, OneWrite, QuadReads, DualReads, Writing
  <2>. QED  BY <2>3, <2>4
<1>9. CASE d.state \notin {"PP", "QPP", "SECTOR_ERASE", "WRSR", "BULK_ERASE", "CLSR", "RELEASE",
                           "QUAD_READ_CMD", "QUAD_READ", "DUAL_READ_CMD", "DUAL_READ"}
  <2>1. e = d
    BY <1>1, <1>9 DEF Deselect, d
  <2>. HIDE DEF e
  <2>. QED  BY <1>1, <1>9, <2>1 DEF WideReads, OneWrite, QuadReads, DualReads, Writing
<1>. HIDE DEF Goal
<1>. QED  BY <1>3, <1>4, <1>5, <1>6, <1>7, <1>8, <1>9

LEMMA FlashInitIInv == FlashInit => FlashIInv
<1>. SUFFICES ASSUME FlashInit PROVE FlashIInv
  OBVIOUS
<1>. DEFINE m == [a \in FAddrs |-> a % 2]
            p == [i \in 0 .. PageSize - 1 |-> Erased]
<1>1. m \in [FAddrs -> 0 .. 1] /\ p \in [0 .. PageSize - 1 -> 0 .. 1]
  BY FlashMultiples DEF Erased, FAddrs
<1>2. fl = PowerUp(m)
  BY DEF FlashInit
<1>3. 0 \in FAddrs
  BY FlashMultiples DEF FAddrs
<1>. HIDE DEF m
<1>4. /\ fl \in FlashRec /\ fl.state = "IDLE"
  BY <1>1, <1>2, <1>3 DEF PowerUp, FlashRec, FlashStates
<1>. QED  BY <1>4 DEF FlashIInv, WideReads, OneWrite, QuadReads, DualReads, Writing

\* The end of the write cycle clears the status register.
LEMMA TimeUpKeeps ==
    ASSUME NEW d \in FlashRec, WideReads(d)
    PROVE  LET e == TimeUp(d)
           IN  /\ e \in FlashRec /\ WideReads(e) /\ OneWrite(e) /\ e.mem = d.mem /\ e.state = d.state
               /\ e.count = d.count /\ e.out = d.out /\ e.sreg = {} /\ ~e.timing /\ e.addr = d.addr
               /\ e.pmem = d.pmem
<1>. DEFINE e == TimeUp(d)
<1>1. e = [d EXCEPT !.timing = FALSE, !.sreg = {}]
  BY DEF TimeUp
<1>. HIDE DEF e
<1>2. /\ e \in FlashRec /\ e.mem = d.mem /\ e.state = d.state /\ e.mode = d.mode /\ e.xip = d.xip
      /\ e.count = d.count /\ e.out = d.out /\ e.sreg = {} /\ ~e.timing /\ e.addr = d.addr
      /\ e.pmem = d.pmem
  BY <1>1 DEF FlashRec
<1>3. WideReads(e) /\ OneWrite(e)
  BY <1>2 DEF WideReads, OneWrite
<1>. QED  BY <1>2, <1>3 DEF e

\* A step changes the memory only at the end of a transaction.
MemoryKept == fl.count > 0 /\ fl'.mem # fl.mem => ~Busy(fl) /\ Busy(fl') /\ fl'.timing

LEMMA FlashNextIInv ==
    ASSUME FlashIInv, [FlashNext]_flashVars
    PROVE  FlashIInv' /\ MemoryKept
<1>1. CASE FreeByte
  <2>1. PICK b \in IF fl.count = 0 THEN {Cmd[c] : c \in DOMAIN Cmd} ELSE {0, 1, FlashSize - 1} :
           fl' = Xfer(fl, b)
    BY <1>1 DEF FreeByte
  <2>2. fl.count > 0 => b \in FAddrs
    BY <2>1, FlashMultiples DEF FAddrs, FlashIInv, FlashRec
  <2>3. fl' \in FlashRec /\ fl'.mem = fl.mem /\ WideReads(fl') /\ OneWrite(fl')
    BY <2>1, <2>2, XferKeeps DEF FlashIInv
  <2>. QED  BY <2>3 DEF FlashIInv, MemoryKept
<1>2. CASE FreeEnd
  BY <1>2, DeselectKeeps DEF FreeEnd, FlashIInv, MemoryKept
<1>3. CASE Timer
  BY <1>3, TimeUpKeeps DEF Timer, FlashIInv, MemoryKept
<1>4. CASE UNCHANGED flashVars
  BY <1>4 DEF flashVars, FlashIInv, MemoryKept, WideReads, OneWrite
<1>. QED  BY <1>1, <1>2, <1>3, <1>4 DEF FlashNext

\* FLASHSIM under any master of its pins: a read in place keeps its bus width
\* whatever is cut short, and is not begun asleep; a program or an erase is
\* accepted only between two write cycles, and nothing else changes the memory.
THEOREM FlashStaysInStep == FlashSpec => FlashKeepsItsState
<1>1. FlashInit => FlashIInv
  BY FlashInitIInv
<1>2. FlashIInv /\ [FlashNext]_flashVars => FlashIInv' /\ MemoryKept
  BY FlashNextIInv
<1>3. FlashIInv => XipIsConsistent
  BY DEF FlashIInv, WideReads, XipIsConsistent, QuadReads, DualReads
<1>4. MemoryKept => [fl.count > 0 /\ fl'.mem # fl.mem => ~Busy(fl) /\ Busy(fl') /\ fl'.timing]_flashVars
  BY DEF MemoryKept
<1>. QED
  BY <1>1, <1>2, <1>3, <1>4, PTL DEF FlashSpec, FlashKeepsItsState, WritesNeverOverlap

-----------------------------------------------------------------------------
(* The flash driver, for any geometry, any image and any cells that fail,  *)
(* and any bytes to write anywhere in the flash.                           *)

Bits == {0, 1}

DrvrRec ==
    [pc : {"off", "idle", "sector", "erased", "page", "programmed", "send", "wait", "true", "false"},
     next : {"off", "erased", "programmed", "true"}, ops : Seq(Int), s : Nat, p : Nat,
     addr : Nat, len : Nat, data : Seq(Bits), verify : BOOLEAN]

\* The device in the states the driver takes it through: at rest; with the
\* write enable set, n bytes into a transaction; a command of n bytes; its
\* write cycle; and the status read that waits for the end of that.
Clean(d) == d.sreg = {} /\ ~d.timing
Cycle(d) == (d.sreg = {"WIP"} /\ d.timing) \/ Clean(d)
Rest(d) == d.state \in {"IDLE", "RDSR"} /\ d.count = 0 /\ Clean(d)
Command(d, s, n) == d.state = s /\ d.count = n /\ d.sreg = {"WEL"} /\ ~d.timing
CycleBegun(d) == d.state = "IDLE" /\ d.count = 0 /\ Cycle(d)
Waiting(d) == d.state = "RDSR" /\ d.count > 0 /\ Cycle(d) /\ (d.out = 0 => Clean(d))

\* What the driver writes to the port for an erase and for a program.
EraseOps == 10
EraseOp == [j \in 1 .. EraseOps |->
    CASE j \in {1, 3, 8, 9} -> F_END
      [] j = 2              -> Cmd.WREN
      [] j = 4              -> Cmd.SECTOR_ERASE
      [] j \in {5, 6}       -> 0
      [] j = 7              -> drv.s
      [] OTHER              -> Cmd.RDSR]
PageLen == PageEnd - drv.p
ProgramOps == 11 + PageLen
ProgramOp == [j \in 1 .. ProgramOps |->
    CASE j \in {1, 3, 4, 9 + PageLen, 10 + PageLen} -> F_END
      [] j = 2                      -> Cmd.WREN
      [] j = 5                      -> Cmd.PP
      [] j \in {6, 7}               -> 0
      [] j = 8                      -> drv.p
      [] j \in 9 .. 8 + PageLen     -> DataAt(drv.p + j - 9)
      [] OTHER                      -> Cmd.RDSR]

\* The n elements of s are those of all after the first k.
PartOf(all, k, n, s) == s \in Seq(Int) /\ Len(s) = n /\ \A i \in 1 .. n : s[i] = all[k + i]
OpsLeft(all, n, k) == PartOf(all, k, n - k, drv.ops)

\* After the first k of these writes.
Loaded(m, j) == \A x \in 0 .. PageSize - 1 :
    m[x] = IF x \in drv.p % PageSize .. (drv.p % PageSize) + j - 1
                 THEN DataAt(PageBase(drv.p) + x) ELSE Erased
EraseDevice(k) ==
    /\ k \in {0, 1} => Rest(fl)
    /\ k \in {2, 3} => Command(fl, "IDLE", 3 - k)
    /\ k \in 4 .. 7 => Command(fl, "SECTOR_ERASE", k - 3)
    /\ k = 7 => fl.addr = drv.s
    /\ k \in {8, 9} => CycleBegun(fl)
EraseAt(k) == OpsLeft(EraseOp, EraseOps, k) /\ EraseDevice(k)
ProgramDevice(k) ==
    /\ k \in {0, 1} => Rest(fl)
    /\ k = 2 => Command(fl, "IDLE", 1)
    /\ k \in {3, 4} => Command(fl, "IDLE", 0)
    /\ k \in 5 .. 8 + PageLen => Command(fl, "PP", k - 4)
    /\ k \in 8 .. 8 + PageLen => /\ Loaded(fl.pmem, k - 8) /\ PageBase(fl.addr) = PageBase(drv.p)
                                 /\ k < 8 + PageLen => fl.addr = drv.p + k - 8
    /\ k \in {9 + PageLen, 10 + PageLen} => CycleBegun(fl)
ProgramAt(k) == OpsLeft(ProgramOp, ProgramOps, k) /\ ProgramDevice(k)

\* The part of write() the driver is in or on the way to.
Phase == IF drv.pc \in {"send", "wait"} THEN drv.next ELSE drv.pc
InRange == drv.addr .. WriteEnd - 1
SectorOf(s) == s .. s + SectorSize - 1

Call ==
    /\ drv.len \in Nat \ {0} /\ drv.len <= MaxLen /\ WriteEnd <= FlashSize /\ Len(drv.data) = drv.len

\* What has been written up to x, and what can be programmed from x on.
DoneTo(x) == drv.verify \/ worn = {} => \A a \in InRange : a < x => fl.mem[a] = DataAt(a)
OpenFrom(x) == worn = {} =>
    \A a \in InRange : a >= x /\ a < drv.s + SectorSize => fl.mem[a] = Erased \/ DataAt(a) # Erased
PageIsWritten == worn = {} => (\A a \in drv.p .. PageEnd - 1 : fl.mem[a] = DataAt(a)) /\ OpenFrom(PageEnd)

SectorPhase ==
    /\ Multiple(drv.s, SectorSize) /\ SectorBase(drv.addr) <= drv.s
    /\ Phase # "sector" => drv.s < WriteEnd
    /\ Phase \in {"sector", "erased"} => DoneTo(drv.s)
PagePhase ==
    /\ drv.addr <= drv.p /\ drv.s <= drv.p /\ drv.p <= drv.s + SectorSize /\ DoneTo(drv.p)
    /\ Phase = "programmed" => drv.p < drv.s + SectorSize /\ drv.p < WriteEnd
    /\ Phase = "page" => OpenFrom(drv.p)

Sending ==
    /\ drv.next = "erased" => \E k \in 0 .. EraseOps - 1 :
         /\ EraseAt(k)
         /\ k <= 7 => \E a \in InRange \cap SectorOf(drv.s) : fl.mem[a] = 0 /\ DataAt(a) = Erased
         /\ k > 7 => (worn = {} => \A a \in SectorOf(drv.s) : fl.mem[a] = Erased)
    /\ drv.next = "programmed" => \E k \in 0 .. ProgramOps - 1 :
         /\ ProgramAt(k)
         /\ k <= 8 + PageLen => OpenFrom(drv.p)
         /\ k > 8 + PageLen => PageIsWritten
    /\ drv.next = "true" => \/ drv.ops = <<Cmd.WRDI, F_END>> /\ Rest(fl)
                            \/ drv.ops = <<F_END>> /\ fl.state = "IDLE" /\ Clean(fl)

DrvrIInv ==
    /\ FlashIInv /\ drv \in DrvrRec /\ worn \subseteq FAddrs
    /\ drv.pc \notin {"off", "idle"} => Call
    /\ drv.pc \in {"off", "idle", "sector", "erased", "page", "programmed"} => Rest(fl)
    /\ drv.pc \in {"send", "wait"} => drv.next # "off" /\ (drv.pc = "wait" => drv.next # "true")
    /\ Phase \in {"sector", "erased", "page", "programmed"} => SectorPhase
    /\ Phase \in {"page", "programmed"} => PagePhase
    /\ Phase = "true" => DoneTo(WriteEnd)
    /\ drv.pc = "send" => Sending
    /\ drv.pc = "wait" => Waiting(fl)
    /\ drv.pc # "send" /\ Phase = "erased" => (worn = {} => \A a \in SectorOf(drv.s) : fl.mem[a] = Erased)
    /\ drv.pc # "send" /\ Phase = "programmed" => PageIsWritten
    /\ drv.pc = "false" => worn # {}

\* The device's answer to the end of a transaction, and to each byte.
LEMMA DeselectIdle ==
    ASSUME NEW d \in FlashRec, d.state \in {"IDLE", "RDSR"}
    PROVE  LET e == Deselect(d)
           IN  /\ e.state = d.state /\ e.count = 0 /\ e.sreg = d.sreg /\ e.timing = d.timing /\ e.mem = d.mem
<1>. DEFINE e == Deselect(d)
<1>1. e = [d EXCEPT !.count = 0, !.out = 0]
  BY DEF Deselect, FlashRec
<1>. HIDE DEF e
<1>2. e.state = d.state /\ e.count = 0 /\ e.sreg = d.sreg /\ e.timing = d.timing /\ e.mem = d.mem
  BY <1>1 DEF FlashRec
<1>. QED  BY <1>2 DEF e

LEMMA FirstByte ==
    ASSUME NEW d \in FlashRec, d.state \in {"IDLE", "RDSR"}, d.count = 0, NEW b
    PROVE  /\ Xfer(d, b) = Opcode([d EXCEPT !.count = 1], b)
           /\ [d EXCEPT !.count = 1] \in FlashRec
<1>1. Xfer(d, b) = Opcode([d EXCEPT !.count = 1], b)
  BY DEF Xfer, FlashRec
<1>. DEFINE n == 1
<1>2. n \in Nat
  OBVIOUS
<1>. HIDE DEF n
<1>3. [d EXCEPT !.count = n] \in FlashRec
  BY <1>2 DEF FlashRec
<1>. QED  BY <1>1, <1>3 DEF n

LEMMA EnableByte ==
    ASSUME NEW d \in FlashRec, Rest(d)
    PROVE  Command(Xfer(d, Cmd.WREN), "IDLE", 1)
<1>. DEFINE c == [d EXCEPT !.count = 1]
            e == Xfer(d, Cmd.WREN)
<1>1. e = Opcode(c, Cmd.WREN) /\ c \in FlashRec
  BY FirstByte DEF Rest
<1>2. c.sreg = {} /\ ~c.timing /\ c.count = 1
  BY DEF Rest, Clean, FlashRec
<1>. HIDE DEF c, e
<1>3. e = [[c EXCEPT !.state = "IDLE"] EXCEPT !.sreg = @ \union {"WEL"}]
  BY <1>1, <1>2, CmdNumbers DEF Opcode
<1>4. e.state = "IDLE" /\ e.sreg = c.sreg \union {"WEL"} /\ e.timing = c.timing /\ e.count = c.count
  BY <1>1, <1>3 DEF FlashRec
<1>. QED  BY <1>2, <1>4 DEF e, Command

LEMMA DisableByte ==
    ASSUME NEW d \in FlashRec, Rest(d)
    PROVE  LET e == Xfer(d, Cmd.WRDI) IN e.state = "IDLE" /\ Clean(e)
<1>. DEFINE c == [d EXCEPT !.count = 1]
            e == Xfer(d, Cmd.WRDI)
<1>1. e = Opcode(c, Cmd.WRDI) /\ c \in FlashRec
  BY FirstByte DEF Rest
<1>2. c.sreg = {} /\ ~c.timing /\ c.count = 1
  BY DEF Rest, Clean, FlashRec
<1>. HIDE DEF c, e
<1>3. e = [[c EXCEPT !.state = "IDLE"] EXCEPT !.sreg = @ \ {"WEL"}]
  BY <1>1, <1>2, CmdNumbers DEF Opcode
<1>4. e.state = "IDLE" /\ e.sreg = c.sreg \ {"WEL"} /\ e.timing = c.timing
  BY <1>1, <1>3 DEF FlashRec
<1>. QED  BY <1>2, <1>4 DEF e, Clean

LEMMA WriteByte ==
    ASSUME NEW d \in FlashRec, Command(d, "IDLE", 0)
    PROVE  /\ Command(Xfer(d, Cmd.SECTOR_ERASE), "SECTOR_ERASE", 1)
           /\ Command(Xfer(d, Cmd.PP), "PP", 1)
<1>. DEFINE c == [d EXCEPT !.count = 1]
<1>1. /\ \A b : Xfer(d, b) = Opcode(c, b)
      /\ c \in FlashRec
  BY FirstByte DEF Command
<1>2. c.sreg = {"WEL"} /\ ~c.timing /\ c.count = 1
  BY DEF Command, FlashRec
<1>. HIDE DEF c
<1>3. /\ Opcode(c, Cmd.SECTOR_ERASE) = [c EXCEPT !.state = "SECTOR_ERASE"]
      /\ Opcode(c, Cmd.PP) = [c EXCEPT !.state = "PP"]
  BY <1>2, CmdNumbers DEF Opcode, WriteAllowed
<1>4. ASSUME NEW s, NEW e, e = [c EXCEPT !.state = s]
      PROVE  e.state = s /\ e.sreg = c.sreg /\ e.timing = c.timing /\ e.count = c.count
  BY <1>1, <1>4 DEF FlashRec
<1>5. /\ Command(Opcode(c, Cmd.SECTOR_ERASE), "SECTOR_ERASE", 1)
      /\ Command(Opcode(c, Cmd.PP), "PP", 1)
  BY <1>2, <1>3, <1>4 DEF Command
<1>. QED  BY <1>1, <1>5

LEMMA EraseByte ==
    ASSUME NEW d \in FlashRec, NEW n \in 1 .. 3, Command(d, "SECTOR_ERASE", n), NEW b
    PROVE  LET e == Xfer(d, b)
           IN  Command(e, "SECTOR_ERASE", n + 1) /\ (n = 3 => e.addr = b)
<1>. DEFINE k == n + 1
            c == [d EXCEPT !.count = k]
            e == Xfer(d, b)
<1>1. d.state = "SECTOR_ERASE" /\ d.count + 1 = k /\ k # 1
  BY DEF Command
<1>2. e = LaterByte(c, k, b)
  BY <1>1 DEF Xfer
<1>3. c.state = "SECTOR_ERASE" /\ c.sreg = d.sreg /\ c.timing = d.timing /\ c.count = k /\ "addr" \in DOMAIN c
  BY <1>1 DEF FlashRec
<1>. HIDE DEF c
<1>4. IF n = 3 THEN e = [c EXCEPT !.addr = b] ELSE e = [c EXCEPT !.out = 0]
  BY <1>2, <1>3 DEF LaterByte
<1>. HIDE DEF e, k
<1>5. e.state = c.state /\ e.sreg = c.sreg /\ e.timing = c.timing /\ e.count = c.count /\ (n = 3 => e.addr = b)
  BY <1>3, <1>4 DEF FlashRec, c
<1>. QED  BY <1>3, <1>5 DEF e, k, Command

Blank == [i \in 0 .. PageSize - 1 |-> Erased]
Filled(d, b) == [d.pmem EXCEPT ![d.addr % PageSize] = IF b = Erased THEN Erased ELSE 0]

\* The bytes of a page program: the address clears the page buffer, and each
\* byte after it goes to the buffer's next place.
LEMMA PageByte ==
    ASSUME NEW d \in FlashRec, NEW n \in Nat \ {0}, Command(d, "PP", n), NEW b
    PROVE  LET e == Xfer(d, b)
           IN  /\ Command(e, "PP", n + 1)
               /\ n = 3 => e.addr = b /\ e.pmem = Blank
               /\ n > 3 => e.pmem = Filled(d, b) /\ e.addr = NextInPage(d.addr)
<1>. DEFINE k == n + 1
            c == [d EXCEPT !.count = k]
            e == Xfer(d, b)
            erased == [i \in DOMAIN d.pmem |-> Erased]
            filled == [d.pmem EXCEPT ![d.addr % PageSize] = IF b = Erased THEN Erased ELSE 0]
            next == NextInPage(d.addr)
            Facts(x) == x.state = "PP" /\ x.sreg = d.sreg /\ x.timing = d.timing /\ x.count = k
<1>1. d.state = "PP" /\ d.count + 1 = k /\ k # 1
  BY DEF Command
<1>2. e = ProgramByte(c, k, b)
  BY <1>1 DEF Xfer, LaterByte, FlashRec
<1>3. Facts(c) /\ c.pmem = d.pmem /\ c.addr = d.addr /\ c.mode = d.mode
  BY <1>1 DEF FlashRec
<1>4. DOMAIN d.pmem = 0 .. PageSize - 1
  BY DEF FlashRec
<1>5. CASE n < 3
  <2>1. k # 4 /\ ~(k > 4)
    BY <1>5
  <2>2. e = c
    BY <1>2, <2>1 DEF ProgramByte
  <2>. QED  BY <1>3, <1>5, <2>2 DEF Command
<1>6. CASE n = 3
  <2>1. k = 4
    BY <1>6
  <2>. DEFINE blank == [i \in DOMAIN c.pmem |-> Erased]
              mode == IF c.state = "QPP" THEN "QSPI" ELSE c.mode
  <2>2. blank = erased
    BY <1>3
  <2>3. ProgramByte(c, 4, b) = [c EXCEPT !.addr = b, !.pmem = blank, !.mode = mode]
    BY DEF ProgramByte
  <2>. HIDE DEF k, erased, e, blank, mode
  <2>4. e = [c EXCEPT !.addr = b, !.pmem = erased, !.mode = mode]
    BY <1>2, <2>1, <2>2, <2>3
  <2>5. Facts(e) /\ e.addr = b /\ e.pmem = erased
    BY <1>3, <2>4 DEF FlashRec, k
  <2>. QED  BY <1>4, <1>6, <2>5 DEF Command, e, k, erased, Blank
<1>7. CASE n > 3
  <2>1. k # 4 /\ k > 4
    BY <1>7
  <2>. HIDE DEF k, filled, next
  <2>2. e = [c EXCEPT !.pmem = filled, !.addr = next]
    BY <1>2, <1>3, <2>1 DEF ProgramByte, filled, next
  <2>. HIDE DEF e
  <2>3. Facts(e) /\ e.addr = next /\ e.pmem = filled
    BY <1>3, <2>2 DEF FlashRec, k
  <2>. QED  BY <1>7, <2>3 DEF Command, e, k, filled, next, Filled
<1>. QED  BY <1>5, <1>6, <1>7

\* The end of an erase and of a program: a write cycle begins.
LEMMA EraseEnds ==
    ASSUME NEW d \in FlashRec, NEW n \in Nat, Command(d, "SECTOR_ERASE", n)
    PROVE  CycleBegun(Deselect(d)) /\ Deselect(d).mem = SectorErased(d)
<1>. DEFINE c == [d EXCEPT !.count = 0, !.out = 0]
            m == SectorErased(c)
            e == Deselect(d)
<1>1. c.state = "SECTOR_ERASE" /\ c.sreg = {"WEL"} /\ c.count = 0 /\ c.mem = d.mem /\ c.addr = d.addr
  BY DEF Command, FlashRec
<1>2. m = SectorErased(d)
  BY <1>1 DEF SectorErased
<1>. HIDE DEF m
<1>3. e = [WriteCycle(c, m) EXCEPT !.addr = SectorBase(@)]
  BY <1>1, Command(d, "SECTOR_ERASE", n) DEF Deselect, Command, m
<1>4. /\ e.state = "IDLE" /\ e.count = c.count /\ e.timing = TRUE /\ e.mem = m
      /\ e.sreg = (c.sreg \ {"WEL"}) \union {"WIP"}
  BY <1>3 DEF WriteCycle, FlashRec
<1>. QED  BY <1>1, <1>2, <1>4 DEF CycleBegun, Cycle

LEMMA ProgramEnds ==
    ASSUME NEW d \in FlashRec, NEW n \in Nat, Command(d, "PP", n)
    PROVE  CycleBegun(Deselect(d)) /\ Deselect(d).mem = Programmed(d)
<1>. DEFINE c == [d EXCEPT !.count = 0, !.out = 0]
            m == Programmed(c)
            e == Deselect(d)
<1>1. c.state = "PP" /\ c.sreg = {"WEL"} /\ c.count = 0 /\ c.mem = d.mem /\ c.addr = d.addr /\ c.pmem = d.pmem
  BY DEF Command, FlashRec
<1>2. m = Programmed(d)
  BY <1>1 DEF Programmed
<1>. HIDE DEF m
<1>3. e = [WriteCycle(c, m) EXCEPT !.mode = "SPI"]
  BY <1>1, Command(d, "PP", n) DEF Deselect, Command, m
<1>4. /\ e.state = "IDLE" /\ e.count = c.count /\ e.timing = TRUE /\ e.mem = m
      /\ e.sreg = (c.sreg \ {"WEL"}) \union {"WIP"}
  BY <1>3 DEF WriteCycle, FlashRec
<1>. QED  BY <1>1, <1>2, <1>4 DEF CycleBegun, Cycle

\* The status read: what comes back is whether the cycle is over, as it was
\* at the byte before, which is late and never early.
LEMMA StatusByte ==
    ASSUME NEW d \in FlashRec, d.state \in {"IDLE", "RDSR"}, d.count = 0, Cycle(d)
    PROVE  Waiting(Xfer(d, Cmd.RDSR))
<1>. DEFINE c == [d EXCEPT !.count = 1]
            e == Xfer(d, Cmd.RDSR)
            o == IF Busy(c) THEN 1 ELSE 0
<1>1. e = Opcode(c, Cmd.RDSR) /\ c \in FlashRec
  BY FirstByte
<1>2. c.sreg = d.sreg /\ c.timing = d.timing /\ c.count = 1 /\ "DPD" \notin c.sreg
  BY DEF Cycle, Clean, FlashRec
<1>. HIDE DEF c, e, o
<1>3. e = [[c EXCEPT !.state = "RDSR"] EXCEPT !.out = o]
  BY <1>1, <1>2, CmdNumbers DEF Opcode, o
<1>4. e.state = "RDSR" /\ e.out = o /\ e.sreg = c.sreg /\ e.timing = c.timing /\ e.count = c.count
  BY <1>1, <1>3 DEF FlashRec
<1>5. Cycle(e) /\ (o = 0 => Clean(e))
  BY <1>2, <1>4 DEF o, Cycle, Clean, Busy
<1>. QED  BY <1>2, <1>4, <1>5 DEF e, Waiting

LEMMA StatusAgain ==
    ASSUME NEW d \in FlashRec, Waiting(d), WideReads(d), OneWrite(d), NEW b \in FAddrs
    PROVE  LET e == [Xfer(d, b) EXCEPT !.count = 2]
           IN  Waiting(e) /\ e \in FlashRec /\ WideReads(e) /\ OneWrite(e) /\ e.mem = d.mem
<1>. DEFINE k == d.count + 1
            c == [d EXCEPT !.count = k]
            x == Xfer(d, b)
            n == 2
            e == [x EXCEPT !.count = n]
            o == IF Busy(c) THEN 1 ELSE 0
<1>1. d.state = "RDSR" /\ k # 1 /\ d.count > 0
  BY DEF Waiting, FlashRec
<1>2. c.state = "RDSR" /\ c.sreg = d.sreg /\ c.timing = d.timing
  BY <1>1 DEF FlashRec
<1>3. x = [c EXCEPT !.out = o]
  <2>1. x = LaterByte(c, k, b)
    BY <1>1 DEF Xfer
  <2>. HIDE DEF c, x, k
  <2>. QED  BY <1>2, <2>1 DEF LaterByte
<1>4. x \in FlashRec /\ x.mem = d.mem
  BY <1>1, XferKeeps
<1>. HIDE DEF o
<1>5. x.state = "RDSR" /\ x.sreg = d.sreg /\ x.timing = d.timing /\ x.out = o
  BY <1>2, <1>3 DEF FlashRec
<1>6. n \in Nat /\ n > 0
  OBVIOUS
<1>. HIDE DEF n, x
<1>7. /\ e \in FlashRec /\ e.state = "RDSR" /\ e.sreg = d.sreg /\ e.timing = d.timing /\ e.out = o
      /\ e.mem = d.mem /\ e.count = n
  BY <1>4, <1>5, <1>6 DEF FlashRec
<1>. HIDE DEF c, e
<1>8. Cycle(e) /\ (o = 0 => Clean(e))
  BY <1>2, <1>7 DEF o, Cycle, Clean, Busy, Waiting
<1>9. WideReads(e) /\ OneWrite(e)
  BY <1>7 DEF WideReads, OneWrite, QuadReads, DualReads, Writing
<1>. QED  BY <1>6, <1>7, <1>8, <1>9 DEF Waiting, e, n, x

LEMMA StatusEnds ==
    ASSUME NEW d \in FlashRec, Waiting(d), d.out # 1
    PROVE  Rest(Deselect(d)) /\ Deselect(d).mem = d.mem
<1>1. d.out = 0
  BY DEF FlashRec
<1>. QED  BY <1>1, DeselectIdle DEF Waiting, Rest, Clean

\* A cell that fails is the memory's: nothing else of the device changes.
LEMMA WornKeeps ==
    ASSUME NEW d \in FlashRec, fl \in FlashRec
    PROVE  /\ Worn(d) \in FlashRec
           /\ Worn(d) = [d EXCEPT !.mem = Worn(d).mem]
           /\ \A a \in FAddrs : Worn(d).mem[a] = IF a \in worn THEN fl.mem[a] ELSE d.mem[a]
<1>. DEFINE m == [a \in FAddrs |-> IF a \in worn THEN fl.mem[a] ELSE d.mem[a]]
<1>1. m \in [FAddrs -> 0 .. 1]
  BY DEF FlashRec
<1>2. \A a \in FAddrs : m[a] = IF a \in worn THEN fl.mem[a] ELSE d.mem[a]
  OBVIOUS
<1>3. Worn(d) = [d EXCEPT !.mem = m]
  BY DEF Worn
<1>. HIDE DEF m
<1>4. Worn(d) \in FlashRec /\ Worn(d).mem = m
  BY <1>1, <1>3 DEF FlashRec
<1>. QED  BY <1>2, <1>3, <1>4

\* The bytes of a sector and of a page, and where the loops over them end.
LEMMA SectorBytes ==
    ASSUME NEW s \in Nat, Multiple(s, SectorSize), NEW a \in FAddrs
    PROVE  SectorBase(a) = s <=> a \in SectorOf(s)
<1>. USE FlashMultiples
<1>1. a \in Int /\ SectorSize \in Nat \ {0}
  BY DEF FAddrs
<1>2. SectorBase(a) = s => a \in SectorOf(s)
  BY <1>1, SectorOfAddress DEF SectorOf
<1>3. a \in SectorOf(s) => s <= a /\ a < s + SectorSize
  BY <1>1 DEF SectorOf
<1>4. s <= a /\ a < s + SectorSize => SectorBase(a) = s
  BY <1>1, BaseUnique DEF SectorBase
<1>. QED  BY <1>2, <1>3, <1>4

LEMMA PageBytes ==
    ASSUME NEW b \in Nat, Multiple(b, PageSize), NEW a \in FAddrs
    PROVE  /\ PageBase(a) = b <=> a \in b .. b + PageSize - 1
           /\ a % PageSize = a - PageBase(a)
<1>. USE FlashMultiples
<1>1. a \in Int /\ PageSize \in Nat \ {0}
  BY DEF FAddrs
<1>2. PageBase(a) = b => a \in b .. b + PageSize - 1
  BY <1>1, PageOfAddress
<1>3. a \in b .. b + PageSize - 1 => b <= a /\ a < b + PageSize
  BY <1>1
<1>4. b <= a /\ a < b + PageSize => PageBase(a) = b
  BY <1>1, BaseUnique DEF PageBase
<1>5. a % PageSize = a - PageBase(a)
  BY <1>1, PageOfAddress DEF PageBase
<1>. QED  BY <1>2, <1>3, <1>4, <1>5

LEMMA PageInSector ==
    ASSUME NEW s \in Nat, Multiple(s, SectorSize), NEW p \in FAddrs, s <= p, p < s + SectorSize
    PROVE  /\ s <= PageBase(p) /\ PageBase(p) + PageSize <= s + SectorSize
           /\ PageBase(p + PageSize) = PageBase(p) + PageSize
<1>. USE FlashMultiples
<1>. DEFINE b == PageBase(p)
<1>1. /\ b \in Nat /\ Multiple(b, PageSize) /\ b <= p /\ p < b + PageSize /\ p \in Int
  BY PageOfAddress DEF FAddrs
<1>. HIDE DEF b
<1>2. Multiple(s, PageSize) /\ Multiple(PageSize, PageSize)
  <2>1. Multiple(s, PageSize)
    BY MultipleTrans
  <2>2. \E k \in Int : PageSize = k * PageSize
    <3>1. PageSize = 1 * PageSize
      OBVIOUS
    <3>. WITNESS 1 \in Int
    <3>. QED  BY <3>1
  <2>. QED  BY <2>1, <2>2 DEF Multiple
<1>3. s + SectorSize \in Int /\ Multiple(s + SectorSize, PageSize)
  BY <1>2, MultipleSum
<1>4. s <= b
  <2>. SUFFICES ASSUME b < s PROVE FALSE
    BY <1>1
  <2>1. b + PageSize <= s
    BY <1>1, <1>2, MultipleGap
  <2>. QED  BY <1>1, <2>1
<1>5. b + PageSize <= s + SectorSize
  <2>1. b < s + SectorSize
    BY <1>1
  <2>. DEFINE t == s + SectorSize
  <2>2. Multiple(t, PageSize) /\ b < t
    BY <1>3, <2>1
  <2>. HIDE DEF t
  <2>3. b + PageSize <= t
    BY <1>1, <2>2, MultipleGap
  <2>. QED  BY <2>3 DEF t
<1>6. PageBase(p + PageSize) = b + PageSize
  <2>. DEFINE x == p + PageSize
              t == b + PageSize
  <2>1. x \in Int /\ t \in Int /\ Multiple(t, PageSize)
    BY <1>1, <1>2, MultipleSum
  <2>2. t <= x /\ x < t + PageSize
    BY <1>1
  <2>. HIDE DEF x, t
  <2>3. x - (x % PageSize) = t
    BY <2>1, <2>2, BaseUnique
  <2>. QED  BY <2>3 DEF x, t, PageBase
<1>. QED  BY <1>4, <1>5, <1>6 DEF b

LEMMA SectorLoopEnds ==
    ASSUME NEW s \in Nat, Multiple(s, SectorSize), NEW e \in Nat, e <= FlashSize
    PROVE  /\ s >= SectorBase(e + SectorSize - 1) => s >= e
           /\ ~(s >= SectorBase(e + SectorSize - 1)) => s < e
           /\ s < e => s + SectorSize <= FlashSize
<1>. USE FlashMultiples
<1>. DEFINE x == e + SectorSize - 1
            b == SectorBase(x)
<1>1. x \in Int
  OBVIOUS
<1>2. b \in Int /\ Multiple(b, SectorSize) /\ b <= x /\ x < b + SectorSize
  <2>. HIDE DEF x
  <2>. QED  BY <1>1, BaseMultiple DEF SectorBase
<1>3. b >= e
  BY <1>1, <1>2
<1>. HIDE DEF b
<1>4. s < b => s < e
  <2>. SUFFICES ASSUME s < b PROVE s < e
    OBVIOUS
  <2>1. s + SectorSize <= b
    BY <1>2, MultipleGap
  <2>. QED  BY <1>1, <1>2, <2>1
<1>5. s < e => s + SectorSize <= FlashSize
  <2>. SUFFICES ASSUME s < e PROVE s + SectorSize <= FlashSize
    OBVIOUS
  <2>1. s < FlashSize
    OBVIOUS
  <2>. QED  BY <2>1, MultipleGap
<1>. QED  BY <1>2, <1>3, <1>4, <1>5 DEF b

\* A set of addresses that is not empty has a first one.
LEMMA FirstOf ==
    ASSUME NEW S \in SUBSET Nat, S # {}
    PROVE  LET f == CHOOSE a \in S : \A b \in S : a <= b IN f \in S /\ \A b \in S : f <= b
<1>1. PICK x \in S : \A y \in S : ~(<<y, x>> \in OpToRel(<, Nat))
  BY NatLessThanWellFounded, WFMin
<1>2. ASSUME NEW b \in S PROVE x <= b
  <2>. DEFINE t == <<b, x>>
  <2>1. t \notin {ss \in Nat \X Nat : ss[1] < ss[2]}
    BY <1>1 DEF OpToRel
  <2>2. t \in Nat \X Nat /\ t[1] = b /\ t[2] = x
    OBVIOUS
  <2>. HIDE DEF t
  <2>3. ~(t[1] < t[2])
    BY <2>1, <2>2
  <2>. QED  BY <2>2, <2>3
<1>. QED  BY <1>2

\* What a call's range says of the bytes in it, and a page of what the page
\* loop is at.
LEMMA CallFacts ==
    ASSUME drv \in DrvrRec, fl \in FlashRec, Call
    PROVE  /\ WriteEnd \in Nat /\ drv.addr \in Nat /\ drv.addr < WriteEnd /\ WriteEnd <= FlashSize
           /\ \A a \in InRange : a \in FAddrs /\ a \in Nat /\ DataAt(a) \in Bits /\ fl.mem[a] \in Bits
           /\ \A a \in FAddrs : fl.mem[a] \in Bits
<1>1. /\ drv.addr \in Nat /\ drv.len \in Nat /\ drv.len > 0 /\ WriteEnd = drv.addr + drv.len
      /\ WriteEnd <= FlashSize /\ Len(drv.data) = drv.len
  BY DEF DrvrRec, Call, WriteEnd
<1>2. \A a \in FAddrs : fl.mem[a] \in Bits
  BY DEF FlashRec, Bits
<1>3. ASSUME NEW a \in InRange
      PROVE  a \in FAddrs /\ a \in Nat /\ DataAt(a) \in Bits
  <2>1. a \in Nat /\ drv.addr <= a /\ a < WriteEnd
    BY <1>1 DEF InRange
  <2>2. a - drv.addr + 1 \in 1 .. Len(drv.data)
    BY <1>1, <2>1
  <2>3. drv.data \in Seq(Bits)
    BY DEF DrvrRec
  <2>4. DataAt(a) \in Bits
    BY <2>2, <2>3 DEF DataAt
  <2>5. a \in FAddrs
    BY <1>1, <2>1, FlashMultiples DEF FAddrs
  <2>. QED  BY <2>1, <2>4, <2>5
<1>. QED  BY <1>1, <1>2, <1>3

LEMMA SectorFacts ==
    ASSUME drv \in DrvrRec, fl \in FlashRec, Call, Multiple(drv.s, SectorSize), drv.s < WriteEnd
    PROVE  /\ drv.s \in Nat /\ drv.s + SectorSize <= FlashSize
           /\ \A a \in SectorOf(drv.s) : a \in FAddrs
<1>1. drv.s \in Nat
  BY DEF DrvrRec
<1>2. drv.s + SectorSize <= FlashSize
  BY <1>1, CallFacts, SectorLoopEnds
<1>. QED  BY <1>1, <1>2, FlashMultiples DEF SectorOf, FAddrs

OnPage ==
    /\ drv \in DrvrRec /\ fl \in FlashRec /\ Call /\ Multiple(drv.s, SectorSize) /\ drv.s < WriteEnd
    /\ drv.addr <= drv.p /\ drv.s <= drv.p /\ drv.p < drv.s + SectorSize /\ drv.p < WriteEnd

LEMMA PageFacts ==
    ASSUME OnPage
    PROVE  LET b == PageBase(drv.p)
           IN  /\ drv.p \in FAddrs /\ b \in Nat /\ Multiple(b, PageSize)
               /\ b <= drv.p /\ drv.p < b + PageSize /\ drv.p % PageSize = drv.p - b
               /\ drv.s <= b /\ b + PageSize <= drv.s + SectorSize /\ b + PageSize <= FlashSize
               /\ PageBase(drv.p + PageSize) = b + PageSize
               /\ PageEnd \in Nat /\ drv.p < PageEnd /\ PageEnd <= WriteEnd /\ PageEnd <= b + PageSize
               /\ PageEnd = WriteEnd \/ PageEnd = b + PageSize
               /\ PageLen \in 1 .. PageSize /\ PageEnd = drv.p + PageLen
               /\ \A a \in drv.p .. PageEnd - 1 : a \in InRange /\ a \in FAddrs /\ a \in SectorOf(drv.s)
<1>. USE DEF OnPage
<1>. DEFINE b == PageBase(drv.p)
<1>1. /\ drv.p \in Nat /\ drv.s \in Nat /\ drv.addr \in Nat /\ WriteEnd \in Nat /\ WriteEnd <= FlashSize
      /\ PageSize \in Nat /\ SectorSize \in Nat /\ FlashSize \in Nat
  BY CallFacts, FlashMultiples DEF DrvrRec
<1>2. drv.p \in FAddrs
  BY <1>1 DEF FAddrs
<1>3. /\ b \in Nat /\ Multiple(b, PageSize) /\ b <= drv.p /\ drv.p < b + PageSize /\ b + PageSize <= FlashSize
  BY <1>2, PageOfAddress
<1>4. drv.s <= b /\ b + PageSize <= drv.s + SectorSize /\ PageBase(drv.p + PageSize) = b + PageSize
  BY <1>1, <1>2, PageInSector
<1>5. drv.p % PageSize = drv.p - b
  BY <1>2, <1>3, PageBytes
<1>. HIDE DEF b
<1>6. /\ PageEnd \in Nat /\ drv.p < PageEnd /\ PageEnd <= WriteEnd /\ PageEnd <= b + PageSize
      /\ PageEnd = WriteEnd \/ PageEnd = b + PageSize
  BY <1>1, <1>3 DEF PageEnd, SoonerOf, b
<1>7. PageLen \in 1 .. PageSize /\ PageEnd = drv.p + PageLen
  BY <1>1, <1>3, <1>6 DEF PageLen
<1>8. ASSUME NEW a \in drv.p .. PageEnd - 1
      PROVE  a \in InRange /\ a \in FAddrs /\ a \in SectorOf(drv.s)
  <2>1. a \in Nat /\ drv.p <= a /\ a < PageEnd
    BY <1>1, <1>6
  <2>2. a \in InRange
    BY <1>1, <1>6, <2>1 DEF InRange
  <2>3. a \in SectorOf(drv.s)
    BY <1>1, <1>3, <1>4, <1>6, <2>1 DEF SectorOf
  <2>. QED  BY <2>2, <2>3, CallFacts
<1>. QED  BY <1>2, <1>3, <1>4, <1>5, <1>6, <1>7, <1>8 DEF b

\* What the end of an erase leaves in the memory, and of a program, whichever
\* cells fail.
LEMMA EraseMem ==
    ASSUME fl \in FlashRec, NEW n \in Nat, Command(fl, "SECTOR_ERASE", n), NEW s \in Nat, fl.addr = s,
           Multiple(s, SectorSize)
    PROVE  LET e == Worn(Deselect(fl))
           IN  /\ \A a \in FAddrs : e.mem[a] # fl.mem[a] =>
                      a \in SectorOf(s) /\ e.mem[a] = Erased
               /\ worn = {} => \A a \in FAddrs : a \in SectorOf(s) => e.mem[a] = Erased
<1>. DEFINE d == Deselect(fl)
            e == Worn(d)
<1>1. d.mem = SectorErased(fl) /\ s \in FAddrs
  BY EraseEnds DEF FlashRec
<1>2. SectorBase(s) = s
  <2>1. s <= s /\ s < s + SectorSize /\ s \in Int
    BY FlashMultiples
  <2>. QED  BY <2>1, FlashMultiples, BaseUnique DEF SectorBase
<1>3. \A a \in FAddrs : d.mem[a] = IF a \in SectorOf(s) THEN Erased ELSE fl.mem[a]
  BY <1>1, <1>2, SectorBytes DEF SectorErased
<1>4. \A a \in FAddrs : e.mem[a] = IF a \in worn THEN fl.mem[a] ELSE d.mem[a]
  BY DEF Worn, FlashRec
<1>. QED  BY <1>3, <1>4

LEMMA ProgramMem ==
    ASSUME OnPage, NEW n \in Nat, Command(fl, "PP", n), PageBase(fl.addr) = PageBase(drv.p),
           Loaded(fl.pmem, PageLen)
    PROVE  LET e == Worn(Deselect(fl))
           IN  /\ \A a \in FAddrs : e.mem[a] # fl.mem[a] =>
                      a \in drv.p .. PageEnd - 1 /\ DataAt(a) = 0 /\ e.mem[a] = 0
               /\ worn = {} => \A a \in drv.p .. PageEnd - 1 : e.mem[a] = fl.mem[a] * DataAt(a)
<1>. DEFINE d == Deselect(fl)
            e == Worn(d)
            b == PageBase(drv.p)
            Page == drv.p .. PageEnd - 1
<1>0. drv \in DrvrRec /\ fl \in FlashRec /\ Call
  BY DEF OnPage
<1>1. d.mem = Programmed(fl)
  BY <1>0, ProgramEnds
<1>2. /\ b \in Nat /\ Multiple(b, PageSize) /\ b <= drv.p /\ drv.p \in Nat /\ drv.p % PageSize = drv.p - b
      /\ PageLen \in Nat /\ PageEnd = drv.p + PageLen /\ PageEnd <= b + PageSize /\ PageEnd \in Nat
      /\ \A a \in Page : a \in InRange /\ a \in FAddrs
      /\ PageSize \in Nat /\ PageSize > 0
  BY PageFacts, FlashMultiples DEF FAddrs
<1>3. \A a \in FAddrs : fl.mem[a] \in Bits
  BY <1>0, CallFacts
<1>4. ASSUME NEW a \in FAddrs, PageBase(a) = b
      PROVE  d.mem[a] = fl.mem[a] * (IF a \in Page THEN DataAt(a) ELSE Erased)
  <2>. DEFINE x == a % PageSize
  <2>1. d.mem[a] = fl.mem[a] * fl.pmem[x]
    BY <1>1, <1>4 DEF Programmed
  <2>2. a % PageSize = a - b /\ a \in b .. b + PageSize - 1 /\ a \in Nat
    BY <1>2, <1>4, PageBytes DEF FAddrs
  <2>3. x \in 0 .. PageSize - 1 /\ x = a - b /\ b + x = a
    BY <1>2, <2>2
  <2>. HIDE DEF x, b
  <2>4. x \in drv.p % PageSize .. (drv.p % PageSize) + PageLen - 1 <=> a \in Page
    BY <1>2, <2>2, <2>3
  <2>5. fl.pmem[x] = IF a \in Page THEN DataAt(a) ELSE Erased
    BY <2>3, <2>4 DEF Loaded, b
  <2>. QED  BY <2>1, <2>5
<1>5. ASSUME NEW a \in FAddrs, PageBase(a) # b
      PROVE  d.mem[a] = fl.mem[a] /\ a \notin Page
  <2>1. d.mem[a] = fl.mem[a]
    BY <1>1, <1>5 DEF Programmed
  <2>2. a \in b .. b + PageSize - 1 <=> PageBase(a) = b
    BY <1>2, PageBytes
  <2>3. a \in Page => a \in b .. b + PageSize - 1
    <3>. HIDE DEF b
    <3>. QED  BY <1>2
  <2>. QED  BY <1>5, <2>1, <2>2, <2>3
<1>6. \A a \in FAddrs : e.mem[a] = IF a \in worn THEN fl.mem[a] ELSE d.mem[a]
  BY <1>0 DEF Worn, FlashRec
<1>7. \A a \in Page : DataAt(a) \in Bits
  BY <1>0, <1>2, CallFacts
<1>8. \A v \in Bits : v * Erased = v /\ (\A w \in Bits : v * w # v => w = 0 /\ v * w = 0)
  BY DEF Bits, Erased
<1>. HIDE DEF d, e, b, Page
<1>9. ASSUME NEW a \in FAddrs, e.mem[a] # fl.mem[a]
      PROVE  a \in Page /\ DataAt(a) = 0 /\ e.mem[a] = 0
  <2>1. e.mem[a] = d.mem[a] /\ PageBase(a) = b
    BY <1>5, <1>6, <1>9
  <2>2. CASE a \in Page
    <3>1. d.mem[a] = fl.mem[a] * DataAt(a)
      BY <1>4, <2>1, <2>2
    <3>. QED  BY <1>3, <1>7, <1>8, <1>9, <2>1, <2>2, <3>1
  <2>3. CASE a \notin Page
    <3>1. d.mem[a] = fl.mem[a] * Erased
      BY <1>4, <2>1, <2>3
    <3>. QED  BY <1>3, <1>8, <1>9, <2>1, <3>1
  <2>. QED  BY <2>2, <2>3
<1>10. ASSUME worn = {}, NEW a \in Page
       PROVE  e.mem[a] = fl.mem[a] * DataAt(a)
  BY <1>2, <1>4, <1>5, <1>6, <1>10
<1>. QED  BY <1>9, <1>10 DEF e, d, Page

\* A byte of the page goes where it belongs, and the address to the next.
LEMMA LoadByte ==
    ASSUME OnPage, NEW j \in 0 .. PageLen - 1, Loaded(fl.pmem, j), fl.addr = drv.p + j,
           NEW v, v = DataAt(drv.p + j)
    PROVE  /\ Loaded(Filled(fl, v), j + 1)
           /\ PageBase(NextInPage(fl.addr)) = PageBase(drv.p)
           /\ j + 1 < PageLen => NextInPage(fl.addr) = drv.p + j + 1
<1>. DEFINE b == PageBase(drv.p)
            a == drv.p + j
            y == a % PageSize
            w == IF v = Erased THEN Erased ELSE 0
            m == [fl.pmem EXCEPT ![y] = w]
<1>0. drv \in DrvrRec /\ fl \in FlashRec /\ Call
  BY DEF OnPage
<1>1. /\ b \in Nat /\ Multiple(b, PageSize) /\ b <= drv.p /\ drv.p \in Nat /\ drv.p % PageSize = drv.p - b
      /\ PageLen \in Nat /\ PageEnd = drv.p + PageLen /\ PageEnd <= b + PageSize /\ PageEnd \in Nat
      /\ \A x \in drv.p .. PageEnd - 1 : x \in InRange /\ x \in FAddrs
      /\ PageSize \in Nat \ {0} /\ b + PageSize <= FlashSize /\ FlashSize \in Nat
  BY PageFacts, FlashMultiples DEF FAddrs
<1>. HIDE DEF b
<1>2. a \in drv.p .. PageEnd - 1 /\ a \in b .. b + PageSize - 1 /\ a \in Nat
  BY <1>1
<1>3. a \in FAddrs /\ v \in Bits
  BY <1>0, <1>1, <1>2, CallFacts
<1>4. PageBase(a) = b /\ y = a - b
  BY <1>1, <1>2, <1>3, PageBytes
<1>5. w = v
  BY <1>3 DEF Bits, Erased
<1>6. DOMAIN fl.pmem = 0 .. PageSize - 1
  BY <1>0 DEF FlashRec
<1>7. y \in 0 .. PageSize - 1 /\ y = (drv.p - b) + j /\ b + y = a
  BY <1>1, <1>2, <1>4
<1>. HIDE DEF y, w
<1>8. \A x \in 0 .. PageSize - 1 : m[x] = IF x = y THEN v ELSE fl.pmem[x]
  BY <1>5, <1>6
<1>9. ASSUME NEW x \in 0 .. PageSize - 1
      PROVE  m[x] = IF x \in drv.p - b .. (drv.p - b) + j THEN DataAt(b + x) ELSE Erased
  <2>. HIDE DEF m
  <2>1. fl.pmem[x] = IF x \in drv.p - b .. (drv.p - b) + j - 1 THEN DataAt(b + x) ELSE Erased
    BY <1>1 DEF Loaded, b
  <2>2. CASE x = y
    <3>1. m[x] = DataAt(b + x)
      BY <1>7, <1>8, <2>2
    <3>2. x \in drv.p - b .. (drv.p - b) + j
      BY <1>1, <1>7, <2>2
    <3>. QED  BY <3>1, <3>2
  <2>3. CASE x # y
    <3>1. x \in drv.p - b .. (drv.p - b) + j <=> x \in drv.p - b .. (drv.p - b) + j - 1
      BY <1>1, <1>7, <2>3
    <3>2. m[x] = fl.pmem[x]
      BY <1>8, <2>3
    <3>. QED  BY <2>1, <3>1, <3>2
  <2>. QED  BY <2>2, <2>3
<1>10. Loaded(m, j + 1)
  <2>1. (drv.p - b) + (j + 1) - 1 = (drv.p - b) + j
    BY <1>1
  <2>. HIDE DEF m
  <2>. QED  BY <1>1, <1>9, <2>1 DEF Loaded, b
<1>11. NextInPage(a) = b + ((a + 1) % PageSize)
  BY <1>4 DEF NextInPage
<1>12. PageBase(NextInPage(a)) = b
  <2>. DEFINE k == a + 1
              r == k % PageSize
              t == b + r
  <2>1. k \in Int
    BY <1>2
  <2>. HIDE DEF k
  <2>2. r \in 0 .. PageSize - 1
    BY <1>1, <2>1, DivMod
  <2>. HIDE DEF r
  <2>3. t \in Int /\ b \in Int /\ b <= t /\ t < b + PageSize
    BY <1>1, <2>2
  <2>. HIDE DEF t
  <2>4. t - (t % PageSize) = b
    BY <1>1, <2>3, BaseUnique
  <2>5. PageBase(t) = b
    BY <2>4 DEF PageBase
  <2>. QED  BY <1>11, <2>5 DEF t, r, k
<1>13. j + 1 < PageLen => NextInPage(a) = drv.p + j + 1
  <2>. SUFFICES ASSUME j + 1 < PageLen PROVE NextInPage(a) = drv.p + j + 1
    OBVIOUS
  <2>. DEFINE k == a + 1
  <2>1. k \in drv.p .. PageEnd - 1 /\ k \in b .. b + PageSize - 1 /\ k = drv.p + j + 1
    BY <1>1
  <2>. HIDE DEF k
  <2>2. k \in FAddrs
    BY <1>1, <2>1
  <2>3. k % PageSize = k - b
    BY <1>1, <2>1, <2>2, PageBytes
  <2>4. b + (k - b) = k
    BY <1>1, <2>1
  <2>5. NextInPage(a) = b + (k % PageSize)
    BY <1>11 DEF k
  <2>. QED  BY <2>1, <2>3, <2>4, <2>5
<1>. QED  BY <1>10, <1>12, <1>13 DEF b, y, w, Filled

\* The writes begin with those the driver builds, and go on one by one.
LEMMA NextOp ==
    ASSUME NEW all, NEW n \in Nat, NEW k \in 0 .. n - 1, OpsLeft(all, n, k)
    PROVE  /\ Head(drv.ops) = all[k + 1]
           /\ Len(drv.ops) > 1 <=> k + 1 < n
           /\ k + 1 < n => PartOf(all, k + 1, n - (k + 1), Tail(drv.ops))
<1>. DEFINE o == drv.ops
<1>1. Len(o) = n - k /\ (\A i \in 1 .. n - k : o[i] = all[k + i]) /\ o \in Seq(Int)
  BY DEF OpsLeft, PartOf
<1>. HIDE DEF o
<1>2. Len(o) > 0 /\ 1 \in 1 .. n - k
  BY <1>1
<1>3. Head(o) = o[1]
  BY <1>1, <1>2
<1>4. o[1] = all[k + 1]
  BY <1>1, <1>2
<1>5. ASSUME k + 1 < n
      PROVE  PartOf(all, k + 1, n - (k + 1), Tail(o))
  <2>1. o # <<>>
    BY <1>1, <1>2
  <2>2. Tail(o) \in Seq(Int) /\ Len(Tail(o)) = n - (k + 1)
    <3>1. Tail(o) \in Seq(Int) /\ Len(Tail(o)) = Len(o) - 1
      BY <1>1, <2>1, HeadTailProperties
    <3>. QED  BY <1>1, <3>1
  <2>3. ASSUME NEW i \in 1 .. n - (k + 1)
        PROVE  Tail(o)[i] = all[(k + 1) + i]
    <3>1. i \in 1 .. Len(Tail(o)) /\ i + 1 \in 1 .. n - k /\ k + (i + 1) = (k + 1) + i
      BY <2>2
    <3>2. Tail(o)[i] = o[i + 1]
      BY <1>1, <2>1, <3>1, HeadTailProperties
    <3>3. o[i + 1] = all[k + (i + 1)]
      BY <1>1, <3>1
    <3>. QED  BY <3>1, <3>2, <3>3
  <2>. QED  BY <2>2, <2>3 DEF PartOf
<1>6. Len(o) > 1 <=> k + 1 < n
  BY <1>1
<1>. QED  BY <1>3, <1>4, <1>5, <1>6 DEF o

LEMMA PartsJoin ==
    ASSUME NEW all, NEW n \in Nat, NEW m \in Nat, NEW s, NEW t, PartOf(all, 0, n, s), PartOf(all, n, m, t)
    PROVE  PartOf(all, 0, n + m, s \o t)
<1>1. s \in Seq(Int) /\ t \in Seq(Int) /\ Len(s) = n /\ Len(t) = m
  BY DEF PartOf
<1>. DEFINE o == s \o t
<1>3. /\ o \in Seq(Int) /\ Len(o) = n + m
      /\ \A i \in 1 .. n + m : o[i] = IF i <= n THEN s[i] ELSE t[i - n]
  BY <1>1, ConcatProperties
<1>. HIDE DEF o
<1>4. ASSUME NEW i \in 1 .. n + m PROVE o[i] = all[0 + i]
  <2>1. CASE i <= n
    <3>1. i \in 1 .. n /\ 0 + i = i
      BY <2>1
    <3>2. s[i] = all[0 + i]
      BY <3>1 DEF PartOf
    <3>. QED  BY <1>3, <2>1, <3>2
  <2>2. CASE ~(i <= n)
    <3>1. i - n \in 1 .. m /\ n + (i - n) = i /\ 0 + i = i
      BY <2>2
    <3>2. t[i - n] = all[n + (i - n)]
      BY <3>1 DEF PartOf
    <3>. QED  BY <1>3, <2>2, <3>1, <3>2
  <2>. QED  BY <2>1, <2>2
<1>. QED  BY <1>3, <1>4 DEF PartOf, o

LEMMA PartOfOne ==
    ASSUME NEW all, NEW k \in Nat, NEW x \in Int, all[k + 1] = x
    PROVE  PartOf(all, k, 1, <<x>>)
<1>1. 1 .. 1 = {1}
  OBVIOUS
<1>. QED  BY <1>1 DEF PartOf

LEMMA PartOfTwo ==
    ASSUME NEW all, NEW k \in Nat, NEW x \in Int, NEW y \in Int, all[k + 1] = x, all[k + 2] = y
    PROVE  PartOf(all, k, 2, <<x, y>>)
<1>1. 1 .. 2 = {1, 2}
  OBVIOUS
<1>. QED  BY <1>1 DEF PartOf

LEMMA PartOfThree ==
    ASSUME NEW all, NEW k \in Nat, NEW x \in Int, NEW y \in Int, NEW z \in Int,
           all[k + 1] = x, all[k + 2] = y, all[k + 3] = z
    PROVE  PartOf(all, k, 3, <<x, y, z>>)
<1>1. 1 .. 3 = {1, 2, 3}
  OBVIOUS
<1>. QED  BY <1>1 DEF PartOf

LEMMA EraseOpsBegin ==
    ASSUME drv.s \in Nat
    PROVE  LET o == WriteEnable \o <<Cmd.SECTOR_ERASE>> \o AddressOf(drv.s) \o <<F_END>> \o StartWait
           IN  PartOf(EraseOp, 0, EraseOps, o)
<1>. DEFINE f == EraseOp
            e == F_END
            w == Cmd.WREN
            c == Cmd.SECTOR_ERASE
            r == Cmd.RDSR
            s == drv.s
            z == 0
            p1 == <<e, w, e>>
            p2 == <<c>>
            p3 == <<z, z, s>>
            p4 == <<e>>
            p5 == <<e, r>>
<1>1. e \in Int /\ w \in Int /\ c \in Int /\ r \in Int /\ s \in Int /\ z \in Int
  BY CmdNumbers DEF F_END
<1>2. f[0 + 1] = e /\ f[0 + 2] = w /\ f[0 + 3] = e
  BY DEF EraseOp, EraseOps
<1>3. f[3 + 1] = c /\ f[7 + 1] = e
  BY DEF EraseOp, EraseOps
<1>4. f[4 + 1] = z /\ f[4 + 2] = z /\ f[4 + 3] = s
  BY DEF EraseOp, EraseOps
<1>5. f[8 + 1] = e /\ f[8 + 2] = r
  BY DEF EraseOp, EraseOps
<1>6. WriteEnable = p1 /\ AddressOf(s) = p3 /\ StartWait = p5
  BY DEF WriteEnable, AddressOf, StartWait
<1>. HIDE DEF f, e, w, c, r, s, z
<1>7. PartOf(f, 0, 3, p1)
  BY <1>1, <1>2, PartOfThree
<1>8. PartOf(f, 3, 1, p2)
  BY <1>1, <1>3, PartOfOne
<1>9. PartOf(f, 4, 3, p3)
  BY <1>1, <1>4, PartOfThree
<1>10. PartOf(f, 7, 1, p4)
  BY <1>1, <1>3, PartOfOne
<1>11. PartOf(f, 8, 2, p5)
  BY <1>1, <1>5, PartOfTwo
<1>. HIDE DEF p1, p2, p3, p4, p5
<1>12. PartOf(f, 0, 3 + 1, p1 \o p2)
  BY <1>7, <1>8, PartsJoin
<1>13. PartOf(f, 0, 4 + 3, p1 \o p2 \o p3)
  BY <1>9, <1>12, PartsJoin
<1>14. PartOf(f, 0, 7 + 1, p1 \o p2 \o p3 \o p4)
  BY <1>10, <1>13, PartsJoin
<1>15. PartOf(f, 0, 8 + 2, p1 \o p2 \o p3 \o p4 \o p5)
  BY <1>11, <1>14, PartsJoin
<1>. QED  BY <1>6, <1>15 DEF EraseOps, c, s, e, f, p2, p4

LEMMA ProgramOpsBegin ==
    ASSUME OnPage
    PROVE  LET o == WriteEnable \o <<F_END, Cmd.PP>> \o AddressOf(drv.p) \o PageData \o <<F_END>>
                        \o StartWait
           IN  PartOf(ProgramOp, 0, ProgramOps, o)
<1>. DEFINE f == ProgramOp
            e == F_END
            w == Cmd.WREN
            c == Cmd.PP
            r == Cmd.RDSR
            p == drv.p
            z == 0
            n == PageLen
            p1 == <<e, w, e>>
            p2 == <<e, c>>
            p3 == <<z, z, p>>
            p4 == PageData
            p5 == <<e>>
            p6 == <<e, r>>
<1>0. n \in Nat /\ n > 0 /\ p \in Nat
  <2>1. drv.p \in Nat
    BY DEF OnPage, DrvrRec
  <2>2. PageEnd \in Nat /\ drv.p < PageEnd
    BY PageFacts
  <2>. QED  BY <2>1, <2>2 DEF PageLen
<1>1. e \in Int /\ w \in Int /\ c \in Int /\ r \in Int /\ z \in Int
  BY CmdNumbers DEF F_END
<1>. HIDE DEF n
<1>2. /\ f[0 + 1] = e /\ f[0 + 2] = w /\ f[0 + 3] = e
      /\ f[3 + 1] = e /\ f[3 + 2] = c
      /\ f[5 + 1] = z /\ f[5 + 2] = z /\ f[5 + 3] = p
  BY <1>0 DEF ProgramOp, ProgramOps, n
<1>3. /\ f[(n + 8) + 1] = e /\ f[(n + 9) + 1] = e /\ f[(n + 9) + 2] = r
  BY SMTT(60), <1>0 DEF ProgramOp, ProgramOps, n
<1>4. \A i \in 1 .. n : f[8 + i] = DataAt(p + i - 1)
  <2>. SUFFICES ASSUME NEW i \in 1 .. n PROVE f[8 + i] = DataAt(p + i - 1)
    OBVIOUS
  <2>. DEFINE j == 8 + i
  <2>1. /\ j \in 9 .. 8 + n /\ j \in 1 .. 11 + n /\ j \notin {1, 3, 4, 9 + n, 10 + n} /\ j # 2 /\ j # 5
        /\ j \notin {6, 7} /\ j # 8 /\ p + j - 9 = p + i - 1
    BY <1>0
  <2>. HIDE DEF j
  <2>2. f[j] = DataAt(p + j - 9)
    BY <2>1 DEF ProgramOp, ProgramOps, n
  <2>. QED  BY <2>1, <2>2 DEF j
<1>5. WriteEnable = p1 /\ AddressOf(p) = p3 /\ StartWait = p6
  BY DEF WriteEnable, AddressOf, StartWait
<1>6. PartOf(f, 8, n, p4)
  <2>1. p4 = [i \in 1 .. n |-> DataAt(p + i - 1)]
    BY DEF PageData, PageLen, n
  <2>2. ASSUME NEW i \in 1 .. n PROVE DataAt(p + i - 1) \in Int
    <3>. DEFINE a == p + i - 1
    <3>1. a \in drv.p .. PageEnd - 1
      BY <1>0, PageFacts DEF n
    <3>. HIDE DEF a
    <3>2. a \in InRange
      BY <3>1, PageFacts
    <3>3. DataAt(a) \in Bits
      BY <3>2, CallFacts DEF OnPage
    <3>. QED  BY <3>3 DEF a, Bits
  <2>3. p4 \in [1 .. n -> Int]
    BY <2>1, <2>2
  <2>4. p4 \in Seq(Int) /\ Len(p4) = n
    BY <1>0, <2>3
  <2>. QED  BY <1>4, <2>1, <2>4 DEF PartOf
<1>. HIDE DEF f, e, w, c, r, p, z
<1>7. PartOf(f, 0, 3, p1)
  BY <1>1, <1>2, PartOfThree
<1>8. PartOf(f, 3, 2, p2)
  BY <1>1, <1>2, PartOfTwo
<1>9. PartOf(f, 5, 3, p3)
  BY <1>0, <1>1, <1>2, PartOfThree
<1>10. PartOf(f, n + 8, 1, p5)
  <2>1. n + 8 \in Nat
    BY <1>0
  <2>. QED  BY <1>1, <1>3, <2>1, PartOfOne
<1>11. PartOf(f, n + 9, 2, p6)
  <2>1. n + 9 \in Nat
    BY <1>0
  <2>. QED  BY <1>1, <1>3, <2>1, PartOfTwo
<1>. HIDE DEF p1, p2, p3, p4, p5, p6
<1>12. PartOf(f, 0, 3 + 2, p1 \o p2)
  BY <1>7, <1>8, PartsJoin
<1>13. PartOf(f, 0, 5 + 3, p1 \o p2 \o p3)
  BY <1>9, <1>12, PartsJoin
<1>14. PartOf(f, 0, 8 + n, p1 \o p2 \o p3 \o p4)
  BY <1>0, <1>6, <1>13, PartsJoin
<1>15. 8 + n = n + 8 /\ (n + 8) + 1 = n + 9 /\ (n + 9) + 2 = 11 + n /\ n + 8 \in Nat /\ n + 9 \in Nat
  BY <1>0
<1>16. PartOf(f, 0, (n + 8) + 1, p1 \o p2 \o p3 \o p4 \o p5)
  BY <1>10, <1>14, <1>15, PartsJoin
<1>17. PartOf(f, 0, (n + 9) + 2, p1 \o p2 \o p3 \o p4 \o p5 \o p6)
  BY <1>11, <1>15, <1>16, PartsJoin
<1>18. PartOf(f, 0, 11 + n, p1 \o p2 \o p3 \o p4 \o p5 \o p6)
  BY <1>15, <1>17
<1>. QED  BY <1>5, <1>18 DEF ProgramOps, c, p, e, f, n, p2, p4, p5

-----------------------------------------------------------------------------
(* One action after the other.                                             *)

\* A step of the driver is within the call.
SameCall ==
    /\ drv'.addr = drv.addr /\ drv'.len = drv.len /\ drv'.data = drv.data /\ drv'.verify = drv.verify
    /\ worn' = worn

LEMMA SameCallKeeps ==
    ASSUME SameCall
    PROVE  /\ WriteEnd' = WriteEnd /\ InRange' = InRange /\ (Call => Call')
           /\ \A a : DataAt(a)' = DataAt(a)
<1>1. WriteEnd' = WriteEnd
  BY DEF SameCall, WriteEnd
<1>2. InRange' = InRange /\ (Call => Call')
  BY <1>1 DEF SameCall, InRange, Call
<1>3. \A a : DataAt(a)' = DataAt(a)
  BY DEF SameCall, DataAt
<1>. QED  BY <1>1, <1>2, <1>3

LEMMA SameDevice ==
    ASSUME FlashIInv, fl' = fl
    PROVE  FlashIInv' /\ (Rest(fl) => Rest(fl)')
BY DEF FlashIInv, WideReads, OneWrite, Rest, Clean

\* Where a step of the driver may leave it.
LEMMA AtSector ==
    ASSUME FlashIInv', drv' \in DrvrRec, worn' \subseteq FAddrs, Call', Rest(fl)', drv'.pc = "sector",
           SectorPhase'
    PROVE  DrvrIInv'
BY DEF DrvrIInv, Phase

LEMMA AtPage ==
    ASSUME FlashIInv', drv' \in DrvrRec, worn' \subseteq FAddrs, Call', Rest(fl)',
           drv'.pc \in {"page", "programmed"}, SectorPhase', PagePhase', Phase' = "programmed" => PageIsWritten'
    PROVE  DrvrIInv'
BY DEF DrvrIInv, Phase

LEMMA AtFailure ==
    ASSUME FlashIInv', drv' \in DrvrRec, worn' \subseteq FAddrs, Call', drv'.pc = "false", worn' # {}
    PROVE  DrvrIInv'
BY DEF DrvrIInv, Phase

LEMMA AtSend ==
    ASSUME FlashIInv', drv' \in DrvrRec, worn' \subseteq FAddrs, Call', drv'.pc = "send", drv'.next # "off",
           drv'.next = "erased" => SectorPhase', drv'.next = "programmed" => SectorPhase' /\ PagePhase',
           drv'.next = "true" => DoneTo(WriteEnd)', Sending'
    PROVE  DrvrIInv'
BY DEF DrvrIInv, Phase, DrvrRec

LEMMA SectorLoopIInv ==
    ASSUME DrvrIInv, SectorLoop
    PROVE  DrvrIInv'
<1>. DEFINE part  == LaterOf(drv.addr, drv.s) .. SoonerOf(WriteEnd, drv.s + SectorSize) - 1
            wrong == {a \in part : BusRead(a) # DataAt(a)}
            needErase == \E a \in wrong : BusRead(a) * DataAt(a) # DataAt(a)
            first == CHOOSE a \in wrong : \A b \in wrong : a <= b
            base == SectorBase(WriteEnd + SectorSize - 1)
            ops == WriteEnable \o <<Cmd.SECTOR_ERASE>> \o AddressOf(drv.s) \o <<F_END>> \o StartWait
            s2 == drv.s + SectorSize
<1>1. /\ drv.pc = "sector" /\ drv \in DrvrRec /\ fl \in FlashRec /\ FlashIInv /\ worn \subseteq FAddrs
      /\ Call /\ Rest(fl) /\ Multiple(drv.s, SectorSize) /\ SectorBase(drv.addr) <= drv.s /\ DoneTo(drv.s)
  BY DEF SectorLoop, DrvrIInv, FlashIInv, Phase, SectorPhase
<1>2. fl' = fl /\ worn' = worn
  BY DEF SectorLoop
<1>3. /\ IF drv.s >= base
         THEN drv' = [drv EXCEPT !.pc = "send", !.ops = <<Cmd.WRDI, F_END>>, !.next = "true"]
         ELSE IF wrong = {} THEN drv' = [drv EXCEPT !.s = s2]
         ELSE IF ~needErase THEN drv' = [drv EXCEPT !.pc = "page", !.p = first]
         ELSE drv' = [drv EXCEPT !.pc = "send", !.ops = ops, !.next = "erased"]
  BY DEF SectorLoop, SendThenWait
<1>4. /\ drv.s \in Nat /\ drv.addr \in Nat /\ drv.addr < WriteEnd /\ WriteEnd \in Nat /\ WriteEnd <= FlashSize
      /\ \A a \in InRange : a \in FAddrs /\ a \in Nat /\ DataAt(a) \in Bits /\ fl.mem[a] \in Bits
      /\ SectorSize \in Nat /\ SectorSize > 0
  BY <1>1, CallFacts, FlashMultiples DEF DrvrRec
<1>5. drv.s >= base => drv.s >= WriteEnd
  BY <1>1, <1>4, SectorLoopEnds
<1>6. ~(drv.s >= base) => drv.s < WriteEnd
  BY <1>1, <1>4, SectorLoopEnds
<1>7. \A a : BusRead(a) = fl.mem[a]
  BY <1>1 DEF BusRead, Busy, Rest, Clean
<1>8. \A a : a \in part <=> a \in InRange /\ drv.s <= a /\ a < s2
  BY <1>4 DEF LaterOf, SoonerOf, InRange
<1>9. FlashIInv' /\ Rest(fl)' /\ worn' \subseteq FAddrs
  BY <1>1, <1>2, SameDevice
<1>10. wrong \subseteq part
  OBVIOUS
<1>. HIDE DEF part, needErase, first, base, ops
<1>11. CASE drv.s >= base
  <2>1. drv' = [drv EXCEPT !.pc = "send", !.ops = <<Cmd.WRDI, F_END>>, !.next = "true"]
    BY <1>3, <1>11
  <2>. DEFINE o == <<Cmd.WRDI, F_END>>
  <2>2. o \in Seq(Int)
    BY CmdNumbers DEF F_END
  <2>. HIDE DEF o
  <2>3. SameCall /\ drv' \in DrvrRec /\ drv'.pc = "send" /\ drv'.next = "true" /\ drv'.ops = o
    BY <1>1, <1>2, <2>1, <2>2 DEF SameCall, DrvrRec, o
  <2>4. Call' /\ WriteEnd' = WriteEnd /\ InRange' = InRange /\ \A a : DataAt(a)' = DataAt(a)
    BY <1>1, <2>3, SameCallKeeps
  <2>5. DoneTo(WriteEnd)'
    <3>1. DoneTo(WriteEnd)
      BY <1>1, <1>4, <1>5, <1>11 DEF DoneTo
    <3>. QED  BY <1>2, <2>3, <2>4, <3>1 DEF DoneTo, SameCall
  <2>6. Sending'
    BY <1>9, <2>3 DEF Sending, o
  <2>. QED  BY <1>9, <2>3, <2>4, <2>5, <2>6, AtSend
<1>12. CASE ~(drv.s >= base) /\ wrong = {}
  <2>1. drv' = [drv EXCEPT !.s = s2]
    BY <1>3, <1>12
  <2>2. s2 \in Nat
    BY <1>4
  <2>3. Multiple(s2, SectorSize) /\ SectorBase(drv.addr) <= s2
    <3>1. Multiple(SectorSize, SectorSize)
      <4>1. SectorSize = 1 * SectorSize
        BY <1>4
      <4>. SUFFICES \E k \in Int : SectorSize = k * SectorSize
        BY DEF Multiple
      <4>. WITNESS 1 \in Int
      <4>. QED  BY <4>1
    <3>2. SectorSize \in Nat \ {0} /\ SectorSize \in Int /\ drv.s \in Int
      BY <1>4
    <3>3. Multiple(s2, SectorSize)
      BY <1>1, <3>1, <3>2, MultipleSum
    <3>4. SectorBase(drv.addr) \in Int
      <4>1. drv.addr \in Int
        BY <1>4
      <4>2. drv.addr - (drv.addr % SectorSize) \in Int
        BY <3>2, <4>1, BaseMultiple
      <4>. QED  BY <4>2 DEF SectorBase
    <3>. QED  BY <1>1, <1>4, <3>3, <3>4
  <2>4. \A a \in InRange : a < s2 => a < drv.s \/ fl.mem[a] = DataAt(a)
    BY <1>4, <1>7, <1>8, <1>12
  <2>. HIDE DEF s2
  <2>5. SameCall /\ drv' \in DrvrRec /\ drv'.pc = "sector" /\ drv'.s = s2
    BY <1>1, <1>2, <2>1, <2>2 DEF SameCall, DrvrRec
  <2>6. Call' /\ InRange' = InRange /\ \A a : DataAt(a)' = DataAt(a)
    BY <1>1, <2>5, SameCallKeeps
  <2>7. DoneTo(drv.s)'
    <3>1. DoneTo(s2)
      BY <1>1, <2>4 DEF DoneTo
    <3>. QED  BY <1>2, <2>5, <2>6, <3>1 DEF DoneTo, SameCall
  <2>8. SectorPhase'
    BY <2>3, <2>5, <2>7 DEF SectorPhase, Phase, SameCall
  <2>. QED  BY <1>9, <2>5, <2>6, <2>8, AtSector
<1>13. CASE ~(drv.s >= base) /\ wrong # {} /\ ~needErase
  <2>1. drv' = [drv EXCEPT !.pc = "page", !.p = first]
    BY <1>3, <1>13
  <2>2. first \in wrong /\ \A b \in wrong : first <= b
    <3>1. wrong \in SUBSET Nat /\ wrong # {}
      BY <1>4, <1>8, <1>10, <1>13
    <3>. QED  BY <3>1, FirstOf DEF first
  <2>3. first \in InRange /\ first \in Nat /\ drv.s <= first /\ first < s2
    BY <1>4, <1>8, <1>10, <2>2
  <2>4. \A a \in InRange : a < first => a < drv.s \/ fl.mem[a] = DataAt(a)
    <3>. SUFFICES ASSUME NEW a \in InRange, a < first, ~(a < drv.s) PROVE fl.mem[a] = DataAt(a)
      OBVIOUS
    <3>1. a \in part
      BY <1>4, <1>8, <2>3
    <3>2. a \in wrong \/ fl.mem[a] = DataAt(a)
      BY <1>7, <3>1
    <3>. HIDE DEF wrong
    <3>. QED  BY <1>4, <2>2, <2>3, <3>2
  <2>5. \A a \in InRange : drv.s <= a /\ a < s2 => fl.mem[a] = Erased \/ DataAt(a) # Erased
    <3>. SUFFICES ASSUME NEW a \in InRange, drv.s <= a, a < s2 PROVE fl.mem[a] = Erased \/ DataAt(a) # Erased
      OBVIOUS
    <3>1. fl.mem[a] = DataAt(a) \/ fl.mem[a] * DataAt(a) = DataAt(a)
      BY <1>7, <1>8, <1>13 DEF needErase
    <3>2. fl.mem[a] \in Bits /\ DataAt(a) \in Bits
      BY <1>4
    <3>. QED  BY <3>1, <3>2 DEF Bits, Erased
  <2>6. SameCall /\ drv' \in DrvrRec /\ drv'.pc = "page" /\ drv'.s = drv.s /\ drv'.p = first
    BY <1>1, <1>2, <2>1, <2>3 DEF SameCall, DrvrRec
  <2>7. Call' /\ WriteEnd' = WriteEnd /\ InRange' = InRange /\ \A a : DataAt(a)' = DataAt(a)
    BY <1>1, <2>6, SameCallKeeps
  <2>8. DoneTo(drv.p)'
    <3>1. DoneTo(first)
      BY <1>1, <2>4 DEF DoneTo
    <3>. QED  BY <1>2, <2>6, <2>7, <3>1 DEF DoneTo, SameCall
  <2>9. OpenFrom(drv.p)'
    BY <1>2, <1>4, <2>3, <2>5, <2>6, <2>7 DEF OpenFrom, SameCall
  <2>10. SectorPhase'
    BY <1>1, <1>6, <1>13, <2>6, <2>7 DEF SectorPhase, Phase, SameCall
  <2>11. PagePhase'
    <3>1. drv.addr <= first
      BY <1>4, <2>3 DEF InRange
    <3>2. first <= drv.s + SectorSize
      BY <1>4, <2>3
    <3>. QED  BY <2>3, <2>6, <2>8, <2>9, <3>1, <3>2 DEF PagePhase, Phase, SameCall
  <2>. QED  BY <1>9, <2>6, <2>7, <2>10, <2>11, AtPage DEF Phase
<1>14. CASE ~(drv.s >= base) /\ wrong # {} /\ needErase
  <2>1. drv' = [drv EXCEPT !.pc = "send", !.ops = ops, !.next = "erased"]
    BY <1>3, <1>14
  <2>2. PartOf(EraseOp, 0, EraseOps, ops)
    BY <1>4, EraseOpsBegin DEF ops
  <2>3. \E a \in InRange \cap SectorOf(drv.s) : fl.mem[a] = 0 /\ DataAt(a) = Erased
    <3>1. PICK a \in wrong : fl.mem[a] * DataAt(a) # DataAt(a)
      BY <1>7, <1>14 DEF needErase
    <3>2. a \in InRange /\ drv.s <= a /\ a < s2 /\ a \in Nat /\ fl.mem[a] \in Bits /\ DataAt(a) \in Bits
      BY <1>4, <1>8, <1>10
    <3>3. a \in SectorOf(drv.s)
      BY <1>4, <3>2 DEF SectorOf
    <3>4. fl.mem[a] = 0 /\ DataAt(a) = Erased
      BY <3>1, <3>2 DEF Bits, Erased
    <3>. QED  BY <3>2, <3>3, <3>4
  <2>4. /\ SameCall /\ drv' \in DrvrRec /\ drv'.pc = "send" /\ drv'.next = "erased" /\ drv'.s = drv.s
        /\ drv'.ops = ops
    BY <1>1, <1>2, <2>1, <2>2 DEF SameCall, DrvrRec, PartOf
  <2>5. Call' /\ WriteEnd' = WriteEnd /\ InRange' = InRange /\ \A a : DataAt(a)' = DataAt(a)
    BY <1>1, <2>4, SameCallKeeps
  <2>6. DoneTo(drv.s)'
    BY <1>1, <1>2, <2>4, <2>5 DEF DoneTo, SameCall
  <2>7. SectorPhase'
    BY <1>1, <1>6, <1>14, <2>4, <2>5, <2>6 DEF SectorPhase, Phase, SameCall
  <2>8. Sending'
    <3>1. EraseOp' = EraseOp
      BY <2>4 DEF EraseOp
    <3>2. OpsLeft(EraseOp, EraseOps, 0)'
      BY <2>2, <2>4, <3>1 DEF OpsLeft, EraseOps
    <3>3. EraseAt(0)'
      BY <1>9, <3>2 DEF EraseAt, EraseDevice
    <3>4. (\E a \in InRange \cap SectorOf(drv.s) : fl.mem[a] = 0 /\ DataAt(a) = Erased)'
      BY <1>2, <2>3, <2>4, <2>5 DEF SectorOf
    <3>5. 0 \in 0 .. EraseOps - 1
      BY DEF EraseOps
    <3>. QED  BY <2>4, <3>3, <3>4, <3>5 DEF Sending
  <2>. QED  BY <1>9, <2>4, <2>5, <2>7, <2>8, AtSend
<1>. QED  BY <1>11, <1>12, <1>13, <1>14

LEMMA EraseDoneIInv ==
    ASSUME DrvrIInv, EraseDone
    PROVE  DrvrIInv'
<1>. DEFINE q == LaterOf(drv.s, drv.addr)
            bad == drv.verify /\ \E a \in drv.s .. drv.s + SectorSize - 1 : BusRead(a) # Erased
<1>1. /\ drv.pc = "erased" /\ drv \in DrvrRec /\ fl \in FlashRec /\ FlashIInv /\ worn \subseteq FAddrs
      /\ Call /\ Rest(fl) /\ Multiple(drv.s, SectorSize) /\ SectorBase(drv.addr) <= drv.s /\ DoneTo(drv.s)
      /\ drv.s < WriteEnd
      /\ worn = {} => \A a \in SectorOf(drv.s) : fl.mem[a] = Erased
  BY DEF EraseDone, DrvrIInv, FlashIInv, Phase, SectorPhase
<1>2. /\ fl' = fl /\ worn' = worn
      /\ drv' = IF bad THEN [drv EXCEPT !.pc = "false"] ELSE [drv EXCEPT !.pc = "page", !.p = q]
  BY DEF EraseDone
<1>3. \A a : BusRead(a) = fl.mem[a]
  BY <1>1 DEF BusRead, Busy, Rest, Clean
<1>4. /\ drv.s \in Nat /\ drv.addr \in Nat /\ WriteEnd \in Nat
      /\ \A a \in InRange : a \in Nat
      /\ SectorSize \in Nat /\ SectorSize > 0
  BY <1>1, CallFacts, FlashMultiples DEF DrvrRec
<1>5. FlashIInv' /\ Rest(fl)' /\ worn' \subseteq FAddrs
  BY <1>1, <1>2, SameDevice
<1>6. CASE bad
  <2>1. worn # {}
    BY <1>1, <1>3, <1>6 DEF SectorOf
  <2>. HIDE DEF bad
  <2>2. SameCall /\ drv' \in DrvrRec /\ drv'.pc = "false"
    BY <1>1, <1>2, <1>6 DEF SameCall, DrvrRec
  <2>3. Call'
    BY <1>1, <2>2, SameCallKeeps
  <2>. QED  BY <1>2, <1>5, <2>1, <2>2, <2>3, AtFailure
<1>7. CASE ~bad
  <2>. HIDE DEF bad
  <2>1. q \in Nat /\ drv.addr <= q /\ drv.s <= q /\ (q = drv.s \/ q = drv.addr)
    BY <1>4 DEF LaterOf
  <2>2. q <= drv.s + SectorSize
    <3>1. drv.addr \in FAddrs
      BY <1>1, <1>4, CallFacts, FlashMultiples DEF FAddrs
    <3>2. drv.addr < SectorBase(drv.addr) + SectorSize /\ SectorBase(drv.addr) \in Nat
      BY <3>1, SectorOfAddress
    <3>. QED  BY <1>1, <1>4, <2>1, <3>2
  <2>. HIDE DEF q
  <2>3. SameCall /\ drv' \in DrvrRec /\ drv'.pc = "page" /\ drv'.s = drv.s /\ drv'.p = q
    BY <1>1, <1>2, <1>7, <2>1 DEF SameCall, DrvrRec
  <2>4. Call' /\ WriteEnd' = WriteEnd /\ InRange' = InRange /\ \A a : DataAt(a)' = DataAt(a)
    BY <1>1, <2>3, SameCallKeeps
  <2>5. DoneTo(drv.p)'
    <3>1. \A a \in InRange : a < q => a < drv.s
      BY <1>4, <2>1 DEF InRange
    <3>2. DoneTo(q)
      BY <1>1, <3>1 DEF DoneTo
    <3>. QED  BY <1>2, <2>3, <2>4, <3>2 DEF DoneTo, SameCall
  <2>6. OpenFrom(drv.p)'
    <3>1. \A a \in InRange : a >= q /\ a < drv.s + SectorSize => a \in SectorOf(drv.s)
      BY <1>4, <2>1 DEF SectorOf
    <3>2. OpenFrom(q)
      BY <1>1, <3>1 DEF OpenFrom
    <3>. QED  BY <1>2, <2>3, <2>4, <3>2 DEF OpenFrom, SameCall
  <2>7. SectorPhase'
    BY <1>1, <2>3, <2>4 DEF SectorPhase, Phase, SameCall
  <2>8. PagePhase'
    BY <2>1, <2>2, <2>3, <2>5, <2>6 DEF PagePhase, Phase, SameCall
  <2>. QED  BY <1>5, <2>3, <2>4, <2>7, <2>8, AtPage DEF Phase
<1>. QED  BY <1>6, <1>7

\* What both ends of a page share.
PageHere ==
    /\ drv \in DrvrRec /\ fl \in FlashRec /\ FlashIInv /\ worn \subseteq FAddrs
    /\ Call /\ Rest(fl) /\ Multiple(drv.s, SectorSize) /\ SectorBase(drv.addr) <= drv.s
    /\ drv.s < WriteEnd /\ drv.addr <= drv.p /\ drv.s <= drv.p /\ drv.p <= drv.s + SectorSize /\ DoneTo(drv.p)

LEMMA PageDoneIInv ==
    ASSUME DrvrIInv, PageDone
    PROVE  DrvrIInv'
<1>. DEFINE q == PageBase(drv.p + PageSize)
            bad == drv.verify /\ \E a \in drv.p .. PageEnd - 1 : BusRead(a) # DataAt(a)
<1>1. /\ drv.pc = "programmed" /\ PageHere /\ PageIsWritten
      /\ drv.p < drv.s + SectorSize /\ drv.p < WriteEnd
  BY DEF PageDone, PageHere, DrvrIInv, FlashIInv, Phase, SectorPhase, PagePhase
<1>0. OnPage
  BY <1>1 DEF OnPage, PageHere
<1>2. /\ fl' = fl /\ worn' = worn
      /\ drv' = IF bad THEN [drv EXCEPT !.pc = "false"] ELSE [drv EXCEPT !.pc = "page", !.p = q]
  BY DEF PageDone
<1>3. \A a : BusRead(a) = fl.mem[a]
  BY <1>1 DEF BusRead, Busy, Rest, Clean, PageHere
<1>4. /\ drv.s \in Nat /\ drv.addr \in Nat /\ WriteEnd \in Nat /\ drv.p \in Nat
      /\ SectorSize \in Nat /\ SectorSize > 0 /\ PageSize \in Nat
      /\ \A a \in InRange : a \in Nat /\ a < WriteEnd
  BY <1>1, CallFacts, FlashMultiples DEF DrvrRec, PageHere, InRange
<1>5. /\ q \in Nat /\ drv.p < q /\ PageEnd <= q /\ q <= drv.s + SectorSize /\ PageEnd \in Nat
      /\ drv.p < PageEnd /\ (PageEnd = WriteEnd \/ PageEnd = q)
  <2>1. q = PageBase(drv.p) + PageSize
    BY <1>0, PageFacts
  <2>. HIDE DEF q
  <2>. QED  BY <1>0, <1>4, <2>1, PageFacts
<1>6. FlashIInv' /\ Rest(fl)' /\ worn' \subseteq FAddrs
  BY <1>1, <1>2, SameDevice DEF PageHere
<1>7. CASE bad
  <2>1. worn # {}
    BY <1>1, <1>3, <1>7 DEF PageIsWritten
  <2>. HIDE DEF bad
  <2>2. SameCall /\ drv' \in DrvrRec /\ drv'.pc = "false"
    BY <1>1, <1>2, <1>7 DEF SameCall, DrvrRec, PageHere
  <2>3. Call'
    BY <1>1, <2>2, SameCallKeeps DEF PageHere
  <2>. QED  BY <1>2, <1>6, <2>1, <2>2, <2>3, AtFailure
<1>8. CASE ~bad
  <2>1. drv.verify \/ worn = {} => \A a \in drv.p .. PageEnd - 1 : fl.mem[a] = DataAt(a)
    BY <1>1, <1>3, <1>8 DEF PageIsWritten
  <2>. HIDE DEF bad, q
  <2>2. SameCall /\ drv' \in DrvrRec /\ drv'.pc = "page" /\ drv'.s = drv.s /\ drv'.p = q
    BY <1>1, <1>2, <1>5, <1>8 DEF SameCall, DrvrRec, PageHere
  <2>3. Call' /\ WriteEnd' = WriteEnd /\ InRange' = InRange /\ \A a : DataAt(a)' = DataAt(a)
    BY <1>1, <2>2, SameCallKeeps DEF PageHere
  <2>4. DoneTo(drv.p)'
    <3>1. \A a \in InRange : a < q => a < drv.p \/ a \in drv.p .. PageEnd - 1
      BY <1>4, <1>5
    <3>2. DoneTo(q)
      BY <1>1, <2>1, <3>1 DEF DoneTo, PageHere
    <3>. QED  BY <1>2, <2>2, <2>3, <3>2 DEF DoneTo, SameCall
  <2>5. OpenFrom(drv.p)'
    <3>1. \A a \in InRange : a >= q => a >= PageEnd
      BY <1>4, <1>5
    <3>2. OpenFrom(q)
      BY <1>1, <3>1 DEF OpenFrom, PageIsWritten
    <3>. QED  BY <1>2, <2>2, <2>3, <3>2 DEF OpenFrom, SameCall
  <2>6. SectorPhase'
    BY <1>1, <2>2, <2>3 DEF SectorPhase, Phase, SameCall, PageHere
  <2>7. PagePhase'
    <3>1. drv.addr <= q /\ drv.s <= q
      BY <1>1, <1>4, <1>5 DEF PageHere
    <3>. QED  BY <1>5, <2>2, <2>4, <2>5, <3>1 DEF PagePhase, Phase, SameCall
  <2>. QED  BY <1>6, <2>2, <2>3, <2>6, <2>7, AtPage DEF Phase
<1>. QED  BY <1>7, <1>8

LEMMA PageLoopIInv ==
    ASSUME DrvrIInv, PageLoop
    PROVE  DrvrIInv'
<1>. DEFINE s2 == drv.s + SectorSize
            over == drv.p >= drv.s + SectorSize \/ drv.p >= WriteEnd
            blank == \A i \in DOMAIN PageData : PageData[i] = Erased
            ops == WriteEnable \o <<F_END, Cmd.PP>> \o AddressOf(drv.p) \o PageData \o <<F_END>> \o StartWait
<1>1. drv.pc = "page" /\ PageHere /\ OpenFrom(drv.p)
  BY DEF PageLoop, PageHere, DrvrIInv, FlashIInv, Phase, SectorPhase, PagePhase
<1>2. /\ fl' = fl /\ worn' = worn
      /\ IF over THEN drv' = [drv EXCEPT !.pc = "sector", !.s = s2]
         ELSE IF blank THEN drv' = [drv EXCEPT !.pc = "programmed"]
         ELSE drv' = [drv EXCEPT !.pc = "send", !.ops = ops, !.next = "programmed"]
  BY DEF PageLoop, SendThenWait
<1>3. /\ drv.s \in Nat /\ drv.addr \in Nat /\ WriteEnd \in Nat /\ drv.p \in Nat
      /\ SectorSize \in Nat \ {0} /\ SectorSize \in Int /\ PageSize \in Nat /\ drv.s \in Int
      /\ \A a \in InRange : a \in Nat /\ a < WriteEnd
  BY <1>1, CallFacts, FlashMultiples DEF DrvrRec, PageHere, InRange
<1>4. FlashIInv' /\ Rest(fl)' /\ worn' \subseteq FAddrs
  BY <1>1, <1>2, SameDevice DEF PageHere
<1>. HIDE DEF blank, ops
<1>5. CASE over
  <2>1. drv' = [drv EXCEPT !.pc = "sector", !.s = s2]
    BY <1>2, <1>5
  <2>2. Multiple(s2, SectorSize)
    <3>1. Multiple(SectorSize, SectorSize)
      <4>1. SectorSize = 1 * SectorSize
        BY <1>3
      <4>. SUFFICES \E k \in Int : SectorSize = k * SectorSize
        BY DEF Multiple
      <4>. WITNESS 1 \in Int
      <4>. QED  BY <4>1
    <3>. QED  BY <1>1, <1>3, <3>1, MultipleSum DEF PageHere
  <2>3. s2 \in Nat /\ SectorBase(drv.addr) <= s2
    <3>1. drv.addr \in FAddrs
      BY <1>1, <1>3, CallFacts, FlashMultiples DEF FAddrs, PageHere
    <3>2. SectorBase(drv.addr) \in Nat
      BY <3>1, SectorOfAddress
    <3>. QED  BY <1>1, <1>3, <3>2 DEF PageHere
  <2>4. DoneTo(s2)
    <3>1. \A a \in InRange : a < s2 => a < drv.p
      BY <1>3, <1>5
    <3>. QED  BY <1>1, <3>1 DEF PageHere, DoneTo
  <2>. HIDE DEF s2
  <2>5. SameCall /\ drv' \in DrvrRec /\ drv'.pc = "sector" /\ drv'.s = s2
    BY <1>1, <1>2, <2>1, <2>3 DEF SameCall, DrvrRec, PageHere
  <2>6. Call' /\ WriteEnd' = WriteEnd /\ InRange' = InRange /\ \A a : DataAt(a)' = DataAt(a)
    BY <1>1, <2>5, SameCallKeeps DEF PageHere
  <2>7. DoneTo(drv.s)'
    BY <1>2, <2>4, <2>5, <2>6 DEF DoneTo, SameCall
  <2>8. SectorPhase'
    BY <2>2, <2>3, <2>5, <2>7 DEF SectorPhase, Phase, SameCall
  <2>. QED  BY <1>4, <2>5, <2>6, <2>8, AtSector
<1>6. CASE ~over
  <2>1. drv.p < drv.s + SectorSize /\ drv.p < WriteEnd
    BY <1>3, <1>6
  <2>2. OnPage
    BY <1>1, <2>1 DEF OnPage, PageHere
  <2>3. /\ PageLen \in 1 .. PageSize /\ PageEnd = drv.p + PageLen /\ PageEnd \in Nat /\ drv.p < PageEnd
        /\ PageEnd <= WriteEnd
        /\ \A a \in drv.p .. PageEnd - 1 : a \in InRange /\ a \in SectorOf(drv.s)
    BY <2>2, PageFacts
  <2>. HIDE DEF over
  <2>4. ASSUME SameCall, drv'.s = drv.s, drv'.p = drv.p, drv' \in DrvrRec, Phase' = "programmed"
        PROVE  /\ SectorPhase' /\ PagePhase' /\ Call' /\ InRange' = InRange
               /\ \A a : DataAt(a)' = DataAt(a)
    <3>1. Call' /\ WriteEnd' = WriteEnd /\ InRange' = InRange /\ \A a : DataAt(a)' = DataAt(a)
      BY <1>1, <2>4, SameCallKeeps DEF PageHere
    <3>2. SectorPhase'
      BY <1>1, <2>4, <3>1 DEF SectorPhase, PageHere, SameCall
    <3>3. DoneTo(drv.p)'
      BY <1>1, <1>2, <2>4, <3>1 DEF DoneTo, SameCall, PageHere
    <3>4. PagePhase'
      BY <1>1, <2>1, <2>4, <3>1, <3>3 DEF PagePhase, PageHere, SameCall
    <3>. QED  BY <3>1, <3>2, <3>4
  <2>5. CASE blank
    <3>1. SameCall /\ drv' \in DrvrRec /\ drv'.pc = "programmed" /\ drv'.s = drv.s /\ drv'.p = drv.p
      BY <1>1, <1>2, <1>6, <2>5 DEF SameCall, DrvrRec, PageHere
    <3>2. SectorPhase' /\ PagePhase' /\ Call' /\ InRange' = InRange /\ \A a : DataAt(a)' = DataAt(a)
      BY <2>4, <3>1 DEF Phase
    <3>3. PageIsWritten
      <4>1. ASSUME worn = {}, NEW a \in drv.p .. PageEnd - 1 PROVE fl.mem[a] = DataAt(a)
        <5>1. a - drv.p + 1 \in 1 .. PageEnd - drv.p /\ drv.p + (a - drv.p + 1) - 1 = a /\ a \in Nat
          BY <1>3, <2>3
        <5>2. DataAt(a) = Erased
          BY <2>5, <5>1 DEF blank, PageData
        <5>3. a \in InRange /\ a >= drv.p /\ a < drv.s + SectorSize
          BY <1>3, <2>3 DEF SectorOf
        <5>. QED  BY <1>1, <4>1, <5>2, <5>3 DEF OpenFrom
      <4>2. worn = {} => OpenFrom(PageEnd)
        <5>1. \A a \in InRange : a >= PageEnd => a >= drv.p
          BY <1>3, <2>3
        <5>. QED  BY <1>1, <5>1 DEF OpenFrom
      <4>. QED  BY <4>1, <4>2 DEF PageIsWritten
    <3>4. PageEnd' = PageEnd
      BY <3>1, SameCallKeeps DEF PageEnd
    <3>5. OpenFrom(PageEnd)' = OpenFrom(PageEnd)
      BY <1>2, <3>1, <3>2, <3>4 DEF OpenFrom, SameCall
    <3>6. PageIsWritten'
      BY <1>2, <3>1, <3>2, <3>3, <3>4, <3>5 DEF PageIsWritten, SameCall
    <3>. QED  BY <1>4, <3>1, <3>2, <3>6, AtPage
  <2>6. CASE ~blank
    <3>1. PartOf(ProgramOp, 0, ProgramOps, ops)
      BY <2>2, ProgramOpsBegin DEF ops
    <3>2. /\ SameCall /\ drv' \in DrvrRec /\ drv'.pc = "send" /\ drv'.next = "programmed" /\ drv'.s = drv.s
          /\ drv'.p = drv.p /\ drv'.ops = ops
      BY ZenonT(60), <1>1, <1>2, <1>6, <2>6, <3>1 DEF SameCall, DrvrRec, PageHere, PartOf
    <3>3. SectorPhase' /\ PagePhase' /\ Call' /\ InRange' = InRange /\ \A a : DataAt(a)' = DataAt(a)
      BY <2>4, <3>2 DEF Phase
    <3>4. PageLen' = PageLen /\ ProgramOps' = ProgramOps
      BY <3>2, SameCallKeeps DEF PageEnd, PageLen, ProgramOps
    <3>5. ProgramOp' = ProgramOp
      BY <3>2, <3>3, <3>4 DEF ProgramOp
    <3>6. OpsLeft(ProgramOp, ProgramOps, 0)'
      <4>1. ProgramOps - 0 = ProgramOps
        BY <2>3 DEF ProgramOps
      <4>. QED  BY <3>1, <3>2, <3>4, <3>5, <4>1 DEF OpsLeft
    <3>7. ProgramAt(0)'
      <4>1. PageLen' \in Nat
        BY <2>3, <3>4
      <4>. DEFINE n == PageLen'
      <4>. HIDE DEF n
      <4>2. \A m \in Nat : 0 \notin 5 .. 8 + m /\ 0 \notin 8 .. 8 + m /\ 0 # 9 + m /\ 0 # 10 + m
        OBVIOUS
      <4>3. 0 \notin {3, 4} /\ 0 # 2
        OBVIOUS
      <4>4. 0 \notin 5 .. 8 + n /\ 0 \notin 8 .. 8 + n /\ 0 \notin {9 + n, 10 + n}
        BY <4>1, <4>2, Zenon DEF n
      <4>. QED  BY <1>4, <3>6, <4>3, <4>4, Zenon DEF ProgramAt, ProgramDevice, n
    <3>8. OpenFrom(drv.p)'
      BY <1>1, <1>2, <3>2, <3>3 DEF OpenFrom, SameCall
    <3>9. 0 \in (0 .. ProgramOps - 1)' /\ 0 <= 8 + PageLen' /\ ~(0 > 8 + PageLen')
      BY <2>3, <3>4 DEF ProgramOps
    <3>10. Sending'
      BY <3>2, <3>7, <3>8, <3>9 DEF Sending
    <3>. QED  BY <1>4, <3>2, <3>3, <3>10, AtSend
  <2>. QED  BY <2>5, <2>6
<1>. QED  BY <1>5, <1>6

\* A step that leaves the memory and the two loops where they are.
LEMMA SameMemory ==
    ASSUME SameCall, drv'.s = drv.s, drv'.p = drv.p, fl'.mem = fl.mem, Phase' = Phase
    PROVE  /\ Call => Call'
           /\ SectorPhase => SectorPhase'
           /\ PagePhase => PagePhase'
           /\ PageIsWritten => PageIsWritten'
           /\ OpenFrom(drv.p) => OpenFrom(drv.p)'
           /\ DoneTo(WriteEnd) => DoneTo(WriteEnd)'
           /\ PageLen' = PageLen /\ ProgramOps' = ProgramOps /\ EraseOp' = EraseOp /\ ProgramOp' = ProgramOp
           /\ InRange' = InRange /\ \A a : DataAt(a)' = DataAt(a)
<1>1. WriteEnd' = WriteEnd /\ InRange' = InRange /\ (Call => Call') /\ \A a : DataAt(a)' = DataAt(a)
  BY SameCallKeeps
<1>2. worn' = worn /\ drv'.verify = drv.verify /\ drv'.addr = drv.addr
  BY DEF SameCall
<1>3. PageEnd' = PageEnd /\ PageLen' = PageLen /\ ProgramOps' = ProgramOps
  BY <1>1 DEF PageEnd, PageLen, ProgramOps
<1>4. EraseOp' = EraseOp /\ ProgramOp' = ProgramOp
  BY <1>1, <1>3 DEF EraseOp, ProgramOp
<1>5. DoneTo(WriteEnd) => DoneTo(WriteEnd)'
  BY <1>1, <1>2 DEF DoneTo
<1>6. SectorPhase => SectorPhase'
  BY <1>1, <1>2 DEF DoneTo, SectorPhase
<1>7. OpenFrom(drv.p) => OpenFrom(drv.p)'
  BY <1>1, <1>2 DEF OpenFrom
<1>8. PageIsWritten => PageIsWritten'
  BY <1>1, <1>2, <1>3 DEF PageIsWritten, OpenFrom
<1>9. PagePhase => PagePhase'
  <2>1. DoneTo(drv.p) => DoneTo(drv.p)'
    BY <1>1, <1>2 DEF DoneTo
  <2>. QED  BY <1>1, <1>2, <1>7, <2>1 DEF PagePhase
<1>. QED  BY <1>1, <1>3, <1>4, <1>5, <1>6, <1>7, <1>8, <1>9

LEMMA FlwaitIInv ==
    ASSUME DrvrIInv, Flwait
    PROVE  DrvrIInv' /\ fl'.mem = fl.mem
<1>1. /\ drv.pc = "wait" /\ drv \in DrvrRec /\ fl \in FlashRec /\ WideReads(fl) /\ OneWrite(fl) /\ worn \subseteq FAddrs
      /\ Call /\ Waiting(fl) /\ drv.next \in {"erased", "programmed"} /\ Phase = drv.next
      /\ SectorPhase /\ (drv.next = "programmed" => PagePhase /\ PageIsWritten)
      /\ drv.next = "erased" => (worn = {} => \A a \in SectorOf(drv.s) : fl.mem[a] = Erased)
  BY DEF Flwait, DrvrIInv, FlashIInv, Phase, DrvrRec
<1>2. worn' = worn
  BY DEF Flwait
<1>3. CASE fl.out = 1
  <2>1. fl' = [Xfer(fl, F_EMPTY) EXCEPT !.count = 2] /\ drv' = drv
    BY <1>3 DEF Flwait
  <2>2. F_EMPTY \in FAddrs
    BY FlashMultiples DEF F_EMPTY, FAddrs
  <2>3. Waiting(fl') /\ fl' \in FlashRec /\ WideReads(fl') /\ OneWrite(fl') /\ fl'.mem = fl.mem
    BY <1>1, <2>1, <2>2, StatusAgain
  <2>4. FlashIInv' /\ Waiting(fl)'
    BY <2>3 DEF FlashIInv
  <2>5. SameCall /\ Phase' = Phase
    BY <1>2, <2>1 DEF SameCall, Phase
  <2>6. Call' /\ SectorPhase' /\ (drv.next = "programmed" => PagePhase' /\ PageIsWritten')
    BY <1>1, <2>1, <2>3, <2>5, SameMemory
  <2>7. drv' \in DrvrRec /\ drv'.pc = "wait" /\ Phase' = drv.next /\ drv'.next = drv.next /\ drv'.s = drv.s
    BY <1>1, <2>1, <2>5
  <2>. QED  BY <1>1, <1>2, <2>3, <2>4, <2>6, <2>7 DEF DrvrIInv
<1>4. CASE fl.out # 1
  <2>1. fl' = Deselect(fl) /\ drv' = [drv EXCEPT !.pc = drv.next]
    BY <1>4 DEF Flwait
  <2>2. Rest(fl') /\ fl'.mem = fl.mem
    BY <1>1, <1>4, <2>1, StatusEnds
  <2>3. fl' \in FlashRec /\ WideReads(fl') /\ OneWrite(fl')
    BY <1>1, <2>1, DeselectKeeps
  <2>4. FlashIInv' /\ Rest(fl)'
    BY <2>2, <2>3 DEF FlashIInv
  <2>5. drv' \in DrvrRec /\ drv'.pc = drv.next /\ drv'.s = drv.s /\ drv'.p = drv.p /\ SameCall
    BY <1>1, <1>2, <2>1 DEF DrvrRec, SameCall
  <2>6. Phase' = drv.next
    BY <1>1, <2>5 DEF Phase
  <2>7. Call' /\ SectorPhase' /\ (drv.next = "programmed" => PagePhase' /\ PageIsWritten')
    BY <1>1, <2>2, <2>5, <2>6, SameMemory
  <2>. QED  BY <1>1, <1>2, <2>2, <2>4, <2>5, <2>6, <2>7 DEF DrvrIInv
<1>. QED  BY <1>3, <1>4

\* A page on its way to the device.
LEMMA SendsPage ==
    ASSUME DrvrIInv, drv.pc \in {"send", "wait"}, drv.next = "programmed"
    PROVE  OnPage /\ PageLen \in Nat \ {0} /\ PagePhase /\ SectorPhase
<1>1. OnPage /\ PagePhase /\ SectorPhase
  BY DEF DrvrIInv, FlashIInv, Phase, SectorPhase, PagePhase, OnPage
<1>2. PageLen \in 1 .. PageSize /\ PageSize \in Nat
  BY <1>1, PageFacts, FlashMultiples
<1>. QED  BY <1>1, <1>2

LEMMA DrvrTimerIInv ==
    ASSUME DrvrIInv, DrvrTimer
    PROVE  DrvrIInv' /\ fl'.mem = fl.mem
<1>1. fl.timing /\ fl' = TimeUp(fl) /\ drv' = drv /\ worn' = worn
  BY DEF DrvrTimer, Timer
<1>2. fl \in FlashRec /\ WideReads(fl) /\ drv \in DrvrRec
  BY DEF DrvrIInv, FlashIInv
<1>3. /\ fl' \in FlashRec /\ WideReads(fl') /\ OneWrite(fl') /\ fl'.mem = fl.mem /\ fl'.state = fl.state
      /\ fl'.count = fl.count /\ fl'.out = fl.out /\ fl'.sreg = {} /\ ~fl'.timing /\ fl'.addr = fl.addr
      /\ fl'.pmem = fl.pmem
  BY <1>1, <1>2, TimeUpKeeps
<1>4. SameCall /\ Phase' = Phase
  BY <1>1 DEF SameCall, Phase
<1>5. /\ Call => Call'
      /\ SectorPhase => SectorPhase'
      /\ PagePhase => PagePhase'
      /\ PageIsWritten => PageIsWritten'
      /\ OpenFrom(drv.p) => OpenFrom(drv.p)'
      /\ DoneTo(WriteEnd) => DoneTo(WriteEnd)'
      /\ PageLen' = PageLen /\ ProgramOps' = ProgramOps /\ EraseOp' = EraseOp /\ ProgramOp' = ProgramOp
      /\ InRange' = InRange /\ \A a : DataAt(a)' = DataAt(a)
  BY <1>1, <1>3, <1>4, SameMemory
<1>6. ~Rest(fl) /\ (Waiting(fl) => Waiting(fl)') /\ (CycleBegun(fl) => CycleBegun(fl)')
  BY <1>1, <1>3 DEF Rest, Clean, Waiting, CycleBegun, Cycle
<1>7. FlashIInv'
  BY <1>3 DEF FlashIInv
<1>8. ~Command(fl, "IDLE", 0) /\ ~Command(fl, "IDLE", 1) /\ ~Clean(fl)
  BY <1>1 DEF Command, Clean
<1>9. drv.pc = "send" => Sending'
  <2>. SUFFICES ASSUME drv.pc = "send" PROVE Sending'
    OBVIOUS
  <2>0. Sending
    BY DEF DrvrIInv
  <2>1. CASE drv.next = "erased"
    <3>1. PICK k \in 0 .. EraseOps - 1 :
             /\ EraseAt(k)
             /\ k > 7 => (worn = {} => \A a \in SectorOf(drv.s) : fl.mem[a] = Erased)
      BY <2>0, <2>1 DEF Sending
    <3>2. k \in {8, 9} /\ CycleBegun(fl) /\ OpsLeft(EraseOp, EraseOps, k)
      BY <1>1, <1>6, <1>8, <3>1 DEF EraseAt, EraseDevice, EraseOps, Command
    <3>3. OpsLeft(EraseOp, EraseOps, k)'
      BY <1>1, <1>5, <3>2 DEF OpsLeft, EraseOps
    <3>4. EraseAt(k)'
      BY <1>6, <3>2, <3>3 DEF EraseAt, EraseDevice
    <3>. QED  BY <1>1, <1>3, <2>1, <3>1, <3>2, <3>4 DEF Sending
  <2>2. CASE drv.next = "programmed"
    <3>1. PICK k \in 0 .. ProgramOps - 1 : ProgramAt(k) /\ (k > 8 + PageLen => PageIsWritten)
      BY <2>0, <2>2 DEF Sending
    <3>2. PageLen \in Nat
      BY <2>2, SendsPage
    <3>. DEFINE n == PageLen
    <3>3. k \in {9 + n, 10 + n} \/ k \in {0, 1, 2, 3, 4} \/ k \in 5 .. 8 + n
      <4>. HIDE DEF n
      <4>1. k \in 0 .. 11 + n - 1 /\ n \in Nat
        BY <3>1, <3>2 DEF ProgramOps, n
      <4>. QED  BY <4>1
    <3>4. k \in {9 + n, 10 + n} /\ CycleBegun(fl) /\ OpsLeft(ProgramOp, ProgramOps, k)
      BY <1>1, <1>6, <1>8, <3>1, <3>3 DEF ProgramAt, ProgramDevice, Command
    <3>. HIDE DEF n
    <3>5. OpsLeft(ProgramOp, ProgramOps, k)'
      BY <1>1, <1>5, <3>4 DEF OpsLeft
    <3>6. /\ k \notin {0, 1} /\ k # 2 /\ k \notin {3, 4} /\ k \notin 5 .. 8 + n /\ k \notin 8 .. 8 + n
          /\ k > 8 + n /\ ~(k <= 8 + n)
      <4>1. n \in Nat
        BY <3>2 DEF n
      <4>. QED  BY <3>4, <4>1
    <3>7. ProgramAt(k)'
      BY <1>5, <1>6, <3>4, <3>5, <3>6, Zenon DEF ProgramAt, ProgramDevice, n
    <3>8. k \in (0 .. ProgramOps - 1)'
      BY <1>5, <3>1
    <3>9. PageIsWritten'
      BY <1>5, <3>1, <3>6 DEF n
    <3>10. ~(k <= 8 + PageLen')
      BY <1>5, <3>6 DEF n
    <3>. QED  BY <1>1, <2>2, <3>7, <3>8, <3>9, <3>10 DEF Sending
  <2>3. CASE drv.next = "true"
    BY <1>1, <1>6, <1>8, <2>0, <2>3 DEF Sending
  <2>. QED  BY <1>1, <2>1, <2>2, <2>3 DEF Sending
<1>. QED  BY <1>1, <1>2, <1>3, <1>4, <1>5, <1>6, <1>7, <1>9 DEF DrvrIInv

\* A byte the driver sends, as the device takes it.
LEMMA WornFields ==
    ASSUME NEW d \in FlashRec, fl \in FlashRec
    PROVE  LET e == Worn(d)
           IN  /\ e \in FlashRec /\ e.state = d.state /\ e.count = d.count /\ e.sreg = d.sreg
               /\ e.timing = d.timing /\ e.addr = d.addr /\ e.pmem = d.pmem /\ e.out = d.out
               /\ WideReads(d) => WideReads(e)
               /\ OneWrite(d) => OneWrite(e)
               /\ d.mem = fl.mem => e.mem = fl.mem
<1>. DEFINE e == Worn(d)
            m == e.mem
<1>1. e \in FlashRec /\ e = [d EXCEPT !.mem = m]
  BY WornKeeps
<1>2. d.mem = fl.mem => m = fl.mem
  <2>. SUFFICES ASSUME d.mem = fl.mem PROVE m = fl.mem
    OBVIOUS
  <2>1. m = [a \in FAddrs |-> IF a \in worn THEN fl.mem[a] ELSE d.mem[a]]
    BY DEF Worn, FlashRec
  <2>2. m = [a \in FAddrs |-> fl.mem[a]]
    BY <2>1
  <2>. QED  BY <2>2 DEF FlashRec
<1>. HIDE DEF m, e
<1>3. /\ e.state = d.state /\ e.count = d.count /\ e.sreg = d.sreg
      /\ e.timing = d.timing /\ e.addr = d.addr /\ e.pmem = d.pmem /\ e.out = d.out /\ e.mode = d.mode
      /\ e.xip = d.xip /\ e.mem = m
  BY <1>1 DEF FlashRec
<1>4. (WideReads(d) => WideReads(e)) /\ (OneWrite(d) => OneWrite(e))
  BY <1>3 DEF WideReads, OneWrite
<1>. QED  BY <1>1, <1>2, <1>3, <1>4 DEF e

\* The byte an operation writes, or the end of the transaction.
Sent(b) == fl' = IF b = F_END THEN Worn(Deselect(fl)) ELSE Xfer(fl, b)

LEMMA SentEnd ==
    ASSUME FlashIInv, Sent(F_END)
    PROVE  /\ FlashIInv'
           /\ LET d == Deselect(fl)
              IN  /\ d \in FlashRec /\ fl' = Worn(d) /\ fl'.state = d.state /\ fl'.count = d.count
                  /\ fl'.sreg = d.sreg /\ fl'.timing = d.timing /\ (d.mem = fl.mem => fl'.mem = fl.mem)
<1>. DEFINE d == Deselect(fl)
<1>1. fl' = Worn(d)
  BY DEF Sent
<1>2. d \in FlashRec /\ WideReads(d) /\ OneWrite(d) /\ fl \in FlashRec
  BY DeselectKeeps DEF FlashIInv
<1>. HIDE DEF d
<1>3. /\ fl' \in FlashRec /\ fl'.state = d.state /\ fl'.count = d.count /\ WideReads(fl') /\ OneWrite(fl')
      /\ fl'.sreg = d.sreg /\ fl'.timing = d.timing /\ (d.mem = fl.mem => fl'.mem = fl.mem)
  BY <1>1, <1>2, WornFields
<1>. QED  BY <1>1, <1>2, <1>3 DEF FlashIInv, d

LEMMA SentByte ==
    ASSUME FlashIInv, NEW b \in Nat, Sent(b), fl.count > 0 => b \in FAddrs
    PROVE  FlashIInv' /\ fl' = Xfer(fl, b) /\ fl'.mem = fl.mem
<1>1. fl' = Xfer(fl, b)
  BY DEF Sent, F_END
<1>2. fl' \in FlashRec /\ WideReads(fl') /\ OneWrite(fl') /\ fl'.mem = fl.mem
  BY <1>1, XferKeeps DEF FlashIInv
<1>. QED  BY <1>1, <1>2 DEF FlashIInv

LEMMA SentEndIdle ==
    ASSUME FlashIInv, Sent(F_END), fl.state \in {"IDLE", "RDSR"}
    PROVE  /\ FlashIInv' /\ fl'.mem = fl.mem /\ fl'.state = fl.state /\ fl'.count = 0 /\ fl'.sreg = fl.sreg
           /\ fl'.timing = fl.timing
<1>. DEFINE d == Deselect(fl)
<1>1. d.state = fl.state /\ d.count = 0 /\ d.sreg = fl.sreg /\ d.timing = fl.timing /\ d.mem = fl.mem
  BY DeselectIdle DEF FlashIInv
<1>2. /\ FlashIInv' /\ fl'.state = d.state /\ fl'.count = d.count
      /\ fl'.sreg = d.sreg /\ fl'.timing = d.timing /\ (d.mem = fl.mem => fl'.mem = fl.mem)
  BY SentEnd
<1>. QED  BY <1>1, <1>2

\* The next write of an erase.
LEMMA EraseSends ==
    ASSUME FlashIInv, NEW k \in 0 .. EraseOps - 1, EraseDevice(k), Sent(EraseOp[k + 1]),
           drv'.s = drv.s, drv.s \in FAddrs, Multiple(drv.s, SectorSize)
    PROVE  /\ FlashIInv'
           /\ k + 1 < EraseOps => EraseDevice(k + 1)'
           /\ k + 1 = EraseOps => Waiting(fl)'
           /\ k # 7 => fl'.mem = fl.mem
           /\ k = 7 => /\ \A a \in FAddrs : fl'.mem[a] # fl.mem[a] => a \in SectorOf(drv.s) /\ fl'.mem[a] = Erased
                       /\ worn = {} => \A a \in FAddrs : a \in SectorOf(drv.s) => fl'.mem[a] = Erased
<1>. DEFINE f == EraseOp
<1>0. fl \in FlashRec /\ drv.s \in Nat /\ 0 \in FAddrs
  BY FlashMultiples DEF FlashIInv, FAddrs
<1>1. /\ f[1] = F_END /\ f[2] = Cmd.WREN /\ f[3] = F_END /\ f[4] = Cmd.SECTOR_ERASE /\ f[5] = 0 /\ f[6] = 0
      /\ f[7] = drv.s /\ f[8] = F_END /\ f[9] = F_END /\ f[10] = Cmd.RDSR
  BY DEF EraseOp, EraseOps
<1>2. k \in {0, 1, 2, 3, 4, 5, 6, 7, 8, 9}
  BY DEF EraseOps
<1>3. Cmd.WREN \in Nat /\ Cmd.SECTOR_ERASE \in Nat /\ Cmd.RDSR \in Nat
  BY CmdNumbers
<1>. HIDE DEF f
<1>4. CASE k = 0
  <2>1. Sent(F_END) /\ Rest(fl)
    BY <1>1, <1>4 DEF EraseDevice, f
  <2>2. FlashIInv' /\ fl'.mem = fl.mem /\ Rest(fl)'
    BY <2>1, SentEndIdle DEF Rest, Clean
  <2>. QED  BY <1>4, <2>2 DEF EraseDevice, EraseOps
<1>5. CASE k = 1
  <2>1. Sent(Cmd.WREN) /\ Rest(fl) /\ ~(fl.count > 0)
    BY <1>1, <1>5 DEF EraseDevice, f, Rest
  <2>2. FlashIInv' /\ fl'.mem = fl.mem /\ fl' = Xfer(fl, Cmd.WREN)
    BY <1>3, <2>1, SentByte
  <2>3. Command(fl', "IDLE", 1)
    BY <1>0, <2>1, <2>2, EnableByte
  <2>4. Command(fl, "IDLE", 3 - 2)'
    BY <2>3
  <2>. QED  BY <1>5, <2>2, <2>4 DEF EraseDevice, EraseOps
<1>6. CASE k = 2
  <2>1. Sent(F_END) /\ Command(fl, "IDLE", 1)
    BY <1>1, <1>6 DEF EraseDevice, f
  <2>2. FlashIInv' /\ fl'.mem = fl.mem /\ Command(fl, "IDLE", 3 - 3)'
    BY <2>1, SentEndIdle DEF Command
  <2>. QED  BY <1>6, <2>2 DEF EraseDevice, EraseOps
<1>7. CASE k = 3
  <2>1. Sent(Cmd.SECTOR_ERASE) /\ Command(fl, "IDLE", 0) /\ ~(fl.count > 0)
    BY <1>1, <1>7 DEF EraseDevice, f, Command
  <2>2. FlashIInv' /\ fl'.mem = fl.mem /\ fl' = Xfer(fl, Cmd.SECTOR_ERASE)
    BY <1>3, <2>1, SentByte
  <2>3. Command(fl', "SECTOR_ERASE", 1)
    BY <1>0, <2>1, <2>2, WriteByte
  <2>4. Command(fl, "SECTOR_ERASE", 4 - 3)'
    BY <2>3
  <2>. QED  BY <1>7, <2>2, <2>4 DEF EraseDevice, EraseOps
<1>8. CASE k \in {4, 5, 6}
  <2>. DEFINE n == k - 3
              b == IF k = 6 THEN drv.s ELSE 0
  <2>1. Sent(b) /\ b \in Nat /\ b \in FAddrs /\ n \in 1 .. 3
    BY <1>0, <1>1, <1>8 DEF f
  <2>2. Command(fl, "SECTOR_ERASE", n)
    BY <1>8 DEF EraseDevice
  <2>. HIDE DEF b
  <2>3. FlashIInv' /\ fl'.mem = fl.mem /\ fl' = Xfer(fl, b)
    BY <2>1, SentByte
  <2>4. Command(fl', "SECTOR_ERASE", n + 1) /\ (n = 3 => fl'.addr = b)
    BY <1>0, <2>1, <2>2, <2>3, EraseByte
  <2>5. n + 1 = (k + 1) - 3
    BY <1>8
  <2>6. Command(fl, "SECTOR_ERASE", (k + 1) - 3)' /\ (k + 1 = 7 => fl'.addr = drv'.s)
    BY <1>8, <2>4, <2>5 DEF b
  <2>. HIDE DEF n
  <2>. QED  BY <1>8, <2>3, <2>6 DEF EraseDevice, EraseOps
<1>9. CASE k = 7
  <2>1. Sent(F_END) /\ Command(fl, "SECTOR_ERASE", 4) /\ fl.addr = drv.s
    BY <1>1, <1>9 DEF EraseDevice, f
  <2>2. CycleBegun(Deselect(fl))
    BY <1>0, <2>1, EraseEnds
  <2>3. FlashIInv' /\ CycleBegun(fl)' /\ fl' = Worn(Deselect(fl))
    BY <2>1, <2>2, SentEnd DEF CycleBegun, Cycle, Clean
  <2>. DEFINE e == Worn(Deselect(fl))
  <2>4. /\ \A a \in FAddrs : e.mem[a] # fl.mem[a] => a \in SectorOf(drv.s) /\ e.mem[a] = Erased
        /\ worn = {} => \A a \in FAddrs : a \in SectorOf(drv.s) => e.mem[a] = Erased
    BY <1>0, <2>1, EraseMem
  <2>. HIDE DEF e
  <2>. QED  BY <1>9, <2>3, <2>4 DEF EraseDevice, EraseOps, e
<1>10. CASE k = 8
  <2>1. Sent(F_END) /\ CycleBegun(fl)
    BY <1>1, <1>10 DEF EraseDevice, f
  <2>2. FlashIInv' /\ fl'.mem = fl.mem /\ CycleBegun(fl)'
    BY <2>1, SentEndIdle DEF CycleBegun, Cycle, Clean
  <2>. QED  BY <1>10, <2>2 DEF EraseDevice, EraseOps
<1>11. CASE k = 9
  <2>1. Sent(Cmd.RDSR) /\ CycleBegun(fl) /\ ~(fl.count > 0)
    BY <1>1, <1>11 DEF EraseDevice, f, CycleBegun
  <2>2. FlashIInv' /\ fl'.mem = fl.mem /\ fl' = Xfer(fl, Cmd.RDSR)
    BY <1>3, <2>1, SentByte
  <2>3. Waiting(fl')
    BY <1>0, <2>1, <2>2, StatusByte DEF CycleBegun
  <2>4. Waiting(fl)'
    BY <2>3
  <2>. QED  BY <1>11, <2>2, <2>4 DEF EraseOps
<1>. QED  BY <1>2, <1>4, <1>5, <1>6, <1>7, <1>8, <1>9, <1>10, <1>11

\* The parts of a program's writes do not overlap.
LEMMA OpPlaces ==
    ASSUME NEW n \in Nat \ {0}, NEW j \in Nat
    PROVE  /\ j \in {0, 1} => j # 2 /\ j \notin {3, 4} /\ j \notin 5 .. 8 + n /\ j \notin 8 .. 8 + n /\ j \notin {9 + n, 10 + n}
           /\ j = 2 => j \notin {0, 1} /\ j \notin {3, 4} /\ j \notin 5 .. 8 + n /\ j \notin 8 .. 8 + n /\ j \notin {9 + n, 10 + n}
           /\ j \in {3, 4} => j \notin {0, 1} /\ j # 2 /\ j \notin 5 .. 8 + n /\ j \notin 8 .. 8 + n /\ j \notin {9 + n, 10 + n}
           /\ j \in 5 .. 8 + n => j \notin {0, 1} /\ j # 2 /\ j \notin {3, 4} /\ j \notin {9 + n, 10 + n}
           /\ j \in 5 .. 7 => j \in 5 .. 8 + n /\ j \notin 8 .. 8 + n
           /\ j \in 8 .. 8 + n => j \in 5 .. 8 + n
           /\ j \in {9 + n, 10 + n} => j \notin {0, 1} /\ j # 2 /\ j \notin {3, 4} /\ j \notin 5 .. 8 + n /\ j \notin 8 .. 8 + n
           /\ j < 11 + n => j \in {0, 1} \/ j = 2 \/ j \in {3, 4} \/ j \in 5 .. 7 \/ j \in 8 .. 8 + n \/ j \in {9 + n, 10 + n}
OBVIOUS

LEMMA LastOps ==
    ASSUME PageLen \in Nat \ {0}
    PROVE  /\ ProgramOp[9 + PageLen] = F_END /\ ProgramOp[10 + PageLen] = F_END
           /\ ProgramOp[11 + PageLen] = Cmd.RDSR
<1>. DEFINE n == PageLen
<1>1. ASSUME NEW j \in {9 + n, 10 + n} PROVE ProgramOp[j] = F_END
  <2>1. j \in 1 .. 11 + n /\ j \in {1, 3, 4, 9 + n, 10 + n}
    BY <1>1
  <2>2. j # 2 /\ j # 5 /\ j \notin {6, 7} /\ j # 8 /\ j \notin 9 .. 8 + n
    <3>. HIDE DEF n
    <3>1. n \in Nat \ {0}
      BY DEF n
    <3>. QED  BY <1>1, <3>1
  <2>. QED  BY <2>1, <2>2, Zenon DEF ProgramOp, ProgramOps
<1>2. ASSUME NEW j, j = 11 + n PROVE ProgramOp[j] = Cmd.RDSR
  <2>1. /\ j \in 1 .. 11 + n /\ j \notin {1, 3, 4, 9 + n, 10 + n}
        /\ j # 2 /\ j # 5 /\ j \notin {6, 7} /\ j # 8 /\ j \notin 9 .. 8 + n
    <3>. HIDE DEF n
    <3>1. n \in Nat \ {0}
      BY DEF n
    <3>. QED  BY <1>2, <3>1
  <2>. QED  BY <2>1 DEF ProgramOp, ProgramOps
<1>. QED  BY <1>1, <1>2

LEMMA CycleDevice ==
    ASSUME NEW n, NEW j, PageLen' = n, CycleBegun(fl)', j \notin {0, 1}, j # 2, j \notin {3, 4},
           j \notin 5 .. 8 + n, j \notin 8 .. 8 + n
    PROVE  ProgramDevice(j)'
BY Zenon DEF ProgramDevice

\* The next write of a page.
LEMMA ProgramSends ==
    ASSUME OnPage, FlashIInv, NEW k \in 0 .. ProgramOps - 1, ProgramDevice(k), Sent(ProgramOp[k + 1]),
           SameCall, drv'.p = drv.p
    PROVE  /\ FlashIInv'
           /\ k + 1 < ProgramOps => ProgramDevice(k + 1)'
           /\ k + 1 = ProgramOps => Waiting(fl)'
           /\ k # 8 + PageLen => fl'.mem = fl.mem
           /\ k = 8 + PageLen =>
                 /\ \A a \in FAddrs : fl'.mem[a] # fl.mem[a] =>
                        a \in drv.p .. PageEnd - 1 /\ DataAt(a) = 0 /\ fl'.mem[a] = 0
                 /\ worn = {} => \A a \in drv.p .. PageEnd - 1 : fl'.mem[a] = fl.mem[a] * DataAt(a)
<1>. DEFINE f == ProgramOp
            n == PageLen
<1>0. fl \in FlashRec /\ drv.p \in FAddrs /\ drv.p \in Nat /\ 0 \in FAddrs /\ n \in Nat \ {0} /\ n \in Nat
  BY PageFacts, FlashMultiples DEF FlashIInv, FAddrs
<1>1. k \in Nat /\ k < 11 + n /\ k + 1 \in Nat
  BY <1>0 DEF ProgramOps
<1>2. PageLen' = n /\ ProgramOps = 11 + n
  BY SameCallKeeps DEF PageEnd, PageLen, ProgramOps
<1>3. \A a : DataAt(a)' = DataAt(a)
  BY SameCallKeeps
<1>4. Cmd.WREN \in Nat /\ Cmd.PP \in Nat /\ Cmd.RDSR \in Nat
  BY CmdNumbers
<1>. HIDE DEF n
<1>5. /\ f[1] = F_END /\ f[2] = Cmd.WREN /\ f[3] = F_END /\ f[4] = F_END /\ f[5] = Cmd.PP /\ f[6] = 0
      /\ f[7] = 0 /\ f[8] = drv.p
  BY <1>0 DEF ProgramOp, ProgramOps, n
<1>6. f[9 + n] = F_END /\ f[10 + n] = F_END /\ f[11 + n] = Cmd.RDSR
  BY <1>0, LastOps DEF n
<1>7. \A j \in 9 .. 8 + n : f[j] = DataAt(drv.p + j - 9)
  <2>. SUFFICES ASSUME NEW j \in 9 .. 8 + n PROVE f[j] = DataAt(drv.p + j - 9)
    OBVIOUS
  <2>1. /\ j \in 1 .. 11 + n /\ j \notin {1, 3, 4, 9 + n, 10 + n} /\ j # 2 /\ j # 5
        /\ j \notin {6, 7} /\ j # 8 /\ j \in 9 .. 8 + n
    BY <1>0
  <2>. QED  BY <2>1 DEF ProgramOp, ProgramOps, n
<1>. HIDE DEF f
<1>8. CASE k = 0
  <2>1. Sent(F_END) /\ Rest(fl)
    BY <1>5, <1>8 DEF ProgramDevice, f
  <2>2. FlashIInv' /\ fl'.mem = fl.mem /\ Rest(fl)'
    BY <2>1, SentEndIdle DEF Rest, Clean
  <2>3. ProgramDevice(1)'
    BY <1>0, <1>2, <2>2, OpPlaces DEF ProgramDevice
  <2>4. 0 + 1 = 1 /\ 0 + 1 # 11 + n /\ 0 # 8 + n
    BY <1>0
  <2>. QED  BY <1>2, <1>8, <2>2, <2>3, <2>4 DEF n
<1>9. CASE k = 1
  <2>1. Sent(Cmd.WREN) /\ Rest(fl) /\ ~(fl.count > 0)
    BY <1>5, <1>9 DEF ProgramDevice, f, Rest
  <2>2. FlashIInv' /\ fl'.mem = fl.mem /\ fl' = Xfer(fl, Cmd.WREN)
    BY <1>4, <2>1, SentByte
  <2>3. Command(fl', "IDLE", 1)
    BY <1>0, <2>1, <2>2, EnableByte
  <2>4. Command(fl, "IDLE", 1)'
    BY <2>3
  <2>5. ProgramDevice(2)'
    BY <1>0, <1>2, <2>4, OpPlaces DEF ProgramDevice
  <2>6. 1 + 1 = 2 /\ 1 + 1 # 11 + n /\ 1 # 8 + n
    BY <1>0
  <2>. QED  BY <1>2, <1>9, <2>2, <2>5, <2>6 DEF n
<1>10. CASE k \in {2, 3}
  <2>1. Sent(F_END) /\ Command(fl, "IDLE", 3 - k)
    <3>1. Sent(F_END)
      BY <1>5, <1>10 DEF f
    <3>2. Command(fl, "IDLE", 1) \/ Command(fl, "IDLE", 0)
      BY <1>10 DEF ProgramDevice
    <3>. QED  BY <1>10, <3>1, <3>2 DEF ProgramDevice
  <2>2. FlashIInv' /\ fl'.mem = fl.mem /\ Command(fl, "IDLE", 0)'
    BY <2>1, SentEndIdle DEF Command
  <2>3. k + 1 \in {3, 4} /\ k + 1 # 11 + n /\ k # 8 + n
    BY <1>0, <1>10
  <2>4. ProgramDevice(k + 1)'
    <3>. DEFINE j == k + 1
    <3>1. j \in {3, 4} /\ j \in Nat
      BY <1>1, <2>3
    <3>. HIDE DEF j
    <3>2. ProgramDevice(j)'
      BY <1>0, <1>2, <2>2, <3>1, OpPlaces DEF ProgramDevice
    <3>. QED  BY <3>2 DEF j
  <2>. QED  BY <1>2, <2>2, <2>3, <2>4 DEF n
<1>11. CASE k = 4
  <2>1. Sent(Cmd.PP) /\ Command(fl, "IDLE", 0) /\ ~(fl.count > 0)
    BY <1>5, <1>11 DEF ProgramDevice, f, Command
  <2>2. FlashIInv' /\ fl'.mem = fl.mem /\ fl' = Xfer(fl, Cmd.PP)
    BY <1>4, <2>1, SentByte
  <2>3. Command(fl', "PP", 1)
    BY <1>0, <2>1, <2>2, WriteByte
  <2>4. Command(fl, "PP", 5 - 4)'
    BY <2>3
  <2>5. ProgramDevice(5)'
    BY <1>0, <1>2, <2>4, OpPlaces DEF ProgramDevice
  <2>6. 4 + 1 = 5 /\ 4 + 1 # 11 + n /\ 4 # 8 + n
    BY <1>0
  <2>. QED  BY <1>2, <1>11, <2>2, <2>5, <2>6 DEF n
<1>12. CASE k \in {5, 6}
  <2>1. k \in 5 .. 7 /\ k + 1 \in 5 .. 7 /\ k + 1 # 11 + n /\ k # 8 + n /\ k - 4 \in Nat \ {0} /\ k - 4 < 3
        /\ (k - 4) + 1 = (k + 1) - 4
    BY <1>0, <1>12
  <2>2. Sent(0) /\ Command(fl, "PP", k - 4)
    BY <1>0, <1>1, <1>5, <1>12, <2>1, OpPlaces DEF ProgramDevice, f, n
  <2>. DEFINE z == 0
  <2>3. z \in Nat /\ z \in FAddrs /\ Sent(z)
    BY <1>0, <2>2
  <2>. HIDE DEF z
  <2>4. FlashIInv' /\ fl'.mem = fl.mem /\ fl' = Xfer(fl, z)
    BY <2>3, SentByte
  <2>5. Command(fl', "PP", (k - 4) + 1)
    BY <1>0, <2>1, <2>2, <2>4, PageByte
  <2>6. Command(fl, "PP", (k + 1) - 4)'
    BY <2>1, <2>5
  <2>7. ProgramDevice(k + 1)'
    <3>. DEFINE j == k + 1
    <3>1. j \in 5 .. 7 /\ j \in Nat /\ Command(fl, "PP", j - 4)'
      BY <1>1, <2>1, <2>6
    <3>. HIDE DEF j
    <3>2. ProgramDevice(j)'
      BY <1>0, <1>2, <3>1, OpPlaces DEF ProgramDevice
    <3>. QED  BY <3>2 DEF j
  <2>. QED  BY <1>2, <2>1, <2>4, <2>7 DEF n
<1>13. CASE k = 7
  <2>1. Sent(drv.p) /\ Command(fl, "PP", 3)
    <3>1. 7 \in 5 .. 7 /\ 7 - 4 = 3
      OBVIOUS
    <3>. QED  BY <1>0, <1>5, <1>13, <3>1, OpPlaces DEF ProgramDevice, f, n
  <2>2. FlashIInv' /\ fl'.mem = fl.mem /\ fl' = Xfer(fl, drv.p)
    BY <1>0, <2>1, SentByte
  <2>3. Command(fl', "PP", 3 + 1) /\ fl'.addr = drv.p /\ fl'.pmem = Blank
    <3>. DEFINE m == 3
    <3>1. m \in Nat \ {0} /\ m = 3
      OBVIOUS
    <3>. HIDE DEF m
    <3>2. Command(fl, "PP", m)
      BY <2>1, <3>1
    <3>3. /\ Command(fl', "PP", m + 1)
          /\ m = 3 => fl'.addr = drv.p /\ fl'.pmem = Blank
      BY <1>0, <2>2, <3>1, <3>2, PageByte
    <3>. QED  BY <3>1, <3>3
  <2>4. Loaded(fl.pmem, 0)'
    <3>1. \A x \in 0 .. PageSize - 1 : fl'.pmem[x] = Erased
      BY <2>3 DEF Blank
    <3>2. (drv.p % PageSize) + 0 - 1 < drv.p % PageSize /\ drv.p % PageSize \in Int
      <4>1. drv.p % PageSize \in Int
        BY <1>0, PageOfAddress
      <4>. DEFINE r == drv.p % PageSize
      <4>. HIDE DEF r
      <4>2. r \in Int => r + 0 - 1 < r
        OBVIOUS
      <4>. QED  BY <4>1, <4>2 DEF r
    <3>. DEFINE r == drv.p % PageSize
    <3>3. r \in Int /\ drv'.p % PageSize = r
      BY <3>2
    <3>. HIDE DEF r
    <3>4. \A x : x \notin r .. r + 0 - 1
      BY <3>3
    <3>. DEFINE pm == fl'.pmem
                dp == drv'.p
    <3>5. (\A x \in 0 .. PageSize - 1 : pm[x] = Erased) /\ dp % PageSize = r
      BY <3>1, <3>3
    <3>. HIDE DEF pm, dp
    <3>6. \A x \in 0 .. PageSize - 1 :
             pm[x] = Erased /\ x \notin dp % PageSize .. (dp % PageSize) + 0 - 1
      BY <3>4, <3>5, Zenon
    <3>. QED  BY <3>6, Zenon DEF Loaded, pm, dp
  <2>5. ProgramDevice(8)'
    <3>1. Command(fl, "PP", 8 - 4)' /\ Loaded(fl.pmem, 8 - 8)' /\ fl'.addr = drv'.p + 8 - 8
      BY <1>0, <2>3, <2>4
    <3>2. 8 \in 8 .. 8 + n
      BY <1>0
    <3>3. (PageBase(fl.addr) = PageBase(drv.p))'
      BY <2>3
    <3>. QED  BY <1>0, <1>2, <3>1, <3>2, <3>3, OpPlaces DEF ProgramDevice
  <2>6. 7 + 1 = 8 /\ 7 + 1 # 11 + n /\ 7 # 8 + n
    BY <1>0
  <2>. QED  BY <1>2, <1>13, <2>2, <2>5, <2>6 DEF n
<1>14. CASE k \in 8 .. 7 + n
  <2>. DEFINE i == k - 8
              v == DataAt(drv.p + i)
              m == k - 4
              j == k + 1
  <2>1. /\ i \in 0 .. n - 1 /\ k \in 8 .. 8 + n /\ k + 1 \in 9 .. 8 + n /\ m \in Nat \ {0} /\ m > 3
        /\ drv.p + (k + 1) - 9 = drv.p + i /\ drv.p + k - 8 = drv.p + i /\ k < 8 + n
        /\ j \in 8 .. 8 + n /\ j \in Nat /\ j - 4 = m + 1 /\ j - 8 = i + 1 /\ j # 11 + n /\ k # 8 + n
        /\ (j < 8 + n <=> i + 1 < n) /\ drv.p + j - 8 = drv.p + i + 1
    BY <1>0, <1>14
  <2>2. Sent(v)
    BY <1>7, <2>1 DEF f
  <2>3. Command(fl, "PP", m) /\ Loaded(fl.pmem, i) /\ fl.addr = drv.p + i
    BY <1>0, <1>1, <2>1, OpPlaces DEF ProgramDevice, n
  <2>4. v \in Nat /\ v \in FAddrs
    <3>. DEFINE a == drv.p + i
    <3>1. a \in drv.p .. PageEnd - 1
      BY <1>0, <2>1, PageFacts DEF n
    <3>. HIDE DEF a
    <3>2. a \in InRange
      BY <3>1, PageFacts
    <3>3. DataAt(a) \in Bits
      BY <3>2, CallFacts DEF OnPage
    <3>4. DataAt(a) \in Nat /\ DataAt(a) \in FAddrs
      BY <3>3, FlashMultiples DEF Bits, FAddrs
    <3>. QED  BY <3>4 DEF a
  <2>. HIDE DEF i, v, m
  <2>5. FlashIInv' /\ fl'.mem = fl.mem /\ fl' = Xfer(fl, v)
    BY <2>2, <2>4, SentByte
  <2>6. /\ Command(fl', "PP", m + 1) /\ fl'.addr = NextInPage(fl.addr)
        /\ fl'.pmem = Filled(fl, v)
    BY <1>0, <2>1, <2>3, <2>5, PageByte
  <2>7. /\ Loaded(fl'.pmem, i + 1) /\ PageBase(fl'.addr) = PageBase(drv.p)
        /\ i + 1 < n => fl'.addr = drv.p + i + 1
    <3>1. i \in 0 .. PageLen - 1 /\ v = DataAt(drv.p + i)
      BY <2>1 DEF v, n
    <3>2. /\ Loaded(Filled(fl, v), i + 1)
          /\ PageBase(NextInPage(fl.addr)) = PageBase(drv.p)
          /\ i + 1 < PageLen => NextInPage(fl.addr) = drv.p + i + 1
      BY <2>3, <3>1, LoadByte
    <3>. QED  BY <2>6, <3>2 DEF n
  <2>8. Loaded(fl.pmem, i + 1)'
    BY <1>3, <2>7 DEF Loaded
  <2>. HIDE DEF j
  <2>9. ProgramDevice(j)'
    <3>1. Command(fl, "PP", j - 4)' /\ Loaded(fl.pmem, j - 8)'
      BY <2>1, <2>6, <2>8
    <3>2. (PageBase(fl.addr) = PageBase(drv.p))' /\ (j < 8 + n => fl'.addr = drv'.p + j - 8)
      BY <2>1, <2>7
    <3>. QED  BY <1>0, <1>2, <2>1, <3>1, <3>2, OpPlaces DEF ProgramDevice
  <2>. QED  BY <1>2, <2>1, <2>5, <2>9 DEF j, n
<1>15. CASE k = 8 + n
  <2>1. k + 1 = 9 + n /\ k \in 8 .. 8 + n /\ k - 8 = n /\ k - 4 \in Nat /\ k + 1 # 11 + n /\ 9 + n \in Nat
    BY <1>0, <1>15
  <2>2. Sent(F_END)
    BY <1>6, <2>1 DEF f
  <2>3. Command(fl, "PP", k - 4) /\ Loaded(fl.pmem, PageLen) /\ PageBase(fl.addr) = PageBase(drv.p)
    BY <1>0, <1>1, <2>1, OpPlaces DEF ProgramDevice, n
  <2>4. CycleBegun(Deselect(fl))
    BY <1>0, <2>1, <2>3, ProgramEnds
  <2>5. FlashIInv' /\ CycleBegun(fl)' /\ fl' = Worn(Deselect(fl))
    BY <2>2, <2>4, SentEnd DEF CycleBegun, Cycle, Clean
  <2>. DEFINE e == Worn(Deselect(fl))
  <2>6. /\ \A a \in FAddrs : e.mem[a] # fl.mem[a] =>
                        a \in drv.p .. PageEnd - 1 /\ DataAt(a) = 0 /\ e.mem[a] = 0
        /\ worn = {} => \A a \in drv.p .. PageEnd - 1 : e.mem[a] = fl.mem[a] * DataAt(a)
    BY <2>1, <2>3, ProgramMem
  <2>. HIDE DEF e
  <2>. DEFINE j == k + 1
  <2>7. j \in Nat /\ j \in {9 + n, 10 + n}
    BY <2>1
  <2>. HIDE DEF j
  <2>8. ProgramDevice(j)'
    <3>1. j \notin {0, 1} /\ j # 2 /\ j \notin {3, 4} /\ j \notin 5 .. 8 + n /\ j \notin 8 .. 8 + n
      BY <1>0, <2>7, OpPlaces
    <3>2. CycleBegun(fl)'
      BY <2>5
    <3>. QED  BY <1>2, <3>1, <3>2, CycleDevice
  <2>. QED  BY <1>2, <1>15, <2>1, <2>5, <2>6, <2>8 DEF e, j, n
<1>16. CASE k = 9 + n
  <2>1. k + 1 = 10 + n /\ k \in {9 + n, 10 + n} /\ k + 1 # 11 + n /\ 10 + n \in Nat /\ k # 8 + n
    BY <1>0, <1>16
  <2>2. Sent(F_END) /\ CycleBegun(fl)
    BY <1>6, <2>1 DEF f, ProgramDevice, n
  <2>3. FlashIInv' /\ fl'.mem = fl.mem /\ CycleBegun(fl)'
    BY <2>2, SentEndIdle DEF CycleBegun, Cycle, Clean
  <2>. DEFINE j == k + 1
  <2>4. j \in Nat /\ j \in {9 + n, 10 + n}
    BY <2>1
  <2>. HIDE DEF j
  <2>5. ProgramDevice(j)'
    <3>1. j \notin {0, 1} /\ j # 2 /\ j \notin {3, 4} /\ j \notin 5 .. 8 + n /\ j \notin 8 .. 8 + n
      BY <1>0, <2>4, OpPlaces
    <3>2. CycleBegun(fl)'
      BY <2>3
    <3>. QED  BY <1>2, <3>1, <3>2, CycleDevice
  <2>. QED  BY <1>2, <2>1, <2>3, <2>5 DEF j, n
<1>17. CASE k = 10 + n
  <2>1. k + 1 = 11 + n /\ k \in {9 + n, 10 + n} /\ ~(k + 1 < 11 + n) /\ k # 8 + n
    BY <1>0, <1>17
  <2>2. Sent(Cmd.RDSR) /\ CycleBegun(fl) /\ ~(fl.count > 0)
    BY <1>6, <2>1 DEF f, ProgramDevice, n, CycleBegun
  <2>3. FlashIInv' /\ fl'.mem = fl.mem /\ fl' = Xfer(fl, Cmd.RDSR)
    BY <1>4, <2>2, SentByte
  <2>4. Waiting(fl')
    BY <1>0, <2>2, <2>3, StatusByte DEF CycleBegun
  <2>5. Waiting(fl)'
    BY <2>4
  <2>. QED  BY <1>2, <2>1, <2>3, <2>5 DEF n
<1>18. \/ k = 0 \/ k = 1 \/ k \in {2, 3} \/ k = 4 \/ k \in {5, 6} \/ k = 7 \/ k \in 8 .. 7 + n
       \/ k = 8 + n \/ k = 9 + n \/ k = 10 + n
  BY <1>0, <1>1
<1>. QED  BY <1>8, <1>9, <1>10, <1>11, <1>12, <1>13, <1>14, <1>15, <1>16, <1>17, <1>18

\* What one write to the port may do to the memory: an erase the data asks for,
\* or bits cleared where the data clears them.
EraseChanges ==
    /\ \E a \in InRange \cap SectorOf(drv.s) : fl.mem[a] = 0 /\ DataAt(a) = Erased
    /\ \A b \in FAddrs : fl'.mem[b] # fl.mem[b] => b \in SectorOf(drv.s) /\ fl'.mem[b] = Erased
ProgramChanges ==
    \A b \in FAddrs : fl'.mem[b] # fl.mem[b] => b \in InRange /\ DataAt(b) = 0 /\ fl'.mem[b] = 0

LEMMA AtWait ==
    ASSUME FlashIInv', drv' \in DrvrRec, worn' \subseteq FAddrs, Call', drv'.pc = "wait", Waiting(fl)', SectorPhase',
           \/ drv'.next = "erased" /\ (worn' = {} => \A a \in SectorOf(drv'.s) : fl'.mem[a] = Erased)
           \/ drv'.next = "programmed" /\ PagePhase' /\ PageIsWritten'
    PROVE  DrvrIInv'
<1>1. Phase' = drv'.next
  BY DEF Phase
<1>2. SectorOf(drv.s)' = SectorOf(drv'.s)
  BY DEF SectorOf
<1>. QED  BY <1>1, <1>2 DEF DrvrIInv

\* The driver after the write: one operation fewer, or waiting.
LEMMA OpTaken ==
    ASSUME SendOp, drv \in DrvrRec, drv.next # "true", NEW all, NEW n \in Nat, NEW k \in 0 .. n - 1, OpsLeft(all, n, k)
    PROVE  /\ Sent(all[k + 1]) /\ SameCall /\ drv' \in DrvrRec /\ drv'.next = drv.next
           /\ drv'.s = drv.s /\ drv'.p = drv.p
           /\ k + 1 < n => drv'.pc = "send" /\ PartOf(all, k + 1, n - (k + 1), drv'.ops)
           /\ k + 1 = n => drv'.pc = "wait"
           /\ drv.pc = "send" /\ drv'.pc \in {"send", "wait"} /\ worn' = worn
<1>1. /\ Head(drv.ops) = all[k + 1]
      /\ Len(drv.ops) > 1 <=> k + 1 < n
      /\ k + 1 < n => PartOf(all, k + 1, n - (k + 1), Tail(drv.ops))
  BY NextOp
<1>2. Sent(all[k + 1]) /\ worn' = worn /\ drv.pc = "send"
  BY <1>1 DEF SendOp, Sent
<1>3. CASE k + 1 < n
  <2>1. drv' = [drv EXCEPT !.ops = Tail(drv.ops)]
    BY <1>1, <1>3 DEF SendOp
  <2>2. Tail(drv.ops) \in Seq(Int)
    BY <1>1, <1>3 DEF PartOf
  <2>3. /\ SameCall /\ drv' \in DrvrRec /\ drv'.next = drv.next /\ drv'.s = drv.s /\ drv'.p = drv.p
        /\ drv'.pc = "send" /\ drv'.ops = Tail(drv.ops)
    BY <1>2, <2>1, <2>2 DEF DrvrRec, SameCall
  <2>4. k + 1 # n
    BY <1>3
  <2>. QED  BY <1>1, <1>2, <1>3, <2>3, <2>4
<1>4. CASE ~(k + 1 < n)
  <2>. DEFINE o == <<>>
  <2>0. o \in Seq(Int)
    OBVIOUS
  <2>1. drv' = [drv EXCEPT !.ops = o, !.pc = "wait"]
    BY <1>1, <1>4 DEF SendOp
  <2>. HIDE DEF o
  <2>2. /\ SameCall /\ drv' \in DrvrRec /\ drv'.next = drv.next /\ drv'.s = drv.s /\ drv'.p = drv.p
        /\ drv'.pc = "wait"
    BY <1>2, <2>0, <2>1 DEF DrvrRec, SameCall
  <2>. QED  BY <1>2, <1>4, <2>2
<1>. QED  BY <1>3, <1>4

LEMMA SendEraseIInv ==
    ASSUME DrvrIInv, SendOp, drv.next = "erased"
    PROVE  DrvrIInv' /\ (fl'.mem = fl.mem \/ EraseChanges)
<1>1. /\ drv.pc = "send" /\ drv \in DrvrRec /\ FlashIInv /\ fl \in FlashRec /\ worn \subseteq FAddrs /\ Call
      /\ Phase = "erased" /\ SectorPhase /\ Sending
  BY DEF SendOp, DrvrIInv, FlashIInv, Phase
<1>2. Multiple(drv.s, SectorSize) /\ SectorBase(drv.addr) <= drv.s /\ drv.s < WriteEnd /\ DoneTo(drv.s)
  BY <1>1 DEF SectorPhase
<1>3. PICK k \in 0 .. EraseOps - 1 :
         /\ EraseAt(k)
         /\ k <= 7 => \E a \in InRange \cap SectorOf(drv.s) : fl.mem[a] = 0 /\ DataAt(a) = Erased
         /\ k > 7 => (worn = {} => \A a \in SectorOf(drv.s) : fl.mem[a] = Erased)
  BY <1>1 DEF Sending
<1>4. OpsLeft(EraseOp, EraseOps, k) /\ EraseDevice(k) /\ EraseOps \in Nat
  BY <1>3 DEF EraseAt, EraseOps
<1>5. /\ Sent(EraseOp[k + 1]) /\ SameCall /\ drv' \in DrvrRec /\ drv'.next = drv.next
      /\ drv'.s = drv.s /\ drv'.p = drv.p
      /\ k + 1 < EraseOps => drv'.pc = "send" /\ PartOf(EraseOp, k + 1, EraseOps - (k + 1), drv'.ops)
      /\ k + 1 = EraseOps => drv'.pc = "wait"
      /\ drv'.pc \in {"send", "wait"} /\ worn' = worn
  BY <1>1, <1>4, OpTaken
<1>6. Call' /\ InRange' = InRange /\ WriteEnd' = WriteEnd /\ \A a : DataAt(a)' = DataAt(a)
  BY <1>1, <1>5, SameCallKeeps
<1>7. /\ drv.s \in Nat /\ drv.s + SectorSize <= FlashSize /\ SectorSize \in Nat \ {0} /\ FlashSize \in Nat
      /\ \A a \in SectorOf(drv.s) : a \in FAddrs
      /\ \A a \in InRange : a \in FAddrs /\ a \in Nat
  BY <1>1, <1>2, SectorFacts, CallFacts, FlashMultiples
<1>8. drv.s \in FAddrs
  BY <1>7 DEF FAddrs
<1>9. /\ FlashIInv'
      /\ k + 1 < EraseOps => EraseDevice(k + 1)'
      /\ k + 1 = EraseOps => Waiting(fl)'
      /\ k # 7 => fl'.mem = fl.mem
      /\ k = 7 => /\ \A a \in FAddrs : fl'.mem[a] # fl.mem[a] => a \in SectorOf(drv.s) /\ fl'.mem[a] = Erased
                  /\ worn = {} => \A a \in FAddrs : a \in SectorOf(drv.s) => fl'.mem[a] = Erased
  BY <1>1, <1>2, <1>4, <1>5, <1>8, EraseSends
<1>10. \A a \in FAddrs : fl'.mem[a] # fl.mem[a] => a \in SectorOf(drv.s) /\ fl'.mem[a] = Erased
  BY <1>9
<1>11. k >= 7 => (worn = {} => \A a \in SectorOf(drv.s) : fl'.mem[a] = Erased)
  <2>1. CASE k = 7
    BY <1>7, <1>9, <2>1
  <2>2. CASE k # 7
    <3>1. k >= 7 => k > 7
      BY <2>2
    <3>. QED  BY <1>3, <1>9, <2>2, <3>1
  <2>. QED  BY <2>1, <2>2
<1>12. fl'.mem = fl.mem \/ EraseChanges
  <2>1. k = 7 => k <= 7
    OBVIOUS
  <2>. QED  BY <1>3, <1>9, <1>10, <2>1 DEF EraseChanges
<1>13. Phase' = "erased"
  BY <1>5, Zenon DEF Phase
<1>14. DoneTo(drv.s)'
  <2>1. \A a \in InRange : a < drv.s => fl'.mem[a] = fl.mem[a]
    <3>. SUFFICES ASSUME NEW a \in InRange, a < drv.s PROVE fl'.mem[a] = fl.mem[a]
      OBVIOUS
    <3>1. a \notin SectorOf(drv.s)
      BY <1>7 DEF SectorOf
    <3>. QED  BY <1>7, <1>10, <3>1
  <2>. QED  BY <1>2, <1>5, <1>6, <2>1 DEF DoneTo, SameCall
<1>15. SectorPhase'
  BY <1>2, <1>5, <1>6, <1>13, <1>14 DEF SectorPhase, SameCall
<1>16. worn' \subseteq FAddrs
  BY <1>1, <1>5
<1>17. CASE k + 1 < EraseOps
  <2>1. EraseOp' = EraseOp
    BY <1>5 DEF EraseOp
  <2>2. EraseAt(k + 1)'
    <3>1. OpsLeft(EraseOp, EraseOps, k + 1)'
      BY <1>5, <1>17, <2>1 DEF OpsLeft, EraseOps
    <3>. QED  BY <1>9, <1>17, <3>1 DEF EraseAt
  <2>3. k + 1 <= 7 => (\E a \in InRange \cap SectorOf(drv.s) : fl.mem[a] = 0 /\ DataAt(a) = Erased)'
    <3>1. k + 1 <= 7 => k <= 7 /\ k # 7
      OBVIOUS
    <3>2. SectorOf(drv.s)' = SectorOf(drv.s)
      BY <1>5 DEF SectorOf
    <3>. QED  BY <1>3, <1>6, <1>9, <3>1, <3>2
  <2>4. k + 1 > 7 => (worn = {} => \A a \in SectorOf(drv.s) : fl.mem[a] = Erased)'
    <3>1. k + 1 > 7 => k >= 7
      OBVIOUS
    <3>2. SectorOf(drv.s)' = SectorOf(drv.s)
      BY <1>5 DEF SectorOf
    <3>. QED  BY <1>5, <1>11, <3>1, <3>2
  <2>5. k + 1 \in (0 .. EraseOps - 1)'
    BY <1>17 DEF EraseOps
  <2>6. Sending'
    <3>1. drv'.next = "erased"
      BY <1>5
    <3>2. (\E m \in 0 .. EraseOps - 1 :
             /\ EraseAt(m)
             /\ m <= 7 => \E a \in InRange \cap SectorOf(drv.s) : fl.mem[a] = 0 /\ DataAt(a) = Erased
             /\ m > 7 => (worn = {} => \A a \in SectorOf(drv.s) : fl.mem[a] = Erased))'
      BY <2>2, <2>3, <2>4, <2>5
    <3>. QED  BY <3>1, <3>2 DEF Sending
  <2>7. drv'.pc = "send" /\ drv'.next = "erased"
    BY <1>5, <1>17
  <2>. QED  BY <1>5, <1>6, <1>9, <1>12, <1>15, <1>16, <2>6, <2>7, AtSend
<1>18. CASE k + 1 = EraseOps
  <2>1. k >= 7
    BY <1>18 DEF EraseOps
  <2>2. worn' = {} => \A a \in SectorOf(drv'.s) : fl'.mem[a] = Erased
    BY <1>5, <1>11, <2>1
  <2>3. drv'.pc = "wait" /\ drv'.next = "erased" /\ Waiting(fl)'
    BY <1>5, <1>9, <1>18
  <2>. QED  BY <1>5, <1>6, <1>9, <1>12, <1>15, <1>16, <2>2, <2>3, AtWait
<1>. QED  BY <1>4, <1>17, <1>18

LEMMA SendProgramIInv ==
    ASSUME DrvrIInv, SendOp, drv.next = "programmed"
    PROVE  DrvrIInv' /\ ProgramChanges
<1>1. /\ drv.pc = "send" /\ drv \in DrvrRec /\ FlashIInv /\ fl \in FlashRec /\ worn \subseteq FAddrs /\ Call
      /\ Phase = "programmed" /\ SectorPhase /\ PagePhase /\ Sending
  BY DEF SendOp, DrvrIInv, FlashIInv, Phase
<1>2. OnPage
  BY <1>1, SendsPage
<1>. DEFINE n == PageLen
            Page == drv.p .. PageEnd - 1
<1>3. /\ drv.p \in Nat /\ PageEnd \in Nat /\ drv.p < PageEnd /\ n \in Nat
      /\ \A a \in Page : a \in InRange /\ a \in FAddrs /\ a \in SectorOf(drv.s)
      /\ drv.s \in Nat /\ SectorSize \in Nat
      /\ \A a \in InRange : a \in FAddrs /\ a \in Nat /\ DataAt(a) \in Bits /\ fl.mem[a] \in Bits
  <2>1. n \in 1 .. PageSize /\ PageSize \in Nat /\ SectorSize \in Nat
    BY <1>2, PageFacts, FlashMultiples
  <2>. QED  BY <1>1, <1>2, <2>1, PageFacts, CallFacts DEF DrvrRec
<1>4. PICK k \in 0 .. ProgramOps - 1 :
         ProgramAt(k) /\ (k <= 8 + PageLen => OpenFrom(drv.p)) /\ (k > 8 + PageLen => PageIsWritten)
  BY <1>1 DEF Sending
<1>5. OpsLeft(ProgramOp, ProgramOps, k) /\ ProgramDevice(k) /\ ProgramOps \in Nat
  BY <1>3, <1>4 DEF ProgramAt, ProgramOps
<1>6. /\ Sent(ProgramOp[k + 1]) /\ SameCall /\ drv' \in DrvrRec /\ drv'.next = drv.next
      /\ drv'.s = drv.s /\ drv'.p = drv.p
      /\ k + 1 < ProgramOps => drv'.pc = "send" /\ PartOf(ProgramOp, k + 1, ProgramOps - (k + 1), drv'.ops)
      /\ k + 1 = ProgramOps => drv'.pc = "wait"
      /\ drv'.pc \in {"send", "wait"} /\ worn' = worn
  BY <1>1, <1>5, OpTaken
<1>7. Call' /\ InRange' = InRange /\ WriteEnd' = WriteEnd /\ \A a : DataAt(a)' = DataAt(a)
  BY <1>1, <1>6, SameCallKeeps
<1>8. PageEnd' = PageEnd /\ PageLen' = n /\ ProgramOps' = ProgramOps /\ ProgramOps = 11 + n
  BY <1>6, <1>7 DEF PageEnd, PageLen, ProgramOps
<1>9. /\ FlashIInv'
      /\ k + 1 < ProgramOps => ProgramDevice(k + 1)'
      /\ k + 1 = ProgramOps => Waiting(fl)'
      /\ k # 8 + PageLen => fl'.mem = fl.mem
      /\ k = 8 + PageLen =>
            /\ \A a \in FAddrs : fl'.mem[a] # fl.mem[a] =>
                   a \in drv.p .. PageEnd - 1 /\ DataAt(a) = 0 /\ fl'.mem[a] = 0
            /\ worn = {} => \A a \in drv.p .. PageEnd - 1 : fl'.mem[a] = fl.mem[a] * DataAt(a)
  BY <1>1, <1>2, <1>5, <1>6, ProgramSends
<1>10. \A a \in FAddrs : fl'.mem[a] # fl.mem[a] => a \in Page /\ DataAt(a) = 0 /\ fl'.mem[a] = 0
  BY <1>9
<1>11. ProgramChanges
  BY <1>3, <1>10 DEF ProgramChanges
<1>12. Phase' = "programmed"
  BY <1>6, Zenon DEF Phase
<1>. HIDE DEF n
<1>13. k < 8 + n => OpenFrom(drv.p)'
  <2>. SUFFICES ASSUME k < 8 + n PROVE OpenFrom(drv.p)'
    OBVIOUS
  <2>1. k # 8 + n /\ k <= 8 + n
    BY <1>3
  <2>2. fl'.mem = fl.mem /\ OpenFrom(drv.p)
    BY <1>4, <1>9, <2>1 DEF n
  <2>. QED  BY <1>6, <1>7, <2>2 DEF OpenFrom
<1>14. k > 8 + n => PageIsWritten'
  <2>. SUFFICES ASSUME k > 8 + n PROVE PageIsWritten'
    OBVIOUS
  <2>1. k # 8 + n
    BY <1>3
  <2>2. fl'.mem = fl.mem /\ PageIsWritten
    BY <1>4, <1>9, <2>1 DEF n
  <2>. QED  BY <1>6, <1>7, <1>8, <2>2 DEF PageIsWritten, OpenFrom
<1>15. k = 8 + n => PageIsWritten'
  <2>. SUFFICES ASSUME k = 8 + n, worn = {}
                PROVE  (\A a \in Page : fl'.mem[a] = DataAt(a))
                       /\ \A a \in InRange : a >= PageEnd /\ a < drv.s + SectorSize => fl'.mem[a] = Erased \/ DataAt(a) # Erased
    BY <1>6, <1>7, <1>8 DEF PageIsWritten, OpenFrom
  <2>0. k <= 8 + n
    BY <1>3
  <2>1. \A a \in InRange : a >= drv.p /\ a < drv.s + SectorSize => fl.mem[a] = Erased \/ DataAt(a) # Erased
    BY <1>4, <2>0 DEF OpenFrom, n
  <2>2. \A a \in Page : fl'.mem[a] = fl.mem[a] * DataAt(a)
    BY <1>9 DEF n
  <2>3. ASSUME NEW a \in Page PROVE fl'.mem[a] = DataAt(a)
    <3>1. a \in InRange /\ a \in SectorOf(drv.s) /\ a >= drv.p
      BY <1>3
    <3>2. a < drv.s + SectorSize
      BY <1>3, <3>1 DEF SectorOf
    <3>3. fl.mem[a] = Erased \/ DataAt(a) # Erased
      BY <2>1, <3>1, <3>2
    <3>4. DataAt(a) \in Bits /\ fl.mem[a] \in Bits /\ fl'.mem[a] = fl.mem[a] * DataAt(a)
      BY <1>3, <2>2, <3>1
    <3>. QED  BY <3>3, <3>4 DEF Bits, Erased
  <2>4. ASSUME NEW a \in InRange, a >= PageEnd, a < drv.s + SectorSize
        PROVE  fl'.mem[a] = Erased \/ DataAt(a) # Erased
    <3>1. a \notin Page /\ a >= drv.p /\ a \in FAddrs
      BY <1>3, <2>4
    <3>2. fl'.mem[a] = fl.mem[a]
      BY <1>10, <3>1
    <3>. QED  BY <2>1, <2>4, <3>1, <3>2
  <2>. QED  BY <2>3, <2>4
<1>16. DoneTo(drv.p)'
  <2>0. DoneTo(drv.p)
    BY <1>1 DEF PagePhase
  <2>1. \A a \in InRange : a < drv.p => fl'.mem[a] = fl.mem[a]
    <3>. SUFFICES ASSUME NEW a \in InRange, a < drv.p PROVE fl'.mem[a] = fl.mem[a]
      OBVIOUS
    <3>1. a \notin Page
      BY <1>3
    <3>. QED  BY <1>3, <1>10, <3>1
  <2>. QED  BY <1>6, <1>7, <2>0, <2>1 DEF DoneTo, SameCall
<1>17. SectorPhase'
  BY <1>1, <1>6, <1>7, <1>12 DEF SectorPhase, SameCall
<1>18. PagePhase'
  BY <1>1, <1>6, <1>7, <1>12, <1>16 DEF PagePhase, SameCall
<1>19. worn' \subseteq FAddrs
  BY <1>1, <1>6
<1>20. CASE k + 1 < ProgramOps
  <2>1. ProgramOp' = ProgramOp
    BY <1>6, <1>7, <1>8 DEF ProgramOp, n
  <2>2. ProgramAt(k + 1)'
    <3>1. OpsLeft(ProgramOp, ProgramOps, k + 1)'
      BY <1>6, <1>8, <1>20, <2>1 DEF OpsLeft
    <3>. QED  BY <1>9, <1>20, <3>1 DEF ProgramAt
  <2>3. k + 1 <= 8 + n => k < 8 + n
    BY <1>3
  <2>4. k + 1 > 8 + n => k > 8 + n \/ k = 8 + n
    BY <1>3
  <2>5. /\ k + 1 <= 8 + PageLen' => OpenFrom(drv.p)'
        /\ k + 1 > 8 + PageLen' => PageIsWritten'
    BY <1>8, <1>13, <1>14, <1>15, <2>3, <2>4, Zenon
  <2>6. k + 1 \in (0 .. ProgramOps - 1)'
    <3>1. k + 1 \in 0 .. ProgramOps - 1
      BY <1>5, <1>20
    <3>. QED  BY <1>8, <3>1
  <2>7. Sending'
    <3>1. drv'.next = "programmed"
      BY <1>6
    <3>2. (\E m \in 0 .. ProgramOps - 1 :
             ProgramAt(m) /\ (m <= 8 + PageLen => OpenFrom(drv.p)) /\ (m > 8 + PageLen => PageIsWritten))'
      BY <2>2, <2>5, <2>6
    <3>. QED  BY <3>1, <3>2 DEF Sending
  <2>8. drv'.pc = "send" /\ drv'.next = "programmed"
    BY <1>6, <1>20
  <2>. QED  BY <1>6, <1>7, <1>9, <1>11, <1>17, <1>18, <1>19, <2>7, <2>8, AtSend
<1>21. CASE k + 1 = ProgramOps
  <2>1. k > 8 + n
    BY <1>3, <1>8, <1>21
  <2>2. drv'.pc = "wait" /\ drv'.next = "programmed" /\ Waiting(fl)' /\ PageIsWritten'
    BY <1>6, <1>9, <1>14, <1>21, <2>1
  <2>. QED  BY <1>6, <1>7, <1>9, <1>11, <1>17, <1>18, <1>19, <2>2, AtWait
<1>22. k + 1 < ProgramOps \/ k + 1 = ProgramOps
  BY <1>5
<1>. QED  BY <1>20, <1>21, <1>22

LEMMA SendDisableIInv ==
    ASSUME DrvrIInv, SendOp, drv.next = "true"
    PROVE  DrvrIInv' /\ fl'.mem = fl.mem
<1>1. /\ drv.pc = "send" /\ drv \in DrvrRec /\ FlashIInv /\ fl \in FlashRec /\ worn \subseteq FAddrs /\ Call
      /\ Phase = "true" /\ DoneTo(WriteEnd) /\ worn' = worn
      /\ \/ drv.ops = <<Cmd.WRDI, F_END>> /\ Rest(fl)
         \/ drv.ops = <<F_END>> /\ fl.state = "IDLE" /\ Clean(fl)
  BY DEF SendOp, DrvrIInv, FlashIInv, Phase, Sending
<1>2. CASE drv.ops = <<Cmd.WRDI, F_END>> /\ Rest(fl)
  <2>. DEFINE o == <<F_END>>
  <2>0. o \in Seq(Int)
    BY DEF F_END
  <2>1. Head(drv.ops) = Cmd.WRDI /\ Len(drv.ops) > 1 /\ Tail(drv.ops) = o
    BY <1>2
  <2>. HIDE DEF o
  <2>2. Sent(Cmd.WRDI) /\ drv' = [drv EXCEPT !.ops = o]
    BY <2>1 DEF SendOp, Sent
  <2>3. /\ drv' \in DrvrRec /\ SameCall /\ drv'.s = drv.s /\ drv'.p = drv.p /\ drv'.pc = "send"
        /\ drv'.next = "true" /\ drv'.ops = o
    BY <1>1, <2>0, <2>2 DEF DrvrRec, SameCall
  <2>4. Cmd.WRDI \in Nat /\ ~(fl.count > 0)
    BY <1>2, CmdNumbers DEF Rest
  <2>5. FlashIInv' /\ fl'.mem = fl.mem /\ fl' = Xfer(fl, Cmd.WRDI)
    BY <1>1, <2>2, <2>4, SentByte
  <2>6. fl'.state = "IDLE" /\ Clean(fl')
    BY <1>1, <1>2, <2>5, DisableByte
  <2>7. Sending'
    BY <2>3, <2>6 DEF Sending, o
  <2>8. Phase' = Phase
    BY <1>1, <2>3 DEF Phase
  <2>9. Call' /\ DoneTo(WriteEnd)'
    BY <1>1, <2>3, <2>5, <2>8, SameMemory
  <2>. QED  BY <1>1, <2>3, <2>5, <2>7, <2>9, AtSend
<1>3. CASE drv.ops = <<F_END>> /\ fl.state = "IDLE" /\ Clean(fl)
  <2>. DEFINE o == <<>>
  <2>0. o \in Seq(Int)
    OBVIOUS
  <2>1. Head(drv.ops) = F_END /\ ~(Len(drv.ops) > 1)
    BY <1>3
  <2>2. Sent(F_END) /\ drv' = [drv EXCEPT !.ops = o, !.pc = "true"]
    BY <1>1, <2>1 DEF SendOp, Sent, Phase
  <2>. HIDE DEF o
  <2>3. /\ drv' \in DrvrRec /\ SameCall /\ drv'.s = drv.s /\ drv'.p = drv.p /\ drv'.pc = "true"
    BY <1>1, <2>0, <2>2 DEF DrvrRec, SameCall
  <2>4. FlashIInv' /\ fl'.mem = fl.mem
    BY <1>1, <1>3, <2>2, SentEndIdle
  <2>5. Phase' = Phase
    BY <1>1, <2>3 DEF Phase
  <2>6. Call' /\ DoneTo(WriteEnd)'
    BY <1>1, <2>3, <2>4, <2>5, SameMemory
  <2>. QED  BY <1>1, <2>3, <2>4, <2>5, <2>6 DEF DrvrIInv
<1>. QED  BY <1>1, <1>2, <1>3

LEMMA SendOpIInv ==
    ASSUME DrvrIInv, SendOp
    PROVE  DrvrIInv' /\ (fl'.mem = fl.mem \/ EraseChanges \/ ProgramChanges)
<1>1. drv.next \in {"erased", "programmed", "true"}
  BY DEF DrvrIInv, DrvrRec, SendOp
<1>. QED  BY <1>1, SendEraseIInv, SendProgramIInv, SendDisableIInv

LEMMA DrvrInitIInv == DrvrInit => DrvrIInv
<1>. SUFFICES ASSUME DrvrInit PROVE DrvrIInv
  OBVIOUS
<1>. DEFINE o == <<>>
<1>1. /\ FlashInit /\ worn = {}
      /\ drv = [pc |-> "off", next |-> "off", ops |-> o, s |-> 0, p |-> 0, addr |-> 0,
                len |-> 0, data |-> o, verify |-> FALSE]
  BY DEF DrvrInit
<1>2. o \in Seq(Int) /\ o \in Seq(Bits)
  OBVIOUS
<1>. HIDE DEF o
<1>3. drv \in DrvrRec /\ drv.pc = "off"
  BY <1>1, <1>2 DEF DrvrRec
<1>4. FlashIInv /\ Rest(fl)
  BY <1>1, FlashInitIInv DEF FlashInit, PowerUp, Rest, Clean
<1>5. Phase = "off"
  BY <1>3 DEF Phase
<1>. QED  BY <1>1, <1>3, <1>4, <1>5 DEF DrvrIInv

LEMMA FlashLoadIInv ==
    ASSUME DrvrIInv, FlashLoad
    PROVE  DrvrIInv'
<1>1. /\ drv.pc = "off" /\ drv \in DrvrRec /\ fl \in FlashRec /\ WideReads(fl) /\ OneWrite(fl) /\ Rest(fl)
  BY DEF FlashLoad, DrvrIInv, FlashIInv
<1>2. drv' = [drv EXCEPT !.pc = "idle"] /\ worn' \in WornSets
  BY DEF FlashLoad
<1>3. PICK m \in Images : fl' = [fl EXCEPT !.mem = m]
  BY DEF FlashLoad
<1>4. m \in [FAddrs -> 0 .. 1] /\ worn' \subseteq FAddrs
  BY <1>2, DrvrAssumption DEF Erased
<1>5. drv' \in DrvrRec /\ drv'.pc = "idle"
  BY <1>1, <1>2 DEF DrvrRec
<1>6. fl' \in FlashRec
  BY <1>1, <1>3, <1>4 DEF FlashRec
<1>7. /\ fl'.state = fl.state /\ fl'.count = fl.count /\ fl'.sreg = fl.sreg /\ fl'.timing = fl.timing
      /\ fl'.mode = fl.mode /\ fl'.xip = fl.xip
  BY <1>1, <1>3 DEF FlashRec
<1>8. FlashIInv' /\ Rest(fl)'
  BY <1>1, <1>6, <1>7 DEF FlashIInv, WideReads, OneWrite, Rest, Clean
<1>9. Phase' = "idle"
  BY <1>5 DEF Phase
<1>. QED  BY <1>4, <1>5, <1>8, <1>9 DEF DrvrIInv

LEMMA WriteCallIInv ==
    ASSUME DrvrIInv, WriteCall
    PROVE  DrvrIInv'
<1>1. drv.pc = "idle" /\ drv \in DrvrRec /\ FlashIInv /\ Rest(fl) /\ worn \subseteq FAddrs
  BY DEF WriteCall, DrvrIInv
<1>2. PICK a \in FAddrs, n \in 1 .. MaxLen, v \in BOOLEAN : \E x \in [1 .. n -> {0, Erased}] :
         /\ a + n <= FlashSize
         /\ drv' = [drv EXCEPT !.pc = "sector", !.addr = a, !.len = n, !.data = x,
                               !.verify = v, !.s = SectorBase(a)]
  BY DEF WriteCall
<1>3. PICK x \in [1 .. n -> {0, Erased}] :
         /\ a + n <= FlashSize
         /\ drv' = [drv EXCEPT !.pc = "sector", !.addr = a, !.len = n, !.data = x,
                               !.verify = v, !.s = SectorBase(a)]
  BY <1>2
<1>4. fl' = fl /\ worn' = worn
  BY DEF WriteCall
<1>. DEFINE s == SectorBase(a)
<1>5. a \in Nat /\ s \in Nat /\ Multiple(s, SectorSize) /\ n \in Nat \ {0} /\ n <= MaxLen
  BY FlashMultiples, SectorOfAddress, DrvrAssumption DEF FAddrs
<1>6. x \in Seq(Bits) /\ Len(x) = n
  <2>1. n \in Nat
    BY <1>5
  <2>2. x \in [1 .. n -> Bits]
    BY DEF Bits, Erased
  <2>. QED  BY <2>1, <2>2
<1>. HIDE DEF s
<1>7. /\ drv' \in DrvrRec /\ drv'.pc = "sector" /\ drv'.addr = a /\ drv'.len = n /\ drv'.data = x
      /\ drv'.verify = v /\ drv'.s = s
  BY <1>1, <1>3, <1>5, <1>6 DEF DrvrRec, s
<1>8. WriteEnd' = a + n
  BY <1>7 DEF WriteEnd
<1>9. Call'
  BY <1>3, <1>5, <1>6, <1>7, <1>8 DEF Call
<1>10. SectorBase(drv'.addr) = s
  BY <1>7 DEF s
<1>11. DoneTo(drv.s)'
  <2>. SUFFICES ASSUME NEW b \in InRange', b < s PROVE FALSE
    BY <1>7 DEF DoneTo
  <2>1. b >= a /\ b \in Int
    BY <1>5, <1>7, <1>8 DEF InRange
  <2>2. s <= a
    BY SectorOfAddress DEF s
  <2>. QED  BY <1>5, <2>1, <2>2
<1>12. SectorPhase'
  BY <1>5, <1>7, <1>10, <1>11 DEF SectorPhase, Phase
<1>13. FlashIInv' /\ Rest(fl)' /\ worn' \subseteq FAddrs
  BY <1>1, <1>4, SameDevice
<1>. QED  BY <1>7, <1>9, <1>12, <1>13, AtSector

LEMMA DrvrStutterIInv ==
    ASSUME DrvrIInv, UNCHANGED drvrVars
    PROVE  DrvrIInv'
<1>1. fl' = fl /\ drv' = drv /\ worn' = worn
  BY DEF drvrVars
<1>2. FlashIInv => FlashIInv'
  BY <1>1 DEF FlashIInv
<1>3. SameCall /\ Phase' = Phase
  BY <1>1 DEF SameCall, Phase
<1>4. /\ Call => Call'
      /\ SectorPhase => SectorPhase'
      /\ PagePhase => PagePhase'
      /\ PageIsWritten => PageIsWritten'
      /\ OpenFrom(drv.p) => OpenFrom(drv.p)'
      /\ DoneTo(WriteEnd) => DoneTo(WriteEnd)'
      /\ PageLen' = PageLen /\ ProgramOps' = ProgramOps /\ EraseOp' = EraseOp /\ ProgramOp' = ProgramOp
      /\ InRange' = InRange /\ \A a : DataAt(a)' = DataAt(a)
  BY <1>1, <1>3, SameMemory
<1>5. (Rest(fl) => Rest(fl)') /\ (Waiting(fl) => Waiting(fl)')
  BY <1>1 DEF Rest, Clean, Waiting, Cycle
<1>6. ASSUME NEW k, EraseAt(k) PROVE EraseAt(k)'
  <2>1. OpsLeft(EraseOp, EraseOps, k)'
    BY <1>1, <1>4, <1>6 DEF EraseAt, OpsLeft, EraseOps
  <2>2. EraseDevice(k)'
    BY <1>1, <1>6, Zenon DEF EraseAt, EraseDevice, Rest, Command, CycleBegun
  <2>. QED  BY <2>1, <2>2 DEF EraseAt
<1>7. ASSUME NEW k, ProgramAt(k) PROVE ProgramAt(k)'
  <2>1. OpsLeft(ProgramOp, ProgramOps, k)'
    BY <1>1, <1>4, <1>7 DEF ProgramAt, OpsLeft
  <2>2. \A m, j : Loaded(m, j)' <=> Loaded(m, j)
    BY <1>1, <1>4 DEF Loaded
  <2>3. ProgramDevice(k)'
    BY <1>1, <1>4, <1>7, <2>2, Zenon DEF ProgramAt, ProgramDevice
  <2>. QED  BY <2>1, <2>3 DEF ProgramAt
<1>8. Sending => Sending'
  BY <1>1, <1>4, <1>5, <1>6, <1>7, Zenon DEF Sending
<1>. QED  BY <1>1, <1>2, <1>3, <1>4, <1>5, <1>8, Zenon DEF DrvrIInv

LEMMA DrvrNextIInv ==
    ASSUME DrvrIInv, [DrvrNext]_drvrVars
    PROVE  DrvrIInv'
BY FlashLoadIInv, WriteCallIInv, SectorLoopIInv, EraseDoneIInv, PageLoopIInv, PageDoneIInv, SendOpIInv,
   FlwaitIInv, DrvrTimerIInv, DrvrStutterIInv DEF DrvrNext, DrvrStep

-----------------------------------------------------------------------------
(* What the invariant says of the device and of the call.                  *)

LEMMA EraseUnderstood ==
    ASSUME NEW k \in 0 .. EraseOps - 1, EraseDevice(k), drv.s \in Nat
    PROVE  /\ EraseOp[k + 1] \in {Cmd.WREN, Cmd.PP, Cmd.SECTOR_ERASE} => ~Busy(fl)
           /\ EraseOp[k + 1] = F_END /\ fl.state \in {"PP", "SECTOR_ERASE"} => fl.count >= 4
<1>. DEFINE f == EraseOp
<1>1. /\ f[1] = F_END /\ f[2] = Cmd.WREN /\ f[3] = F_END /\ f[4] = Cmd.SECTOR_ERASE /\ f[5] = 0 /\ f[6] = 0
      /\ f[7] = drv.s /\ f[8] = F_END /\ f[9] = F_END /\ f[10] = Cmd.RDSR
  BY DEF EraseOp, EraseOps
<1>2. k \in {0, 1} \/ k \in {2, 3} \/ k \in {4, 5, 6} \/ k = 7 \/ k = 8 \/ k = 9
  BY DEF EraseOps
<1>. HIDE DEF f
<1>3. CASE k \in {0, 1}
  BY <1>3 DEF EraseDevice, Rest, Clean, Busy
<1>4. CASE k \in {2, 3}
  BY <1>4 DEF EraseDevice, Command, Busy
<1>5. CASE k \in {4, 5, 6}
  <2>1. Command(fl, "SECTOR_ERASE", k - 3) /\ f[k + 1] # F_END
    BY <1>1, <1>5 DEF EraseDevice, F_END
  <2>. QED  BY <2>1 DEF Command, Busy, f
<1>6. CASE k = 7
  BY <1>6 DEF EraseDevice, Command, Busy
<1>7. CASE k = 8
  <2>1. f[k + 1] = F_END /\ CycleBegun(fl)
    BY <1>1, <1>7 DEF EraseDevice
  <2>. QED  BY <2>1, CmdNumbers DEF F_END, CycleBegun, f
<1>8. CASE k = 9
  <2>1. f[k + 1] = Cmd.RDSR /\ CycleBegun(fl)
    BY <1>1, <1>8 DEF EraseDevice
  <2>. QED  BY <2>1, CmdNumbers DEF F_END, CycleBegun, f
<1>. QED  BY <1>2, <1>3, <1>4, <1>5, <1>6, <1>7, <1>8

LEMMA ProgramUnderstood ==
    ASSUME OnPage, NEW k \in 0 .. ProgramOps - 1, ProgramDevice(k)
    PROVE  /\ ProgramOp[k + 1] \in {Cmd.WREN, Cmd.PP, Cmd.SECTOR_ERASE} /\ fl.count = 0 => ~Busy(fl)
           /\ ProgramOp[k + 1] = F_END /\ fl.state \in {"PP", "SECTOR_ERASE"} => fl.count >= 4
<1>. DEFINE f == ProgramOp
            n == PageLen
<1>0. drv.p \in Nat /\ n \in Nat \ {0}
  BY PageFacts, FlashMultiples DEF FAddrs
<1>1. f[6] = 0 /\ f[7] = 0 /\ f[8] = drv.p
  <2>. HIDE DEF n
  <2>. QED  BY <1>0 DEF ProgramOp, ProgramOps, n
<1>2. f[9 + n] = F_END /\ f[10 + n] = F_END /\ f[11 + n] = Cmd.RDSR
  BY <1>0, LastOps
<1>3. \A j \in 5 .. 7 + n : f[j + 1] # F_END
  <2>. SUFFICES ASSUME NEW j \in 5 .. 7 + n PROVE f[j + 1] # F_END
    OBVIOUS
  <2>1. CASE j \in 5 .. 7
    BY <1>0, <1>1, <2>1 DEF F_END
  <2>2. CASE j \in 8 .. 7 + n
    <3>. DEFINE i == j + 1
                a == drv.p + i - 9
    <3>1. i \in 1 .. 11 + n /\ i \notin {1, 3, 4, 9 + n, 10 + n} /\ i # 2 /\ i # 5 /\ i \notin {6, 7} /\ i # 8
          /\ i \in 9 .. 8 + n
      <4>. HIDE DEF n
      <4>. QED  BY <1>0, <2>2
    <3>. HIDE DEF i
    <3>2. f[i] = DataAt(a)
      BY <3>1 DEF ProgramOp, ProgramOps
    <3>3. a \in drv.p .. PageEnd - 1
      <4>1. PageEnd = drv.p + n
        BY PageFacts
      <4>. HIDE DEF n
      <4>. QED  BY <1>0, <3>1, <4>1
    <3>. HIDE DEF a
    <3>4. a \in InRange
      BY <3>3, PageFacts
    <3>5. DataAt(a) \in Bits
      BY <3>4, CallFacts DEF OnPage
    <3>. QED  BY <3>2, <3>5 DEF Bits, F_END, i
  <2>3. j \in 5 .. 7 \/ j \in 8 .. 7 + n
    <3>. HIDE DEF n
    <3>. QED  BY <1>0
  <2>. QED  BY <2>1, <2>2, <2>3
<1>. HIDE DEF n, f
<1>4. k \in {0, 1} \/ k = 2 \/ k \in {3, 4} \/ k \in 5 .. 7 + n \/ k = 8 + n \/ k = 9 + n \/ k = 10 + n
  BY <1>0 DEF ProgramOps, n
<1>5. CASE k \in {0, 1}
  BY <1>5 DEF ProgramDevice, Rest, Clean, Busy
<1>6. CASE k = 2 \/ k \in {3, 4}
  <2>1. Command(fl, "IDLE", 1) \/ Command(fl, "IDLE", 0)
    BY <1>6 DEF ProgramDevice
  <2>. QED  BY <2>1 DEF Command, Busy
<1>7. CASE k \in 5 .. 7 + n
  <2>1. k \in 5 .. 8 + n /\ f[k + 1] # F_END
    BY <1>0, <1>3, <1>7
  <2>2. Command(fl, "PP", k - 4)
    BY <2>1 DEF ProgramDevice, n
  <2>. QED  BY <2>1, <2>2 DEF Command, Busy, f
<1>8. CASE k = 8 + n
  <2>1. k \in 5 .. 8 + n /\ k - 4 >= 4
    BY <1>0, <1>8
  <2>2. Command(fl, "PP", k - 4)
    BY <2>1 DEF ProgramDevice, n
  <2>. QED  BY <2>1, <2>2 DEF Command, Busy
<1>9. CASE k = 9 + n \/ k = 10 + n
  <2>1. f[k + 1] \in {F_END, Cmd.RDSR}
    <3>1. (9 + n) + 1 = 10 + n /\ (10 + n) + 1 = 11 + n
      BY <1>0
    <3>. QED  BY <1>2, <1>9, <3>1
  <2>2. CycleBegun(fl)
    BY <1>9, Zenon DEF ProgramDevice, n
  <2>. QED  BY <2>1, <2>2, CmdNumbers DEF F_END, CycleBegun, f
<1>. QED  BY <1>4, <1>5, <1>6, <1>7, <1>8, <1>9

LEMMA Understood == DrvrIInv => DriverIsUnderstood
<1>. SUFFICES ASSUME DrvrIInv PROVE DriverIsUnderstood
  OBVIOUS
<1>1. drv.pc = "send" =>
        /\ Head(drv.ops) \in {Cmd.WREN, Cmd.PP, Cmd.SECTOR_ERASE} /\ fl.count = 0 => ~Busy(fl)
        /\ Head(drv.ops) = F_END /\ fl.state \in {"PP", "SECTOR_ERASE"} => fl.count >= 4
  <2>. SUFFICES ASSUME drv.pc = "send"
                PROVE  /\ Head(drv.ops) \in {Cmd.WREN, Cmd.PP, Cmd.SECTOR_ERASE} /\ fl.count = 0 => ~Busy(fl)
                       /\ Head(drv.ops) = F_END /\ fl.state \in {"PP", "SECTOR_ERASE"} => fl.count >= 4
    OBVIOUS
  <2>1. Sending /\ drv \in DrvrRec /\ drv.next \in {"erased", "programmed", "true"} /\ drv.s \in Nat
    BY DEF DrvrIInv, DrvrRec
  <2>2. CASE drv.next = "erased"
    <3>1. PICK k \in 0 .. EraseOps - 1 : EraseAt(k)
      BY <2>1, <2>2 DEF Sending
    <3>2. OpsLeft(EraseOp, EraseOps, k) /\ EraseDevice(k) /\ EraseOps \in Nat
      BY <3>1 DEF EraseAt, EraseOps
    <3>3. Head(drv.ops) = EraseOp[k + 1]
      BY <3>2, NextOp
    <3>. QED  BY <2>1, <3>2, <3>3, EraseUnderstood
  <2>3. CASE drv.next = "programmed"
    <3>1. PICK k \in 0 .. ProgramOps - 1 : ProgramAt(k)
      BY <2>1, <2>3 DEF Sending
    <3>2. OnPage /\ PageLen \in Nat
      BY <2>3, SendsPage
    <3>3. OpsLeft(ProgramOp, ProgramOps, k) /\ ProgramDevice(k) /\ ProgramOps \in Nat
      BY <3>1, <3>2 DEF ProgramAt, ProgramOps
    <3>4. Head(drv.ops) = ProgramOp[k + 1]
      BY <3>3, NextOp
    <3>. QED  BY <3>2, <3>3, <3>4, ProgramUnderstood
  <2>4. CASE drv.next = "true"
    <3>1. fl.state \in {"IDLE", "RDSR"} /\ Clean(fl)
      BY <2>1, <2>4 DEF Sending, Rest
    <3>. QED  BY <3>1 DEF Clean, Busy
  <2>. QED  BY <2>1, <2>2, <2>3, <2>4
<1>2. worn = {} => drv.pc # "false"
  BY DEF DrvrIInv
<1>3. worn = {} /\ drv.pc = "true" => \A a \in drv.addr .. WriteEnd - 1 : fl.mem[a] = DataAt(a)
  <2>. SUFFICES ASSUME worn = {}, drv.pc = "true", NEW a \in InRange PROVE fl.mem[a] = DataAt(a)
    BY DEF InRange
  <2>1. DoneTo(WriteEnd) /\ drv \in DrvrRec /\ fl \in FlashRec /\ Call
    BY DEF DrvrIInv, Phase, FlashIInv
  <2>2. WriteEnd \in Nat /\ drv.addr \in Nat
    BY <2>1, CallFacts
  <2>3. a < WriteEnd
    BY <2>2 DEF InRange
  <2>. QED  BY <2>1, <2>3 DEF DoneTo
<1>. QED
  BY <1>1, <1>2, <1>3 DEF DriverIsUnderstood, NoCommandWhileBusy, CommandsAreComplete, GoodFlashIsWritten

\* FLASHDRVR::write against the device, for any image, data and geometry: no
\* command that changes the flash reaches it while it is busy, each ends only
\* after its address, and on a flash whose cells work it succeeds and the data
\* is there, verified or not.
THEOREM DriverStaysUnderstood == DrvrSpec => []DriverIsUnderstood
<1>1. DrvrInit => DrvrIInv
  BY DrvrInitIInv
<1>2. DrvrIInv /\ [DrvrNext]_drvrVars => DrvrIInv'
  BY DrvrNextIInv
<1>3. DrvrIInv => DriverIsUnderstood
  BY Understood
<1>. QED  BY <1>1, <1>2, <1>3, PTL DEF DrvrSpec

-----------------------------------------------------------------------------
(* The driver and the device together are FlashStore.                      *)

Active == {"sector", "erased", "page", "programmed", "send", "wait"}

LEMMA JobKept ==
    ASSUME SameCall, drv.pc \in Active, drv'.pc \in Active
    PROVE  Job' = Job /\ Job.result = "busy"
<1>1. JobResult = "busy" /\ JobResult' = "busy"
  BY DEF JobResult, Active
<1>. QED  BY <1>1 DEF Job, SameCall

\* The range and the data of the call, as the store sees them.
LEMMA JobFields ==
    ASSUME drv \in DrvrRec
    PROVE  /\ Store!Range(Job) = InRange /\ Job.verify = drv.verify
           /\ \A a : Store!Wanted(Job, a) = DataAt(a)
<1>1. /\ Job.addr = drv.addr /\ Job.len = drv.len /\ Job.data = drv.data /\ Job.verify = drv.verify
  BY DEF Job
<1>2. Store!Range(Job) = InRange
  <2>1. drv.addr + drv.len - 1 = (drv.addr + drv.len) - 1
    BY DEF DrvrRec
  <2>. QED  BY <1>1, <2>1 DEF Store!Range, InRange, WriteEnd
<1>3. \A a : Store!Wanted(Job, a) = DataAt(a)
  BY <1>1, Zenon DEF Store!Wanted, DataAt
<1>. QED  BY <1>1, <1>2, <1>3

\* The result, once it is known.
LEMMA JobOver ==
    ASSUME SameCall, drv.pc \in Active, NEW r \in {"true", "false"}, drv'.pc = r, fl'.mem = fl.mem,
           r = "true" /\ drv.verify => DoneTo(WriteEnd), drv \in DrvrRec, Call
    PROVE  Store!Finish
<1>1. JobResult = "busy" /\ JobResult' = r
  BY DEF JobResult, Active
<1>2. Job' = [Job EXCEPT !.result = r] /\ Job.result = "busy"
  BY <1>1 DEF Job, SameCall
<1>3. r = "true" /\ Job.verify => Store!Holds(Job, fl.mem)
  <2>. SUFFICES ASSUME r = "true", drv.verify, NEW a \in InRange PROVE fl.mem[a] = DataAt(a)
    BY JobFields DEF Store!Holds
  <2>1. drv.addr \in Nat /\ WriteEnd \in Nat
    BY DEF DrvrRec, WriteEnd
  <2>2. a < WriteEnd
    BY <2>1 DEF InRange
  <2>. QED  BY <2>2 DEF DoneTo
<1>4. \E q \in {"true", "false"} :
         /\ Job' = [Job EXCEPT !.result = q]
         /\ q = "true" /\ Job.verify => Store!Holds(Job, fl.mem)
  BY <1>2, <1>3
<1>. QED  BY <1>2, <1>4 DEF Store!Finish

LEMMA EraseIsStored ==
    ASSUME EraseChanges, SameCall, drv.pc \in Active, drv'.pc \in Active, drv \in DrvrRec, FlashIInv, FlashIInv',
           Call, SectorPhase, drv.s < WriteEnd
    PROVE  Store!EraseSector
<1>1. Job' = Job /\ Job.result = "busy"
  BY JobKept
<1>2. PICK a \in InRange \cap SectorOf(drv.s) : fl.mem[a] = 0 /\ DataAt(a) = Erased
  BY DEF EraseChanges
<1>3. a \in Store!Range(Job) /\ fl.mem[a] = 0 /\ Store!Wanted(Job, a) = 1
  BY <1>2, JobFields DEF Erased
<1>4. fl'.mem \in [FAddrs -> {0, 1}]
  BY DEF FlashIInv, FlashRec
<1>5. Multiple(drv.s, SectorSize) /\ drv.s \in Nat /\ fl \in FlashRec
  BY DEF SectorPhase, DrvrRec, FlashIInv
<1>6. a \in FAddrs
  BY <1>2, <1>5, SectorFacts
<1>7. \A b \in FAddrs : fl'.mem[b] # fl.mem[b] => fl'.mem[b] = 1 /\ SectorOfByte(b) = SectorOfByte(a)
  <2>. SUFFICES ASSUME NEW b \in FAddrs, fl'.mem[b] # fl.mem[b]
                PROVE  fl'.mem[b] = 1 /\ SectorBase(b) = SectorBase(a)
    BY DEF SectorOfByte
  <2>1. b \in SectorOf(drv.s) /\ fl'.mem[b] = 1
    BY DEF EraseChanges, Erased
  <2>2. SectorBase(b) = drv.s /\ SectorBase(a) = drv.s
    BY <1>2, <1>5, <1>6, <2>1, SectorBytes
  <2>. QED  BY <2>1, <2>2
<1>. QED  BY <1>1, <1>3, <1>4, <1>7 DEF Store!EraseSector

LEMMA ProgramIsStored ==
    ASSUME ProgramChanges, SameCall, drv.pc \in Active, drv'.pc \in Active, drv \in DrvrRec, FlashIInv'
    PROVE  Store!ProgramBytes
<1>1. Job' = Job /\ Job.result = "busy"
  BY JobKept
<1>2. fl'.mem \in [FAddrs -> {0, 1}]
  BY DEF FlashIInv, FlashRec
<1>3. \A b \in FAddrs : fl'.mem[b] # fl.mem[b] =>
          fl'.mem[b] = 0 /\ b \in Store!Range(Job) /\ Store!Wanted(Job, b) = 0
  BY JobFields DEF ProgramChanges
<1>. QED  BY <1>1, <1>2, <1>3 DEF Store!ProgramBytes

LEMMA StoreKept ==
    ASSUME SameCall, drv.pc \in Active, drv'.pc \in Active, fl'.mem = fl.mem
    PROVE  UNCHANGED Store!storeVars
BY JobKept DEF Store!storeVars

LEMMA StoreBegins == DrvrInit => Store!StoreInit
<1>. SUFFICES ASSUME DrvrInit PROVE Store!StoreInit
  OBVIOUS
<1>1. FlashIInv
  BY FlashInitIInv DEF DrvrInit
<1>2. fl.mem \in [FAddrs -> {0, 1}]
  BY <1>1 DEF FlashIInv, FlashRec
<1>3. drv.pc = "off"
  BY DEF DrvrInit
<1>4. Job.result = "none"
  BY <1>3 DEF Job, JobResult
<1>. QED  BY <1>2, <1>4 DEF Store!StoreInit

LEMMA LoadIsStored == DrvrIInv /\ FlashLoad => Store!Load
<1>. SUFFICES ASSUME DrvrIInv, FlashLoad PROVE Store!Load
  OBVIOUS
<1>1. DrvrIInv' /\ drv.pc = "off" /\ drv \in DrvrRec /\ drv' = [drv EXCEPT !.pc = "idle"]
  BY FlashLoadIInv DEF FlashLoad, DrvrIInv
<1>2. fl'.mem \in [FAddrs -> {0, 1}]
  BY <1>1 DEF DrvrIInv, FlashIInv, FlashRec
<1>3. JobResult = "none" /\ JobResult' = "none"
  BY <1>1 DEF JobResult, DrvrRec
<1>4. Job' = Job /\ Job.result = "none"
  BY <1>1, <1>3 DEF Job, DrvrRec
<1>. QED  BY <1>2, <1>4 DEF Store!Load

LEMMA CallIsStored == DrvrIInv /\ WriteCall => Store!Begin
<1>. SUFFICES ASSUME DrvrIInv, WriteCall PROVE Store!Begin
  OBVIOUS
<1>1. drv.pc = "idle" /\ drv \in DrvrRec /\ fl' = fl /\ drv'.pc = "sector"
  BY DEF WriteCall, DrvrIInv, DrvrRec
<1>2. JobResult = "none" /\ JobResult' = "busy"
  BY <1>1 DEF JobResult
<1>. QED  BY <1>1, <1>2 DEF Store!Begin, Job

LEMMA LoopsAreStored ==
    ASSUME DrvrIInv, SectorLoop \/ EraseDone \/ PageLoop \/ PageDone
    PROVE  UNCHANGED Store!storeVars \/ Store!Finish
<1>1. /\ drv \in DrvrRec /\ fl' = fl /\ worn' = worn /\ drv.pc \in Active \ {"send", "wait"} /\ Call
  BY DEF SectorLoop, EraseDone, PageLoop, PageDone, Active, DrvrIInv
<1>2. SameCall /\ drv'.pc \in Active \cup {"false"}
  <2>1. CASE SectorLoop
    BY <1>1, <2>1 DEF SectorLoop, SendThenWait, SameCall, DrvrRec, Active
  <2>2. CASE EraseDone
    BY <1>1, <2>2 DEF EraseDone, SameCall, DrvrRec, Active
  <2>3. CASE PageLoop
    BY <1>1, <2>3 DEF PageLoop, SendThenWait, SameCall, DrvrRec, Active
  <2>4. CASE PageDone
    BY <1>1, <2>4 DEF PageDone, SameCall, DrvrRec, Active
  <2>. QED  BY <2>1, <2>2, <2>3, <2>4
<1>3. CASE drv'.pc = "false"
  <2>. DEFINE r == "false"
  <2>1. r \in {"true", "false"} /\ drv'.pc = r /\ ~(r = "true" /\ drv.verify) /\ fl'.mem = fl.mem /\ drv.pc \in Active
    BY <1>1, <1>3
  <2>. HIDE DEF r
  <2>. QED  BY <1>1, <1>2, <2>1, JobOver
<1>4. CASE drv'.pc \in Active
  BY <1>1, <1>2, <1>4, StoreKept
<1>. QED  BY <1>2, <1>3, <1>4

LEMMA WaitsAreStored ==
    ASSUME DrvrIInv, Flwait
    PROVE  UNCHANGED Store!storeVars
<1>1. fl'.mem = fl.mem
  BY FlwaitIInv
<1>2. drv \in DrvrRec /\ drv.pc = "wait" /\ drv.next \in {"erased", "programmed"}
  BY DEF DrvrIInv, Flwait, DrvrRec
<1>3. SameCall /\ drv'.pc \in Active
  BY <1>2 DEF Flwait, SameCall, DrvrRec, Active
<1>. QED  BY <1>1, <1>2, <1>3, StoreKept DEF Active

LEMMA SendsAreStored ==
    ASSUME DrvrIInv, SendOp
    PROVE  UNCHANGED Store!storeVars \/ Store!Finish \/ Store!EraseSector \/ Store!ProgramBytes
<1>1. /\ drv \in DrvrRec /\ drv.pc = "send" /\ drv.pc \in Active /\ drv.next \in {"erased", "programmed", "true"}
      /\ FlashIInv /\ Call
  BY DEF SendOp, DrvrIInv, DrvrRec, Active
<1>2. DrvrIInv' /\ FlashIInv'
  BY SendOpIInv DEF DrvrIInv
<1>3. SameCall
  <2>1. drv'.addr = drv.addr /\ drv'.len = drv.len /\ drv'.data = drv.data /\ drv'.verify = drv.verify
    BY <1>1 DEF SendOp, DrvrRec
  <2>. QED  BY <2>1 DEF SendOp, SameCall
<1>4. drv'.pc = "send" \/ drv'.pc = IF drv.next = "true" THEN "true" ELSE "wait"
  BY <1>1 DEF SendOp, DrvrRec
<1>5. CASE drv.next = "erased"
  <2>1. drv'.pc \in Active
    BY <1>4, <1>5 DEF Active
  <2>2. Phase = "erased" /\ SectorPhase
    BY <1>1, <1>5 DEF Phase, DrvrIInv
  <2>3. drv.s < WriteEnd
    BY <2>2 DEF SectorPhase
  <2>4. fl'.mem = fl.mem \/ EraseChanges
    BY <1>5, SendEraseIInv
  <2>. QED  BY <1>1, <1>2, <1>3, <2>1, <2>2, <2>3, <2>4, StoreKept, EraseIsStored
<1>6. CASE drv.next = "programmed"
  <2>1. drv'.pc \in Active
    BY <1>4, <1>6 DEF Active
  <2>. QED  BY <1>1, <1>2, <1>3, <1>6, <2>1, SendProgramIInv, ProgramIsStored
<1>7. CASE drv.next = "true"
  <2>1. fl'.mem = fl.mem /\ DoneTo(WriteEnd)
    BY <1>1, <1>7, SendDisableIInv DEF Phase, DrvrIInv
  <2>2. CASE drv'.pc = "send"
    BY <1>1, <1>3, <2>1, <2>2, StoreKept
  <2>3. CASE drv'.pc = "true"
    <3>. DEFINE r == "true"
    <3>1. r \in {"true", "false"} /\ drv'.pc = r
      BY <2>3
    <3>. HIDE DEF r
    <3>. QED  BY <1>1, <1>3, <2>1, <3>1, JobOver
  <2>. QED  BY <1>4, <1>7, <2>2, <2>3
<1>. QED  BY <1>1, <1>5, <1>6, <1>7

LEMMA StepsAreStored == DrvrIInv /\ [DrvrNext]_drvrVars => [Store!StoreNext]_(Store!storeVars)
<1>. SUFFICES ASSUME DrvrIInv, [DrvrNext]_drvrVars PROVE Store!StoreNext \/ UNCHANGED Store!storeVars
  OBVIOUS
<1>1. CASE FlashLoad
  BY <1>1, LoadIsStored DEF Store!StoreNext
<1>2. CASE WriteCall
  BY <1>2, CallIsStored DEF Store!StoreNext
<1>3. CASE SectorLoop \/ EraseDone \/ PageLoop \/ PageDone
  BY <1>3, LoopsAreStored DEF Store!StoreNext
<1>4. CASE SendOp
  BY <1>4, SendsAreStored DEF Store!StoreNext
<1>5. CASE Flwait
  BY <1>5, WaitsAreStored
<1>6. CASE DrvrTimer
  <2>1. fl'.mem = fl.mem /\ drv' = drv
    BY <1>6, DrvrTimerIInv DEF DrvrTimer
  <2>. QED  BY <2>1 DEF Store!storeVars, Job, JobResult
<1>7. CASE UNCHANGED drvrVars
  BY <1>7 DEF drvrVars, Store!storeVars, Job, JobResult
<1>. QED  BY <1>1, <1>2, <1>3, <1>4, <1>5, <1>6, <1>7 DEF DrvrNext, DrvrStep

\* FLASHDRVR::write with its device keeps FlashStore's promise, whichever
\* cells fail: a sector is erased only for a byte of the range that needs it,
\* nothing else outside the range changes, and a verified success is true.
THEOREM DriverImplementsStore == DrvrSpec => FlashWriteIsSafe
<1>1. DrvrInit => DrvrIInv /\ Store!StoreInit
  BY DrvrInitIInv, StoreBegins
<1>2. DrvrIInv /\ [DrvrNext]_drvrVars => DrvrIInv' /\ [Store!StoreNext]_(Store!storeVars)
  BY DrvrNextIInv, StepsAreStored
<1>. QED  BY <1>1, <1>2, PTL DEF DrvrSpec, FlashWriteIsSafe, Store!StoreSpec
=============================================================================
