------------------------------- MODULE ElfLoad -------------------------------
(***************************************************************************)
(* How a program gets into memory and starts: elfread in its two versions  *)
(* (sw/host/zipelf.cpp and sim/verilated/zipelf.cpp), the loader zipload   *)
(* over the bus of a board whose CPU is running something else, MAINTB's   *)
(* load of the simulator, and the start-up code of sw/zlib/crt0.c.         *)
(*                                                                         *)
(* A file is a sequence of segments [addr, filesz, memsz]; byte k of       *)
(* segment i is <<i, k>>.  elfread lays the sections out in one zeroed     *)
(* block: block gives what is at an offset, r the pointers, hdr the        *)
(* (start, length) written at a section's offset.  Two regions of memory   *)
(* follow each other with a gap, as SDRAM and block RAM do.  A word has    *)
(* WordSize bytes.                                                         *)
(***************************************************************************)
EXTENDS Integers, FiniteSets, Sequences

CONSTANTS WordSize,   \* 4 in the code
          Sdram,      \* [base |-> , len |-> ]
          Bkram,
          Files       \* the ELF files to load: sequences of segments

ASSUME WordSizeAssumption == WordSize \in Nat /\ WordSize >= 2

VARIABLES el,         \* the loader
          ram,        \* memory
          cpu         \* "old", "halted", "boot", "main"
elfVars == <<el, ram, cpu>>

ElfVersions == {"host", "sim"}
PTR   == 1                     \* sizeof(ELFSECTION *)
LABEL == 2                     \* m_start, m_len
ELFSECTION == LABEL + WordSize \* with m_data[4]

ZeroByte == <<0, 0>>               \* a zero byte, no byte of the file
Old  == <<0, 1>>               \* whatever memory held before

RoundDown(n) == n - (n % WordSize)
MutRoundUp(n) == RoundDown(n)
RoundUp(n) == RoundDown(n + WordSize - 1)
Within(s, reg) == s.start >= reg.base /\ s.start + s.len <= reg.base + reg.len
RamAddrs == {a \in 0 .. Bkram.base + Bkram.len - 1 :
                \E g \in {Sdram, Bkram} : a >= g.base /\ a < g.base + g.len}

-----------------------------------------------------------------------------
(* elfread: one step of the loop over the program headers, in both versions *)
NoHeader == [start |-> 0, len |-> 0]
Section(v, file, b, i) ==
    LET seg == file[i]
        ptr == [b EXCEPT !.r = Append(@, b.off)]
    IN  IF v = "sim" /\ seg.filesz = 0 THEN ptr
        ELSE [ptr EXCEPT
                !.cur = @ + 1,
                !.hdr = [o \in DOMAIN @ \union {b.off} |->
                           IF o = b.off THEN [start |-> seg.addr, len |-> seg.filesz] ELSE @[o]],
                !.off = @ + seg.memsz + ELFSECTION,
                !.block = @ \union {<<b.off + LABEL + k, <<i, k>>>> : k \in 0 .. seg.filesz - 1}]

ElfRead(v, file) ==
    LET n == Len(file)
        b[i \in 0 .. n] ==
            IF i = 0 THEN [r |-> <<>>, cur |-> 0, off |-> (n + 1) * PTR, hdr |-> <<>>, block |-> {}]
            ELSE Section(v, file, b[i-1], i)
        r == Append(b[n].r, b[n].off)
        last == r[b[n].cur + 1]
    IN  [r |-> r, block |-> b[n].block,
         hdr |-> [o \in DOMAIN b[n].hdr \union {r[n + 1], last} |->
                     IF o \in DOMAIN b[n].hdr /\ o # last THEN b[n].hdr[o] ELSE NoHeader]]

\* The sections a caller's loop visits: those before the first of length zero.
HeaderAt(e, o) == IF o \in DOMAIN e.hdr THEN e.hdr[o] ELSE NoHeader
ListLength(e) ==
    CHOOSE k \in 0 .. Len(e.r) :
        /\ k = Len(e.r) \/ HeaderAt(e, e.r[k + 1]).len = 0
        /\ \A j \in 1 .. k : HeaderAt(e, e.r[j]).len # 0

\* Byte k of m_data; everything nobody read into is zero.
DataByte(e, o, k) ==
    IF \E x \in e.block : x[1] = o + LABEL + k
    THEN (CHOOSE x \in e.block : x[1] = o + LABEL + k)[2] ELSE ZeroByte

-----------------------------------------------------------------------------
Idle == [pc |-> "idle", version |-> "host", file |-> <<>>, elf |-> ElfRead("host", <<>>), i |-> 1]

ElfInit == el = Idle /\ ram = [a \in RamAddrs |-> Old] /\ cpu = "old"

Start ==
    /\ el.pc = "idle" /\ UNCHANGED <<ram, cpu>>
    /\ \E f \in Files, v \in ElfVersions :
          el' = [el EXCEPT !.pc = IF v = "host" THEN "halt" ELSE "load", !.version = v,
                           !.file = f, !.elf = ElfRead(v, f)]

\* The program that is still in the CPU goes on writing to memory.
OldProgram ==
    /\ cpu = "old" /\ el.pc # "idle" /\ el.version = "host" /\ UNCHANGED <<el, cpu>>
    /\ \E a \in RamAddrs : ram' = [ram EXCEPT ![a] = Old]

\* zipload's main(): version, then CPU_HALT|CPU_RESET.
Halt ==
    /\ el.pc = "halt" /\ cpu' = "halted" /\ UNCHANGED ram
    /\ el' = [el EXCEPT !.pc = "check"]

Sect(i) == HeaderAt(el.elf, el.elf.r[i])
Visited == 1 .. ListLength(el.elf)

\* The loop that looks for a memory for every section before any is written.
Check ==
    /\ el.pc = "check" /\ UNCHANGED <<ram, cpu>>
    /\ el' = [el EXCEPT !.pc = IF \A i \in Visited : Within(Sect(i), Sdram) \/ Within(Sect(i), Bkram)
                               THEN "load" ELSE "exit"]

\* The bytes a section puts into memory: the rounded length of the host, the
\* unswapped last word of MAINTB::load's block RAM branch.
HostBytes(o, s) == [k \in 0 .. RoundUp(s.len) - 1 |-> DataByte(el.elf, o, k)]
SimBytes(o, s) ==
    IF s.start >= Sdram.base /\ s.start < Sdram.base + Sdram.len
    THEN [k \in 0 .. s.len - 1 |-> DataByte(el.elf, o, k)]
    ELSE [k \in 0 .. RoundUp(s.len) - 1 |->
             IF k < RoundDown(s.len) THEN DataByte(el.elf, o, k)
             ELSE DataByte(el.elf, o, 2 * RoundDown(k) + WordSize - 1 - k)]
Put(s, bytes) ==
    [a \in RamAddrs |-> IF a - s.start \in DOMAIN bytes THEN bytes[a - s.start] ELSE ram[a]]

LoadHost ==
    /\ el.pc = "load" /\ el.version = "host" /\ el.i \in Visited /\ UNCHANGED cpu
    /\ ram' = Put(Sect(el.i), HostBytes(el.elf.r[el.i], Sect(el.i)))
    /\ el' = [el EXCEPT !.i = @ + 1]

\* A bus error during writei, after some of its words: BUSERR ends the program.
LoadFails ==
    /\ el.pc = "load" /\ el.version = "host" /\ el.i \in Visited /\ UNCHANGED cpu
    /\ \E n \in 0 .. Sect(el.i).len :
          LET all == HostBytes(el.elf.r[el.i], Sect(el.i))
          IN  n % WordSize = 0 /\ ram' = Put(Sect(el.i), [k \in 0 .. n - 1 |-> all[k]])
    /\ el' = [el EXCEPT !.pc = "exit"]

\* MAINTB::load of one section; a section no region takes is only reported.
LoadSim ==
    /\ el.pc = "load" /\ el.version = "sim" /\ el.i \in Visited /\ UNCHANGED cpu
    /\ ram' = IF Sect(el.i).start \in RamAddrs
              THEN Put(Sect(el.i), SimBytes(el.elf.r[el.i], Sect(el.i))) ELSE ram
    /\ el' = [el EXCEPT !.i = @ + 1]

\* The registers are cleared, the cache too, the PC set, and the CPU released.
Go ==
    /\ el.pc = "load" /\ el.i \notin Visited /\ UNCHANGED ram
    /\ \/ cpu' = "boot" /\ el' = [el EXCEPT !.pc = "started"]
       \/ el.version = "host" /\ cpu' = cpu /\ el' = [el EXCEPT !.pc = "exit"]

\* _bootloader with _rom null: the words of the .bss of the last RAM section.
BssSegs == {i \in DOMAIN el.file : el.file[i].memsz > el.file[i].filesz /\ el.file[i].filesz > 0}
Boot ==
    /\ cpu = "boot" /\ cpu' = "main" /\ UNCHANGED el
    /\ ram' = [a \in RamAddrs |->
                  IF \E i \in BssSegs : a >= el.file[i].addr + el.file[i].filesz
                                        /\ a < el.file[i].addr + RoundUp(el.file[i].memsz)
                  THEN ZeroByte ELSE ram[a]]

ElfNext == Start \/ OldProgram \/ Halt \/ Check \/ LoadHost \/ LoadFails \/ LoadSim \/ Go \/ Boot

-----------------------------------------------------------------------------
(* The loader's state, the memory and the CPU keep their types.            *)
ElfTypeOK ==
    /\ el.pc \in {"idle", "halt", "check", "load", "exit", "started"}
    /\ cpu \in {"old", "halted", "boot", "main"}
    /\ DOMAIN ram = RamAddrs /\ el.i \in 1 .. Len(el.file) + 1

EmptyLast(f) == \A i, j \in DOMAIN f : f[i].filesz = 0 /\ j > i => f[j].filesz = 0
WholeWords(f) == \A i \in DOMAIN f : f[i].filesz % WordSize = 0
Fits(f) == \A i \in DOMAIN f :
              f[i].filesz > 0 => \A k \in 0 .. f[i].memsz - 1 : f[i].addr + k \in RamAddrs

(* When main() runs, every byte of the file is where its program header    *)
(* puts it and .bss is zero, whatever ran before, for a file whose empty   *)
(* segments come last and, in the simulator's block RAM, whose segments    *)
(* are whole words.                                                        *)
MainSeesTheImage ==
    cpu = "main" /\ EmptyLast(el.file) /\ Fits(el.file)
      /\ (el.version = "sim" => WholeWords(el.file)) =>
        \A i \in DOMAIN el.file : el.file[i].filesz > 0 =>
          \A k \in 0 .. el.file[i].memsz - 1 :
             ram[el.file[i].addr + k] = IF k < el.file[i].filesz THEN <<i, k>> ELSE ZeroByte

(* The bytes that rounding a section up to words adds to it come from the  *)
(* section's own zeroed room, never from the next section's header or data.*)
RoundingAddsZeros ==
    el.version = "host" => \A i \in Visited :
        \A k \in Sect(i).len .. RoundUp(Sect(i).len) - 1 :
            /\ DataByte(el.elf, el.elf.r[i], k) = ZeroByte
            /\ \A j \in DOMAIN el.elf.r : el.elf.r[i] + LABEL + k \notin
                  el.elf.r[j] .. el.elf.r[j] + LABEL - 1

(* A file with a segment no memory takes changes nothing on the board.     *)
NothingWrittenUnlessAllFits ==
    [][ram' # ram /\ el.pc = "load" /\ el.version = "host" =>
         \A i \in Visited : Within(Sect(i), Sdram) \/ Within(Sect(i), Bkram)]_elfVars

(* From the first byte that is written to the board until the last, the    *)
(* CPU is held, and a load that fails leaves it held.                      *)
CpuHeldWhileLoading ==
    el.version = "host" /\ el.pc \in {"check", "load", "exit"} => cpu = "halted"

(* zipload, MAINTB::load and crt0.c: a load is of the whole file and a     *)
(* held CPU, or of nothing.                                                *)
LoadIsWhole ==
    /\ [](MainSeesTheImage /\ RoundingAddsZeros /\ CpuHeldWhileLoading)
    /\ NothingWrittenUnlessAllFits
=============================================================================
