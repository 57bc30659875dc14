-------------------------------- MODULE Scope --------------------------------
(***************************************************************************)
(* The logic analysers and the class SCOPE that reads them: wbscope        *)
(* (rtl/catzip/wbscope.v) with sw/host/scopecls.cpp, and the compressing   *)
(* wbscopc (rtl/debouncer/wbscopc.v) with the copy of the class in         *)
(* sw/debounce, clock by clock on one clock for the data and the bus.      *)
(*                                                                         *)
(* sc is the core.  A word of its memory is [adr, v]: adr is bit 31 of a   *)
(* compressed word, a count of clocks without a change.  signal is what    *)
(* was on i_data at each clock since the core was armed, and trigAt the    *)
(* clock with the trigger; neither is in the code.  hs is the program that *)
(* asks whether the scope is ready and reads it.                           *)
(***************************************************************************)
EXTENDS Integers, Sequences, FiniteSets, FiniteSetsExt

CONSTANTS LGMEM,        \* the memory has 2^LGMEM words
          ScopeHoldoffs,
          MaxStep,      \* MAX_STEP of wbscopc
          MaxChanges,   \* changes of the signal in a recording
          MaxClocks     \* clocks of a recording

ASSUME ScopeAssumption == LGMEM \in Nat \ {0} /\ MaxStep \in Nat \ {0} /\ ScopeHoldoffs \subseteq Nat

VARIABLES sc, signal, trigAt, hs
scopeVars == <<sc, signal, trigAt, hs>>

ScopeLen == 2 ^ LGMEM
Slots == 0 .. ScopeLen - 1
DataWord(v) == [adr |-> FALSE, v |-> v]
NoWord == DataWord(0)

\* The programs: what each tells SCOPE of its core and of readz.
Btnscope  == [compressed |-> TRUE, vector |-> TRUE]
Dbgscope  == [compressed |-> FALSE, vector |-> FALSE]
Spixscope == [compressed |-> FALSE, vector |-> FALSE]
Sramscope == [compressed |-> FALSE, vector |-> FALSE]
Programs == {Btnscope, Dbgscope, Spixscope, Sramscope}

ScopeInit ==
    /\ sc \in {[compressed |-> p.compressed, holdoff |-> h, armed |-> FALSE, primed |-> FALSE, trig |-> FALSE,
                stopped |-> FALSE, count |-> 0, stop |-> [i \in 0 .. 4 |-> FALSE],
                force |-> FALSE, inhibit |-> FALSE, ck |-> 0, timeout |-> FALSE, new |-> FALSE,
                qd |-> 0, imm |-> [adr |-> TRUE, v |-> 0], lst |-> [adr |-> TRUE, v |-> 0],
                ce |-> FALSE, data |-> NoWord,
                waddr |-> 0, mem |-> [i \in Slots |-> NoWord],
                raddr |-> 0, this |-> 0, nxt |-> NoWord, out |-> NoWord, acks |-> <<FALSE, FALSE>>] :
             p \in Programs, h \in ScopeHoldoffs}
    /\ signal = <<>> /\ trigAt = 0
    /\ \E p \in Programs : sc.compressed = p.compressed /\
          hs = [pc |-> "off", vector |-> p.vector, asked |-> 0, wait |-> 0, data |-> <<>>,
                scoplen |-> 0, holdoff |-> 0]

-----------------------------------------------------------------------------
(* The recorders.  i is the input, [d, trigger].                           *)
Trigger(i) == sc.primed /\ i.trigger
Holding(s, i) ==
    [s EXCEPT !.trig = @ \/ Trigger(i),
              !.count = IF sc.trig /\ ~sc.stopped THEN @ + 1 ELSE @,
              !.stopped = sc.trig /\ (@ \/ sc.count >= sc.holdoff)]
Record(s) ==
    [s EXCEPT !.mem[sc.waddr] = sc.data, !.waddr = (@ + 1) % ScopeLen,
              !.primed = @ \/ sc.waddr = ScopeLen - 1]

\* wbscope: STOPDELAY is 1, data the data_pipe.
Plain(i) ==
    LET s == Holding([sc EXCEPT !.data = DataWord(i.d)], i)
    IN  IF sc.stopped THEN s ELSE Record(s)

\* wbscopc: a word of data when there is a change, else a count of clocks.
ForceWrite(i) == \/ sc.timeout /\ ~sc.force /\ ~sc.inhibit
                 \/ Trigger(i) /\ ~sc.trig
                 \/ ~sc.primed
Event == sc.new \/ sc.force \/ sc.stopped
NewData(i) == i.d # sc.qd
Chosen == ~sc.lst.adr \/ ~sc.imm.adr
Compress(i) ==
    LET s == Holding(sc, i)
        t == [s EXCEPT !.stop = [k \in 0 .. 4 |-> IF k = 0 THEN sc.stopped ELSE sc.stop[k - 1]],
                       !.inhibit = sc.force, !.force = ForceWrite(i),
                       !.ck = IF Event THEN 0 ELSE @ + 1,
                       !.timeout = sc.ck >= MaxStep - 1,
                       !.new = NewData(i), !.qd = i.d,
                       !.imm = IF Event THEN DataWord(sc.qd) ELSE [adr |-> TRUE, v |-> sc.ck],
                       !.lst = sc.imm,
                       !.ce = Chosen /\ ~sc.stop[2],
                       !.data = IF Chosen THEN sc.lst ELSE DataWord(sc.qd)]
    IN  IF sc.ce THEN Record(t) ELSE t

\* dw_reset, from power up until br_config[2] is set.
Arm(i) ==
    [sc EXCEPT !.armed = TRUE, !.force = TRUE, !.timeout = TRUE, !.new = TRUE, !.qd = i.d,
               !.data = IF sc.compressed THEN NoWord ELSE DataWord(i.d)]

\* The bus: the word after the oldest is fetched ahead of each read.
BwStopped == IF sc.compressed THEN sc.stop[4] ELSE sc.stopped
ThisAddr(read) == (sc.raddr + sc.waddr + IF read THEN 1 ELSE 0) % ScopeLen
Bus(s, read) ==
    [s EXCEPT !.raddr = IF read /\ BwStopped THEN (@ + 1) % ScopeLen ELSE @,
              !.this = ThisAddr(read),
              !.nxt = sc.mem[sc.this],
              !.out = IF BwStopped THEN sc.nxt ELSE DataWord(sc.qd),
              !.acks = <<read, sc.acks[1]>>]

-----------------------------------------------------------------------------
(* SCOPE.  ready() reads the control word and keeps length and holdoff.    *)
Control == [stopped |-> BwStopped, triggered |-> sc.trig, lgmem |-> LGMEM, holdoff |-> sc.holdoff]
IsReady(v) == v.stopped /\ v.triggered
Known(h, v) == IF h.scoplen > 0 THEN h ELSE [h EXCEPT !.scoplen = 2 ^ v.lgmem, !.holdoff = v.holdoff]
AfterReady(h, v) ==
    LET k == Known(h, v)
    IN  IF ~IsReady(v) THEN [h EXCEPT !.pc = "off"]  \* decode_control ends the program
        ELSE IF k.scoplen <= 4 THEN [k EXCEPT !.pc = "done"]
        ELSE [k EXCEPT !.pc = "read"]

\* rawread by readz, a word a clock, or by readio, the next word after its answer.
Asks == hs.pc = "read" /\ hs.asked < hs.scoplen /\ hs.wait = 0
Reading ==
    LET got == IF sc.acks[2] THEN Append(hs.data, sc.out) ELSE hs.data
    IN  [hs EXCEPT !.data = got, !.pc = IF Len(got) = hs.scoplen THEN "done" ELSE "read",
                   !.asked = IF Asks THEN @ + 1 ELSE @,
                   !.wait = IF Asks THEN (IF hs.vector THEN 0 ELSE 2) ELSE IF @ > 0 THEN @ - 1 ELSE 0]

\* main() of btnscope, and of dbgscope, spixscope and sramscope.
HostClock ==
    CASE hs.pc = "control" -> hs' = AfterReady(hs, Control)
      [] hs.pc = "read"    -> hs' = Reading
      [] hs.pc = "off" /\ sc.stopped -> \/ ~BwStopped /\ UNCHANGED hs
                                     \/ hs' = [hs EXCEPT !.pc = "control"]
      [] OTHER -> UNCHANGED hs

Changes == Cardinality({k \in DOMAIN signal : signal[k] # IF k = 1 THEN 0 ELSE signal[k - 1]})
Inputs ==
    IF BwStopped THEN {[d |-> sc.qd, trigger |-> FALSE]}
    ELSE {i \in [d : {0, 1}, trigger : BOOLEAN] :
             /\ i.trigger => sc.primed /\ ~sc.trig
             /\ Len(signal) >= MaxClocks => i.trigger \/ sc.trig
             /\ i.d # sc.qd => Changes < MaxChanges}

ScopeClock ==
    \E i \in Inputs :
       /\ sc' = Bus(IF ~sc.armed THEN Arm(i) ELSE IF sc.compressed THEN Compress(i) ELSE Plain(i), Asks)
       /\ signal' = IF BwStopped THEN signal ELSE Append(signal, i.d)
       /\ trigAt' = IF Trigger(i) /\ ~sc.trig THEN Len(signal) + 1 ELSE trigAt
       /\ HostClock

ScopeNext == ScopeClock
ScopeFairness == WF_scopeVars(ScopeClock)

-----------------------------------------------------------------------------
(* What the program makes of the words: getaddresslen, the time of each    *)
(* word in the VCD file, and the offset of its time zero.                  *)
SumOf(f, S) == FoldSet(LAMBDA k, acc : f[k] + acc, 0, S)
AddressWords(d) == {k \in 2 .. Len(d) : d[k].adr}
GetAddressLen(d) == Len(d) + SumOf([k \in DOMAIN d |-> d[k].v], AddressWords(d))
MutOffset(h) == GetAddressLen(h.data) - h.holdoff
Offset(h) == GetAddressLen(h.data) - h.holdoff - 1

\* writevcd and print: the line of a word of data is at its address.
VcdTime(d, k) ==
    (Cardinality({j \in 1 .. k - 1 : j > 1 \/ ~d[j].adr}))
    + SumOf([j \in DOMAIN d |-> d[j].v], {j \in AddressWords(d) : j < k})
VcdLines(d) == {[at |-> VcdTime(d, k), v |-> d[k].v] : k \in {j \in DOMAIN d : ~d[j].adr}}
VcdValue(d, t) ==
    LET before == {l \in VcdLines(d) : l.at <= t}
    IN  (CHOOSE l \in before : \A m \in before : m.at <= l.at).v

-----------------------------------------------------------------------------
(* The core and the program keep their types.                              *)
ScopeTypeOK ==
    /\ sc.waddr \in Slots /\ sc.raddr \in Slots /\ sc.this \in Slots
    /\ sc.count \in 0 .. sc.holdoff + 1 /\ sc.ck \in 0 .. MaxStep + 1
    /\ \A k \in Slots : sc.mem[k].adr => sc.mem[k].v <= MaxStep
    /\ hs.pc \in {"off", "control", "read", "done"} /\ Len(hs.data) <= hs.scoplen

Done == hs.pc = "done" /\ hs.data # <<>>
Shows(d, base) ==
    LET times == {l.at : l \in VcdLines(d)}
    IN  \A t \in Min(times) .. Max(times) :
           base + t \in DOMAIN signal /\ VcdValue(d, t) = signal[base + t]

(* A compressed dump is one clock late for the stages of wbscopc, and      *)
(* another if its first word is a count, which has a place but no time.    *)
Late(d) == (IF sc.compressed THEN 1 ELSE 0) + (IF d[1].adr THEN 1 ELSE 0)

(* writevcd: the file is what was on the wires, clock for clock, whatever  *)
(* the compression left out and however the words were read, and its time  *)
(* zero is the clock that saw the trigger, but for the clocks by which a   *)
(* compressed dump is Late.                                                *)
TimeZeroIsTheTrigger == Done => Shows(hs.data, trigAt - Offset(hs) + Late(hs.data))

(* A program that has been told that the scope is ready reads a memory     *)
(* that nothing writes any more.                                           *)
ReadyIsFrozen == [][hs.pc = "read" => sc'.mem = sc.mem /\ sc'.waddr = sc.waddr]_scopeVars

(* A scope that has triggered stops, and a program that asks gets an end.  *)
CaptureEnds == /\ sc.trig ~> BwStopped
               /\ hs.pc \in {"control", "read"} ~> hs.pc \in {"off", "done"}

(* wbscope, wbscopc and SCOPE: a program reads a memory that has come to   *)
(* rest, and what it makes of it is the signal.                            *)
DumpIsTheSignal == [](ScopeTypeOK /\ TimeZeroIsTheTrigger) /\ ReadyIsFrozen
=============================================================================
