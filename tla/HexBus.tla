------------------------------- MODULE HexBus -------------------------------
(***************************************************************************)
(* The debugging bus of the board, end to end: the host class HEXBUS       *)
(* (sw/host/hexbus.cpp) that turns readio/readi/readz/writeio/writei/      *)
(* writez calls into characters, the device that decodes the characters    *)
(* (rtl/hexbus/hbdechex.v, hbpack.v), executes them on the Wishbone bus    *)
(* (hbexec.v) and reports back in characters (hbints.v, hbidle.v,          *)
(* hbdeword.v, hbgenhex.v, hbnewline.v), and the two character streams     *)
(* between them.                                                           *)
(*                                                                         *)
(* Here the device works a whole command at a time; HbExec models the same *)
(* execution clock by clock.  A bus word has two digits of base Base in    *)
(* place of eight of base 16, its two low bits keep their meaning in an    *)
(* address command, and every sum wraps at the width of the word.          *)
(***************************************************************************)
EXTENDS Integers, Sequences, SequencesExt

CONSTANTS
    Base,        \* digits per place; a word has two places
    Addrs,       \* byte addresses the client uses, multiples of four
    Data,        \* data words
    Lens,        \* lengths of the client's vectors
    Kinds,       \* the calls the client makes, a subset of AllKinds
    Errors,      \* whether a Wishbone slave may answer with an error
    SlowBus,     \* whether a bus cycle may outlast the next character
    SplitReads,  \* whether the stream may run dry inside an address report
    Interrupts,  \* whether the board interrupts the host
    MaxIdle,     \* idle reports of the device between two answers
    Backlog      \* characters on their way, either way, when a call is made

AllKinds == {"readio", "readi", "readz", "writeio", "writei", "writez"}
WordSize == Base * Base
Word     == 0 .. WordSize - 1

ASSUME HexBusAssumption ==
    /\ Base \in Nat /\ Base % 4 = 0 /\ Base > 0 /\ Base <= 16
    /\ Addrs \subseteq {a \in Word : a % 4 = 0}
    /\ Data \subseteq Word
    /\ Lens \subseteq Nat \ {0}
    /\ Kinds \subseteq AllKinds
    /\ {Errors, SlowBus, SplitReads, Interrupts} \subseteq BOOLEAN
    /\ {MaxIdle, Backlog} \subseteq Nat

VARIABLES
    \* HEXBUS, the members that outlive a call
    m_addr_set, m_inc, m_lastaddr, m_cmd, m_isspace, m_nacks,
    m_interrupt_flag, m_bus_err,
    \* the call in progress and where it is
    pc, call, n, buf, word, abort_countdown, outcome,
    \* characters in flight, host to device and device to host
    h2d, d2h,
    \* the device: hbpack, hbexec, hbnewline, hbidle
    cmd_loaded, r_cmd, r_word, o_wb_cyc, o_wb_we, o_wb_addr, inc, o_wb_data,
    last_cr, nidle,
    \* history: bus accesses made since the call began, a command that met a
    \* busy device
    accesses, dropped

host    == <<m_addr_set, m_inc, m_lastaddr, m_cmd, m_isspace, m_nacks,
             m_interrupt_flag, m_bus_err>>
frame   == <<pc, call, n, buf, word, abort_countdown, outcome>>
device  == <<cmd_loaded, r_cmd, r_word, o_wb_cyc, o_wb_we, o_wb_addr, inc,
             o_wb_data, last_cr, nidle>>
history == <<accesses, dropped>>
vars    == <<host, frame, h2d, d2h, device, history>>

(***************************************************************************)
(* Characters.  A digit is a natural number below Base written as itself   *)
(* in Digit; every other character of the protocol is a string.            *)
(***************************************************************************)
Digit    == [d \in 0 .. 15 |-> <<"0", "1", "2", "3", "4", "5", "6", "7",
                                 "8", "9", "a", "b", "c", "d", "e", "f">>[d + 1]]
Digits   == {Digit[d] : d \in 0 .. Base - 1}
Value(c) == CHOOSE d \in 0 .. Base - 1 : Digit[d] = c
Space    == "space"        \* CR, LF: what isspace() accepts
Commands == {"R", "W", "A", "S"}
Chars    == Digits \cup Commands \cup {Space, "K", "E", "I", "Z", "T"}

\* sprintf("%08x"): every place, leading zeros included
AllDigits(w) == <<Digit[w \div Base], Digit[w % Base]>>
\* sprintf("%x") of a word that is not zero: no leading zeros
FewDigits(w) == IF w < Base THEN <<Digit[w]>> ELSE AllDigits(w)
\* one more digit shifted into the low end of a word
ShiftIn(w, c) == (w * Base + Value(c)) % WordSize

IsRead(k)      == k \in {"readio", "readi", "readz"}
Increments(k)  == k \in {"readi", "writei"}
Flag(b)        == IF b THEN 1 ELSE 0

(***************************************************************************)
(* The host.                                                               *)
(***************************************************************************)
\* Idle reports readword() sits through before it gives up
AbortCountdown == 3

NoCall == [kind |-> "none", a |-> 0, len |-> 0, buf |-> <<>>]

Calls == [kind : Kinds, a : Addrs, len : Lens,
          buf : UNION {[1 .. l -> Data] : l \in Lens} \cup {<<>>}]

\* A call the client may make: readio and writeio are of length one, a
\* write brings its words, a read brings none.
Legal(c) ==
    /\ c.kind \in {"readio", "writeio"} => c.len = 1
    /\ Len(c.buf) = IF IsRead(c.kind) THEN 0 ELSE c.len

\* Mutant of EncodeAddress: m_lastaddr is not compared
MutEncodeAddress(a, p) ==
    IF m_addr_set /\ m_inc = p THEN <<>> ELSE <<"A">> \o AllDigits(a + Flag(~p))

\* encode_address(a | (p ? 0 : 1)): nothing if the device is known to hold
\* the address already
EncodeAddress(a, p) ==
    LET w == a + Flag(~p)
    IN  IF m_addr_set /\ w = m_lastaddr /\ m_inc = (w % 2 = 0)
        THEN <<>>
        ELSE <<"A">> \o AllDigits(w)

WriteCommand(v) ==
    <<"W">> \o (IF v # 0 THEN FewDigits(v) ELSE <<>>) \o <<Space>>

ReadCommand == <<"R", Space>>

\* Mutant of ReadvBegin: every read command is sent at once
MutReadvBegin(c) ==
    /\ IsRead(c.kind)
    /\ h2d' = h2d \o EncodeAddress(c.a, Increments(c.kind))
                  \o FlattenSeq([i \in 1 .. c.len |-> ReadCommand])
    /\ m_lastaddr' = c.a
    /\ m_addr_set' = TRUE
    /\ m_inc' = Increments(c.kind)
    /\ pc' = "readword"
    /\ n' = 0
    /\ UNCHANGED m_nacks

\* readv up to its first m_dev->write; readio, readi and readz are calls of it
ReadvBegin(c) ==
    /\ IsRead(c.kind)
    /\ h2d' = h2d \o EncodeAddress(c.a, Increments(c.kind)) \o ReadCommand
    /\ m_lastaddr' = c.a
    /\ m_addr_set' = TRUE
    /\ m_inc' = Increments(c.kind)
    /\ pc' = "readword"
    /\ n' = 0
    /\ UNCHANGED m_nacks

\* The loop of writev sends a word once all but one of the words before it
\* are acknowledged: with k acknowledgements in, k + 2 words are out.
WordsOut(len, k) == IF k + 2 < len THEN k + 2 ELSE len

\* The write commands for words from .. to of the call
WriteCommands(c, from, to) ==
    FlattenSeq([i \in 1 .. to - from + 1 |-> WriteCommand(c.buf[from + i - 1])])

\* writev up to its first readidle: the address and the first two words
WritevBegin(c) ==
    /\ ~IsRead(c.kind)
    /\ h2d' = h2d \o EncodeAddress(c.a, Increments(c.kind))
                  \o WriteCommands(c, 1, WordsOut(c.len, 0))
    /\ m_lastaddr' = c.a
    /\ m_addr_set' = TRUE
    /\ m_nacks' = 0
    /\ pc' = "readidle"
    /\ n' = WordsOut(c.len, 0)
    /\ UNCHANGED m_inc

Call(c) ==
    /\ pc = "idle"
    /\ Len(h2d) + Len(d2h) <= Backlog
    /\ Legal(c)
    /\ ReadvBegin(c) \/ WritevBegin(c)
    /\ call' = c
    /\ buf' = <<>>
    /\ word' = 0
    /\ abort_countdown' = AbortCountdown
    /\ outcome' = "none"
    /\ accesses' = <<>>
    /\ UNCHANGED <<m_cmd, m_isspace, m_interrupt_flag, m_bus_err, d2h, device,
                   dropped>>

\* Mutant of NewCommand: white space is not remembered
MutNewCommand(c) ==
    /\ m_cmd' = IF c = Space THEN m_cmd ELSE c
    /\ m_isspace' = FALSE
    /\ word' = 0

\* The tail of every non-digit: a command other than white space is kept
NewCommand(c) ==
    /\ m_cmd' = IF c = Space THEN m_cmd ELSE c
    /\ m_isspace' = (c = Space)
    /\ word' = 0

Advance == m_lastaddr' = IF m_inc THEN (m_lastaddr + 4) % WordSize
                                  ELSE m_lastaddr

\* HEXB_ADDR: the device says where it is and whether it increments
TakeAddress ==
    /\ m_addr_set' = TRUE
    /\ m_inc' = (word % 2 = 0)
    /\ m_lastaddr' = word - (word % 4)

\* Mutant of Acknowledged: an acknowledgement is not counted
MutAckUncounted ==
    \/ /\ ~m_isspace /\ m_cmd = "K"
       /\ Advance
       /\ UNCHANGED <<m_addr_set, m_inc, m_interrupt_flag, m_nacks>>
    \/ /\ ~m_isspace /\ m_cmd = "A"
       /\ TakeAddress
       /\ UNCHANGED <<m_interrupt_flag, m_nacks>>

\* A response that readword and readidle treat alike and that ends no loop
Acknowledged ==
    \/ /\ ~m_isspace /\ m_cmd = "K"
       /\ Advance
       /\ m_nacks' = m_nacks + 1
       /\ UNCHANGED <<m_addr_set, m_inc, m_interrupt_flag>>
    \/ /\ ~m_isspace /\ m_cmd = "I"
       /\ m_interrupt_flag' = TRUE
       /\ UNCHANGED <<m_addr_set, m_inc, m_lastaddr, m_nacks>>
    \/ /\ ~m_isspace /\ m_cmd = "A"
       /\ TakeAddress
       /\ UNCHANGED <<m_interrupt_flag, m_nacks>>

\* Nothing to do: repeated white space, or a command not in the list
Ignored(handled) ==
    /\ m_isspace \/ m_cmd \notin handled
    /\ UNCHANGED <<m_addr_set, m_inc, m_lastaddr, m_interrupt_flag, m_nacks,
                   m_bus_err>>

Take == /\ d2h # <<>>
        /\ d2h' = Tail(d2h)
        /\ UNCHANGED <<device, accesses, dropped>>

Throw == pc' = "idle" /\ outcome' = "buserr"

\* readword(): a digit
ReadwordDigit ==
    /\ pc = "readword"
    /\ Take
    /\ Head(d2h) \in Digits
    /\ word' = ShiftIn(word, Head(d2h))
    /\ m_isspace' = FALSE
    /\ UNCHANGED <<m_addr_set, m_inc, m_lastaddr, m_cmd, m_nacks,
                   m_interrupt_flag, m_bus_err, pc, call, n, buf,
                   abort_countdown, outcome, h2d>>

\* readword(): the end of a response that is neither the awaited word nor
\* an error
ReadwordOther ==
    /\ pc = "readword"
    /\ Take
    /\ Head(d2h) \notin Digits
    /\ \/ /\ Acknowledged
          /\ UNCHANGED <<m_bus_err, abort_countdown>>
       \/ /\ ~m_isspace /\ m_cmd = "T"
          /\ m_addr_set' = FALSE
          /\ UNCHANGED <<m_inc, m_lastaddr, m_interrupt_flag, m_nacks,
                         m_bus_err, abort_countdown>>
       \/ /\ ~m_isspace /\ m_cmd = "Z" /\ abort_countdown > 1
          /\ abort_countdown' = abort_countdown - 1
          /\ UNCHANGED <<m_addr_set, m_inc, m_lastaddr, m_interrupt_flag,
                         m_nacks, m_bus_err>>
       \/ /\ Ignored({"R", "K", "I", "E", "Z", "A", "T"})
          /\ UNCHANGED abort_countdown
    /\ NewCommand(Head(d2h))
    /\ UNCHANGED <<pc, call, n, buf, outcome, h2d>>

\* readword() returns a word to readv, which asks for the next one or makes
\* its final check of the address and returns
ReadwordDone ==
    /\ pc = "readword"
    /\ Take
    /\ Head(d2h) \notin Digits
    /\ ~m_isspace /\ m_cmd = "R"
    /\ Advance
    /\ NewCommand(Head(d2h))
    /\ buf' = Append(buf, word)
    /\ n' = n + 1
    /\ abort_countdown' = AbortCountdown
    /\ IF n + 1 < call.len
       THEN /\ h2d' = h2d \o ReadCommand
            /\ UNCHANGED <<pc, outcome>>
       ELSE LET span == IF Increments(call.kind) THEN 4 * call.len ELSE 0
            IN  /\ h2d' = h2d
                /\ IF m_lastaddr' = (call.a + span) % WordSize
                   THEN pc' = "idle" /\ outcome' = "ok"
                   ELSE pc' = "exit" /\ UNCHANGED outcome
    /\ UNCHANGED <<m_addr_set, m_inc, m_nacks, m_interrupt_flag, m_bus_err,
                   call>>

\* readword() throws BUSERR, for an error of the bus or as a time-out
ReadwordThrow ==
    /\ pc = "readword"
    /\ Take
    /\ Head(d2h) \notin Digits
    /\ ~m_isspace
    /\ \/ /\ m_cmd = "E"
          /\ m_bus_err' = TRUE
          /\ NewCommand(Head(d2h))
       \/ /\ m_cmd = "Z" /\ abort_countdown = 1
          /\ UNCHANGED <<m_bus_err, m_cmd, m_isspace, word>>
    /\ Throw
    /\ UNCHANGED <<m_addr_set, m_inc, m_lastaddr, m_nacks, m_interrupt_flag,
                   call, n, buf, abort_countdown, h2d>>

\* readidle(): a digit.  word is local to one call of readidle.
ReadidleDigit ==
    /\ pc = "readidle"
    /\ Take
    /\ Head(d2h) \in Digits
    /\ word' = ShiftIn(word, Head(d2h))
    /\ UNCHANGED <<host, pc, call, n, buf, abort_countdown, outcome, h2d>>

\* readidle(): the end of a response
ReadidleOther ==
    /\ pc = "readidle"
    /\ Take
    /\ Head(d2h) \notin Digits
    /\ \/ /\ Acknowledged
          /\ UNCHANGED m_bus_err
       \/ /\ ~m_isspace /\ m_cmd = "R"
          /\ Advance
          /\ UNCHANGED <<m_addr_set, m_inc, m_interrupt_flag, m_nacks,
                         m_bus_err>>
       \/ /\ ~m_isspace /\ m_cmd = "T"
          /\ m_addr_set' = FALSE
          /\ m_bus_err' = FALSE
          /\ UNCHANGED <<m_inc, m_lastaddr, m_interrupt_flag, m_nacks>>
       \/ Ignored({"A", "R", "I", "K", "E", "T"})
    /\ IF m_isspace /\ Head(d2h) = Space
       THEN UNCHANGED <<m_cmd, m_isspace, word>>
       ELSE NewCommand(Head(d2h))
    /\ UNCHANGED <<pc, call, n, buf, abort_countdown, outcome, h2d>>

\* readidle() throws BUSERR out of writev, before the tail that would have
\* recorded the character just read
ReadidleThrow ==
    /\ pc = "readidle"
    /\ Take
    /\ Head(d2h) \notin Digits
    /\ ~m_isspace /\ m_cmd = "E"
    /\ m_bus_err' = TRUE
    /\ Throw
    /\ UNCHANGED <<m_addr_set, m_inc, m_lastaddr, m_cmd, m_isspace, m_nacks,
                   m_interrupt_flag, call, n, buf, word, abort_countdown, h2d>>

\* Mutant of AcksMissing: one acknowledgement too few is waited for
MutAcksMissing == m_nacks + 1 < call.len

\* The condition of writev's second loop
AcksMissing == m_nacks < call.len

\* available() is false, however much is still on its way: readidle returns
\* to the loops of writev, which send the words the acknowledgements allow,
\* call readidle again while any are missing, or end the call
ReadidleReturn ==
    /\ pc = "readidle"
    /\ SplitReads \/ m_isspace \/ m_cmd # "A"
    /\ word' = 0
    /\ n' = WordsOut(call.len, m_nacks)
    /\ h2d' = h2d \o WriteCommands(call, n + 1, n')
    /\ IF AcksMissing
       THEN UNCHANGED <<pc, outcome, m_lastaddr, m_addr_set>>
       ELSE /\ pc' = "idle" /\ outcome' = "ok"
            /\ m_lastaddr' = CASE call.kind = "writei" ->
                                    (m_lastaddr + 4 * call.len) % WordSize
                               [] call.kind = "writeio" -> call.a
                               [] OTHER -> m_lastaddr
            /\ m_addr_set' = (m_addr_set \/ call.kind = "writeio")
    /\ UNCHANGED <<m_inc, m_cmd, m_isspace, m_nacks, m_interrupt_flag,
                   m_bus_err, call, buf, abort_countdown, d2h, device,
                   history>>

\* usleep(): the next characters, sixteen at most, are taken off the wire
\* whole and only looked at for an interrupt, an error or a reset.  wait()
\* is a loop of usleep().
Usleep ==
    /\ pc = "idle"
    /\ d2h # <<>>
    /\ \E k \in 1 .. Len(d2h) :
         LET some == SubSeq(d2h, 1, k)
             last == SelectLastInSeq(some, LAMBDA c : c \in {"E", "T"})
         IN  /\ k <= 16
             /\ d2h' = SubSeq(d2h, k + 1, Len(d2h))
             /\ m_interrupt_flag' = (m_interrupt_flag \/ Contains(some, "I"))
             /\ m_bus_err' = IF last = 0 THEN m_bus_err ELSE some[last] = "E"
    /\ UNCHANGED <<m_addr_set, m_inc, m_lastaddr, m_cmd, m_isspace, m_nacks,
                   frame, h2d, device, accesses, dropped>>

\* clear() and reset_err()
Clear ==
    /\ pc = "idle"
    /\ m_interrupt_flag' = FALSE
    /\ m_bus_err' \in {m_bus_err, FALSE}
    /\ UNCHANGED <<m_addr_set, m_inc, m_lastaddr, m_cmd, m_isspace, m_nacks,
                   frame, h2d, d2h, device, accesses, dropped>>

(***************************************************************************)
(* The device.                                                             *)
(***************************************************************************)

\* A response word leaves the device: its letter, and unless it is a special
\* one its digits (hbdeword, hbgenhex)
Send(s) == d2h' = d2h \o s /\ last_cr' = FALSE

\* Mutant of NextAddr: the address stays
MutNextAddr == o_wb_addr

\* The address hbexec moves on to with an accepted request
NextAddr == (o_wb_addr + Flag(inc)) % (WordSize \div 4)

\* The command hbpack completes reaches hbexec, which takes it when idle; a
\* special command (S) changes nothing there
Execute(cmd, w) ==
    \/ /\ ~o_wb_cyc /\ cmd = "A"
       /\ o_wb_addr' = IF (w \div 2) % 2 = 0 THEN w \div 4
                       ELSE (w \div 4 + o_wb_addr) % (WordSize \div 4)
       /\ inc' = (w % 2 = 0)
       /\ Send(<<"A">> \o AllDigits(4 * o_wb_addr' + Flag(~inc')))
       /\ UNCHANGED <<o_wb_cyc, o_wb_we, o_wb_data, dropped>>
    \/ /\ ~o_wb_cyc /\ cmd \in {"R", "W"}
       /\ o_wb_cyc' = TRUE
       /\ o_wb_we' = (cmd = "W")
       /\ o_wb_data' = w
       /\ UNCHANGED <<o_wb_addr, inc, d2h, last_cr, dropped>>
    \/ /\ o_wb_cyc \/ cmd = "S"
       /\ dropped' = (dropped \/ o_wb_cyc)
       /\ UNCHANGED <<o_wb_cyc, o_wb_we, o_wb_addr, inc, o_wb_data, d2h,
                      last_cr>>

\* One character through hbdechex and hbpack: a digit is shifted in, any
\* other character ends the command before it, if there is one, and R, W, A
\* and S start the next.  The characters are far apart compared with a bus
\* cycle unless SlowBus.
DeviceChar ==
    /\ h2d # <<>>
    /\ SlowBus \/ ~o_wb_cyc
    /\ h2d' = Tail(h2d)
    /\ LET c == Head(h2d) IN
       \/ /\ c \in Digits
          /\ r_word' = ShiftIn(r_word, c)
          /\ UNCHANGED <<cmd_loaded, r_cmd, o_wb_cyc, o_wb_we, o_wb_addr, inc,
                         o_wb_data, d2h, last_cr, dropped>>
       \/ /\ c \notin Digits
          /\ cmd_loaded' = (c \in Commands)
          /\ r_cmd' = IF c \in Commands THEN c ELSE r_cmd
          /\ r_word' = 0
          /\ IF cmd_loaded THEN Execute(r_cmd, r_word)
             ELSE UNCHANGED <<o_wb_cyc, o_wb_we, o_wb_addr, inc, o_wb_data,
                              d2h, last_cr, dropped>>
    /\ UNCHANGED <<host, frame, nidle, accesses>>

\* The Wishbone slave takes the request, at which the address moves on, and
\* answers it with an acknowledgement or an error
BusAnswer(err, v) ==
    /\ o_wb_cyc
    /\ o_wb_cyc' = FALSE
    /\ err => Errors
    /\ o_wb_addr' = NextAddr
    /\ Send(IF err THEN <<"E">>
            ELSE IF o_wb_we THEN <<"K">> \o AllDigits(0)
            ELSE <<"R">> \o AllDigits(v))
    /\ nidle' = 0
    /\ accesses' = Append(accesses, [we |-> o_wb_we, a |-> 4 * o_wb_addr,
                                     d |-> IF o_wb_we THEN o_wb_data ELSE v,
                                     err |-> err])
    /\ UNCHANGED <<host, frame, h2d, cmd_loaded, r_cmd, r_word, o_wb_we, inc,
                   o_wb_data, dropped>>

\* hbints reports an interrupt; one report is unread at a time
DeviceInterrupt ==
    /\ Interrupts
    /\ ~Contains(d2h, "I")
    /\ Send(<<"I">>)
    /\ UNCHANGED <<host, frame, h2d, cmd_loaded, r_cmd, r_word, o_wb_cyc,
                   o_wb_we, o_wb_addr, inc, o_wb_data, nidle, history>>

\* hbidle reports that nothing happened for a whole period of its counter
DeviceIdle ==
    /\ nidle < MaxIdle
    /\ Send(<<"Z">>)
    /\ nidle' = nidle + 1
    /\ UNCHANGED <<host, frame, h2d, cmd_loaded, r_cmd, r_word, o_wb_cyc,
                   o_wb_we, o_wb_addr, inc, o_wb_data, history>>

\* hbnewline ends the line once there is nothing more to send
DeviceNewline ==
    /\ ~last_cr
    /\ d2h' = d2h \o <<Space, Space>>
    /\ last_cr' = TRUE
    /\ UNCHANGED <<host, frame, h2d, cmd_loaded, r_cmd, r_word, o_wb_cyc,
                   o_wb_we, o_wb_addr, inc, o_wb_data, nidle, history>>

(***************************************************************************)
(* The system.  The host starts with the members hexbus.h's init() leaves  *)
(* unset at any value; the device has just been reset and says so.         *)
(***************************************************************************)
Init ==
    /\ m_addr_set = FALSE
    /\ m_inc \in BOOLEAN
    /\ m_lastaddr \in Addrs
    /\ m_cmd = "none"
    /\ m_isspace \in BOOLEAN
    /\ m_nacks = 0
    /\ m_interrupt_flag = FALSE
    /\ m_bus_err = FALSE
    /\ pc = "idle" /\ call = NoCall /\ n = 0 /\ buf = <<>> /\ word = 0
    /\ abort_countdown = AbortCountdown /\ outcome = "none"
    /\ h2d = <<>>
    /\ d2h = <<"T">>
    /\ cmd_loaded = FALSE /\ r_cmd = "R" /\ r_word = 0
    /\ o_wb_cyc = FALSE /\ o_wb_we = FALSE /\ o_wb_data = 0
    /\ o_wb_addr \in {a \div 4 : a \in Addrs}
    /\ inc \in BOOLEAN
    /\ last_cr = FALSE
    /\ nidle = 0
    /\ accesses = <<>> /\ dropped = FALSE

Readword == ReadwordDigit \/ ReadwordOther \/ ReadwordDone \/ ReadwordThrow
Readidle == ReadidleDigit \/ ReadidleOther \/ ReadidleThrow

Next ==
    \/ \E c \in Calls : Call(c)
    \/ Readword
    \/ Readidle
    \/ ReadidleReturn
    \/ Usleep
    \/ Clear
    \/ DeviceChar
    \/ \E err \in BOOLEAN, v \in Data : BusAnswer(err, v)
    \/ DeviceInterrupt
    \/ DeviceIdle
    \/ DeviceNewline

\* The host's process runs while a call is in progress, the device is
\* clocked, slaves answer, and a line is ended once it is idle.  Nothing
\* makes the client call, or an interrupt or an idle report come.
Fairness ==
    /\ WF_vars(Readword)
    /\ WF_vars(Readidle)
    /\ WF_vars(ReadidleReturn)
    /\ WF_vars(DeviceChar)
    /\ WF_vars(\E err \in BOOLEAN, v \in Data : BusAnswer(err, v))
    /\ WF_vars(DeviceNewline)

Spec == Init /\ [][Next]_vars /\ Fairness

-----------------------------------------------------------------------------
(***************************************************************************)
(* Properties.                                                             *)
(***************************************************************************)

\* Every variable has its type; the streams carry characters of the protocol.
TypeOK ==
    /\ {m_addr_set, m_inc, m_isspace, m_interrupt_flag, m_bus_err} \subseteq BOOLEAN
    /\ m_lastaddr \in {a \in Word : a % 4 = 0}
    /\ m_cmd \in Chars \cup {"none"}
    /\ m_nacks \in Nat /\ n \in Nat /\ abort_countdown \in 1 .. 3
    /\ pc \in {"idle", "readword", "readidle", "exit"}
    /\ outcome \in {"none", "ok", "buserr"}
    /\ word \in Word /\ buf \in Seq(Word)
    /\ h2d \in Seq(Chars) /\ d2h \in Seq(Chars)
    /\ r_cmd \in Commands /\ r_word \in Word
    /\ o_wb_addr \in 0 .. (WordSize \div 4) - 1 /\ o_wb_data \in Word
    /\ {cmd_loaded, o_wb_cyc, o_wb_we, inc, last_cr} \subseteq BOOLEAN

\* The accesses a call asks for, in order, as devbus.h describes them
Wanted(c) ==
    [i \in 1 .. c.len |->
        [we |-> ~IsRead(c.kind),
         a  |-> (c.a + IF Increments(c.kind) THEN 4 * (i - 1) ELSE 0) % WordSize]]

\* Whatever the device does on the bus while a call is in progress is what
\* that call asked for, in its order and at its addresses, and a write
\* carries the client's word: no skipped address command (encode_address)
\* ever leaves the device somewhere else, nothing is left over from an
\* earlier call, and no command finds the device busy with another, when it
\* would be dropped without a word (o_cmd_busy goes nowhere in hbconsole.v).
AccessesAreTheCallsOwn ==
    /\ ~dropped
    /\ Len(accesses) <= call.len
    /\ \A i \in 1 .. Len(accesses) :
         /\ accesses[i].we = Wanted(call)[i].we
         /\ accesses[i].a = Wanted(call)[i].a
         /\ accesses[i].we => accesses[i].d = call.buf[i]

\* A call that returns without an exception has had every one of its accesses
\* acknowledged on the bus, no access is still to come, and a read returns
\* the words the slaves put on the bus, in order.  BUSERR is thrown to the
\* client only when a slave answered the call that throws with an error
\* (readword, readidle).  The state keeps its types.
ReturnsWhatTheBusDid ==
    /\ TypeOK
    /\ outcome = "ok" =>
        /\ Len(accesses) = call.len
        /\ \A i \in 1 .. call.len : ~accesses[i].err
        /\ IsRead(call.kind) => buf = [i \in 1 .. call.len |-> accesses[i].d]
    /\ outcome = "buserr" => \E i \in 1 .. Len(accesses) : accesses[i].err

\* When no call is in progress and the host believes it knows the device's
\* address (m_addr_set), it does: this is what encode_address relies on, and
\* what the check at the end of readv and readio would end the process for.
AddressBeliefIsTrue ==
    /\ pc = "idle" /\ m_addr_set /\ m_inc =>
        /\ inc
        /\ m_lastaddr = 4 * o_wb_addr
    /\ pc # "exit"

\* No call waits for ever: the loops of readword and of writev end, by return,
\* by exception or in readv's check, also when the answers they read are the
\* leftovers of a call that ended in an exception.
CallsEnd == (pc \in {"readword", "readidle"}) ~> (pc \in {"idle", "exit"})
=============================================================================
