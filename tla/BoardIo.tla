------------------------------- MODULE BoardIo -------------------------------
(***************************************************************************)
(* The input and output of a program on the board: the C library's hooks   *)
(* (sw/zlib/syscalls.c), the routines of programs without the library      *)
(* (sw/board/txfns.c), and the console they poll (rtl/hexbus/console.v).   *)
(*                                                                         *)
(* A character is "CR", "LF" or any other string.  Each access of the CPU  *)
(* to a register of the console is one step; a poll that finds the FIFO    *)
(* full changes nothing and is left out.  An int has IntBits bits.         *)
(***************************************************************************)
EXTENDS Integers, FiniteSets, SequencesExt

CONSTANTS Chars,      \* what a user types
          Messages,   \* what programs print
          Numbers,    \* the ints they print
          IntBits,    \* bits of an int, 32 in the source; a multiple of 4
          TxLen,      \* room in the console's two FIFOs
          RxLen,
          MaxCalls, MaxTyped, MaxLen    \* bounds of the exploration

VARIABLES bio,        \* the program: [op, todo, out, got, len, calls, outcr, incr]
          console,    \* its FIFOs: [tx, rx]
          io          \* history: [said, line, heard, read, num]

bioVars == <<bio, console, io>>

Digit == <<"0","1","2","3","4","5","6","7","8","9","A","B","C","D","E","F">>

(* txhex: every nibble, the highest first.                                 *)
Hex(v) == LET u == v % 2 ^ IntBits
          IN  [i \in 1 .. IntBits \div 4 |->
                 Digit[((u \div 2 ^ (IntBits - 4 * i)) % 16) + 1]]

MutLow(v, n) == [i \in 1 .. n |-> Digit[((v \div 10 ^ (i - 1)) % 10) + 1]]

(* tmp[] of txdecimal, the last digit first, is sent backwards.            *)
Digits10(v, n) == Reverse([i \in 1 .. n |-> Digit[((v \div 10 ^ (i - 1)) % 10) + 1]])

(* txdecimal: -val of the least int is itself, and has no digit above zero.*)
Decimal(v) ==
  LET u == IF v < 0 /\ v # -(2 ^ (IntBits - 1)) THEN -v ELSE v
      n == IF u = 0 THEN 1 ELSE Cardinality({k \in 0 .. IntBits : 10 ^ k <= u})
  IN  <<IF v < 0 THEN "-" ELSE " ">> \o Digits10(u, n)

(* One character as it is sent: _outbyte puts a return before every        *)
(* newline, txchr not when the last character it sent was one.             *)
Expand(fn, c, cr) == IF c = "LF" /\ ~(fn = "tx" /\ cr) THEN <<"CR", "LF">> ELSE <<c>>

BoardInit == /\ bio = [op |-> "idle", todo |-> <<>>, out |-> <<>>, got |-> <<>>,
                       len |-> 0, calls |-> 0, outcr |-> FALSE, incr |-> FALSE]
             /\ console = [tx |-> <<>>, rx |-> <<>>]
             /\ io = [said |-> <<>>, line |-> <<>>, heard |-> <<>>, read |-> <<>>,
                      num |-> [v |-> 0, text |-> <<>>]]

Begin(call) == /\ bio.op = "idle" /\ bio.calls < MaxCalls
               /\ bio' = [call EXCEPT !.calls = @ + 1]
               /\ UNCHANGED console

(* _write_r, txstr: a message.                                             *)
Write(fn, msg) == /\ Begin([bio EXCEPT !.op = fn, !.todo = msg])
                  /\ UNCHANGED io

(* txhex and txdecimal of a number.                                        *)
WriteNumber(v, text) == /\ Begin([bio EXCEPT !.op = "tx", !.todo = text])
                        /\ io' = [io EXCEPT !.num = [v |-> v, text |-> text]]

Read(n) == /\ Begin([bio EXCEPT !.op = "read", !.len = n, !.got = <<>>])
           /\ UNCHANGED io

Exit == /\ Begin([bio EXCEPT !.op = "exit"])
        /\ UNCHANGED io

(* The next character of the message enters _outbyte or txchr.             *)
Take == /\ bio.op \in {"write", "tx"} /\ bio.out = <<>> /\ bio.todo # <<>>
        /\ LET c == Head(bio.todo)
           IN  /\ bio' = [bio EXCEPT !.todo = Tail(@),
                                     !.out = Expand(bio.op, c, bio.outcr),
                                     !.outcr = IF bio.op = "tx" THEN c = "CR" ELSE @]
               /\ io' = [io EXCEPT !.said = Append(@, <<bio.op, c>>)]
        /\ UNCHANGED console

(* Bit 16 of u_fifo.                                                       *)
Room == Len(console.tx) < TxLen

(* The end of a poll: a character is stored to u_tx.  The FIFO drops what  *)
(* it has no room for.                                                     *)
Send == /\ bio.out # <<>> /\ Room
        /\ bio' = [bio EXCEPT !.out = Tail(@)]
        /\ console' = [console EXCEPT !.tx = IF Len(@) < TxLen THEN Append(@, Head(bio.out))
                                                               ELSE @]
        /\ UNCHANGED io

WriteReturns == /\ bio.op \in {"write", "tx"} /\ bio.out = <<>> /\ bio.todo = <<>>
                /\ bio' = [bio EXCEPT !.op = "idle"]
                /\ UNCHANGED <<console, io>>

MutSwallow(c) == c = "LF" /\ FALSE

(* The newline of a return and newline is dropped.                         *)
Swallow(c) == c = "LF" /\ bio.incr

(* last_was_cr after a character.                                          *)
WasReturn(c) == c = "CR"

MutReadOn == bio.op = "read" /\ bio.out = <<>> /\ Len(bio.got) <= bio.len

ReadOn == bio.op = "read" /\ bio.out = <<>> /\ (bio.got = <<>> \/ Len(bio.got) < bio.len)

(* _inbyte with a character there: it is translated, echoed and kept.      *)
InByte == /\ ReadOn /\ console.rx # <<>>
          /\ console' = [console EXCEPT !.rx = Tail(@)]
          /\ LET c  == Head(console.rx)
                 rv == IF c = "CR" THEN "LF" ELSE c
             IN  IF Swallow(c)
                 THEN /\ bio' = [bio EXCEPT !.incr = FALSE,
                                    !.op = IF bio.got = <<>> THEN "read" ELSE "idle"]
                      /\ io' = IF bio.got = <<>> THEN io
                               ELSE [io EXCEPT !.read = Append(@, bio.got)]
                 ELSE /\ bio' = [bio EXCEPT !.incr = WasReturn(c), !.got = Append(@, rv),
                                            !.out = Expand("write", rv, FALSE)]
                      /\ io' = [io EXCEPT !.said = Append(@, <<"write", rv>>)]

(* Nothing more to read, or no more room: _read_r returns.                 *)
ReadReturns == /\ bio.op = "read" /\ bio.out = <<>> /\ bio.got # <<>>
               /\ ReadOn => console.rx = <<>>
               /\ bio' = [bio EXCEPT !.op = "idle"]
               /\ io' = [io EXCEPT !.read = Append(@, bio.got)]
               /\ UNCHANGED console

(* Bit 8 of u_tx is low.                                                   *)
Drained == console.tx = <<>>

(* _exit, once the console has sent all it was given.                      *)
Halt == /\ bio.op = "exit" /\ Drained
        /\ bio' = [bio EXCEPT !.op = "halted"]
        /\ UNCHANGED <<console, io>>

(* The console sends a character when the output channel will take it, and *)
(* receives one; what comes to a full FIFO is lost, as if it had not been  *)
(* typed.                                                                  *)
Drain == /\ console.tx # <<>>
         /\ console' = [console EXCEPT !.tx = Tail(@)]
         /\ io' = [io EXCEPT !.line = Append(@, Head(console.tx))]
         /\ UNCHANGED bio

Type(c) == /\ Len(io.heard) < MaxTyped /\ Len(console.rx) < RxLen
           /\ console' = [console EXCEPT !.rx = Append(@, c)]
           /\ io' = [io EXCEPT !.heard = Append(@, c)]
           /\ UNCHANGED bio

CpuStep == Take \/ Send \/ WriteReturns \/ InByte \/ ReadReturns \/ Halt

BoardNext == \/ \E fn \in {"write", "tx"}, msg \in Messages : Write(fn, msg)
             \/ \E v \in Numbers : \/ WriteNumber(v, Hex(v))
                                   \/ WriteNumber(v, Decimal(v))
             \/ \E n \in 1 .. MaxLen : Read(n)
             \/ Exit
             \/ CpuStep
             \/ Drain
             \/ \E c \in Chars : Type(c)

(* The CPU runs on, and the output channel keeps taking characters.        *)
BoardFairness == WF_bioVars(CpuStep) /\ WF_bioVars(Drain)

-----------------------------------------------------------------------------
(* The FIFOs hold what they have room for and the program is in its code.  *)
BoardTypeOK == /\ bio.op \in {"idle", "write", "tx", "read", "exit", "halted"}
               /\ Len(console.tx) <= TxLen /\ Len(console.rx) <= RxLen
               /\ Len(bio.out) <= 2
               /\ bio.got # <<>> => Len(bio.got) <= MaxLen
               /\ bio.calls <= MaxCalls

LastBefore(said, i) == {j \in 1 .. i - 1 : said[j][1] = "tx"}

(* What a line of a terminal should show for what was said.                *)
Shown(said) ==
  LET cr(i) == LET js == LastBefore(said, i)
               IN  js # {} /\ said[CHOOSE j \in js : \A k \in js : k <= j][2] = "CR"
  IN  FlattenSeq([i \in DOMAIN said |->
        IF said[i][2] # "LF" THEN <<said[i][2]>>
        ELSE IF said[i][1] = "tx" /\ cr(i) THEN <<"LF">> ELSE <<"CR", "LF">>])

(* txchr, _outbyte: whatever the FIFO's level when they poll it, the line  *)
(* and the FIFO hold what was printed and echoed, in order, with a return  *)
(* before each newline, and nothing was lost.                              *)
LineShowsWhatWasSaid == io.line \o console.tx \o bio.out = Shown(io.said)

(* _exit: the processor is stopped only when all of it has left the FIFO.  *)
NothingCutOff == bio.op = "halted" => io.line = Shown(io.said)

(* What a program should read for what was typed: each of CR, LF and CR LF *)
(* is one newline.                                                         *)
Lines(typed) ==
  FlattenSeq([i \in DOMAIN typed |->
    CASE typed[i] = "CR" -> <<"LF">>
      [] typed[i] = "LF" -> IF i > 1 /\ typed[i - 1] = "CR" THEN <<>> ELSE <<"LF">>
      [] OTHER           -> <<typed[i]>>])

(* _inbyte, _read_r: the calls of read together return exactly the lines   *)
(* that were typed, also when a return and its newline are read by         *)
(* different calls or the FIFO was empty between them.                     *)
ReadsAreTheLines ==
  FlattenSeq(io.read) \o (IF bio.op = "read" THEN bio.got ELSE <<>>)
    = Lines(SubSeq(io.heard, 1, Len(io.heard) - Len(console.rx)))

ValueOf(text, base) == FoldLeft(LAMBDA n, d : n * base + (CHOOSE i \in 0 .. 15 : Digit[i + 1] = d),
                                0, text)

(* txhex, txdecimal: the text of a number reads back as the number; the    *)
(* least int has no digits in decimal.                                     *)
NumbersReadBack ==
  io.num.text # <<>> =>
    LET t == io.num.text
        v == io.num.v
    IN  CASE t = <<"-">> -> v = -(2 ^ (IntBits - 1))
        [] t[1] = " " -> ValueOf(Tail(t), 10) = v
        [] t[1] = "-" -> -ValueOf(Tail(t), 10) = v
        [] OTHER      -> ValueOf(t, 16) = v % 2 ^ IntBits

(* Every call of write, of exit, and of read that has a character, returns *)
(* as long as the console keeps sending.                                   *)
CallsReturn == bio.op \in {"write", "tx", "exit"} \/ (bio.op = "read" /\ bio.got # <<>>)
                 ~> bio.op \in {"idle", "halted"}

(* syscalls.c, txfns.c and the console: text goes out and comes in as it   *)
(* was printed and typed.                                                  *)
TextIsKept == LineShowsWhatWasSaid /\ NothingCutOff /\ ReadsAreTheLines /\ NumbersReadBack
=============================================================================
