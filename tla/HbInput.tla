------------------------------- MODULE HbInput -------------------------------
(***************************************************************************)
(* The incoming path of hbconsole.v, one clock per step: every byte the    *)
(* port receives goes to the console if its top bit is clear, and through  *)
(* hbdechex (a character to a digit or a command) and hbpack (digits to a  *)
(* command word, strobed out by the character after them) to hbexec.       *)
(*                                                                         *)
(* A byte is its channel, the top bit, and its character, the other seven. *)
(***************************************************************************)
EXTENDS Integers, Sequences

CONSTANTS
    NDigits,      \* digits of a command word (8)
    Digits,       \* digit characters that are sent; Zero is one
    Zero,
    ConsoleChars, \* characters the console channel carries
    MaxDigits     \* digits sent after a command letter

Commands == {"R", "W", "A", "S"}
BusChars == Digits \cup Commands \cup {"T", "7f", "nl"}
Bytes    == [ch : {"bus"}, c : BusChars] \cup [ch : {"console"}, c : ConsoleChars]
NoByte   == [ch |-> "none", c |-> "7f"]

ASSUME HbInputAssumption ==
    /\ NDigits \in Nat \ {0} /\ MaxDigits \in Nat
    /\ Zero \in Digits
    /\ Digits \cap (Commands \cup {"T", "7f", "nl", "other"}) = {}

Value  == [1 .. NDigits -> Digits]
CmdWord == [cmd : Commands, v : Value]
None    == [cmd |-> "none"]

VARIABLES
    dec_stb, w_reset, dec_bits,                    \* hbdechex
    cmd_loaded, r_cmd, r_word, o_pck_stb, o_pck_word, \* hbpack
    o_console_stb, o_console_data,
    \* history: the command being spelt on the bus channel and its digits,
    \* and the words due at hbexec in this clock and the next
    spelling, digits, due, due_next

dechex  == <<dec_stb, w_reset, dec_bits>>
pack    == <<cmd_loaded, r_cmd, r_word, o_pck_stb, o_pck_word>>
history == <<spelling, digits, due, due_next>>
vars    == <<dechex, pack, o_console_stb, o_console_data, history>>

Zeros == [i \in 1 .. NDigits |-> Zero]

\* Console characters other than the ones the bus knows are one "other"
Decode(c) == IF c \in Digits \cup Commands \cup {"T"} THEN c ELSE "other"

\* Mutant of HbDechex: the filler byte is not left out
MutHbDechex(in) ==
    /\ w_reset' = (in # NoByte /\ in.c = "T")
    /\ dec_stb' = (in # NoByte)
    /\ dec_bits' = Decode(in.c)

\* The top bit is not looked at
HbDechex(in) ==
    /\ w_reset' = (in # NoByte /\ in.c = "T")
    /\ dec_stb' = (in # NoByte /\ in.c # "7f")
    /\ dec_bits' = Decode(in.c)

\* One more digit at the low end of the shift register
ShiftIn(v, d) == [i \in 1 .. NDigits |-> IF i < NDigits THEN v[i + 1] ELSE d]

\* Mutant of HbPack: r_cmd takes any character that is no digit
MutHbPack ==
    /\ cmd_loaded' = /\ ~w_reset
                     /\ IF dec_stb /\ dec_bits \notin Digits
                        THEN dec_bits \in Commands ELSE cmd_loaded
    /\ o_pck_stb' = (~w_reset /\ dec_stb /\ cmd_loaded /\ dec_bits \notin Digits)
    /\ r_cmd' = IF dec_stb /\ dec_bits \notin Digits THEN dec_bits ELSE r_cmd
    /\ r_word' = IF ~dec_stb THEN r_word
                 ELSE IF dec_bits \in Digits THEN ShiftIn(r_word, dec_bits)
                 ELSE Zeros
    /\ o_pck_word' = IF dec_stb THEN [cmd |-> r_cmd, v |-> r_word] ELSE o_pck_word

\* A command letter opens a word, anything but a digit ends the one before;
\* the two command bits of an "other" character are those of S
HbPack ==
    \/ /\ w_reset
       /\ cmd_loaded' = FALSE /\ o_pck_stb' = FALSE
       /\ r_cmd' = "R" /\ r_word' = Zeros
       /\ o_pck_word' = [cmd |-> "R", v |-> Zeros]
    \/ /\ ~w_reset /\ ~dec_stb
       /\ o_pck_stb' = FALSE
       /\ UNCHANGED <<cmd_loaded, r_cmd, r_word, o_pck_word>>
    \/ /\ ~w_reset /\ dec_stb
       /\ o_pck_word' = [cmd |-> r_cmd, v |-> r_word]
       /\ \/ /\ dec_bits \in Digits
             /\ o_pck_stb' = FALSE
             /\ r_word' = ShiftIn(r_word, dec_bits)
             /\ UNCHANGED <<cmd_loaded, r_cmd>>
          \/ /\ dec_bits \notin Digits
             /\ o_pck_stb' = cmd_loaded
             /\ cmd_loaded' = (dec_bits \in Commands)
             /\ r_cmd' = IF dec_bits \in Commands THEN dec_bits ELSE "S"
             /\ r_word' = Zeros

ToConsole(in) ==
    /\ o_console_stb' = (in.ch = "console")
    /\ o_console_data' = in.c

(***************************************************************************)
(* What the characters of the bus channel spell: a command letter and the  *)
(* digits after it, of which the last NDigits count; the next character    *)
(* that is no digit completes it, and a T drops it.  hbdechex and hbpack   *)
(* take a clock each.                                                      *)
(***************************************************************************)
LowDigits(ds) ==
    [i \in 1 .. NDigits |->
        IF i > NDigits - Len(ds) THEN ds[Len(ds) - NDigits + i] ELSE Zero]

Spelt(cmd, ds) == [cmd |-> cmd, v |-> LowDigits(ds)]

History(in) ==
    LET heard == in.ch = "bus" /\ in.c # "7f"
        ends  == heard /\ in.c \notin Digits
    IN  /\ due' = due_next
        /\ due_next' = IF ends /\ in.c # "T" /\ spelling # "none"
                       THEN Spelt(spelling, digits) ELSE None
        /\ spelling' = IF ends THEN (IF in.c \in Commands THEN in.c ELSE "none")
                       ELSE spelling
        /\ digits' = IF ends THEN <<>>
                     ELSE IF heard /\ spelling # "none"
                     THEN Append(digits, in.c) ELSE digits

Clock(in) ==
    /\ in.c \in Digits => Len(digits) < MaxDigits
    /\ HbDechex(in)
    /\ HbPack
    /\ ToConsole(in)
    /\ History(in)

Init ==
    /\ dec_stb = FALSE /\ w_reset = TRUE /\ dec_bits = "other"
    /\ cmd_loaded = FALSE /\ r_cmd = "R" /\ r_word = Zeros
    /\ o_pck_stb = FALSE /\ o_pck_word = [cmd |-> "R", v |-> Zeros]
    /\ o_console_stb = FALSE /\ o_console_data = "7f"
    /\ spelling = "none" /\ digits = <<>> /\ due = None /\ due_next = None

Next == \E in \in Bytes \cup {NoByte} : Clock(in)

Spec == Init /\ [][Next]_vars

-----------------------------------------------------------------------------
\* Every register has its type.
TypeOK ==
    /\ dec_stb \in BOOLEAN /\ w_reset \in BOOLEAN /\ cmd_loaded \in BOOLEAN
    /\ o_pck_stb \in BOOLEAN /\ o_console_stb \in BOOLEAN
    /\ dec_bits \in Digits \cup Commands \cup {"T", "other"}
    /\ r_cmd \in Commands /\ r_word \in Value /\ o_pck_word \in CmdWord
    /\ spelling \in Commands \cup {"none"} /\ digits \in Seq(Digits)
    /\ due \in CmdWord \cup {None} /\ due_next \in CmdWord \cup {None}

\* hbexec is given exactly the commands the host has spelt on the bus
\* channel, each once, with the low digits of its value, however the bytes
\* are spaced and whatever the console channel carries meanwhile.
CommandsAreTheBusChannels ==
    IF o_pck_stb THEN o_pck_word = due ELSE due = None
=============================================================================
