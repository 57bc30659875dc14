------------------------------ MODULE HbConsole ------------------------------
(***************************************************************************)
(* The return path of the debugging bus, one clock per step: the response  *)
(* words of hbexec pass hbints (which adds interrupt reports), hbidle      *)
(* (idle reports), hbdeword (one character at a time), hbgenhex, hbnewline *)
(* (a line end once idle) and the arbiter of hbconsole.v, which shares the *)
(* transmitter with the console.  All stages pass a strobe forward and a   *)
(* busy backward, except that nothing holds hbexec back.                   *)
(*                                                                         *)
(* A word is the sequence of characters it becomes: a letter alone for a   *)
(* special word, a letter and its digits otherwise.                        *)
(***************************************************************************)
EXTENDS Integers, FiniteSets, Sequences, SequencesExt

CONSTANTS
    Words,        \* response words of hbexec
    ConsoleChars, \* characters the console sends
    Window,       \* responses the host lets be on their way at a time
    MinGap,       \* clocks between two responses: a character's time at least
    Interrupts,   \* whether the interrupt line is ever raised
    Idles,        \* whether the idle counter ever runs out
    Resets        \* whether the host ever resets the bus

Letters == {w[1] : w \in Words}
Digits  == UNION {ToSet(Tail(w)) : w \in Words}

ASSUME HbConsoleAssumption ==
    /\ \A w \in Words : w \in Seq(STRING) /\ w # <<>>
    /\ Letters \cap Digits = {}
    /\ (Letters \cup Digits) \cap {"T", "I", "Z", "cr", "lf"} = {}
    /\ {Interrupts, Idles, Resets} \subseteq BOOLEAN
    /\ Window \in Nat /\ MinGap \in Nat

INT_WORD  == <<"I">>
IDLE_WORD == <<"Z">>
RSP_RESET == <<"T">>
CR == "cr"
LF == "lf"
Filler == "7f"

VARIABLES
    o_rsp_stb, o_rsp_word, gap,                  \* hbexec's output, its spacing
    w_reset, i_interrupt,                        \* hbdechex's reset, the line
    int_state, pending_interrupt, int_full, o_int_stb, int_loaded, o_int_word,
    idle_stb, o_idl_stb, o_idl_word,
    o_dw_stb, r_word, o_dw_bits,
    o_gx_stb, o_gx_char,
    last_cr, cr_state, o_nl_stb, nl_loaded, o_nl_byte,
    ps_full, ps_data,                            \* <<channel, character>>
    i_console_stb, i_console_data,               \* the console's output
    \* history: response characters and console characters still to come out,
    \* the last character sent on the bus channel, whether one came out that
    \* was not due
    expect, con_expect, last_out, garbled

exec    == <<o_rsp_stb, o_rsp_word, gap, w_reset, i_interrupt>>
ints    == <<int_state, pending_interrupt, int_full, o_int_stb, int_loaded,
             o_int_word>>
idle    == <<idle_stb, o_idl_stb, o_idl_word>>
deword  == <<o_dw_stb, r_word, o_dw_bits>>
genhex  == <<o_gx_stb, o_gx_char>>
newline == <<last_cr, cr_state, o_nl_stb, nl_loaded, o_nl_byte>>
arbiter == <<ps_full, ps_data>>
console == <<i_console_stb, i_console_data>>
history == <<expect, con_expect, last_out, garbled>>
vars    == <<exec, ints, idle, deword, genhex, newline, arbiter, console,
             history>>

(***************************************************************************)
(* The busy wires, from the transmitter back to hbints.                    *)
(***************************************************************************)
tx_busy(b)  == b /\ ps_full

nl_busy(b)  == (tx_busy(b) /\ o_nl_stb /\ nl_loaded) \/ (cr_state /\ ~tx_busy(b))
gx_busy(b)  == o_gx_stb /\ nl_busy(b)

dw_busy     == o_dw_stb
idl_busy    == o_idl_stb /\ dw_busy
int_busy    == o_int_stb /\ int_full
o_console_busy == o_nl_stb \/ ps_full

(***************************************************************************)
(* The stages.                                                             *)
(***************************************************************************)
IntState ==
    int_state' = IF w_reset THEN FALSE
                 ELSE IF i_interrupt /\ ~int_state THEN TRUE
                 ELSE IF ~pending_interrupt /\ ~i_interrupt THEN FALSE
                 ELSE int_state

\* Mutant of PendingInterrupt: any word that leaves clears it
MutPendingInterrupt ==
    pending_interrupt' =
        IF w_reset THEN FALSE
        ELSE IF i_interrupt /\ ~int_state THEN TRUE
        ELSE pending_interrupt /\ ~(o_int_stb /\ ~idl_busy)

PendingInterrupt ==
    pending_interrupt' =
        IF w_reset THEN FALSE
        ELSE IF i_interrupt /\ ~int_state THEN TRUE
        ELSE pending_interrupt /\ ~(o_int_stb /\ ~idl_busy /\ int_loaded)

\* loaded: hbints holds a response, which nothing may replace
IntFull(takes) ==
    int_full' = IF w_reset THEN FALSE
                ELSE takes \/ (int_full /\ ~(o_int_stb /\ ~idl_busy))

\* o_int_stb, int_loaded, o_int_word: a response has precedence, an
\* interrupt report may still be replaced by one
HbInts ==
    /\ IntState
    /\ PendingInterrupt
    /\ LET takes == o_rsp_stb /\ ~int_busy IN
       /\ IntFull(takes)
       /\ o_int_stb' =
            IF w_reset THEN FALSE
            ELSE IF takes \/ (pending_interrupt /\ (~int_loaded \/ idl_busy))
            THEN TRUE
            ELSE o_int_stb /\ int_full /\ idl_busy
       /\ \/ /\ takes
             /\ int_loaded' = FALSE
             /\ o_int_word' = o_rsp_word
          \/ /\ ~takes /\ (~idl_busy \/ ~o_int_stb)
             /\ int_loaded' = TRUE
             /\ o_int_word' = INT_WORD
          \/ /\ ~takes /\ idl_busy /\ o_int_stb
             /\ UNCHANGED <<int_loaded, o_int_word>>

\* The counter's period may end in any clock without a word; i_cmd_stb is
\* o_int_stb
HbIdle(period) ==
    /\ idle_stb' = (period /\ ~w_reset /\ ~o_int_stb)
    /\ LET takes == o_int_stb /\ ~idl_busy IN
       /\ o_idl_stb' = IF w_reset THEN FALSE
                       ELSE takes \/ (idle_stb /\ ~o_idl_stb)
                            \/ (o_idl_stb /\ dw_busy)
       /\ o_idl_word' = IF takes THEN o_int_word
                        ELSE IF ~dw_busy THEN IDLE_WORD ELSE o_idl_word

\* Mutant of HbDeword: the last digit is left out
MutHbDeword(b) ==
    LET takes == o_idl_stb /\ ~dw_busy
    IN  IF w_reset \/ (~takes /\ gx_busy(b))
        THEN /\ o_dw_stb' = (o_dw_stb /\ ~w_reset)
             /\ r_word' = IF w_reset THEN <<>> ELSE r_word
             /\ UNCHANGED o_dw_bits
        ELSE /\ o_dw_stb' = (takes \/ Len(r_word) > 1)
             /\ o_dw_bits' = IF takes THEN Head(o_idl_word)
                             ELSE IF r_word = <<>> THEN "0" ELSE Head(r_word)
             /\ r_word' = IF takes THEN Tail(o_idl_word)
                          ELSE IF r_word = <<>> THEN <<>> ELSE Tail(r_word)

\* r_word is what is left of the word and r_len its length
HbDeword(b) ==
    \/ /\ w_reset
       /\ o_dw_stb' = FALSE
       /\ r_word' = <<>>
       /\ UNCHANGED o_dw_bits
    \/ /\ ~w_reset /\ o_idl_stb /\ ~dw_busy
       /\ o_dw_stb' = TRUE
       /\ o_dw_bits' = Head(o_idl_word)
       /\ r_word' = Tail(o_idl_word)
    \/ /\ ~w_reset /\ ~(o_idl_stb /\ ~dw_busy) /\ ~gx_busy(b)
       /\ o_dw_stb' = (r_word # <<>>)
       /\ o_dw_bits' = IF r_word = <<>> THEN "0" ELSE Head(r_word)
       /\ r_word' = IF r_word = <<>> THEN <<>> ELSE Tail(r_word)
    \/ /\ ~w_reset /\ ~(o_idl_stb /\ ~dw_busy) /\ gx_busy(b)
       /\ UNCHANGED deword

HbGenhex(b) ==
    /\ o_gx_stb' = IF w_reset THEN FALSE
                   ELSE IF gx_busy(b) THEN o_gx_stb ELSE o_dw_stb
    /\ o_gx_char' = IF gx_busy(b) THEN o_gx_char ELSE o_dw_bits

\* A character, then an interruptible CR, then its LF, then nothing
HbNewline(b) ==
    \/ /\ w_reset
       /\ cr_state' = FALSE /\ last_cr' = TRUE
       /\ o_nl_stb' = FALSE /\ nl_loaded' = FALSE /\ o_nl_byte' = Filler
    \/ /\ ~w_reset /\ o_gx_stb /\ ~nl_busy(b)
       /\ o_nl_stb' = TRUE /\ nl_loaded' = TRUE /\ o_nl_byte' = o_gx_char
       /\ cr_state' = (o_gx_char = CR)
       /\ last_cr' = (o_gx_char = CR)
    \/ /\ ~w_reset /\ ~(o_gx_stb /\ ~nl_busy(b)) /\ ~tx_busy(b)
       /\ \/ /\ ~last_cr
             /\ cr_state' = TRUE /\ last_cr' = ~o_gx_stb
             /\ o_nl_stb' = ~o_gx_stb /\ nl_loaded' = FALSE /\ o_nl_byte' = CR
          \/ /\ last_cr /\ cr_state
             /\ cr_state' = FALSE /\ UNCHANGED last_cr
             /\ o_nl_stb' = TRUE /\ nl_loaded' = TRUE /\ o_nl_byte' = LF
          \/ /\ last_cr /\ ~cr_state
             /\ UNCHANGED <<cr_state, last_cr>>
             /\ o_nl_stb' = FALSE /\ nl_loaded' = FALSE /\ o_nl_byte' = Filler
    \/ /\ ~w_reset /\ ~(o_gx_stb /\ ~nl_busy(b)) /\ tx_busy(b)
       /\ UNCHANGED newline

\* Mutant of Arbiter: the register is loaded while the transmitter is busy
MutArbiterBusy(b) ==
    IF o_nl_stb
    THEN ps_full' = TRUE /\ ps_data' = <<"bus", o_nl_byte>>
    ELSE /\ ps_full' = (i_console_stb /\ ~ps_full)
         /\ ps_data' = IF ps_full' THEN <<"console", i_console_data>> ELSE ps_data

\* The bus goes before the console
Arbiter(b) ==
    \/ /\ ~ps_full /\ o_nl_stb
       /\ ps_full' = TRUE /\ ps_data' = <<"bus", o_nl_byte>>
    \/ /\ ~ps_full /\ ~o_nl_stb
       /\ ps_full' = i_console_stb
       /\ ps_data' = IF i_console_stb THEN <<"console", i_console_data>>
                                      ELSE ps_data
    \/ /\ ps_full /\ ~b
       /\ ps_full' = o_nl_stb /\ ps_data' = <<"bus", o_nl_byte>>
    \/ /\ ps_full /\ b
       /\ UNCHANGED arbiter

(***************************************************************************)
(* The surroundings: hbexec under a host that waits for answers, the       *)
(* interrupt line, the console, the transmitter's busy input b.            *)
(***************************************************************************)
\* The words still to come out, one of which only the end is left included.
Outstanding == Cardinality({i \in DOMAIN expect :
                   expect[i] \in Letters \/ (i = 1 /\ expect[i] \in Digits)})

\* Nothing on its way but the end of a line.  The first response to a call
\* finds the path like this: the characters of the call itself, each of
\* which moves one character the other way, have emptied it; and the idle
\* counter, restarted by every word, only runs out like this.
Quiet == ~o_rsp_stb /\ ~o_int_stb /\ ~o_idl_stb /\ ~o_dw_stb /\ ~o_gx_stb

\* The interrupt line rises again only after its last report has gone out
ReportUnderway ==
    \/ pending_interrupt
    \/ o_int_stb /\ o_int_word = INT_WORD
    \/ o_idl_stb /\ o_idl_word = INT_WORD
    \/ o_dw_stb /\ o_dw_bits = "I"
    \/ o_gx_stb /\ o_gx_char = "I"
    \/ o_nl_stb /\ o_nl_byte = "I"
    \/ ps_full /\ ps_data = <<"bus", "I">>

\* A reset is answered by RSP_RESET in the clock after it
HbExecOut(w, stb, reset, int) ==
    /\ w_reset' = reset /\ (reset => Resets)
    /\ o_rsp_stb' = (stb \/ w_reset)
    /\ o_rsp_word' = IF w_reset THEN RSP_RESET ELSE w
    /\ stb => /\ Outstanding < Window
              /\ Outstanding > 0 \/ Quiet
              /\ gap = 0 /\ ~w_reset /\ ~reset
    /\ gap' = IF o_rsp_stb' THEN MinGap ELSE IF gap > 0 THEN gap - 1 ELSE 0
    /\ i_interrupt' = int
    /\ int => Interrupts /\ (i_interrupt \/ ~ReportUnderway)

Console(stb, c) ==
    IF i_console_stb /\ o_console_busy
    THEN UNCHANGED console
    ELSE i_console_stb' = stb /\ i_console_data' = c

\* A response is due from its strobe on; a reset cancels what has not reached
\* the transmitter's register and has an answer of its own.  Interrupt and
\* idle reports and line ends may come between words and never inside one.
Starts == Letters \cup {"T"}

History(b) ==
    LET out   == ps_full /\ ~b
        bus   == out /\ ps_data[1] = "bus"
        c     == ps_data[2]
        due   == expect # <<>> /\ c = Head(expect)
        extra == /\ c \in {"I", "Z", CR, LF}
                 /\ expect = <<>> \/ Head(expect) \in Starts
        rest  == IF bus /\ due THEN Tail(expect) ELSE expect
        kept  == IF ps_full' /\ ps_data'[1] = "bus" /\ rest # <<>>
                      /\ ps_data'[2] = Head(rest)
                 THEN <<Head(rest)>> ELSE <<>>
    IN  /\ expect' = (IF w_reset THEN kept ELSE rest)
                       \o (IF o_rsp_stb' THEN o_rsp_word' ELSE <<>>)
        /\ last_out' = IF bus THEN c ELSE last_out
        /\ con_expect' = (IF out /\ ~bus /\ con_expect # <<>>
                          THEN Tail(con_expect) ELSE con_expect)
                           \o (IF i_console_stb /\ ~o_console_busy
                               THEN <<i_console_data>> ELSE <<>>)
        /\ garbled' = \/ garbled
                      \/ bus /\ ~due /\ ~extra
                      \/ out /\ ~bus /\ (con_expect = <<>> \/ c # Head(con_expect))

Clock(b) ==
    /\ \E w \in Words, stb, reset, int \in BOOLEAN : HbExecOut(w, stb, reset, int)
    /\ HbInts
    /\ \E period \in BOOLEAN : (period => Idles /\ Quiet /\ expect = <<>>) /\ HbIdle(period)
    /\ HbDeword(b)
    /\ HbGenhex(b)
    /\ HbNewline(b)
    /\ Arbiter(b)
    /\ \E stb \in BOOLEAN, c \in ConsoleChars : Console(stb, c)
    /\ History(b)

Init ==
    /\ o_rsp_stb = TRUE /\ o_rsp_word = RSP_RESET /\ w_reset = TRUE
    /\ gap = MinGap /\ i_interrupt = FALSE
    /\ int_state = FALSE /\ pending_interrupt = FALSE /\ int_full = FALSE
    /\ o_int_stb = FALSE /\ int_loaded = TRUE /\ o_int_word = INT_WORD
    /\ idle_stb = FALSE /\ o_idl_stb = FALSE /\ o_idl_word = IDLE_WORD
    /\ o_dw_stb = FALSE /\ r_word = <<>> /\ o_dw_bits = "0"
    /\ o_gx_stb = FALSE /\ o_gx_char = Filler
    /\ last_cr = TRUE /\ cr_state = FALSE /\ o_nl_stb = FALSE
    /\ nl_loaded = FALSE /\ o_nl_byte = Filler
    /\ ps_full = FALSE /\ ps_data = <<"bus", Filler>>
    /\ i_console_stb = FALSE /\ i_console_data \in ConsoleChars
    /\ expect = <<"T">> /\ con_expect = <<>> /\ last_out = LF
    /\ garbled = FALSE

Next == \E b \in BOOLEAN : Clock(b)

\* The clock runs, and the transmitter is not busy for ever: the Pi polls
Spec == Init /\ [][Next]_vars /\ WF_vars(Clock(FALSE))

-----------------------------------------------------------------------------
\* Every stage holds a word or a character it can be given.
TypeOK ==
    /\ o_rsp_word \in Words \cup {RSP_RESET}
    /\ o_int_word \in Words \cup {RSP_RESET, INT_WORD}
    /\ o_idl_word \in Words \cup {RSP_RESET, INT_WORD, IDLE_WORD}
    /\ gap \in 0 .. MinGap
    /\ ps_data \in ({"bus"} \X (Starts \cup Digits \cup {"I", "Z", CR, LF, Filler}))
                      \cup ({"console"} \X ConsoleChars)

\* A response never finds hbints occupied (hbconsole.v assumes it in its
\* FORMAL section): it would be dropped, and the host would wait for it for
\* ever.
NoOverrun == o_rsp_stb => ~int_busy

\* A carriage return that was sent is followed by its line feed, however the
\* next word is timed (hbnewline's cr_state), unless a reset cancels it, whose
\* answer then comes next.
LineEndsWhole == [][last_out = CR /\ last_out' # CR => last_out' \in {LF, "T"}]_vars

\* The transmitter gets the responses of hbexec whole, in order and once
\* each, with reports and line ends only between words; the console's
\* characters likewise; nothing is overrun on the way and no line end broken.
NothingGarbled == [](TypeOK /\ ~garbled /\ NoOverrun) /\ LineEndsWhole

\* Once hbexec has no more to say, everything it said comes out.
ResponsesComeOut == <>[]~o_rsp_stb => <>[](expect = <<>>)

\* An interrupt is reported as long as responses keep passing, unless the bus
\* is reset: hbints keeps it until its word has left for hbidle.
InterruptsReportedInTraffic ==
    []<>o_rsp_stb => (pending_interrupt ~> (last_out = "I" \/ w_reset))
=============================================================================
