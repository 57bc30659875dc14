------------------------------ MODULE SdramSim ------------------------------
(***************************************************************************)
(* The SDRAM chip of sim/verilated/sdramsim.cpp, driven clock by clock by  *)
(* the controller rtl/catzip/sdramdev.v for a Wishbone master that may     *)
(* pipeline its requests and give them up.                                 *)
(*                                                                         *)
(* An address is a record of row, bank and word column; a word is two      *)
(* halves of two bytes, most significant first, as the chip's 16 data pins *)
(* carry them.  A command on the pins is known by its name.  Counters of   *)
(* thousands of clocks are the CONSTANTS Startup, PowerUpWait, Refresh,    *)
(* RefreshLow and BankOpen.                                                *)
(***************************************************************************)
EXTENDS Integers, Sequences

CONSTANTS Banks,         \* 0 .. n-1
          Rows,          \* 0 .. n-1
          Columns,       \* 0 .. n-1, of words
          Startup,       \* startup_idle
          PowerUpWait,   \* PWRUP_WAIT_CKS
          Refresh,       \* what refresh_clk starts from
          RefreshLow,    \* below it an idle controller refreshes
          BankOpen,      \* MAX_BANKOPEN_TIME
          Words,         \* values the master writes
          Selects,       \* byte selects of its requests
          Targets,       \* addresses it uses
          MaxRequests    \* requests of the master

VARIABLES chip, sd, bus
sdramVars == <<chip, sd, bus>>

Bytes == {w[h][b] : w \in Words, h \in 1 .. 2, b \in 1 .. 2} \union {0}
Address == [row : Rows, bank : Banks, col : Columns]
ZeroWord == <<<<0, 0>>, <<0, 0>>>>
NoCommand(c) == [cmd |-> c, bs |-> 0, a |-> 0]
Down(n) == IF n > 0 THEN n - 1 ELSE 0

\* The bytes of a half that its mask lets through.
Masked(old, new, sel) == [b \in 1 .. 2 |-> IF sel[b] THEN new[b] ELSE old[b]]

ChipInit ==
    [pwrup |-> 0, idle |-> PowerUpWait, mode |-> FALSE, refreshes |-> 0,
     status |-> [b \in Banks |-> 0], open |-> [b \in Banks |-> 0], row |-> [b \in Banks |-> 0],
     next |-> TRUE, wr |-> [row |-> 0, bank |-> 0, col |-> 0],
     q |-> [i \in 0 .. 4 |-> <<0, 0>>], since |-> 0, good |-> TRUE, out |-> <<0, 0>>,
     mem |-> [a \in Address |-> ZeroWord]]

-----------------------------------------------------------------------------
(* SDRAMSIM::operator().  p is the command on the pins, dqm their mask as  *)
(* the selects of the two bytes.                                           *)

PowerUp(c, p, dqm) ==
    LET idle == Down(c.idle)
        n == [c EXCEPT !.idle = idle, !.next = FALSE,
                       !.good = @ /\ dqm = <<FALSE, FALSE>>]
    IN CASE c.pwrup = 0 ->
              [n EXCEPT !.good = @ /\ p.cmd = "desel", !.pwrup = IF idle = 0 THEN 1 ELSE 0]
         [] c.pwrup = 1 ->
              IF p.cmd = "prechargeall" THEN [n EXCEPT !.pwrup = 2, !.idle = 8] ELSE n
         [] c.pwrup = 2 ->
              LET mode == c.mode \/ p.cmd = "mode"
                  count == IF p.cmd = "refresh" THEN c.refreshes + 1 ELSE c.refreshes
                  good == /\ n.good /\ count <= 8
                          /\ p.cmd = "mode" => ~c.mode /\ c.refreshes \in {0, 8} /\ p.a = 33
              IN IF mode /\ count >= 8
                 THEN [n EXCEPT !.mode = mode, !.refreshes = 0, !.pwrup = 3, !.idle = 2,
                                !.since = 0, !.good = good]
                 ELSE [n EXCEPT !.mode = mode, !.refreshes = count, !.good = good]
         [] c.pwrup = 3 ->
              [n EXCEPT !.good = @ /\ p.cmd = "desel" /\ idle \in {0, 1},
                        !.pwrup = IF idle = 0 THEN 6 ELSE 3]

\* What every clock of operation does before the command is looked at.
Aged(c) ==
    LET shifted == [b \in Banks |-> LET s == c.status[b] \div 2
                                    IN IF (s \div 2) % 2 = 1 /\ s < 4 THEN s + 4 ELSE s]
        \* a closed bank's time is not looked at again before it is set
        open == [b \in Banks |-> CASE shifted[b] % 2 = 1 -> c.open[b] - 1
                                   [] shifted[b] = 0     -> 0
                                   [] OTHER              -> c.open[b]]
    IN [c EXCEPT !.status = shifted,
                 !.open = [b \in Banks |-> IF open[b] < 0 THEN 0 ELSE open[b]],
                 !.good = @ /\ \A b \in Banks : open[b] >= 0,
                 !.idle = Down(@), !.since = IF @ > 2 * Refresh + 40 THEN @ ELSE @ + 1]

SecondHalf(c, data, dqm) ==
    IF c.idle > 0 /\ c.next
    THEN [c EXCEPT !.next = FALSE, !.mem[c.wr][2] = Masked(@, data, dqm)]
    ELSE c

Shifted(c, driv, data) ==
    [c EXCEPT !.out = IF driv THEN data ELSE c.q[1],
              !.q = [i \in 0 .. 4 |-> IF i = 0 \/ i = 4 THEN <<0, 0>> ELSE c.q[i + 1]]]

Closed(s) == s % 4
AutoRefresh(c) ==
    [c EXCEPT !.since = 0, !.good = @ /\ \A b \in Banks : c.status[b] < 2]
Precharge(c, bs) == [c EXCEPT !.status = [b \in Banks |-> IF b \in bs THEN Closed(@[b]) ELSE @[b]]]
Activate(c, p) ==
    [c EXCEPT !.good = @ /\ c.status[p.bs] = 0, !.status[p.bs] = 4 + Closed(@),
              !.open[p.bs] = BankOpen, !.row[p.bs] = p.a]

\* A write stores its first half whole, whatever dqm says.
WriteOp(c, p, driv, data) ==
    LET a == [row |-> c.row[p.bs], bank |-> p.bs, col |-> p.a]
    IN [c EXCEPT !.good = @ /\ c.status[p.bs] % 2 = 1 /\ driv,
                 !.mem[a][1] = data, !.wr = a, !.idle = 2, !.next = TRUE]
ReadOp(c, p, driv) ==
    LET w == c.mem[[row |-> c.row[p.bs], bank |-> p.bs, col |-> p.a]]
    IN [c EXCEPT !.good = @ /\ c.status[p.bs] % 2 = 1 /\ ~driv,
                 !.q[3] = w[1], !.q[4] = w[2], !.idle = 2]

Chip(c, p, driv, data, dqm) ==
    IF c.pwrup < 6 THEN PowerUp(c, p, dqm)
    ELSE LET n == Shifted(SecondHalf(Aged(c), data, dqm), driv, data)
         IN CASE p.cmd = "refresh"      -> AutoRefresh(n)
              [] p.cmd = "prechargeall" -> Precharge(n, Banks)
              [] p.cmd = "precharge"    -> Precharge(n, {p.bs})
              [] p.cmd = "activate"     -> Activate(n, p)
              [] p.cmd = "write"        -> WriteOp(n, p, driv, data)
              [] p.cmd = "read"         -> ReadOp(n, p, driv)
              [] p.cmd \in {"desel", "noop"} -> n
              [] OTHER                  -> [n EXCEPT !.good = FALSE]
=============================================================================
