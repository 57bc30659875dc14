------------------------------ MODULE SdramDev ------------------------------
(***************************************************************************)
(* The SDRAM controller rtl/catzip/sdramdev.v, one SdramClock for it and   *)
(* the chip: after the edge sim_clk_tick hands the new pins to the chip,   *)
(* and what that returns is there at the controller's next edge.           *)
(*                                                                         *)
(* sd holds the controller's registers, bus the Wishbone signals, the      *)
(* requests whose answers are owed and what memory should hold: a set of   *)
(* words for each address, of more than one where a write was given up.    *)
(***************************************************************************)
EXTENDS SdramSim

RDLY == 6
NoSelect == <<<<FALSE, FALSE>>, <<FALSE, FALSE>>>>
FirstAddress == [row |-> 0, bank |-> 0, col |-> 0]
NextBank(a) ==
    LET b == (a.bank + 1) % (CHOOSE n \in 1 .. 8 : Banks = 0 .. n - 1)
    IN [bank |-> b, row |-> IF b # 0 THEN a.row
                            ELSE (a.row + 1) % (CHOOSE n \in 1 .. 8 : Rows = 0 .. n - 1)]
LastColumn(c) == \A d \in Columns : d <= c

SdramInit ==
    /\ chip = ChipInit
    /\ sd = [refresh |-> 0, need |-> FALSE, inclk |-> 0, inref |-> FALSE,
             active |-> [b \in Banks |-> 0], row |-> [b \in Banks |-> 0],
             ack |-> [i \in 0 .. RDLY - 1 |-> FALSE], pending |-> FALSE, we |-> FALSE,
             addr |-> FirstAddress, data |-> ZeroWord, sel |-> NoSelect,
             rvalid |-> FALSE, fvalid |-> FALSE, idle |-> 0, maint |-> TRUE, mstate |-> "powerup",
             mclk |-> 15, mzero |-> FALSE, mcmd |-> NoCommand("desel"), hold |-> TRUE,
             startup |-> Startup, stall |-> TRUE, pins |-> NoCommand("noop"), dmod |-> FALSE,
             nxt |-> FALSE, odata |-> <<0, 0>>, odqm |-> <<FALSE, FALSE>>,
             ram |-> <<0, 0>>, last |-> <<0, 0>>]
    /\ bus = [cyc |-> FALSE, stb |-> FALSE, we |-> FALSE, addr |-> FirstAddress,
              data |-> ZeroWord, sel |-> NoSelect,
              owed |-> <<>>, n |-> 0, mem |-> [a \in Address |-> {ZeroWord}]]

-----------------------------------------------------------------------------
\* The start-up: idle, precharge all, mode, eight refreshes.
Maintenance(s) ==
    LET down == IF s.mzero THEN s
                ELSE [s EXCEPT !.mclk = (@ + 15) % 16, !.mzero = (s.mclk = 1)]
        n == [down EXCEPT !.startup = Down(@), !.hold = (s.startup # 0)]
    IN CASE s.mstate = "powerup" /\ s.hold  -> [n EXCEPT !.mcmd = NoCommand("desel")]
         [] s.mstate = "powerup" /\ ~s.hold -> [n EXCEPT !.mstate = "setmode", !.mclk = 3, !.mzero = FALSE,
                                                          !.mcmd = NoCommand("prechargeall")]
         [] s.mstate = "setmode" /\ ~s.mzero -> [n EXCEPT !.mcmd = NoCommand("desel")]
         [] s.mstate = "setmode" /\ s.mzero  -> [n EXCEPT !.mstate = "initrefresh", !.mclk = 12, !.mzero = FALSE,
                                                           !.mcmd = [cmd |-> "mode", bs |-> 0, a |-> 33]]
         [] s.mstate = "initrefresh" ->
              [n EXCEPT !.mcmd = NoCommand(IF s.mclk \in 3 .. 10 THEN "refresh" ELSE "desel"),
                        !.maint = s.maint /\ ~s.mzero]

RefreshTimers(s, n) ==
    LET cmd == s.pins.cmd = "refresh"
    IN [n EXCEPT !.refresh = IF cmd THEN Refresh ELSE Down(s.refresh),
                 !.need = (s.refresh = 0 /\ ~cmd),
                 !.inclk = IF cmd THEN 6 ELSE Down(s.inclk),
                 !.inref = (s.inclk # 0 \/ cmd)]

Accepted(s) == bus.cyc /\ bus.stb /\ ~s.stall
MutAnyRow(s, a) == s.active[a.bank] >= 4
RowOpen(s, a) == s.active[a.bank] >= 4 /\ s.row[a.bank] = a.row
TakeRequest(s, n) ==
    LET m == [n EXCEPT !.rvalid = RowOpen(s, IF Accepted(s) THEN bus.addr ELSE s.addr),
                       !.fvalid = RowOpen(s, NextBank(s.addr))]
    IN IF Accepted(s)
       THEN [m EXCEPT !.pending = TRUE, !.we = bus.we, !.addr = bus.addr, !.data = bus.data,
                      !.sel = bus.sel]
       ELSE [m EXCEPT !.pending = @ /\ s.pins.cmd \notin {"read", "write"} /\ bus.cyc]

MutWideAging(a) == [b \in Banks |-> (IF a[b] >= 4 THEN 8 ELSE 0) + a[b] \div 2]
Aging(a) == [b \in Banks |-> (IF a[b] >= 4 THEN 4 ELSE 0) + a[b] \div 2]
Open(n, a) == [n EXCEPT !.pins = [cmd |-> "activate", bs |-> a.bank, a |-> a.row],
                        !.row[a.bank] = a.row]
IssueCommand(n, c, a) == [n EXCEPT !.pins = [cmd |-> c, bs |-> a.bank, a |-> a.col], !.stall = FALSE]

\* The priorities of the operating mode: s are the registers as they were.
Operate(s, n) ==
    LET ask == s.pending /\ s.stall
        act == s.active
        bs == s.addr.bank
        fwd == NextBank(s.addr)
        fbs == fwd.bank
        close(b) == [n EXCEPT !.pins = [cmd |-> "precharge", bs |-> b, a |-> 0],
                              !.active[b] = Closed(@)]
    IN CASE s.nxt -> n
         [] ~s.nxt /\ (~bus.cyc \/ s.need) ->
              CASE (\E b \in Banks : act[b] \in {4, 5}) \/ s.idle # 0 -> n
                [] s.idle = 0 /\ (\A b \in Banks : act[b] \notin {4, 5})
                     /\ (\E b \in Banks : act[b] >= 4) ->
                     [n EXCEPT !.pins = NoCommand("prechargeall"),
                               !.active = [b \in Banks |-> Closed(@[b])]]
                [] s.idle = 0 /\ (\A b \in Banks : act[b] = 0) /\ ~s.inref
                     /\ (s.refresh < RefreshLow \/ s.need) ->
                     [n EXCEPT !.pins = NoCommand("refresh")]
                [] OTHER -> n
         [] ~s.nxt /\ bus.cyc /\ ~s.need /\ s.inref -> n
         [] ~s.nxt /\ bus.cyc /\ ~s.need /\ ~s.inref ->
              CASE ask /\ ~s.rvalid /\ act[bs] = 0 -> [Open(n, s.addr) EXCEPT !.active[bs] = 4 + Closed(@)]
                [] ask /\ ~s.rvalid /\ act[bs] = 7 -> close(bs)
                [] ask /\ ~s.we /\ act[bs] >= 4 /\ s.rvalid /\ s.idle < 4 ->
                     [IssueCommand(n, "read", s.addr) EXCEPT !.idle = 4, !.ack[RDLY - 1] = TRUE]
                [] ask /\ s.we /\ act[bs] >= 4 /\ s.rvalid /\ s.idle = 0 ->
                     [IssueCommand(n, "write", s.addr) EXCEPT !.idle = 1, !.ack[1] = TRUE,
                                                       !.dmod = TRUE, !.nxt = TRUE]
                [] OTHER ->
                     IF s.pending /\ LastColumn(s.addr.col) /\ ~s.fvalid
                        \* the bank after this one, ahead of time
                     THEN CASE act[fbs] \in {6, 7} -> close(fbs)
                            [] act[fbs] = 0 -> [Open(n, fwd) EXCEPT !.active[fbs] = 4]
                            [] OTHER -> n
                     ELSE n

\* One clock of the controller, i_ram_data being in.
Controller(s, in) ==
    LET timed == RefreshTimers(s, TakeRequest(s, Maintenance(s)))
        moved == [timed EXCEPT
                    !.ram = in, !.last = s.ram,
                    !.odata = IF s.nxt THEN s.data[2] ELSE s.data[1],
                    !.odqm = IF s.maint THEN <<FALSE, FALSE>>
                             ELSE IF ~s.we THEN <<TRUE, TRUE>>
                             ELSE IF s.nxt THEN s.sel[2] ELSE s.sel[1]]
        running == [moved EXCEPT
                      !.stall = s.pending \/ Accepted(s), !.nxt = FALSE, !.dmod = s.nxt,
                      !.ack = [i \in 0 .. RDLY - 1 |-> bus.cyc /\ i < RDLY - 1 /\ s.ack[i + 1]],
                      !.active = Aging(s.active), !.idle = Down(@),
                      !.pins = NoCommand(IF bus.cyc THEN "noop" ELSE "desel")]
        issued == Operate(s, running)
    IN IF s.maint
       THEN [moved EXCEPT !.active = [b \in Banks |-> 0], !.ack = [i \in 0 .. RDLY - 1 |-> FALSE],
                          !.stall = TRUE, !.pins = s.mcmd, !.dmod = FALSE, !.nxt = FALSE]
       ELSE IF bus.cyc THEN issued ELSE [issued EXCEPT !.ack = [i \in 0 .. RDLY - 1 |-> FALSE]]

-----------------------------------------------------------------------------
(* The Wishbone master and the memory it believes in.                      *)
Written(a, d, sel) == {[h \in 1 .. 2 |-> Masked(w[h], d[h], sel[h])] : w \in bus.mem[a]}
Word == <<sd.last, sd.ram>>
AckNow == sd.ack[0] /\ bus.cyc

\* Requests owed after this clock: one more accepted, one fewer answered.
Owed ==
    LET rest == IF AckNow /\ bus.owed # <<>> THEN Tail(bus.owed) ELSE bus.owed
    IN IF Accepted(sd)
       THEN Append(rest, [we |-> bus.we, addr |-> bus.addr, words |-> bus.mem[bus.addr]])
       ELSE rest
Believed == IF Accepted(sd) /\ bus.we
            THEN [bus.mem EXCEPT ![bus.addr] = Written(bus.addr, bus.data, bus.sel)] ELSE bus.mem

NoRequest == [bus EXCEPT !.stb = FALSE, !.we = FALSE, !.addr = FirstAddress, !.data = ZeroWord,
                         !.sel = NoSelect]
Master ==
    \/ /\ bus.cyc /\ bus.stb /\ sd.stall                       \* a request is held
       /\ bus' = [bus EXCEPT !.owed = Owed, !.mem = Believed]
    \/ /\ ~(bus.cyc /\ bus.stb /\ sd.stall)                    \* idle, or the next one
       /\ \/ bus' = [NoRequest EXCEPT !.owed = Owed, !.mem = Believed]
          \/ /\ Owed = <<>>
             /\ bus' = [NoRequest EXCEPT !.cyc = FALSE, !.owed = <<>>, !.mem = Believed]
          \/ /\ bus.n < MaxRequests
             /\ \E a \in Targets, we \in BOOLEAN, d \in Words, sel \in Selects :
                  bus' = [bus EXCEPT !.cyc = TRUE, !.stb = TRUE, !.we = we, !.addr = a,
                                     !.data = IF we THEN d ELSE ZeroWord,
                                     !.sel = sel,
                                     !.n = @ + 1, !.owed = Owed, !.mem = Believed]
    \/ /\ bus.cyc /\ Owed # <<>>                               \* given up
       /\ LET given == {Owed[i] : i \in DOMAIN Owed}
          IN bus' = [NoRequest EXCEPT !.cyc = FALSE, !.owed = <<>>,
                      !.mem = [a \in Address |->
                                 Believed[a] \union UNION {g.words : g \in {x \in given : x.we /\ x.addr = a}}]]

SdramClock ==
    /\ sd' = Controller(sd, chip.out)
    /\ chip' = Chip(chip, sd'.pins, sd'.dmod, sd'.odata, sd'.odqm)
    /\ Master

SdramNext == SdramClock
SdramFairness == WF_sdramVars(SdramClock)

-----------------------------------------------------------------------------
(* The chip, the controller and the bus keep their types.                  *)
SdramTypeOK ==
    /\ chip.pwrup \in {0, 1, 2, 3, 6} /\ chip.status \in [Banks -> 0 .. 7]
    /\ sd.active \in [Banks -> 0 .. 7] /\ sd.addr \in Address /\ sd.idle \in 0 .. 4
    /\ sd.refresh \in 0 .. Refresh /\ bus.addr \in Address /\ bus.n \in 0 .. MaxRequests

(* No assertion of the chip fails: the start-up comes in its order and not *)
(* too early, a bank is open before it is used, all are closed for a       *)
(* refresh, none is activated twice or held open too long, and chip and    *)
(* controller never drive the data pins at once.                           *)
ChipAssertsHold == chip.good

(* An answer belongs to a request that is owed one, and what it returns    *)
(* for a read is what the last write to that address left there.           *)
AnswersAreRight ==
    AckNow => /\ bus.owed # <<>>
              /\ Head(bus.owed).we \/ Word \in Head(bus.owed).words

(* A stream of requests does not starve the refresh: the chip is refreshed *)
(* within a period and the time of the access in progress.                 *)
RefreshInTime == chip.pwrup = 6 => chip.since <= Refresh + 20

(* Every request the bus keeps asking for is answered.                     *)
RequestsAreAnswered == bus.owed # <<>> ~> bus.owed = <<>>

(* sdramdev keeps to the rules of the chip, the refresh among them, and    *)
(* what it answers is what the chip was given.                             *)
SdramIsRight == ChipAssertsHold /\ RefreshInTime /\ AnswersAreRight
=============================================================================
