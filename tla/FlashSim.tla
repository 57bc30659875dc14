------------------------------ MODULE FlashSim ------------------------------
(***************************************************************************)
(* FLASHSIM (sim/verilated/flashsim.cpp), the simulated SPI flash, one     *)
(* byte of the serial interface at a time: Select and Xfer are eight       *)
(* falling clock edges with the chip select low, Deselect is the chip      *)
(* select going high, Timer is the end of m_write_count.                   *)
(*                                                                         *)
(* The device is the record fl.  A byte of memory is one bit: 1 is 0xff,   *)
(* 0 any byte with a bit cleared, so that programming (&=) is a product.   *)
(* The 24 address bits travel as three bytes of which the last one names   *)
(* the byte of this small flash.  Data that leaves the device is the byte  *)
(* QOREG puts in m_oreg, seen by the master during the next byte.          *)
(*                                                                         *)
(* FreeByte, FreeEnd and Timer are the device under any master of its pins *)
(* (the controller reads in place with the wide commands), bounded by      *)
(* MaxBytes a transaction and MaxTrans transactions; FlashDrvr composes it *)
(* with the driver.                                                        *)
(***************************************************************************)
EXTENDS Integers, FiniteSets, Sequences

CONSTANTS PageSize,    \* bytes of a page (256 in the device)
          SectorSize,  \* bytes of a sector (1 << 16)
          FlashSize,   \* m_membytes
          MaxBytes,    \* bytes in a transaction of the free master
          MaxTrans     \* transactions of the free master

ASSUME FlashGeometry ==
    /\ PageSize \in Nat \ {0} /\ SectorSize \in Nat \ {0} /\ FlashSize \in Nat \ {0, 1}
    /\ SectorSize % PageSize = 0 /\ FlashSize % SectorSize = 0

VARIABLES fl,      \* the device
          trans    \* transactions the free master has begun

flashVars == <<fl, trans>>

FAddrs == 0 .. FlashSize - 1
PageBase(a)   == a - (a % PageSize)
SectorBase(a) == a - (a % SectorSize)
Erased == 1

\* The command bytes of operator()'s switch.
Cmd == [NOP |-> 0, WRSR |-> 1, PP |-> 2, SLOW_READ |-> 3, WRDI |-> 4, RDSR |-> 5, WREN |-> 6,
        FAST_READ |-> 11, CLSR |-> 48, QPP |-> 50, RDCR |-> 53, RDID |-> 159, RELEASE |-> 171,
        POWER_DOWN |-> 185, DUAL_READ |-> 187, BULK_ERASE |-> 199, SECTOR_ERASE |-> 216,
        QUAD_READ |-> 235]

FlashStates == {"IDLE", "INVALID", "WRSR", "RDSR", "RDCR", "CLSR", "RDID", "RELEASE",
    "SLOW_READ", "FAST_READ", "QUAD_READ_CMD", "QUAD_READ", "QUAD_READ_IDLE",
    "DUAL_READ_CMD", "DUAL_READ", "DUAL_READ_IDLE", "SECTOR_ERASE", "BULK_ERASE",
    "PP", "QPP", "exit"}

\* FLASHSIM::FLASHSIM.  xip is (m_mode_byte & 0xf0) == 0xa0, timing m_write_count > 0.
PowerUp(mem) ==
    [state |-> "IDLE", sreg |-> {}, timing |-> FALSE, mem |-> mem,
     pmem |-> [i \in 0 .. PageSize - 1 |-> Erased], addr |-> 0, count |-> 0,
     mode |-> "SPI", xip |-> FALSE, out |-> 0]

MutWriteAllowed(d) == "WEL" \in d.sreg
WriteAllowed(d) == d.sreg = {"WEL"}      \* 2 == (m_sreg & 0x203)
Busy(d) == "WIP" \in d.sreg

\* QOREG(m_mem[m_addr++]); past the end of m_mem is out of bounds and not modelled.
NextByte(d) == [d EXCEPT !.out = d.mem[d.addr], !.addr = (@ + 1) % FlashSize]

\* The command byte: m_count == 8.
Opcode(d, b) ==
    LET To(s)   == [d EXCEPT !.state = s]
        Write(s) == To(IF WriteAllowed(d) THEN s ELSE "INVALID")
    IN  IF "DPD" \in d.sreg /\ b # Cmd.RELEASE THEN d
        ELSE CASE b = Cmd.WRSR    -> Write("WRSR")
          [] b = Cmd.PP           -> Write("PP")
          [] b = Cmd.QPP          -> Write("QPP")
          [] b = Cmd.SECTOR_ERASE -> Write("SECTOR_ERASE")
          [] b = Cmd.BULK_ERASE   -> Write("BULK_ERASE")
          [] b = Cmd.WRDI         -> [To("IDLE") EXCEPT !.sreg = @ \ {"WEL"}]
          [] b = Cmd.WREN         -> [To("IDLE") EXCEPT !.sreg = @ \union {"WEL"}]
          [] b = Cmd.RDSR         -> [To("RDSR") EXCEPT !.out = IF Busy(d) THEN 1 ELSE 0]
          [] b = Cmd.RDCR         -> To("RDCR")
          [] b = Cmd.CLSR         -> To("CLSR")
          [] b = Cmd.RDID         -> To("RDID")
          [] b = Cmd.SLOW_READ    -> To("SLOW_READ")
          [] b = Cmd.FAST_READ    -> To("FAST_READ")
          [] b = Cmd.DUAL_READ    -> [To("DUAL_READ_CMD") EXCEPT !.mode = "DSPI"]
          [] b = Cmd.QUAD_READ    -> [To("QUAD_READ_CMD") EXCEPT !.mode = "QSPI"]
          [] b = Cmd.RELEASE      -> [To("RELEASE") EXCEPT !.sreg = @ \ {"DPD"},
                                                       !.timing = @ \/ "DPD" \in d.sreg]
          [] b = Cmd.POWER_DOWN   -> IF Busy(d) THEN To("INVALID")
                                 ELSE [To("IDLE") EXCEPT !.sreg = @ \union {"DPD"}]
          [] OTHER            -> [To("IDLE") EXCEPT !.mode = "SPI"]

\* A later byte of a read: n counts the bytes of the transaction.
ReadByte(d, n, b) ==
    LET ready == ~Busy(d)
        Latch == [d EXCEPT !.addr = b]
        ModeByte == [d EXCEPT !.xip = (b = 1)]
        Silent == [d EXCEPT !.out = 0]
    IN  CASE d.state = "SLOW_READ" /\ n = 4                -> NextByte(Latch)
          [] d.state # "SLOW_READ" /\ n = 4
               /\ d.state \in {"FAST_READ", "QUAD_READ_CMD", "DUAL_READ_CMD"} -> Latch
          [] d.state \in {"SLOW_READ", "FAST_READ"} /\ n > 4 /\ ready -> NextByte(d)
          [] d.state = "DUAL_READ_CMD" /\ n = 5 /\ ready   -> NextByte(ModeByte)
          [] d.state = "DUAL_READ_CMD" /\ n > 5 /\ ready   -> NextByte(d)
          [] d.state = "QUAD_READ_CMD" /\ n = 5            -> ModeByte
          [] d.state = "QUAD_READ_CMD" /\ n > 5 /\ ready   -> NextByte(d)
          [] d.state = "DUAL_READ"                         -> NextByte(IF n = 4 THEN ModeByte ELSE d)
          [] d.state = "QUAD_READ" /\ n = 4                -> ModeByte
          [] d.state = "QUAD_READ" /\ n > 4 /\ ready       -> NextByte(d)
          [] OTHER                                         -> Silent

\* A later byte of a page program: the page buffer is cleared with the address.
NextInPage(a) == PageBase(a) + ((a + 1) % PageSize)
ProgramByte(d, n, b) ==
    CASE n = 4 -> [d EXCEPT !.addr = b, !.pmem = [i \in DOMAIN @ |-> Erased],
                            !.mode = IF d.state = "QPP" THEN "QSPI" ELSE @]
      [] n > 4 -> [d EXCEPT !.pmem[d.addr % PageSize] = IF b = Erased THEN Erased ELSE 0,
                            !.addr = NextInPage(@)]
      [] OTHER -> d

LaterByte(d, n, b) ==
    CASE d.state \in {"PP", "QPP"}                  -> ProgramByte(d, n, b)
      [] d.state = "SECTOR_ERASE" /\ n = 4          -> [d EXCEPT !.addr = b]
      [] d.state = "WRSR" /\ n = 2                  -> [d EXCEPT !.sreg = @ \ {"WEL", "DPD"}]
      [] d.state = "WRSR" /\ n > 3                  -> [d EXCEPT !.state = "exit"]
      [] d.state = "CLSR"                           -> [d EXCEPT !.state = "exit"]
      [] d.state = "RDSR"                           -> [d EXCEPT !.out = IF Busy(d) THEN 1 ELSE 0]
      [] d.state \in {"SLOW_READ", "FAST_READ", "QUAD_READ_CMD", "QUAD_READ",
                      "DUAL_READ_CMD", "DUAL_READ"} -> ReadByte(d, n, b)
      [] OTHER                                      -> [d EXCEPT !.out = 0]

\* Eight clocks with the chip select low.
Xfer(d, b) ==
    LET n == d.count + 1
        c == [d EXCEPT !.count = n]
    IN  CASE d.state \in {"QUAD_READ_IDLE", "DUAL_READ_IDLE"} /\ n = 3 ->
                 [c EXCEPT !.addr = b, !.out = 0,
                           !.state = IF d.state = "QUAD_READ_IDLE" THEN "QUAD_READ" ELSE "DUAL_READ"]
          [] d.state \in {"QUAD_READ_IDLE", "DUAL_READ_IDLE"} /\ n # 3 -> [c EXCEPT !.out = 0]
          [] OTHER -> IF n = 1 THEN Opcode(c, b) ELSE LaterByte(c, n, b)

\* The write cycle a command leaves behind when the chip select goes high.
WriteCycle(d, mem) ==
    [d EXCEPT !.state = "IDLE", !.timing = TRUE, !.mem = mem,
              !.sreg = (@ \ {"WEL"}) \union {"WIP"}]
Programmed(d) ==
    [a \in FAddrs |-> IF PageBase(a) = PageBase(d.addr)
                      THEN d.mem[a] * d.pmem[a % PageSize] ELSE d.mem[a]]
SectorErased(d) ==
    [a \in FAddrs |-> IF SectorBase(a) = SectorBase(d.addr) THEN Erased ELSE d.mem[a]]

\* The end of a wide read: only the mode byte keeps the device in it.
KeepReading(d, s) == IF d.xip THEN [d EXCEPT !.state = s] ELSE [d EXCEPT !.mode = "SPI"]

\* The chip select is high.
Deselect(d0) ==
    LET d == [d0 EXCEPT !.count = 0, !.out = 0]
    IN  CASE d.state \in {"PP", "QPP"}   -> [WriteCycle(d, Programmed(d)) EXCEPT !.mode = "SPI"]
          [] d.state = "SECTOR_ERASE"    -> [WriteCycle(d, SectorErased(d)) EXCEPT !.addr = SectorBase(@)]
          [] d.state = "WRSR"            -> WriteCycle(d, d.mem)
          [] d.state = "BULK_ERASE"      -> WriteCycle(d, [a \in FAddrs |-> Erased])
          [] d.state = "CLSR"            -> [d EXCEPT !.state = "IDLE", !.sreg = @ \ {"DPD"}]
          [] d.state = "RELEASE"         -> [d EXCEPT !.state = "IDLE", !.timing = TRUE]
          [] d.state \in {"QUAD_READ_CMD", "QUAD_READ"} -> KeepReading(d, "QUAD_READ_IDLE")
          [] d.state \in {"DUAL_READ_CMD", "DUAL_READ"} -> KeepReading(d, "DUAL_READ_IDLE")
          [] OTHER                       -> d

\* m_write_count reaches zero: m_sreg &= 0x0fc, which takes WEL and DPD with WIP.
TimeUp(d) == [d EXCEPT !.timing = FALSE, !.sreg = {}]

-----------------------------------------------------------------------------
FlashInit == fl = PowerUp([a \in FAddrs |-> a % 2]) /\ trans = 0

FreeByte ==
    /\ fl.state # "exit" /\ fl.count < MaxBytes
    /\ fl.count > 0 \/ trans < MaxTrans
    /\ \E b \in IF fl.count = 0 THEN {Cmd[c] : c \in DOMAIN Cmd} ELSE {0, 1, FlashSize - 1} :
          fl' = Xfer(fl, b)
    /\ trans' = IF fl.count = 0 THEN trans + 1 ELSE trans
FreeEnd == fl.count > 0 /\ fl.state # "exit" /\ fl' = Deselect(fl) /\ UNCHANGED trans
Timer   == fl.timing /\ fl.state # "exit" /\ fl' = TimeUp(fl) /\ UNCHANGED trans

FlashNext == FreeByte \/ FreeEnd \/ Timer
FlashSpec == FlashInit /\ [][FlashNext]_flashVars

-----------------------------------------------------------------------------
(* The device's registers keep their ranges, a page buffer one page.       *)
FlashTypeOK ==
    /\ fl.state \in FlashStates /\ fl.sreg \subseteq {"WIP", "WEL", "DPD"}
    /\ fl.mode \in {"SPI", "DSPI", "QSPI"}
    /\ fl.mem \in [FAddrs -> 0 .. 1] /\ fl.addr \in FAddrs
    /\ DOMAIN fl.pmem = 0 .. PageSize - 1

(* The assertions of the two execute-in-place states: a device that takes  *)
(* an address without a command has kept the bus width of the read it      *)
(* continues and has not been put to sleep, whatever was cut short before. *)
XipIsConsistent ==
    /\ fl.state \in {"QUAD_READ", "QUAD_READ_IDLE"} => fl.mode = "QSPI" \/ ~fl.xip
    /\ fl.state = "QUAD_READ_IDLE" => fl.mode = "QSPI" /\ "DPD" \notin fl.sreg
    /\ fl.state = "DUAL_READ_IDLE" => fl.mode = "DSPI" /\ "DPD" \notin fl.sreg

(* Once loaded, the memory changes only when the chip select ends a        *)
(* command that was accepted with no write in progress, and the change     *)
(* starts one: two programs or erases never overlap, also when a timer     *)
(* runs out between the command and its end.                               *)
WritesNeverOverlap ==
    [][fl.count > 0 /\ fl'.mem # fl.mem => ~Busy(fl) /\ Busy(fl') /\ fl'.timing]_flashVars

(* FLASHSIM under any master: neither its reads in place nor its writes    *)
(* get out of step.                                                        *)
FlashKeepsItsState == []XipIsConsistent /\ WritesNeverOverlap
=============================================================================
