------------------------------ MODULE FlashDrvr ------------------------------
(***************************************************************************)
(* FLASHDRVR (sw/host/flashdrvr.cpp) writing the simulated flash through   *)
(* the configuration port of the flash controller: every writeio to        *)
(* R_FLASHCFG is one byte of FlashSim, F_END is the chip select going      *)
(* high, and a readio returns the byte that came back with the last write. *)
(* The bus reads of readi are slow reads of the same device.               *)
(*                                                                         *)
(* drv is the driver: pc the part of write() it is in, ops the writes it   *)
(* has still to make before it goes on at next, s and p the sector and the *)
(* page of the two loops.  worn is a set of cells that no longer change,   *)
(* the reason the driver has for verifying: it is chosen with the memory   *)
(* image the flash starts with.                                            *)
(***************************************************************************)
EXTENDS FlashSim

CONSTANTS Images,     \* what the flash may hold before the call
          WornSets,   \* sets of cells that fail
          MaxLen      \* bytes of one write

ASSUME DrvrAssumption ==
    /\ Images \subseteq [FAddrs -> {0, Erased}] /\ WornSets \subseteq SUBSET FAddrs
    /\ MaxLen \in Nat

VARIABLES drv, worn
drvrVars == <<fl, trans, drv, worn>>

F_END   == -1
F_EMPTY == 0
WriteEnable == <<F_END, Cmd.WREN, F_END>>
AddressOf(a) == <<0, 0, a>>     \* three writes, the last names the byte
MutStartWait == <<F_END, F_EMPTY>>
StartWait == <<F_END, Cmd.RDSR>>

DrvrInit ==
    /\ FlashInit /\ worn = {}
    /\ drv = [pc |-> "off", next |-> "off", ops |-> <<>>, s |-> 0, p |-> 0, addr |-> 0,
              len |-> 0, data |-> <<>>, verify |-> FALSE]

\* FLASHSIM::load
FlashLoad ==
    /\ drv.pc = "off" /\ drv' = [drv EXCEPT !.pc = "idle"] /\ UNCHANGED trans
    /\ \E m \in Images : fl' = [fl EXCEPT !.mem = m]
    /\ worn' \in WornSets

WriteCall ==
    /\ drv.pc = "idle" /\ trans = 0 /\ trans' = 1 /\ UNCHANGED <<fl, worn>>
    /\ \E a \in FAddrs, n \in 1 .. MaxLen, v \in BOOLEAN : \E x \in [1 .. n -> {0, Erased}] :
          /\ a + n <= FlashSize
          /\ drv' = [drv EXCEPT !.pc = "sector", !.addr = a, !.len = n, !.data = x,
                                !.verify = v, !.s = SectorBase(a)]

\* A bus read: the slow read of the device, which answers zeros while it is busy.
BusRead(a) == IF Busy(fl) THEN 0 ELSE fl.mem[a]

WriteEnd == drv.addr + drv.len
DataAt(a) == drv.data[a - drv.addr + 1]
LaterOf(a, b) == IF a > b THEN a ELSE b
SoonerOf(a, b) == IF a < b THEN a ELSE b

SendThenWait(ops, then) ==
    drv' = [drv EXCEPT !.pc = "send", !.ops = ops \o StartWait, !.next = then]

\* The comparison at the head of the loop over the sectors.
SectorLoop ==
    LET part  == LaterOf(drv.addr, drv.s) .. SoonerOf(WriteEnd, drv.s + SectorSize) - 1
        wrong == {a \in part : BusRead(a) # DataAt(a)}
        needErase == \E a \in wrong : BusRead(a) * DataAt(a) # DataAt(a)
        first == CHOOSE a \in wrong : \A b \in wrong : a <= b
    IN  /\ drv.pc = "sector" /\ UNCHANGED <<fl, trans, worn>>
        /\ IF drv.s >= SectorBase(WriteEnd + SectorSize - 1)
           THEN drv' = [drv EXCEPT !.pc = "send", !.ops = <<Cmd.WRDI, F_END>>, !.next = "true"]
           ELSE IF wrong = {} THEN drv' = [drv EXCEPT !.s = @ + SectorSize]
           ELSE IF ~needErase THEN drv' = [drv EXCEPT !.pc = "page", !.p = first]
           ELSE SendThenWait(WriteEnable \o <<Cmd.SECTOR_ERASE>> \o AddressOf(drv.s) \o <<F_END>>,
                             "erased")

\* erase_sector after the wait: the verification of every page of the sector.
EraseDone ==
    /\ drv.pc = "erased" /\ UNCHANGED <<fl, trans, worn>>
    /\ drv' = IF drv.verify /\ \E a \in drv.s .. drv.s + SectorSize - 1 : BusRead(a) # Erased
              THEN [drv EXCEPT !.pc = "false"]
              ELSE [drv EXCEPT !.pc = "page", !.p = LaterOf(drv.s, drv.addr)]

MutPageEnd == SoonerOf(WriteEnd, drv.p + PageSize)
PageEnd == SoonerOf(WriteEnd, PageBase(drv.p) + PageSize)
PageData == [i \in 1 .. PageEnd - drv.p |-> DataAt(drv.p + i - 1)]

PageLoop ==
    /\ drv.pc = "page" /\ UNCHANGED <<fl, trans, worn>>
    /\ IF drv.p >= drv.s + SectorSize \/ drv.p >= WriteEnd
       THEN drv' = [drv EXCEPT !.pc = "sector", !.s = @ + SectorSize]
       ELSE IF \A i \in DOMAIN PageData : PageData[i] = Erased
       THEN drv' = [drv EXCEPT !.pc = "programmed"]
       ELSE SendThenWait(WriteEnable \o <<F_END, Cmd.PP>> \o AddressOf(drv.p) \o PageData
                             \o <<F_END>>, "programmed")

PageDone ==
    /\ drv.pc = "programmed" /\ UNCHANGED <<fl, trans, worn>>
    /\ drv' = IF drv.verify /\ \E a \in drv.p .. PageEnd - 1 : BusRead(a) # DataAt(a)
              THEN [drv EXCEPT !.pc = "false"]
              ELSE [drv EXCEPT !.pc = "page", !.p = PageBase(@ + PageSize)]

\* A worn cell keeps what it holds.
Worn(d) == [d EXCEPT !.mem = [a \in FAddrs |-> IF a \in worn THEN fl.mem[a] ELSE d.mem[a]]]

\* One writeio to R_FLASHCFG.
SendOp ==
    /\ drv.pc = "send" /\ UNCHANGED <<trans, worn>>
    /\ fl' = IF Head(drv.ops) = F_END THEN Worn(Deselect(fl)) ELSE Xfer(fl, Head(drv.ops))
    /\ drv' = IF Len(drv.ops) > 1 THEN [drv EXCEPT !.ops = Tail(@)]
              ELSE [drv EXCEPT !.ops = <<>>, !.pc = IF drv.next = "true" THEN "true" ELSE "wait"]

\* The loop of flwait: the status read is the one of the byte before.
Flwait ==
    /\ drv.pc = "wait" /\ UNCHANGED <<trans, worn>>
    /\ IF fl.out = 1 THEN fl' = [Xfer(fl, F_EMPTY) EXCEPT !.count = 2] /\ UNCHANGED drv
       ELSE fl' = Deselect(fl) /\ drv' = [drv EXCEPT !.pc = drv.next]

DrvrTimer == Timer /\ UNCHANGED <<drv, worn>>

DrvrStep == SectorLoop \/ EraseDone \/ PageLoop \/ PageDone \/ SendOp \/ Flwait
DrvrNext == FlashLoad \/ WriteCall \/ DrvrStep \/ DrvrTimer
DrvrSpec == DrvrInit /\ [][DrvrNext]_drvrVars
DrvrFairness == WF_drvrVars(DrvrStep) /\ WF_drvrVars(DrvrTimer)

-----------------------------------------------------------------------------
(* The driver and the device keep their types.                             *)
DrvrTypeOK ==
    /\ FlashTypeOK
    /\ drv.pc \in {"off", "idle", "sector", "erased", "page", "programmed", "send", "wait",
                   "true", "false"}
    /\ worn \subseteq FAddrs /\ drv.len \in 0 .. MaxLen

(* flwait does its work: no command that changes the device reaches it     *)
(* while an earlier one is in progress, when it would be ignored or, as    *)
(* WREN, undone by the end of the write cycle.                             *)
NoCommandWhileBusy ==
    drv.pc = "send" /\ Head(drv.ops) \in {Cmd.WREN, Cmd.PP, Cmd.SECTOR_ERASE} /\ fl.count = 0
        => ~Busy(fl)

(* The driver's byte count leaves the device with every command complete:  *)
(* a program or an erase is ended only after its whole address.            *)
CommandsAreComplete ==
    drv.pc = "send" /\ Head(drv.ops) = F_END /\ fl.state \in {"PP", "SECTOR_ERASE"}
        => fl.count >= 4

(* The call as FlashStore sees it.                                         *)
SectorOfByte(a) == SectorBase(a)
JobResult == CASE drv.pc \in {"off", "idle"} -> "none"
               [] drv.pc \in {"true", "false"} -> drv.pc
               [] OTHER -> "busy"
Job == [addr |-> drv.addr, len |-> drv.len, data |-> drv.data, verify |-> drv.verify,
        result |-> JobResult]
Store == INSTANCE FlashStore WITH Addrs <- FAddrs, SectorOf <- SectorOfByte,
                                  mem <- fl.mem, job <- Job

(* write() promises what FlashStore says: nothing outside the range is     *)
(* touched but by an erase the data needs, and a verified success is true  *)
(* also on a flash with cells that fail.                                   *)
FlashWriteIsSafe == Store!StoreSpec

(* On a flash without such cells a success is true without verifying, and *)
(* nothing but a failing cell makes the driver report a failure.           *)
GoodFlashIsWritten ==
    worn = {} => /\ drv.pc # "false"
                 /\ drv.pc = "true" => \A a \in drv.addr .. WriteEnd - 1 : fl.mem[a] = DataAt(a)

(* A write ends, because every write cycle does.                           *)
WriteEnds == drv.pc = "sector" ~> drv.pc \in {"true", "false"}

(* FLASHDRVR against the device: what it sends is taken as it is meant,    *)
(* and what it says at the end is so.                                      *)
DriverIsUnderstood == NoCommandWhileBusy /\ CommandsAreComplete /\ GoodFlashIsWritten
=============================================================================
