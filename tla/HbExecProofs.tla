---------------------------- MODULE HbExecProofs ----------------------------
(***************************************************************************)
(* Proofs about HbExec for every number of addresses, every data type and  *)
(* every set of command words.                                             *)
(***************************************************************************)
EXTENDS HbExec, TLAPS

\* A request is only up inside a cycle.
StbInCyc == o_wb_stb => o_wb_cyc

\* hbexec's address register is where the command stream has put the bus
\* pointer, except that it still has to move on while a request is up; the
\* address command waiting for its echo asked for the address it holds.
PointerAgrees ==
    /\ ptr = IF o_wb_stb THEN Sum(o_wb_addr, Bit(inc)) ELSE o_wb_addr
    /\ pending.kind = "addr" => pending.a = o_wb_addr

\* The direction of the pending command is that of the cycle, to its end.
DirectionHolds == o_wb_cyc => pending.kind = (IF o_wb_we THEN "wr" ELSE "rd")

IInv ==
    /\ TypeOK
    /\ DirectionHolds
    /\ StbInCyc
    /\ SlaveOwesOnlyWaiting
    /\ PendingIsAccounted
    /\ PointerAgrees
    /\ RequestIsTheCommands
    /\ ResponseFitsCommand

\* Sums stay in the address space.
LEMMA SumType == \A a, b \in Nat : Sum(a, b) \in Addr
  BY HbExecAssumption DEF Sum, Addr

\* Bit is 0 or 1.
LEMMA BitType == \A b \in BOOLEAN : Bit(b) \in Nat
  BY DEF Bit

\* The initial state satisfies the invariant.
LEMMA InitIInv == Init => IInv
  <1> SUFFICES ASSUME Init PROVE IInv
    OBVIOUS
  <1>1. TypeOK
    BY DEF Init, TypeOK, RspWord, Rsp
  <1>2. /\ StbInCyc /\ SlaveOwesOnlyWaiting /\ PendingIsAccounted
        /\ DirectionHolds /\ PointerAgrees /\ RequestIsTheCommands
    BY DEF Init, StbInCyc, SlaveOwesOnlyWaiting, PendingIsAccounted, None,
           DirectionHolds, PointerAgrees, RequestIsTheCommands
  <1>3. ResponseFitsCommand
    BY DEF Init, ResponseFitsCommand, Fits, Rsp
  <1> QED
    BY <1>1, <1>2, <1>3 DEF IInv

\* One clock preserves it, whatever the inputs.
LEMMA ClockIInv ==
  ASSUME NEW i \in Inputs, IInv, Clock(i)
  PROVE  IInv'
  <1> USE DEF Inputs
  <1>1. /\ i.i_reset \in BOOLEAN /\ i.i_cmd_stb \in BOOLEAN
        /\ i.i_wb_stall \in BOOLEAN /\ i.i_wb_ack \in BOOLEAN
        /\ i.i_wb_err \in BOOLEAN /\ i.i_wb_data \in Data
        /\ i.i_cmd_word \in CmdWord
    BY HbExecAssumption
  <1>2. /\ i.i_cmd_word.sub \in Subs /\ i.i_cmd_word.d \in Data
        /\ i.i_cmd_word.a \in Addr /\ i.i_cmd_word.rel \in BOOLEAN
        /\ i.i_cmd_word.hold \in BOOLEAN
    BY <1>1 DEF CmdWord
  <1>3. Addr \subseteq Nat
    BY HbExecAssumption DEF Addr
  <1>4. StbInCyc'
    BY <1>1 DEF IInv, TypeOK, StbInCyc, Clock, CycStb
  <1>5. SlaveOwesOnlyWaiting'
    BY <1>1 DEF IInv, TypeOK, StbInCyc, SlaveOwesOnlyWaiting, Clock, CycStb, Slave
  <1>6. TypeOK'
    <2>1. /\ o_wb_cyc' \in BOOLEAN /\ o_wb_stb' \in BOOLEAN
      BY <1>1 DEF IInv, TypeOK, Clock, CycStb, CmdBus, CmdIs
    <2>2. o_wb_we' \in BOOLEAN /\ o_wb_data' \in Data
      BY <1>1, <1>2 DEF IInv, TypeOK, Clock, We, WbData, CmdIs
    <2>3. o_wb_addr' \in Addr /\ inc' \in BOOLEAN /\ newaddr' \in BOOLEAN
      <3>1. o_wb_addr' \in Addr
        <4>1. o_wb_addr \in Addr /\ inc \in BOOLEAN
          BY DEF IInv, TypeOK
        <4>2. /\ Sum(i.i_cmd_word.a, o_wb_addr) \in Addr
              /\ Sum(o_wb_addr, Bit(inc)) \in Addr
          BY <4>1, <1>2, <1>3, SumType, BitType
        <4> QED
          BY <4>1, <4>2, <1>2 DEF Clock, AddrInc
      <3>2. inc' \in BOOLEAN
        BY <1>2 DEF IInv, TypeOK, Clock, AddrInc
      <3>3. newaddr' \in BOOLEAN
        BY DEF Clock, AddrInc
      <3> QED BY <3>1, <3>2, <3>3
    <2>4. o_rsp_stb' \in BOOLEAN /\ o_rsp_word' \in RspWord
      <3>1. o_rsp_stb' \in BOOLEAN
        BY <1>1 DEF IInv, TypeOK, Clock, Response
      <3>2. \A k \in {"reset", "error", "ack"} : Rsp(k) \in RspWord
        BY DEF Rsp, RspWord
      <3>3. DataRsp(i.i_wb_data) \in RspWord
        BY <1>1 DEF DataRsp, RspWord
      <3>4. AddrRsp(o_wb_addr, ~inc) \in RspWord
        BY DEF AddrRsp, RspWord, IInv, TypeOK
      <3> QED
        BY <3>1, <3>2, <3>3, <3>4 DEF Clock, Response
    <2>5. owed' \in BOOLEAN
      BY <1>1 DEF IInv, TypeOK, Clock, Slave
    <2>6. Target(i) \in Addr
      BY <1>2, <1>3, SumType DEF IInv, TypeOK, Target
    <2>7. ptr' \in Addr
      BY <2>3, <2>6, <1>3, SumType, BitType DEF IInv, TypeOK, Clock, History
    <2>8. pending' \in Expected \cup {None}
      BY <1>2, <2>6 DEF IInv, TypeOK, Clock, History, Accepts, CmdIs, Expected, Subs
    <2>9. answered' \in Expected \cup {None}
      BY DEF IInv, TypeOK, Clock, History
    <2> QED
      BY <2>1, <2>2, <2>3, <2>4, <2>5, <2>7, <2>8, <2>9 DEF TypeOK
  <1>7. CASE i.i_reset
    <2>1. /\ ~o_wb_cyc' /\ ~o_wb_stb' /\ ~newaddr'
          /\ pending' = None /\ answered' = None /\ ptr' = o_wb_addr'
          /\ o_rsp_word' = Rsp("reset")
      BY <1>7, <1>1
      DEF Clock, CycStb, AddrInc, Response, History, Accepts
    <2> QED
      BY <2>1, <1>4, <1>5, <1>6
      DEF IInv, PendingIsAccounted, PointerAgrees, DirectionHolds,
          RequestIsTheCommands, ResponseFitsCommand, Fits, None, Rsp
  <1>8. CASE ~i.i_reset /\ o_wb_cyc
    <2>1. /\ ~newaddr /\ ~newaddr' /\ ~Accepts(i)
          /\ pending \in Expected /\ pending.kind \in {"rd", "wr"}
      BY <1>8 DEF IInv, TypeOK, PendingIsAccounted, None, Expected, Clock,
                  AddrInc, Accepts, o_cmd_busy
    <2>2. /\ inc' = inc /\ o_wb_we' = o_wb_we
          /\ o_wb_addr' = IF o_wb_stb /\ ~i.i_wb_stall
                          THEN Sum(o_wb_addr, Bit(inc)) ELSE o_wb_addr
          /\ ptr' = ptr
      BY <1>8, <2>1 DEF Clock, AddrInc, We, History, o_cmd_busy
    <2>3. CASE i.i_wb_ack \/ i.i_wb_err
      <3>1. /\ ~o_wb_cyc' /\ ~o_wb_stb' /\ o_rsp_stb'
            /\ o_wb_stb => ~i.i_wb_stall
        BY <2>3, <1>8, <1>1 DEF Clock, CycStb, Slave, Response, IInv, TypeOK,
                             SlaveOwesOnlyWaiting
      <3>2. pending' = None /\ answered' = pending
        BY <3>1, <2>1, <1>8 DEF Clock, History
      <3>3. /\ o_rsp_word'.kind = "error"
            \/ o_rsp_word'.kind = (IF o_wb_we THEN "ack" ELSE "data")
        BY <1>8, <1>1 DEF Clock, Response, Rsp, DataRsp
      <3>4. ResponseFitsCommand'
        BY <3>2, <3>3, <2>1, <1>8
        DEF ResponseFitsCommand, Fits, IInv, DirectionHolds
      <3>5. /\ PendingIsAccounted' /\ PointerAgrees' /\ DirectionHolds'
            /\ RequestIsTheCommands'
        BY <3>1, <3>2, <2>1, <2>2
        DEF IInv, PendingIsAccounted, PointerAgrees, DirectionHolds,
            RequestIsTheCommands, None
      <3> QED
        BY <3>4, <3>5, <1>4, <1>5, <1>6 DEF IInv
    <2>4. CASE ~i.i_wb_ack /\ ~i.i_wb_err
      <3>1. /\ o_wb_cyc' /\ ~o_rsp_stb'
            /\ o_wb_stb' = (o_wb_stb /\ i.i_wb_stall)
            /\ pending' = pending
            /\ o_wb_stb' => o_wb_data' = o_wb_data
        BY <2>4, <2>1, <1>8, <1>1
        DEF Clock, CycStb, Response, History, WbData, IInv, TypeOK
      <3> QED
        BY <3>1, <2>1, <2>2, <1>4, <1>5, <1>6
        DEF IInv, PendingIsAccounted, PointerAgrees, DirectionHolds,
            RequestIsTheCommands, ResponseFitsCommand
    <2> QED BY <2>3, <2>4, <1>1
  <1>9. CASE ~i.i_reset /\ ~o_wb_cyc
    <2>1. ~o_wb_stb /\ ~owed /\ ~i.i_wb_ack /\ ~i.i_wb_err /\ ptr = o_wb_addr
      BY <1>9, <1>1 DEF IInv, StbInCyc, SlaveOwesOnlyWaiting, PointerAgrees,
                        Clock, Slave
    <2>2. /\ o_rsp_stb' = newaddr
          /\ o_rsp_word' = AddrRsp(o_wb_addr, ~inc)
      BY <1>9, <2>1, <1>1 DEF Clock, Response
    <2>3. ResponseFitsCommand'
      BY <2>2, <1>9
      DEF IInv, PendingIsAccounted, PointerAgrees, ResponseFitsCommand, Fits,
          AddrRsp, Clock, History
    <2>4. CASE CmdIs(i, {"addr"})
      <3>1. /\ ~o_wb_cyc' /\ ~o_wb_stb' /\ newaddr' /\ Accepts(i)
            /\ i.i_cmd_word.sub = "addr"
        BY <2>4, <1>9, <2>1
        DEF Clock, CycStb, AddrInc, CmdIs, CmdBus, Accepts, o_cmd_busy
      <3>2. o_wb_addr' = Target(i) /\ ptr' = Target(i)
        BY <3>1, <2>4, <2>1, <1>9
        DEF Clock, AddrInc, History, Target, o_cmd_busy
      <3>3. pending' = [kind |-> "addr", a |-> Target(i), d |-> i.i_cmd_word.d]
        BY <3>1 DEF Clock, History
      <3> QED
        BY <3>1, <3>2, <3>3, <2>3, <1>4, <1>5, <1>6
        DEF IInv, PendingIsAccounted, PointerAgrees, DirectionHolds,
            RequestIsTheCommands
    <2>5. CASE CmdBus(i)
      <3>1. /\ o_wb_cyc' /\ o_wb_stb' /\ ~newaddr' /\ Accepts(i)
            /\ i.i_cmd_word.sub \in {"rd", "wr"}
            /\ o_wb_we' = (i.i_cmd_word.sub = "wr")
            /\ o_wb_addr' = o_wb_addr /\ inc' = inc
            /\ o_wb_data' = i.i_cmd_word.d
        BY <2>5, <1>9, <2>1, <1>1
        DEF Clock, CycStb, AddrInc, We, WbData, CmdIs, CmdBus, Accepts,
            o_cmd_busy
      <3>2. ptr' = Sum(ptr, Bit(inc))
        BY <3>1, <1>9 DEF Clock, History
      <3>3. pending' = [kind |-> i.i_cmd_word.sub, a |-> ptr,
                        d |-> i.i_cmd_word.d]
        BY <3>1 DEF Clock, History, Target
      <3> QED
        BY <3>1, <3>2, <3>3, <2>1, <2>3, <1>4, <1>5, <1>6
        DEF IInv, PendingIsAccounted, PointerAgrees, DirectionHolds,
            RequestIsTheCommands
    <2>6. CASE ~CmdIs(i, {"addr"}) /\ ~CmdBus(i)
      <3>1. /\ ~o_wb_cyc' /\ ~o_wb_stb' /\ ~newaddr' /\ ~Accepts(i)
            /\ o_wb_addr' = o_wb_addr
        BY <2>6, <1>9, <2>1
        DEF Clock, CycStb, AddrInc, CmdIs, CmdBus, Accepts, o_cmd_busy
      <3>2. ptr' = ptr /\ pending' = None
        BY <3>1, <2>2, <1>9
        DEF Clock, History, IInv, TypeOK, PendingIsAccounted, Expected
      <3> QED
        BY <3>1, <3>2, <2>1, <2>3, <1>4, <1>5, <1>6
        DEF IInv, PendingIsAccounted, PointerAgrees, DirectionHolds,
            RequestIsTheCommands, None
    <2> QED BY <2>4, <2>5, <2>6
  <1> QED BY <1>1, <1>7, <1>8, <1>9

\* The invariant holds in every reachable state.
LEMMA Invariance == Spec => []IInv
  <1>1. IInv /\ [Next]_vars => IInv'
    <2>1. CASE Next
      BY <2>1, ClockIInv DEF Next
    <2>2. CASE UNCHANGED vars
      BY <2>2
      DEF vars, rtl, ghost, IInv, TypeOK, StbInCyc, SlaveOwesOnlyWaiting,
          PendingIsAccounted, PointerAgrees, DirectionHolds,
          RequestIsTheCommands, ResponseFitsCommand, Fits
    <2> QED BY <2>1, <2>2
  <1> QED BY InitIInv, <1>1, PTL DEF Spec

\* Every register of hbexec keeps its type.
THEOREM TypeCorrect == Spec => []TypeOK
  BY Invariance, PTL DEF IInv

\* hbexec carries out each command as it says and once: the request on the
\* bus is the pending command's (o_wb_we, o_wb_addr, o_wb_data), the response
\* answers it (o_rsp_stb, o_rsp_word), no accepted command is forgotten and
\* none is answered twice.
THEOREM CommandsCarriedOut == Spec => []CommandsAreCarriedOut
  <1>1. IInv => CommandsAreCarriedOut
    BY DEF IInv, CommandsAreCarriedOut
  <1> QED BY Invariance, <1>1, PTL

\* A stalled request does not change (the Wishbone rule).
THEOREM StalledRequestsHold == Spec => StalledRequestHolds
  <1>1. ASSUME IInv, [Next]_vars, o_wb_stb, o_wb_stb'
        PROVE  UNCHANGED <<o_wb_we, o_wb_addr, o_wb_data>>
    <2>1. CASE UNCHANGED vars
      BY <2>1 DEF vars, rtl
    <2>2. CASE Next
      <3>1. PICK i \in Inputs : Clock(i)
        BY <2>2 DEF Next
      <3>2. o_wb_cyc /\ i.i_wb_stall
        BY <3>1, <1>1 DEF IInv, StbInCyc, Clock, CycStb, Inputs
      <3> QED
        BY <3>1, <3>2, <1>1 DEF Clock, We, AddrInc, WbData, o_cmd_busy
    <2> QED BY <1>1, <2>1, <2>2
  <1>2. IInv /\ [Next]_vars =>
          [o_wb_stb /\ o_wb_stb' => UNCHANGED <<o_wb_we, o_wb_addr, o_wb_data>>]_vars
    BY <1>1
  <1> QED BY Invariance, <1>2, PTL DEF Spec, StalledRequestHolds
=============================================================================
