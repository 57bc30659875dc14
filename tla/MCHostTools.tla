----------------------------- MODULE MCHostTools -----------------------------
(***************************************************************************)
(* The programs that use the bus, and what receives their commands: the    *)
(* flash driver, the loaders, the debugger, the logic analyser's reader,   *)
(* the wavelet job, and the decoder of command characters; and the flash   *)
(* under any master of its pins.  They share no state, so that a behaviour *)
(* exercises one of them, `part`, while the others stay in an initial      *)
(* state.                                                                  *)
(***************************************************************************)
EXTENDS FlashDrvr, ElfLoad, ZipDbg, Scope, Jpeg, HbInput

VARIABLE part

Start1 == CHOOSE h \in ScopeHoldoffs : TRUE
Picture1 == CHOOSE f \in Pictures : TRUE
Constant(v) == [a \in FAddrs |-> v]

\* A flash full of ones, one of zeros and one with both in every page
MCImages == {Constant(1), Constant(0), [a \in FAddrs |-> IF a % 3 = 0 THEN 0 ELSE 1]}
MCWorn == {{}, {1}, {6}}

\* SDRAM and block RAM of the address map, with a gap between them
MCSdram == [base |-> 0, len |-> 8]
MCBkram == [base |-> 12, len |-> 4]
Sizes == {<<0, 2>>, <<2, 2>>, <<2, 4>>, <<3, 3>>, <<1, 1>>}
Seg(p, z) == [addr |-> p, filesz |-> z[1], memsz |-> z[2]]
MCFiles ==
    {<<Seg(p, z)>> : p \in {0, 4, 12, 16}, z \in Sizes}
        \cup {<<Seg(p, y), Seg(q, z)>> : <<p, q>> \in {x \in {0, 4, 12, 16} \X {0, 4, 12, 16} : x[1] # x[2]},
                                         y \in Sizes, z \in Sizes}
        \cup {<<Seg(0, x), Seg(12, y), Seg(4, z)>> : x \in Sizes, y \in Sizes, z \in Sizes}

\* A supervisor register, the program counter, and a user register
MCRegs == <<0, 15, 16>>

\* A picture without symmetry, and one with sharp edges
Ramp == [p \in Pixels |-> (7 * RowOf(p) * RowOf(p) + 13 * RowOf(p) * ColumnOf(p) + 5 * ColumnOf(p)) % 256]
Edges == [p \in Pixels |-> IF RowOf(p) = ColumnOf(p) THEN 20 ELSE IF RowOf(p) > 5 THEN 200 ELSE 0]
MCPictures == {Ramp, Edges}

MCInit ==
    /\ part \in {"flash", "pins", "elf", "dbg", "scope", "jpeg", "input"}
    /\ DrvrInit /\ ElfInit /\ DbgInit /\ ScopeInit /\ JpegInit /\ Init
    /\ part # "scope" => ~sc.compressed /\ sc.holdoff = Start1
    /\ part # "jpeg" => ~host.pi /\ host.file = Picture1

MCNext ==
    \/ part = "flash" /\ DrvrNext /\ UNCHANGED <<part, elfVars, dbgVars, scopeVars, jpegVars, vars>>
    \/ part = "pins" /\ FlashNext
          /\ UNCHANGED <<part, drv, worn, elfVars, dbgVars, scopeVars, jpegVars, vars>>
    \/ part = "elf" /\ ElfNext /\ UNCHANGED <<part, drvrVars, dbgVars, scopeVars, jpegVars, vars>>
    \/ part = "dbg" /\ DbgNext /\ UNCHANGED <<part, drvrVars, elfVars, scopeVars, jpegVars, vars>>
    \/ part = "scope" /\ ScopeNext /\ UNCHANGED <<part, drvrVars, elfVars, dbgVars, jpegVars, vars>>
    \/ part = "jpeg" /\ JpegNext /\ UNCHANGED <<part, drvrVars, elfVars, dbgVars, scopeVars, vars>>
    \/ part = "input" /\ Next /\ UNCHANGED <<part, drvrVars, elfVars, dbgVars, scopeVars, jpegVars>>

MCVars == <<part, drvrVars, elfVars, dbgVars, scopeVars, jpegVars, vars>>

\* The fairness of the component that runs
MCFairness ==
    /\ WF_drvrVars(part = "flash" /\ DrvrStep) /\ WF_drvrVars(part = "flash" /\ DrvrTimer)
    /\ WF_dbgVars(part = "dbg" /\ DbgStep) /\ WF_dbgVars(part = "dbg" /\ CpuBegin)
    /\ WF_dbgVars(part = "dbg" /\ CpuStop)
    /\ WF_scopeVars(part = "scope" /\ ScopeClock)
    /\ WF_jpegVars(part = "jpeg" /\ BoardStep) /\ WF_jpegVars(part = "jpeg" /\ HostStep)

MCSpec == MCInit /\ [][MCNext]_MCVars /\ MCFairness

\* Every component's state keeps its types.
TypesOK == DrvrTypeOK /\ ElfTypeOK /\ DbgTypeOK /\ JpegTypeOK /\ TypeOK

\* A program comes to its end: a flash write, the debugger's work on a key, a
\* capture and its reader, a picture's transform.
ToolsComeBack == WriteEnds /\ ComesBackToKeys /\ CaptureEnds /\ PicturesAreLifted
=============================================================================
