-------------------------------- MODULE Jpeg ---------------------------------
(***************************************************************************)
(* The wavelet transform of a picture: lifting.c, the program jpeg.c that  *)
(* runs it on the board, the script host/remrunjpeg.sh with wrsdram.cpp    *)
(* and rdsdram.cpp that talk to it through six words of block RAM, and     *)
(* pi_jpeg.c, the same on the host alone.                                  *)
(*                                                                         *)
(* A picture is an array of Width rows of Width words.  shared is the      *)
(* block RAM, board the program, its step n the calls of singlelift and    *)
(* ilift made, buf and alt its two pictures, host the script with the      *)
(* files it has.                                                           *)
(***************************************************************************)
EXTENDS Integers, Sequences, FiniteSets, FiniteSetsExt

CONSTANTS Width,       \* ptrs.w, 256 in the code
          Levels,      \* LVLS, 3 in the code
          Burst,       \* rows of one of the bursts of writei and readi
          Pictures,    \* the contents of b.bin
          MaxPictures  \* how often the script is run

\* The smallest square that is lifted has eight columns: with four ilift
\* would use its b without having set it.
ASSUME JpegAssumption == Levels \in Nat \ {0} /\ Width \in {2 ^ k : k \in Levels + 2 .. 10} /\ Burst \in {2 ^ k : k \in 0 .. Levels + 2}

VARIABLES shared, board, buf, alt, host
jpegVars == <<shared, board, buf, alt, host>>

Pixels == 0 .. Width * Width - 1
RowOf(p) == p \div Width
ColumnOf(p) == p % Width
At2(picture, r, c) == picture[Width * r + c]
Blank == [p \in Pixels |-> 0]

-----------------------------------------------------------------------------
(* lifting.c.  One row v of w values: its even places, less what their     *)
(* neighbours predict, go first, then the odd places, smoothed.            *)
High(v, k) == IF k = 0 THEN v[0] - v[1] ELSE v[2 * k] - (v[2 * k - 1] + v[2 * k + 1]) \div 2
MutLow(v, w, k) == v[2 * k + 1] + (IF k = w \div 2 - 1 THEN (High(v, k) + 1) \div 8
                                   ELSE (High(v, k) + High(v, k + 1)) \div 4)
Low(v, w, k) == v[2 * k + 1] + (IF k = w \div 2 - 1 THEN (High(v, k) + 1) \div 8
                                ELSE (High(v, k) + High(v, k + 1) + 2) \div 4)
LiftRow(v, w) == [i \in 0 .. w - 1 |-> IF i < w \div 2 THEN High(v, i) ELSE Low(v, w, i - w \div 2)]

\* The inverse.  At the last pair b is the odd place of two pairs before:
\* d has not been moved to b since the loop.
Odd(u, w, k) == u[w \div 2 + k] - (IF k = w \div 2 - 1 THEN (u[k] + 1) \div 8 ELSE (u[k] + u[k + 1] + 2) \div 4)
Before(w, k) == IF k = w \div 2 - 1 THEN k - 2 ELSE k - 1
Even(u, w, k) == IF k = 0 THEN u[0] + Odd(u, w, 0)
                 ELSE u[k] + (Odd(u, w, Before(w, k)) + Odd(u, w, k)) \div 2
UnliftRow(u, w) == [i \in 0 .. w - 1 |-> IF i % 2 = 0 THEN Even(u, w, i \div 2) ELSE Odd(u, w, i \div 2)]

\* The square of level l is the lower right corner of the picture.
Side(l) == Width \div 2 ^ l
Corner(l) == Width - Side(l)
InSquare(p, l) == RowOf(p) >= Corner(l) /\ ColumnOf(p) >= Corner(l)
\* A row of the source becomes a column; two calls make both directions.
Singlelift(src, dst, l) ==
    LET Row(r) == [c \in 0 .. Side(l) - 1 |-> At2(src, Corner(l) + r, Corner(l) + c)]
        out == [r \in 0 .. Side(l) - 1 |-> LiftRow(Row(r), Side(l))]
    IN  [p \in Pixels |-> IF InSquare(p, l) THEN out[ColumnOf(p) - Corner(l)][RowOf(p) - Corner(l)] ELSE dst[p]]
Ilift(src, dst, l) ==
    LET Column(c) == [r \in 0 .. Side(l) - 1 |-> At2(src, Corner(l) + r, Corner(l) + c)]
        out == [c \in 0 .. Side(l) - 1 |-> UnliftRow(Column(c), Side(l))]
    IN  [p \in Pixels |-> IF InSquare(p, l) THEN out[RowOf(p) - Corner(l)][ColumnOf(p) - Corner(l)] ELSE dst[p]]

\* lifting: call n of 4 * Levels, the first half forward, from b[1] (ibuf) to
\* b[2] (tmpbuf) when n is even and back when it is odd.
LiftCall(b, n) ==
    LET Do(src, dst) == IF n < 2 * Levels THEN Singlelift(src, dst, n \div 2)
                        ELSE Ilift(src, dst, 2 * Levels - 1 - n \div 2)
    IN  IF n % 2 = 0 THEN <<b[1], Do(b[1], b[2])>> ELSE <<Do(b[2], b[1]), b[2]>>
Calls(inverse) == IF inverse THEN 4 * Levels ELSE 2 * Levels

-----------------------------------------------------------------------------
(* jpeg.c.  The reset words of a loaded program and its waits.             *)
BoardGo(b) == board' = b /\ UNCHANGED <<shared, alt, buf, host>>
\* crt0 clears the .bss with ptrs in it; then malloc, clrram and the
\* address of inpbuf, here 1.
BoardMain ==
    /\ board.pc = "start"
    /\ board' = [board EXCEPT !.pc = "wait"]
    /\ buf' = Blank /\ alt' = Blank
    /\ shared' = [shared EXCEPT !.inp = 1]
    /\ UNCHANGED host
BoardWait == board.pc = "wait" /\ shared.wait # 1 /\ BoardGo([board EXCEPT !.pc = "wait1"])
BoardWait1 == board.pc = "wait1" /\ shared.wait1 # 1 /\ BoardGo([board EXCEPT !.pc = "wait2"])
\* ptrs.wait2 was never read from the block RAM: it is 0.
MutWait2 == shared.wait2
Wait2 == 0
\* fwd_inv is not set, so test_fwd[0] is whatever it points to.
BoardWait2 ==
    /\ board.pc = "wait2" /\ Wait2 # 1
    /\ \E inverse \in BOOLEAN :
          board' = [pc |-> "lift", n |-> 0, inverse |-> inverse, input |-> buf]
    /\ UNCHANGED <<shared, alt, buf, host>>
BoardLift ==
    /\ board.pc = "lift" /\ board.n < Calls(board.inverse)
    /\ LET b == LiftCall(<<buf, alt>>, board.n) IN buf' = b[1] /\ alt' = b[2]
    /\ board' = [board EXCEPT !.n = @ + 1]
    /\ UNCHANGED <<shared, host>>
Lifted == board.pc = "lift" /\ board.n = Calls(board.inverse)
BoardDone ==
    /\ ~host.pi /\ Lifted
    /\ BoardGo([board EXCEPT !.pc = "done"])
\* main returns when a script has set wait again.
BoardReturn == board.pc = "done" /\ shared.wait # 0 /\ BoardGo([board EXCEPT !.pc = "end"])

\* pi_jpeg: the arguments name the file of a band and say whether to invert.
PiJpeg ==
    /\ board.pc = "pi"
    /\ \/ /\ \E inverse \in BOOLEAN :
                board' = [pc |-> "lift", n |-> 0, inverse |-> inverse, input |-> host.file]
          /\ buf' = host.file
       \/ board' = [board EXCEPT !.pc = "end"] /\ buf' = buf   \* no such band, file or mode
    /\ UNCHANGED <<shared, alt, host>>
PiWrites ==
    /\ host.pi /\ Lifted
    /\ board' = [board EXCEPT !.pc = "end"]
    /\ host' = [host EXCEPT !.dwt = "file", !.got = buf, !.size = Width * Width]
    /\ UNCHANGED <<shared, buf, alt>>

-----------------------------------------------------------------------------
(* The script and the tools it calls.                                      *)
Script == <<"flag", "invfwd", "wait", "inp", "wait1", "wait2", "load", "cpu", "upload", "release", "release1", "over">>
At(step) == host.pc <= Len(Script) /\ Script[host.pc] = step
Stepped(h) == [h EXCEPT !.pc = @ + 1]
WbRegs(step, cell, value) ==
    /\ At(step) /\ shared' = [shared EXCEPT ![cell] = value] /\ host' = Stepped(host)
    /\ UNCHANGED <<board, buf, alt>>
SetWords == \/ WbRegs("flag", "flag", 2) \/ WbRegs("invfwd", "invfwd", 1) \/ WbRegs("wait", "wait", 1)
            \/ WbRegs("inp", "inp", 0) \/ WbRegs("wait1", "wait1", 1) \/ WbRegs("wait2", "wait2", 1)
Release == WbRegs("release", "wait", 0) \/ WbRegs("release1", "wait1", 0)
\* zipload halts the CPU before it writes.
Zipload == At("load") /\ board' = [board EXCEPT !.pc = "off"] /\ host' = Stepped(host) /\ UNCHANGED <<shared, buf, alt>>
StartCpu == At("cpu") /\ board' = [board EXCEPT !.pc = "start"] /\ host' = Stepped(host) /\ UNCHANGED <<shared, buf, alt>>
\* wrsdram, the bursts of writei, to where inpbuf is (DUMPMEM).  The two
\* sleeps before it are long enough for main to have set inp.  Its size is
\* counted in a buffer just allocated, which is zero, so it is the whole.
WriteSdram ==
    /\ At("upload") /\ board.pc # "start"
    /\ buf' = [p \in Pixels |-> IF RowOf(p) \in host.row .. host.row + Burst - 1 THEN host.file[p] ELSE buf[p]]
    /\ host' = IF host.row + Burst = Width THEN [Stepped(host) EXCEPT !.row = 0] ELSE [host EXCEPT !.row = @ + Burst]
    /\ UNCHANGED <<shared, board, alt>>

\* rdsdram, by hand at any time: burst by burst, then the words that are all ones
\* at the end are cut off.
Size(picture) == Max({0} \cup {p \in Pixels : picture[p] # -1}) + 1
StartRead ==
    /\ ~host.pi /\ At("over") /\ host.dwt = "none"
    /\ host' = [host EXCEPT !.dwt = "reading", !.early = board.pc # "done", !.got = Blank]
    /\ UNCHANGED <<shared, board, buf, alt>>
ReadSdram ==
    /\ At("over") /\ host.dwt = "reading"
    /\ LET got == [p \in Pixels |-> IF RowOf(p) \in host.row .. host.row + Burst - 1 THEN buf[p] ELSE host.got[p]]
       IN  host' = IF host.row + Burst = Width
                   THEN [host EXCEPT !.row = 0, !.dwt = "file", !.got = got, !.size = Size(got)]
                   ELSE [host EXCEPT !.row = @ + Burst, !.got = got]
    /\ UNCHANGED <<shared, board, buf, alt>>
\* The script again, with another picture.
Again ==
    /\ ~host.pi /\ At("over") /\ host.dwt # "reading" /\ host.run < MaxPictures
    /\ \E f \in Pictures : host' = [host EXCEPT !.pc = 1, !.run = @ + 1, !.file = f, !.dwt = "none"]
    /\ UNCHANGED <<shared, board, buf, alt>>

JpegInit ==
    /\ shared = [c \in {"flag", "invfwd", "wait", "inp", "wait1", "wait2"} |-> 0]
    /\ buf = Blank /\ alt = Blank
    /\ \E f \in Pictures, pi \in BOOLEAN :
          /\ board = [pc |-> IF pi THEN "pi" ELSE "off", n |-> 0, inverse |-> FALSE, input |-> Blank]
          /\ host = [pi |-> pi, pc |-> IF pi THEN Len(Script) ELSE 1, run |-> 1, row |-> 0, file |-> f, dwt |-> "none", early |-> FALSE,
                     got |-> Blank, size |-> 0]
BoardStep == PiJpeg \/ PiWrites \/ BoardMain \/ BoardWait \/ BoardWait1 \/ BoardWait2 \/ BoardLift \/ BoardDone \/ BoardReturn
HostStep == SetWords \/ Zipload \/ StartCpu \/ WriteSdram \/ Release
JpegNext == BoardStep \/ HostStep \/ StartRead \/ ReadSdram \/ Again
JpegFairness == WF_jpegVars(BoardStep) /\ WF_jpegVars(HostStep)

-----------------------------------------------------------------------------
\* The variables of jpeg.c and of the script keep their ranges.
JpegTypeOK ==
    /\ board.pc \in {"off", "pi", "start", "wait", "wait1", "wait2", "lift", "done", "end"}
    /\ board.n \in 0 .. Calls(board.inverse)
    /\ host.row \in 0 .. Width - 1 /\ host.pc \in 1 .. Len(Script) /\ host.size \in 0 .. Width * Width
    /\ DOMAIN buf = Pixels /\ DOMAIN alt = Pixels
    /\ shared.wait \in {0, 1} /\ shared.wait1 \in {0, 1}

\* jpeg.c lifts the whole of the picture its user sent, and sent after the
\* program cleared its memory: the two words it waits for are set before it is
\* started and cleared after the last row.
LiftsTheWholePicture ==
    board.pc \in {"lift", "done"} /\ (At("upload") \/ At("release") \/ At("release1") \/ At("over")) =>
        board.input = host.file

\* lifting.c: forward and back give the picture again, but for the last
\* 2^Levels rows and columns, where ilift uses a value of two pairs before.
InteriorIsRestored ==
    Lifted /\ board.inverse =>
        \A p \in Pixels : RowOf(p) < Width - 2 ^ Levels /\ ColumnOf(p) < Width - 2 ^ Levels => buf[p] = board.input[p]

\* lifting.c:10-12: "it constitutes an identity transformation".
IdentityTransformation == Lifted /\ board.inverse => buf = board.input

\* A file rdsdram began to read when the board was done is the result: the
\* words cut off were all ones, and nothing changed under the reading.
DownloadIsTheResult ==
    host.dwt = "file" /\ ~host.early /\ host.pc = 12 =>
        \A p \in Pixels : buf[p] = IF p < host.size THEN host.got[p] ELSE -1

\* The board transforms every picture it is sent, if the script is not run
\* again before it has.
PicturesAreLifted == At("release1") ~> board.pc = "done" \/ At("load")

\* The script's picture, the board's and the one that comes back are the same
\* one at each stage of the job.
PictureIsKept == LiftsTheWholePicture /\ InteriorIsRestored /\ DownloadIsTheResult
=============================================================================
