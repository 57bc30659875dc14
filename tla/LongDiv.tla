------------------------------- MODULE LongDiv -------------------------------
(***************************************************************************)
(* The 64-bit division the board's programs are linked with                *)
(* (sw/zlib/udiv.c and umod.c), on a CPU that divides 32-bit words only.   *)
(* A long is two words of W bits; both wrap.                               *)
(***************************************************************************)
EXTENDS Integers, SequencesExt

CONSTANTS W,           \* bits of a machine word, 32 in the source
          Dividends,   \* the longs divided ...
          Divisors     \* ... and the longs they are divided by

VARIABLE dv            \* the call: [pc, op, a, b, x, y, m, r, shift]

Half == 2 ^ W
Full == Half * Half

(* The steps of the search for the first one: W/2, ..., 2, 1.              *)
Halvings == SelectSeq(Reverse([i \in 1 .. W |-> i]), LAMBDA i : \E k \in 0 .. W : 2 ^ k = i /\ i < W)

(* zip_bitrev of a word.                                                   *)
BitRev(v) == LET bit(i) == (v \div 2 ^ i) % 2
             IN  FoldLeft(LAMBDA r, i : r * 2 + bit(i - 1), 0, [i \in 1 .. W |-> i])

(* cltz: leading zeros of a long, found in the reversed word by halving;   *)
(* 2W-1 of a zero.                                                         *)
Cltz(v) ==
  LET high == v \div Half
      step(c, s) == IF c.v % 2 ^ s = 0 THEN [n |-> c.n + s, v |-> c.v \div 2 ^ s] ELSE c
      start == IF high = 0 THEN [n |-> W, v |-> BitRev(v % Half)]
                           ELSE [n |-> 0, v |-> BitRev(high)]
  IN  FoldLeft(step, start, Halvings).n

Idle == [pc |-> "idle", op |-> "udiv", a |-> 0, b |-> 0, x |-> 0, y |-> 0,
         m |-> 0, r |-> 0, shift |-> 0]

Negative(v)  == v >= Full \div 2
Negate(v)    == (Full - v) % Full
Magnitude(v) == IF Negative(v) THEN Negate(v) ELSE v

DivInit == dv = Idle

(* The call: __divdi3 divides magnitudes, the others what they are given.  *)
DivCall == /\ dv.pc = "idle"
           /\ \E op \in {"udiv", "div", "umod"}, a \in Dividends, b \in Divisors :
                dv' = [Idle EXCEPT !.pc = "enter", !.op = op, !.a = a, !.b = b,
                                   !.x = IF op = "div" THEN Magnitude(a) ELSE a,
                                   !.y = IF op = "div" THEN Magnitude(b) ELSE b]

MutFits(x, y, la, lb) == lb - la <= W       \* shifts the divisor's low bits out

(* The divisor, moved up with the dividend, is all in the upper word: one  *)
(* division of words is enough.                                            *)
FitsWord(x, y, la, lb) == lb - la < W /\ ((y * 2 ^ la) % Full) % Half = 0

(* __udivdi3 up to its loop.  A word divided by zero is a CPU exception.   *)
Enter ==
  LET x == dv.x
      y == dv.y
      la == Cltz(x)
      lb == Cltz(y)
      up(v, n) == (v * 2 ^ n) % Full
  IN  /\ dv.pc = "enter"
      /\ dv' = IF x < y THEN [dv EXCEPT !.pc = "return", !.r = 0]
               ELSE IF x < Half /\ y < Half
               THEN IF y = 0 THEN [dv EXCEPT !.pc = "trap"]
                             ELSE [dv EXCEPT !.pc = "return", !.r = x \div y]
               ELSE IF FitsWord(x, y, la, lb)
               THEN IF up(y, la) < Half THEN [dv EXCEPT !.pc = "trap"]
                    ELSE [dv EXCEPT !.pc = "return",
                                    !.r = (up(x, la) \div Half) \div (up(y, la) \div Half)]
               ELSE [dv EXCEPT !.pc = "loop", !.x = up(x, la), !.y = up(y, lb),
                               !.m = 2 ^ (lb - la), !.shift = la]

Subtracts == dv.x >= dv.y

(* One turn of the loop: subtract the divisor if it goes, and halve it.    *)
Turn == /\ dv.pc = "loop" /\ dv.m > 0
        /\ dv' = [dv EXCEPT !.r = IF Subtracts THEN @ + dv.m ELSE @,
                            !.x = IF Subtracts THEN @ - dv.y ELSE @,
                            !.m = @ \div 2, !.y = @ \div 2]

TurnsEnd == /\ dv.pc = "loop" /\ dv.m = 0
            /\ dv' = [dv EXCEPT !.pc = "return"]

Sign(a, b) == Negative(a) # Negative(b)

(* The value the caller gets: the sign of __divdi3, the remainder of       *)
(* __umoddi3.                                                              *)
Return == /\ dv.pc = "return"
          /\ dv' = [dv EXCEPT !.pc = "done",
                       !.r = CASE dv.op = "div"  -> IF Sign(dv.a, dv.b) THEN Negate(@) ELSE @
                               [] dv.op = "umod" -> (dv.a - @ * dv.b) % Full
                               [] dv.op = "udiv" -> @]

DivNext == DivCall \/ Enter \/ Turn \/ TurnsEnd \/ Return

-----------------------------------------------------------------------------
(* Every value of the call fits its type.                                  *)
DivTypeOK == /\ dv.pc \in {"idle", "enter", "loop", "return", "done", "trap"}
             /\ {dv.a, dv.b, dv.x, dv.y, dv.m, dv.r} \subseteq 0 .. Full - 1
             /\ dv.shift \in 0 .. 2 * W

Signed(v) == IF Negative(v) THEN v - Full ELSE v

(* C's quotient, towards zero.                                             *)
Quotient(n, d) == LET abs(v) == IF v < 0 THEN -v ELSE v
                      q == abs(n) \div abs(d)
                  IN  IF (n < 0) # (d < 0) THEN -q ELSE q

(* udiv.c, umod.c: for a divisor that is not zero the three calls return   *)
(* the quotient and the remainder of C, on every path through the code;    *)
(* and only a divisor of zero traps.                                       *)
DividesAsC ==
  /\ dv.pc = "done" /\ dv.b # 0 =>
       dv.r = CASE dv.op = "udiv" -> dv.a \div dv.b
                [] dv.op = "umod" -> dv.a % dv.b
                [] dv.op = "div"  -> Quotient(Signed(dv.a), Signed(dv.b)) % Full
  /\ dv.pc = "trap" => dv.b = 0

(* __udivdi3: in every turn what was subtracted and what is left make the  *)
(* dividend, and what is left is less than twice the divisor at its        *)
(* present place, so that a turn need subtract it once only.               *)
NothingIsLost ==
  dv.pc = "loop" /\ dv.b # 0 =>
    LET n == IF dv.op = "div" THEN Magnitude(dv.a) ELSE dv.a
        d == IF dv.op = "div" THEN Magnitude(dv.b) ELSE dv.b
    IN  /\ (n - dv.r * d) * 2 ^ dv.shift = dv.x
        /\ dv.m > 0 => dv.x < 2 * dv.y

(* udiv.c and umod.c: right in every turn and at the end.                  *)
DivisionIsRight == DividesAsC /\ NothingIsLost
=============================================================================
