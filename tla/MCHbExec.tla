------------------------------ MODULE MCHbExec ------------------------------
(***************************************************************************)
(* Command words for HbExec: a read, a write of each value, a word hbexec  *)
(* ignores, and every form of one address command.                        *)
(***************************************************************************)
EXTENDS HbExec

CONSTANTS d1, d2

MCData == {d1, d2}

Plain(s, v) == [sub |-> s, d |-> v, a |-> 0, rel |-> FALSE, hold |-> FALSE]

MCCmdWords ==
    {Plain("rd", d1), Plain("wr", d1), Plain("wr", d2), Plain("special", d2)}
        \cup [sub : {"addr"}, d : {d1}, a : {1}, rel : BOOLEAN, hold : BOOLEAN]
=============================================================================
