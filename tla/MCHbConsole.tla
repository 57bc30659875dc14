---------------------------- MODULE MCHbConsole ----------------------------
(***************************************************************************)
(* The echo of an address, with two digits, and the word of a bus error,   *)
(* which has none.                                                         *)
(***************************************************************************)
EXTENDS HbConsole

MCWords == {<<"A", "0", "1">>, <<"E">>}
=============================================================================
