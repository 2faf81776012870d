------------------------------ MODULE MCLibpov ------------------------------
(* The reads of Libpov, with buffers of a few bytes.                       *)
EXTENDS Libpov

(* A delimiter of one byte, and one of two that are alike.                 *)
MCDelims == {<<"d">>, <<"d", "d">>}

=============================================================================
