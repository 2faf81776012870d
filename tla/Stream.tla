------------------------------- MODULE Stream -------------------------------
(***************************************************************************)
(* What a POV may expect of cgc_length_read and cgc_delimited_read         *)
(* (lib/include/libpov/pov.c), however the bytes of its peer arrive: each  *)
(* call returns the bytes that follow those of the call before, a result   *)
(* that is short means that the peer has closed the stream and nothing is  *)
(* left of it, and bytes are lost only by a call that failed.  Libpov      *)
(* implements this.                                                        *)
(*                                                                         *)
(* A byte is the number of its place in the stream.  The result of a call  *)
(* is a record [op, want, delim, bytes, why]: what was asked for, what was *)
(* returned, and why the call returned, which is "full", "eof", "error" or *)
(* "nomem".                                                                *)
(***************************************************************************)
EXTENDS Integers, Sequences

VARIABLES
  sent,   (* the bytes of the stream so far                                *)
  over,   (* there will be no more                                         *)
  pos,    (* those that are gone: returned by a call, or lost              *)
  last    (* the result of the last call                                   *)

(* The n bytes behind p.                                                   *)
Following(p, n) == [i \in 1..n |-> p + i]

Init == sent = 0 /\ over = FALSE /\ pos = 0 /\ last.why = "none"

(* The peer.                                                               *)
Arrive == ~ over /\ sent' >= sent /\ over' \in BOOLEAN /\ UNCHANGED <<pos, last>>

InOrder == last'.bytes = Following(pos, Len(last'.bytes))

Full ==
  /\ last'.why = "full"
  /\ last'.op # "delimited" => Len(last'.bytes) = last'.want
  /\ pos' = pos + Len(last'.bytes)

Short ==
  /\ last'.why = "eof" /\ over
  /\ last'.op # "delimited" => Len(last'.bytes) < last'.want
  /\ pos' = pos + Len(last'.bytes) /\ pos' = sent

(* What was read of a block before an error is gone; cgc_delimited_read    *)
(* only loses the byte it has no memory for.                               *)
Failed ==
  \/ /\ last'.why = "error"
     /\ last'.op = "delimited" => pos' = pos + Len(last'.bytes)
     /\ pos' >= pos + Len(last'.bytes)
  \/ last'.why = "nomem" /\ last'.op = "delimited" /\ pos' = pos + Len(last'.bytes) + 1

Return == InOrder /\ (Full \/ Short \/ Failed) /\ pos' <= sent /\ UNCHANGED <<sent, over>>

Next == Arrive \/ Return

Spec == Init /\ [][Next]_<<sent, over, pos, last>>

=============================================================================
