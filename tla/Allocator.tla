----------------------------- MODULE Allocator ------------------------------
(***************************************************************************)
(* What a program gets from cgc_malloc, cgc_realloc and cgc_free           *)
(* (lib/include/libpov/malloc.c): pieces of memory that are at least as    *)
(* large as what was asked for and of which no two overlap, and that stay  *)
(* where they are until the program frees or reallocates them.  Their data *)
(* are not safe: freeing a chunk may write into a piece in front of it.    *)
(* Heap implements this.                                                   *)
(*                                                                         *)
(* A piece is a record [owner, on, at, size, asked]: the pointer of the    *)
(* program to it, whether it lies in a block of the heap or has pages of   *)
(* its own, its place there, its units of memory, of which the first holds *)
(* the header, and the units asked for.                                    *)
(***************************************************************************)
EXTENDS Integers

VARIABLES
  live,  (* the pieces the program has                                     *)
  hurt   (* the pointer to the one the last call wrote into, if any        *)

Fits(p) == p.asked < p.size

(* No unit of memory is in both.  Pages of its own are fresh pages.        *)
Apart(p, q) ==
  \/ p.on # q.on
  \/ p.on = "pages" /\ p.at # q.at
  \/ p.on = "block" /\ (p.at + p.size <= q.at \/ q.at + q.size <= p.at)

Joins(p, others) ==
  /\ Fits(p)
  /\ \A q \in others : Apart(p, q)
  /\ live' = others \cup {p}

(* Freeing the chunk of p writes into no piece, or into one in front of    *)
(* it: if p is moved, that may be the one it is moved to.                  *)
Harms(p) ==
  \/ hurt' = {}
  \/ \E q \in live' :
       p.on = "block" /\ q.on = "block" /\ q.at < p.at /\ hurt' = {q.owner}

Init == live = {} /\ hurt = {}

Alloc == /\ \E p \in live' :
              (\A q \in live : q.owner # p.owner) /\ Joins(p, live)
         /\ hurt' = {}

Release == \E p \in live : live' = live \ {p} /\ Harms(p)

(* The piece stays, or another takes its place; all others are left where  *)
(* they are.                                                               *)
Resize == \E p \in live, q \in live' :
            /\ q.owner = p.owner /\ Joins(q, live \ {p})
            /\ IF q.on = p.on /\ q.at = p.at THEN hurt' = {} ELSE Harms(p)

(* There is no memory.                                                     *)
Fail == live' = live /\ hurt' = {}

(* The program ends, and its memory with it.                               *)
End == live' = {} /\ hurt' = {}

Next == Alloc \/ Release \/ Resize \/ Fail \/ End

Spec == Init /\ [][Next]_<<live, hurt>>

=============================================================================
