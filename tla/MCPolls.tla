------------------------------ MODULE MCPolls -------------------------------
(* A graph with loops, a node with a chance below 1 that may return -1 or *)
(* use the magic page, and edges that are not allowed at first: the only   *)
(* one of a, and two that follow each other of start.                      *)
EXTENDS Polls

MCNodes == {"start", "a", "finish"}
To(n, after) == [to |-> n, after |-> after]
MCEdges == [start  |-> <<To("a", 30), To("finish", 60), To("start", 0)>>,
            a      |-> <<To("a", 50)>>,
            finish |-> <<>>]

Nothing == [sends |-> FALSE, recvs |-> FALSE, matches |-> FALSE, magic |-> FALSE, minus |-> FALSE]
Talks   == [Nothing EXCEPT !.sends = TRUE, !.recvs = TRUE, !.matches = TRUE]
MCActs  == [start  |-> {Talks, [Talks EXCEPT !.matches = FALSE]},
            a      |-> {[Nothing EXCEPT !.minus = TRUE], [Nothing EXCEPT !.magic = TRUE]},
            finish |-> {Nothing}]
=============================================================================
