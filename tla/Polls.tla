------------------------------- MODULE Polls --------------------------------
(***************************************************************************)
(* generate-polls (src/tools/generate-polls): in every round it walks the  *)
(* state graph of a challenge until it has as many polls as the round      *)
(* counts, some of them twice or more, writes them, and in the end plots   *)
(* what it walked.  What random chooses is left open.                      *)
(***************************************************************************)
EXTENDS Naturals, Sequences, FiniteSets, Functions

CONSTANTS
  Nodes, Start, Finish,   (* the graph; Start and Finish may be None       *)
  Edges,      (* of each node a sequence of [to, after]: after in percent  *)
  Skips,      (* the nodes with a chance below 1                           *)
  Stops,      (* those whose "continue" is below 1                         *)
  Acts,       (* what the method of a node may do                          *)
  MaxDepth,   (* --depth                                                   *)
  Sizes,      (* the polls a round may have, between the bounds of --count *)
  Rounds, Duplicate, Repeat,   (* the options of these names               *)
  None

(* An act: the actions it appends, the magic page, the return value -1.    *)
Act == [sends : BOOLEAN, recvs : BOOLEAN, matches : BOOLEAN, magic : BOOLEAN,
        minus : BOOLEAN]

(* get_attribute, verify_node and get_graph: what a graph that is accepted  *)
(* is like; an edge with "before" is refused, and a second one to a node.  *)
GraphIsValid ==
  /\ Start \in Nodes \cup {None} /\ Finish \in Nodes \cup {None}
  /\ Skips \subseteq Nodes /\ Stops \subseteq Nodes
  /\ \A n \in Nodes : Acts[n] \subseteq Act /\ Acts[n] # {}
  /\ \A n \in Nodes : /\ Edges[n] \in Seq([to : Nodes, after : 0 .. 100])
                     /\ \A j, k \in DOMAIN Edges[n] : Edges[n][j].to = Edges[n][k].to => j = k

(* That, and the assertions of main.                                       *)
ASSUME PollsAssumption ==
  /\ GraphIsValid
  /\ MaxDepth \in Nat /\ Sizes \subseteq Nat /\ Rounds \in Nat
  /\ Duplicate \in 0 .. 10 /\ Repeat \in 0 .. 10 /\ (Duplicate = 0 <=> Repeat = 0)
  /\ \A size \in Sizes : Repeat * Duplicate < size

VARIABLES
  pc,
  sizes, round,         (* round_counts and round_id, from 1               *)
  id,                   (* current_id                                      *)
  i, base,              (* the walk of the round; how many before filling  *)
  dups,                 (* how often the poll of a walk is still repeated  *)
  polls,                (* [walk, magic] of each poll of the round         *)
  node, prev, depth,    (* of the walk                                     *)
  machine,              (* _sent, _recv, _matched, used_magic_page         *)
  ran, crossed,         (* the nodes executed and edges traversed so far   *)
  files                 (* how many polls of a round are written           *)

walk      == <<node, prev, depth, machine>>
loop      == <<sizes, round, id, i, base, dups, polls, files>>
pollsVars == <<pc, loop, walk, ran, crossed>>

UnderWay  == pc \notin {"round", "done", "raised"}   (* inside a round   *)
Size      == sizes[round]
AllSizes  == SumFunction(sizes)
Filling   == i >= base
Crossings == UNION {{<<n, Edges[n][k].to>> : k \in DOMAIN Edges[n]} : n \in Nodes}
Fresh     == [sent |-> FALSE, recv |-> FALSE, matched |-> FALSE, magic |-> FALSE]

PollsInit ==
  /\ sizes \in [1 .. Rounds -> Sizes]
  /\ pc = "round" /\ round = 1 /\ id = 0 /\ i = 0 /\ base = 0
  /\ dups = <<>> /\ polls = <<>>
  /\ node = None /\ prev = None /\ depth = 0 /\ machine = Fresh
  /\ ran = {} /\ crossed = {}
  /\ files = [r \in 1 .. Rounds |-> 0]

-----------------------------------------------------------------------------
(* get_dups: Duplicate walks of the round are repeated 1 .. Repeat times.  *)
Repeats(d) == SumFunction(d)
RepeatChoices ==
  {d \in [0 .. Size - 1 -> 0 .. Repeat] :
     /\ Cardinality({w \in DOMAIN d : d[w] > 0}) = Duplicate
     /\ \A w \in DOMAIN d : d[w] > 0 => w < Size - Repeats(d)}

BeginRound ==
  /\ pc = "round" /\ round <= Rounds
  /\ \E d \in RepeatChoices : dups' = d /\ base' = Size - Repeats(d)
  /\ i' = 0 /\ polls' = <<>> /\ pc' = "start"
  /\ UNCHANGED <<sizes, round, id, files, walk, ran, crossed>>

(* random.choice of nothing, when the repeats leave too few walks.         *)
TooManyRepeats ==
  /\ pc = "round" /\ round <= Rounds
  /\ \E total \in Duplicate .. Duplicate * Repeat : Size - total < Duplicate
  /\ pc' = "raised"
  /\ UNCHANGED <<loop, walk, ran, crossed>>

-----------------------------------------------------------------------------
(* The walk.                                                               *)
StartWalk ==
  /\ pc = "start"
  /\ machine' = Fresh /\ prev' = None
  /\ node' \in IF Start = None THEN Nodes ELSE {Start}
  /\ pc' = "visit"
  /\ UNCHANGED <<loop, depth, ran, crossed>>

Performed(a) ==
  machine' = [sent    |-> machine.sent    \/ a.sends, recv  |-> machine.recv  \/ a.recvs,
              matched |-> machine.matched \/ a.matches, magic |-> machine.magic \/ a.magic]

(* Mutant: the depth is not counted.                                       *)
ExecuteFlat ==
  /\ pc = "visit"
  /\ \E a \in Acts[node] : Performed(a) /\ pc' = IF a.minus THEN "finish" ELSE "leave"
  /\ ran' = ran \cup {node}
  /\ crossed' = IF prev = None THEN crossed ELSE crossed \cup {<<prev, node>>}
  /\ UNCHANGED <<loop, node, prev, depth>>

Execute ==
  /\ pc = "visit"
  /\ \E a \in Acts[node] : Performed(a) /\ pc' = IF a.minus THEN "finish" ELSE "leave"
  /\ depth' = depth + 1
  /\ ran' = ran \cup {node}
  /\ crossed' = IF prev = None THEN crossed ELSE crossed \cup {<<prev, node>>}
  /\ UNCHANGED <<loop, node, prev>>

Skip ==
  /\ pc = "visit" /\ node \in Skips
  /\ pc' = "leave"
  /\ UNCHANGED <<loop, walk, ran, crossed>>

(* Mutant: one node deeper.                                                *)
LeaveDeeper ==
  /\ pc = "leave"
  /\ prev' = node
  /\ \/ pc' = "finish" /\ (node \in Stops \/ Edges[node] = <<>> \/ depth > MaxDepth + 1)
     \/ pc' = "edge"   /\ Edges[node] # <<>> /\ depth <= MaxDepth + 1
  /\ UNCHANGED <<loop, node, depth, machine, ran, crossed>>

Leave ==
  /\ pc = "leave"
  /\ prev' = node
  /\ \/ pc' = "finish" /\ (node \in Stops \/ Edges[node] = <<>> \/ depth > MaxDepth)
     \/ pc' = "edge"   /\ Edges[node] # <<>> /\ depth <= MaxDepth
  /\ UNCHANGED <<loop, node, depth, machine, ran, crossed>>

(* The share of the polls that are done; the polls that fill a round are   *)
(* counted against another total.                                          *)
Total    == IF Filling THEN Rounds * Size ELSE AllSizes
Early(e) == 100 * id < e.after * Total

(* _random_edge takes edges out of the list it iterates over: the one that *)
(* follows an edge taken out is not looked at.                             *)
Left(es) ==
  LET looked[k \in DOMAIN es] == k = 1 \/ ~ (looked[k - 1] /\ Early(es[k - 1]))
  IN  {k \in DOMAIN es : ~ (looked[k] /\ Early(es[k]))}

TakeEdge ==
  /\ pc = "edge"
  /\ \E k \in Left(Edges[node]) : node' = Edges[node][k].to
  /\ pc' = "visit"
  /\ UNCHANGED <<loop, prev, depth, machine, ran, crossed>>

(* Without an edge left _random_edge returns None, which is no node.       *)
NoEdge ==
  /\ pc = "edge" /\ Left(Edges[node]) = {}
  /\ pc' = "raised"
  /\ UNCHANGED <<loop, walk, ran, crossed>>

(* The finish node follows however the walk ended, after -1 too.           *)
EndWalk ==
  /\ pc = "finish"
  /\ IF Finish = None THEN UNCHANGED <<machine, ran>>
     ELSE (\E a \in Acts[Finish] : Performed(a)) /\ ran' = ran \cup {Finish}
  /\ depth' = 0 /\ pc' = "xml"
  /\ UNCHANGED <<loop, node, prev, crossed>>

-----------------------------------------------------------------------------
(* The poll must send, receive and match.                                  *)
Complete == machine.sent /\ machine.recv /\ machine.matched

AddPoll == polls' = Append(polls, [walk |-> id, magic |-> machine.magic])

(* Mutant: no poll is made for a repeat that was not possible.             *)
NextWalkOnce(n) == IF n < base THEN "start" ELSE "write"

(* What follows when n walks are made: another, or one that fills up.      *)
NextWalk(n) == IF n < base \/ Len(polls') < Size THEN "start" ELSE "write"

Xml ==
  /\ pc = "xml" /\ Complete
  /\ AddPoll
  /\ IF Filling THEN id' = id + 1 /\ i' = i + 1 /\ pc' = NextWalk(i + 1)
     ELSE UNCHANGED <<id, i>> /\ pc' = "dups"
  /\ UNCHANGED <<sizes, round, base, dups, files, walk, ran, crossed>>

Incomplete ==
  /\ pc = "xml" /\ ~ Complete
  /\ pc' = "raised"
  /\ UNCHANGED <<loop, walk, ran, crossed>>

Repeated == ~ machine.magic /\ dups[i] > 0

RepeatPoll ==
  /\ pc = "dups" /\ Repeated
  /\ AddPoll /\ dups' = [dups EXCEPT ![i] = @ - 1]
  /\ UNCHANGED <<pc, sizes, round, id, i, base, files, walk, ran, crossed>>

NoRepeat ==
  /\ pc = "dups" /\ ~ Repeated
  /\ id' = id + 1 /\ i' = i + 1
  /\ UNCHANGED polls /\ pc' = NextWalk(i + 1)
  /\ UNCHANGED <<sizes, round, base, dups, files, walk, ran, crossed>>

Write ==
  /\ pc = "write"
  /\ files' = [files EXCEPT ![round] = Len(polls)]
  /\ round' = round + 1 /\ pc' = "round"
  /\ UNCHANGED <<sizes, id, i, base, dups, polls, walk, ran, crossed>>

(* plot asserts that every node was executed and every edge traversed.     *)
Plot ==
  /\ pc = "round" /\ round > Rounds
  /\ pc' = IF Nodes \subseteq ran /\ Crossings \subseteq crossed THEN "done" ELSE "raised"
  /\ UNCHANGED <<loop, walk, ran, crossed>>

PollsNext ==
  \/ BeginRound \/ TooManyRepeats \/ StartWalk \/ Execute \/ Skip \/ Leave \/ TakeEdge
  \/ NoEdge \/ EndWalk \/ Xml \/ Incomplete \/ RepeatPoll \/ NoRepeat \/ Write \/ Plot

PollsSpec == PollsInit /\ [][PollsNext]_pollsVars

(* The program goes on, and a node with a chance is not skipped for ever.  *)
PollsFairSpec == PollsSpec /\ WF_pollsVars(PollsNext) /\ SF_pollsVars(Execute)

-----------------------------------------------------------------------------
(* Every variable has its type; a walk executes at most MaxDepth + 1 nodes *)
(* before the finish node.                                                 *)
PollsTypeOK ==
  /\ pc \in {"round", "start", "visit", "leave", "edge", "finish", "xml", "dups", "write",
             "done", "raised"}
  /\ sizes \in [1 .. Rounds -> Sizes] /\ round \in 1 .. Rounds + 1
  /\ id \in 0 .. AllSizes /\ i \in Nat /\ base \in Nat
  /\ polls \in Seq([walk : 0 .. AllSizes, magic : BOOLEAN])
  /\ node \in Nodes \cup {None} /\ prev \in Nodes \cup {None} /\ depth \in 0 .. MaxDepth + 1
  /\ machine \in [sent : BOOLEAN, recv : BOOLEAN, matched : BOOLEAN, magic : BOOLEAN]
  /\ ran \subseteq Nodes /\ crossed \subseteq Nodes \X Nodes

(* "Specify the number of traversals through the state graph per round"    *)
(* (generate-polls.md): a round has as many polls as it counts, also when  *)
(* polls chosen to be repeated could not be, never more on the way, and    *)
(* none when it failed.                                                    *)
RoundIsFull ==
  /\ \A r \in DOMAIN files :
       files[r] = IF r < round THEN sizes[r] ELSE 0
  /\ UnderWay => Len(polls) <= Size

(* However the graph loops, the generation ends.                           *)
Ends == <>(pc \in {"done", "raised"})

=============================================================================
