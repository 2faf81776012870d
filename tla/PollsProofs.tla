---------------------------- MODULE PollsProofs -----------------------------
(***************************************************************************)
(* Proofs about the generation of polls, for every graph, every number of  *)
(* rounds and of polls in them, and whatever random draws: first of sums,  *)
(* then of the rounds, the walks, and the edges that are left to them.     *)
(*                                                                         *)
(* And, at the end, about a call of a command, such as the one that        *)
(* generates the polls, for every tree of processes, whatever of it        *)
(* inherits the pipes, hangs, or writes to stderr, with a timeout and      *)
(* without.                                                                *)
(*                                                                         *)
(* That the generation ends, and that the call does, is left to TLC.       *)
(***************************************************************************)
EXTENDS Polls, CommandExec, Integers, FiniteSetTheorems, SequenceTheorems, WellFoundedInduction,
        TLAPS

-----------------------------------------------------------------------------
(* Sums.  Induction on the subsets of a finite set is stated of a set of   *)
(* them: a theorem takes no operator.                                      *)

(* A set of numbers that is not empty has a least one.                     *)
LEMMA LeastNumber ==
  ASSUME NEW T, T \subseteq Nat, T # {}
  PROVE  \E x \in T : \A y \in T : x <= y
<1> DEFINE R == OpToRel(<, Nat)
<1>1. IsWellFoundedOn(R, Nat)
  BY NatLessThanWellFounded
<1>2. \A x, y \in Nat : y < x => <<y, x>> \in R
  BY DEF OpToRel
<1> HIDE DEF R
<1>3. \E x \in T : \A y \in T : ~ (<<y, x>> \in R)
  BY <1>1, WFMin, Zenon
<1>4. PICK x \in T : \A y \in T : ~ (<<y, x>> \in R)
  BY <1>3
<1>5. ASSUME NEW y \in T PROVE x <= y
  <2>1. x \in Nat /\ y \in Nat
    OBVIOUS
  <2>2. ~ (y < x)
    BY <1>2, <1>4, <2>1
  <2> QED BY <2>1, <2>2
<1> QED BY <1>5

(* The sizes of the subsets of a finite set.                               *)
LEMMA SmallerSubset ==
  ASSUME NEW S, IsFiniteSet(S), NEW s \in SUBSET S, NEW x \in s
  PROVE  /\ s \ {x} \in SUBSET S /\ Cardinality(s) \in Nat
         /\ Cardinality(s \ {x}) \in Nat /\ Cardinality(s \ {x}) < Cardinality(s)
<1>1. IsFiniteSet(s)
  BY FS_Subset
<1>2. IsFiniteSet(s \ {x}) /\ Cardinality(s \ {x}) = Cardinality(s) - 1
  BY <1>1, FS_RemoveElement
<1>3. Cardinality(s) \in Nat /\ Cardinality(s \ {x}) \in Nat
  BY <1>1, <1>2, FS_CardinalityType
<1> QED BY <1>2, <1>3

(* A set of subsets that has each one from which it has every subset with  *)
(* one element less has all.                                               *)
LEMMA SubsetInduction ==
  ASSUME NEW S, IsFiniteSet(S), NEW T, T \subseteq SUBSET S,
         \A s \in SUBSET S : (\A x \in s : s \ {x} \in T) => s \in T
  PROVE  T = SUBSET S
<1> SUFFICES ASSUME NEW r \in SUBSET S, r \notin T PROVE FALSE
  OBVIOUS
<1> DEFINE N == {Cardinality(s) : s \in {s \in SUBSET S : s \notin T}}
<1>1. \A s \in SUBSET S : Cardinality(s) \in Nat
  BY FS_Subset, FS_CardinalityType
<1>2. N \subseteq Nat /\ N # {}
  BY <1>1
<1>3. PICK n \in N : \A m \in N : n <= m
  <2> HIDE DEF N
  <2> QED BY <1>2, LeastNumber
<1>4. PICK s \in SUBSET S : s \notin T /\ n = Cardinality(s)
  OBVIOUS
<1>5. ASSUME NEW x \in s PROVE s \ {x} \in T
  <2>1. /\ s \ {x} \in SUBSET S /\ Cardinality(s) \in Nat
        /\ Cardinality(s \ {x}) \in Nat /\ Cardinality(s \ {x}) < Cardinality(s)
    BY SmallerSubset
  <2>2. s \ {x} \notin T => n <= Cardinality(s \ {x})
    BY <1>3, <2>1
  <2> QED BY <1>4, <2>1, <2>2
<1> QED BY <1>4, <1>5

(* The fold's function on the subsets of S.                                *)
Pick(s) == CHOOSE x \in s : TRUE
IsSum(d, S, f) ==
  f = [s \in SUBSET S |-> IF s = {} THEN 0 ELSE d[Pick(s)] + f[s \ {Pick(s)}]]
SumIn(d, S, s) == (CHOOSE f : IsSum(d, S, f))[s]

LEMMA FoldIsSum ==
  ASSUME NEW d PROVE SumFunction(d) = SumIn(d, DOMAIN d, DOMAIN d)
BY Zenon DEF SumIn, IsSum, Pick, SumFunction, SumFunctionOnSet, FoldFunctionOnSet, MapThenFoldSet

(* There is such a function.                                               *)
LEMMA SumExists ==
  ASSUME NEW S, IsFiniteSet(S), NEW d
  PROVE  \E f : IsSum(d, S, f)
<1> DEFINE Small(n) == {s \in SUBSET S : Cardinality(s) <= n}
           Upto(n, f) == f = [s \in Small(n) |-> IF s = {} THEN 0
                                                 ELSE d[Pick(s)] + f[s \ {Pick(s)}]]
           T == {n \in Nat : ~ \E f : Upto(n, f)}
<1>1. \A s \in SUBSET S : Cardinality(s) \in Nat /\ (Cardinality(s) = 0 <=> s = {})
  BY FS_Subset, FS_CardinalityType, FS_EmptySet
<1>2. ASSUME NEW s \in SUBSET S, s # {}
      PROVE  /\ s \ {Pick(s)} \in SUBSET S
             /\ Cardinality(s \ {Pick(s)}) < Cardinality(s)
  <2>1. Pick(s) \in s
    BY <1>2 DEF Pick
  <2> QED BY <2>1, SmallerSubset
<1>3. 0 \notin T
  <2> DEFINE f == [s \in Small(0) |-> 0]
  <2>1. \A s \in Small(0) : s = {}
    BY <1>1
  <2>2. f = [s \in Small(0) |-> IF s = {} THEN 0 ELSE d[Pick(s)] + f[s \ {Pick(s)}]]
    BY <2>1, Zenon
  <2>3. Upto(0, f)
    BY <2>2, Zenon
  <2> QED BY <2>3, Zenon
<1>4. ASSUME NEW n \in Nat, n \notin T PROVE n + 1 \notin T
  <2>1. PICK f : Upto(n, f)
    BY <1>4
  <2>2. \A s \in SUBSET S : s \in Small(n + 1) /\ s # {} => s \ {Pick(s)} \in Small(n)
    <3> SUFFICES ASSUME NEW s \in SUBSET S, Cardinality(s) <= n + 1, s # {}
                 PROVE  s \ {Pick(s)} \in SUBSET S /\ Cardinality(s \ {Pick(s)}) <= n
      OBVIOUS
    <3>1. s \ {Pick(s)} \in SUBSET S /\ Cardinality(s \ {Pick(s)}) < Cardinality(s)
      BY <1>2
    <3>2. Cardinality(s) \in Nat /\ Cardinality(s \ {Pick(s)}) \in Nat
      BY <1>1, <3>1
    <3> QED BY <3>1, <3>2
  <2>3. \A s \in SUBSET S : s \in Small(n) => s \in Small(n + 1)
    BY <1>1
  <2> DEFINE g == [s \in Small(n + 1) |-> IF s = {} THEN 0
                                          ELSE d[Pick(s)] + f[s \ {Pick(s)}]]
  <2>4. \A s \in Small(n) : g[s] = f[s]
    <3> SUFFICES ASSUME NEW s \in SUBSET S, s \in Small(n) PROVE g[s] = f[s]
      OBVIOUS
    <3>1. f[s] = IF s = {} THEN 0 ELSE d[Pick(s)] + f[s \ {Pick(s)}]
      <4> HIDE DEF Small
      <4> QED BY <2>1, Zenon
    <3> HIDE DEF Small
    <3> QED BY <2>3, <3>1, Zenon
  <2>5. g = [s \in Small(n + 1) |-> IF s = {} THEN 0 ELSE d[Pick(s)] + g[s \ {Pick(s)}]]
    <3>1. \A s \in Small(n + 1) :
            (IF s = {} THEN 0 ELSE d[Pick(s)] + f[s \ {Pick(s)}])
              = IF s = {} THEN 0 ELSE d[Pick(s)] + g[s \ {Pick(s)}]
      <4> SUFFICES ASSUME NEW s \in Small(n + 1), s # {}
                   PROVE  f[s \ {Pick(s)}] = g[s \ {Pick(s)}]
        BY Zenon
      <4>1. s \ {Pick(s)} \in Small(n)
        BY <2>2, Zenon
      <4> HIDE DEF g, Small
      <4> QED BY <2>4, <4>1, Zenon
    <3> HIDE DEF Small
    <3> QED BY <3>1, Zenon
  <2> HIDE DEF g, Small
  <2>6. Upto(n + 1, g)
    BY <2>5, Zenon
  <2> QED BY <2>6, Zenon
<1>5. T = {}
  <2> HIDE DEF Upto
  <2>1. T \subseteq Nat
    OBVIOUS
  <2> HIDE DEF T
  <2>2. ASSUME T # {} PROVE FALSE
    <3>1. PICK n \in T : \A m \in T : n <= m
      BY <2>1, <2>2, LeastNumber
    <3>2. n \in Nat /\ n # 0
      BY <1>3, <2>1, <3>1
    <3>3. n - 1 \in Nat /\ (n - 1) + 1 = n
      BY <3>2
    <3>4. n - 1 \in T
      BY <1>4, <3>1, <3>3
    <3> QED BY <3>1, <3>2, <3>4
  <2> QED BY <2>2
<1>6. Cardinality(S) \in Nat /\ \A s \in SUBSET S : Cardinality(s) <= Cardinality(S)
  BY FS_Subset, FS_CardinalityType
<1>7. Small(Cardinality(S)) = SUBSET S
  BY <1>6, Zenon
<1>8. PICK f : Upto(Cardinality(S), f)
  <2> HIDE DEF Upto
  <2> QED BY <1>5, <1>6, Zenon
<1>9. IsSum(d, S, f)
  <2> HIDE DEF Small
  <2> QED BY <1>7, <1>8, Zenon DEF IsSum
<1> QED BY <1>9

(* A sum is its recursion.                                                 *)
LEMMA SumRecursion ==
  ASSUME NEW S, IsFiniteSet(S), NEW d, NEW s \in SUBSET S
  PROVE  /\ s = {} => SumIn(d, S, s) = 0
         /\ s # {} => SumIn(d, S, s) = d[Pick(s)] + SumIn(d, S, s \ {Pick(s)})
<1> DEFINE f == CHOOSE f : IsSum(d, S, f)
<1>1. IsSum(d, S, f)
  BY SumExists, Zenon
<1> HIDE DEF f
<1>2. f = [r \in SUBSET S |-> IF r = {} THEN 0 ELSE d[Pick(r)] + f[r \ {Pick(r)}]]
  BY <1>1, Zenon DEF IsSum
<1>3. f[s] = IF s = {} THEN 0 ELSE d[Pick(s)] + f[s \ {Pick(s)}]
  BY <1>2, Zenon
<1>4. /\ s = {} => f[s] = 0
      /\ s # {} => f[s] = d[Pick(s)] + f[s \ {Pick(s)}]
  BY <1>3, Zenon
<1> QED BY <1>4, Zenon DEF SumIn, f

LEMMA SumOfNone ==
  ASSUME NEW S, IsFiniteSet(S), NEW d
  PROVE  SumIn(d, S, {}) = 0
BY SumRecursion, Zenon

LEMMA SumOfSome ==
  ASSUME NEW S, IsFiniteSet(S), NEW d, NEW s \in SUBSET S, s # {}
  PROVE  SumIn(d, S, s) = d[Pick(s)] + SumIn(d, S, s \ {Pick(s)})
<1>1. s # {} => SumIn(d, S, s) = d[Pick(s)] + SumIn(d, S, s \ {Pick(s)})
  BY SumRecursion
<1> QED BY <1>1, Zenon

LEMMA PickIn ==
  ASSUME NEW S, NEW s \in SUBSET S, s # {}
  PROVE  Pick(s) \in s /\ s \ {Pick(s)} \in SUBSET S
BY DEF Pick

(* Numbers have a number as their sum.                                     *)
Numbers(d, S) == \A x \in S : d[x] \in Nat

LEMMA SumIsNat ==
  ASSUME NEW S, IsFiniteSet(S), NEW d, Numbers(d, S)
  PROVE  \A s \in SUBSET S : SumIn(d, S, s) \in Nat
<1> DEFINE T == {s \in SUBSET S : SumIn(d, S, s) \in Nat}
<1>1. ASSUME NEW s \in SUBSET S, \A x \in s : s \ {x} \in T PROVE s \in T
  <2>1. CASE s = {}
    <3>1. SumIn(d, S, s) = 0
      BY <2>1, SumOfNone, Zenon
    <3> QED BY <3>1
  <2>2. CASE s # {}
    <3>1. Pick(s) \in s /\ Pick(s) \in S
      BY <2>2, PickIn
    <3>2. SumIn(d, S, s) = d[Pick(s)] + SumIn(d, S, s \ {Pick(s)})
      BY <2>2, SumOfSome
    <3>3. d[Pick(s)] \in Nat /\ SumIn(d, S, s \ {Pick(s)}) \in Nat
      BY <1>1, <3>1 DEF Numbers
    <3> QED BY <3>2, <3>3
  <2> QED BY <2>1, <2>2
<1>2. T = SUBSET S
  <2> HIDE DEF T
  <2>1. T \subseteq SUBSET S
    BY DEF T
  <2> QED BY <1>1, <2>1, SubsetInduction
<1> QED BY <1>2

(* Any summand may be taken out first.                                     *)
TakesOut(d, S) ==
  \A s \in SUBSET S : \A x \in s : SumIn(d, S, s) = d[x] + SumIn(d, S, s \ {x})

LEMMA SumTakesOut ==
  ASSUME NEW S, IsFiniteSet(S), NEW d, Numbers(d, S)
  PROVE  TakesOut(d, S)
<1> DEFINE T == {s \in SUBSET S : \A x \in s : SumIn(d, S, s) = d[x] + SumIn(d, S, s \ {x})}
<1>1. ASSUME NEW s \in SUBSET S, \A x \in s : s \ {x} \in T PROVE s \in T
  <2> SUFFICES ASSUME NEW x \in s PROVE SumIn(d, S, s) = d[x] + SumIn(d, S, s \ {x})
    OBVIOUS
  <2> DEFINE p == Pick(s)
  <2>1. p \in s /\ p \in S /\ x \in S /\ s # {}
    BY PickIn
  <2>2. SumIn(d, S, s) = d[p] + SumIn(d, S, s \ {p})
    BY <2>1, SumOfSome
  <2> HIDE DEF p
  <2>3. CASE p = x
    BY <2>2, <2>3
  <2>4. CASE p # x
    <3>1. x \in s \ {p} /\ p \in s \ {x} /\ s \ {p} \in T /\ s \ {x} \in T
      BY <1>1, <2>1, <2>4
    <3> DEFINE r == (s \ {p}) \ {x}
    <3>2. SumIn(d, S, s \ {p}) = d[x] + SumIn(d, S, r)
      BY <3>1
    <3>3. SumIn(d, S, s \ {x}) = d[p] + SumIn(d, S, r)
      <4>1. (s \ {x}) \ {p} = r
        OBVIOUS
      <4>2. SumIn(d, S, s \ {x}) = d[p] + SumIn(d, S, (s \ {x}) \ {p})
        BY <3>1
      <4> QED BY <4>1, <4>2, Zenon
    <3>4. r \in SUBSET S
      OBVIOUS
    <3> HIDE DEF r
    <3>5. d[x] \in Nat /\ d[p] \in Nat /\ SumIn(d, S, r) \in Nat
      BY <2>1, <3>4, SumIsNat DEF Numbers
    <3> QED BY <2>2, <3>2, <3>3, <3>5
  <2> QED BY <2>3, <2>4
<1>2. T = SUBSET S
  <2> HIDE DEF T
  <2>1. T \subseteq SUBSET S
    BY DEF T
  <2> QED BY <1>1, <2>1, SubsetInduction
<1> QED BY <1>2 DEF TakesOut

(* Functions that agree have the same sum.                                 *)
LEMMA SumAgrees ==
  ASSUME NEW S, IsFiniteSet(S), NEW d, NEW e, NEW R \in SUBSET S,
         \A x \in R : d[x] = e[x]
  PROVE  SumIn(d, S, R) = SumIn(e, S, R)
<1> DEFINE T == {s \in SUBSET S : s \subseteq R => SumIn(d, S, s) = SumIn(e, S, s)}
<1>1. ASSUME NEW s \in SUBSET S, \A x \in s : s \ {x} \in T PROVE s \in T
  <2> SUFFICES ASSUME s \subseteq R PROVE SumIn(d, S, s) = SumIn(e, S, s)
    OBVIOUS
  <2>1. CASE s = {}
    BY <2>1, SumOfNone, Zenon
  <2>2. CASE s # {}
    <3>1. Pick(s) \in s
      BY <2>2, PickIn
    <3>2. /\ SumIn(d, S, s) = d[Pick(s)] + SumIn(d, S, s \ {Pick(s)})
          /\ SumIn(e, S, s) = e[Pick(s)] + SumIn(e, S, s \ {Pick(s)})
      BY <2>2, SumOfSome
    <3>3. SumIn(d, S, s \ {Pick(s)}) = SumIn(e, S, s \ {Pick(s)})
      BY <1>1, <3>1
    <3>4. d[Pick(s)] = e[Pick(s)]
      BY <3>1
    <3> QED BY <3>2, <3>3, <3>4, Zenon
  <2> QED BY <2>1, <2>2
<1>2. T = SUBSET S
  <2> HIDE DEF T
  <2>1. T \subseteq SUBSET S
    BY DEF T
  <2> QED BY <1>1, <2>1, SubsetInduction
<1> QED BY <1>2

(* A sum of nothing but zeros is zero.                                     *)
LEMMA SumOfZeros ==
  ASSUME NEW S, IsFiniteSet(S), NEW d, \A x \in S : d[x] = 0
  PROVE  SumIn(d, S, S) = 0
<1> DEFINE T == {s \in SUBSET S : SumIn(d, S, s) = 0}
<1>1. ASSUME NEW s \in SUBSET S, \A x \in s : s \ {x} \in T PROVE s \in T
  <2>1. CASE s = {}
    BY <2>1, SumOfNone, Zenon
  <2>2. CASE s # {}
    <3>1. Pick(s) \in s /\ Pick(s) \in S
      BY <2>2, PickIn
    <3>2. SumIn(d, S, s) = d[Pick(s)] + SumIn(d, S, s \ {Pick(s)})
      BY <2>2, SumOfSome
    <3>3. d[Pick(s)] = 0 /\ SumIn(d, S, s \ {Pick(s)}) = 0
      BY <1>1, <3>1
    <3> QED BY <3>2, <3>3
  <2> QED BY <2>1, <2>2
<1>2. T = SUBSET S
  <2> HIDE DEF T
  <2>1. T \subseteq SUBSET S
    BY DEF T
  <2> QED BY <1>1, <2>1, SubsetInduction
<1> QED BY <1>2

-----------------------------------------------------------------------------
(* The polls that the rounds from r on have together.                      *)
RestOf(r) == SumIn(sizes, 1 .. Rounds, r .. Rounds)

(* The walks of which the round has a poll.                                *)
Walks == IF pc = "dups" THEN i + 1 ELSE i

(* While a round is under way, the polls it has, those that are still to   *)
(* be repeated and one of each walk to come are no more than it counts:    *)
(* what could not be repeated is missing when the base is walked, and the  *)
(* filling walks go on until nothing is.                                   *)
Inside ==
  /\ round <= Rounds /\ dups \in [0 .. Size - 1 -> Nat] /\ base <= Size
  /\ i < base => Len(polls) + Repeats(dups) + base <= Size + Walks
  /\ base <= i => Len(polls) <= Size /\ (pc # "write" => Len(polls) < Size)
  /\ pc = "write" => base <= i /\ Len(polls) = Size
  /\ pc = "dups" => i < base
  /\ Walks <= Len(polls)
  /\ id + RestOf(round) <= AllSizes + i

RoundInv ==
  /\ UnderWay => Inside
  /\ pc = "round" => id + RestOf(round) <= AllSizes

FilesInv == files = [r \in 1 .. Rounds |-> IF r < round THEN sizes[r] ELSE 0]

(* The variables of the loop, and those of the walk.                       *)
LoopType ==
  /\ sizes \in [1 .. Rounds -> Sizes] /\ round \in 1 .. Rounds + 1
  /\ id \in 0 .. AllSizes /\ i \in Nat /\ base \in Nat
  /\ polls \in Seq([walk : 0 .. AllSizes, magic : BOOLEAN])

WalkType ==
  /\ node \in Nodes \cup {None} /\ prev \in Nodes \cup {None}
  /\ machine \in [sent : BOOLEAN, recv : BOOLEAN, matched : BOOLEAN, magic : BOOLEAN]
  /\ ran \subseteq Nodes /\ crossed \subseteq Nodes \X Nodes

PCs == {"round", "start", "visit", "leave", "edge", "finish", "xml", "dups", "write",
        "done", "raised"}

(* A node is visited with less than the greatest depth, which starts at 0  *)
(* for every walk.                                                         *)
DepthInv ==
  /\ depth \in 0 .. MaxDepth + 1
  /\ pc \in {"round", "start", "xml", "dups", "write"} => depth = 0
  /\ pc \in {"visit", "edge"} => depth <= MaxDepth

OnNode == pc \in {"visit", "leave", "edge"} => node \in Nodes

LoopInv  == LoopType /\ RoundInv /\ FilesInv
WalkInv  == WalkType /\ OnNode
PollsInv == pc \in PCs /\ LoopInv /\ WalkInv /\ DepthInv

(* What the sums are.                                                      *)
LEMMA PollsConstants ==
  /\ Rounds \in Nat /\ MaxDepth \in Nat /\ Duplicate \in Nat /\ Repeat \in Nat
  /\ \A size \in Sizes : size \in Nat /\ 0 < size
<1>1. /\ Rounds \in Nat /\ MaxDepth \in Nat /\ Duplicate \in Nat /\ Repeat \in Nat
      /\ Sizes \subseteq Nat /\ \A size \in Sizes : Repeat * Duplicate < size
  BY PollsAssumption
<1>2. Repeat * Duplicate \in Nat
  BY <1>1
<1> QED BY <1>1, <1>2

LEMMA SizesFacts ==
  ASSUME sizes \in [1 .. Rounds -> Sizes]
  PROVE  /\ \A r \in 1 .. Rounds : sizes[r] \in Nat /\ 0 < sizes[r]
         /\ \A r \in 1 .. Rounds + 1 : RestOf(r) \in Nat
         /\ \A r \in 1 .. Rounds : RestOf(r) = sizes[r] + RestOf(r + 1)
         /\ AllSizes = RestOf(1) /\ AllSizes \in Nat
<1> DEFINE R == 1 .. Rounds
<1>1. IsFiniteSet(R)
  BY PollsConstants, FS_Interval
<1>2. \A r \in R : sizes[r] \in Nat /\ 0 < sizes[r]
  BY PollsConstants
<1>3. Numbers(sizes, R)
  BY <1>2 DEF Numbers
<1>4. \A r \in 1 .. Rounds + 1 : r .. Rounds \in SUBSET R
  BY PollsConstants
<1>5. \A r \in 1 .. Rounds + 1 : RestOf(r) \in Nat
  BY <1>1, <1>3, <1>4, SumIsNat DEF RestOf
<1>6. ASSUME NEW r \in R PROVE RestOf(r) = sizes[r] + RestOf(r + 1)
  <2>1. r \in r .. Rounds /\ (r .. Rounds) \ {r} = (r + 1) .. Rounds /\ r .. Rounds \in SUBSET R
    BY PollsConstants, <1>4
  <2>2. TakesOut(sizes, R)
    BY <1>1, <1>3, SumTakesOut
  <2>3. SumIn(sizes, R, r .. Rounds) = sizes[r] + SumIn(sizes, R, (r .. Rounds) \ {r})
    BY <2>1, <2>2, Zenon DEF TakesOut
  <2> QED BY <2>1, <2>3, Zenon DEF RestOf
<1>7. AllSizes = RestOf(1)
  <2>1. DOMAIN sizes = R
    OBVIOUS
  <2>2. SumFunction(sizes) = SumIn(sizes, DOMAIN sizes, DOMAIN sizes)
    BY FoldIsSum
  <2> QED BY <2>1, <2>2, Zenon DEF AllSizes, RestOf
<1>8. AllSizes \in Nat
  BY <1>5, <1>7, PollsConstants
<1> QED BY <1>2, <1>5, <1>6, <1>7, <1>8

(* The repeats of a round: a number, one less when one is made.            *)
LEMMA RepeatsFacts ==
  ASSUME NEW n \in Nat, NEW d \in [0 .. n - 1 -> Nat]
  PROVE  /\ Repeats(d) \in Nat
         /\ \A w \in 0 .. n - 1 : d[w] > 0 =>
              /\ [d EXCEPT ![w] = @ - 1] \in [0 .. n - 1 -> Nat]
              /\ Repeats(d) = Repeats([d EXCEPT ![w] = @ - 1]) + 1
         /\ (\A w \in 0 .. n - 1 : d[w] = 0) => Repeats(d) = 0
<1> DEFINE S == 0 .. n - 1
<1>1. IsFiniteSet(S)
  BY FS_Interval
<1>2. \A e \in [S -> Nat] : Repeats(e) = SumIn(e, S, S)
  <2> SUFFICES ASSUME NEW e \in [S -> Nat] PROVE Repeats(e) = SumIn(e, S, S)
    OBVIOUS
  <2>1. DOMAIN e = S
    OBVIOUS
  <2>2. SumFunction(e) = SumIn(e, DOMAIN e, DOMAIN e)
    BY FoldIsSum
  <2> QED BY <2>1, <2>2, Zenon DEF Repeats
<1>3. \A e \in [S -> Nat] : Numbers(e, S)
  BY DEF Numbers
<1>4. Repeats(d) \in Nat
  BY <1>1, <1>2, <1>3, SumIsNat
<1>5. ASSUME NEW w \in S, d[w] > 0
      PROVE  /\ [d EXCEPT ![w] = @ - 1] \in [S -> Nat]
             /\ Repeats(d) = Repeats([d EXCEPT ![w] = @ - 1]) + 1
  <2> DEFINE e == [d EXCEPT ![w] = @ - 1]
  <2>1. d[w] \in Nat /\ d[w] - 1 \in Nat
    BY <1>5
  <2>2. e \in [S -> Nat] /\ e[w] = d[w] - 1 /\ \A x \in S \ {w} : e[x] = d[x]
    BY <2>1
  <2> HIDE DEF e
  <2>3. SumIn(e, S, S) = e[w] + SumIn(e, S, S \ {w}) /\ SumIn(d, S, S) = d[w] + SumIn(d, S, S \ {w})
    <3>1. TakesOut(e, S) /\ TakesOut(d, S)
      BY <1>1, <1>3, <2>2, SumTakesOut
    <3>2. S \in SUBSET S /\ w \in S
      OBVIOUS
    <3> QED BY <3>1, <3>2, Zenon DEF TakesOut
  <2>4. SumIn(e, S, S \ {w}) = SumIn(d, S, S \ {w})
    <3>1. S \ {w} \in SUBSET S /\ \A x \in S \ {w} : e[x] = d[x]
      BY <2>2
    <3> QED BY <1>1, <3>1, SumAgrees
  <2>5. SumIn(d, S, S \ {w}) \in Nat
    BY <1>1, <1>3, SumIsNat
  <2>6. Repeats(d) = SumIn(d, S, S) /\ Repeats(e) = SumIn(e, S, S)
    BY <1>2, <2>2
  <2>7. Repeats(d) = Repeats(e) + 1
    BY <2>1, <2>2, <2>3, <2>4, <2>5, <2>6
  <2> QED BY <2>2, <2>7 DEF e
<1>6. ASSUME \A w \in S : d[w] = 0 PROVE Repeats(d) = 0
  <2>1. SumIn(d, S, S) = 0
    BY <1>1, <1>6, SumOfZeros
  <2> QED BY <1>2, <2>1
<1> QED BY <1>4, <1>5, <1>6

LEMMA OneRepeatLess ==
  ASSUME NEW n \in Nat, NEW d \in [0 .. n - 1 -> Nat], NEW w \in 0 .. n - 1, d[w] > 0
  PROVE  /\ [d EXCEPT ![w] = @ - 1] \in [0 .. n - 1 -> Nat]
         /\ Repeats(d) = Repeats([d EXCEPT ![w] = @ - 1]) + 1
BY RepeatsFacts

(* A round has walks left to begin with, however many are repeated.        *)
LEMMA ChoiceFacts ==
  ASSUME LoopType, round <= Rounds, NEW d \in RepeatChoices
  PROVE  /\ d \in [0 .. Size - 1 -> Nat] /\ Repeats(d) \in Nat
         /\ Size - Repeats(d) \in Nat /\ 0 < Size - Repeats(d)
<1>1. Size \in Nat /\ 0 < Size
  BY SizesFacts, PollsConstants DEF LoopType, Size
<1>2. d \in [0 .. Size - 1 -> 0 .. Repeat]
  BY DEF RepeatChoices
<1>3. d \in [0 .. Size - 1 -> Nat]
  BY <1>2, PollsConstants
<1>4. Repeats(d) \in Nat
  BY <1>1, <1>3, RepeatsFacts
<1>5. ASSUME NEW w \in 0 .. Size - 1, d[w] > 0 PROVE 0 < Size - Repeats(d)
  <2>1. w < Size - Repeats(d)
    BY <1>2, <1>5 DEF RepeatChoices
  <2> QED BY <1>1, <1>4, <2>1
<1>6. ASSUME \A w \in 0 .. Size - 1 : ~ (d[w] > 0) PROVE 0 < Size - Repeats(d)
  <2>1. \A w \in 0 .. Size - 1 : d[w] = 0
    BY <1>3, <1>6
  <2>2. Repeats(d) = 0
    BY <1>1, <1>3, <2>1, RepeatsFacts
  <2> QED BY <1>1, <2>2
<1>7. 0 < Size - Repeats(d)
  BY <1>5, <1>6
<1> QED BY <1>1, <1>3, <1>4, <1>7

LEMMA PollsInvInit == PollsInit => PollsInv
<1> SUFFICES ASSUME PollsInit PROVE PollsInv
  OBVIOUS
<1>1. /\ sizes \in [1 .. Rounds -> Sizes] /\ pc = "round" /\ round = 1 /\ id = 0 /\ i = 0
      /\ base = 0 /\ polls = <<>> /\ depth = 0 /\ files = [r \in 1 .. Rounds |-> 0]
  BY DEF PollsInit
<1>2. AllSizes \in Nat /\ AllSizes = RestOf(round)
  BY <1>1, SizesFacts, Zenon
<1>3. LoopType
  BY <1>1, <1>2, PollsConstants DEF LoopType
<1>4. RoundInv
  BY <1>1, <1>2 DEF RoundInv, UnderWay
<1>5. FilesInv
  <2>1. \A r \in 1 .. Rounds : ~ (r < round)
    BY <1>1, PollsConstants
  <2> QED BY <1>1, <2>1, Zenon DEF FilesInv
<1>6. WalkInv
  BY <1>1 DEF PollsInit, WalkInv, WalkType, OnNode, Fresh
<1>7. DepthInv
  BY <1>1, PollsConstants DEF DepthInv
<1> QED BY <1>1, <1>3, <1>4, <1>5, <1>6, <1>7 DEF PollsInv, LoopInv, PCs

-----------------------------------------------------------------------------
(* The numbers of a round that is under way.                               *)
LEMMA RoundFacts ==
  ASSUME LoopInv, UnderWay
  PROVE  /\ Inside /\ Size \in Nat /\ Len(polls) \in Nat /\ RestOf(round) \in Nat
         /\ round \in 1 .. Rounds /\ Repeats(dups) \in Nat /\ AllSizes \in Nat /\ Walks \in Nat
<1>1. LoopType /\ Inside
  BY DEF LoopInv, RoundInv
<1>2. round \in 1 .. Rounds
  BY <1>1, PollsConstants DEF LoopType, Inside
<1>3. Size \in Nat /\ AllSizes \in Nat /\ RestOf(round) \in Nat
  BY <1>1, <1>2, SizesFacts, PollsConstants DEF LoopType, Size
<1>4. Repeats(dups) \in Nat
  BY <1>1, <1>3, RepeatsFacts DEF Inside
<1>5. Len(polls) \in Nat /\ Walks \in Nat
  BY <1>1, LenProperties DEF LoopType, Walks
<1> QED BY <1>1, <1>2, <1>3, <1>4, <1>5

(* The sums stay when the counts of the rounds do.                         *)
LEMMA SumsStay ==
  ASSUME sizes' = sizes, round' = round
  PROVE  AllSizes' = AllSizes /\ RestOf(round)' = RestOf(round) /\ Size' = Size
BY Zenon DEF AllSizes, RestOf, Size

(* The steps of a walk, and those that end the generation, leave the round *)
(* alone.                                                                  *)
Walking == {"start", "visit", "leave", "edge", "finish", "xml"}

LEMMA LoopFrame ==
  ASSUME LoopInv, loop' = loop,
         pc' \in {"done", "raised"} \/ pc' = pc \/ (pc \in Walking /\ pc' \in Walking)
  PROVE  LoopInv'
<1>1. /\ sizes' = sizes /\ round' = round /\ id' = id /\ i' = i /\ base' = base
      /\ dups' = dups /\ polls' = polls /\ files' = files
  BY DEF loop
<1>2. AllSizes' = AllSizes /\ RestOf(round)' = RestOf(round) /\ Size' = Size
  BY <1>1, SumsStay
<1>3. LoopType'
  BY <1>1, <1>2 DEF LoopInv, LoopType
<1>4. FilesInv'
  BY <1>1, Zenon DEF LoopInv, FilesInv
<1>5. Repeats(dups)' = Repeats(dups)
  BY <1>1, Zenon
<1>6. RoundInv'
  <2>1. CASE pc' = pc
    <3>1. Walks' = Walks
      BY <1>1, <2>1, Zenon DEF Walks
    <3>2. Inside <=> Inside'
      BY <1>1, <1>2, <1>5, <2>1, <3>1, Zenon DEF Inside
    <3> QED BY <1>1, <1>2, <2>1, <3>2, Zenon DEF LoopInv, RoundInv, UnderWay
  <2>2. CASE pc' \in {"done", "raised"}
    BY <2>2 DEF RoundInv, UnderWay
  <2>3. CASE pc \in Walking /\ pc' \in Walking
    <3>1. UnderWay
      BY <2>3 DEF UnderWay, Walking
    <3>2. Walks = i /\ Walks' = i
      BY <1>1, <2>3 DEF Walks, Walking
    <3>3. Inside
      BY <3>1 DEF LoopInv, RoundInv
    <3>4. pc # "write" /\ pc' # "write" /\ pc # "dups" /\ pc' # "dups" /\ pc' # "round"
      BY <2>3 DEF Walking
    <3>5. Inside'
      BY <1>1, <1>2, <1>5, <3>2, <3>3, <3>4, Zenon DEF Inside
    <3> QED BY <3>4, <3>5 DEF RoundInv
  <2> QED BY <2>1, <2>2, <2>3
<1> QED BY <1>3, <1>4, <1>6 DEF LoopInv

LEMMA BeginRoundLoop ==
  ASSUME LoopInv, BeginRound
  PROVE  LoopInv'
<1>1. /\ pc = "round" /\ round <= Rounds /\ i' = 0 /\ polls' = <<>> /\ pc' = "start"
      /\ sizes' = sizes /\ round' = round /\ id' = id /\ files' = files
  BY DEF BeginRound
<1>2. LoopType /\ FilesInv /\ id + RestOf(round) <= AllSizes
  BY <1>1 DEF LoopInv, RoundInv
<1>3. PICK d \in RepeatChoices : dups' = d /\ base' = Size - Repeats(d)
  BY Zenon DEF BeginRound
<1>4. /\ d \in [0 .. Size - 1 -> Nat] /\ Repeats(d) \in Nat
      /\ Size - Repeats(d) \in Nat /\ 0 < Size - Repeats(d)
  BY <1>1, <1>2, ChoiceFacts
<1>5. AllSizes' = AllSizes /\ RestOf(round)' = RestOf(round) /\ Size' = Size
  BY <1>1, SumsStay
<1>6. Repeats(dups)' = Repeats(d)
  BY <1>3, Zenon
<1>7. LoopType'
  BY <1>1, <1>2, <1>3, <1>4, <1>5 DEF LoopType
<1>8. round \in 1 .. Rounds /\ Size \in Nat
  BY <1>1, <1>2, SizesFacts, PollsConstants DEF LoopType, Size
<1>9. Walks' = 0 /\ Len(polls)' = 0
  BY <1>1 DEF Walks
<1>10. id \in Nat /\ RestOf(round) \in Nat /\ AllSizes \in Nat
  BY <1>2, <1>8, SizesFacts, PollsConstants DEF LoopType
<1>11. Inside'
  <2>1. dups' \in [0 .. Size' - 1 -> Nat]
    BY <1>3, <1>4, <1>5
  <2>2. base' <= Size' /\ Repeats(dups)' + base' = Size' /\ 0 < base'
    BY <1>3, <1>4, <1>5, <1>6, <1>8
  <2>3. Len(polls)' + Repeats(dups)' + base' <= Size' + Walks'
    BY <1>3, <1>4, <1>5, <1>6, <1>8, <1>9
  <2>4. id' + RestOf(round)' <= AllSizes' + i'
    BY <1>1, <1>2, <1>5, <1>10
  <2>5. i' < base' /\ ~ (base' <= i')
    BY <1>1, <1>3, <1>4, <2>2
  <2> QED BY <1>1, <1>9, <2>1, <2>2, <2>3, <2>4, <2>5 DEF Inside
<1>12. FilesInv'
  BY <1>1, <1>2, Zenon DEF FilesInv
<1> QED BY <1>1, <1>7, <1>11, <1>12 DEF LoopInv, RoundInv

(* What a round still has to count is part of all.                         *)
LEMMA RestCovers ==
  ASSUME LoopInv, UnderWay
  PROVE  Size <= RestOf(round) /\ RestOf(round) = Size + RestOf(round + 1)
         /\ RestOf(round + 1) \in Nat
<1>1. LoopType /\ round \in 1 .. Rounds /\ Size \in Nat
  BY RoundFacts DEF LoopInv
<1>2. RestOf(round) = Size + RestOf(round + 1)
  BY <1>1, SizesFacts DEF LoopType, Size
<1>3. RestOf(round + 1) \in Nat
  <2>1. round + 1 \in 1 .. Rounds + 1
    BY <1>1, PollsConstants
  <2> QED BY <1>1, <2>1, SizesFacts DEF LoopType
<1> QED BY <1>1, <1>2, <1>3

LEMMA AddPollLoop ==
  ASSUME LoopInv, UnderWay, AddPoll, machine.magic \in BOOLEAN, sizes' = sizes
  PROVE  /\ polls' \in Seq([walk : 0 .. AllSizes', magic : BOOLEAN])
         /\ Len(polls') = Len(polls) + 1
<1>1. polls \in Seq([walk : 0 .. AllSizes, magic : BOOLEAN]) /\ id \in 0 .. AllSizes
  BY DEF LoopInv, LoopType
<1>2. [walk |-> id, magic |-> machine.magic] \in [walk : 0 .. AllSizes, magic : BOOLEAN]
  BY <1>1
<1>3. AllSizes' = AllSizes
  BY Zenon DEF AllSizes
<1>4. polls' = Append(polls, [walk |-> id, magic |-> machine.magic])
  BY DEF AddPoll
<1>5. /\ polls' \in Seq([walk : 0 .. AllSizes, magic : BOOLEAN])
      /\ Len(polls') = Len(polls) + 1
  BY <1>1, <1>2, <1>4, AppendProperties
<1> QED BY <1>3, <1>5

(* The poll of a walk of the base.                                         *)
LEMMA XmlBaseLoop ==
  ASSUME LoopInv, machine.magic \in BOOLEAN, Xml, ~ Filling
  PROVE  LoopInv'
<1>1. /\ pc = "xml" /\ AddPoll /\ id' = id /\ i' = i /\ pc' = "dups" /\ i < base
      /\ sizes' = sizes /\ round' = round /\ base' = base /\ dups' = dups /\ files' = files
  <2>1. base \in Nat /\ i \in Nat
    BY DEF LoopInv, LoopType
  <2> QED BY <2>1 DEF Xml, Filling
<1>2. UnderWay /\ Walks = i
  BY <1>1 DEF UnderWay, Walks
<1>3. /\ Inside /\ Size \in Nat /\ Len(polls) \in Nat /\ RestOf(round) \in Nat
      /\ Repeats(dups) \in Nat /\ AllSizes \in Nat
  BY <1>2, RoundFacts
<1>4. LoopType
  BY DEF LoopInv
<1>5. /\ polls' \in Seq([walk : 0 .. AllSizes', magic : BOOLEAN])
      /\ Len(polls') = Len(polls) + 1
  BY <1>1, <1>2, AddPollLoop
<1>6. AllSizes' = AllSizes /\ RestOf(round)' = RestOf(round) /\ Size' = Size
      /\ Repeats(dups)' = Repeats(dups)
  <2>1. Repeats(dups)' = Repeats(dups)
    BY <1>1, Zenon
  <2> QED BY <1>1, <2>1, SumsStay
<1>7. LoopType'
  BY <1>1, <1>4, <1>5, <1>6 DEF LoopType
<1>8. Walks' = i + 1
  BY <1>1 DEF Walks
<1>9. Inside'
  <2>1. base \in Nat /\ i \in Nat /\ id \in Nat
    BY <1>3, <1>4 DEF LoopType
  <2>2. Len(polls') + Repeats(dups) + base <= Size + (i + 1)
    <3>1. Len(polls) + Repeats(dups) + base <= Size + i
      BY <1>1, <1>2, <1>3 DEF Inside
    <3> QED BY <1>3, <1>5, <2>1, <3>1
  <2>3. i + 1 <= Len(polls')
    BY <1>2, <1>3, <1>5, <2>1 DEF Inside
  <2>4. round <= Rounds /\ dups \in [0 .. Size - 1 -> Nat] /\ base <= Size
        /\ id + RestOf(round) <= AllSizes + i
    BY <1>3 DEF Inside
  <2>5. ~ (base <= i)
    BY <1>1, <2>1
  <2>6. pc' # "write" /\ i' < base'
    BY <1>1
  <2>7. Len(polls)' + Repeats(dups)' + base' <= Size' + Walks' /\ Walks' <= Len(polls)'
    BY <1>1, <1>6, <1>8, <2>2, <2>3
  <2>8. round' <= Rounds /\ dups' \in [0 .. Size' - 1 -> Nat] /\ base' <= Size'
        /\ id' + RestOf(round)' <= AllSizes' + i' /\ ~ (base' <= i')
    BY <1>1, <1>6, <2>4, <2>5
  <2> QED BY <2>6, <2>7, <2>8, Zenon DEF Inside
<1>10. FilesInv'
  BY <1>1, Zenon DEF LoopInv, FilesInv
<1> QED BY <1>1, <1>7, <1>9, <1>10 DEF LoopInv, RoundInv

(* When a walk is over, the next one follows or the round is written.      *)
LEMMA WalkOver ==
  ASSUME LoopInv, UnderWay, pc # "write", Len(polls') \in Nat, i + 1 <= Len(polls'),
         i + 1 < base => Len(polls') + Repeats(dups) + base <= Size + (i + 1),
         base <= i + 1 => Len(polls') <= Size,
         polls' \in Seq([walk : 0 .. AllSizes', magic : BOOLEAN]),
         id' = id + 1, i' = i + 1, pc' = NextWalk(i + 1),
         sizes' = sizes, round' = round, base' = base, dups' = dups, files' = files
  PROVE  LoopInv'
<1>1. /\ Inside /\ Size \in Nat /\ RestOf(round) \in Nat /\ AllSizes \in Nat /\ Repeats(dups) \in Nat
  BY RoundFacts
<1>2. LoopType /\ base \in Nat /\ i \in Nat /\ id \in Nat
  <2>1. LoopType /\ AllSizes \in Nat
    BY <1>1 DEF LoopInv
  <2> QED BY <2>1 DEF LoopType
<1>3. AllSizes' = AllSizes /\ RestOf(round)' = RestOf(round) /\ Size' = Size
      /\ Repeats(dups)' = Repeats(dups)
  <2>1. Repeats(dups)' = Repeats(dups)
    BY Zenon
  <2> QED BY <2>1, SumsStay
<1>4. pc' = IF i + 1 < base \/ Len(polls') < Size THEN "start" ELSE "write"
  BY DEF NextWalk
<1>5. Len(polls') <= Size
  BY <1>1, <1>2
<1>6. id + RestOf(round) <= AllSizes + i
  BY <1>1 DEF Inside
<1>7. id + 1 <= AllSizes
  BY <1>1, <1>2, <1>5, <1>6, RestCovers
<1>8. LoopType'
  BY <1>1, <1>2, <1>3, <1>7 DEF LoopType
<1>9. Walks' = i + 1
  BY <1>4 DEF Walks
<1>10. Inside'
  <2>1. i' < base' => Len(polls)' + Repeats(dups)' + base' <= Size' + Walks'
    BY <1>3, <1>9
  <2>2. base' <= i' => Len(polls)' <= Size' /\ (pc' # "write" => Len(polls)' < Size')
    BY <1>2, <1>3, <1>4
  <2>3. pc' = "write" => base' <= i' /\ Len(polls)' = Size'
    BY <1>1, <1>2, <1>3, <1>4, <1>5
  <2>4. pc' # "dups"
    BY <1>4
  <2>5. Walks' <= Len(polls)' /\ id' + RestOf(round)' <= AllSizes' + i'
    BY <1>1, <1>2, <1>3, <1>6, <1>9
  <2>6. round' <= Rounds /\ dups' \in [0 .. Size' - 1 -> Nat] /\ base' <= Size'
    BY <1>1, <1>3 DEF Inside
  <2> QED BY <2>1, <2>2, <2>3, <2>4, <2>5, <2>6, Zenon DEF Inside
<1>11. FilesInv'
  BY Zenon DEF LoopInv, FilesInv
<1>12. pc' # "round"
  BY <1>4
<1> QED BY <1>8, <1>10, <1>11, <1>12 DEF LoopInv, RoundInv

(* The poll of a walk that fills up the round.                             *)
LEMMA XmlFillsLoop ==
  ASSUME LoopInv, machine.magic \in BOOLEAN, Xml, Filling
  PROVE  LoopInv'
<1>1. /\ pc = "xml" /\ AddPoll /\ id' = id + 1 /\ i' = i + 1 /\ pc' = NextWalk(i + 1)
      /\ sizes' = sizes /\ round' = round /\ base' = base /\ dups' = dups /\ files' = files
  BY DEF Xml
<1>2. UnderWay /\ Walks = i /\ pc # "write"
  BY <1>1 DEF UnderWay, Walks
<1>3. Inside /\ Size \in Nat /\ Len(polls) \in Nat
  BY <1>2, RoundFacts
<1>4. base \in Nat /\ i \in Nat /\ base <= i
  BY DEF LoopInv, LoopType, Filling
<1>5. /\ polls' \in Seq([walk : 0 .. AllSizes', magic : BOOLEAN])
      /\ Len(polls') = Len(polls) + 1
  BY <1>1, <1>2, AddPollLoop
<1>6. i <= Len(polls) /\ Len(polls) < Size
  BY <1>2, <1>3, <1>4 DEF Inside
<1>7. Len(polls') \in Nat /\ i + 1 <= Len(polls') /\ Len(polls') <= Size /\ ~ (i + 1 < base)
  BY <1>3, <1>4, <1>5, <1>6
<1> QED BY <1>1, <1>2, <1>5, <1>7, WalkOver

(* The walk is over when its poll is repeated as often as it is to be, or  *)
(* cannot be.                                                              *)
LEMMA NoRepeatLoop ==
  ASSUME LoopInv, NoRepeat
  PROVE  LoopInv'
<1>1. /\ pc = "dups" /\ id' = id + 1 /\ i' = i + 1 /\ pc' = NextWalk(i + 1) /\ polls' = polls
      /\ sizes' = sizes /\ round' = round /\ base' = base /\ dups' = dups /\ files' = files
  BY DEF NoRepeat
<1>2. UnderWay /\ Walks = i + 1 /\ pc # "write"
  BY <1>1 DEF UnderWay, Walks
<1>3. Inside /\ Size \in Nat /\ Len(polls) \in Nat /\ Repeats(dups) \in Nat
  BY <1>2, RoundFacts
<1>4. base \in Nat /\ i \in Nat /\ polls \in Seq([walk : 0 .. AllSizes, magic : BOOLEAN])
  BY DEF LoopInv, LoopType
<1>5. /\ i < base /\ i + 1 <= Len(polls)
      /\ Len(polls) + Repeats(dups) + base <= Size + (i + 1)
  BY <1>1, <1>2, <1>3 DEF Inside
<1>6. base <= i + 1 => Len(polls) <= Size
  BY <1>3, <1>4, <1>5
<1>7. polls' \in Seq([walk : 0 .. AllSizes', magic : BOOLEAN])
  <2>1. AllSizes' = AllSizes
    BY <1>1, Zenon DEF AllSizes
  <2> QED BY <1>1, <1>4, <2>1
<1>8. Len(polls') = Len(polls)
  BY <1>1
<1> QED BY <1>1, <1>2, <1>3, <1>5, <1>6, <1>7, <1>8, WalkOver

LEMMA RepeatPollLoop ==
  ASSUME LoopInv, machine.magic \in BOOLEAN, RepeatPoll
  PROVE  LoopInv'
<1>1. /\ pc = "dups" /\ pc' = pc /\ Repeated /\ AddPoll /\ dups' = [dups EXCEPT ![i] = @ - 1]
      /\ sizes' = sizes /\ round' = round /\ id' = id /\ i' = i /\ base' = base
      /\ files' = files
  BY DEF RepeatPoll
<1>2. UnderWay /\ Walks = i + 1
  BY <1>1 DEF UnderWay, Walks
<1>3. /\ Inside /\ Size \in Nat /\ Len(polls) \in Nat /\ RestOf(round) \in Nat
      /\ Repeats(dups) \in Nat /\ AllSizes \in Nat
  BY <1>2, RoundFacts
<1>4. LoopType /\ base \in Nat /\ i \in Nat
  BY DEF LoopInv, LoopType
<1>5. dups \in [0 .. Size - 1 -> Nat] /\ i < base /\ base <= Size
  BY <1>1, <1>3 DEF Inside
<1>6. i \in 0 .. Size - 1 /\ dups[i] > 0
  BY <1>1, <1>3, <1>4, <1>5 DEF Repeated
<1>7. dups' \in [0 .. Size - 1 -> Nat] /\ Repeats(dups) = Repeats(dups') + 1
      /\ Repeats(dups') \in Nat
  <2>1. /\ [dups EXCEPT ![i] = @ - 1] \in [0 .. Size - 1 -> Nat]
        /\ Repeats(dups) = Repeats([dups EXCEPT ![i] = @ - 1]) + 1
    <3>1. Size \in Nat /\ dups \in [0 .. Size - 1 -> Nat] /\ i \in 0 .. Size - 1 /\ dups[i] > 0
      BY <1>3, <1>5, <1>6
    <3> QED BY <3>1, OneRepeatLess
  <2>2. dups' \in [0 .. Size - 1 -> Nat] /\ Repeats(dups) = Repeats(dups') + 1
    BY <1>1, <2>1, Zenon
  <2> QED BY <1>3, <2>2, RepeatsFacts
<1>8. /\ polls' \in Seq([walk : 0 .. AllSizes', magic : BOOLEAN])
      /\ Len(polls') = Len(polls) + 1
  BY <1>1, <1>2, AddPollLoop
<1>9. AllSizes' = AllSizes /\ RestOf(round)' = RestOf(round) /\ Size' = Size
  BY <1>1, SumsStay
<1>10. LoopType'
  BY <1>1, <1>4, <1>8, <1>9 DEF LoopType
<1>11. Walks' = i + 1
  BY <1>1 DEF Walks
<1>12. Inside'
  <2>1. Len(polls') + Repeats(dups') + base <= Size + (i + 1)
    BY <1>2, <1>3, <1>4, <1>5, <1>7, <1>8 DEF Inside
  <2>2. i + 1 <= Len(polls')
    BY <1>2, <1>3, <1>4, <1>8 DEF Inside
  <2>3. id + RestOf(round) <= AllSizes + i /\ round <= Rounds
    BY <1>3 DEF Inside
  <2>4. ~ (base' <= i') /\ i' < base'
    BY <1>1, <1>4, <1>5
  <2>5. Len(polls)' + Repeats(dups)' + base' <= Size' + Walks' /\ Walks' <= Len(polls)'
    BY <1>1, <1>9, <1>11, <2>1, <2>2
  <2>6. round' <= Rounds /\ dups' \in [0 .. Size' - 1 -> Nat] /\ base' <= Size'
        /\ id' + RestOf(round)' <= AllSizes' + i'
    BY <1>1, <1>5, <1>7, <1>9, <2>3
  <2>7. pc' # "write"
    BY <1>1
  <2> QED BY <2>4, <2>5, <2>6, <2>7, Zenon DEF Inside
<1>13. FilesInv'
  BY <1>1, Zenon DEF LoopInv, FilesInv
<1> QED BY <1>1, <1>10, <1>12, <1>13 DEF LoopInv, RoundInv

LEMMA WriteLoop ==
  ASSUME LoopInv, Write
  PROVE  LoopInv'
<1>1. /\ pc = "write" /\ pc' = "round" /\ round' = round + 1
      /\ files' = [files EXCEPT ![round] = Len(polls)]
      /\ sizes' = sizes /\ id' = id /\ i' = i /\ base' = base /\ polls' = polls
  BY DEF Write
<1>2. UnderWay /\ Walks = i
  BY <1>1 DEF UnderWay, Walks
<1>3. /\ Inside /\ Size \in Nat /\ Len(polls) \in Nat /\ RestOf(round) \in Nat
      /\ AllSizes \in Nat /\ round \in 1 .. Rounds
  BY <1>2, RoundFacts
<1>4. LoopType /\ i \in Nat /\ id \in Nat
  <2>1. LoopType /\ AllSizes \in Nat
    BY <1>3 DEF LoopInv
  <2> QED BY <2>1 DEF LoopType
<1>5. Len(polls) = Size /\ i <= Len(polls) /\ id + RestOf(round) <= AllSizes + i
  BY <1>1, <1>2, <1>3 DEF Inside
<1>6. id + RestOf(round + 1) <= AllSizes
  BY <1>2, <1>3, <1>4, <1>5, RestCovers
<1>7. AllSizes' = AllSizes
  BY <1>1, Zenon DEF AllSizes
<1>8. RestOf(round)' = RestOf(round + 1)
  BY <1>1, Zenon DEF RestOf
<1>9. LoopType'
  <2>1. round + 1 \in 1 .. Rounds + 1
    BY <1>3, PollsConstants
  <2> QED BY <1>1, <1>4, <1>7, <2>1 DEF LoopType
<1>10. FilesInv'
  <2>1. files = [r \in 1 .. Rounds |-> IF r < round THEN sizes[r] ELSE 0]
    BY DEF LoopInv, FilesInv
  <2>2. \A r \in 1 .. Rounds :
          (IF r = round THEN Len(polls) ELSE IF r < round THEN sizes[r] ELSE 0)
            = IF r < round + 1 THEN sizes[r] ELSE 0
    BY <1>3, <1>5 DEF Size
  <2>3. files' = [r \in 1 .. Rounds |-> IF r = round THEN Len(polls) ELSE files[r]]
    BY <1>1, <2>1, Zenon
  <2>4. files' = [r \in 1 .. Rounds |-> IF r < round + 1 THEN sizes[r] ELSE 0]
    BY <2>1, <2>2, <2>3, Zenon
  <2> QED BY <1>1, <2>4, Zenon DEF FilesInv
<1> QED BY <1>1, <1>6, <1>7, <1>8, <1>9, <1>10 DEF LoopInv, RoundInv, UnderWay

-----------------------------------------------------------------------------
(* The walk.                                                               *)
LEMMA EdgesAreSequences ==
  \A n \in Nodes : Edges[n] \in Seq([to : Nodes, after : 0 .. 100])
<1>1. GraphIsValid
  BY PollsAssumption
<1> QED BY <1>1, Zenon DEF GraphIsValid

LEMMA GraphFacts ==
  /\ Start \in Nodes \cup {None} /\ Finish \in Nodes \cup {None}
  /\ \A n \in Nodes : \A a \in Acts[n] : a \in Act
  /\ \A n \in Nodes : \A k \in DOMAIN Edges[n] : Edges[n][k].to \in Nodes
<1>1. GraphIsValid
  BY PollsAssumption
<1>2. \A n \in Nodes : Acts[n] \subseteq Act
  BY <1>1, Zenon DEF GraphIsValid
<1>3. \A n \in Nodes : \A k \in DOMAIN Edges[n] : Edges[n][k].to \in Nodes
  <2> SUFFICES ASSUME NEW n \in Nodes, NEW k \in DOMAIN Edges[n] PROVE Edges[n][k].to \in Nodes
    OBVIOUS
  <2>1. Edges[n] \in Seq([to : Nodes, after : 0 .. 100])
    BY EdgesAreSequences
  <2>2. Edges[n][k] \in [to : Nodes, after : 0 .. 100]
    <3> DEFINE S == [to : Nodes, after : 0 .. 100]
               es == Edges[n]
    <3>1. es \in Seq(S) /\ k \in DOMAIN es
      BY <2>1
    <3> HIDE DEF S, es
    <3>2. es[k] \in S
      BY <3>1
    <3> QED BY <3>2 DEF S, es
  <2> QED BY <2>2
<1>4. Start \in Nodes \cup {None} /\ Finish \in Nodes \cup {None}
  BY <1>1, Zenon DEF GraphIsValid
<1> QED BY <1>2, <1>3, <1>4

MachineType == [sent : BOOLEAN, recv : BOOLEAN, matched : BOOLEAN, magic : BOOLEAN]

LEMMA PerformedType ==
  ASSUME NEW a \in Act, Performed(a)
  PROVE  machine' \in MachineType
BY DEF Performed, MachineType

LEMMA LeftIn ==
  ASSUME NEW es PROVE Left(es) \subseteq DOMAIN es
BY Zenon DEF Left

LEMMA WalkFrame ==
  ASSUME WalkInv, walk' = walk, ran' = ran, crossed' = crossed,
         pc' = pc \/ pc' \notin {"visit", "leave", "edge"}
  PROVE  WalkInv'
<1>1. node' = node /\ prev' = prev /\ machine' = machine
  BY DEF walk
<1> QED BY <1>1 DEF WalkInv, WalkType, OnNode

LEMMA StartWalkStep == WalkInv /\ StartWalk => WalkInv'
<1> SUFFICES ASSUME WalkInv, StartWalk PROVE WalkInv'
  OBVIOUS
<1>1. /\ machine' = Fresh /\ prev' = None /\ ran' = ran /\ crossed' = crossed
      /\ node' \in IF Start = None THEN Nodes ELSE {Start}
  BY DEF StartWalk
<1>2. node' \in Nodes
  BY <1>1, GraphFacts
<1>3. Fresh \in MachineType
  BY DEF Fresh, MachineType
<1> QED BY <1>1, <1>2, <1>3 DEF WalkInv, WalkType, OnNode, MachineType

LEMMA ExecuteStep == WalkInv /\ Execute => WalkInv'
<1> SUFFICES ASSUME WalkInv, Execute PROVE WalkInv'
  OBVIOUS
<1>1. /\ pc = "visit" /\ ran' = ran \cup {node} /\ node' = node /\ prev' = prev
      /\ crossed' = IF prev = None THEN crossed ELSE crossed \cup {<<prev, node>>}
  BY DEF Execute
<1>2. node \in Nodes
  BY <1>1 DEF WalkInv, OnNode
<1>3. machine' \in MachineType
  <2>1. PICK a \in Acts[node] : Performed(a)
    BY DEF Execute
  <2>2. a \in Act
    BY <1>2, <2>1, GraphFacts
  <2> QED BY <2>1, <2>2, PerformedType
<1>4. crossed' \subseteq Nodes \X Nodes
  <2>1. prev # None => prev \in Nodes
    BY DEF WalkInv, WalkType
  <2>2. crossed \subseteq Nodes \X Nodes
    BY DEF WalkInv, WalkType
  <2>3. prev # None => <<prev, node>> \in Nodes \X Nodes
    BY <1>2, <2>1
  <2> QED BY <1>1, <2>2, <2>3
<1>5. ran' \subseteq Nodes
  BY <1>1, <1>2 DEF WalkInv, WalkType
<1> QED BY <1>1, <1>2, <1>3, <1>4, <1>5 DEF WalkInv, WalkType, OnNode, MachineType

LEMMA SkipStep == WalkInv /\ Skip => WalkInv'
BY DEF Skip, walk, WalkInv, WalkType, OnNode

LEMMA LeaveStep == WalkInv /\ Leave => WalkInv'
<1> SUFFICES ASSUME WalkInv, Leave PROVE WalkInv'
  OBVIOUS
<1>1. /\ pc = "leave" /\ prev' = node /\ node' = node /\ machine' = machine
      /\ ran' = ran /\ crossed' = crossed
  BY Zenon DEF Leave
<1>2. node \in Nodes
  BY <1>1 DEF WalkInv, OnNode
<1> QED BY <1>1, <1>2, Zenon DEF WalkInv, WalkType, OnNode

LEMMA TakeEdgeStep == WalkInv /\ TakeEdge => WalkInv'
<1> SUFFICES ASSUME WalkInv, TakeEdge PROVE WalkInv'
  OBVIOUS
<1>1. pc = "edge" /\ prev' = prev /\ machine' = machine /\ ran' = ran /\ crossed' = crossed
  BY Zenon DEF TakeEdge
<1>2. PICK k \in Left(Edges[node]) : node' = Edges[node][k].to
  BY Zenon DEF TakeEdge
<1>3. node \in Nodes
  BY <1>1 DEF WalkInv, OnNode
<1>4. k \in DOMAIN Edges[node]
  BY LeftIn, Zenon
<1>5. node' \in Nodes
  BY <1>2, <1>3, <1>4, GraphFacts, Zenon
<1> QED BY <1>1, <1>5, Zenon DEF WalkInv, WalkType, OnNode

LEMMA EndWalkStep == WalkInv /\ EndWalk => WalkInv'
<1> SUFFICES ASSUME WalkInv, EndWalk PROVE WalkInv'
  OBVIOUS
<1>1. pc' = "xml" /\ node' = node /\ prev' = prev /\ crossed' = crossed
  BY DEF EndWalk
<1>2. machine' \in MachineType /\ ran' \subseteq Nodes
  <2>1. machine \in MachineType /\ ran \subseteq Nodes
    BY DEF WalkInv, WalkType, MachineType
  <2>2. CASE Finish = None
    BY <2>1, <2>2 DEF EndWalk
  <2>3. CASE Finish # None
    <3>1. Finish \in Nodes
      BY <2>3, GraphFacts
    <3>2. PICK a \in Acts[Finish] : Performed(a)
      BY <2>3, Zenon DEF EndWalk
    <3>3. a \in Act
      BY <3>1, <3>2, GraphFacts
    <3>4. ran' = ran \cup {Finish}
      BY <2>3 DEF EndWalk
    <3> QED BY <2>1, <3>1, <3>2, <3>3, <3>4, PerformedType
  <2> QED BY <2>2, <2>3
<1> QED BY <1>1, <1>2 DEF WalkInv, WalkType, OnNode, MachineType

LEMMA LoopStepWalk ==
  ASSUME WalkInv, BeginRound \/ TooManyRepeats \/ NoEdge \/ Xml \/ Incomplete
                  \/ RepeatPoll \/ NoRepeat \/ Write \/ Plot
  PROVE  WalkInv'
<1>1. walk' = walk /\ ran' = ran /\ crossed' = crossed
  BY Zenon DEF BeginRound, TooManyRepeats, NoEdge, Xml, Incomplete, RepeatPoll, NoRepeat,
               Write, Plot
<1>2. pc' = pc \/ pc' \in {"start", "dups", "write", "round", "done", "raised"}
  BY Zenon DEF BeginRound, TooManyRepeats, NoEdge, Xml, Incomplete, RepeatPoll, NoRepeat,
               Write, Plot, NextWalk
<1>3. pc' = pc \/ pc' \notin {"visit", "leave", "edge"}
  BY <1>2
<1> QED BY <1>1, <1>3, WalkFrame

LEMMA WalkStep == WalkInv /\ [PollsNext]_pollsVars => WalkInv'
<1> SUFFICES ASSUME WalkInv, [PollsNext]_pollsVars PROVE WalkInv'
  OBVIOUS
<1>1. CASE UNCHANGED pollsVars
  <2>1. walk' = walk /\ ran' = ran /\ crossed' = crossed /\ pc' = pc
    BY <1>1 DEF pollsVars
  <2> QED BY <2>1, WalkFrame
<1>2. CASE PollsNext
  BY <1>2, LoopStepWalk, StartWalkStep, ExecuteStep, SkipStep, LeaveStep, TakeEdgeStep,
     EndWalkStep, Zenon DEF PollsNext
<1> QED BY <1>1, <1>2

(* How far a step of the walk gets, and how deep.                          *)
LEMMA PcStep == pc \in PCs /\ [PollsNext]_pollsVars => pc' \in PCs
<1> SUFFICES ASSUME pc \in PCs, [PollsNext]_pollsVars PROVE pc' \in PCs
  OBVIOUS
<1>1. CASE PollsNext
  <2>1. pc' = pc \/ pc' \in PCs
    BY <1>1, Zenon DEF PollsNext, BeginRound, TooManyRepeats, StartWalk, Execute, Skip, Leave,
       TakeEdge, NoEdge, EndWalk, Xml, Incomplete, RepeatPoll, NoRepeat, Write, Plot, NextWalk,
       PCs
  <2> QED BY <2>1
<1>2. CASE UNCHANGED pollsVars
  BY <1>2 DEF pollsVars
<1> QED BY <1>1, <1>2

LEMMA DepthStep == DepthInv /\ [PollsNext]_pollsVars => DepthInv'
<1> SUFFICES ASSUME DepthInv, [PollsNext]_pollsVars PROVE DepthInv'
  OBVIOUS
<1> USE PollsConstants
<1>1. CASE Execute
  <2>1. pc = "visit" /\ depth' = depth + 1 /\ (pc' = "finish" \/ pc' = "leave")
    BY <1>1, Zenon DEF Execute
  <2> QED BY <2>1 DEF DepthInv
<1>2. CASE Leave
  <2>1. /\ pc = "leave" /\ depth' = depth
        /\ pc' = "finish" \/ (pc' = "edge" /\ depth <= MaxDepth)
    BY <1>2, Zenon DEF Leave
  <2> QED BY <2>1 DEF DepthInv
<1>3. CASE EndWalk
  <2>1. depth' = 0
    BY <1>3 DEF EndWalk
  <2> QED BY <2>1 DEF DepthInv
<1>4. CASE StartWalk \/ Skip \/ TakeEdge
  <2>1. depth' = depth /\ pc \in {"start", "visit", "edge"} /\ pc' \in {"visit", "leave"}
    BY <1>4, Zenon DEF StartWalk, Skip, TakeEdge, walk
  <2> QED BY <2>1 DEF DepthInv
<1>5. CASE BeginRound \/ Xml \/ RepeatPoll \/ NoRepeat \/ Write
  <2>1. depth' = depth /\ pc \in {"round", "xml", "dups", "write"}
    BY <1>5, Zenon DEF BeginRound, Xml, RepeatPoll, NoRepeat, Write, walk
  <2> QED BY <2>1 DEF DepthInv
<1>6. CASE TooManyRepeats \/ NoEdge \/ Incomplete \/ Plot
  <2>1. depth' = depth /\ pc' \in {"done", "raised"}
    BY <1>6, Zenon DEF TooManyRepeats, NoEdge, Incomplete, Plot, walk
  <2> QED BY <2>1 DEF DepthInv
<1>7. CASE UNCHANGED pollsVars
  BY <1>7 DEF pollsVars, walk, DepthInv
<1> QED BY <1>1, <1>2, <1>3, <1>4, <1>5, <1>6, <1>7, Zenon DEF PollsNext

LEMMA LoopStep == LoopInv /\ WalkInv /\ [PollsNext]_pollsVars => LoopInv'
<1> SUFFICES ASSUME LoopInv, WalkInv, [PollsNext]_pollsVars PROVE LoopInv'
  OBVIOUS
<1>1. machine.magic \in BOOLEAN
  BY DEF WalkInv, WalkType
<1>2. CASE StartWalk \/ Execute \/ Skip \/ Leave \/ TakeEdge \/ EndWalk
  <2>1. loop' = loop /\ pc \in Walking /\ pc' \in Walking
    BY <1>2, Zenon DEF StartWalk, Execute, Skip, Leave, TakeEdge, EndWalk, Walking
  <2> QED BY <2>1, LoopFrame
<1>3. CASE TooManyRepeats \/ NoEdge \/ Incomplete \/ Plot
  <2>1. loop' = loop /\ pc' \in {"done", "raised"}
    BY <1>3, Zenon DEF TooManyRepeats, NoEdge, Incomplete, Plot
  <2> QED BY <2>1, LoopFrame
<1>4. CASE UNCHANGED pollsVars
  <2>1. loop' = loop /\ pc' = pc
    BY <1>4 DEF pollsVars
  <2> QED BY <2>1, LoopFrame
<1>5. CASE Xml
  BY <1>1, <1>5, XmlBaseLoop, XmlFillsLoop
<1>6. CASE BeginRound \/ NoRepeat \/ Write
  BY <1>6, BeginRoundLoop, NoRepeatLoop, WriteLoop
<1>7. CASE RepeatPoll
  BY <1>1, <1>7, RepeatPollLoop
<1> QED BY <1>2, <1>3, <1>4, <1>5, <1>6, <1>7, Zenon DEF PollsNext

LEMMA PollsInvStep == PollsInv /\ [PollsNext]_pollsVars => PollsInv'
BY LoopStep, WalkStep, DepthStep, PcStep DEF PollsInv

LEMMA PollsInvHolds == PollsSpec => []PollsInv
BY PollsInvInit, PollsInvStep, PTL DEF PollsSpec

-----------------------------------------------------------------------------
(* Types of the generation, and that no walk executes more than            *)
(* MaxDepth + 1 nodes before the finish node, however the graph loops.     *)
THEOREM PollsTypeCorrect == PollsSpec => []PollsTypeOK
<1>1. PollsInv => PollsTypeOK
  <2> SUFFICES ASSUME PollsInv PROVE PollsTypeOK
    OBVIOUS
  <2>1. LoopType /\ WalkType /\ pc \in PCs /\ depth \in 0 .. MaxDepth + 1
    BY DEF PollsInv, LoopInv, WalkInv, DepthInv
  <2> QED BY <2>1, Zenon DEF LoopType, WalkType, PCs, PollsTypeOK
<1> QED BY <1>1, PollsInvHolds, PTL

(* A round that is written has as many polls as it counts, whatever was to *)
(* be repeated and could not be; none has more on the way.                 *)
THEOREM RoundsAreFull == PollsSpec => []RoundIsFull
<1>1. PollsInv => RoundIsFull
  <2> SUFFICES ASSUME PollsInv PROVE RoundIsFull
    OBVIOUS
  <2>1. \A r \in DOMAIN files : files[r] = IF r < round THEN sizes[r] ELSE 0
    BY Zenon DEF PollsInv, LoopInv, FilesInv
  <2>2. ASSUME UnderWay PROVE Len(polls) <= Size
    <3>1. /\ Inside /\ Size \in Nat /\ Len(polls) \in Nat /\ Repeats(dups) \in Nat
          /\ Walks \in Nat
      BY <2>2, RoundFacts DEF PollsInv
    <3>2. base \in Nat /\ i \in Nat
      BY DEF PollsInv, LoopInv, LoopType
    <3>3. Walks <= i + 1
      BY <3>2 DEF Walks
    <3> QED BY <3>1, <3>2, <3>3 DEF Inside
  <2> QED BY <2>1, <2>2 DEF RoundIsFull
<1> QED BY <1>1, PollsInvHolds, PTL

-----------------------------------------------------------------------------
(* The edges that _random_edge leaves.                                     *)

(* Which edges _random_edge looks at: E are the early ones of n.           *)
LooksAt(n, E, f) ==
  f = [k \in 1 .. n |-> k = 1 \/ ~ (f[k - 1] /\ k - 1 \in E)]

(* There is such a function.                                               *)
LEMMA LookedExists ==
  ASSUME NEW n \in Nat, NEW E
  PROVE  \E f : LooksAt(n, E, f)
<1> DEFINE T == {m \in Nat : ~ \E f : LooksAt(m, E, f)}
<1>1. 0 \notin T
  <2> DEFINE f == [k \in 1 .. 0 |-> TRUE]
  <2>1. LooksAt(0, E, f)
    BY DEF LooksAt
  <2> QED BY <2>1
<1>2. ASSUME NEW m \in Nat, m \notin T PROVE m + 1 \notin T
  <2>1. PICK g : LooksAt(m, E, g)
    BY <1>2
  <2> DEFINE f == [k \in 1 .. m + 1 |-> IF k \in 1 .. m THEN g[k]
                                         ELSE k = 1 \/ ~ (g[k - 1] /\ k - 1 \in E)]
  <2>2. LooksAt(m + 1, E, f)
    <3>1. ASSUME NEW k \in 1 .. m + 1 PROVE f[k] = (k = 1 \/ ~ (f[k - 1] /\ k - 1 \in E))
      <4>1. CASE k = 1
        <5>1. k \in 1 .. m => f[k] = (k = 1 \/ ~ (g[k - 1] /\ k - 1 \in E))
          BY <2>1, Zenon DEF LooksAt
        <5>2. k \notin 1 .. m => f[k] = (k = 1 \/ ~ (g[k - 1] /\ k - 1 \in E))
          BY Zenon
        <5> QED BY <4>1, <5>1, <5>2, Zenon
      <4>2. CASE k # 1
        <5>1. k - 1 \in 1 .. m /\ k - 1 \in 1 .. m + 1
          BY <4>2
        <5>2. f[k - 1] = g[k - 1]
          BY <5>1, Zenon
        <5>3. k \in 1 .. m => f[k] = (k = 1 \/ ~ (g[k - 1] /\ k - 1 \in E))
          BY <2>1, Zenon DEF LooksAt
        <5>4. k \notin 1 .. m => f[k] = (k = 1 \/ ~ (g[k - 1] /\ k - 1 \in E))
          BY Zenon
        <5> QED BY <5>2, <5>3, <5>4, Zenon
      <4> QED BY <4>1, <4>2, Zenon
    <3>2. f = [k \in 1 .. m + 1 |-> f[k]]
      BY Zenon
    <3> HIDE DEF f
    <3>3. [k \in 1 .. m + 1 |-> f[k]] = [k \in 1 .. m + 1 |-> k = 1 \/ ~ (f[k - 1] /\ k - 1 \in E)]
      BY <3>1, Zenon
    <3> QED BY <3>2, <3>3, Zenon DEF LooksAt
  <2> QED BY <2>2
<1> HIDE DEF T
<1>3. T \subseteq Nat
  BY DEF T
<1>4. ASSUME T # {} PROVE FALSE
  <2>1. PICK m \in T : \A l \in T : m <= l
    BY <1>3, <1>4, LeastNumber
  <2>2. m \in Nat /\ m # 0 /\ m - 1 \in Nat
    BY <1>1, <1>3, <2>1
  <2>3. m - 1 \notin T
    BY <2>1, <2>2, <1>3
  <2>4. (m - 1) + 1 = m
    BY <2>2
  <2> QED BY <1>2, <2>1, <2>2, <2>3, <2>4
<1> QED BY <1>4 DEF T

(* What is left of the edges of a node.                                    *)
LEMMA LeftFacts ==
  ASSUME NEW S, NEW es \in Seq(S)
  PROVE  /\ Left(es) \subseteq DOMAIN es
         /\ \A k \in DOMAIN es : ~ Early(es[k]) => k \in Left(es)
         /\ \A k \in Left(es) : Early(es[k]) =>
              k > 1 /\ k - 1 \in DOMAIN es /\ Early(es[k - 1]) /\ k - 1 \notin Left(es)
         /\ \A k \in DOMAIN es : k \notin Left(es) /\ k + 1 \in DOMAIN es => k + 1 \in Left(es)
<1> DEFINE n == Len(es)
           E == {k \in 1 .. n : Early(es[k])}
           Body(f) == [k \in DOMAIN es |-> k = 1 \/ ~ (f[k - 1] /\ Early(es[k - 1]))]
           g == CHOOSE f : f = Body(f)
<1>1. n \in Nat /\ DOMAIN es = 1 .. n
  OBVIOUS
<1>2. PICK f : LooksAt(n, E, f)
  BY <1>1, LookedExists
<1>3. ASSUME NEW k \in 1 .. n
      PROVE  (k = 1 \/ ~ (f[k - 1] /\ k - 1 \in E)) = (k = 1 \/ ~ (f[k - 1] /\ Early(es[k - 1])))
  <2>1. k # 1 => k - 1 \in 1 .. n
    BY <1>1
  <2>2. k # 1 => (k - 1 \in E <=> Early(es[k - 1]))
    BY <2>1, Zenon
  <2> QED BY <2>2, Zenon
<1>4. f = Body(f)
  BY <1>1, <1>2, <1>3, Zenon DEF LooksAt
<1>5. g = Body(g)
  BY <1>4, Zenon
<1>6. Left(es) = {k \in DOMAIN es : ~ (g[k] /\ Early(es[k]))}
  BY Zenon DEF Left
<1>7. \A k \in DOMAIN es : g[k] = (k = 1 \/ ~ (g[k - 1] /\ Early(es[k - 1])))
  BY <1>5, Zenon
<1> HIDE DEF g
<1>8. \A k \in DOMAIN es : ~ Early(es[k]) => k \in Left(es)
  BY <1>6, Zenon
<1>9. ASSUME NEW k \in Left(es), Early(es[k])
      PROVE  k > 1 /\ k - 1 \in DOMAIN es /\ Early(es[k - 1]) /\ k - 1 \notin Left(es)
  <2>1. k \in DOMAIN es /\ ~ g[k]
    BY <1>6, <1>9, Zenon
  <2>2. k # 1 /\ g[k - 1] /\ Early(es[k - 1])
    BY <1>7, <2>1, Zenon
  <2>3. k > 1 /\ k - 1 \in DOMAIN es
    BY <1>1, <2>1, <2>2
  <2> QED BY <1>6, <2>2, <2>3, Zenon
<1>10. ASSUME NEW k \in DOMAIN es, k \notin Left(es), k + 1 \in DOMAIN es
       PROVE  k + 1 \in Left(es)
  <2>1. g[k] /\ Early(es[k])
    BY <1>6, <1>10, Zenon
  <2>2. k + 1 # 1 /\ (k + 1) - 1 = k
    BY <1>1
  <2>3. ~ g[k + 1]
    BY <1>7, <1>10, <2>1, <2>2, Zenon
  <2> QED BY <1>6, <1>10, <2>3, Zenon
<1>11. Left(es) \subseteq DOMAIN es
  BY <1>6, Zenon
<1> QED BY <1>8, <1>9, <1>10, <1>11
(* An edge is taken only from a node that has one.                         *)
AtEdge == pc = "edge" => node \in Nodes /\ Edges[node] # <<>>

LEMMA AtEdgeStep == OnNode /\ AtEdge /\ [PollsNext]_pollsVars => AtEdge'
<1> SUFFICES ASSUME OnNode, AtEdge, [PollsNext]_pollsVars, pc' = "edge"
             PROVE  node' \in Nodes /\ Edges[node'] # <<>>
  BY Zenon DEF AtEdge
<1>1. CASE Leave
  <2>1. pc = "leave" /\ node' = node
    BY <1>1, Zenon DEF Leave
  <2>2. Edges[node] # <<>>
    BY <1>1 DEF Leave
  <2> QED BY <2>1, <2>2, Zenon DEF OnNode
<1>2. CASE UNCHANGED pollsVars
  <2>1. pc' = pc /\ node' = node
    BY <1>2, Zenon DEF pollsVars, walk
  <2> QED BY <2>1, Zenon DEF AtEdge
<1>3. CASE BeginRound \/ TooManyRepeats \/ StartWalk \/ Execute \/ Skip \/ TakeEdge
  BY <1>3 DEF BeginRound, TooManyRepeats, StartWalk, Execute, Skip, TakeEdge
<1>4. CASE NoEdge \/ EndWalk \/ Xml \/ Incomplete \/ RepeatPoll \/ NoRepeat \/ Write \/ Plot
  BY <1>4 DEF NoEdge, EndWalk, Xml, Incomplete, RepeatPoll, NoRepeat, Write, Plot, NextWalk
<1> QED BY <1>1, <1>2, <1>3, <1>4, Zenon DEF PollsNext

LEMMA AtEdgeHolds == PollsSpec => []AtEdge
<1>1. PollsInit => AtEdge
  BY DEF PollsInit, AtEdge
<1>2. PollsInv /\ AtEdge /\ [PollsNext]_pollsVars => AtEdge'
  BY AtEdgeStep DEF PollsInv, WalkInv
<1> QED BY <1>1, <1>2, PollsInvHolds, PTL DEF PollsSpec

(* Although edges are taken out of the list that is gone through: no edge  *)
(* on time is lost, an early one is left only behind an early one that was *)
(* taken out, and nothing is left only at a node with one edge, an early   *)
(* one (_random_edge returns None there).                                  *)
EdgesAreLeft ==
  pc = "edge" =>
    LET es == Edges[node]
    IN  /\ \A k \in DOMAIN es : ~ Early(es[k]) => k \in Left(es)
        /\ \A k \in Left(es) : Early(es[k]) =>
             k > 1 /\ Early(es[k - 1]) /\ k - 1 \notin Left(es)
        /\ Left(es) = {} => Len(es) = 1 /\ Early(es[1])

THEOREM NoEdgeIsLost == PollsSpec => []EdgesAreLeft
<1>1. AtEdge => EdgesAreLeft
  <2> SUFFICES ASSUME AtEdge, pc = "edge" PROVE EdgesAreLeft
    BY Zenon DEF EdgesAreLeft
  <2> DEFINE es == Edges[node]
             S  == [to : Nodes, after : 0 .. 100]
  <2>1. node \in Nodes /\ es # <<>>
    BY Zenon DEF AtEdge
  <2>2. es \in Seq(S)
    BY <2>1, EdgesAreSequences
  <2> HIDE DEF es, S
  <2>3. /\ \A k \in DOMAIN es : ~ Early(es[k]) => k \in Left(es)
        /\ \A k \in Left(es) : Early(es[k]) =>
             k > 1 /\ k - 1 \in DOMAIN es /\ Early(es[k - 1]) /\ k - 1 \notin Left(es)
        /\ \A k \in DOMAIN es : k \notin Left(es) /\ k + 1 \in DOMAIN es => k + 1 \in Left(es)
    BY <2>2, LeftFacts, Zenon
  <2>4. Len(es) \in Nat /\ Len(es) # 0 /\ DOMAIN es = 1 .. Len(es)
    BY <2>1, <2>2
  <2>5. 1 \in DOMAIN es /\ (Len(es) # 1 => 1 + 1 \in DOMAIN es)
    BY <2>4
  <2>6. ASSUME Left(es) = {} PROVE Len(es) = 1 /\ Early(es[1])
    BY <2>3, <2>5, <2>6, Zenon
  <2> QED BY <2>3, <2>6, Zenon DEF EdgesAreLeft, es
<1> QED BY <1>1, AtEdgeHolds, PTL

-----------------------------------------------------------------------------
(***************************************************************************)
(* A call of a command.                                                    *)
(***************************************************************************)

(* The command is reaped once, by the call and nobody else; from then on   *)
(* its exit status is final, and whoever leaves the reading of stderr has  *)
(* an error for a status that is not ok.                                   *)
RootInPhase ==
  /\ main \in {"read", "wait", "abandon"} => st[Root] \in {"live", "zombie"}
  /\ main \in {"error", "cancel", "returned"} => st[Root] = "gone"
  /\ main \in {"cancel", "returned"} => code = "ok" \/ error
  /\ main = "returned" => timer # "armed"

CommandInv == TypeOK /\ RootInPhase

LEMMA TreeType ==
  /\ Len(Tree) \in Nat \ {0} /\ DOMAIN Tree = 1 .. Len(Tree)
  /\ \A k \in 1 .. Len(Tree) : Tree[k] \in Procs
BY CommandAssumption

LEMMA RootIsOne == Root \in Procs /\ Root \in Holders /\ Holders \subseteq Procs
BY CommandAssumption, TreeType DEF Root

(* The timer finds only descendants: the command is the first of the tree  *)
(* and appears in it once.                                                 *)
LEMMA FoundType == Found \subseteq Procs \ {Root}
<1>1. \A k \in 2 .. Len(Tree) : Tree[k] # Tree[1]
  BY CommandAssumption, TreeType
<1>2. Reached \subseteq {Tree[k] : k \in 2 .. Len(Tree)}
  BY DEF Reached
<1> QED BY <1>1, <1>2, TreeType DEF Found, Root

LEMMA KilledType ==
  ASSUME TypeOK, NEW p \in Procs, Killed(p)
  PROVE  /\ st' \in [Procs -> {"none", "live", "zombie", "gone"}]
         /\ \A q \in Procs : st'[q] = st[q] \/ (st[q] = "live" /\ st'[q] = "zombie")
BY DEF TypeOK, Killed

LEMMA CommandInvInit == Init => CommandInv
<1> SUFFICES ASSUME Init PROVE CommandInv
  OBVIOUS
<1>1. TypeOK
  BY RootIsOne, CommandAssumption DEF Init, TypeOK
<1>2. RootInPhase
  BY RootIsOne DEF Init, RootInPhase
<1> QED BY <1>1, <1>2 DEF CommandInv

-----------------------------------------------------------------------------
LEMMA CommandInvStep == CommandInv /\ [Next]_vars => CommandInv'
<1> SUFFICES ASSUME TypeOK, RootInPhase, [Next]_vars PROVE TypeOK' /\ RootInPhase'
  BY DEF CommandInv
<1> USE RootIsOne
<1>1. ASSUME NEW p \in Procs, Spawn(p) PROVE TypeOK' /\ RootInPhase'
  BY <1>1 DEF Spawn, TypeOK, RootInPhase
<1>2. ASSUME NEW p \in Procs, Complain(p) PROVE TypeOK' /\ RootInPhase'
  BY <1>2, CommandAssumption DEF Complain, TypeOK, RootInPhase
<1>3. ASSUME NEW p \in Procs, CloseOut(p) PROVE TypeOK' /\ RootInPhase'
  BY <1>3 DEF CloseOut, TypeOK, RootInPhase
<1>4. ASSUME NEW p \in Procs, Exit(p) PROVE TypeOK' /\ RootInPhase'
  BY <1>4 DEF Exit, TypeOK, RootInPhase
<1>5. ASSUME NEW p \in Procs, Reap(p) PROVE TypeOK' /\ RootInPhase'
  BY <1>5 DEF Reap, TypeOK, RootInPhase
<1>6. CASE ReadToEnd
  BY <1>6 DEF ReadToEnd, TypeOK, RootInPhase, procs
<1>7. CASE Wait
  BY <1>7 DEF Wait, TypeOK, RootInPhase
<1>8. CASE Drain
  BY <1>8, CommandAssumption DEF Drain, TypeOK, RootInPhase
<1>9. CASE ReadError
  BY <1>9, CommandAssumption DEF ReadError, TypeOK, RootInPhase
<1>10. CASE Cancel
  BY <1>10 DEF Cancel, TypeOK, RootInPhase, procs
<1>11. CASE WaitExpires
  BY <1>11, CommandAssumption DEF WaitExpires, TypeOK, RootInPhase
<1>12. CASE Abandon
  BY <1>12 DEF Abandon, TypeOK, RootInPhase
<1>13. CASE Fire
  BY <1>13, FoundType DEF Fire, TypeOK, RootInPhase, procs
<1>14. CASE KillNext
  <2>1. PICK p \in victims : KillVictim(p)
    BY <1>14 DEF KillNext
  <2>2. p \in Procs \ {Root}
    BY DEF TypeOK
  <2>3. /\ st' \in [Procs -> {"none", "live", "zombie", "gone"}]
        /\ st'[Root] = st[Root]
    BY <2>1, <2>2 DEF KillVictim, Killed, TypeOK
  <2> QED BY <1>14, <2>1, <2>3 DEF KillNext, KillVictim, TypeOK, RootInPhase
<1>15. CASE KillRoot
  BY <1>15, KilledType DEF KillRoot, TypeOK, RootInPhase
<1>16. CASE UNCHANGED vars
  BY <1>16 DEF vars, procs, TypeOK, RootInPhase
<1> QED BY <1>1, <1>2, <1>3, <1>4, <1>5, <1>6, <1>7, <1>8, <1>9, <1>10, <1>11, <1>12,
           <1>13, <1>14, <1>15, <1>16 DEF Next, Main, Timer, Process

LEMMA CommandInvHolds == Spec => []CommandInv
BY CommandInvInit, CommandInvStep, PTL DEF Spec

-----------------------------------------------------------------------------
(* Every variable has its type; the timer never counts the command among   *)
(* its descendants.                                                        *)
THEOREM CommandTypeCorrect == Spec => []TypeOK
<1>1. CommandInv => TypeOK
  BY DEF CommandInv
<1> QED BY <1>1, CommandInvHolds, PTL

(* A call that returns has set error when the command failed or was        *)
(* killed, however the end of the command and the timer interleave.        *)
THEOREM FailuresAreReported == Spec => []FailureIsReported
<1>1. CommandInv => FailureIsReported
  BY DEF CommandInv, RootInPhase, FailureIsReported
<1> QED BY <1>1, CommandInvHolds, PTL

(* A call that returns has reaped the command and cancelled its timer.     *)
THEOREM ReturnsClean == Spec => []ReturnedIsClean
<1>1. CommandInv => ReturnedIsClean
  BY DEF CommandInv, RootInPhase, ReturnedIsClean
<1> QED BY <1>1, CommandInvHolds, PTL

=============================================================================
