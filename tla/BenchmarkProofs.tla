--------------------------- MODULE BenchmarkProofs --------------------------
(***************************************************************************)
(* Proofs about the derived files of the benchmark, for any list of        *)
(* challenges, any source files and any number of commands; and about what *)
(* checkout leaves of a source file.                                       *)
(***************************************************************************)
EXTENDS Benchmark, Integers, FiniteSetTheorems, SequenceTheorems, WellFoundedInduction, TLAPS

-----------------------------------------------------------------------------
(* Induction and recursion on the numbers up to a bound, stated of sets: a *)
(* theorem takes no operator.                                              *)

(* A set of numbers that is not empty has a least one.                     *)
LEMMA NatMinimum ==
  ASSUME NEW T, T \subseteq Nat, T # {}
  PROVE  \E x \in T : \A y \in T : x <= y
<1> DEFINE R == OpToRel(<, Nat)
<1>1. IsWellFoundedOn(R, Nat)
  BY NatLessThanWellFounded
<1>2. \A x, y \in Nat : y < x => <<y, x>> \in R
  BY DEF OpToRel
<1> HIDE DEF R
<1>3. \E x \in T : \A y \in T : ~ (<<y, x>> \in R)
  BY <1>1, WFMin, Zenon
<1>4. PICK x \in T : \A y \in T : ~ (<<y, x>> \in R)
  BY <1>3
<1>5. \A y \in T : x <= y
  <2> SUFFICES ASSUME NEW y \in T PROVE x <= y
    OBVIOUS
  <2>1. x \in Nat /\ y \in Nat
    OBVIOUS
  <2>2. ~ (y < x)
    BY <1>2, <1>4, <2>1
  <2> QED BY <2>1, <2>2
<1> QED BY <1>5

(* A set that has 0 and with each number the next has all.                 *)
LEMMA SetInduction ==
  ASSUME NEW T, T \subseteq Nat, 0 \in T, \A n \in T : n + 1 \in T
  PROVE  T = Nat
<1> SUFFICES ASSUME Nat \ T # {} PROVE FALSE
  OBVIOUS
<1>1. PICK x \in Nat \ T : \A y \in Nat \ T : x <= y
  BY NatMinimum
<1> QED BY <1>1

(* A function may be defined by recursion on the numbers up to L.          *)
IsRecursive(f, s0, G, L) == f[0] = s0 /\ \A k \in 0 .. L - 1 : f[k + 1] = G[<<f[k], k>>]
(* There is one.                                                           *)
HasRecursive(S, s0, G, L) == \E f \in [0 .. L -> S] : IsRecursive(f, s0, G, L)

(* Whatever the step, such a function exists.                              *)
LEMMA RecursiveExists ==
  ASSUME NEW S, NEW s0 \in S, NEW G \in [S \X Nat -> S], NEW L \in Nat
  PROVE  HasRecursive(S, s0, G, L)
<1> DEFINE Upto(n, f) == f \in [0 .. n -> S] /\ f[0] = s0
                         /\ \A k \in 0 .. n - 1 : f[k + 1] = G[<<f[k], k>>]
           T == {n \in Nat : \E f : Upto(n, f)}
<1>1. 0 \in T
  <2>1. Upto(0, [k \in 0 .. 0 |-> s0])
    OBVIOUS
  <2> QED BY <2>1
<1>2. ASSUME NEW n \in T PROVE n + 1 \in T
  <2>1. PICK f : Upto(n, f)
    OBVIOUS
  <2>2. n \in Nat /\ f \in [0 .. n -> S] /\ f[0] = s0 /\ \A k \in 0 .. n - 1 : f[k + 1] = G[<<f[k], k>>]
    BY <2>1
  <2>3. PICK last \in S : last = G[<<f[n], n>>]
    BY <2>2
  <2> DEFINE g == [k \in 0 .. n + 1 |-> IF k = n + 1 THEN last ELSE f[k]]
  <2>4. g \in [0 .. n + 1 -> S] /\ (\A k \in 0 .. n : g[k] = f[k]) /\ g[n + 1] = last
    BY <2>2
  <2> HIDE DEF g
  <2>5. \A k \in 0 .. n : g[k + 1] = G[<<g[k], k>>]
    <3> SUFFICES ASSUME NEW k \in 0 .. n PROVE g[k + 1] = G[<<g[k], k>>]
      OBVIOUS
    <3>1. CASE k = n
      BY <2>2, <2>3, <2>4, <3>1
    <3>2. CASE k # n
      <4>1. k \in 0 .. n - 1 /\ k + 1 \in 0 .. n
        BY <2>2, <3>2
      <4> QED BY <2>2, <2>4, <4>1
    <3> QED BY <3>1, <3>2
  <2>6. Upto(n + 1, g)
    BY <2>2, <2>4, <2>5
  <2> QED BY <2>2, <2>6
<1> HIDE DEF T
<1>3. T = Nat
  <2>1. T \subseteq Nat
    BY DEF T
  <2> QED BY <1>1, <1>2, <2>1, SetInduction
<1> QED BY <1>3 DEF T, HasRecursive, IsRecursive

-----------------------------------------------------------------------------
(* What extract_snippets finds and what the preprocessor takes, line by    *)
(* line.                                                                   *)

(* A snippet found; a conditional open.                                    *)
Snippet == [start : Nat, change : Nat, end : Nat]
Level   == [patch : BOOLEAN, taken : BOOLEAN]

(* A turn of extract_snippets gives snippets again.                        *)
LEMMA ScanTyped ==
  ASSUME NEW lines, NEW f \in Seq(Snippet), NEW n \in Nat
  PROVE  Scan(lines, f, n) \in Seq(Snippet)
<1>1. CASE IsOpen(f)
  <2>1. Len(f) \in Nat /\ Len(f) # 0 /\ f[Len(f)] \in Snippet
    BY <1>1 DEF IsOpen
  <2> DEFINE u == [f EXCEPT ![Len(f)].change = n]
             v == [f EXCEPT ![Len(f)].end = n]
  <2>2. u \in Seq(Snippet) /\ v \in Seq(Snippet)
    <3>1. [f[Len(f)] EXCEPT !.change = n] \in Snippet /\ [f[Len(f)] EXCEPT !.end = n] \in Snippet
      BY <2>1 DEF Snippet
    <3> QED BY <2>1, <3>1
  <2> HIDE DEF u, v
  <2>3. CASE lines[n] = "else"
    <3>1. Scan(lines, f, n) = u
      BY <1>1, <2>3 DEF Scan, u
    <3> QED BY <2>2, <3>1
  <2>4. CASE lines[n] = "endif"
    <3>1. Scan(lines, f, n) = v
      BY <1>1, <2>4 DEF Scan, v
    <3> QED BY <2>2, <3>1
  <2>5. CASE lines[n] # "else" /\ lines[n] # "endif"
    BY <1>1, <2>5 DEF Scan
  <2> QED BY <2>3, <2>4, <2>5
<1>2. CASE ~ IsOpen(f)
  <2> DEFINE new == [start |-> n, change |-> 0, end |-> 0]
  <2>1. new \in Snippet
    BY DEF Snippet
  <2>2. Append(f, new) \in Seq(Snippet)
    <3> HIDE DEF new
    <3> QED BY <2>1
  <2>3. Scan(lines, f, n) \in {f, Append(f, new)}
    BY <1>2, Zenon DEF Scan
  <2> QED BY <2>2, <2>3
<1> QED BY <1>1, <1>2

(* The snippets found are those of one turn for each line.                 *)
LEMMA FoundIs ==
  ASSUME NEW lines, Len(lines) \in Nat
  PROVE  /\ Found(lines)[0] = <<>>
         /\ \A n \in 0 .. Len(lines) - 1 : Found(lines)[n + 1] = Scan(lines, Found(lines)[n], n + 1)
         /\ \A n \in 0 .. Len(lines) : Found(lines)[n] \in Seq(Snippet)
<1> DEFINE L == Len(lines)
           S == Seq(Snippet)
           s0 == <<>>
           Step(f) == [n \in 0 .. L |-> IF n = 0 THEN <<>> ELSE Scan(lines, f[n - 1], n)]
           G == [x \in S \X Nat |-> Scan(lines, x[1], x[2] + 1)]
<1>1. L \in Nat
  OBVIOUS
<1>2. G \in [S \X Nat -> S]
  <2> SUFFICES ASSUME NEW x \in S \X Nat PROVE Scan(lines, x[1], x[2] + 1) \in S
    OBVIOUS
  <2>1. x[1] \in S /\ x[2] + 1 \in Nat
    OBVIOUS
  <2> QED BY <2>1, ScanTyped
<1>3. s0 \in S
  OBVIOUS
<1>4. \A f \in S, n \in Nat : G[<<f, n>>] = Scan(lines, f, n + 1)
  OBVIOUS
<1> HIDE DEF L, S, G, s0
<1>5. HasRecursive(S, s0, G, L)
  BY <1>1, <1>2, <1>3, RecursiveExists
<1>6. PICK f \in [0 .. L -> S] : f[0] = s0 /\ \A k \in 0 .. L - 1 : f[k + 1] = G[<<f[k], k>>]
  BY <1>5 DEF HasRecursive, IsRecursive
<1>7. ASSUME NEW n \in 0 .. L, n # 0
      PROVE  f[n] = Scan(lines, f[n - 1], n)
  <2>1. n - 1 \in 0 .. L - 1 /\ n - 1 \in Nat /\ (n - 1) + 1 = n /\ f[n - 1] \in S
    BY <1>1, <1>6, <1>7
  <2> QED BY <1>4, <1>6, <2>1
<1>8. f = Step(f)
  BY <1>6, <1>7 DEF s0
<1>9. Found(lines) = Step(Found(lines))
  <2>1. Found(lines) = CHOOSE g : g = Step(g)
    BY DEF Found, L
  <2> HIDE DEF Step
  <2> QED BY <1>8, <2>1
<1>10. Found(lines)[0] = <<>>
  <2>1. 0 \in 0 .. L
    BY <1>1
  <2> QED BY <1>9, <2>1
<1>11. ASSUME NEW n \in 0 .. L - 1
       PROVE  Found(lines)[n + 1] = Scan(lines, Found(lines)[n], n + 1)
  <2>1. n + 1 \in 0 .. L /\ n + 1 # 0 /\ (n + 1) - 1 = n
    BY <1>1
  <2>2. Found(lines)[n + 1] = Scan(lines, Found(lines)[(n + 1) - 1], n + 1)
    BY <1>9, <2>1
  <2> QED BY <2>1, <2>2
<1>12. \A n \in 0 .. L : Found(lines)[n] \in S
  <2> DEFINE T == {n \in Nat : n <= L => Found(lines)[n] \in S}
  <2>1. 0 \in T
    BY <1>3, <1>10 DEF s0
  <2>2. ASSUME NEW n \in T PROVE n + 1 \in T
    <3> SUFFICES ASSUME n + 1 <= L PROVE Found(lines)[n + 1] \in S
      OBVIOUS
    <3>1. n \in Nat /\ n + 1 \in Nat /\ n \in 0 .. L - 1 /\ Found(lines)[n] \in S
      BY <1>1
    <3> QED BY <1>11, <3>1, ScanTyped DEF S
  <2> HIDE DEF T
  <2>3. T = Nat
    <3>1. T \subseteq Nat
      BY DEF T
    <3> QED BY <2>1, <2>2, <3>1, SetInduction
  <2> QED BY <1>1, <2>3 DEF T
<1> QED BY <1>10, <1>11, <1>12 DEF L, S
(* A line leaves conditionals again.                                       *)
LEMMA NestedTyped ==
  ASSUME NEW s \in Seq(Level), NEW l
  PROVE  Nested(s, l) \in Seq(Level)
<1> DEFINE new  == [patch |-> l # "if", taken |-> l # "ifdef"]
           flip == [s EXCEPT ![Len(s)].taken = ~ @]
<1>1. Append(s, new) \in Seq(Level)
  <2>1. new \in Level
    BY DEF Level
  <2> HIDE DEF new
  <2> QED BY <2>1
<1>2. CASE l \in {"ifdef", "ifndef", "if"}
  <2>1. Nested(s, l) = Append(s, new)
    BY <1>2 DEF Nested
  <2> QED BY <1>1, <2>1
<1>3. CASE l = "else" /\ IsPatch(s, l)
  <2>1. s # <<>>
    BY <1>3 DEF IsPatch
  <2>2. Len(s) \in 1 .. Len(s)
    BY <2>1
  <2>3. s[Len(s)] \in Level
    BY <2>2
  <2>4. [s[Len(s)] EXCEPT !.taken = ~ @] \in Level
    BY <2>3 DEF Level
  <2>5. flip \in Seq(Level)
    BY <2>2, <2>4
  <2>6. Nested(s, l) = flip
    BY <1>3 DEF Nested
  <2> QED BY <2>5, <2>6
<1>4. CASE l = "endif" /\ s # <<>>
  <2>1. Nested(s, l) = Front(s)
    BY <1>4 DEF Nested
  <2>2. Len(s) \in Nat \ {0}
    BY <1>4
  <2>3. Front(s) \in Seq(Level)
    BY <1>4, <2>2 DEF Front
  <2> QED BY <2>1, <2>3
<1>5. CASE l \notin {"ifdef", "ifndef", "if"} /\ ~ (l = "else" /\ IsPatch(s, l))
            /\ ~ (l = "endif" /\ s # <<>>)
  BY <1>5, Zenon DEF Nested
<1> QED BY <1>2, <1>3, <1>4, <1>5

(* The conditionals open are those of one step for each line.              *)
LEMMA NestingIs ==
  ASSUME NEW lines, Len(lines) \in Nat
  PROVE  /\ Nesting(lines)[0] = <<>>
         /\ \A n \in 0 .. Len(lines) - 1 : Nesting(lines)[n + 1] = Nested(Nesting(lines)[n], lines[n + 1])
         /\ \A n \in 0 .. Len(lines) : Nesting(lines)[n] \in Seq(Level)
<1> DEFINE L == Len(lines)
           S == Seq(Level)
           s0 == <<>>
           Step(f) == [n \in 0 .. L |-> IF n = 0 THEN <<>> ELSE Nested(f[n - 1], lines[n])]
           G == [x \in S \X Nat |-> Nested(x[1], lines[x[2] + 1])]
<1>1. L \in Nat
  OBVIOUS
<1>2. G \in [S \X Nat -> S]
  <2> SUFFICES ASSUME NEW x \in S \X Nat PROVE Nested(x[1], lines[x[2] + 1]) \in S
    OBVIOUS
  <2>1. x[1] \in S /\ x[2] + 1 \in Nat
    OBVIOUS
  <2> QED BY <2>1, NestedTyped
<1>3. s0 \in S
  OBVIOUS
<1>4. \A f \in S, n \in Nat : G[<<f, n>>] = Nested(f, lines[n + 1])
  OBVIOUS
<1> HIDE DEF L, S, G, s0
<1>5. HasRecursive(S, s0, G, L)
  BY <1>1, <1>2, <1>3, RecursiveExists
<1>6. PICK f \in [0 .. L -> S] : f[0] = s0 /\ \A k \in 0 .. L - 1 : f[k + 1] = G[<<f[k], k>>]
  BY <1>5 DEF HasRecursive, IsRecursive
<1>7. ASSUME NEW n \in 0 .. L, n # 0
      PROVE  f[n] = Nested(f[n - 1], lines[n])
  <2>1. n - 1 \in 0 .. L - 1 /\ n - 1 \in Nat /\ (n - 1) + 1 = n /\ f[n - 1] \in S
    BY <1>1, <1>6, <1>7
  <2> QED BY <1>4, <1>6, <2>1
<1>8. f = Step(f)
  BY <1>6, <1>7 DEF s0
<1>9. Nesting(lines) = Step(Nesting(lines))
  <2>1. Nesting(lines) = CHOOSE g : g = Step(g)
    BY DEF Nesting, L
  <2> HIDE DEF Step
  <2> QED BY <1>8, <2>1
<1>10. Nesting(lines)[0] = <<>>
  <2>1. 0 \in 0 .. L
    BY <1>1
  <2> QED BY <1>9, <2>1
<1>11. ASSUME NEW n \in 0 .. L - 1
       PROVE  Nesting(lines)[n + 1] = Nested(Nesting(lines)[n], lines[n + 1])
  <2>1. n + 1 \in 0 .. L /\ n + 1 # 0 /\ (n + 1) - 1 = n
    BY <1>1
  <2>2. Nesting(lines)[n + 1] = Nested(Nesting(lines)[(n + 1) - 1], lines[n + 1])
    BY <1>9, <2>1
  <2> QED BY <2>1, <2>2
<1>12. \A n \in 0 .. L : Nesting(lines)[n] \in S
  <2> DEFINE T == {n \in Nat : n <= L => Nesting(lines)[n] \in S}
  <2>1. 0 \in T
    BY <1>3, <1>10 DEF s0
  <2>2. ASSUME NEW n \in T PROVE n + 1 \in T
    <3> SUFFICES ASSUME n + 1 <= L PROVE Nesting(lines)[n + 1] \in S
      OBVIOUS
    <3>1. n \in Nat /\ n + 1 \in Nat /\ n \in 0 .. L - 1 /\ Nesting(lines)[n] \in S
      BY <1>1
    <3> QED BY <1>11, <3>1, NestedTyped DEF S
  <2> HIDE DEF T
  <2>3. T = Nat
    <3>1. T \subseteq Nat
      BY DEF T
    <3> QED BY <2>1, <2>2, <3>1, SetInduction
  <2> QED BY <1>1, <2>3 DEF T
<1> QED BY <1>10, <1>11, <1>12 DEF L, S

(* The line is emptied once the snippet is found, or so far.               *)
In(t, j) ==
  IF t.end = 0 THEN t.start <= j /\ (t.change = 0 \/ j <= t.change)
  ELSE j = t.end \/ (t.start <= j /\ j <= IF t.change = 0 THEN t.end ELSE t.change)

(* A snippet that is closed after n lines; one that is still open.         *)
Whole(t, n) ==
  /\ 1 <= t.start /\ t.start < t.end /\ t.end <= n
  /\ t.change # 0 => t.start < t.change /\ t.change < t.end

Open(lines, t, n) ==
  /\ 1 <= t.start /\ t.start <= n /\ lines[t.start] = "ifdef" /\ t.end = 0
  /\ t.change # 0 => t.start < t.change /\ t.change <= n
  /\ \A j \in t.start + 1 .. n : lines[j] # "endif" /\ (lines[j] = "else" <=> j = t.change)

(* After n lines, the snippets found and the conditionals open agree.      *)
Agree(lines, f, s, n) ==
  /\ f \in Seq(Snippet) /\ s \in Seq(Level)
  /\ \A k \in 1 .. Len(f) : Whole(f[k], n) \/ (k = Len(f) /\ Open(lines, f[k], n))
  /\ \A k \in 1 .. Len(s) : (s[k].taken /\ ~ s[k].patch) \/ (k = Len(s) /\ IsOpen(f))
  /\ IsOpen(f) => /\ s # <<>> /\ s[Len(s)].patch
                  /\ s[Len(s)].taken <=> f[Len(f)].change # 0

(* The preprocessor keeps the line.                                        *)
Kept(s, l) == AllTaken(s) /\ ~ IsPatch(s, l)

(* A turn outside a snippet may start one.                                 *)
LEMMA ScanOpens ==
  ASSUME NEW lines, NEW f \in Seq(Snippet), NEW n \in Nat, NEW g, g = Scan(lines, f, n),
         ~ IsOpen(f), lines[n] \in {"ifdef", "ifndef"}
  PROVE  /\ g \in Seq(Snippet) /\ Len(g) = Len(f) + 1 /\ \A k \in 1 .. Len(f) : g[k] = f[k]
         /\ g[Len(g)].start = n /\ g[Len(g)].change = 0 /\ g[Len(g)].end = 0
<1> DEFINE new == [start |-> n, change |-> 0, end |-> 0]
<1>1. g = Append(f, new)
  BY Zenon DEF Scan
<1>2. new \in Snippet
  BY DEF Snippet
<1> HIDE DEF new
<1>3. g \in Seq(Snippet) /\ Len(g) = Len(f) + 1 /\ g[Len(g)] = new /\ \A k \in 1 .. Len(f) : g[k] = f[k]
  BY <1>1, <1>2
<1> QED BY <1>3 DEF new

(* A turn inside a snippet sets its change or its end.                     *)
LEMMA ScanUpdates ==
  ASSUME NEW lines, NEW f \in Seq(Snippet), NEW n \in Nat, NEW g, g = Scan(lines, f, n),
         IsOpen(f), lines[n] \in {"else", "endif"}
  PROVE  /\ g \in Seq(Snippet) /\ Len(g) = Len(f) /\ Len(f) > 0
         /\ \A k \in 1 .. Len(f) : k # Len(f) => g[k] = f[k]
         /\ g[Len(f)].start = f[Len(f)].start
         /\ lines[n] = "else" => g[Len(f)].change = n /\ g[Len(f)].end = f[Len(f)].end
         /\ lines[n] = "endif" => g[Len(f)].change = f[Len(f)].change /\ g[Len(f)].end = n
<1>1. Len(f) \in Nat /\ Len(f) # 0 /\ f[Len(f)] \in Snippet
  BY DEF IsOpen
<1>2. PICK r \in Snippet : r = f[Len(f)]
  BY <1>1
<1>3. CASE lines[n] = "else"
  <2> DEFINE u == [r EXCEPT !.change = n]
  <2>1. u \in Snippet /\ u.start = r.start /\ u.change = n /\ u.end = r.end
    BY DEF Snippet
  <2>2. g = [f EXCEPT ![Len(f)] = u]
    BY <1>2, <1>3 DEF Scan
  <2> HIDE DEF u
  <2>3. g \in Seq(Snippet) /\ Len(g) = Len(f) /\ g[Len(f)] = u
        /\ \A k \in 1 .. Len(f) : k # Len(f) => g[k] = f[k]
    BY <1>1, <2>1, <2>2
  <2> QED BY <1>1, <1>3, <1>2, <2>1, <2>3
<1>4. CASE lines[n] = "endif"
  <2> DEFINE u == [r EXCEPT !.end = n]
  <2>1. u \in Snippet /\ u.start = r.start /\ u.end = n /\ u.change = r.change
    BY DEF Snippet
  <2>2. g = [f EXCEPT ![Len(f)] = u]
    BY <1>2, <1>4 DEF Scan
  <2> HIDE DEF u
  <2>3. g \in Seq(Snippet) /\ Len(g) = Len(f) /\ g[Len(f)] = u
        /\ \A k \in 1 .. Len(f) : k # Len(f) => g[k] = f[k]
    BY <1>1, <2>1, <2>2
  <2> QED BY <1>1, <1>4, <1>2, <2>1, <2>3
<1> QED BY <1>3, <1>4

(* Any other turn changes nothing.                                         *)
LEMMA ScanSkips ==
  ASSUME NEW lines, NEW f, NEW n, NEW g, g = Scan(lines, f, n),
         IF IsOpen(f) THEN lines[n] \notin {"else", "endif"} ELSE lines[n] \notin {"ifdef", "ifndef"}
  PROVE  g = f
BY DEF Scan

(* A conditional opens,                                                    *)
LEMMA NestedOpens ==
  ASSUME NEW s \in Seq(Level), NEW l \in {"ifdef", "ifndef", "if"}, NEW t, t = Nested(s, l)
  PROVE  /\ t \in Seq(Level) /\ Len(t) = Len(s) + 1 /\ \A k \in 1 .. Len(s) : t[k] = s[k]
         /\ t[Len(t)].patch <=> l # "if"
         /\ t[Len(t)].taken <=> l # "ifdef"
<1> DEFINE new == [patch |-> l # "if", taken |-> l # "ifdef"]
<1>1. t = Append(s, new)
  BY DEF Nested
<1>2. new \in Level /\ (new.patch <=> l # "if") /\ (new.taken <=> l # "ifdef")
  BY DEF Level
<1> HIDE DEF new
<1>3. t \in Seq(Level) /\ Len(t) = Len(s) + 1 /\ t[Len(t)] = new /\ \A k \in 1 .. Len(s) : t[k] = s[k]
  BY <1>1, <1>2
<1> QED BY <1>2, <1>3

(* takes its other branch,                                                 *)
LEMMA NestedTurns ==
  ASSUME NEW s \in Seq(Level), NEW l, NEW t, t = Nested(s, l), l = "else", IsPatch(s, l)
  PROVE  /\ t \in Seq(Level) /\ Len(t) = Len(s) /\ Len(s) > 0
         /\ \A k \in 1 .. Len(s) : k # Len(s) => t[k] = s[k]
         /\ t[Len(s)].patch = s[Len(s)].patch
         /\ t[Len(s)].taken <=> ~ s[Len(s)].taken
<1>1. Len(s) \in Nat /\ Len(s) # 0 /\ Len(s) \in 1 .. Len(s) /\ s[Len(s)] \in Level
  BY DEF IsPatch
<1>2. PICK r \in Level : r = s[Len(s)]
  BY <1>1
<1> DEFINE top == [r EXCEPT !.taken = ~ @]
<1>3. top \in Level /\ top.patch = r.patch /\ (top.taken <=> ~ r.taken)
  BY DEF Level
<1>4. t = [s EXCEPT ![Len(s)] = top]
  BY <1>2 DEF Nested
<1> HIDE DEF top
<1>5. t \in Seq(Level) /\ Len(t) = Len(s) /\ t[Len(s)] = top /\ \A k \in 1 .. Len(s) : k # Len(s) => t[k] = s[k]
  BY <1>1, <1>3, <1>4
<1> QED BY <1>1, <1>2, <1>3, <1>5

(* closes,                                                                 *)
LEMMA NestedCloses ==
  ASSUME NEW s \in Seq(Level), NEW l, NEW t, t = Nested(s, l), l = "endif", s # <<>>
  PROVE  t \in Seq(Level) /\ Len(t) = Len(s) - 1 /\ \A k \in 1 .. Len(t) : t[k] = s[k]
<1>1. t = SubSeq(s, 1, Len(s) - 1)
  BY DEF Nested, Front
<1>2. Len(s) \in Nat /\ Len(s) # 0
  OBVIOUS
<1>3. PICK m \in Nat : m = Len(s) - 1
  BY <1>2
<1>4. t = SubSeq(s, 1, m) /\ \A k \in 1 .. m : s[k] \in Level
  BY <1>1, <1>2, <1>3
<1>5. Len(t) = m
  BY <1>4, SubSeqProperties
<1>6. \A k \in 1 .. Len(t) : t[k] = s[k]
  BY <1>1, <1>2, <1>3, <1>5
<1>7. t \in Seq(Level)
  BY <1>1, <1>2
<1> QED BY <1>3, <1>5, <1>6, <1>7

(* or the line has nothing to do with conditionals.                        *)
LEMMA NestedSkips ==
  ASSUME NEW s, NEW l, NEW t, t = Nested(s, l), l \notin {"ifdef", "ifndef", "if"},
         ~ (l = "else" /\ IsPatch(s, l)), ~ (l = "endif" /\ s # <<>>)
  PROVE  t = s
BY Zenon DEF Nested

(* In a plain file a snippet that is open is not left so, and has no       *)
(* second #else and no other conditional.                                  *)
LEMMA OpenEnds ==
  ASSUME NEW lines \in Seq(LineKinds), Plain(lines), NEW n \in Nat, n <= Len(lines),
         NEW t \in Snippet, Open(lines, t, n)
  PROVE  /\ n < Len(lines) /\ lines[n + 1] \in {"code", "blank", "else", "endif"}
         /\ lines[n + 1] = "else" => t.change = 0
<1> DEFINE a == t.start
<1>1. a \in Nat /\ t.change \in Nat /\ Len(lines) \in Nat
  BY DEF Snippet
<1>2. 1 <= a /\ a <= n /\ lines[a] = "ifdef" /\ a \in DOMAIN lines
  BY <1>1 DEF Open
<1>3. PICK m \in DOMAIN lines :
        /\ a < m /\ lines[m] = "endif"
        /\ \A k \in a + 1 .. m - 1 : lines[k] \in {"code", "blank", "else"}
        /\ \A j, k \in a + 1 .. m - 1 : lines[j] = "else" /\ lines[k] = "else" => j = k
  BY <1>2 DEF Plain
<1>4. m \in 1 .. Len(lines)
  OBVIOUS
<1>5. \A j \in a + 1 .. n : lines[j] # "endif" /\ (lines[j] = "else" <=> j = t.change)
  BY DEF Open
<1>6. n < m
  <2> SUFFICES ASSUME m <= n PROVE FALSE
    BY <1>4
  <2>1. m \in a + 1 .. n
    BY <1>1, <1>2, <1>3, <1>4
  <2> QED BY <1>3, <1>5, <2>1
<1>7. CASE n + 1 = m
  BY <1>1, <1>3, <1>4, <1>7
<1>8. CASE n + 1 # m
  <2>1. n + 1 \in a + 1 .. m - 1
    BY <1>1, <1>2, <1>4, <1>6, <1>8
  <2>2. ASSUME lines[n + 1] = "else", t.change # 0 PROVE FALSE
    <3>1. t.change \in a + 1 .. n
      BY <1>1, <2>2 DEF Open
    <3>2. lines[t.change] = "else" /\ t.change \in a + 1 .. m - 1
      BY <1>4, <1>5, <1>6, <3>1
    <3>3. t.change = n + 1
      BY <1>3, <2>1, <2>2, <3>2
    <3> QED BY <3>1, <3>3
  <2> QED BY <1>3, <1>4, <1>6, <2>1, <2>2
<1> QED BY <1>4, <1>6, <1>7, <1>8

(* Lines after a closed snippet are not in it.                             *)
LEMMA NotAfter ==
  ASSUME NEW t \in Snippet, NEW n \in Nat, Whole(t, n), NEW j \in Nat, n < j
  PROVE  ~ In(t, j) /\ Whole(t, j)
BY DEF Whole, In, Snippet

(* An open snippet that closes,                                            *)
LEMMA SnippetCloses ==
  ASSUME NEW lines, NEW n \in Nat, NEW o \in Snippet, NEW u \in Snippet, Open(lines, o, n),
         u.start = o.start, u.change = o.change, u.end = n + 1
  PROVE  Whole(u, n + 1) /\ In(u, n + 1) /\ \A j \in 1 .. n : In(u, j) <=> In(o, j)
<1> DEFINE a == o.start
           c == o.change
<1>1. a \in Nat /\ c \in Nat /\ u.start = a /\ u.change = c /\ u.end = n + 1 /\ o.end = 0
  BY DEF Snippet, Open
<1>2. 1 <= a /\ a <= n /\ (c # 0 => a < c /\ c <= n)
  BY DEF Open
<1> HIDE DEF a, c
<1>3. Whole(u, n + 1) /\ In(u, n + 1)
  BY <1>1, <1>2 DEF Whole, In
<1>4. \A j \in 1 .. n : In(u, j) <=> IF c = 0 THEN a <= j ELSE a <= j /\ j <= c
  BY <1>1, <1>2 DEF In
<1>5. \A j \in 1 .. n : In(o, j) <=> IF c = 0 THEN a <= j ELSE a <= j /\ j <= c
  BY <1>1, <1>2 DEF In, a, c
<1> QED BY <1>3, <1>4, <1>5

(* comes to its #else,                                                     *)
LEMMA SnippetTurns ==
  ASSUME NEW lines, NEW n \in Nat, NEW o \in Snippet, NEW u \in Snippet, Open(lines, o, n),
         o.change = 0, lines[n + 1] = "else", u.start = o.start, u.change = n + 1, u.end = 0
  PROVE  Open(lines, u, n + 1) /\ In(u, n + 1) /\ \A j \in 1 .. n : In(u, j) <=> In(o, j)
<1> DEFINE a == o.start
<1>1. a \in Nat /\ u.start = a /\ o.end = 0
  BY DEF Snippet, Open
<1>2. 1 <= a /\ a <= n /\ lines[a] = "ifdef"
      /\ \A j \in a + 1 .. n : lines[j] # "endif" /\ lines[j] # "else"
  BY <1>1 DEF Open
<1>3. \A j \in 1 .. n : In(o, j) <=> a <= j
  BY <1>1, <1>2 DEF In
<1> HIDE DEF a
<1>4. \A j \in a + 1 .. n + 1 : lines[j] # "endif" /\ (lines[j] = "else" <=> j = n + 1)
  BY <1>1, <1>2
<1>5. Open(lines, u, n + 1)
  BY <1>1, <1>2, <1>4 DEF Open
<1>6. \A j \in 1 .. n + 1 : In(u, j) <=> a <= j
  BY <1>1, <1>2 DEF In
<1> QED BY <1>1, <1>2, <1>3, <1>5, <1>6

(* or goes on: the lines it had keep their lot.                            *)
LEMMA SnippetStays ==
  ASSUME NEW lines, NEW n \in Nat, NEW o \in Snippet, Open(lines, o, n),
         lines[n + 1] \in {"code", "blank"}
  PROVE  Open(lines, o, n + 1) /\ (In(o, n + 1) <=> o.change = 0)
<1> DEFINE a == o.start
           c == o.change
<1>1. a \in Nat /\ c \in Nat /\ o.end = 0
  BY DEF Snippet, Open
<1>2. 1 <= a /\ a <= n /\ lines[a] = "ifdef" /\ (c # 0 => a < c /\ c <= n)
      /\ \A j \in a + 1 .. n : lines[j] # "endif" /\ (lines[j] = "else" <=> j = c)
  BY DEF Open
<1>3. In(o, n + 1) <=> c = 0
  BY <1>1, <1>2 DEF In
<1> HIDE DEF a, c
<1>4. \A j \in a + 1 .. n + 1 : lines[j] # "endif" /\ (lines[j] = "else" <=> j = c)
  BY <1>1, <1>2
<1>5. Open(lines, o, n + 1)
  BY <1>1, <1>2, <1>4 DEF Open, a, c
<1> QED BY <1>3, <1>5 DEF c

(* So do they a line later, and no earlier line changes its lot.           *)
StillAgree(lines, f, s, g, t, n) ==
  /\ Agree(lines, g, t, n + 1)
  /\ Kept(s, lines[n + 1]) <=> \A k \in 1 .. Len(g) : ~ In(g[k], n + 1)
  /\ \A j \in 1 .. n : (\E k \in 1 .. Len(g) : In(g[k], j))
                         <=> \E k \in 1 .. Len(f) : In(f[k], j)

(* One line more, by where it is and what it is.                           *)
LEMMA AgreeStep ==
  ASSUME NEW lines \in Seq(LineKinds), Plain(lines), NEW n \in Nat, n < Len(lines),
         NEW f, NEW s, Agree(lines, f, s, n),
         NEW g, g = Scan(lines, f, n + 1), NEW t, t = Nested(s, lines[n + 1])
  PROVE  StillAgree(lines, f, s, g, t, n)
<1> USE DEF StillAgree
<1> DEFINE l == lines[n + 1]
<1>1. /\ f \in Seq(Snippet) /\ s \in Seq(Level) /\ l \in LineKinds /\ l # "ifndef"
      /\ Len(f) \in Nat /\ Len(s) \in Nat /\ n + 1 \in Nat
      /\ \A k \in 1 .. Len(f) : f[k] \in Snippet
  <2>1. n + 1 \in DOMAIN lines
    OBVIOUS
  <2> QED BY <2>1 DEF Agree, Plain
<1>2. CASE IsOpen(f)
  <2> DEFINE o == f[Len(f)]
             top == s[Len(s)]
  <2>1. /\ Len(f) > 0 /\ o \in Snippet /\ Open(lines, o, n) /\ o.end = 0
        /\ Len(s) > 0 /\ top.patch /\ (top.taken <=> o.change # 0) /\ s # <<>>
        /\ \A k \in 1 .. Len(f) : k # Len(f) => Whole(f[k], n)
        /\ \A k \in 1 .. Len(s) : k # Len(s) => s[k].taken /\ ~ s[k].patch
    <3>1. Len(f) > 0 /\ o \in Snippet /\ o.end = 0
      BY <1>1, <1>2 DEF IsOpen, Last
    <3>2. \A k \in 1 .. Len(f) : k # Len(f) => Whole(f[k], n)
      BY <1>1 DEF Agree
    <3>3. Open(lines, o, n)
      <4>1. Len(f) \in 1 .. Len(f) /\ ~ Whole(o, n)
        BY <1>1, <3>1 DEF Whole, Snippet
      <4> QED BY <4>1 DEF Agree
    <3>4. Len(s) > 0 /\ top.patch /\ (top.taken <=> o.change # 0) /\ s # <<>>
      BY <1>1, <1>2 DEF Agree
    <3>5. \A k \in 1 .. Len(s) : k # Len(s) => s[k].taken /\ ~ s[k].patch
      BY <1>1 DEF Agree
    <3> QED BY <3>1, <3>2, <3>3, <3>4, <3>5
  <2>2. l \in {"code", "blank", "else", "endif"} /\ (l = "else" => o.change = 0)
    BY <2>1, OpenEnds
  <2>3. AllTaken(s) <=> o.change # 0
    BY <1>1, <2>1 DEF AllTaken
  <2>4. \A k \in 1 .. Len(f) : k # Len(f) => ~ In(f[k], n + 1) /\ Whole(f[k], n + 1)
    BY <1>1, <2>1, NotAfter
  <2>5. CASE l = "endif"
    <3>1. IsPatch(s, l)
      BY <2>1, <2>5 DEF IsPatch, Last
    <3>2. /\ g \in Seq(Snippet) /\ Len(g) = Len(f) /\ \A k \in 1 .. Len(f) : k # Len(f) => g[k] = f[k]
          /\ g[Len(f)].start = o.start /\ g[Len(f)].change = o.change /\ g[Len(f)].end = n + 1
      BY <1>1, <1>2, <2>5, ScanUpdates
    <3>3. t \in Seq(Level) /\ Len(t) = Len(s) - 1 /\ \A k \in 1 .. Len(t) : t[k] = s[k]
      BY <1>1, <2>1, <2>5, NestedCloses
    <3>4. /\ Whole(g[Len(f)], n + 1) /\ In(g[Len(f)], n + 1)
          /\ \A j \in 1 .. n : In(g[Len(f)], j) <=> In(f[Len(f)], j)
      <4>1. g[Len(f)] \in Snippet
        BY <1>1, <2>1, <3>2
      <4> QED BY <2>1, <3>2, <4>1, SnippetCloses
    <3>5. ~ IsOpen(g)
      BY <2>1, <3>2 DEF IsOpen, Last
    <3>6. Agree(lines, g, t, n + 1)
      <4>1. \A k \in 1 .. Len(g) : Whole(g[k], n + 1)
        BY <1>1, <2>4, <3>2, <3>4
      <4>2. \A k \in 1 .. Len(t) : t[k].taken /\ ~ t[k].patch
        BY <1>1, <2>1, <3>3
      <4> QED BY <3>2, <3>3, <3>5, <4>1, <4>2 DEF Agree
    <3>8. \A j \in 1 .. n, k \in 1 .. Len(f) : In(g[k], j) <=> In(f[k], j)
      BY <1>1, <3>2, <3>4
    <3>9. ~ Kept(s, l) /\ \E k \in 1 .. Len(g) : In(g[k], n + 1)
      BY <1>1, <2>1, <3>1, <3>2, <3>4 DEF Kept
    <3> QED BY <3>2, <3>6, <3>8, <3>9
  <2>6. CASE l = "else"
    <3>1. IsPatch(s, l) /\ o.change = 0
      BY <2>1, <2>2, <2>6 DEF IsPatch, Last
    <3>2. /\ g \in Seq(Snippet) /\ Len(g) = Len(f) /\ \A k \in 1 .. Len(f) : k # Len(f) => g[k] = f[k]
          /\ g[Len(f)].start = o.start /\ g[Len(f)].change = n + 1 /\ g[Len(f)].end = 0
      <4>1. lines[n + 1] = "else" /\ o.end = 0
        BY <2>1, <2>6
      <4> QED BY <1>1, <1>2, <4>1, ScanUpdates
    <3>3. /\ t \in Seq(Level) /\ Len(t) = Len(s) /\ \A k \in 1 .. Len(s) : k # Len(s) => t[k] = s[k]
          /\ t[Len(s)].patch = top.patch /\ (t[Len(s)].taken <=> ~ top.taken)
      BY <1>1, <2>6, <3>1, NestedTurns
    <3>4. /\ Open(lines, g[Len(f)], n + 1) /\ In(g[Len(f)], n + 1)
          /\ \A j \in 1 .. n : In(g[Len(f)], j) <=> In(f[Len(f)], j)
      <4>1. g[Len(f)] \in Snippet
        BY <1>1, <2>1, <3>2
      <4> QED BY <2>1, <2>6, <3>1, <3>2, <4>1, SnippetTurns
    <3>5. IsOpen(g)
      BY <2>1, <3>2 DEF IsOpen, Last
    <3>6. Agree(lines, g, t, n + 1)
      <4>1. \A k \in 1 .. Len(g) : Whole(g[k], n + 1) \/ (k = Len(g) /\ Open(lines, g[k], n + 1))
        BY <1>1, <2>4, <3>2, <3>4
      <4>2. \A k \in 1 .. Len(t) : (t[k].taken /\ ~ t[k].patch) \/ k = Len(t)
        BY <1>1, <2>1, <3>3
      <4>3. t # <<>> /\ t[Len(t)].patch /\ t[Len(t)].taken /\ g[Len(g)].change # 0
        BY <1>1, <2>1, <3>1, <3>2, <3>3
      <4> QED BY <3>2, <3>3, <3>5, <4>1, <4>2, <4>3 DEF Agree
    <3>8. \A j \in 1 .. n, k \in 1 .. Len(f) : In(g[k], j) <=> In(f[k], j)
      BY <1>1, <3>2, <3>4
    <3>9. ~ Kept(s, l) /\ \E k \in 1 .. Len(g) : In(g[k], n + 1)
      BY <1>1, <2>1, <3>1, <3>2, <3>4 DEF Kept
    <3> QED BY <3>2, <3>6, <3>8, <3>9
  <2>7. CASE l \in {"code", "blank"}
    <3>1. g = f /\ t = s /\ ~ IsPatch(s, l)
      <4>1. g = f
        BY <1>1, <1>2, <2>7, ScanSkips
      <4>2. t = s
        BY <1>1, <2>7, NestedSkips
      <4> QED BY <2>7, <4>1, <4>2 DEF IsPatch
    <3>2. Open(lines, o, n + 1) /\ (In(o, n + 1) <=> o.change = 0)
      BY <1>1, <2>1, <2>7, SnippetStays
    <3>3. Agree(lines, g, t, n + 1)
      <4>1. \A k \in 1 .. Len(f) : Whole(f[k], n + 1) \/ (k = Len(f) /\ Open(lines, f[k], n + 1))
        BY <1>1, <2>4, <3>2
      <4> QED BY <3>1, <4>1 DEF Agree
    <3>4. (\A k \in 1 .. Len(g) : ~ In(g[k], n + 1)) <=> o.change # 0
      BY <1>1, <2>1, <2>4, <3>1, <3>2
    <3> QED BY <2>3, <3>1, <3>3, <3>4 DEF Kept
  <2> QED BY <2>2, <2>5, <2>6, <2>7
<1>3. CASE ~ IsOpen(f)
  <2>1. /\ \A k \in 1 .. Len(f) : Whole(f[k], n)
        /\ \A k \in 1 .. Len(s) : s[k].taken /\ ~ s[k].patch
    <3>1. ASSUME NEW k \in 1 .. Len(f), ~ Whole(f[k], n) PROVE FALSE
      <4>1. k = Len(f) /\ f[k].end = 0
        BY <3>1 DEF Agree, Open
      <4> QED BY <1>1, <1>3, <4>1 DEF IsOpen, Last
    <3> QED BY <1>3, <3>1 DEF Agree
  <2>2. AllTaken(s)
    BY <1>1, <2>1 DEF AllTaken
  <2>3. \A k \in 1 .. Len(f) : ~ In(f[k], n + 1) /\ Whole(f[k], n + 1)
    BY <1>1, <2>1, NotAfter
  <2>4. CASE l = "ifdef"
    <3>1. /\ g \in Seq(Snippet) /\ Len(g) = Len(f) + 1 /\ \A k \in 1 .. Len(f) : g[k] = f[k]
          /\ g[Len(g)].start = n + 1 /\ g[Len(g)].change = 0 /\ g[Len(g)].end = 0
      BY <1>1, <1>3, <2>4, ScanOpens
    <3>2. /\ t \in Seq(Level) /\ Len(t) = Len(s) + 1 /\ \A k \in 1 .. Len(s) : t[k] = s[k]
          /\ (t[Len(t)].patch <=> l # "if") /\ (t[Len(t)].taken <=> l # "ifdef")
      BY <1>1, <2>4, NestedOpens
    <3>3. t[Len(t)].patch /\ ~ t[Len(t)].taken
      BY <2>4, <3>2
    <3>4. Open(lines, g[Len(g)], n + 1) /\ In(g[Len(g)], n + 1)
      BY <1>1, <2>4, <3>1 DEF Open, In
    <3>5. IsOpen(g)
      BY <1>1, <3>1 DEF IsOpen, Last
    <3>6. Agree(lines, g, t, n + 1)
      <4>1. \A k \in 1 .. Len(g) : Whole(g[k], n + 1) \/ (k = Len(g) /\ Open(lines, g[k], n + 1))
        <5> TAKE k \in 1 .. Len(g)
        <5>1. CASE k = Len(g)
          BY <3>4, <5>1
        <5>2. CASE k # Len(g)
          <6>1. k \in 1 .. Len(f)
            BY <1>1, <3>1, <5>2
          <6> QED BY <2>3, <3>1, <6>1
        <5> QED BY <5>1, <5>2
      <4>2. \A k \in 1 .. Len(t) : (t[k].taken /\ ~ t[k].patch) \/ k = Len(t)
        <5> TAKE k \in 1 .. Len(t)
        <5>1. CASE k # Len(t)
          <6>1. k \in 1 .. Len(s)
            BY <1>1, <3>2, <5>1
          <6> QED BY <2>1, <3>2, <6>1
        <5> QED BY <5>1
      <4>3. t # <<>> /\ g[Len(g)].change = 0
        BY <1>1, <3>1, <3>2
      <4> QED BY <3>1, <3>2, <3>3, <3>5, <4>1, <4>2, <4>3 DEF Agree
    <3>7. \A j \in 1 .. n : ~ In(g[Len(g)], j)
      BY <1>1, <3>1 DEF In
    <3>8. \A j \in 1 .. n : (\E k \in 1 .. Len(g) : In(g[k], j)) <=> \E k \in 1 .. Len(f) : In(f[k], j)
      <4> SUFFICES ASSUME NEW j \in 1 .. n
                   PROVE  (\E k \in 1 .. Len(g) : In(g[k], j)) <=> \E k \in 1 .. Len(f) : In(f[k], j)
        OBVIOUS
      <4>1. ASSUME NEW k \in 1 .. Len(g), In(g[k], j) PROVE k \in 1 .. Len(f) /\ In(f[k], j)
        BY <1>1, <3>1, <3>7, <4>1
      <4>2. ASSUME NEW k \in 1 .. Len(f), In(f[k], j) PROVE k \in 1 .. Len(g) /\ In(g[k], j)
        BY <1>1, <3>1, <4>2
      <4> QED BY <4>1, <4>2
    <3>9. IsPatch(s, l)
      BY <2>4 DEF IsPatch
    <3>10. \E k \in 1 .. Len(g) : In(g[k], n + 1)
      BY <1>1, <3>1, <3>4
    <3> QED BY <3>6, <3>8, <3>9, <3>10 DEF Kept
  <2>5. CASE l # "ifdef"
    <3>1. g = f
      BY <1>1, <1>3, <2>5, ScanSkips
    <3>2. ~ IsPatch(s, l)
      BY <1>1, <2>1, <2>5 DEF IsPatch, Last
    <3>3. t \in Seq(Level) /\ \A k \in 1 .. Len(t) : t[k].taken /\ ~ t[k].patch
      <4>1. CASE l = "if"
        <5>1. /\ t \in Seq(Level) /\ Len(t) = Len(s) + 1 /\ \A k \in 1 .. Len(s) : t[k] = s[k]
              /\ (t[Len(t)].patch <=> l # "if") /\ (t[Len(t)].taken <=> l # "ifdef")
          BY <1>1, <4>1, NestedOpens
        <5>2. t[Len(t)].taken /\ ~ t[Len(t)].patch
          BY <4>1, <5>1
        <5> QED BY <1>1, <2>1, <5>1, <5>2
      <4>2. CASE l = "endif" /\ s # <<>>
        <5>1. t \in Seq(Level) /\ Len(t) = Len(s) - 1 /\ \A k \in 1 .. Len(t) : t[k] = s[k]
          BY <1>1, <4>2, NestedCloses
        <5> QED BY <1>1, <2>1, <5>1
      <4>3. CASE l # "if" /\ ~ (l = "endif" /\ s # <<>>)
        <5>1. t = s
          BY <1>1, <2>5, <3>2, <4>3, NestedSkips
        <5> QED BY <1>1, <2>1, <5>1
      <4> QED BY <4>1, <4>2, <4>3
    <3>4. Agree(lines, g, t, n + 1)
      BY <1>1, <1>3, <2>3, <3>1, <3>3 DEF Agree
    <3> QED BY <2>2, <2>3, <3>1, <3>2, <3>4 DEF Kept
  <2> QED BY <2>4, <2>5
<1> QED BY <1>2, <1>3

(* After any number of lines, those kept are those outside the snippets.   *)
LEMMA AgreeAlways ==
  ASSUME NEW lines \in Seq(LineKinds), Plain(lines), NEW m \in 0 .. Len(lines)
  PROVE  /\ Agree(lines, Found(lines)[m], Nesting(lines)[m], m)
         /\ \A j \in 1 .. m : Kept(Nesting(lines)[j - 1], lines[j])
              <=> \A k \in 1 .. Len(Found(lines)[m]) : ~ In(Found(lines)[m][k], j)
<1> DEFINE L == Len(lines)
           f(n) == Found(lines)[n]
           s(n) == Nesting(lines)[n]
           Right(n) == \A j \in 1 .. n : Kept(s(j - 1), lines[j])
                         <=> \A k \in 1 .. Len(f(n)) : ~ In(f(n)[k], j)
           T == {n \in Nat : n <= L => Agree(lines, f(n), s(n), n) /\ Right(n)}
<1>1. L \in Nat
  OBVIOUS
<1>2. /\ f(0) = <<>> /\ s(0) = <<>>
      /\ \A n \in 0 .. L - 1 : f(n + 1) = Scan(lines, f(n), n + 1)
      /\ \A n \in 0 .. L - 1 : s(n + 1) = Nested(s(n), lines[n + 1])
  BY <1>1, FoundIs, NestingIs
<1>3. 0 \in T
  <2>1. Agree(lines, <<>>, <<>>, 0)
    BY DEF Agree, IsOpen
  <2> QED BY <1>2, <2>1
<1>4. ASSUME NEW n \in T PROVE n + 1 \in T
  <2> SUFFICES ASSUME n + 1 <= L PROVE Agree(lines, f(n + 1), s(n + 1), n + 1) /\ Right(n + 1)
    OBVIOUS
  <2>1. n \in Nat /\ n < Len(lines) /\ n \in 0 .. L - 1 /\ Agree(lines, f(n), s(n), n) /\ Right(n)
    <3>1. n \in Nat /\ (n <= L => Agree(lines, f(n), s(n), n) /\ Right(n))
      OBVIOUS
    <3> HIDE DEF Right, T
    <3> QED BY <1>1, <3>1
  <2>2. PICK F, S, G, H : F = f(n) /\ S = s(n) /\ G = f(n + 1) /\ H = s(n + 1)
    OBVIOUS
  <2>3. G = Scan(lines, F, n + 1) /\ H = Nested(S, lines[n + 1]) /\ Agree(lines, F, S, n)
    BY <1>2, <2>1, <2>2
  <2>4. /\ Agree(lines, G, H, n + 1)
        /\ Kept(S, lines[n + 1]) <=> \A k \in 1 .. Len(G) : ~ In(G[k], n + 1)
        /\ \A j \in 1 .. n : (\E k \in 1 .. Len(G) : In(G[k], j)) <=> \E k \in 1 .. Len(F) : In(F[k], j)
    <3>1. StillAgree(lines, F, S, G, H, n)
      <4> HIDE DEF L, f, s, Right, T
      <4> QED BY <2>1, <2>3, AgreeStep
    <3> QED BY <3>1 DEF StillAgree
  <2>5. \A j \in 1 .. n : Kept(s(j - 1), lines[j]) <=> \A k \in 1 .. Len(F) : ~ In(F[k], j)
    BY <2>1, <2>2
  <2>6. ASSUME NEW j \in 1 .. n + 1
        PROVE  Kept(s(j - 1), lines[j]) <=> \A k \in 1 .. Len(G) : ~ In(G[k], j)
    <3>1. CASE j \in 1 .. n
      BY <2>4, <2>5, <3>1
    <3>2. CASE j = n + 1
      <4>1. j - 1 = n
        BY <2>1, <3>2
      <4> QED BY <2>2, <2>4, <3>2, <4>1
    <3> QED BY <2>1, <3>1, <3>2
  <2> QED BY <2>2, <2>4, <2>6
<1> HIDE DEF T
<1>5. T = Nat
  <2>1. T \subseteq Nat
    BY DEF T
  <2> QED BY <1>3, <1>4, <2>1, SetInduction
<1>6. m \in T /\ m <= L
  BY <1>1, <1>5
<1> QED BY <1>6 DEF T

(* The lines of a closed snippet that remove_patch empties.                *)
LEMMA WholeIn ==
  ASSUME NEW n \in Nat, NEW t \in Snippet, Whole(t, n), NEW j \in Nat
  PROVE  In(t, j) <=> j \in Emptied(t)
<1>1. t.start \in Nat /\ t.change \in Nat /\ t.end \in Nat
  BY DEF Snippet
<1>2. /\ 1 <= t.start /\ t.start < t.end
      /\ t.change # 0 => t.start < t.change /\ t.change < t.end
  BY DEF Whole
<1>3. CASE t.change = 0
  BY <1>1, <1>2, <1>3 DEF In, Emptied, PatchOf
<1>4. CASE t.change # 0
  BY <1>1, <1>2, <1>4 DEF In, Emptied, PatchOf
<1> QED BY <1>3, <1>4

(* What checkout leaves of a plain file is what the preprocessor does.     *)
THEOREM RemovalIsUnpatched ==
  ASSUME NEW lines \in Seq(LineKinds), Plain(lines)
  PROVE  RemovePatch(lines) = Unpatched(lines)
<1> DEFINE L == Len(lines)
<1>1. L \in Nat /\ L \in 0 .. L /\ DOMAIN lines = 1 .. L
  OBVIOUS
<1>2. PICK F, S : F = Extract(lines) /\ S = Nesting(lines)
  OBVIOUS
<1>3. /\ Agree(lines, F, S[L], L)
      /\ \A j \in 1 .. L : Kept(S[j - 1], lines[j]) <=> \A k \in 1 .. Len(F) : ~ In(F[k], j)
  BY <1>1, <1>2, AgreeAlways DEF Extract
<1>4. F \in Seq(Snippet) /\ Len(F) \in Nat /\ DOMAIN F = 1 .. Len(F) /\ \A k \in 1 .. Len(F) : F[k] \in Snippet
  BY <1>3 DEF Agree
<1>5. \A k \in 1 .. Len(F) : Whole(F[k], L)
  <2> SUFFICES ASSUME NEW k \in 1 .. Len(F), Open(lines, F[k], L) PROVE FALSE
    BY <1>3 DEF Agree
  <2>1. L < Len(lines)
    BY <1>1, <1>4, OpenEnds
  <2> QED BY <1>1, <2>1
<1> DEFINE gone == UNION {Emptied(F[k]) : k \in DOMAIN F}
<1>6. ASSUME NEW j \in 1 .. L
      PROVE  j \in gone <=> ~ Kept(S[j - 1], lines[j])
  <2>1. \A k \in 1 .. Len(F) : In(F[k], j) <=> j \in Emptied(F[k])
    BY <1>1, <1>4, <1>5, WholeIn
  <2>2. j \in gone <=> \E k \in 1 .. Len(F) : j \in Emptied(F[k])
    BY <1>4
  <2> QED BY <1>3, <2>1, <2>2
<1>7. RemovePatch(lines) = [j \in 1 .. L |-> IF j \in gone THEN "blank" ELSE lines[j]]
  BY <1>1, <1>2 DEF RemovePatch
<1>8. Unpatched(lines) = [j \in 1 .. L |-> IF Kept(S[j - 1], lines[j]) THEN lines[j] ELSE "blank"]
  BY <1>1, <1>2 DEF Unpatched, Kept
<1> HIDE DEF gone
<1> QED BY <1>6, <1>7, <1>8

(* A file with no patch is left as it is.                                  *)
LEMMA NothingToRemove ==
  ASSUME NEW lines \in Seq(LineKinds), ~ HasSnippets(lines)
  PROVE  RemovePatch(lines) = lines
<1>1. Extract(lines) = <<>>
  BY DEF HasSnippets
<1>2. UNION {Emptied(Extract(lines)[k]) : k \in DOMAIN Extract(lines)} = {}
  BY <1>1
<1> QED BY <1>2 DEF RemovePatch

-----------------------------------------------------------------------------
(* The inductive invariant. While nothing was raced it says who may run    *)
(* with whom, what each command has made or found, and when a file may be  *)
(* torn.                                                                   *)

(* Where a command of each kind may be.                                    *)
Runs(p, k) == Running(p) /\ kind[p] = k
Writing    == {"get", "list", "openpatch", "dumppatch"}
PlaceOf(p) ==
  /\ Runs(p, "init") => pc[p] \in Writing \cup {"openmeta", "dumpmeta"} /\ then[p] = "openpatch"
  /\ Runs(p, "save") => pc[p] \in {"openmeta", "dumpmeta"}
  /\ Runs(p, "clean") => pc[p] \in {"unlink", "rmpatch", "rmmanifest"}
  /\ Runs(p, "manifest") => pc[p] \in {"get", "list"} /\ then[p] = "done"
  /\ Runs(p, "patch") => pc[p] \in Writing /\ then[p] = "openpatch"
  /\ Runs(p, "checkout") =>
       /\ \/ pc[p] \in {"get", "list"} /\ then[p] \in {"copy", "remove"}
          \/ pc[p] \in {"copy", "remove"} /\ then[p] = pc[p]
       /\ then[p] = "remove" => work[p] = src[Cur(p)]
Place == \A p \in Procs : PlaceOf(p)

(* No two commands in conflict run together.                               *)
Alone == \A p, q \in Procs : p # q /\ Running(p) /\ Running(q) => ~ Conflict(kind[p], kind[q])

(* The challenge has its manifest, or who wrote it stopped; and its patch. *)
Listed(c) == manifest[c] = "whole" \/ (c \in unlisted /\ manifest[c] = Torn)
Backed(c) == patch[c] = "whole" /\ Listed(c)

(* init.py has written the files of the challenges it is past.             *)
MakingOf(p) ==
  /\ DOMAIN doc[p] = Before(IF pc[p] \in {"openmeta", "dumpmeta"} THEN at[p] ELSE at[p] - 1)
  /\ \A c \in DOMAIN doc[p] : Backed(c)
  /\ pc[p] = "list" => manifest[Cur(p)] = Torn
  /\ pc[p] \in {"openpatch", "dumppatch"} => Listed(Cur(p))
  /\ Readable => DOMAIN metadata \subseteq Before(at[p] - 1)
  /\ at[p] = 1 /\ pc[p] # "dumpmeta" => metadata = Absent
Making == \A p \in Procs : Runs(p, "init") => MakingOf(p)

(* A command on one challenge finds its files, and init.py is past it.     *)
Using == \A p \in Procs : Running(p) /\ kind[p] \in OnOne =>
  /\ kind[p] # "patch" /\ pc[p] # "list" /\ Backed(Cur(p)) /\ metadata # Absent
  /\ \A q \in Procs : Runs(q, "init") => at[p] < at[q]

(* A command that saves has all the entries there were.                    *)
Saving == \A p \in Procs : Runs(p, "save") =>
  /\ metadata # Absent /\ \A c \in DOMAIN doc[p] : Backed(c)
  /\ Firsts(DOMAIN doc[p]) /\ (partial \/ DOMAIN doc[p] = Challenges)

(* Clean deletes the metadata before any file it speaks of.                *)
Cleaning == \A p \in Procs : pc[p] \in {"rmpatch", "rmmanifest"} => metadata = Absent

(* A file is torn while someone writes it, or when he was stopped.         *)
Opened ==
  /\ orphan = {}
  /\ \A c \in Challenges : manifest[c] = Torn =>
       c \in unlisted \/ \E p \in Procs : pc[p] = "list" /\ Cur(p) = c
  /\ \A p, q \in Procs : pc[p] = "dumpmeta" /\ pc[q] = "dumpmeta" => p = q
  /\ \A p \in Procs : pc[p] = "dumpmeta" => metadata = Torn
  /\ metadata = Torn => partial \/ \E p \in Procs : pc[p] = "dumpmeta"

(* The metadata has the challenges whose files are written, and when       *)
(* init.py is through all of them.                                         *)
Full ==
  /\ Readable => Firsts(DOMAIN metadata) /\ \A c \in DOMAIN metadata : Backed(c)
  /\ Readable /\ (\A p \in Procs : ~ Runs(p, "init")) => partial \/ DOMAIN metadata = Challenges

(* What a checkout that ended well holds.                                  *)
Removed == \A p \in Procs :
  pc[p] = "done" /\ kind[p] = "checkout" /\ Cur(p) \notin unlisted =>
    work[p] = RemovePatch(src[Cur(p)])

(* All this, and all of it with the types.                                 *)
Quiet == Alone /\ Making /\ Using /\ Saving /\ Cleaning /\ Opened /\ Full /\ Removed
Calm == ~ raced => Quiet
Inv == TypeOK /\ Place /\ Calm

-----------------------------------------------------------------------------
(* Types, and facts about the constants.                                   *)

(* The entry of a file is one.                                             *)
LEMMA EntryTyped ==
  ASSUME NEW lines \in Seq(LineKinds)
  PROVE  NewEntry(lines) \in Entry
<1> DEFINE found  == Found(lines)
           inside == {n \in DOMAIN lines : IsOpen(found[n - 1]) /\ lines[n] \notin {"else", "endif"}}
           behind == {n \in inside : Last(found[n - 1]).change # 0}
<1>1. Counts(lines) = [patch |-> Cardinality(inside \ behind), vuln |-> Cardinality(behind)]
  BY DEF Counts
<1>2. inside \ behind \subseteq 1 .. Len(lines) /\ behind \subseteq 1 .. Len(lines)
  OBVIOUS
<1> HIDE DEF inside, behind
<1>3. IsFiniteSet(1 .. Len(lines))
  <2>1. 1 \in Int /\ Len(lines) \in Int
    OBVIOUS
  <2> QED BY <2>1, FS_Interval
<1>4. Cardinality(inside \ behind) \in Nat /\ Cardinality(behind) \in Nat
  BY <1>2, <1>3, FS_Subset, FS_CardinalityType
<1>5. Counts(lines).patch \in Nat /\ Counts(lines).vuln \in Nat
  BY <1>1, <1>4
<1> QED BY <1>5 DEF NewEntry, Entry

(* Removing the patches leaves a file.                                     *)
LEMMA RemovalTyped ==
  ASSUME NEW lines \in Seq(LineKinds)
  PROVE  RemovePatch(lines) \in Seq(LineKinds)
<1> DEFINE gone == UNION {Emptied(Extract(lines)[k]) : k \in DOMAIN Extract(lines)}
<1>1. RemovePatch(lines) = [n \in 1 .. Len(lines) |-> IF n \in gone THEN "blank" ELSE lines[n]]
  BY DEF RemovePatch
<1>2. \A n \in 1 .. Len(lines) : lines[n] \in LineKinds /\ "blank" \in LineKinds
  BY DEF LineKinds
<1> HIDE DEF gone
<1> QED BY <1>1, <1>2

(* The challenges are those listed, each once.                             *)
LEMMA OrderFacts ==
  /\ Len(Order) \in Nat \ {0} /\ DOMAIN Order = 1 .. Len(Order)
  /\ \A n \in 1 .. Len(Order) : Order[n] \in Challenges
  /\ \A j, k \in 1 .. Len(Order) : Order[j] = Order[k] => j = k
  /\ \A c \in Challenges : \E n \in 1 .. Len(Order) : Order[n] = c
BY BenchmarkAssumption DEF Challenges

(* With each challenge one more is before.                                 *)
LEMMA BeforeFacts ==
  /\ Before(0) = {} /\ Before(Len(Order)) = Challenges
  /\ \A n \in 1 .. Len(Order) :
       /\ Before(n) = Before(n - 1) \cup {Order[n]} /\ Order[n] \notin Before(n - 1)
       /\ Before(n) \subseteq Challenges /\ Before(n - 1) \subseteq Challenges
       /\ \A m \in 1 .. Len(Order) : Order[m] \in Before(n - 1) <=> m < n
<1>1. Before(0) = {} /\ Before(Len(Order)) = Challenges
  BY OrderFacts DEF Before, Challenges
<1>2. ASSUME NEW n \in 1 .. Len(Order)
      PROVE  /\ Before(n) = Before(n - 1) \cup {Order[n]}
             /\ Before(n) \subseteq Challenges /\ Before(n - 1) \subseteq Challenges
             /\ \A m \in 1 .. Len(Order) : Order[m] \in Before(n - 1) <=> m < n
  <2>1. Before(n) = Before(n - 1) \cup {Order[n]}
    BY OrderFacts DEF Before
  <2>2. Before(n) \subseteq Challenges /\ Before(n - 1) \subseteq Challenges
    BY OrderFacts DEF Before
  <2>3. \A m \in 1 .. Len(Order) : Order[m] \in Before(n - 1) <=> m < n
    BY OrderFacts DEF Before
  <2> QED BY <2>1, <2>2, <2>3
<1> QED BY <1>1, <1>2, OrderFacts

(* The entries are of challenges, and no file is torn or absent and        *)
(* readable.                                                               *)
LEMMA DocFacts ==
  /\ \A d : IsDoc(d) => DOMAIN d \subseteq Challenges /\ d = [c \in DOMAIN d |-> d[c]]
                        /\ \A c \in DOMAIN d : d[c] \in Entry
  /\ \A d : IsDoc(d) => d \notin {Absent, Torn}
<1>1. ASSUME NEW d, IsDoc(d)
      PROVE  DOMAIN d \subseteq Challenges /\ d = [c \in DOMAIN d |-> d[c]]
             /\ \A c \in DOMAIN d : d[c] \in Entry
  <2>1. PICK S \in SUBSET Challenges : d \in [S -> Entry]
    BY <1>1 DEF IsDoc
  <2> QED BY <2>1
<1> QED BY <1>1, BenchmarkAssumption

(* Entries of some challenges can be written.                              *)
LEMMA IsADoc ==
  ASSUME NEW S \in SUBSET Challenges, NEW d \in [S -> Entry]
  PROVE  IsDoc(d)
BY DEF IsDoc

(* Clean goes to the next challenge it cleans, or ends.                    *)
LEMMA CleanFromTyped ==
  ASSUME TypeOK, NEW p \in Procs, NEW from \in Nat, CleanFrom(p, from)
  PROVE  /\ pc' \in [Procs -> Labels] /\ pc'[p] \in {"done", "rmpatch"}
         /\ \A q \in Procs : q # p => pc'[q] = pc[q] /\ at'[q] = at[q]
         /\ at' \in [Procs -> DOMAIN Order]
<1> DEFINE left == {n \in Cleaned(p) : n >= from}
<1>1. pc \in [Procs -> Labels] /\ at \in [Procs -> DOMAIN Order]
  BY DEF TypeOK
<1>2. CASE left = {}
  BY <1>1, <1>2 DEF CleanFrom, Goto, Labels, Ended
<1>3. CASE left # {}
  <2> DEFINE least == CHOOSE n \in left : \A m \in left : n <= m
  <2>1. left \subseteq Nat /\ left \subseteq DOMAIN Order
    BY OrderFacts DEF Cleaned
  <2>2. \E n \in left : \A m \in left : n <= m
    BY <1>3, <2>1, NatMinimum
  <2>3. least \in left
    BY <2>2
  <2>4. least \in DOMAIN Order
    BY <2>1, <2>3
  <2>5. pc' = [pc EXCEPT ![p] = "rmpatch"] /\ at' = [at EXCEPT ![p] = least]
    BY <1>3 DEF CleanFrom, Goto
  <2> HIDE DEF least
  <2> QED BY <1>1, <2>4, <2>5 DEF Labels
<1> QED BY <1>2, <1>3

(* One of the files of each challenge.                                     *)
Files == [Challenges -> {Absent, Torn, "whole"}]

(* TypeOK, variable by variable.                                           *)
LEMMA TypeParts ==
  TypeOK <=>
    /\ src \in [Challenges -> Sources] /\ manifest \in Files /\ patch \in Files
    /\ metadata \in {Absent, Torn} \/ IsDoc(metadata)
    /\ pc \in [Procs -> Labels] /\ kind \in [Procs -> Kinds] /\ then \in [Procs -> Labels]
    /\ at \in [Procs -> DOMAIN Order] /\ orphan \subseteq Procs
    /\ doc = [p \in Procs |-> doc[p]] /\ \A p \in Procs : IsDoc(doc[p])
    /\ work \in [Procs -> {None} \cup Seq(LineKinds)]
    /\ starts \in 0 .. MaxCommands /\ unlisted \subseteq Challenges /\ raced \in BOOLEAN /\ partial \in BOOLEAN
BY DEF TypeOK, Files

(* A command is at a challenge.                                            *)
LEMMA CurTyped ==
  ASSUME TypeOK, NEW p \in Procs
  PROVE  Cur(p) \in Challenges /\ src[Cur(p)] \in Seq(LineKinds) /\ at[p] \in 1 .. Len(Order)
<1>1. at[p] \in 1 .. Len(Order)
  BY OrderFacts DEF TypeOK
<1>2. Cur(p) \in Challenges
  BY <1>1, OrderFacts DEF Cur
<1> QED BY <1>1, <1>2, BenchmarkAssumption DEF TypeOK

(* Closing a file gives a file its state.                                  *)
LEMMA ClosesTyped ==
  ASSUME TypeOK, NEW p \in Procs, NEW file \in Files
  PROVE  Closes(p, file) \in Files
BY CurTyped DEF Closes, Files

(* The types hold at first,                                                *)
LEMMA InitTyped == Init => TypeOK
<1> SUFFICES ASSUME Init PROVE TypeOK
  OBVIOUS
<1>1. manifest \in Files /\ patch \in Files
  BY DEF Init, Files
<1>2. IsDoc(<<>>)
  <2>1. <<>> \in [{} -> Entry]
    OBVIOUS
  <2> QED BY <2>1, IsADoc
<1>3. src \in [Challenges -> Sources] /\ metadata = Absent
  BY DEF Init
<1>4. pc \in [Procs -> Labels] /\ kind \in [Procs -> Kinds] /\ then \in [Procs -> Labels]
  BY DEF Init, Labels, Kinds, OnOne, Ended
<1>5. at \in [Procs -> DOMAIN Order] /\ orphan \subseteq Procs
  BY OrderFacts DEF Init
<1>6. doc = [p \in Procs |-> doc[p]] /\ \A p \in Procs : IsDoc(doc[p])
  BY <1>2 DEF Init
<1>7. work \in [Procs -> {None} \cup Seq(LineKinds)]
  BY DEF Init
<1>8. starts \in 0 .. MaxCommands
  BY BenchmarkAssumption DEF Init
<1>9. unlisted \subseteq Challenges /\ raced \in BOOLEAN /\ partial \in BOOLEAN
  BY DEF Init
<1> QED BY <1>1, <1>3, <1>4, <1>5, <1>6, <1>7, <1>8, <1>9, TypeParts

(* after a command has started,                                            *)
LEMMA StartsTyped ==
  ASSUME TypeOK, NEW p \in Procs, NEW k \in Kinds, Starts(p, k)
  PROVE  /\ starts' \in 0 .. MaxCommands /\ raced' \in BOOLEAN
         /\ unlisted' \subseteq Challenges /\ partial' \in BOOLEAN
         /\ kind' \in [Procs -> Kinds] /\ work' \in [Procs -> {None} \cup Seq(LineKinds)]
         /\ src' \in [Challenges -> Sources] /\ manifest' \in Files /\ patch' \in Files
         /\ metadata' \in {Absent, Torn} \/ IsDoc(metadata')
         /\ orphan' \subseteq Procs
<1>1. starts' \in 0 .. MaxCommands
  BY BenchmarkAssumption, TypeParts DEF Starts
<1>2. raced' \in BOOLEAN
  BY TypeParts DEF Starts
<1>3. kind' \in [Procs -> Kinds]
  BY TypeParts DEF Starts
<1>4. work' \in [Procs -> {None} \cup Seq(LineKinds)]
  <2>1. None \in {None} \cup Seq(LineKinds)
    OBVIOUS
  <2> QED BY <2>1, TypeParts DEF Starts
<1>5. UNCHANGED <<src, manifest, patch, metadata, orphan, unlisted, partial>>
  BY DEF Starts, derived
<1> QED BY <1>1, <1>2, <1>3, <1>4, <1>5, TypeParts

(* has been stopped,                                                       *)
LEMMA StopsTyped ==
  ASSUME TypeOK, NEW p \in Procs, NEW l \in Ended, Stops(p, l)
  PROVE  /\ pc' \in [Procs -> Labels] /\ orphan' \subseteq Procs
         /\ unlisted' \subseteq Challenges /\ partial' \in BOOLEAN
<1>1. pc' \in [Procs -> Labels]
  BY TypeParts DEF Stops, Goto, Labels
<1>2. orphan' \subseteq Procs /\ unlisted' \subseteq Challenges
  BY TypeParts, CurTyped DEF Stops
<1>3. partial' \in BOOLEAN
  BY TypeParts DEF Stops
<1> QED BY <1>1, <1>2, <1>3

(* and after every step.                                                   *)
LEMMA TypeStep ==
  ASSUME TypeOK, Place, [Next]_vars
  PROVE  TypeOK'
<1>1. CASE UNCHANGED vars
  BY <1>1 DEF vars, derived, local, out, ghost, TypeOK, IsDoc
<1>2. ASSUME NEW p \in Procs,
             \/ StartInit(p) \/ Refused(p) \/ StartClean(p) \/ StartSave(p)
             \/ \E k \in OnOne : StartOn(p, k)
      PROVE  TypeOK'
  <2> SUFFICES /\ pc' \in [Procs -> Labels] /\ then' \in [Procs -> Labels]
               /\ at' \in [Procs -> DOMAIN Order]
               /\ doc' = [q \in Procs |-> doc'[q]] /\ \A q \in Procs : IsDoc(doc'[q])
    <3>1. PICK k \in Kinds : Starts(p, k)
      BY <1>2 DEF StartInit, Refused, StartClean, StartSave, StartOn, Kinds
    <3> QED BY <3>1, StartsTyped, TypeParts DEF TypeOK, Files
  <2>1. CASE StartInit(p)
    <3>1. IsDoc(<<>>)
      <4>1. <<>> \in [{} -> Entry]
        OBVIOUS
      <4> QED BY <4>1, IsADoc
    <3>2. 1 \in DOMAIN Order /\ {"already", "get", "openpatch"} \subseteq Labels
      BY OrderFacts DEF Labels, Ended
    <3> QED BY <2>1, <3>1, <3>2, TypeParts DEF StartInit, Goto
  <2>2. CASE Refused(p)
    BY <2>2, TypeParts DEF Refused, Goto, Labels, Ended
  <2>3. CASE StartClean(p)
    <3>1. IsDoc(metadata)
      BY <2>3, TypeParts DEF StartClean, Readable
    <3> QED BY <2>3, <3>1, TypeParts DEF StartClean, Goto, Labels
  <2>4. CASE StartSave(p)
    <3>1. IsDoc(metadata)
      BY <2>4, TypeParts DEF StartSave, Readable
    <3>2. PICK S : doc' = [doc EXCEPT ![p] = [c \in DOMAIN metadata |->
                 IF c \in S THEN [metadata[c] EXCEPT !.excluded = TRUE] ELSE metadata[c]]]
      BY <2>4 DEF StartSave
    <3> DEFINE d == [c \in DOMAIN metadata |->
                 IF c \in S THEN [metadata[c] EXCEPT !.excluded = TRUE] ELSE metadata[c]]
    <3>3. IsDoc(d)
      <4>1. \A c \in DOMAIN metadata : d[c] \in Entry
        <5> SUFFICES ASSUME NEW c \in DOMAIN metadata PROVE d[c] \in Entry
          OBVIOUS
        <5>1. PICK e \in Entry : e = metadata[c]
          BY <3>1, DocFacts
        <5>2. [e EXCEPT !.excluded = TRUE] \in Entry
          BY DEF Entry
        <5> QED BY <5>1, <5>2
      <4>2. DOMAIN metadata \in SUBSET Challenges
        BY <3>1, DocFacts
      <4>3. d \in [DOMAIN metadata -> Entry]
        BY <4>1
      <4> HIDE DEF d
      <4> QED BY <4>2, <4>3, IsADoc
    <3>4. doc' = [doc EXCEPT ![p] = d]
      BY <3>2
    <3> HIDE DEF d
    <3> QED BY <2>4, <3>3, <3>4, TypeParts DEF StartSave, Goto, Labels
  <2>5. ASSUME NEW k \in OnOne, StartOn(p, k)
        PROVE  /\ pc' \in [Procs -> Labels] /\ then' \in [Procs -> Labels]
               /\ at' \in [Procs -> DOMAIN Order]
               /\ doc' = [q \in Procs |-> doc'[q]] /\ \A q \in Procs : IsDoc(doc'[q])
    <3>1. pc' \in [Procs -> Labels]
      BY <2>5, TypeParts DEF StartOn, Goto, Labels, Ended
    <3>2. then' \in [Procs -> Labels]
      <4>1. PICK l : l \in {"done", "openpatch", "copy"} /\ then' = [then EXCEPT ![p] = l]
        BY <2>5 DEF StartOn, OnOne
      <4> QED BY <4>1, TypeParts DEF Labels, Ended
    <3>3. UNCHANGED doc /\ \E n \in DOMAIN Order : at' = [at EXCEPT ![p] = n]
      BY <2>5 DEF StartOn
    <3>4. at' \in [Procs -> DOMAIN Order]
      BY <3>3, TypeParts
    <3> QED BY <3>1, <3>2, <3>3, <3>4, TypeParts
  <2> QED BY <1>2, <2>1, <2>2, <2>3, <2>4, <2>5
<1>3. ASSUME NEW p \in Procs, GetManifest(p) PROVE TypeOK'
  <2>1. pc' \in [Procs -> Labels]
    BY <1>3, TypeParts DEF GetManifest, Goto, Labels
  <2>2. manifest' \in Files
    BY <1>3, TypeParts, CurTyped DEF GetManifest, Files
  <2>3. UNCHANGED <<src, patch, metadata, kind, then, at, doc, orphan, work, starts, raced, unlisted, partial>>
    BY <1>3 DEF GetManifest, local, out, ghost
  <2> QED BY <2>1, <2>2, <2>3, TypeParts DEF TypeOK, Files
<1>4. ASSUME NEW p \in Procs, ListFiles(p) PROVE TypeOK'
  <2>1. pc' \in [Procs -> Labels] /\ orphan' \subseteq Procs
    BY <1>4, TypeParts DEF ListFiles, Goto
  <2>2. manifest' \in Files
    BY <1>4, TypeParts, ClosesTyped DEF ListFiles
  <2>3. UNCHANGED <<src, patch, metadata, kind, then, at, doc, work, starts, raced, unlisted, partial>>
    BY <1>4 DEF ListFiles, out, ghost
  <2> QED BY <2>1, <2>2, <2>3, TypeParts DEF TypeOK, Files
<1>5. ASSUME NEW p \in Procs, OpenPatch(p) PROVE TypeOK'
  <2>1. pc' \in [Procs -> Labels] /\ patch' \in Files
    BY <1>5, TypeParts, CurTyped DEF OpenPatch, Goto, Labels, Files
  <2>2. UNCHANGED <<src, manifest, metadata, kind, then, at, doc, orphan, work, starts, raced, unlisted, partial>>
    BY <1>5 DEF OpenPatch, local, out, ghost
  <2> QED BY <2>1, <2>2, TypeParts DEF TypeOK, Files
<1>6. ASSUME NEW p \in Procs, DumpPatch(p) PROVE TypeOK'
  <2>1. pc' \in [Procs -> Labels] /\ orphan' \subseteq Procs
    BY <1>6, TypeParts DEF DumpPatch, Goto, Labels, Ended
  <2>2. patch' \in Files
    BY <1>6, TypeParts, ClosesTyped DEF DumpPatch
  <2>3. doc' = [q \in Procs |-> doc'[q]] /\ \A q \in Procs : IsDoc(doc'[q])
    <3> DEFINE S == DOMAIN doc[p] \cup {Cur(p)}
               d == [c \in S |-> IF c = Cur(p) THEN NewEntry(src[c]) ELSE doc[p][c]]
    <3>1. doc' = doc \/ doc' = [doc EXCEPT ![p] = d]
      BY <1>6, TypeParts DEF DumpPatch
    <3>2. IsDoc(doc[p]) /\ NewEntry(src[Cur(p)]) \in Entry
      BY TypeParts, CurTyped, EntryTyped
    <3>3. S \in SUBSET Challenges /\ d \in [S -> Entry]
      BY <3>2, CurTyped, DocFacts
    <3>4. IsDoc(d)
      <4> HIDE DEF S, d
      <4> QED BY <3>3, IsADoc
    <3> HIDE DEF d
    <3> QED BY <3>1, <3>4, TypeParts
  <2>4. UNCHANGED <<src, manifest, metadata, kind, then, at, work, starts, raced, unlisted, partial>>
    BY <1>6 DEF DumpPatch, out, ghost
  <2> QED BY <2>1, <2>2, <2>3, <2>4, TypeParts DEF TypeOK, Files
<1>7. ASSUME NEW p \in Procs, OpenMeta(p) PROVE TypeOK'
  <2>1. pc' \in [Procs -> Labels] /\ metadata' = Torn
    BY <1>7, TypeParts DEF OpenMeta, Goto, Labels
  <2>2. UNCHANGED <<src, manifest, patch, kind, then, at, doc, orphan, work, starts, raced, unlisted, partial>>
    BY <1>7 DEF OpenMeta, local, out, ghost
  <2> QED BY <2>1, <2>2, TypeParts DEF TypeOK, Files
<1>8. ASSUME NEW p \in Procs, DumpMeta(p) PROVE TypeOK'
  <2>1. pc' \in [Procs -> Labels] /\ orphan' \subseteq Procs
    BY <1>8, TypeParts DEF DumpMeta, Goto, Labels, Ended
  <2>2. at' \in [Procs -> DOMAIN Order]
    <3>1. at[p] # Len(Order) => at[p] + 1 \in DOMAIN Order
      BY CurTyped, OrderFacts
    <3> QED BY <1>8, <3>1, TypeParts DEF DumpMeta
  <2>3. metadata' \in {Absent, Torn} \/ IsDoc(metadata')
    BY <1>8, TypeParts DEF DumpMeta, Written
  <2>4. UNCHANGED <<src, manifest, patch, kind, then, doc, work, starts, raced, unlisted, partial>>
    BY <1>8 DEF DumpMeta, out, ghost
  <2> QED BY <2>1, <2>2, <2>3, <2>4, TypeParts DEF TypeOK, Files
<1>9. ASSUME NEW p \in Procs, Copy(p) PROVE TypeOK'
  <2>1. pc' \in [Procs -> Labels] /\ then' \in [Procs -> Labels]
    BY <1>9, TypeParts DEF Copy, Goto, Labels
  <2>2. work' \in [Procs -> {None} \cup Seq(LineKinds)]
    BY <1>9, TypeParts, CurTyped DEF Copy
  <2>3. UNCHANGED <<src, manifest, patch, metadata, kind, at, doc, orphan, starts, raced, unlisted, partial>>
    BY <1>9 DEF Copy, derived, ghost
  <2> QED BY <2>1, <2>2, <2>3, TypeParts DEF TypeOK, Files
<1>10. ASSUME NEW p \in Procs, RemovePatches(p) PROVE TypeOK'
  <2>1. pc' \in [Procs -> Labels]
    BY <1>10, TypeParts DEF RemovePatches, Goto, Labels, Ended
  <2>2. work' \in [Procs -> {None} \cup Seq(LineKinds)]
    <3>1. CASE work' = work
      BY <3>1, TypeParts
    <3>2. CASE work' # work
      <4>1. work' = [work EXCEPT ![p] = RemovePatch(work[p])]
        BY <1>10, <3>2 DEF RemovePatches, out
      <4>2. work[p] = src[Cur(p)]
        BY <1>10, TypeParts DEF RemovePatches, Place, Runs, Running, Ended, PlaceOf, Kinds, OnOne,
           Writing
      <4>3. RemovePatch(work[p]) \in Seq(LineKinds)
        BY <4>2, CurTyped, RemovalTyped
      <4> QED BY <4>1, <4>3, TypeParts
    <3> QED BY <3>1, <3>2
  <2>3. UNCHANGED <<src, manifest, patch, metadata, kind, then, at, doc, orphan, starts, raced, unlisted, partial>>
    BY <1>10 DEF RemovePatches, derived, local, ghost
  <2> QED BY <2>1, <2>2, <2>3, TypeParts DEF TypeOK, Files
<1>11. ASSUME NEW p \in Procs, Raises(p) PROVE TypeOK'
  <2>1. /\ pc' \in [Procs -> Labels] /\ orphan' \subseteq Procs
        /\ unlisted' \subseteq Challenges /\ partial' \in BOOLEAN
    BY <1>11, TypeParts, CurTyped, StopsTyped DEF Raises, Ended
  <2>2. manifest' \in Files
    BY <1>11, TypeParts, ClosesTyped DEF Raises
  <2>3. metadata' \in {Absent, Torn} \/ IsDoc(metadata')
    BY <1>11, TypeParts DEF Raises
  <2>4. UNCHANGED <<src, patch, kind, then, at, doc, work, starts, raced>>
    BY <1>11 DEF Raises, Stops, out
  <2> QED BY <2>1, <2>2, <2>3, <2>4, TypeParts DEF TypeOK, Files
<1>12. ASSUME NEW p \in Procs, UnlinkMetadata(p) PROVE TypeOK'
  <2>1. metadata' \in {Absent, Torn} \/ IsDoc(metadata')
    BY <1>12, TypeParts DEF UnlinkMetadata
  <2>2. orphan' \subseteq Procs
    BY <1>12, TypeParts DEF UnlinkMetadata, Orphans
  <2>3. pc' \in [Procs -> Labels] /\ at' \in [Procs -> DOMAIN Order]
    BY <1>12, TypeParts, CleanFromTyped DEF UnlinkMetadata, Goto, Labels, Ended
  <2>4. UNCHANGED <<src, manifest, patch, kind, then, doc, work, starts, raced, unlisted>>
    BY <1>12 DEF UnlinkMetadata, out
  <2>5. partial' \in BOOLEAN
    BY <1>12, TypeParts DEF UnlinkMetadata
  <2> QED BY <2>1, <2>2, <2>3, <2>4, <2>5, TypeParts DEF TypeOK, Files
<1>13. ASSUME NEW p \in Procs, UnlinkPatch(p) PROVE TypeOK'
  <2>1. pc' \in [Procs -> Labels] /\ patch' \in Files /\ orphan' \subseteq Procs
    BY <1>13, TypeParts, CurTyped DEF UnlinkPatch, Goto, Labels, Files, Orphans
  <2>2. UNCHANGED <<src, manifest, metadata, kind, then, at, doc, work, starts, raced, unlisted, partial>>
    BY <1>13 DEF UnlinkPatch, out, ghost
  <2> QED BY <2>1, <2>2, TypeParts DEF TypeOK, Files
<1>14. ASSUME NEW p \in Procs, UnlinkManifest(p) PROVE TypeOK'
  <2>1. manifest' \in Files /\ orphan' \subseteq Procs
    BY <1>14, TypeParts, CurTyped DEF UnlinkManifest, Files, Orphans
  <2>2. pc' \in [Procs -> Labels] /\ at' \in [Procs -> DOMAIN Order]
    <3>1. at[p] + 1 \in Nat
      BY CurTyped
    <3> QED BY <1>14, <3>1, CleanFromTyped DEF UnlinkManifest
  <2>3. UNCHANGED <<src, patch, metadata, kind, then, doc, work, starts, raced, unlisted, partial>>
    BY <1>14 DEF UnlinkManifest, out, ghost
  <2> QED BY <2>1, <2>2, <2>3, TypeParts DEF TypeOK, Files
<1>15. ASSUME NEW p \in Procs, Kill(p) PROVE TypeOK'
  <2>1. /\ pc' \in [Procs -> Labels] /\ orphan' \subseteq Procs
        /\ unlisted' \subseteq Challenges /\ partial' \in BOOLEAN
    BY <1>15, TypeParts, CurTyped, StopsTyped DEF Kill, Ended
  <2>2. UNCHANGED <<src, manifest, patch, metadata, kind, then, at, doc, work, starts, raced>>
    BY <1>15 DEF Kill, Stops, out
  <2> QED BY <2>1, <2>2, TypeParts DEF TypeOK, Files
<1> QED BY <1>1, <1>2, <1>3, <1>4, <1>5, <1>6, <1>7, <1>8, <1>9, <1>10, <1>11, <1>12, <1>13,
           <1>14, <1>15 DEF Next

-----------------------------------------------------------------------------
(* Where a command of each kind may be.                                    *)

(* A step of another leaves a command where it is.                         *)
LEMMA PlaceFrame ==
  ASSUME NEW q \in Procs, PlaceOf(q), src' = src,
         UNCHANGED <<pc[q], kind[q], then[q], at[q], work[q]>>
  PROVE  PlaceOf(q)'
BY DEF PlaceOf, Runs, Running, Cur

(* Every command stays in its place, action by action.                     *)
LEMMA PlaceStep ==
  ASSUME TypeOK, Place, [Next]_vars
  PROVE  Place'
<1>1. CASE UNCHANGED vars
  BY <1>1 DEF vars, derived, local, out, ghost, Place, PlaceOf, Runs, Running, Cur
<1>2. ASSUME NEW p \in Procs, StartInit(p) PROVE Place'
  <2>1. src' = src /\ \A q \in Procs : q # p => UNCHANGED <<pc[q], kind[q], then[q], at[q], work[q]>>
    BY <1>2, TypeParts DEF StartInit, Starts, Goto, derived
  <2>2. PlaceOf(p)'
    BY <1>2, TypeParts DEF StartInit, Starts, Goto, derived, Place, PlaceOf, Runs, Running, Ended,
       Writing, Cur
  <2> QED BY <2>1, <2>2, PlaceFrame DEF Place
<1>3. ASSUME NEW p \in Procs, Refused(p) PROVE Place'
  <2>1. src' = src /\ \A q \in Procs : q # p => UNCHANGED <<pc[q], kind[q], then[q], at[q], work[q]>>
    BY <1>3 DEF Refused, Starts, Goto, derived
  <2>2. PlaceOf(p)'
    BY <1>3 DEF Refused, Starts, Goto, derived, Place, PlaceOf, Runs, Running, Ended, Writing,
       OnOne, Kinds, Cur
  <2> QED BY <2>1, <2>2, PlaceFrame DEF Place
<1>4. ASSUME NEW p \in Procs, StartClean(p) PROVE Place'
  <2>1. src' = src /\ \A q \in Procs : q # p => UNCHANGED <<pc[q], kind[q], then[q], at[q], work[q]>>
    BY <1>4 DEF StartClean, Starts, Goto, derived
  <2>2. PlaceOf(p)'
    BY <1>4, TypeParts DEF StartClean, Starts, Goto, derived, Place, PlaceOf, Runs, Running,
       Ended, Writing, Cur
  <2> QED BY <2>1, <2>2, PlaceFrame DEF Place
<1>5. ASSUME NEW p \in Procs, StartSave(p) PROVE Place'
  <2>1. src' = src /\ \A q \in Procs : q # p => UNCHANGED <<pc[q], kind[q], then[q], at[q], work[q]>>
    BY <1>5 DEF StartSave, Starts, Goto, derived
  <2>2. PlaceOf(p)'
    BY <1>5, TypeParts DEF StartSave, Starts, Goto, derived, Place, PlaceOf, Runs, Running, Ended,
       Writing, Cur
  <2> QED BY <2>1, <2>2, PlaceFrame DEF Place
<1>6. ASSUME NEW p \in Procs, \E k \in OnOne : StartOn(p, k) PROVE Place'
  <2>1. src' = src /\ \A q \in Procs : q # p => UNCHANGED <<pc[q], kind[q], then[q], at[q], work[q]>>
    BY <1>6 DEF StartOn, Starts, Goto, derived
  <2>2. PlaceOf(p)'
    BY <1>6, TypeParts DEF StartOn, Starts, Goto, derived, Place, PlaceOf, Runs, Running, Ended,
       Writing, OnOne, Kinds, Cur
  <2> QED BY <2>1, <2>2, PlaceFrame DEF Place
<1>7. ASSUME NEW p \in Procs, GetManifest(p) PROVE Place'
  <2>1. src' = src /\ \A q \in Procs : q # p => UNCHANGED <<pc[q], kind[q], then[q], at[q], work[q]>>
    BY <1>7, TypeParts DEF GetManifest, Goto, local, out, ghost
  <2>2. PlaceOf(p)'
    BY <1>7, TypeParts DEF GetManifest, Goto, local, out, ghost, Place, PlaceOf, Runs, Running,
       Ended, Writing, Cur
  <2> QED BY <2>1, <2>2, PlaceFrame DEF Place
<1>8. ASSUME NEW p \in Procs, ListFiles(p) PROVE Place'
  <2>1. src' = src /\ \A q \in Procs : q # p => UNCHANGED <<pc[q], kind[q], then[q], at[q], work[q]>>
    BY <1>8 DEF ListFiles, Goto, out, ghost
  <2>2. PlaceOf(p)'
    BY <1>8 DEF ListFiles, Goto, out, ghost, Place, PlaceOf, Runs, Running, Ended, Writing, Cur
  <2> QED BY <2>1, <2>2, PlaceFrame DEF Place
<1>9. ASSUME NEW p \in Procs, OpenPatch(p) PROVE Place'
  <2>1. src' = src /\ \A q \in Procs : q # p => UNCHANGED <<pc[q], kind[q], then[q], at[q], work[q]>>
    BY <1>9 DEF OpenPatch, Goto, local, out, ghost
  <2>2. PlaceOf(p)'
    BY <1>9 DEF OpenPatch, Goto, local, out, ghost, Place, PlaceOf, Runs, Running, Ended, Writing,
       Cur
  <2> QED BY <2>1, <2>2, PlaceFrame DEF Place
<1>10. ASSUME NEW p \in Procs, DumpPatch(p) PROVE Place'
  <2>1. src' = src /\ \A q \in Procs : q # p => UNCHANGED <<pc[q], kind[q], then[q], at[q], work[q]>>
    BY <1>10, TypeParts DEF DumpPatch, Goto, out, ghost
  <2>2. PlaceOf(p)'
    BY <1>10, TypeParts DEF DumpPatch, Goto, out, ghost, Place, PlaceOf, Runs, Running, Ended,
       Writing, Cur
  <2> QED BY <2>1, <2>2, PlaceFrame DEF Place
<1>11. ASSUME NEW p \in Procs, OpenMeta(p) PROVE Place'
  <2>1. src' = src /\ \A q \in Procs : q # p => UNCHANGED <<pc[q], kind[q], then[q], at[q], work[q]>>
    BY <1>11 DEF OpenMeta, Goto, local, out, ghost
  <2>2. PlaceOf(p)'
    BY <1>11 DEF OpenMeta, Goto, local, out, ghost, Place, PlaceOf, Runs, Running, Ended, Writing,
       Cur
  <2> QED BY <2>1, <2>2, PlaceFrame DEF Place
<1>12. ASSUME NEW p \in Procs, DumpMeta(p) PROVE Place'
  <2>1. src' = src /\ \A q \in Procs : q # p => UNCHANGED <<pc[q], kind[q], then[q], at[q], work[q]>>
    BY <1>12, TypeParts DEF DumpMeta, Goto, out, ghost
  <2>2. PlaceOf(p)'
    BY <1>12, TypeParts DEF DumpMeta, Goto, out, ghost, Place, PlaceOf, Runs, Running, Ended,
       Writing, Cur
  <2> QED BY <2>1, <2>2, PlaceFrame DEF Place
<1>13. ASSUME NEW p \in Procs, Copy(p) PROVE Place'
  <2>1. src' = src /\ \A q \in Procs : q # p => UNCHANGED <<pc[q], kind[q], then[q], at[q], work[q]>>
    BY <1>13 DEF Copy, Goto, derived, ghost
  <2>2. PlaceOf(p)'
    BY <1>13, TypeParts DEF Copy, Goto, derived, ghost, Place, PlaceOf, Runs, Running, Ended,
       Writing, Cur
  <2> QED BY <2>1, <2>2, PlaceFrame DEF Place
<1>14. ASSUME NEW p \in Procs, RemovePatches(p) PROVE Place'
  <2>1. src' = src /\ \A q \in Procs : q # p => UNCHANGED <<pc[q], kind[q], then[q], at[q], work[q]>>
    BY <1>14, TypeParts DEF RemovePatches, Goto, derived, local, out, ghost
  <2>2. PlaceOf(p)'
    BY <1>14, TypeParts DEF RemovePatches, Goto, derived, local, out, ghost, Place, PlaceOf, Runs,
       Running, Ended, Writing, Cur
  <2> QED BY <2>1, <2>2, PlaceFrame DEF Place
<1>15. ASSUME NEW p \in Procs, Raises(p) PROVE Place'
  <2>1. src' = src /\ \A q \in Procs : q # p => UNCHANGED <<pc[q], kind[q], then[q], at[q], work[q]>>
    BY <1>15 DEF Raises, Stops, Goto, out
  <2>2. pc'[p] = "raised"
    BY <1>15, TypeParts DEF Raises, Stops, Goto
  <2>3. PlaceOf(p)'
    BY <2>2 DEF PlaceOf, Runs, Running, Ended
  <2> QED BY <2>1, <2>3, PlaceFrame DEF Place
<1>16. ASSUME NEW p \in Procs, UnlinkMetadata(p) PROVE Place'
  <2>1. src' = src /\ \A q \in Procs : q # p => UNCHANGED <<pc[q], kind[q], then[q], at[q], work[q]>>
    BY <1>16, TypeParts, CleanFromTyped, CurTyped DEF UnlinkMetadata, Goto, out, ghost
  <2>2. PlaceOf(p)'
    BY <1>16, TypeParts, CleanFromTyped, CurTyped DEF UnlinkMetadata, Goto, out, ghost, Place,
       PlaceOf, Runs, Running, Ended, Writing, Cur
  <2> QED BY <2>1, <2>2, PlaceFrame DEF Place
<1>17. ASSUME NEW p \in Procs, UnlinkPatch(p) PROVE Place'
  <2>1. src' = src /\ \A q \in Procs : q # p => UNCHANGED <<pc[q], kind[q], then[q], at[q], work[q]>>
    BY <1>17 DEF UnlinkPatch, Goto, out, ghost
  <2>2. PlaceOf(p)'
    BY <1>17 DEF UnlinkPatch, Goto, out, ghost, Place, PlaceOf, Runs, Running, Ended, Writing, Cur
  <2> QED BY <2>1, <2>2, PlaceFrame DEF Place
<1>18. ASSUME NEW p \in Procs, UnlinkManifest(p) PROVE Place'
  <2>1. /\ pc'[p] \in {"done", "rmpatch"}
        /\ \A q \in Procs : q # p => pc'[q] = pc[q] /\ at'[q] = at[q]
    <3>1. at[p] + 1 \in Nat
      BY CurTyped
    <3> QED BY <1>18, <3>1, CleanFromTyped DEF UnlinkManifest
  <2>2. src' = src /\ \A q \in Procs : q # p => UNCHANGED <<pc[q], kind[q], then[q], at[q], work[q]>>
    BY <1>18, <2>1 DEF UnlinkManifest, out
  <2>3. pc[p] = "rmmanifest" /\ kind' = kind
    BY <1>18 DEF UnlinkManifest
  <2>4. kind[p] = "clean"
    BY <2>3, TypeParts DEF Place, PlaceOf, Runs, Running, Ended, Writing, OnOne, Kinds
  <2>5. PlaceOf(p)'
    BY <2>1, <2>3, <2>4 DEF PlaceOf, Runs, Running, Ended
  <2> QED BY <2>2, <2>5, PlaceFrame DEF Place
<1>19. ASSUME NEW p \in Procs, Kill(p) PROVE Place'
  <2>1. src' = src /\ \A q \in Procs : q # p => UNCHANGED <<pc[q], kind[q], then[q], at[q], work[q]>>
    BY <1>19 DEF Kill, Stops, Goto, out
  <2>2. pc'[p] = "killed"
    BY <1>19, TypeParts DEF Kill, Stops, Goto
  <2>3. PlaceOf(p)'
    BY <2>2 DEF PlaceOf, Runs, Running, Ended
  <2> QED BY <2>1, <2>3, PlaceFrame DEF Place
<1> QED BY <1>1, <1>2, <1>3, <1>4, <1>5, <1>6, <1>7, <1>8, <1>9, <1>10, <1>11, <1>12, <1>13,
           <1>14, <1>15, <1>16, <1>17, <1>18, <1>19 DEF Next

-----------------------------------------------------------------------------
(* Every action keeps the commands quiet.                                  *)

(* Who is at a place that only some commands reach.                        *)
LEMMA Labelled ==
  ASSUME TypeOK, Place
  PROVE  \A p \in Procs :
           /\ pc[p] \in {"unlink", "rmpatch", "rmmanifest"} => kind[p] = "clean"
           /\ pc[p] \in {"openmeta", "dumpmeta"} => kind[p] \in {"init", "save"}
           /\ pc[p] \in {"copy", "remove"} => kind[p] = "checkout"
           /\ pc[p] \in {"openpatch", "dumppatch"} => kind[p] \in {"init", "patch"}
           /\ pc[p] \in {"list", "get"} => kind[p] \in {"init", "manifest", "patch", "checkout"}
           /\ Running(p) /\ kind[p] = "init" => then[p] = "openpatch"
BY TypeParts DEF Place, PlaceOf, Runs, Running, Ended, Writing, OnOne, Kinds

(* When nothing was raced, the files are made by init.py alone, and        *)
(* nothing runs beside clean.                                              *)
LEMMA Quietly ==
  ASSUME TypeOK, Place, Quiet
  PROVE  /\ \A p \in Procs : pc[p] \in {"list", "openpatch", "dumppatch"} => kind[p] = "init"
         /\ \A p, q \in Procs : p # q /\ Running(p) /\ Running(q) =>
              /\ kind[p] # "clean"
              /\ kind[p] = "init" => kind[q] \in OnOne
              /\ kind[p] = "save" => kind[q] \in OnOne \cup {"save"}
BY TypeParts, Labelled DEF Quiet, Using, Alone, Conflict, Running, Ended, OnOne, Kinds

(* Nobody starts:                                                          *)
LEMMA AloneFrame ==
  ASSUME Alone, kind' = kind, \A q \in Procs : Running(q)' => Running(q)
  PROVE  Alone'
BY DEF Alone

(* or who starts is in conflict with nobody.                               *)
LEMMA StartsAlone ==
  ASSUME TypeOK, Alone, NEW p \in Procs, NEW k \in Kinds, Starts(p, k), ~ raced',
         \A q \in Procs : q # p => UNCHANGED <<pc[q], kind[q]>>
  PROVE  Alone'
<1>1. \A q \in Procs : Running(q) => ~ Conflict(k, kind[q])
  BY DEF Starts
<1>2. kind'[p] = k
  BY TypeParts DEF Starts
<1>3. \A q \in Procs : q # p => Running(q)' = Running(q) /\ kind'[q] = kind[q]
  BY DEF Running
<1> SUFFICES ASSUME NEW q \in Procs, NEW r \in Procs, q # r, Running(q)', Running(r)'
             PROVE  ~ Conflict(kind[q], kind[r])'
  BY DEF Alone
<1>4. CASE q = p
  BY <1>1, <1>2, <1>3, <1>4 DEF Conflict
<1>5. CASE r = p
  BY <1>1, <1>2, <1>3, <1>5 DEF Conflict
<1>6. CASE q # p /\ r # p
  BY <1>3, <1>6 DEF Alone, Conflict
<1> QED BY <1>4, <1>5, <1>6

(* Nobody opens or closes a file of these.                                 *)
LEMMA OpenedFrame ==
  ASSUME Opened, UNCHANGED <<manifest, metadata, orphan, unlisted, partial>>,
         \A q \in Procs : /\ pc'[q] = "list" <=> pc[q] = "list"
                          /\ pc[q] = "list" => at'[q] = at[q]
                          /\ pc'[q] = "dumpmeta" <=> pc[q] = "dumpmeta"
  PROVE  Opened'
BY DEF Opened, Cur

(* What runs beside init.py, and what it has made.                         *)
LEMMA InitFacts ==
  ASSUME TypeOK, Place, Quiet, NEW p \in Procs, Runs(p, "init")
  PROVE  /\ \A q \in Procs : q # p /\ Running(q) => kind[q] \in OnOne
         /\ \A q \in Procs : q # p => ~ Runs(q, "init") /\ ~ Runs(q, "save")
         /\ MakingOf(p) /\ at[p] \in 1 .. Len(Order) /\ Cur(p) \in Challenges
         /\ Cur(p) \notin Before(at[p] - 1) /\ Before(at[p] - 1) \subseteq Challenges
         /\ Before(at[p]) = Before(at[p] - 1) \cup {Cur(p)} /\ Before(at[p]) \subseteq Challenges
         /\ Readable => DOMAIN metadata \subseteq Before(at[p] - 1)
         /\ \A q \in Procs : Running(q) /\ kind[q] \in OnOne =>
              /\ at[q] < at[p] /\ Cur(q) # Cur(p) /\ Cur(q) \in Challenges
              /\ kind[q] # "patch" /\ pc[q] # "list" /\ Backed(Cur(q)) /\ metadata # Absent
<1>1. \A q \in Procs : q # p /\ Running(q) => kind[q] \in OnOne
  BY Quietly DEF Runs
<1>2. \A q \in Procs : q # p => ~ Runs(q, "init") /\ ~ Runs(q, "save")
  BY <1>1 DEF Runs, OnOne
<1>3. MakingOf(p)
  BY DEF Quiet, Making
<1>4. /\ at[p] \in 1 .. Len(Order) /\ Cur(p) \in Challenges
      /\ Cur(p) \notin Before(at[p] - 1) /\ Before(at[p] - 1) \subseteq Challenges
      /\ Before(at[p]) = Before(at[p] - 1) \cup {Cur(p)} /\ Before(at[p]) \subseteq Challenges
  BY CurTyped, BeforeFacts DEF Cur
<1>5. Readable => DOMAIN metadata \subseteq Before(at[p] - 1)
  BY <1>3 DEF MakingOf
<1>6. ASSUME NEW q \in Procs, Running(q), kind[q] \in OnOne
      PROVE  /\ at[q] < at[p] /\ Cur(q) # Cur(p) /\ Cur(q) \in Challenges
             /\ kind[q] # "patch" /\ pc[q] # "list" /\ Backed(Cur(q)) /\ metadata # Absent
  <2>1. /\ at[q] < at[p] /\ kind[q] # "patch" /\ pc[q] # "list"
        /\ Backed(Cur(q)) /\ metadata # Absent
    BY <1>6 DEF Quiet, Using
  <2>2. Cur(q) # Cur(p) /\ Cur(q) \in Challenges
    BY <2>1, CurTyped, OrderFacts DEF Cur
  <2> QED BY <2>1, <2>2
<1> QED BY <1>1, <1>2, <1>3, <1>4, <1>5, <1>6

(* What a step of init.py on its challenge leaves to the other commands.   *)
LEMMA InitStep ==
  ASSUME TypeOK, Place, Quiet, NEW p \in Procs, Runs(p, "init"),
         UNCHANGED <<kind, at, src, work, unlisted, partial>>, Running(p)', pc'[p] # "done",
         \A q \in Procs : q # p => UNCHANGED <<pc[q], doc[q]>>,
         metadata' = metadata \/ metadata' = Torn,
         \A c \in Challenges : c # Cur(p) => manifest'[c] = manifest[c] /\ patch'[c] = patch[c],
         MakingOf(p)', pc'[p] \notin {"rmpatch", "rmmanifest"}
  PROVE  Alone' /\ Making' /\ Using' /\ Saving' /\ Cleaning' /\ Full' /\ Removed'
<1>1. \A q \in Procs : Running(q)' => Running(q)
  BY DEF Running, Runs
<1>2. Alone'
  BY <1>1, AloneFrame DEF Quiet
<1>3. \A c \in Challenges : c # Cur(p) => (Backed(c)' <=> Backed(c))
  BY DEF Backed, Listed
<1>4. \A q \in Procs : Cur(q)' = Cur(q)
  BY DEF Cur
<1>5. Making'
  <2> SUFFICES ASSUME NEW q \in Procs, Runs(q, "init")' PROVE q = p
    BY DEF Making
  <2> QED BY <1>1, InitFacts DEF Runs
<1>6. Using'
  <2> SUFFICES ASSUME NEW q \in Procs, Running(q)', kind'[q] \in OnOne
               PROVE  /\ kind'[q] # "patch" /\ pc'[q] # "list" /\ Backed(Cur(q))' /\ metadata' # Absent
                      /\ \A r \in Procs : Runs(r, "init")' => at'[q] < at'[r]
    BY DEF Using
  <2>1. Running(q) /\ kind[q] \in OnOne /\ q # p
    BY <1>1 DEF Runs, OnOne
  <2>2. /\ at[q] < at[p] /\ Cur(q) # Cur(p) /\ Cur(q) \in Challenges
        /\ kind[q] # "patch" /\ pc[q] # "list" /\ Backed(Cur(q)) /\ metadata # Absent
    BY <2>1, InitFacts
  <2>3. \A r \in Procs : Runs(r, "init")' => r = p
    BY <1>1, InitFacts DEF Runs
  <2> QED BY <1>3, <1>4, <2>1, <2>2, <2>3, BenchmarkAssumption
<1>7. Saving'
  <2> SUFFICES ASSUME NEW q \in Procs, Runs(q, "save")' PROVE FALSE
    BY DEF Saving
  <2> QED BY <1>1, InitFacts DEF Runs
<1>8. Cleaning'
  <2> SUFFICES ASSUME NEW q \in Procs, pc'[q] \in {"rmpatch", "rmmanifest"} PROVE FALSE
    BY DEF Cleaning
  <2>1. q # p /\ Running(q) /\ kind[q] = "clean"
    BY Labelled DEF Running, Ended
  <2> QED BY <2>1, InitFacts DEF OnOne
<1>9. Full'
  <2>1. Runs(p, "init")'
    BY DEF Runs
  <2>2. Readable' => metadata' = metadata /\ Readable
    BY DEF Readable
  <2>3. Readable' => \A c \in DOMAIN metadata' : Backed(c)'
    <3> SUFFICES ASSUME Readable', NEW c \in DOMAIN metadata' PROVE Backed(c)'
      OBVIOUS
    <3>1. c \in Challenges /\ c # Cur(p) /\ Backed(c)
      BY <2>2, InitFacts DEF Quiet, Full
    <3> QED BY <1>3, <3>1
  <2>4. Readable' => Firsts(DOMAIN metadata)'
    BY <2>2 DEF Quiet, Full, Firsts, Before
  <2> QED BY <2>1, <2>3, <2>4 DEF Full
<1>10. Removed'
  BY <1>4 DEF Quiet, Removed
<1> QED BY <1>2, <1>5, <1>6, <1>7, <1>8, <1>9, <1>10

(* Clean runs alone.                                                       *)
LEMMA CleanAlone ==
  ASSUME TypeOK, Place, Quiet, NEW p \in Procs, pc[p] \in {"unlink", "rmpatch", "rmmanifest"}
  PROVE  kind[p] = "clean" /\ \A q \in Procs : q # p => ~ Running(q)
<1>1. kind[p] = "clean" /\ Running(p)
  BY Labelled DEF Running, Ended
<1> QED BY <1>1, Quietly

(* A step of clean, which runs alone.                                      *)
LEMMA CleanStep ==
  ASSUME TypeOK, Place, Quiet, NEW p \in Procs, pc[p] \in {"unlink", "rmpatch", "rmmanifest"},
         UNCHANGED <<src, kind, work, unlisted>>, orphan' = {},
         metadata' # Absent => partial' = partial,
         metadata' \in {metadata, Absent}, metadata' # Absent => pc'[p] = "raised",
         \A q \in Procs : q # p => pc'[q] = pc[q] /\ at'[q] = at[q],
         pc'[p] \in {"raised", "done", "rmpatch", "rmmanifest"},
         \A c \in Challenges : manifest'[c] \in {manifest[c], Absent},
         metadata' # Absent => UNCHANGED <<manifest, patch>>
  PROVE  Quiet'
<1>1. kind[p] = "clean" /\ \A q \in Procs : q # p => ~ Running(q) /\ ~ Running(q)'
  BY CleanAlone DEF Running
<1>2. \A q \in Procs : Running(q)' => q = p /\ kind'[q] = "clean"
  BY <1>1
<1>3. Alone' /\ Making' /\ Using' /\ Saving'
  BY <1>2 DEF Alone, Making, Using, Saving, Runs, OnOne
<1>4. Cleaning'
  BY <1>1 DEF Cleaning, Running, Ended
<1>5. \A q \in Procs : pc[q] \notin {"list", "dumpmeta"} /\ pc'[q] \notin {"list", "dumpmeta"}
  BY <1>1 DEF Running, Ended
<1>6. Opened'
  BY <1>5, BenchmarkAssumption DEF Quiet, Opened
<1>7. Full'
  BY <1>1, <1>2 DEF Quiet, Full, Readable, Backed, Listed, Runs
<1>8. Removed'
  <2> SUFFICES ASSUME NEW q \in Procs, pc'[q] = "done", kind'[q] = "checkout",
                      Cur(q)' \notin unlisted'
               PROVE  work'[q] = RemovePatch(src'[Cur(q)'])
    BY DEF Removed
  <2>1. q # p
    BY <1>1
  <2> QED BY <2>1 DEF Quiet, Removed, Cur
<1> QED BY <1>3, <1>4, <1>6, <1>7, <1>8 DEF Quiet

(* init.py starts, with nothing beside it that saves or cleans.            *)
LEMMA StartInitQuiet ==
  ASSUME TypeOK, Place, Quiet, NEW p \in Procs, StartInit(p), ~ raced'
  PROVE  Quiet'
<1>1. /\ ~ Running(p) /\ UNCHANGED <<src, manifest, patch, metadata, orphan, unlisted, partial>>
      /\ \A q \in Procs : Running(q) => ~ Conflict("init", kind[q])
      /\ \A q \in Procs : q # p =>
           UNCHANGED <<pc[q], kind[q], then[q], at[q], doc[q], work[q]>>
  BY TypeParts DEF StartInit, Starts, derived, Goto
<1>2. pc'[p] = "already" \/ (pc'[p] = "get" /\ metadata = Absent)
  BY TypeParts DEF StartInit, Starts, Goto
<1>3. \A q \in Procs : Running(q) => kind[q] \in OnOne
  BY <1>1, TypeParts DEF Conflict, Kinds
<1>4. Alone'
  BY StartsAlone, <1>1 DEF StartInit, Quiet, Kinds
<1>5. Making'
  <2> SUFFICES ASSUME NEW q \in Procs, Runs(q, "init")' PROVE MakingOf(q)'
    BY DEF Making
  <2>1. q = p
    BY <1>1, <1>3 DEF Runs, Running, OnOne
  <2>2. pc'[p] = "get" /\ metadata' = Absent /\ doc'[p] = <<>> /\ at'[p] = 1
    BY <1>1, <2>1, TypeParts DEF StartInit, Starts, Goto, Runs, Running, Ended
  <2>3. DOMAIN doc'[p] = Before(1 - 1)'
    BY <2>2, BeforeFacts DEF Before
  <2> QED BY <2>1, <2>2, <2>3 DEF MakingOf, Readable
<1>6. Using'
  BY <1>1, <1>2, <1>3, TypeParts DEF StartInit, Starts, Goto, Quiet, Using, Runs, Running, Ended,
     Cur, Backed, Listed, OnOne
<1>7. Saving' /\ Cleaning'
  BY <1>1, <1>2, <1>3, TypeParts DEF StartInit, Starts, Quiet, Saving, Cleaning, Runs, Running,
     Ended, Backed, Listed, OnOne
<1>8. Opened'
  BY <1>1, <1>2, OpenedFrame DEF Quiet, Running, Ended
<1>9. Full'
  BY <1>1, <1>2, <1>3, TypeParts DEF StartInit, Starts, Quiet, Full, Runs, Running, Ended, Backed,
     Listed, Readable, OnOne
<1>10. Removed'
  BY <1>1, <1>2 DEF Quiet, Removed, Cur
<1> QED BY <1>4, <1>5, <1>6, <1>7, <1>8, <1>9, <1>10 DEF Quiet

(* A command that is refused is done at once.                              *)
LEMMA RefusedQuiet ==
  ASSUME TypeOK, Place, Quiet, NEW p \in Procs, Refused(p), ~ raced'
  PROVE  Quiet'
<1>1. Alone'
  BY DEF Refused, Starts, Goto, Quiet, Alone, Running, Ended
<1>2. Making'
  BY DEF Refused, Starts, Goto, derived, Quiet, Making, MakingOf, Runs, Running, Ended, Cur,
     Backed, Listed, Readable
<1>3. Using'
  BY DEF Refused, Starts, Goto, derived, Quiet, Using, Runs, Running, Ended, Cur, Backed, Listed
<1>4. Saving'
  BY DEF Refused, Starts, Goto, derived, Quiet, Saving, Runs, Running, Ended, Backed, Listed
<1>5. Cleaning'
  BY DEF Refused, Starts, Goto, derived, Quiet, Cleaning
<1>6. Opened'
  BY DEF Refused, Starts, Goto, derived, Quiet, Opened, Running, Ended, Cur
<1>7. Full'
  BY DEF Refused, Starts, Goto, derived, Quiet, Full, Runs, Running, Backed, Listed, Readable
<1>8. Removed'
  BY TypeParts DEF Refused, Starts, Goto, Quiet, Removed, Cur
<1> QED BY <1>1, <1>2, <1>3, <1>4, <1>5, <1>6, <1>7, <1>8 DEF Quiet

(* Clean starts, with nothing beside it.                                   *)
LEMMA StartCleanQuiet ==
  ASSUME TypeOK, Place, Quiet, NEW p \in Procs, StartClean(p), ~ raced'
  PROVE  Quiet'
<1>1. Alone'
  <2>1. \A q \in Procs : q # p => UNCHANGED <<pc[q], kind[q]>>
    BY TypeParts DEF StartClean, Starts, Goto
  <2> QED BY <2>1, StartsAlone DEF StartClean, Quiet, Kinds
<1>2. Making'
  BY TypeParts DEF StartClean, Starts, Goto, Making, Runs, Running, Conflict
<1>3. Using'
  BY TypeParts DEF StartClean, Starts, Goto, Using, Running, OnOne, Conflict
<1>4. Saving'
  BY TypeParts DEF StartClean, Starts, Goto, derived, Quiet, Saving, Runs, Running, Ended, Backed,
     Listed, Readable, Conflict
<1>5. Cleaning'
  BY DEF StartClean, Starts, Goto, derived, Quiet, Cleaning
<1>6. Opened'
  BY DEF StartClean, Starts, Goto, derived, Quiet, Opened, Running, Ended, Cur, Readable, Conflict
<1>7. Full'
  BY DEF StartClean, Starts, Goto, derived, Quiet, Full, Runs, Running, Ended, Backed, Listed,
     Readable, Conflict
<1>8. Removed'
  BY TypeParts DEF StartClean, Starts, Goto, derived, Quiet, Removed, Running, Ended, Cur,
     Readable, Conflict
<1> QED BY <1>1, <1>2, <1>3, <1>4, <1>5, <1>6, <1>7, <1>8 DEF Quiet

(* A command that saves starts with all the entries.                       *)
LEMMA StartSaveQuiet ==
  ASSUME TypeOK, Place, Quiet, NEW p \in Procs, StartSave(p), ~ raced'
  PROVE  Quiet'
<1>1. Alone'
  <2>1. \A q \in Procs : q # p => UNCHANGED <<pc[q], kind[q]>>
    BY TypeParts DEF StartSave, Starts, Goto
  <2> QED BY <2>1, StartsAlone DEF StartSave, Quiet, Kinds
<1>2. Making'
  BY TypeParts DEF StartSave, Starts, Goto, derived, Quiet, Making, MakingOf, Runs, Running,
     Ended, Cur, Backed, Listed, Readable, Conflict
<1>3. Using'
  BY TypeParts DEF StartSave, Starts, Goto, derived, Quiet, Using, Runs, Running, Ended, Cur,
     Backed, Listed, Readable, OnOne, Conflict
<1>4. Saving'
  <2>1. /\ Readable /\ UNCHANGED <<manifest, patch, metadata, unlisted, partial>>
        /\ \A q \in Procs : Running(q) => ~ Conflict("save", kind[q])
        /\ \A q \in Procs : q # p => UNCHANGED <<pc[q], kind[q], doc[q]>>
    BY TypeParts DEF StartSave, Starts, derived, Goto
  <2>2. DOMAIN doc'[p] = DOMAIN metadata
    BY TypeParts DEF StartSave
  <2>3. \A q \in Procs : ~ Runs(q, "init")
    BY <2>1 DEF Conflict, Runs
  <2>4. /\ Firsts(DOMAIN metadata) /\ \A c \in DOMAIN metadata : Backed(c)
        /\ partial \/ DOMAIN metadata = Challenges
    BY <2>1, <2>3 DEF Quiet, Full
  <2>5. metadata # Absent
    BY <2>1 DEF Readable
  <2> QED BY <2>1, <2>2, <2>4, <2>5 DEF Quiet, Saving, Runs, Running, Backed, Listed, Firsts, Before
<1>5. Cleaning'
  BY DEF StartSave, Starts, Goto, derived, Quiet, Cleaning, Running, Ended, Readable, Conflict
<1>6. Opened'
  BY DEF StartSave, Starts, Goto, derived, Quiet, Opened, Running, Ended, Cur, Readable, Conflict
<1>7. Full'
  BY DEF StartSave, Starts, Goto, derived, Quiet, Full, Runs, Running, Ended, Backed, Listed,
     Readable, Conflict
<1>8. Removed'
  BY TypeParts DEF StartSave, Starts, Goto, derived, Quiet, Removed, Running, Ended, Cur,
     Readable, Conflict
<1> QED BY <1>1, <1>2, <1>3, <1>4, <1>5, <1>6, <1>7, <1>8 DEF Quiet

(* A command on one challenge finds it in the metadata, so its files are   *)
(* there.                                                                  *)
LEMMA StartOnQuiet ==
  ASSUME TypeOK, Place, Quiet, NEW p \in Procs, NEW k \in OnOne, StartOn(p, k), ~ raced'
  PROVE  Quiet'
<1>1. Alone'
  <2>1. \A q \in Procs : q # p => UNCHANGED <<pc[q], kind[q]>>
    BY TypeParts DEF StartOn, Starts, Goto
  <2>2. k \in Kinds
    BY DEF Kinds
  <2> QED BY <2>1, <2>2, StartsAlone DEF StartOn, Quiet
<1>2. Making'
  BY TypeParts DEF StartOn, Starts, Goto, derived, Quiet, Making, MakingOf, Runs, Running, Ended,
     Cur, Backed, Listed, Readable, OnOne, Conflict, Alone
<1>3. Using'
  <2>1. /\ ~ Running(p) /\ Readable /\ UNCHANGED <<manifest, patch, metadata, unlisted, partial>>
        /\ \A q \in Procs : q # p => UNCHANGED <<pc[q], kind[q], at[q]>>
        /\ kind'[p] = k
    BY TypeParts DEF StartOn, Starts, derived, Goto
  <2>2. PICK n \in DOMAIN Order :
          /\ Visible(Order[n]) /\ at'[p] = n
          /\ pc'[p] = IF k = "patch" /\ patch[Order[n]] # Absent THEN "done" ELSE "get"
    BY TypeParts DEF StartOn, Goto
  <2>3. Order[n] \in DOMAIN metadata /\ Backed(Order[n]) /\ metadata # Absent
    BY <2>1, <2>2 DEF Visible, Quiet, Full, Readable
  <2>4. k = "patch" => pc'[p] = "done"
    BY <2>2, <2>3, BenchmarkAssumption DEF Backed
  <2>5. \A q \in Procs : Runs(q, "init") => n < at[q]
    <3> SUFFICES ASSUME NEW q \in Procs, Runs(q, "init") PROVE n < at[q]
      OBVIOUS
    <3>1. Order[n] \in Before(at[q] - 1)
      BY <2>1, <2>3 DEF Quiet, Making, MakingOf
    <3>2. at[q] \in 1 .. Len(Order) /\ n \in 1 .. Len(Order)
      BY CurTyped, OrderFacts
    <3> QED BY <3>1, <3>2, BeforeFacts
  <2> SUFFICES ASSUME NEW q \in Procs, Running(q)', kind'[q] \in OnOne
               PROVE  /\ kind'[q] # "patch" /\ pc'[q] # "list" /\ Backed(Cur(q))' /\ metadata' # Absent
                      /\ \A r \in Procs : Runs(r, "init")' => at'[q] < at'[r]
    BY DEF Using
  <2>6. \A r \in Procs : Runs(r, "init")' => r # p /\ Runs(r, "init") /\ at'[r] = at[r]
    BY <2>1 DEF Runs, Running, OnOne
  <2>7. CASE q = p
    <3>1. pc'[p] = "get" /\ k # "patch" /\ Cur(p)' = Order[n]
      BY <2>2, <2>4, <2>7 DEF Running, Ended, Cur
    <3> QED BY <2>1, <2>2, <2>3, <2>5, <2>6, <2>7, <3>1 DEF Backed, Listed
  <2>8. CASE q # p
    <3>1. Running(q) /\ kind[q] \in OnOne /\ Cur(q)' = Cur(q)
      BY <2>1, <2>8 DEF Running, Cur
    <3> QED BY <2>1, <2>6, <2>8, <3>1 DEF Quiet, Using, Backed, Listed
  <2> QED BY <2>7, <2>8
<1>4. Saving'
  BY TypeParts DEF StartOn, Starts, Goto, derived, Quiet, Saving, Runs, Running, Ended, Backed,
     Listed, Readable, OnOne, Conflict, Alone
<1>5. Cleaning'
  BY DEF StartOn, Starts, Goto, derived, Quiet, Cleaning, Running, Ended, Readable, Conflict
<1>6. Opened'
  <2>1. /\ ~ Running(p) /\ UNCHANGED <<manifest, metadata, orphan, unlisted, partial>>
        /\ \A q \in Procs : q # p => UNCHANGED <<pc[q], at[q]>>
        /\ pc'[p] \in {"get", "done"}
    BY TypeParts DEF StartOn, Starts, derived, Goto
  <2> QED BY <2>1, OpenedFrame DEF Quiet, Running, Ended
<1>7. Full'
  BY DEF StartOn, Starts, Goto, derived, Quiet, Full, Runs, Running, Ended, Backed, Listed,
     Readable, Conflict
<1>8. Removed'
  BY TypeParts DEF StartOn, Starts, Goto, derived, Quiet, Removed, Running, Ended, Cur, Readable,
     Conflict
<1> QED BY <1>1, <1>2, <1>3, <1>4, <1>5, <1>6, <1>7, <1>8 DEF Quiet

(* Only init.py finds no manifest.                                         *)
LEMMA GetManifestQuiet ==
  ASSUME TypeOK, Place, Quiet, NEW p \in Procs, GetManifest(p), ~ raced'
  PROVE  Quiet'
<1>1. /\ pc[p] = "get" /\ UNCHANGED <<src, patch, metadata, kind, then, at, doc, orphan, work, unlisted, partial>>
      /\ \A q \in Procs : q # p => pc'[q] = pc[q]
  BY TypeParts DEF GetManifest, Goto, local, out, ghost
<1>2. \A q \in Procs : Running(q)' => Running(q)
  BY <1>1 DEF Running, Ended
<1>3. Alone'
  BY <1>1, <1>2, AloneFrame DEF Quiet
<1>4. kind[p] \in {"init", "manifest", "checkout"} /\ Running(p)
  BY <1>1, Labelled DEF Quiet, Using, Running, Ended, OnOne
<1>5. ASSUME manifest[Cur(p)] # Absent
      PROVE  Making' /\ Using' /\ Saving' /\ Cleaning' /\ Opened' /\ Full' /\ Removed'
  <2>1. /\ manifest' = manifest /\ pc'[p] = then[p]
        /\ kind[p] = "init" => then[p] = "openpatch"
        /\ kind[p] = "manifest" => then[p] = "done"
        /\ kind[p] = "checkout" => then[p] \in {"copy", "remove"}
    BY <1>1, <1>4, <1>5, TypeParts DEF GetManifest, Goto, Place, PlaceOf, Runs
  <2>2. \A c \in Challenges : Backed(c)' <=> Backed(c)
    BY <1>1, <2>1 DEF Backed, Listed
  <2>3. ASSUME kind[p] = "init" PROVE Listed(Cur(p))
    <3>1. CASE manifest[Cur(p)] = "whole"
      BY <3>1 DEF Listed
    <3>2. CASE manifest[Cur(p)] = Torn
      <4>1. SUFFICES ASSUME NEW q \in Procs, pc[q] = "list" PROVE FALSE
        BY <3>2, CurTyped DEF Quiet, Opened, Listed
      <4> QED BY <1>1, <1>4, <2>3, <4>1, Quietly DEF Running, Ended, OnOne
    <3> QED BY <1>5, <3>1, <3>2, TypeParts, CurTyped DEF Files
  <2>4. Making'
    <3> SUFFICES ASSUME NEW q \in Procs, Runs(q, "init")' PROVE MakingOf(q)'
      BY DEF Making
    <3>1. MakingOf(q) /\ kind[q] = "init"
      BY <1>1, <1>2 DEF Quiet, Making, Runs
    <3>2. pc'[q] = pc[q] \/ (q = p /\ pc'[q] = "openpatch" /\ pc[q] = "get")
      BY <1>1, <2>1, <3>1
    <3> QED BY <1>1, <2>1, <2>3, <3>1, <3>2 DEF MakingOf, Backed, Listed, Cur, Readable
  <2>5. Using'
    BY <1>1, <1>2, <1>4, <2>1 DEF Quiet, Using, Runs, Running, Ended, Backed, Listed, Cur, OnOne
  <2>6. Saving' /\ Cleaning'
    BY <1>1, <1>2, <1>4, <2>1 DEF Quiet, Saving, Cleaning, Runs, Backed, Listed
  <2>7. Opened'
    BY <1>1, <1>4, <2>1, OpenedFrame DEF Quiet
  <2>8. Full'
    <3>1. (\A q \in Procs : ~ Runs(q, "init")') => \A q \in Procs : ~ Runs(q, "init")
      BY <1>1, <1>4, <2>1 DEF Runs, Running, Ended
    <3>2. Readable' <=> Readable
      BY <1>1 DEF Readable
    <3> QED BY <1>1, <2>1, <3>1, <3>2 DEF Quiet, Full, Backed, Listed
  <2>9. Removed'
    BY <1>1, <1>4, <2>1 DEF Quiet, Removed, Cur
  <2> QED BY <2>4, <2>5, <2>6, <2>7, <2>8, <2>9
<1>6. ASSUME manifest[Cur(p)] = Absent
      PROVE  Making' /\ Using' /\ Saving' /\ Cleaning' /\ Opened' /\ Full' /\ Removed'
  <2>1. manifest' = [manifest EXCEPT ![Cur(p)] = Torn] /\ pc'[p] = "list"
    BY <1>1, <1>6, TypeParts DEF GetManifest, Goto
  <2>2. kind[p] = "init"
    BY <1>4, <1>6, BenchmarkAssumption DEF Quiet, Using, Backed, Listed, OnOne
  <2>3. /\ \A q \in Procs : q # p /\ Running(q) => kind[q] \in OnOne
        /\ \A q \in Procs : q # p => ~ Runs(q, "init") /\ ~ Runs(q, "save")
    BY <1>4, <2>2, Quietly DEF Runs, OnOne
  <2>4. /\ manifest'[Cur(p)] = Torn
        /\ \A c \in Challenges : c # Cur(p) => manifest'[c] = manifest[c] /\ (Backed(c)' <=> Backed(c))
    BY <1>1, <2>1, TypeParts, CurTyped DEF Files, Backed, Listed
  <2>5. MakingOf(p)
    BY <1>4, <2>2 DEF Quiet, Making, Runs
  <2>6. /\ Cur(p) \notin Before(at[p] - 1) /\ Before(at[p] - 1) \subseteq Challenges
        /\ DOMAIN doc[p] = Before(at[p] - 1) /\ (Readable => DOMAIN metadata \subseteq Before(at[p] - 1))
    BY <1>1, <2>5, CurTyped, BeforeFacts DEF MakingOf, Cur
  <2>7. Making'
    <3> SUFFICES ASSUME NEW q \in Procs, Runs(q, "init")' PROVE MakingOf(q)'
      BY DEF Making
    <3>1. q = p
      BY <1>1, <1>2, <2>3 DEF Runs
    <3> QED BY <1>1, <2>1, <2>4, <2>5, <2>6, <3>1 DEF MakingOf, Cur, Readable
  <2>8. Using'
    <3> SUFFICES ASSUME NEW q \in Procs, Running(q)', kind'[q] \in OnOne
                 PROVE  /\ kind'[q] # "patch" /\ pc'[q] # "list" /\ Backed(Cur(q))' /\ metadata' # Absent
                        /\ \A r \in Procs : Runs(r, "init")' => at'[q] < at'[r]
      BY DEF Using
    <3>1. Running(q) /\ kind[q] \in OnOne /\ q # p /\ pc'[q] = pc[q]
      BY <1>1, <1>2, <2>2 DEF OnOne
    <3>2. /\ kind[q] # "patch" /\ pc[q] # "list" /\ Backed(Cur(q)) /\ metadata # Absent
          /\ \A r \in Procs : Runs(r, "init") => at[q] < at[r]
      BY <3>1 DEF Quiet, Using
    <3>3. at[q] < at[p]
      BY <1>4, <2>2, <3>2 DEF Runs
    <3>4. Cur(q) # Cur(p) /\ Cur(q) \in Challenges
      BY <3>3, CurTyped, OrderFacts DEF Cur
    <3>5. Cur(q)' = Cur(q)
      BY <1>1 DEF Cur
    <3>6. \A r \in Procs : Runs(r, "init")' => Runs(r, "init")
      BY <1>1, <1>2 DEF Runs
    <3> QED BY <1>1, <2>4, <3>1, <3>2, <3>4, <3>5, <3>6
  <2>9. Saving' /\ Cleaning'
    BY <1>1, <1>2, <2>1, <2>2, <2>3 DEF Quiet, Saving, Cleaning, Runs
  <2>10. Opened'
    <3>1. Cur(p)' = Cur(p)
      BY <1>1 DEF Cur
    <3>2. \A c \in Challenges : manifest'[c] = Torn => c \in unlisted' \/ \E q \in Procs : pc'[q] = "list" /\ Cur(q)' = c
      <4> SUFFICES ASSUME NEW c \in Challenges, manifest'[c] = Torn, c \notin unlisted', c # Cur(p)
                   PROVE  \E q \in Procs : pc'[q] = "list" /\ Cur(q)' = c
        BY <2>1, <3>1
      <4>1. PICK q \in Procs : pc[q] = "list" /\ Cur(q) = c
        BY <1>1, <2>4 DEF Quiet, Opened
      <4> QED BY <1>1, <4>1 DEF Cur
    <3> QED BY <1>1, <2>1, <3>2 DEF Quiet, Opened
  <2>11. Full'
    <3>1. Runs(p, "init")'
      BY <1>1, <2>1, <2>2 DEF Runs, Running, Ended
    <3> QED BY <1>1, <2>4, <2>6, <3>1 DEF Quiet, Full, Readable
  <2>12. Removed'
    BY <1>1, <2>1, <2>2 DEF Quiet, Removed, Cur
  <2> QED BY <2>7, <2>8, <2>9, <2>10, <2>11, <2>12
<1> QED BY <1>3, <1>5, <1>6 DEF Quiet

(* Only init.py writes a manifest, and ends with it whole.                 *)
LEMMA ListFilesQuiet ==
  ASSUME TypeOK, Place, Quiet, NEW p \in Procs, ListFiles(p), ~ raced'
  PROVE  Quiet'
<1>1. /\ pc[p] = "list" /\ UNCHANGED <<src, patch, metadata, kind, then, at, doc, work, unlisted, partial>>
      /\ \A q \in Procs : q # p => pc'[q] = pc[q]
  BY TypeParts DEF ListFiles, Goto, out, ghost
<1>2. Runs(p, "init") /\ pc'[p] = "openpatch"
  BY <1>1, TypeParts, Labelled, Quietly DEF ListFiles, Goto, Runs, Running, Ended
<1>3. orphan = {} /\ orphan' = {} /\ manifest' = [manifest EXCEPT ![Cur(p)] = "whole"]
  BY DEF ListFiles, Quiet, Opened, Closes
<1>4. manifest'[Cur(p)] = "whole" /\ \A c \in Challenges : c # Cur(p) => manifest'[c] = manifest[c]
  BY <1>3, TypeParts, CurTyped DEF Files
<1>5. MakingOf(p)'
  <2>1. MakingOf(p)
    BY <1>2, InitFacts
  <2>2. \A c \in DOMAIN doc[p] : c \in Challenges /\ c # Cur(p) /\ Backed(c)
    BY <1>1, <1>2, <2>1, InitFacts DEF MakingOf
  <2> QED BY <1>1, <1>2, <1>4, <2>1, <2>2 DEF MakingOf, Backed, Listed, Cur, Readable
<1>6. Alone' /\ Making' /\ Using' /\ Saving' /\ Cleaning' /\ Full' /\ Removed'
  BY <1>1, <1>2, <1>4, <1>5, InitStep DEF Running, Ended
<1>7. Opened'
  <2>1. \A c \in Challenges : manifest'[c] = Torn => c \in unlisted' \/ \E q \in Procs : pc'[q] = "list" /\ Cur(q)' = c
    <3> SUFFICES ASSUME NEW c \in Challenges, manifest'[c] = Torn, c \notin unlisted'
                 PROVE  \E q \in Procs : pc'[q] = "list" /\ Cur(q)' = c
      OBVIOUS
    <3>1. c # Cur(p)
      BY <1>4, BenchmarkAssumption
    <3>2. PICK q \in Procs : pc[q] = "list" /\ Cur(q) = c
      BY <1>1, <1>4, <3>1 DEF Quiet, Opened
    <3> QED BY <1>1, <3>1, <3>2 DEF Cur
  <2>2. \A q \in Procs : pc'[q] = "dumpmeta" <=> pc[q] = "dumpmeta"
    BY <1>1, <1>2
  <2> QED BY <1>1, <1>3, <2>1, <2>2 DEF Quiet, Opened
<1> QED BY <1>6, <1>7 DEF Quiet

(* Only init.py opens a patch file, of a challenge with no entry yet.      *)
LEMMA OpenPatchQuiet ==
  ASSUME TypeOK, Place, Quiet, NEW p \in Procs, OpenPatch(p), ~ raced'
  PROVE  Quiet'
<1>1. /\ pc[p] = "openpatch" /\ UNCHANGED <<src, manifest, metadata, kind, then, at, doc, orphan, work, unlisted, partial>>
      /\ (\A q \in Procs : q # p => pc'[q] = pc[q]) /\ pc'[p] = "dumppatch"
  BY TypeParts DEF OpenPatch, Goto, local, out, ghost
<1>2. Runs(p, "init")
  BY <1>1, Labelled, Quietly DEF Runs, Running, Ended
<1>3. \A c \in Challenges : c # Cur(p) => patch'[c] = patch[c]
  BY TypeParts, CurTyped DEF OpenPatch, Files
<1>4. MakingOf(p)'
  <2>1. MakingOf(p)
    BY <1>2, InitFacts
  <2>2. \A c \in DOMAIN doc[p] : c \in Challenges /\ c # Cur(p) /\ Backed(c)
    BY <1>1, <1>2, <2>1, InitFacts DEF MakingOf
  <2> QED BY <1>1, <1>3, <2>1, <2>2 DEF MakingOf, Backed, Listed, Cur, Readable
<1>5. Alone' /\ Making' /\ Using' /\ Saving' /\ Cleaning' /\ Full' /\ Removed'
  BY <1>1, <1>2, <1>3, <1>4, InitStep DEF Running, Ended
<1>6. Opened'
  BY <1>1, OpenedFrame DEF Quiet
<1> QED BY <1>5, <1>6 DEF Quiet

(* Its entry joins the others when its files are written.                  *)
LEMMA DumpPatchQuiet ==
  ASSUME TypeOK, Place, Quiet, NEW p \in Procs, DumpPatch(p), ~ raced'
  PROVE  Quiet'
<1>1. /\ pc[p] = "dumppatch" /\ UNCHANGED <<src, manifest, metadata, kind, then, at, work, unlisted, partial>>
      /\ (\A q \in Procs : q # p => pc'[q] = pc[q])
  BY TypeParts DEF DumpPatch, Goto, out, ghost
<1>2. Runs(p, "init")
  BY <1>1, Labelled, Quietly DEF Runs, Running, Ended
<1>3. pc'[p] = "openmeta" /\ \A q \in Procs : q # p => doc'[q] = doc[q]
  BY <1>2, TypeParts DEF DumpPatch, Goto, Runs
<1>4. orphan = {} /\ orphan' = {} /\ patch' = [patch EXCEPT ![Cur(p)] = "whole"]
  BY DEF DumpPatch, Quiet, Opened, Closes
<1>5. patch'[Cur(p)] = "whole" /\ \A c \in Challenges : c # Cur(p) => patch'[c] = patch[c]
  BY <1>4, TypeParts, CurTyped DEF Files
<1>6. DOMAIN doc'[p] = DOMAIN doc[p] \cup {Cur(p)}
  BY <1>2, TypeParts DEF DumpPatch, Runs
<1>7. MakingOf(p)'
  <2>1. MakingOf(p)
    BY <1>2, InitFacts
  <2>2. DOMAIN doc[p] = Before(at[p] - 1) /\ Listed(Cur(p)) /\ \A c \in DOMAIN doc[p] : Backed(c)
    BY <1>1, <2>1 DEF MakingOf
  <2>3. DOMAIN doc'[p] = Before(at[p])
    BY <1>2, <1>6, <2>2, InitFacts
  <2>4. \A c \in DOMAIN doc'[p] : Backed(c)'
    <3> SUFFICES ASSUME NEW c \in DOMAIN doc'[p] PROVE Backed(c)'
      OBVIOUS
    <3>1. CASE c = Cur(p)
      BY <1>1, <1>5, <2>2, <3>1 DEF Backed, Listed
    <3>2. CASE c # Cur(p)
      <4>1. c \in Challenges /\ Backed(c)
        BY <1>2, <1>6, <2>2, <3>2, InitFacts
      <4> QED BY <1>1, <1>5, <3>2, <4>1 DEF Backed, Listed
    <3> QED BY <3>1, <3>2
  <2>5. Readable' => DOMAIN metadata' \subseteq Before(at[p] - 1)
    BY <1>1, <1>2, InitFacts DEF Readable
  <2>6. \A n : Before(n)' = Before(n)
    BY DEF Before
  <2>7. at[p] = 1 => metadata = Absent
    BY <1>1, <2>1 DEF MakingOf
  <2> QED BY <1>1, <1>3, <2>3, <2>4, <2>5, <2>6, <2>7 DEF MakingOf
<1>8. Alone' /\ Making' /\ Using' /\ Saving' /\ Cleaning' /\ Full' /\ Removed'
  BY <1>1, <1>2, <1>3, <1>5, <1>7, InitStep DEF Running, Ended
<1>9. Opened'
  BY <1>1, <1>3, <1>4, OpenedFrame DEF Quiet
<1> QED BY <1>8, <1>9 DEF Quiet

(* One command at a time has the metadata open.                            *)
LEMMA OpenMetaQuiet ==
  ASSUME TypeOK, Place, Quiet, NEW p \in Procs, OpenMeta(p), ~ raced'
  PROVE  Quiet'
<1>1. /\ pc[p] = "openmeta" /\ UNCHANGED <<src, manifest, patch, kind, then, at, doc, orphan, work, unlisted, partial>>
      /\ (\A q \in Procs : q # p => pc'[q] = pc[q]) /\ pc'[p] = "dumpmeta" /\ metadata' = Torn
  BY TypeParts DEF OpenMeta, Goto, local, out, ghost
<1>2. /\ Running(p) /\ kind[p] \in {"init", "save"}
      /\ \A q \in Procs : Running(q)' => Running(q)
  BY <1>1, Labelled DEF Running, Ended
<1>3. /\ \A q \in Procs : pc[q] # "dumpmeta"
      /\ \A q \in Procs : pc'[q] = "dumpmeta" <=> q = p
  <2>1. ASSUME NEW q \in Procs, pc[q] = "dumpmeta" PROVE FALSE
    <3>1. q # p /\ Running(q) /\ kind[q] \in {"init", "save"}
      BY <1>1, <2>1, Labelled DEF Running, Ended
    <3>2. ~ (kind[p] = "save" /\ kind[q] = "save")
      BY <2>1 DEF OpenMeta
    <3> QED BY <1>2, <3>1, <3>2, Quietly DEF OnOne
  <2> QED BY <1>1, <2>1
<1>4. Torn # Absent
  BY BenchmarkAssumption
<1>5. Alone'
  BY <1>1, <1>2, AloneFrame DEF Quiet
<1>6. Making'
  <2> SUFFICES ASSUME NEW q \in Procs, Runs(q, "init")' PROVE MakingOf(q)'
    BY DEF Making
  <2>1. MakingOf(q)
    BY <1>1, <1>2 DEF Quiet, Making, Runs
  <2>2. q = p
    BY <1>1, <1>2, Quietly DEF Runs, OnOne
  <2> QED BY <1>1, <2>1, <2>2 DEF MakingOf, Backed, Listed, Cur, Readable
<1>7. Using'
  <2> SUFFICES ASSUME NEW q \in Procs, Running(q)', kind'[q] \in OnOne
               PROVE  /\ kind'[q] # "patch" /\ pc'[q] # "list" /\ Backed(Cur(q))' /\ metadata' # Absent
                      /\ \A r \in Procs : Runs(r, "init")' => at'[q] < at'[r]
    BY DEF Using
  <2>1. /\ kind[q] # "patch" /\ pc[q] # "list" /\ Backed(Cur(q))
        /\ \A r \in Procs : Runs(r, "init") => at[q] < at[r]
    BY <1>1, <1>2 DEF Quiet, Using
  <2>2. \A r \in Procs : Runs(r, "init")' => Runs(r, "init")
    BY <1>1, <1>2 DEF Runs
  <2> QED BY <1>1, <1>4, <2>1, <2>2 DEF Backed, Listed, Cur
<1>8. Saving'
  BY <1>1, <1>2, <1>4 DEF Quiet, Saving, Runs, Backed, Listed
<1>9. Cleaning'
  <2> SUFFICES ASSUME NEW q \in Procs, pc'[q] \in {"rmpatch", "rmmanifest"} PROVE FALSE
    BY DEF Cleaning
  <2>1. q # p /\ pc[q] \in {"rmpatch", "rmmanifest"}
    BY <1>1
  <2> QED BY <1>2, <2>1, CleanAlone
<1>10. Opened'
  <2>1. \A c \in Challenges : manifest'[c] = Torn => c \in unlisted' \/ \E q \in Procs : pc'[q] = "list" /\ Cur(q)' = c
    <3> SUFFICES ASSUME NEW c \in Challenges, manifest[c] = Torn, c \notin unlisted
                 PROVE  \E q \in Procs : pc'[q] = "list" /\ Cur(q)' = c
      BY <1>1
    <3>1. PICK q \in Procs : pc[q] = "list" /\ Cur(q) = c
      BY DEF Quiet, Opened
    <3> QED BY <1>1, <3>1 DEF Cur
  <2> QED BY <1>1, <1>3, <2>1 DEF Quiet, Opened
<1>11. Full'
  BY <1>1 DEF Full, Readable
<1>12. Removed'
  BY <1>1 DEF Quiet, Removed, Cur
<1> QED BY <1>5, <1>6, <1>7, <1>8, <1>9, <1>10, <1>11, <1>12 DEF Quiet

(* What is written is all it has; init.py goes on or ends.                 *)
LEMMA DumpMetaQuiet ==
  ASSUME TypeOK, Place, Quiet, NEW p \in Procs, DumpMeta(p), ~ raced'
  PROVE  Quiet'
<1>1. /\ pc[p] = "dumpmeta" /\ UNCHANGED <<src, manifest, patch, kind, then, doc, work, unlisted, partial>>
      /\ \A q \in Procs : q # p => pc'[q] = pc[q] /\ at'[q] = at[q]
  BY TypeParts DEF DumpMeta, Goto, out, ghost
<1>2. orphan = {} /\ orphan' = {} /\ metadata = Torn /\ metadata' = doc[p]
  <2>1. orphan = {} /\ metadata = Torn
    BY <1>1 DEF Quiet, Opened
  <2>2. Written(p) = {doc[p]}
    BY <2>1 DEF Written, Readable
  <2> QED BY <2>1, <2>2 DEF DumpMeta
<1>3. IsDoc(doc[p]) /\ metadata' \notin {Absent, Torn}
  BY <1>2, TypeParts, DocFacts
<1>4. /\ Running(p) /\ kind[p] \in {"init", "save"}
      /\ \A q \in Procs : Running(q)' => Running(q)
      /\ \A q \in Procs : pc[q] = "dumpmeta" <=> q = p
  BY <1>1, Labelled DEF Running, Ended, Quiet, Opened
<1>5. CASE kind[p] = "save" /\ pc'[p] = "done" /\ at' = at
  <2>1. \A q \in Procs : ~ Runs(q, "init") /\ ~ Runs(q, "init")'
    BY <1>1, <1>4, <1>5, Quietly DEF Runs, OnOne
  <2>2. /\ \A c \in DOMAIN doc[p] : Backed(c)
        /\ Firsts(DOMAIN doc[p]) /\ (partial \/ DOMAIN doc[p] = Challenges)
    BY <1>4, <1>5 DEF Quiet, Saving, Runs
  <2>3. Alone'
    BY <1>1, <1>4, AloneFrame DEF Quiet
  <2>4. Making'
    BY <2>1 DEF Making
  <2>5. Using'
    BY <1>1, <1>3, <1>4, <1>5, <2>1 DEF Quiet, Using, Running, Backed, Listed, Cur, OnOne
  <2>6. Saving'
    BY <1>1, <1>3, <1>4 DEF Quiet, Saving, Runs, Backed, Listed
  <2>7. Cleaning'
    <3> SUFFICES ASSUME NEW q \in Procs, pc'[q] \in {"rmpatch", "rmmanifest"} PROVE FALSE
      BY DEF Cleaning
    <3>1. q # p /\ pc[q] \in {"rmpatch", "rmmanifest"}
      BY <1>1, <1>5
    <3> QED BY <1>4, <3>1, CleanAlone
  <2>8. Opened'
    <3>1. \A c \in Challenges : manifest'[c] = Torn => c \in unlisted' \/ \E q \in Procs : pc'[q] = "list" /\ Cur(q)' = c
      <4> SUFFICES ASSUME NEW c \in Challenges, manifest[c] = Torn, c \notin unlisted
                   PROVE  \E q \in Procs : pc'[q] = "list" /\ Cur(q)' = c
        BY <1>1
      <4>1. PICK q \in Procs : pc[q] = "list" /\ Cur(q) = c
        BY DEF Quiet, Opened
      <4> QED BY <1>1, <1>5, <4>1 DEF Cur
    <3> QED BY <1>1, <1>2, <1>3, <1>4, <1>5, <3>1 DEF Opened
  <2>9. Full'
    BY <1>1, <1>2, <2>2 DEF Full, Backed, Listed
  <2>10. Removed'
    BY <1>1, <1>5 DEF Quiet, Removed, Cur
  <2> QED BY <2>3, <2>4, <2>5, <2>6, <2>7, <2>8, <2>9, <2>10 DEF Quiet
<1>6. CASE /\ kind[p] = "init"
           /\ \/ at[p] = Len(Order) /\ pc'[p] = "initialized" /\ at'[p] = at[p]
              \/ at[p] # Len(Order) /\ pc'[p] = "get" /\ at'[p] = at[p] + 1
  <2>1. Runs(p, "init")
    BY <1>4, <1>6 DEF Runs
  <2>2. DOMAIN doc[p] = Before(at[p]) /\ \A c \in DOMAIN doc[p] : Backed(c)
    BY <1>1, <2>1, InitFacts DEF MakingOf
  <2>3. /\ \A q \in Procs : q # p => ~ Runs(q, "init") /\ ~ Runs(q, "save")
        /\ \A q \in Procs : Runs(q, "init")' => q = p /\ pc'[p] = "get" /\ at'[p] = at[p] + 1
    <3>1. \A q \in Procs : q # p => ~ Runs(q, "init") /\ ~ Runs(q, "save")
      BY <2>1, InitFacts
    <3>2. \A q \in Procs : Runs(q, "init")' => q = p
      BY <1>1, <1>4, <3>1 DEF Runs
    <3>3. pc'[p] = "initialized" => ~ Runs(p, "init")'
      BY DEF Runs, Running, Ended
    <3> QED BY <1>6, <3>1, <3>2, <3>3
  <2>4. at[p] \in Nat /\ (at[p] + 1) - 1 = at[p] /\ at[p] + 1 # 1
    BY CurTyped, OrderFacts
  <2>5. \A n : Before(n)' = Before(n)
    BY DEF Before
  <2>6. Alone'
    BY <1>1, <1>4, AloneFrame DEF Quiet
  <2>7. Making'
    <3> SUFFICES ASSUME NEW q \in Procs, Runs(q, "init")' PROVE MakingOf(q)'
      BY DEF Making
    <3>1. q = p /\ pc'[p] = "get" /\ at'[p] - 1 = at[p]
      BY <2>3, <2>4
    <3>2. at'[p] # 1
      BY <2>3, <2>4, <3>1
    <3> QED BY <1>1, <1>2, <2>2, <2>5, <3>1, <3>2 DEF MakingOf, Backed, Listed
  <2>8. Using'
    <3> SUFFICES ASSUME NEW q \in Procs, Running(q)', kind'[q] \in OnOne
                 PROVE  /\ kind'[q] # "patch" /\ pc'[q] # "list" /\ Backed(Cur(q))' /\ metadata' # Absent
                        /\ \A r \in Procs : Runs(r, "init")' => at'[q] < at'[r]
      BY DEF Using
    <3>1. q # p /\ Running(q) /\ kind[q] \in OnOne /\ pc'[q] = pc[q] /\ at'[q] = at[q] /\ Cur(q)' = Cur(q)
      BY <1>1, <1>4, <1>6 DEF OnOne, Cur
    <3>2. at[q] < at[p] /\ kind[q] # "patch" /\ pc[q] # "list" /\ Backed(Cur(q))
      BY <2>1, <3>1, InitFacts
    <3>3. at[q] \in Nat /\ at[q] < at[p] + 1
      BY <2>4, <3>2, CurTyped
    <3> QED BY <1>1, <1>3, <2>3, <3>1, <3>2, <3>3 DEF Backed, Listed
  <2>9. Saving'
    BY <1>1, <1>4, <1>6, <2>3 DEF Saving, Runs
  <2>10. Cleaning'
    <3> SUFFICES ASSUME NEW q \in Procs, pc'[q] \in {"rmpatch", "rmmanifest"} PROVE FALSE
      BY DEF Cleaning
    <3>1. q # p /\ pc[q] \in {"rmpatch", "rmmanifest"}
      BY <1>1, <1>6
    <3> QED BY <1>4, <3>1, CleanAlone
  <2>11. Opened'
    <3>1. \A c \in Challenges : manifest'[c] = Torn => c \in unlisted' \/ \E q \in Procs : pc'[q] = "list" /\ Cur(q)' = c
      <4> SUFFICES ASSUME NEW c \in Challenges, manifest[c] = Torn, c \notin unlisted
                   PROVE  \E q \in Procs : pc'[q] = "list" /\ Cur(q)' = c
        BY <1>1
      <4>1. PICK q \in Procs : pc[q] = "list" /\ Cur(q) = c
        BY DEF Quiet, Opened
      <4>2. q # p
        BY <1>1, <4>1
      <4> QED BY <1>1, <4>1, <4>2 DEF Cur
    <3> QED BY <1>1, <1>2, <1>3, <1>4, <1>6, <3>1 DEF Opened
  <2>12. Full'
    <3>1. Runs(p, "init")' \/ DOMAIN metadata' = Challenges
      <4>1. pc'[p] = "get" => Runs(p, "init")'
        BY <1>1, <1>6 DEF Runs, Running, Ended
      <4>2. at[p] = Len(Order) => DOMAIN metadata' = Challenges
        BY <1>2, <2>2, BeforeFacts
      <4> QED BY <1>6, <4>1, <4>2
    <3>2. Firsts(DOMAIN metadata)'
      <4>1. at[p] \in 0 .. Len(Order)
        BY CurTyped, OrderFacts
      <4> QED BY <1>2, <2>2, <4>1 DEF Firsts, Before
    <3> QED BY <1>1, <1>2, <2>2, <3>1, <3>2 DEF Full, Backed, Listed
  <2>13. Removed'
    BY <1>1, <1>6 DEF Quiet, Removed, Cur
  <2> QED BY <2>6, <2>7, <2>8, <2>9, <2>10, <2>11, <2>12, <2>13 DEF Quiet
<1> QED
  <2>1. kind[p] = "save" => pc'[p] = "done" /\ at' = at
    BY TypeParts DEF DumpMeta, Goto
  <2>2. kind[p] = "init" =>
          \/ at[p] = Len(Order) /\ pc'[p] = "initialized" /\ at'[p] = at[p]
          \/ at[p] # Len(Order) /\ pc'[p] = "get" /\ at'[p] = at[p] + 1
    BY TypeParts DEF DumpMeta, Goto
  <2> QED BY <1>4, <1>5, <1>6, <2>1, <2>2

(* Checkout has the source; the manifest is there.                         *)
LEMMA CopyQuiet ==
  ASSUME TypeOK, Place, Quiet, NEW p \in Procs, Copy(p), ~ raced'
  PROVE  Quiet'
<1>1. Alone'
  BY DEF Copy, Goto, derived, ghost, Quiet, Alone, Running, Ended, Cur, Conflict
<1>2. Making'
  BY DEF Copy, Goto, derived, ghost, Quiet, Making, MakingOf, Runs, Running, Ended, Cur, Backed,
     Listed, Readable
<1>3. Using'
  BY DEF Copy, Goto, derived, ghost, Quiet, Using, Runs, Running, Ended, Cur, Backed, Listed, OnOne
<1>4. Saving'
  BY DEF Copy, Goto, derived, ghost, Quiet, Saving, Runs, Running, Ended, Cur, Backed, Listed
<1>5. Cleaning'
  BY DEF Copy, Goto, derived, ghost, Quiet, Cleaning, Cur
<1>6. Opened'
  BY DEF Copy, Goto, derived, ghost, Quiet, Opened, Cur
<1>7. Full'
  BY DEF Copy, Goto, derived, ghost, Quiet, Full, Runs, Running, Ended, Cur, Backed, Listed,
     Readable
<1>8. Removed'
  BY DEF Copy, Goto, derived, ghost, Quiet, Removed, Cur
<1> QED BY <1>1, <1>2, <1>3, <1>4, <1>5, <1>6, <1>7, <1>8 DEF Quiet

(* Checkout ends with the patches removed.                                 *)
LEMMA RemovePatchesQuiet ==
  ASSUME TypeOK, Place, Quiet, NEW p \in Procs, RemovePatches(p), ~ raced'
  PROVE  Quiet'
<1>1. /\ pc[p] = "remove" /\ UNCHANGED <<src, manifest, patch, metadata, kind, then, at, doc, orphan, unlisted, partial>>
      /\ pc'[p] \in {"raised", "done"} /\ \A q \in Procs : q # p => pc'[q] = pc[q] /\ work'[q] = work[q]
  BY TypeParts DEF RemovePatches, Goto, derived, local, ghost, out
<1>2. /\ Running(p) /\ kind[p] = "checkout" /\ ~ Running(p)'
      /\ \A q \in Procs : Running(q)' => Running(q)
  BY <1>1, Labelled DEF Running, Ended
<1>3. /\ Readable' <=> Readable
      /\ \A q \in Procs : Runs(q, "init")' <=> Runs(q, "init")
  BY <1>1, <1>2 DEF Runs, Readable, Running
<1>4. Alone'
  BY <1>1, <1>2, AloneFrame DEF Quiet
<1>5. Making'
  <2> SUFFICES ASSUME NEW q \in Procs, Runs(q, "init")' PROVE MakingOf(q)'
    BY DEF Making
  <2>1. q # p /\ MakingOf(q)
    BY <1>2, <1>3 DEF Quiet, Making, Runs
  <2> QED BY <1>1, <1>3, <2>1 DEF MakingOf, Backed, Listed, Cur
<1>6. Using'
  <2> SUFFICES ASSUME NEW q \in Procs, Running(q)', kind'[q] \in OnOne
               PROVE  /\ kind'[q] # "patch" /\ pc'[q] # "list" /\ Backed(Cur(q))' /\ metadata' # Absent
                      /\ \A r \in Procs : Runs(r, "init")' => at'[q] < at'[r]
    BY DEF Using
  <2>1. q # p /\ Running(q) /\ kind[q] \in OnOne
    BY <1>1, <1>2
  <2> QED BY <1>1, <1>3, <2>1 DEF Quiet, Using, Backed, Listed, Cur
<1>7. Saving' /\ Cleaning'
  BY <1>1, <1>2 DEF Quiet, Saving, Cleaning, Runs, Backed, Listed
<1>8. Opened'
  BY <1>1, OpenedFrame DEF Quiet
<1>9. Full'
  BY <1>1, <1>3 DEF Quiet, Full, Backed, Listed
<1>10. Removed'
  <2>1. \A q \in Procs : Cur(q)' = Cur(q)
    BY <1>1 DEF Cur
  <2>2. ASSUME pc'[p] = "done", Cur(p) \notin unlisted PROVE work'[p] = RemovePatch(src[Cur(p)])
    <3>1. manifest[Cur(p)] = "whole"
      BY <1>1, <1>2, <2>2 DEF Quiet, Using, Backed, Listed, OnOne
    <3>2. work[p] = src[Cur(p)]
      BY <1>1, <1>2 DEF Place, PlaceOf, Runs
    <3>3. CASE HasSnippets(src[Cur(p)])
      <4>1. work' = [work EXCEPT ![p] = RemovePatch(work[p])]
        BY <2>2, <3>1, <3>3, TypeParts, BenchmarkAssumption DEF RemovePatches, Goto
      <4> QED BY <3>2, <4>1, TypeParts
    <3>4. CASE ~ HasSnippets(src[Cur(p)])
      <4>1. work' = work
        BY <3>1, <3>4 DEF RemovePatches, out
      <4> QED BY <3>2, <3>4, <4>1, CurTyped, NothingToRemove
    <3> QED BY <3>3, <3>4
  <2> QED BY <1>1, <2>1, <2>2 DEF Quiet, Removed
<1> QED BY <1>4, <1>5, <1>6, <1>7, <1>8, <1>9, <1>10 DEF Quiet

(* Clean deletes the metadata,                                             *)
LEMMA UnlinkMetadataQuiet ==
  ASSUME TypeOK, Place, Quiet, NEW p \in Procs, UnlinkMetadata(p), ~ raced'
  PROVE  Quiet'
<1>1. /\ pc[p] = "unlink" /\ UNCHANGED <<src, manifest, patch, kind, then, doc, work, unlisted>>
      /\ metadata' # Absent => partial' = partial
  <2>1. metadata' # Absent => partial' = partial
    BY TypeParts DEF UnlinkMetadata
  <2> QED BY <2>1 DEF UnlinkMetadata, out
<1>2. orphan = {} /\ \A q \in Procs : pc[q] # "dumpmeta"
  BY <1>1, CleanAlone DEF Quiet, Opened, Running, Ended
<1>3. CASE metadata = Absent
  <2>1. /\ pc'[p] = "raised" /\ metadata' = metadata /\ orphan' = {} /\ at' = at
        /\ \A q \in Procs : q # p => pc'[q] = pc[q]
    BY <1>2, <1>3, TypeParts DEF UnlinkMetadata, Goto
  <2> QED BY <1>1, <2>1, CleanStep
<1>4. CASE metadata # Absent
  <2>1. metadata' = Absent /\ CleanFrom(p, 1) /\ orphan' = {}
    BY <1>2, <1>4 DEF UnlinkMetadata, Orphans
  <2>2. /\ pc'[p] \in {"done", "rmpatch"}
        /\ \A q \in Procs : q # p => pc'[q] = pc[q] /\ at'[q] = at[q]
    BY <2>1, CleanFromTyped
  <2> QED BY <1>1, <2>1, <2>2, CleanStep
<1> QED BY <1>3, <1>4

(* then a patch,                                                           *)
LEMMA UnlinkPatchQuiet ==
  ASSUME TypeOK, Place, Quiet, NEW p \in Procs, UnlinkPatch(p), ~ raced'
  PROVE  Quiet'
<1>1. /\ pc[p] = "rmpatch" /\ UNCHANGED <<src, manifest, metadata, kind, then, at, doc, work, unlisted, partial>>
      /\ pc'[p] = "rmmanifest" /\ \A q \in Procs : q # p => pc'[q] = pc[q]
  BY TypeParts DEF UnlinkPatch, Goto, out, ghost
<1>2. metadata = Absent
  BY <1>1 DEF Quiet, Cleaning
<1>3. orphan' = {}
  BY <1>1, CleanAlone DEF UnlinkPatch, Orphans, Quiet, Opened, Running, Ended
<1> QED BY <1>1, <1>2, <1>3, CleanStep

(* then a manifest.                                                        *)
LEMMA UnlinkManifestQuiet ==
  ASSUME TypeOK, Place, Quiet, NEW p \in Procs, UnlinkManifest(p), ~ raced'
  PROVE  Quiet'
<1>1. /\ pc[p] = "rmmanifest" /\ UNCHANGED <<src, patch, metadata, kind, then, doc, work, unlisted, partial>>
      /\ CleanFrom(p, at[p] + 1)
  BY DEF UnlinkManifest, out, ghost
<1>2. metadata = Absent
  BY <1>1 DEF Quiet, Cleaning
<1>3. orphan' = {}
  BY <1>1, CleanAlone DEF UnlinkManifest, Orphans, Quiet, Opened, Running, Ended
<1>4. \A c \in Challenges : manifest'[c] \in {manifest[c], Absent}
  BY TypeParts, CurTyped DEF UnlinkManifest, Files
<1>5. /\ pc'[p] \in {"done", "rmpatch"}
      /\ \A q \in Procs : q # p => pc'[q] = pc[q] /\ at'[q] = at[q]
  <2>1. at[p] + 1 \in Nat
    BY CurTyped
  <2> QED BY <1>1, <2>1, CleanFromTyped
<1> QED BY <1>1, <1>2, <1>3, <1>4, <1>5, CleanStep

(* Who is stopped may leave one file torn, or the metadata short, which    *)
(* the history tells.                                                      *)
LEMMA StopsQuiet ==
  ASSUME TypeOK, Place, Quiet, NEW p \in Procs, NEW l \in {"killed", "raised"}, Stops(p, l),
         metadata' = metadata,
         manifest' = manifest \/ (pc[p] = "list" /\ manifest' = [manifest EXCEPT ![Cur(p)] = "whole"])
  PROVE  Quiet'
<1>1. /\ UNCHANGED <<src, patch, metadata, kind, then, at, doc, work>> /\ Running(p) /\ pc'[p] = l
      /\ \A q \in Procs : q # p => pc'[q] = pc[q]
      /\ \A q \in Procs : Cur(q)' = Cur(q)
  BY TypeParts DEF Stops, Goto, out, Cur
<1>2. \A q \in Procs : Running(q)' => q # p /\ Running(q) /\ pc'[q] = pc[q]
  BY <1>1 DEF Running, Ended
<1>3. /\ unlisted \subseteq unlisted' /\ (partial => partial') /\ orphan' = {}
      /\ pc[p] = "list" => Cur(p) \in unlisted'
      /\ pc[p] = "dumpmeta" => partial'
      /\ kind[p] = "init" /\ at[p] > 1 => partial'
  BY DEF Stops, Quiet, Opened
<1>4. \A c \in Challenges : manifest'[c] = manifest[c] \/ (manifest'[c] = "whole" /\ pc[p] = "list")
  BY TypeParts, CurTyped DEF Files
<1>5. \A c \in Challenges : (Listed(c) => Listed(c)') /\ (Backed(c) => Backed(c)')
  BY <1>1, <1>3, <1>4 DEF Listed, Backed
<1>6. \A n : Before(n)' = Before(n)
  BY DEF Before
<1>7. \A q \in Procs : Cur(q) \in Challenges /\ DOMAIN doc[q] \subseteq Challenges
  BY CurTyped, TypeParts, DocFacts
<1>8. Readable' <=> Readable
  BY <1>1 DEF Readable
<1>9. Alone'
  BY <1>1, <1>2, AloneFrame DEF Quiet
<1>10. Making'
  <2> SUFFICES ASSUME NEW q \in Procs, Runs(q, "init")' PROVE MakingOf(q)'
    BY DEF Making
  <2>1. q # p /\ Runs(q, "init") /\ pc'[q] = pc[q] /\ MakingOf(q)
    BY <1>1, <1>2 DEF Quiet, Making, Runs
  <2>2. pc[p] # "list"
    BY <1>1, <2>1, Quietly DEF Runs, OnOne
  <2>3. manifest' = manifest
    BY <2>2
  <2> QED BY <1>1, <1>5, <1>6, <1>7, <1>8, <2>1, <2>3 DEF MakingOf
<1>11. Using'
  <2> SUFFICES ASSUME NEW q \in Procs, Running(q)', kind'[q] \in OnOne
               PROVE  /\ kind'[q] # "patch" /\ pc'[q] # "list" /\ Backed(Cur(q))' /\ metadata' # Absent
                      /\ \A r \in Procs : Runs(r, "init")' => at'[q] < at'[r]
    BY DEF Using
  <2>1. /\ kind[q] # "patch" /\ pc[q] # "list" /\ Backed(Cur(q)) /\ metadata # Absent
        /\ \A r \in Procs : Runs(r, "init") => at[q] < at[r]
    BY <1>1, <1>2 DEF Quiet, Using
  <2>2. \A r \in Procs : Runs(r, "init")' => Runs(r, "init")
    BY <1>1, <1>2 DEF Runs
  <2>3. Backed(Cur(q))'
    BY <1>1, <1>5, <1>7, <2>1 DEF Backed, Listed
  <2> QED BY <1>1, <1>2, <2>1, <2>2, <2>3
<1>12. Saving'
  <2> SUFFICES ASSUME NEW q \in Procs, Runs(q, "save")'
               PROVE  /\ metadata' # Absent /\ \A c \in DOMAIN doc'[q] : Backed(c)'
                      /\ Firsts(DOMAIN doc[q])' /\ (partial' \/ DOMAIN doc'[q] = Challenges)
    BY DEF Saving
  <2>1. Runs(q, "save")
    BY <1>1, <1>2 DEF Runs
  <2>2. /\ metadata # Absent /\ \A c \in DOMAIN doc[q] : Backed(c)
        /\ Firsts(DOMAIN doc[q]) /\ (partial \/ DOMAIN doc[q] = Challenges)
    BY <2>1 DEF Quiet, Saving
  <2>3. Firsts(DOMAIN doc[q])'
    BY <1>1, <2>2 DEF Firsts, Before
  <2> QED BY <1>1, <1>3, <1>5, <1>7, <2>2, <2>3
<1>13. Cleaning'
  BY <1>1 DEF Quiet, Cleaning
<1>14. Opened'
  <2>1. \A c \in Challenges : manifest'[c] = Torn => c \in unlisted' \/ \E q \in Procs : pc'[q] = "list" /\ Cur(q)' = c
    <3> SUFFICES ASSUME NEW c \in Challenges, manifest'[c] = Torn, c \notin unlisted'
                 PROVE  \E q \in Procs : pc'[q] = "list" /\ Cur(q)' = c
      OBVIOUS
    <3>1. manifest[c] = Torn /\ c \notin unlisted
      BY <1>3, <1>4, BenchmarkAssumption
    <3>2. PICK q \in Procs : pc[q] = "list" /\ Cur(q) = c
      BY <3>1 DEF Quiet, Opened
    <3>3. q # p
      BY <1>3, <3>2
    <3> QED BY <1>1, <3>2, <3>3
  <2>2. metadata' = Torn => partial' \/ \E q \in Procs : pc'[q] = "dumpmeta"
    <3> SUFFICES ASSUME metadata = Torn, ~ partial' PROVE \E q \in Procs : pc'[q] = "dumpmeta"
      BY <1>1
    <3>1. PICK q \in Procs : pc[q] = "dumpmeta"
      BY <1>3 DEF Quiet, Opened
    <3> QED BY <1>1, <1>3, <3>1
  <2>3. \A q \in Procs : pc'[q] = "dumpmeta" => pc[q] = "dumpmeta"
    BY <1>1
  <2> QED BY <1>1, <1>3, <2>1, <2>2, <2>3 DEF Quiet, Opened
<1>15. Full'
  <2> SUFFICES ASSUME Readable
               PROVE  /\ Firsts(DOMAIN metadata)' /\ \A c \in DOMAIN metadata' : Backed(c)'
                      /\ (\A q \in Procs : ~ Runs(q, "init")')
                           => partial' \/ DOMAIN metadata' = Challenges'
    BY <1>8 DEF Full
  <2>1. /\ Firsts(DOMAIN metadata) /\ \A c \in DOMAIN metadata : Backed(c)
        /\ (\A q \in Procs : ~ Runs(q, "init")) => partial \/ DOMAIN metadata = Challenges
    BY DEF Quiet, Full
  <2>2. Firsts(DOMAIN metadata)'
    BY <1>1, <2>1 DEF Firsts, Before
  <2>3. DOMAIN metadata \subseteq Challenges
    <3>1. IsDoc(metadata)
      BY TypeParts DEF Readable
    <3> QED BY <3>1, DocFacts
  <2>4. Challenges' = Challenges
    BY DEF Challenges
  <2>5. ASSUME \A q \in Procs : ~ Runs(q, "init")' PROVE partial' \/ DOMAIN metadata = Challenges
    <3>1. CASE Runs(p, "init")
      <4>1. at[p] \in Nat \ {0} /\ (at[p] = 1 /\ pc[p] # "dumpmeta" => metadata = Absent)
        BY <3>1, CurTyped, OrderFacts DEF Quiet, Making, MakingOf
      <4> QED BY <1>3, <3>1, <4>1 DEF Runs, Readable
    <3>2. CASE ~ Runs(p, "init")
      <4>1. \A q \in Procs : ~ Runs(q, "init")
        BY <1>1, <2>5, <3>2 DEF Runs, Running
      <4> QED BY <1>3, <2>1, <4>1
    <3> QED BY <3>1, <3>2
  <2> QED BY <1>1, <1>5, <2>1, <2>2, <2>3, <2>4, <2>5
<1>16. Removed'
  <2> SUFFICES ASSUME NEW q \in Procs, pc'[q] = "done", kind'[q] = "checkout", Cur(q)' \notin unlisted'
               PROVE  work'[q] = RemovePatch(src'[Cur(q)'])
    BY DEF Removed
  <2>1. q # p
    BY <1>1
  <2> QED BY <1>1, <1>3, <2>1 DEF Quiet, Removed
<1> QED BY <1>9, <1>10, <1>11, <1>12, <1>13, <1>14, <1>15, <1>16 DEF Quiet

(* A kill leaves what is open as it is.                                    *)
LEMMA KillQuiet ==
  ASSUME TypeOK, Place, Quiet, NEW p \in Procs, Kill(p), ~ raced'
  PROVE  Quiet'
BY StopsQuiet DEF Kill

(* An exception closes it: the metadata are torn as they were, a manifest  *)
(* may be whole.                                                           *)
LEMMA RaisesQuiet ==
  ASSUME TypeOK, Place, Quiet, NEW p \in Procs, Raises(p), ~ raced'
  PROVE  Quiet'
<1>1. orphan = {} /\ (pc[p] = "dumpmeta" => metadata = Torn)
  BY DEF Quiet, Opened
<1>2. Closes(p, manifest) = [manifest EXCEPT ![Cur(p)] = "whole"]
  BY <1>1 DEF Closes
<1>3. metadata' = metadata
  BY <1>1 DEF Raises
<1> QED BY <1>2, <1>3, StopsQuiet DEF Raises

-----------------------------------------------------------------------------
(* The invariant holds, and what follows.                                  *)

(* At first nothing runs and no file is there.                             *)
LEMMA InitInv == Init => Inv
<1> SUFFICES ASSUME Init PROVE Inv
  OBVIOUS
<1>1. TypeOK
  BY InitTyped
<1>2. \A p \in Procs : pc[p] = "idle" /\ ~ Running(p)
  BY DEF Init, Running, Ended
<1>3. /\ metadata = Absent /\ ~ Readable /\ orphan = {} /\ Absent # Torn
      /\ \A c \in Challenges : manifest[c] = Absent
  BY BenchmarkAssumption DEF Init, Readable
<1>4. Place
  BY <1>2 DEF Place, PlaceOf, Runs
<1>5. Alone /\ Making /\ Using /\ Saving /\ Cleaning
  BY <1>2 DEF Alone, Making, Using, Saving, Cleaning, Runs
<1>6. Opened /\ Full /\ Removed
  BY <1>2, <1>3 DEF Opened, Full, Removed
<1> QED BY <1>1, <1>4, <1>5, <1>6 DEF Inv, Calm, Quiet

(* Once raced, always raced.                                               *)
LEMMA RacedStays ==
  ASSUME TypeOK, Next
  PROVE  raced => raced'
<1> SUFFICES ASSUME NEW p \in Procs, raced,
                    \/ StartInit(p) \/ Refused(p) \/ StartClean(p) \/ StartSave(p)
                    \/ \E k \in OnOne : StartOn(p, k)
                    \/ GetManifest(p) \/ ListFiles(p) \/ OpenPatch(p) \/ DumpPatch(p)
                    \/ OpenMeta(p) \/ DumpMeta(p) \/ Copy(p) \/ RemovePatches(p)
                    \/ UnlinkMetadata(p) \/ UnlinkPatch(p) \/ UnlinkManifest(p) \/ Kill(p) \/ Raises(p)
             PROVE  raced'
  BY DEF Next
<1>1. CASE \E k \in Kinds : Starts(p, k)
  BY <1>1 DEF Starts
<1>2. CASE UNCHANGED raced
  BY <1>2
<1>3. (\E k \in Kinds : Starts(p, k)) \/ UNCHANGED raced
  BY DEF StartInit, Refused, StartClean, StartSave, StartOn, GetManifest, ListFiles, OpenPatch,
         DumpPatch, OpenMeta, DumpMeta, Copy, RemovePatches, UnlinkMetadata,
         UnlinkPatch, UnlinkManifest, Kill, Raises, Stops, Kinds, OnOne, ghost
<1> QED BY <1>1, <1>2, <1>3

(* Every step keeps the invariant: the lemma of its action.                *)
LEMMA InvStep == Inv /\ [Next]_vars => Inv'
<1> SUFFICES ASSUME Inv, [Next]_vars PROVE Inv'
  OBVIOUS
<1>1. TypeOK' /\ Place'
  BY TypeStep, PlaceStep DEF Inv
<1>2. CASE Next
  <2> SUFFICES ASSUME ~ raced' PROVE Quiet'
    BY <1>1 DEF Inv, Calm
  <2>1. TypeOK /\ Place /\ Quiet
    BY <1>2, RacedStays DEF Inv, Calm
  <2> QED
    BY <1>2, <2>1, StartInitQuiet, RefusedQuiet, StartCleanQuiet, StartSaveQuiet, StartOnQuiet,
       GetManifestQuiet, ListFilesQuiet, OpenPatchQuiet, DumpPatchQuiet, OpenMetaQuiet,
       DumpMetaQuiet, CopyQuiet, RemovePatchesQuiet, UnlinkMetadataQuiet,
       UnlinkPatchQuiet, UnlinkManifestQuiet, KillQuiet, RaisesQuiet DEF Next
<1>3. CASE UNCHANGED vars
  <2>1. /\ UNCHANGED <<src, manifest, patch, metadata, pc, kind, then, at, doc, orphan, work>>
        /\ UNCHANGED <<raced, unlisted, partial>>
    BY <1>3 DEF vars, derived, local, out, ghost
  <2>2. /\ Readable' <=> Readable
        /\ \A p \in Procs : (Running(p)' <=> Running(p)) /\ Cur(p)' = Cur(p)
        /\ \A p \in Procs : \A k \in Kinds : Runs(p, k)' <=> Runs(p, k)
        /\ \A c : Backed(c)' <=> Backed(c)
        /\ \A c : Listed(c)' <=> Listed(c)
    BY <2>1 DEF Readable, Running, Cur, Runs, Backed, Listed
  <2>3. Alone' <=> Alone
    BY <2>1, <2>2 DEF Alone
  <2>4. Making' <=> Making
    BY <2>1, <2>2 DEF Making, MakingOf, Kinds
  <2>5. Using' <=> Using
    BY <2>1, <2>2 DEF Using, Kinds
  <2>6. Saving' <=> Saving
    BY <2>1, <2>2 DEF Saving, Kinds
  <2>7. (Opened' <=> Opened) /\ (Cleaning' <=> Cleaning)
    BY <2>1, <2>2 DEF Opened, Cleaning
  <2>8. (Full' <=> Full) /\ (Removed' <=> Removed)
    BY <2>1, <2>2 DEF Full, Removed, Kinds
  <2> QED BY <1>1, <2>1, <2>3, <2>4, <2>5, <2>6, <2>7, <2>8 DEF Inv, Calm, Quiet
<1> QED BY <1>2, <1>3

(* The invariant holds of every behaviour.                                 *)
LEMMA InvHolds == Spec => []Inv
BY InitInv, InvStep, PTL DEF Spec

(* Every variable keeps its type, whatever runs together or is stopped.    *)
THEOREM TypeCorrect == Spec => []TypeOK
<1>1. Inv => TypeOK
  BY DEF Inv
<1> QED BY <1>1, InvHolds, PTL

(* Who reads the metadata finds behind every entry the files init.py       *)
(* writes before it (init.py, clean.py), unless two commands were in       *)
(* conflict.                                                               *)
THEOREM EntriesAreBacked == Spec => []EntryIsBacked
<1>1. Inv => EntryIsBacked
  BY DEF Inv, Calm, Quiet, Full, Backed, Listed, EntryIsBacked
<1> QED BY <1>1, InvHolds, PTL

(* When every source file is plain, a checkout that ends well holds what   *)
(* the preprocessor leaves with no PATCHED defined (checkout.py,           *)
(* remove_patches).                                                        *)
THEOREM CheckoutsAreUnpatched ==
  ASSUME \A lines \in Sources : Plain(lines)
  PROVE  Spec => []CheckoutIsUnpatched
<1>1. Inv => CheckoutIsUnpatched
  <2> SUFFICES ASSUME Inv, NEW p \in Procs, CheckedOut(p) PROVE work[p] = Unpatched(src[Cur(p)])
    BY DEF CheckoutIsUnpatched
  <2>1. work[p] = RemovePatch(src[Cur(p)])
    BY DEF Inv, Calm, Quiet, Removed, CheckedOut
  <2>2. src[Cur(p)] \in Sources /\ src[Cur(p)] \in Seq(LineKinds)
    BY CurTyped DEF Inv, TypeOK
  <2>3. \A lines \in Seq(LineKinds) : Plain(lines) => RemovePatch(lines) = Unpatched(lines)
    BY RemovalIsUnpatched
  <2> QED BY <2>1, <2>2, <2>3
<1> QED BY <1>1, InvHolds, PTL

(* The step AlreadyMeansWhole is about.                                    *)
SaysAlready ==
  \A p \in Procs :
    Running(p) = FALSE /\ starts' > starts /\ pc'[p] = "already" /\ pc[p] # "already"
      /\ ~ raced'
    => /\ Readable => Firsts(DOMAIN metadata)
       /\ partial \/ (Readable /\ DOMAIN metadata = Challenges)

(* Who finds the metadata there and started alone of its kind has all of   *)
(* it before him.                                                          *)
LEMMA SaysWell ==
  ASSUME Inv, Next
  PROVE  SaysAlready
<1> SUFFICES ASSUME NEW q \in Procs, ~ Running(q), pc'[q] = "already", pc[q] # "already",
                    ~ raced'
             PROVE  /\ Readable => Firsts(DOMAIN metadata)
                    /\ partial \/ (Readable /\ DOMAIN metadata = Challenges)
  BY DEF SaysAlready
<1>1. TypeOK /\ Place /\ Quiet
  BY RacedStays DEF Inv, Calm
<1>2. pc \in [Procs -> Labels] /\ "init" \in Kinds
  BY <1>1 DEF TypeOK, Kinds
<1>3. StartInit(q)
  <2> PICK p \in Procs :
        \/ StartInit(p) \/ Refused(p) \/ StartClean(p) \/ StartSave(p)
        \/ \E k \in OnOne : StartOn(p, k)
        \/ GetManifest(p) \/ ListFiles(p) \/ OpenPatch(p) \/ DumpPatch(p)
        \/ OpenMeta(p) \/ DumpMeta(p) \/ Copy(p) \/ RemovePatches(p)
        \/ UnlinkMetadata(p) \/ UnlinkPatch(p) \/ UnlinkManifest(p) \/ Kill(p) \/ Raises(p)
    BY DEF Next
  <2>1. \E l : Goto(p, l) 
    BY DEF StartInit, Refused, StartClean, StartSave, StartOn, GetManifest, ListFiles, OpenPatch,
           DumpPatch, OpenMeta, DumpMeta, Copy, RemovePatches, UnlinkMetadata,
           UnlinkPatch, UnlinkManifest, Kill, Raises, Stops, CleanFrom
  <2>2. p = q
    BY <1>2, <2>1 DEF Goto
  <2>3. ~ Running(p) => pc[p] \in Ended
    BY DEF Running
  <2> QED
    BY <1>2, <2>2, <2>3 DEF Ended, Goto, Running, Refused, StartClean, StartSave, StartOn, OnOne,
       GetManifest, ListFiles, OpenPatch, DumpPatch, OpenMeta, DumpMeta, Copy, RemovePatches,
       UnlinkMetadata, UnlinkPatch, UnlinkManifest, Kill, Raises, Stops
<1>4. metadata # Absent
  BY <1>2, <1>3 DEF StartInit, Goto
<1>5. \A r \in Procs : Running(r) => ~ Conflict("init", kind[r])
  BY <1>3 DEF StartInit, Starts
<1>6. \A r \in Procs : Running(r) => kind[r] \in OnOne
  BY <1>1, <1>5 DEF TypeOK, Kinds, Conflict
<1>7. metadata = Torn => partial
  <2> SUFFICES ASSUME NEW r \in Procs, pc[r] = "dumpmeta" PROVE FALSE
    BY <1>1 DEF Quiet, Opened
  <2> QED BY <1>1, <1>6, Labelled DEF Running, Ended, OnOne
<1>8. \A r \in Procs : ~ Runs(r, "init")
  BY <1>6 DEF Runs, OnOne
<1> QED BY <1>1, <1>4, <1>7, <1>8 DEF Quiet, Full, Readable

(* "Benchmark already initialized" (init.py) is said only of a benchmark   *)
(* that is whole, unless someone was stopped, by a kill or an exception,   *)
(* in writing the metadata or before the last challenge; and whatever is   *)
(* there to read has the first challenges only.                            *)
THEOREM AlreadyIsWhole == Spec => AlreadyMeansWhole
<1>1. Inv /\ [Next]_vars => [SaysAlready]_vars
  BY SaysWell
<1>2. [][SaysAlready]_vars => AlreadyMeansWhole
  BY PTL DEF SaysAlready, AlreadyMeansWhole
<1> QED BY <1>1, <1>2, InvHolds, PTL DEF Spec

=============================================================================
