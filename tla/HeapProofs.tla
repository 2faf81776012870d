----------------------------- MODULE HeapProofs -----------------------------
(***************************************************************************)
(* Proofs about the heap of the POVs, for blocks and pages of any size and *)
(* any number of requests.  What splitting, joining and marking chunks     *)
(* does to the headers is stated first, place by place; then that each     *)
(* keeps the chunks laid out and what it does to the pieces in use; then   *)
(* the steps.                                                              *)
(***************************************************************************)
EXTENDS Heap, TLAPS

(* Every prev_size but those in S leads back no further than to the chunk  *)
(* before.                                                                 *)
BehindBut(h, S) ==
  \A x \in DOMAIN h \ S :
    \/ h[x].is = "end" \/ h[x].prev = 0
    \/ \E p \in DOMAIN h :
         p < x /\ After(h, p) = x /\ h[p].is # "end" /\ h[x].prev <= h[p].size

(* What all operations keep of the headers.                                *)
Sound(h, t, S) == t \in Nat /\ TypedHeap(h) /\ EndToEnd(h, t) /\ BehindBut(h, S)

(* Outside of A the pieces of g are those of h.                            *)
SameUsed(h, g, A) ==
  \A x \in (DOMAIN h \cup DOMAIN g) \ A :
    /\ (x \in DOMAIN g /\ g[x].is = "used") <=> (x \in DOMAIN h /\ h[x].is = "used")
    /\ x \in DOMAIN h /\ h[x].is = "used" =>
         g[x].size = h[x].size /\ g[x].asked = h[x].asked /\ g[x].owner = h[x].owner

(* Writing headers over others.                                            *)
LEMMA OverFacts ==
  ASSUME NEW h, NEW g
  PROVE  /\ DOMAIN Over(h, g) = DOMAIN h \cup DOMAIN g
         /\ \A x \in DOMAIN g : Over(h, g)[x] = g[x]
         /\ \A x \in DOMAIN h \ DOMAIN g : Over(h, g)[x] = h[x]
BY DEF Over

LEMMA MinusFacts ==
  ASSUME NEW h, NEW P
  PROVE  /\ DOMAIN Minus(h, P) = DOMAIN h \ P
         /\ \A x \in DOMAIN h \ P : Minus(h, P)[x] = h[x]
BY DEF Minus

-----------------------------------------------------------------------------
(* A new block.                                                            *)
LEMMA BlockFacts ==
  ASSUME NEW h, NEW t \in Nat
  PROVE  /\ DOMAIN Block(h, t) = DOMAIN h \cup {t, t + Room}
         /\ Block(h, t)[t] = Hdr(Room, 0, "free")
         /\ Block(h, t)[t + Room] = Hdr(1, Room, "end")
         /\ \A x \in DOMAIN h \ {t, t + Room} : Block(h, t)[x] = h[x]
<1>1. t # t + Room
  BY HeapAssumption
<1> DEFINE w == [a \in {t, t + Room} |->
                   IF a = t THEN Hdr(Room, 0, "free") ELSE Hdr(1, Room, "end")]
<1>2. /\ DOMAIN w = {t, t + Room}
      /\ w[t] = Hdr(Room, 0, "free") /\ w[t + Room] = Hdr(1, Room, "end")
  BY <1>1
<1>3. Block(h, t) = Over(h, w)
  BY DEF Block
<1> HIDE DEF w
<1> QED BY <1>2, <1>3 DEF Over

LEMMA BlockSound ==
  ASSUME NEW h, NEW t, NEW S, Sound(h, t, S)
  PROVE  /\ Sound(Block(h, t), t + Room + 1, S)
         /\ SameUsed(h, Block(h, t), {})
         /\ t \notin DOMAIN h
<1> DEFINE g == Block(h, t)
<1>1. Room \in Nat /\ 2 < Room /\ t \in Nat
  BY HeapAssumption DEF Sound
<1>2. /\ DOMAIN g = DOMAIN h \cup {t, t + Room}
      /\ g[t] = Hdr(Room, 0, "free") /\ g[t + Room] = Hdr(1, Room, "end")
      /\ \A x \in DOMAIN h \ {t, t + Room} : g[x] = h[x]
  BY <1>1, BlockFacts
<1> HIDE DEF g
<1>3. \A x \in DOMAIN h : x \in Nat /\ h[x].size \in Nat /\ x < t /\ After(h, x) <= t
  BY <1>1 DEF Sound, TypedHeap, EndToEnd, Header, After
<1>4. t \notin DOMAIN h /\ t + Room \notin DOMAIN h
  BY <1>1, <1>3
<1>5. /\ g[t] \in Header /\ g[t].size = Room /\ g[t].prev = 0
      /\ g[t].is = "free" /\ g[t].owner = Nobody
      /\ g[t + Room] \in Header /\ g[t + Room].size = 1
      /\ g[t + Room].is = "end" /\ g[t + Room].owner = Nobody
  BY <1>1, <1>2 DEF Hdr, Header
<1>6. \A x \in DOMAIN h : g[x] = h[x]
  BY <1>2, <1>4
<1>7. TypedHeap(g)
  BY <1>1, <1>2, <1>5, <1>6 DEF Sound, TypedHeap
<1>8. EndToEnd(g, t + Room + 1)
  <2>1. ASSUME NEW x \in DOMAIN g
        PROVE  /\ 0 < g[x].size /\ After(g, x) <= t + Room + 1
               /\ g[x].is # "end" => After(g, x) \in DOMAIN g
    BY <1>1, <1>2, <1>3, <1>5, <1>6 DEF Sound, EndToEnd, After
  <2>2. ASSUME NEW x \in DOMAIN g, NEW y \in DOMAIN g, x < y
        PROVE  After(g, x) <= y
    BY <1>1, <1>2, <1>3, <1>5, <1>6, <2>2 DEF Sound, EndToEnd, After
  <2> QED BY <2>1, <2>2 DEF EndToEnd
<1>9. BehindBut(g, S)
  <2> SUFFICES ASSUME NEW x \in DOMAIN g, x \notin S, g[x].is # "end", g[x].prev # 0
               PROVE  \E p \in DOMAIN g :
                        p < x /\ After(g, p) = x /\ g[p].is # "end" /\ g[x].prev <= g[p].size
    BY DEF BehindBut
  <2>1. x \in DOMAIN h
    BY <1>2, <1>5
  <2>2. PICK p \in DOMAIN h :
          p < x /\ After(h, p) = x /\ h[p].is # "end" /\ h[x].prev <= h[p].size
    BY <1>6, <2>1 DEF Sound, BehindBut
  <2> QED BY <1>2, <1>6, <2>1, <2>2 DEF After
<1>10. SameUsed(h, g, {})
  BY <1>2, <1>5, <1>6 DEF SameUsed
<1> QED BY <1>1, <1>4, <1>7, <1>8, <1>9, <1>10 DEF Sound, g

-----------------------------------------------------------------------------
(* A chunk is cut: u of n + 1 units at a, the rest free behind it.  The    *)
(* chunk behind both, at b, is not told, so nothing is said of its         *)
(* prev_size here.                                                         *)
Carved(h, a, s, n, o, g) ==
  LET c == a + n + 1
  IN  /\ s = n + 1 => DOMAIN g = DOMAIN h /\ \A x \in DOMAIN h \ {a} : g[x] = h[x]
      /\ s # n + 1 => /\ DOMAIN g = DOMAIN h \cup {c}
                      /\ g[c] = Hdr(s - n - 1, n + 1, "free")
      /\ g[a] = UsedHdr(n, h[a].prev, o)
      /\ \A x \in DOMAIN h \ {a, c} : g[x] = h[x]

LEMMA CarveFacts ==
  ASSUME NEW h, NEW a \in DOMAIN h, NEW s \in Nat, NEW n \in Nat, NEW o, a \in Nat
  PROVE  Carved(h, a, s, n, o, Carve(h, a, s, n, o))
<1> DEFINE g == Carve(h, a, s, n, o)
           c == a + n + 1
           u == UsedHdr(n, h[a].prev, o)
           f == Hdr(s - n - 1, n + 1, "free")
<1>1. a # c
  OBVIOUS
<1>2. CASE s = n + 1
  <2>1. g = Over(h, [x \in {a} |-> u])
    BY <1>2 DEF Carve
  <2> HIDE DEF g, c, u, f
  <2>2. DOMAIN g = DOMAIN h /\ g[a] = u /\ \A x \in DOMAIN h \ {a} : g[x] = h[x]
    BY <2>1 DEF Over
  <2> QED BY <1>2, <2>2 DEF g, c, u, f, Carved
<1>3. CASE s # n + 1
  <2> DEFINE w == [x \in {a, c} |-> IF x = a THEN u ELSE f]
  <2>1. g = Over(h, w)
    BY <1>3 DEF Carve
  <2>2. DOMAIN w = {a, c} /\ w[a] = u /\ w[c] = f
    BY <1>1
  <2> HIDE DEF g, c, u, f, w
  <2>3. /\ DOMAIN g = DOMAIN h \cup {c}
        /\ g[a] = u /\ g[c] = f /\ \A x \in DOMAIN h \ {a, c} : g[x] = h[x]
    BY <2>1, <2>2 DEF Over
  <2> QED BY <1>3, <2>3 DEF g, c, u, f, Carved
<1> QED BY <1>2, <1>3

(* Nothing is said here of the prev_size of the chunk behind both.         *)
CutOff(h, a, s, n, o, b, t, S, g) ==
  /\ TypedHeap(g) /\ EndToEnd(g, t) /\ BehindBut(g, S \cup {b})
  /\ SameUsed(h, g, {a})
  /\ a \in DOMAIN g /\ g[a] = UsedHdr(n, h[a].prev, o)
  /\ b \in DOMAIN g /\ g[b] = h[b]
  /\ \E p \in DOMAIN g :
       /\ p < b /\ After(g, p) = b /\ g[p].is # "end"
       /\ g[p].size = IF s = n + 1 THEN s ELSE s - n - 1

LEMMA CarveSound ==
  ASSUME NEW h, NEW t, NEW S, Sound(h, t, S), NEW a \in DOMAIN h, h[a].is # "end",
         NEW s, s = h[a].size, NEW n \in Nat, n + 1 <= s, n + 1 <= Page, NEW o \in Owners,
         NEW g, g = Carve(h, a, s, n, o), NEW b, b = After(h, a)
  PROVE  CutOff(h, a, s, n, o, b, t, S, g)
<1> DEFINE c == a + n + 1
<1>1. a \in Nat /\ s \in Nat /\ h[a].prev \in Nat /\ t \in Nat
  BY DEF Sound, TypedHeap, Header
<1>2. b \in DOMAIN h /\ a < b /\ b = a + s
  BY <1>1 DEF Sound, EndToEnd, After
<1>3. /\ s = n + 1 => DOMAIN g = DOMAIN h /\ \A x \in DOMAIN h \ {a} : g[x] = h[x]
      /\ s # n + 1 => /\ DOMAIN g = DOMAIN h \cup {c}
                      /\ g[c] = Hdr(s - n - 1, n + 1, "free")
      /\ g[a] = UsedHdr(n, h[a].prev, o)
      /\ \A x \in DOMAIN h \ {a, c} : g[x] = h[x]
  <2>1. Carved(h, a, s, n, o, g)
    BY <1>1, CarveFacts
  <2> QED BY <2>1 DEF Carved
<1>4. \A x \in DOMAIN h : x \in Nat /\ h[x].size \in Nat
  BY DEF Sound, TypedHeap, Header
<1>5. s # n + 1 => c \notin DOMAIN h
  BY <1>1, <1>2, <1>4 DEF Sound, EndToEnd, After
<1>6. /\ g[a] \in Header /\ g[a].size = n + 1 /\ g[a].prev = h[a].prev
      /\ g[a].is = "used" /\ g[a].owner = o /\ g[a].asked = n
  BY <1>1, <1>3 DEF UsedHdr, Header
<1>7. s # n + 1 => /\ g[c] \in Header /\ g[c].size = s - n - 1 /\ g[c].prev = n + 1
                   /\ g[c].is = "free" /\ g[c].owner = Nobody
  BY <1>1, <1>3 DEF Hdr, Header
<1>8. \A x \in DOMAIN h \ {a} : g[x] = h[x]
  BY <1>3, <1>5
<1>9. TypedHeap(g)
  <2> SUFFICES ASSUME NEW x \in DOMAIN g
               PROVE  /\ x \in Nat /\ g[x] \in Header
                      /\ g[x].is = "used" =>
                           g[x].asked < g[x].size /\ g[x].size <= Page /\ g[x].owner \in Owners
                      /\ g[x].is # "used" => g[x].owner = Nobody
    BY DEF TypedHeap
  <2>1. CASE x = a
    BY <1>1, <1>6, <2>1
  <2>2. CASE x # a /\ x \in DOMAIN h
    BY <1>8, <2>2 DEF Sound, TypedHeap
  <2>3. CASE s # n + 1 /\ x = c
    BY <1>1, <1>7, <2>3
  <2> QED BY <1>3, <2>1, <2>2, <2>3
<1>10. EndToEnd(g, t)
  <2>1. ASSUME NEW x \in DOMAIN g
        PROVE  /\ 0 < g[x].size /\ After(g, x) <= t
               /\ g[x].is # "end" => After(g, x) \in DOMAIN g
    BY <1>1, <1>2, <1>3, <1>4, <1>6, <1>7, <1>8 DEF Sound, EndToEnd, After
  <2>2. ASSUME NEW x \in DOMAIN g, NEW y \in DOMAIN g, x < y
        PROVE  After(g, x) <= y
    <3>1. CASE x \in DOMAIN h /\ y \in DOMAIN h
      BY <1>1, <1>4, <1>6, <1>8, <2>2, <3>1 DEF Sound, EndToEnd, After
    <3>2. CASE x \in DOMAIN h /\ s # n + 1 /\ y = c
      <4>1. x <= a
        BY <1>1, <1>2, <1>4, <2>2, <3>2 DEF Sound, EndToEnd, After
      <4>2. x < a => After(h, x) <= a
        BY <3>2 DEF Sound, EndToEnd
      <4> QED BY <1>1, <1>4, <1>6, <1>8, <3>2, <4>1, <4>2 DEF After
    <3>3. CASE s # n + 1 /\ x = c /\ y \in DOMAIN h
      <4>1. a < y => b <= y
        BY <1>2, <3>3 DEF Sound, EndToEnd
      <4> QED BY <1>1, <1>2, <1>4, <1>7, <2>2, <3>3, <4>1 DEF After
    <3> QED BY <1>1, <1>3, <2>2, <3>1, <3>2, <3>3
  <2> QED BY <2>1, <2>2 DEF EndToEnd
<1>11. BehindBut(g, S \cup {b})
  <2> SUFFICES ASSUME NEW x \in DOMAIN g, x \notin S \cup {b}, g[x].is # "end", g[x].prev # 0
               PROVE  \E p \in DOMAIN g :
                        p < x /\ After(g, p) = x /\ g[p].is # "end" /\ g[x].prev <= g[p].size
    BY DEF BehindBut
  <2>1. CASE x \in DOMAIN h
    <3>1. h[x].is # "end" /\ h[x].prev = g[x].prev
      BY <1>6, <1>8, <2>1
    <3>2. PICK p \in DOMAIN h :
            p < x /\ After(h, p) = x /\ h[p].is # "end" /\ h[x].prev <= h[p].size
      BY <2>1, <3>1 DEF Sound, BehindBut
    <3>3. p # a
      BY <1>2, <3>2
    <3> QED BY <1>3, <1>8, <3>1, <3>2, <3>3 DEF After
  <2>2. CASE s # n + 1 /\ x = c
    BY <1>1, <1>3, <1>6, <1>7, <2>2 DEF After
  <2> QED BY <1>3, <2>1, <2>2
<1>12. SameUsed(h, g, {a})
  BY <1>3, <1>5, <1>7, <1>8 DEF SameUsed
<1>13. a \in DOMAIN g /\ b \in DOMAIN g /\ g[b] = h[b]
  BY <1>1, <1>2, <1>3, <1>8
<1>14. \E p \in DOMAIN g :
          /\ p < b /\ After(g, p) = b /\ g[p].is # "end"
          /\ g[p].size = IF s = n + 1 THEN s ELSE s - n - 1
  <2>1. CASE s = n + 1
    <3>1. a < b /\ After(g, a) = b /\ g[a].is # "end" /\ g[a].size = s
      BY <1>1, <1>2, <1>6, <2>1 DEF After
    <3> QED BY <1>13, <2>1, <3>1
  <2>2. CASE s # n + 1
    <3>1. c \in DOMAIN g /\ c < b /\ After(g, c) = b
      BY <1>1, <1>2, <1>3, <1>7, <2>2 DEF After
    <3> QED BY <1>7, <2>2, <3>1
  <2> QED BY <2>1, <2>2
<1> QED BY <1>3, <1>9, <1>10, <1>11, <1>12, <1>13, <1>14 DEF CutOff

-----------------------------------------------------------------------------
(* A prev_size is written: it must lead back to the chunk before, or be    *)
(* one of those of which nothing is said.                                  *)
Told(h, b, t, S, g) ==
  /\ Sound(g, t, S) /\ SameUsed(h, g, {})
  /\ DOMAIN g = DOMAIN h /\ \A x \in DOMAIN h \ {b} : g[x] = h[x]

LEMMA SetPrevSound ==
  ASSUME NEW h, NEW t \in Nat, NEW S, TypedHeap(h), EndToEnd(h, t),
         NEW b \in DOMAIN h, BehindBut(h, S \cup {b}), NEW s \in Nat,
         \/ b \in S \/ h[b].is = "end"
         \/ \E p \in DOMAIN h :
              p < b /\ After(h, p) = b /\ h[p].is # "end" /\ s <= h[p].size
  PROVE  Told(h, b, t, S, SetPrev(h, b, s))
<1> DEFINE g == SetPrev(h, b, s)
<1>1. /\ DOMAIN g = DOMAIN h /\ g[b] = [h[b] EXCEPT !.prev = s]
      /\ \A x \in DOMAIN h \ {b} : g[x] = h[x]
  BY DEF SetPrev, Over
<1> HIDE DEF g
<1>2. h[b] \in Header
  BY DEF TypedHeap
<1>3. /\ g[b] \in Header /\ g[b].size = h[b].size /\ g[b].prev = s
      /\ g[b].is = h[b].is /\ g[b].asked = h[b].asked /\ g[b].owner = h[b].owner
  BY <1>1, <1>2 DEF Header
<1>4. TypedHeap(g)
  <2> SUFFICES ASSUME NEW x \in DOMAIN g
               PROVE  /\ x \in Nat /\ g[x] \in Header
                      /\ g[x].is = "used" =>
                           g[x].asked < g[x].size /\ g[x].size <= Page /\ g[x].owner \in Owners
                      /\ g[x].is # "used" => g[x].owner = Nobody
    BY DEF TypedHeap
  <2>1. CASE x = b
    BY <1>3, <2>1 DEF TypedHeap
  <2>2. CASE x # b
    BY <1>1, <2>2 DEF TypedHeap
  <2> QED BY <2>1, <2>2
<1>5. \A x \in DOMAIN h : /\ g[x].size = h[x].size /\ g[x].is = h[x].is
                         /\ g[x].asked = h[x].asked /\ g[x].owner = h[x].owner
                         /\ After(g, x) = After(h, x)
  BY <1>1, <1>3 DEF After
<1>6. EndToEnd(g, t)
  BY <1>1, <1>5 DEF EndToEnd
<1>7. BehindBut(g, S)
  <2> SUFFICES ASSUME NEW x \in DOMAIN h, x \notin S, h[x].is # "end", g[x].prev # 0
               PROVE  \E p \in DOMAIN h :
                        p < x /\ After(h, p) = x /\ h[p].is # "end" /\ g[x].prev <= h[p].size
    BY <1>1, <1>5 DEF BehindBut
  <2>1. CASE x = b
    BY <1>3, <2>1
  <2>2. CASE x # b
    BY <1>1, <2>2 DEF BehindBut
  <2> QED BY <2>1, <2>2
<1>8. SameUsed(h, g, {})
  BY <1>1, <1>5 DEF SameUsed
<1> QED BY <1>1, <1>4, <1>6, <1>7, <1>8 DEF Sound, Told, g

-----------------------------------------------------------------------------
(* A chunk is taken for o: what the pieces are after it.                   *)
Taken(h, a, n, o, g, t, S) ==
  /\ Sound(g, t, S) /\ SameUsed(h, g, {a})
  /\ a \in DOMAIN g /\ g[a].is = "used"
  /\ g[a].size = n + 1 /\ g[a].asked = n /\ g[a].owner = o

LEMMA TakeSound ==
  ASSUME NEW h, NEW t, NEW S, Sound(h, t, S), NEW a \in DOMAIN h, h[a].is # "end",
         NEW n \in Nat, n + 1 <= h[a].size, n + 1 <= Page, NEW o \in Owners
  PROVE  Taken(h, a, n, o, Take(h, a, n, o), t, S)
<1> DEFINE s == h[a].size
           b == After(h, a)
           g == Carve(h, a, s, n, o)
<1>1. a \in Nat /\ s \in Nat /\ h[a].prev \in Nat /\ t \in Nat /\ b = a + s
  BY DEF Sound, TypedHeap, Header, After
<1>2. /\ TypedHeap(g) /\ EndToEnd(g, t) /\ BehindBut(g, S \cup {b})
      /\ SameUsed(h, g, {a})
      /\ a \in DOMAIN g /\ g[a] = UsedHdr(n, h[a].prev, o)
      /\ b \in DOMAIN g /\ g[b] = h[b]
      /\ \E p \in DOMAIN g :
           /\ p < b /\ After(g, p) = b /\ g[p].is # "end"
           /\ g[p].size = IF s = n + 1 THEN s ELSE s - n - 1
  <2>1. CutOff(h, a, s, n, o, b, t, S, g)
    BY CarveSound
  <2> QED BY <2>1 DEF CutOff
<1>3. b \in DOMAIN h /\ a < b
  BY <1>1 DEF Sound, EndToEnd
<1>4. /\ g[a].is = "used" /\ g[a].size = n + 1 /\ g[a].asked = n /\ g[a].owner = o
  BY <1>2 DEF UsedHdr
<1>5. CASE s = n + 1
  <2>1. Take(h, a, n, o) = g
    BY <1>5 DEF Take
  <2> HIDE DEF g
  <2>2. \/ b \in S \/ h[b].is = "end" \/ h[b].prev = 0 \/ h[b].prev <= s
    <3>1. ASSUME NEW q \in DOMAIN h, q < b, After(h, q) = b, h[b].prev <= h[q].size
          PROVE  h[b].prev <= s
      <4>1. q \in Nat /\ h[q].size \in Nat
        BY DEF Sound, TypedHeap, Header
      <4>2. q < a => b <= a
        BY <3>1 DEF Sound, EndToEnd
      <4>3. a < q => b <= q
        BY DEF Sound, EndToEnd
      <4> QED BY <1>1, <1>3, <3>1, <4>1, <4>2, <4>3
    <3> QED BY <1>3, <3>1 DEF Sound, BehindBut
  <2>3. BehindBut(g, S)
    BY <1>2, <1>5, <2>2 DEF BehindBut
  <2> QED BY <1>1, <1>2, <1>4, <2>1, <2>3 DEF Taken, Sound
<1>6. CASE s # n + 1
  <2> DEFINE k == SetPrev(g, b, s - n - 1)
  <2>1. Take(h, a, n, o) = k
    BY <1>6 DEF Take
  <2> HIDE DEF g, b, s
  <2>2. s - n - 1 \in Nat
    BY <1>1, <1>2, <1>6 DEF s
  <2>3. /\ Sound(k, t, S) /\ SameUsed(g, k, {})
        /\ DOMAIN k = DOMAIN g /\ \A x \in DOMAIN g \ {b} : k[x] = g[x]
    <3>1. \E p \in DOMAIN g :
             p < b /\ After(g, p) = b /\ g[p].is # "end" /\ s - n - 1 <= g[p].size
      BY <1>2, <1>6, <2>2
    <3>2. Told(g, b, t, S, k)
      BY <1>1, <1>2, <2>2, <3>1, SetPrevSound
    <3> QED BY <3>2 DEF Told
  <2>4. k[a] = g[a]
    BY <1>1, <1>2, <1>3, <2>3
  <2> HIDE DEF k
  <2>5. SameUsed(h, k, {a})
    BY <1>2, <2>3 DEF SameUsed
  <2> QED BY <1>2, <1>4, <2>1, <2>3, <2>4, <2>5 DEF Taken
<1> QED BY <1>5, <1>6

-----------------------------------------------------------------------------
(* A chunk swallows the free one behind it, under the header u.            *)
Joined(h, a, u) == Over(Minus(h, {After(h, a)}), [x \in {a} |-> u])

Merged(h, a, u, t, S, g) ==
  /\ Sound(g, t, S) /\ SameUsed(h, g, {a})
  /\ DOMAIN g = DOMAIN h \ {After(h, a)}
  /\ a \in DOMAIN g /\ g[a] = u
  /\ \A x \in DOMAIN g \ {a} : g[x] = h[x]

LEMMA JoinSound ==
  ASSUME NEW h, NEW t, NEW S, Sound(h, t, S), NEW a \in DOMAIN h, h[a].is # "end",
         h[After(h, a)].is = "free",
         NEW u \in Header, u.is = "free", u.owner = Nobody, u.prev = h[a].prev,
         u.size = h[a].size + h[After(h, a)].size
  PROVE  Merged(h, a, u, t, S, Joined(h, a, u))
<1> DEFINE b == After(h, a)
           g == Joined(h, a, u)
           e == After(h, b)
<1>1. \A x \in DOMAIN h : x \in Nat /\ h[x].size \in Nat /\ h[x].prev \in Nat
  BY DEF Sound, TypedHeap, Header
<1>2. b \in DOMAIN h /\ b = a + h[a].size /\ a < b /\ a # b
  BY <1>1 DEF Sound, EndToEnd, After
<1>3. e \in DOMAIN h /\ e = b + h[b].size /\ b < e
  BY <1>1, <1>2 DEF Sound, EndToEnd, After
<1>4. /\ DOMAIN g = DOMAIN h \ {b} /\ g[a] = u
      /\ \A x \in DOMAIN h \ {a, b} : g[x] = h[x]
  <2> HIDE DEF b
  <2>1. g = Over(Minus(h, {b}), [x \in {a} |-> u])
    BY DEF Joined, b
  <2> HIDE DEF g
  <2> QED BY <1>1, <1>2, <2>1 DEF Over, Minus
<1> HIDE DEF g, b, e
<1>5. After(g, a) = e /\ g[a].prev = h[a].prev /\ g[a].is = "free" /\ g[a].owner = Nobody
  BY <1>1, <1>2, <1>3, <1>4 DEF After, b
<1>6. \A x \in DOMAIN g \ {a} : g[x] = h[x] /\ After(g, x) = After(h, x)
  BY <1>4 DEF After
<1>7. TypedHeap(g)
  <2>1. ASSUME NEW x \in DOMAIN g, x # a
        PROVE  g[x] = h[x]
    BY <1>6, <2>1
  <2> QED BY <1>4, <1>5, <2>1 DEF Sound, TypedHeap
<1>8. EndToEnd(g, t)
  <2>1. ASSUME NEW x \in DOMAIN g
        PROVE  /\ 0 < g[x].size /\ After(g, x) <= t
               /\ g[x].is # "end" => After(g, x) \in DOMAIN g
    <3>1. CASE x = a
      <4>1. After(h, b) <= t /\ 0 < u.size
        BY <1>1, <1>2, <1>3 DEF Sound, EndToEnd, b
      <4> QED BY <1>1, <1>2, <1>3, <1>4, <1>5, <3>1, <4>1 DEF e
    <3>2. CASE x # a
      <4>1. x \in DOMAIN h /\ x # b
        BY <1>4
      <4>2. After(h, x) # b
        <5>1. x < a => After(h, x) <= a
          BY <4>1 DEF Sound, EndToEnd
        <5>2. a < x => b <= x
          BY <4>1 DEF Sound, EndToEnd, b
        <5>3. x < After(h, x) /\ After(h, x) \in Nat
          BY <1>1, <4>1 DEF Sound, EndToEnd, After
        <5> QED BY <1>1, <1>2, <3>2, <4>1, <5>1, <5>2, <5>3
      <4> QED BY <1>4, <1>6, <3>2, <4>1, <4>2 DEF Sound, EndToEnd
    <3> QED BY <3>1, <3>2
  <2>2. ASSUME NEW x \in DOMAIN g, NEW y \in DOMAIN g, x < y
        PROVE  After(g, x) <= y
    <3>1. x \in DOMAIN h /\ y \in DOMAIN h /\ x # b /\ y # b
      BY <1>4
    <3>2. CASE x = a
      <4>1. b <= y
        BY <2>2, <3>1, <3>2 DEF Sound, EndToEnd, b
      <4>2. b < y => e <= y
        BY <1>2, <3>1 DEF Sound, EndToEnd, e
      <4> QED BY <1>1, <1>2, <1>5, <3>1, <3>2, <4>1, <4>2
    <3>3. CASE x # a
      BY <1>6, <2>2, <3>1, <3>3 DEF Sound, EndToEnd
    <3> QED BY <3>2, <3>3
  <2> QED BY <2>1, <2>2 DEF EndToEnd
<1>9. BehindBut(g, S)
  <2> SUFFICES ASSUME NEW x \in DOMAIN g, x \notin S, g[x].is # "end", g[x].prev # 0
               PROVE  \E p \in DOMAIN g :
                        p < x /\ After(g, p) = x /\ g[p].is # "end" /\ g[x].prev <= g[p].size
    BY DEF BehindBut
  <2>1. x \in DOMAIN h /\ h[x].is # "end" /\ h[x].prev = g[x].prev
    BY <1>4, <1>5, <1>6
  <2>2. PICK p \in DOMAIN h :
          p < x /\ After(h, p) = x /\ h[p].is # "end" /\ h[x].prev <= h[p].size
    BY <2>1 DEF Sound, BehindBut
  <2>5. a \in DOMAIN g /\ g[a].is # "end"
    BY <1>2, <1>4, <1>5
  <2>3. CASE p = b
    <3>1. x = e /\ a < x
      BY <1>1, <1>2, <1>3, <2>2, <2>3 DEF e
    <3>2. g[x].prev <= g[a].size
      BY <1>1, <1>2, <1>4, <2>1, <2>2, <2>3 DEF b
    <3>3. a \in DOMAIN g /\ After(g, a) = x /\ g[a].is # "end"
      BY <1>5, <2>5, <3>1
    <3> QED BY <3>1, <3>2, <3>3
  <2>4. CASE p # b
    <3>1. p # a
      BY <1>4, <2>2 DEF b
    <3> QED BY <1>4, <1>6, <2>1, <2>2, <2>4, <3>1
  <2> QED BY <2>3, <2>4
<1>10. SameUsed(h, g, {a})
  BY <1>2, <1>4, <1>6 DEF SameUsed, b
<1>11. Sound(g, t, S) /\ a \in DOMAIN g /\ DOMAIN g = DOMAIN h \ {After(h, a)}
  <2>1. t \in Nat
    BY DEF Sound
  <2> QED BY <1>2, <1>4, <1>7, <1>8, <1>9, <2>1 DEF Sound, b
<1>12. Merged(h, a, u, t, S, g)
  BY <1>4, <1>6, <1>10, <1>11 DEF Merged
<1> QED BY <1>12 DEF g

(* A chunk is marked free.                                                 *)
LEMMA MarkSound ==
  ASSUME NEW h, NEW t, NEW S, Sound(h, t, S), NEW a \in DOMAIN h, h[a].is # "end"
  PROVE  LET u == Hdr(h[a].size, h[a].prev, "free")
             g == Over(h, [x \in {a} |-> u])
         IN  /\ Sound(g, t, S) /\ SameUsed(h, g, {a})
             /\ DOMAIN g = DOMAIN h /\ g[a] = u
<1> DEFINE u == Hdr(h[a].size, h[a].prev, "free")
           g == Over(h, [x \in {a} |-> u])
<1>1. /\ u \in Header /\ u.size = h[a].size /\ u.prev = h[a].prev
      /\ u.is = "free" /\ u.owner = Nobody
  BY DEF Sound, TypedHeap, Header, Hdr
<1> HIDE DEF u
<1>2. DOMAIN g = DOMAIN h /\ g[a] = u /\ \A x \in DOMAIN h \ {a} : g[x] = h[x]
  BY DEF Over
<1> HIDE DEF g
<1>3. \A x \in DOMAIN h : /\ g[x].size = h[x].size /\ g[x].prev = h[x].prev
                         /\ After(g, x) = After(h, x)
  BY <1>1, <1>2 DEF After
<1>8. \A x \in DOMAIN h : (g[x].is # "end") = (h[x].is # "end")
  BY <1>1, <1>2
<1>4. TypedHeap(g)
  <2>1. ASSUME NEW x \in DOMAIN g, x # a
        PROVE  g[x] = h[x]
    BY <1>2, <2>1
  <2> QED BY <1>1, <1>2, <2>1 DEF Sound, TypedHeap
<1>5. EndToEnd(g, t)
  <2>1. ASSUME NEW x \in DOMAIN g
        PROVE  /\ 0 < g[x].size /\ After(g, x) <= t
               /\ g[x].is # "end" => After(g, x) \in DOMAIN g
    BY <1>2, <1>3, <1>8 DEF Sound, EndToEnd
  <2>2. ASSUME NEW x \in DOMAIN g, NEW y \in DOMAIN g, x < y
        PROVE  After(g, x) <= y
    BY <1>2, <1>3, <2>2 DEF Sound, EndToEnd
  <2> QED BY <2>1, <2>2 DEF EndToEnd
<1>6. BehindBut(g, S)
  <2> SUFFICES ASSUME NEW x \in DOMAIN g, x \notin S, g[x].is # "end", g[x].prev # 0
               PROVE  \E p \in DOMAIN g :
                        p < x /\ After(g, p) = x /\ g[p].is # "end" /\ g[x].prev <= g[p].size
    BY DEF BehindBut
  <2>1. x \in DOMAIN h /\ h[x].is # "end" /\ h[x].prev # 0
    BY <1>2, <1>3, <1>8
  <2>2. PICK p \in DOMAIN h :
          p < x /\ After(h, p) = x /\ h[p].is # "end" /\ h[x].prev <= h[p].size
    BY <2>1 DEF Sound, BehindBut
  <2> QED BY <1>2, <1>3, <1>8, <2>1, <2>2
<1>7. SameUsed(h, g, {a})
  BY <1>2 DEF SameUsed
<1> QED BY <1>2, <1>4, <1>5, <1>6, <1>7 DEF Sound, g, u

-----------------------------------------------------------------------------
(* cgc_free: the chunk is free, or part of a free one.                     *)
LEMMA ForwardSound ==
  ASSUME NEW h, NEW t, NEW S, Sound(h, t, S), NEW a \in DOMAIN h, h[a].is # "end"
  PROVE  LET g == Forward(h, a)
         IN  /\ Sound(g, t, S) /\ SameUsed(h, g, {a})
             /\ a \in DOMAIN g /\ g[a].is = "free"
<1> DEFINE b == After(h, a)
           g == Forward(h, a)
<1>1. a \in Nat /\ h[a].size \in Nat /\ h[a].prev \in Nat /\ b \in DOMAIN h
  BY DEF Sound, TypedHeap, EndToEnd, Header
<1>2. CASE h[b].is = "free"
  <2> DEFINE u == Hdr(h[a].size + h[b].size, h[a].prev, "free")
  <2>1. h[b].size \in Nat
    BY <1>1 DEF Sound, TypedHeap, Header
  <2>2. /\ u \in Header /\ u.size = h[a].size + h[b].size /\ u.prev = h[a].prev
        /\ u.is = "free" /\ u.owner = Nobody
    BY <1>1, <2>1 DEF Header, Hdr
  <2>3. g = Joined(h, a, u)
    BY <1>2 DEF Forward, Joined
  <2> HIDE DEF u, g
  <2>4. Merged(h, a, u, t, S, g)
    BY <1>2, <2>2, <2>3, JoinSound
  <2> QED BY <2>2, <2>4 DEF Merged, g
<1>3. CASE h[b].is # "free"
  <2> DEFINE u == Hdr(h[a].size, h[a].prev, "free")
  <2>1. g = Over(h, [x \in {a} |-> u])
    BY <1>3 DEF Forward
  <2>2. u.is = "free"
    BY DEF Hdr
  <2> QED BY <1>1, <2>1, <2>2, MarkSound
<1> QED BY <1>2, <1>3

Released(h, a, t, S, g) ==
  /\ Sound(g, t, S) /\ SameUsed(h, g, {a})
  /\ a \notin DOMAIN g \/ g[a].is = "free"

(* The pointers in w: none, or that of a piece of g in front of a.         *)
Harmed(g, a, w) ==
  \/ w = {}
  \/ \E q \in DOMAIN g : g[q].is = "used" /\ q < a /\ w = {g[q].owner}

(* A prev_size that is not one of S does not lead a free chunk astray.     *)
LEMMA NotAstray ==
  ASSUME NEW f, NEW t, NEW S, Sound(f, t, S), NEW a \in DOMAIN f, f[a].is = "free",
         Astray(f, a)
  PROVE  a \in S
<1> SUFFICES ASSUME a \notin S PROVE FALSE
  OBVIOUS
<1> DEFINE p == a - f[a].prev
<1>1. f[a].is # "end" /\ f[a].prev # 0
  BY DEF Astray
<1>2. PICK q \in DOMAIN f :
        q < a /\ After(f, q) = a /\ f[q].is # "end" /\ f[a].prev <= f[q].size
  BY <1>1 DEF Sound, BehindBut
<1>3. a \in Nat /\ q \in Nat /\ f[a].prev \in Nat /\ f[q].size \in Nat
  BY DEF Sound, TypedHeap, Header
<1>4. q <= p /\ p < a /\ p \in Int
  BY <1>1, <1>2, <1>3 DEF After
<1>5. ASSUME NEW x \in DOMAIN f, p <= x, x < a
      PROVE  x = q
  <2>1. x \in Nat
    BY DEF Sound, TypedHeap
  <2>2. q < x => a <= x
    BY <1>2 DEF Sound, EndToEnd
  <2> QED BY <1>3, <1>4, <1>5, <2>1, <2>2
<1>6. ~ p < 0
  BY <1>3, <1>4
<1>7. ASSUME NEW e \in DOMAIN f, f[e].is = "end", p <= e, e < a PROVE FALSE
  BY <1>2, <1>5, <1>7
<1>8. ~ (p \in DOMAIN f /\ After(f, p) # a)
  BY <1>2, <1>4, <1>5
<1> HIDE DEF p
<1> QED BY <1>6, <1>7, <1>8 DEF Astray, p

LEMMA FreedSound ==
  ASSUME NEW h, NEW t, NEW S, Sound(h, t, S), NEW a \in DOMAIN h, h[a].is # "end",
         ~ Astray(Forward(h, a), a)
  PROVE  Released(h, a, t, S, Freed(h, a))
<1> DEFINE f == Forward(h, a)
           g == Backward(f, a)
           p == a - f[a].prev
<1>1. Sound(f, t, S) /\ SameUsed(h, f, {a}) /\ a \in DOMAIN f /\ f[a].is = "free"
  BY ForwardSound
<1> HIDE DEF f
<1>2. CASE f[a].prev # 0 /\ p \in DOMAIN f /\ f[p].is = "free"
  <2> DEFINE u == [f[p] EXCEPT !.size = @ + f[a].size]
  <2>1. g = Over(Minus(f, {a}), [x \in {p} |-> u])
    BY <1>2 DEF Backward
  <2>3. After(f, p) = a
    BY <1>2 DEF Astray, f
  <2> HIDE DEF p, g
  <2>4. f[p] \in Header /\ f[a].size \in Nat /\ f[p].owner = Nobody
    BY <1>1, <1>2 DEF Sound, TypedHeap, Header
  <2>5. /\ u \in Header /\ u.size = f[p].size + f[a].size /\ u.prev = f[p].prev
        /\ u.is = "free" /\ u.owner = Nobody
    BY <1>2, <2>4 DEF Header
  <2>6. g = Joined(f, p, u)
    BY <2>1, <2>3 DEF Joined
  <2> HIDE DEF u
  <2>7. Merged(f, p, u, t, S, g)
    BY <1>1, <1>2, <2>3, <2>5, <2>6, JoinSound
  <2>8. a \notin DOMAIN g /\ Sound(g, t, S) /\ SameUsed(f, g, {p}) /\ p \in DOMAIN g /\ g[p].is = "free"
    BY <2>3, <2>5, <2>7 DEF Merged
  <2>9. SameUsed(h, g, {a})
    BY <1>1, <1>2, <2>8 DEF SameUsed
  <2> QED BY <2>8, <2>9 DEF Released, Freed, g, f
<1>3. CASE ~ (f[a].prev # 0 /\ p \in DOMAIN f /\ f[p].is = "free")
  <2>1. g = f
    BY <1>3 DEF Backward
  <2> QED BY <1>1, <2>1 DEF Released, Freed, f
<1> QED BY <1>2, <1>3

(* Also when a chunk goes astray, headers remain headers.                  *)
LEMMA FreedTyped ==
  ASSUME NEW h, NEW t, NEW S, Sound(h, t, S), NEW a \in DOMAIN h, h[a].is # "end"
  PROVE  TypedHeap(Freed(h, a))
<1> DEFINE f == Forward(h, a)
           p == a - f[a].prev
           g == Backward(f, a)
<1>1. TypedHeap(f) /\ a \in DOMAIN f
  BY ForwardSound DEF Sound
<1> HIDE DEF f
<1>2. CASE f[a].prev # 0 /\ p \in DOMAIN f /\ f[p].is = "free"
  <2> DEFINE u == [f[p] EXCEPT !.size = @ + f[a].size]
  <2>1. g = Over(Minus(f, {a}), [x \in {p} |-> u])
    BY <1>2 DEF Backward
  <2> HIDE DEF p
  <2>2. f[p] \in Header /\ f[a].size \in Nat /\ f[p].owner = Nobody
    BY <1>1, <1>2 DEF TypedHeap, Header
  <2>3. u \in Header /\ u.is = "free" /\ u.owner = Nobody
    BY <1>2, <2>2 DEF Header
  <2> HIDE DEF u, g
  <2>4. /\ DOMAIN g = (DOMAIN f \ {a}) \cup {p} /\ g[p] = u
        /\ \A x \in DOMAIN g \ {p} : g[x] = f[x]
    BY <2>1 DEF Over, Minus
  <2>5. DOMAIN g \subseteq DOMAIN f
    BY <1>2, <2>4
  <2> QED BY <1>1, <2>3, <2>4, <2>5 DEF TypedHeap, Freed, f, g
<1>3. CASE ~ (f[a].prev # 0 /\ p \in DOMAIN f /\ f[p].is = "free")
  <2>1. g = f
    BY <1>3 DEF Backward
  <2> QED BY <1>1, <2>1 DEF Freed, f
<1> QED BY <1>2, <1>3

(* What cgc_free leaves: the heap g, the state s, and in w the pointer to  *)
(* the piece it wrote into.                                                *)
Outcome(h, a, t, S, g, s, w) ==
  /\ TypedHeap(g) /\ w \subseteq Owners
  /\ s \in {"ok", "lost"}
  /\ s = "ok" => Released(h, a, t, S, g) /\ Harmed(g, a, w)
  /\ s = "lost" => a \in S

LEMMA FreeSound ==
  ASSUME NEW h, NEW t, NEW S, Sound(h, t, S), NEW a \in DOMAIN h, h[a].is # "end",
         NEW f, f = Forward(h, a),
         NEW w \in {{}} \cup {{f[q].owner} : q \in Struck(f, a)},
         NEW s, s = IF Astray(f, a) THEN "lost" ELSE "ok"
  PROVE  Outcome(h, a, t, S, Freed(h, a), s, w)
<1> DEFINE g == Freed(h, a)
<1>1. Sound(f, t, S) /\ SameUsed(h, f, {a}) /\ a \in DOMAIN f /\ f[a].is = "free"
  BY ForwardSound
<1>2. TypedHeap(g)
  BY FreedTyped
<1>3. s = "ok" => Released(h, a, t, S, g)
  BY FreedSound
<1>4. s = "lost" => a \in S
  BY <1>1, NotAstray
<1> HIDE DEF g
<1>5. ASSUME NEW q \in Struck(f, a), w = {f[q].owner}
      PROVE  w \subseteq Owners /\ (s = "ok" => Harmed(g, a, w))
  <2>1. q \in DOMAIN f /\ f[q].is = "used" /\ q < a - f[a].prev
    BY DEF Struck
  <2>2. q \in Nat /\ a \in Nat /\ f[a].prev \in Nat
    BY <1>1, <2>1 DEF Sound, TypedHeap, Header
  <2>3. q < a
    BY <2>1, <2>2
  <2>4. f[q].owner \in Owners
    BY <1>1, <2>1 DEF Sound, TypedHeap
  <2>5. q \in DOMAIN h /\ h[q].is = "used" /\ f[q].owner = h[q].owner
    BY <1>1, <2>1 DEF SameUsed
  <2>6. ASSUME s = "ok" PROVE Harmed(g, a, w)
    <3>1. SameUsed(h, g, {a}) /\ q # a
      BY <1>1, <1>3, <2>1, <2>6 DEF Released
    <3>2. q \in DOMAIN g /\ g[q].is = "used" /\ g[q].owner = h[q].owner
      BY <2>5, <3>1 DEF SameUsed
    <3> QED BY <1>5, <2>3, <2>5, <3>2 DEF Harmed
  <2> QED BY <1>5, <2>4, <2>6
<1>6. w \subseteq Owners /\ (s = "ok" => Harmed(g, a, w))
  BY <1>5 DEF Harmed
<1>7. s \in {"ok", "lost"}
  OBVIOUS
<1> QED BY <1>2, <1>3, <1>4, <1>6, <1>7 DEF Outcome, g

-----------------------------------------------------------------------------
(* The low byte of another prev_size keeps one a number, and pages are     *)
(* enough for what they are asked for.                                     *)
LEMMA Arithmetic ==
  /\ \A x, y \in Nat : (x \div Low) * Low + (y % Low) \in Nat
  /\ \A n \in Nat : Large(n) => Rounded(n) \in Nat /\ n < Rounded(n) /\ Page < Rounded(n)
<1>1. ASSUME NEW x \in Nat, NEW d \in Nat \ {0}
      PROVE  /\ x \div d \in Nat /\ x % d \in Nat /\ x % d < d
             /\ x = ((x \div d) * d) + (x % d)
  BY <1>1
<1>2. ASSUME NEW x \in Nat, NEW y \in Nat
      PROVE  (x \div Low) * Low + (y % Low) \in Nat
  BY <1>1, HeapAssumption
<1>3. ASSUME NEW n \in Nat, Large(n)
      PROVE  Rounded(n) \in Nat /\ n < Rounded(n) /\ Page < Rounded(n)
  <2> DEFINE x == n + Page
             q == x \div Page
             m == x % Page
  <2>1. Page \in Nat \ {0} /\ x \in Nat
    BY HeapAssumption
  <2>2. q \in Nat /\ m \in Nat /\ m < Page /\ x = q * Page + m
    BY <1>1, <2>1
  <2>3. Rounded(n) = q * Page /\ q * Page \in Nat
    BY <2>1, <2>2 DEF Rounded
  <2> HIDE DEF q, m
  <2> QED BY <1>3, <2>1, <2>2, <2>3 DEF Large
<1> QED BY <1>2, <1>3

LEMMA SameUsedComposed ==
  ASSUME NEW h, NEW g, NEW k, NEW A, NEW B, NEW C,
         SameUsed(h, g, A), SameUsed(g, k, B), A \subseteq C, B \subseteq C
  PROVE  SameUsed(h, k, C)
BY DEF SameUsed

(* A new block, with a chunk taken.                                        *)
LEMMA LinkSound ==
  ASSUME NEW h, NEW S, Sound(h, Top, S), NEW n \in Nat, ~ Large(n), NEW o \in Owners
  PROVE  Taken(h, Top, n, o, Link(h, n, o), Top + Room + 1, S) /\ Top \notin DOMAIN h
<1> DEFINE t == Top
           k == Block(h, t)
           e == t + Room
           g == Carve(k, t, Room, n, o)
<1>1. t \in Nat /\ Room \in Nat /\ Page < Room /\ Page \in Nat
  BY HeapAssumption DEF Sound
<1> HIDE DEF t
<1>2. Sound(k, t + Room + 1, S) /\ SameUsed(h, k, {}) /\ t \notin DOMAIN h
  BY BlockSound DEF t
<1>3. /\ t \in DOMAIN k /\ e \in DOMAIN k
      /\ k[t].size = Room /\ k[t].is = "free" /\ k[e].is = "end"
  <2>1. /\ DOMAIN k = DOMAIN h \cup {t, e}
        /\ k[t] = Hdr(Room, 0, "free") /\ k[e] = Hdr(1, Room, "end")
    BY <1>1, BlockFacts
  <2> QED BY <2>1 DEF Hdr
<1>4. After(k, t) = e
  BY <1>3 DEF After
<1>5. n + 1 <= Page /\ n + 1 <= Room
  BY <1>1 DEF Large
<1> HIDE DEF k, e, g
<1>6. CutOff(k, t, Room, n, o, e, t + Room + 1, S, g)
  BY <1>1, <1>2, <1>3, <1>4, <1>5, CarveSound DEF g
<1>7. BehindBut(g, S)
  BY <1>3, <1>6 DEF CutOff, BehindBut
<1>8. Sound(g, t + Room + 1, S)
  BY <1>1, <1>6, <1>7 DEF CutOff, Sound
<1>9. SameUsed(h, g, {t})
  <2>1. SameUsed(k, g, {t})
    BY <1>6 DEF CutOff
  <2> QED BY <1>2, <2>1, SameUsedComposed
<1>10. /\ t \in DOMAIN g /\ g[t].is = "used"
       /\ g[t].size = n + 1 /\ g[t].asked = n /\ g[t].owner = o
  BY <1>6 DEF CutOff, UsedHdr
<1> QED BY <1>2, <1>8, <1>9, <1>10 DEF Taken, Link, g, k, t

(* heap_init.                                                              *)
LEMMA BootedSound ==
  ASSUME NEW S, Sound(heap, top, S)
  PROVE  Sound(Booted, Top, S) /\ SameUsed(heap, Booted, {})
<1>1. CASE top = 0
  BY <1>1, BlockSound, HeapAssumption DEF Booted, Top
<1>2. CASE top # 0
  BY <1>2 DEF Booted, Top, SameUsed
<1> QED BY <1>1, <1>2

(* The scan takes a chunk that was not in use.                             *)
LEMMA ScanSound ==
  ASSUME NEW S, Sound(heap, top, S), NEW n \in Nat, ~ Large(n), NEW o \in Owners, NEW r \in Scan(n, o)
  PROVE  /\ Taken(heap, r.at, n, o, r.heap, r.top, S) /\ ~ Used(r.at)
<1>1. Sound(Booted, Top, S) /\ SameUsed(heap, Booted, {})
  BY BootedSound
<1>2. ASSUME NEW a \in Candidates(Booted, n),
             r = [at |-> a, heap |-> Take(Booted, a, n, o), top |-> Top]
      PROVE  Taken(heap, r.at, n, o, r.heap, r.top, S) /\ ~ Used(r.at)
  <2>1. a \in DOMAIN Booted /\ Booted[a].is = "free" /\ n + 1 <= Booted[a].size
    BY DEF Candidates, Sound, TypedHeap, Header
  <2>2. n + 1 <= Page
    BY HeapAssumption DEF Large
  <2>3. Taken(Booted, a, n, o, r.heap, Top, S)
    BY <1>1, <1>2, <2>1, <2>2, TakeSound
  <2>4. SameUsed(heap, r.heap, {a})
    BY <1>1, <2>3, SameUsedComposed DEF Taken
  <2>5. ~ Used(a)
    BY <1>1, <2>1 DEF SameUsed, Used
  <2> QED BY <1>2, <2>3, <2>4, <2>5 DEF Taken
<1>3. ASSUME r = [at |-> Top, heap |-> Link(Booted, n, o), top |-> Top + Room + 1]
      PROVE  Taken(heap, r.at, n, o, r.heap, r.top, S) /\ ~ Used(r.at)
  <2>1. Taken(Booted, Top, n, o, r.heap, r.top, S) /\ Top \notin DOMAIN Booted
    BY <1>1, <1>3, LinkSound
  <2>2. SameUsed(heap, r.heap, {Top})
    BY <1>1, <2>1, SameUsedComposed DEF Taken
  <2>3. ~ Used(Top)
    BY <1>1, <2>1 DEF SameUsed, Used
  <2> QED BY <1>3, <2>1, <2>2, <2>3 DEF Taken
<1> QED BY <1>2, <1>3 DEF Scan

(* cgc_realloc grows a chunk into the free one behind it.                  *)
LEMMA GrowSound ==
  ASSUME NEW h, NEW t, NEW S, Sound(h, t, S), NEW a \in DOMAIN h, h[a].is # "end",
         h[After(h, a)].is = "free", NEW s, s = h[a].size + h[After(h, a)].size,
         NEW n \in Nat, n + 1 <= s, n + 1 <= Page, NEW o \in Owners,
         NEW g, g = Carve(Minus(h, {After(h, a)}), a, s, n, o)
  PROVE  Taken(h, a, n, o, SetPrev(g, a + s, IF n + 1 = s THEN n + 1 ELSE s - (n + 1)), t, S)
<1> DEFINE b == After(h, a)
           u == Hdr(s, h[a].prev, "free")
           j == Joined(h, a, u)
           e == a + s
           v == IF n + 1 = s THEN n + 1 ELSE s - (n + 1)
           k == SetPrev(g, e, v)
<1>1. /\ a \in Nat /\ h[a].size \in Nat /\ h[a].prev \in Nat /\ t \in Nat
      /\ b \in DOMAIN h /\ h[b].size \in Nat /\ a # b /\ s \in Nat
  BY DEF Sound, TypedHeap, EndToEnd, Header, After
<1>2. /\ u \in Header /\ u.size = s /\ u.prev = h[a].prev
      /\ u.is = "free" /\ u.owner = Nobody
  BY <1>1 DEF Header, Hdr
<1> HIDE DEF u
<1>3. Merged(h, a, u, t, S, j)
  BY <1>2, JoinSound
<1>4. Sound(j, t, S) /\ SameUsed(h, j, {a}) /\ a \in DOMAIN j /\ j[a] = u
  BY <1>3 DEF Merged
<1>5. g = Carve(j, a, s, n, o)
  <2> DEFINE m == Minus(h, {b})
  <2>1. a \in DOMAIN m /\ DOMAIN j = DOMAIN m /\ m[a].prev = j[a].prev
    BY <1>1, <1>2, <1>4 DEF Minus, Over, Joined
  <2>2. \A x \in DOMAIN m \ {a} : j[x] = m[x]
    BY <2>1 DEF Over, Joined
  <2> HIDE DEF m, j
  <2>3. ASSUME NEW w, a \in DOMAIN w
        PROVE  Over(m, w) = Over(j, w)
    BY <2>1, <2>2, <2>3 DEF Over
  <2> QED BY <2>1, <2>3 DEF Carve, m
<1> HIDE DEF j, b
<1>6. After(j, a) = e
  BY <1>2, <1>4 DEF After
<1> HIDE DEF e
<1>7. CutOff(j, a, s, n, o, e, t, S, g)
  BY <1>2, <1>4, <1>5, <1>6, CarveSound
<1>8. v \in Nat
  BY <1>1
<1>9. \E p \in DOMAIN g :
         p < e /\ After(g, p) = e /\ g[p].is # "end" /\ v <= g[p].size
  BY <1>1, <1>7, <1>8 DEF CutOff
<1> HIDE DEF v, k
<1>10. Told(g, e, t, S, k)
  BY <1>1, <1>7, <1>8, <1>9, SetPrevSound DEF CutOff, k
<1>11. SameUsed(h, k, {a})
  <2>1. SameUsed(j, g, {a}) /\ SameUsed(g, k, {})
    BY <1>7, <1>10 DEF CutOff, Told
  <2>2. SameUsed(j, k, {a})
    BY <2>1, SameUsedComposed
  <2> QED BY <1>4, <2>2, SameUsedComposed
<1>12. a # e
  BY <1>1 DEF e
<1>13. a \in DOMAIN k /\ k[a] = UsedHdr(n, j[a].prev, o)
  BY <1>7, <1>10, <1>12 DEF CutOff, Told
<1>14. Taken(h, a, n, o, k, t, S)
  BY <1>10, <1>11, <1>13 DEF Told, Taken, UsedHdr
<1> QED BY <1>14 DEF k, v, e

(* The copy of cgc_realloc to a chunk that is no smaller: R has the places *)
(* of which nothing is said after it.                                      *)
LEMMA CopiedSound ==
  ASSUME NEW h, NEW t, NEW S, Sound(h, t, S), NEW a \in DOMAIN h, h[a].is # "end",
         NEW b \in DOMAIN h, h[b].is # "end",
         NEW R, S \subseteq R, Smears(h, a, b) => Nat \subseteq R
  PROVE  Sound(Copied(h, a, b), t, R) /\ SameUsed(h, Copied(h, a, b), {})
<1>0. Sound(h, t, R)
  BY DEF Sound, BehindBut
<1>1. CASE Copied(h, a, b) = h
  BY <1>0, <1>1 DEF SameUsed
<1>2. CASE Copied(h, a, b) # h
  <2> DEFINE r == After(h, b)
             d == After(h, a)
             p == (h[r].prev \div Low) * Low + (h[d].prev % Low)
             c == SetPrev(h, r, p)
  <2>1. c = Copied(h, a, b)
    BY <1>2 DEF Copied
  <2>2. r \in DOMAIN h /\ d \in DOMAIN h /\ r \in Nat /\ t \in Nat
    BY DEF Sound, TypedHeap, EndToEnd
  <2>3. h[r].prev \in Nat /\ h[d].prev \in Nat
    BY <2>2 DEF Sound, TypedHeap, Header
  <2>4. p \in Nat
    BY <2>3, Arithmetic
  <2>5. r \in R \/ h[r].is = "end"
    BY <1>2, <2>2 DEF Smears
  <2> HIDE DEF p, r, d
  <2>6. BehindBut(h, R \cup {r})
    BY <1>0 DEF Sound, BehindBut
  <2> HIDE DEF c
  <2>7. Told(h, r, t, R, c)
    BY <1>0, <2>2, <2>4, <2>5, <2>6, SetPrevSound DEF Sound, c
  <2> QED BY <2>1, <2>7 DEF Told
<1> QED BY <1>1, <1>2

(* A piece with pages of its own.                                          *)
LEMMA PagesTyped ==
  ASSUME NEW ps, TypedPages(ps), NEW i \in Ids, NEW n \in Nat, Large(n), NEW o \in Owners
  PROVE  TypedPages(WithPages(ps, i, n, o))
<1> DEFINE u == [size |-> Rounded(n), asked |-> n, owner |-> o]
           g == WithPages(ps, i, n, o)
<1>1. /\ u \in [size : Nat, asked : Nat, owner : Owners]
      /\ u.asked < u.size /\ Page < u.size
  BY Arithmetic
<1> HIDE DEF u
<1>2. /\ DOMAIN g = DOMAIN ps \cup {i} /\ g[i] = u
      /\ \A x \in DOMAIN ps \ {i} : g[x] = ps[x]
  BY DEF WithPages, Over, u
<1> HIDE DEF g
<1>3. ASSUME NEW x \in DOMAIN g
      PROVE  /\ g[x] \in [size : Nat, asked : Nat, owner : Owners]
             /\ g[x].asked < g[x].size /\ Page < g[x].size
  <2>1. CASE x = i
    BY <1>1, <1>2, <2>1
  <2>2. CASE x # i
    BY <1>2, <2>2 DEF TypedPages
  <2> QED BY <2>1, <2>2
<1>4. DOMAIN g \subseteq Ids
  BY <1>2 DEF TypedPages
<1> QED BY <1>3, <1>4 DEF TypedPages, g

LEMMA MinusPagesTyped ==
  ASSUME NEW ps, TypedPages(ps), NEW P
  PROVE  TypedPages(Minus(ps, P))
BY DEF TypedPages, Minus

-----------------------------------------------------------------------------
(* The invariant is the type invariant and the layout: each needs the      *)
(* others, as no cgc_free goes astray when prev_size leads back to a       *)
(* neighbour, and it does only when chunks lie end to end.                 *)
HeapInv == TypeOK /\ Tiled /\ PrevStaysInNeighbour

(* Where prev_size may lead anywhere: nowhere, before a byte was copied    *)
(* into one.                                                               *)
Exempt == IF smeared THEN Nat ELSE {}

(* The variables that no proof looks into.                                 *)
RestTyped == TypedPages(pages) /\ smeared \in BOOLEAN /\ hurt \subseteq Owners

LEMMA ExemptFacts ==
  ASSUME NEW h, DOMAIN h \subseteq Nat
  PROVE  BehindBut(h, Nat) /\ (BehindBut(h, {}) <=> Behind(h))
BY DEF BehindBut, Behind

LEMMA HeapInvGives ==
  ASSUME HeapInv
  PROVE  RestTyped /\ (state = "ok" => Sound(heap, top, Exempt))
<1>1. RestTyped /\ top \in Nat /\ TypedHeap(heap) /\ DOMAIN heap \subseteq Nat
  BY DEF HeapInv, TypeOK, RestTyped, TypedHeap
<1>2. ASSUME state = "ok" PROVE BehindBut(heap, Exempt)
  <2>1. CASE smeared
    BY <1>1, <2>1, ExemptFacts DEF Exempt
  <2>2. CASE ~ smeared
    BY <1>1, <1>2, <2>2, ExemptFacts DEF Exempt, HeapInv, PrevStaysInNeighbour
  <2> QED BY <2>1, <2>2
<1> QED BY <1>1, <1>2 DEF Sound, HeapInv, Tiled

(* In three ways a step gets to a state of the invariant.                  *)
LEMMA HeapInvGoesOn ==
  ASSUME Sound(heap', top', Exempt'), RestTyped', state' = "ok"
  PROVE  HeapInv'
<1>1. /\ top' \in Nat /\ TypedHeap(heap') /\ DOMAIN heap' \subseteq Nat
      /\ EndToEnd(heap', top') /\ BehindBut(heap', Exempt')
  BY DEF Sound, TypedHeap
<1>2. TypeOK' /\ Tiled'
  BY <1>1 DEF TypeOK, Tiled, RestTyped
<1>3. ASSUME ~ smeared' PROVE Behind(heap')
  <2>1. Exempt' = {}
    BY <1>3 DEF Exempt
  <2> QED BY <1>1, <2>1, ExemptFacts
<1>4. PrevStaysInNeighbour'
  BY <1>3 DEF PrevStaysInNeighbour
<1> QED BY <1>2, <1>4 DEF HeapInv

LEMMA HeapInvEnds ==
  ASSUME TypedHeap(heap'), top' \in Nat, RestTyped',
         state' \in {"dead", "spilt", "lost"}, state' = "lost" => smeared'
  PROVE  HeapInv'
BY DEF HeapInv, TypeOK, Tiled, PrevStaysInNeighbour, RestTyped

LEMMA NoHeapSound == Sound(NoHeap, 0, {}) /\ TypedPages(NoPages)
BY DEF NoHeap, NoPages, Sound, TypedHeap, EndToEnd, BehindBut, TypedPages

LEMMA HeapInvInit == Init => HeapInv
<1>1. TypedHeap(NoHeap) /\ EndToEnd(NoHeap, 0) /\ Behind(NoHeap) /\ TypedPages(NoPages)
  BY NoHeapSound, ExemptFacts DEF Sound, TypedHeap
<1> SUFFICES ASSUME Init PROVE HeapInv
  OBVIOUS
<1>2. heap = NoHeap /\ top = 0 /\ pages = NoPages /\ state = "ok" /\ smeared = FALSE /\ hurt = {}
  BY DEF Init
<1>3. TypeOK
  BY <1>1, <1>2 DEF TypeOK
<1>4. Tiled /\ PrevStaysInNeighbour
  BY <1>1, <1>2 DEF Tiled, PrevStaysInNeighbour
<1> QED BY <1>3, <1>4 DEF HeapInv

LEMMA HeapInvDies == ASSUME HeapInv, Dies PROVE HeapInv'
<1>1. TypedHeap(heap') /\ top' \in Nat /\ TypedPages(pages')
  BY NoHeapSound DEF Dies, Sound
<1> QED BY <1>1, HeapInvGives, HeapInvEnds DEF Dies, RestTyped

LEMMA MinusTyped ==
  ASSUME NEW h, TypedHeap(h), NEW P
  PROVE  TypedHeap(Minus(h, P))
BY DEF TypedHeap, Minus

(* A used chunk has an owner, and is not an end chunk.                     *)
LEMMA UsedFacts ==
  ASSUME HeapInv, NEW a, Used(a)
  PROVE  /\ a \in DOMAIN heap /\ heap[a].is # "end" /\ heap[a].owner \in Owners
         /\ a \in Nat /\ heap[a].size \in Nat /\ heap[a].size <= Page
BY DEF HeapInv, TypeOK, TypedHeap, Used, Header

(* What cgc_free of a chunk of the heap does, for a step that goes on or   *)
(* ends.                                                                   *)
LEMMA FreeChunkInv ==
  ASSUME HeapInv, state = "ok", NEW a, Used(a), FreeChunk(heap, a),
         top' = top, smeared' = smeared, TypedPages(pages')
  PROVE  /\ HeapInv'
         /\ state' # "lost" => /\ Released(heap, a, top, Exempt, heap')
                               /\ Harmed(heap', a, hurt')
<1>1. Sound(heap, top, Exempt) /\ RestTyped
  BY HeapInvGives
<1>2. Outcome(heap, a, top, Exempt, heap', state', hurt')
  BY <1>1, UsedFacts, FreeSound DEF FreeChunk
<1>3. top' \in Nat /\ RestTyped' /\ Exempt' = Exempt
  BY <1>1, <1>2 DEF Sound, RestTyped, Outcome, Exempt
<1>4. CASE state' = "ok"
  <2>1. Released(heap, a, top, Exempt, heap') /\ Harmed(heap', a, hurt')
    BY <1>2, <1>4 DEF Outcome
  <2>2. Sound(heap', top', Exempt')
    BY <1>3, <2>1 DEF Released
  <2> QED BY <1>3, <1>4, <2>1, <2>2, HeapInvGoesOn
<1>5. CASE state' = "lost"
  <2>1. TypedHeap(heap') /\ a \in Exempt
    BY <1>2, <1>5 DEF Outcome
  <2>2. smeared'
    BY <2>1 DEF Exempt
  <2> QED BY <1>3, <1>5, <2>1, <2>2, HeapInvEnds
<1> QED BY <1>2, <1>4, <1>5 DEF Outcome

(* What Move does to the heap when it goes on.                             *)
MovedTo(a, n, b) ==
  /\ SameUsed(heap, heap', {a, b})
  /\ a # b /\ ~ Used(b) /\ ~ Used(a)'
  /\ b \in DOMAIN heap' /\ heap'[b].is = "used" /\ heap'[b].size = n + 1
  /\ heap'[b].asked = n /\ heap'[b].owner = heap[a].owner
  /\ Harmed(heap', a, hurt')

LEMMA MoveFacts ==
  ASSUME HeapInv, state = "ok", NEW a, NEW n \in Nat, Used(a), ~ Large(n),
         NEW r \in Scan(n, heap[a].owner), MoveTo(a, r)
  PROVE  HeapInv' /\ (state' # "lost" => MovedTo(a, n, r.at))
<1> DEFINE h == r.heap
           b == r.at
           c == Copied(h, a, b)
           o == heap[a].owner
           t == r.top
           R == Exempt'
<1>1. /\ Sound(heap, top, Exempt) /\ RestTyped
      /\ a \in DOMAIN heap /\ heap[a].is = "used" /\ o \in Owners
  BY HeapInvGives, UsedFacts DEF Used
<1>2. Taken(heap, b, n, o, h, t, Exempt) /\ ~ Used(b)
  BY <1>1, ScanSound
<1>3. /\ FreeChunk(c, a) /\ top' = t /\ pages' = pages
      /\ smeared' = (smeared \/ Smears(h, a, b))
  BY DEF MoveTo
<1>4. Exempt \subseteq R /\ (Smears(h, a, b) => Nat \subseteq R)
  BY <1>3 DEF Exempt
<1> HIDE DEF h, b, c, o, t, R
<1>5. a # b
  BY <1>1, <1>2 DEF Used
<1>6. a \in DOMAIN h /\ h[a].is = "used" /\ b \in DOMAIN h /\ h[b].is = "used"
  BY <1>1, <1>2, <1>5 DEF Taken, SameUsed
<1>7. Sound(c, t, R) /\ SameUsed(h, c, {})
  BY <1>2, <1>4, <1>6, CopiedSound DEF Taken, c
<1>8. /\ a \in DOMAIN c /\ c[a].is = "used" /\ b \in DOMAIN c /\ c[b].is = "used"
      /\ c[b].size = n + 1 /\ c[b].asked = n /\ c[b].owner = o
  BY <1>2, <1>6, <1>7 DEF SameUsed, Taken
<1>9. Outcome(c, a, t, R, heap', state', hurt')
  BY <1>3, <1>7, <1>8, FreeSound DEF FreeChunk
<1>10. top' \in Nat /\ RestTyped'
  BY <1>1, <1>3, <1>7, <1>9 DEF Sound, RestTyped, Outcome
<1>11. CASE state' = "ok"
  <2>1. Released(c, a, t, R, heap') /\ Harmed(heap', a, hurt')
    BY <1>9, <1>11 DEF Outcome
  <2>2. /\ b \in DOMAIN heap' /\ heap'[b].is = "used"
        /\ heap'[b].size = n + 1 /\ heap'[b].asked = n /\ heap'[b].owner = o
    BY <1>5, <1>8, <2>1 DEF Released, SameUsed
  <2>3. SameUsed(heap, heap', {a, b})
    <3>1. SameUsed(heap, h, {b}) /\ SameUsed(c, heap', {a})
      BY <1>2, <2>1 DEF Taken, Released
    <3>2. SameUsed(heap, c, {b})
      BY <1>7, <3>1, SameUsedComposed
    <3> QED BY <3>1, <3>2, SameUsedComposed
  <2>4. Sound(heap', top', R) /\ ~ Used(a)'
    BY <1>3, <2>1 DEF Released, Used
  <2>5. HeapInv'
    BY <1>10, <1>11, <2>4, HeapInvGoesOn DEF R
  <2> QED BY <1>2, <1>5, <2>1, <2>2, <2>3, <2>4, <2>5 DEF MovedTo, b, o
<1>12. CASE state' = "lost"
  <2>1. TypedHeap(heap') /\ a \in R
    BY <1>9, <1>12 DEF Outcome
  <2>2. smeared'
    BY <2>1 DEF R, Exempt
  <2> QED BY <1>10, <1>12, <2>1, <2>2, HeapInvEnds
<1> QED BY <1>9, <1>11, <1>12 DEF Outcome

(* A copy to a smaller chunk.                                              *)
LEMMA SpillInv ==
  ASSUME HeapInv, state = "ok", NEW n \in Nat, ~ Large(n), NEW o \in Owners,
         NEW r \in Scan(n, o), NEW s, Spill(r, s)
  PROVE  HeapInv'
<1>1. Sound(heap, top, Exempt) /\ RestTyped
  BY HeapInvGives
<1>2. Taken(heap, r.at, n, o, r.heap, r.top, Exempt)
  BY <1>1, ScanSound
<1>3. TypedHeap(r.heap) /\ r.top \in Nat
  BY <1>2 DEF Taken, Sound
<1>4. TypedHeap(heap') /\ top' \in Nat /\ RestTyped' /\ state' = "spilt"
  BY <1>1, <1>3, MinusTyped DEF Spill, RestTyped
<1> QED BY <1>4, HeapInvEnds

(* Every step preserves the invariant.                                     *)
LEMMA HeapInvStep == HeapInv /\ [Next]_vars => HeapInv'
<1> SUFFICES ASSUME HeapInv, [Next]_vars PROVE HeapInv'
  OBVIOUS
<1>1. RestTyped /\ (state = "ok" => Sound(heap, top, Exempt))
  BY HeapInvGives
<1>2. Requests \subseteq Nat
  BY HeapAssumption
<1>3. ASSUME NEW n, NoBlock(n) PROVE HeapInv'
  BY <1>3, HeapInvDies DEF NoBlock
<1>4. ASSUME Boots, state = "ok", UNCHANGED <<state, smeared>>, hurt' = {}, TypedPages(pages')
      PROVE  HeapInv'
  <2>1. Sound(heap', top', Exempt)
    BY <1>1, <1>4, BootedSound DEF Boots
  <2>2. RestTyped' /\ Exempt' = Exempt
    BY <1>1, <1>4 DEF RestTyped, Exempt
  <2> QED BY <1>4, <2>1, <2>2, HeapInvGoesOn
<1>5. ASSUME state = "ok", NEW a, NEW n, NEW o, Taken(heap, a, n, o, heap', top', Exempt),
             hurt' = {}, UNCHANGED <<pages, state, smeared>>
      PROVE  HeapInv'
  <2>1. RestTyped' /\ Exempt' = Exempt
    BY <1>1, <1>5 DEF RestTyped, Exempt
  <2>2. Sound(heap', top', Exempt')
    BY <1>5, <2>1 DEF Taken
  <2> QED BY <1>5, <2>1, <2>2, HeapInvGoesOn
<1>6. ASSUME NEW o \in Owners, NEW n \in Requests, Malloc(o, n) PROVE HeapInv'
  <2>1. ASSUME NEW r \in Scan(n, o), heap' = r.heap, top' = r.top,
               hurt' = {}, UNCHANGED <<pages, state, smeared>>
        PROVE  HeapInv'
    <3>1. Taken(heap, r.at, n, o, heap', top', Exempt)
      BY <1>1, <1>2, <1>6, <2>1, ScanSound DEF Malloc
    <3> QED BY <1>5, <1>6, <2>1, <3>1 DEF Malloc
  <2> QED BY <1>3, <1>6, <2>1 DEF Malloc
<1>7. ASSUME NEW o \in Owners, NEW n \in Requests, MallocLarge(o, n) PROVE HeapInv'
  <2>1. TypedPages(pages')
    BY <1>1, <1>2, <1>7, PagesTyped DEF MallocLarge, RestTyped
  <2> QED BY <1>4, <1>7, <2>1 DEF MallocLarge
<1>8. ASSUME NEW a \in DOMAIN heap, Free(a) PROVE HeapInv'
  BY <1>1, <1>8, FreeChunkInv DEF Free, RestTyped
<1>9. ASSUME NEW a \in DOMAIN heap, NEW n \in Requests, Shrink(a, n) PROVE HeapInv'
  <2>1. /\ Used(a) /\ n + 1 < heap[a].size /\ n + 1 < Page /\ n \in Nat
        /\ heap' = Take(heap, a, n, heap[a].owner) /\ top' = top /\ state = "ok"
    BY <1>2, <1>9 DEF Shrink, Shrinks, Small
  <2>2. n + 1 <= heap[a].size /\ n + 1 <= Page
    BY <2>1, UsedFacts, HeapAssumption
  <2>3. Taken(heap, a, n, heap[a].owner, heap', top', Exempt)
    BY <1>1, <2>1, <2>2, UsedFacts, TakeSound
  <2> QED BY <1>5, <1>9, <2>3 DEF Shrink
<1>10. ASSUME NEW a \in DOMAIN heap, NEW n \in Requests, Grow(a, n) PROVE HeapInv'
  <2>1. Taken(heap, a, n, heap[a].owner, heap', top', Exempt)
    BY <1>1, <1>2, <1>10, UsedFacts, GrowSound, HeapAssumption DEF Grow, Grows, Small, Space
  <2> QED BY <1>5, <1>10, <2>1 DEF Grow
<1>11. ASSUME NEW a \in DOMAIN heap, NEW n \in Requests, Stay(a, n) PROVE HeapInv'
  <2>1. RestTyped' /\ Exempt' = Exempt
    BY <1>1, <1>11 DEF Stay, RestTyped, Exempt
  <2>2. Sound(heap', top', Exempt') /\ state' = "ok"
    BY <1>1, <1>11, <2>1 DEF Stay
  <2> QED BY <2>1, <2>2, HeapInvGoesOn
<1>12. ASSUME NEW a \in DOMAIN heap, NEW n \in Requests, Move(a, n) PROVE HeapInv'
  <2>1. /\ state = "ok" /\ Used(a) /\ ~ Large(n) /\ n \in Nat /\ heap[a].owner \in Owners
    BY <1>2, <1>12, UsedFacts DEF Move
  <2>2. ASSUME NEW r \in Scan(n, heap[a].owner), MoveTo(a, r) PROVE HeapInv'
    BY <2>1, <2>2, MoveFacts
  <2>3. ASSUME NEW r \in Scan(n, heap[a].owner), Spill(r, heap[a].size) PROVE HeapInv'
    BY <2>1, <2>3, SpillInv
  <2> QED BY <1>3, <1>12, <2>2, <2>3 DEF Move
<1>13. ASSUME NEW a \in DOMAIN heap, NEW n \in Requests, MoveToPages(a, n) PROVE HeapInv'
  <2>1. TypedPages(pages')
    BY <1>1, <1>2, <1>13, UsedFacts, PagesTyped DEF MoveToPages, RestTyped
  <2> QED BY <1>13, <2>1, FreeChunkInv DEF MoveToPages
<1>14. ASSUME NEW i \in DOMAIN pages, FreePages(i) PROVE HeapInv'
  <2>1. RestTyped' /\ Exempt' = Exempt
    BY <1>1, <1>14, MinusPagesTyped DEF FreePages, RestTyped, Exempt
  <2>2. Sound(heap', top', Exempt') /\ state' = "ok"
    BY <1>1, <1>14, <2>1 DEF FreePages
  <2> QED BY <2>1, <2>2, HeapInvGoesOn
<1>15. ASSUME NEW i \in DOMAIN pages, NEW n \in Requests, StayInPages(i, n) PROVE HeapInv'
  <2>1. TypedPages(pages')
    BY <1>1, <1>2, <1>15 DEF StayInPages, RestTyped, TypedPages
  <2> QED BY <1>4, <1>15, <2>1 DEF StayInPages
<1>16. ASSUME NEW i \in DOMAIN pages, NEW n \in Requests, MovePages(i, n) PROVE HeapInv'
  <2>1. n \in Nat /\ Large(n) /\ pages[i].owner \in Owners
    BY <1>1, <1>2, <1>16, HeapAssumption DEF MovePages, RestTyped, TypedPages, Large
  <2>2. TypedPages(pages) /\ TypedPages(Minus(pages, {i}))
    BY <1>1, MinusPagesTyped DEF RestTyped
  <2>3. TypedPages(pages')
    BY <1>16, <2>1, <2>2, PagesTyped DEF MovePages
  <2> QED BY <1>4, <1>16, <2>3 DEF MovePages
<1>17. ASSUME NEW i \in DOMAIN pages, NEW n \in Requests, MoveFromPages(i, n) PROVE HeapInv'
  <2>1. /\ state = "ok" /\ n \in Nat /\ ~ Large(n) /\ pages[i].owner \in Owners
    BY <1>1, <1>2, <1>17, HeapAssumption DEF MoveFromPages, RestTyped, TypedPages, Large
  <2>2. ASSUME NEW r \in Scan(n, pages[i].owner), Spill(r, pages[i].size) PROVE HeapInv'
    BY <2>1, <2>2, SpillInv
  <2> QED BY <1>3, <1>17, <2>2 DEF MoveFromPages
<1>18. ASSUME UNCHANGED vars PROVE HeapInv'
  BY <1>18 DEF vars, HeapInv, TypeOK, Tiled, PrevStaysInNeighbour
<1> QED
  BY <1>6, <1>7, <1>8, <1>9, <1>10, <1>11, <1>12, <1>13, <1>14, <1>15, <1>16, <1>17, <1>18
  DEF Next

(* Headers have their types, and a used chunk is never as large as one     *)
(* with pages of its own.                                                  *)
THEOREM TypeCorrect == Spec => []TypeOK
<1>1. HeapInv => TypeOK
  BY DEF HeapInv
<1> QED BY HeapInvInit, HeapInvStep, <1>1, PTL DEF Spec

(* The chunks of the blocks lie end to end, whatever was split, joined and *)
(* moved, until a call in which the model ends.                            *)
THEOREM ChunksTile == Spec => []Tiled
<1>1. HeapInv => Tiled
  BY DEF HeapInv
<1> QED BY HeapInvInit, HeapInvStep, <1>1, PTL DEF Spec

(* A stale prev_size leads into the chunk before, and no further, and no   *)
(* cgc_free goes astray, until cgc_realloc has copied its extra byte into  *)
(* one.                                                                    *)
THEOREM PrevIsNear == Spec => []PrevStaysInNeighbour
<1>1. HeapInv => PrevStaysInNeighbour
  BY DEF HeapInv
<1> QED BY HeapInvInit, HeapInvStep, <1>1, PTL DEF Spec

-----------------------------------------------------------------------------
(* The pieces of the program: Heap implements Allocator.                   *)

(* The pieces of h that lie in A.                                          *)
PiecesAt(h, A) == {Piece(h[a], "block", a) : a \in {x \in DOMAIN h : x \in A /\ h[x].is = "used"}}

LEMMA PieceFields ==
  ASSUME NEW k, NEW on, NEW a
  PROVE  /\ Piece(k, on, a).on = on /\ Piece(k, on, a).at = a /\ Piece(k, on, a).owner = k.owner
         /\ Piece(k, on, a).size = k.size /\ Piece(k, on, a).asked = k.asked
BY DEF Piece

(* Only the pieces in A come, go or change.                                *)
LEMMA PiecesChange ==
  ASSUME NEW h, NEW g, NEW A, SameUsed(h, g, A)
  PROVE  InBlocks(g) = (InBlocks(h) \ PiecesAt(h, A)) \cup PiecesAt(g, A)
<1>1. ASSUME NEW x \in DOMAIN h, h[x].is = "used", x \notin A
      PROVE  /\ x \in DOMAIN g /\ g[x].is = "used"
             /\ Piece(g[x], "block", x) = Piece(h[x], "block", x)
  BY <1>1 DEF SameUsed, Piece
<1>2. ASSUME NEW x \in DOMAIN g, g[x].is = "used", x \notin A
      PROVE  x \in DOMAIN h /\ h[x].is = "used"
  BY <1>2 DEF SameUsed
<1>3. ASSUME NEW p \in InBlocks(g)
      PROVE  p \in (InBlocks(h) \ PiecesAt(h, A)) \cup PiecesAt(g, A)
  <2>1. PICK x \in DOMAIN g : g[x].is = "used" /\ p = Piece(g[x], "block", x)
    BY <1>3 DEF InBlocks
  <2>2. CASE x \in A
    BY <2>1, <2>2 DEF PiecesAt
  <2>3. CASE x \notin A
    <3>1. x \in DOMAIN h /\ h[x].is = "used" /\ p = Piece(h[x], "block", x)
      BY <1>1, <1>2, <2>1, <2>3
    <3>2. p \in InBlocks(h)
      BY <3>1 DEF InBlocks
    <3>3. p \notin PiecesAt(h, A)
      <4>1. p.at = x
        BY <2>1, PieceFields
      <4>2. ASSUME NEW y \in DOMAIN h, y \in A, p = Piece(h[y], "block", y)
            PROVE  FALSE
        BY <2>3, <4>1, <4>2, PieceFields
      <4> QED BY <4>2 DEF PiecesAt
    <3> QED BY <3>2, <3>3
  <2> QED BY <2>2, <2>3
<1>4. ASSUME NEW p \in InBlocks(h), p \notin PiecesAt(h, A)
      PROVE  p \in InBlocks(g)
  <2>1. PICK x \in DOMAIN h : h[x].is = "used" /\ p = Piece(h[x], "block", x)
    BY <1>4 DEF InBlocks
  <2>2. x \notin A
    BY <1>4, <2>1 DEF PiecesAt
  <2> QED BY <1>1, <2>1, <2>2 DEF InBlocks
<1>5. PiecesAt(g, A) \subseteq InBlocks(g)
  BY DEF PiecesAt, InBlocks
<1> QED BY <1>3, <1>4, <1>5

(* Pieces are large enough and have no memory in common.                   *)
AllFit ==
  /\ \A p \in Pieces : Memory!Fits(p)
  /\ \A p, q \in Pieces : p # q => Memory!Apart(p, q)

LEMMA PiecesFit == HeapInv /\ state = "ok" => AllFit
<1> SUFFICES ASSUME HeapInv, state = "ok" PROVE AllFit
  OBVIOUS
<1>1. ASSUME NEW p \in InBlocks(heap)
      PROVE  \E x \in DOMAIN heap : /\ heap[x].is = "used" /\ p = Piece(heap[x], "block", x)
                                   /\ p.on = "block" /\ p.at = x /\ p.size = heap[x].size
                                   /\ p.asked = heap[x].asked
  BY PieceFields DEF InBlocks
<1>2. ASSUME NEW p \in WithOwnPages(pages)
      PROVE  \E i \in DOMAIN pages : /\ p = Piece(pages[i], "pages", i)
                                    /\ p.on = "pages" /\ p.at = i /\ p.size = pages[i].size
                                    /\ p.asked = pages[i].asked
  BY PieceFields DEF WithOwnPages
<1>3. ASSUME NEW p \in Pieces PROVE Memory!Fits(p)
  BY <1>1, <1>2 DEF Pieces, Memory!Fits, HeapInv, TypeOK, TypedHeap, TypedPages
<1>4. ASSUME NEW p \in Pieces, NEW q \in Pieces, p # q PROVE Memory!Apart(p, q)
  <2>1. CASE p \in InBlocks(heap) /\ q \in InBlocks(heap)
    <3>1. PICK x \in DOMAIN heap : p = Piece(heap[x], "block", x) /\ p.on = "block"
                                  /\ p.at = x /\ p.size = heap[x].size
      BY <1>1, <2>1
    <3>2. PICK y \in DOMAIN heap : q = Piece(heap[y], "block", y) /\ q.on = "block"
                                  /\ q.at = y /\ q.size = heap[y].size
      BY <1>1, <2>1
    <3>3. x # y /\ x \in Nat /\ y \in Nat
      BY <1>4, <3>1, <3>2 DEF HeapInv, TypeOK, TypedHeap
    <3>4. After(heap, x) <= y \/ After(heap, y) <= x
      BY <3>3 DEF HeapInv, Tiled, EndToEnd
    <3> QED BY <3>1, <3>2, <3>4 DEF After, Memory!Apart
  <2>2. CASE p \in InBlocks(heap) /\ q \in WithOwnPages(pages)
    BY <1>1, <1>2, <2>2 DEF Memory!Apart
  <2>3. CASE p \in WithOwnPages(pages) /\ q \in InBlocks(heap)
    BY <1>1, <1>2, <2>3 DEF Memory!Apart
  <2>4. CASE p \in WithOwnPages(pages) /\ q \in WithOwnPages(pages)
    BY <1>2, <1>4, <2>4 DEF Memory!Apart
  <2> QED BY <2>1, <2>2, <2>3, <2>4 DEF Pieces
<1> QED BY <1>3, <1>4 DEF AllFit

(* So a step only has to take the right pieces away and to add one.        *)
LEMMA JoinsNext ==
  ASSUME HeapInv', state' = "ok", NEW p, NEW others, p \notin others,
         Pieces' = others \cup {p}
  PROVE  Memory!Joins(p, others)
<1>1. (HeapInv /\ state = "ok")'
  OBVIOUS
<1>2. AllFit'
  BY <1>1, PiecesFit, PTL
<1> QED BY <1>2 DEF AllFit, Memory!Joins

(* A piece is known by where it is.                                        *)
LEMMA PieceIsKnown ==
  ASSUME NEW p \in Pieces, NEW a
  PROVE  /\ p.on = "block" /\ p.at = a => Used(a) /\ p = Piece(heap[a], "block", a)
         /\ p.on = "pages" /\ p.at = a => a \in DOMAIN pages /\ p = Piece(pages[a], "pages", a)
BY PieceFields DEF Pieces, InBlocks, WithOwnPages, Used

LEMMA PiecesAtOne ==
  ASSUME NEW h, NEW a
  PROVE  /\ a \in DOMAIN h /\ h[a].is = "used" => PiecesAt(h, {a}) = {Piece(h[a], "block", a)}
         /\ ~ (a \in DOMAIN h /\ h[a].is = "used") => PiecesAt(h, {a}) = {}
BY DEF PiecesAt

LEMMA NewPages ==
  ASSUME NEW ps, NEW i, i \notin DOMAIN ps, NEW n, NEW o,
         NEW p, p = Piece([size |-> Rounded(n), asked |-> n, owner |-> o], "pages", i)
  PROVE  WithOwnPages(WithPages(ps, i, n, o)) = WithOwnPages(ps) \cup {p}
<1> DEFINE u == [size |-> Rounded(n), asked |-> n, owner |-> o]
           g == WithPages(ps, i, n, o)
<1>1. /\ DOMAIN g = DOMAIN ps \cup {i} /\ g[i] = u
      /\ \A x \in DOMAIN ps : g[x] = ps[x]
  BY DEF WithPages, Over
<1> HIDE DEF g, u
<1>2. p = Piece(g[i], "pages", i)
  BY <1>1 DEF u
<1>3. WithOwnPages(g) = WithOwnPages(ps) \cup {p}
  BY <1>1, <1>2 DEF WithOwnPages
<1> QED BY <1>3 DEF g

LEMMA LostPages ==
  ASSUME NEW ps, NEW i \in DOMAIN ps
  PROVE  WithOwnPages(Minus(ps, {i})) = WithOwnPages(ps) \ {Piece(ps[i], "pages", i)}
<1> DEFINE g == Minus(ps, {i})
<1>1. DOMAIN g = DOMAIN ps \ {i} /\ \A x \in DOMAIN ps \ {i} : g[x] = ps[x]
  BY DEF Minus
<1> HIDE DEF g
<1>2. ASSUME NEW x \in DOMAIN ps \ {i}
      PROVE  Piece(ps[x], "pages", x) # Piece(ps[i], "pages", i)
  BY PieceFields
<1>3. WithOwnPages(g) = WithOwnPages(ps) \ {Piece(ps[i], "pages", i)}
  BY <1>1, <1>2 DEF WithOwnPages
<1> QED BY <1>3 DEF g

LEMMA BootsKeeps ==
  ASSUME HeapInv, state = "ok", Boots
  PROVE  InBlocks(heap') = InBlocks(heap)
<1>1. SameUsed(heap, heap', {})
  <2>1. SameUsed(heap, Booted, {})
    BY HeapInvGives, BootedSound
  <2> QED BY <2>1 DEF Boots, SameUsed
<1>2. PiecesAt(heap, {}) = {} /\ PiecesAt(heap', {}) = {}
  BY DEF PiecesAt
<1> QED BY <1>1, <1>2, PiecesChange

(* What cgc_free writes into is a piece in front of the one that is freed. *)
LEMMA HarmsInFront ==
  ASSUME NEW p, NEW a, p.on = "block", p.at = a, Harmed(heap', a, hurt')
  PROVE  Memory!Harms(p)
<1>1. ASSUME NEW q \in DOMAIN heap', heap'[q].is = "used", q < a, hurt' = {heap'[q].owner}
      PROVE  Memory!Harms(p)
  <2> DEFINE k == Piece(heap'[q], "block", q)
  <2>1. k \in Pieces'
    BY <1>1 DEF Pieces, InBlocks
  <2>2. k.on = "block" /\ k.at = q /\ k.owner = heap'[q].owner
    BY PieceFields
  <2> HIDE DEF k
  <2> QED BY <1>1, <2>1, <2>2 DEF Memory!Harms
<1>2. ASSUME hurt' = {} PROVE Memory!Harms(p)
  BY <1>2 DEF Memory!Harms
<1> QED BY <1>1, <1>2 DEF Harmed

(* A new piece for o, and one piece that becomes another.                  *)
LEMMA AllocSimulates ==
  ASSUME HeapInv', state' = "ok", NEW p, p \notin Pieces, Pieces' = Pieces \cup {p},
         \A q \in Pieces : q.owner # p.owner, hurt' = {}
  PROVE  Memory!Next
<1>1. Memory!Joins(p, Pieces) /\ p \in Pieces'
  BY JoinsNext
<1> QED BY <1>1 DEF Memory!Next, Memory!Alloc

LEMMA ResizeSimulates ==
  ASSUME HeapInv', state' = "ok", NEW p \in Pieces, NEW q, q \notin Pieces \ {p},
         Pieces' = (Pieces \ {p}) \cup {q}, q.owner = p.owner,
         hurt' = {} \/ (Memory!Harms(p) /\ ~ (q.on = p.on /\ q.at = p.at))
  PROVE  Memory!Next
<1>1. Memory!Joins(q, Pieces \ {p}) /\ q \in Pieces'
  BY JoinsNext
<1>2. hurt' = {} => Memory!Harms(p)
  BY DEF Memory!Harms
<1> QED BY <1>1, <1>2 DEF Memory!Next, Memory!Resize

LEMMA ReleaseSimulates ==
  ASSUME NEW p \in Pieces, Pieces' = Pieces \ {p}, Memory!Harms(p)
  PROVE  Memory!Next
BY DEF Memory!Next, Memory!Release

LEMMA FailSimulates ==
  ASSUME Pieces' = Pieces, hurt' = {}
  PROVE  Memory!Next
BY DEF Memory!Next, Memory!Fail

LEMMA EndSimulates == ASSUME Dies PROVE Memory!Next
<1>1. Pieces' = {} /\ hurt' = {}
  BY DEF Dies, NoHeap, NoPages, Pieces, InBlocks, WithOwnPages
<1> QED BY <1>1 DEF Memory!Next, Memory!End

(* A chunk of the blocks stays where it is and changes its size.           *)
LEMMA ResizeInPlace ==
  ASSUME HeapInv', state' = "ok", NEW a, Used(a), NEW n, NEW S,
         Taken(heap, a, n, heap[a].owner, heap', top', S), pages' = pages, hurt' = {}
  PROVE  Memory!Next
<1> DEFINE p == Piece(heap[a], "block", a)
           q == Piece(heap'[a], "block", a)
<1>1. a \in DOMAIN heap' /\ heap'[a].is = "used" /\ SameUsed(heap, heap', {a})
  BY DEF Taken
<1>2. p \in Pieces
  BY DEF Pieces, InBlocks, Used
<1>3. PiecesAt(heap, {a}) = {p} /\ PiecesAt(heap', {a}) = {q}
  BY <1>1, PiecesAtOne DEF Used
<1>4. p.on = "block" /\ p.at = a /\ q.on = "block" /\ q.at = a /\ q.owner = p.owner
  BY PieceFields DEF Taken
<1>5. q \notin Pieces \ {p}
  BY <1>4, PieceIsKnown
<1> HIDE DEF p, q
<1>6. InBlocks(heap') = (InBlocks(heap) \ {p}) \cup {q}
  BY <1>1, <1>3, PiecesChange
<1>7. p \notin WithOwnPages(pages)
  BY <1>4, PieceFields DEF WithOwnPages
<1>8. Pieces' = (Pieces \ {p}) \cup {q}
  BY <1>6, <1>7 DEF Pieces
<1> QED BY <1>2, <1>4, <1>5, <1>8, ResizeSimulates

LEMMA SpareIsNew ==
  ASSUME NEW o, Spare(o), NEW q \in Pieces
  PROVE  q.owner # o
BY PieceFields DEF Spare, Pieces, InBlocks, WithOwnPages

(* One lemma for each operation of the allocator.                          *)
LEMMA MallocSimulates ==
  ASSUME HeapInv, HeapInv', NEW o \in Owners, NEW n \in Nat, Malloc(o, n)
  PROVE  Memory!Next
<1>1. ASSUME NEW r \in Scan(n, o), heap' = r.heap, top' = r.top, pages' = pages,
             hurt' = {}, state' = "ok"
      PROVE  Memory!Next
  <2> DEFINE b == r.at
             p == Piece(heap'[b], "block", b)
  <2>1. Taken(heap, b, n, o, heap', top', Exempt) /\ ~ Used(b)
    BY <1>1, HeapInvGives, ScanSound DEF Malloc
  <2> HIDE DEF b
  <2>2. /\ SameUsed(heap, heap', {b}) /\ b \in DOMAIN heap' /\ heap'[b].is = "used"
        /\ p.owner = o /\ p.on = "block" /\ p.at = b
    BY <2>1, PieceFields DEF Taken
  <2>3. PiecesAt(heap, {b}) = {} /\ PiecesAt(heap', {b}) = {p}
    BY <2>1, <2>2, PiecesAtOne DEF Used
  <2>4. p \notin Pieces
    BY <2>1, <2>2, PieceIsKnown
  <2> HIDE DEF p
  <2>5. InBlocks(heap') = InBlocks(heap) \cup {p}
    BY <2>2, <2>3, PiecesChange
  <2>6. Pieces' = Pieces \cup {p}
    BY <1>1, <2>5 DEF Pieces
  <2>7. \A q \in Pieces : q.owner # p.owner
    BY <2>2, SpareIsNew DEF Malloc
  <2> QED BY <1>1, <2>4, <2>6, <2>7, AllocSimulates
<1> QED BY <1>1, EndSimulates DEF Malloc, NoBlock

LEMMA MallocLargeSimulates ==
  ASSUME HeapInv, HeapInv', NEW o \in Owners, NEW n \in Nat, MallocLarge(o, n)
  PROVE  Memory!Next
<1>0. state' = "ok" /\ hurt' = {}
  BY DEF MallocLarge
<1>1. InBlocks(heap') = InBlocks(heap)
  BY BootsKeeps DEF MallocLarge
<1>2. ASSUME NEW i \in Ids \ DOMAIN pages, pages' = WithPages(pages, i, n, o)
      PROVE  Memory!Next
  <2> DEFINE p == Piece([size |-> Rounded(n), asked |-> n, owner |-> o], "pages", i)
  <2>1. p.owner = o /\ p.on = "pages" /\ p.at = i
    BY PieceFields
  <2>2. p \notin Pieces
    BY <1>2, <2>1, PieceIsKnown
  <2>3. WithOwnPages(pages') = WithOwnPages(pages) \cup {p}
    BY <1>2, NewPages
  <2> HIDE DEF p
  <2>4. Pieces' = Pieces \cup {p}
    BY <1>1, <2>3 DEF Pieces
  <2>5. \A q \in Pieces : q.owner # p.owner
    BY <2>1, SpareIsNew DEF MallocLarge
  <2> QED BY <1>0, <2>2, <2>4, <2>5, AllocSimulates
<1>3. CASE UNCHANGED pages
  BY <1>0, <1>1, <1>3, FailSimulates DEF Pieces
<1> QED BY <1>2, <1>3 DEF MallocLarge

(* What is left in the blocks when the piece at a is freed.                *)
LEMMA FreedPieces ==
  ASSUME NEW a, Used(a), NEW t, NEW S, NEW g, Released(heap, a, t, S, g)
  PROVE  InBlocks(g) = InBlocks(heap) \ {Piece(heap[a], "block", a)}
<1>1. SameUsed(heap, g, {a}) /\ ~ (a \in DOMAIN g /\ g[a].is = "used")
  BY DEF Released
<1>2. PiecesAt(g, {a}) = {} /\ PiecesAt(heap, {a}) = {Piece(heap[a], "block", a)}
  BY <1>1, PiecesAtOne DEF Used
<1> QED BY <1>1, <1>2, PiecesChange

LEMMA FreeSimulates ==
  ASSUME HeapInv, NEW a, Free(a), state' # "lost"
  PROVE  Memory!Next
<1> DEFINE p == Piece(heap[a], "block", a)
<1>1. p \in Pieces /\ p \notin WithOwnPages(pages) /\ p.on = "block" /\ p.at = a
  BY PieceFields DEF Free, Used, Pieces, InBlocks, WithOwnPages
<1>2. Released(heap, a, top, Exempt, heap') /\ Harmed(heap', a, hurt')
  BY HeapInvGives, FreeChunkInv DEF Free, RestTyped
<1>3. InBlocks(heap') = InBlocks(heap) \ {p}
  BY <1>2, FreedPieces DEF Free
<1> HIDE DEF p
<1>4. Pieces' = Pieces \ {p}
  BY <1>1, <1>3 DEF Free, Pieces
<1>5. Memory!Harms(p)
  BY <1>1, <1>2, HarmsInFront
<1> QED BY <1>1, <1>4, <1>5, ReleaseSimulates

LEMMA FreePagesSimulates ==
  ASSUME NEW i, FreePages(i)
  PROVE  Memory!Next
<1> DEFINE p == Piece(pages[i], "pages", i)
<1>1. p \in Pieces /\ p \notin InBlocks(heap)
  BY PieceFields DEF FreePages, Pieces, InBlocks, WithOwnPages
<1>2. WithOwnPages(pages') = WithOwnPages(pages) \ {p}
  BY LostPages DEF FreePages
<1> HIDE DEF p
<1>3. Pieces' = Pieces \ {p}
  BY <1>1, <1>2 DEF FreePages, Pieces
<1>4. Memory!Harms(p)
  BY DEF FreePages, Memory!Harms
<1> QED BY <1>1, <1>3, <1>4, ReleaseSimulates

LEMMA MoveSimulates ==
  ASSUME HeapInv, HeapInv', NEW a, NEW n \in Nat, Move(a, n),
         state' \notin {"spilt", "lost"}
  PROVE  Memory!Next
<1>1. ASSUME NEW b, MovedTo(a, n, b), Used(a), pages' = pages, state' = "ok"
      PROVE  Memory!Next
  <2> DEFINE p == Piece(heap[a], "block", a)
             q == Piece(heap'[b], "block", b)
  <2>1. p \in Pieces /\ p \notin WithOwnPages(pages)
    BY <1>1, PieceFields DEF Used, Pieces, InBlocks, WithOwnPages
  <2>2. /\ q.on = "block" /\ q.at = b /\ q.owner = p.owner
        /\ p.on = "block" /\ p.at = a /\ a # b
    BY <1>1, PieceFields DEF MovedTo
  <2>3. q \notin Pieces
    BY <1>1, <2>2, PieceIsKnown DEF MovedTo
  <2>4. PiecesAt(heap, {a, b}) = {p}
    BY <1>1 DEF MovedTo, Used, PiecesAt
  <2>5. PiecesAt(heap', {a, b}) = {q}
    BY <1>1 DEF MovedTo, Used, PiecesAt
  <2> HIDE DEF p, q
  <2>6. InBlocks(heap') = (InBlocks(heap) \ {p}) \cup {q}
    <3>1. SameUsed(heap, heap', {a, b})
      BY <1>1 DEF MovedTo
    <3> QED BY <2>4, <2>5, <3>1, PiecesChange
  <2>7. Pieces' = (Pieces \ {p}) \cup {q}
    BY <1>1, <2>1, <2>6 DEF Pieces
  <2>8. Memory!Harms(p)
    BY <1>1, <2>2, HarmsInFront DEF MovedTo
  <2> QED BY <1>1, <2>1, <2>2, <2>3, <2>7, <2>8, ResizeSimulates
<1>2. ASSUME NEW r \in Scan(n, heap[a].owner), MoveTo(a, r)
      PROVE  Memory!Next
  <2>1. MovedTo(a, n, r.at)
    BY <1>2, MoveFacts DEF Move
  <2>2. state' = "ok" /\ pages' = pages
    BY <1>2 DEF MoveTo, FreeChunk
  <2> QED BY <1>1, <2>1, <2>2 DEF Move
<1> QED BY <1>2, EndSimulates DEF Move, NoBlock, Spill

LEMMA MoveToPagesSimulates ==
  ASSUME HeapInv, HeapInv', NEW a, NEW n \in Nat, MoveToPages(a, n), state' # "lost"
  PROVE  Memory!Next
<1> DEFINE p == Piece(heap[a], "block", a)
<1>1. PICK i \in Ids \ DOMAIN pages : pages' = WithPages(pages, i, n, heap[a].owner)
  BY DEF MoveToPages
<1> DEFINE q == Piece([size |-> Rounded(n), asked |-> n, owner |-> heap[a].owner], "pages", i)
<1>2. p \in Pieces /\ p \notin WithOwnPages(pages)
  BY PieceFields DEF MoveToPages, Used, Pieces, InBlocks, WithOwnPages
<1>3. q.on = "pages" /\ q.at = i /\ q.owner = p.owner /\ p.on = "block" /\ p.at = a
  BY PieceFields
<1>4. q \notin Pieces
  BY <1>1, <1>3, PieceIsKnown
<1>5. HeapInv' /\ Released(heap, a, top, Exempt, heap') /\ Harmed(heap', a, hurt')
  <2>1. TypedPages(pages')
    BY DEF HeapInv, TypeOK
  <2> QED BY <2>1, FreeChunkInv DEF MoveToPages
<1>6. InBlocks(heap') = InBlocks(heap) \ {p}
  BY <1>5, FreedPieces DEF MoveToPages
<1>7. WithOwnPages(pages') = WithOwnPages(pages) \cup {q}
  BY <1>1, NewPages
<1> HIDE DEF p, q
<1>8. Pieces' = (Pieces \ {p}) \cup {q}
  BY <1>2, <1>6, <1>7 DEF Pieces
<1>9. Memory!Harms(p)
  BY <1>3, <1>5, HarmsInFront
<1>10. state' = "ok"
  BY DEF MoveToPages, FreeChunk
<1> QED BY <1>2, <1>3, <1>4, <1>8, <1>9, <1>10, ResizeSimulates

LEMMA StayInPagesSimulates ==
  ASSUME HeapInv, HeapInv', NEW i, NEW n \in Nat, StayInPages(i, n)
  PROVE  Memory!Next
<1> DEFINE p == Piece(pages[i], "pages", i)
           q == Piece(pages'[i], "pages", i)
<1>1. i \in DOMAIN pages /\ pages' = [pages EXCEPT ![i].asked = n] /\ InBlocks(heap') = InBlocks(heap)
  BY BootsKeeps DEF StayInPages
<1>2. /\ DOMAIN pages' = DOMAIN pages
      /\ \A x \in DOMAIN pages \ {i} : pages'[x] = pages[x]
  BY <1>1
<1>3. pages'[i] = [pages[i] EXCEPT !.asked = n]
  BY <1>1
<1>4. pages'[i].owner = pages[i].owner
  BY <1>1, <1>3 DEF HeapInv, TypeOK, TypedPages
<1>5. p \in Pieces /\ p \notin InBlocks(heap)
  BY <1>1, PieceFields DEF Pieces, InBlocks, WithOwnPages
<1>6. q.on = "pages" /\ q.at = i /\ q.owner = p.owner
  BY <1>4, PieceFields
<1>7. q \notin Pieces \ {p}
  BY <1>6, PieceIsKnown
<1>8. ASSUME NEW x \in DOMAIN pages \ {i}
      PROVE  Piece(pages[x], "pages", x) # p
  BY PieceFields
<1>9. WithOwnPages(pages') = (WithOwnPages(pages) \ {p}) \cup {q}
  <2> HIDE DEF p
  <2>1. q = Piece(pages'[i], "pages", i) /\ p = Piece(pages[i], "pages", i)
    BY DEF p
  <2> HIDE DEF q
  <2> QED BY <1>1, <1>2, <1>8, <2>1 DEF WithOwnPages
<1> HIDE DEF p, q
<1>10. Pieces' = (Pieces \ {p}) \cup {q}
  BY <1>1, <1>5, <1>9 DEF Pieces
<1>11. state' = "ok" /\ hurt' = {}
  BY DEF StayInPages
<1> QED BY <1>5, <1>6, <1>7, <1>10, <1>11, ResizeSimulates

LEMMA MovePagesSimulates ==
  ASSUME HeapInv, HeapInv', NEW i, NEW n \in Nat, MovePages(i, n)
  PROVE  Memory!Next
<1> DEFINE p == Piece(pages[i], "pages", i)
<1>0. state' = "ok" /\ hurt' = {}
  BY DEF MovePages
<1>1. i \in DOMAIN pages /\ InBlocks(heap') = InBlocks(heap)
  BY BootsKeeps DEF MovePages
<1>2. ASSUME NEW j \in Ids \ DOMAIN pages,
             pages' = WithPages(Minus(pages, {i}), j, n, pages[i].owner)
      PROVE  Memory!Next
  <2> DEFINE q == Piece([size |-> Rounded(n), asked |-> n, owner |-> pages[i].owner], "pages", j)
  <2>1. p \in Pieces /\ p \notin InBlocks(heap)
    BY <1>1, PieceFields DEF Pieces, InBlocks, WithOwnPages
  <2>2. q.on = "pages" /\ q.at = j /\ q.owner = p.owner
    BY PieceFields
  <2>3. q \notin Pieces
    BY <1>2, <2>2, PieceIsKnown
  <2>4. WithOwnPages(Minus(pages, {i})) = WithOwnPages(pages) \ {p}
    BY <1>1, LostPages
  <2>5. j \notin DOMAIN Minus(pages, {i})
    BY <1>2 DEF Minus
  <2>6. WithOwnPages(pages') = (WithOwnPages(pages) \ {p}) \cup {q}
    BY <1>2, <2>4, <2>5, NewPages
  <2> HIDE DEF p, q
  <2>7. Pieces' = (Pieces \ {p}) \cup {q}
    BY <1>1, <2>1, <2>6 DEF Pieces
  <2> QED BY <1>0, <2>1, <2>2, <2>3, <2>7, ResizeSimulates
<1>3. CASE UNCHANGED pages
  BY <1>0, <1>1, <1>3, FailSimulates DEF Pieces
<1> QED BY <1>2, <1>3 DEF MovePages

(* Every step of the heap is one of the allocator, changes nothing the     *)
(* program sees, or is one with which the model ends.                      *)
Apartly == state' \in {"spilt", "lost"} \/ Memory!Next

LEMMA HeapSimulates ==
  HeapInv /\ HeapInv' /\ [Next]_vars => [Apartly]_<<Pieces, hurt>>
<1> SUFFICES ASSUME HeapInv, HeapInv', [Next]_vars, state' \notin {"spilt", "lost"}
             PROVE  Memory!Next \/ UNCHANGED <<Pieces, hurt>>
  BY DEF Apartly
<1>1. Requests \subseteq Nat
  BY HeapAssumption
<1>2. ASSUME NEW a \in DOMAIN heap, NEW n \in Requests, Shrink(a, n) PROVE Memory!Next
  <2>1. /\ Sound(heap, top, Exempt) /\ Used(a) /\ n \in Nat
        /\ n + 1 < heap[a].size /\ n + 1 < Page
    BY <1>1, <1>2, HeapInvGives DEF Shrink, Shrinks, Small
  <2>2. n + 1 <= heap[a].size /\ n + 1 <= Page
    BY <2>1, UsedFacts, HeapAssumption
  <2>3. Taken(heap, a, n, heap[a].owner, heap', top', Exempt)
    BY <1>2, <2>1, <2>2, UsedFacts, TakeSound DEF Shrink
  <2> QED BY <1>2, <2>1, <2>3, ResizeInPlace DEF Shrink
<1>3. ASSUME NEW a \in DOMAIN heap, NEW n \in Requests, Grow(a, n) PROVE Memory!Next
  <2>1. Sound(heap, top, Exempt)
    BY <1>3, HeapInvGives DEF Grow
  <2>2. Taken(heap, a, n, heap[a].owner, heap', top', Exempt)
    BY <1>1, <1>3, <2>1, UsedFacts, GrowSound, HeapAssumption DEF Grow, Grows, Small, Space
  <2> QED BY <1>3, <2>2, ResizeInPlace DEF Grow
<1>4. ASSUME NEW i \in DOMAIN pages, NEW n \in Requests, MoveFromPages(i, n) PROVE Memory!Next
  BY <1>4, EndSimulates DEF MoveFromPages, NoBlock, Spill
<1>5. ASSUME UNCHANGED vars PROVE UNCHANGED <<Pieces, hurt>>
  BY <1>5 DEF vars, Pieces
<1>6. ASSUME NEW a \in DOMAIN heap, NEW n \in Requests, Stay(a, n) PROVE Memory!Next
  BY <1>6, FailSimulates DEF Stay, Pieces
<1>7. state' # "lost"
  OBVIOUS
<1> QED
  BY <1>1, <1>2, <1>3, <1>4, <1>5, <1>6, <1>7, MallocSimulates, MallocLargeSimulates,
     FreeSimulates, FreePagesSimulates, MoveSimulates, MoveToPagesSimulates,
     StayInPagesSimulates, MovePagesSimulates
  DEF Next

(* malloc.c implements an allocator, for all sizes and any number of       *)
(* pieces: pieces are large enough, do not overlap, stay where they are    *)
(* until the program frees or reallocates them, and are written into by    *)
(* nothing but the freeing of a chunk behind them, up to the call in which *)
(* a copy or a prev_size leads too far.                                    *)
THEOREM HeapImplementsAllocator == Spec => AllocatesApart
<1>1. Init => Memory!Init
  BY DEF Init, Memory!Init, NoHeap, NoPages, Pieces, InBlocks, WithOwnPages
<1>2. QED
  BY HeapInvInit, HeapInvStep, HeapSimulates, <1>1, PTL DEF Spec, AllocatesApart, Apartly

=============================================================================
