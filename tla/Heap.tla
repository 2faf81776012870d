-------------------------------- MODULE Heap --------------------------------
(***************************************************************************)
(* The heap of the POVs (src/lib/include/libpov/malloc.c).                 *)
(*                                                                         *)
(* Memory is counted in units of 8 bytes, the size of a CHUNK_HDR: a       *)
(* request for n units takes a chunk of n + 1, which is what               *)
(* (size + 8 + 7) & ~7 comes to.  Blocks are laid end to end in the order  *)
(* of their list, so that a place is a number and the scan of              *)
(* cgc_alloc_main goes upwards.  heap[a] is the CHUNK_HDR at place a, for  *)
(* the places the scan comes to by adding sizes; the end chunk of a block  *)
(* is one of them.  What lies between headers, old headers and data of the *)
(* program, is not in the model, but that cgc_free may write there is.     *)
(*                                                                         *)
(* Two things make the heap depend on those bytes, and the model ends in   *)
(* the call that does them: cgc_realloc copies to a chunk that is smaller, *)
(* and over the headers behind it ("spilt"); cgc_free follows a prev_size  *)
(* past the chunk before to a free chunk or out of the block ("lost").     *)
(***************************************************************************)
EXTENDS Integers, FiniteSets

CONSTANTS
  Room,      (* the units of a block before its end chunk: BLOCK_SIZE      *)
  Page,      (* PAGE_SIZE                                                  *)
  Low,       (* how many units the low byte of a size counts: 32           *)
  Requests,  (* the numbers of units a program asks for                    *)
  Ids,       (* names of the pieces with pages of their own                *)
  Owners,    (* the pointers of the program, one for a piece it has        *)
  Nobody,    (* no pointer: a free chunk or an end chunk                   *)
  MaxTop     (* bound: no block is linked from here on                     *)

ASSUME HeapAssumption ==
  /\ Room \in Nat /\ Page \in Nat /\ Low \in Nat \ {0} /\ MaxTop \in Nat
  /\ 1 < Page /\ Page < Room
  /\ Requests \subseteq Nat
  /\ Nobody \notin Owners

VARIABLES
  heap,   (* place -> its header: size, prev (prev_size), and "free",      *)
          (* "used" or "end"; asked and owner are history: what a used     *)
          (* chunk was asked for, and the pointer to it                    *)
  top,    (* where the next block goes; 0 as long as heap_base is NULL     *)
  pages,  (* id -> chunk of its own, from cgc_allocate                     *)
  state,  (* "ok"; "dead": NULL was used; "spilt" and "lost": see above    *)
  smeared, (* history: has cgc_realloc copied a byte into a prev_size?     *)
  hurt    (* the pointer to the piece the last call wrote into, if any     *)

vars == <<heap, top, pages, state, smeared, hurt>>

Header == [size : Nat, prev : Nat, is : {"free", "used", "end"},
           asked : Nat, owner : Owners \cup {Nobody}]

Hdr(s, p, i) == [size |-> s, prev |-> p, is |-> i, asked |-> 0, owner |-> Nobody]
UsedHdr(n, p, o) == [size |-> n + 1, prev |-> p, is |-> "used", asked |-> n, owner |-> o]

NoHeap  == [a \in {} |-> Hdr(0, 0, "free")]
NoPages == [i \in {} |-> [size |-> 0, asked |-> 0, owner |-> Nobody]]

Init ==
  /\ heap  = NoHeap
  /\ top   = 0
  /\ pages = NoPages
  /\ state = "ok"
  /\ smeared = FALSE
  /\ hurt = {}

(* h with the headers of g written over it, and without some places.       *)
Over(h, g)  == [a \in DOMAIN h \cup DOMAIN g |-> IF a \in DOMAIN g THEN g[a] ELSE h[a]]
Minus(h, P) == [a \in DOMAIN h \ P |-> h[a]]

After(h, a) == a + h[a].size   (* the chunk behind a: nc, nxt                 *)
SetPrev(h, a, s) == Over(h, [x \in {a} \cap DOMAIN h |-> [h[a] EXCEPT !.prev = s]])

-----------------------------------------------------------------------------
(* Blocks and chunks.                                                      *)

(* cgc_block_init: one free chunk and the end chunk.                       *)
Block(h, t) ==
  Over(h, [a \in {t, t + Room} |->
             IF a = t THEN Hdr(Room, 0, "free") ELSE Hdr(1, Room, "end")])

(* A chunk of n + 1 units for o at a and, if s units leave some, a free    *)
(* one behind it.                                                          *)
Carve(h, a, s, n, o) ==
  LET used == UsedHdr(n, h[a].prev, o)
  IN  IF s = n + 1 THEN Over(h, [x \in {a} |-> used])
      ELSE Over(h, [x \in {a, a + n + 1} |->
                      IF x = a THEN used ELSE Hdr(s - n - 1, n + 1, "free")])

(* Mutant: the chunk behind a split is not told.                           *)
TakeUntold(h, a, n, o) == Carve(h, a, h[a].size, n, o)

(* Mutant: the rest of a free chunk is not split off.                      *)
TakeWhole(h, a, n, o) ==
  Over(h, [x \in {a} |-> [UsedHdr(n, h[a].prev, o) EXCEPT !.size = h[a].size]])

(* A free chunk is taken: whole, or split.                                 *)
Take(h, a, n, o) ==
  LET c == Carve(h, a, h[a].size, n, o)
  IN  IF h[a].size = n + 1 THEN c ELSE SetPrev(c, After(h, a), h[a].size - n - 1)

Large(n) == n + 1 > Page

(* Mutant: the in-use bit of the chunks is not looked at.                  *)
CandidatesAnywhere(h, n) == {a \in DOMAIN h : h[a].is # "end" /\ h[a].size >= n + 1}

Candidates(h, n) == {a \in DOMAIN h : h[a].is = "free" /\ h[a].size >= n + 1}

(* The first free chunk of the scan that is large enough.                  *)
FirstFit(h, n, a) ==
  /\ a \in Candidates(h, n)
  /\ \A b \in Candidates(h, n) : a <= b

(* The heap a request starts from: heap_init.                              *)
Booted == IF top = 0 THEN Block(heap, 0) ELSE heap
Top    == IF top = 0 THEN Room + 1 ELSE top

(* A new block is linked, and its first chunk split; the end chunk is not  *)
(* told.                                                                   *)
Link(h, n, o) == Carve(Block(h, Top), Top, Room, n, o)

(* The part of cgc_alloc_main that scans: the place of the new chunk and   *)
(* the heap with it.  The set is empty at the bound.                       *)
Scan(n, o) ==
  {[at |-> a, heap |-> Take(Booted, a, n, o), top |-> Top] :
     a \in {x \in Candidates(Booted, n) : FirstFit(Booted, n, x)}}
  \cup {[at |-> Top, heap |-> Link(Booted, n, o), top |-> Top + Room + 1] :
          x \in {y \in {Top} : Candidates(Booted, n) = {} /\ y < MaxTop}}

(* The program dies, and its memory with it.                               *)
Dies ==
  /\ state' = "dead"
  /\ heap' = NoHeap /\ top' = 0 /\ pages' = NoPages
  /\ hurt' = {}
  /\ UNCHANGED smeared

(* cgc_allocate has no memory for a block: the NULL that is linked, or was *)
(* heap_base, is used.                                                     *)
NoBlock(n) == (top = 0 \/ Candidates(Booted, n) = {}) /\ Dies

Rounded(n) == ((n + Page) \div Page) * Page
WithPages(ps, i, n, o) ==
  Over(ps, [x \in {i} |-> [size |-> Rounded(n), asked |-> n, owner |-> o]])

(* heap_init comes first for a large request, too; its failure is not      *)
(* noticed then.                                                           *)
Boots ==
  \/ heap' = Booted /\ top' = Top
  \/ top = 0 /\ UNCHANGED <<heap, top>>

-----------------------------------------------------------------------------
(* cgc_free of the chunk at a of h: the chunk behind it joins it if it is  *)
(* free, then it joins the one that prev_size leads to, if there is one.   *)
(* No prev_size but those of split chunks is updated.                      *)
Forward(h, a) ==
  LET n == After(h, a)
  IN  IF h[n].is = "free"
      THEN Over(Minus(h, {n}), [x \in {a} |-> Hdr(h[a].size + h[n].size, h[a].prev, "free")])
      ELSE Over(h, [x \in {a} |-> Hdr(h[a].size, h[a].prev, "free")])

(* Mutant: the chunk before grows by its own size.                         *)
BackwardTwice(h, a) ==
  LET p == a - h[a].prev
  IN  IF h[a].prev # 0 /\ p \in DOMAIN h /\ h[p].is = "free"
      THEN Over(Minus(h, {a}), [x \in {p} |-> [h[p] EXCEPT !.size = @ + h[a].prev]])
      ELSE h

Backward(h, a) ==
  LET p == a - h[a].prev
  IN  IF h[a].prev # 0 /\ p \in DOMAIN h /\ h[p].is = "free"
      THEN Over(Minus(h, {a}), [x \in {p} |-> [h[p] EXCEPT !.size = @ + h[a].size]])
      ELSE h

Freed(h, a) == Backward(Forward(h, a), a)

(* The pieces with data where prev_size leads to.  If the low bit of what  *)
(* is taken for a size is 0, the size of the chunk is added to it.         *)
Struck(h, a) ==
  LET p == a - h[a].prev
  IN  {q \in DOMAIN h : h[q].is = "used" /\ q < p /\ p < After(h, q)}

(* prev_size leads out of the block, or to a free chunk with others        *)
(* between, over which that one grows.                                     *)
Astray(h, a) ==
  LET p == a - h[a].prev
  IN  /\ h[a].prev # 0
      /\ \/ p < 0
         \/ \E e \in DOMAIN h : h[e].is = "end" /\ p <= e /\ e < a
         \/ p \in DOMAIN h /\ h[p].is = "free" /\ After(h, p) # a

(* All of cgc_free.                                                        *)
FreeChunk(h, a) ==
  LET f == Forward(h, a)
  IN  /\ heap' = Freed(h, a)
      /\ state' = IF Astray(f, a) THEN "lost" ELSE "ok"
      /\ hurt' \in {{}} \cup {{f[q].owner} : q \in Struck(f, a)}

Used(a) == a \in DOMAIN heap /\ heap[a].is = "used"

Free(a) ==
  /\ state = "ok" /\ Used(a)
  /\ FreeChunk(heap, a)
  /\ UNCHANGED <<top, pages, smeared>>

FreePages(i) ==
  /\ state = "ok" /\ i \in DOMAIN pages
  /\ pages' = Minus(pages, {i})
  /\ hurt' = {}
  /\ UNCHANGED <<heap, top, state, smeared>>

-----------------------------------------------------------------------------
(* cgc_malloc.                                                             *)
Spare(o) ==
  /\ \A a \in DOMAIN heap : heap[a].owner # o
  /\ \A i \in DOMAIN pages : pages[i].owner # o

Malloc(o, n) ==
  /\ state = "ok" /\ ~ Large(n) /\ Spare(o)
  /\ \/ /\ \E r \in Scan(n, o) : heap' = r.heap /\ top' = r.top
        /\ hurt' = {} /\ UNCHANGED <<pages, state, smeared>>
     \/ NoBlock(n)

MallocLarge(o, n) ==
  /\ state = "ok" /\ Large(n) /\ Spare(o)
  /\ Boots
  /\ \/ \E i \in Ids \ DOMAIN pages : pages' = WithPages(pages, i, n, o)
     \/ UNCHANGED pages   \* cgc_allocate fails: NULL
  /\ hurt' = {} /\ UNCHANGED <<state, smeared>>

-----------------------------------------------------------------------------
(* cgc_realloc of the chunk at a.                                          *)

Small(a, n) == heap[a].size < Page /\ n + 1 < Page

Shrinks(a, n) == Small(a, n) /\ n + 1 < heap[a].size

(* With the chunk behind it.                                               *)
Space(a) == heap[a].size + heap[After(heap, a)].size

Grows(a, n) ==
  /\ Small(a, n) /\ heap[a].size <= n + 1
  /\ heap[After(heap, a)].is = "free"
  /\ n + 1 <= Space(a)

(* The in-use bit makes a full page larger than a page here.               *)
Stays(a, n) == heap[a].size = Page /\ n + 1 = Page

Shrink(a, n) ==
  /\ state = "ok" /\ Used(a) /\ Shrinks(a, n)
  /\ heap' = Take(heap, a, n, heap[a].owner)
  /\ hurt' = {} /\ UNCHANGED <<top, pages, state, smeared>>

Grow(a, n) ==
  /\ state = "ok" /\ Used(a) /\ Grows(a, n)
  /\ LET h == Carve(Minus(heap, {After(heap, a)}), a, Space(a), n, heap[a].owner)
     IN  heap' = SetPrev(h, a + Space(a),
                         IF n + 1 = Space(a) THEN n + 1 ELSE Space(a) - (n + 1))
  /\ hurt' = {} /\ UNCHANGED <<top, pages, state, smeared>>

Stay(a, n) ==
  /\ state = "ok" /\ Used(a) /\ Stays(a, n)
  /\ hurt' = {} /\ UNCHANGED <<heap, top, pages, state, smeared>>

(* The copy is one byte longer than the data, as the in-use bit counts: in *)
(* a chunk of the same size the low byte of the next prev_size becomes the *)
(* one behind the old chunk.                                               *)
Copied(h, a, b) ==
  LET r == After(h, b)
      p == (h[r].prev \div Low) * Low + (h[After(h, a)].prev % Low)
  IN  IF h[b].size = h[a].size THEN SetPrev(h, r, p) ELSE h

(* That changed a prev_size; nothing reads the one of an end chunk.        *)
Smears(h, a, b) == h[After(h, b)].is # "end" /\ Copied(h, a, b) # h

(* A copy of s units to a smaller chunk at b: the data are written over    *)
(* the headers behind it.                                                  *)
Spill(r, s) ==
  /\ state' = "spilt"
  /\ heap' = Minus(r.heap, {x \in DOMAIN r.heap : r.at < x /\ x < r.at + s})
  /\ top' = r.top
  /\ hurt' = {} /\ UNCHANGED <<pages, smeared>>

MoveTo(a, r) ==
  /\ FreeChunk(Copied(r.heap, a, r.at), a)
  /\ top' = r.top
  /\ smeared' = (smeared \/ Smears(r.heap, a, r.at))
  /\ UNCHANGED pages

Move(a, n) ==
  /\ state = "ok" /\ Used(a) /\ ~ Large(n)
  /\ ~ Shrinks(a, n) /\ ~ Grows(a, n) /\ ~ Stays(a, n)
  /\ \/ \E r \in Scan(n, heap[a].owner) :
          IF n + 1 < heap[a].size THEN Spill(r, heap[a].size) ELSE MoveTo(a, r)
     \/ NoBlock(n)

MoveToPages(a, n) ==
  /\ state = "ok" /\ Used(a) /\ Large(n)
  /\ \E i \in Ids \ DOMAIN pages : pages' = WithPages(pages, i, n, heap[a].owner)
  /\ FreeChunk(heap, a)
  /\ UNCHANGED <<top, smeared>>

(* cgc_realloc of a piece with pages of its own.                           *)
StayInPages(i, n) ==
  /\ state = "ok" /\ i \in DOMAIN pages
  /\ Page <= n + 1 /\ n + 1 < pages[i].size
  /\ Boots
  /\ pages' = [pages EXCEPT ![i].asked = n]
  /\ hurt' = {} /\ UNCHANGED <<state, smeared>>

MovePages(i, n) ==
  /\ state = "ok" /\ i \in DOMAIN pages
  /\ pages[i].size <= n + 1
  /\ Boots
  /\ \/ \E j \in Ids \ DOMAIN pages :
          pages' = WithPages(Minus(pages, {i}), j, n, pages[i].owner)
     \/ UNCHANGED pages
  /\ hurt' = {} /\ UNCHANGED <<state, smeared>>

(* The data of the pages go to a chunk that is smaller than them.          *)
MoveFromPages(i, n) ==
  /\ state = "ok" /\ i \in DOMAIN pages /\ n + 1 < Page
  /\ \/ \E r \in Scan(n, pages[i].owner) : Spill(r, pages[i].size)
     \/ NoBlock(n)

-----------------------------------------------------------------------------
Next ==
  \/ \E o \in Owners, n \in Requests : Malloc(o, n) \/ MallocLarge(o, n)
  \/ \E a \in DOMAIN heap :
       \/ Free(a)
       \/ \E n \in Requests :
            \/ Shrink(a, n) \/ Grow(a, n) \/ Stay(a, n)
            \/ Move(a, n) \/ MoveToPages(a, n)
  \/ \E i \in DOMAIN pages :
       \/ FreePages(i)
       \/ \E n \in Requests :
            StayInPages(i, n) \/ MovePages(i, n) \/ MoveFromPages(i, n)

Spec == Init /\ [][Next]_vars

-----------------------------------------------------------------------------
(* What holds of headers, and of chunks with pages of their own.           *)
TypedHeap(h) ==
  /\ DOMAIN h \subseteq Nat
  /\ \A a \in DOMAIN h :
       /\ h[a] \in Header
       /\ h[a].is = "used" =>
            h[a].asked < h[a].size /\ h[a].size <= Page /\ h[a].owner \in Owners
       /\ h[a].is # "used" => h[a].owner = Nobody

TypedPages(ps) ==
  /\ DOMAIN ps \subseteq Ids
  /\ \A i \in DOMAIN ps :
       /\ ps[i] \in [size : Nat, asked : Nat, owner : Owners]
       /\ ps[i].asked < ps[i].size /\ Page < ps[i].size

(* Every variable has its type, and a used chunk is so small that cgc_free *)
(* does not take it for one with pages of its own, which are larger.       *)
TypeOK ==
  /\ top \in Nat
  /\ state \in {"ok", "dead", "spilt", "lost"}
  /\ TypedHeap(heap)
  /\ TypedPages(pages)
  /\ smeared \in BOOLEAN
  /\ hurt \subseteq Owners

EndToEnd(h, t) ==
  /\ \A a \in DOMAIN h :
       /\ 0 < h[a].size /\ After(h, a) <= t
       /\ h[a].is # "end" => After(h, a) \in DOMAIN h
  /\ \A a, b \in DOMAIN h : a < b => After(h, a) <= b

(* Chunks lie end to end: adding sizes leads from each header to the next  *)
(* and, at last, to the end chunk of its block, so that the scan and the   *)
(* search for the chunk behind meet headers and nothing else, whatever was *)
(* split, joined and moved before, and with the prev_size that cgc_realloc *)
(* changed.  It is over only with the two calls in which the model ends.   *)
Tiled == state = "ok" => EndToEnd(heap, top)

Behind(h) ==
  \A a \in DOMAIN h :
    \/ h[a].is = "end" \/ h[a].prev = 0
    \/ \E p \in DOMAIN h :
         p < a /\ After(h, p) = a /\ h[p].is # "end" /\ h[a].prev <= h[p].size

(* The comment on top of malloc.c says that prev_size is always valid.  It *)
(* is not: joining chunks does not update the one behind them, and the     *)
(* byte that cgc_realloc copies too many can make one lead anywhere.  But  *)
(* until that byte has changed one, none leads out of the chunk before, so *)
(* that cgc_free joins a chunk with its neighbour or with nothing: only    *)
(* that byte can lead it astray.                                           *)
PrevStaysInNeighbour ==
  smeared \/ (state # "lost" /\ (state = "ok" => Behind(heap)))

-----------------------------------------------------------------------------
(* The pieces of the program, in the blocks and with pages of their own.   *)
Piece(k, on, a) == [owner |-> k.owner, on |-> on, at |-> a, size |-> k.size, asked |-> k.asked]

InBlocks(h)      == {Piece(h[a], "block", a) : a \in {x \in DOMAIN h : h[x].is = "used"}}
WithOwnPages(ps) == {Piece(ps[i], "pages", i) : i \in DOMAIN ps}

Pieces == InBlocks(heap) \cup WithOwnPages(pages)

Memory == INSTANCE Allocator WITH live <- Pieces

(* Whatever is split, joined, grown and moved: what malloc and realloc     *)
(* return is large enough and overlaps nothing the program has, all other  *)
(* pieces stay where they are, and no data are written into but by freeing *)
(* a chunk that lies behind them, one piece each time.  This holds up to   *)
(* the call in which a copy or a prev_size leads too far.                  *)
AllocatesApart ==
  /\ Memory!Init
  /\ [][state' \in {"spilt", "lost"} \/ Memory!Next]_<<Pieces, hurt>>

=============================================================================
