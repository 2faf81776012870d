---------------------------- MODULE LibpovProofs ----------------------------
(***************************************************************************)
(* Proofs about the reads of a POV, for streams, buffers, lengths and      *)
(* delimiters of any size.  The inductive invariant says where every byte  *)
(* is: returned by an earlier call, kept by the call under way, in the     *)
(* buffer, or not received yet, in that order and without a gap.           *)
(***************************************************************************)
EXTENDS Libpov, SequenceTheorems, TLAPS

(* s holds the bytes behind p.                                             *)
Follows(s, p) == \A i \in 1..Len(s) : s[i] = p + i

(* The buffer holds the last bytes received, in order; it is empty, and    *)
(* begins at its start, while it is being filled.                          *)
Buffered ==
  /\ avail \in 0..taken
  /\ \A j \in rb.iptr..(rb.eptr - 1) : rb.buf[j] = (taken - rb.eptr) + j + 1
  /\ direct => avail = 0 /\ call.at # "receive"
  /\ call.at = "receive" => rb.iptr = 0 /\ rb.eptr = 0

(* What a call has is all that has left the buffer since it began.         *)
InPlace ==
  /\ Follows(call.got, call.begun)
  /\ Follows(call.rx, call.begun + Len(call.got))
  /\ call.begun + Len(call.got) + Len(call.rx) = taken - avail

(* A call has never read more than it was asked for.                       *)
Measured ==
  /\ call.op # "delimited" => Len(call.got) < call.want
  /\ call.at \in {"loop", "receive"} => call.count >= 1 /\ ~ call.err
  /\ call.at \in {"loop", "receive"} /\ call.op # "delimited" =>
       Len(call.got) + Len(call.rx) + call.count <= call.want
  /\ call.at = "return" /\ call.op # "delimited" => Len(call.got) + Len(call.rx) <= call.want
  /\ call.at \in {"loop", "receive"} /\ call.op = "delimited" => call.count = 1 /\ call.rx = <<>>
  /\ call.at = "loop" /\ direct => call.rx = <<>>
  /\ call.op = "delimited" => Len(call.rx) <= 1
  /\ call.op = "delimited" /\ call.err => call.rx = <<>>

(* cgc_buffered_receive returns nothing only at the end of the stream.     *)
AtEnd ==
  call.at = "return" /\ ~ call.err /\ call.rx = <<>> =>
    closed /\ taken = written /\ avail = 0

CallOK == Pending => InPlace /\ Measured /\ AtEnd

IInv == TypeOK /\ Buffered /\ CallOK

-----------------------------------------------------------------------------
(* Sequences of bytes.                                                     *)
LEMMA LenIsNat ==
  ASSUME NEW S, NEW s \in Seq(S)
  PROVE  Len(s) \in Nat /\ (s = <<>> <=> Len(s) = 0)
<1>1. Len(s) \in Nat /\ s \in [1..Len(s) -> S]
  BY LenProperties
<1>2. <<>> \in Seq(S) /\ Len(<<>>) = 0
  OBVIOUS
<1>3. Len(s) = 0 => s = <<>>
  BY <1>2, SeqEqual
<1> QED BY <1>1, <1>2, <1>3

(* A result that follows p is what Stream calls so.                        *)
LEMMA FollowsIs ==
  ASSUME NEW s \in Seq(Bytes), NEW p \in Nat, Follows(s, p)
  PROVE  s = Reading!Following(p, Len(s))
<1>1. Len(s) \in Nat /\ s \in [1..Len(s) -> Bytes]
  BY LenProperties
<1>2. Reading!Following(p, Len(s)) = [i \in 1..Len(s) |-> p + i]
  BY DEF Reading!Following
<1>3. s = [i \in 1..Len(s) |-> s[i]]
  BY <1>1
<1>4. [i \in 1..Len(s) |-> s[i]] = [i \in 1..Len(s) |-> p + i]
  BY DEF Follows
<1> QED BY <1>2, <1>3, <1>4

LEMMA ConcatFollows ==
  ASSUME NEW s \in Seq(Bytes), NEW t \in Seq(Bytes), NEW p \in Nat,
         Follows(s, p), Follows(t, p + Len(s))
  PROVE  /\ s \o t \in Seq(Bytes)
         /\ Len(s \o t) = Len(s) + Len(t)
         /\ Follows(s \o t, p)
<1> DEFINE u == s \o t
<1>1. /\ u \in Seq(Bytes) /\ Len(u) = Len(s) + Len(t)
      /\ \A i \in 1..(Len(s) + Len(t)) : u[i] = IF i <= Len(s) THEN s[i] ELSE t[i - Len(s)]
  BY ConcatProperties
<1>2. Len(s) \in Nat /\ Len(t) \in Nat
  BY LenIsNat
<1> HIDE DEF u
<1>3. \A i \in 1..Len(s) : s[i] = p + i
  BY DEF Follows
<1>4. \A i \in 1..Len(t) : t[i] = p + Len(s) + i
  BY DEF Follows
<1>5. ASSUME NEW i \in 1..Len(u) PROVE u[i] = p + i
  <2>1. i <= Len(s) => u[i] = p + i
    BY <1>1, <1>2, <1>3
  <2>2. i > Len(s) => i - Len(s) \in 1..Len(t) /\ u[i] = t[i - Len(s)]
    BY <1>1, <1>2
  <2>3. i > Len(s) => u[i] = p + Len(s) + (i - Len(s))
    BY <2>2, <1>4
  <2> QED BY <1>1, <1>2, <2>1, <2>3
<1>6. Follows(u, p)
  BY <1>5 DEF Follows
<1> QED BY <1>1, <1>6 DEF u

(* What is copied out of the buffer are the next bytes.                    *)
CopyIs(s, n) == s \in Seq(Bytes) /\ Len(s) = n /\ Follows(s, taken - avail)

LEMMA CopiedFacts ==
  ASSUME TypeOK, Buffered, NEW n \in Nat, n <= avail
  PROVE  CopyIs(Copied(n), n)
<1>1. /\ taken \in Nat /\ written \in Nat /\ taken <= written /\ written <= N /\ N \in Nat
      /\ rb.iptr \in Nat /\ rb.eptr \in Nat /\ rb.iptr <= rb.eptr /\ avail \in 0..taken
      /\ avail = rb.eptr - rb.iptr
  BY LibpovAssumption DEF TypeOK, Buffered, avail
<1>2. ASSUME NEW i \in 1..n PROVE rb.buf[rb.iptr + i - 1] = (taken - avail) + i
  <2>1. rb.iptr + i - 1 \in rb.iptr..(rb.eptr - 1)
    BY <1>1
  <2>2. rb.buf[rb.iptr + i - 1] = (taken - rb.eptr) + (rb.iptr + i - 1) + 1
    BY <2>1 DEF Buffered
  <2> QED BY <1>1, <2>2
<1>3. ASSUME NEW i \in 1..n PROVE rb.buf[rb.iptr + i - 1] \in Bytes
  <2>1. i \in Nat /\ 1 <= i /\ i <= avail
    BY <1>1
  <2>2. (taken - avail) + i \in 1..N
    BY <1>1, <2>1
  <2> QED BY <1>2, <2>2 DEF Bytes
<1> DEFINE s == Copied(n)
<1>4. s = [i \in 1..n |-> rb.buf[rb.iptr + i - 1]]
  BY DEF Copied
<1>5. s \in Seq(Bytes)
  <2>1. \A i \in 1..n : rb.buf[rb.iptr + i - 1] \in Bytes
    BY <1>3
  <2>2. [i \in 1..n |-> rb.buf[rb.iptr + i - 1]] \in Seq(Bytes)
    BY <2>1
  <2> QED BY <1>4, <2>2
<1> HIDE DEF s
<1>6. Len(s) = n
  BY <1>4, <1>5, LenProperties
<1>7. \A i \in 1..Len(s) : s[i] = (taken - avail) + i
  BY <1>2, <1>4, <1>6
<1> QED BY <1>5, <1>6, <1>7 DEF CopyIs, Follows, s

LEMMA Initially == Init => IInv
<1> SUFFICES ASSUME Init PROVE IInv
  OBVIOUS
<1>1. Size \in Nat \ {0} /\ N \in Nat
  BY LibpovAssumption
<1>2. call = NoCall /\ NoCall \in Call
  BY DEF Init, NoCall, Call, Ops
<1>3. last = NoResult /\ NoResult \in Result
  BY DEF Init, NoResult, Result, Ops
<1>4. TypeOK
  <2>1. rb = [made |-> FALSE, iptr |-> 0, eptr |-> 0, buf |-> [j \in 0..Size - 1 |-> 0]]
    BY DEF Init
  <2>2. [j \in 0..Size - 1 |-> 0] \in [0..Size - 1 -> 0..N]
    BY <1>1
  <2>3. 0 \in 0..Size /\ 0 \in 0..N
    BY <1>1
  <2>4. /\ rb \in [made : BOOLEAN, iptr : 0..Size, eptr : 0..Size, buf : [0..Size - 1 -> 0..N]]
        /\ rb.iptr <= rb.eptr
    BY <2>1, <2>2, <2>3
  <2>5. /\ text \in [Bytes -> Letters] /\ direct \in BOOLEAN /\ closed \in BOOLEAN
        /\ written = 0 /\ taken = 0
    BY Zenon DEF Init
  <2>7. written \in 0..N /\ taken \in 0..written
    BY <2>3, <2>5
  <2>6. call \in Call /\ last \in Result
    BY <1>2, <1>3
  <2> QED BY <2>4, <2>5, <2>6, <2>7 DEF TypeOK
<1>5. Buffered
  BY <1>1 DEF Init, Buffered, avail, NoCall
<1>6. CallOK
  BY DEF Init, CallOK, Pending, NoCall
<1> QED BY <1>4, <1>5, <1>6 DEF IInv

-----------------------------------------------------------------------------
(* The types that arithmetic needs.                                        *)
Shape ==
  /\ N \in Nat /\ written \in Nat /\ taken \in Nat /\ taken <= written /\ written <= N
  /\ rb.iptr \in Nat /\ rb.eptr \in Nat /\ rb.iptr <= rb.eptr /\ rb.eptr <= Size /\ Size \in Nat
  /\ avail \in Nat /\ avail = rb.eptr - rb.iptr /\ avail <= taken
  /\ call.want \in Nat /\ call.count \in Nat /\ call.begun \in Nat /\ call.cap \in Nat
  /\ call.got \in Seq(Bytes) /\ call.rx \in Seq(Bytes)
  /\ Len(call.got) \in Nat /\ Len(call.rx) \in Nat
  /\ call.rx = <<>> <=> Len(call.rx) = 0

LEMMA ShapeOf == ASSUME IInv PROVE Shape
<1>1. /\ N \in Nat /\ written \in Nat /\ taken \in Nat /\ taken <= written /\ written <= N
      /\ rb.iptr \in Nat /\ rb.eptr \in Nat /\ rb.iptr <= rb.eptr /\ rb.eptr <= Size /\ Size \in Nat
      /\ avail \in Nat /\ avail = rb.eptr - rb.iptr /\ avail <= taken
  BY LibpovAssumption DEF IInv, TypeOK, Buffered, avail
<1>2. /\ call.want \in Nat /\ call.count \in Nat /\ call.begun \in Nat /\ call.cap \in Nat
      /\ call.got \in Seq(Bytes) /\ call.rx \in Seq(Bytes)
  BY DEF IInv, TypeOK, Call
<1>3. /\ Len(call.got) \in Nat /\ Len(call.rx) \in Nat
      /\ call.rx = <<>> <=> Len(call.rx) = 0
  BY <1>2, LenIsNat
<1> QED BY <1>1, <1>2, <1>3 DEF Shape

(* A step of the call that leaves the rest alone.                          *)
LEMMA CallTyped ==
  ASSUME TypeOK, NEW c \in Call, call' = c,
         UNCHANGED <<text, direct, written, closed, taken, rb>>, last' \in Result
  PROVE  TypeOK'
BY DEF TypeOK

LEMMA WriteKeeps == ASSUME IInv, NEW n \in Bytes, Write(n) PROVE IInv'
<1>1. Shape /\ n \in Nat
  BY ShapeOf DEF Bytes
<1>2. TypeOK'
  <2>1. written' \in 0..N /\ taken' \in 0..written'
    BY <1>1 DEF Write, Shape
  <2> QED BY <2>1 DEF IInv, TypeOK, Write
<1>3. Buffered'
  BY DEF IInv, Buffered, Write, avail
<1>4. CallOK'
  BY DEF IInv, CallOK, Pending, Write, InPlace, Measured, AtEnd, avail, Follows
<1> QED BY <1>2, <1>3, <1>4 DEF IInv

LEMMA CloseKeeps == ASSUME IInv, Close PROVE IInv'
<1>1. TypeOK'
  BY DEF IInv, TypeOK, Close
<1>2. Buffered'
  BY DEF IInv, Buffered, Close, avail
<1>3. CallOK'
  BY DEF IInv, CallOK, Pending, Close, InPlace, Measured, AtEnd, avail, Follows
<1> QED BY <1>1, <1>2, <1>3 DEF IInv

(* A new call, of any kind.                                                *)
LEMMA BeginKeeps ==
  ASSUME IInv, NEW op \in Ops, NEW w \in Nat, NEW d \in Delims \cup {<<>>}, NEW n \in Nat \ {0},
         op # "delimited" => n <= w,
         op = "delimited" => n = 1,
         call' = [at |-> "loop", op |-> op, want |-> w, delim |-> d, count |-> n, rx |-> <<>>,
                  err |-> FALSE, got |-> <<>>, cap |-> 0, begun |-> taken - avail],
         UNCHANGED <<text, direct, written, closed, taken, last>>, rb' = [rb EXCEPT !.made = TRUE]
  PROVE  IInv'
<1>1. Shape
  BY ShapeOf
<1>2. call' = [at |-> "loop", op |-> op, want |-> w, delim |-> d, count |-> n, rx |-> <<>>,
               err |-> FALSE, got |-> <<>>, cap |-> 0, begun |-> taken - avail]
  OBVIOUS
<1>3. UNCHANGED <<text, direct, written, closed, taken, last>> /\ rb' = [rb EXCEPT !.made = TRUE]
  OBVIOUS
<1>4. /\ rb' \in [made : BOOLEAN, iptr : 0..Size, eptr : 0..Size, buf : [0..Size - 1 -> 0..N]]
      /\ rb'.iptr = rb.iptr /\ rb'.eptr = rb.eptr /\ rb'.buf = rb.buf
  BY <1>3 DEF IInv, TypeOK
<1>5. avail' = avail
  BY <1>4 DEF avail
<1>6. call' \in Call
  <2>1. taken - avail \in Nat
    BY <1>1 DEF Shape
  <2> QED BY <1>2, <2>1 DEF Call
<1>7. TypeOK'
  BY <1>3, <1>4, <1>6 DEF IInv, TypeOK
<1>8. Buffered'
  BY <1>2, <1>3, <1>4, <1>5 DEF IInv, Buffered, Begin
<1>9. CallOK'
  <2>1. InPlace'
    BY <1>1, <1>2, <1>3, <1>5 DEF InPlace, Follows, Shape
  <2>2. Measured'
    BY <1>2 DEF Measured
  <2>3. AtEnd'
    BY <1>2 DEF AtEnd
  <2> QED BY <2>1, <2>2, <2>3 DEF CallOK
<1> QED BY <1>7, <1>8, <1>9 DEF IInv

LEMMA NoBufferKeeps == ASSUME IInv, NoBuffer PROVE IInv'
<1>1. call' = [call EXCEPT !.at = "dead"] /\ UNCHANGED <<text, direct, written, closed, taken, rb, last>>
  BY DEF NoBuffer
<1>2. call' \in Call /\ call'.at = "dead"
  BY <1>1 DEF IInv, TypeOK, Call
<1>3. TypeOK'
  BY <1>1, <1>2 DEF IInv, TypeOK
<1>4. Buffered'
  BY <1>1, <1>2 DEF IInv, Buffered, avail, NoBuffer
<1>5. CallOK'
  BY <1>2 DEF CallOK, Pending
<1> QED BY <1>3, <1>4, <1>5 DEF IInv

(* What an EXCEPT of the copy leaves of the call.                          *)
SameCall(c) ==
  /\ c.op = call.op /\ c.want = call.want /\ c.delim = call.delim
  /\ c.got = call.got /\ c.begun = call.begun /\ c.cap = call.cap

(* What is copied follows what the call has.                               *)
Grows(r, n) ==
  /\ r \in Seq(Bytes) /\ Len(r) \in Nat /\ Len(r) = Len(call.rx) + n
  /\ Follows(r, call.begun + Len(call.got))

LEMMA RxGrows ==
  ASSUME Shape, InPlace, NEW n, NEW new, CopyIs(new, n)
  PROVE  Grows(call.rx \o new, n)
<1> DEFINE p == call.begun + Len(call.got)
<1>1. p \in Nat /\ p + Len(call.rx) = taken - avail
  BY DEF Shape, InPlace
<1>2. Follows(call.rx, p) /\ call.rx \in Seq(Bytes)
  BY DEF Shape, InPlace
<1>3. new \in Seq(Bytes) /\ Len(new) = n /\ Follows(new, p + Len(call.rx))
  BY <1>1 DEF CopyIs
<1> HIDE DEF p
<1>4. /\ call.rx \o new \in Seq(Bytes)
      /\ Len(call.rx \o new) = Len(call.rx) + Len(new)
      /\ Follows(call.rx \o new, p)
  BY <1>1, <1>2, <1>3, ConcatFollows
<1>5. Len(call.rx \o new) \in Nat
  BY <1>4, LenIsNat
<1> QED BY <1>3, <1>4, <1>5 DEF Grows, p

(* The numbers of Shape, without the sequences.                            *)
Numbers ==
  /\ written \in Nat /\ taken \in Nat /\ taken <= written
  /\ rb.iptr \in Nat /\ rb.eptr \in Nat /\ rb.iptr <= rb.eptr /\ rb.eptr <= Size /\ Size \in Nat
  /\ avail \in Nat /\ avail = rb.eptr - rb.iptr /\ avail <= taken
  /\ call.want \in Nat /\ call.count \in Nat /\ call.begun \in Nat
  /\ Len(call.got) \in Nat /\ Len(call.rx) \in Nat

LEMMA NumbersOf == ASSUME Shape PROVE Numbers
BY DEF Shape, Numbers

LEMMA FromBufferKeeps == ASSUME IInv, FromBuffer PROVE IInv'
<1> DEFINE new == Copied(call.count)
           r == call.rx \o new
<1>1. Shape /\ Numbers /\ InPlace /\ Measured /\ call.at = "loop" /\ call.count >= 1
  BY ShapeOf, NumbersOf DEF IInv, CallOK, Pending, FromBuffer, Measured
<1>2. avail >= call.count /\ ~ direct
  BY DEF FromBuffer, Enough
<1>3. CopyIs(new, call.count)
  BY <1>1, <1>2, CopiedFacts DEF IInv, Numbers
<1>4. /\ call' = [call EXCEPT !.at = "return", !.rx = r]
      /\ rb' = [rb EXCEPT !.iptr = @ + call.count]
      /\ UNCHANGED <<text, direct, written, closed, taken, last>>
  BY DEF FromBuffer
<1>5. Grows(r, call.count)
  BY <1>1, <1>3, RxGrows
<1> HIDE DEF new, r
<1>s. /\ call.begun + Len(call.got) + Len(r) = taken - (avail - call.count)
      /\ Len(call.got) + Len(call.rx) + call.count <= call.want =>
           Len(call.got) + Len(r) + (call.count - call.count) <= call.want
  <2>1. call.begun + Len(call.got) + Len(call.rx) = taken - avail
    BY <1>1 DEF InPlace
  <2>2. Len(r) = Len(call.rx) + call.count
    BY <1>5 DEF Grows
  <2>3. /\ call.begun \in Nat /\ Len(call.got) \in Nat /\ Len(call.rx) \in Nat /\ call.count \in Nat
        /\ taken \in Nat /\ avail \in Nat /\ call.want \in Nat
    BY <1>1 DEF Numbers
  <2> DEFINE a == call.begun
             b == Len(call.got)
             c == Len(call.rx)
             m == call.count
             e == Len(r)
             v == avail
             w == call.want
  <2>4. a \in Nat /\ b \in Nat /\ c \in Nat /\ m \in Nat /\ v \in Nat /\ w \in Nat /\ taken \in Nat
    BY <2>3
  <2>5. a + b + c = taken - v /\ e = c + m
    BY <2>1, <2>2
  <2> HIDE DEF a, b, c, m, e, v, w
  <2>6. a + b + e = taken - (v - m) /\ (b + c + m <= w => b + e + (m - m) <= w)
    BY <2>4, <2>5
  <2> QED BY <2>6 DEF a, b, c, m, e, v, w
<1>6. /\ call' \in Call /\ SameCall(call') /\ call'.at = "return" /\ call'.rx = r
      /\ call'.err = call.err /\ call'.count = call.count
  BY <1>4, <1>5 DEF IInv, TypeOK, Call, SameCall, Grows
<1>7. /\ rb' \in [made : BOOLEAN, iptr : 0..Size, eptr : 0..Size, buf : [0..Size - 1 -> 0..N]]
      /\ rb'.iptr = rb.iptr + call.count /\ rb'.eptr = rb.eptr /\ rb'.buf = rb.buf
      /\ rb'.iptr <= rb'.eptr
  <2>1. rb.iptr + call.count \in 0..Size /\ rb.iptr + call.count <= rb.eptr
    BY <1>1, <1>2 DEF Numbers
  <2> QED BY <1>4, <2>1 DEF IInv, TypeOK
<1>8. avail' = avail - call.count
  BY <1>1, <1>7 DEF avail, Numbers
<1>9. TypeOK'
  BY <1>4, <1>6, <1>7 DEF IInv, TypeOK
<1>10. Buffered'
  <2>1. ASSUME NEW j \in rb'.iptr..(rb'.eptr - 1) PROVE rb'.buf[j] = (taken' - rb'.eptr) + j + 1
    <3>1. rb'.iptr = rb.iptr + call.count /\ rb'.eptr = rb.eptr /\ Numbers
      BY <1>1, <1>7
    <3>2. rb.iptr \in Nat /\ rb.eptr \in Nat /\ call.count \in Nat
      BY <3>1 DEF Numbers
    <3>3. j \in rb.iptr..(rb.eptr - 1)
      BY <3>1, <3>2
    <3> QED BY <1>4, <1>7, <3>3 DEF IInv, Buffered
  <2>2. avail' \in 0..taken'
    BY <1>1, <1>2, <1>4, <1>8 DEF Numbers
  <2> QED BY <1>2, <1>4, <1>6, <2>1, <2>2 DEF Buffered
<1>11. InPlace'
  <2>1. Follows(call'.got, call'.begun)
    BY <1>1, <1>6 DEF InPlace, SameCall
  <2>2. Follows(call'.rx, call'.begun + Len(call'.got))
    BY <1>5, <1>6 DEF SameCall, Grows
  <2>3. call'.begun + Len(call'.got) + Len(call'.rx) = taken' - avail'
    <3>1. avail - call.count = avail - call.count
      BY <1>1 DEF Numbers
    <3> QED BY <1>s, <1>4, <1>6, <1>8, <3>1 DEF SameCall
  <2> QED BY <2>1, <2>2, <2>3 DEF InPlace, Follows
<1>12. Measured'
  <2>1. Len(r) \in Nat /\ Len(r) = Len(call.rx) + call.count
    BY <1>5 DEF Grows
  <2>2. call.op = "delimited" => Len(r) = 1
    BY <1>1, <2>1, LenIsNat DEF Measured, Shape
  <2>3. call.op # "delimited" => Len(call.got) + Len(r) <= call.want
    <3>1. call.count \in Nat /\ Len(call.got) \in Nat
      BY <1>1 DEF Numbers
    <3>2. (Len(call.got) + Len(r)) + (call.count - call.count) = Len(call.got) + Len(r)
      BY <2>1, <3>1
    <3> QED BY <1>s, <1>1, <3>2 DEF Measured
  <2>4. ~ call.err
    BY <1>1 DEF Measured
  <2> QED BY <1>1, <1>6, <2>1, <2>2, <2>3, <2>4 DEF Measured, SameCall
<1>13. AtEnd'
  <2>1. call'.rx # <<>>
    BY <1>1, <1>5, <1>6, LenIsNat DEF Numbers, Grows
  <2> QED BY <2>1 DEF AtEnd
<1> QED BY <1>9, <1>10, <1>11, <1>12, <1>13 DEF IInv, CallOK

LEMMA DrainKeeps == ASSUME IInv, Drain PROVE IInv'
<1> DEFINE new == Copied(avail)
           r == call.rx \o new
<1>1. Shape /\ Numbers /\ InPlace /\ Measured /\ call.at = "loop" /\ ~ call.err
  BY ShapeOf, NumbersOf DEF IInv, CallOK, Pending, Drain, Measured
<1>2. avail < call.count /\ ~ direct
  BY <1>1 DEF Drain, Enough, Numbers
<1>3. CopyIs(new, avail)
  BY <1>1, CopiedFacts DEF IInv, Numbers
<1>4. /\ call' = [call EXCEPT !.at = "receive", !.rx = r, !.count = @ - avail]
      /\ rb' = [rb EXCEPT !.iptr = 0, !.eptr = 0]
      /\ UNCHANGED <<text, direct, written, closed, taken, last>>
  BY DEF Drain
<1>5. Grows(r, avail)
  BY <1>1, <1>3, RxGrows
<1> HIDE DEF new, r
<1>s. /\ call.begun + Len(call.got) + Len(r) = taken - (avail - avail)
      /\ Len(call.got) + Len(call.rx) + call.count <= call.want =>
           Len(call.got) + Len(r) + (call.count - avail) <= call.want
  <2>1. call.begun + Len(call.got) + Len(call.rx) = taken - avail
    BY <1>1 DEF InPlace
  <2>2. Len(r) = Len(call.rx) + avail
    BY <1>5 DEF Grows
  <2>3. /\ call.begun \in Nat /\ Len(call.got) \in Nat /\ Len(call.rx) \in Nat /\ call.count \in Nat
        /\ taken \in Nat /\ avail \in Nat /\ call.want \in Nat
    BY <1>1 DEF Numbers
  <2> DEFINE a == call.begun
             b == Len(call.got)
             c == Len(call.rx)
             m == call.count
             e == Len(r)
             v == avail
             w == call.want
  <2>4. a \in Nat /\ b \in Nat /\ c \in Nat /\ m \in Nat /\ v \in Nat /\ w \in Nat /\ taken \in Nat
    BY <2>3
  <2>5. a + b + c = taken - v /\ e = c + v
    BY <2>1, <2>2
  <2> HIDE DEF a, b, c, m, e, v, w
  <2>6. a + b + e = taken - (v - v) /\ (b + c + m <= w => b + e + (m - v) <= w)
    BY <2>4, <2>5
  <2> QED BY <2>6 DEF a, b, c, m, e, v, w
<1>6. /\ call' \in Call /\ SameCall(call') /\ call'.at = "receive" /\ call'.rx = r
      /\ call'.err = call.err /\ call'.count = call.count - avail
  <2>1. call.count - avail \in Nat
    BY <1>1, <1>2 DEF Numbers
  <2> QED BY <1>4, <1>5, <2>1 DEF IInv, TypeOK, Call, SameCall, Grows
<1>7. /\ rb' \in [made : BOOLEAN, iptr : 0..Size, eptr : 0..Size, buf : [0..Size - 1 -> 0..N]]
      /\ rb'.iptr = 0 /\ rb'.eptr = 0
  <2>1. 0 \in 0..Size
    BY <1>1 DEF Numbers
  <2> QED BY <1>4, <2>1 DEF IInv, TypeOK
<1>8. avail' = 0
  BY <1>7 DEF avail
<1>9. TypeOK'
  BY <1>4, <1>6, <1>7 DEF IInv, TypeOK
<1>10. Buffered'
  <2>1. avail' \in 0..taken'
    BY <1>1, <1>4, <1>8 DEF Numbers
  <2> QED BY <1>2, <1>4, <1>7, <1>8, <2>1 DEF Buffered
<1>11. InPlace'
  <2>1. Follows(call'.got, call'.begun)
    BY <1>1, <1>6 DEF InPlace, SameCall
  <2>2. Follows(call'.rx, call'.begun + Len(call'.got))
    BY <1>5, <1>6 DEF SameCall, Grows
  <2>3. call'.begun + Len(call'.got) + Len(call'.rx) = taken' - avail'
    <3>1. avail - avail = 0
      BY <1>1 DEF Numbers
    <3> QED BY <1>s, <1>4, <1>6, <1>8, <3>1 DEF SameCall
  <2> QED BY <2>1, <2>2, <2>3 DEF InPlace, Follows
<1>12. Measured'
  <2>1. Len(r) \in Nat /\ Len(r) = Len(call.rx) + avail
    BY <1>5 DEF Grows
  <2>2. call.op = "delimited" => call.count - avail = 1 /\ Len(r) = 0
    <3>1. call.op = "delimited" => call.count = 1 /\ Len(call.rx) = 0
      BY <1>1 DEF Measured, Shape
    <3> QED BY <1>1, <1>2, <2>1, <3>1 DEF Numbers
  <2>3. Len(r) = 0 => r = <<>>
    BY <1>5, LenIsNat DEF Grows
  <2>4. call.op # "delimited" => Len(call.got) + Len(r) + (call.count - avail) <= call.want
    BY <1>1, <1>s DEF Measured
  <2>5. call.count - avail >= 1
    BY <1>1, <1>2 DEF Numbers
  <2> QED BY <1>1, <1>2, <1>4, <1>6, <2>1, <2>2, <2>3, <2>4, <2>5 DEF Measured, SameCall
<1>13. AtEnd'
  BY <1>6 DEF AtEnd
<1> QED BY <1>9, <1>10, <1>11, <1>12, <1>13 DEF IInv, CallOK

LEMMA RefillKeeps == ASSUME IInv, Refill PROVE IInv'
<1>1. PICK k \in Parts(Size) :
        /\ rb' = [rb EXCEPT !.eptr = k,
                            !.buf = [j \in DOMAIN @ |-> IF j < k THEN taken + j + 1 ELSE @[j]]]
        /\ taken' = taken + k
  BY DEF Refill
<1>2. Shape /\ Numbers /\ InPlace /\ Measured /\ call.at = "receive" /\ ~ direct
  BY ShapeOf, NumbersOf DEF IInv, CallOK, Pending, Refill, Buffered
<1>3. k \in Nat /\ 1 <= k /\ k <= Size /\ taken + k <= written /\ written <= N /\ N \in Nat
  BY <1>2 DEF Parts, Lesser, Numbers, Shape
<1>4. /\ call' = [call EXCEPT !.at = "loop"]
      /\ UNCHANGED <<text, direct, written, closed, last>>
  BY DEF Refill
<1>5. rb.iptr = 0 /\ rb.eptr = 0 /\ avail = 0
  BY <1>2 DEF IInv, Buffered, avail
<1>6. /\ call' \in Call /\ SameCall(call') /\ call'.at = "loop" /\ call'.rx = call.rx
      /\ call'.err = call.err /\ call'.count = call.count
  BY <1>4 DEF IInv, TypeOK, Call, SameCall
<1>7. /\ rb'.eptr = k /\ rb'.iptr = 0
      /\ \A j \in 0..(k - 1) : rb'.buf[j] = taken + j + 1
      /\ rb' \in [made : BOOLEAN, iptr : 0..Size, eptr : 0..Size, buf : [0..Size - 1 -> 0..N]]
  <2> DEFINE b == [j \in 0..Size - 1 |-> IF j < k THEN taken + j + 1 ELSE rb.buf[j]]
  <2>1. rb.buf \in [0..Size - 1 -> 0..N] /\ DOMAIN rb.buf = 0..Size - 1
    BY DEF IInv, TypeOK
  <2>2. taken \in Nat /\ Size \in Nat /\ written \in Nat
    BY <1>2 DEF Numbers
  <2>3. b \in [0..Size - 1 -> 0..N]
    <3>1. ASSUME NEW j \in 0..Size - 1, j < k PROVE taken + j + 1 \in 0..N
      <4>1. j \in Nat
        BY <2>2
      <4> QED BY <1>3, <2>2, <3>1, <4>1
    <3>2. \A j \in 0..Size - 1 : b[j] \in 0..N
      BY <2>1, <3>1
    <3> QED BY <3>2
  <2>4. \A j \in 0..(k - 1) : b[j] = taken + j + 1
    BY <1>3, <2>2
  <2>5. rb' = [rb EXCEPT !.eptr = k, !.buf = b]
    BY <1>1, <2>1
  <2> HIDE DEF b
  <2>6. k \in 0..Size
    BY <1>3, <2>2
  <2> QED BY <1>5, <2>3, <2>4, <2>5, <2>6 DEF IInv, TypeOK
<1>8. avail' = k
  BY <1>3, <1>7 DEF avail
<1>9. TypeOK'
  <2>1. taken \in Nat /\ written \in Nat /\ written' = written
    BY <1>2, <1>4 DEF Numbers
  <2>2. taken' \in 0..written' /\ rb'.iptr <= rb'.eptr
    <3>1. taken' = taken + k /\ rb'.iptr = 0 /\ rb'.eptr = k
      BY <1>1, <1>7
    <3>2. taken + k \in 0..written /\ 0 <= k
      BY <1>3, <2>1
    <3> QED BY <2>1, <3>1, <3>2
  <2> QED BY <1>4, <1>6, <1>7, <2>2 DEF IInv, TypeOK
<1>10. Buffered'
  <2>1. ASSUME NEW j \in rb'.iptr..(rb'.eptr - 1) PROVE rb'.buf[j] = (taken' - rb'.eptr) + j + 1
    <3>1. j \in 0..(k - 1) /\ (taken + k) - k = taken
      BY <1>2, <1>3, <1>7 DEF Numbers
    <3> QED BY <1>1, <1>7, <3>1
  <2>2. avail' \in 0..taken'
    BY <1>1, <1>2, <1>3, <1>8 DEF Numbers
  <2> QED BY <1>2, <1>4, <1>6, <2>1, <2>2 DEF Buffered
<1>11. InPlace'
  <2>1. taken' - avail' = taken - avail
    BY <1>1, <1>2, <1>3, <1>5, <1>8 DEF Numbers
  <2> QED BY <1>2, <1>6, <2>1 DEF InPlace, SameCall, Follows
<1>12. Measured'
  BY <1>2, <1>4, <1>6 DEF Measured, SameCall
<1>13. AtEnd'
  BY <1>6 DEF AtEnd
<1> QED BY <1>9, <1>10, <1>11, <1>12, <1>13 DEF IInv, CallOK

LEMMA DirectKeeps == ASSUME IInv, Direct PROVE IInv'
<1>1. PICK k \in Parts(call.count) :
        /\ call' = [call EXCEPT !.at = "return", !.rx = [i \in 1..k |-> taken + i]]
        /\ taken' = taken + k
  BY DEF Direct
<1> DEFINE r == [i \in 1..k |-> taken + i]
<1>2. Shape /\ Numbers /\ InPlace /\ Measured /\ call.at = "loop" /\ direct /\ call.count >= 1
  BY ShapeOf, NumbersOf DEF IInv, CallOK, Pending, Direct, Measured
<1>3. k \in Nat /\ 1 <= k /\ k <= call.count /\ taken + k <= written /\ written <= N /\ N \in Nat
  BY <1>2 DEF Parts, Lesser, Numbers, Shape
<1>4. UNCHANGED <<text, direct, written, closed, rb, last>>
  BY DEF Direct
<1>5. avail = 0 /\ avail' = 0 /\ Len(call.rx) = 0 /\ ~ call.err
  BY <1>2, <1>4 DEF IInv, Buffered, avail, Measured, Shape
<1>6. taken = call.begun + Len(call.got)
  BY <1>2, <1>5 DEF InPlace, Numbers
<1>7. r \in Seq(Bytes) /\ Len(r) = k /\ Follows(r, taken) /\ r # <<>>
  <2>1. \A i \in 1..k : taken + i \in Bytes
    BY <1>2, <1>3 DEF Numbers, Bytes
  <2>2. [i \in 1..k |-> taken + i] \in Seq(Bytes)
    BY <1>3, <2>1
  <2>3. Len(r) = k
    BY <1>3
  <2>4. Follows(r, taken)
    BY <2>3 DEF Follows
  <2> QED BY <1>3, <2>2, <2>3, <2>4
<1> HIDE DEF r
<1>8. /\ call' \in Call /\ SameCall(call') /\ call'.at = "return" /\ call'.rx = r
      /\ call'.err = call.err /\ call'.count = call.count
  BY <1>1, <1>7 DEF IInv, TypeOK, Call, SameCall, r
<1>9. TypeOK'
  <2>1. taken' \in 0..written'
    BY <1>1, <1>2, <1>3, <1>4 DEF Numbers
  <2> QED BY <1>4, <1>8, <2>1 DEF IInv, TypeOK
<1>10. Buffered'
  <2>1. rb'.iptr = rb'.eptr /\ rb'.iptr \in Nat
    BY <1>2, <1>4, <1>5 DEF Numbers
  <2>2. avail' \in 0..taken'
    BY <1>1, <1>2, <1>3, <1>5 DEF Numbers
  <2>3. \A j \in rb'.iptr..(rb'.eptr - 1) : FALSE
    BY <2>1
  <2> QED BY <1>5, <1>8, <2>2, <2>3 DEF Buffered
<1>11. InPlace'
  <2>1. Follows(call'.got, call'.begun)
    BY <1>2, <1>8 DEF InPlace, SameCall
  <2>2. Follows(call'.rx, call'.begun + Len(call'.got))
    BY <1>6, <1>7, <1>8 DEF SameCall
  <2>3. call'.begun + Len(call'.got) + Len(call'.rx) = taken' - avail'
    <3>1. taken + k = taken' - avail'
      BY <1>1, <1>2, <1>3, <1>5 DEF Numbers
    <3> QED BY <1>6, <1>7, <1>8, <3>1 DEF SameCall
  <2> QED BY <2>1, <2>2, <2>3 DEF InPlace, Follows
<1>12. Measured'
  <2>1. call.op = "delimited" => k = 1
    BY <1>2, <1>3 DEF Measured
  <2>2. call.op # "delimited" => Len(call.got) + k <= call.want
    <3>1. call.op # "delimited" => Len(call.got) + 0 + call.count <= call.want
      BY <1>2, <1>5 DEF Measured
    <3> QED BY <1>2, <1>3, <3>1 DEF Numbers
  <2> QED BY <1>2, <1>5, <1>7, <1>8, <2>1, <2>2 DEF Measured, SameCall
<1>13. AtEnd'
  BY <1>7, <1>8 DEF AtEnd
<1> QED BY <1>9, <1>10, <1>11, <1>12, <1>13 DEF IInv, CallOK

(* cgc_receive had nothing to return, or failed.                           *)
LEMMA NothingKeeps ==
  ASSUME IInv, Receiving, Pending, NEW e \in BOOLEAN,
         call' = [call EXCEPT !.at = "return", !.err = e],
         UNCHANGED <<text, direct, written, closed, taken, rb, last>>,
         ~ e => closed /\ taken = written
  PROVE  IInv'
<1>1. Shape /\ Numbers /\ InPlace /\ Measured /\ call.at \in {"loop", "receive"}
  BY ShapeOf, NumbersOf DEF IInv, CallOK, Receiving
<1>2. avail = 0 /\ avail' = avail
  BY DEF IInv, Buffered, Receiving, avail
<1>3. /\ call' \in Call /\ SameCall(call') /\ call'.at = "return" /\ call'.rx = call.rx
      /\ call'.err = e /\ call'.count = call.count
  BY DEF IInv, TypeOK, Call, SameCall
<1>4. TypeOK'
  BY <1>3, CallTyped DEF IInv, TypeOK
<1>5. Buffered'
  BY <1>2, <1>3 DEF IInv, Buffered
<1>6. InPlace'
  BY <1>1, <1>2, <1>3 DEF InPlace, SameCall, Follows
<1>7. Measured'
  <2>1. call.op # "delimited" => Len(call.got) + Len(call.rx) + call.count <= call.want
    BY <1>1 DEF Measured
  <2>2. call.op # "delimited" => Len(call.got) + Len(call.rx) <= call.want
    <3> DEFINE b == Len(call.got)
               c == Len(call.rx)
               m == call.count
               w == call.want
    <3>1. b \in Nat /\ c \in Nat /\ m \in Nat /\ w \in Nat
      BY <1>1 DEF Numbers
    <3> HIDE DEF b, c, m, w
    <3>2. b + c + m <= w => b + c <= w
      BY <3>1
    <3> QED BY <2>1, <3>2 DEF b, c, m, w
  <2> QED BY <1>1, <1>3, <2>2 DEF Measured, SameCall
<1>8. AtEnd'
  BY <1>2, <1>3 DEF AtEnd
<1> QED BY <1>4, <1>5, <1>6, <1>7, <1>8 DEF IInv, CallOK

LEMMA EndOfFileKeeps == ASSUME IInv, EndOfFile PROVE IInv'
<1>1. Receiving /\ Pending /\ closed /\ taken = written
  BY DEF EndOfFile, Receiving, Pending
<1>2. Measured /\ call.at \in {"loop", "receive"}
  BY <1>1 DEF IInv, CallOK, Receiving
<1>3. call.err = FALSE
  <2>1. call.err \in BOOLEAN
    BY DEF IInv, TypeOK, Call
  <2> QED BY <1>2, <2>1 DEF Measured
<1>4. call' = [call EXCEPT !.at = "return", !.err = FALSE]
  BY <1>3 DEF EndOfFile, IInv, TypeOK, Call
<1> QED BY <1>1, <1>4, NothingKeeps DEF EndOfFile

LEMMA ReceiveFailsKeeps == ASSUME IInv, ReceiveFails PROVE IInv'
BY NothingKeeps DEF ReceiveFails, Receiving, Pending

-----------------------------------------------------------------------------
(* The callers of cgc_buffered_receive.                                    *)
KeptIs ==
  /\ Kept \in Seq(Bytes) /\ Len(Kept) \in Nat /\ Len(Kept) = Len(call.got) + Len(call.rx)
  /\ Follows(Kept, call.begun) /\ call.begun + Len(Kept) = taken - avail

LEMMA KeptFacts == ASSUME IInv, Pending PROVE KeptIs
<1>1. Shape /\ InPlace
  BY ShapeOf DEF IInv, CallOK
<1>2. /\ call.got \in Seq(Bytes) /\ call.rx \in Seq(Bytes) /\ call.begun \in Nat
      /\ Follows(call.got, call.begun) /\ Follows(call.rx, call.begun + Len(call.got))
  BY <1>1 DEF Shape, InPlace
<1>3. /\ call.got \o call.rx \in Seq(Bytes)
      /\ Len(call.got \o call.rx) = Len(call.got) + Len(call.rx)
      /\ Follows(call.got \o call.rx, call.begun)
  BY <1>2, ConcatFollows
<1> DEFINE k == call.got \o call.rx
<1>4. Len(k) \in Nat
  BY <1>3, LenIsNat
<1>5. call.begun + Len(k) = taken - avail
  <2>1. call.begun + Len(call.got) + Len(call.rx) = taken - avail
    BY <1>1 DEF InPlace
  <2>2. Len(call.got) \in Nat /\ Len(call.rx) \in Nat
    BY <1>1 DEF Shape
  <2> DEFINE b == Len(call.got)
             c == Len(call.rx)
             a == call.begun
  <2>3. a \in Nat /\ b \in Nat /\ c \in Nat
    BY <1>2, <2>2
  <2> HIDE DEF a, b, c
  <2>4. a + (b + c) = a + b + c
    BY <2>3
  <2> QED BY <1>3, <2>1, <2>4 DEF a, b, c
<1>6. k = Kept
  BY DEF Kept
<1> HIDE DEF k
<1> QED BY <1>3, <1>4, <1>5, <1>6 DEF KeptIs, k

LEMMA ReturnKeeps ==
  ASSUME IInv, NEW bytes \in Seq(Bytes), NEW why \in {"full", "eof", "error", "nomem"},
         call.at = "return", Returns(bytes, why)
  PROVE  IInv'
<1>1. call' = NoCall /\ UNCHANGED <<text, direct, written, closed, taken, rb>>
  BY DEF Returns
<1>2. last' \in Result
  BY DEF Returns, Result, IInv, TypeOK, Call
<1>3. NoCall \in Call
  BY DEF NoCall, Call, Ops
<1>4. TypeOK'
  BY <1>1, <1>2, <1>3, CallTyped DEF IInv
<1>5. call'.at = "idle" /\ avail' = avail
  BY <1>1 DEF NoCall, avail
<1>6. Buffered'
  BY <1>1, <1>5 DEF IInv, Buffered
<1>7. CallOK'
  BY <1>5 DEF CallOK, Pending
<1> QED BY <1>4, <1>6, <1>7 DEF IInv

LEMMA GoesOnKeeps ==
  ASSUME IInv, call.at = "return", NEW n \in Nat \ {0}, NEW k \in Nat,
         GoesOn([call EXCEPT !.got = Kept, !.cap = k], n),
         call.op # "delimited" => Len(Kept) < call.want /\ Len(Kept) + n <= call.want,
         call.op = "delimited" => n = 1
  PROVE  IInv'
<1>1. KeptIs /\ Shape
  BY KeptFacts, ShapeOf DEF Pending
<1> DEFINE g == Kept
<1>2. /\ g \in Seq(Bytes) /\ Len(g) \in Nat
      /\ Follows(g, call.begun) /\ call.begun + Len(g) = taken - avail
  BY <1>1 DEF KeptIs
<1>3. /\ call.op # "delimited" => Len(g) < call.want /\ Len(g) + n <= call.want
      /\ call' = Reads([call EXCEPT !.got = g, !.cap = k], n)
      /\ UNCHANGED <<text, direct, written, closed, taken, rb, last>>
  BY DEF GoesOn
<1> HIDE DEF g
<1>4. call' = [call EXCEPT !.got = g, !.cap = k, !.at = "loop", !.count = n, !.rx = <<>>, !.err = FALSE]
  BY <1>3 DEF Reads, IInv, TypeOK, Call
<1>5. /\ call' \in Call /\ call'.at = "loop" /\ call'.op = call.op /\ call'.want = call.want
      /\ call'.count = n /\ call'.rx = <<>> /\ call'.err = FALSE /\ call'.got = g
      /\ call'.begun = call.begun
  <2>1. call \in Call
    BY DEF IInv, TypeOK
  <2>2. "loop" \in {"idle", "loop", "receive", "return", "dead"} /\ n \in Nat /\ <<>> \in Seq(Bytes)
    OBVIOUS
  <2> QED BY <1>2, <1>4, <2>1, <2>2 DEF Call
<1>6. avail' = avail
  BY <1>3 DEF avail
<1>7. TypeOK'
  BY <1>3, <1>5, CallTyped DEF IInv, TypeOK
<1>8. Buffered'
  BY <1>3, <1>5, <1>6 DEF IInv, Buffered
<1>9. Len(call'.rx) = 0
  BY <1>5
<1>10. InPlace'
  <2>1. call'.begun + Len(call'.got) + Len(call'.rx) = taken' - avail'
    <3>1. call.begun + Len(g) + 0 = call.begun + Len(g)
      BY <1>1, <1>2 DEF Shape
    <3> QED BY <1>2, <1>3, <1>5, <1>6, <1>9, <3>1
  <2>2. Follows(call'.got, call'.begun)
    BY <1>2, <1>5
  <2>3. Follows(call'.rx, call'.begun + Len(call'.got))
    BY <1>9 DEF Follows
  <2> QED BY <2>1, <2>2, <2>3 DEF InPlace, Follows
<1>11. Measured'
  <2>1. call'.op # "delimited" => Len(call'.got) + Len(call'.rx) + call'.count <= call'.want
    <3>1. Len(g) + 0 + n = Len(g) + n
      BY <1>2
    <3> QED BY <1>3, <1>5, <1>9, <3>1
  <2>2. call'.op # "delimited" => Len(call'.got) < call'.want
    BY <1>3, <1>5
  <2>3. call'.count >= 1 /\ Len(call'.rx) <= 1 /\ (call'.op = "delimited" => call'.count = 1)
    BY <1>5, <1>9
  <2> QED BY <1>5, <2>1, <2>2, <2>3 DEF Measured
<1>12. AtEnd'
  BY <1>5 DEF AtEnd
<1> QED BY <1>7, <1>8, <1>10, <1>11, <1>12 DEF IInv, CallOK

LEMMA LengthGoesOnKeeps == ASSUME IInv, LengthGoesOn PROVE IInv'
<1>1. KeptIs /\ Shape
  BY KeptFacts, ShapeOf DEF LengthGoesOn, Pending
<1>2. CASE Len(Kept) < call.want
  <2> DEFINE n == Need(call.op, call.want - Len(Kept))
  <2>1. n \in Nat \ {0} /\ Len(Kept) + n <= call.want
    <3>1. Len(Kept) \in Nat /\ call.want \in Nat /\ Chunk \in Nat \ {0}
      BY <1>1, LibpovAssumption DEF KeptIs, Shape
    <3> DEFINE l == Len(Kept)
               w == call.want
    <3>2. l \in Nat /\ w \in Nat /\ l < w
      BY <1>2, <3>1
    <3> HIDE DEF l, w
    <3>3. Need(call.op, w - l) \in Nat \ {0} /\ l + Need(call.op, w - l) <= w
      BY <3>1, <3>2 DEF Need, Lesser
    <3> QED BY <3>3 DEF l, w
  <2>2. GoesOn([call EXCEPT !.got = Kept], n)
    BY <1>2 DEF LengthGoesOn
  <2>3. [call EXCEPT !.got = Kept] = [call EXCEPT !.got = Kept, !.cap = call.cap]
    BY DEF IInv, TypeOK, Call
  <2>4. call.cap \in Nat
    BY <1>1 DEF Shape
  <2> HIDE DEF n
  <2> QED BY <1>2, <2>1, <2>2, <2>3, <2>4, GoesOnKeeps DEF LengthGoesOn
<1>3. CASE ~ (Len(Kept) < call.want)
  BY <1>1, <1>3, ReturnKeeps DEF LengthGoesOn, KeptIs
<1> QED BY <1>2, <1>3

LEMMA DelimitedGoesOnKeeps == ASSUME IInv, DelimitedGoesOn PROVE IInv'
<1>1. KeptIs /\ Shape
  BY KeptFacts, ShapeOf DEF DelimitedGoesOn, Pending
<1>2. CASE HasDelim(Kept, call.delim)
  BY <1>1, <1>2, ReturnKeeps DEF DelimitedGoesOn, KeptIs
<1>3. CASE ~ HasDelim(Kept, call.delim)
  <2> DEFINE k == IF Len(call.got) = call.cap THEN Grown(call.cap) ELSE call.cap
  <2>1. k \in Nat
    BY <1>1, LibpovAssumption DEF Shape, Grown
  <2>2. GoesOn([call EXCEPT !.got = Kept, !.cap = k], 1)
    BY <1>3 DEF DelimitedGoesOn
  <2>3. /\ call.at = "return" /\ 1 \in Nat \ {0}
        /\ (call.op # "delimited") = FALSE /\ (call.op = "delimited") = TRUE
    BY DEF DelimitedGoesOn
  <2>4. /\ call.op # "delimited" => Len(Kept) < call.want /\ Len(Kept) + 1 <= call.want
        /\ call.op = "delimited" => 1 = 1
    BY <2>3
  <2> HIDE DEF k
  <2> QED BY <2>1, <2>2, <2>3, <2>4, GoesOnKeeps, Zenon
<1> QED BY <1>2, <1>3

LEMMA StepKeeps == IInv /\ [Next]_vars => IInv'
<1> SUFFICES ASSUME IInv, [Next]_vars PROVE IInv'
  OBVIOUS
<1>1. CASE Peer
  BY <1>1, WriteKeeps, CloseKeeps DEF Peer
<1>2. CASE Calls
  <2>1. ASSUME NEW w \in Lengths, NEW op \in {"length", "discard"}, LengthRead(op, w) PROVE IInv'
    <3>1. w \in Nat \ {0} /\ Chunk \in Nat \ {0}
      BY LibpovAssumption
    <3>2. Need(op, w) \in Nat \ {0} /\ Need(op, w) <= w
      BY <3>1 DEF Need, Lesser
    <3>3. op \in Ops /\ op # "delimited" /\ <<>> \in Delims \cup {<<>>}
      BY DEF Ops
    <3>4. call' = [at |-> "loop", op |-> op, want |-> w, delim |-> <<>>, count |-> Need(op, w),
                   rx |-> <<>>, err |-> FALSE, got |-> <<>>, cap |-> 0, begun |-> taken - avail]
      BY <2>1 DEF LengthRead, Begin, Reads, Fresh, NoCall
    <3>5. UNCHANGED <<text, direct, written, closed, taken, last>> /\ rb' = [rb EXCEPT !.made = TRUE]
      BY <2>1 DEF LengthRead, Begin
    <3> QED BY <3>1, <3>2, <3>3, <3>4, <3>5, BeginKeeps
  <2>2. ASSUME NEW d \in Delims, DelimitedRead(d) PROVE IInv'
    <3>1. call' = [at |-> "loop", op |-> "delimited", want |-> 0, delim |-> d, count |-> 1,
                   rx |-> <<>>, err |-> FALSE, got |-> <<>>, cap |-> 0, begun |-> taken - avail]
      BY <2>2 DEF DelimitedRead, Begin, Reads, Fresh, NoCall
    <3>2. UNCHANGED <<text, direct, written, closed, taken, last>> /\ rb' = [rb EXCEPT !.made = TRUE]
      BY <2>2 DEF DelimitedRead, Begin
    <3>3. "delimited" \in Ops /\ 0 \in Nat /\ 1 \in Nat \ {0} /\ d \in Delims \cup {<<>>}
      BY DEF Ops
    <3> QED BY <3>1, <3>2, <3>3, BeginKeeps
  <2> QED BY <1>2, <2>1, <2>2 DEF Calls
<1>3. CASE Works
  <2>1. ASSUME Stop PROVE IInv'
    <3>1. call.got \in Seq(Bytes)
      BY ShapeOf DEF Shape
    <3> QED BY <2>1, <3>1, ReturnKeeps DEF Stop
  <2> QED BY <1>3, <2>1, FromBufferKeeps, DrainKeeps, RefillKeeps, DirectKeeps, EndOfFileKeeps,
             LengthGoesOnKeeps, DelimitedGoesOnKeeps DEF Works
<1>4. CASE NoMemory
  <2>1. call.got \in Seq(Bytes)
    BY ShapeOf DEF Shape
  <2> QED BY <1>4, <2>1, ReturnKeeps DEF NoMemory
<1>5. CASE UNCHANGED vars
  <2>1. TypeOK'
    BY <1>5 DEF vars, IInv, TypeOK
  <2>2. Buffered'
    BY <1>5 DEF vars, IInv, Buffered, avail
  <2>3. CallOK'
    BY <1>5 DEF vars, IInv, CallOK, Pending, InPlace, Measured, AtEnd, Follows, avail
  <2> QED BY <2>1, <2>2, <2>3 DEF IInv
<1> QED BY <1>1, <1>2, <1>3, <1>4, <1>5, NoBufferKeeps, ReceiveFailsKeeps DEF Next

(* For any sizes and streams: every variable has its type; the buffer does *)
(* not overflow, its indices stay in order, and no byte is received that   *)
(* was not written.                                                        *)
THEOREM TypeCorrect == Spec => []TypeOK
<1>1. Spec => []IInv
  BY Initially, StepKeeps, PTL DEF Spec
<1>2. IInv => TypeOK
  BY DEF IInv
<1> QED BY <1>1, <1>2, PTL

-----------------------------------------------------------------------------
(* The reads implement Stream.  Only a return is a step there.             *)
SameReading == UNCHANGED <<written, closed, Gone, last>>

LEMMA ReturnReads ==
  ASSUME IInv, call.at = "return",
         NEW bytes \in Seq(Bytes), NEW why \in {"full", "eof", "error", "nomem"},
         Returns(bytes, why),
         Follows(bytes, call.begun),
         NEW l \in Nat, l = Len(bytes), call.begun + l <= taken - avail,
         \/ /\ why = "full" /\ call.begun + l = taken - avail
            /\ call.op # "delimited" => l = call.want
         \/ /\ why = "eof" /\ closed /\ call.begun + l = taken - avail /\ taken - avail = written
            /\ call.op # "delimited" => l < call.want
         \/ why = "error" /\ (call.op = "delimited" => call.begun + l = taken - avail)
         \/ why = "nomem" /\ call.op = "delimited" /\ call.begun + l + 1 = taken - avail
  PROVE  Reading!Next
<1>1. Shape
  BY ShapeOf
<1>2. /\ call' = NoCall /\ UNCHANGED <<written, closed, taken, rb>>
      /\ last' = [op |-> call.op, want |-> call.want, delim |-> call.delim,
                  bytes |-> bytes, why |-> why]
  BY DEF Returns
<1>3. avail' = avail
  BY <1>2 DEF avail
<1>4. Gone = call.begun
  BY DEF Gone
<1>5. Gone' = taken - avail
  BY <1>2, <1>3 DEF Gone, NoCall
<1>6. /\ last'.bytes = bytes /\ last'.why = why /\ last'.op = call.op /\ last'.want = call.want
      /\ Len(last'.bytes) = l
  BY <1>2
<1>7. Reading!InOrder
  <2>1. bytes = Reading!Following(call.begun, Len(bytes))
    BY <1>1, FollowsIs DEF Shape
  <2> QED BY <1>4, <1>6, <2>1 DEF Reading!InOrder
<1>8. Gone' <= written
  BY <1>1, <1>5 DEF Shape
<1>9. Reading!Full \/ Reading!Short \/ Reading!Failed
  <2>1. CASE why = "full"
    BY <1>4, <1>5, <1>6, <2>1 DEF Reading!Full
  <2>2. CASE why = "eof"
    BY <1>4, <1>5, <1>6, <2>2 DEF Reading!Short
  <2>3. CASE why = "error"
    BY <1>1, <1>4, <1>5, <1>6, <2>3 DEF Reading!Failed, Shape
  <2>4. CASE why = "nomem"
    BY <1>4, <1>5, <1>6, <2>4 DEF Reading!Failed
  <2> QED BY <2>1, <2>2, <2>3, <2>4
<1> QED BY <1>2, <1>7, <1>8, <1>9 DEF Reading!Next, Reading!Return

LEMMA StepReads == IInv /\ [Next]_vars => Reading!Next \/ SameReading
<1> SUFFICES ASSUME IInv, [Next]_vars PROVE Reading!Next \/ SameReading
  OBVIOUS
<1>0. Shape
  BY ShapeOf
<1>1. CASE Peer
  <2>1. Gone' = Gone
    BY <1>1 DEF Peer, Write, Close, Gone, avail
  <2>2. ASSUME NEW n \in Bytes, Write(n) PROVE Reading!Arrive
    <3>1. written' >= written
      BY <1>0, <2>2 DEF Write, Shape, Bytes
    <3>2. closed' \in BOOLEAN
      BY <2>2 DEF Write, IInv, TypeOK
    <3> QED BY <2>1, <2>2, <3>1, <3>2 DEF Write, Reading!Arrive
  <2>3. ASSUME Close PROVE Reading!Arrive
    <3>1. written' >= written
      BY <1>0, <2>3 DEF Close, Shape
    <3> QED BY <2>1, <2>3, <3>1 DEF Close, Reading!Arrive
  <2> QED BY <1>1, <2>2, <2>3 DEF Peer, Reading!Next
<1>2. CASE Calls
  <2>1. ASSUME NEW op, NEW w, LengthRead(op, w) PROVE SameReading
    <3>1. call.at = "idle" /\ Gone = taken - avail /\ UNCHANGED <<written, closed, last>>
      BY <2>1 DEF LengthRead, Begin, Gone
    <3>2. call' = [at |-> "loop", op |-> op, want |-> w, delim |-> <<>>, count |-> Need(op, w),
                   rx |-> <<>>, err |-> FALSE, got |-> <<>>, cap |-> 0, begun |-> taken - avail]
      BY <2>1 DEF LengthRead, Begin, Reads, Fresh, NoCall
    <3> QED BY <3>1, <3>2 DEF Gone, SameReading
  <2>2. ASSUME NEW d, DelimitedRead(d) PROVE SameReading
    <3>1. call.at = "idle" /\ Gone = taken - avail /\ UNCHANGED <<written, closed, last>>
      BY <2>2 DEF DelimitedRead, Begin, Gone
    <3>2. call' = [at |-> "loop", op |-> "delimited", want |-> 0, delim |-> d, count |-> 1,
                   rx |-> <<>>, err |-> FALSE, got |-> <<>>, cap |-> 0, begun |-> taken - avail]
      BY <2>2 DEF DelimitedRead, Begin, Reads, Fresh, NoCall
    <3> QED BY <3>1, <3>2 DEF Gone, SameReading
  <2> QED BY <1>2, <2>1, <2>2 DEF Calls
<1>3. CASE NoBuffer
  BY <1>3 DEF NoBuffer, Gone, avail, SameReading, IInv, TypeOK, Call
<1>4. CASE FromBuffer \/ Drain \/ Refill \/ Direct \/ EndOfFile \/ ReceiveFails
  <2>1. Pending
    BY <1>4 DEF FromBuffer, Drain, Refill, Direct, EndOfFile, ReceiveFails, Receiving, Pending
  <2>2. call \in Call
    BY DEF IInv, TypeOK
  <2>3. call'.at \in {"loop", "receive", "return"} /\ call'.begun = call.begun
    <3>1. CASE FromBuffer
      BY <2>2, <3>1 DEF FromBuffer, Call
    <3>2. CASE Drain
      BY <2>2, <3>2 DEF Drain, Call
    <3>3. CASE Refill
      BY <2>2, <3>3 DEF Refill, Call
    <3>4. CASE Direct
      BY <2>2, <3>4 DEF Direct, Call
    <3>5. CASE EndOfFile
      BY <2>2, <3>5 DEF EndOfFile, Call
    <3>6. CASE ReceiveFails
      BY <2>2, <3>6 DEF ReceiveFails, Call
    <3> QED BY <1>4, <3>1, <3>2, <3>3, <3>4, <3>5, <3>6
  <2>4. UNCHANGED <<written, closed, last>>
    BY <1>4 DEF FromBuffer, Drain, Refill, Direct, EndOfFile, ReceiveFails
  <2> QED BY <2>1, <2>3, <2>4 DEF Pending, Gone, SameReading
<1>5. ASSUME NEW c, NEW n, call.at = "return", GoesOn(c, n), c.begun = call.begun PROVE SameReading
  BY <1>5 DEF GoesOn, Reads, Gone, SameReading
<1>6. CASE Stop \/ LengthGoesOn \/ DelimitedGoesOn \/ NoMemory
  <2>1. call.at = "return" /\ Pending
    BY <1>6 DEF Stop, LengthGoesOn, DelimitedGoesOn, NoMemory, Pending
  <2>2. KeptIs /\ InPlace /\ Measured /\ AtEnd
    BY <2>1, KeptFacts DEF IInv, CallOK
  <2> DEFINE b == Len(call.got)
             x == Len(call.rx)
             k == Len(Kept)
             a == call.begun
             p == taken - avail
  <2>3. /\ a \in Nat /\ b \in Nat /\ x \in Nat /\ k \in Nat /\ p \in Nat /\ k = b + x
        /\ a + k = p /\ Follows(call.got, a) /\ Follows(Kept, a)
        /\ call.got \in Seq(Bytes) /\ Kept \in Seq(Bytes) /\ (call.rx = <<>> <=> x = 0)
    <3>1. /\ a \in Nat /\ b \in Nat /\ x \in Nat /\ p \in Nat /\ (call.rx = <<>> <=> x = 0)
          /\ call.got \in Seq(Bytes)
      BY <1>0 DEF Shape
    <3>2. k \in Nat /\ k = b + x /\ a + k = p /\ Follows(Kept, a) /\ Kept \in Seq(Bytes)
      BY <2>2 DEF KeptIs
    <3>3. Follows(call.got, a)
      BY <2>2 DEF InPlace
    <3> QED BY <3>1, <3>2, <3>3
  <2>4. a + k <= p /\ a + b <= p /\ (x = 0 => a + b = p) /\ (x = 1 => a + b + 1 = p)
    <3> HIDE DEF a, b, x, k, p
    <3> QED BY <2>3
  <2>5. ASSUME Stop PROVE Reading!Next
    <3> DEFINE why == IF call.err THEN "error" ELSE "eof"
    <3>1. Returns(call.got, why) /\ (call.err \/ call.rx = <<>>)
      BY <2>5 DEF Stop
    <3>2. CASE call.err
      <4>1. call.op = "delimited" => a + b = p
        BY <2>2, <2>3, <2>4, <3>2 DEF Measured
      <4> QED BY <2>1, <2>3, <2>4, <3>1, <3>2, <4>1, ReturnReads
    <3>3. CASE ~ call.err
      <4>1. a + b = p
        BY <2>3, <2>4, <3>1, <3>3
      <4>2. closed /\ p = written
        BY <1>0, <2>1, <2>2, <3>1, <3>3 DEF AtEnd, Shape
      <4>3. call.op # "delimited" => b < call.want
        BY <2>2 DEF Measured
      <4> QED BY <2>1, <2>3, <2>4, <3>1, <3>3, <4>1, <4>2, <4>3, ReturnReads
    <3> QED BY <3>2, <3>3
  <2>6. ASSUME LengthGoesOn PROVE Reading!Next \/ SameReading
    <3>1. CASE k < call.want
      <4>1. GoesOn([call EXCEPT !.got = Kept], Need(call.op, call.want - k))
        BY <2>6, <3>1 DEF LengthGoesOn
      <4>2. [call EXCEPT !.got = Kept].begun = call.begun
        BY DEF IInv, TypeOK, Call
      <4> QED BY <1>5, <2>1, <4>1, <4>2
    <3>2. CASE ~ (k < call.want)
      <4>1. Returns(Kept, "full") /\ call.op # "delimited"
        BY <2>6, <3>2 DEF LengthGoesOn
      <4>2. b + x <= call.want
        BY <2>1, <2>2, <4>1 DEF Measured
      <4>3. k = call.want
        <5> DEFINE w == call.want
        <5>1. w \in Nat /\ b + x <= w /\ ~ (k < w)
          BY <1>0, <3>2, <4>2 DEF Shape
        <5> HIDE DEF b, x, k, w
        <5>2. k = w
          BY <2>3, <5>1
        <5> QED BY <5>2 DEF w
      <4> QED BY <2>1, <2>3, <2>4, <4>1, <4>3, ReturnReads
    <3> QED BY <3>1, <3>2
  <2>7. ASSUME DelimitedGoesOn PROVE Reading!Next \/ SameReading
    <3>1. CASE ~ HasDelim(Kept, call.delim)
      <4> DEFINE c == [call EXCEPT !.got = Kept, !.cap = IF Len(call.got) = @ THEN Grown(@) ELSE @]
      <4>1. GoesOn(c, 1)
        BY <2>7, <3>1 DEF DelimitedGoesOn
      <4>2. c.begun = call.begun
        BY DEF IInv, TypeOK, Call
      <4> QED BY <1>5, <2>1, <4>1, <4>2
    <3>2. CASE HasDelim(Kept, call.delim)
      <4>1. Returns(Kept, "full") /\ call.op = "delimited"
        BY <2>7, <3>2 DEF DelimitedGoesOn
      <4> QED BY <2>1, <2>3, <2>4, <4>1, ReturnReads
    <3> QED BY <3>1, <3>2
  <2>8. ASSUME NoMemory PROVE Reading!Next
    <3>1. Returns(call.got, "nomem") /\ call.op = "delimited" /\ call.rx # <<>>
      BY <2>8 DEF NoMemory
    <3>2. x = 1
      <4>1. x <= 1 /\ x # 0 /\ x \in Nat
        BY <2>2, <2>3, <3>1 DEF Measured
      <4> HIDE DEF x
      <4> QED BY <4>1
    <3> QED BY <2>1, <2>3, <2>4, <3>1, <3>2, ReturnReads
  <2> QED BY <1>6, <2>5, <2>6, <2>7, <2>8
<1>7. CASE UNCHANGED vars
  BY <1>7 DEF vars, Gone, avail, SameReading
<1> QED BY <1>1, <1>2, <1>3, <1>4, <1>6, <1>7 DEF Next, Works

(* For any sizes and streams the calls return the bytes of the peer in     *)
(* order, each once, are short only at the end of the stream, and lose     *)
(* bytes only when they fail: they implement Stream.                       *)
THEOREM LibpovImplementsStream == Spec => ReadsInOrder
<1>1. Init => Reading!Init
  BY DEF Init, Reading!Init, Gone, avail, NoCall, NoResult
<1>2. IInv /\ [Next]_vars => [Reading!Next]_<<written, closed, Gone, last>>
  BY StepReads DEF SameReading
<1>3. Spec => []IInv
  BY Initially, StepKeeps, PTL DEF Spec
<1>4. Spec => Init /\ [][Next]_vars
  BY PTL DEF Spec
<1>5. Init /\ []IInv /\ [][Next]_vars => Reading!Spec
  BY <1>1, <1>2, PTL DEF Reading!Spec
<1> QED BY <1>3, <1>4, <1>5, PTL DEF ReadsInOrder

-----------------------------------------------------------------------------
(* No delimiter has gone by in what cgc_delimited_read has kept.           *)
NoDelimIn(s, d) == \A i \in 1..Len(s) : ~ EndsIn(SubSeq(s, 1, i), d)

NoDelimYet == Pending /\ call.op = "delimited" => NoDelimIn(call.got, call.delim)

Exact(bytes, d, why) ==
  /\ (bytes # <<>> /\ EndsIn(bytes, d)) <=> why = "full"
  /\ \A i \in 1..Len(bytes) - 1 : ~ EndsIn(SubSeq(bytes, 1, i), d)

ExactInv == NoDelimYet /\ DelimitedIsExact

LEMMA NoneMeansNone ==
  ASSUME NEW s \in Seq(Bytes), NEW d, NoDelimIn(s, d), NEW why, why # "full"
  PROVE  Exact(s, d, why)
<1>1. Len(s) \in Nat /\ (s = <<>> <=> Len(s) = 0)
  BY LenIsNat
<1>2. SubSeq(s, 1, Len(s)) = s
  BY SubSeqFull
<1>3. s # <<>> => ~ EndsIn(s, d)
  <2>1. s # <<>> => Len(s) \in 1..Len(s)
    BY <1>1
  <2> QED BY <1>2, <2>1 DEF NoDelimIn
<1>4. \A i \in 1..Len(s) - 1 : i \in 1..Len(s)
  BY <1>1
<1> QED BY <1>3, <1>4 DEF Exact, NoDelimIn

LEMMA OneMore ==
  ASSUME NEW s \in Seq(Bytes), NEW t \in Seq(Bytes), Len(t) = 1, NEW d, NoDelimIn(s, d)
  PROVE  /\ EndsIn(s \o t, d) => Exact(s \o t, d, "full")
         /\ ~ EndsIn(s \o t, d) => NoDelimIn(s \o t, d)
<1> DEFINE u == s \o t
<1>1. u \in Seq(Bytes) /\ Len(u) = Len(s) + 1
  BY ConcatProperties
<1>2. Len(s) \in Nat
  BY LenIsNat
<1>3. ASSUME NEW i \in 1..Len(s) PROVE ~ EndsIn(SubSeq(u, 1, i), d)
  <2>1. 1 \in 1..Len(s)
    BY <1>2
  <2>2. SubSeq(u, 1, i) = SubSeq(s, 1, i)
    BY <2>1, SubSeqOfConcat1
  <2> QED BY <2>2 DEF NoDelimIn
<1>4. SubSeq(u, 1, Len(u)) = u
  BY <1>1, SubSeqFull
<1> HIDE DEF u
<1>5. u # <<>>
  BY <1>1, <1>2
<1>6. \A i \in 1..Len(u) - 1 : i \in 1..Len(s)
  BY <1>1, <1>2
<1>7. \A i \in 1..Len(u) : i \in 1..Len(s) \/ i = Len(u)
  BY <1>1, <1>2
<1>8. EndsIn(u, d) => Exact(u, d, "full")
  BY <1>3, <1>5, <1>6 DEF Exact
<1>9. ~ EndsIn(u, d) => NoDelimIn(u, d)
  BY <1>3, <1>4, <1>7 DEF NoDelimIn
<1> QED BY <1>8, <1>9 DEF u

LEMMA StepIsExact == IInv /\ ExactInv /\ [Next]_vars => ExactInv'
<1> SUFFICES ASSUME IInv, ExactInv, [Next]_vars PROVE ExactInv'
  OBVIOUS
<1>1. text' = text
  BY DEF Next, Peer, Write, Close, Calls, LengthRead, DelimitedRead, Begin, NoBuffer, Works, FromBuffer,
         Drain, Refill, Direct, EndOfFile, Stop, LengthGoesOn, DelimitedGoesOn, Returns, GoesOn,
         ReceiveFails, NoMemory, vars
<1>2. ASSUME last' = last PROVE DelimitedIsExact'
  BY <1>1, <1>2 DEF ExactInv, DelimitedIsExact, EndsIn
<1>3. ASSUME NEW s, s = call'.got, call'.op = "delimited" => NoDelimIn(s, call'.delim)
      PROVE  NoDelimYet'
  BY <1>1, <1>3 DEF NoDelimYet, NoDelimIn, EndsIn
<1>4. ASSUME call.at = "return", NEW bytes, NEW why, Returns(bytes, why),
             call.op = "delimited" => Exact(bytes, call.delim, why)
      PROVE  ExactInv'
  <2>1. /\ last'.op = call.op /\ last'.delim = call.delim /\ last'.bytes = bytes /\ last'.why = why
        /\ call'.at = "idle"
    BY <1>4 DEF Returns, NoCall
  <2>2. NoDelimYet'
    BY <2>1 DEF NoDelimYet, Pending
  <2>3. DelimitedIsExact'
    <3>1. last'.op = "delimited" => Exact(last'.bytes, last'.delim, last'.why)
      BY <1>4, <2>1
    <3> QED BY <1>1, <3>1 DEF DelimitedIsExact, Exact, EndsIn
  <2> QED BY <2>2, <2>3 DEF ExactInv
<1>5. call \in Call
  BY DEF IInv, TypeOK
<1>6. CASE Peer \/ NoBuffer \/ UNCHANGED vars
  <2>1. last' = last /\ (call' = call \/ call'.at = "dead")
    BY <1>5, <1>6 DEF Peer, Write, Close, NoBuffer, vars, Call
  <2>2. NoDelimYet'
    BY <1>3, <2>1 DEF ExactInv, NoDelimYet, Pending
  <2> QED BY <1>2, <2>1, <2>2 DEF ExactInv
<1>7. CASE Calls
  <2>1. ASSUME NEW op, NEW w, LengthRead(op, w) PROVE call'.got = <<>> /\ last' = last
    BY <2>1 DEF LengthRead, Begin, Reads, Fresh, NoCall
  <2>2. ASSUME NEW d, DelimitedRead(d) PROVE call'.got = <<>> /\ last' = last
    BY <2>2 DEF DelimitedRead, Begin, Reads, Fresh, NoCall
  <2>3. call'.got = <<>> /\ last' = last
    BY <1>7, <2>1, <2>2 DEF Calls
  <2>4. NoDelimIn(<<>>, call'.delim)
    BY DEF NoDelimIn
  <2> QED BY <1>2, <1>3, <2>3, <2>4 DEF ExactInv
<1>8. CASE FromBuffer \/ Drain \/ Refill \/ Direct \/ EndOfFile \/ ReceiveFails
  <2>1. Pending /\ last' = last
    BY <1>8 DEF FromBuffer, Drain, Refill, Direct, EndOfFile, ReceiveFails, Receiving, Pending
  <2>2. call'.got = call.got /\ call'.op = call.op /\ call'.delim = call.delim
    <3>1. CASE FromBuffer
      BY <1>5, <3>1 DEF FromBuffer, Call
    <3>2. CASE Drain
      BY <1>5, <3>2 DEF Drain, Call
    <3>3. CASE Refill
      BY <1>5, <3>3 DEF Refill, Call
    <3>4. CASE Direct
      BY <1>5, <3>4 DEF Direct, Call
    <3>5. CASE EndOfFile
      BY <1>5, <3>5 DEF EndOfFile, Call
    <3>6. CASE ReceiveFails
      BY <1>5, <3>6 DEF ReceiveFails, Call
    <3> QED BY <1>8, <3>1, <3>2, <3>3, <3>4, <3>5, <3>6
  <2> QED BY <1>2, <1>3, <2>1, <2>2 DEF ExactInv, NoDelimYet
<1>9. CASE Stop \/ LengthGoesOn \/ DelimitedGoesOn \/ NoMemory
  <2>1. call.at = "return" /\ Pending /\ Shape
    BY <1>9, ShapeOf DEF Stop, LengthGoesOn, DelimitedGoesOn, NoMemory, Pending
  <2>2. call.got \in Seq(Bytes) /\ call.rx \in Seq(Bytes)
    BY <2>1 DEF Shape
  <2>3. ASSUME NEW why, why # "full", call.op = "delimited" PROVE Exact(call.got, call.delim, why)
    BY <2>1, <2>2, <2>3, NoneMeansNone DEF ExactInv, NoDelimYet
  <2>4. ASSUME Stop PROVE ExactInv'
    <3>1. PICK why \in {"error", "eof"} : Returns(call.got, why)
      BY <2>4 DEF Stop
    <3> QED BY <1>4, <2>1, <2>3, <3>1
  <2>5. ASSUME NoMemory PROVE ExactInv'
    BY <1>4, <2>1, <2>3, <2>5 DEF NoMemory
  <2>6. ASSUME LengthGoesOn PROVE ExactInv'
    <3>1. call.op # "delimited"
      BY <2>6 DEF LengthGoesOn
    <3>2. CASE Len(Kept) < call.want
      <4>1. call'.op # "delimited" /\ last' = last
        BY <1>5, <2>6, <3>1, <3>2 DEF LengthGoesOn, GoesOn, Reads, Call
      <4> QED BY <1>2, <1>3, <4>1 DEF ExactInv
    <3>3. CASE ~ (Len(Kept) < call.want)
      BY <1>4, <2>1, <2>6, <3>1, <3>3 DEF LengthGoesOn
    <3> QED BY <3>2, <3>3
  <2>7. ASSUME DelimitedGoesOn PROVE ExactInv'
    <3>1. call.op = "delimited" /\ call.rx # <<>>
      BY <2>7 DEF DelimitedGoesOn
    <3>2. Len(call.rx) = 1
      <4> DEFINE x == Len(call.rx)
      <4>1. x <= 1 /\ x # 0 /\ x \in Nat
        BY <2>1, <3>1 DEF Shape, IInv, CallOK, Measured
      <4> HIDE DEF x
      <4>2. x = 1
        BY <4>1
      <4> QED BY <4>2 DEF x
    <3>3. NoDelimIn(call.got, call.delim)
      BY <2>1, <3>1 DEF ExactInv, NoDelimYet
    <3>4. /\ EndsIn(Kept, call.delim) => Exact(Kept, call.delim, "full")
          /\ ~ EndsIn(Kept, call.delim) => NoDelimIn(Kept, call.delim)
      BY <2>2, <3>2, <3>3, OneMore DEF Kept
    <3>5. CASE HasDelim(Kept, call.delim)
      BY <1>4, <2>1, <2>7, <3>4, <3>5 DEF DelimitedGoesOn, HasDelim
    <3>6. CASE ~ HasDelim(Kept, call.delim)
      <4> DEFINE k == Kept
      <4>1. k \in Seq(Bytes) /\ NoDelimIn(k, call.delim)
        BY <2>1, <3>4, <3>6, KeptFacts DEF HasDelim, KeptIs
      <4>2. call'.got = k /\ call'.delim = call.delim /\ last' = last
        BY <1>5, <2>7, <3>6 DEF DelimitedGoesOn, GoesOn, Reads, Call
      <4> QED BY <1>2, <1>3, <4>1, <4>2 DEF ExactInv
    <3> QED BY <3>5, <3>6
  <2> QED BY <1>9, <2>4, <2>5, <2>6, <2>7
<1> QED BY <1>6, <1>7, <1>8, <1>9 DEF Next, Works

(* For any delimiters and sizes, what cgc_delimited_read returns ends in   *)
(* the first delimiter of the bytes of this call, or there is none in it.  *)
THEOREM FirstDelimiter == Spec => []DelimitedIsExact
<1>1. Init => ExactInv
  BY DEF Init, ExactInv, NoDelimYet, Pending, NoCall, DelimitedIsExact, NoResult
<1>2. ExactInv => DelimitedIsExact
  BY DEF ExactInv
<1>3. Spec => []IInv
  BY Initially, StepKeeps, PTL DEF Spec
<1> QED BY <1>1, <1>2, <1>3, StepIsExact, PTL DEF Spec

=============================================================================
