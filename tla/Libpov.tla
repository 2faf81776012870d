------------------------------- MODULE Libpov -------------------------------
(***************************************************************************)
(* How a POV reads from its peer (src/lib/include/libpov/pov.c, on         *)
(* cgc_receive of src/lib/include/libcgc.c): cgc_length_read and           *)
(* cgc_delimited_read go through cgc_buffered_receive, which keeps what it *)
(* received but was not asked for in a buffer of the descriptor.           *)
(*                                                                         *)
(* The peer writes whenever it likes; cgc_receive returns any part of what *)
(* has arrived, end of file, or an error.  A byte is the number of its     *)
(* place in the stream, and text gives its value.                          *)
(***************************************************************************)
EXTENDS Integers, Sequences

CONSTANTS
  N,         (* bound: the bytes the peer may write                        *)
  Letters,   (* the values of a byte                                       *)
  Delims,    (* the delimiters, sequences of letters                       *)
  Lengths,   (* the lengths asked for                                      *)
  Size,      (* sizeof(rb->buf): 4096                                      *)
  Chunk,     (* sizeof(dbuf) in cgc_length_read: 512                       *)
  FirstCap   (* the first allocation of cgc_delimited_read: 128            *)

ASSUME LibpovAssumption ==
  /\ N \in Nat
  /\ Lengths \subseteq Nat \ {0}
  /\ Delims \subseteq Seq(Letters)
  /\ Size \in Nat \ {0} /\ Chunk \in Nat \ {0} /\ FirstCap \in Nat \ {0}

VARIABLES
  text,      (* the values of the bytes                                    *)
  direct,    (* fd > 15: there is no buffer                                *)
  written,   (* the bytes the peer has written                             *)
  closed,    (* the peer has closed its end                                *)
  taken,     (* the bytes cgc_receive has returned                         *)
  rb,        (* ibufs[fd]: iptr, eptr and buf, once it is made             *)
  call,      (* the call under way                                         *)
  last       (* the result of the last call                                *)

vars == <<text, direct, written, closed, taken, rb, call, last>>

Bytes == 1..N
Ops == {"length", "discard", "delimited"}

(* at: the start of the loop of cgc_buffered_receive, its cgc_receive, or  *)
(* its return.  count is what it is to read, rx what it has copied for its *)
(* caller, got what the caller has kept: total, idx and their data.  cap   *)
(* is that of cgc_delimited_read, begun the first byte of the call, which  *)
(* is history.                                                             *)
Call == [at : {"idle", "loop", "receive", "return", "dead"},
         op : Ops, want : Nat, delim : Delims \cup {<<>>},
         count : Nat, rx : Seq(Bytes), err : BOOLEAN,
         got : Seq(Bytes), cap : Nat, begun : Nat]

NoCall == [at |-> "idle", op |-> "length", want |-> 0, delim |-> <<>>, count |-> 0,
           rx |-> <<>>, err |-> FALSE, got |-> <<>>, cap |-> 0, begun |-> 0]

Result == [op : Ops, want : Nat, delim : Delims \cup {<<>>},
           bytes : Seq(Bytes), why : {"none", "full", "eof", "error", "nomem"}]

NoResult == [op |-> "length", want |-> 0, delim |-> <<>>, bytes |-> <<>>, why |-> "none"]

Init ==
  /\ text \in [Bytes -> Letters]
  /\ direct \in BOOLEAN
  /\ written = 0 /\ closed = FALSE /\ taken = 0
  /\ rb = [made |-> FALSE, iptr |-> 0, eptr |-> 0, buf |-> [j \in 0..Size - 1 |-> 0]]
  /\ call = NoCall
  /\ last = NoResult

Lesser(m, n) == IF m <= n THEN m ELSE n

avail == rb.eptr - rb.iptr

(* n bytes of the buffer from iptr on.                                     *)
CopiedFromStart(n) == [i \in 1..n |-> rb.buf[i - 1]]   \* mutant: iptr is not added
Copied(n) == [i \in 1..n |-> rb.buf[rb.iptr + i - 1]]

-----------------------------------------------------------------------------
(* The peer.                                                               *)
Write(n) ==
  /\ ~ closed /\ written + n <= N
  /\ written' = written + n
  /\ UNCHANGED <<text, direct, closed, taken, rb, call, last>>

Close ==
  /\ ~ closed /\ closed' = TRUE
  /\ UNCHANGED <<text, direct, written, taken, rb, call, last>>

-----------------------------------------------------------------------------
(* cgc_length_read, with a buffer or without, and cgc_delimited_read.      *)

(* need, of the buffer that is left or of the chunk that is discarded.     *)
Need(op, n) == IF op = "discard" THEN Lesser(n, Chunk) ELSE n

(* A call of cgc_buffered_receive.                                         *)
Reads(c, n) == [c EXCEPT !.at = "loop", !.count = n, !.rx = <<>>, !.err = FALSE]

Begin(c, n) ==
  /\ call.at = "idle"
  /\ call' = Reads(c, n)
  /\ rb' = [rb EXCEPT !.made = TRUE]
  /\ UNCHANGED <<text, direct, written, closed, taken, last>>

Fresh(op) == [NoCall EXCEPT !.op = op, !.begun = taken - avail]

LengthRead(op, w) == Begin([Fresh(op) EXCEPT !.want = w], Need(op, w))

DelimitedRead(d) == Begin([Fresh("delimited") EXCEPT !.delim = d], 1)

(* The first call has no memory for the buffer, and uses NULL.             *)
NoBuffer ==
  /\ call.at = "idle" /\ ~ rb.made /\ ~ direct
  /\ call' = [call EXCEPT !.at = "dead"]
  /\ UNCHANGED <<text, direct, written, closed, taken, rb, last>>

-----------------------------------------------------------------------------
(* cgc_buffered_receive.                                                   *)
Enough(c) == avail >= c.count

(* The buffer has what is asked for.                                       *)
FromBuffer ==
  /\ call.at = "loop" /\ ~ direct /\ Enough(call)
  /\ call' = [call EXCEPT !.at = "return", !.rx = @ \o Copied(call.count)]
  /\ rb' = [rb EXCEPT !.iptr = @ + call.count]
  /\ UNCHANGED <<text, direct, written, closed, taken, last>>

(* Mutant: iptr is not reset.                                              *)
DrainAgain ==
  /\ call.at = "loop" /\ ~ direct /\ ~ Enough(call)
  /\ call' = [call EXCEPT !.at = "receive", !.rx = @ \o Copied(avail), !.count = @ - avail]
  /\ rb' = [rb EXCEPT !.eptr = 0]
  /\ UNCHANGED <<text, direct, written, closed, taken, last>>

(* It has less, or nothing: that is copied, and more must be received.     *)
Drain ==
  /\ call.at = "loop" /\ ~ direct /\ ~ Enough(call)
  /\ call' = [call EXCEPT !.at = "receive", !.rx = @ \o Copied(avail), !.count = @ - avail]
  /\ rb' = [rb EXCEPT !.iptr = 0, !.eptr = 0]
  /\ UNCHANGED <<text, direct, written, closed, taken, last>>

(* cgc_receive into a buffer of n bytes returns k of them.                 *)
Parts(n) == 1..Lesser(n, written - taken)

(* It fills the buffer from its start.                                     *)
Refill ==
  /\ call.at = "receive"
  /\ \E k \in Parts(Size) :
       /\ rb' = [rb EXCEPT !.eptr = k,
                           !.buf = [j \in DOMAIN @ |-> IF j < k THEN taken + j + 1 ELSE @[j]]]
       /\ taken' = taken + k
  /\ call' = [call EXCEPT !.at = "loop"]
  /\ UNCHANGED <<text, direct, written, closed, last>>

(* Without a buffer: into that of the caller.                              *)
Direct ==
  /\ call.at = "loop" /\ direct
  /\ \E k \in Parts(call.count) :
       /\ call' = [call EXCEPT !.at = "return", !.rx = [i \in 1..k |-> taken + i]]
       /\ taken' = taken + k
  /\ UNCHANGED <<text, direct, written, closed, rb, last>>

Receiving == call.at = IF direct THEN "loop" ELSE "receive"

EndOfFile ==
  /\ Receiving /\ closed /\ taken = written
  /\ call' = [call EXCEPT !.at = "return"]
  /\ UNCHANGED <<text, direct, written, closed, taken, rb, last>>

ReceiveFails ==
  /\ Receiving
  /\ call' = [call EXCEPT !.at = "return", !.err = TRUE]
  /\ UNCHANGED <<text, direct, written, closed, taken, rb, last>>

-----------------------------------------------------------------------------
(* The callers.                                                            *)
Returns(bytes, why) ==
  /\ call' = NoCall
  /\ last' = [op |-> call.op, want |-> call.want, delim |-> call.delim,
              bytes |-> bytes, why |-> why]
  /\ UNCHANGED <<text, direct, written, closed, taken, rb>>

GoesOn(c, n) == call' = Reads(c, n) /\ UNCHANGED <<text, direct, written, closed, taken, rb, last>>

(* Mutant: nothing is not taken for the end.                               *)
StopOnError ==
  /\ call.at = "return" /\ call.err
  /\ Returns(call.got, "error")

(* An error, or nothing: what this cgc_buffered_receive has copied before  *)
(* an error does not count.                                                *)
Stop ==
  /\ call.at = "return" /\ (call.err \/ call.rx = <<>>)
  /\ Returns(call.got, IF call.err THEN "error" ELSE "eof")

Kept == call.got \o call.rx

LengthGoesOn ==
  /\ call.at = "return" /\ ~ call.err /\ call.rx # <<>> /\ call.op # "delimited"
  /\ IF Len(Kept) < call.want
     THEN GoesOn([call EXCEPT !.got = Kept], Need(call.op, call.want - Len(Kept)))
     ELSE Returns(Kept, "full")

(* The values of the last bytes of s are those of d.                       *)
EndsIn(s, d) ==
  /\ Len(s) >= Len(d)
  /\ \A i \in 1..Len(d) : text[s[Len(s) - Len(d) + i]] = d[i]

(* Mutant: only the last byte is compared.                                 *)
HasDelimAtLast(s, d) == d # <<>> /\ text[s[Len(s)]] = d[Len(d)]

HasDelim(s, d) == EndsIn(s, d)

Grown(cap) == IF cap = 0 THEN FirstCap ELSE 2 * cap

DelimitedGoesOn ==
  /\ call.at = "return" /\ ~ call.err /\ call.rx # <<>> /\ call.op = "delimited"
  /\ IF HasDelim(Kept, call.delim)
     THEN Returns(Kept, "full")
     ELSE GoesOn([call EXCEPT !.got = Kept,
                              !.cap = IF Len(call.got) = @ THEN Grown(@) ELSE @], 1)

(* cgc_realloc returns NULL, and the byte is lost.                         *)
NoMemory ==
  /\ call.at = "return" /\ ~ call.err /\ call.rx # <<>> /\ call.op = "delimited"
  /\ Len(call.got) = call.cap
  /\ Returns(call.got, "nomem")

-----------------------------------------------------------------------------
Peer == (\E n \in Bytes : Write(n)) \/ Close

Calls ==
  \/ \E w \in Lengths : LengthRead("length", w) \/ LengthRead("discard", w)
  \/ \E d \in Delims : DelimitedRead(d)

(* What the program does on its own, and what the kernel does for it.      *)
Works ==
  \/ FromBuffer \/ Drain \/ Refill \/ Direct \/ EndOfFile
  \/ Stop \/ LengthGoesOn \/ DelimitedGoesOn

Next == Peer \/ Calls \/ NoBuffer \/ Works \/ ReceiveFails \/ NoMemory

(* The program runs, and cgc_receive returns when there is something.      *)
Fairness == WF_vars(Works)

Spec == Init /\ [][Next]_vars /\ Fairness

-----------------------------------------------------------------------------
(* Every variable has its type, and the buffer does not overflow.          *)
TypeOK ==
  /\ text \in [Bytes -> Letters] /\ direct \in BOOLEAN
  /\ written \in 0..N /\ closed \in BOOLEAN /\ taken \in 0..written
  /\ rb \in [made : BOOLEAN, iptr : 0..Size, eptr : 0..Size, buf : [0..Size - 1 -> 0..N]]
  /\ rb.iptr <= rb.eptr
  /\ call \in Call /\ last \in Result

(* What cgc_delimited_read returns ends in the first delimiter that lies   *)
(* in the bytes of this call, or in none: then the stream is over, or the  *)
(* call failed.  A delimiter that a read by length cut in two is not found.*)
DelimitedIsExact ==
  last.why # "none" /\ last.op = "delimited" =>
    /\ (last.bytes # <<>> /\ EndsIn(last.bytes, last.delim)) <=> last.why = "full"
    /\ \A i \in 1..Len(last.bytes) - 1 : ~ EndsIn(SubSeq(last.bytes, 1, i), last.delim)

(* The bytes that are gone: not those of the call under way.               *)
Gone == IF call.at \in {"idle", "dead"} THEN taken - avail ELSE call.begun

Reading == INSTANCE Stream WITH sent <- written, over <- closed, pos <- Gone

(* However the bytes arrive, and whatever of them waits in the buffer, the *)
(* calls return them in order, each once, and are short only at the end.   *)
ReadsInOrder == Reading!Spec

(* A call whose bytes have arrived returns, without another byte from the  *)
(* peer, and so does every call when the peer has closed the stream.       *)
HasArrived ==
  \/ closed
  \/ call.op # "delimited" /\ call.begun + call.want <= written
  \/ /\ call.op = "delimited"
     /\ \E n \in 1..(written - call.begun) :
          EndsIn([i \in 1..n |-> call.begun + i], call.delim)

Pending == call.at \in {"loop", "receive", "return"}

CallReturns == Pending /\ HasArrived ~> ~ Pending

=============================================================================
