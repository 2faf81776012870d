---------------------------- MODULE KernelProofs ----------------------------
(***************************************************************************)
(* Proofs about the metadata store, for any number of commands, challenges *)
(* and tests.                                                              *)
(***************************************************************************)
EXTENDS Kernel, TLAPS

(* Changing an entry keeps it an entry.                                    *)
LEMMA ChangedEntryType ==
  ASSUME NEW op \in Op, NEW e \in Entry
  PROVE  ChangedEntry(op, e) \in Entry
<1>1. NoSanity \in [Tests -> Outcome \cup {NoOutcome}]
  BY DEF NoSanity
<1>2. e.excluded \in BOOLEAN /\ e.sanity \in [Tests -> Outcome \cup {NoOutcome}]
  BY DEF Entry
<1>3. op.kind = "update" => op.test \in Tests /\ op.out \in Outcome
  BY DEF Op
<1> DEFINE x == op.kind = "exclude" \/ (e.excluded /\ op.kind # "include")
           s == IF op.kind = "reset" THEN NoSanity
                ELSE IF op.kind = "update"
                     THEN [e.sanity EXCEPT ![op.test] = op.out]
                     ELSE e.sanity
<1>4. x \in BOOLEAN
  OBVIOUS
<1>5. s \in [Tests -> Outcome \cup {NoOutcome}]
  BY <1>1, <1>2, <1>3
<1>6. ChangedEntry(op, e) = [excluded |-> x, sanity |-> s]
  BY DEF ChangedEntry
<1> HIDE DEF x, s
<1> QED BY <1>4, <1>5, <1>6 DEF Entry

(* Applying an operation keeps a document a document.                      *)
LEMMA ApplyOpType ==
  ASSUME NEW op \in Op, NEW doc \in Doc
  PROVE  ApplyOp(op, doc) \in Doc
<1>1. op.chal \in Challenges
  BY DEF Op
<1>2. doc[op.chal] \in Entry
  BY <1>1 DEF Doc
<1>3. ChangedEntry(op, doc[op.chal]) \in Entry
  BY <1>2, ChangedEntryType
<1> QED BY <1>1, <1>3 DEF Doc, ApplyOp

-----------------------------------------------------------------------------
(* What one operation does to the type of p's copy and p's pending save.   *)
LEMMA ChangeType ==
  ASSUME NEW p \in Procs, NEW op \in Op, TypeOK, Change(p, op)
  PROVE  TypeOK'
<1>1. mem[p] \in Doc
  BY DEF TypeOK, Change, Goto
<1>2. ApplyOp(op, mem[p]) \in Doc
  BY <1>1, ApplyOpType
<1> QED BY <1>2 DEF TypeOK, Change, Goto, PC, Saving

(* The type invariant is preserved by every step.                          *)
LEMMA TypeStep == TypeOK /\ [Next]_vars => TypeOK'
<1> SUFFICES ASSUME TypeOK, [Next]_vars PROVE TypeOK'
  OBVIOUS
<1> USE DEF TypeOK, Goto, PC, Saving
<1>1. ASSUME NEW p \in Procs, Start(p) PROVE TypeOK'
  BY <1>1 DEF Start, StartWith
<1>2. ASSUME NEW p \in Procs, NEW c \in Challenges, GetChallenge(p, c) PROVE TypeOK'
  BY <1>2 DEF GetChallenge
<1>3. ASSUME NEW p \in Procs, NEW c \in Challenges, RefuseChallenge(p, c) PROVE TypeOK'
  BY <1>3 DEF RefuseChallenge, Ends, DropLock
<1>4. ASSUME NEW p \in Procs, NEW t \in Tests, NEW o \in Outcome,
             cur[p] \in Challenges, UpdateSanity(p, t, o)
      PROVE  TypeOK'
  <2>1. [kind |-> "update", chal |-> cur[p], test |-> t, out |-> o] \in Op
    BY <1>4 DEF Op
  <2> QED BY <1>4, <2>1, ChangeType DEF UpdateSanity
<1>5. ASSUME NEW p \in Procs, IncludeChallenge(p) PROVE TypeOK'
  <2>1. [kind |-> "include", chal |-> cur[p]] \in Op
    BY <1>5 DEF Op, IncludeChallenge
  <2> QED BY <1>5, <2>1, ChangeType DEF IncludeChallenge
<1>6. ASSUME NEW p \in Procs, ResetSanity(p) PROVE TypeOK'
  <2>1. [kind |-> "reset", chal |-> cur[p]] \in Op
    BY <1>6 DEF Op, ResetSanity
  <2> QED BY <1>6, <2>1, ChangeType DEF ResetSanity
<1>7. ASSUME NEW p \in Procs, ExcludeChallenge(p) PROVE TypeOK'
  <2> DEFINE op == [kind |-> "exclude", chal |-> cur[p]]
  <2>1. op \in Op /\ file \in Doc
    BY <1>7 DEF Op, ExcludeChallenge
  <2>2. ApplyOp(op, file) \in Doc
    BY <2>1, ApplyOpType
  <2> QED BY <1>7, <2>1, <2>2 DEF ExcludeChallenge
<1>8. ASSUME NEW p \in Procs, ExcludeFails(p) PROVE TypeOK'
  BY <1>8 DEF ExcludeFails, Ends, DropLock
<1>9. ASSUME NEW p \in Procs, Acquire(p) PROVE TypeOK'
  BY <1>9 DEF Acquire
<1>10. ASSUME NEW p \in Procs, Truncate(p) PROVE TypeOK'
  BY <1>10 DEF Truncate
<1>11. ASSUME NEW p \in Procs, Dump(p) PROVE TypeOK'
  <2>1. pending[p] \in Op /\ mem[p] \in Doc
    BY <1>11 DEF Dump
  <2>2. ApplyOp(pending[p], truth) \in Doc
    BY <2>1, ApplyOpType
  <2> QED BY <1>11, <2>1, <2>2 DEF Dump
<1>12. ASSUME NEW p \in Procs, Release(p) PROVE TypeOK'
  BY <1>12 DEF Release
<1>13. ASSUME NEW p \in Procs, Exit(p) PROVE TypeOK'
  BY <1>13 DEF Exit, Ends, DropLock
<1>14. ASSUME NEW p \in Procs, Kill(p) PROVE TypeOK'
  BY <1>14 DEF Kill, Ends, DropLock
<1>15. CASE UNCHANGED vars
  BY <1>15 DEF vars
<1> QED
  BY <1>1, <1>2, <1>3, <1>4, <1>5, <1>6, <1>7, <1>8, <1>9, <1>10, <1>11,
     <1>12, <1>13, <1>14, <1>15 DEF Next

(* Every variable has its type in every state: a command that is running   *)
(* holds a whole document, and one that saves knows what it saves.         *)
THEOREM TypeCorrect == Spec => []TypeOK
<1>1. Init => TypeOK
  BY DEF Init, TypeOK, PC, Saving
<1> QED BY <1>1, TypeStep, PTL DEF Spec

-----------------------------------------------------------------------------
LEMMA LockStep == TypeOK /\ LockHasItsHolder /\ [Next]_vars => LockHasItsHolder'
<1> SUFFICES ASSUME TypeOK, LockHasItsHolder, [Next]_vars PROVE LockHasItsHolder'
  OBVIOUS
<1> USE KernelAssumption DEF TypeOK, LockHasItsHolder, Holding, Goto
<1>1. ASSUME NEW p \in Procs, Start(p) PROVE LockHasItsHolder'
  BY <1>1 DEF Start, StartWith
<1>2. ASSUME NEW p \in Procs, NEW c \in Challenges, GetChallenge(p, c) PROVE LockHasItsHolder'
  BY <1>2 DEF GetChallenge
<1>3. ASSUME NEW p \in Procs, NEW c \in Challenges, RefuseChallenge(p, c) PROVE LockHasItsHolder'
  BY <1>3 DEF RefuseChallenge, Ends, DropLock
<1>4. ASSUME NEW p \in Procs, NEW op, Change(p, op) PROVE LockHasItsHolder'
  BY <1>4 DEF Change
<1>5. ASSUME NEW p \in Procs, ExcludeChallenge(p) PROVE LockHasItsHolder'
  BY <1>5 DEF ExcludeChallenge
<1>6. ASSUME NEW p \in Procs, ExcludeFails(p) PROVE LockHasItsHolder'
  BY <1>6 DEF ExcludeFails, Ends, DropLock
<1>7. ASSUME NEW p \in Procs, Acquire(p) PROVE LockHasItsHolder'
  BY <1>7 DEF Acquire
<1>8. ASSUME NEW p \in Procs, Truncate(p) PROVE LockHasItsHolder'
  BY <1>8 DEF Truncate
<1>9. ASSUME NEW p \in Procs, Dump(p) PROVE LockHasItsHolder'
  BY <1>9 DEF Dump
<1>10. ASSUME NEW p \in Procs, Release(p) PROVE LockHasItsHolder'
  BY <1>10 DEF Release
<1>11. ASSUME NEW p \in Procs, Exit(p) PROVE LockHasItsHolder'
  BY <1>11 DEF Exit, Ends, DropLock
<1>12. ASSUME NEW p \in Procs, Kill(p) PROVE LockHasItsHolder'
  BY <1>12 DEF Kill, Ends, DropLock
<1>13. CASE UNCHANGED vars
  BY <1>13 DEF vars
<1> QED
  BY <1>1, <1>2, <1>3, <1>4, <1>5, <1>6, <1>7, <1>8, <1>9, <1>10, <1>11, <1>12, <1>13
  DEF Next, UpdateSanity, IncludeChallenge, ResetSanity

(* The lock file is held by a command inside "with lock", and by it alone. *)
THEOREM LockIsHeld == Spec => []LockHasItsHolder
<1>1. Init => LockHasItsHolder
  BY KernelAssumption DEF Init, LockHasItsHolder, Holding
<1> QED BY <1>1, LockStep, TypeCorrect, PTL DEF Spec

(* The lock keeps writers apart, also when lock holders are killed.        *)
THEOREM LockIsExclusive == Spec => []WritersExclude
<1>1. LockHasItsHolder => WritersExclude
  BY DEF LockHasItsHolder, WritersExclude
<1> QED BY <1>1, LockIsHeld, PTL

-----------------------------------------------------------------------------
(* The strengthening of NoLostUpdate: a process in current has a copy that *)
(* is the truth, with its own operation already applied while it saves.    *)
FreshCopies ==
  ~ stale => \A p \in current :
               mem[p] = IF Saving(p) THEN ApplyOp(pending[p], truth) ELSE truth

UpdateInv == NoLostUpdate /\ FreshCopies

LEMMA ChangeKeepsUpdateInv ==
  ASSUME NEW p \in Procs, NEW op, TypeOK, UpdateInv, Change(p, op)
  PROVE  UpdateInv'
  BY DEF UpdateInv, NoLostUpdate, FreshCopies, Change, Goto, TypeOK, Saving

LEMMA UpdateStep == TypeOK /\ UpdateInv /\ [Next]_vars => UpdateInv'
<1> SUFFICES ASSUME TypeOK, UpdateInv, [Next]_vars PROVE UpdateInv'
  OBVIOUS
<1> USE DEF TypeOK, UpdateInv, NoLostUpdate, FreshCopies, Saving, Goto
<1>1. ASSUME NEW p \in Procs, Start(p) PROVE UpdateInv'
  BY <1>1 DEF Start, StartWith
<1>2. ASSUME NEW p \in Procs, NEW c \in Challenges, GetChallenge(p, c) PROVE UpdateInv'
  BY <1>2 DEF GetChallenge
<1>3. ASSUME NEW p \in Procs, NEW c \in Challenges, RefuseChallenge(p, c) PROVE UpdateInv'
  BY <1>3 DEF RefuseChallenge, Ends, DropLock
<1>4. ASSUME NEW p \in Procs, NEW op, Change(p, op) PROVE UpdateInv'
  BY <1>4, ChangeKeepsUpdateInv
<1>5. ASSUME NEW p \in Procs, ExcludeChallenge(p) PROVE UpdateInv'
  BY <1>5 DEF ExcludeChallenge
<1>6. ASSUME NEW p \in Procs, ExcludeFails(p) PROVE UpdateInv'
  BY <1>6 DEF ExcludeFails, Ends, DropLock
<1>7. ASSUME NEW p \in Procs, Acquire(p) PROVE UpdateInv'
  BY <1>7 DEF Acquire
<1>8. ASSUME NEW p \in Procs, Truncate(p) PROVE UpdateInv'
  BY <1>8 DEF Truncate
<1>9. ASSUME NEW p \in Procs, Dump(p) PROVE UpdateInv'
  BY <1>9 DEF Dump
<1>10. ASSUME NEW p \in Procs, Release(p) PROVE UpdateInv'
  BY <1>10 DEF Release
<1>11. ASSUME NEW p \in Procs, Exit(p) PROVE UpdateInv'
  BY <1>11 DEF Exit, Ends, DropLock
<1>12. ASSUME NEW p \in Procs, Kill(p) PROVE UpdateInv'
  BY <1>12 DEF Kill, Ends, DropLock
<1>13. CASE UNCHANGED vars
  BY <1>13 DEF vars
<1> QED
  BY <1>1, <1>2, <1>3, <1>4, <1>5, <1>6, <1>7, <1>8, <1>9, <1>10, <1>11, <1>12, <1>13
  DEF Next, UpdateSanity, IncludeChallenge, ResetSanity

(* As long as no command has saved a copy it read before another command's *)
(* save, the metadata file holds every operation saved so far, whichever   *)
(* commands were killed and wherever.                                      *)
THEOREM UpdatesAreKept == Spec => []NoLostUpdate
<1>1. Init => UpdateInv
  BY DEF Init, UpdateInv, NoLostUpdate, FreshCopies
<1>2. UpdateInv => NoLostUpdate
  BY DEF UpdateInv
<1> QED BY <1>1, <1>2, UpdateStep, TypeCorrect, PTL DEF Spec

-----------------------------------------------------------------------------
(* Only a kill leaves the file torn with nobody left to finish the dump.   *)
THEOREM OnlyAKillTears == Spec => OnlyKillTears
<1>1. ASSUME TypeOK, [Next]_vars, Writing, ~ Writing', file' = Torn
      PROVE  \E p \in Procs : Kill(p)
  <2>1. PICK q \in Procs : pc[q] = "writing"
    BY <1>1 DEF Writing
  <2>2. pc'[q] # "writing"
    BY <1>1, <2>1 DEF Writing
  <2>3. \A p \in Procs : ~ Dump(p)
    <3> SUFFICES ASSUME NEW p \in Procs, Dump(p) PROVE FALSE
      OBVIOUS
    <3>1. file' \in Doc
      BY <1>1 DEF Dump, Goto, TypeOK
    <3> QED BY <3>1, <1>1, KernelAssumption DEF Doc, Entry, Outcome
  <2> QED
    BY <1>1, <2>1, <2>2, <2>3 DEF Next, TypeOK, Start, StartWith, GetChallenge, RefuseChallenge,
       UpdateSanity, IncludeChallenge, ResetSanity, Change, ExcludeChallenge, ExcludeFails,
       Acquire, Truncate, Release, Exit, Goto, vars
<1> QED BY <1>1, TypeCorrect, PTL DEF Spec, OnlyKillTears

=============================================================================
