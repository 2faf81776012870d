---------------------------- MODULE SanityProofs ----------------------------
(***************************************************************************)
(* Proofs about the sanity task, for any list of challenges, options,      *)
(* leftovers and tests.                                                    *)
(*                                                                         *)
(* And, in the second part, about the replay of one POV, whose results are *)
(* among those the task judges, for any number of challenge binaries.      *)
(***************************************************************************)
EXTENDS Sanity, PovReplay, SequenceTheorems, WellFoundedInduction, TLAPS

(* What the program counter says of the index and of the operations left.  *)
Where ==
  /\ pc \in {"ops", "judge", "failed"} => i <= Len(Order)
  /\ pc = "judge" => ops # <<>> /\ Head(ops) = "test"
  /\ pc = "done" => i > Len(Order)

(* Every challenge the loop has left behind is judged.                     *)
JudgedSoFar == \A k \in 1 .. i - 1 : verdict[Order[k]] # "none"

(* The inductive invariant: the types, the place, and what holds of the    *)
(* challenges already checked.                                             *)
IInv == TypeOK /\ Where /\ JudgedSoFar /\ NoLitter

(* Each place of the list holds a challenge.                               *)
LEMMA OrderType ==
  /\ Len(Order) \in Nat /\ DOMAIN Order = 1 .. Len(Order)
  /\ \A k \in 1 .. Len(Order) : Order[k] \in Challenges
  /\ \A c \in Challenges : \E k \in 1 .. Len(Order) : c = Order[k]
BY SanityAssumption DEF Challenges

(* While the loop is at a challenge, cur is one.                           *)
LEMMA CurType ==
  ASSUME TypeOK, i <= Len(Order)
  PROVE  i \in 1 .. Len(Order) /\ cur \in Challenges
BY OrderType DEF TypeOK, cur

(* The number of lookups is a number.                                      *)
LEMMA LookupType ==
  ASSUME opts \in Options PROVE opts.lookup \in Nat
<1>1. opts.lookup \in Lookups
  BY DEF Options
<1>2. Lookups \subseteq Nat
  BY SanityAssumption
<1> QED BY <1>1, <1>2

LEMMA InitIInv == Init => IInv
<1> SUFFICES ASSUME Init PROVE IInv
  OBVIOUS
<1> USE DEF Init
<1>1. TypeOK
  <2>1. file \in Doc
    BY DEF Doc
  <2>2. wd \in [Challenges -> Directory] /\ povs \in [Challenges -> {"absent", "empty", "saved"}]
    BY SanityAssumption
  <2>3. i \in 1 .. Len(Order) + 1
    BY OrderType
  <2>4. n \in Nat \ {0} /\ (Looking => n <= opts.lookup)
    BY LookupType DEF Looking
  <2> QED BY <2>1, <2>2, <2>3, <2>4 DEF TypeOK
<1>2. Where
  BY DEF Where
<1>3. JudgedSoFar
  BY DEF JudgedSoFar
<1>4. NoLitter
  BY OrderType DEF NoLitter
<1> QED BY <1>1, <1>2, <1>3, <1>4 DEF IInv

-----------------------------------------------------------------------------
(* What the pieces of the actions do to the types.                         *)
LEMMA ExcludeType ==
  ASSUME NEW disk \in Doc, cur \in Challenges, Exclude(disk)
  PROVE  file' \in Doc /\ mem' \in Doc
BY DEF Exclude, Save, Doc

LEMMA DisposeType ==
  ASSUME NEW dirs \in [Challenges -> Directory], cur \in Challenges, Dispose(dirs)
  PROVE  wd' \in [Challenges -> Directory]
BY DEF Dispose, Directory

(* A document without the test results of the current challenge.           *)
LEMMA ResetType ==
  ASSUME mem \in Doc PROVE [mem EXCEPT !.tested = @ \ {cur}] \in Doc
BY DEF Doc

-----------------------------------------------------------------------------
(* Every step preserves the types.                                         *)
LEMMA TypeStep == TypeOK /\ Where /\ [Next]_vars => TypeOK'
<1> SUFFICES ASSUME TypeOK, Where, [Next]_vars PROVE TypeOK'
  OBVIOUS
<1>0. Len(Order) \in Nat
  BY OrderType
<1>c. pc \in {"ops", "judge", "failed"} => cur \in Challenges /\ i \in 1 .. Len(Order)
  BY CurType DEF Where
<1> USE DEF TypeOK, Ended, Looking
<1>1. CASE Begin
  <2>1. Looking => 1 <= opts.lookup
    BY LookupType
  <2> QED BY <1>1, <2>1 DEF Begin, store
<1>2. CASE Done
  BY <1>2 DEF Done, store, loop
<1>3. CASE Refuse
  BY <1>3 DEF Refuse, store, loop
<1>4. CASE Generate
  <2> DEFINE reset == [mem EXCEPT !.tested = @ \ {cur}]
             disk  == IF cur \in mem.tested THEN reset ELSE file
  <2>0. cur \in Challenges
    BY <1>4, <1>c DEF Generate, At
  <2>1. reset \in Doc /\ disk \in Doc
    BY ResetType
  <2>2. \/ mem' = reset /\ file' = disk /\ Passes
        \/ Fails /\ (Exclude(disk) \/ (mem' = reset /\ file' = disk))
    BY <1>4 DEF Generate
  <2>3. mem' \in Doc /\ file' \in Doc
    BY <2>0, <2>1, <2>2, ExcludeType
  <2> HIDE DEF reset, disk
  <2>4. Passes \/ (Fails /\ Head(ops) = "genpolls")
    BY <1>4, <2>2 DEF Generate, At
  <2> QED BY <1>4, <2>0, <2>3, <2>4 DEF Generate, Passes, Fails, loop
<1>5. CASE CheckOut
  <2>0. cur \in Challenges /\ Head(ops) = "checkout"
    BY <1>5, <1>c DEF CheckOut, At
  <2>1. wd' \in [Challenges -> Directory]
    BY <1>5, <2>0 DEF CheckOut, Directory
  <2>2. Passes \/ Fails
    BY <1>5 DEF CheckOut
  <2> QED BY <1>5, <2>0, <2>1, <2>2 DEF CheckOut, Passes, Fails, loop, store
<1>6. CASE Compile
  <2>0. cur \in Challenges
    BY <1>6, <1>c DEF Compile, At
  <2>1. wd' \in [Challenges -> Directory]
    BY <1>6, <2>0 DEF Compile, Directory
  <2> QED BY <1>6, <2>1 DEF Compile, Passes, store
<1>7. CASE CompileRaises
  <2>0. cur \in Challenges
    BY <1>7, <1>c DEF CompileRaises, At
  <2>1. [wd EXCEPT ![cur] = "nobin"] \in [Challenges -> Directory]
    BY <2>0 DEF Directory
  <2>2. wd' \in [Challenges -> Directory]
    BY <1>7, <2>0, <2>1, DisposeType DEF CompileRaises, Raises
  <2> QED BY <1>7, <2>2 DEF CompileRaises, Raises, loop, store
<1>8. CASE RunTests
  <2>0. cur \in Challenges
    BY <1>8, <1>c DEF RunTests, At
  <2>1. file' \in Doc /\ mem' \in Doc
    BY <1>8, <2>0 DEF RunTests, Save, Doc, store
  <2> QED BY <1>8, <2>1 DEF RunTests, loop
<1>9. CASE TestRaises
  <2>0. cur \in Challenges
    BY <1>9, <1>c DEF TestRaises, At
  <2>1. wd' \in [Challenges -> Directory]
    BY <1>9, <2>0, DisposeType DEF TestRaises, Raises
  <2> QED BY <1>9, <2>1 DEF TestRaises, Raises, loop, store
<1>10. CASE JudgeFails
  <2>0. cur \in Challenges /\ Head(ops) = "test"
    BY <1>10, <1>c DEF JudgeFails, Where
  <2>1. file' \in Doc /\ mem' \in Doc
    BY <1>10, <2>0, ExcludeType DEF JudgeFails, store
  <2> QED BY <1>10, <2>0, <2>1 DEF JudgeFails, Fails, loop
<1>11. CASE JudgePasses
  <2>0. cur \in Challenges
    BY <1>11, <1>c DEF JudgePasses
  <2>1. povs' \in [Challenges -> {"absent", "empty", "saved"}]
    BY <1>11, <2>0 DEF JudgePasses
  <2> QED BY <1>11, <2>1 DEF JudgePasses, Passes, store
<1>12. CASE JudgeRaises
  <2>0. cur \in Challenges
    BY <1>12, <1>c DEF JudgeRaises
  <2>1. wd' \in [Challenges -> Directory]
    BY <1>12, <2>0, DisposeType DEF JudgeRaises, Raises
  <2> QED BY <1>12, <2>1 DEF JudgeRaises, Raises, loop, store
<1>13. ASSUME NEW outcome \in {"passed", "failed"}, Finish(outcome),
              pc \in {"ops", "failed"},
              UNCHANGED <<opts, store, povs, results, why, others>>
       PROVE  TypeOK'
  <2>0. cur \in Challenges /\ i + 1 \in 1 .. Len(Order) + 1
    BY <1>13, <1>0, <1>c
  <2>1. wd' \in [Challenges -> Directory]
    BY <1>13, <2>0, DisposeType DEF Finish
  <2>2. verdict' \in [Challenges -> {"none", "passed", "failed"}]
    BY <1>13, <2>0 DEF Finish
  <2>3. quiet' \in BOOLEAN
    BY <1>13 DEF Finish
  <2>4. i' \in 1 .. Len(Order) + 1 /\ pc' = "next" /\ UNCHANGED n
    BY <1>13, <2>0 DEF Finish
  <2> QED BY <1>13, <2>1, <2>2, <2>3, <2>4 DEF store
<1>14. CASE AttemptPassed
  BY <1>13, <1>14 DEF AttemptPassed
<1>15. CASE AttemptFailed
  <2>1. CASE Looking /\ n < opts.lookup
    <3>1. opts.lookup \in Nat
      BY LookupType
    <3>2. Retry
      BY <1>15, <2>1 DEF AttemptFailed
    <3>3. n' \in Nat \ {0} /\ n' <= opts.lookup
      BY <2>1, <3>1, <3>2 DEF Retry
    <3>4. UNCHANGED <<opts, store, povs, results, why, others>>
      BY <1>15 DEF AttemptFailed
    <3> QED BY <3>2, <3>3, <3>4 DEF Retry, store
  <2>2. CASE ~ (Looking /\ n < opts.lookup)
    BY <1>13, <1>15, <2>2 DEF AttemptFailed
  <2> QED BY <2>1, <2>2
<1>16. CASE OtherExcludes
  BY <1>16 DEF OtherExcludes, Doc, loop
<1>17. CASE UNCHANGED vars
  BY <1>17 DEF vars, store, loop
<1> QED BY <1>1, <1>2, <1>3, <1>4, <1>5, <1>6, <1>7, <1>8, <1>9, <1>10, <1>11,
           <1>12, <1>14, <1>15, <1>16, <1>17 DEF Next, Step

-----------------------------------------------------------------------------
(* What a step does to the index, the place and the summary, in short: it  *)
(* leaves them alone or, at the end of an attempt, finishes a challenge.   *)
Stays == /\ UNCHANGED <<i, verdict>>
         /\ pc' = "done" => i > Len(Order)
         /\ pc' \in {"ops", "judge", "failed"} => i <= Len(Order)
         /\ pc' = "judge" => ops' # <<>> /\ Head(ops') = "test"
Finishes == \E outcome \in {"passed", "failed"} : i <= Len(Order) /\ Finish(outcome)

LEMMA ShapeOfStep == TypeOK /\ Where /\ [Next]_vars => Stays \/ Finishes
<1> SUFFICES ASSUME TypeOK, Where, [Next]_vars PROVE Stays \/ Finishes
  OBVIOUS
<1>0. Len(Order) \in Nat /\ i \in Nat
  BY OrderType DEF TypeOK
<1> USE DEF Where, Ended
<1>1. CASE Begin
  BY <1>1 DEF Begin, Stays
<1>2. CASE Done
  BY <1>2 DEF Done, Stays, loop
<1>3. CASE Refuse
  BY <1>3 DEF Refuse, Stays
<1>4. CASE Generate
  <2>1. Passes \/ Fails
    BY <1>4 DEF Generate
  <2> QED BY <1>4, <2>1 DEF Generate, At, Passes, Fails, Stays
<1>5. CASE CheckOut
  <2>1. Passes \/ Fails
    BY <1>5 DEF CheckOut
  <2> QED BY <1>5, <2>1 DEF CheckOut, At, Passes, Fails, Stays
<1>6. CASE Compile
  BY <1>6 DEF Compile, At, Passes, Stays
<1>7. CASE CompileRaises
  BY <1>7 DEF CompileRaises, Raises, Stays
<1>8. CASE RunTests
  BY <1>8 DEF RunTests, At, Stays, loop
<1>9. CASE TestRaises
  BY <1>9 DEF TestRaises, Raises, Stays
<1>10. CASE JudgeFails
  BY <1>10 DEF JudgeFails, Fails, Stays
<1>11. CASE JudgePasses
  BY <1>11 DEF JudgePasses, Passes, Stays
<1>12. CASE JudgeRaises
  BY <1>12 DEF JudgeRaises, Raises, Stays
<1>13. CASE AttemptPassed
  BY <1>13 DEF AttemptPassed, Finishes
<1>14. CASE AttemptFailed
  BY <1>14 DEF AttemptFailed, Retry, Stays, Finishes
<1>15. CASE OtherExcludes
  BY <1>15 DEF OtherExcludes, Stays, loop
<1>16. CASE UNCHANGED vars
  BY <1>16 DEF vars, Stays, loop
<1> QED BY <1>1, <1>2, <1>3, <1>4, <1>5, <1>6, <1>7, <1>8, <1>9, <1>10, <1>11,
           <1>12, <1>13, <1>14, <1>15, <1>16 DEF Next, Step

LEMMA WhereStep == TypeOK /\ Where /\ [Next]_vars => Where'
<1> SUFFICES ASSUME TypeOK, Where, [Next]_vars PROVE Where'
  OBVIOUS
<1>1. CASE Stays
  BY <1>1 DEF Where, Stays
<1>2. CASE Finishes
  BY <1>2 DEF Where, Finishes, Finish
<1> QED BY <1>1, <1>2, ShapeOfStep

(* Finishing judges the challenge the index leaves.                        *)
LEMMA JudgedStep == TypeOK /\ Where /\ JudgedSoFar /\ [Next]_vars => JudgedSoFar'
<1> SUFFICES ASSUME TypeOK, Where, JudgedSoFar, [Next]_vars PROVE JudgedSoFar'
  OBVIOUS
<1>1. CASE Stays
  BY <1>1 DEF JudgedSoFar, Stays
<1>2. CASE Finishes
  <2>1. PICK outcome \in {"passed", "failed"} : i <= Len(Order) /\ Finish(outcome)
    BY <1>2 DEF Finishes
  <2>2. i \in 1 .. Len(Order) /\ cur \in Challenges
    BY <2>1, CurType
  <2>3. verdict' = [verdict EXCEPT ![cur] = outcome] /\ i' = i + 1
    BY <2>1 DEF Finish
  <2>4. ASSUME NEW k \in 1 .. i PROVE verdict'[Order[k]] # "none"
    <3>1. Order[k] \in Challenges
      BY <2>2, OrderType
    <3>2. CASE Order[k] = cur
      BY <2>2, <2>3, <3>2 DEF TypeOK
    <3>3. CASE Order[k] # cur
      <4>1. k \in 1 .. i - 1
        BY <2>2, <3>3 DEF cur
      <4> QED BY <2>3, <3>1, <3>3, <4>1 DEF JudgedSoFar, TypeOK
    <3> QED BY <3>2, <3>3
  <2> QED BY <2>2, <2>3, <2>4 DEF JudgedSoFar
<1> QED BY <1>1, <1>2, ShapeOfStep

-----------------------------------------------------------------------------
(* What a step does to the working directories: only that of the current   *)
(* challenge changes, and what is raised or finished is disposed.          *)
OnlyCurrent == \A c \in Challenges : c = cur \/ wd'[c] = wd[c]
Disposes    == ~ opts.keep /\ cur \in Challenges => wd'[cur] = "none"

LEMMA DisposeShape ==
  ASSUME NEW dirs \in [Challenges -> Directory], Dispose(dirs),
         \A c \in Challenges : c = cur \/ dirs[c] = wd[c]
  PROVE  OnlyCurrent /\ Disposes
BY DEF Dispose, OnlyCurrent, Disposes

CleansUp ==
  /\ UNCHANGED opts /\ OnlyCurrent
  /\ pc' = "raised" => (pc = "raised" /\ UNCHANGED wd) \/ (pc # "raised" /\ Disposes)
  /\ Finishes => Disposes

LEMMA CleansUpStep ==
  ASSUME TypeOK, Where, [Next]_vars
  PROVE  CleansUp
<1>0. i \in Nat
  BY OrderType DEF TypeOK
<1>w. wd \in [Challenges -> Directory]
  BY DEF TypeOK
<1>f. Finishes => Disposes
  <2> SUFFICES ASSUME Finishes PROVE Disposes
    OBVIOUS
  <2> QED BY <1>w, DisposeShape DEF Finishes, Finish
<1>1. ASSUME UNCHANGED <<opts, wd>>, pc' # "raised" \/ pc = "raised" PROVE CleansUp
  BY <1>1, <1>f DEF OnlyCurrent, CleansUp
<1>2. ASSUME NEW dirs \in [Challenges -> Directory], Raises(dirs), pc # "raised",
             \A c \in Challenges : c = cur \/ dirs[c] = wd[c]
      PROVE  CleansUp
  BY <1>2, <1>f, DisposeShape DEF Raises, CleansUp
<1>3. ASSUME UNCHANGED opts, pc' # "raised", OnlyCurrent PROVE CleansUp
  BY <1>3, <1>f DEF CleansUp
<1>4. CASE Begin \/ Done \/ Refuse
  BY <1>1, <1>4 DEF Begin, Done, Refuse
<1>5. CASE Generate
  <2>1. pc' # "raised"
    BY <1>5 DEF Generate, Passes, Fails
  <2> QED BY <1>1, <1>5, <2>1 DEF Generate
<1>6. CASE CheckOut
  <2>1. pc' # "raised"
    BY <1>6 DEF CheckOut, Passes, Fails
  <2>2. OnlyCurrent
    BY <1>6, <1>w DEF CheckOut, OnlyCurrent
  <2> QED BY <1>3, <1>6, <2>1, <2>2 DEF CheckOut
<1>7. CASE Compile
  <2>1. OnlyCurrent
    BY <1>7, <1>w DEF Compile, OnlyCurrent
  <2> QED BY <1>3, <1>7, <2>1 DEF Compile, Passes
<1>8. CASE CompileRaises
  <2>1. [wd EXCEPT ![cur] = "nobin"] \in [Challenges -> Directory]
    BY <1>w DEF Directory
  <2>2. Raises([wd EXCEPT ![cur] = "nobin"]) /\ pc = "ops"
    BY <1>8 DEF CompileRaises, At
  <2> QED BY <1>2, <1>w, <2>1, <2>2
<1>9. CASE RunTests
  BY <1>1, <1>9 DEF RunTests
<1>10. CASE TestRaises
  BY <1>2, <1>w, <1>10 DEF TestRaises, At
<1>11. CASE JudgeFails
  BY <1>1, <1>11 DEF JudgeFails, Fails
<1>12. CASE JudgePasses
  BY <1>1, <1>12 DEF JudgePasses, Passes
<1>13. CASE JudgeRaises
  BY <1>2, <1>w, <1>13 DEF JudgeRaises
<1>14. CASE AttemptPassed \/ AttemptFailed
  <2>1. (\E outcome \in {"passed", "failed"} : Finish(outcome)) \/ Retry
    BY <1>14 DEF AttemptPassed, AttemptFailed
  <2>2. UNCHANGED opts
    BY <1>14 DEF AttemptPassed, AttemptFailed
  <2>3. CASE Retry
    BY <1>1, <2>2, <2>3 DEF Retry
  <2>4. CASE \E outcome \in {"passed", "failed"} : Finish(outcome)
    <3>1. OnlyCurrent /\ pc' # "raised"
      BY <2>4, <1>w, DisposeShape DEF Finish
    <3> QED BY <1>3, <2>2, <3>1
  <2> QED BY <2>1, <2>3, <2>4
<1>15. CASE OtherExcludes
  BY <1>1, <1>15 DEF OtherExcludes
<1>16. CASE UNCHANGED vars
  BY <1>1, <1>16 DEF vars
<1> QED BY <1>4, <1>5, <1>6, <1>7, <1>8, <1>9, <1>10, <1>11, <1>12, <1>13, <1>14,
           <1>15, <1>16 DEF Next, Step

(* A directory that was clean stays so, since the challenges of the list   *)
(* differ, and the one the step disposes of is clean.                      *)
LEMMA NoLitterStep == TypeOK /\ Where /\ NoLitter /\ [Next]_vars => NoLitter'
<1> SUFFICES ASSUME TypeOK, Where, NoLitter, [Next]_vars, ~ opts'.keep,
                    NEW k \in DOMAIN Order, k < i' \/ (k = i' /\ pc' = "raised")
             PROVE  wd'[Order[k]] = "none"
  BY DEF NoLitter
<1>1. CleansUp /\ (Stays \/ Finishes)
  BY CleansUpStep, ShapeOfStep
<1>2. k \in Nat /\ i \in Nat /\ Order[k] \in Challenges /\ ~ opts.keep
  BY <1>1, OrderType DEF TypeOK, CleansUp
<1>3. ASSUME k < i PROVE wd'[Order[k]] = "none"
  <2>1. wd[Order[k]] = "none"
    BY <1>2, <1>3 DEF NoLitter
  <2>2. CASE i \in DOMAIN Order
    <3>1. Order[k] # cur
      BY <1>2, <1>3, <2>2, SanityAssumption DEF cur
    <3> QED BY <1>1, <1>2, <2>1, <3>1 DEF CleansUp, OnlyCurrent
  <2>3. CASE i \notin DOMAIN Order
    <3>1. i > Len(Order) /\ pc \notin {"ops", "judge", "failed"}
      BY <1>2, <2>3, OrderType DEF Where, TypeOK
    <3>2. UNCHANGED wd
      BY <3>1 DEF Next, Step, vars, Begin, Done, Refuse, Generate, CheckOut, Compile,
                  CompileRaises, RunTests, TestRaises, JudgeFails, JudgePasses,
                  JudgeRaises, AttemptPassed, AttemptFailed, OtherExcludes, At
    <3> QED BY <2>1, <3>2
  <2> QED BY <2>2, <2>3
<1>4. ASSUME k = i PROVE wd'[Order[k]] = "none"
  <2>1. cur = Order[k] /\ cur \in Challenges
    BY <1>2, <1>4 DEF cur
  <2>2. CASE pc = "raised" /\ UNCHANGED wd
    <3>1. wd[Order[k]] = "none"
      BY <1>2, <1>4, <2>2 DEF NoLitter
    <3> QED BY <2>2, <3>1
  <2>3. CASE Disposes
    BY <1>2, <2>1, <2>3 DEF Disposes
  <2>4. k < i' => Finishes
    BY <1>1, <1>2, <1>4 DEF Stays
  <2> QED BY <1>1, <2>2, <2>3, <2>4 DEF CleansUp, Finishes, Finish, Stays
<1>5. k <= i
  BY <1>1, <1>2 DEF Stays, Finishes, Finish
<1> QED BY <1>2, <1>3, <1>4, <1>5

-----------------------------------------------------------------------------
(* The invariant of the sanity task: its types, its place, and what it has *)
(* done for the challenges it has left behind.                             *)
THEOREM InvariantHolds == Spec => []IInv
<1>1. Init => IInv
  BY InitIInv
<1>2. IInv /\ [Next]_vars => IInv'
  BY TypeStep, WhereStep, JudgedStep, NoLitterStep DEF IInv
<1> QED BY <1>1, <1>2, PTL DEF Spec

(* Every variable has its type, however often a lookup is repeated.        *)
THEOREM TypeCorrect == Spec => []TypeOK
<1>1. IInv => TypeOK
  BY DEF IInv
<1> QED BY <1>1, InvariantHolds, PTL

(* A task that gets to its end has put every challenge in its summary.     *)
THEOREM EveryChallengeIsJudged == Spec => []AllJudged
<1>1. IInv => AllJudged
  <2> SUFFICES ASSUME IInv, pc = "done", NEW c \in Challenges PROVE verdict[c] # "none"
    BY DEF AllJudged
  <2>1. PICK k \in 1 .. Len(Order) : c = Order[k]
    BY OrderType
  <2>2. k \in 1 .. i - 1
    BY <2>1, OrderType DEF IInv, TypeOK, Where
  <2> QED BY <2>1, <2>2 DEF IInv, JudgedSoFar
<1> QED BY <1>1, InvariantHolds, PTL

(* Without --keep no working directory outlives its check.                 *)
THEOREM NothingIsLeft == Spec => []NoLitter
<1>1. IInv => NoLitter
  BY DEF IInv
<1> QED BY <1>1, InvariantHolds, PTL

(* Only a challenge that passes all its tests leaves the excluded ones,    *)
(* but for those this process never saw excluded: every save writes what   *)
(* it last read.                                                           *)
THEOREM InclusionIsEarned == Spec => OnlyPassingAreIncluded
<1> DEFINE Earned == \A c \in file.excluded \ file'.excluded :
                       (c = cur /\ TestsPass(results')) \/ c \notin mem.excluded
<1>1. TypeOK /\ [Next]_vars => [Earned]_vars
  <2> SUFFICES ASSUME TypeOK, Next, NEW c \in file.excluded, c \notin file'.excluded,
                      c \in mem.excluded
               PROVE  c = cur /\ TestsPass(results')
    OBVIOUS
  <2>0. file # file' /\ file \in Doc /\ mem \in Doc
    BY DEF TypeOK
  <2>1. CASE Generate
    <3> DEFINE reset == [mem EXCEPT !.tested = @ \ {cur}]
               disk  == IF cur \in mem.tested THEN reset ELSE file
    <3>1. file' = disk \/ Exclude(disk)
      BY <2>1 DEF Generate
    <3>2. c \in disk.excluded
      BY <2>0 DEF Doc
    <3>3. disk \in Doc
      BY <2>0, ResetType
    <3> HIDE DEF disk
    <3> QED BY <3>1, <3>2, <3>3 DEF Exclude, Save, Doc
  <2>2. CASE RunTests
    BY <2>0, <2>2 DEF RunTests, Save, Includes, Doc, store
  <2>3. CASE JudgeFails
    BY <2>0, <2>3 DEF JudgeFails, Exclude, Save, Doc, store
  <2>4. CASE OtherExcludes
    BY <2>0, <2>4 DEF OtherExcludes, Doc
  <2> QED BY <2>0, <2>1, <2>2, <2>3, <2>4
             DEF Next, Step, Begin, Done, Refuse, CheckOut, Compile, CompileRaises, Raises,
                 TestRaises, JudgePasses, JudgeRaises, AttemptPassed, AttemptFailed, store
<1> QED BY <1>1, TypeCorrect, PTL DEF Spec, OnlyPassingAreIncluded

-----------------------------------------------------------------------------
(* The rest of an attempt, and what it says of the working directory.      *)
FullAttempt == <<"genpolls", "checkout", "compile", "test">>
Repetition  == <<"genpolls", "test">>
Remainders  == {FullAttempt, <<"checkout", "compile", "test">>, <<"compile", "test">>,
                Repetition, <<"test">>, <<>>}

(* The operations left are the end of a list; only a later attempt is the  *)
(* short one.                                                              *)
Attempt ==
  /\ pc \in {"ops", "judge"} => ops \in Remainders /\ (n = 1 => ops # Repetition)
  /\ pc \in {"ops", "judge", "failed"} => again \in Remainders \ {<<"test">>, <<>>}

(* Without a binary no test passes; the first attempt has compiled before  *)
(* it tests.                                                               *)
Tested ==
  /\ pc \in {"ops", "judge"} /\ n = 1 /\ ops \in {<<"test">>, <<>>} => wd[cur] \in {"made", "nobin"}
  /\ pc = "judge" => wd[cur] \in {"nobin", "made", "old"}
  /\ pc = "judge" /\ results # <<>> /\ ~ Bad(results) => wd[cur] # "nobin"
  /\ PassedOnABinary

LEMMA OpsFacts ==
  /\ AllOps \in {FullAttempt, <<"checkout", "compile", "test">>}
  /\ FullAttempt # Repetition /\ <<"checkout", "compile", "test">> # Repetition
  /\ <<"compile", "test">> # Repetition /\ <<"test">> # Repetition /\ <<>> # Repetition
<1> DEFINE g == <<"genpolls">>
           r == <<"checkout", "compile", "test">>
           S == {"genpolls", "checkout", "compile", "test"}
<1>1. g \in Seq(S) /\ r \in Seq(S) /\ FullAttempt \in Seq(S)
      /\ Len(g) = 1 /\ Len(r) = 3 /\ Len(FullAttempt) = 4
  BY DEF FullAttempt
<1>2. /\ g \o r \in Seq(S) /\ Len(g \o r) = 4
      /\ \A k \in 1 .. 4 : (g \o r)[k] = FullAttempt[k]
  BY <1>1, ConcatProperties DEF FullAttempt
<1>3. g \o r = FullAttempt
  BY <1>1, <1>2, SeqEqual
<1>4. <<>> \o r = r
  BY <1>1, ConcatEmptySeq
<1> QED BY <1>3, <1>4 DEF AllOps, FullAttempt, Repetition

(* What is left after an operation.                                        *)
LEMMA TailFacts ==
  ASSUME ops \in Remainders
  PROVE  /\ ops # <<>> => Tail(ops) \in Remainders \ {Repetition}
         /\ ops # <<>> /\ Head(ops) # "test" => Tail(ops) # <<>>
         /\ ops # <<>> /\ Head(ops) = "test" => ops = <<"test">> /\ Tail(ops) = <<>>
         /\ ops # <<>> /\ Tail(ops) = <<"test">> => ops \in {Repetition, <<"compile", "test">>}
         /\ ops = Repetition => Head(ops) = "genpolls"
         /\ ops = <<"compile", "test">> => Head(ops) = "compile"
<1>1. CASE ops = FullAttempt
  BY <1>1 DEF Remainders, FullAttempt, Repetition
<1>2. CASE ops = <<"checkout", "compile", "test">>
  BY <1>2 DEF Remainders, FullAttempt, Repetition
<1>3. CASE ops = <<"compile", "test">>
  BY <1>3 DEF Remainders, FullAttempt, Repetition
<1>4. CASE ops = Repetition
  BY <1>4 DEF Remainders, FullAttempt, Repetition
<1>5. CASE ops = <<"test">>
  BY <1>5 DEF Remainders, FullAttempt, Repetition
<1>6. CASE ops = <<>>
  BY <1>6 DEF Remainders, FullAttempt, Repetition
<1> QED BY <1>1, <1>2, <1>3, <1>4, <1>5, <1>6 DEF Remainders

(* A test that cannot be run fails the check, inverted or not.             *)
LEMMA MuteFails ==
  ASSUME NEW t, t.file = FALSE, NEW regs
  PROVE  SanityFails(PollRun(t)) /\ SanityFails(PovRun(t, regs))
<1>1. SanityFails(PollRun(t))
  BY DEF PollRun, TestResult, Totals, PollResult, SanityFails
<1>2. TestResult(t, Totals(t, TRUE, TRUE, regs, "none"), TRUE) \in [passed : {0}, code : {1, 3}]
  BY DEF TestResult, Totals, PovResult, NotNegotiated
<1>3. ASSUME NEW r \in [passed : {0}, code : {1, 3}] PROVE SanityFails(Inverted(r, TRUE, TRUE))
  BY DEF SanityFails, Inverted
<1> QED BY <1>1, <1>2, <1>3 DEF PovRun

LEMMA ResultType ==
  ASSUME NEW t, NEW regs
  PROVE  PollRun(t).passed \in {0, 1} /\ PovRun(t, regs).passed \in {0, 1}
<1> DEFINE polls == Totals(t, FALSE, FALSE, FALSE, "none")
           povtotals == Totals(t, TRUE, TRUE, regs, "none")
<1>1. PICK p, q : p = polls /\ q = povtotals /\ p.passed \in {0, 1} /\ q.passed \in {0, 1}
  <2>1. polls.passed \in {0, 1} /\ povtotals.passed \in {0, 1}
    BY DEF Totals
  <2> QED BY <2>1, Zenon
<1> HIDE DEF polls, povtotals
<1>2. /\ TestResult(t, p, FALSE) \in [passed : {0, 1}, code : Int]
      /\ TestResult(t, q, TRUE) \in [passed : {0, 1}, code : Int]
  BY <1>1 DEF TestResult, PovResult, PollResult
<1>3. /\ TestResult(t, polls, FALSE) \in [passed : {0, 1}, code : Int]
      /\ TestResult(t, povtotals, TRUE) \in [passed : {0, 1}, code : Int]
  BY <1>1, <1>2, Zenon
<1>4. ASSUME NEW r \in [passed : {0, 1}, code : Int] PROVE Inverted(r, TRUE, TRUE).passed \in {0, 1}
  BY DEF Inverted
<1> QED BY <1>3, <1>4 DEF PollRun, PovRun, polls, povtotals

(* The results of a run of some tests of a suite: each is a result of its  *)
(* kind, and without a binary each is bad.                                 *)
LEMMA RunsFacts ==
  ASSUME NEW suite \in Suites, NEW rs \in RunsOf(suite)
  PROVE  /\ \A k \in DOMAIN rs : rs[k].passed \in {0, 1}
         /\ wd[cur] = "nobin" => \A k \in DOMAIN rs : SanityFails(rs[k])
         /\ rs # <<>> => DOMAIN rs # {}
<1>1. PICK m \in 0 .. Len(suite) : DOMAIN rs = 1 .. m /\ \A k \in 1 .. m : rs[k] \in ResultsOf(suite[k])
  BY DEF RunsOf
<1>2. ASSUME NEW test, NEW r \in ResultsOf(test)
      PROVE  r.passed \in {0, 1} /\ (wd[cur] = "nobin" => SanityFails(r))
  <2>1. \/ \E t \in Prints(PollTexts) : r = PollRun(t)
        \/ \E t \in Prints(PovTexts), regs \in BOOLEAN : r = PovRun(t, regs)
    BY <1>2 DEF ResultsOf
  <2>2. wd[cur] = "nobin" => \A texts, t : t \in Prints(texts) => t.file = FALSE
    BY DEF Prints
  <2> QED BY <2>1, <2>2, MuteFails, ResultType
<1>3. rs # <<>> => DOMAIN rs # {}
  <2> SUFFICES ASSUME DOMAIN rs = {} PROVE rs = <<>>
    OBVIOUS
  <2>1. PICK S : rs \in [1 .. m -> S]
    BY <1>1 DEF RunsOf
  <2>2. m = 0
    BY <1>1, SanityAssumption
  <2>3. rs \in Seq(S) /\ Len(rs) = 0 /\ <<>> \in Seq(S) /\ Len(<<>>) = 0
    BY <2>1, <2>2
  <2> QED BY <2>3, SeqEqual
<1> QED BY <1>1, <1>2, <1>3

LEMMA AttemptStep ==
  ASSUME TypeOK, Where, Attempt, [Next]_vars
  PROVE  Attempt'
<1> USE DEF Attempt, Ended
<1>r. Repetition \in Remainders \ {<<"test">>, <<>>}
  BY OpsFacts DEF Remainders, Repetition
<1>a. AllOps \in Remainders \ {<<"test">>, <<>>, Repetition}
  BY OpsFacts DEF Remainders, FullAttempt, Repetition
<1>1. CASE Begin
  BY <1>1, <1>a DEF Begin
<1>2. ASSUME Passes, ops # <<>>, pc \in {"ops", "judge"} PROVE Attempt'
  <2>1. again' = IF Looking THEN Repetition ELSE again
    BY <1>2 DEF Passes, Repetition
  <2> QED BY <1>2, <1>r, <2>1, TailFacts DEF Passes
<1>3. ASSUME Fails, pc \in {"ops", "judge"} PROVE Attempt'
  BY <1>3 DEF Fails, loop
<1>4. CASE Done \/ Refuse
  BY <1>4 DEF Done, Refuse
<1>5. CASE Generate
  BY <1>2, <1>3, <1>5 DEF Generate, At
<1>6. CASE CheckOut
  BY <1>2, <1>3, <1>6 DEF CheckOut, At
<1>7. CASE Compile
  BY <1>2, <1>7 DEF Compile, At
<1>8. CASE CompileRaises \/ TestRaises \/ JudgeRaises
  BY <1>8 DEF CompileRaises, TestRaises, JudgeRaises, Raises
<1>9. CASE RunTests
  BY <1>9 DEF RunTests, At, loop
<1>10. CASE JudgeFails
  BY <1>3, <1>10 DEF JudgeFails
<1>11. CASE JudgePasses
  BY <1>2, <1>11 DEF JudgePasses, Where
<1>12. CASE AttemptPassed
  BY <1>12 DEF AttemptPassed, Finish
<1>13. CASE AttemptFailed
  BY <1>13 DEF AttemptFailed, Finish, Retry, TypeOK
<1>14. CASE OtherExcludes
  BY <1>14 DEF OtherExcludes, loop
<1>15. CASE UNCHANGED vars
  BY <1>15 DEF vars, loop
<1> QED BY <1>1, <1>4, <1>5, <1>6, <1>7, <1>8, <1>9, <1>10, <1>11, <1>12, <1>13,
           <1>14, <1>15 DEF Next, Step

LEMMA TestedStep ==
  ASSUME TypeOK, Where, Attempt, Tested, [Next]_vars
  PROVE  Tested'
<1> USE DEF Tested, PassedOnABinary, Ended
<1>c. pc \in {"ops", "judge", "failed"} => cur \in Challenges
  BY CurType DEF Where
<1>n. n \in Nat \ {0} /\ wd \in [Challenges -> Directory]
  BY DEF TypeOK
<1>r. again \notin {<<"test">>, <<>>} \/ pc \notin {"ops", "judge", "failed"}
  BY DEF Attempt
<1>1. CASE Begin
  <2>1. AllOps \notin {<<"test">>, <<>>}
    BY OpsFacts DEF FullAttempt
  <2> QED BY <1>1, <2>1 DEF Begin
<1>2. ASSUME NEW op \in {"genpolls", "checkout"}, At(op), Passes PROVE Tested'
  <2>1. Tail(ops) # <<>> /\ (Tail(ops) = <<"test">> => ops = Repetition)
    BY <1>2, TailFacts DEF Attempt, At
  <2> QED BY <1>2, <2>1 DEF Passes, Attempt, At
<1>3. ASSUME Fails PROVE Tested'
  BY <1>3 DEF Fails, loop
<1>4. CASE Done \/ Refuse
  BY <1>4 DEF Done, Refuse
<1>5. CASE Generate
  BY <1>2, <1>3, <1>5 DEF Generate
<1>6. CASE CheckOut
  BY <1>2, <1>3, <1>6 DEF CheckOut
<1>7. CASE Compile
  <2>1. Tail(ops) # <<>>
    BY <1>7, TailFacts DEF Attempt, Compile, At
  <2>2. wd'[cur'] \in {"made", "nobin"} /\ pc' = "ops" /\ ops' # <<>>
    BY <1>7, <1>c, <1>n, <2>1 DEF Compile, At, Passes, cur
  <2> QED BY <2>2
<1>8. CASE CompileRaises \/ TestRaises \/ JudgeRaises
  BY <1>8 DEF CompileRaises, TestRaises, JudgeRaises, Raises
<1>9. CASE RunTests
  <2>1. pc' = "judge" /\ UNCHANGED <<loop, wd, i>> /\ wd[cur] \in {"nobin", "made", "old"}
    BY <1>9 DEF RunTests
  <2>2. wd[cur] = "nobin" /\ results' # <<>> => Bad(results')
    BY <1>9, RunsFacts DEF RunTests, Bad
  <2> QED BY <1>9, <2>1, <2>2 DEF RunTests, At, loop, cur, Bad
<1>10. CASE JudgeFails
  BY <1>3, <1>10 DEF JudgeFails
<1>11. CASE JudgePasses
  <2>1. ops = <<"test">> /\ Tail(ops) = <<>>
    BY <1>11, TailFacts DEF Attempt, JudgePasses, Where
  <2>2. wd[cur] \in {"made", "old"} /\ (n = 1 => wd[cur] = "made")
    BY <1>11, <2>1 DEF JudgePasses
  <2> QED BY <1>11, <1>n, <2>1, <2>2 DEF JudgePasses, Passes, cur
<1>12. CASE AttemptPassed
  BY <1>12 DEF AttemptPassed, Finish
<1>13. CASE AttemptFailed
  BY <1>13, <1>n, <1>r DEF AttemptFailed, Finish, Retry
<1>14. CASE OtherExcludes
  BY <1>14 DEF OtherExcludes, loop, cur
<1>15. CASE UNCHANGED vars
  BY <1>15 DEF vars, loop, cur
<1> QED BY <1>1, <1>4, <1>5, <1>6, <1>7, <1>8, <1>9, <1>10, <1>11, <1>12, <1>13,
           <1>14, <1>15 DEF Next, Step

(* A challenge passes only when this run, or for a repeated lookup an      *)
(* earlier one, has left a binary the tests ran on.                        *)
THEOREM PassesOnABinary == Spec => []PassedOnABinary
<1> DEFINE Inv == IInv /\ Attempt /\ Tested
<1>1. Init => Inv
  BY InitIInv DEF Init, Attempt, Tested, PassedOnABinary
<1>2. Inv /\ [Next]_vars => Inv'
  BY TypeStep, WhereStep, JudgedStep, NoLitterStep, AttemptStep, TestedStep DEF IInv
<1>3. Inv => PassedOnABinary
  BY DEF Tested
<1> QED BY <1>1, <1>2, <1>3, PTL DEF Spec

-----------------------------------------------------------------------------
(* The summary and the metadata.  "quiet" counts the attempts of a lookup: *)
(* it is unset before the last one, unless the first is the last.          *)
Counted == ~ (opts.genpolls /\ opts.lookup = 1)

Counting ==
  /\ pc = "next" => quiet = (opts.lookup > 0)
  /\ pc \in {"ops", "judge", "failed"} /\ opts.genpolls /\ opts.lookup # 1
     => quiet = (n < opts.lookup)

LastAttempt == ~ (Looking /\ n < opts.lookup)

(* The challenges from the index on are not judged yet.                    *)
Ahead == \A k \in DOMAIN Order : i <= k => verdict[Order[k]] = "none"

(* A challenge is excluded, in both copies of the metadata, or not, unless *)
(* another command did that.                                               *)
In(c)  == c \in mem.excluded /\ c \in file.excluded
Out(c) == c \notin mem.excluded \ others /\ c \notin file.excluded \ others

(* What the summary will say of the current challenge.                     *)
Passing == \/ pc = "judge" /\ results # <<>> /\ ~ Bad(results)
           \/ pc = "ops" /\ ops = <<>>
Failing == pc = "failed" /\ why[cur] \in {"genpolls", "test"} /\ LastAttempt

Settled ==
  opts.persistent =>
    /\ \A c \in Challenges :
         /\ verdict[c] = "passed" => Out(c)
         /\ verdict[c] = "failed" /\ why[c] \in {"genpolls", "test"} /\ Counted => In(c)
    /\ Passing => Out(cur)
    /\ Failing /\ Counted => In(cur)

LEMMA CountingStep ==
  ASSUME TypeOK, Where, Counting, [Next]_vars
  PROVE  Counting'
<1> USE DEF Counting, Ended
<1>n. opts.lookup \in Nat /\ n \in Nat \ {0} /\ quiet \in BOOLEAN
  BY LookupType DEF TypeOK
<1>1. CASE Begin
  BY <1>1, <1>n DEF Begin
<1>2. ASSUME Passes \/ Fails, UNCHANGED opts, pc \in {"ops", "judge"} PROVE Counting'
  BY <1>2 DEF Passes, Fails, loop
<1>3. CASE Done \/ Refuse
  BY <1>3 DEF Done, Refuse
<1>4. CASE Generate \/ CheckOut \/ Compile
  BY <1>2, <1>4 DEF Generate, CheckOut, Compile, At
<1>5. CASE CompileRaises \/ TestRaises \/ JudgeRaises
  BY <1>5 DEF CompileRaises, TestRaises, JudgeRaises, Raises
<1>6. CASE RunTests
  BY <1>6 DEF RunTests, At, loop
<1>7. CASE JudgeFails \/ JudgePasses
  BY <1>2, <1>7 DEF JudgeFails, JudgePasses
<1>8. ASSUME NEW outcome, Finish(outcome), UNCHANGED opts PROVE Counting'
  BY <1>8 DEF Finish
<1>9. CASE AttemptPassed
  BY <1>8, <1>9 DEF AttemptPassed
<1>10. CASE AttemptFailed
  <2>1. CASE Looking /\ n < opts.lookup
    <3>1. pc = "failed" /\ UNCHANGED opts /\ Retry
      BY <1>10, <2>1 DEF AttemptFailed
    <3>2. opts.lookup # 1 => quiet = TRUE
      BY <2>1, <3>1 DEF Looking
    <3>3. n' = n + 1 /\ pc' = "ops" /\ quiet' = (quiet /\ n # opts.lookup - 1)
      BY <3>1 DEF Retry
    <3> QED BY <1>n, <2>1, <3>1, <3>2, <3>3
  <2>2. CASE ~ (Looking /\ n < opts.lookup)
    BY <1>8, <1>10, <2>2 DEF AttemptFailed
  <2> QED BY <2>1, <2>2
<1>11. CASE OtherExcludes
  BY <1>11 DEF OtherExcludes, loop
<1>12. CASE UNCHANGED vars
  BY <1>12 DEF vars, loop
<1> QED BY <1>1, <1>3, <1>4, <1>5, <1>6, <1>7, <1>9, <1>10, <1>11, <1>12 DEF Next, Step

LEMMA AheadStep ==
  ASSUME TypeOK, Where, Ahead, [Next]_vars
  PROVE  Ahead'
<1> SUFFICES ASSUME NEW k \in DOMAIN Order, i' <= k PROVE verdict'[Order[k]] = "none"
  BY DEF Ahead
<1>1. CASE Stays
  BY <1>1 DEF Ahead, Stays
<1>2. CASE Finishes
  <2>1. PICK outcome \in {"passed", "failed"} : i <= Len(Order) /\ Finish(outcome)
    BY <1>2 DEF Finishes
  <2>2. i \in DOMAIN Order /\ k \in Nat /\ i' = i + 1 /\ verdict' = [verdict EXCEPT ![cur] = outcome]
    BY <2>1, CurType, OrderType DEF Finish
  <2>3. i <= k /\ i # k
    BY <2>2, OrderType
  <2>4. Order[k] # cur /\ Order[k] \in Challenges
    BY <2>2, <2>3, SanityAssumption, OrderType DEF cur
  <2> QED BY <2>2, <2>3, <2>4 DEF Ahead, TypeOK
<1> QED BY <1>1, <1>2, ShapeOfStep

(* What a step does to the metadata: of the excluded ones only the current *)
(* challenge enters or leaves, but for those another command excludes.     *)
Keeps(c) == /\ (Out(c) => Out(c)') /\ (In(c) => In(c)')
            /\ why'[c] = why[c]

(* The current challenge is not at an operation.                           *)
Spared(c) == c # cur \/ pc \notin {"ops", "judge"}

LEMMA OthersKeep ==
  ASSUME TypeOK, OtherExcludes, NEW c \in Challenges
  PROVE  Keeps(c)
<1>1. PICK d \in Challenges : file' = [file EXCEPT !.excluded = @ \cup {d}]
                               /\ others' = others \cup {d}
  BY DEF OtherExcludes
<1>2. file'.excluded = file.excluded \cup {d} /\ UNCHANGED <<mem, why>>
  BY <1>1 DEF OtherExcludes, TypeOK, Doc
<1> QED BY <1>1, <1>2 DEF Keeps, In, Out

LEMMA StoreKeeps ==
  ASSUME TypeOK, Where, [Next]_vars, NEW c \in Challenges, Spared(c)
  PROVE  Keeps(c)
<1> USE DEF Keeps, In, Out, Spared
<1>c. pc \in {"ops", "judge", "failed"} => cur \in Challenges
  BY CurType DEF Where
<1>t. file \in Doc /\ mem \in Doc /\ why \in [Challenges -> {"none", "genpolls", "checkout", "test"}]
  BY DEF TypeOK
<1>1. ASSUME UNCHANGED <<store, why, others>> PROVE Keeps(c)
  BY <1>1 DEF store
<1>2. ASSUME c # cur, Passes \/ Fails PROVE why'[c] = why[c]
  BY <1>2, <1>t DEF Passes, Fails
<1>3. ASSUME NEW disk \in Doc, disk.excluded = file.excluded, Exclude(disk), c # cur
      PROVE  file'.excluded \subseteq file.excluded \cup {cur}
             /\ mem'.excluded = file'.excluded
             /\ file.excluded \subseteq file'.excluded
  BY <1>3 DEF Exclude, Save, Doc
<1>4. CASE Begin \/ Done \/ Refuse \/ CompileRaises \/ TestRaises \/ JudgeRaises
           \/ AttemptPassed \/ AttemptFailed \/ UNCHANGED vars
  BY <1>1, <1>4 DEF Begin, Done, Refuse, CompileRaises, TestRaises, JudgeRaises, Raises,
                   AttemptPassed, AttemptFailed, vars
<1>5. CASE Generate
  <2> DEFINE reset == [mem EXCEPT !.tested = @ \ {cur}]
             disk  == IF cur \in mem.tested THEN reset ELSE file
  <2>1. c # cur /\ UNCHANGED others
    BY <1>5 DEF Generate, At
  <2>2. reset \in Doc /\ reset.excluded = mem.excluded /\ disk \in Doc
        /\ disk.excluded \in {mem.excluded, file.excluded}
    BY <1>t, ResetType DEF Doc
  <2>3. (Passes \/ Fails) /\ (Exclude(disk) \/ (mem' = reset /\ file' = disk))
    BY <1>5 DEF Generate
  <2> HIDE DEF reset, disk
  <2>4. Exclude(disk) => mem'.excluded = disk.excluded \cup {cur}
                         /\ file'.excluded = disk.excluded \cup {cur}
    BY <2>2 DEF Exclude, Save, Doc
  <2> QED BY <1>2, <2>1, <2>2, <2>3, <2>4
<1>6. CASE CheckOut \/ Compile \/ JudgePasses
  <2>1. c # cur /\ (Passes \/ Fails) /\ UNCHANGED <<store, others>>
    BY <1>6 DEF CheckOut, Compile, JudgePasses, At
  <2> QED BY <1>2, <2>1 DEF store
<1>7. CASE RunTests
  <2>1. c # cur /\ UNCHANGED <<why, others>>
    BY <1>7 DEF RunTests, At
  <2>2. UNCHANGED store \/ (/\ mem' = file'
                            /\ mem'.excluded \in {mem.excluded, mem.excluded \ {cur}})
    <3> DEFINE doc == [excluded |-> mem.excluded \ IF Includes(results') THEN {cur} ELSE {},
                       tested   |-> mem.tested \cup IF results' = <<>> THEN {} ELSE {cur}]
    <3>1. doc.excluded \in {mem.excluded, mem.excluded \ {cur}}
      OBVIOUS
    <3>2. UNCHANGED store \/ (mem' = doc /\ file' = doc)
      BY <1>7 DEF RunTests, Save
    <3> HIDE DEF doc
    <3> QED BY <3>1, <3>2
  <2> QED BY <2>1, <2>2 DEF store
<1>8. CASE JudgeFails
  <2>1. c # cur /\ Fails /\ UNCHANGED others
    BY <1>8 DEF JudgeFails
  <2>2. UNCHANGED store \/ Exclude(file)
    BY <1>8 DEF JudgeFails
  <2> QED BY <1>2, <1>3, <1>t, <2>1, <2>2 DEF store
<1>9. CASE OtherExcludes
  BY <1>9, OthersKeep
<1> QED BY <1>4, <1>5, <1>6, <1>7, <1>8, <1>9 DEF Next, Step

(* The challenges judged before keep what the summary says of them.        *)
LEMMA JudgedKeep ==
  ASSUME TypeOK, Where, Ahead, [Next]_vars, NEW c \in Challenges, verdict[c] # "none"
  PROVE  Keeps(c) /\ (i <= Len(Order) => c # cur)
<1>1. i <= Len(Order) => c # cur
  BY CurType, OrderType DEF Ahead, cur
<1>2. Spared(c)
  BY <1>1 DEF Where, Spared
<1> QED BY <1>1, <1>2, StoreKeeps

(* The operations that pass without ending the attempt.                    *)
LEMMA NotPassing ==
  ASSUME Attempt, NEW op \in {"genpolls", "checkout", "compile"}, At(op), Passes
  PROVE  ~ Passing'
<1>1. Tail(ops) # <<>>
  BY TailFacts DEF Attempt, At
<1> QED BY <1>1 DEF Passes, Passing

LEMMA PassingStep ==
  ASSUME TypeOK, Where, Attempt, Settled, [Next]_vars, opts.persistent, Passing'
  PROVE  Out(cur)'
<1> USE DEF Passing, Ended
<1>c. pc \in {"ops", "judge", "failed"} => cur \in Challenges
  BY CurType DEF Where
<1>1. CASE Begin
  <2>1. AllOps # <<>>
    BY OpsFacts DEF FullAttempt
  <2> QED BY <1>1, <2>1 DEF Begin
<1>2. CASE Done \/ Refuse
  BY <1>2 DEF Done, Refuse
<1>3. CASE Generate \/ CheckOut \/ Compile \/ JudgeFails
  BY <1>3, NotPassing DEF Generate, CheckOut, Compile, JudgeFails, Fails
<1>4. CASE CompileRaises \/ TestRaises \/ JudgeRaises
  BY <1>4 DEF CompileRaises, TestRaises, JudgeRaises, Raises
<1>5. CASE RunTests
  <2>1. pc' = "judge" /\ results' # <<>> /\ ~ Bad(results') /\ UNCHANGED <<i, others, opts>>
    BY <1>5, <1>c DEF RunTests, Bad
  <2>2. TestsPass(results')
    BY <1>5, <2>1, RunsFacts DEF RunTests, Bad, SanityFails, TestsPass
  <2>3. cur \in mem.excluded => Includes(results')
    BY <1>5, <2>1, <2>2 DEF RunTests, At, Refused, Includes
  <2>4. file'.excluded = mem'.excluded /\ cur \notin mem'.excluded
    <3> DEFINE doc == [excluded |-> mem.excluded \ IF Includes(results') THEN {cur} ELSE {},
                       tested   |-> mem.tested \cup IF results' = <<>> THEN {} ELSE {cur}]
    <3>1. cur \notin doc.excluded
      BY <2>3
    <3>2. mem' = doc /\ file' = doc
      BY <1>5, <2>1 DEF RunTests, Save
    <3> HIDE DEF doc
    <3> QED BY <3>1, <3>2
  <2> QED BY <2>1, <2>4 DEF Out, cur
<1>6. CASE JudgePasses
  BY <1>6 DEF JudgePasses, Settled, Out, cur, store
<1>7. CASE AttemptPassed
  BY <1>7 DEF AttemptPassed, Finish
<1>8. CASE AttemptFailed
  BY <1>8 DEF AttemptFailed, Finish, Retry, Attempt
<1>9. CASE OtherExcludes
  <2>1. pc \in {"ops", "judge"} /\ UNCHANGED <<pc, ops, results, i>>
    BY <1>9 DEF OtherExcludes, loop
  <2>2. PICK c \in Challenges : c = cur
    BY <1>c, <2>1
  <2>3. Out(cur) /\ Keeps(c)
    BY <1>9, <2>1, OthersKeep DEF Settled, Bad
  <2> QED BY <2>1, <2>2, <2>3 DEF Keeps, Out, cur
<1>10. CASE UNCHANGED vars
  BY <1>10 DEF vars, loop, store, Settled, Out, cur, Bad
<1> QED BY <1>1, <1>2, <1>3, <1>4, <1>5, <1>6, <1>7, <1>8, <1>9, <1>10 DEF Next, Step

(* On the last attempt of a lookup that counts, a failure excludes.        *)
LEMMA LastExcludes ==
  ASSUME TypeOK, Counting, pc \in {"ops", "judge"}, opts.persistent, Counted, LastAttempt
  PROVE  Excludes
<1>1. opts.lookup \in Nat /\ n \in Nat
  BY LookupType DEF TypeOK
<1>2. ASSUME opts.genpolls PROVE ~ quiet
  <2>1. quiet = (n < opts.lookup)
    BY <1>2 DEF Counting, Counted
  <2>2. ~ (n < opts.lookup)
    BY <1>1, <1>2 DEF LastAttempt, Looking
  <2> QED BY <2>1, <2>2, Zenon
<1> QED BY <1>2 DEF Excludes

LEMMA FailingStep ==
  ASSUME TypeOK, Where, Counting, Settled, [Next]_vars, opts.persistent,
         Counted', Failing'
  PROVE  In(cur)'
<1> USE DEF Failing, Ended
<1>c. pc \in {"ops", "judge", "failed"} => cur \in Challenges
  BY CurType DEF Where
<1>1. ASSUME Fails, UNCHANGED opts, pc \in {"ops", "judge"} PROVE Excludes
  <2>1. LastAttempt /\ Counted
    BY <1>1 DEF Fails, loop, LastAttempt, Looking, Counted
  <2> QED BY <1>1, <2>1, LastExcludes
<1>2. ASSUME NEW disk \in Doc, Exclude(disk), UNCHANGED i PROVE In(cur)'
  BY <1>2 DEF Exclude, Save, Doc, In, cur
<1>3. CASE Generate
  <2> DEFINE disk == IF cur \in mem.tested THEN [mem EXCEPT !.tested = @ \ {cur}] ELSE file
  <2>1. Fails /\ pc = "ops" /\ UNCHANGED <<opts, i>>
    BY <1>3 DEF Generate, At, Passes
  <2>2. Excludes
    BY <1>1, <2>1
  <2>3. disk \in Doc
    BY ResetType DEF TypeOK
  <2>4. Exclude(disk)
    BY <1>3, <2>1, <2>2 DEF Generate, Passes
  <2> HIDE DEF disk
  <2> QED BY <1>2, <2>1, <2>3, <2>4
<1>4. CASE CheckOut
  <2>1. Fails => why'[cur'] = "checkout"
    BY <1>4, <1>c DEF CheckOut, At, Fails, TypeOK, cur
  <2> QED BY <1>4, <2>1 DEF CheckOut, Passes
<1>5. CASE JudgeFails
  <2>1. Fails /\ pc = "judge" /\ UNCHANGED <<opts, i>>
    BY <1>5 DEF JudgeFails
  <2>2. Excludes
    BY <1>1, <2>1
  <2>3. Exclude(file)
    BY <1>5, <2>2 DEF JudgeFails
  <2> QED BY <1>2, <2>1, <2>3 DEF TypeOK
<1>6. CASE OtherExcludes
  <2>1. pc = "failed" /\ UNCHANGED <<pc, n, opts, i, why>>
    BY <1>6 DEF OtherExcludes, loop
  <2>2. Failing /\ Counted
    BY <2>1 DEF LastAttempt, Looking, Counted, cur
  <2>3. PICK c \in Challenges : c = cur
    BY <1>c, <2>1
  <2>4. In(cur) /\ Keeps(c)
    BY <1>6, <2>2, OthersKeep DEF Settled
  <2> QED BY <2>1, <2>3, <2>4 DEF Keeps, In, cur
<1>7. CASE UNCHANGED vars
  <2>1. Failing /\ Counted
    BY <1>7 DEF vars, loop, LastAttempt, Looking, Counted, cur
  <2> QED BY <1>7, <2>1 DEF vars, store, Settled, In, cur
<1>8. CASE Begin \/ Done \/ Refuse \/ Compile \/ CompileRaises \/ RunTests \/ TestRaises
           \/ JudgePasses \/ JudgeRaises \/ AttemptPassed \/ AttemptFailed
  BY <1>8 DEF Begin, Done, Refuse, Compile, CompileRaises, RunTests, TestRaises, JudgePasses,
              JudgeRaises, AttemptPassed, AttemptFailed, Passes, Raises, Finish, Retry
<1> QED BY <1>3, <1>4, <1>5, <1>6, <1>7, <1>8 DEF Next, Step

LEMMA SettledStep ==
  ASSUME TypeOK, Where, Attempt, Counting, Ahead, Settled, [Next]_vars
  PROVE  Settled'
<1> SUFFICES ASSUME opts'.persistent PROVE Settled'
  BY DEF Settled
<1>1. UNCHANGED opts
  BY CleansUpStep DEF CleansUp
<1>2. Counted' = Counted /\ LastAttempt \in BOOLEAN
  BY <1>1 DEF Counted, LastAttempt
<1>3. Passing' => Out(cur)'
  BY <1>1, PassingStep
<1>4. Failing' /\ Counted' => In(cur)'
  BY <1>1, FailingStep
<1>5. ASSUME NEW c \in Challenges
      PROVE  /\ verdict'[c] = "passed" => Out(c)'
             /\ verdict'[c] = "failed" /\ why'[c] \in {"genpolls", "test"} /\ Counted' => In(c)'
  <2>1. CASE verdict'[c] = verdict[c]
    <3>1. verdict[c] # "none" => Keeps(c)
      BY JudgedKeep
    <3> QED BY <1>1, <1>2, <2>1, <3>1 DEF Settled, Keeps
  <2>2. CASE verdict'[c] # verdict[c]
    <3>1. AttemptPassed \/ AttemptFailed
      BY <2>2 DEF Next, Step, vars, Begin, Done, Refuse, Generate, CheckOut, Compile,
                  CompileRaises, RunTests, TestRaises, JudgeFails, JudgePasses,
                  JudgeRaises, Raises, OtherExcludes
    <3>2. UNCHANGED <<file, mem, why, others>>
      BY <3>1 DEF AttemptPassed, AttemptFailed, store
    <3>3. CASE AttemptPassed
      <4>1. verdict' = [verdict EXCEPT ![cur] = "passed"] /\ Passing
        BY <3>3 DEF AttemptPassed, Finish, Passing
      <4>2. c = cur /\ verdict'[c] = "passed"
        BY <2>2, <4>1 DEF TypeOK
      <4> QED BY <1>1, <3>2, <4>1, <4>2 DEF Settled, Out
    <3>4. CASE AttemptFailed
      <4>1. ~ (Looking /\ n < opts.lookup) /\ Finish("failed")
        BY <2>2, <3>4 DEF AttemptFailed, Retry
      <4>2. c = cur /\ verdict'[c] = "failed"
        BY <2>2, <4>1 DEF TypeOK, Finish
      <4>3. why[cur] \in {"genpolls", "test"} => Failing
        BY <3>4, <4>1 DEF AttemptFailed, Failing, LastAttempt
      <4> QED BY <1>1, <1>2, <3>2, <4>2, <4>3 DEF Settled, In
    <3> QED BY <3>1, <3>3, <3>4
  <2> QED BY <2>1, <2>2
<1> QED BY <1>3, <1>4, <1>5 DEF Settled

(* The summary of a --persistent run and the metadata it leaves agree, at  *)
(* every moment and whatever another command excludes meanwhile.           *)
THEOREM SummaryIsSaved == Spec => []SummaryAgrees
<1> DEFINE Inv == IInv /\ Attempt /\ Counting /\ Ahead /\ Settled
<1>1. Init => Inv
  <2> SUFFICES ASSUME Init PROVE Attempt /\ Counting /\ Ahead /\ Settled
    BY InitIInv
  <2>1. Ahead
    BY OrderType DEF Init, Ahead
  <2> QED BY <2>1 DEF Init, Attempt, Counting, Settled, Passing, Failing
<1>2. Inv /\ [Next]_vars => Inv'
  BY TypeStep, WhereStep, JudgedStep, NoLitterStep, AttemptStep, CountingStep, AheadStep,
     SettledStep DEF IInv
<1>3. Inv => SummaryAgrees
  BY DEF Settled, SummaryAgrees, In, Out, Counted
<1> QED BY <1>1, <1>2, <1>3, PTL DEF Spec

-----------------------------------------------------------------------------
(***************************************************************************)
(* The replay of one POV, for every number of challenges, every set of     *)
(* return codes and of types: every crash is reported before the end, and  *)
(* the verdict is what the POV did.                                        *)
(***************************************************************************)
(* How a challenge may have ended.                                         *)
PovCode == Returns \cup {TERM}

(* What the report of the watcher takes for a crash.                       *)
Reported(c) == SigOf(c) \notin {0, SIGTERM}

(* A challenge that has ended has a code, and the watcher leaves nobody    *)
(* behind.                                                                 *)
PovWalk ==
  /\ \A c \in Chals : proc[c] = "run" \/ status[c] \in PovCode
  /\ watch \in {"kill", "term", "reap"} => \A c \in Chals : c < at => proc[c] = "reaped"
  /\ watch \in {"report", "done"} => \A c \in Chals : proc[c] = "reaped"

(* The log has the crashes of those the report is past.                    *)
PovLogged ==
  /\ watch \notin {"report", "done"} => dbg = {}
  /\ watch = "report" => dbg = {c \in Chals : c < at /\ Reported(c)}
  /\ watch = "done" => dbg = {c \in Chals : Reported(c)}

(* main has joined the POV, then the watcher.                              *)
PovCourse ==
  /\ main \in {"joinwatch", "ended"} => pov = "dead"
  /\ main = "ended" => watch = "done"

(* The type main has logged is the one the POV has sent.                   *)
PovTalk == logged # 0 => sent >= 1 /\ kind = logged

PovInv == PovTypeOK /\ PovWalk /\ PovLogged /\ PovCourse /\ PovTalk

-----------------------------------------------------------------------------
(* Which actions change what of the challenges, the watcher and its log.   *)
LEMMA PovChanges ==
  ASSUME [PovNext]_povVars
  PROVE  /\ UNCHANGED os \/ WatchStep \/ \E c \in Chals : Exit(c)
         /\ UNCHANGED <<watch, at, dbg, gen>> \/ WatchStep
         /\ UNCHANGED <<main, logged, late>> \/ MainStep
         /\ UNCHANGED <<kind, sent>> \/ Pov
         /\ pov' = pov \/ pov' = "dead"
<1>1. CASE UNCHANGED povVars
  BY <1>1 DEF povVars, os, povState, talk, tims, wats, logs
<1>2. CASE MainStep
  BY <1>2
  DEF MainStep, ReadType, ReadRest, Leave, TimesOut,
      Interrupted, Join, os, povState, wats, logs
<1>3. CASE WatchStep
  BY <1>3
  DEF WatchStep, WatchPoll, WatchKill, WatchNext, WatchTerminate,
      WatchReap, WatchReport, povState, talk
<1>4. CASE Tick \/ Expire \/ Alarm \/ Pov
  BY <1>4
  DEF Tick, Expire, Alarm, Pov, SendType, SendRest,
      PovExit, os, povState, talk, wats, logs
<1>5. CASE \E c \in Chals : Exit(c)
  BY <1>5 DEF Exit, povState, talk, wats, logs
<1> QED BY <1>1, <1>2, <1>3, <1>4, <1>5 DEF PovNext

(* There is a challenge, and the codes of challenges are numbers.          *)
LEMMA PovBounds == N \in Nat /\ 1 <= N /\ 1 \in Chals
BY PovAssumption DEF Chals

(* The absolute value of a code is a number; that of a crash is neither 0  *)
(* nor the one of the watcher's SIGTERM.                                   *)
LEMMA PovCodes ==
  ASSUME NEW r \in PovCode
  PROVE  /\ (IF r < 0 THEN -r ELSE r) \in Nat
         /\ (IF r < 0 THEN -r ELSE r) \in {0, SIGTERM} <=> r \in {0, SIGTERM, TERM}
BY PovAssumption DEF PovCode, TERM, SIGTERM

(* Everything is running at first.                                         *)
LEMMA PovInvInit == PovInit => PovInv
<1> SUFFICES ASSUME PovInit PROVE PovInv
  OBVIOUS
<1>1. PovTypeOK
  <2>1. /\ proc \in [Chals -> {"run", "zombie", "reaped"}]
        /\ status \in [Chals -> Returns \cup {TERM, None}]
    BY DEF PovInit
  <2>2. kind \in Types \cup {0} /\ sent \in 0 .. 2 /\ logged \in {0, 1, 2} /\ at \in Chals
    BY PovBounds DEF PovInit
  <2> QED BY <2>1, <2>2 DEF PovInit, PovTypeOK, MainPC, WatchPC
<1>2. PovWalk /\ PovLogged /\ PovCourse /\ PovTalk
  BY DEF PovInit, PovWalk, PovLogged, PovCourse, PovTalk
<1> QED BY <1>1, <1>2 DEF PovInv

(* Every variable keeps its type: the challenges, ...                      *)
LEMMA PovChalsTyped ==
  ASSUME PovInv, [PovNext]_povVars
  PROVE  /\ proc' \in [Chals -> {"run", "zombie", "reaped"}]
         /\ status' \in [Chals -> Returns \cup {TERM, None}]
<1> USE DEF PovInv, PovTypeOK
<1>1. CASE UNCHANGED os
  BY <1>1 DEF os
<1>2. CASE \E c \in Chals : Exit(c)
  <2>1. PICK c \in Chals : Exit(c)
    BY <1>2
  <2> QED BY <2>1 DEF Exit
<1>3. CASE WatchStep
  <2>1. CASE \E c \in Chals : WatchPoll(c)
    <3>1. PICK c \in Chals : WatchPoll(c)
      BY <2>1
    <3> QED BY <3>1 DEF WatchPoll, Reap
  <2>2. CASE WatchNext \/ WatchReap
    BY <2>2 DEF WatchNext, WatchReap, Reap, os
  <2>3. CASE WatchTerminate
    BY <2>3 DEF WatchTerminate, os
  <2>4. CASE WatchKill \/ WatchReport
    BY <2>4 DEF WatchKill, WatchReport, os
  <2> QED BY <1>3, <2>1, <2>2, <2>3, <2>4 DEF WatchStep
<1> QED BY <1>1, <1>2, <1>3, PovChanges

(* ... the POV, ...                                                        *)
LEMMA PovsTyped ==
  ASSUME PovInv, [PovNext]_povVars
  PROVE  /\ pov' \in {"run", "dead"} /\ kind' \in Types \cup {0} /\ sent' \in 0 .. 2
         /\ secret' \in {"none", "wrong", "right"}
<1> USE DEF PovInv, PovTypeOK
<1>1. pov' \in {"run", "dead"}
  BY PovChanges
<1>2. kind' \in Types \cup {0} /\ sent' \in 0 .. 2
  BY PovChanges DEF Pov, SendType, SendRest, PovExit
<1>3. secret' \in {"none", "wrong", "right"}
  BY DEF PovNext, MainStep, ReadType, ReadRest, Leave, TimesOut,
         Interrupted, Join, WatchStep, WatchPoll, WatchKill,
         WatchNext, WatchTerminate, WatchReap, WatchReport, Tick,
         Expire, Alarm, Pov, SendType, SendRest, PovExit,
         Exit, povState, povVars
<1> QED BY <1>1, <1>2, <1>3

(* ... main, ...                                                           *)
LEMMA PovMainTyped ==
  ASSUME PovInv, [PovNext]_povVars
  PROVE  /\ main' \in MainPC /\ replied' \in BOOLEAN /\ logged' \in {0, 1, 2}
         /\ claimed' \in BOOLEAN /\ late' \in BOOLEAN
<1> USE DEF PovInv, PovTypeOK
<1>1. main' \in MainPC /\ logged' \in {0, 1, 2} /\ late' \in BOOLEAN
  BY PovChanges
  DEF MainStep, ReadType, ReadRest, Leave, TimesOut,
      Interrupted, Join, talk, MainPC
<1>2. replied' \in BOOLEAN /\ claimed' \in BOOLEAN
  <2>1. CASE UNCHANGED <<replied, claimed>>
    BY <2>1
  <2>2. CASE ReadType
    BY <2>2 DEF ReadType
  <2>3. CASE ReadRest
    BY <2>3 DEF ReadRest
  <2>4. UNCHANGED <<replied, claimed>> \/ ReadType \/ ReadRest
    BY DEF PovNext, MainStep, Leave, TimesOut, Interrupted, Join,
           WatchStep, WatchPoll, WatchKill, WatchNext,
           WatchTerminate, WatchReap, WatchReport, Tick, Expire,
           Alarm, Pov, SendType, SendRest, PovExit, Exit,
           talk, povVars
  <2> QED BY <2>1, <2>2, <2>3, <2>4
<1> QED BY <1>1, <1>2

(* ... and the timer, the watcher and the log.                             *)
LEMMA PovThreadsTyped ==
  ASSUME PovInv, [PovNext]_povVars
  PROVE  /\ timer' \in {"armed", "due", "fired", "cancelled"} /\ pending' \in BOOLEAN
         /\ watch' \in WatchPC /\ at' \in Chals /\ expired' \in BOOLEAN
         /\ dbg' \subseteq Chals /\ gen' \subseteq dbg'
<1> USE DEF PovInv, PovTypeOK
<1>1. /\ timer' \in {"armed", "due", "fired", "cancelled"} /\ pending' \in BOOLEAN
      /\ expired' \in BOOLEAN
  BY DEF PovNext, MainStep, ReadType, ReadRest, Leave, TimesOut,
         Interrupted, Join, WatchStep, WatchPoll, WatchKill,
         WatchNext, WatchTerminate, WatchReap, WatchReport, Tick,
         Expire, Alarm, Pov, SendType, SendRest, PovExit,
         Exit, tims, wats, povVars
<1>2. watch' \in WatchPC
  BY PovChanges
  DEF WatchStep, WatchPoll, WatchKill, WatchNext, WatchTerminate,
      WatchReap, WatchReport, Advance, wats, WatchPC
<1>3. at' \in Chals
  BY PovChanges, PovBounds
  DEF WatchStep, WatchPoll, WatchKill, WatchNext, WatchTerminate,
      WatchReap, WatchReport, Advance, wats, Chals
<1>4. dbg' \subseteq Chals /\ gen' \subseteq dbg'
  <2>1. CASE UNCHANGED logs
    BY <2>1 DEF logs
  <2>2. CASE WatchReport
    BY <2>2 DEF WatchReport, logs
  <2> QED
    BY <2>1, <2>2, PovChanges
    DEF WatchStep, WatchPoll, WatchKill, WatchNext, WatchTerminate,
        WatchReap, logs
<1> QED BY <1>1, <1>2, <1>3, <1>4

(* A challenge that has ended stays so, with the code it ended with, and   *)
(* none ends without a code.                                               *)
LEMMA PovEndedStays ==
  ASSUME PovInv, [PovNext]_povVars, NEW c \in Chals
  PROVE  /\ proc[c] = "reaped" => proc'[c] = "reaped"
         /\ proc[c] # "run" => proc'[c] # "run" /\ status'[c] = status[c]
         /\ proc'[c] = "run" \/ status'[c] \in PovCode
<1> USE DEF PovInv, PovTypeOK
<1>0. proc[c] = "run" \/ status[c] \in PovCode
  BY DEF PovWalk
<1>1. CASE UNCHANGED os
  BY <1>0, <1>1 DEF os
<1>2. CASE \E d \in Chals : Exit(d)
  <2>1. PICK d \in Chals : Exit(d)
    BY <1>2
  <2> QED BY <1>0, <2>1 DEF Exit, PovCode
<1>3. CASE WatchTerminate
  BY <1>0, <1>3 DEF WatchTerminate, os, PovCode
<1>4. CASE WatchStep /\ ~ WatchTerminate
  <2>1. UNCHANGED os \/ \E d \in Chals : Reap(d)
    BY <1>4
    DEF WatchStep, WatchPoll, WatchKill, WatchNext, WatchReap,
        WatchReport
  <2>2. CASE \E d \in Chals : Reap(d)
    <3>1. PICK d \in Chals : Reap(d)
      BY <2>2
    <3> QED BY <1>0, <3>1 DEF Reap
  <2> QED BY <1>1, <2>1, <2>2
<1> QED BY <1>1, <1>2, <1>3, <1>4, PovChanges

(* The watcher goes on only when the challenge it is at is reaped.         *)
LEMMA PovWalkStep ==
  ASSUME PovInv, [PovNext]_povVars
  PROVE  PovWalk'
<1> USE PovEndedStays DEF PovInv, PovTypeOK, PovWalk
<1>1. \A c \in Chals : proc'[c] = "run" \/ status'[c] \in PovCode
  OBVIOUS
<1>2. CASE UNCHANGED <<watch, at>>
  BY <1>1, <1>2
<1>3. CASE WatchKill \/ WatchTerminate
  BY <1>1, <1>3 DEF WatchKill, WatchTerminate, Chals
<1>4. CASE WatchNext \/ WatchReap
  <2>1. CASE watch' = "term" /\ UNCHANGED at /\ watch = "kill"
    BY <1>1, <2>1
  <2>2. CASE Advance /\ proc'[at] = "reaped" /\ watch \in {"kill", "reap"}
    <3>1. \A c \in Chals : c <= at => proc'[c] = "reaped"
      BY <2>2 DEF Chals
    <3> QED BY <1>1, <2>2, <3>1, PovBounds DEF Advance, Chals
  <2> QED BY <1>4, <2>1, <2>2 DEF WatchNext, WatchReap, Reap, os
<1>5. CASE WatchReport
  BY <1>1, <1>5 DEF WatchReport
<1>6. CASE \E c \in Chals : WatchPoll(c)
  BY <1>1, <1>2, <1>6 DEF WatchPoll, wats
<1> QED BY <1>2, <1>3, <1>4, <1>5, <1>6, PovChanges DEF WatchStep

(* The log holds those that crashed, and no others.                        *)
LEMMA PovLoggedStep ==
  ASSUME PovInv, [PovNext]_povVars
  PROVE  PovLogged'
<1> USE DEF PovInv, PovTypeOK
<1>1. ASSUME watch \in {"report", "done"}, NEW c \in Chals
      PROVE  Reported(c)' <=> Reported(c)
  BY <1>1, PovEndedStays DEF PovWalk, Reported, SigOf
<1>2. CASE WatchReport
  <2>1. dbg' = IF Reported(at) THEN dbg \cup {at} ELSE dbg
    BY <1>2 DEF WatchReport, Reported, logs
  <2>2. watch = "report" /\ dbg = {c \in Chals : c < at /\ Reported(c)}
    BY <1>2 DEF WatchReport, PovLogged
  <2>3. dbg' = {c \in Chals : c <= at /\ Reported(c)}
    BY <2>1, <2>2 DEF Chals
  <2>4. (watch' = "report" /\ at' = at + 1) \/ (watch' = "done" /\ at = N)
    BY <1>2, <2>2, PovBounds DEF WatchReport, Chals
  <2>5. CASE watch' = "report" /\ at' = at + 1
    BY <1>1, <2>2, <2>3, <2>5 DEF PovLogged, Chals
  <2>6. CASE watch' = "done" /\ at = N
    BY <1>1, <2>2, <2>3, <2>6 DEF PovLogged, Chals
  <2> QED BY <2>4, <2>5, <2>6
<1>3. CASE watch \in {"report", "done"} /\ UNCHANGED <<watch, at, dbg>>
  BY <1>1, <1>3 DEF PovLogged
<1>4. CASE watch \notin {"report", "done"}
  <2>1. dbg' = {} /\ watch' # "done" /\ (watch' = "report" => at' = 1)
    BY <1>4, PovChanges
    DEF WatchStep, WatchPoll, WatchKill, WatchNext, WatchTerminate,
        WatchReap, WatchReport, Advance, wats, logs, PovLogged
  <2> QED BY <2>1 DEF PovLogged, Chals
<1>5. ~ WatchReport /\ watch \in {"report", "done"} => UNCHANGED <<watch, at, dbg>>
  BY PovChanges
  DEF WatchStep, WatchPoll, WatchKill, WatchNext, WatchTerminate,
      WatchReap, wats, logs
<1> QED BY <1>2, <1>3, <1>4, <1>5

(* main waits for the end of the POV and of the watcher.                   *)
LEMMA PovCourseStep ==
  ASSUME PovInv, [PovNext]_povVars
  PROVE  PovCourse'
<1> USE DEF PovInv, PovTypeOK, PovCourse
<1>1. (pov = "dead" => pov' = "dead") /\ (watch = "done" => watch' = "done")
  BY PovChanges
  DEF WatchStep, WatchPoll, WatchKill, WatchNext, WatchTerminate,
      WatchReap, WatchReport, wats
<1>2. main' = main \/ main' \notin {"joinwatch", "ended"} \/ Join
  BY PovChanges
  DEF MainStep, ReadType, ReadRest, Leave, TimesOut,
      Interrupted
<1> QED BY <1>1, <1>2 DEF Join

(* The POV sends its type once, before main reads it.                      *)
LEMMA PovTalkStep ==
  ASSUME PovInv, [PovNext]_povVars
  PROVE  PovTalk'
<1> USE DEF PovInv, PovTypeOK, PovTalk
<1>1. \/ UNCHANGED <<kind, sent>> \/ (sent = 0 /\ sent' = 1)
      \/ UNCHANGED kind /\ sent = 1 /\ sent' = 2
  BY PovChanges DEF Pov, SendType, SendRest, PovExit
<1>2. logged' = logged \/ (UNCHANGED povState /\ logged' = kind /\ sent >= 1)
  BY PovChanges
  DEF MainStep, ReadType, ReadRest, Leave, TimesOut,
      Interrupted, Join, talk
<1> QED BY <1>1, <1>2 DEF povState

(* No step breaks the invariant.                                           *)
LEMMA PovInvStep == PovInv /\ [PovNext]_povVars => PovInv'
<1> SUFFICES ASSUME PovInv, [PovNext]_povVars PROVE PovInv'
  OBVIOUS
<1>1. PovTypeOK'
  BY PovChalsTyped, PovsTyped, PovMainTyped, PovThreadsTyped DEF PovTypeOK
<1> QED
  BY <1>1, PovWalkStep, PovLoggedStep, PovCourseStep, PovTalkStep DEF PovInv

(* So it holds in every reachable state.                                   *)
LEMMA PovInvHolds == PovSpec => []PovInv
<1>1. PovInv /\ UNCHANGED povVars => PovInv'
  BY PovInvStep
<1> QED BY PovInvInit, PovInvStep, <1>1, PTL DEF PovSpec

(* Every variable of the replay of a POV has its type.                     *)
THEOREM PovTypeCorrect == PovSpec => []PovTypeOK
<1>1. PovInv => PovTypeOK
  BY DEF PovInv
<1> QED BY <1>1, PovInvHolds, PTL

(* END REPLAY comes after the end of the POV and of every challenge, and   *)
(* after the whole crash report: nobody but the watcher waits for them, so *)
(* no crash is lost, the main challenge's included.                        *)
THEOREM ReportsBeforeTheEnd == PovSpec => []ReportedBeforeEnd
<1>1. PovInv => ReportedBeforeEnd
  <2> SUFFICES ASSUME PovInv, main = "ended" PROVE ReportedBeforeEnd
    BY DEF ReportedBeforeEnd
  <2>1. pov = "dead" /\ watch = "done"
    BY DEF PovInv, PovCourse
  <2>2. \A c \in Chals : proc[c] = "reaped" /\ status[c] \in PovCode
    BY <2>1 DEF PovInv, PovWalk
  <2>3. \A c \in Chals : Reported(c) <=> status[c] \notin {0, SIGTERM, TERM}
    BY <2>2, PovCodes DEF Reported, SigOf
  <2>4. dbg = {c \in Chals : Reported(c)}
    BY <2>1 DEF PovInv, PovLogged
  <2> QED BY <2>1, <2>2, <2>3, <2>4 DEF ReportedBeforeEnd
<1> QED BY <1>1, PovInvHolds, PTL

(* The first of some challenges is one of them.                            *)
LEMMA FirstIsOne ==
  ASSUME NEW S, S \subseteq Chals, S # {}
  PROVE  \E c \in S : FirstSig(S) = SigOf(c)
<1> DEFINE R == OpToRel(<, Nat)
<1>1. S \subseteq Nat
  BY DEF Chals
<1>2. \A x, y \in Nat : y < x => <<y, x>> \in R
  BY DEF OpToRel
<1>3. IsWellFoundedOn(R, Nat)
  BY NatLessThanWellFounded
<1> HIDE DEF R
<1>4. \E x \in S : \A y \in S : ~ (<<y, x>> \in R)
  BY <1>1, <1>3, WFMin, Zenon
<1>5. PICK x \in S : \A y \in S : ~ (<<y, x>> \in R)
  BY <1>4
<1>6. ASSUME NEW y \in S PROVE x <= y
  <2>1. x \in Nat /\ y \in Nat
    BY <1>1
  <2>2. ~ (y < x)
    BY <1>2, <1>5, <2>1
  <2> QED BY <2>1, <2>2
<1> DEFINE first == CHOOSE c \in S : \A d \in S : c <= d
<1>7. first \in S
  BY <1>6
<1>8. FirstSig(S) = SigOf(first)
  BY DEF FirstSig
<1> QED BY <1>7, <1>8

(* What is in the log is a crash, with a number that is not 0.             *)
LEMMA SignalsAreNot0 ==
  ASSUME PovInv, NEW S, S \subseteq dbg
  PROVE  FirstSig(S) = 0 <=> S = {}
<1>1. CASE S = {}
  BY <1>1 DEF FirstSig
<1>2. CASE S # {}
  <2>1. S \subseteq Chals
    BY DEF PovInv, PovTypeOK
  <2>2. PICK c \in S : FirstSig(S) = SigOf(c)
    BY <1>2, <2>1, FirstIsOne
  <2>3. Reported(c)
    BY DEF PovInv, PovLogged
  <2> QED BY <1>2, <2>2, <2>3 DEF Reported
<1> QED BY <1>1, <1>2

(* The text of the replay of a POV, part by part.                          *)
LEMMA TextOfPov ==
  /\ PovText.file /\ (PovText.timedOut <=> late)
  /\ PovText.debugSig = FirstSig(dbg) /\ PovText.crashSig = FirstSig(gen)
  /\ PovText.negotiated = logged
BY Zenon DEF PovText

(* How TestResult judges a text that has the name of its test.             *)
LEMMA PovJudged ==
  ASSUME NEW text, NEW totals, text.file, totals.printed
  PROVE  LET r == PovResult(text, totals) IN
           /\ text.timedOut => r = [passed |-> 0, code |-> 3]
           /\ ~ text.timedOut /\ text.negotiated = 0 => r = [passed |-> 0, code |-> 2]
           /\ ~ text.timedOut /\ text.negotiated # 0 /\ totals.passed = 1
                => r = [passed |-> 0, code |-> 0]
           /\ ~ text.timedOut /\ text.negotiated # 0 /\ totals.passed # 1
              /\ ~ IsSig(ResultSig(text)) => r = [passed |-> 1, code |-> 0]
           /\ ~ text.timedOut /\ text.negotiated # 0 /\ totals.passed # 1
              /\ IsSig(ResultSig(text)) =>
                r = [passed |-> 0, code |-> IF ShouldHaveCored(text) THEN 7 ELSE 5]
BY Zenon DEF PovResult, NotNegotiated

(* cb-test passes a POV exactly when it got what it claimed.               *)
LEMMA ClaimsDecide ==
  ASSUME PovInv, NEW regs \in Matches
  PROVE  LET totals == Totals(PovText, TRUE, TRUE, regs, Secret) IN
           /\ totals.printed
           /\ logged # 0 => (totals.passed = 1 <=> regs \/ Secret = "right")
<1> DEFINE cfe    == CheckCfe(PovText, TRUE, regs, Secret)
           totals == Totals(PovText, TRUE, TRUE, regs, Secret)
<1>1. totals.printed /\ totals.passed = IF 0 = cfe THEN 1 ELSE 0
  BY TextOfPov, Zenon DEF Totals
<1>2. regs \in BOOLEAN /\ (regs => kind = 1 /\ gen # {})
  BY DEF Matches
<1>3. Secret = "right" => kind = 2
  BY DEF Secret
<1>4. FirstSig(gen) = 0 <=> gen = {}
  BY SignalsAreNot0 DEF PovInv, PovTypeOK
<1>5. logged \in {0, 1, 2} /\ (logged # 0 => kind = logged)
  BY DEF PovInv, PovTypeOK, PovTalk
<1>6. 0 # -1 /\ 0 # 1
  OBVIOUS
<1>7. logged = 1 => (0 = cfe <=> FirstSig(gen) # 0 /\ regs)
  BY <1>2, <1>6, TextOfPov, Zenon DEF CheckCfe, CheckType1
<1>8. logged = 2 => (0 = cfe <=> Secret = "right")
  <2>1. 1 # 2
    OBVIOUS
  <2> QED BY <1>6, <2>1, TextOfPov, Zenon DEF CheckCfe, CheckType2
<1> HIDE DEF cfe, totals
<1>9. logged # 0 => (0 = cfe <=> regs \/ Secret = "right")
  <2>1. CASE logged = 1
    BY <1>2, <1>3, <1>4, <1>5, <1>7, <2>1
  <2>2. CASE logged = 2
    BY <1>2, <1>3, <1>5, <1>8, <2>2
  <2> QED BY <1>5, <2>1, <2>2
<1>10. totals.printed /\ (logged # 0 => (totals.passed = 1 <=> regs \/ Secret = "right"))
  BY <1>1, <1>9
<1> QED BY <1>10 DEF totals

(* The test operation takes a POV for one that worked exactly when it      *)
(* negotiated in time and got what it claimed, whatever else crashed; and  *)
(* for one that did not only when nothing of the log looks like a POV.     *)
THEOREM PovVerdictsAreExact == PovSpec => []VerdictOfPov
<1>1. PovInv => VerdictOfPov
  <2> SUFFICES ASSUME PovInv, NEW regs \in Matches
               PROVE  LET sig    == IF dbg # {} THEN FirstSig(dbg) ELSE FirstSig(gen)
                          worked == regs \/ Secret = "right"
                          judged == Judged(regs)
                      IN  /\ judged = [passed |-> 0, code |-> 0]
                               <=> ~ late /\ logged # 0 /\ worked
                          /\ judged = [passed |-> 1, code |-> 0]
                               <=> ~ late /\ logged # 0 /\ ~ worked /\ sig \notin PovSignals
    BY DEF VerdictOfPov
  <2> DEFINE totals == Totals(PovText, TRUE, TRUE, regs, Secret)
             sig    == IF dbg # {} THEN FirstSig(dbg) ELSE FirstSig(gen)
             worked == regs \/ Secret = "right"
  <2>1. Judged(regs) = PovResult(PovText, totals)
    BY Zenon DEF Judged, TestResult
  <2>2. totals.printed /\ (logged # 0 => (totals.passed = 1 <=> worked))
    BY ClaimsDecide
  <2>3. ResultSig(PovText) = sig
    BY TextOfPov, SignalsAreNot0 DEF ResultSig
  <2>4. IsSig(ResultSig(PovText)) <=> sig \in PovSignals
    BY <2>3 DEF IsSig
  <2> HIDE DEF totals, worked, sig
  <2>5. /\ late => Judged(regs) = [passed |-> 0, code |-> 3]
        /\ ~ late /\ logged = 0 => Judged(regs) = [passed |-> 0, code |-> 2]
        /\ ~ late /\ logged # 0 /\ worked => Judged(regs) = [passed |-> 0, code |-> 0]
        /\ ~ late /\ logged # 0 /\ ~ worked /\ sig \notin PovSignals
             => Judged(regs) = [passed |-> 1, code |-> 0]
        /\ ~ late /\ logged # 0 /\ ~ worked /\ sig \in PovSignals
             => Judged(regs).passed = 0 /\ Judged(regs).code \in {5, 7}
    BY <2>1, <2>2, <2>4, PovJudged, TextOfPov
  <2>6. /\ Judged(regs) = [passed |-> 0, code |-> 0] <=> ~ late /\ logged # 0 /\ worked
        /\ Judged(regs) = [passed |-> 1, code |-> 0]
             <=> ~ late /\ logged # 0 /\ ~ worked /\ sig \notin PovSignals
    BY <2>5
  <2> QED BY <2>6 DEF worked, sig
<1> QED BY <1>1, PovInvHolds, PTL

=============================================================================
