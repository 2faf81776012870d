------------------------------ MODULE Verdict ------------------------------
(***************************************************************************)
(* How the outcome of one test is judged: cb-test.py reads what the replay *)
(* service printed and prints totals, TestResult reads both, and the test  *)
(* operation, the sanity task and the include decision each read the       *)
(* TestResult their own way.                                               *)
(*                                                                         *)
(* A text is represented by the facts the patterns look for in it.         *)
(***************************************************************************)
EXTENDS Integers

SIGILL  == 4
SIGBUS  == 7
SIGSEGV == 11
SIGTERM == 15

(* Runner.pov_signals and test_result.pov_signals.                         *)
PovSignals == {SIGSEGV, SIGILL, SIGBUS}

(* The text of one test run:                                               *)
(*   file         the name of the test was printed                         *)
(*   timedOut     "timed out" is in the text                               *)
(*   pollsFailed  the number after "polls failed:", 0 without that line    *)
(*   debugSig     the signal of the first "[DEBUG] pid" line, else 0       *)
(*   crashSig     that of the first "Process generated signal", else 0     *)
(*   negotiated   the type of the first "negotiation type:" line, else 0   *)
(*   ret          the exit status of the replay service                    *)
Text == [file : BOOLEAN, timedOut : BOOLEAN, pollsFailed : 0..1,
         debugSig : Nat, crashSig : Nat, negotiated : Nat, ret : {0, 1}]

-----------------------------------------------------------------------------
(* cb-test.py: 0 is a pass.                                                *)

CheckCqe(sig, shouldCore, ret) ==
  IF sig \in PovSignals THEN (IF shouldCore THEN 0 ELSE -1)
  ELSE IF shouldCore THEN -1
  ELSE IF sig = 0 THEN 0
  ELSE ret

(* Type 1: the POV claims a value for the instruction pointer and for a    *)
(* register; "regs" says whether it got them, in the registers of one of   *)
(* the processes that crashed.                                             *)
CheckType1(sig, shouldCore, regs) ==
  IF sig = 0 THEN (IF shouldCore THEN -1 ELSE 0)
  ELSE IF shouldCore /\ regs THEN 0 ELSE -1

(* Type 2: the POV claims bytes of the secret page; "secret" is "none",    *)
(* "wrong" or "right".                                                     *)
CheckType2(shouldCore, secret) ==
  IF secret = "right" THEN 0
  ELSE IF shouldCore THEN -1 ELSE 0

CheckCfe(text, shouldCore, regs, secret) ==
  IF text.negotiated = 1 THEN CheckType1(text.crashSig, shouldCore, regs)
  ELSE IF text.negotiated = 2 THEN CheckType2(shouldCore, secret)
  ELSE -1

(* Runner.check_result and Runner.run over one test.  Without the name of  *)
(* the test in the text, check_result raises IndexError and no totals are  *)
(* printed.                                                                *)
Totals(text, isPov, shouldCore, regs, secret) ==
  [printed |-> text.file,
   passed  |-> IF /\ text.file
                  /\ 0 = IF isPov THEN CheckCfe(text, shouldCore, regs, secret)
                         ELSE CheckCqe(text.crashSig, shouldCore, text.ret)
               THEN 1 ELSE 0]

-----------------------------------------------------------------------------
(* TestResult: the first pattern that is found decides.                    *)

IsSig(sig) == sig \in PovSignals

(* _get_pids_sig: the signal of the [DEBUG] line, or of the line with the  *)
(* crash when there is none.                                               *)
ResultSig(text) == IF text.debugSig # 0 THEN text.debugSig ELSE text.crashSig

NotNegotiated(text, isPov) == isPov /\ text.file /\ text.negotiated = 0

(* "should have cored, and did not" is cb-test's line for a type 1 POV     *)
(* that did not crash.                                                     *)
ShouldHaveCored(text) == text.negotiated = 1 /\ text.crashSig = 0

(* Mutant: the count of failed polls is not looked at.                     *)
PollResultByCrash(text, totals) ==
  IF text.timedOut                THEN [passed |-> 0, code |-> 3]
  ELSE IF ~ totals.printed        THEN [passed |-> 0, code |-> 1]
  ELSE IF IsSig(ResultSig(text))  THEN [passed |-> 0, code |-> 5]
  ELSE [passed |-> totals.passed, code |-> 0]

PollResult(text, totals) ==
  IF text.timedOut                THEN [passed |-> 0, code |-> 3]
  ELSE IF text.pollsFailed > 0    THEN [passed |-> 0, code |-> 6]
  ELSE IF ~ totals.printed        THEN [passed |-> 0, code |-> 1]
  ELSE IF IsSig(ResultSig(text))  THEN [passed |-> 0, code |-> 5]
  ELSE [passed |-> totals.passed, code |-> 0]

(* Mutant: a POV that did not negotiate is one that did not work.          *)
PovResultUnnegotiated(text, totals) ==
  IF text.timedOut                       THEN [passed |-> 0, code |-> 3]
  ELSE IF ~ totals.printed               THEN [passed |-> 0, code |-> 1]
  ELSE IF totals.passed = 1              THEN [passed |-> 0, code |-> 0]
  ELSE IF ~ IsSig(ResultSig(text))       THEN [passed |-> 1, code |-> 0]
  ELSE [passed |-> 0, code |-> IF ShouldHaveCored(text) THEN 7 ELSE 5]

(* For a POV the sense is turned round: passed says that the POV did not   *)
(* work.                                                                   *)
PovResult(text, totals) ==
  IF text.timedOut                       THEN [passed |-> 0, code |-> 3]
  ELSE IF NotNegotiated(text, TRUE)      THEN [passed |-> 0, code |-> 2]
  ELSE IF ~ totals.printed               THEN [passed |-> 0, code |-> 1]
  ELSE IF totals.passed = 1              THEN [passed |-> 0, code |-> 0]
  ELSE IF ~ IsSig(ResultSig(text))       THEN [passed |-> 1, code |-> 0]
  ELSE [passed |-> 0, code |-> IF ShouldHaveCored(text) THEN 7 ELSE 5]

TestResult(text, totals, isPov) ==
  IF isPov THEN PovResult(text, totals) ELSE PollResult(text, totals)

(* Test._process_flags with neg_pov: a POV that works is a test that       *)
(* passes.                                                                 *)
Inverted(result, isPov, negPov) ==
  IF isPov /\ negPov THEN [result EXCEPT !.passed = 1 - @] ELSE result

(* Test.tests_pass, for one of the results.                                *)
TestPasses(result, isPov, negPov) ==
  result.passed = 1 \/ (isPov /\ ~ negPov)

(* Mutant: the code is not looked at.                                      *)
SanityFailsPassed(result) == result.passed = 0

(* Sanity.check_test, for one of the results.                              *)
SanityFails(result) == result.passed = 0 \/ result.code # 0

=============================================================================
