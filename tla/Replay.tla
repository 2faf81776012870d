------------------------------- MODULE Replay -------------------------------
(***************************************************************************)
(* The replay of one poll: src/tools/cb-replay.py, challenge_runner.py and *)
(* common.py, in one process with four threads.                            *)
(*                                                                         *)
(*   main     runs the steps of the poll, terminates the main challenge    *)
(*            and joins the other threads, all inside "with Timeout"       *)
(*   watcher  waits for the challenges to exit, kills those that do not,   *)
(*            and logs those that crashed                                  *)
(*   buffer   moves the challenge's output into a list                     *)
(*   timer    interrupts main when the time of the poll is over            *)
(*                                                                         *)
(* The challenge binaries are processes 1..N of the operating system,      *)
(* number 1 the main one.  Both main and watcher use their Popen objects,  *)
(* whose poll, wait and terminate are modelled as Python 2 implements      *)
(* them: a waitpid and, in a later step, an assignment to returncode.      *)
(***************************************************************************)
EXTENDS Verdict, Sequences, FiniteSets

CONSTANTS
  N,         (* the number of challenge binaries                           *)
  Script,    (* the steps of the poll: a sequence of "read" and "write"    *)
  Returns,   (* the return codes with which a challenge may end by itself  *)
  MaxOut,    (* bound on the pieces of output the main challenge writes    *)
  None,      (* no value (Python's None)                                   *)
  Running    (* what waitpid(WNOHANG) says of a running child              *)

ASSUME ReplayAssumption ==
  /\ N \in Nat \ {0}
  /\ Script \in Seq({"read", "write"})
  /\ Returns \subseteq Int
  /\ MaxOut \in Nat
  /\ None \notin Int /\ Running \notin Int \cup {None}

Chals  == 1 .. N
MainCB == 1
TERM   == -SIGTERM
Code   == Returns \cup {TERM, 0}

VARIABLES
  proc,     (* a challenge: "none", "run", "zombie" (exited), "reaped"     *)
  status,   (* the return code it exited with, or None                     *)
  rc,       (* Popen.returncode of each challenge                          *)
  made,     (* pieces of output the main challenge has written             *)
  piped,    (* those in the pipe                                           *)
  raw,      (* those in Throw.pipe_raw                                     *)
  kept,     (* Throw.pipe_buf or _read_buffer holds data                   *)
  buf,      (* the buffer thread: "none", "run", "done"                    *)
  main,     (* where the main thread is                                    *)
  step,     (* the index of the step main is at                            *)
  seen,     (* what main's waitpid returned, or None                       *)
  failed,   (* Throw.failed                                                *)
  late,     (* log_fail('pov timed out') was called                        *)
  timer,    (* "off", "armed", "due" (past its last check), "fired",       *)
            (* "cancelled"                                                 *)
  pending,  (* interrupt_main was called, the interrupt not yet delivered  *)
  watch,    (* where the watcher is                                        *)
  at,       (* the challenge the watcher's loop is at                      *)
  wseen,    (* what the watcher's waitpid returned, or None                *)
  expired,  (* the watcher's own timeout has passed                        *)
  dbg,      (* the challenges with a "[DEBUG] pid" line in the log         *)
  gen       (* those with a "Process generated signal" line                *)

os    == <<proc, status>>
outs  == <<made, piped, raw, kept, buf>>
mains == <<main, step, seen, failed, late>>
tims  == <<timer, pending>>
wats  == <<watch, at, wseen, expired>>
logs  == <<dbg, gen>>
vars  == <<os, rc, outs, mains, tims, wats, logs>>

MainPC  == {"parse", "steps", "blocked", "poll", "polled", "term", "joinbuf", "inbuf",
            "joinwatch", "inwatch", "leave", "dump",
            "counted", "interrupted", "raised"}
WatchPC == {"none", "any", "rest", "kill", "term", "wait", "waited", "report", "done", "dead"}

(* Where main is inside "with Timeout" and not blocked in a system call or *)
(* a lock, so that an interrupt is delivered.                              *)
Guarded == {"steps", "poll", "polled", "term", "joinbuf", "joinwatch", "leave"}
Final   == {"counted", "interrupted", "raised"}

Init ==
  /\ proc    = [c \in Chals |-> "none"]
  /\ status  = [c \in Chals |-> None]
  /\ rc      = [c \in Chals |-> None]
  /\ made = 0 /\ piped = 0 /\ raw = 0 /\ kept = FALSE /\ buf = "none"
  /\ main = "parse" /\ step = 1 /\ seen = None /\ failed = 0 /\ late = FALSE
  /\ timer = "off" /\ pending = FALSE
  /\ watch = "none" /\ at = 1 /\ wseen = None /\ expired = FALSE
  /\ dbg = {} /\ gen = {}

Go(from, to) == main = from /\ main' = to

-----------------------------------------------------------------------------
(* The challenges, external to the repository's tools.                     *)

Exit(c) ==
  /\ proc[c] = "run"
  /\ proc' = [proc EXCEPT ![c] = "zombie"]
  /\ \E r \in Returns : status' = [status EXCEPT ![c] = r]
  /\ UNCHANGED <<rc, outs, mains, tims, wats, logs>>

Emit ==
  /\ proc[MainCB] = "run" /\ made < MaxOut
  /\ made'  = made + 1
  /\ piped' = piped + 1
  /\ UNCHANGED <<os, rc, raw, kept, buf, mains, tims, wats, logs>>

(* SIGTERM, sent by os.kill.                                               *)
Sigterm(c) ==
  IF proc[c] = "run"
  THEN /\ proc'   = [proc EXCEPT ![c] = "zombie"]
       /\ status' = [status EXCEPT ![c] = TERM]
  ELSE UNCHANGED os

(* waitpid(c, WNOHANG): Running, the status of a zombie, which it reaps,   *)
(* or 0 when the child is gone (Popen._internal_poll on ECHILD).           *)
WaitpidResult(c) ==
  IF proc[c] = "run" THEN Running
  ELSE IF proc[c] = "zombie" THEN status[c] ELSE 0

Reap(c) ==
  /\ proc' = IF proc[c] = "zombie" THEN [proc EXCEPT ![c] = "reaped"] ELSE proc
  /\ UNCHANGED status

(* Until the process ends, and with it its daemon threads.  After an       *)
(* uncaught exception the interpreter first waits for the timer thread.    *)
Alive == main \notin {"counted", "interrupted"} /\ (main = "raised" => timer # "fired")

-----------------------------------------------------------------------------
(* The buffer thread: Throw.buffer_pipe_data.                              *)

Buffer ==
  /\ Alive
  /\ buf = "run" /\ piped > 0
  /\ piped' = piped - 1
  /\ raw'   = raw + 1
  /\ UNCHANGED <<os, rc, made, kept, buf, mains, tims, wats, logs>>

BufferEOF ==
  /\ Alive
  /\ buf = "run" /\ piped = 0 /\ proc[MainCB] # "run"
  /\ buf' = "done"
  /\ UNCHANGED <<os, rc, made, piped, raw, kept, mains, tims, wats, logs>>

-----------------------------------------------------------------------------
(* run_pov parses the poll.  When that fails, or takes too long, the       *)
(* failure is the result; else the challenges and the threads are started, *)
(* inside "with Timeout".                                                  *)

ParseFails ==
  /\ Go("parse", "dump")
  /\ failed' = 1
  /\ UNCHANGED <<os, rc, outs, step, seen, late, tims, wats, logs>>

Start ==
  /\ Go("parse", "steps")
  /\ proc' = [c \in Chals |-> "run"]
  /\ buf' = "run" /\ watch' = "any" /\ timer' = "armed"
  /\ UNCHANGED <<status, rc, made, piped, raw, kept, step, seen, failed, late,
                 pending, at, wseen, expired, logs>>

-----------------------------------------------------------------------------
(* The steps of the poll.  A step that fails calls log_fail, whose         *)
(* TestFailure ends the loop.                                              *)

AtStep(kind) == main = "steps" /\ step <= Len(Script) /\ Script[step] = kind

StepOk ==
  /\ step' = step + 1
  /\ main' = "steps"
  /\ UNCHANGED <<failed>>

StepFails ==
  /\ failed' = 1
  /\ main' = "poll"
  /\ UNCHANGED <<step>>

(* read_from_proc waits as long as there is no output, whether or not any  *)
(* can still come.  A read may need several pieces, or less than one.      *)
Receive ==
  /\ AtStep("read") /\ raw > 0
  /\ raw' = raw - 1 /\ kept' = TRUE
  /\ UNCHANGED <<os, rc, made, piped, buf, mains, tims, wats, logs>>

(* What was received is enough, and matches or does not.                   *)
Read ==
  /\ AtStep("read") /\ kept
  /\ kept' \in BOOLEAN
  /\ StepOk \/ StepFails
  /\ UNCHANGED <<os, rc, made, piped, raw, buf, seen, late, tims, wats, logs>>

(* write_to_proc: the pipe takes the data, or it is full and the write     *)
(* waits for the challenge to read, or the challenge is gone (EPIPE).      *)
Write ==
  /\ AtStep("write")
  /\ IF proc[MainCB] # "run" THEN StepFails
     ELSE StepOk \/ (main' = "blocked" /\ UNCHANGED <<step, failed>>)
  /\ UNCHANGED <<os, rc, outs, seen, late, tims, wats, logs>>

(* A blocked write goes on when the challenge has read, which it may never *)
(* do,                                                                     *)
Unblock ==
  /\ main = "blocked" /\ proc[MainCB] = "run"
  /\ StepOk
  /\ UNCHANGED <<os, rc, outs, seen, late, tims, wats, logs>>

(* and fails when the challenge is gone.                                   *)
BrokenPipe ==
  /\ main = "blocked" /\ proc[MainCB] # "run"
  /\ StepFails
  /\ UNCHANGED <<os, rc, outs, seen, late, tims, wats, logs>>

StepsDone ==
  /\ main = "steps" /\ step > Len(Script)
  /\ main' = "poll"
  /\ UNCHANGED <<os, rc, outs, step, seen, failed, late, tims, wats, logs>>

-----------------------------------------------------------------------------
(* After the steps: terminate the main challenge and join.                 *)

(* proc.poll(): returncode if it is set, else waitpid.                     *)
Poll ==
  /\ main = "poll"
  /\ IF rc[MainCB] # None
     THEN main' = "joinbuf" /\ UNCHANGED <<os, seen>>
     ELSE main' = "polled" /\ seen' = WaitpidResult(MainCB) /\ Reap(MainCB)
  /\ UNCHANGED <<rc, outs, step, failed, late, tims, wats, logs>>

(* The assignment to returncode, and "is None".                            *)
PollReturns ==
  /\ main = "polled"
  /\ main' = IF seen = Running THEN "term" ELSE "joinbuf"
  /\ rc'   = IF seen = Running THEN rc ELSE [rc EXCEPT ![MainCB] = seen]
  /\ seen' = None
  /\ UNCHANGED <<os, outs, step, failed, late, tims, wats, logs>>

(* proc.terminate(): os.kill of a process that has been reaped raises      *)
(* OSError, which nothing catches.                                         *)
Terminate ==
  /\ main = "term"
  /\ IF proc[MainCB] = "reaped"
     THEN main' = "raised" /\ UNCHANGED os
     ELSE main' = "joinbuf" /\ Sigterm(MainCB)
  /\ UNCHANGED <<rc, outs, step, seen, failed, late, tims, wats, logs>>

(* Mutant: main does not join the watcher.                                 *)
JoinBufferOnly ==
  /\ \/ Go("joinbuf", "inbuf")
     \/ buf = "done" /\ Go("inbuf", "leave")
  /\ UNCHANGED <<os, rc, outs, step, seen, failed, late, tims, wats, logs>>

(* Thread.join without a timeout cannot be interrupted in Python 2.        *)
Join ==
  /\ \/ Go("joinbuf", "inbuf")
     \/ Go("joinwatch", "inwatch")
     \/ buf = "done" /\ Go("inbuf", "joinwatch")
     \/ watch \in {"done", "dead"} /\ Go("inwatch", "leave")
  /\ UNCHANGED <<os, rc, outs, step, seen, failed, late, tims, wats, logs>>

(* Timeout.__exit__ without an exception cancels the timer; a timer past   *)
(* its last check still interrupts.                                        *)
Leave ==
  /\ Go("leave", "dump")
  /\ timer' = IF timer = "armed" THEN "cancelled" ELSE timer
  /\ UNCHANGED <<os, rc, outs, step, seen, failed, late, pending, wats, logs>>

(* Throw.dump, the return of run_pov, and Results.cb_pov_result.           *)
Count ==
  /\ Go("dump", "counted")
  /\ UNCHANGED <<os, rc, outs, step, seen, failed, late, tims, wats, logs>>

(* KeyboardInterrupt inside "with Timeout": TimeoutError, and run_pov logs *)
(* 'pov timed out'.                                                        *)
TimesOut ==
  /\ pending /\ main \in Guarded
  /\ main'    = "dump"
  /\ failed'  = failed + 1
  /\ late'    = TRUE
  /\ pending' = FALSE
  /\ seen'    = None
  /\ UNCHANGED <<os, rc, outs, step, timer, wats, logs>>

(* KeyboardInterrupt after it: the handler in main(), which counts one     *)
(* error and prints no result.                                             *)
Interrupted ==
  /\ pending
  /\ Go("dump", "interrupted")
  /\ pending' = FALSE
  /\ UNCHANGED <<os, rc, outs, step, seen, failed, late, timer, wats, logs>>

(* The timer thread: it sees that it was not cancelled, then calls         *)
(* interrupt_main.                                                         *)
Tick ==
  /\ Alive
  /\ \/ timer = "armed" /\ timer' = "due" /\ UNCHANGED pending
     \/ timer = "due" /\ timer' = "fired" /\ pending' = TRUE
  /\ UNCHANGED <<os, rc, outs, mains, wats, logs>>

-----------------------------------------------------------------------------
(* The watcher: challenge_runner.chal_watcher.                             *)

Expire ==
  /\ ~ expired /\ Alive /\ watch # "none"
  /\ expired' = TRUE
  /\ UNCHANGED <<os, rc, outs, mains, tims, watch, at, wseen, logs>>

(* poll() of challenge c; the result is assigned in WatchPollReturns.      *)
WatchPoll(c) ==
  /\ Alive
  /\ watch \in {"any", "rest", "kill"} /\ wseen = None /\ rc[c] = None
  /\ watch = "kill" => c = at
  /\ watch # "kill" => ~ expired
  /\ at'    = c
  /\ wseen' = WaitpidResult(c)
  /\ Reap(c)
  /\ UNCHANGED <<rc, outs, mains, tims, watch, expired, logs>>

WatchPollReturns ==
  /\ Alive
  /\ watch \in {"any", "rest", "kill"} /\ wseen # None
  /\ rc'    = IF wseen = Running THEN rc ELSE [rc EXCEPT ![at] = wseen]
  /\ watch' = IF watch = "kill" /\ wseen = Running THEN "term" ELSE watch
  /\ wseen' = None
  /\ UNCHANGED <<os, outs, mains, tims, at, expired, logs>>

(* "Wait until any process exits", then "Give the others a chance".        *)
WatchRest ==
  /\ Alive
  /\ watch = "any" /\ wseen = None
  /\ expired \/ \E c \in Chals : rc[c] # None
  /\ watch' = "rest"
  /\ UNCHANGED <<os, rc, outs, mains, tims, at, wseen, expired, logs>>

WatchKill ==
  /\ Alive
  /\ watch = "rest" /\ wseen = None
  /\ expired \/ \A c \in Chals : rc[c] # None
  /\ watch' = "kill" /\ at' = 1
  /\ UNCHANGED <<os, rc, outs, mains, tims, wseen, expired, logs>>

(* "Kill any remaining processes": the loop over the challenges.           *)
(* Mutant: the index runs past the last challenge.                         *)
AdvancePast ==
  IF at <= N THEN watch' = "kill" /\ at' = at + 1
  ELSE watch' = "report" /\ at' = 1

Advance ==
  IF at < N THEN watch' = "kill" /\ at' = at + 1
  ELSE watch' = "report" /\ at' = 1

WatchNext ==
  /\ Alive
  /\ watch = "kill" /\ wseen = None /\ rc[at] # None
  /\ Advance
  /\ UNCHANGED <<os, rc, outs, mains, tims, wseen, expired, logs>>

(* Mutant: wait() without terminate().                                     *)
WatchOnlyWaits ==
  /\ Alive
  /\ watch = "term" /\ watch' = "wait"
  /\ UNCHANGED <<os, rc, outs, mains, tims, at, wseen, expired, logs>>

(* terminate(); OSError ends the thread.                                   *)
WatchTerminate ==
  /\ Alive
  /\ watch = "term"
  /\ IF proc[at] = "reaped"
     THEN watch' = "dead" /\ UNCHANGED os
     ELSE watch' = "wait" /\ Sigterm(at)
  /\ UNCHANGED <<rc, outs, mains, tims, at, wseen, expired, logs>>

(* wait(): blocks in waitpid, which gives 0 on ECHILD, unless main has set *)
(* returncode before.                                                      *)
WatchWait ==
  /\ Alive
  /\ watch = "wait"
  /\ \/ rc[at] # None /\ Advance /\ UNCHANGED <<os, wseen>>
     \/ /\ proc[at] # "run"
        /\ watch' = "waited" /\ wseen' = WaitpidResult(at) /\ Reap(at)
        /\ UNCHANGED at
  /\ UNCHANGED <<rc, outs, mains, tims, expired, logs>>

WatchWaitReturns ==
  /\ Alive
  /\ watch = "waited"
  /\ rc' = [rc EXCEPT ![at] = wseen]
  /\ wseen' = None
  /\ Advance
  /\ UNCHANGED <<os, outs, mains, tims, expired, logs>>

(* The crash report: a line with the absolute value of the return code,    *)
(* and, if gdb finds a core, the signal and the registers.                 *)
SigOf(c) == IF rc[c] < 0 THEN -rc[c] ELSE rc[c]

WatchReport ==
  /\ Alive
  /\ watch = "report"
  /\ IF SigOf(at) \in {0, SIGTERM} THEN UNCHANGED logs
     ELSE /\ dbg' = dbg \cup {at}
          /\ IF rc[at] < 0 THEN gen' \in {gen, gen \cup {at}} ELSE UNCHANGED gen
  /\ IF at < N THEN at' = at + 1 /\ UNCHANGED watch ELSE watch' = "done" /\ UNCHANGED at
  /\ UNCHANGED <<os, rc, outs, mains, tims, wseen, expired>>

-----------------------------------------------------------------------------
MainStep == \/ ParseFails \/ Start \/ Write \/ BrokenPipe \/ StepsDone \/ Poll \/ PollReturns
            \/ Terminate \/ Join \/ Leave \/ Count \/ TimesOut \/ Interrupted

WatchStep == \/ \E c \in Chals : WatchPoll(c)
             \/ WatchPollReturns \/ WatchRest \/ WatchKill \/ WatchNext
             \/ WatchTerminate \/ WatchWait \/ WatchWaitReturns \/ WatchReport

Next ==
  \/ MainStep \/ Unblock \/ Receive \/ Read \/ WatchStep
  \/ Expire \/ Buffer \/ BufferEOF \/ Tick \/ Emit
  \/ \E c \in Chals : Exit(c)

Spec == Init /\ [][Next]_vars

(* The threads are scheduled and time passes; the challenges owe nothing:  *)
(* they may hang, never read, and never print what a read waits for, so    *)
(* Unblock, Receive, Emit and Exit are in none of the conjuncts.           *)
FairSpec ==
  /\ Spec
  /\ WF_vars(MainStep)
  /\ WF_vars(TimesOut)
  /\ WF_vars(WatchStep)
  /\ WF_vars(Expire)
  /\ WF_vars(Buffer \/ BufferEOF)
  /\ WF_vars(Tick)

-----------------------------------------------------------------------------
(* What cb-replay has printed when it is over, and how it is judged.       *)

FirstSig(S) == IF S = {} THEN 0 ELSE SigOf(CHOOSE c \in S : \A d \in S : c <= d)

PollText ==
  LET counted == main = "counted"
      errors  == IF main = "interrupted" \/ (counted /\ failed > 0) THEN 1 ELSE 0
  IN  [file        |-> counted,
       timedOut    |-> counted /\ late,
       pollsFailed |-> errors,
       debugSig    |-> IF counted THEN FirstSig(dbg) ELSE 0,
       crashSig    |-> IF counted THEN FirstSig(gen) ELSE 0,
       negotiated  |-> 0,
       ret         |-> IF main = "raised" THEN 1 ELSE errors]

Judged == TestResult(PollText, Totals(PollText, FALSE, FALSE, FALSE, "none"), FALSE)

-----------------------------------------------------------------------------
(* Every variable has its type.                                            *)
TypeOK ==
  /\ proc \in [Chals -> {"none", "run", "zombie", "reaped"}]
  /\ status \in [Chals -> Code \cup {None}]
  /\ rc \in [Chals -> Code \cup {None}]
  /\ made \in 0..MaxOut /\ piped \in 0..MaxOut /\ raw \in 0..MaxOut
  /\ kept \in BOOLEAN
  /\ buf \in {"none", "run", "done"}
  /\ main \in MainPC /\ step \in 1..Len(Script) + 1
  /\ seen \in Code \cup {None, Running} /\ failed \in 0..2 /\ late \in BOOLEAN
  /\ timer \in {"off", "armed", "due", "fired", "cancelled"} /\ pending \in BOOLEAN
  /\ watch \in WatchPC /\ at \in Chals /\ expired \in BOOLEAN
  /\ wseen \in Code \cup {None, Running}
  /\ dbg \subseteq Chals /\ gen \subseteq dbg

(* The poll was run, and its result is not a timeout.                      *)
OnTime == main = "counted" /\ ~ late /\ timer # "off"

(* How a challenge ended by itself: 0 aside, anything looks like a crash.  *)
Crashed(c) == status[c] \notin {None, 0, SIGTERM, TERM}

(* When run_pov returns a result that is not a timeout, the watcher is     *)
(* over and, if it got to its end, no challenge is left running, nothing   *)
(* but a crash is in the log, and every crash is, that of the main         *)
(* challenge excepted: main takes part in waiting for it.                  *)
ReportedBeforeCounted ==
  OnTime => /\ watch \in {"done", "dead"}
            /\ watch = "done" => \A c \in Chals :
                 /\ proc[c] # "run"
                 /\ c \in dbg => Crashed(c)
                 /\ c # MainCB /\ Crashed(c) => c \in dbg

(* cb-test calls a poll without a crash a pass whatever cb-replay          *)
(* returned, so the verdict hangs on TestResult: a poll is passed exactly  *)
(* when its result was counted in time, every step went well and neither   *)
(* the first process in the log nor the first with a core ended with one   *)
(* of the POV signals.                                                     *)
VerdictIsExact ==
  main \in Final =>
    (Judged = [passed |-> 1, code |-> 0]
       <=> OnTime /\ failed = 0 /\ step = Len(Script) + 1
                  /\ {FirstSig(dbg), FirstSig(gen)} \cap PovSignals = {})

(* A challenge that hangs, never reads or never exits cannot hold up the   *)
(* replay for ever: the timer and the watcher's timeout see to it.         *)
Terminates == <>(main \in Final)

=============================================================================
