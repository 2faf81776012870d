------------------------------ MODULE PovReplay ------------------------------
(***************************************************************************)
(* The replay of one POV: src/tools/cb-replay-pov.py, challenge_runner.py  *)
(* and common.py.                                                          *)
(*                                                                         *)
(*   main     forks the POV, negotiates with it inside "with Timeout",     *)
(*            then joins the POV and the watcher                           *)
(*   watcher  waits for the challenges to exit, kills those that do not,   *)
(*            and logs those that crashed; here nobody else waits for them *)
(*   timer    calls interrupt_main when the negotiation takes too long     *)
(*                                                                         *)
(* The POV is a process that talks to the challenges, and over a socket    *)
(* pair to main; SIGALRM kills it after the timeout.  main and the POV     *)
(* both keep both ends of the pair open, so neither ever reads EOF.        *)
(***************************************************************************)
EXTENDS Verdict, Sequences, FiniteSets

CONSTANTS
  N,        (* the number of challenge binaries                            *)
  Returns,  (* the return codes with which a challenge may end by itself   *)
  Types,    (* the types a POV may send; 1 and 2 are the valid ones        *)
  None      (* no return code (Python's None)                              *)

ASSUME PovAssumption ==
  /\ N \in Nat \ {0}
  /\ Returns \subseteq Int
  /\ Types \subseteq Nat \ {0}
  /\ None \notin Int

Chals == 1 .. N
TERM  == -SIGTERM

VARIABLES
  proc,      (* a challenge: "run", "zombie" (exited), "reaped"            *)
  status,    (* the return code it exited with, or None                    *)
  pov,       (* the POV: "run", "dead"                                     *)
  kind,      (* the type it has sent, 0 before                             *)
  sent,      (* how many messages it has sent: type, and masks or secret   *)
  secret,    (* what it sent as the secret: "none", "wrong", "right"       *)
  main,      (* where the main thread is                                   *)
  replied,   (* main has answered the POV                                  *)
  logged,    (* the type in "negotiation type:", or 0                      *)
  claimed,   (* "type 1 pov:" or "secret value:" was logged                *)
  late,      (* 'pov negotiation timed out' was logged                     *)
  timer,     (* "armed", "due" (past its last check), "fired", "cancelled" *)
  pending,   (* interrupt_main was called, the interrupt not yet delivered *)
  watch,     (* where the watcher is                                       *)
  at,        (* the challenge the watcher's loop is at                     *)
  expired,   (* the watcher's timeout has passed                           *)
  dbg,       (* the challenges with a "[DEBUG] pid" line in the log        *)
  gen        (* those with a "Process generated signal" line               *)

os       == <<proc, status>>
povState == <<pov, kind, sent, secret>>
talk     == <<replied, logged, claimed>>
tims     == <<timer, pending>>
wats     == <<watch, at, expired>>
logs     == <<dbg, gen>>
povVars  == <<os, povState, main, talk, late, tims, wats, logs>>

(* "type", "rest": main reads the type, the masks or the secret.           *)
MainPC  == {"type", "rest", "leave", "joinpov", "joinwatch", "ended", "raised"}
WatchPC == {"wait", "kill", "term", "reap", "report", "done"}

PovInit ==
  /\ proc   = [c \in Chals |-> "run"]
  /\ status = [c \in Chals |-> None]
  /\ pov = "run" /\ kind = 0 /\ sent = 0 /\ secret = "none"
  /\ main = "type" /\ replied = FALSE /\ logged = 0 /\ claimed = FALSE /\ late = FALSE
  /\ timer = "armed" /\ pending = FALSE
  /\ watch = "wait" /\ at = 1 /\ expired = FALSE
  /\ dbg = {} /\ gen = {}

-----------------------------------------------------------------------------
(* The challenges and the POV, external to the tools.                      *)

Exit(c) ==
  /\ proc[c] = "run"
  /\ proc' = [proc EXCEPT ![c] = "zombie"]
  /\ \E r \in Returns : status' = [status EXCEPT ![c] = r]
  /\ UNCHANGED <<povState, main, talk, late, tims, wats, logs>>

SendType ==
  /\ pov = "run" /\ sent = 0
  /\ sent' = 1 /\ kind' \in Types
  /\ UNCHANGED <<os, pov, secret, main, talk, late, tims, wats, logs>>

(* The masks follow at once, the secret after the reply.                   *)
SendRest ==
  /\ pov = "run" /\ sent = 1
  /\ \/ kind # 2 /\ UNCHANGED secret
     \/ kind = 2 /\ replied /\ secret' \in {"wrong", "right"}
  /\ sent' = 2
  /\ UNCHANGED <<os, pov, kind, main, talk, late, tims, wats, logs>>

PovExit ==
  /\ pov = "run" /\ pov' = "dead"
  /\ UNCHANGED <<os, kind, sent, secret, main, talk, late, tims, wats, logs>>

(* Mutant: nothing sets the alarm.                                         *)
NoAlarm == FALSE /\ UNCHANGED povVars

(* signal.alarm(timeout), which execv keeps.                               *)
Alarm ==
  /\ pov = "run" /\ pov' = "dead"
  /\ UNCHANGED <<os, kind, sent, secret, main, talk, late, tims, wats, logs>>

-----------------------------------------------------------------------------
(* pov_negotiate.  Without data os.read blocks.                            *)

ReadType ==
  /\ main = "type" /\ sent >= 1
  /\ IF kind \in {1, 2} THEN main' = "rest" /\ logged' = kind ELSE main' = "raised" /\ UNCHANGED logged
  /\ replied' = (kind = 2)
  /\ UNCHANGED <<os, povState, claimed, late, tims, wats, logs>>

(* A type 1 POV gets its values only for a register that exists.           *)
ReadRest ==
  /\ main = "rest" /\ sent = 2
  /\ main' = "leave"
  /\ IF kind = 1 THEN replied' \in BOOLEAN ELSE UNCHANGED replied
  /\ claimed' = replied'
  /\ UNCHANGED <<os, povState, logged, late, tims, wats, logs>>

(* Timeout.__exit__ without an exception cancels the timer; a timer past   *)
(* its last check still interrupts.                                        *)
Leave ==
  /\ main = "leave" /\ main' = "joinpov"
  /\ timer' = IF timer = "armed" THEN "cancelled" ELSE timer
  /\ UNCHANGED <<os, povState, talk, late, pending, wats, logs>>

(* KeyboardInterrupt inside "with Timeout".  interrupt_main only sets a    *)
(* flag, so it does not wake a main that is blocked in os.read.            *)
Blocked == (main = "type" /\ sent = 0) \/ (main = "rest" /\ sent < 2)

TimesOut ==
  /\ pending /\ main \in {"type", "rest", "leave"} /\ ~ Blocked
  /\ main' = "joinpov" /\ late' = TRUE /\ pending' = FALSE
  /\ UNCHANGED <<os, povState, talk, timer, wats, logs>>

(* KeyboardInterrupt after it: nothing catches it, and END REPLAY is not   *)
(* printed.  A join is not interrupted while it blocks, only before and    *)
(* after.                                                                  *)
Interrupted ==
  /\ pending /\ main \in {"joinpov", "joinwatch"}
  /\ main' = "raised" /\ pending' = FALSE
  /\ UNCHANGED <<os, povState, talk, late, timer, wats, logs>>

(* Mutant: the watcher is not joined.                                      *)
JoinPovOnly ==
  /\ main = "joinpov" /\ pov = "dead" /\ main' = "ended"
  /\ UNCHANGED <<os, povState, talk, late, tims, wats, logs>>

Join ==
  /\ \/ main = "joinpov" /\ pov = "dead" /\ main' = "joinwatch"
     \/ main = "joinwatch" /\ watch = "done" /\ main' = "ended"
  /\ UNCHANGED <<os, povState, talk, late, tims, wats, logs>>

-----------------------------------------------------------------------------
(* After an uncaught exception the interpreter waits for the timer thread  *)
(* and for the POV (the exit function of multiprocessing); then the daemon *)
(* threads die.                                                            *)
Over == main = "ended" \/ (main = "raised" /\ timer \notin {"armed", "due"} /\ pov = "dead")

(* The timer is set five seconds later than the watcher's timeout.         *)
Tick ==
  /\ ~ Over /\ expired
  /\ \/ timer = "armed" /\ timer' = "due" /\ UNCHANGED pending
     \/ timer = "due" /\ timer' = "fired" /\ pending' = TRUE
  /\ UNCHANGED <<os, povState, main, talk, late, wats, logs>>

-----------------------------------------------------------------------------
(* The watcher: challenge_runner.chal_watcher.                             *)

Expire ==
  /\ ~ Over /\ ~ expired /\ expired' = TRUE
  /\ UNCHANGED <<os, povState, main, talk, late, tims, watch, at, logs>>

(* poll() of a challenge that has exited, by the watcher alone.            *)
Reap(c) ==
  /\ proc[c] = "zombie"
  /\ proc' = [proc EXCEPT ![c] = "reaped"]
  /\ UNCHANGED status

WatchPoll(c) ==
  /\ ~ Over /\ watch = "wait" /\ ~ expired
  /\ Reap(c)
  /\ UNCHANGED <<povState, main, talk, late, tims, wats, logs>>

WatchKill ==
  /\ ~ Over /\ watch = "wait"
  /\ expired \/ \A c \in Chals : proc[c] = "reaped"
  /\ watch' = "kill" /\ at' = 1
  /\ UNCHANGED <<os, povState, main, talk, late, tims, expired, logs>>

(* Mutant: the index runs past the last challenge.                         *)
AdvancePast ==
  IF at <= N THEN watch' = "kill" /\ at' = at + 1
  ELSE watch' = "report" /\ at' = 1

Advance ==
  IF at < N THEN watch' = "kill" /\ at' = at + 1
  ELSE watch' = "report" /\ at' = 1

(* "Kill any remaining processes": poll(), terminate(), wait().            *)
WatchNext ==
  /\ ~ Over /\ watch = "kill"
  /\ \/ proc[at] = "run" /\ watch' = "term" /\ UNCHANGED <<os, at>>
     \/ proc[at] = "reaped" /\ Advance /\ UNCHANGED os
     \/ Reap(at) /\ Advance
  /\ UNCHANGED <<povState, main, talk, late, tims, expired, logs>>

WatchTerminate ==
  /\ ~ Over /\ watch = "term"
  /\ watch' = "reap"
  /\ IF proc[at] = "run"
     THEN /\ proc'   = [proc EXCEPT ![at] = "zombie"]
          /\ status' = [status EXCEPT ![at] = TERM]
     ELSE UNCHANGED os
  /\ UNCHANGED <<povState, main, talk, late, tims, at, expired, logs>>

WatchReap ==
  /\ ~ Over /\ watch = "reap"
  /\ Reap(at) /\ Advance
  /\ UNCHANGED <<povState, main, talk, late, tims, expired, logs>>

(* The crash report; gdb finds a core only of a process a signal killed.   *)
SigOf(c) == IF status[c] < 0 THEN -status[c] ELSE status[c]

WatchReport ==
  /\ ~ Over /\ watch = "report"
  /\ IF SigOf(at) \in {0, SIGTERM} THEN UNCHANGED logs
     ELSE /\ dbg' = dbg \cup {at}
          /\ IF status[at] < 0 THEN gen' \in {gen, gen \cup {at}} ELSE UNCHANGED gen
  /\ IF at < N THEN at' = at + 1 /\ UNCHANGED watch ELSE watch' = "done" /\ UNCHANGED at
  /\ UNCHANGED <<os, povState, main, talk, late, tims, expired>>

-----------------------------------------------------------------------------
MainStep  == ReadType \/ ReadRest \/ Leave \/ TimesOut \/ Interrupted \/ Join
WatchStep == \/ \E c \in Chals : WatchPoll(c)
             \/ WatchKill \/ WatchNext \/ WatchTerminate \/ WatchReap \/ WatchReport
Pov       == SendType \/ SendRest \/ PovExit

PovNext == MainStep \/ WatchStep \/ Tick \/ Expire \/ Alarm \/ Pov \/ \E c \in Chals : Exit(c)

PovSpec == PovInit /\ [][PovNext]_povVars

(* The threads are scheduled and time passes; the POV and the challenges   *)
(* owe nothing.                                                            *)
PovFairSpec ==
  /\ PovSpec
  /\ WF_povVars(MainStep) /\ WF_povVars(WatchStep)
  /\ WF_povVars(Expire) /\ WF_povVars(Tick) /\ WF_povVars(Alarm)

-----------------------------------------------------------------------------
(* What was printed when the replay is over, and how the test operation    *)
(* judges it: cb-test is told --should_core; "regs" says whether the       *)
(* registers of a process with a core are those that were claimed.         *)

FirstSig(S) == IF S = {} THEN 0 ELSE SigOf(CHOOSE c \in S : \A d \in S : c <= d)

PovText ==
  [file |-> TRUE, timedOut |-> late, pollsFailed |-> 0,
   debugSig |-> FirstSig(dbg), crashSig |-> FirstSig(gen),
   negotiated |-> logged, ret |-> IF main = "raised" \/ status[1] # 0 THEN 1 ELSE 0]

Matches == IF kind = 1 /\ claimed /\ gen # {} THEN BOOLEAN ELSE {FALSE}
Secret  == IF kind = 2 /\ claimed THEN secret ELSE "none"

Judged(regs) ==
  TestResult(PovText, Totals(PovText, TRUE, TRUE, regs, Secret), TRUE)

-----------------------------------------------------------------------------
(* Every variable has its type.                                            *)
PovTypeOK ==
  /\ proc \in [Chals -> {"run", "zombie", "reaped"}]
  /\ status \in [Chals -> Returns \cup {TERM, None}]
  /\ pov \in {"run", "dead"} /\ kind \in Types \cup {0} /\ sent \in 0 .. 2
  /\ secret \in {"none", "wrong", "right"}
  /\ main \in MainPC /\ replied \in BOOLEAN /\ logged \in {0, 1, 2}
  /\ claimed \in BOOLEAN /\ late \in BOOLEAN
  /\ timer \in {"armed", "due", "fired", "cancelled"} /\ pending \in BOOLEAN
  /\ watch \in WatchPC /\ at \in Chals /\ expired \in BOOLEAN
  /\ dbg \subseteq Chals /\ gen \subseteq dbg

(* When END REPLAY is printed the POV and all challenges are dead, and the *)
(* log holds exactly the challenges that ended with something else than 0  *)
(* or the watcher's SIGTERM: nobody but the watcher waits for them.        *)
ReportedBeforeEnd ==
  main = "ended" =>
    /\ pov = "dead" /\ \A c \in Chals : proc[c] = "reaped"
    /\ dbg = {c \in Chals : status[c] \notin {0, SIGTERM, TERM}}

(* A POV is judged to have worked exactly when its negotiation did not     *)
(* time out and it got what it claimed: a challenge with a core and the    *)
(* registers, or the secret; and to have cleanly not worked only when it   *)
(* negotiated and no challenge that heads the log ended with a signal of   *)
(* a POV.                                                                  *)
VerdictOfPov ==
  Over => \A regs \in Matches :
    LET sig    == IF dbg # {} THEN FirstSig(dbg) ELSE FirstSig(gen)
        worked == regs \/ Secret = "right"
        judged == Judged(regs)
    IN  /\ judged = [passed |-> 0, code |-> 0] <=> ~ late /\ logged # 0 /\ worked
        /\ judged = [passed |-> 1, code |-> 0]
             <=> ~ late /\ logged # 0 /\ ~ worked /\ sig \notin PovSignals

(* A POV that died in the middle of the negotiation leaves main in os.read *)
(* for ever: nothing else can hold up the replay.                          *)
Starved == Blocked /\ pov = "dead"

EndsOrStarves == <>(Over \/ Starved)

(* "By default when a timeout occurs, a TimeoutError will be raised"       *)
(* (common.py:48): with a timeout the replay ends.                         *)
Ends == <>Over

=============================================================================
