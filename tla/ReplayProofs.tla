---------------------------- MODULE ReplayProofs ----------------------------
(***************************************************************************)
(* The replay of one poll, for every number of challenges, every script    *)
(* and every set of return codes: main and the watcher, who wait for the   *)
(* same children with a waitpid and a later assignment to returncode,      *)
(* never leave a challenge behind, and a result that is counted in time    *)
(* has the whole crash report.                                             *)
(***************************************************************************)
EXTENDS Replay, TLAPS

-----------------------------------------------------------------------------
(* Where main is before the steps are over, and where the poll is over.    *)
Stepping == {"parse", "steps", "blocked"}
Over     == {"dump"} \cup Final

(* Before the challenges are started, or when the poll could not be        *)
(* parsed, there is nothing; after, every challenge and the watcher.       *)
Begun ==
  IF timer = "off"
  THEN /\ main \in {"parse", "dump", "counted"} /\ ~ pending
       /\ main # "parse" => failed > 0
       /\ watch = "none" /\ wseen = None /\ seen = None /\ dbg = {}
       /\ \A c \in Chals : proc[c] = "none" /\ rc[c] = None
  ELSE /\ main # "parse" /\ watch # "none"
       /\ \A c \in Chals : proc[c] # "none"

(* What a return code may say of a challenge: how it exited, or of the     *)
(* main one 0, when main and the watcher both wait for it.                 *)
Says(c, r) == r = status[c] \/ (c = MainCB /\ r = 0)

Lives ==
  \A c \in Chals :
    /\ proc[c] \in {"none", "run"} <=> status[c] = None
    /\ rc[c] # None => proc[c] = "reaped" /\ Says(c, rc[c])

(* Between waitpid and the assignment to returncode.                       *)
Waited == wseen \notin {None, Running}

Waits ==
  /\ main = "polled" => seen # None
  /\ seen \notin {None, Running} => proc[MainCB] = "reaped" /\ Says(MainCB, seen)
  /\ wseen # None => watch \in {"any", "rest", "kill", "waited"}
  /\ watch = "waited" => Waited
  /\ Waited => proc[at] = "reaped" /\ Says(at, wseen)
  /\ \A c \in Chals \ {MainCB} :
       /\ proc[c] = "reaped" /\ rc[c] = None => at = c /\ Waited
       /\ at = c /\ (wseen # None \/ watch \in {"term", "wait"}) => rc[c] = None

(* The watcher leaves nobody behind.                                       *)
Walk ==
  /\ watch \in {"kill", "term", "wait", "waited"} =>
       \A c \in Chals : c < at => rc[c] # None
  /\ watch \in {"report", "done"} => \A c \in Chals : rc[c] # None

Logged ==
  /\ watch \notin {"report", "done"} => dbg = {}
  /\ \A c \in dbg : Crashed(c)
  /\ \A c \in Chals \ {MainCB} :
       (watch = "report" /\ c < at) \/ watch = "done" => (Crashed(c) => c \in dbg)

(* What the place of main says of the steps and of the watcher.            *)
Course ==
  /\ main \in Stepping => failed = 0
  /\ main = "blocked" => step <= Len(Script)
  /\ main \notin Stepping /\ failed = 0 => step = Len(Script) + 1
  /\ main \notin Over => failed <= 1 /\ ~ late
  /\ main = "leave" \/ (main \in {"dump", "counted"} /\ ~ late /\ timer # "off")
       => watch \in {"done", "dead"}

Inv == TypeOK /\ piped + raw <= made /\ Begun /\ Lives /\ Waits /\ Walk /\ Logged /\ Course

-----------------------------------------------------------------------------
(* Which actions change which variables.                                   *)
LEMMA Changes ==
  ASSUME [Next]_vars
  PROVE  /\ \/ UNCHANGED os
            \/ Start \/ Poll \/ Terminate
            \/ (\E c \in Chals : WatchPoll(c)) \/ WatchTerminate \/ WatchWait
            \/ \E c \in Chals : Exit(c)
         /\ UNCHANGED rc \/ PollReturns \/ WatchPollReturns \/ WatchWaitReturns
         /\ UNCHANGED <<made, piped, raw>> \/ Receive \/ Emit \/ Buffer
         /\ UNCHANGED <<kept, buf>> \/ Receive \/ Read \/ Start \/ BufferEOF
         /\ UNCHANGED mains \/ MainStep \/ Unblock \/ Read
         /\ UNCHANGED tims \/ Start \/ Leave \/ TimesOut \/ Interrupted \/ Tick
         /\ UNCHANGED wats \/ Start \/ Expire \/ WatchStep
         /\ UNCHANGED logs \/ WatchReport
<1> USE DEF Next, MainStep, WatchStep, vars, os, outs, mains, tims, wats, logs
<1>1. CASE UNCHANGED vars
  BY <1>1
<1>2. CASE MainStep
  BY <1>2
  DEF ParseFails, Start, Write, BrokenPipe, StepsDone, Poll, PollReturns, Terminate, Join, Leave,
      Count, TimesOut, Interrupted
<1>3. CASE WatchStep
  BY <1>3
  DEF WatchPoll, WatchPollReturns, WatchRest, WatchKill, WatchNext, WatchTerminate, WatchWait,
      WatchWaitReturns, WatchReport
<1>4. CASE Unblock \/ Receive \/ Read \/ Expire \/ Buffer \/ BufferEOF \/ Tick \/ Emit
  BY <1>4 DEF Unblock, Receive, Read, Expire, Buffer, BufferEOF, Tick, Emit
<1>5. CASE \E c \in Chals : Exit(c)
  BY <1>5 DEF Exit
<1> QED BY <1>1, <1>2, <1>3, <1>4, <1>5


-----------------------------------------------------------------------------
(* The bounds of the loops.                                                *)
LEMMA Bounds == /\ N \in Nat /\ 1 <= N /\ MainCB \in Chals
                /\ MaxOut \in Nat /\ Len(Script) \in Nat
BY ReplayAssumption DEF MainCB, Chals

(* Every return code is a number: neither None nor Running.                *)
LEMMA Codes == /\ 0 \in Code /\ TERM \in Code /\ Returns \subseteq Code
               /\ None \notin Code /\ Running \notin Code /\ Running # None
<1>1. TERM = -15 /\ -15 \in Int /\ 0 \in Int
  BY DEF TERM, SIGTERM
<1>2. Code \subseteq Int /\ 0 \in Code /\ TERM \in Code /\ Returns \subseteq Code
  BY <1>1, ReplayAssumption DEF Code
<1> QED BY <1>2, ReplayAssumption

(* Nothing is running at first, and the poll is not parsed.                *)
LEMMA InvInit == Init => Inv
<1> SUFFICES ASSUME Init PROVE Inv
  OBVIOUS
<1> USE Bounds DEF Init
<1>1. TypeOK
  <2>1. step \in 1 .. Len(Script) + 1 /\ at \in Chals
    BY DEF Chals
  <2>2. kept \in BOOLEAN /\ late \in BOOLEAN /\ pending \in BOOLEAN /\ expired \in BOOLEAN
    OBVIOUS
  <2> QED BY <2>1, <2>2 DEF TypeOK, MainPC, WatchPC
<1>2. piped + raw <= made
  OBVIOUS
<1>3. Begun /\ Lives /\ Waits
  BY DEF Begun, Lives, Waits, Waited, MainCB
<1>4. Walk /\ Logged /\ Course
  BY DEF Walk, Logged, Course, Stepping, Over, Final, Chals
<1> QED BY <1>1, <1>2, <1>3, <1>4 DEF Inv

-----------------------------------------------------------------------------
(* What waitpid says of a challenge: that it runs, how it exited, or, when *)
(* somebody else has waited for it, 0; never nothing.                      *)
LEMMA WaitpidSays ==
  ASSUME TypeOK, Lives, NEW c \in Chals
  PROVE  /\ WaitpidResult(c) \in Code \cup {Running}
         /\ proc[c] = "run" <=> WaitpidResult(c) = Running
         /\ proc[c] = "zombie" => WaitpidResult(c) = status[c]
         /\ proc[c] = "reaped" => WaitpidResult(c) = 0
<1>1. proc[c] \in {"none", "run", "zombie", "reaped"} /\ status[c] \in Code \cup {None}
  BY DEF TypeOK
<1>2. proc[c] = "zombie" => status[c] \in Code
  BY <1>1 DEF Lives
<1> QED BY <1>1, <1>2, Codes DEF WaitpidResult

(* Whoever waits for a challenge, it has ended: it was not started, it is  *)
(* reaped with the code it exited with, or it had been reaped before.      *)
LEMMA ReapedSays ==
  ASSUME Inv, NEW c \in Chals, proc[c] # "none", Reap(c), WaitpidResult(c) # Running
  PROVE  /\ proc'[c] = "reaped" /\ UNCHANGED status
         /\ WaitpidResult(c) \in Code
         /\ WaitpidResult(c) = status[c] \/ (proc[c] = "reaped" /\ WaitpidResult(c) = 0)
<1>1. proc[c] \in {"zombie", "reaped"} /\ proc \in [Chals -> {"none", "run", "zombie", "reaped"}]
  BY WaitpidSays DEF Inv, TypeOK
<1>2. proc' = [proc EXCEPT ![c] = "reaped"]
  BY <1>1 DEF Reap
<1> QED BY <1>1, <1>2, WaitpidSays DEF Reap, Inv

(* A challenge that has ended stays so, with the code it exited with.      *)
LEMMA EndedStays ==
  ASSUME Inv, [Next]_vars, NEW c \in Chals, proc[c] \notin {"none", "run"}
  PROVE  status'[c] = status[c] /\ (proc[c] = "reaped" => proc'[c] = "reaped")
                                /\ proc'[c] \notin {"none", "run"}
<1> USE DEF Inv, TypeOK
<1>1. CASE UNCHANGED os
  BY <1>1 DEF os
<1>2. CASE Start
  BY <1>2 DEF Start, Go, Begun
<1>3. ASSUME NEW d \in Chals, Reap(d)
      PROVE  status'[c] = status[c] /\ proc'[c] \in {proc[c], "reaped"}
  BY <1>3 DEF Reap
<1>4. ASSUME NEW d \in Chals, Sigterm(d)
      PROVE  status'[c] = status[c] /\ proc'[c] = proc[c]
  BY <1>4 DEF Sigterm, os
<1>5. CASE \E d \in Chals : Exit(d)
  BY <1>5 DEF Exit
<1>6. CASE Poll \/ Terminate \/ (\E d \in Chals : WatchPoll(d)) \/ WatchTerminate \/ WatchWait
  <2>1. UNCHANGED os \/ \E d \in Chals : Reap(d) \/ Sigterm(d)
    BY <1>6, Bounds DEF Poll, Terminate, WatchPoll, WatchTerminate, WatchWait
  <2> QED BY <1>1, <1>3, <1>4, <2>1
<1> QED BY <1>1, <1>2, <1>5, <1>6, Changes

(* A returncode that is set stays set, though main may set the one of the  *)
(* main challenge again.                                                   *)
LEMMA ReturncodeStays ==
  ASSUME Inv, [Next]_vars, NEW c \in Chals, rc[c] # None
  PROVE  rc'[c] # None
<1> USE DEF Inv, TypeOK
<1>1. CASE UNCHANGED rc
  BY <1>1
<1>2. CASE PollReturns
  BY <1>2 DEF PollReturns, Waits
<1>3. CASE WatchPollReturns
  BY <1>3 DEF WatchPollReturns
<1>4. CASE WatchWaitReturns
  BY <1>4 DEF WatchWaitReturns, Waits, Waited
<1> QED BY <1>1, <1>2, <1>3, <1>4, Changes

-----------------------------------------------------------------------------
(* Every variable keeps its type: what the challenges are, ...             *)
LEMMA ChalsTyped ==
  ASSUME Inv, [Next]_vars
  PROVE  /\ proc' \in [Chals -> {"none", "run", "zombie", "reaped"}]
         /\ status' \in [Chals -> Code \cup {None}]
         /\ rc' \in [Chals -> Code \cup {None}]
<1> USE DEF Inv, TypeOK
<1> DEFINE Typed == /\ proc' \in [Chals -> {"none", "run", "zombie", "reaped"}]
                    /\ status' \in [Chals -> Code \cup {None}]
<1>1. Typed
  <2>1. CASE UNCHANGED os
    BY <2>1 DEF os
  <2>2. CASE Start
    BY <2>2 DEF Start
  <2>3. ASSUME NEW c \in Chals, Reap(c) PROVE Typed
    BY <2>3 DEF Reap
  <2>4. ASSUME NEW c \in Chals, Sigterm(c) PROVE Typed
    BY <2>4, Codes DEF Sigterm, os
  <2>5. CASE \E c \in Chals : Exit(c)
    BY <2>5, Codes DEF Exit
  <2>6. CASE Poll \/ Terminate \/ (\E c \in Chals : WatchPoll(c)) \/ WatchTerminate \/ WatchWait
    <3>1. UNCHANGED os \/ \E c \in Chals : Reap(c) \/ Sigterm(c)
      BY <2>6, Bounds DEF Poll, Terminate, WatchPoll, WatchTerminate, WatchWait
    <3> QED BY <2>1, <2>3, <2>4, <3>1
  <2> QED BY <2>1, <2>2, <2>5, <2>6, Changes
<1>2. rc' \in [Chals -> Code \cup {None}]
  <2>1. CASE UNCHANGED rc
    BY <2>1
  <2>2. CASE PollReturns
    BY <2>2 DEF PollReturns
  <2>3. CASE WatchPollReturns \/ WatchWaitReturns
    BY <2>3 DEF WatchPollReturns, WatchWaitReturns, Waits, Waited
  <2> QED BY <2>1, <2>2, <2>3, Changes
<1> QED BY <1>1, <1>2

(* ... the output, of which no more is read than was written, ...          *)
LEMMA OutputTyped ==
  ASSUME Inv, [Next]_vars
  PROVE  /\ made' \in 0 .. MaxOut /\ piped' \in 0 .. MaxOut /\ raw' \in 0 .. MaxOut
         /\ piped' + raw' <= made'
         /\ kept' \in BOOLEAN
         /\ buf' \in {"none", "run", "done"}
<1> USE Bounds DEF Inv, TypeOK
<1>1. /\ made' \in 0 .. MaxOut /\ piped' \in 0 .. MaxOut /\ raw' \in 0 .. MaxOut
      /\ piped' + raw' <= made'
  <2>1. CASE Receive
    BY <2>1 DEF Receive
  <2>2. CASE Emit
    BY <2>2 DEF Emit
  <2>3. CASE Buffer
    BY <2>3 DEF Buffer
  <2>4. CASE UNCHANGED <<made, piped, raw>>
    BY <2>4
  <2> QED BY <2>1, <2>2, <2>3, <2>4, Changes
<1>2. kept' \in BOOLEAN
  BY Changes DEF Receive, Read, Start, BufferEOF
<1>3. buf' \in {"none", "run", "done"}
  BY Changes DEF Receive, Read, Start, BufferEOF
<1> QED BY <1>1, <1>2, <1>3

(* ... where main is, ...                                                  *)
LEMMA MainTyped ==
  ASSUME Inv, [Next]_vars
  PROVE  /\ main' \in MainPC /\ step' \in 1 .. Len(Script) + 1
         /\ seen' \in Code \cup {None, Running} /\ failed' \in 0 .. 2 /\ late' \in BOOLEAN
<1> USE Bounds DEF Inv, TypeOK, MainPC
<1>1. CASE UNCHANGED mains
  BY <1>1 DEF mains
<1>2. CASE Read \/ Write \/ Unblock \/ BrokenPipe
  <2>1. /\ step <= Len(Script)
        /\ StepOk \/ StepFails \/ (main' = "blocked" /\ UNCHANGED <<step, failed>>)
        /\ UNCHANGED <<seen, late>>
    BY <1>2 DEF Read, Write, Unblock, BrokenPipe, AtStep, Course
  <2>2. step' \in 1 .. Len(Script) + 1
    BY <2>1 DEF StepOk, StepFails
  <2> QED BY <2>1, <2>2 DEF StepOk, StepFails
<1>3. CASE Poll \/ PollReturns \/ Terminate
  BY <1>3, WaitpidSays DEF Poll, PollReturns, Terminate
<1>4. CASE TimesOut
  <2>1. failed \in 0 .. 1
    BY <1>4 DEF TimesOut, Guarded, Course, Over, Final
  <2> QED BY <1>4, <2>1 DEF TimesOut
<1>5. CASE ParseFails \/ Start \/ StepsDone \/ Join \/ Leave \/ Count \/ Interrupted
  BY <1>5 DEF ParseFails, Start, StepsDone, Join, Leave, Count, Interrupted, Go
<1> QED BY <1>1, <1>2, <1>3, <1>4, <1>5, Changes DEF MainStep

(* ... and where the timer, the watcher and the log are.                   *)
LEMMA ThreadsTyped ==
  ASSUME Inv, [Next]_vars
  PROVE  /\ timer' \in {"off", "armed", "due", "fired", "cancelled"} /\ pending' \in BOOLEAN
         /\ watch' \in WatchPC /\ at' \in Chals /\ expired' \in BOOLEAN
         /\ wseen' \in Code \cup {None, Running}
         /\ dbg' \subseteq Chals /\ gen' \subseteq dbg'
<1> USE DEF Inv, TypeOK
<1>1. timer' \in {"off", "armed", "due", "fired", "cancelled"} /\ pending' \in BOOLEAN
  BY Changes DEF Start, Leave, TimesOut, Interrupted, Tick, tims
<1>2. expired' \in BOOLEAN
  BY Changes
  DEF WatchStep, Start, Expire, WatchPoll, WatchPollReturns, WatchRest, WatchKill, WatchNext,
      WatchTerminate, WatchWait, WatchWaitReturns, WatchReport, wats
<1>3. watch' \in WatchPC /\ at' \in Chals
  <2>1. CASE WatchKill \/ WatchNext \/ WatchWait \/ WatchWaitReturns \/ WatchReport
    BY <2>1, Bounds
    DEF WatchKill, WatchNext, WatchWait, WatchWaitReturns, WatchReport, Advance, Chals, WatchPC
  <2>2. CASE WatchRest \/ WatchTerminate \/ WatchPollReturns \/ \E c \in Chals : WatchPoll(c)
    BY <2>2 DEF WatchRest, WatchTerminate, WatchPollReturns, WatchPoll, WatchPC
  <2>3. CASE UNCHANGED wats \/ Start \/ Expire
    BY <2>3 DEF wats, Start, Expire, WatchPC
  <2> QED BY <2>1, <2>2, <2>3, Changes DEF WatchStep
<1>4. wseen' \in Code \cup {None, Running}
  BY Changes, WaitpidSays
  DEF WatchStep, Start, Expire, WatchPoll, WatchPollReturns, WatchRest, WatchKill, WatchNext,
      WatchTerminate, WatchWait, WatchWaitReturns, WatchReport, wats
<1>5. dbg' \subseteq Chals /\ gen' \subseteq dbg'
  BY Changes DEF WatchReport, logs
<1> QED BY <1>1, <1>2, <1>3, <1>4, <1>5

(* All of that together.                                                   *)
LEMMA TypeStep ==
  ASSUME Inv, [Next]_vars
  PROVE  TypeOK'
BY ChalsTyped, OutputTyped, MainTyped, ThreadsTyped DEF TypeOK, Chals

-----------------------------------------------------------------------------
(* The challenges start with the watcher and the timer, and not after a    *)
(* poll that could not be parsed.                                          *)
LEMMA BegunStep ==
  ASSUME Inv, [Next]_vars
  PROVE  Begun'
<1> USE DEF Inv, TypeOK, Begun
<1>1. CASE timer = "off" /\ ~ Start
  <2>1. /\ ~ WatchStep /\ ~ Tick /\ ~ TimesOut /\ ~ Interrupted /\ ~ Read /\ ~ Terminate
        /\ ~ Unblock /\ ~ \E c \in Chals : Exit(c)
        /\ MainStep => ParseFails \/ Count
    BY <1>1
    DEF WatchStep, WatchPoll, WatchPollReturns, WatchRest, WatchKill, WatchNext, WatchTerminate,
        WatchWait, WatchWaitReturns, WatchReport, Tick, TimesOut, Interrupted, Read, AtStep, Exit,
        MainStep, Write, Unblock, BrokenPipe, StepsDone, Poll, PollReturns, Terminate, Join,
        Leave, Go
  <2>2. UNCHANGED <<os, rc, tims, watch, wseen, logs>>
    BY <1>1, <2>1, Changes
    DEF MainStep, ParseFails, Count, Poll, PollReturns, WatchStep, Leave, Go, Expire, wats
  <2>3. /\ main' \in {"parse", "dump", "counted"} /\ (main' # "parse" => failed' > 0)
        /\ UNCHANGED seen
    BY <1>1, <2>1, Changes DEF ParseFails, Count, Go, mains
  <2> QED BY <1>1, <2>2, <2>3 DEF os, tims, logs
<1>2. CASE Start
  BY <1>2 DEF Start, Go
<1>3. CASE timer # "off"
  <2>1. timer' # "off"
    BY <1>3, Changes DEF Start, Leave, TimesOut, Interrupted, Tick, tims, Go
  <2>2. main' # "parse"
    BY <1>3, Changes
    DEF MainStep, ParseFails, Start, Write, Unblock, BrokenPipe, StepsDone, Poll, PollReturns,
        Terminate, Join, Leave, Count, TimesOut, Interrupted, Read, StepOk, StepFails, Go, mains
  <2>3. watch' # "none"
    BY <1>3, Changes
    DEF WatchStep, Start, Expire, WatchPoll, WatchPollReturns, WatchRest, WatchKill, WatchNext,
        WatchTerminate, WatchWait, WatchWaitReturns, WatchReport, Advance, wats, Go
  <2>4. ASSUME NEW c \in Chals PROVE proc'[c] # "none"
    BY <1>3, Changes, Bounds
    DEF Start, Poll, Terminate, WatchPoll, WatchTerminate, WatchWait, Exit, Reap, Sigterm, os, Go
  <2> QED BY <2>1, <2>2, <2>3, <2>4
<1> QED BY <1>1, <1>2, <1>3

(* A returncode is set only of a challenge that is reaped, to what it      *)
(* exited with or, when both have waited for the main challenge, to 0.     *)
LEMMA LivesStep ==
  ASSUME Inv, [Next]_vars
  PROVE  Lives'
<1> USE DEF Inv, TypeOK
<1>1. ASSUME NEW c \in Chals PROVE proc'[c] \in {"none", "run"} <=> status'[c] = None
  <2>1. CASE proc[c] \notin {"none", "run"}
    BY <2>1, EndedStays DEF Lives
  <2>2. CASE proc[c] \in {"none", "run"}
    <3>1. status[c] = None /\ proc[c] # "zombie"
      BY <2>2 DEF Lives
    <3>2. CASE UNCHANGED os \/ Start
      BY <2>2, <3>1, <3>2 DEF Start, os
    <3>3. ASSUME NEW d \in Chals, Reap(d) PROVE proc'[c] = proc[c] /\ status'[c] = None
      BY <3>1, <3>3 DEF Reap
    <3>4. ASSUME NEW d \in Chals, Sigterm(d) \/ Exit(d)
          PROVE  proc'[c] \in {"none", "run"} <=> status'[c] = None
      BY <2>2, <3>1, <3>4, Codes DEF Sigterm, Exit, os
    <3>5. UNCHANGED os \/ Start \/ \E d \in Chals : Reap(d) \/ Sigterm(d) \/ Exit(d)
      BY Changes, Bounds DEF Poll, Terminate, WatchPoll, WatchTerminate, WatchWait
    <3> QED BY <2>2, <3>1, <3>2, <3>3, <3>4, <3>5
  <2> QED BY <2>1, <2>2
<1>2. ASSUME NEW c \in Chals, rc'[c] # None PROVE proc'[c] = "reaped" /\ Says(c, rc[c])'
  <2>1. proc[c] = "reaped" /\ Says(c, rc'[c])
    <3>1. CASE rc'[c] = rc[c]
      BY <1>2, <3>1 DEF Lives
    <3>2. CASE PollReturns
      BY <1>2, <3>2 DEF PollReturns, Waits, Lives
    <3>3. CASE WatchPollReturns \/ WatchWaitReturns
      BY <1>2, <3>3 DEF WatchPollReturns, WatchWaitReturns, Waits, Waited, Lives
    <3> QED BY <3>1, <3>2, <3>3, Changes
  <2> QED BY <2>1, EndedStays DEF Says
<1> QED BY <1>1, <1>2 DEF Lives

(* Between a waitpid and its assignment the challenge stays reaped, and of *)
(* a challenge other than the main one only the watcher is in between.     *)
LEMMA WaitsStep ==
  ASSUME Inv, [Next]_vars
  PROVE  Waits'
<1> USE DEF Inv, TypeOK
<1>w. UNCHANGED wats \/ Start \/ Expire \/ WatchStep
  BY Changes
<1>1. (main = "polled" => seen # None)'
  <2>1. CASE Poll
    BY <2>1, WaitpidSays, Bounds, Codes DEF Poll
  <2>2. CASE ~ Poll
    BY <2>2, Changes
    DEF MainStep, ParseFails, Start, Write, Unblock, BrokenPipe, StepsDone, PollReturns, Terminate,
        Join, Leave, Count, TimesOut, Interrupted, Read, StepOk, StepFails, Go, mains, Waits
  <2> QED BY <2>1, <2>2
<1>2. (seen \notin {None, Running} => proc[MainCB] = "reaped" /\ Says(MainCB, seen))'
  <2>1. CASE seen' \in {seen, None}
    BY <2>1, EndedStays, Bounds DEF Waits, Says
  <2>2. CASE Poll
    <3>1. proc[MainCB] # "none"
      BY <2>2, Bounds DEF Poll, Begun
    <3>2. CASE Reap(MainCB) /\ seen' = WaitpidResult(MainCB) /\ seen' # Running
      BY <3>1, <3>2, ReapedSays, Bounds DEF Says
    <3> QED BY <2>1, <2>2, <3>2 DEF Poll
  <2> QED
    BY <2>1, <2>2, Changes
    DEF MainStep, ParseFails, Start, Write, Unblock, BrokenPipe, StepsDone, PollReturns, Terminate,
        Join, Leave, Count, TimesOut, Interrupted, Read, mains
<1>3. (wseen # None => watch \in {"any", "rest", "kill", "waited"})'
  BY <1>w
  DEF WatchStep, Start, Expire, WatchPoll, WatchPollReturns, WatchRest, WatchKill, WatchNext,
      WatchTerminate, WatchWait, WatchWaitReturns, WatchReport, Advance, wats, Waits, Begun, Go
<1>4. ASSUME NEW c \in Chals, WatchPoll(c) \/ (WatchWait /\ watch' = "waited" /\ at = c),
             wseen' # Running
      PROVE  at' = c /\ Waited' /\ (proc[c] = "reaped" /\ Says(c, wseen))'
  <2>1. Reap(c) /\ wseen' = WaitpidResult(c) /\ at' = c /\ wseen = None
    BY <1>4 DEF WatchPoll, WatchWait, Advance, Waits
  <2>2. proc[c] # "none"
    BY <1>4 DEF Begun, WatchPoll, WatchWait
  <2>3. c # MainCB => proc[c] # "reaped"
    BY <1>4, <2>1 DEF WatchPoll, WatchWait, Waits, Waited
  <2>4. /\ proc'[c] = "reaped" /\ wseen' \in Code
        /\ wseen' = status'[c] \/ (c = MainCB /\ wseen' = 0)
    BY <1>4, <2>1, <2>2, <2>3, ReapedSays
  <2> QED BY <2>1, <2>4, Codes DEF Waited, Says
<1>5. wseen' \notin {None, Running} =>
        (\E c \in Chals : WatchPoll(c) \/ (WatchWait /\ watch' = "waited" /\ at = c))
        \/ UNCHANGED <<at, wseen>>
  <2>1. CASE WatchWait \/ WatchWaitReturns \/ WatchReport \/ WatchKill \/ WatchNext
    BY <2>1
    DEF WatchWait, WatchWaitReturns, WatchReport, WatchKill, WatchNext, Advance, Waits
  <2>2. CASE UNCHANGED wats \/ Start \/ Expire \/ WatchRest \/ WatchTerminate \/ WatchPollReturns
    BY <2>2 DEF wats, Start, Expire, WatchRest, WatchTerminate, WatchPollReturns
  <2> QED BY <1>w, <2>1, <2>2 DEF WatchStep
<1>6. (Waited => proc[at] = "reaped" /\ Says(at, wseen))'
  <2>1. CASE UNCHANGED <<at, wseen>>
    BY <2>1, EndedStays DEF Waits, Waited, Says
  <2> QED BY <1>4, <1>5, <2>1 DEF Waited
<1>7. (watch = "waited" => Waited)'
  <2>1. CASE WatchWait
    <3>1. watch' = "waited" => wseen' # Running
      BY <2>1, WaitpidSays DEF WatchWait, Advance
    <3> QED BY <1>4, <2>1, <3>1
  <2>2. CASE ~ WatchWait
    <3>1. watch' = "waited" => watch = "waited"
      BY <1>w, <2>2
      DEF WatchStep, Start, Expire, WatchPoll, WatchPollReturns, WatchRest, WatchKill, WatchNext,
          WatchTerminate, WatchWaitReturns, WatchReport, Advance, wats
    <3>2. watch = "waited" /\ watch' = "waited" => UNCHANGED wseen
      BY <1>w, <2>2
      DEF WatchStep, Start, Go, Begun, Expire, WatchPoll, WatchPollReturns, WatchRest, WatchKill,
          WatchNext, WatchTerminate, WatchWaitReturns, WatchReport, Advance, wats
    <3> QED BY <3>1, <3>2 DEF Waits, Waited
  <2> QED BY <2>1, <2>2
<1>8. ASSUME NEW c \in Chals \ {MainCB}, proc'[c] = "reaped", rc'[c] = None
      PROVE  at' = c /\ Waited'
  <2>1. CASE proc[c] = "reaped"
    <3>1. rc[c] = None /\ at = c /\ Waited
      BY <1>8, <2>1, ReturncodeStays DEF Waits
    <3>2. ~ WatchPollReturns /\ ~ WatchWaitReturns
      BY <1>8, <3>1 DEF WatchPollReturns, WatchWaitReturns, Waited
    <3>3. UNCHANGED <<at, wseen>>
      BY <1>w, <3>1, <3>2
      DEF WatchStep, Start, Expire, WatchPoll, WatchRest, WatchKill, WatchNext, WatchTerminate,
          WatchWait, WatchReport, wats, Waits, Waited
    <3> QED BY <3>1, <3>3 DEF Waited
  <2>2. CASE proc[c] # "reaped"
    <3>1. WatchPoll(c) \/ (WatchWait /\ watch' = "waited" /\ at = c)
      BY <1>8, <2>2, Changes
      DEF Start, Poll, Terminate, WatchPoll, WatchTerminate, WatchWait, Exit, Reap, Sigterm, os
    <3>2. wseen' # Running
      BY <1>8, <2>2, <3>1, WaitpidSays DEF WatchPoll, WatchWait, Advance, Reap
    <3> QED BY <1>4, <3>1, <3>2
  <2> QED BY <2>1, <2>2
<1>9. ASSUME NEW c \in Chals \ {MainCB}, at' = c, wseen' # None \/ watch' \in {"term", "wait"}
      PROVE  rc'[c] = None
  <2>1. CASE WatchPollReturns \/ WatchWaitReturns
    BY <1>9, <2>1 DEF WatchPollReturns, WatchWaitReturns, Advance, Waits
  <2>2. CASE ~ WatchPollReturns /\ ~ WatchWaitReturns
    <3>1. rc'[c] = rc[c]
      BY <2>2, Changes DEF PollReturns
    <3>2. CASE WatchWait \/ WatchReport \/ WatchKill \/ WatchNext
      <4>1. watch \notin {"any", "rest", "kill", "waited"} \/ wseen = None
        BY <3>2 DEF WatchKill, WatchNext, WatchWait, WatchReport
      <4>2. wseen = None \/ UNCHANGED <<watch, at, wseen>>
        BY <4>1 DEF Waits
      <4> QED
        BY <1>9, <3>1, <3>2, <4>1, <4>2
        DEF WatchKill, WatchNext, WatchWait, WatchReport, Advance, Waits
    <3>3. CASE UNCHANGED wats \/ Start \/ Expire \/ WatchRest \/ WatchTerminate
      BY <1>9, <3>1, <3>3 DEF Start, Go, Begun, Expire, WatchRest, WatchTerminate, wats, Waits
    <3>4. CASE \E d \in Chals : WatchPoll(d)
      BY <1>9, <3>1, <3>4 DEF WatchPoll
    <3> QED BY <1>w, <2>2, <3>2, <3>3, <3>4 DEF WatchStep
  <2> QED BY <2>1, <2>2
<1> QED BY <1>1, <1>2, <1>3, <1>6, <1>7, <1>8, <1>9 DEF Waits, Waited, MainCB, Chals

(* The watcher goes to the next challenge only when the returncode of the  *)
(* one it is at is set.                                                    *)
LEMMA WalkStep ==
  ASSUME Inv, [Next]_vars
  PROVE  Walk'
<1> USE DEF Inv, TypeOK
<1> DEFINE Loop == {"kill", "term", "wait", "waited"}
<1>w. UNCHANGED wats \/ Start \/ Expire \/ WatchStep
  BY Changes
<1>1. ASSUME Advance, watch \in Loop, rc'[at] # None PROVE Walk'
  <2>1. \A c \in Chals : c <= at => rc'[c] # None
    BY <1>1, ReturncodeStays DEF Walk, Chals
  <2> QED BY <1>1, <2>1, Bounds DEF Advance, Walk, Chals
<1>2. CASE WatchNext \/ WatchWaitReturns \/ (WatchWait /\ Advance)
  <2>1. Advance /\ watch \in Loop
    BY <1>2 DEF WatchNext, WatchWaitReturns, WatchWait
  <2>2. rc'[at] # None
    BY <1>2 DEF WatchNext, WatchWaitReturns, WatchWait, Advance, Waits, Waited
  <2> QED BY <1>1, <2>1, <2>2
<1>3. CASE /\ watch' \in Loop => (watch \in Loop /\ at' = at) \/ at' = 1
           /\ watch' \in {"report", "done"} => watch \in {"report", "done"}
  BY <1>3, ReturncodeStays DEF Walk, Chals
<1>4. CASE WatchWait /\ ~ Advance
  BY <1>3, <1>4 DEF WatchWait
<1>5. CASE WatchKill \/ WatchTerminate \/ WatchReport \/ WatchPollReturns
  BY <1>3, <1>5 DEF WatchKill, WatchTerminate, WatchReport, WatchPollReturns
<1>6. CASE UNCHANGED wats \/ Start \/ Expire \/ WatchRest \/ \E c \in Chals : WatchPoll(c)
  BY <1>3, <1>6 DEF wats, Start, Expire, WatchRest, WatchPoll
<1> QED BY <1>w, <1>2, <1>4, <1>5, <1>6 DEF WatchStep

(* What the report takes for a crash, by the absolute value of the code.   *)
LEMMA CrashCodes ==
  ASSUME NEW r \in Code
  PROVE  (IF r < 0 THEN -r ELSE r) \in {0, SIGTERM} <=> r \in {0, SIGTERM, TERM}
BY ReplayAssumption DEF Code, TERM, SIGTERM

(* The log holds the challenges that crashed, and no others.               *)
LEMMA LoggedStep ==
  ASSUME Inv, [Next]_vars
  PROVE  Logged'
<1> USE DEF Inv, TypeOK
<1>w. (UNCHANGED wats \/ Start \/ Expire \/ WatchStep) /\ (UNCHANGED logs \/ WatchReport)
  BY Changes
<1>1. ASSUME watch \in {"report", "done"}, NEW c \in Chals
      PROVE  /\ rc[c] # None /\ Says(c, rc[c])
             /\ Crashed(c)' <=> Crashed(c)
  <2>1. rc[c] # None /\ proc[c] = "reaped" /\ Says(c, rc[c])
    BY <1>1 DEF Walk, Lives
  <2> QED BY <2>1, EndedStays DEF Crashed
<1>2. CASE WatchReport
  <2>1. watch = "report" /\ rc[at] \in Code /\ Says(at, rc[at])
    BY <1>1, <1>2 DEF WatchReport
  <2>2. SigOf(at) \in {0, SIGTERM} <=> rc[at] \in {0, SIGTERM, TERM}
    BY <2>1, CrashCodes DEF SigOf
  <2>3. dbg' = IF rc[at] \in {0, SIGTERM, TERM} THEN dbg ELSE dbg \cup {at}
    BY <1>2, <2>2 DEF WatchReport, logs
  <2>4. /\ rc[at] \notin {0, SIGTERM, TERM} => Crashed(at)
        /\ at # MainCB /\ Crashed(at) => rc[at] \notin {0, SIGTERM, TERM}
    BY <2>1, Codes DEF Says, Crashed
  <2>5. \A c \in dbg' : Crashed(c)'
    BY <1>1, <2>1, <2>3, <2>4 DEF Logged
  <2>6. \A c \in Chals \ {MainCB} : c <= at => (Crashed(c)' => c \in dbg')
    BY <1>1, <2>1, <2>3, <2>4 DEF Logged, Chals
  <2>7. (watch' = "report" /\ at' = at + 1) \/ (watch' = "done" /\ at = N)
    BY <1>2, <2>1, Bounds DEF WatchReport, Chals
  <2>8. \A c \in Chals : (watch' = "report" /\ c < at') \/ watch' = "done" => c <= at
    BY <2>7, Bounds DEF Chals
  <2> QED BY <2>5, <2>6, <2>7, <2>8 DEF Logged, Chals, MainCB
<1>3. CASE watch \in {"report", "done"} /\ UNCHANGED <<watch, at, dbg>>
  BY <1>1, <1>3 DEF Logged
<1>4. CASE watch \notin {"report", "done"}
  <2>1. dbg' = {} /\ watch' # "done" /\ (watch' = "report" => at' = 1)
    BY <1>4, <1>w
    DEF WatchStep, Start, Expire, WatchPoll, WatchPollReturns, WatchRest, WatchKill, WatchNext,
        WatchTerminate, WatchWait, WatchWaitReturns, WatchReport, Advance, wats, logs, Logged
  <2> QED BY <2>1 DEF Logged, Chals
<1>5. ~ WatchReport /\ watch \in {"report", "done"} => UNCHANGED <<watch, at, dbg>>
  BY <1>w
  DEF WatchStep, Start, Go, Begun, Expire, WatchPoll, WatchPollReturns, WatchRest, WatchKill,
      WatchNext, WatchTerminate, WatchWait, WatchWaitReturns, wats, logs
<1> QED BY <1>2, <1>3, <1>4, <1>5

(* Without a failure main has been through all steps, and without being    *)
(* late it leaves only when the watcher is over.                           *)
LEMMA CourseStep ==
  ASSUME Inv, [Next]_vars
  PROVE  Course'
<1> USE DEF Inv, TypeOK, Stepping, Over, Final
<1>1. ASSUME watch \in {"done", "dead"} PROVE watch' \in {"done", "dead"}
  <2>1. ~ Start
    BY <1>1 DEF Start, Go, Begun
  <2> QED
    BY <1>1, <2>1, Changes
    DEF WatchStep, Expire, WatchPoll, WatchPollReturns, WatchRest, WatchKill, WatchNext,
        WatchTerminate, WatchWait, WatchWaitReturns, WatchReport, wats
<1>2. timer = "off" => timer' = "off" \/ Start
  BY Changes DEF Leave, TimesOut, Interrupted, Tick, tims, Begun
<1>3. CASE UNCHANGED mains
  BY <1>1, <1>2, <1>3 DEF mains, Course, Start, Go
<1>4. CASE Read \/ Write \/ Unblock \/ BrokenPipe
  <2>1. /\ main \in Stepping /\ step <= Len(Script)
        /\ \/ StepOk \/ StepFails
           \/ main' = "blocked" /\ UNCHANGED <<step, failed>>
        /\ UNCHANGED late
    BY <1>4 DEF Read, Write, Unblock, BrokenPipe, AtStep, Course
  <2> QED BY <2>1 DEF StepOk, StepFails, Course
<1>5. CASE ParseFails \/ Start \/ StepsDone
  BY <1>1, <1>5, Bounds DEF ParseFails, Start, StepsDone, Go, Course, Begun, tims
<1>6. CASE Poll \/ PollReturns \/ Terminate \/ Interrupted
  BY <1>6 DEF Poll, PollReturns, Terminate, Interrupted, Go, Course
<1>7. CASE TimesOut
  BY <1>7 DEF TimesOut, Course
<1>8. CASE Join \/ Leave \/ Count
  BY <1>1, <1>2, <1>8 DEF Join, Leave, Count, Start, Go, Course, tims, wats
<1> QED BY <1>3, <1>4, <1>5, <1>6, <1>7, <1>8, Changes DEF MainStep

-----------------------------------------------------------------------------
(* No step breaks the invariant, ...                                       *)
LEMMA InvStep == Inv /\ [Next]_vars => Inv'
<1> SUFFICES ASSUME Inv, [Next]_vars PROVE Inv'
  OBVIOUS
<1>1. TypeOK' /\ (piped + raw <= made)'
  BY TypeStep, OutputTyped
<1>2. Begun' /\ Lives' /\ Waits'
  BY BegunStep, LivesStep, WaitsStep
<1>3. Walk' /\ Logged' /\ Course'
  BY WalkStep, LoggedStep, CourseStep
<1> QED BY <1>1, <1>2, <1>3 DEF Inv

(* ... so it holds in every reachable state.                               *)
LEMMA InvHolds == Spec => []Inv
<1>1. Init => Inv
  BY InvInit
<1>2. Inv /\ [Next]_vars => Inv'
  BY InvStep
<1> QED BY <1>1, <1>2, PTL DEF Spec

(* Every variable has its type, in every reachable state.                  *)
THEOREM TypeCorrect == Spec => []TypeOK
<1>1. Inv => TypeOK
  BY DEF Inv
<1> QED BY <1>1, InvHolds, PTL

(* When run_pov returns a result that is not a timeout, chal_watcher is    *)
(* over and, unless it died of an OSError, no challenge is left running,   *)
(* only those that crashed are in the log, and all of them are, but for    *)
(* the main one, whose code may be lost between the two that wait for it.  *)
THEOREM ReportsBeforeCounting == Spec => []ReportedBeforeCounted
<1>1. Inv => ReportedBeforeCounted
  <2> SUFFICES ASSUME Inv, OnTime PROVE ReportedBeforeCounted
    BY DEF ReportedBeforeCounted
  <2>1. watch \in {"done", "dead"}
    BY DEF OnTime, Inv, Course
  <2>2. watch = "done" => \A c \in Chals : proc[c] # "run"
    BY DEF Inv, Walk, Lives
  <2>3. watch = "done" => \A c \in Chals : /\ c \in dbg => Crashed(c)
                                           /\ c # MainCB /\ Crashed(c) => c \in dbg
    BY DEF Inv, Logged
  <2> QED BY <2>1, <2>2, <2>3 DEF ReportedBeforeCounted
<1> QED BY <1>1, InvHolds, PTL

(* The text of a replay, part by part.                                     *)
LEMMA TextOfPoll ==
  /\ PollText.file <=> main = "counted"
  /\ PollText.timedOut <=> main = "counted" /\ late
  /\ PollText.pollsFailed = IF main = "interrupted" \/ (main = "counted" /\ failed > 0)
                             THEN 1 ELSE 0
  /\ PollText.debugSig = IF main = "counted" THEN FirstSig(dbg) ELSE 0
  /\ PollText.crashSig = IF main = "counted" THEN FirstSig(gen) ELSE 0
  /\ PollText.ret = IF main = "raised" THEN 1 ELSE PollText.pollsFailed
BY Zenon DEF PollText

(* How TestResult judges the text of a poll.                               *)
LEMMA PollJudged ==
  ASSUME NEW text, NEW totals
  PROVE  LET r == PollResult(text, totals) IN
           /\ text.timedOut => r = [passed |-> 0, code |-> 3]
           /\ ~ text.timedOut /\ text.pollsFailed > 0 => r = [passed |-> 0, code |-> 6]
           /\ ~ text.timedOut /\ ~ (text.pollsFailed > 0) /\ ~ totals.printed
                => r = [passed |-> 0, code |-> 1]
           /\ ~ text.timedOut /\ ~ (text.pollsFailed > 0) /\ totals.printed
              /\ IsSig(ResultSig(text)) => r = [passed |-> 0, code |-> 5]
           /\ ~ text.timedOut /\ ~ (text.pollsFailed > 0) /\ totals.printed
              /\ ~ IsSig(ResultSig(text)) => r = [passed |-> totals.passed, code |-> 0]
BY Zenon DEF PollResult

(* The verdict of a poll that was counted in time and without a failure:   *)
(* the first two signals in the text, whatever they are, decide.           *)
LEMMA SignalsDecide ==
  ASSUME main = "counted", ~ late, failed = 0
  PROVE  Judged = [passed |-> 1, code |-> 0]
           <=> {FirstSig(dbg), FirstSig(gen)} \cap PovSignals = {}
<1> DEFINE debug  == FirstSig(dbg)
           crash  == FirstSig(gen)
           cqe    == CheckCqe(crash, FALSE, 0)
           totals == Totals(PollText, FALSE, FALSE, FALSE, "none")
<1>1. PollText.file /\ ~ PollText.timedOut
  BY TextOfPoll
<1>2. PollText.pollsFailed = 0 /\ PollText.ret = 0
  BY TextOfPoll
<1>3. PollText.debugSig = debug /\ PollText.crashSig = crash
  BY TextOfPoll
<1>4. cqe = IF crash \in PovSignals THEN -1 ELSE 0
  BY DEF CheckCqe
<1>5. totals.printed
  BY <1>1 DEF Totals
<1>6. totals.passed = IF 0 = cqe THEN 1 ELSE 0
  BY <1>1, <1>2, <1>3, Zenon DEF Totals
<1>7. Judged = PollResult(PollText, totals)
  BY Zenon DEF Judged, TestResult
<1> HIDE DEF debug, crash, cqe, totals
<1>8. totals.passed = IF crash \in PovSignals THEN 0 ELSE 1
  BY <1>4, <1>6
<1>9. ResultSig(PollText) = IF debug # 0 THEN debug ELSE crash
  BY <1>3 DEF ResultSig
<1>10. Judged = IF IsSig(ResultSig(PollText)) THEN [passed |-> 0, code |-> 5]
                ELSE [passed |-> totals.passed, code |-> 0]
  BY <1>1, <1>2, <1>5, <1>7, PollJudged
<1>11. 0 \notin PovSignals
  BY DEF PovSignals, SIGSEGV, SIGILL, SIGBUS
<1>12. Judged = [passed |-> 1, code |-> 0] <=> debug \notin PovSignals /\ crash \notin PovSignals
  BY <1>8, <1>9, <1>10, <1>11 DEF IsSig
<1> QED BY <1>12 DEF debug, crash

(* And that of any other: it is not a pass.                                *)
LEMMA OthersFail ==
  ASSUME main \in Final, ~ (main = "counted" /\ ~ late /\ failed = 0), failed \in 0 .. 2
  PROVE  Judged # [passed |-> 1, code |-> 0]
<1> DEFINE totals == Totals(PollText, FALSE, FALSE, FALSE, "none")
<1>1. Judged = PollResult(PollText, totals)
  BY Zenon DEF Judged, TestResult
<1>2. totals.printed <=> PollText.file
  BY Zenon DEF Totals
<1> HIDE DEF totals
<1>3. CASE main = "raised"
  <2>1. ~ PollText.file /\ ~ PollText.timedOut /\ PollText.pollsFailed = 0
    BY <1>3, TextOfPoll
  <2>2. Judged = [passed |-> 0, code |-> 1]
    BY <1>1, <1>2, <2>1, PollJudged
  <2> QED BY <2>2
<1>4. CASE main # "raised"
  <2>1. PollText.timedOut \/ PollText.pollsFailed = 1
    BY <1>4, TextOfPoll DEF Final
  <2>2. Judged = [passed |-> 0, code |-> 3] \/ Judged = [passed |-> 0, code |-> 6]
    BY <1>1, <2>1, PollJudged
  <2> QED BY <2>2
<1> QED BY <1>3, <1>4

(* A poll is passed exactly when its result was counted in time, every     *)
(* step went well, and neither the first process in the log nor the first  *)
(* with a core ended with one of the POV signals.                          *)
THEOREM VerdictsAreExact == Spec => []VerdictIsExact
<1>1. Inv => VerdictIsExact
  <2> SUFFICES ASSUME Inv, main \in Final
               PROVE  Judged = [passed |-> 1, code |-> 0]
                        <=> OnTime /\ failed = 0 /\ step = Len(Script) + 1
                            /\ {FirstSig(dbg), FirstSig(gen)} \cap PovSignals = {}
    BY DEF VerdictIsExact
  <2>1. CASE main = "counted" /\ ~ late /\ failed = 0
    <3>1. OnTime /\ step = Len(Script) + 1
      BY <2>1 DEF OnTime, Inv, Begun, Course, Stepping
    <3> QED BY <2>1, <3>1, SignalsDecide
  <2>2. CASE ~ (main = "counted" /\ ~ late /\ failed = 0)
    <3>1. Judged # [passed |-> 1, code |-> 0]
      BY <2>2, OthersFail DEF Inv, TypeOK
    <3> QED BY <2>2, <3>1 DEF OnTime
  <2> QED BY <2>1, <2>2
<1> QED BY <1>1, InvHolds, PTL

=============================================================================
