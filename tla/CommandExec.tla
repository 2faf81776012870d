---------------------------- MODULE CommandExec ----------------------------
(***************************************************************************)
(* One call of a Command (src/src/core/command.py): the thread that reads  *)
(* the output of a command until its end and waits for it, the timer that  *)
(* kills it with its descendants, and those processes, with the two pipes  *)
(* they share.  Only the test operation gives a timeout.                   *)
(***************************************************************************)
EXTENDS Naturals, Sequences

CONSTANTS
  Tree,      (* the command and its descendants, in the order of their pids *)
  Parent,    (* of each descendant                                          *)
  Holders,   (* the processes that inherit the pipes of the command         *)
  Awaited,   (* whose end a process waits for before it ends                *)
  Ending,    (* the processes that end by themselves; others may hang       *)
  Noisy,     (* those that write to stderr                                  *)
  Loud,      (* those that may write more than the pipe holds               *)
  PipeSize,  (* what the pipe of stderr holds                               *)
  Timeout    (* the call has a timeout                                      *)

Root  == Tree[1]
Procs == {Tree[k] : k \in DOMAIN Tree}

ASSUME CommandAssumption ==
  /\ Tree \in Seq(Procs) /\ Tree # <<>> /\ Timeout \in BOOLEAN /\ PipeSize \in Nat
  /\ \A j, k \in DOMAIN Tree : Tree[j] = Tree[k] => j = k
  /\ Parent \in [Procs \ {Root} -> Procs]
  /\ Root \in Holders /\ Holders \subseteq Procs
  /\ Ending \subseteq Procs /\ Noisy \subseteq Holders /\ Loud \subseteq Noisy
  /\ Awaited \in [Procs -> SUBSET Procs]

VARIABLES
  main,     (* "read", "wait", "error", "cancel", "abandon", "returned", "raised" *)
  timer,    (* "off", "armed", "killing", "over"                           *)
  victims,  (* what the timer has still to kill                            *)
  st,       (* each process: "none", "live", "zombie", or "gone" when reaped *)
  code,     (* the exit status of the command: "none", "ok", "bad", "killed" *)
  out,      (* the processes that have its stdout open                     *)
  filled,   (* how much of stderr nobody has read                          *)
  stuck,    (* the processes blocked on writing to it                      *)
  error     (* self.error is set                                           *)

procs == <<st, code, out, filled, stuck>>
vars  == <<main, timer, victims, procs, error>>

(* The object may have run other commands before: nothing resets error.    *)
Init ==
  /\ main = "read" /\ timer = IF Timeout THEN "armed" ELSE "off"
  /\ victims = {}
  /\ st = [p \in Procs |-> IF p = Root THEN "live" ELSE "none"]
  /\ code = "none" /\ out = Holders /\ filled = 0 /\ stuck = {}
  /\ error \in BOOLEAN

Alive(set)   == {p \in set : st[p] = "live"}
Before(p, q) == \E j, k \in DOMAIN Tree : j < k /\ Tree[j] = p /\ Tree[k] = q

-----------------------------------------------------------------------------
(* The processes.  Nothing is written to a pipe that main has closed.      *)
Spawn(p) ==
  /\ p # Root /\ st[p] = "none" /\ st[Parent[p]] = "live"
  /\ \A q \in Procs : Before(q, p) => st[q] # "none"
  /\ st' = [st EXCEPT ![p] = "live"]
  /\ UNCHANGED <<main, timer, victims, code, out, filled, stuck, error>>

Complain(p) ==
  /\ p \in Noisy \ stuck /\ st[p] = "live"
  /\ main \notin {"abandon", "returned", "raised"}
  /\ IF filled < PipeSize THEN filled' = filled + 1 /\ UNCHANGED stuck
     ELSE p \in Loud /\ stuck' = stuck \cup {p} /\ UNCHANGED filled
  /\ UNCHANGED <<main, timer, victims, st, code, out, error>>

CloseOut(p) ==
  /\ p \in out \ stuck /\ st[p] = "live"
  /\ out' = out \ {p}
  /\ UNCHANGED <<main, timer, victims, st, code, filled, stuck, error>>

Exit(p) ==
  /\ st[p] = "live" /\ p \notin stuck /\ Alive(Awaited[p]) = {}
  /\ st' = [st EXCEPT ![p] = "zombie"]
  /\ IF p = Root THEN code' \in {"ok", "bad"} ELSE UNCHANGED code
  /\ UNCHANGED <<main, timer, victims, out, filled, stuck, error>>

(* By its parent or, without one, by init.                                 *)
Reap(p) ==
  /\ p # Root /\ st[p] = "zombie"
  /\ st' = [st EXCEPT ![p] = "gone"]
  /\ UNCHANGED <<main, timer, victims, code, out, filled, stuck, error>>

-----------------------------------------------------------------------------
(* _exec reads stdout to its end; it does not read stderr meanwhile.       *)
ReadToEnd ==
  /\ main = "read" /\ Alive(out) = {}
  /\ main' = "wait"
  /\ UNCHANGED <<timer, victims, procs, error>>

Wait ==
  /\ main = "wait" /\ st[Root] = "zombie"
  /\ st'   = [st EXCEPT ![Root] = "gone"]
  /\ main' = IF code = "ok" THEN "cancel" ELSE "error"
  /\ UNCHANGED <<timer, victims, code, out, filled, stuck, error>>

(* Mutant: a silent failure is none.                                       *)
ReadErrorVerbatim ==
  /\ main = "error" /\ Alive(Holders) = {}
  /\ main' = "cancel" /\ error' = (error \/ filled > 0) /\ filled' = 0 /\ stuck' = {}
  /\ UNCHANGED <<timer, victims, st, code, out>>

(* The command failed: stderr is read, also to its end, and stands for the *)
(* error, or the return code when there is nothing in it.  Reading frees   *)
(* who was blocked.                                                        *)
Drain ==
  /\ main = "error" /\ (filled > 0 \/ stuck # {})
  /\ filled' = 0 /\ stuck' = {}
  /\ UNCHANGED <<main, timer, victims, st, code, out, error>>

ReadError ==
  /\ main = "error" /\ Alive(Holders) = {}
  /\ main' = "cancel" /\ error' = TRUE /\ filled' = 0 /\ stuck' = {}
  /\ UNCHANGED <<timer, victims, st, code, out>>

(* Mutant: only timers that nobody needs are cancelled.                    *)
CancelOnSuccess ==
  /\ main = "cancel"
  /\ main'  = "returned"
  /\ timer' = IF timer = "armed" /\ ~ error THEN "off" ELSE timer
  /\ UNCHANGED <<victims, procs, error>>

(* timer.cancel() does not stop a timer that has fired.                    *)
Cancel ==
  /\ main = "cancel"
  /\ main'  = "returned"
  /\ timer' = IF timer = "armed" THEN "off" ELSE timer
  /\ UNCHANGED <<victims, procs, error>>

(* The command closed its stdout more than a second before its end.  The   *)
(* exception does not cancel the timer, and Popen.__exit__ closes the      *)
(* pipes and waits without a timeout.                                      *)
WaitExpires ==
  /\ main = "wait" /\ st[Root] = "live"
  /\ main' = "abandon" /\ filled' = 0 /\ stuck' = {}
  /\ UNCHANGED <<timer, victims, st, code, out, error>>

Abandon ==
  /\ main = "abandon" /\ st[Root] = "zombie"
  /\ st' = [st EXCEPT ![Root] = "gone"] /\ main' = "raised"
  /\ UNCHANGED <<timer, victims, code, out, filled, stuck, error>>

-----------------------------------------------------------------------------
(* The descendants psutil finds from what is alive of the tree.            *)
Reached == LET chain[k \in 1 .. Len(Tree)] ==
                 Tree[k] = Root \/ \E j \in 1 .. k - 1 :
                   Tree[j] = Parent[Tree[k]] /\ st[Tree[j]] = "live" /\ chain[j]
           IN  {Tree[k] : k \in {j \in 2 .. Len(Tree) : chain[j]}}
Found == {p \in Reached : st[p] \in {"live", "zombie"}}

Killed(p) == st' = IF st[p] = "live" THEN [st EXCEPT ![p] = "zombie"] ELSE st

(* Mutant: the command is one of the processes to kill.                    *)
FireWithItself ==
  /\ timer = "armed"
  /\ IF st[Root] = "gone" THEN timer' = "over" /\ UNCHANGED victims
     ELSE timer' = "killing" /\ victims' = {Root} \cup Found
  /\ UNCHANGED <<main, procs, error>>

(* _timer_out: psutil.Process raises when the command is gone.             *)
Fire ==
  /\ timer = "armed"
  /\ IF st[Root] = "gone" THEN timer' = "over" /\ UNCHANGED victims
     ELSE timer' = "killing" /\ victims' = Found
  /\ UNCHANGED <<main, procs, error>>

(* proc.kill() raises for a process that is gone, and the timer ends there: *)
(* the others and the command itself are not killed.                       *)
KillVictim(p) ==
  /\ IF st[p] = "gone" THEN timer' = "over" /\ victims' = {}
     ELSE UNCHANGED timer /\ victims' = victims \ {p}
  /\ Killed(p) /\ stuck' = stuck \ {p}
  /\ UNCHANGED <<main, code, out, filled, error>>

(* Mutant: the leaves are killed first.                                    *)
KillFromLeaves ==
  /\ timer = "killing"
  /\ \E p \in victims : (\A q \in victims : ~ Before(p, q)) /\ KillVictim(p)

KillNext ==
  /\ timer = "killing"
  /\ \E p \in victims : (\A q \in victims : ~ Before(q, p)) /\ KillVictim(p)

KillRoot ==
  /\ timer = "killing" /\ victims = {}
  /\ timer' = "over"
  /\ Killed(Root) /\ stuck' = stuck \ {Root}
  /\ code' = IF st[Root] = "live" THEN "killed" ELSE code
  /\ UNCHANGED <<main, victims, out, filled, error>>

-----------------------------------------------------------------------------
Main  == ReadToEnd \/ Wait \/ Drain \/ ReadError \/ Cancel \/ WaitExpires \/ Abandon
Timer == Fire \/ KillNext \/ KillRoot
Process(p) == Spawn(p) \/ Complain(p) \/ CloseOut(p) \/ Exit(p) \/ Reap(p)

Next == Main \/ Timer \/ \E p \in Procs : Process(p)

Spec == Init /\ [][Next]_vars
FairSpec ==
  /\ Spec /\ WF_vars(Main) /\ WF_vars(Timer)
  /\ \A p \in Procs : WF_vars(Reap(p))
  /\ \A p \in Ending : WF_vars(Exit(p))

-----------------------------------------------------------------------------
(* Every variable has its type.                                            *)
TypeOK ==
  /\ main \in {"read", "wait", "error", "cancel", "abandon", "returned", "raised"}
  /\ timer \in {"off", "armed", "killing", "over"}
  /\ victims \subseteq Procs \ {Root}
  /\ st \in [Procs -> {"none", "live", "zombie", "gone"}]
  /\ code \in {"none", "ok", "bad", "killed"}
  /\ out \subseteq Holders /\ filled \in 0 .. PipeSize /\ stuck \subseteq Procs
  /\ error \in BOOLEAN

(* Callers look at error alone: a call that returns has set it when the    *)
(* command failed, silently too, or was killed by the timer.               *)
FailureIsReported == main = "returned" /\ code # "ok" => error

(* A call that returned has reaped the command and leaves no timer that    *)
(* could fire later, at a pid that another process may have by then.       *)
ReturnedIsClean == main = "returned" => st[Root] = "gone" /\ timer # "armed"

(* The call ends, whatever the descendants of the command do, unless the   *)
(* command stays blocked on its stderr, which nobody reads until it ends.  *)
CallEnds == <>(main \in {"returned", "raised"}) \/ <>[](Root \in stuck)
=============================================================================
