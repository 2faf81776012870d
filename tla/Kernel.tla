------------------------------- MODULE Kernel -------------------------------
(***************************************************************************)
(* The metadata store of cb-repair (src/src/core/kernel.py).               *)
(*                                                                         *)
(* Every command of the benchmark is a process of its own.  It builds a    *)
(* Kernel, which reads the whole file lib/metadata into a dictionary, and  *)
(* from then on works on that copy.  An operation changes the copy and     *)
(* then saves all of it: it takes the lock file, opens the metadata in     *)
(* mode "w" (which truncates it), dumps the copy, closes, and releases the *)
(* lock.  Reading takes no lock.                                           *)
(*                                                                         *)
(* Each of those steps is an action here, so that processes interleave     *)
(* between them and may be killed between them.  The client of the kernel  *)
(* is the most general one: after get_challenge a process may call any of  *)
(* its operations, in any order.                                           *)
(***************************************************************************)
EXTENDS Naturals

CONSTANTS
  Procs,       (* the commands that may run at the same time               *)
  Privileged,  (* those started with --excl, which see excluded challenges *)
  Challenges,  (* the challenges init.py has entered in the metadata       *)
  Tests,       (* the names of their tests                                 *)
  NoOutcome,   (* no entry for a test in the "sanity" dictionary           *)
  NoProc,      (* the lock file is not held                                *)
  NoChallenge, (* the process has not called get_challenge                 *)
  NoOp,        (* the process has no operation to save                     *)
  Unloaded,    (* the process has no copy of the metadata                  *)
  Torn         (* the file is empty or cut off: json.load raises           *)

ASSUME KernelAssumption ==
  /\ Privileged \subseteq Procs
  /\ NoProc \notin Procs
  /\ NoChallenge \notin Challenges
  /\ Torn \notin [Challenges -> [excluded : BOOLEAN,
                                 sanity : [Tests -> {0, 1, NoOutcome}]]]

-----------------------------------------------------------------------------
(* The document: what json.dump writes and json.load reads.                *)

Outcome == {0, 1}
Entry   == [excluded : BOOLEAN, sanity : [Tests -> Outcome \cup {NoOutcome}]]
Doc     == [Challenges -> Entry]

NoSanity == [t \in Tests |-> NoOutcome]

(* The operations of the kernel that change an entry.                      *)
Op == [kind : {"exclude", "include", "reset"}, chal : Challenges]
        \cup [kind : {"update"}, chal : Challenges, test : Tests, out : Outcome]

(* What an operation does to the entry of its challenge.                   *)
ChangedEntry(op, e) ==
  [excluded |-> op.kind = "exclude" \/ (e.excluded /\ op.kind # "include"),
   sanity   |-> IF op.kind = "reset" THEN NoSanity
                ELSE IF op.kind = "update"
                     THEN [e.sanity EXCEPT ![op.test] = op.out]
                     ELSE e.sanity]

ApplyOp(op, doc) == [doc EXCEPT ![op.chal] = ChangedEntry(op, @)]

-----------------------------------------------------------------------------
VARIABLES
  file,     (* lib/metadata: a document, or Torn                           *)
  lock,     (* lib/metadata.lock: the process that holds it, or NoProc     *)
  mem,      (* Kernel.global_metadata of each process                      *)
  pc,       (* where each process is                                       *)
  cur,      (* the challenge of the operation each process runs            *)
  pending,  (* the operation applied to mem that is still to be saved      *)
  (* History variables, read by no action of the program:                  *)
  truth,    (* the document with every saved operation applied in turn     *)
  current,  (* the processes whose copy includes every saved operation     *)
  stale     (* a process outside current has saved its copy                *)

vars == <<file, lock, mem, pc, cur, pending, truth, current, stale>>

(* Where a process is.  "want": before "with lock"; "locked": lock held,   *)
(* file not yet opened; "writing": file truncated, dump not finished;      *)
(* "written": file closed, lock still held.                                *)
PC == {"down", "idle", "want", "locked", "writing", "written"}

Goto(p, from, to) == pc[p] = from /\ pc' = [pc EXCEPT ![p] = to]

Init ==
  /\ file \in Doc
  /\ lock    = NoProc
  /\ mem     = [p \in Procs |-> Unloaded]
  /\ pc      = [p \in Procs |-> "down"]
  /\ cur     = [p \in Procs |-> NoChallenge]
  /\ pending = [p \in Procs |-> NoOp]
  /\ truth   = file
  /\ current = {}
  /\ stale   = FALSE

(* Mutant: the lock outlives the process that held it.                     *)
KeepLock(p) == UNCHANGED lock

(* The operating system closes the files of a process that ends, which     *)
(* drops its flock on the lock file.                                       *)
DropLock(p) == lock' = IF lock = p THEN NoProc ELSE lock

Ends(p) ==
  /\ mem'     = [mem EXCEPT ![p] = Unloaded]
  /\ cur'     = [cur EXCEPT ![p] = NoChallenge]
  /\ pending' = [pending EXCEPT ![p] = NoOp]
  /\ current' = current \ {p}
  /\ DropLock(p)

-----------------------------------------------------------------------------
StartWith(p, doc) ==
  /\ Goto(p, "down", "idle")
  /\ mem'     = [mem EXCEPT ![p] = doc]
  /\ current' = current \cup {p}
  /\ UNCHANGED <<file, lock, cur, pending, truth, stale>>

(* Mutant: the result of json.load is not checked.                         *)
StartUnchecked(p) == StartWith(p, file)

(* Kernel.__init__: read the metadata, without the lock.  A torn file      *)
(* raises JSONDecodeError and the command ends before it began.            *)
Start(p) == file # Torn /\ StartWith(p, file)

(* get_challenge: exit(1) when the copy says excluded and the process does *)
(* not see excluded challenges; otherwise the operation gets its           *)
(* challenge.                                                              *)
Visible(p, c) == mem[p][c].excluded => p \in Privileged

GetChallenge(p, c) ==
  /\ pc[p] = "idle"
  /\ Visible(p, c)
  /\ cur[p] # c
  /\ cur' = [cur EXCEPT ![p] = c]
  /\ UNCHANGED <<file, lock, mem, pc, pending, truth, current, stale>>

RefuseChallenge(p, c) ==
  /\ Goto(p, "idle", "down")
  /\ ~ Visible(p, c)
  /\ Ends(p)
  /\ UNCHANGED <<file, truth, stale>>

(* An operation of p changes p's copy and calls save_metadata.             *)
Change(p, op) ==
  /\ Goto(p, "idle", "want")
  /\ cur[p] = op.chal
  /\ mem'     = [mem EXCEPT ![p] = ApplyOp(op, mem[p])]
  /\ pending' = [pending EXCEPT ![p] = op]
  /\ UNCHANGED <<file, lock, cur, truth, current, stale>>

(* Test.__call__ with --update: the outcome of the test that just ran.     *)
UpdateSanity(p, t, o) ==
  Change(p, [kind |-> "update", chal |-> cur[p], test |-> t, out |-> o])

(* Test.__call__ with --update, after the last test: only for a challenge  *)
(* that is excluded and that this process may see.                         *)
IncludeChallenge(p) ==
  /\ pc[p] = "idle" /\ cur[p] \in Challenges
  /\ mem[p][cur[p]].excluded
  /\ p \in Privileged
  /\ Change(p, [kind |-> "include", chal |-> cur[p]])

(* Mutant: save_metadata is forgotten after reset_sanity.                  *)
ResetUnsaved(p) ==
  /\ pc[p] = "idle" /\ cur[p] \in Challenges
  /\ mem[p][cur[p]].sanity # NoSanity
  /\ mem' = [mem EXCEPT ![p] = ApplyOp([kind |-> "reset", chal |-> cur[p]], @)]
  /\ UNCHANGED <<file, lock, pc, cur, pending, truth, current, stale>>

(* GenPolls.__call__: has_sanity, reset_sanity, save_metadata.             *)
ResetSanity(p) ==
  /\ pc[p] = "idle" /\ cur[p] \in Challenges
  /\ mem[p][cur[p]].sanity # NoSanity
  /\ Change(p, [kind |-> "reset", chal |-> cur[p]])

(* exclude_challenge: load_metadata, again without the lock, then the      *)
(* change; the caller is done with the challenge.                          *)
ExcludeChallenge(p) ==
  /\ file # Torn
  /\ Goto(p, "idle", "want")
  /\ cur[p] \in Challenges
  /\ LET op == [kind |-> "exclude", chal |-> cur[p]]
     IN  /\ mem'     = [mem EXCEPT ![p] = ApplyOp(op, file)]
         /\ pending' = [pending EXCEPT ![p] = op]
  /\ current' = current \cup {p}
  /\ cur'     = [cur EXCEPT ![p] = NoChallenge]
  /\ UNCHANGED <<file, lock, truth, stale>>

(* The load of exclude_challenge meets a torn file: the command ends.      *)
ExcludeFails(p) ==
  /\ file = Torn
  /\ cur[p] \in Challenges
  /\ Goto(p, "idle", "down")
  /\ Ends(p)
  /\ UNCHANGED <<file, truth, stale>>

-----------------------------------------------------------------------------
(* save_metadata.                                                          *)

Acquire(p) ==
  /\ lock = NoProc
  /\ Goto(p, "want", "locked")
  /\ lock' = p
  /\ UNCHANGED <<file, mem, cur, pending, truth, current, stale>>

Truncate(p) ==
  /\ Goto(p, "locked", "writing")
  /\ file' = Torn
  /\ UNCHANGED <<lock, mem, cur, pending, truth, current, stale>>

(* Mutant: the dump is not flushed before the lock is released.            *)
DumpUnflushed(p) ==
  /\ Goto(p, "writing", "written")
  /\ pending' = [pending EXCEPT ![p] = NoOp]
  /\ UNCHANGED <<file, lock, mem, cur, truth, current, stale>>

(* json.dump and close.  The other processes' copies now lack what p       *)
(* saved.                                                                  *)
Dump(p) ==
  /\ Goto(p, "writing", "written")
  /\ file'    = mem[p]
  /\ truth'   = ApplyOp(pending[p], truth)
  /\ stale'   = (stale \/ p \notin current)
  /\ current' = {p}
  /\ pending' = [pending EXCEPT ![p] = NoOp]
  /\ UNCHANGED <<lock, mem, cur>>

Release(p) ==
  /\ Goto(p, "written", "idle")
  /\ lock' = NoProc
  /\ UNCHANGED <<file, mem, cur, pending, truth, current, stale>>

(* The command is done.                                                    *)
Exit(p) ==
  /\ Goto(p, "idle", "down")
  /\ Ends(p)
  /\ UNCHANGED <<file, truth, stale>>

(* The command is killed, wherever it is (^C, a timeout of the caller).    *)
Kill(p) ==
  /\ pc[p] \in PC \ {"down", "idle"}
  /\ pc' = [pc EXCEPT ![p] = "down"]
  /\ Ends(p)
  /\ UNCHANGED <<file, truth, stale>>

-----------------------------------------------------------------------------
Next ==
  \E p \in Procs :
    \/ Start(p)
    \/ \E c \in Challenges : GetChallenge(p, c)
    \/ \E c \in Challenges : RefuseChallenge(p, c)
    \/ \E t \in Tests, o \in Outcome : cur[p] \in Challenges /\ UpdateSanity(p, t, o)
    \/ IncludeChallenge(p)
    \/ ResetSanity(p)
    \/ ExcludeChallenge(p)
    \/ ExcludeFails(p)
    \/ Acquire(p)
    \/ Truncate(p)
    \/ Dump(p)
    \/ Release(p)
    \/ Exit(p)
    \/ Kill(p)

Spec == Init /\ [][Next]_vars

-----------------------------------------------------------------------------
Holding(p) == pc[p] \in {"locked", "writing", "written"}
Saving(p)  == pc[p] \in {"want", "locked", "writing"}

(* Every variable has its type.                                            *)
TypeOK ==
  /\ file \in Doc \cup {Torn}
  /\ lock \in Procs \cup {NoProc}
  /\ mem \in [Procs -> Doc \cup {Unloaded}]
  /\ pc \in [Procs -> PC]
  /\ cur \in [Procs -> Challenges \cup {NoChallenge}]
  /\ pending \in [Procs -> Op \cup {NoOp}]
  /\ truth \in Doc
  /\ current \subseteq Procs
  /\ stale \in BOOLEAN
  /\ \A p \in Procs :
       /\ pc[p] # "down" => mem[p] \in Doc
       /\ Saving(p) => pending[p] \in Op
       /\ p \in current => pc[p] # "down"

(* The lock has a holder exactly while that process is inside "with lock": *)
(* nobody waits for a command that was killed there, or has moved on.      *)
LockHasItsHolder == \A p \in Procs : (lock = p) <=> Holding(p)

(* Two commands are never in save_metadata's "with lock" block together,   *)
(* not even when one of them was killed there: the lock dies with its      *)
(* holder.                                                                 *)
WritersExclude ==
  \A p, q \in Procs : Holding(p) /\ Holding(q) => p = q

(* A lost update has one cause only: a command saves a copy it read before *)
(* another command's save.  As long as no save was stale, the file a       *)
(* reader can parse holds every operation saved so far, whatever was       *)
(* killed in between and although readers take no lock.                    *)
NoLostUpdate == ~ stale => file \in {truth, Torn}

(* The file is left torn by a kill in the middle of a dump and by nothing  *)
(* else: any other step that ends the last dump in progress leaves a       *)
(* document.                                                               *)
Writing == \E p \in Procs : pc[p] = "writing"

OnlyKillTears ==
  [][Writing /\ ~ Writing' /\ file' = Torn => \E p \in Procs : Kill(p)]_vars

=============================================================================
