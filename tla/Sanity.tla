------------------------------- MODULE Sanity -------------------------------
(***************************************************************************)
(* The sanity task: src/src/tasks/sanity.py with the operations it runs,   *)
(* genpolls, checkout, compile and test, on one challenge after another in *)
(* one process.  Its state is the working directory /tmp/check_<name> of   *)
(* each challenge, the metadata on disk and the kernel's copy of them, and *)
(* the summary it prints at the end.                                       *)
(*                                                                         *)
(* Another command may exclude a challenge at any time; how saves of the   *)
(* metadata interleave is the subject of module Kernel.                    *)
(***************************************************************************)
EXTENDS Verdict, Sequences

CONSTANTS
  Order,      (* the challenges in the order of the loop                   *)
  Lookups,    (* the values of --lookup, 0 for none                        *)
  Leftovers,  (* the states in which earlier runs leave a directory        *)
  PovDirs,    (* those in which they leave lib/povs/<name>                 *)
  Suites,     (* the lists of tests a challenge may have                   *)
  PollTexts,  (* the outputs of a run of a poll                            *)
  PovTexts    (* those of a POV                                            *)

Challenges == {Order[k] : k \in DOMAIN Order}

(* A working directory: absent or empty; with some files and no .tracker;  *)
(* checked out; with a compile in its tracker and no binary; built by this *)
(* run; built by an earlier one.                                           *)
Directory == {"none", "part", "tree", "nobin", "made", "old"}

ASSUME SanityAssumption ==
  /\ Order \in Seq(Challenges)
  /\ \A j, k \in DOMAIN Order : Order[j] = Order[k] => j = k
  /\ Lookups \subseteq Nat
  /\ Leftovers \subseteq Directory \ {"made"}
  /\ PovDirs \subseteq {"absent", "empty", "saved"}
  /\ Suites \subseteq Seq({"pov", "poll"})
  /\ PollTexts \subseteq Text /\ PovTexts \subseteq Text

(* The flags of the task and --excl of the kernel.                         *)
Options == [genpolls : BOOLEAN, lookup : Lookups, persistent : BOOLEAN,
            strict : BOOLEAN, keep : BOOLEAN, excl : BOOLEAN]

(* What matters of the metadata: the challenges that are excluded, and     *)
(* those with an entry under "sanity".                                     *)
Doc == [excluded : SUBSET Challenges, tested : SUBSET Challenges]

VARIABLES
  opts,     (* the options of this run                                     *)
  file,     (* the metadata on disk                                        *)
  mem,      (* Kernel.global_metadata                                      *)
  wd,       (* the working directories                                     *)
  povs,     (* the directories in which the POVs are saved                 *)
  i,        (* the index of the challenge the loop is at                   *)
  pc,       (* "next", "ops", "judge", "failed", or how the task ended     *)
  n,        (* the attempt, n + 1 of _lookup                               *)
  ops,      (* the operations of the attempt still to run                  *)
  again,    (* the list "operations" another attempt runs                  *)
  quiet,    (* self.lookup is set: failures do not exclude                 *)
  results,  (* the results of check_test                                   *)
  verdict,  (* the summary: "none", "passed", "failed"                     *)
  (* History variables:                                                    *)
  why,      (* the operation that failed last for each challenge           *)
  others    (* the challenges another command excluded meanwhile           *)

store == <<file, mem>>
loop  == <<n, ops, again, quiet>>
vars  == <<opts, store, wd, povs, i, pc, loop, results, verdict, why, others>>

Ended == {"done", "raised", "exited"}
cur   == Order[i]

Looking  == opts.genpolls /\ opts.lookup > 0
AllOps   == (IF opts.genpolls THEN <<"genpolls">> ELSE <<>>)
              \o <<"checkout", "compile", "test">>
Excludes == opts.persistent /\ ~ (quiet /\ opts.genpolls)

Init ==
  /\ opts \in Options
  /\ file \in [excluded : IF opts.excl THEN SUBSET Challenges ELSE {{}},
               tested : {{}, Challenges}]
  /\ mem = file
  /\ wd \in [Challenges -> Leftovers]
  /\ povs \in [Challenges -> PovDirs]
  /\ i = 1 /\ pc = "next" /\ n = 1 /\ ops = <<>> /\ again = <<>>
  /\ quiet = (opts.lookup > 0)
  /\ results = <<>>
  /\ verdict = [c \in Challenges |-> "none"]
  /\ why = [c \in Challenges |-> "none"]
  /\ others = {}

Save(doc) == mem' = doc /\ file' = doc

(* kernel.exclude_challenge loads the metadata first; "disk" is what it    *)
(* finds there.                                                            *)
Exclude(disk) == Save([disk EXCEPT !.excluded = @ \cup {cur}])

(* dispose, unless --keep.                                                 *)
Dispose(dirs) == wd' = IF opts.keep THEN dirs ELSE [dirs EXCEPT ![cur] = "none"]

(* An operation returned True, or False.                                   *)
Passes ==
  /\ pc'    = "ops"
  /\ ops'   = Tail(ops)
  /\ again' = IF Looking THEN <<"genpolls", "test">> ELSE again
  /\ UNCHANGED <<n, quiet, why>>

Fails ==
  /\ pc'  = "failed"
  /\ why' = [why EXCEPT ![cur] = Head(ops)]
  /\ UNCHANGED loop

(* Mutant: an exception does not dispose.                                  *)
RaisesUndisposed(dirs) ==
  /\ pc' = "raised"
  /\ wd' = dirs
  /\ UNCHANGED <<opts, store, povs, i, loop, results, verdict, why, others>>

(* An exception leaves the loop over the challenges.                       *)
Raises(dirs) ==
  /\ pc' = "raised"
  /\ Dispose(dirs)
  /\ UNCHANGED <<opts, store, povs, i, loop, results, verdict, why, others>>

-----------------------------------------------------------------------------
(* The loop of __call__, and the start of check or _lookup.                *)
Begin ==
  /\ pc = "next" /\ i <= Len(Order)
  /\ pc' = "ops" /\ n' = 1 /\ ops' = AllOps /\ again' = AllOps
  /\ UNCHANGED <<opts, store, wd, povs, i, quiet, results, verdict, why, others>>

Done ==
  /\ pc = "next" /\ i > Len(Order)
  /\ pc' = "done"
  /\ UNCHANGED <<opts, store, wd, povs, i, loop, results, verdict, why, others>>

(* Every operation begins with get_challenge, which calls exit(1) for an   *)
(* excluded challenge; "except Exception" does not catch that.             *)
Refused == cur \in mem.excluded /\ ~ opts.excl

At(op) == pc = "ops" /\ ops # <<>> /\ Head(ops) = op /\ ~ Refused

Refuse ==
  /\ pc = "ops" /\ ops # <<>> /\ Refused
  /\ pc' = "exited"
  /\ UNCHANGED <<opts, store, wd, povs, i, loop, results, verdict, why, others>>

(* check_genpolls.  The old polls are deleted, so the results of the tests *)
(* are reset, whether or not new ones are generated.                       *)
Generate ==
  /\ At("genpolls")
  /\ LET reset == [mem EXCEPT !.tested = @ \ {cur}]
         disk  == IF cur \in mem.tested THEN reset ELSE file
     IN  \/ mem' = reset /\ file' = disk /\ Passes
         \/ Fails /\ IF Excludes THEN Exclude(disk)
                     ELSE mem' = reset /\ file' = disk
  /\ UNCHANGED <<opts, wd, povs, i, results, verdict, others>>

(* check_checkout: only into an absent or empty directory; the tracker is  *)
(* written last.  It excludes nothing.                                     *)
CheckOut ==
  /\ At("checkout")
  /\ \/ wd[cur] = "none" /\ wd' = [wd EXCEPT ![cur] = "tree"] /\ Passes
     \/ wd[cur] = "none" /\ wd' = [wd EXCEPT ![cur] = "part"] /\ Fails
     \/ wd[cur] # "none" /\ UNCHANGED wd /\ Fails
  /\ UNCHANGED <<opts, store, povs, i, results, verdict, others>>

(* check_compile: whether or not the build fails, Compile.__call__ returns *)
(* (None, None); but when cmake fails there is no compile_commands.json,   *)
(* and load_commands raises.                                               *)
Compile ==
  /\ At("compile")
  /\ \E built \in {"made", "nobin"} : wd' = [wd EXCEPT ![cur] = built]
  /\ Passes
  /\ UNCHANGED <<opts, store, povs, i, results, verdict, others>>

CompileRaises == At("compile") /\ Raises([wd EXCEPT ![cur] = "nobin"])

(* The results of one test; without a binary it prints nothing.            *)
Prints(texts) == IF wd[cur] \in {"made", "old"} THEN texts ELSE {t \in texts : ~ t.file}

PollRun(t)      == TestResult(t, Totals(t, FALSE, FALSE, FALSE, "none"), FALSE)
PovRun(t, regs) == Inverted(TestResult(t, Totals(t, TRUE, TRUE, regs, "none"), TRUE), TRUE, TRUE)

ResultsOf(kind) ==
  IF kind = "poll" THEN {PollRun(t) : t \in Prints(PollTexts)}
  ELSE {PovRun(t, regs) : t \in Prints(PovTexts), regs \in BOOLEAN}

(* Test.__call__ over a list of tests; --strict stops at the first that    *)
(* fails and returns.                                                      *)
RunsOf(suite) ==
  LET kinds   == {suite[k] : k \in DOMAIN suite}
      runs(m) == {rs \in [1 .. m -> UNION {ResultsOf(kind) : kind \in kinds}] :
                    \A k \in 1 .. m : rs[k] \in ResultsOf(suite[k])}
  IN  {rs \in UNION {runs(m) : m \in 0 .. Len(suite)} :
         LET m == Len(rs)
         IN  /\ opts.strict => \A k \in 1 .. m - 1 : ~ SanityFails(rs[k])
             /\ m < Len(suite) => opts.strict /\ m > 0 /\ SanityFails(rs[m])}

Bad(rs) == \E k \in DOMAIN rs : SanityFails(rs[k])

(* Test.tests_pass.                                                        *)
TestsPass(rs) == \A k \in DOMAIN rs : rs[k].passed = 1

(* Mutant: an excluded challenge is included whatever its tests say.       *)
IncludesAny(rs) ==
  cur \in mem.excluded /\ opts.excl /\ ~ (opts.strict /\ Bad(rs))

(* Test.__call__: a challenge that is excluded, which only --excl lets     *)
(* through, is included when all tests pass.                               *)
Includes(rs) ==
  cur \in mem.excluded /\ opts.excl /\ ~ (opts.strict /\ Bad(rs)) /\ TestsPass(rs)

(* With --persistent every result is saved, and then the inclusion.        *)
RunTests ==
  /\ At("test") /\ wd[cur] \in {"nobin", "made", "old"}
  /\ \E suite \in Suites : results' \in RunsOf(suite)
  /\ IF opts.persistent /\ (results' # <<>> \/ Includes(results'))
     THEN Save([excluded |-> mem.excluded \ IF Includes(results') THEN {cur} ELSE {},
                tested   |-> mem.tested \cup IF results' = <<>> THEN {} ELSE {cur}])
     ELSE UNCHANGED store
  /\ pc' = "judge"
  /\ UNCHANGED <<opts, wd, povs, i, loop, verdict, why, others>>

(* Test.__init__ reads the tracker, its "ptr" and the build directory.     *)
TestRaises == At("test") /\ wd[cur] \in {"none", "part", "tree"} /\ Raises(wd)

(* The rest of check_test.                                                 *)
JudgeFails ==
  /\ pc = "judge" /\ (results = <<>> \/ Bad(results))
  /\ Fails
  /\ IF Excludes THEN Exclude(file) ELSE UNCHANGED store
  /\ results' = <<>>
  /\ UNCHANGED <<opts, wd, povs, i, verdict, others>>

(* Without POVs in lib/povs/<name>, the directory is made, which raises if *)
(* it exists, and those of the build are copied, if there are any.         *)
JudgePasses ==
  /\ pc = "judge" /\ results # <<>> /\ ~ Bad(results) /\ povs[cur] # "empty"
  /\ Passes
  /\ \E dir \in IF povs[cur] = "absent" THEN {"empty", "saved"} ELSE {"saved"} :
       povs' = [povs EXCEPT ![cur] = dir]
  /\ results' = <<>>
  /\ UNCHANGED <<opts, store, wd, i, verdict, others>>

JudgeRaises ==
  /\ pc = "judge" /\ results # <<>> /\ ~ Bad(results) /\ povs[cur] = "empty"
  /\ Raises(wd)

-----------------------------------------------------------------------------
(* The end of check and of _lookup.                                        *)
Finish(outcome) ==
  /\ verdict' = [verdict EXCEPT ![cur] = outcome]
  /\ Dispose(wd)
  /\ i' = i + 1 /\ pc' = "next" /\ quiet' = (opts.lookup > 0)
  /\ UNCHANGED <<n, ops, again>>

AttemptPassed ==
  /\ pc = "ops" /\ ops = <<>>
  /\ Finish("passed")
  /\ UNCHANGED <<opts, store, povs, results, why, others>>

(* Mutant: self.lookup is never unset.                                     *)
RetryQuietly ==
  /\ n' = n + 1 /\ ops' = again /\ pc' = "ops"
  /\ UNCHANGED <<wd, i, again, quiet, verdict>>

(* Another attempt of _lookup; before the last, self.lookup is unset.      *)
Retry ==
  /\ n' = n + 1 /\ ops' = again /\ pc' = "ops"
  /\ quiet' = (quiet /\ n # opts.lookup - 1)
  /\ UNCHANGED <<wd, i, again, verdict>>

(* Mutant: one attempt too many.                                           *)
AttemptFailedLate ==
  /\ pc = "failed"
  /\ IF Looking /\ n <= opts.lookup THEN Retry ELSE Finish("failed")
  /\ UNCHANGED <<opts, store, povs, results, why, others>>

AttemptFailed ==
  /\ pc = "failed"
  /\ IF Looking /\ n < opts.lookup THEN Retry ELSE Finish("failed")
  /\ UNCHANGED <<opts, store, povs, results, why, others>>

(* Another command excludes a challenge.                                   *)
OtherExcludes ==
  /\ pc \notin Ended
  /\ \E c \in Challenges \ file.excluded :
       /\ file'   = [file EXCEPT !.excluded = @ \cup {c}]
       /\ others' = others \cup {c}
  /\ UNCHANGED <<opts, mem, wd, povs, i, pc, loop, results, verdict, why>>

Step ==
  \/ Begin \/ Done \/ Refuse \/ Generate \/ CheckOut \/ Compile \/ CompileRaises
  \/ RunTests \/ TestRaises \/ JudgeFails \/ JudgePasses \/ JudgeRaises
  \/ AttemptPassed \/ AttemptFailed

Next == Step \/ OtherExcludes

Spec == Init /\ [][Next]_vars

-----------------------------------------------------------------------------
(* Every variable has its type.                                            *)
TypeOK ==
  /\ opts \in Options /\ file \in Doc /\ mem \in Doc
  /\ wd \in [Challenges -> Directory]
  /\ povs \in [Challenges -> {"absent", "empty", "saved"}]
  /\ i \in 1 .. Len(Order) + 1
  /\ pc \in {"next", "ops", "judge", "failed"} \cup Ended
  /\ n \in Nat \ {0} /\ (Looking => n <= opts.lookup)
  /\ quiet \in BOOLEAN
  /\ verdict \in [Challenges -> {"none", "passed", "failed"}]
  /\ why \in [Challenges -> {"none", "genpolls", "checkout", "test"}]
  /\ others \subseteq Challenges

(* The summary and the metadata of a --persistent run agree: a challenge   *)
(* that passed is not excluded, unless another command did that, and one   *)
(* whose polls or tests failed is, unless there was a single lookup.       *)
SummaryAgrees ==
  opts.persistent =>
    \A c \in Challenges :
      /\ verdict[c] = "passed" => c \notin file.excluded \ others
      /\ /\ verdict[c] = "failed" /\ why[c] \in {"genpolls", "test"}
         /\ ~ (opts.genpolls /\ opts.lookup = 1)
         => c \in file.excluded

(* check_compile never fails, so a build that went wrong must show in the  *)
(* tests: a challenge that passes has been tested on a binary of this run, *)
(* or, when it took several lookups, of an earlier run: _lookup does not   *)
(* repeat a checkout that failed.  (This is about the moment it passes;    *)
(* afterwards the directory is gone.)                                      *)
PassedOnABinary ==
  pc = "ops" /\ ops = <<>> => wd[cur] = "made" \/ (wd[cur] = "old" /\ n > 1)

(* Without --keep no working directory outlives the check of its           *)
(* challenge, whatever failed or was raised.                               *)
NoLitter ==
  ~ opts.keep =>
    \A k \in DOMAIN Order :
      k < i \/ (k = i /\ pc = "raised") => wd[Order[k]] = "none"

(* When the task gets to its end, every challenge is in the summary, as    *)
(* passed or as failed, also after --lookup attempts.                      *)
AllJudged == pc = "done" => \A c \in Challenges : verdict[c] # "none"

(* A challenge leaves the excluded ones by passing all its tests, or       *)
(* because this process never read that another command excluded it.       *)
OnlyPassingAreIncluded ==
  [][\A c \in file.excluded \ file'.excluded :
       (c = cur /\ TestsPass(results')) \/ c \notin mem.excluded]_vars

=============================================================================
