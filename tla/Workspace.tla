----------------------------- MODULE Workspace -----------------------------
(***************************************************************************)
(* A working directory and its .tracker, shared by the commands checkout,  *)
(* make, compile and test (src/src/operations, src/src/core/operation.py), *)
(* each a process that reads the tracker when it starts, changes its copy  *)
(* and writes all of it.  A compile gives itself an id, the "cid", and the *)
(* tracker's "ptr" says under which id the tests put their results.        *)
(***************************************************************************)
EXTENDS Naturals, Sequences

CONSTANTS
  Procs,        (* the commands that may run at once                       *)
  Hex,          (* the random ids                                          *)
  Flags,        (* the flags a compile may be called with                  *)
  MaxCommands,  (* how many commands are started                           *)
  MaxShared,    (* how many when two of them overlap                       *)
  MaxRuns,      (* how many tests they run                                 *)
  None, Absent, Torn   (* no compile; no tracker; one that cannot be read  *)

Named == {"sanity_check", "fault_localization"}
Cids  == Hex \cup Named

(* exit_err and no_track as in Make.__init__; "ids" of the flags -sc, -fl. *)
Flag == [exit_err : BOOLEAN, no_track : BOOLEAN, ids : SUBSET Named]

(* An outcome: the results of its commands, 0 or 1; whether it has the     *)
(* lists of tests, and the runs in them.                                   *)
NewOutcome == [compiles |-> <<>>, lists |-> FALSE, runs |-> {}]
Outcome    == [compiles : Seq({0, 1}), lists : BOOLEAN, runs : SUBSET (1 .. MaxRuns)]
Doc        == [ptr : Cids \cup {None}, outcomes : [Cids -> Outcome \cup {None}]]
FirstDoc   == [ptr |-> None, outcomes |-> [c \in Cids |-> None]]
Known(doc) == {c \in Cids : doc.outcomes[c] # None}

ASSUME WorkspaceAssumption ==
  /\ Flags \subseteq Flag /\ {MaxCommands, MaxShared, MaxRuns} \subseteq Nat
  /\ MaxShared <= MaxCommands
  /\ Hex \cap Named = {} /\ None \notin Cids \cup Outcome \cup Flags
  /\ Absent # Torn /\ {Absent, Torn} \cap Doc = {}

VARIABLES
  tree,     (* the sources: "none", "part", "whole"                        *)
  built,    (* cmake has written its build files                           *)
  bin,      (* the compile that linked the binary in place, or None        *)
  tracker,  (* the file: Absent, Torn or a Doc                         *)
  pc,       (* of each process                                             *)
  then,     (* what it does after it saved                                 *)
  flag,     (* its flags, and the kind of command                          *)
  copy,     (* self.tracker                                                *)
  cid,      (* self.cid                                                    *)
  error,    (* self.error is set                                           *)
  run,      (* the test it runs                                            *)
  (* History variables:                                                    *)
  left,             (* the binary a compile's build or link left in place  *)
  starts, ranOn,    (* the commands started; the binary of each run        *)
  drawn,            (* the random ids used                                 *)
  overlap, killed, untracked   (* two commands at once, a kill, --no_track *)

files == <<tree, built, bin, left>>
local == <<flag, cid, error, run>>
ghost == <<starts, ranOn, drawn, overlap, killed, untracked>>
vars  == <<files, tracker, pc, then, local, copy, ghost>>

Kinds == {"checkout", "make", "compile", "inst", "link", "script", "test"}
Labels == {"idle", "empty", "copy", "cmake", "load", "build", "inst", "object", "link",
           "zero", "settest", "run", "record", "truncate", "dump", "raised", "exit0", "exit1"}
Ended == {"idle", "raised", "exit0", "exit1"}

Init ==
  /\ tree = "none" /\ built = FALSE /\ bin = None /\ tracker = Absent
  /\ pc = [p \in Procs |-> "idle"] /\ then = [p \in Procs |-> "exit0"]
  /\ flag = [p \in Procs |-> [kind |-> "test", with |-> None]]
  /\ copy = [p \in Procs |-> FirstDoc]
  /\ cid = [p \in Procs |-> None] /\ error = [p \in Procs |-> FALSE]
  /\ run = [p \in Procs |-> 0]
  /\ starts = 0 /\ ranOn = <<>> /\ drawn = {} /\ left = [c \in Cids |-> None]
  /\ overlap = FALSE /\ killed = FALSE /\ untracked = FALSE

Readable  == tracker \notin {Absent, Torn}
Goto(p, l) == pc' = [pc EXCEPT ![p] = l]

(* save_tracker opens the file with mode "w" and dumps the copy.           *)
SaveThen(p, doc, l) ==
  /\ copy' = [copy EXCEPT ![p] = doc]
  /\ then' = [then EXCEPT ![p] = l]
  /\ Goto(p, "truncate")

Truncate(p) ==
  /\ pc[p] = "truncate"
  /\ tracker' = Torn
  /\ Goto(p, "dump")
  /\ UNCHANGED <<files, then, local, copy, ghost>>

Dump(p) ==
  /\ pc[p] = "dump"
  /\ tracker' = copy[p]
  /\ Goto(p, then[p])
  /\ UNCHANGED <<files, then, local, copy, ghost>>

-----------------------------------------------------------------------------
(* A process starts a command.                                             *)
Starts(p, kind, with) ==
  /\ pc[p] \in Ended
  /\ overlap' = (overlap \/ \E q \in Procs \ {p} : pc[q] \notin Ended)
  /\ starts < IF overlap' THEN MaxShared ELSE MaxCommands
  /\ starts' = starts + 1
  /\ flag' = [flag EXCEPT ![p] = [kind |-> kind, with |-> with]]
  /\ error' = [error EXCEPT ![p] = FALSE]
  /\ UNCHANGED <<files, tracker, ranOn, killed>>

StartCheckout(p) ==
  /\ Starts(p, "checkout", None) /\ Goto(p, "empty")
  /\ UNCHANGED <<then, copy, cid, run, drawn, untracked>>

(* _mkdir looks for files, and source.mkdir raises when it is there.       *)
CheckEmpty(p) ==
  /\ pc[p] = "empty"
  /\ IF tree = "none" THEN tree' = "part" /\ Goto(p, "copy")
     ELSE UNCHANGED tree /\ Goto(p, "exit0")
  /\ UNCHANGED <<built, bin, left, tracker, then, local, copy, ghost>>

(* Copying ends or fails; the tracker is written last.  Every exception of *)
(* a checkout is caught.                                                   *)
Copy(p) ==
  /\ pc[p] = "copy"
  /\ \/ /\ tree' = "whole"
        /\ SaveThen(p, FirstDoc, "exit0")
     \/ UNCHANGED <<tree, then, copy>> /\ Goto(p, "exit0")
  /\ UNCHANGED <<built, bin, left, tracker, local, ghost>>

(* Operation.__init__ needs a tracker it can read.                         *)
StartFails(p, kind) ==
  /\ Starts(p, kind, None) /\ ~ Readable
  /\ Goto(p, "raised")
  /\ UNCHANGED <<then, copy, cid, run, drawn, untracked>>

-----------------------------------------------------------------------------
(* Make and Compile.                                                       *)
FreeIds(with) == with.ids \ Known(tracker)

(* Mutant: the named ids are used again.                                   *)
NewCidAgain(with) ==
  IF "sanity_check" \in with.ids THEN {"sanity_check"}
  ELSE IF with.ids # {} THEN with.ids
  ELSE Hex \ drawn

NewCid(with) ==
  IF "sanity_check" \in FreeIds(with) THEN {"sanity_check"}
  ELSE IF FreeIds(with) # {} THEN FreeIds(with)
  ELSE Hex \ drawn

(* Mutant: the pointer stays at the first compile.                         *)
WithOutcomeFirst(doc, c, o) ==
  [ptr |-> IF doc.ptr = None THEN c ELSE doc.ptr, outcomes |-> [doc.outcomes EXCEPT ![c] = o]]

WithOutcome(doc, c, o) ==
  [ptr |-> c, outcomes |-> [doc.outcomes EXCEPT ![c] = o]]

First(kind) ==
  CASE kind \in {"make", "compile"} -> "cmake"
    [] kind \in {"inst", "link"}    -> kind
    [] kind = "script"              -> "exit0"

(* _set_tracker saves the new id, and the pointer to it, before anything   *)
(* is compiled; --script compiles nothing.                                 *)
StartCompile(p, kind, with) ==
  /\ Starts(p, kind, with) /\ Readable
  /\ \E c \in NewCid(with) :
       /\ cid' = [cid EXCEPT ![p] = c]
       /\ drawn' = drawn \cup (Hex \cap {c})
       /\ LET doc == WithOutcome(tracker, c, NewOutcome)
          IN  IF with.no_track
              THEN copy' = [copy EXCEPT ![p] = doc] /\ UNCHANGED then /\ Goto(p, First(kind))
              ELSE SaveThen(p, doc, First(kind))
  /\ untracked' = (untracked \/ with.no_track)
  /\ UNCHANGED run

(* Make.outcome: with --no_track it returns at once, also for a failure.   *)
Records(p, result, l) ==
  IF flag[p].with.no_track THEN Goto(p, l) /\ UNCHANGED <<copy, then>>
  ELSE SaveThen(p, [copy[p] EXCEPT !.outcomes[cid[p]].compiles = Append(@, result)],
                IF result = 1 /\ flag[p].with.exit_err THEN "exit1" ELSE l)

(* An external command succeeds or fails; nothing resets an older error.   *)
Executes(p, failed) == error' = [error EXCEPT ![p] = @ \/ failed]

(* "if self.error: self.outcome(1, self.error)", then go on.               *)
Checks(p, l) == IF error'[p] THEN Records(p, 1, l) ELSE Goto(p, l) /\ UNCHANGED <<copy, then>>

Cmake(p) ==
  /\ pc[p] = "cmake"
  /\ \E failed \in BOOLEAN : Executes(p, failed) /\ built' = (built \/ ~ failed)
  /\ Checks(p, "load")
  /\ UNCHANGED <<tree, bin, left, tracker, flag, cid, run, ghost>>

(* load_commands raises without compile_commands.json.                     *)
Load(p) ==
  /\ pc[p] = "load"
  /\ IF ~ built THEN Goto(p, "raised") /\ UNCHANGED <<copy, then, error>>
     ELSE IF flag[p].kind = "make" THEN Goto(p, "exit0") /\ UNCHANGED <<copy, then, error>>
     ELSE UNCHANGED error /\ Checks(p, "build")
  /\ UNCHANGED <<files, tracker, flag, cid, run, ghost>>

(* The preprocessed file is mapped to a source; or none is, and linking    *)
(* follows; or it is missing; or there is no command to compile it, which  *)
(* raises KeyError after the outcome.                                      *)
Inst(p) ==
  /\ pc[p] = "inst"
  /\ IF ~ built THEN Goto(p, "raised") /\ UNCHANGED <<copy, then>>
     ELSE \/ Goto(p, "object") /\ UNCHANGED <<copy, then>>
          \/ \E l \in {"link", "object", "raised"} : Records(p, 1, l)
  /\ UNCHANGED <<files, tracker, local, ghost>>

Object(p) ==
  /\ pc[p] = "object"
  /\ \E failed \in BOOLEAN : Executes(p, failed)
  /\ Checks(p, "link")
  /\ UNCHANGED <<files, tracker, flag, cid, run, ghost>>

(* What a build may leave, "cmake --build" or make: it links when an object *)
(* is newer than the binary in place, and keeps that one when none is.  One *)
(* that fails may have linked before.  The link script always links.       *)
AfterLink(p, failed) ==
  IF pc[p] = "build" THEN {cid[p]} \cup (IF failed THEN {bin, None} ELSE {bin} \ {None})
  ELSE IF failed THEN {bin, None} ELSE {cid[p]}

Link(p) ==
  /\ pc[p] = "build" \/ (pc[p] = "link" /\ built)
  /\ \E failed \in BOOLEAN :
       /\ Executes(p, failed)
       /\ bin' \in AfterLink(p, failed)
       /\ left' = IF failed THEN left ELSE [left EXCEPT ![cid[p]] = bin']
  /\ Checks(p, "zero")
  /\ UNCHANGED <<tree, built, tracker, flag, cid, run, ghost>>

NoLinkFile(p) ==
  /\ pc[p] = "link" /\ ~ built
  /\ Records(p, 1, "exit0")
  /\ UNCHANGED <<files, tracker, local, ghost>>

(* Mutant: the status of make is recorded, which is 2 for an error.        *)
ZeroIsStatus(p) ==
  /\ pc[p] = "zero"
  /\ Records(p, IF error[p] THEN 2 ELSE 0, "exit0")
  /\ UNCHANGED <<files, tracker, local, ghost>>

(* The outcome 0 follows also when an error did not exit.                  *)
Zero(p) ==
  /\ pc[p] = "zero"
  /\ Records(p, 0, "exit0")
  /\ UNCHANGED <<files, tracker, local, ghost>>

-----------------------------------------------------------------------------
(* Mutant: new lists of tests are not saved.                               *)
StartTestUnsaved(p) ==
  /\ Starts(p, "test", None) /\ Readable
  /\ cid' = [cid EXCEPT ![p] = tracker.ptr]
  /\ copy' = [copy EXCEPT ![p] = tracker]
  /\ Goto(p, IF tracker.ptr = None THEN "raised" ELSE "settest")
  /\ UNCHANGED <<then, run, drawn, untracked>>

(* Test.__init__ needs a pointer.  The lists of tests are saved when they  *)
(* are new.                                                                *)
StartTest(p) ==
  /\ Starts(p, "test", None) /\ Readable
  /\ cid' = [cid EXCEPT ![p] = tracker.ptr]
  /\ IF tracker.ptr = None
     THEN Goto(p, "raised") /\ UNCHANGED <<copy, then>>
     ELSE IF tracker.outcomes[tracker.ptr].lists
     THEN copy' = [copy EXCEPT ![p] = tracker] /\ UNCHANGED then /\ Goto(p, "settest")
     ELSE SaveThen(p, [tracker EXCEPT !.outcomes[tracker.ptr].lists = TRUE], "settest")
  /\ UNCHANGED <<run, drawn, untracked>>

(* _set_test reads the tracker again, and exits when that fails or the     *)
(* lists are not there.                                                    *)
SetTest(p) ==
  /\ pc[p] = "settest"
  /\ IF Readable /\ cid[p] \in Known(tracker) /\ tracker.outcomes[cid[p]].lists
     THEN SaveThen(p, tracker, "run")
     ELSE Goto(p, "exit1") /\ UNCHANGED <<copy, then>>
  /\ UNCHANGED <<files, tracker, local, ghost>>

RunTest(p) ==
  /\ pc[p] = "run" /\ Len(ranOn) < MaxRuns
  /\ ranOn' = Append(ranOn, bin)
  /\ run' = [run EXCEPT ![p] = Len(ranOn) + 1]
  /\ Goto(p, "record")
  /\ UNCHANGED <<files, tracker, then, flag, cid, error, copy, starts, drawn, overlap, killed, untracked>>

(* Test.outcome; then the next test or the end.                            *)
RecordRun(p) ==
  /\ pc[p] = "record"
  /\ \E l \in {"settest", "exit0"} :
       SaveThen(p, [copy[p] EXCEPT !.outcomes[cid[p]].runs = @ \cup {run[p]}], l)
  /\ UNCHANGED <<files, tracker, local, ghost>>

NoMoreTests(p) ==
  /\ pc[p] = "settest"
  /\ Goto(p, "exit0")
  /\ UNCHANGED <<files, tracker, then, local, copy, ghost>>

-----------------------------------------------------------------------------
Kill(p) ==
  /\ pc[p] \notin Ended
  /\ Goto(p, "raised") /\ killed' = TRUE
  /\ UNCHANGED <<files, tracker, then, local, copy, starts, ranOn, drawn, overlap, untracked>>

Command(p) ==
  \/ StartCheckout(p) \/ CheckEmpty(p) \/ Copy(p)
  \/ \E kind \in Kinds \ {"checkout"} : StartFails(p, kind)
  \/ \E kind \in Kinds \ {"checkout", "test"}, with \in Flags : StartCompile(p, kind, with)
  \/ Cmake(p) \/ Load(p) \/ Inst(p) \/ Object(p) \/ Link(p) \/ NoLinkFile(p) \/ Zero(p)
  \/ StartTest(p) \/ SetTest(p) \/ RunTest(p) \/ RecordRun(p) \/ NoMoreTests(p)
  \/ Truncate(p) \/ Dump(p)

Next == \E p \in Procs : Command(p) \/ Kill(p)

Spec == Init /\ [][Next]_vars

-----------------------------------------------------------------------------
(* Every variable has its type.                                            *)
TypeOK ==
  /\ tree \in {"none", "part", "whole"} /\ built \in BOOLEAN
  /\ bin \in Cids \cup {None} /\ tracker \in Doc \cup {Absent, Torn}
  /\ pc \in [Procs -> Labels] /\ then \in [Procs -> Labels]
  /\ flag \in [Procs -> [kind : Kinds, with : Flags \cup {None}]]
  /\ copy \in [Procs -> Doc] /\ cid \in [Procs -> Cids \cup {None}]
  /\ error \in [Procs -> BOOLEAN] /\ run \in [Procs -> 0 .. MaxRuns]
  /\ starts \in 0 .. MaxCommands /\ ranOn \in Seq(Cids \cup {None})
  /\ left \in [Cids -> Cids \cup {None}]
  /\ drawn \subseteq Hex /\ {overlap, killed, untracked} \subseteq BOOLEAN

(* A test never fails for a key it does not find in the tracker it reads   *)
(* again, unless commands overlap.                                         *)
KeysAreThere ==
  \A p \in Procs : pc[p] = "exit1" /\ flag[p].kind = "test" => overlap

(* The runs under an id whose compile recorded nothing but 0 were made on  *)
(* the binary that compile left in place, linked by it or by an earlier    *)
(* compile whose binary it found up to date: not so with --no_track, which *)
(* leaves the pointer at an older id, or when a compile and a test overlap.*)
RunsAreOfTheirCompile ==
  Readable /\ ~ overlap /\ ~ untracked =>
    \A c \in Known(tracker) :
      LET o == tracker.outcomes[c]
      IN  o.compiles # <<>> /\ (\A k \in DOMAIN o.compiles : o.compiles[k] = 0)
            => left[c] # None /\ \A r \in o.runs : ranOn[r] = left[c]

(* Commands that follow one another keep the runs recorded before.         *)
RunsAreKept ==
  Readable /\ ~ overlap /\ ~ killed =>
    \A r \in DOMAIN ranOn :
      \/ \E c \in Known(tracker) : r \in tracker.outcomes[c].runs
      \/ \E p \in Procs : run[p] = r /\ pc[p] \in {"record", "truncate"}

=============================================================================
