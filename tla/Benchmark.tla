----------------------------- MODULE Benchmark ------------------------------
(***************************************************************************)
(* The files the benchmark derives from its sources, and the commands that *)
(* make, read and delete them: init.py writes for one challenge after the  *)
(* other its manifest, its patch and its entry in lib/metadata; manifest,  *)
(* patch and checkout make what is missing; clean deletes.  Each command   *)
(* is a process, and may be killed or raise an exception anywhere: nothing *)
(* in init.py catches one.  A challenge has one source file.               *)
(***************************************************************************)
EXTENDS SourceFile

CONSTANTS
  Order,        (* the challenges, as get_challenges lists them            *)
  Sources,      (* the files a challenge may have                          *)
  Procs,        (* the commands that may run at once                       *)
  MaxCommands,  (* how many are started                                    *)
  None, Absent, Torn   (* no file; not there; opened with "w", not closed  *)

Challenges == {Order[k] : k \in DOMAIN Order}

(* What the metadata says of some challenges.                              *)
Entry == [patch : Nat, vuln : Nat, excluded : BOOLEAN]
IsDoc(d) == \E S \in SUBSET Challenges : d \in [S -> Entry]

ASSUME BenchmarkAssumption ==
  /\ Order \in Seq(Challenges) /\ Order # <<>>
  /\ \A j, k \in DOMAIN Order : Order[j] = Order[k] => j = k
  /\ Sources \subseteq Seq(LineKinds) /\ MaxCommands \in Nat
  /\ Absent # Torn /\ "whole" \notin {Absent, Torn} /\ \A d \in {Absent, Torn} : ~ IsDoc(d)

VARIABLES
  src,        (* of each challenge, never changed                          *)
  manifest, patch,   (* of each challenge: Absent, Torn or "whole"         *)
  metadata,   (* Absent, Torn or the entries by challenge                  *)
  pc, kind,   (* of each process: where it is, and its command             *)
  then,       (* where get_manifest returns to                             *)
  at,         (* the place in Order of the challenge it is at              *)
  doc,        (* the entries it will write, or has read                    *)
  orphan,     (* the file it has open was deleted                          *)
  work, vuln, (* the checkout it made, and the vuln file in it             *)
  (* History variables:                                                    *)
  starts,     (* commands started                                          *)
  raced,      (* two of them were in conflict                              *)
  unlisted,   (* challenges someone stopped in writing the manifest of     *)
  partial     (* so was the metadata, or init.py after its first entry;    *)
              (* and it was not deleted since                              *)

derived == <<manifest, patch, metadata>>
local   == <<kind, then, at, doc, orphan>>
out     == <<work, vuln>>
ghost   == <<starts, raced, unlisted, partial>>
vars    == <<src, derived, pc, local, out, ghost>>

OnOne == {"manifest", "patch", "checkout"}
Kinds == {"init", "clean", "save"} \cup OnOne
Ended == {"idle", "done", "initialized", "already", "refused", "raised", "killed"}
Labels == Ended \cup {"get", "list", "openpatch", "dumppatch", "openmeta", "dumpmeta",
                      "copy", "remove", "unlink", "rmpatch", "rmmanifest"}

Init ==
  /\ src \in [Challenges -> Sources]
  /\ manifest = [c \in Challenges |-> Absent] /\ patch = manifest
  /\ metadata = Absent
  /\ pc = [p \in Procs |-> "idle"] /\ kind = [p \in Procs |-> "manifest"]
  /\ then = [p \in Procs |-> "done"] /\ at = [p \in Procs |-> 1]
  /\ doc = [p \in Procs |-> <<>>] /\ orphan = {}
  /\ work = [p \in Procs |-> None] /\ vuln = [p \in Procs |-> {}]
  /\ starts = 0 /\ raced = FALSE /\ unlisted = {} /\ partial = FALSE

Cur(p)     == Order[at[p]]
Readable   == metadata \notin {Absent, Torn}
Goto(p, l) == pc' = [pc EXCEPT ![p] = l]
Running(p) == pc[p] \notin Ended

Visible(c) == c \in DOMAIN metadata /\ ~ metadata[c].excluded

-----------------------------------------------------------------------------
(* Commands whose overlap the properties leave out: clean with any, init   *)
(* with one that saves the metadata.                                       *)
Conflict(k, l) == "clean" \in {k, l} \/ (k = "init" /\ l \in {"init", "save"})
                                    \/ (l = "init" /\ k = "save")

Starts(p, k) ==
  /\ ~ Running(p) /\ starts < MaxCommands
  /\ starts' = starts + 1
  /\ raced' = (raced \/ \E q \in Procs : Running(q) /\ Conflict(k, kind[q]))
  /\ kind' = [kind EXCEPT ![p] = k]
  /\ work' = [work EXCEPT ![p] = None] /\ vuln' = [vuln EXCEPT ![p] = {}]
  /\ UNCHANGED <<src, derived, orphan, unlisted, partial>>

(* init.py only looks whether the metadata file is there.                  *)
StartInit(p) ==
  /\ Starts(p, "init")
  /\ IF metadata # Absent THEN Goto(p, "already") /\ UNCHANGED <<at, doc, then>>
     ELSE /\ Goto(p, "get") /\ then' = [then EXCEPT ![p] = "openpatch"]
          /\ at' = [at EXCEPT ![p] = 1] /\ doc' = [doc EXCEPT ![p] = <<>>]

(* Every other command reads the metadata first, and exits or raises when  *)
(* it cannot, or when the challenge is not in it or excluded.              *)
Refused(p) ==
  /\ \E k \in Kinds \ {"init"} :
       /\ Starts(p, k)
       /\ Readable => k \in OnOne /\ \E c \in Challenges : ~ Visible(c)
  /\ Goto(p, "refused")
  /\ UNCHANGED <<at, doc, then>>

(* manifest and checkout call get_manifest first; patch when there is no   *)
(* patch file.                                                             *)
StartOn(p, k) ==
  /\ Starts(p, k) /\ Readable
  /\ \E n \in DOMAIN Order :
       /\ Visible(Order[n])
       /\ at' = [at EXCEPT ![p] = n]
       /\ Goto(p, IF k = "patch" /\ patch[Order[n]] # Absent THEN "done" ELSE "get")
  /\ then' = [then EXCEPT ![p] = CASE k = "manifest" -> "done"
                                   [] k = "patch"    -> "openpatch"
                                   [] k = "checkout" -> "copy"]
  /\ UNCHANGED doc

StartClean(p) ==
  /\ Starts(p, "clean") /\ Readable
  /\ doc' = [doc EXCEPT ![p] = metadata] /\ Goto(p, "unlink")
  /\ UNCHANGED <<at, then>>

(* Any command that saves the metadata: it may exclude a challenge.        *)
StartSave(p) ==
  /\ Starts(p, "save") /\ Readable
  /\ \E S \in {{}} \cup {{c} : c \in DOMAIN metadata} :
       doc' = [doc EXCEPT ![p] = [c \in DOMAIN metadata |->
                 IF c \in S THEN [metadata[c] EXCEPT !.excluded = TRUE] ELSE metadata[c]]]
  /\ Goto(p, "openmeta")
  /\ UNCHANGED <<at, then>>

-----------------------------------------------------------------------------
(* get_manifest writes the manifest unless there is one.                   *)
GetManifest(p) ==
  /\ pc[p] = "get"
  /\ IF manifest[Cur(p)] # Absent THEN Goto(p, then[p]) /\ UNCHANGED manifest
     ELSE Goto(p, "list") /\ manifest' = [manifest EXCEPT ![Cur(p)] = Torn]
  /\ UNCHANGED <<src, patch, metadata, local, out, ghost>>

(* Mutant: the file is never closed.                                       *)
ClosesNever(p, file) == file

(* What is written to a deleted file is lost.                              *)
Closes(p, file) == IF p \in orphan THEN file ELSE [file EXCEPT ![Cur(p)] = "whole"]

ListFiles(p) ==
  /\ pc[p] = "list" /\ ~ IsUnclosed(src[Cur(p)])
  /\ manifest' = Closes(p, manifest) /\ orphan' = orphan \ {p}
  /\ Goto(p, then[p])
  /\ UNCHANGED <<src, patch, metadata, kind, then, at, doc, out, ghost>>

OpenPatch(p) ==
  /\ pc[p] = "openpatch"
  /\ patch' = [patch EXCEPT ![Cur(p)] = Torn]
  /\ Goto(p, "dumppatch")
  /\ UNCHANGED <<src, manifest, metadata, local, out, ghost>>

NewEntry(lines) ==
  [patch |-> Counts(lines).patch, vuln |-> Counts(lines).vuln, excluded |-> FALSE]

(* Mutant: the entries start anew with each challenge.                     *)
DumpPatchAnew(p) ==
  /\ pc[p] = "dumppatch"
  /\ patch' = Closes(p, patch) /\ orphan' = orphan \ {p}
  /\ IF kind[p] = "init"
     THEN /\ doc' = [doc EXCEPT ![p] = [c \in {Cur(p)} |-> NewEntry(src[c])]]
          /\ Goto(p, "openmeta")
     ELSE Goto(p, "done") /\ UNCHANGED doc
  /\ UNCHANGED <<src, manifest, metadata, kind, then, at, out, ghost>>

(* init.py goes on with the entry of the challenge.                        *)
DumpPatch(p) ==
  /\ pc[p] = "dumppatch"
  /\ patch' = Closes(p, patch) /\ orphan' = orphan \ {p}
  /\ IF kind[p] = "init"
     THEN /\ doc' = [doc EXCEPT ![p] =
                 [c \in DOMAIN @ \cup {Cur(p)} |->
                    IF c = Cur(p) THEN NewEntry(src[c]) ELSE @[c]]]
          /\ Goto(p, "openmeta")
     ELSE Goto(p, "done") /\ UNCHANGED doc
  /\ UNCHANGED <<src, manifest, metadata, kind, then, at, out, ghost>>

(* save_metadata holds the lock; init.py opens the file without.           *)
OpenMeta(p) ==
  /\ pc[p] = "openmeta"
  /\ kind[p] = "save" =>
       \A q \in Procs : ~ (pc[q] = "dumpmeta" /\ kind[q] = "save")
  /\ metadata' = Torn
  /\ Goto(p, "dumpmeta")
  /\ UNCHANGED <<src, manifest, patch, local, out, ghost>>

(* When another has written since, and more, its end stays behind.         *)
Written(p) ==
  IF p \in orphan THEN {metadata}
  ELSE IF /\ Readable /\ metadata # doc[p]
          /\ Cardinality(DOMAIN metadata) >= Cardinality(DOMAIN doc[p])
  THEN {doc[p], Torn} ELSE {doc[p]}

(* Mutant: one challenge too many.                                         *)
DumpMetaPast(p) ==
  /\ pc[p] = "dumpmeta"
  /\ metadata' \in Written(p) /\ orphan' = orphan \ {p}
  /\ IF kind[p] = "save" THEN Goto(p, "done") /\ UNCHANGED at
     ELSE IF at[p] > Len(Order) THEN Goto(p, "initialized") /\ UNCHANGED at
     ELSE Goto(p, "get") /\ at' = [at EXCEPT ![p] = @ + 1]
  /\ UNCHANGED <<src, manifest, patch, kind, then, doc, out, ghost>>

DumpMeta(p) ==
  /\ pc[p] = "dumpmeta"
  /\ metadata' \in Written(p) /\ orphan' = orphan \ {p}
  /\ IF kind[p] = "save" THEN Goto(p, "done") /\ UNCHANGED at
     ELSE IF at[p] = Len(Order) THEN Goto(p, "initialized") /\ UNCHANGED at
     ELSE Goto(p, "get") /\ at' = [at EXCEPT ![p] = @ + 1]
  /\ UNCHANGED <<src, manifest, patch, kind, then, doc, out, ghost>>

-----------------------------------------------------------------------------
(* Checkout copies the sources, and asks for the manifest again to remove  *)
(* the patches.                                                            *)
Copy(p) ==
  /\ pc[p] = "copy"
  /\ work' = [work EXCEPT ![p] = src[Cur(p)]]
  /\ then' = [then EXCEPT ![p] = "remove"] /\ Goto(p, "get")
  /\ UNCHANGED <<src, derived, kind, at, doc, orphan, vuln, ghost>>

(* Only the files the manifest lists are looked at.  There is no removing  *)
(* a patch that does not end.                                              *)
RemovePatches(p) ==
  /\ pc[p] = "remove"
  /\ IF \/ manifest[Cur(p)] = Absent
        \/ manifest[Cur(p)] = "whole" /\ IsOpen(Extract(src[Cur(p)]))
     THEN Goto(p, "raised") /\ UNCHANGED out
     ELSE /\ Goto(p, "done")
          /\ IF manifest[Cur(p)] = "whole" /\ HasSnippets(src[Cur(p)])
             THEN /\ work' = [work EXCEPT ![p] = RemovePatch(@)]
                  /\ vuln' = [vuln EXCEPT ![p] = VulnAfterRemoval(work[p])]
             ELSE UNCHANGED out
  /\ UNCHANGED <<src, derived, local, ghost>>

-----------------------------------------------------------------------------
(* Clean deletes the metadata, then the files of the challenges that were  *)
(* not excluded.                                                           *)
Cleaned(p) == {n \in DOMAIN Order : Order[n] \in DOMAIN doc[p] /\ ~ doc[p][Order[n]].excluded}
CleanFrom(p, from) ==
  LET left == {n \in Cleaned(p) : n >= from}
  IN  IF left = {} THEN Goto(p, "done") /\ UNCHANGED at
      ELSE Goto(p, "rmpatch") /\ at' = [at EXCEPT ![p] = CHOOSE n \in left : \A m \in left : n <= m]

Orphans(label, n) == {q \in Procs : pc[q] = label /\ (n = 0 \/ at[q] = n)}

UnlinkMetadata(p) ==
  /\ pc[p] = "unlink"
  /\ IF metadata = Absent THEN Goto(p, "raised") /\ UNCHANGED <<metadata, orphan, at>>
     ELSE /\ metadata' = Absent /\ orphan' = orphan \cup Orphans("dumpmeta", 0)
          /\ CleanFrom(p, 1)
  /\ partial' = (partial /\ metadata' # Absent)
  /\ UNCHANGED <<src, manifest, patch, kind, then, doc, out, starts, raced, unlisted>>

UnlinkPatch(p) ==
  /\ pc[p] = "rmpatch"
  /\ patch' = [patch EXCEPT ![Cur(p)] = Absent]
  /\ orphan' = orphan \cup Orphans("dumppatch", at[p])
  /\ Goto(p, "rmmanifest")
  /\ UNCHANGED <<src, manifest, metadata, kind, then, at, doc, out, ghost>>

UnlinkManifest(p) ==
  /\ pc[p] = "rmmanifest"
  /\ manifest' = [manifest EXCEPT ![Cur(p)] = Absent]
  /\ orphan' = orphan \cup Orphans("list", at[p])
  /\ CleanFrom(p, at[p] + 1)
  /\ UNCHANGED <<src, patch, metadata, kind, then, doc, out, ghost>>

-----------------------------------------------------------------------------
(* A command ends in the middle: what it has open is left as it is.        *)
Stops(p, l) ==
  /\ Running(p)
  /\ Goto(p, l) /\ orphan' = orphan \ {p}
  /\ unlisted' = unlisted \cup (IF pc[p] = "list" THEN {Cur(p)} ELSE {})
  /\ partial' = (partial \/ pc[p] = "dumpmeta" \/ (kind[p] = "init" /\ at[p] > 1))
  /\ UNCHANGED <<src, patch, kind, then, at, doc, out, starts, raced>>

Kill(p) == Stops(p, "killed") /\ UNCHANGED <<manifest, metadata>>

(* An exception anywhere, as of a challenge without README, a source that  *)
(* is no text, a full disk.  The file that is open is closed.  A manifest  *)
(* is all written when get_vulns raises.                                   *)
Raises(p) ==
  /\ Stops(p, "raised")
  /\ manifest' = manifest \/ (pc[p] = "list" /\ manifest' = Closes(p, manifest))
  /\ metadata' = metadata \/ (pc[p] = "dumpmeta" /\ p \notin orphan /\ metadata' = Torn)

Next ==
  \E p \in Procs :
    \/ StartInit(p) \/ Refused(p) \/ StartClean(p) \/ StartSave(p)
    \/ \E k \in OnOne : StartOn(p, k)
    \/ GetManifest(p) \/ ListFiles(p) \/ OpenPatch(p) \/ DumpPatch(p)
    \/ OpenMeta(p) \/ DumpMeta(p) \/ Copy(p) \/ RemovePatches(p)
    \/ UnlinkMetadata(p) \/ UnlinkPatch(p) \/ UnlinkManifest(p) \/ Kill(p) \/ Raises(p)

Spec == Init /\ [][Next]_vars

-----------------------------------------------------------------------------
(* Every variable has its type.                                            *)
TypeOK ==
  /\ src \in [Challenges -> Sources]
  /\ {manifest, patch} \subseteq [Challenges -> {Absent, Torn, "whole"}]
  /\ metadata \in {Absent, Torn} \/ IsDoc(metadata)
  /\ pc \in [Procs -> Labels] /\ kind \in [Procs -> Kinds] /\ then \in [Procs -> Labels]
  /\ at \in [Procs -> DOMAIN Order] /\ orphan \subseteq Procs
  /\ doc = [p \in Procs |-> doc[p]] /\ \A p \in Procs : IsDoc(doc[p])
  /\ work \in [Procs -> {None} \cup Seq(LineKinds)]
  /\ starts \in 0 .. MaxCommands /\ unlisted \subseteq Challenges
  /\ {raced, partial} \subseteq BOOLEAN

(* Commands see only challenges whose manifest and patch file are written: *)
(* init.py makes the entry last.  Who is stopped may leave a manifest torn *)
(* that nobody writes again, but only that of the challenge he was at, and *)
(* no patch file, which init.py does write again.                          *)
EntryIsBacked ==
  Readable /\ ~ raced =>
    \A c \in DOMAIN metadata :
      /\ patch[c] = "whole"
      /\ manifest[c] = "whole" \/ (c \in unlisted /\ manifest[c] = Torn)

(* "Remove the patches and respective definitions from the source code."   *)
(* (checkout.py:94)  A checkout that ends well holds the program without   *)
(* its patches, line by line, whatever was stopped in other challenges.    *)
CheckedOut(p) ==
  pc[p] = "done" /\ kind[p] = "checkout" /\ Cur(p) \notin unlisted /\ ~ raced
CheckoutIsUnpatched == \A p \in Procs : CheckedOut(p) => work[p] = Unpatched(src[Cur(p)])

(* "Benchmark already initialized" (init.py:11) is the truth, unless       *)
(* someone was stopped, by a kill or an exception, as he wrote the         *)
(* metadata, or init.py after its first entry, and clean has not deleted   *)
(* it since: then it is torn, or has the first challenges and no other.    *)
Before(n) == {Order[k] : k \in 1 .. n}
Firsts(S) == \E n \in 0 .. Len(Order) : S = Before(n)
AlreadyMeansWhole ==
  [][\A p \in Procs :
       Running(p) = FALSE /\ starts' > starts /\ pc'[p] = "already" /\ pc[p] # "already"
         /\ ~ raced'
       => /\ Readable => Firsts(DOMAIN metadata)
          /\ partial \/ (Readable /\ DOMAIN metadata = Challenges)]_vars

=============================================================================
