-------------------------- MODULE WorkspaceProofs ---------------------------
(***************************************************************************)
(* Proofs about the working directory and its tracker, for any number of   *)
(* processes, commands, ids and flags.                                     *)
(***************************************************************************)
EXTENDS Workspace, SequenceTheorems, TLAPS

(* A document: the pointer is to a compile, the runs were made, the random *)
(* ids were drawn.                                                         *)
Sane(doc, made, ids) ==
  /\ doc.ptr # None => doc.ptr \in Known(doc)
  /\ \A c \in Known(doc) : doc.outcomes[c].runs \subseteq 1 .. made
  /\ Known(doc) \cap Hex \subseteq ids

(* A compile that recorded nothing but 0; the outcome of one that failed.  *)
Clean(o)  == o.compiles # <<>> /\ \A k \in DOMAIN o.compiles : o.compiles[k] = 0
HasOne(o) == \E k \in DOMAIN o.compiles : o.compiles[k] = 1
AllOne(o) == \A k \in DOMAIN o.compiles : o.compiles[k] = 1

(* The runs under a clean compile were made on the binary it left, and     *)
(* when the pointer is to one the next run will be.                        *)
HonestDoc(doc, ran, exe, by) ==
  /\ \A c \in Known(doc) : Clean(doc.outcomes[c]) =>
       by[c] # None /\ \A r \in doc.outcomes[c].runs : ran[r] = by[c]
  /\ doc.ptr # None => (Clean(doc.outcomes[doc.ptr]) => exe = by[doc.ptr])

(* Some compile of the document has the run.                               *)
KeptIn(doc, r) == \E c \in Known(doc) : r \in doc.outcomes[c].runs

-----------------------------------------------------------------------------
Working(p) == pc[p] \notin Ended
Saving(p)  == pc[p] \in {"truncate", "dump"}

(* Where a process is, or goes when it has saved.                          *)
Stage(p) == IF Saving(p) THEN then[p] ELSE pc[p]

Builds      == {"make", "compile", "inst", "link", "script"}
After       == {"zero", "exit0", "exit1", "raised"}
BuildStages == {"cmake", "load", "build", "inst", "object", "link"} \cup After
TestStages  == {"settest", "run", "record", "exit0"}

(* What a command has in hand: a compile its outcome, a test its lists.    *)
InHand(p) == cid[p] \in Cids /\ cid[p] \in Known(copy[p])

Placed(p) ==
  Working(p) =>
    \/ flag[p].kind = "checkout" /\ pc[p] \in {"empty", "copy"}
    \/ flag[p].kind = "checkout" /\ Saving(p) /\ then[p] = "exit0" /\ copy[p] = FirstDoc
    \/ flag[p].kind \in Builds /\ Stage(p) \in BuildStages /\ flag[p].with \in Flags /\ InHand(p)
    \/ /\ flag[p].kind = "test" /\ Stage(p) \in TestStages
       /\ InHand(p) /\ copy[p].outcomes[cid[p]].lists
       /\ Stage(p) = "record" => run[p] \in 1 .. Len(ranOn)

SaneOnDisk == Readable => Sane(tracker, Len(ranOn), drawn)
SaneCopy(p) == Sane(copy[p], Len(ranOn), drawn)

(* Before a checkout there is nothing.                                     *)
Fresh ==
  tree = "none" => /\ tracker = Absent /\ ranOn = <<>>
                   /\ \A p \in Procs : Working(p) => flag[p].kind = "checkout" /\ pc[p] = "empty"

(* The part of the invariant that holds whatever overlaps.                 *)
Base ==
  /\ TypeOK /\ SaneOnDisk /\ Fresh
  /\ \A p \in Procs : Placed(p) /\ SaneCopy(p)

-----------------------------------------------------------------------------
(* Documents.                                                              *)
LEMMA CidFacts == None \notin Cids /\ None \notin Outcome /\ None \notin Flags
                  /\ Hex \subseteq Cids /\ Named \subseteq Cids
BY WorkspaceAssumption DEF Cids

LEMMA NewOutcomeType ==
  /\ NewOutcome \in Outcome /\ NewOutcome # None
  /\ NewOutcome.runs = {} /\ NewOutcome.compiles = <<>> /\ NewOutcome.lists = FALSE
<1>1. NewOutcome \in Outcome
  BY DEF NewOutcome, Outcome
<1> QED BY <1>1, CidFacts DEF NewOutcome

LEMMA FirstDocType == FirstDoc \in Doc /\ Known(FirstDoc) = {} /\ FirstDoc.ptr = None
BY DEF FirstDoc, Doc, Known

LEMMA KnownType ==
  ASSUME NEW doc \in Doc, NEW c \in Known(doc)
  PROVE  c \in Cids /\ doc.outcomes[c] \in Outcome
BY DEF Doc, Known

LEMMA ChangesOutcomes ==
  ASSUME NEW doc \in Doc
  PROVE  \A x : [doc EXCEPT !.outcomes = x] = [ptr |-> doc.ptr, outcomes |-> x]
BY DEF Doc

LEMMA OutcomeChanges ==
  ASSUME NEW o \in Outcome
  PROVE  /\ \A result \in {0, 1} :
              /\ [o EXCEPT !.compiles = Append(@, result)] \in Outcome
              /\ [o EXCEPT !.compiles = Append(@, result)].compiles = Append(o.compiles, result)
              /\ [o EXCEPT !.compiles = Append(@, result)].runs = o.runs
              /\ [o EXCEPT !.compiles = Append(@, result)].lists = o.lists
         /\ /\ [o EXCEPT !.lists = TRUE] \in Outcome
            /\ [o EXCEPT !.lists = TRUE].compiles = o.compiles
            /\ [o EXCEPT !.lists = TRUE].runs = o.runs
            /\ [o EXCEPT !.lists = TRUE].lists = TRUE
         /\ \A r \in 1 .. MaxRuns :
              /\ [o EXCEPT !.runs = @ \cup {r}] \in Outcome
              /\ [o EXCEPT !.runs = @ \cup {r}].compiles = o.compiles
              /\ [o EXCEPT !.runs = @ \cup {r}].runs = o.runs \cup {r}
              /\ [o EXCEPT !.runs = @ \cup {r}].lists = o.lists
<1>1. o.compiles \in Seq({0, 1}) /\ o.lists \in BOOLEAN /\ o.runs \subseteq 1 .. MaxRuns
      /\ o = [compiles |-> o.compiles, lists |-> o.lists, runs |-> o.runs]
  BY DEF Outcome
<1>2. \A result \in {0, 1} : Append(o.compiles, result) \in Seq({0, 1})
  BY <1>1, AppendProperties
<1> QED BY <1>1, <1>2 DEF Outcome

(* The revisions of a document: of one outcome, and perhaps its pointer.   *)
Revised(doc, d, c) ==
  /\ d \in Doc /\ c \in Cids /\ Known(d) = Known(doc) \cup {c}
  /\ \A e \in Cids \ {c} : d.outcomes[e] = doc.outcomes[e]

(* A compile begins: its outcome is new, and pointed to.                   *)
Begun(doc, d, c) ==
  Revised(doc, d, c) /\ d.ptr = c /\ d.outcomes[c] = NewOutcome

(* A result, the lists or a run are added to an outcome.                   *)
Extended(doc, d, c) == Revised(doc, d, c) /\ c \in Known(doc) /\ d.ptr = doc.ptr

Appended(doc, d, c, result) ==
  /\ Extended(doc, d, c)
  /\ d.outcomes[c].compiles = Append(doc.outcomes[c].compiles, result)
  /\ d.outcomes[c].runs = doc.outcomes[c].runs

Listed(doc, d, c) ==
  /\ Extended(doc, d, c) /\ d.outcomes[c].lists
  /\ d.outcomes[c].compiles = doc.outcomes[c].compiles
  /\ d.outcomes[c].runs = doc.outcomes[c].runs

RunAdded(doc, d, c, r) ==
  /\ Extended(doc, d, c) /\ d.outcomes[c].lists = doc.outcomes[c].lists
  /\ d.outcomes[c].compiles = doc.outcomes[c].compiles
  /\ d.outcomes[c].runs = doc.outcomes[c].runs \cup {r}

(* A document changed under one id, and its pointer.                       *)
Changed(doc, ptr, c, o) == [ptr |-> ptr, outcomes |-> [doc.outcomes EXCEPT ![c] = o]]

LEMMA ChangedType ==
  ASSUME NEW doc \in Doc, NEW ptr \in Cids \cup {None}, NEW c \in Cids, NEW o \in Outcome,
         NEW d, d = Changed(doc, ptr, c, o)
  PROVE  /\ Revised(doc, d, c) /\ d.ptr = ptr /\ d.outcomes[c] = o
<1>1. doc.outcomes \in [Cids -> Outcome \cup {None}] /\ o # None
  BY CidFacts DEF Doc
<1> DEFINE new == [doc.outcomes EXCEPT ![c] = o]
<1>2. new \in [Cids -> Outcome \cup {None}] /\ new[c] = o
      /\ \A e \in Cids \ {c} : new[e] = doc.outcomes[e]
  BY <1>1
<1> HIDE DEF new
<1>3. [ptr |-> ptr, outcomes |-> new] \in Doc
  BY <1>2 DEF Doc
<1>4. d = [ptr |-> ptr, outcomes |-> new]
  BY DEF Changed, new
<1> QED BY <1>1, <1>2, <1>3, <1>4 DEF Known, Revised

LEMMA BegunHolds ==
  ASSUME NEW doc \in Doc, NEW c \in Cids
  PROVE  Begun(doc, WithOutcome(doc, c, NewOutcome), c)
<1> DEFINE d == Changed(doc, c, c, NewOutcome)
<1>1. d = WithOutcome(doc, c, NewOutcome)
  BY DEF Changed, WithOutcome
<1> HIDE DEF d
<1>2. Revised(doc, d, c) /\ d.ptr = c /\ d.outcomes[c] = NewOutcome
  BY NewOutcomeType, ChangedType DEF d
<1> QED BY <1>1, <1>2 DEF Begun

LEMMA AppendedHolds ==
  ASSUME NEW doc \in Doc, NEW c \in Known(doc), doc.ptr \in Cids \cup {None}, NEW result \in {0, 1}
  PROVE  Appended(doc, [doc EXCEPT !.outcomes[c].compiles = Append(@, result)], c, result)
<1> DEFINE o == [doc.outcomes[c] EXCEPT !.compiles = Append(@, result)]
           d == Changed(doc, doc.ptr, c, o)
<1>1. c \in Cids /\ doc.outcomes[c] \in Outcome
  BY KnownType
<1>2. d = [doc EXCEPT !.outcomes[c].compiles = Append(@, result)]
  BY ChangesOutcomes, Zenon DEF Changed
<1>3. o \in Outcome /\ o.compiles = Append(doc.outcomes[c].compiles, result)
      /\ o.runs = doc.outcomes[c].runs
  BY <1>1, OutcomeChanges
<1>5. d = Changed(doc, doc.ptr, c, o)
  OBVIOUS
<1>6. o \in Outcome
  BY <1>3
<1> HIDE DEF d, o
<1>4. Revised(doc, d, c) /\ d.ptr = doc.ptr /\ d.outcomes[c] = o
  BY <1>1, <1>5, <1>6, ChangedType
<1> QED BY <1>1, <1>2, <1>3, <1>4 DEF Appended, Extended

LEMMA ListedHolds ==
  ASSUME NEW doc \in Doc, NEW c \in Known(doc), doc.ptr \in Cids \cup {None}
  PROVE  Listed(doc, [doc EXCEPT !.outcomes[c].lists = TRUE], c)
<1> DEFINE o == [doc.outcomes[c] EXCEPT !.lists = TRUE]
           d == Changed(doc, doc.ptr, c, o)
<1>1. c \in Cids /\ doc.outcomes[c] \in Outcome
  BY KnownType
<1>2. d = [doc EXCEPT !.outcomes[c].lists = TRUE]
  BY ChangesOutcomes, Zenon DEF Changed
<1>3. o \in Outcome /\ o.compiles = doc.outcomes[c].compiles /\ o.lists
      /\ o.runs = doc.outcomes[c].runs
  BY <1>1, OutcomeChanges
<1>5. d = Changed(doc, doc.ptr, c, o)
  OBVIOUS
<1> HIDE DEF d, o
<1>4. Revised(doc, d, c) /\ d.ptr = doc.ptr /\ d.outcomes[c] = o
  BY <1>1, <1>3, <1>5, ChangedType
<1> QED BY <1>1, <1>2, <1>3, <1>4 DEF Listed, Extended

LEMMA RunAddedHolds ==
  ASSUME NEW doc \in Doc, NEW c \in Known(doc), doc.ptr \in Cids \cup {None}, NEW r \in 1 .. MaxRuns
  PROVE  RunAdded(doc, [doc EXCEPT !.outcomes[c].runs = @ \cup {r}], c, r)
<1> DEFINE o == [doc.outcomes[c] EXCEPT !.runs = @ \cup {r}]
           d == Changed(doc, doc.ptr, c, o)
<1>1. c \in Cids /\ doc.outcomes[c] \in Outcome
  BY KnownType
<1>2. d = [doc EXCEPT !.outcomes[c].runs = @ \cup {r}]
  BY ChangesOutcomes, Zenon DEF Changed
<1>3. o \in Outcome /\ o.compiles = doc.outcomes[c].compiles
      /\ o.lists = doc.outcomes[c].lists /\ o.runs = doc.outcomes[c].runs \cup {r}
  BY <1>1, OutcomeChanges
<1>5. d = Changed(doc, doc.ptr, c, o)
  OBVIOUS
<1> HIDE DEF d, o
<1>4. Revised(doc, d, c) /\ d.ptr = doc.ptr /\ d.outcomes[c] = o
  BY <1>1, <1>3, <1>5, ChangedType
<1> QED BY <1>1, <1>2, <1>3, <1>4 DEF RunAdded, Extended

(* A sane document stays so, and so do its revisions.                      *)
LEMMA SaneGrows ==
  ASSUME NEW doc, NEW m \in Nat, NEW ids, NEW m2 \in Nat, NEW ids2,
         Sane(doc, m, ids), m <= m2, ids \subseteq ids2
  PROVE  Sane(doc, m2, ids2)
BY DEF Sane

LEMMA SaneRevisions ==
  ASSUME NEW doc \in Doc, NEW d, NEW c, NEW m \in Nat, NEW ids, Sane(doc, m, ids)
  PROVE  /\ \A more : Begun(doc, d, c) /\ ids \subseteq more /\ Hex \cap {c} \subseteq more => Sane(d, m, more)
         /\ \A result : Appended(doc, d, c, result) => Sane(d, m, ids)
         /\ Listed(doc, d, c) => Sane(d, m, ids)
         /\ \A r \in 1 .. m : RunAdded(doc, d, c, r) => Sane(d, m, ids)
<1> USE DEF Revised, Extended
<1>1. Known(doc) \subseteq Cids
  BY DEF Known
<1>2. ASSUME NEW more, Begun(doc, d, c), ids \subseteq more, Hex \cap {c} \subseteq more PROVE Sane(d, m, more)
  BY <1>1, <1>2, NewOutcomeType DEF Begun, Sane
<1>3. ASSUME NEW result, Appended(doc, d, c, result) PROVE Sane(d, m, ids)
  BY <1>1, <1>3 DEF Appended, Sane
<1>4. ASSUME Listed(doc, d, c) PROVE Sane(d, m, ids)
  BY <1>1, <1>4 DEF Listed, Sane
<1>5. ASSUME NEW r \in 1 .. m, RunAdded(doc, d, c, r) PROVE Sane(d, m, ids)
  BY <1>1, <1>5 DEF RunAdded, Sane
<1> QED BY <1>2, <1>3, <1>4, <1>5

LEMMA FirstIsSane ==
  ASSUME NEW m, NEW ids PROVE Sane(FirstDoc, m, ids)
BY FirstDocType DEF Sane

-----------------------------------------------------------------------------
(* What a step of a process may change: what is its own, and the counters, *)
(* which grow.                                                             *)
LocalTo(p) ==
  \A q \in Procs : q # p =>
    /\ pc'[q] = pc[q] /\ then'[q] = then[q] /\ flag'[q] = flag[q] /\ copy'[q] = copy[q]
    /\ cid'[q] = cid[q] /\ run'[q] = run[q]

Grows ==
  /\ drawn \subseteq drawn' /\ Len(ranOn) <= Len(ranOn')
  /\ \A r \in 1 .. Len(ranOn) : ranOn'[r] = ranOn[r]
  /\ (overlap => overlap') /\ (killed => killed') /\ (untracked => untracked')

Moves(p, l) == Goto(p, l) /\ UNCHANGED <<copy, then>>

(* A step of make or compile: it goes on, or it saves a result first.      *)
BuildMove(p) ==
  /\ Working(p) /\ ~ Saving(p) /\ flag[p].kind \in Builds
  /\ UNCHANGED <<tracker, tree, ghost, flag, cid, run>>
  /\ \E l \in BuildStages :
       \/ Moves(p, l)
       \/ /\ ~ flag[p].with.no_track
          /\ \E result \in {0, 1} : \E d : Appended(copy[p], d, cid[p], result) /\ SaveThen(p, d, l)

LEMMA RecordsShape ==
  ASSUME TypeOK, NEW p \in Procs, InHand(p), NEW result \in {0, 1}, NEW l, Records(p, result, l)
  PROVE  \/ flag[p].with.no_track /\ Moves(p, l)
         \/ /\ ~ flag[p].with.no_track
            /\ \E d : /\ Appended(copy[p], d, cid[p], result)
                      /\ SaveThen(p, d, IF result = 1 /\ flag[p].with.exit_err THEN "exit1" ELSE l)
<1>1. PICK doc \in Doc, c \in Cids : doc = copy[p] /\ c = cid[p]
  BY DEF TypeOK, InHand
<1>2. c \in Known(doc) /\ doc.ptr \in Cids \cup {None}
  BY <1>1 DEF Doc, InHand
<1>3. PICK d : /\ d = [copy[p] EXCEPT !.outcomes[cid[p]].compiles = Append(@, result)]
               /\ Appended(doc, d, c, result)
  BY <1>1, <1>2, AppendedHolds, Zenon
<1>4. CASE flag[p].with.no_track
  BY <1>4 DEF Records, Moves
<1>5. CASE ~ flag[p].with.no_track
  BY <1>1, <1>3, <1>5 DEF Records
<1> QED BY <1>4, <1>5

LEMMA AtBuild ==
  ASSUME NEW p \in Procs, Placed(p),
         pc[p] \in {"cmake", "load", "build", "inst", "object", "link", "zero"}
  PROVE  flag[p].kind \in Builds /\ InHand(p) /\ Working(p) /\ ~ Saving(p)
BY DEF Placed, Working, Saving, Ended, Stage, TestStages

(* The steps of make and compile, whatever fails.                          *)
Building(p) == Cmake(p) \/ Load(p) \/ Inst(p) \/ Object(p) \/ Link(p) \/ NoLinkFile(p) \/ Zero(p)

LEMMA BuildShape ==
  ASSUME TypeOK, NEW p \in Procs, Placed(p), Building(p)
  PROVE  /\ BuildMove(p)
         /\ built' \in BOOLEAN /\ bin' \in Cids \cup {None} /\ error' \in [Procs -> BOOLEAN]
         /\ left' \in [Cids -> Cids \cup {None}]
<1>1. flag[p].kind \in Builds /\ InHand(p) /\ Working(p) /\ ~ Saving(p)
  BY AtBuild DEF Building, Cmake, Load, Inst, Object, Link, NoLinkFile, Zero
<1>2. UNCHANGED <<tracker, tree, ghost, flag, cid, run>>
  BY DEF Building, Cmake, Load, Inst, Object, Link, NoLinkFile, Zero, files, local
<1>3. /\ built' \in BOOLEAN /\ bin' \in Cids \cup {None} /\ error' \in [Procs -> BOOLEAN]
      /\ left' \in [Cids -> Cids \cup {None}]
  <2>1. \A failed \in BOOLEAN : Executes(p, failed) => error' \in [Procs -> BOOLEAN]
    BY DEF Executes, TypeOK
  <2>2. cid[p] \in Cids
    BY <1>1 DEF InHand
  <2>3. /\ built \in BOOLEAN /\ bin \in Cids \cup {None} /\ error \in [Procs -> BOOLEAN]
        /\ left \in [Cids -> Cids \cup {None}]
    BY DEF TypeOK
  <2>4. CASE Cmake(p)
    <3>1. PICK failed \in BOOLEAN : Executes(p, failed) /\ built' = (built \/ ~ failed)
      BY <2>4 DEF Cmake
    <3>2. built' \in BOOLEAN
      BY <3>1
    <3> QED BY <2>1, <2>3, <2>4, <3>1, <3>2 DEF Cmake
  <2>5. CASE Link(p)
    <3>1. PICK failed \in BOOLEAN : /\ Executes(p, failed) /\ bin' \in AfterLink(p, failed)
                                    /\ left' = IF failed THEN left ELSE [left EXCEPT ![cid[p]] = bin']
      BY <2>5 DEF Link
    <3>2. bin' \in Cids \cup {None}
      BY <2>2, <2>3, <3>1 DEF AfterLink
    <3> QED BY <2>1, <2>2, <2>3, <2>5, <3>1, <3>2 DEF Link
  <2>6. CASE Object(p)
    BY <2>1, <2>3, <2>6 DEF Object, files
  <2>7. CASE Load(p) \/ Inst(p) \/ NoLinkFile(p) \/ Zero(p)
    BY <2>3, <2>7 DEF Load, Inst, NoLinkFile, Zero, files, local
  <2> QED BY <2>4, <2>5, <2>6, <2>7 DEF Building
<1>4. ASSUME NEW result \in {0, 1}, NEW l \in BuildStages, Records(p, result, l) PROVE BuildMove(p)
  <2>1. CASE flag[p].with.no_track /\ Moves(p, l)
    BY <1>1, <1>2, <2>1 DEF BuildMove
  <2>2. CASE /\ ~ flag[p].with.no_track
             /\ \E d : /\ Appended(copy[p], d, cid[p], result)
                       /\ SaveThen(p, d, IF result = 1 /\ flag[p].with.exit_err THEN "exit1" ELSE l)
    <3> DEFINE next == IF result = 1 /\ flag[p].with.exit_err THEN "exit1" ELSE l
    <3>1. PICK m \in BuildStages : m = next
      BY DEF BuildStages, After
    <3> HIDE DEF next
    <3>2. PICK d : Appended(copy[p], d, cid[p], result) /\ SaveThen(p, d, m)
      BY <2>2, <3>1, Zenon DEF next
    <3> QED BY <1>1, <1>2, <2>2, <3>2, Zenon DEF BuildMove
  <2> QED BY <1>1, <1>4, <2>1, <2>2, RecordsShape
<1>5. ASSUME NEW l \in BuildStages, Goto(p, l), UNCHANGED <<copy, then>> PROVE BuildMove(p)
  BY <1>1, <1>2, <1>5 DEF BuildMove, Moves
<1>6. ASSUME NEW l \in BuildStages, Checks(p, l) PROVE BuildMove(p)
  BY <1>4, <1>5, <1>6 DEF Checks
<1>7. BuildMove(p)
  <2> USE DEF BuildStages, After
  <2>1. CASE Cmake(p)
    BY <1>6, <2>1 DEF Cmake
  <2>2. CASE Load(p)
    BY <1>5, <1>6, <2>2 DEF Load
  <2>3. CASE Inst(p)
    BY <1>4, <1>5, <2>3 DEF Inst
  <2>4. CASE Object(p)
    BY <1>6, <2>4 DEF Object
  <2>5. CASE Link(p)
    BY <1>6, <2>5 DEF Link
  <2>6. CASE NoLinkFile(p)
    BY <1>4, <2>6 DEF NoLinkFile
  <2>7. CASE Zero(p)
    BY <1>4, <2>7 DEF Zero
  <2> QED BY <2>1, <2>2, <2>3, <2>4, <2>5, <2>6, <2>7 DEF Building
<1> QED BY <1>3, <1>7

(* The steps but for those of make and compile.                            *)
Starting(p) ==
  \/ StartCheckout(p)
  \/ \E kind \in Kinds \ {"checkout"} : StartFails(p, kind)
  \/ \E kind \in Kinds \ {"checkout", "test"}, with \in Flags : StartCompile(p, kind, with)
  \/ StartTest(p)

Going(p) ==
  \/ CheckEmpty(p) \/ Copy(p) \/ SetTest(p) \/ RunTest(p) \/ RecordRun(p) \/ NoMoreTests(p)
  \/ Truncate(p) \/ Dump(p) \/ Kill(p)

LEMMA StepsOfP ==
  ASSUME NEW p \in Procs, Command(p) \/ Kill(p)
  PROVE  Starting(p) \/ Building(p) \/ Going(p)
BY DEF Command, Starting, Building, Going

LEMMA LocalStep ==
  ASSUME TypeOK, NEW p \in Procs, Placed(p), Command(p) \/ Kill(p)
  PROVE  LocalTo(p) /\ Grows
<1> USE DEF LocalTo, TypeOK
<1>0. UNCHANGED <<ranOn, drawn, overlap, killed, untracked>> => Grows
  BY DEF Grows
<1>1. CASE Building(p)
  <2>1. BuildMove(p)
    BY <1>1, BuildShape
  <2>2. LocalTo(p)
    BY <2>1 DEF BuildMove, Moves, SaveThen, Goto
  <2> QED BY <1>0, <2>1, <2>2 DEF BuildMove, ghost
<1>2. CASE StartCheckout(p)
  BY <1>2 DEF StartCheckout, Starts, Goto, Grows
<1>3. CASE \E kind \in Kinds \ {"checkout"} : StartFails(p, kind)
  BY <1>3 DEF StartFails, Starts, Goto, Grows
<1>4. CASE \E kind \in Kinds \ {"checkout", "test"}, with \in Flags : StartCompile(p, kind, with)
  <2>1. LocalTo(p)
    BY <1>4 DEF StartCompile, Starts, Goto, SaveThen
  <2> QED BY <1>4, <2>1 DEF StartCompile, Starts, Grows
<1>5. CASE StartTest(p)
  BY <1>5 DEF StartTest, Starts, Goto, SaveThen, Grows
<1>6. CASE CheckEmpty(p) \/ Copy(p)
  BY <1>0, <1>6 DEF CheckEmpty, Copy, Goto, SaveThen, local, ghost
<1>7. CASE SetTest(p) \/ RecordRun(p) \/ NoMoreTests(p)
  BY <1>0, <1>7 DEF SetTest, RecordRun, NoMoreTests, Goto, SaveThen, local, ghost
<1>8. CASE RunTest(p)
  <2>1. LocalTo(p)
    BY <1>8 DEF RunTest, Goto
  <2>2. bin \in Cids \cup {None} /\ ranOn' = Append(ranOn, bin)
    BY <1>8 DEF RunTest
  <2>3. Len(ranOn') = Len(ranOn) + 1 /\ \A r \in 1 .. Len(ranOn) : ranOn'[r] = ranOn[r]
    BY <2>2, AppendProperties
  <2> QED BY <1>8, <2>1, <2>3 DEF RunTest, Grows
<1>9. CASE Truncate(p) \/ Dump(p)
  BY <1>0, <1>9 DEF Truncate, Dump, Goto, local, ghost
<1>10. CASE Kill(p)
  BY <1>10 DEF Kill, Goto, Grows, local
<1> QED BY <1>1, <1>2, <1>3, <1>4, <1>5, <1>6, <1>7, <1>8, <1>9, <1>10, StepsOfP DEF Starting, Going

(* What is known of a process a step of another does not change.           *)
LEMMA OthersStay ==
  ASSUME TypeOK, TypeOK', NEW p \in Procs, LocalTo(p), Grows,
         NEW q \in Procs, q # p, Placed(q), SaneCopy(q)
  PROVE  Placed(q)' /\ SaneCopy(q)'
<1>1. Len(ranOn) \in Nat /\ Len(ranOn') \in Nat
  BY DEF TypeOK
<1>2. Placed(q)'
  BY <1>1 DEF Placed, LocalTo, Grows, Working, Saving, Stage, InHand
<1>3. SaneCopy(q)'
  <2>1. Sane(copy[q], Len(ranOn'), drawn')
    BY <1>1, SaneGrows DEF SaneCopy, Grows
  <2> QED BY <2>1 DEF SaneCopy, LocalTo
<1> QED BY <1>2, <1>3

-----------------------------------------------------------------------------
(* What the commands save when they start and after a test.                *)
LEMMA NewCidFacts ==
  ASSUME TypeOK, SaneOnDisk, Readable, NEW with \in Flags, NEW c \in NewCid(with)
  PROVE  c \in Cids /\ c \notin Known(tracker)
<1>1. with.ids \subseteq Named
  BY WorkspaceAssumption DEF Flag
<1>2. Known(tracker) \cap Hex \subseteq drawn
  BY DEF SaneOnDisk, Sane
<1> QED BY <1>1, <1>2, CidFacts DEF NewCid, FreeIds

LEMMA StartCompileShape ==
  ASSUME TypeOK, SaneOnDisk, NEW p \in Procs, NEW kind \in Kinds \ {"checkout", "test"},
         NEW with \in Flags, StartCompile(p, kind, with)
  PROVE  \E c \in Cids : \E d :
           /\ Begun(tracker, d, c) /\ c \notin Known(tracker)
           /\ cid' = [cid EXCEPT ![p] = c] /\ drawn' = drawn \cup (Hex \cap {c})
           /\ \/ with.no_track /\ Goto(p, First(kind)) /\ copy' = [copy EXCEPT ![p] = d] /\ UNCHANGED then
              \/ ~ with.no_track /\ SaveThen(p, d, First(kind))
<1>1. tracker \in Doc /\ Readable
  BY DEF StartCompile, Readable, TypeOK
<1>2. PICK c \in NewCid(with) :
        /\ cid' = [cid EXCEPT ![p] = c] /\ drawn' = drawn \cup (Hex \cap {c})
        /\ IF with.no_track
           THEN /\ copy' = [copy EXCEPT ![p] = WithOutcome(tracker, c, NewOutcome)]
                /\ UNCHANGED then /\ Goto(p, First(kind))
           ELSE SaveThen(p, WithOutcome(tracker, c, NewOutcome), First(kind))
  BY DEF StartCompile
<1>3. c \in Cids /\ c \notin Known(tracker)
  BY <1>1, NewCidFacts
<1>4. PICK doc \in Doc : doc = tracker
  BY <1>1
<1>5. PICK d : d = WithOutcome(doc, c, NewOutcome) /\ Begun(doc, d, c)
  BY <1>3, BegunHolds, Zenon
<1> QED BY <1>2, <1>3, <1>4, <1>5

LEMMA StartTestShape ==
  ASSUME TypeOK, SaneOnDisk, NEW p \in Procs, StartTest(p)
  PROVE  \/ tracker.ptr = None /\ Goto(p, "raised") /\ UNCHANGED <<copy, then>>
         \/ /\ tracker.ptr \in Known(tracker) /\ tracker.outcomes[tracker.ptr].lists
            /\ copy' = [copy EXCEPT ![p] = tracker] /\ UNCHANGED then /\ Goto(p, "settest")
         \/ /\ tracker.ptr \in Known(tracker)
            /\ \E d : Listed(tracker, d, tracker.ptr) /\ SaveThen(p, d, "settest")
<1>1. PICK doc \in Doc : doc = tracker /\ doc.ptr \in Cids \cup {None}
  BY DEF StartTest, Readable, TypeOK, Doc
<1>2. CASE doc.ptr = None
  BY <1>1, <1>2 DEF StartTest
<1>3. CASE doc.ptr # None
  <2>1. doc.ptr \in Known(doc)
    BY <1>1, <1>3 DEF StartTest, SaneOnDisk, Sane
  <2>2. PICK d : d = [doc EXCEPT !.outcomes[doc.ptr].lists = TRUE] /\ Listed(doc, d, doc.ptr)
    BY <1>1, <2>1, ListedHolds, Zenon
  <2> QED BY <1>1, <1>3, <2>1, <2>2 DEF StartTest
<1> QED BY <1>2, <1>3

LEMMA RecordRunShape ==
  ASSUME TypeOK, NEW p \in Procs, Placed(p), RecordRun(p)
  PROVE  /\ flag[p].kind = "test" /\ InHand(p) /\ run[p] \in 1 .. Len(ranOn)
         /\ copy[p].outcomes[cid[p]].lists
         /\ \E l \in {"settest", "exit0"} : \E d :
              RunAdded(copy[p], d, cid[p], run[p]) /\ SaveThen(p, d, l)
<1>1. pc[p] = "record" /\ Working(p) /\ ~ Saving(p)
  BY DEF RecordRun, Working, Ended, Saving
<1>2. /\ flag[p].kind = "test" /\ InHand(p) /\ run[p] \in 1 .. Len(ranOn)
      /\ copy[p].outcomes[cid[p]].lists
  BY <1>1 DEF Placed, Stage, BuildStages, After
<1>3. PICK doc \in Doc, c \in Cids, r \in 1 .. MaxRuns : doc = copy[p] /\ c = cid[p] /\ r = run[p]
  <2>1. run[p] \in 0 .. MaxRuns /\ Len(ranOn) \in Nat /\ MaxRuns \in Nat
    BY WorkspaceAssumption DEF TypeOK
  <2> QED BY <1>2, <2>1 DEF TypeOK, InHand
<1>4. c \in Known(doc) /\ doc.ptr \in Cids \cup {None}
  BY <1>2, <1>3 DEF Doc, InHand
<1>5. PICK d : d = [doc EXCEPT !.outcomes[c].runs = @ \cup {r}] /\ RunAdded(doc, d, c, r)
  BY <1>4, RunAddedHolds, Zenon
<1> QED BY <1>2, <1>3, <1>5 DEF RecordRun

LEMMA RevisedIsDoc ==
  ASSUME NEW doc, NEW d, NEW c
  PROVE  /\ Begun(doc, d, c) => d \in Doc
         /\ \A result : Appended(doc, d, c, result) => d \in Doc
         /\ Listed(doc, d, c) => d \in Doc
         /\ \A r : RunAdded(doc, d, c, r) => d \in Doc
BY DEF Begun, Appended, Listed, RunAdded, Extended, Revised

LEMMA TypeStep ==
  ASSUME TypeOK, SaneOnDisk, NEW p \in Procs, Placed(p), Command(p) \/ Kill(p)
  PROVE  TypeOK'
<1> USE DEF TypeOK
<1>s. ASSUME NEW kind \in Kinds, NEW with \in Flags \cup {None}, Starts(p, kind, with)
      PROVE  /\ flag' \in [Procs -> [kind : Kinds, with : Flags \cup {None}]]
             /\ error' \in [Procs -> BOOLEAN] /\ starts' \in 0 .. MaxCommands /\ overlap' \in BOOLEAN
             /\ UNCHANGED <<tree, built, bin, left, tracker, ranOn, killed>>
  <2>1. [kind |-> kind, with |-> with] \in [kind : Kinds, with : Flags \cup {None}]
    OBVIOUS
  <2>2. starts' \in 0 .. MaxCommands
    <3>1. starts \in Nat /\ starts' = starts + 1 /\ (starts < MaxShared \/ starts < MaxCommands)
      BY <1>s DEF Starts
    <3>2. MaxCommands \in Nat /\ MaxShared \in Nat /\ MaxShared <= MaxCommands
      BY WorkspaceAssumption
    <3> QED BY <3>1, <3>2
  <2>3. overlap' \in BOOLEAN
    BY <1>s DEF Starts
  <2> QED BY <1>s, <2>1, <2>2, <2>3 DEF Starts, files
<1>g. \A l \in Labels : Goto(p, l) => pc' \in [Procs -> Labels]
  BY DEF Goto
<1>v. \A d \in Doc, l \in Labels : SaveThen(p, d, l) =>
        pc' \in [Procs -> Labels] /\ then' \in [Procs -> Labels] /\ copy' \in [Procs -> Doc]
  BY DEF SaveThen, Goto, Labels
<1> DEFINE Typed == pc' \in [Procs -> Labels] /\ then' \in [Procs -> Labels] /\ copy' \in [Procs -> Doc]
<1>1. CASE Building(p)
  <2>1. /\ BuildMove(p) /\ built' \in BOOLEAN /\ bin' \in Cids \cup {None}
        /\ error' \in [Procs -> BOOLEAN] /\ left' \in [Cids -> Cids \cup {None}]
    BY <1>1, BuildShape
  <2>2. Typed
    <3>1. PICK l \in BuildStages :
            \/ Moves(p, l)
            \/ \E result \in {0, 1} : \E d : Appended(copy[p], d, cid[p], result) /\ SaveThen(p, d, l)
      BY <2>1 DEF BuildMove
    <3>2. l \in Labels
      BY DEF BuildStages, After, Labels
    <3>3. CASE Moves(p, l)
      BY <1>g, <3>2, <3>3 DEF Moves
    <3>4. CASE \E result \in {0, 1} : \E d : Appended(copy[p], d, cid[p], result) /\ SaveThen(p, d, l)
      BY <1>v, <3>2, <3>4, RevisedIsDoc
    <3> QED BY <3>1, <3>3, <3>4
  <2> QED BY <2>1, <2>2 DEF BuildMove, ghost
<1>2. CASE StartCheckout(p)
  <2>1. pc' \in [Procs -> Labels]
    BY <1>2, <1>g DEF StartCheckout, Labels
  <2> QED BY <1>2, <1>s, <2>1 DEF StartCheckout, Kinds
<1>3. ASSUME NEW kind \in Kinds \ {"checkout"}, StartFails(p, kind) PROVE TypeOK'
  <2>1. pc' \in [Procs -> Labels]
    BY <1>3, <1>g DEF StartFails, Labels
  <2> QED BY <1>3, <1>s, <2>1 DEF StartFails
<1>4. ASSUME NEW kind \in Kinds \ {"checkout", "test"}, NEW with \in Flags, StartCompile(p, kind, with)
      PROVE  TypeOK'
  <2>1. First(kind) \in Labels
    BY DEF First, Kinds, Labels
  <2>2. PICK c \in Cids : \E d :
           /\ Begun(tracker, d, c)
           /\ cid' = [cid EXCEPT ![p] = c] /\ drawn' = drawn \cup (Hex \cap {c})
           /\ \/ Goto(p, First(kind)) /\ copy' = [copy EXCEPT ![p] = d] /\ UNCHANGED then
              \/ SaveThen(p, d, First(kind))
    BY <1>4, StartCompileShape
  <2>3. Typed
    BY <1>g, <1>v, <2>1, <2>2, RevisedIsDoc
  <2>4. cid' \in [Procs -> Cids \cup {None}] /\ drawn' \subseteq Hex
    BY <2>2
  <2>5. Starts(p, kind, with) /\ UNCHANGED run /\ untracked' \in BOOLEAN
    BY <1>4, WorkspaceAssumption DEF StartCompile, Flag
  <2> QED BY <1>s, <2>3, <2>4, <2>5
<1>5. CASE StartTest(p)
  <2>1. Typed
    BY <1>5, <1>g, <1>v, StartTestShape, RevisedIsDoc DEF StartTest, Readable, Labels
  <2>2. cid' \in [Procs -> Cids \cup {None}]
    <3>1. tracker.ptr \in Cids \cup {None}
      BY <1>5 DEF StartTest, Readable, Doc
    <3> QED BY <1>5, <3>1 DEF StartTest
  <2>3. Starts(p, "test", None) /\ UNCHANGED <<run, drawn, untracked>>
    BY <1>5 DEF StartTest
  <2> QED BY <1>s, <2>1, <2>2, <2>3 DEF Kinds
<1>6. CASE CheckEmpty(p)
  BY <1>6, <1>g DEF CheckEmpty, Labels, local, ghost
<1>7. CASE Copy(p)
  <2>1. Typed
    BY <1>7, <1>g, <1>v, FirstDocType DEF Copy, Labels
  <2> QED BY <1>7, <2>1 DEF Copy, local, ghost
<1>8. CASE SetTest(p)
  <2>1. Typed
    BY <1>8, <1>g, <1>v DEF SetTest, Labels, Readable
  <2> QED BY <1>8, <2>1 DEF SetTest, files, local, ghost
<1>9. CASE RunTest(p)
  <2>1. bin \in Cids \cup {None} /\ ranOn' = Append(ranOn, bin) /\ Len(ranOn) \in Nat /\ MaxRuns \in Nat
    BY <1>9, WorkspaceAssumption DEF RunTest
  <2>2. ranOn' \in Seq(Cids \cup {None})
    BY <2>1, AppendProperties
  <2>3. run' \in [Procs -> 0 .. MaxRuns]
    BY <1>9, <2>1 DEF RunTest
  <2> QED BY <1>9, <1>g, <2>2, <2>3 DEF RunTest, files, Labels
<1>10. CASE RecordRun(p)
  <2>1. Typed
    <3>1. PICK l \in {"settest", "exit0"} : \E d :
            RunAdded(copy[p], d, cid[p], run[p]) /\ SaveThen(p, d, l)
      BY <1>10, RecordRunShape
    <3>2. PICK d : RunAdded(copy[p], d, cid[p], run[p]) /\ SaveThen(p, d, l)
      BY <3>1
    <3>3. d \in Doc /\ l \in Labels
      BY <3>2, RevisedIsDoc DEF Labels
    <3> QED BY <1>v, <3>2, <3>3
  <2> QED BY <1>10, <2>1 DEF RecordRun, files, local, ghost
<1>11. CASE NoMoreTests(p)
  BY <1>11, <1>g DEF NoMoreTests, Labels, files, local, ghost
<1>12. CASE Truncate(p)
  BY <1>12, <1>g DEF Truncate, Labels, files, local, ghost
<1>13. CASE Dump(p)
  BY <1>13, <1>g DEF Dump, files, local, ghost
<1>14. CASE Kill(p)
  BY <1>14, <1>g DEF Kill, Labels, files, local
<1> QED BY <1>1, <1>2, <1>3, <1>4, <1>5, <1>6, <1>7, <1>8, <1>9, <1>10, <1>11, <1>12, <1>13,
           <1>14, StepsOfP DEF Starting, Going

-----------------------------------------------------------------------------
(* Where a step leaves the process that takes it.                          *)
LEMMA PlacedStep ==
  ASSUME TypeOK, TypeOK', SaneOnDisk, NEW p \in Procs, Placed(p), Command(p) \/ Kill(p)
  PROVE  Placed(p)'
<1> USE DEF TypeOK
<1>r. ASSUME pc'[p] \in Ended PROVE Placed(p)'
  BY <1>r DEF Placed, Working
<1>1. CASE Building(p)
  <2>1. BuildMove(p) /\ flag[p].with \in Flags /\ InHand(p)
    BY <1>1, BuildShape DEF BuildMove, Placed, Builds
  <2>2. PICK l \in BuildStages :
          \/ Moves(p, l)
          \/ \E result \in {0, 1} : \E d : Appended(copy[p], d, cid[p], result) /\ SaveThen(p, d, l)
    BY <2>1 DEF BuildMove
  <2>3. UNCHANGED <<flag, cid>> /\ flag[p].kind \in Builds
    BY <2>1 DEF BuildMove
  <2>4. CASE Moves(p, l)
    <3>1. pc'[p] = l /\ UNCHANGED <<copy, then>> /\ l \notin {"truncate", "dump"}
      BY <2>4 DEF Moves, Goto, BuildStages, After
    <3> QED BY <2>1, <2>3, <3>1 DEF Placed, Saving, Stage, InHand
  <2>5. CASE \E result \in {0, 1} : \E d : Appended(copy[p], d, cid[p], result) /\ SaveThen(p, d, l)
    <3>1. PICK d, result : Appended(copy[p], d, cid[p], result) /\ SaveThen(p, d, l)
      BY <2>5
    <3>2. pc'[p] = "truncate" /\ then'[p] = l /\ copy'[p] = d /\ Known(d) = Known(copy[p]) \cup {cid[p]}
      BY <3>1 DEF SaveThen, Goto, Appended, Extended, Revised
    <3> QED BY <2>1, <2>3, <3>2 DEF Placed, Saving, Stage, InHand
  <2> QED BY <2>2, <2>4, <2>5
<1>2. CASE StartCheckout(p)
  BY <1>2 DEF StartCheckout, Starts, Goto, Placed
<1>3. ASSUME NEW kind \in Kinds \ {"checkout"}, StartFails(p, kind) PROVE Placed(p)'
  BY <1>3, <1>r DEF StartFails, Goto, Ended
<1>4. ASSUME NEW kind \in Kinds \ {"checkout", "test"}, NEW with \in Flags, StartCompile(p, kind, with)
      PROVE  Placed(p)'
  <2>1. First(kind) \in BuildStages /\ First(kind) \notin {"truncate", "dump"} /\ kind \in Builds
    BY DEF First, Kinds, BuildStages, After, Builds
  <2>2. PICK c \in Cids : \E d :
           /\ Begun(tracker, d, c)
           /\ cid' = [cid EXCEPT ![p] = c] /\ drawn' = drawn \cup (Hex \cap {c})
           /\ \/ Goto(p, First(kind)) /\ copy' = [copy EXCEPT ![p] = d] /\ UNCHANGED then
              \/ SaveThen(p, d, First(kind))
    BY <1>4, StartCompileShape
  <2>3. cid'[p] \in Cids /\ cid'[p] \in Known(copy'[p])
    BY <2>2 DEF Begun, Revised, SaveThen
  <2>4. flag'[p].kind \in Builds /\ flag'[p].with \in Flags
    BY <1>4, <2>1 DEF StartCompile, Starts
  <2>5. \/ pc'[p] = First(kind)
        \/ pc'[p] = "truncate" /\ then'[p] = First(kind)
    BY <2>2 DEF Goto, SaveThen
  <2>6. Stage(p)' = First(kind)
    BY <2>1, <2>5 DEF Stage, Saving
  <2> QED BY <2>1, <2>3, <2>4, <2>6 DEF Placed, InHand
<1>5. CASE StartTest(p)
  <2>1. flag'[p].kind = "test" /\ cid'[p] = tracker.ptr /\ tracker \in Doc
    BY <1>5 DEF StartTest, Starts, Readable
  <2>2. CASE tracker.ptr = None /\ Goto(p, "raised")
    BY <1>r, <2>2 DEF Goto, Ended
  <2>3. CASE /\ tracker.ptr \in Known(tracker) /\ tracker.outcomes[tracker.ptr].lists
             /\ copy' = [copy EXCEPT ![p] = tracker] /\ UNCHANGED then /\ Goto(p, "settest")
    <3>1. pc'[p] = "settest" /\ copy'[p] = tracker /\ tracker.ptr \in Cids
      BY <2>1, <2>3, KnownType DEF Goto
    <3> QED BY <2>1, <2>3, <3>1 DEF Placed, Saving, Stage, InHand, TestStages
  <2>4. CASE /\ tracker.ptr \in Known(tracker)
             /\ \E d : Listed(tracker, d, tracker.ptr) /\ SaveThen(p, d, "settest")
    <3>1. PICK d : Listed(tracker, d, tracker.ptr) /\ SaveThen(p, d, "settest")
      BY <2>4
    <3>2. pc'[p] = "truncate" /\ then'[p] = "settest" /\ copy'[p] = d
      BY <3>1 DEF SaveThen, Goto
    <3>3. tracker.ptr \in Cids /\ tracker.ptr \in Known(d) /\ d.outcomes[tracker.ptr].lists
      BY <3>1 DEF Listed, Extended, Revised
    <3> QED BY <2>1, <3>2, <3>3 DEF Placed, Saving, Stage, InHand, TestStages
  <2> QED BY <1>5, <2>2, <2>3, <2>4, StartTestShape
<1>6. CASE CheckEmpty(p) \/ Copy(p)
  <2>1. flag[p].kind = "checkout" /\ UNCHANGED flag
    BY <1>6 DEF CheckEmpty, Copy, Placed, Working, Ended, Stage, Saving, BuildStages, After, TestStages, local
  <2>2. \/ pc'[p] \in {"copy", "exit0"}
        \/ pc'[p] = "truncate" /\ then'[p] = "exit0" /\ copy'[p] = FirstDoc
    BY <1>6 DEF CheckEmpty, Copy, Goto, SaveThen
  <2> QED BY <2>1, <2>2 DEF Placed, Working, Saving, Ended
<1>7. CASE SetTest(p) \/ NoMoreTests(p)
  <2>1. flag[p].kind = "test" /\ UNCHANGED <<flag, cid>> /\ InHand(p)
    BY <1>7 DEF SetTest, NoMoreTests, Placed, Working, Ended, Stage, Saving, BuildStages, After, local
  <2>2. \/ pc'[p] \in {"exit0", "exit1"}
        \/ /\ pc'[p] = "truncate" /\ then'[p] = "run" /\ copy'[p] = tracker
           /\ cid[p] \in Known(tracker) /\ tracker.outcomes[cid[p]].lists
    BY <1>7 DEF SetTest, NoMoreTests, Goto, SaveThen
  <2> QED BY <2>1, <2>2 DEF Placed, Working, Saving, Ended, Stage, InHand, TestStages
<1>8. CASE RunTest(p)
  <2>1. /\ flag[p].kind = "test" /\ UNCHANGED <<flag, cid, copy>> /\ InHand(p)
        /\ copy[p].outcomes[cid[p]].lists
    BY <1>8 DEF RunTest, Placed, Working, Ended, Stage, Saving, BuildStages, After
  <2>2. bin \in Cids \cup {None} /\ ranOn' = Append(ranOn, bin) /\ pc'[p] = "record" /\ run'[p] = Len(ranOn) + 1
    BY <1>8 DEF RunTest, Goto
  <2>3. run'[p] \in 1 .. Len(ranOn')
    BY <2>2, AppendProperties
  <2> QED BY <2>1, <2>2, <2>3 DEF Placed, Saving, Stage, InHand, TestStages
<1>9. CASE RecordRun(p)
  <2>1. PICK l \in {"settest", "exit0"}, d \in Doc : RunAdded(copy[p], d, cid[p], run[p]) /\ SaveThen(p, d, l)
    BY <1>9, RecordRunShape, RevisedIsDoc
  <2>2. pc'[p] = "truncate" /\ then'[p] = l /\ copy'[p] = d /\ UNCHANGED <<flag, cid>>
    BY <1>9, <2>1 DEF RecordRun, SaveThen, Goto, local
  <2>3. cid[p] \in Cids /\ cid[p] \in Known(d) /\ d.outcomes[cid[p]].lists
    BY <1>9, <2>1, RecordRunShape DEF RunAdded, Extended, Revised
  <2> QED BY <1>9, <2>2, <2>3, RecordRunShape DEF Placed, Saving, Stage, InHand, TestStages
<1>10. CASE Truncate(p) \/ Dump(p)
  <2>1. Saving(p) /\ Working(p) /\ UNCHANGED <<flag, cid, copy, then, run, ranOn>>
    BY <1>10 DEF Truncate, Dump, Saving, Working, Ended, local, ghost
  <2>2. CASE Truncate(p)
    <3>1. pc'[p] = "dump"
      BY <2>2 DEF Truncate, Goto
    <3> QED BY <2>1, <3>1 DEF Placed, Saving, Stage, InHand
  <2>3. CASE Dump(p)
    <3>1. pc'[p] = then[p] /\ Stage(p) = then[p]
      BY <2>1, <2>3 DEF Dump, Goto, Stage
    <3>2. CASE flag[p].kind = "checkout"
      BY <1>r, <2>1, <3>1, <3>2 DEF Placed, Ended, Builds, Saving
    <3>3. CASE flag[p].kind # "checkout"
      <4>1. then[p] \in BuildStages \cup TestStages
        BY <2>1, <3>1, <3>3 DEF Placed
      <4>2. then[p] \notin {"truncate", "dump"}
        BY <4>1 DEF BuildStages, After, TestStages
      <4>3. Stage(p)' = Stage(p)
        BY <3>1, <4>2 DEF Stage, Saving
      <4> QED BY <2>1, <3>3, <4>3 DEF Placed, InHand
    <3> QED BY <3>2, <3>3
  <2> QED BY <1>10, <2>2, <2>3
<1>11. CASE Kill(p)
  BY <1>11, <1>r DEF Kill, Goto, Ended
<1> QED BY <1>1, <1>2, <1>3, <1>4, <1>5, <1>6, <1>7, <1>8, <1>9, <1>10, <1>11, StepsOfP
           DEF Starting, Going

(* What a step leaves in its copy, and on disk.                            *)
LEMMA SaneStep ==
  ASSUME TypeOK, TypeOK', SaneOnDisk, NEW p \in Procs, Placed(p), SaneCopy(p),
         Command(p) \/ Kill(p)
  PROVE  SaneCopy(p)' /\ SaneOnDisk'
<1> USE DEF TypeOK
<1>n. Len(ranOn) \in Nat /\ Len(ranOn') \in Nat
  OBVIOUS
<1>g. Len(ranOn) <= Len(ranOn') /\ drawn \subseteq drawn'
  BY LocalStep DEF Grows
<1>k. \A d : Sane(d, Len(ranOn), drawn) => Sane(d, Len(ranOn'), drawn')
  BY <1>n, <1>g, SaneGrows
<1>c. copy[p] \in Doc /\ Sane(copy[p], Len(ranOn), drawn) /\ (Readable => tracker \in Doc)
  BY DEF SaneCopy, Readable
<1>u. ASSUME UNCHANGED tracker, NEW d, copy'[p] = d, Sane(d, Len(ranOn'), drawn')
      PROVE  SaneCopy(p)' /\ SaneOnDisk'
  BY <1>u, <1>k DEF SaneCopy, SaneOnDisk, Readable
<1>s. UNCHANGED <<tracker, copy>> => SaneCopy(p)' /\ SaneOnDisk'
  BY <1>c, <1>k, <1>u
<1>1. CASE Building(p)
  <2>1. BuildMove(p)
    BY <1>1, BuildShape
  <2>2. PICK l \in BuildStages :
          \/ Moves(p, l)
          \/ \E result \in {0, 1} : \E d : Appended(copy[p], d, cid[p], result) /\ SaveThen(p, d, l)
    BY <2>1 DEF BuildMove
  <2>3. UNCHANGED tracker
    BY <2>1 DEF BuildMove
  <2>4. CASE Moves(p, l)
    BY <1>s, <2>3, <2>4 DEF Moves
  <2>5. CASE \E result \in {0, 1} : \E d : Appended(copy[p], d, cid[p], result) /\ SaveThen(p, d, l)
    <3>1. PICK d, result : Appended(copy[p], d, cid[p], result) /\ SaveThen(p, d, l)
      BY <2>5
    <3>2. Sane(d, Len(ranOn), drawn)
      BY <1>c, <1>n, <3>1, SaneRevisions
    <3> QED BY <1>k, <1>u, <2>3, <3>1, <3>2 DEF SaveThen
  <2> QED BY <2>2, <2>4, <2>5
<1>2. CASE StartCheckout(p) \/ \E kind \in Kinds \ {"checkout"} : StartFails(p, kind)
  BY <1>2, <1>s DEF StartCheckout, StartFails, Starts
<1>3. ASSUME NEW kind \in Kinds \ {"checkout", "test"}, NEW with \in Flags, StartCompile(p, kind, with)
      PROVE  SaneCopy(p)' /\ SaneOnDisk'
  <2>1. PICK c \in Cids, d \in Doc :
           /\ Begun(tracker, d, c) /\ drawn' = drawn \cup (Hex \cap {c}) /\ copy' = [copy EXCEPT ![p] = d]
    BY <1>3, StartCompileShape, RevisedIsDoc DEF SaveThen
  <2>2. Readable /\ UNCHANGED <<tracker, ranOn>>
    BY <1>3 DEF StartCompile, Starts
  <2>3. Sane(d, Len(ranOn), drawn')
    BY <1>c, <1>n, <2>1, <2>2, SaneRevisions DEF SaneOnDisk
  <2> QED BY <1>u, <2>1, <2>2, <2>3
<1>4. CASE StartTest(p)
  <2>1. Readable /\ UNCHANGED <<tracker, ranOn>> /\ tracker \in Doc /\ Sane(tracker, Len(ranOn), drawn)
    BY <1>4, <1>c DEF StartTest, Starts, SaneOnDisk
  <2>2. PICK d : (copy'[p] = d /\ Sane(d, Len(ranOn), drawn)) \/ UNCHANGED copy
    <3>1. CASE UNCHANGED copy
      BY <3>1
    <3>2. CASE copy' = [copy EXCEPT ![p] = tracker]
      BY <2>1, <3>2
    <3>3. CASE \E d : Listed(tracker, d, tracker.ptr) /\ SaveThen(p, d, "settest")
      BY <1>n, <2>1, <3>3, SaneRevisions DEF SaveThen
    <3> QED BY <1>4, <3>1, <3>2, <3>3, StartTestShape
  <2> QED BY <1>k, <1>s, <1>u, <2>1, <2>2
<1>5. CASE CheckEmpty(p) \/ NoMoreTests(p)
  BY <1>5, <1>s DEF CheckEmpty, NoMoreTests
<1>6. CASE Copy(p)
  <2>1. UNCHANGED copy \/ copy'[p] = FirstDoc
    BY <1>6 DEF Copy, SaveThen
  <2>2. Sane(FirstDoc, Len(ranOn'), drawn')
    BY FirstIsSane
  <2> QED BY <1>6, <1>s, <1>u, <2>1, <2>2 DEF Copy
<1>7. CASE SetTest(p)
  <2>1. UNCHANGED tracker /\ (UNCHANGED copy \/ (Readable /\ copy'[p] = tracker))
    BY <1>7 DEF SetTest, SaveThen
  <2>2. Readable => Sane(tracker, Len(ranOn'), drawn')
    BY <1>k DEF SaneOnDisk
  <2> QED BY <1>s, <1>u, <2>1, <2>2
<1>8. CASE RunTest(p)
  BY <1>8, <1>s DEF RunTest, files
<1>9. CASE RecordRun(p)
  <2>1. PICK d : RunAdded(copy[p], d, cid[p], run[p]) /\ copy' = [copy EXCEPT ![p] = d]
    BY <1>9, RecordRunShape DEF SaveThen
  <2>2. run[p] \in 1 .. Len(ranOn) /\ UNCHANGED tracker
    BY <1>9, RecordRunShape DEF RecordRun
  <2>3. Sane(d, Len(ranOn), drawn)
    <3>1. RunAdded(copy[p], d, cid[p], run[p]) /\ copy[p] \in Doc /\ Sane(copy[p], Len(ranOn), drawn)
      BY <1>c, <1>n, <2>1
    <3>2. \A r \in 1 .. Len(ranOn) : RunAdded(copy[p], d, cid[p], r) => Sane(d, Len(ranOn), drawn)
      BY <1>n, <3>1, SaneRevisions
    <3> QED BY <2>2, <3>1, <3>2
  <2> QED BY <1>k, <1>u, <2>1, <2>2, <2>3
<1>10. CASE Truncate(p)
  BY <1>10, <1>c, <1>k DEF Truncate, SaneCopy, SaneOnDisk, Readable
<1>11. CASE Dump(p)
  BY <1>11, <1>c, <1>k DEF Dump, SaneCopy, SaneOnDisk, Readable
<1>12. CASE Kill(p)
  BY <1>12, <1>s DEF Kill
<1> QED BY <1>1, <1>2, <1>3, <1>4, <1>5, <1>6, <1>7, <1>8, <1>9, <1>10, <1>11, <1>12, StepsOfP
           DEF Starting, Going

LEMMA FreshStep ==
  ASSUME TypeOK, Fresh, NEW p \in Procs, Placed(p), Command(p) \/ Kill(p)
  PROVE  Fresh'
<1> SUFFICES ASSUME tree' = "none" PROVE /\ tracker' = Absent /\ ranOn' = <<>>
         /\ \A q \in Procs : Working(q)' => flag'[q].kind = "checkout" /\ pc'[q] = "empty"
  BY DEF Fresh
<1>1. tree = "none"
  <2>1. ~ Copy(p) \/ UNCHANGED tree
    BY DEF Copy
  <2>2. CASE Building(p)
    BY <2>2, BuildShape DEF BuildMove
  <2>3. CASE Starting(p)
    BY <2>3 DEF Starting, StartCheckout, StartFails, StartCompile, StartTest, Starts, files
  <2>4. CASE Going(p)
    BY <2>1, <2>4 DEF Going, CheckEmpty, SetTest, RunTest, RecordRun, NoMoreTests,
                      Truncate, Dump, Kill, files
  <2> QED BY <2>2, <2>3, <2>4, StepsOfP
<1>2. /\ tracker = Absent /\ ranOn = <<>> /\ LocalTo(p)
      /\ \A q \in Procs : Working(q) => flag[q].kind = "checkout" /\ pc[q] = "empty"
  BY <1>1, LocalStep DEF Fresh
<1>3. ASSUME UNCHANGED <<tracker, ranOn>>, Working(p)' => flag'[p].kind = "checkout" /\ pc'[p] = "empty"
      PROVE  /\ tracker' = Absent /\ ranOn' = <<>>
             /\ \A q \in Procs : Working(q)' => flag'[q].kind = "checkout" /\ pc'[q] = "empty"
  BY <1>2, <1>3 DEF LocalTo, Working
<1>4. CASE StartCheckout(p)
  BY <1>3, <1>4 DEF StartCheckout, Starts, Goto, TypeOK
<1>5. CASE \E kind \in Kinds \ {"checkout"} : StartFails(p, kind)
  BY <1>3, <1>5 DEF StartFails, Starts, Goto, TypeOK, Working, Ended
<1>6. CASE Kill(p)
  BY <1>3, <1>6 DEF Kill, Goto, TypeOK, Working, Ended
<1>7. ~ Building(p)
  BY <1>2, AtBuild DEF Building, Cmake, Load, Inst, Object, Link, NoLinkFile, Zero
<1>8. ~ StartTest(p) /\ ~ \E kind \in Kinds \ {"checkout", "test"}, with \in Flags : StartCompile(p, kind, with)
  BY <1>2 DEF StartTest, StartCompile, Readable
<1>9. CASE Going(p) /\ ~ Kill(p)
  BY <1>1, <1>2, <1>9 DEF Going, CheckEmpty, Copy, SetTest, RunTest, RecordRun, NoMoreTests,
                          Truncate, Dump, Working, Ended
<1> QED BY <1>4, <1>5, <1>6, <1>7, <1>8, <1>9, StepsOfP DEF Starting

LEMMA BaseStep == Base /\ [Next]_vars => Base'
<1> SUFFICES ASSUME Base, [Next]_vars PROVE Base'
  OBVIOUS
<1>1. CASE Next
  <2>1. PICK p \in Procs : Command(p) \/ Kill(p)
    BY <1>1 DEF Next
  <2>2. TypeOK /\ SaneOnDisk /\ Fresh /\ \A q \in Procs : Placed(q) /\ SaneCopy(q)
    BY DEF Base
  <2>3. TypeOK'
    BY <2>1, <2>2, TypeStep
  <2>4. LocalTo(p) /\ Grows
    BY <2>1, <2>2, LocalStep
  <2>5. Placed(p)' /\ SaneCopy(p)' /\ SaneOnDisk' /\ Fresh'
    BY <2>1, <2>2, <2>3, PlacedStep, SaneStep, FreshStep
  <2>6. \A q \in Procs : q # p => Placed(q)' /\ SaneCopy(q)'
    BY <2>2, <2>3, <2>4, OthersStay
  <2> QED BY <2>3, <2>5, <2>6 DEF Base
<1>2. CASE UNCHANGED vars
  BY <1>2 DEF vars, files, local, ghost, Base, TypeOK, SaneOnDisk, Fresh, Placed, SaneCopy,
              Readable, Working, Saving, Stage, InHand
<1> QED BY <1>1, <1>2

LEMMA BaseInit == Init => Base
<1> SUFFICES ASSUME Init PROVE Base
  OBVIOUS
<1> USE DEF Init
<1>1. TypeOK
  <2>1. 0 \in 0 .. MaxCommands /\ 0 \in 0 .. MaxRuns
    BY WorkspaceAssumption
  <2>2. [kind |-> "test", with |-> None] \in [kind : Kinds, with : Flags \cup {None}]
    BY DEF Kinds
  <2>3. ranOn \in Seq(Cids \cup {None})
    OBVIOUS
  <2> QED BY <2>1, <2>2, <2>3, FirstDocType DEF TypeOK, Labels
<1>2. SaneOnDisk /\ Fresh
  BY DEF SaneOnDisk, Fresh, Readable, Working, Ended
<1>3. \A p \in Procs : Placed(p) /\ SaneCopy(p)
  BY FirstIsSane DEF Placed, SaneCopy, Working, Ended
<1> QED BY <1>1, <1>2, <1>3 DEF Base

(* Every variable has its type, whatever commands overlap or are killed.   *)
THEOREM TypeCorrect == Spec => []TypeOK
<1>1. Base => TypeOK
  BY DEF Base
<1> QED BY <1>1, BaseInit, BaseStep, PTL DEF Spec

-----------------------------------------------------------------------------
(* Commands that follow one another: only the one that takes a step works. *)
Alone == ~ overlap => \A p, q \in Procs : p = q \/ ~ Working(p) \/ ~ Working(q)

(* A command that saves what it does to its copy.                          *)
Tracks(p) == flag[p].kind = "test" \/ (flag[p].kind \in Builds /\ ~ flag[p].with.no_track)

(* Its copy is what is on disk, and points to its compile; a checkout that *)
(* found nothing there comes before every run.                             *)
SyncedBy(p) ==
  /\ Tracks(p) /\ ~ Saving(p) => tracker = copy[p]
  /\ flag[p].kind # "checkout" => copy[p].ptr = cid[p]
  /\ flag[p].kind = "checkout" /\ pc[p] # "empty" => ranOn = <<>>
  /\ Saving(p) => Tracks(p) \/ flag[p].kind = "checkout"

Synced == ~ overlap => \A p \in Procs : Working(p) => SyncedBy(p)

LEMMA OnlyP ==
  ASSUME TypeOK, Alone, NEW p \in Procs, Placed(p), Command(p) \/ Kill(p), ~ overlap'
  PROVE  ~ overlap /\ \A q \in Procs : q # p => ~ Working(q) /\ ~ Working(q)'
<1>1. LocalTo(p) /\ ~ overlap
  BY LocalStep DEF Grows
<1>2. \A q \in Procs : q # p => ~ Working(q)
  <2>1. CASE Working(p)
    BY <1>1, <2>1 DEF Alone
  <2>2. CASE \E kind, with : Starts(p, kind, with)
    BY <2>2 DEF Starts, Working
  <2>3. Working(p) \/ \E kind, with : Starts(p, kind, with)
    <3>1. CASE Starting(p)
      BY <3>1 DEF Starting, StartCheckout, StartFails, StartCompile, StartTest
    <3>2. CASE Building(p)
      BY <3>2, BuildShape DEF BuildMove
    <3>3. CASE Going(p)
      BY <3>3 DEF Going, CheckEmpty, Copy, SetTest, RunTest, RecordRun, NoMoreTests, Truncate,
                  Dump, Kill, Working, Ended
    <3> QED BY <3>1, <3>2, <3>3, StepsOfP
  <2> QED BY <2>1, <2>2, <2>3
<1> QED BY <1>1, <1>2 DEF LocalTo, Working

LEMMA AloneStep ==
  ASSUME TypeOK, Alone, NEW p \in Procs, Placed(p), Command(p) \/ Kill(p)
  PROVE  Alone'
BY OnlyP DEF Alone, Working

(* Where saving leads.                                                     *)
LEMMA DumpStage ==
  ASSUME TypeOK, NEW p \in Procs, Placed(p), Dump(p)
  PROVE  /\ Working(p) /\ Saving(p) /\ ~ Saving(p)' /\ Stage(p)' = Stage(p) /\ tracker' = copy[p]
         /\ UNCHANGED <<flag, cid, copy, run, ranOn, bin, left>>
         /\ flag[p].kind = "checkout" => pc'[p] = "exit0"
         /\ flag[p].kind = "test" => pc'[p] # "exit1"
<1>1. Working(p) /\ Saving(p) /\ pc'[p] = then[p] /\ tracker' = copy[p]
      /\ UNCHANGED <<flag, cid, copy, run, ranOn, bin, left, then>>
  BY DEF Dump, Saving, Working, Ended, local, ghost, files, Goto, TypeOK
<1>2. Stage(p) = then[p]
  BY <1>1 DEF Stage
<1>3. then[p] \in BuildStages \cup TestStages
      /\ (flag[p].kind = "test" => then[p] # "exit1") /\ (flag[p].kind = "checkout" => then[p] = "exit0")
  BY <1>1, <1>2 DEF Placed, Saving, BuildStages, TestStages, After, Builds
<1>4. then[p] \notin {"truncate", "dump"}
  BY <1>3 DEF BuildStages, TestStages, After
<1> QED BY <1>1, <1>2, <1>3, <1>4 DEF Saving, Stage

LEMMA SyncedStep ==
  ASSUME TypeOK, SaneOnDisk, Fresh, NEW p \in Procs, Placed(p), Working(p) => SyncedBy(p),
         Command(p) \/ Kill(p), Working(p)'
  PROVE  SyncedBy(p)'
<1> USE DEF TypeOK
<1>1. CASE Building(p)
  <2>1. BuildMove(p) /\ SyncedBy(p)
    BY <1>1, BuildShape DEF BuildMove
  <2>2. UNCHANGED <<tracker, ranOn, flag, cid>> /\ flag[p].kind \in Builds /\ flag[p].kind # "checkout"
        /\ ~ Saving(p)
    BY <2>1 DEF BuildMove, Builds, ghost
  <2>3. PICK l \in BuildStages :
          \/ Moves(p, l)
          \/ /\ ~ flag[p].with.no_track
             /\ \E result \in {0, 1} : \E d : Appended(copy[p], d, cid[p], result) /\ SaveThen(p, d, l)
    BY <2>1 DEF BuildMove
  <2>4. CASE Moves(p, l)
    BY <2>1, <2>2, <2>4 DEF Moves, SyncedBy, Tracks, Goto, Saving, BuildStages, After
  <2>5. CASE /\ ~ flag[p].with.no_track
             /\ \E result \in {0, 1} : \E d : Appended(copy[p], d, cid[p], result) /\ SaveThen(p, d, l)
    <3>1. PICK d, result : Appended(copy[p], d, cid[p], result) /\ SaveThen(p, d, l)
      BY <2>5
    <3>2. copy'[p] = d /\ pc'[p] = "truncate" /\ d.ptr = copy[p].ptr
      BY <3>1 DEF SaveThen, Goto, Appended, Extended
    <3> QED BY <2>1, <2>2, <2>5, <3>2 DEF SyncedBy, Tracks, Saving
  <2> QED BY <2>3, <2>4, <2>5
<1>2. CASE StartCheckout(p)
  BY <1>2 DEF StartCheckout, Starts, Goto, SyncedBy, Tracks, Saving, Builds
<1>3. ~ \E kind \in Kinds \ {"checkout"} : StartFails(p, kind)
  BY DEF StartFails, Goto, Working, Ended
<1>4. ASSUME NEW kind \in Kinds \ {"checkout", "test"}, NEW with \in Flags, StartCompile(p, kind, with)
      PROVE  SyncedBy(p)'
  <2>1. PICK c \in Cids : \E d :
           /\ Begun(tracker, d, c) /\ cid' = [cid EXCEPT ![p] = c]
           /\ \/ with.no_track /\ Goto(p, First(kind)) /\ copy' = [copy EXCEPT ![p] = d] /\ UNCHANGED then
              \/ ~ with.no_track /\ SaveThen(p, d, First(kind))
    BY <1>4, StartCompileShape
  <2>2. copy'[p].ptr = cid'[p] /\ pc'[p] = IF with.no_track THEN First(kind) ELSE "truncate"
    BY <2>1 DEF Begun, SaveThen, Goto
  <2>3. flag'[p].kind = kind /\ flag'[p].with = with
    BY <1>4 DEF StartCompile, Starts
  <2>4. kind \in Builds /\ kind # "checkout" /\ kind # "test" /\ First(kind) \notin {"truncate", "dump"}
    BY DEF First, Kinds, Builds
  <2> QED BY <2>2, <2>3, <2>4 DEF SyncedBy, Tracks, Saving
<1>5. CASE StartTest(p)
  <2>1. flag'[p].kind = "test" /\ cid'[p] = tracker.ptr /\ UNCHANGED tracker
    BY <1>5 DEF StartTest, Starts
  <2>2. \/ pc'[p] = "settest" /\ copy'[p] = tracker
        \/ pc'[p] = "truncate" /\ copy'[p].ptr = tracker.ptr
    <3>1. CASE tracker.ptr = None /\ Goto(p, "raised")
      BY <3>1 DEF Goto, Working, Ended
    <3>2. CASE copy' = [copy EXCEPT ![p] = tracker] /\ Goto(p, "settest")
      BY <3>2 DEF Goto
    <3>3. CASE \E d : Listed(tracker, d, tracker.ptr) /\ SaveThen(p, d, "settest")
      BY <3>3 DEF SaveThen, Goto, Listed, Extended
    <3> QED BY <1>5, <3>1, <3>2, <3>3, StartTestShape
  <2> QED BY <2>1, <2>2 DEF SyncedBy, Tracks, Saving
<1>6. CASE CheckEmpty(p)
  <2>1. flag'[p].kind = "checkout" /\ UNCHANGED ranOn
    BY <1>6 DEF CheckEmpty, Placed, Working, Ended, Stage, Saving, BuildStages, After, TestStages, local, ghost
  <2>2. pc'[p] = "copy" /\ ranOn = <<>>
    BY <1>6 DEF CheckEmpty, Goto, Working, Ended, Fresh
  <2> QED BY <2>1, <2>2 DEF SyncedBy, Tracks, Saving, Builds
<1>7. CASE Copy(p)
  <2>1. flag[p].kind = "checkout" /\ UNCHANGED <<flag, ranOn>> /\ Working(p)
    BY <1>7 DEF Copy, Placed, Working, Ended, Stage, Saving, BuildStages, After, TestStages, local, ghost
  <2>2. ranOn = <<>> /\ pc'[p] # "copy"
    BY <1>7, <2>1 DEF Copy, SyncedBy, SaveThen, Goto
  <2> QED BY <2>1, <2>2 DEF SyncedBy, Tracks, Builds
<1>8. CASE SetTest(p)
  <2>1. flag[p].kind = "test" /\ UNCHANGED <<flag, cid, tracker>> /\ Working(p) /\ ~ Saving(p)
    BY <1>8 DEF SetTest, Placed, Working, Ended, Stage, Saving, BuildStages, After, local
  <2>2. copy'[p] = tracker /\ pc'[p] = "truncate" /\ tracker = copy[p] /\ copy[p].ptr = cid[p]
    BY <1>8, <2>1 DEF SetTest, SaveThen, Goto, SyncedBy, Tracks, Working, Ended
  <2> QED BY <2>1, <2>2 DEF SyncedBy, Tracks, Saving
<1>9. CASE RunTest(p)
  <2>1. flag[p].kind = "test" /\ UNCHANGED <<flag, cid, tracker, copy>> /\ Working(p) /\ ~ Saving(p)
    BY <1>9 DEF RunTest, Placed, Working, Ended, Stage, Saving, BuildStages, After
  <2>2. pc'[p] = "record"
    BY <1>9 DEF RunTest, Goto
  <2> QED BY <2>1, <2>2 DEF SyncedBy, Tracks, Saving
<1>10. CASE RecordRun(p)
  <2>1. PICK l \in {"settest", "exit0"}, d \in Doc : RunAdded(copy[p], d, cid[p], run[p]) /\ SaveThen(p, d, l)
    BY <1>10, RecordRunShape, RevisedIsDoc
  <2>2. pc'[p] = "truncate" /\ copy'[p].ptr = copy[p].ptr /\ UNCHANGED <<flag, cid>>
    BY <1>10, <2>1 DEF RecordRun, SaveThen, Goto, local, RunAdded, Extended
  <2>3. flag[p].kind = "test" /\ Working(p)
    BY <1>10, RecordRunShape DEF RecordRun, Working, Ended
  <2> QED BY <2>2, <2>3 DEF SyncedBy, Tracks, Saving
<1>11. CASE Truncate(p)
  <2>1. Saving(p) /\ Working(p) /\ Saving(p)' /\ UNCHANGED <<flag, cid, copy, ranOn>>
    BY <1>11 DEF Truncate, Saving, Working, Ended, Goto, local, ghost
  <2>2. pc[p] # "empty"
    BY <1>11 DEF Truncate
  <2> QED BY <2>1, <2>2 DEF SyncedBy, Tracks
<1>12. CASE Dump(p)
  BY <1>12, DumpStage DEF SyncedBy, Tracks, Working, Ended
<1>13. ~ Kill(p) /\ ~ NoMoreTests(p)
  BY DEF Kill, NoMoreTests, Goto, Working, Ended
<1> QED BY <1>1, <1>2, <1>3, <1>4, <1>5, <1>6, <1>7, <1>8, <1>9, <1>10, <1>11, <1>12, <1>13, StepsOfP
           DEF Starting, Going

(* A test finds the lists of its compile when it reads the tracker again.  *)
LEMMA KeysStep ==
  ASSUME TypeOK, KeysAreThere, NEW p \in Procs, Placed(p), SaneOnDisk,
         ~ overlap' => (Working(p) => SyncedBy(p)), Command(p) \/ Kill(p)
  PROVE  KeysAreThere'
<1>1. LocalTo(p) /\ (overlap => overlap')
  BY LocalStep DEF Grows
<1> SUFFICES ASSUME pc'[p] = "exit1", flag'[p].kind = "test", ~ overlap' PROVE FALSE
  BY <1>1 DEF KeysAreThere, LocalTo
<1> USE DEF TypeOK
<1>2. ~ Building(p)
  <2>1. Building(p) => flag[p].kind \in Builds /\ UNCHANGED flag
    BY BuildShape DEF BuildMove
  <2> QED BY <2>1 DEF Builds
<1>3. ~ Starting(p)
  <2>1. ~ StartCheckout(p) /\ ~ \E kind \in Kinds \ {"checkout"} : StartFails(p, kind)
    BY DEF StartCheckout, StartFails, Goto
  <2>2. ~ \E kind \in Kinds \ {"checkout", "test"}, with \in Flags : StartCompile(p, kind, with)
    BY DEF StartCompile, Starts
  <2>3. ~ StartTest(p)
    BY DEF StartTest, Goto, SaveThen
  <2> QED BY <2>1, <2>2, <2>3 DEF Starting
<1>4. ~ SetTest(p)
  <2> SUFFICES ASSUME SetTest(p) PROVE FALSE
    OBVIOUS
  <2>1. /\ flag[p].kind = "test" /\ Working(p) /\ ~ Saving(p)
        /\ InHand(p) /\ copy[p].outcomes[cid[p]].lists
    BY DEF SetTest, Placed, Working, Ended, Stage, Saving, BuildStages, After, local
  <2>2. tracker = copy[p] /\ copy[p] \in Doc
    BY <2>1 DEF SyncedBy, Tracks
  <2>3. Readable
    BY <2>2, WorkspaceAssumption DEF Readable
  <2> QED BY <2>1, <2>2, <2>3 DEF SetTest, SaveThen, Goto, InHand
<1>5. ~ Dump(p)
  BY DumpStage
<1>6. ~ (CheckEmpty(p) \/ Copy(p) \/ RunTest(p) \/ RecordRun(p) \/ NoMoreTests(p) \/ Truncate(p) \/ Kill(p))
  BY DEF CheckEmpty, Copy, RunTest, RecordRun, NoMoreTests, Truncate, Kill, Goto, SaveThen
<1> QED BY <1>2, <1>3, <1>4, <1>5, <1>6, StepsOfP DEF Going

-----------------------------------------------------------------------------
(* The outcome a command has in hand.                                      *)
Own(p) == copy[p].outcomes[cid[p]]

(* What a command knows of the binary: before it links it recorded only    *)
(* failures; once it linked, what it left, unless it recorded one; a run   *)
(* under a clean compile was made on what that left.                       *)
HonestBy(p) ==
  /\ Tracks(p) \/ flag[p].kind = "checkout"
  /\ Saving(p) => HonestDoc(copy[p], ranOn, bin, left)
  /\ flag[p].kind \in Builds => Own(p).runs = {}
  /\ flag[p].kind \in Builds /\ Stage(p) \notin After => AllOne(Own(p))
  /\ flag[p].kind \in Builds /\ Stage(p) = "zero" =>
       HasOne(Own(p)) \/ (Own(p).compiles = <<>> /\ bin = left[cid[p]] /\ bin # None)
  /\ flag[p].kind = "test" /\ Stage(p) = "record" => (Clean(Own(p)) => ranOn[run[p]] = left[cid[p]])

HonestOnDisk == Readable => HonestDoc(tracker, ranOn, bin, left)

Honest ==
  ~ overlap /\ ~ untracked => HonestOnDisk /\ \A p \in Procs : Working(p) => HonestBy(p)

LEMMA MarksOfAppend ==
  ASSUME NEW o \in Outcome, NEW n \in Outcome, NEW result \in {0, 1},
         n.compiles = Append(o.compiles, result)
  PROVE  /\ result = 1 => HasOne(n) /\ (AllOne(o) => AllOne(n))
         /\ HasOne(o) => HasOne(n)
<1>1. o.compiles \in Seq({0, 1})
  BY DEF Outcome
<1>2. /\ Len(o.compiles) \in Nat /\ Len(n.compiles) = Len(o.compiles) + 1
      /\ DOMAIN o.compiles = 1 .. Len(o.compiles) /\ DOMAIN n.compiles = 1 .. Len(n.compiles)
      /\ \A k \in 1 .. Len(o.compiles) : n.compiles[k] = o.compiles[k]
      /\ n.compiles[Len(o.compiles) + 1] = result
  BY <1>1, AppendProperties DEF Outcome
<1> QED BY <1>2 DEF HasOne, AllOne

LEMMA MarksExclude ==
  ASSUME NEW o \in Outcome
  PROVE  /\ HasOne(o) => ~ Clean(o)
         /\ AllOne(o) => ~ Clean(o) /\ (HasOne(o) \/ o.compiles = <<>>)
         /\ o.compiles = <<>> => AllOne(o) /\ ~ Clean(o)
<1>1. o.compiles \in Seq({0, 1}) /\ DOMAIN o.compiles = 1 .. Len(o.compiles) /\ Len(o.compiles) \in Nat
  BY DEF Outcome
<1>2. o.compiles = <<>> \/ 1 \in DOMAIN o.compiles
  BY <1>1
<1> QED BY <1>1, <1>2 DEF HasOne, AllOne, Clean

(* "by" and "by" but for c.                                                *)
AllBut(by, g, c) == \A e \in Cids \ {c} : g[e] = by[e]

LEMMA HonestRevisions ==
  ASSUME NEW doc \in Doc, NEW d, NEW c \in Cids, NEW ran, NEW exe, NEW by, HonestDoc(doc, ran, exe, by)
  PROVE  /\ Begun(doc, d, c) => HonestDoc(d, ran, exe, by)
         /\ Appended(doc, d, c, 1) /\ doc.ptr = c =>
              \A x, g : AllBut(by, g, c) => HonestDoc(d, ran, x, g)
         /\ /\ Appended(doc, d, c, 0) /\ doc.ptr = c /\ doc.outcomes[c].runs = {}
            /\ HasOne(doc.outcomes[c]) \/ (exe = by[c] /\ exe # None)
            => HonestDoc(d, ran, exe, by)
         /\ Listed(doc, d, c) => HonestDoc(d, ran, exe, by)
         /\ \A r : RunAdded(doc, d, c, r) /\ (Clean(doc.outcomes[c]) => ran[r] = by[c])
                    => HonestDoc(d, ran, exe, by)
         /\ doc.ptr = c /\ ~ Clean(doc.outcomes[c]) =>
              \A x, g : AllBut(by, g, c) => HonestDoc(doc, ran, x, g)
<1>k. \A e \in Known(doc) : e \in Cids /\ doc.outcomes[e] \in Outcome
  BY KnownType
<1>p. doc.ptr \in Cids \cup {None}
  BY DEF Doc
<1>1. ASSUME Begun(doc, d, c) PROVE HonestDoc(d, ran, exe, by)
  <2>1. ~ Clean(d.outcomes[c])
    BY <1>1, NewOutcomeType, MarksExclude DEF Begun
  <2> QED BY <1>1, <1>k, <2>1 DEF Begun, Revised, HonestDoc
<1>a. ASSUME NEW result \in {0, 1}, Appended(doc, d, c, result)
      PROVE  /\ doc.outcomes[c] \in Outcome /\ d.outcomes[c] \in Outcome
             /\ HasOne(doc.outcomes[c]) \/ result = 1 => ~ Clean(d.outcomes[c])
  <2>1. c \in Known(d) /\ c \in Known(doc) /\ d \in Doc
    BY <1>a DEF Appended, Extended, Revised
  <2>2. doc.outcomes[c] \in Outcome /\ d.outcomes[c] \in Outcome
    BY <2>1, KnownType
  <2>3. HasOne(doc.outcomes[c]) \/ result = 1 => HasOne(d.outcomes[c])
    BY <1>a, <2>2, MarksOfAppend DEF Appended
  <2> QED BY <2>2, <2>3, MarksExclude
<1>2. ASSUME Appended(doc, d, c, 1), doc.ptr = c 
      PROVE  \A x, g : AllBut(by, g, c) => HonestDoc(d, ran, x, g)
  BY <1>2, <1>k, <1>a DEF Appended, Extended, Revised, HonestDoc, AllBut
<1>3. ASSUME Appended(doc, d, c, 0), doc.ptr = c, doc.outcomes[c].runs = {},
             HasOne(doc.outcomes[c]) \/ (exe = by[c] /\ exe # None)
      PROVE  HonestDoc(d, ran, exe, by)
  <2>1. d.outcomes[c].runs = {} /\ d.ptr = c
    BY <1>3 DEF Appended, Extended
  <2>2. Clean(d.outcomes[c]) => exe = by[c] /\ exe # None
    BY <1>3, <1>a
  <2> QED BY <1>3, <1>k, <2>1, <2>2 DEF Appended, Extended, Revised, HonestDoc
<1>4. ASSUME Listed(doc, d, c) PROVE HonestDoc(d, ran, exe, by)
  <2>1. Clean(d.outcomes[c]) <=> Clean(doc.outcomes[c])
    BY <1>4 DEF Listed, Clean
  <2>2. \A e \in Known(d) : Clean(d.outcomes[e]) => by[e] # None /\ \A r \in d.outcomes[e].runs : ran[r] = by[e]
    BY <1>4, <1>k, <2>1 DEF Listed, Extended, Revised, HonestDoc
  <2>3. d.ptr = doc.ptr /\ (d.ptr # None => (Clean(d.outcomes[d.ptr]) <=> Clean(doc.outcomes[d.ptr])))
    BY <1>4, <1>p, <2>1 DEF Listed, Extended, Revised
  <2> QED BY <2>2, <2>3 DEF HonestDoc
<1>5. ASSUME NEW r, RunAdded(doc, d, c, r), Clean(doc.outcomes[c]) => ran[r] = by[c]
      PROVE  HonestDoc(d, ran, exe, by)
  <2>1. Clean(d.outcomes[c]) <=> Clean(doc.outcomes[c])
    BY <1>5 DEF RunAdded, Clean
  <2>2. \A e \in Known(d) : Clean(d.outcomes[e]) => by[e] # None /\ \A i \in d.outcomes[e].runs : ran[i] = by[e]
    BY <1>5, <1>k, <2>1 DEF RunAdded, Extended, Revised, HonestDoc
  <2>3. d.ptr = doc.ptr /\ (d.ptr # None => (Clean(d.outcomes[d.ptr]) <=> Clean(doc.outcomes[d.ptr])))
    BY <1>5, <1>p, <2>1 DEF RunAdded, Extended, Revised
  <2> QED BY <2>2, <2>3 DEF HonestDoc
<1>6. doc.ptr = c /\ ~ Clean(doc.outcomes[c]) =>
        \A x, g : AllBut(by, g, c) => HonestDoc(doc, ran, x, g)
  BY <1>k DEF HonestDoc, AllBut
<1> QED BY <1>1, <1>2, <1>3, <1>4, <1>5, <1>6

(* What a step of a tracked make or compile does to binary and copy.       *)
LEMMA BuildEffect ==
  ASSUME TypeOK, NEW p \in Procs, Placed(p), Building(p), ~ flag[p].with.no_track
  PROVE  \/ pc[p] \notin After /\ UNCHANGED <<bin, left>> /\ \E l \in BuildStages \ {"zero"} : Moves(p, l)
         \/ /\ pc[p] \notin After /\ bin' = left'[cid[p]] /\ bin' # None
            /\ AllBut(left, left', cid[p]) /\ Moves(p, "zero")
         \/ /\ pc[p] \notin After /\ AllBut(left, left', cid[p])
            /\ \E l, d : Appended(copy[p], d, cid[p], 1) /\ SaveThen(p, d, l)
         \/ /\ pc[p] = "zero" /\ UNCHANGED <<bin, left>>
            /\ \E d : Appended(copy[p], d, cid[p], 0) /\ SaveThen(p, d, "exit0")
<1>1. InHand(p)
  BY AtBuild DEF Building, Cmake, Load, Inst, Object, Link, NoLinkFile, Zero
<1>2. ASSUME NEW l, Records(p, 1, l)
      PROVE  \E m, d : Appended(copy[p], d, cid[p], 1) /\ SaveThen(p, d, m)
  <2>1. \E d : /\ Appended(copy[p], d, cid[p], 1)
               /\ SaveThen(p, d, IF 1 = 1 /\ flag[p].with.exit_err THEN "exit1" ELSE l)
    BY <1>1, <1>2, RecordsShape
  <2> QED BY <2>1, Zenon
<1>3. Records(p, 0, "exit0") => \E d : Appended(copy[p], d, cid[p], 0) /\ SaveThen(p, d, "exit0")
  <2> SUFFICES ASSUME Records(p, 0, "exit0")
               PROVE  \E d : Appended(copy[p], d, cid[p], 0) /\ SaveThen(p, d, "exit0")
    OBVIOUS
  <2>1. PICK d : /\ Appended(copy[p], d, cid[p], 0)
                 /\ SaveThen(p, d, IF 0 = 1 /\ flag[p].with.exit_err THEN "exit1" ELSE "exit0")
    BY <1>1, RecordsShape
  <2>2. SaveThen(p, d, "exit0")
    BY <2>1 DEF SaveThen
  <2> QED BY <2>1, <2>2
<1>s. UNCHANGED left => AllBut(left, left', cid[p])
  BY DEF AllBut
<1> USE DEF After, BuildStages, Moves
<1>4. CASE Cmake(p)
  BY <1>s, <1>2, <1>4 DEF Cmake, Checks
<1>5. CASE Load(p)
  BY <1>s, <1>2, <1>5 DEF Load, Checks, files
<1>6. CASE Inst(p)
  BY <1>s, <1>2, <1>6 DEF Inst, files
<1>7. CASE Object(p)
  BY <1>s, <1>2, <1>7 DEF Object, Checks, files
<1>8. CASE Link(p)
  <2>1. PICK failed \in BOOLEAN : /\ error' = [error EXCEPT ![p] = @ \/ failed]
                                  /\ bin' \in AfterLink(p, failed)
                                  /\ left' = IF failed THEN left ELSE [left EXCEPT ![cid[p]] = bin']
    BY <1>8 DEF Link, Executes
  <2>2. pc[p] \notin After /\ Checks(p, "zero")
    BY <1>8 DEF Link
  <2>5. AllBut(left, left', cid[p])
    BY <2>1 DEF AllBut, TypeOK
  <2>3. CASE error'[p]
    BY <1>2, <2>2, <2>3, <2>5 DEF Checks
  <2>4. CASE ~ error'[p]
    <3>1. ~ failed
      BY <2>1, <2>4 DEF TypeOK
    <3>2. bin' = left'[cid[p]] /\ bin' # None
      BY <1>1, <2>1, <3>1, CidFacts DEF AfterLink, TypeOK, InHand
    <3> QED BY <2>2, <2>4, <2>5, <3>2 DEF Checks
  <2> QED BY <2>3, <2>4
<1>9. CASE NoLinkFile(p)
  BY <1>s, <1>2, <1>9 DEF NoLinkFile, files
<1>10. CASE Zero(p)
  BY <1>3, <1>10 DEF Zero, files
<1> QED BY <1>4, <1>5, <1>6, <1>7, <1>8, <1>9, <1>10 DEF Building

(* A step of make or compile that tracks: before its binary is linked its  *)
(* outcome has only failures, so that no document is wrong about it.       *)
LEMMA HonestBuild ==
  ASSUME TypeOK, NEW p \in Procs, Placed(p), SyncedBy(p), HonestOnDisk, HonestBy(p), Building(p)
  PROVE  HonestOnDisk' /\ HonestBy(p)'
<1>1. /\ BuildMove(p) /\ ~ Saving(p) /\ flag[p].kind \in Builds /\ InHand(p)
      /\ UNCHANGED <<tracker, ranOn, flag, cid>>
  BY BuildShape DEF BuildMove, Placed, Builds, ghost
<1>2. ~ flag[p].with.no_track /\ flag[p].kind \notin {"checkout", "test"}
  BY <1>1 DEF HonestBy, Tracks, Builds
<1>3. PICK doc \in Doc, c \in Cids : doc = copy[p] /\ c = cid[p]
  BY <1>1 DEF TypeOK, InHand
<1>4. /\ tracker = doc /\ doc.ptr = c /\ Own(p) = doc.outcomes[c] /\ doc.outcomes[c] \in Outcome
      /\ doc.outcomes[c].runs = {} /\ Readable /\ HonestDoc(doc, ranOn, bin, left)
  <2>1. tracker = doc /\ doc.ptr = c
    BY <1>1, <1>2, <1>3 DEF SyncedBy, Tracks
  <2>2. Readable
    BY <2>1, WorkspaceAssumption DEF Readable
  <2>3. doc.outcomes[c] \in Outcome
    BY <1>1, <1>3, KnownType DEF InHand
  <2> QED BY <1>1, <1>3, <2>1, <2>2, <2>3 DEF HonestOnDisk, HonestBy, Own
<1>5. Stage(p) = pc[p]
  BY <1>1 DEF Stage
<1>6. pc[p] \notin After => AllOne(doc.outcomes[c]) /\ ~ Clean(doc.outcomes[c])
  BY <1>1, <1>4, <1>5, MarksExclude DEF HonestBy
<1>7. ASSUME NEW l, NEW d, NEW result \in {0, 1}, Appended(doc, d, c, result), SaveThen(p, d, l)
      PROVE  /\ copy'[p] = d /\ Own(p)' = d.outcomes[c] /\ Saving(p)' /\ Stage(p)' = l
             /\ d.outcomes[c].runs = {} /\ d.outcomes[c] \in Outcome
  <2>1. copy'[p] = d /\ pc'[p] = "truncate" /\ then'[p] = l
    BY <1>7 DEF SaveThen, Goto, TypeOK
  <2>2. c \in Known(d) /\ d \in Doc /\ d.outcomes[c].runs = {}
    BY <1>4, <1>7 DEF Appended, Extended, Revised
  <2> QED BY <1>1, <1>3, <2>1, <2>2, KnownType DEF Own, Saving, Stage
<1>8. ASSUME NEW l, Moves(p, l), l \notin {"truncate", "dump"}
      PROVE  copy'[p] = doc /\ Own(p)' = doc.outcomes[c] /\ ~ Saving(p)' /\ Stage(p)' = l
  BY <1>1, <1>3, <1>8 DEF Moves, Goto, TypeOK, Own, Saving, Stage
<1>9. CASE pc[p] \notin After /\ UNCHANGED <<bin, left>> /\ \E l \in BuildStages \ {"zero"} : Moves(p, l)
  <2>2. PICK k \in BuildStages \ {"zero"} : Moves(p, k)
    BY <1>9
  <2>3. k \notin {"truncate", "dump"}
    BY DEF BuildStages, After
  <2>4. copy'[p] = doc /\ Own(p)' = doc.outcomes[c] /\ ~ Saving(p)' /\ Stage(p)' = k
    BY <1>8, <2>2, <2>3
  <2> QED BY <1>1, <1>2, <1>4, <1>6, <1>9, <2>2, <2>4 DEF HonestBy, HonestOnDisk, Readable, Tracks
<1>10. CASE /\ pc[p] \notin After /\ bin' = left'[cid[p]] /\ bin' # None
            /\ AllBut(left, left', cid[p]) /\ Moves(p, "zero")
  <2>1. copy'[p] = doc /\ Own(p)' = doc.outcomes[c] /\ ~ Saving(p)' /\ Stage(p)' = "zero"
    BY <1>8, <1>10
  <2>2. HonestDoc(doc, ranOn', bin', left')
    BY <1>1, <1>3, <1>4, <1>6, <1>10, HonestRevisions
  <2>3. HasOne(Own(p)') \/ Own(p)'.compiles = <<>>
    BY <1>4, <1>6, <1>10, <2>1, MarksExclude
  <2>4. HonestOnDisk'
    BY <1>1, <1>4, <2>2 DEF HonestOnDisk
  <2> QED BY <1>1, <1>2, <1>4, <1>10, <2>1, <2>3, <2>4 DEF HonestBy, Tracks, After
<1>11. CASE /\ pc[p] \notin After /\ AllBut(left, left', cid[p])
            /\ \E l, d : Appended(copy[p], d, cid[p], 1) /\ SaveThen(p, d, l)
  <2>1. PICK l, d : Appended(doc, d, c, 1) /\ SaveThen(p, d, l)
    BY <1>3, <1>11
  <2>2. /\ copy'[p] = d /\ Own(p)' = d.outcomes[c] /\ Saving(p)' /\ Stage(p)' = l
        /\ d.outcomes[c].runs = {} /\ d.outcomes[c] \in Outcome
    BY <1>7, <2>1
  <2>3. HasOne(d.outcomes[c]) /\ AllOne(d.outcomes[c])
    BY <1>4, <1>6, <1>11, <2>1, <2>2, MarksOfAppend DEF Appended
  <2>4. HonestDoc(d, ranOn', bin', left') /\ HonestDoc(doc, ranOn', bin', left')
    BY <1>1, <1>3, <1>4, <1>6, <1>11, <2>1, HonestRevisions
  <2>5. HonestOnDisk'
    BY <1>1, <1>4, <2>4 DEF HonestOnDisk
  <2> QED BY <1>1, <1>2, <2>2, <2>3, <2>4, <2>5 DEF HonestBy, Tracks
<1>12. CASE /\ pc[p] = "zero" /\ UNCHANGED <<bin, left>>
            /\ \E d : Appended(copy[p], d, cid[p], 0) /\ SaveThen(p, d, "exit0")
  <2>1. PICK d : Appended(doc, d, c, 0) /\ SaveThen(p, d, "exit0")
    BY <1>3, <1>12
  <2>2. /\ copy'[p] = d /\ Own(p)' = d.outcomes[c] /\ Saving(p)' /\ Stage(p)' = "exit0"
        /\ d.outcomes[c].runs = {} /\ d.outcomes[c] \in Outcome
    BY <1>7, <2>1
  <2>3. HasOne(doc.outcomes[c]) \/ (bin = left[c] /\ bin # None)
    BY <1>1, <1>3, <1>4, <1>5, <1>12 DEF HonestBy
  <2>4. HonestDoc(d, ranOn', bin', left')
    BY <1>1, <1>4, <1>12, <2>1, <2>3, HonestRevisions
  <2>5. HonestOnDisk'
    BY <1>1, <1>4, <1>12 DEF HonestOnDisk
  <2> QED BY <1>1, <1>2, <2>2, <2>4, <2>5 DEF HonestBy, Tracks, After
<1> QED BY <1>2, <1>9, <1>10, <1>11, <1>12, BuildEffect

LEMMA HonestStep ==
  ASSUME TypeOK, SaneOnDisk, NEW p \in Procs, Placed(p), Working(p) => SyncedBy(p),
         HonestOnDisk, Working(p) => HonestBy(p), Command(p) \/ Kill(p), ~ untracked'
  PROVE  HonestOnDisk' /\ (Working(p)' => HonestBy(p)')
<1> USE DEF TypeOK
<1>u. ASSUME UNCHANGED <<tracker, ranOn, bin, left>> PROVE HonestOnDisk'
  BY <1>u DEF HonestOnDisk, Readable
<1>c. ASSUME flag'[p].kind = "checkout", Saving(p)' => HonestDoc(copy'[p], ranOn', bin', left') PROVE HonestBy(p)'
  BY <1>c DEF HonestBy, Builds
<1>t. ASSUME flag'[p].kind = "test", Saving(p)' => HonestDoc(copy'[p], ranOn', bin', left'), Stage(p)' # "record"
      PROVE  HonestBy(p)'
  BY <1>t DEF HonestBy, Builds, Tracks
<1>1. CASE Building(p)
  <2>1. Working(p)
    BY <1>1, BuildShape DEF BuildMove
  <2> QED BY <1>1, <2>1, HonestBuild
<1>2. CASE StartCheckout(p)
  <2>1. flag'[p].kind = "checkout" /\ ~ Saving(p)' /\ UNCHANGED <<tracker, ranOn, bin, left>>
    BY <1>2 DEF StartCheckout, Starts, Goto, Saving, files
  <2> QED BY <1>c, <1>u, <2>1
<1>3. CASE \E kind \in Kinds \ {"checkout"} : StartFails(p, kind)
  <2>1. ~ Working(p)' /\ UNCHANGED <<tracker, ranOn, bin, left>>
    BY <1>3 DEF StartFails, Starts, Goto, Working, Ended, files
  <2> QED BY <1>u, <2>1
<1>4. ASSUME NEW kind \in Kinds \ {"checkout", "test"}, NEW with \in Flags, StartCompile(p, kind, with)
      PROVE  HonestOnDisk' /\ (Working(p)' => HonestBy(p)')
  <2>1. ~ with.no_track /\ UNCHANGED <<tracker, ranOn, bin, left>> /\ tracker \in Doc /\ HonestDoc(tracker, ranOn, bin, left)
    BY <1>4 DEF StartCompile, Starts, files, Readable, HonestOnDisk
  <2>2. PICK c \in Cids : \E d :
           Begun(tracker, d, c) /\ cid' = [cid EXCEPT ![p] = c] /\ SaveThen(p, d, First(kind))
    BY <1>4, <2>1, StartCompileShape
  <2>3. PICK d : Begun(tracker, d, c) /\ SaveThen(p, d, First(kind))
    BY <2>2
  <2>4. flag'[p].kind = kind /\ flag'[p].with = with
    BY <1>4 DEF StartCompile, Starts
  <2>5. kind \in Builds /\ First(kind) # "zero"
    BY DEF First, Kinds, Builds
  <2>6. copy'[p] = d /\ Saving(p)' /\ Stage(p)' = First(kind) /\ Own(p)' = NewOutcome
    BY <2>2, <2>3 DEF SaveThen, Goto, Saving, Stage, Own, Begun
  <2>7. HonestDoc(d, ranOn', bin', left')
    BY <2>1, <2>3, HonestRevisions
  <2>8. NewOutcome.runs = {} /\ AllOne(NewOutcome)
    BY NewOutcomeType, MarksExclude
  <2> QED BY <1>u, <2>1, <2>4, <2>5, <2>6, <2>7, <2>8 DEF HonestBy, Tracks, Builds
<1>5. CASE StartTest(p)
  <2>1. UNCHANGED <<tracker, ranOn, bin, left>> /\ tracker \in Doc /\ HonestDoc(tracker, ranOn, bin, left)
        /\ flag'[p].kind = "test"
    BY <1>5 DEF StartTest, Starts, files, Readable, HonestOnDisk
  <2>2. CASE tracker.ptr = None /\ Goto(p, "raised")
    BY <1>u, <2>1, <2>2 DEF Goto, Working, Ended
  <2>3. CASE Goto(p, "settest")
    <3>1. Stage(p)' = "settest" /\ ~ Saving(p)'
      BY <2>3 DEF Goto, Stage, Saving
    <3> QED BY <1>t, <1>u, <2>1, <3>1
  <2>4. CASE /\ tracker.ptr \in Known(tracker)
             /\ \E d : Listed(tracker, d, tracker.ptr) /\ SaveThen(p, d, "settest")
    <3>1. PICK d : Listed(tracker, d, tracker.ptr) /\ SaveThen(p, d, "settest")
      BY <2>4
    <3>2. copy'[p] = d /\ Stage(p)' = "settest"
      BY <3>1 DEF SaveThen, Goto, Stage, Saving
    <3>3. tracker.ptr \in Cids
      BY <2>1, <2>4, KnownType
    <3>4. HonestDoc(d, ranOn', bin', left')
      BY <2>1, <3>1, <3>3, HonestRevisions
    <3> QED BY <1>t, <1>u, <2>1, <3>2, <3>4
  <2> QED BY <1>5, <2>2, <2>3, <2>4, StartTestShape
<1>6. CASE CheckEmpty(p) \/ Copy(p)
  <2>1. flag'[p].kind = "checkout" /\ UNCHANGED <<tracker, ranOn, bin, left>>
    BY <1>6 DEF CheckEmpty, Copy, Placed, Working, Ended, Stage, Saving, BuildStages, After, TestStages, local, ghost
  <2>2. Saving(p)' => copy'[p] = FirstDoc
    BY <1>6 DEF CheckEmpty, Copy, Goto, SaveThen, Saving
  <2>3. HonestDoc(FirstDoc, ranOn', bin', left')
    BY FirstDocType DEF HonestDoc
  <2> QED BY <1>c, <1>u, <2>1, <2>2, <2>3
<1>7. CASE SetTest(p)
  <2>1. flag'[p].kind = "test" /\ UNCHANGED <<tracker, ranOn, bin, left>>
    BY <1>7 DEF SetTest, Placed, Working, Ended, Stage, Saving, BuildStages, After, local, files, ghost
  <2>2. \/ ~ Working(p)'
        \/ Stage(p)' = "run" /\ copy'[p] = tracker /\ Readable
    BY <1>7 DEF SetTest, Goto, SaveThen, Working, Ended, Stage, Saving
  <2> QED BY <1>t, <1>u, <2>1, <2>2 DEF HonestOnDisk
<1>8. CASE RunTest(p)
  <2>1. /\ flag[p].kind = "test" /\ UNCHANGED <<flag, cid, copy, tracker, bin, left>> /\ Working(p) /\ ~ Saving(p)
        /\ InHand(p) /\ copy[p] \in Doc
    BY <1>8 DEF RunTest, Placed, Working, Ended, Stage, Saving, BuildStages, After, files
  <2>2. tracker = copy[p] /\ copy[p].ptr = cid[p] /\ Readable
    BY <2>1, WorkspaceAssumption DEF SyncedBy, Tracks, Readable
  <2>3. /\ ranOn' = Append(ranOn, bin) /\ run'[p] = Len(ranOn) + 1 /\ bin \in Cids \cup {None}
        /\ pc'[p] = "record"
    BY <1>8 DEF RunTest, Goto
  <2>4. /\ Len(ranOn) \in Nat /\ ranOn'[Len(ranOn) + 1] = bin
        /\ \A r \in 1 .. Len(ranOn) : ranOn'[r] = ranOn[r]
    BY <2>3, AppendProperties
  <2>5. Clean(Own(p)) => bin = left[cid[p]]
    BY <2>1, <2>2, CidFacts DEF HonestOnDisk, HonestDoc, Own, InHand
  <2>6. HonestDoc(tracker, ranOn', bin', left')
    BY <2>1, <2>2, <2>4 DEF HonestOnDisk, HonestDoc, SaneOnDisk, Sane
  <2> QED BY <2>1, <2>2, <2>3, <2>4, <2>5, <2>6 DEF HonestBy, HonestOnDisk, Tracks, Builds, Own, Saving, Stage
<1>9. CASE RecordRun(p)
  <2>1. /\ flag[p].kind = "test" /\ InHand(p) /\ pc[p] = "record" /\ Working(p) /\ ~ Saving(p)
        /\ copy[p] \in Doc /\ UNCHANGED <<flag, cid, tracker, ranOn, bin, left>>
    BY <1>9, RecordRunShape DEF RecordRun, Working, Ended, Saving, files, local, ghost
  <2>2. PICK l \in {"settest", "exit0"}, d \in Doc : RunAdded(copy[p], d, cid[p], run[p]) /\ SaveThen(p, d, l)
    BY <1>9, RecordRunShape, RevisedIsDoc
  <2>3. tracker = copy[p] /\ Readable
    BY <2>1, WorkspaceAssumption DEF SyncedBy, Tracks, Readable
  <2>4. Clean(copy[p].outcomes[cid[p]]) => ranOn[run[p]] = left[cid[p]]
    BY <2>1 DEF HonestBy, Own, Stage
  <2>5. HonestDoc(d, ranOn', bin', left')
    BY <2>1, <2>2, <2>3, <2>4, HonestRevisions DEF HonestOnDisk, InHand
  <2>6. copy'[p] = d /\ Stage(p)' = l
    BY <2>2 DEF SaveThen, Goto, Stage, Saving
  <2> QED BY <1>t, <1>u, <2>1, <2>5, <2>6
<1>10. CASE Truncate(p)
  <2>1. Saving(p) /\ Working(p) /\ Saving(p)' /\ UNCHANGED <<flag, cid, copy, ranOn, bin, left, then, run>>
    BY <1>10 DEF Truncate, Saving, Working, Ended, Goto, local, ghost, files
  <2>2. Stage(p)' = Stage(p) /\ Own(p)' = Own(p)
    BY <2>1 DEF Stage, Own
  <2>3. ~ Readable'
    BY <1>10 DEF Truncate, Readable
  <2> QED BY <2>1, <2>2, <2>3 DEF HonestBy, HonestOnDisk, Tracks
<1>11. CASE Dump(p)
  <2>1. /\ Working(p) /\ Saving(p) /\ ~ Saving(p)' /\ Stage(p)' = Stage(p) /\ tracker' = copy[p]
        /\ UNCHANGED <<flag, cid, copy, run, ranOn, bin, left>> /\ Own(p)' = Own(p)
    BY <1>11, DumpStage DEF Own
  <2> QED BY <2>1 DEF HonestBy, HonestOnDisk, Tracks
<1>12. CASE NoMoreTests(p) \/ Kill(p)
  <2>1. ~ Working(p)' /\ UNCHANGED <<tracker, ranOn, bin, left>>
    BY <1>12 DEF NoMoreTests, Kill, Goto, Working, Ended, files, ghost
  <2> QED BY <1>u, <2>1
<1> QED BY <1>1, <1>2, <1>3, <1>4, <1>5, <1>6, <1>7, <1>8, <1>9, <1>10, <1>11, <1>12, StepsOfP
           DEF Starting, Going

-----------------------------------------------------------------------------
(* Every run is in the document to be saved; on disk, but for the one that *)
(* a test has still to record.                                             *)
KeptBy(p) == Saving(p) => \A r \in 1 .. Len(ranOn) : KeptIn(copy[p], r)

KeptOnDisk ==
  Readable => \A r \in 1 .. Len(ranOn) :
    KeptIn(tracker, r) \/ \E p \in Procs : run[p] = r /\ pc[p] \in {"record", "truncate"}

Kept == ~ overlap /\ ~ killed => KeptOnDisk /\ \A p \in Procs : Working(p) => KeptBy(p)

LEMMA KeptRevisions ==
  ASSUME NEW doc \in Doc, NEW d, NEW c
  PROVE  /\ Begun(doc, d, c) /\ c \notin Known(doc) => \A r : KeptIn(doc, r) => KeptIn(d, r)
         /\ \A result : Appended(doc, d, c, result) => \A r : KeptIn(doc, r) => KeptIn(d, r)
         /\ Listed(doc, d, c) => \A r : KeptIn(doc, r) => KeptIn(d, r)
         /\ \A i : RunAdded(doc, d, c, i) => KeptIn(d, i) /\ \A r : KeptIn(doc, r) => KeptIn(d, r)
<1>1. Known(doc) \subseteq Cids
  BY DEF Known
<1> QED BY <1>1 DEF Begun, Appended, Listed, RunAdded, Extended, Revised, KeptIn

LEMMA KeptStep ==
  ASSUME TypeOK, SaneOnDisk, NEW p \in Procs, Placed(p), Working(p) => SyncedBy(p),
         KeptOnDisk, Working(p) => KeptBy(p), Command(p) \/ Kill(p), ~ killed',
         \A q \in Procs : q # p => ~ Working(q) /\ ~ Working(q)'
  PROVE  KeptOnDisk' /\ (Working(p)' => KeptBy(p)')
<1> USE DEF TypeOK
<1> DEFINE All(doc) == \A r \in 1 .. Len(ranOn) : KeptIn(doc, r)
<1>a. ASSUME pc[p] \notin {"record", "truncate"}, Readable PROVE All(tracker)
  <2>1. ~ \E q \in Procs : pc[q] \in {"record", "truncate"}
    BY <1>a DEF Working, Ended
  <2> QED BY <1>a, <2>1 DEF KeptOnDisk
<1>u. ASSUME UNCHANGED <<tracker, ranOn>>, pc[p] \notin {"record", "truncate"},
             Saving(p)' /\ Working(p)' => All(copy'[p])
      PROVE  KeptOnDisk' /\ (Working(p)' => KeptBy(p)')
  BY <1>a, <1>u DEF KeptOnDisk, KeptBy, Readable
<1>1. CASE Building(p)
  <2>1. /\ BuildMove(p) /\ SyncedBy(p) /\ flag[p].kind \in Builds /\ ~ Saving(p)
        /\ UNCHANGED <<tracker, ranOn>>
    BY <1>1, BuildShape DEF BuildMove, ghost
  <2>2. pc[p] \notin {"record", "truncate"}
    BY <1>1 DEF Building, Cmake, Load, Inst, Object, Link, NoLinkFile, Zero
  <2>3. PICK l \in BuildStages :
          \/ Moves(p, l)
          \/ /\ ~ flag[p].with.no_track
             /\ \E result \in {0, 1} : \E d : Appended(copy[p], d, cid[p], result) /\ SaveThen(p, d, l)
    BY <2>1 DEF BuildMove
  <2>4. CASE Moves(p, l)
    <3>1. ~ Saving(p)'
      BY <2>4 DEF Moves, Goto, Saving, BuildStages, After
    <3> QED BY <1>u, <2>1, <2>2, <3>1
  <2>5. CASE /\ ~ flag[p].with.no_track
             /\ \E result \in {0, 1} : \E d : Appended(copy[p], d, cid[p], result) /\ SaveThen(p, d, l)
    <3>1. PICK d, result : Appended(copy[p], d, cid[p], result) /\ SaveThen(p, d, l)
      BY <2>5
    <3>2. tracker = copy[p] /\ copy[p] \in Doc /\ Readable
      BY <2>1, <2>5, WorkspaceAssumption DEF SyncedBy, Tracks, Readable
    <3>3. copy'[p] = d /\ All(d)
      BY <1>a, <2>2, <3>1, <3>2, KeptRevisions DEF SaveThen
    <3> QED BY <1>u, <2>1, <2>2, <3>3
  <2> QED BY <2>3, <2>4, <2>5
<1>2. CASE StartCheckout(p) \/ \E kind \in Kinds \ {"checkout"} : StartFails(p, kind)
  <2>1. pc[p] \in Ended /\ ~ Saving(p)' /\ UNCHANGED <<tracker, ranOn>>
    BY <1>2 DEF StartCheckout, StartFails, Starts, Goto, Saving
  <2> QED BY <1>u, <2>1 DEF Ended
<1>3. ASSUME NEW kind \in Kinds \ {"checkout", "test"}, NEW with \in Flags, StartCompile(p, kind, with)
      PROVE  KeptOnDisk' /\ (Working(p)' => KeptBy(p)')
  <2>1. pc[p] \in Ended /\ Readable /\ UNCHANGED <<tracker, ranOn>> /\ tracker \in Doc
    BY <1>3 DEF StartCompile, Starts, Readable
  <2>2. PICK c \in Cids, d \in Doc : /\ Begun(tracker, d, c) /\ c \notin Known(tracker)
                                     /\ copy' = [copy EXCEPT ![p] = d]
    BY <1>3, StartCompileShape, RevisedIsDoc DEF SaveThen
  <2>3. All(d)
    BY <1>a, <2>1, <2>2, KeptRevisions DEF Ended
  <2> QED BY <1>u, <2>1, <2>2, <2>3 DEF Ended
<1>4. CASE StartTest(p)
  <2>1. pc[p] \in Ended /\ Readable /\ UNCHANGED <<tracker, ranOn>> /\ tracker \in Doc
    BY <1>4 DEF StartTest, Starts, Readable
  <2>2. Saving(p)' => \E d : Listed(tracker, d, tracker.ptr) /\ copy'[p] = d
    <3>1. CASE Goto(p, "raised") \/ Goto(p, "settest")
      BY <3>1 DEF Goto, Saving
    <3>2. CASE \E d : Listed(tracker, d, tracker.ptr) /\ SaveThen(p, d, "settest")
      BY <3>2 DEF SaveThen
    <3> QED BY <1>4, <3>1, <3>2, StartTestShape
  <2>3. Saving(p)' => All(copy'[p])
    BY <1>a, <2>1, <2>2, KeptRevisions DEF Ended
  <2> QED BY <1>u, <2>1, <2>3 DEF Ended
<1>5. CASE CheckEmpty(p) \/ NoMoreTests(p)
  <2>1. ~ Saving(p)' /\ UNCHANGED <<tracker, ranOn>> /\ pc[p] \notin {"record", "truncate"}
    BY <1>5 DEF CheckEmpty, NoMoreTests, Goto, Saving, ghost
  <2> QED BY <1>u, <2>1
<1>6. CASE Copy(p)
  <2>1. flag[p].kind = "checkout" /\ Working(p) /\ pc[p] = "copy" /\ UNCHANGED <<tracker, ranOn>>
    BY <1>6 DEF Copy, Placed, Working, Ended, Stage, Saving, BuildStages, After, TestStages, ghost
  <2>2. Len(ranOn) = 0
    BY <2>1 DEF SyncedBy
  <2> QED BY <1>u, <2>1, <2>2
<1>7. CASE SetTest(p)
  <2>1. UNCHANGED <<tracker, ranOn>> /\ pc[p] = "settest" /\ (Saving(p)' => Readable /\ copy'[p] = tracker)
    BY <1>7 DEF SetTest, Goto, SaveThen, Saving, ghost
  <2> QED BY <1>a, <1>u, <2>1
<1>8. CASE RunTest(p)
  <2>1. /\ ranOn' = Append(ranOn, bin) /\ bin \in Cids \cup {None} /\ run'[p] = Len(ranOn) + 1
        /\ pc[p] = "run" /\ pc'[p] = "record" /\ UNCHANGED tracker
    BY <1>8 DEF RunTest, Goto, files
  <2>2. Len(ranOn') = Len(ranOn) + 1 /\ Len(ranOn) \in Nat
    BY <2>1, AppendProperties
  <2>3. Readable => All(tracker)
    BY <1>a, <2>1
  <2>4. \A r \in 1 .. Len(ranOn') : r \in 1 .. Len(ranOn) \/ r = run'[p]
    BY <2>1, <2>2
  <2>5. ~ Saving(p)'
    BY <2>1 DEF Saving
  <2> QED BY <2>1, <2>3, <2>4, <2>5 DEF KeptOnDisk, KeptBy, Readable
<1>9. CASE RecordRun(p)
  <2>1. /\ flag[p].kind = "test" /\ pc[p] = "record" /\ Working(p) /\ ~ Saving(p)
        /\ copy[p] \in Doc /\ UNCHANGED <<run, tracker, ranOn>>
    BY <1>9, RecordRunShape DEF RecordRun, Working, Ended, Saving, files, local, ghost
  <2>2. PICK d : RunAdded(copy[p], d, cid[p], run[p]) /\ copy'[p] = d /\ pc'[p] = "truncate"
    BY <1>9, RecordRunShape DEF SaveThen, Goto
  <2>3. tracker = copy[p] /\ Readable
    BY <2>1, WorkspaceAssumption DEF SyncedBy, Tracks, Readable
  <2>4. \A r \in 1 .. Len(ranOn) : KeptIn(tracker, r) \/ r = run[p]
    BY <2>3 DEF KeptOnDisk, Working, Ended
  <2>5. KeptIn(d, run[p]) /\ \A r : KeptIn(copy[p], r) => KeptIn(d, r)
    <3>1. \A c, i : RunAdded(copy[p], d, c, i) => KeptIn(d, i) /\ \A r : KeptIn(copy[p], r) => KeptIn(d, r)
      BY <2>1, KeptRevisions
    <3> QED BY <2>2, <3>1
  <2>6. All(d)
    BY <2>3, <2>4, <2>5
  <2> QED BY <2>1, <2>2, <2>4, <2>6 DEF KeptOnDisk, KeptBy, Readable
<1>10. CASE Truncate(p)
  <2>1. Saving(p) /\ Working(p) /\ UNCHANGED <<copy, ranOn>>
    BY <1>10 DEF Truncate, Saving, Working, Ended, ghost
  <2>2. ~ Readable'
    BY <1>10 DEF Truncate, Readable
  <2> QED BY <2>1, <2>2 DEF KeptBy, KeptOnDisk
<1>11. CASE Dump(p)
  <2>1. Working(p) /\ Saving(p) /\ ~ Saving(p)' /\ tracker' = copy[p] /\ UNCHANGED <<copy, ranOn>>
    BY <1>11, DumpStage
  <2> QED BY <2>1 DEF KeptBy, KeptOnDisk
<1>12. ~ Kill(p)
  BY DEF Kill
<1> QED BY <1>1, <1>2, <1>3, <1>4, <1>5, <1>6, <1>7, <1>8, <1>9, <1>10, <1>11, <1>12, StepsOfP
           DEF Starting, Going

-----------------------------------------------------------------------------
Inv == Base /\ Alone /\ Synced /\ KeysAreThere /\ Honest /\ Kept

LEMMA InvInit == Init => Inv
<1> SUFFICES ASSUME Init PROVE Inv
  OBVIOUS
<1>1. Base
  BY BaseInit
<1>2. (\A p \in Procs : ~ Working(p)) /\ ~ Readable /\ \A p \in Procs : pc[p] # "exit1"
  BY DEF Init, Working, Ended, Readable
<1> QED BY <1>1, <1>2 DEF Inv, Alone, Synced, KeysAreThere, Honest, HonestOnDisk, Kept, KeptOnDisk

LEMMA InvStep == Inv /\ [Next]_vars => Inv'
<1> SUFFICES ASSUME Inv, [Next]_vars PROVE Inv'
  OBVIOUS
<1>1. Base'
  BY BaseStep DEF Inv
<1>2. CASE Next
  <2>1. PICK p \in Procs : Command(p) \/ Kill(p)
    BY <1>2 DEF Next
  <2>2. /\ TypeOK /\ SaneOnDisk /\ Fresh /\ Placed(p)
        /\ Alone /\ Synced /\ KeysAreThere /\ Honest /\ Kept
    BY DEF Inv, Base
  <2>3. LocalTo(p) /\ Grows
    BY <2>1, <2>2, LocalStep
  <2>4. ~ overlap' => ~ overlap /\ \A q \in Procs : q # p => ~ Working(q) /\ ~ Working(q)'
    BY <2>1, <2>2, OnlyP
  <2>5. ~ overlap' => (Working(p) => SyncedBy(p))
    BY <2>2, <2>4 DEF Synced
  <2>6. Alone' /\ KeysAreThere'
    BY <2>1, <2>2, <2>5, AloneStep, KeysStep
  <2>7. Synced'
    <3>1. ~ overlap' /\ Working(p)' => SyncedBy(p)'
      BY <2>1, <2>2, <2>5, SyncedStep
    <3> QED BY <2>4, <3>1 DEF Synced
  <2>8. Honest'
    <3>1. ASSUME ~ overlap', ~ untracked' PROVE HonestOnDisk' /\ (Working(p)' => HonestBy(p)')
      <4>1. ~ overlap /\ ~ untracked
        BY <2>3, <3>1 DEF Grows
      <4>2. HonestOnDisk /\ (Working(p) => HonestBy(p))
        BY <2>2, <4>1 DEF Honest
      <4> QED BY <2>1, <2>2, <2>5, <3>1, <4>2, HonestStep
    <3> QED BY <2>4, <3>1 DEF Honest
  <2>9. Kept'
    <3>1. ASSUME ~ overlap', ~ killed' PROVE KeptOnDisk' /\ (Working(p)' => KeptBy(p)')
      <4>1. ~ overlap /\ ~ killed
        BY <2>3, <3>1 DEF Grows
      <4>2. KeptOnDisk /\ (Working(p) => KeptBy(p))
        BY <2>2, <4>1 DEF Kept
      <4> QED BY <2>1, <2>2, <2>4, <2>5, <3>1, <4>2, KeptStep
    <3> QED BY <2>4, <3>1 DEF Kept
  <2> QED BY <1>1, <2>6, <2>7, <2>8, <2>9 DEF Inv
<1>3. CASE UNCHANGED vars
  <2>1. UNCHANGED <<files, tracker, pc, then, flag, cid, run, copy, ghost>>
    BY <1>3 DEF vars, local
  <2> USE <2>1 DEF Inv, files, ghost, Readable, Working, Saving, Stage, Tracks
  <2>2. Alone' /\ KeysAreThere'
    BY DEF Alone, KeysAreThere
  <2>3. Synced'
    BY DEF Synced, SyncedBy
  <2>4. Honest'
    BY DEF Honest, HonestBy, HonestOnDisk, Own
  <2>5. Kept'
    BY DEF Kept, KeptBy, KeptOnDisk
  <2> QED BY <1>1, <2>2, <2>3, <2>4, <2>5
<1> QED BY <1>2, <1>3

LEMMA InvHolds == Spec => []Inv
BY InvInit, InvStep, PTL DEF Spec

(* A test finds its compile and the lists in the tracker it reads again,   *)
(* whatever is killed, as long as no two commands overlap.                 *)
THEOREM TestsFindTheirKeys == Spec => []KeysAreThere
<1>1. Inv => KeysAreThere
  BY DEF Inv
<1> QED BY <1>1, InvHolds, PTL

(* A clean compile's runs were made on the binary it left in place, linked *)
(* by it or found up to date.                                              *)
THEOREM ResultsAreOfTheirCompile == Spec => []RunsAreOfTheirCompile
<1>1. Inv => RunsAreOfTheirCompile
  BY DEF Inv, Honest, HonestOnDisk, HonestDoc, Clean, RunsAreOfTheirCompile
<1> QED BY <1>1, InvHolds, PTL

(* A command that follows another keeps every run it recorded.             *)
THEOREM ResultsAreKept == Spec => []RunsAreKept
<1>1. Inv => RunsAreKept
  <2> SUFFICES ASSUME Inv PROVE RunsAreKept
    OBVIOUS
  <2>1. DOMAIN ranOn = 1 .. Len(ranOn)
    BY DEF Inv, Base, TypeOK
  <2> QED BY <2>1 DEF Inv, Kept, KeptOnDisk, KeptIn, RunsAreKept
<1> QED BY <1>1, InvHolds, PTL

=============================================================================
