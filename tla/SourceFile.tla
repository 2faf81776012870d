----------------------------- MODULE SourceFile -----------------------------
(***************************************************************************)
(* The patches of a source file (src/src/utils/metadata/source_file.py): a *)
(* file is a sequence of lines, a line what the patterns see of it.        *)
(*   "ifdef"   #ifdef PATCHED.., #if PATCHED..                             *)
(*   "ifndef"  #ifndef PATCHED..                                           *)
(*   "if"      any other conditional                                       *)
(*   "else"    #else, #elif, #elseif        "endif"   #endif               *)
(*   "code"    anything else                "blank"   a line made empty    *)
(***************************************************************************)
EXTENDS Naturals, Sequences, FiniteSets, SequencesExt

LineKinds == {"ifdef", "ifndef", "if", "else", "endif", "code", "blank"}

(* A snippet is the numbers of its lines, from 1; 0 stands for None.       *)
IsOpen(snippets) == snippets # <<>> /\ Last(snippets).end = 0

(* Mutant: a snippet starts at #ifdef PATCHED only when that is the first. *)
ScanOne(lines, found, n) ==
  IF IsOpen(found)
  THEN CASE lines[n] = "else"  -> [found EXCEPT ![Len(found)].change = n]
         [] lines[n] = "endif" -> [found EXCEPT ![Len(found)].end = n]
         [] OTHER              -> found
  ELSE IF lines[n] \in {"ifdef", "ifndef"} /\ found = <<>>
  THEN Append(found, [start |-> n, change |-> 0, end |-> 0])
  ELSE found

(* A turn of extract_snippets: inside a snippet every #else is its change, *)
(* and the first #endif its end.                                           *)
Scan(lines, found, n) ==
  IF IsOpen(found)
  THEN CASE lines[n] = "else"  -> [found EXCEPT ![Len(found)].change = n]
         [] lines[n] = "endif" -> [found EXCEPT ![Len(found)].end = n]
         [] OTHER              -> found
  ELSE IF lines[n] \in {"ifdef", "ifndef"}
  THEN Append(found, [start |-> n, change |-> 0, end |-> 0])
  ELSE found

(* The snippets after so many lines.                                       *)
Found(lines) ==
  LET found[n \in 0 .. Len(lines)] ==
        IF n = 0 THEN <<>> ELSE Scan(lines, found[n - 1], n)
  IN  found

Extract(lines) == Found(lines)[Len(lines)]

HasSnippets(lines) == Extract(lines) # <<>>

(* Its last snippet has no #endif, and no #else either: get_vuln raises.   *)
IsUnclosed(lines) == IsOpen(Extract(lines)) /\ Last(Extract(lines)).change = 0

(* The lines counted are those inside a snippet but for its directives:    *)
(* before its first #else as patch, after it as vulnerable.                *)
Counts(lines) ==
  LET found  == Found(lines)
      inside == {n \in DOMAIN lines : IsOpen(found[n - 1]) /\ lines[n] \notin {"else", "endif"}}
      vuln   == {n \in inside : Last(found[n - 1]).change # 0}
  IN  [patch |-> Cardinality(inside \ vuln), vuln |-> Cardinality(vuln)]

(* remove_patch empties the lines up to the last #else, or to the end, and *)
(* the directives; the other lines keep their numbers.                     *)
PatchOf(s) == s.start + 1 .. (IF s.change = 0 THEN s.end ELSE s.change) - 1
Emptied(s) == PatchOf(s) \cup ({s.start, s.change, s.end} \ {0})

RemovePatch(lines) ==
  LET found == Extract(lines)
      gone  == UNION {Emptied(found[k]) : k \in DOMAIN found}
  IN  [n \in DOMAIN lines |-> IF n \in gone THEN "blank" ELSE lines[n]]

(* It also moves the bounds of the snippet, which get_vuln reads after.    *)
Moved(s) ==
  [start |-> s.start + 1, change |-> IF s.change = 0 THEN 0 ELSE s.change + 1,
   end |-> s.end - 1]

(* get_vuln: for a snippet its key and the lines it lists.                 *)
Hunk(s) ==
  IF s.change = 0 THEN [key |-> s.end, lines |-> {}]
  ELSE IF s.change = s.end THEN [key |-> s.change, lines |-> {s.change}]
  ELSE [key |-> s.change, lines |-> s.change + 1 .. s.end - 1]

VulnAfterRemoval(lines) ==
  LET found == Extract(lines) IN {Hunk(Moved(found[k])) : k \in DOMAIN found}

-----------------------------------------------------------------------------
(* What the C preprocessor leaves of a file when no PATCHED is defined:    *)
(* the lines all of whose patch conditionals have the branch they are in   *)
(* taken.  Other conditionals are left as they are.                        *)
IsPatch(stack, l) ==
  \/ l \in {"ifdef", "ifndef"}
  \/ l \in {"else", "endif"} /\ stack # <<>> /\ Last(stack).patch

AllTaken(stack) == \A k \in DOMAIN stack : stack[k].taken

(* The conditionals a line is left in.                                     *)
Nested(stack, l) ==
  CASE l \in {"ifdef", "ifndef", "if"} ->
         Append(stack, [patch |-> l # "if", taken |-> l # "ifdef"])
    [] l = "else" /\ IsPatch(stack, l) -> [stack EXCEPT ![Len(stack)].taken = ~ @]
    [] l = "endif" /\ stack # <<>> -> Front(stack)
    [] OTHER -> stack

Nesting(lines) ==
  LET stack[n \in 0 .. Len(lines)] ==
        IF n = 0 THEN <<>> ELSE Nested(stack[n - 1], lines[n])
  IN  stack

Unpatched(lines) ==
  LET stack == Nesting(lines)
  IN  [n \in DOMAIN lines |->
         IF AllTaken(stack[n - 1]) /\ ~ IsPatch(stack[n - 1], lines[n])
         THEN lines[n] ELSE "blank"]

(* A file whose patches checkout removes as the preprocessor does: the     *)
(* patch comes first, no other conditional is inside, and one #else.       *)
Plain(lines) ==
  /\ \A n \in DOMAIN lines : lines[n] # "ifndef"
  /\ \A n \in DOMAIN lines : lines[n] = "ifdef" =>
       \E m \in DOMAIN lines :
         /\ n < m /\ lines[m] = "endif"
         /\ \A k \in n + 1 .. m - 1 : lines[k] \in {"code", "blank", "else"}
         /\ \A j, k \in n + 1 .. m - 1 : lines[j] = "else" /\ lines[k] = "else" => j = k
=============================================================================
