---------------------------- MODULE MCBenchmark -----------------------------
(* Two challenges, each with any of a few files.                           *)
EXTENDS Benchmark, TLC

AB == <<"A", "B">>
(* Patches of each shape: one that replaces two lines and one that         *)
(* replaces one, between other conditionals, one that adds lines only, one *)
(* that replaces nothing.                                                  *)
Patched == <<"if", "code", "ifdef", "code", "else", "code", "code", "endif", "else",
             "ifdef", "else", "code", "endif", "endif",
             "ifdef", "code", "code", "endif", "code", "ifdef", "code", "else", "endif">>
NoPatch == <<"code", "if", "code", "endif">>
(* One that does not end: get_vulns and remove_patch raise.                *)
Unended == <<"code", "ifdef", "code">>
Shapes == {Patched, NoPatch, Unended}
ASSUME ShapesArePlain ==
  Plain(Patched) /\ Plain(NoPatch) /\ ~ Plain(Unended) /\ IsUnclosed(Unended)

Reversed == { <<"code", "ifndef", "code", "else", "code", "code", "endif">> }
Processes == Permutations(Procs)
=============================================================================
