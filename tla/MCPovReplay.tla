---------------------------- MODULE MCPovReplay ----------------------------
(* The replay of a POV against one or two challenges.                      *)
EXTENDS PovReplay

(* Success, exit(11), SIGABRT and SIGSEGV.                                 *)
SomeReturns == {0, 11, -6, -11}
(* Success and SIGSEGV.                                                    *)
TwoReturns  == {0, -11}
(* The two types of POVs, and one that is refused.                         *)
ThreeTypes  == {1, 2, 3}
=============================================================================
