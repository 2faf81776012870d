------------------------------ MODULE MCReplay ------------------------------
(* The replay of a poll with short scripts and one or two challenges.      *)
EXTENDS Replay

WriteRead == <<"write", "read">>

(* Success, exit(11), SIGABRT and SIGSEGV.                                 *)
SomeReturns == {0, 11, -6, -11}

=============================================================================
