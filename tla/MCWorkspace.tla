---------------------------- MODULE MCWorkspace ----------------------------
(* Two processes that start a few commands on one working directory.       *)
EXTENDS Workspace, TLC

TwoIds == {"1f", "2f"}
(* A compile that exits on errors, one with the id of the sanity check     *)
(* that goes on, one that does not track.                                  *)
SomeFlags == {[exit_err |-> TRUE,  no_track |-> FALSE, ids |-> {}],
              [exit_err |-> FALSE, no_track |-> FALSE, ids |-> {"sanity_check"}],
              [exit_err |-> FALSE, no_track |-> TRUE,  ids |-> {}]}
Processes == Permutations(Procs)
=============================================================================
