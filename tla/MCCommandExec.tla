--------------------------- MODULE MCCommandExec ---------------------------
(* cb-test with cb-replay, the worker of its pool and two challenges.       *)
EXTENDS CommandExec

TestTree    == <<"cb-test", "cb-replay", "worker", "chal1", "chal2">>
TestParent  == [p \in {"cb-replay", "worker", "chal1", "chal2"} |->
                  IF p = "cb-replay" THEN "cb-test" ELSE "cb-replay"]
TestAwaited == [p \in Procs |->
                  CASE p = "cb-test"   -> {"cb-replay", "worker"}
                    [] p = "cb-replay" -> {"worker"}
                    [] OTHER           -> {}]
OnlyCbTest  == {"cb-test"}
=============================================================================
