------------------------------ MODULE MCSanity ------------------------------
(* The sanity task over two challenges.                                    *)
EXTENDS Sanity

TwoChallenges == <<"A", "B">>
UpToThree     == {0, 1, 3}
SomeLeft      == {"none", "old"}
SomePovDirs   == {"absent", "empty"}
SomeSuites    == {<<>>, <<"pov">>, <<"pov", "poll">>}

Quiet == [file |-> TRUE, timedOut |-> FALSE, pollsFailed |-> 0, debugSig |-> 0,
          crashSig |-> 0, negotiated |-> 0, ret |-> 0]
Mute  == [Quiet EXCEPT !.file = FALSE]
Late  == [Quiet EXCEPT !.timedOut = TRUE]

(* A poll passes, fails a step, times out, or cannot be run.               *)
SomePolls == {Quiet, [Quiet EXCEPT !.pollsFailed = 1, !.ret = 1], Late, Mute}
(* A type 1 POV crashes the challenge, with or without the registers it    *)
(* promised; or times out; or cannot be run.                               *)
SomePovs  == {[Quiet EXCEPT !.crashSig = SIGSEGV, !.debugSig = SIGSEGV, !.negotiated = 1],
              Late, Mute}

=============================================================================
