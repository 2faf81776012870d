# A verification model of cb-repair

cb-repair turns the DARPA CGC programs ("challenges") into a benchmark for
automatic program repair: it checks a challenge out, compiles it, runs polls
(positive tests) and POVs (negative tests) against it, and keeps one metadata
file with what is known of every challenge.  This directory holds TLA+ models of
its core, the TLC configurations that check them, and proofs checked by TLAPS.
Paths below are relative to the repository (`src/` is its root).

## The system: inventory

Every command (`cb_repair.py <operation|task>`) is a process of its own.  The
processes share files only: `lib/metadata` (with `lib/metadata.lock`), the
working directories with their `.tracker`, the polls and POVs under `lib/`, and
the core dumps.  A test starts a chain of processes: `test` operation (Python 3)
-> `cb-test.py` (Python 2) -> `cb-replay.py` or `cb-replay-pov.py` -> the
challenge binaries, each end reading the other's text output.

| component | source | state | operations | hard because |
|---|---|---|---|---|
| metadata store | `src/src/core/kernel.py` | `lib/metadata`, its lock, a copy per command | load, exclude, include, update_sanity, reset_sanity, save | copies go stale, readers take no lock, a kill tears the file |
| sanity task | `src/src/tasks/sanity.py` with genpolls, checkout, compile, test | working directory, exclusion, `self.lookup`, list of operations | check, _lookup, four check_ operations | partial failures, retries that skip steps, exceptions and exit |
| poll replay | `src/tools/cb-replay.py`, `challenge_runner.py`, `common.py` | child processes, Popen objects, pipes, log | steps, poll/terminate, join, watcher, timer | four threads, two of which wait for one child; two timeouts |
| test verdict | `src/tools/cb-test.py`, `src/src/utils/test_result.py`, `src/src/operations/test.py` | none: text in, result out | check_result_*, TestResult, inversion, tests_pass | three programs judge the same run, each by other patterns |
| POV replay | `src/tools/cb-replay-pov.py` | two processes, a negotiation pipe, alarms | launch_pov, pov_negotiate, run | two timeouts, a process group, last status wins |
| command execution | `src/src/core/command.py` | child, two pipes, timer, sticky error | _exec, timer_out | stderr is not drained, the timer races the exit |
| working directory | `src/src/operations/simple/checkout.py`, `core/operation.py`, `operations/make.py`, `compile.py`, `test.py` | tree, build, `.tracker` | checkout, make, compile, test outcome | tracker is read once and written whole; crash between steps |
| poll generation | `src/tools/generate-polls/` | graph, edge weights, variables | walk, random edge, dedup | disabled edges, end of walk |
| POV heap | `src/lib/include/libpov/malloc.c` | blocks of chunks with headers, pages of its own for large pieces | malloc, free, realloc | sizes and back sizes in the headers must agree after any sequence of splits, joins and moves |
| POV library | `src/lib/include/libpov/pov.c`, `src/lib/include/libcgc.c` | a read buffer per descriptor | read by length, by delimiter; negotiation | bytes come in any pieces; what is left of one read belongs to the next |
| source metadata | `src/src/utils/metadata/` | snippets of patched and vulnerable lines | parse, remove_patch | nested preprocessor conditions |
| initialisation | `src/src/init.py` | metadata, manifests | one pass over all challenges | a crash or an exception leaves a partial benchmark taken for a whole |
| process manager | `src/src/utils/process_manager.py` | none | kill by name | kills what belongs to another command |
| reports, server, command line, coverage | see PROJECT.json | a copy of the metadata, or none | read and print | nothing but stale copies |

How they interact.  The sanity task calls genpolls, checkout, compile and test in
its own process, all of them over one copy of the metadata.  The test operation
calls `Command`, which starts `cb-test.py` through a shell and reads its output;
`cb-test.py` starts a replay, which starts the challenges with `challenge_runner`;
what the replay prints is judged by `cb-test.py` and, with what that prints, by
`TestResult`; its result goes to the tracker of the working directory and, with
`--update`, to the metadata.  `init.py`, `manifest`, `patch` and `checkout -rp` share
the manifest and patch files that `SourceFile` derives; `genpolls` runs
`generate-polls` for the polls.  A POV is a C program over `libpov`: it negotiates with
`cb-replay-pov.py` on descriptor 3 and talks to the challenge through the reads of
`pov.c`, whose buffers, and whatever a delimited read returns, come from the heap of
`malloc.c`.

What makes each correct, in a sentence:

- the metadata store keeps every update and is torn by nothing but a kill;
- the sanity task's exclusions agree with its summary, every challenge is judged,
  and nothing it created outlives it;
- a replay ends, reports the crashes before it counts the result, and the verdict
  of the programs that read it is what happened;
- a call of a command ends, says when it failed, and leaves no timer behind;
- the runs recorded in a working directory are those of the compile they are
  recorded under, and none is lost;
- an entry of the metadata has its files, and a checkout without patches is the
  program without its patches;
- a round of polls is full, also when polls cannot be repeated, and ends;
- what the POV heap hands out is large enough, overlaps nothing the POV has, and stays where
  it is (its data may be written into: see `heap`);
- a POV reads the bytes of its peer in order and each once, and a read whose bytes have
  arrived returns.

## Modules

| module | models | checked by | proved in |
|---|---|---|---|
| `Kernel` | metadata store: any number of commands, every step of load and save, kills | `MCKernel` | `KernelProofs` |
| `Verdict` | operators for the judgements of cb-test, TestResult, test and sanity | through `Replay`, `PovReplay`, `Sanity` | with the replays in `ReplayProofs` and `SanityProofs` |
| `Replay` | one poll: four threads, the challenges, Popen of Python 2.7, two timeouts | `MCReplay` | `ReplayProofs` |
| `PovReplay` | one POV: fork, alarm, negotiation, joins, watcher | `MCPovReplay` | `SanityProofs` |
| `Sanity` | the sanity task over a list of challenges | `MCSanity` | `SanityProofs` |
| `CommandExec` | one call of a `Command`: output, wait, timer, process tree | `MCCommandExec` | `PollsProofs` |
| `Workspace` | a working directory and its tracker under checkout, make, compile, test | `MCWorkspace` | `WorkspaceProofs` |
| `SourceFile` | patches of a source file: found, counted, removed, listed (operators only) | through `Benchmark` | `BenchmarkProofs` |
| `Benchmark` | init, manifest, patch, checkout, clean and the files they share | `MCBenchmark` | `BenchmarkProofs` |
| `Polls` | generate-polls: rounds, walks, repeats | `MCPolls` | `PollsProofs` |
| `Allocator` | abstract: pieces of memory that do not overlap | refined by `Heap` | |
| `Heap` | malloc, free and realloc of a POV with every header they touch | `MCHeap` | `HeapProofs` |
| `Stream` | abstract: calls that return the bytes of a stream in order | refined by `Libpov` | |
| `Libpov` | the buffered receive of a POV and the reads on it, with a peer | `MCLibpov` | `LibpovProofs` |

A definition that follows a comment "Mutant:" is a bug seeded in the definition
after it; no specification uses it.  It documents which property would notice that
bug.  History variables are declared as such; no action of the program reads one.
`PollsProofs` and `SanityProofs` extend two specifications each, so `Polls` and `PovReplay` have names of
their own for what every module has (`PollsInit`, `PovTypeOK`, ...).

### Kernel

`file` is `lib/metadata`, `lock` the flock on `lib/metadata.lock`, `mem[p]` the
dictionary `Kernel.global_metadata` of process `p`.  `Start` is `load_metadata`; the
operations `ExcludeChallenge`, `IncludeChallenge`, `UpdateSanity` and `ResetSanity` change
`mem[p]` and leave `p` before `with lock` of `save_metadata`, whose steps are `Acquire`,
`Truncate` (`open(..., "w")`), `Dump` and `Release`.  `Kill` is possible at each of them; the
operating system then drops the lock.  Readers take no lock, as in the code.  The
client is the most general one: after `get_challenge` any operation may follow.  Two
simplifications: an outcome is 0 or 1 without its duration, code and signal, and
challenges are never added (that is `Benchmark`).

### Verdict, Replay and PovReplay

`Replay` has one action per step of a thread.  `main` is `run_pov` and `Throw.run`: parse,
start, the steps of the poll, `poll`/`terminate`, the joins, leaving `with Timeout`, `dump`.  The
watcher is `challenge_runner.chal_watcher`: wait for one challenge, for the others,
kill what is left, report crashes.  The buffer thread is `buffer_pipe_data`, the timer
`common.Timeout`, whose interrupt (`pending`) is delivered where Python 2 delivers it: between
bytecodes of `main`, not in a blocked write or an untimed `join`.  `Popen.poll` and `wait` are
two steps each, the `waitpid` and the assignment to `returncode`, as in
`subprocess.py` of Python 2.7, because `main` and watcher share the object.  A challenge may exit
with any of a few codes, hang, print or not, read or not.

`PovReplay` has `main` (`_launch_pov_unix`, `pov_negotiate`, the joins), the POV as a process,
`signal.alarm`, the timer and the watcher.  Here only the watcher waits for the challenges,
so `poll` and `wait` are one step.

`Verdict` takes a text as the facts that patterns look for in it (`Text`).  `CheckCqe`,
`CheckCfe`, `PollResult`, `PovResult` and `SanityFails` are the functions of cb-test, `TestResult`, test
and sanity that read them; `Replay`, `PovReplay` and `Sanity` apply the same operators.

### Sanity

`pc`, `i`, `n`, `ops`, `again` are the control of `Sanity.__call__`, `check` and `_lookup`: the challenge,
the attempt, the operations left in it, and the list another attempt runs (`_lookup`
rebinds it to genpolls and test after the first operation that passes).  `quiet` is
`self.lookup`.  Each operation is one action with its ways to end: pass, fail (which
excludes with `--persistent`), raise (which leaves the loop), or `exit(1)` on an excluded
challenge.  The state of a working directory is one of six (`Directory`).
`OtherExcludes` is another command that excludes a challenge at any time.

### CommandExec

`main` is the thread in `_exec`: read stdout to the end, wait one second at most, read stderr
when the command failed, cancel the timer.  `Fire`, `KillNext` and `KillRoot` are
`_timer_out`: `victims` is the snapshot `psutil` gives (`Found`), of which the first in the
order of the tree is killed at each step (`KillVictim`), the command itself last.  The processes are a tree; each may live, be a zombie
or be gone, holds the pipes it inherited, waits for those in `Awaited`, and may block on
the pipe of stderr, which nobody reads before the end of stdout.

### Workspace

`tree`, `built`, `bin` are the files, `tracker` the file `.tracker`, `copy[p]` what process `p` has read of
it and `cid[p]` its compile's id.  Checkout is `CheckEmpty` and `Copy`; make and the
ways to compile share `StartCompile` (`_set_tracker`), `Cmake`, `Load`, `Inst`, `Object`, `Link`,
`NoLinkFile`, `Zero`; a test is `StartTest`, `SetTest`, `RunTest`, `RecordRun`.  Every save is
`Truncate` and `Dump`, with a kill possible between them.  `error` is the sticky `self.error`.
The build of a compile (compile.py:95-107) is incremental: it links when an object is newer than the
binary, and otherwise leaves the binary an earlier compile linked.  `AfterLink` allows both; the link
script of `--inst_files` always links.  `left[c]` is history: the binary that was in place when the build of
`c` had succeeded.

### SourceFile and Benchmark

A source is a sequence of line kinds.  `Found` and `Nesting` are recursive functions over the lines:
the snippets found so far, the conditionals open so far.  `Extract`, `Counts`, `RemovePatch` and
`VulnAfterRemoval` are `extract_snippets`, the line counts, `remove_patch` and `get_vuln` called after it;
`Counts` takes the lines inside a snippet up to its first `#else` as patch, where `RemovePatch` goes to the last
one; for a file that `IsUnclosed` `get_vulns` raises.
`Unpatched` is the reference: what the C preprocessor keeps without `PATCHED`.
`Benchmark` has the processes.  A file that is opened with `"w"` is `Torn` until it is
closed, a file deleted while it is open is lost (`orphan`).
Any command may be stopped at any step (`Stops`), by a `Kill` or by an exception (`Raises`): nothing in
init.py:17-36 catches one, be it a challenge without README, a source that cannot be decoded, a patch that does
not end or a full disk.  An exception closes what is open, so that a manifest may be whole after it and the
metadata torn or as they were.  `ListFiles` cannot succeed for a source that is unclosed, so that `Raises` is all
that is left.  `unlisted` and `partial` are history: the challenges in whose manifest someone was stopped, and
whether someone was stopped in writing the metadata, or `init.py` after its first entry, since they were last
deleted.

### Polls

One action per step of a round and of a walk: draw the repeats, start, execute or
skip a node, leave it, take an edge, finish, make the poll, repeat it, write the round,
plot.  The dice are nondeterministic.  `Left` is `_random_edge`, which removes from the list
it iterates over.

### Allocator and Heap

Memory is counted in units of 8 bytes, the size of a `CHUNK_HDR`; `heap[a]` is the header
at place `a`, with `size`, `prev` (`prev_size`) and the in-use bit, and the blocks lie one behind the
other.  `Malloc`, `Free` and `Shrink`, `Grow`, `Stay`, `Move` (the ways through `cgc_realloc`) are one action per
call, with the headers each writes; pieces larger than a page are `pages`.  `Take` is the first
fit with its split, `Forward` and `Backward` the two consolidations of `cgc_free`, `Link` a new block.  Of what the
code really does, these are kept:

- Only splits update the `prev_size` behind them (malloc.c:204, 211 do not).
- `cgc_realloc` copies one byte more than the old data (malloc.c:224).  In a chunk of the same size that is the
  low byte of the next `prev_size` (`Copied`).  When it changes one (`Smears`) the model goes on with the
  changed value, and `smeared` remembers that there was one.
- `cgc_free` looks for a header where `prev_size` leads (malloc.c:207-211).  If that is inside the data of a
  piece in use (`Struck`), what lies there decides whether the size of the chunk is added to it.  The model has
  no data, so it takes both outcomes, and `hurt` is the pointer of the piece that was written into.  When the
  call is a `cgc_realloc`, that piece may be the one it just moved to.
- A NULL of a block that could not be had is used: the program dies (`Dies`).

In two calls what the heap becomes depends on data, and the model ends there, after the step that does it: a
copy to a chunk smaller than what is copied, which overwrites the headers behind it (`Spill`: they are gone from
`heap`, state "spilt"), and a `cgc_free` whose `prev_size` leads out of the block or to a free chunk that is not the one
before (`Astray`, state "lost").  All other uses of a stale or changed `prev_size` go on.

The abstract `Allocator` has a set of pieces and the steps: a new piece that is large
enough and overlaps no other, a piece gone, a piece that moves or changes its size
while all others stay, a call without memory, the end of the program.  Pieces stay in place, but their data are not
safe: to free or to move a chunk may write into one piece that lies before it.  `Heap` refines this with
`live <- Pieces`, the used chunks and the pieces with pages of their own, and `hurt <- hurt`, up to the step in which
its state becomes "spilt" or "lost"; `owner` and `asked` are history for that.

### Stream and Libpov

A byte is its number in the stream and `text` gives it a letter.  The peer writes and
closes whenever it likes; `Refill` and `Direct` are a `cgc_receive` that returns any part of what has
arrived.  `rb` is the `read_buffer` with `iptr` and `eptr`; `call` is the stack: `cgc_length_read` (into a
buffer or discarding) or `cgc_delimited_read` around `cgc_buffered_receive`, whose loop is `FromBuffer`, `Drain`,
`Refill`, `EndOfFile`, `ReceiveFails`.  Descriptors above 15 have no buffer (`direct`).

The abstract `Stream` has a position: every call returns the bytes that follow it, and is
short only if the peer has closed and nothing is left; a call that failed may lose
bytes.  `Libpov` refines it with the position `Gone`, the bytes received less those that wait in
the buffer.

## Runs

| run | instance | question | distinct states, time |
|---|---|---|---|
| `kernel_store` | 2 commands, one with `--excl`, 2 challenges, 1 test | lock, lost updates, torn file | 2.8 M, 1 min |
| `replay_poll` | 2 challenges, one write, one read, 1 piece of output | order of report and count, verdict, end | 860 k, 1.5 min |
| `pov_replay` | 2 challenges, POVs of type 1, 2 and a refused one | the same for a POV | 92 k, 9 s |
| `sanity_check` | 2 challenges, all options, lookups 0, 1, 3 | summary, litter, inclusion | 4.4 M, 1.5 min |
| `command_test` | cb-test, cb-replay, its worker, 2 challenges | error, timer, end of a call | 70 k, 7 s |
| `workspace` | 2 processes; 4 commands in sequence or 3 overlapping, 2 runs | tracker and its results | 6.2 M, 2.5 min |
| `benchmark` | 2 challenges of 3 shapes (patched, none, unended), 2 processes, 4 commands | metadata, files, checkout | 4.3 M, 1.5 min |
| `polls` | 3 nodes, 2 rounds of 5 or 6, depth 2, 2 repeats of 2 | rounds, repeats, end | 415 k, 30 s |
| `heap` | 2 blocks of 4 units, pages of 3, requests of 0, 1, 2 and 5 units, 3 pointers | headers, overlap, writes into other pieces | 136 k, 40 s |
| `libpov` | 4 bytes of 2 letters, buffer of 2, reads of 1 and 3, two delimiters | order, delimiters, return | 810 k, 45 s |
| `pov_hangs` | 1 challenge | finding 1 | |
| `benchmark_ifndef` | as `benchmark`, one `#ifndef` source | finding 2 | |

The passing runs fire every action of their specification.  What they show:

- `kernel_store`: the lock has a holder exactly while somebody is inside `with lock`, so
  neither a kill nor a second writer spoils that; updates are lost by a stale save and
  by nothing else; and only a kill leaves the file torn.
- `replay_poll`: a result that is counted in time is counted after the watcher reported
  every crash, but the main challenge's, which `main` itself may reap; a poll passes
  exactly if it was in time, all steps went well and no reported process has a POV
  signal; and the replay ends whatever the challenges do.  `exit(11)` counts as
  SIGSEGV: `abs` of the return code, and the properties say so.
- `pov_replay`: at END REPLAY every process is dead and exactly the crashes are in the log;
  a POV worked, in the eyes of the test operation, exactly if it negotiated in time and
  got what it claimed; and only a POV that dies in the middle of the negotiation holds up
  the replay for ever.
- `sanity_check`: see the sentence above; a pass is never based on a build of
  another run, except in a second or later lookup, where a checkout that failed is not
  repeated.
- `command_test`: whatever hangs below cb-test, the call ends, unless cb-test itself is
  blocked on a full stderr when a vanished process has ended the timer's thread; when
  it returns the timer is disarmed and an error is set if it failed.
- `workspace`: without overlap, tests find their keys, runs are kept, and the runs under
  an id with nothing but zeros were made on the binary that compile left in place, which is not
  always one it linked.
- `benchmark`: an entry has its patch file and manifest, but for a manifest in whose writing someone was
  stopped, which nobody writes again; `checkout -rp` leaves what the
  preprocessor would, for sources written with `#ifdef`;
  "already initialized" is true unless someone was stopped, by a kill or an exception, in writing the metadata,
  or `init.py` after its first entry.  Then the metadata are torn, or, if they can be read, those of the first challenges
  of the list, never with a gap; and only `clean`, which needs readable metadata, ends that.
- `polls`: rounds are full, also when polls with the magic page could not be repeated or
  rounds differ in size, and never over-full; the generation ends.
- `heap`: walking a block by its sizes meets every chunk and nothing else, however often
  chunks were split, joined, grown and moved, and also after `cgc_realloc` changed a `prev_size`, up to a call that
  is spilt or lost.  Until that byte has changed one, a stale `prev_size` never leads out of the
  neighbour, so `cgc_free` joins the right chunk or none and is never lost; after it, one may lead anywhere.  No two
  pieces overlap, and a piece stays in place except by a call about it; but its data may be written into by
  freeing, or moving, a chunk behind it, one piece in each call, and by nothing else.
- `libpov`: what the reads return, concatenated, is the stream, with gaps only where a
  call failed; a delimited read stops at the first delimiter; a call whose bytes have
  arrived returns, also when they waited in the buffer.

### Bounds

Two processes meet every pairwise interleaving, and nothing in these programs relates
three: a lock has a holder and one that waits, a stale copy has one other writer.  Two
challenges are needed for a cut between "the main one" and the others (`Replay`,
`PovReplay`), and for a loop that goes on after one challenge (`Sanity`, `Benchmark`).  One write and one
read meet both ways to block.  `MaxOut` bounds the pieces of output: a second piece
changes only what a read waits for.  Three lookups are a first, a middle and a last
one; 1 is the edge case at sanity.py:112.  `MaxCommands` and `MaxShared` bound the commands in a
run of `Workspace` and `Benchmark`: four make a checkout, a compile, a test and a second
compile or test, and an init that is stopped, one that finds its files, a clean or a save, and a checkout.  `MaxRuns` bounds the tests.  `PipeSize` 1 is enough for full and not
full.  `Rounds`, `Sizes`, `MaxDepth` of `Polls` bound what is a parameter of the program, too.  There are
two sizes because what is left of the list of a longer round must not count for a shorter one, and
because the late edges are late against another total while a round is filled; the graph has
an early edge that is the only one of its node, and two that follow each other.
A block of 4 units with pages of 3 holds up to four chunks, so that a chunk has a free or
used neighbour on either side, is split with and without a rest, and grows into all or part of
the next; a second block is linked, `MaxTop` forbids a third.  `Low` 2 makes the low byte of a size hold less than a
large chunk, so that the copied byte also makes a `prev_size` larger than the chunk before.  With four bytes and a buffer of two, the
buffer is filled, emptied and refilled in the middle of a read, and bytes are left for the
next call; a delimiter of two equal letters overlaps itself.
Symmetry is used where no action compares the permuted values, and never with
liveness.

### Fairness

- `Replay.FairSpec`: the threads are scheduled (weak fairness of `MainStep`, `WatchStep`,
  buffer), time passes (`Expire`, `Tick`), and an interrupt that stays pending while
  `main` runs Python code is delivered (`TimesOut`).  Nothing is assumed of the challenges: that one exits,
  prints (`Exit`, `Emit`), gives a read its data (`Receive`, `Read`) or reads what fills the pipe of a
  blocked write (`Unblock`) has no fairness.  Only the write to a challenge that is gone returns by itself
  (`BrokenPipe`, a step of `MainStep`), so a blocked write ends because the watcher's timeout kills the
  challenge, or not at all.
- `PovFairSpec` of `PovReplay`: the same for `MainStep`, `WatchStep`, `Expire`, `Tick`, and `Alarm`, because the kernel delivers
  SIGALRM.  `Tick` comes after `Expire`, since the code sets it five seconds later.  Nothing is
  assumed of the POV.
- `CommandExec.FairSpec`: `Main` and `Timer` are scheduled, zombies are reaped by their
  parents or by init, and the processes in `Ending` (cb-test itself) end when nothing they wait for
  lives.  The others may hang.
- `PollsFairSpec` of `Polls`: the program goes on, and strong fairness of `Execute`: a node is skipped by a
  die with a chance above 0, so a walk does not skip for ever.

- `Libpov.Fairness`: the program runs on, and `cgc_receive` returns when bytes or the end of the file are
  there (weak fairness of `Works`).  Nothing is assumed of the peer: `Write` and `Close` have no fairness,
  and `CallReturns` is only about bytes that have arrived.

Safety needs no fairness; `Kernel`, `Sanity`, `Workspace`, `Benchmark` and `Heap` have none.

## Proofs

`KernelProofs`, for any sets of processes, challenges and tests, from
`KernelAssumption` (the markers are distinct from the values they mark):

- `TypeCorrect`: `TypeOK` is inductive, with the parts that tie `pc` to `mem` and `pending`.
- `LockIsHeld` and `LockIsExclusive`: `LockHasItsHolder` is inductive over `TypeOK`, and since the lock has
  one value, writers exclude each other.
- `UpdatesAreKept`: `NoLostUpdate` is not inductive: it says nothing of the copies.  `FreshCopies` adds
  that, as long as no save was stale, the copy of each process in `current` is the truth
  with its pending operation applied.  Then `Dump` writes the next truth.
- `OnlyAKillTears`: an action property from `TypeOK`, by cases on `Next`.

`SanityProofs`, for any list of different challenges, any options, leftovers and tests, from
`SanityAssumption`; that the challenges of the list differ is used for `NoLitter` and `SummaryAgrees`:

- `InvariantHolds`: the inductive `IInv` is `TypeOK`, `Where` (what `pc` says of the index
  and of the operations left), `JudgedSoFar` (all challenges behind the index are judged) and `NoLitter`.
  `ShapeOfStep` shows that a step either stays at its challenge or finishes it, and `CleansUpStep`
  that only the current directory changes and is disposed of on the way out; the rest follows
  from these two.
- `TypeCorrect`, `EveryChallengeIsJudged`, `NothingIsLeft`, `InclusionIsEarned`.
- `PassesOnABinary`: the property says nothing of the operations still to come, so `Attempt` adds that
  what is left of an attempt is the end of the full or of the short list, the short one only
  after the first attempt, and `Tested` what the end of each list says of the directory: who is at
  the test in a first attempt has compiled.
- `SummaryIsSaved`: the exclusion happens several steps before the summary is written, so
  `Settled` adds what the summary is going to say (`Passing`, `Failing`) to what it says.  That a failing
  challenge is excluded depends on the flag `quiet`, whose value `Counting` ties to the number of the
  attempt, and that nobody judges a challenge twice on `Ahead`.

`WorkspaceProofs`, for any number of processes, commands, ids and sets of flags, from `WorkspaceAssumption`
(random ids are not names; markers are distinct from values):

- `Base` holds whatever overlaps and is killed: types, `Placed` (where a command of each kind may be,
  and that it has its compile in hand), `Sane` of every copy and of the file (the pointer is to a compile
  that is there, runs were made, random ids were drawn) and `Fresh`.  `TypeCorrect` follows.
- `TestsFindTheirKeys` needs `Alone` (without overlap one command works) and `Synced` (what it read is still what
  is on disk, until it saves), so that reading the file again finds what the copy has.
- `ResultsAreOfTheirCompile` needs `Honest`: the property speaks of a finished document, but between the link
  and the save the truth is split over binary, copy and file, which `HonestBy` follows: before it
  builds, a compile has recorded only failures; after it, what its build left is what is in place, or it has recorded a
  failure; so a compile with nothing but 0 has the binary in `left`, its own or an earlier one.  `BuildEffect` and
  `HonestBuild` are about that step.
- `ResultsAreKept` needs `Kept`, the same for each run, of which one may still be in the hand of the test that
  made it.
- The documents change in four ways (`Begun`, `Appended`, `Listed`, `RunAdded`), which have a lemma each, and `Sane`,
  `HonestDoc` and `KeptIn` a lemma about all four.

`BenchmarkProofs`, for any list of challenges, any source files and number of commands, from
`BenchmarkAssumption`:

- `TypeCorrect` from `TypeOK` and `Place`, whatever runs together.
- `EntriesAreBacked` and `AlreadyIsWhole`: as long as nothing was raced (`raced` is set when commands in `Conflict` run
  together), `Quiet` holds.  Its parts are who may run with whom (`Alone`), what `init.py` has written
  of each challenge it is past (`Making`), that a command on one challenge comes behind it (`Using`),
  that a save has all entries there were (`Saving`), that `clean` deletes the metadata first
  (`Cleaning`), who may have left a file torn (`Opened`), and what readable metadata says (`Full`): the first challenges of the
  list, all of them unless someone was stopped (`partial`) or is at work.  A kill and an exception have
  the lemmas `StopsTyped` and `StopsQuiet` in common.  `EntryIsBacked` alone is
  not inductive: nothing in it says that the entries `init.py` is about to write have files.  There is
  a lemma per action (`...Quiet`).
- `RemovalIsUnpatched`: of any plain file, whatever its length and number of patches, `RemovePatch` leaves what the
  preprocessor does.  The two recursive functions `Found` and `Nesting` are walked side by side:
  `Agree` says that a snippet is open exactly when the innermost conditional is a patch, with the
  same branch, and a line is kept by one exactly if by the other.
- `CheckoutsAreUnpatched` has the hypothesis that the sources are `Plain`: no `#ifndef PATCHED`, no other
  conditional inside a patch, one `#else`, as `remove_patch` assumes.  It is not vacuous: `ShapesArePlain` in
  `MCBenchmark` says that the shapes of `benchmark` are plain, and it cannot be dropped: the run
  `benchmark_ifndef` refutes the property for a source that is not.
- The induction over the lines of a file uses neither the induction theorems of the library nor its
  definitions by recursion, which take operators, but `SetInduction` (a set with 0 that is closed under
  successors is `Nat`) and `RecursiveExists` (a function with these values exists), which are
  about sets and functions and are proved from `WFMin` in the same module.

`ReplayProofs`, for any number of challenges, any script, output and return codes, from `ReplayAssumption`:

- `TypeCorrect`.  It needs more than types: that nobody assigns a return code that `waitpid` did not give
  (`Waits`), and that a blocked write is a step of the script (`Course`).
- `ReportsBeforeCounting`.  The inductive invariant has a part for each thing that is split over
  threads: `Begun` (challenges, watcher and timer start together), `Lives` (a `returncode` that is set is of a
  challenge that was reaped, and says how it exited, or of the main one 0, for the thread whose
  `waitpid` came second), `Waits` (between `waitpid` and the assignment the challenge is reaped, and only the
  watcher is between the two for a challenge other than the main one), `Walk` (the watcher leaves no
  challenge behind whose `returncode` is not set), `Logged` (the log has exactly the crashes of
  those it is past), `Course` (without a failure main went through all steps; without being late it leaves
  after the watcher).  The property is then a reading of `Walk`, `Lives`, `Logged` and `Course`.
- `VerdictsAreExact`: the invariant says which text a replay of each kind prints, and lemmas about
  `PollResult` of `Verdict` what it makes of that text: two signals decide, or it is not a pass.

The second part of `SanityProofs` is about `PovReplay`, for any number of challenges, return codes and types of
POVs, from `PovAssumption`:

- `PovTypeCorrect`, `ReportsBeforeTheEnd`: as nobody but the watcher waits for a process, `PovWalk` speaks of
  the processes themselves and `PovLogged` gives the log exactly, the main challenge included.
- `PovVerdictsAreExact`: `PovTalk` (the type logged is the one sent), and that the first of
  some reported challenges has a signal other than 0 (`SignalsAreNot0`; that there is a first one is the
  well-foundedness of `Nat`), make what cb-test claims and what `PovResult` reads out of it agree.

`PollsProofs`, for any graph that is accepted, any number of rounds, polls, repeats and depth, from
`PollsAssumption` (what `verify_node`, `add_edge` and the assertions of `main` let pass):

- The inductive invariant of `RoundsAreFull` is `Inside`: before `base`, the polls of the round, the repeats still
  to be made and one poll for each walk to come are at most `Size`; from there on the round is short, by the repeats that could
  not be, until it is written with exactly `Size` polls.
  `RoundIsFull` alone is not inductive: it says nothing of what `dups` still asks for.  Each walk has made at least
  one poll, so `id` stays within the sum of all rounds (`RestOf` is the sum of those to come).
- The sums are folds.  `SumTakesOut` and its like are proved by an induction on the subsets of a finite
  set (`SubsetInduction`), stated of a set of subsets and proved from the least number of a set, because the
  induction theorems of the library take operators.
- `PollsTypeCorrect` also bounds the depth: a walk that goes on is at most `MaxDepth` deep, whatever
  it skips.
- `NoEdgeIsLost`: in every state from which an edge is taken, `Left` has every edge on time, an early one only
  directly behind an early one that was taken out, and is empty only if the node has one edge and that is early.  That the
  function in `Left` exists is an induction on the number of edges (`LookedExists`).  No run checks
  this one; a run over the same graph with it as an invariant found nothing either.
- The first form of `RoundIsFull` had a bound on `polls` between rounds, too, where the list of the last round
  is still there.  The proof attempt showed that this is not so for rounds of different sizes, which the
  run then had not; the property is now about the inside of a round, and the run has two sizes.

The last part of `PollsProofs` is about `CommandExec`, for any tree of processes, any of which may inherit the
pipes, be loud or hang, from `CommandAssumption`:

- The inductive invariant is `TypeOK` and `RootInPhase`: what the place of `main` says of the command. It is alive or a zombie
  until the call has waited for it, and gone after; who leaves the reading of stderr has
  an error or a command that was ok; who has returned has no timer armed.  That the timer changes the
  status of a command only while it lives needs `TypeOK`, too: the command is not among its own
  descendants (`FoundType`), so only `KillRoot` kills it.
- `CommandTypeCorrect`, `FailuresAreReported`, `ReturnsClean` are its consequences.

`HeapProofs`, for blocks, pages and requests of any size and any number of pieces, from
`HeapAssumption` (a page is larger than a header and smaller than a block):

- The inductive invariant is `TypeOK`, `Tiled` and `PrevStaysInNeighbour` together.  The lemmas read it as `Sound`, while the
  state is "ok": chunks are tiled, and every `prev_size` but those in a set of exempt places stays in the neighbour.  The set is empty until `smeared`, and all places after.  The two
  parts need each other: `Backward` joins two chunks that lie
  side by side because `prev` stays in the neighbour, and that stays true through a join only
  because chunks are tiled.  There is a lemma per helper (`Take`, `Carve`, `Forward`, `Backward`, `Copied`, `Block`), and the
  actions combine them.
- `NotAstray`: a `prev_size` that is not exempt leads into the chunk before, so only an exempt one makes a call "lost".
  With an exempt one that is not astray, what `Backward` joins is still the neighbour, so the tiling holds with
  changed ones, too (`FreedSound`, `FreeSound`).
- `TypeCorrect`, `ChunksTile`, `PrevIsNear` are its parts.
- `HeapImplementsAllocator`: `Init` maps to the empty set, and each action that does not end spilt or lost to a new piece, a piece gone, a
  piece resized, no memory, the end, or a stutter; that no two pieces overlap is what `Tiled` says of used chunks, and that
  who is written into lies before the freed chunk, and is one piece, is what `HarmsInFront` gets from the same.

`LibpovProofs`, for buffers, texts, delimiters and requests of any size, from `LibpovAssumption`:

- `TypeCorrect`, and `Buffered`: the buffer from `iptr` to `eptr` holds the last bytes received, in order.
- `LibpovImplementsStream`: the invariant adds what the call has: `got` and `rx` are the bytes from `begun` on (`InPlace`),
  their number is what was asked less `count` (`Measured`), and a short part means the end of the
  stream (`AtEnd`).  Then each return is a step of `Stream`, and all else a stutter or an arrival.
- `FirstDelimiter`: no shorter part of `got` ends in the delimiter, as each byte was compared when
  it was appended.

Only model-checked:

- All liveness (`Terminates`, `EndsOrStarves`, `CallEnds`, `Ends`, `CallReturns`), which is out of reach of the prover.
- What `Counts` and `VulnAfterRemoval` of `SourceFile` list, beyond their types, and, of `Verdict`, what only `Sanity` applies.

A note on how the leaves are cut.  The SMT backend of tlapm 1.4.5 guesses a sort for each symbol. When a leaf has
`x \in S \cup {None}` and also says that `S` is a set of integers, it takes `x` for an integer and then finds `x # None`
evident, which it is not.  So no leaf has both: `Code` of `Replay` stays folded where `None` may occur, and only
`Codes` and `CrashCodes`, which are about numbers alone, unfold it.  The sorts in the files that tlapm hands to
the solver were read for all modules with that in mind: no symbol that may be a marker has one.

## Where the code and its documents disagree

1. **A POV can hang the replay** (`pov_hangs`, cb-replay-pov.py:111).  `interrupt_main` does not wake a main
   that is blocked in `os.read`, and as both processes keep both ends of the socket pair, the
   death of the POV is no EOF.  common.py:48 says a `TimeoutError` will be raised.
2. **`#ifndef PATCHED`** (`benchmark_ifndef`, source_file.py:8).  It is read like `#ifdef`, so `checkout -rp` removes the
   vulnerable branch and keeps the patch; checkout.py:94 says the patches are removed.

## Seen while modelling

These are in the models or were left out; no run is about them.

Metadata and initialisation

- `update_sanity`, `include_challenge` and `reset_sanity` (kernel.py:93) save the whole copy the command
  read when it started: what another command saved since is erased.  `NoLostUpdate` has exactly this exception.
- init.py:10 takes any metadata file for a whole benchmark, and init.py:35 writes it without
  the lock.  init.py:17-36 catches nothing: a challenge without README, a source that cannot be decoded, a patch that does
  not end (source_file.py:140) or a full disk at the second challenge leaves the metadata of the first, and the
  next `init.py` says "already initialized"; `clean` repairs that.  A torn metadata file is more stubborn: every
  command, `clean` included, fails to read it, while `init.py` still says "already initialized".
- A manifest whose `get_vulns` raised is whole, so the next `init.py` passes over it.  One that a kill left empty is
  never written again (challenge.py:30-35), and
  `checkout -rp` then removes nothing and succeeds.  `clean` deletes the metadata first, and then only the files
  of challenges that are not excluded.
- `genpolls` deletes the old polls before it generates and resets the results after: a kill in between
  leaves results of polls that are gone.  It reports success over errors of the
  generator.
- server.py:16 reads the metadata once.
- `get_vuln` is called after `remove_patch` has moved the bounds, so a hunk of two or more
  lines loses its first and last line; `patch --show` prints numbers one too small; `get_vuln_hunks`,
  which nothing calls, drops the last line.

Sanity

- With `--lookup 1` the only attempt still counts as one of several (sanity.py:112), and a challenge
  that fails is not excluded.

Test, make and compile

- A plain compile after `compile --inst_files` may find all objects up to date and relink nothing
  (compile.py:95-107): it records 0 under its own id, and the tests that follow run the instrumented binary.
- `self.error` is never reset: after one failure that did not exit, later commands of the object are
  recorded as failed, and then a 0 is recorded.  With `--no_track` a compile never exits
  on an error (make.py:142).
- The results are saved with `--update` before a POV's sense is inverted (test.py:87, 173-176).  The timeout of a known
  test is its old duration plus the margin (test.py:213).  `write_result` (test.py:230) writes another
  format than operations/README.md:130 shows.
- test_result.py:90 takes the first DEBUG line only.
- Without a timeout, make and compile wait for ever for a command that fills stderr
  (command.py:36); `TimeoutExpired` leaves the timer armed (command.py:47).

Replay

- Between `poll()` and `terminate()` (cb-replay.py:624) the watcher may reap the challenge; `os.kill` raises
  `OSError`, which nobody catches, and the replay ends without a result.
- When `main` reaps the main challenge before the watcher, its crash is not reported.
- `exit(11)` is logged as signal 11 (challenge_runner.py:127).  challenge_runner.py:105 compares with a timeout
  that may be `None`.  The timing of CRLF decides what cb-replay.py:545 matches.  cb-test.py:593 raises
  IndexError when the name of the test is not in the log.
- `--timeout 0` of cb-replay-pov raises TypeError (273).  Of several POVs only the last status counts (338).
- The process manager kills by a substring of the name.

POV heap and library

- malloc.c:16-17 says that `prev_size` is always valid.  Joining chunks (malloc.c:204, 211) and growing leave the
  one behind old.  Through an old one `cgc_free` takes what lies inside the chunk before for a header: if that chunk
  is in use and the word's low bit is 0, it adds the size of the freed chunk to a word of its data
  (malloc.c:209-211).  Join A and B, take them whole, free C.  In `cgc_realloc` it can be the piece just moved to.
- `cgc_realloc` copies the size of the old chunk less 8 with the in-use bit, one byte too many (malloc.c:224).  With
  two joined chunks of 20 units taken whole, whose next `prev_size` still says 20 (0xA0), a realloc to the same size into a
  fresh chunk of 40 units makes the next `prev_size` there 0x1A0 instead of 0x140: 52 units behind a
  chunk of 40.
- When the new piece is smaller than the old (from pages, or a chunk of a page that shrinks), the same copy
  overwrites the chunks behind the new one.
- A block that cannot be allocated is used all the same (malloc.c:149, 178), and so is the
  read buffer (pov.c:81).
- Bytes that `cgc_buffered_receive` copied before an error are counted by none of its callers (pov.c:240, 252).
- A read by length may end in the middle of a delimiter; the delimited read after it sees only
  the second half.

Polls

- `_random_edge` removes from the list it iterates over (graph.py:169-174): the edge after one that is not
  allowed yet may be walked before its time, and when none is left `None` is the next node, a
  KeyError.
- The finish node runs after -1 although graph.py:199 says otherwise; `--depth 5` means six nodes
  and the finish node.  The default of `--count` differs from the documented one.
- `random.choice` of an empty list, when repeats leave too few walks (`TooManyRepeats`); the assertions of
  plot come after the polls are written.

## What is not modelled

- *Within the modelled parts.*  `Replay`: the data of a step, several polls of one command,
  `--concurrent`, and a timer that fires while the challenges are launched (`Start` is one
  step).  `PovReplay`: what POV and challenge say, several POVs, Windows, `--timeout 0`.
  `CommandExec`: log file and status line.  `Workspace`: the choice of compiler, `--backup`,
  `--write_build_args`, the flags of a test.  `Benchmark`: several source files of a challenge, the walk over
  directories, CWE entries.  `Polls`: variables, weights and text.  Each component's note in
  `PROJECT.json` says the same in short.  `Heap`: the data, beyond which piece is written into,
  and what the heap is after a copy over headers ("spilt") or a `prev_size` followed too far ("lost").
  `Libpov`: regular expressions, variables, sending.
- *Parts without a module.*  Reports, server, command line, terminal and coverage only read and
  print.  The AES of the seeds has no control to check.  `tester.py` is for a layout
  this repository does not have.  The corpus is data: programs of others.  PCRE and the
  AES in `lib/include` are third-party code.  cb-test runs one replay after the other and waits for each
  (`launch`); its class `Background` is not used, so there is nothing concurrent to model but what `Replay` has.
  The process manager kills whatever has a name that contains the challenge's: nothing
  in the repository says whose processes it must spare.

## Plan

Done: `Kernel`, `Verdict`, `Replay`, `Sanity`, `CommandExec`, `Workspace`, `PovReplay`, `SourceFile` and `Benchmark`, `Polls`, `Heap` and `Libpov`
with their abstract specifications, and the proofs of all safety properties the runs check.

Next, in this order:

1. `GenPolls`: the operation as steps (delete the old polls, generate, reset the results)
   with `Kernel`'s store and a test that saves results; what a kill leaves; sanity results of
   polls that were replaced.
2. Several polls in one command of cb-replay, whose watcher closes file descriptors of the
   next one.
