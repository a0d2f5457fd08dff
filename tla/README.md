# A TLA+ model of shimforge

shimforge replaces functions of a running Rust program by mocks. It writes a jump
over the entry of a function, routes calls to generated dispatchers, and checks at
the end of a session that the mocks got the calls they expected. This directory
models that machinery, checks it with TLC on small instances and proves the core
of the expectation engine with TLAPS for instances of any size. `PROJECT.json`
maps every definition to the lines it models; paths below are relative to the
repository's root (`src/` there is the crate, `macros/` its procedural macros).

## 1. The system

| Part | State | Operations | Talks to |
|---|---|---|---|
| Call counts, `src/expectation.rs` | none | conversions from Rust ranges, `for_once`, `validate` | builders |
| Expectation engine, `src/expectation.rs` | per mock `State.inner` (active, rules, failure); per rule `Meta` (count, progress, ticket) and an action mutex; per thread `ACTIVE_CALLS` | `enter`, `select`, `claim`, `fail`, `add_with`, `verify`, `checkpoint`, `deactivate` | dispatchers, sessions, user closures (which may call mocks) |
| Sequences, `src/expectation.rs` | next slot and cursor, shared by mocks | `reserve`, the cursor's move in `claim` | rules of several mocks |
| Generated dispatchers, `macros/src/lib.rs`, `src/lib.rs` | a thread-local slot, a global slot and a flag per macro site | call, attach, detach | engine, routing |
| Sessions, `src/lib.rs` | `SESSION` lock, local routes, global routes, patches, owned mocks | open, install, verify, `restore`, `drop` | routing, memory, engine |
| Routing, `src/routing.rs` | `HEAD` list of leaked entries, `ENTRIES` mutex and records, thread-local `LOCAL` | `install_replacement`, `global`, `remove_global`, `route`, `fallback` | dispatchers, memory |
| Code writes, `src/memory.rs`, `src/memory/` | page permissions, code bytes, instruction cache | `write` with rollback; on Apple Silicon staged images | sessions, routing |
| Executable pages, `src/executable.rs` | pages near the source | `near`, `publish`, release | sessions, routing |
| Entry planning, `src/code/` | none | instruction prefix, relocation, jump encoding | sessions, routing |
| Async mocks, `src/asynchronous.rs` | registries of mocked future types, a flag | register, remove, `poll_mock` | engine |

What is hard here: calls take no common lock with configuration, checks and the
end of a session; a call works on a snapshot of the rules and claims them one at a
time; sequences join mocks on several threads; responses run under a lock and may
call mocks again; code is published to lock-free readers before it is written;
every system call of a multi-step write may fail; sessions of two kinds share
patched functions that are never unpatched. `PROJECT.json` lists the hazards line
by line with the properties aimed at them.

What makes each part correct: rules answer in order and within their counts;
sequences keep their order and never block on a rule that is not there; every
rejected call is reported; the verdict is exact if callers keep the documented
rules; each call is answered by what its thread's session promised; nothing
outlives its session; a write is all or nothing.

## 2. Modules

| Module | Models | Used by |
|---|---|---|
| `CallCount` | counts and configuration checks | `Expectation` |
| `Expectation` | engine, sequences, the dispatcher's use of them, a session's checks and detach | `ExpectationLemmas`, `MCExpectation` |
| `ExpectationLemmas` | proved lemmas: accepted counts, stacks, steps that leave rules alone | `ExpectationProofs` |
| `ExpectationProofs` | steps that change rules and sequences, and the theorems | |
| `Routing` | sessions, installation, routing, dispatchers up to the answer | `MCRouting` |
| `AtomicWrite` | abstract: what `memory::write` promises | the next two |
| `CodePages` | region scan, page rounding, checks before a write | the next two |
| `MemoryWrite` | `memory::write` with in-place permissions | `MCMemoryWrite` |
| `RemapWrite` | `memory::write` on Apple Silicon | `MCRemapWrite` |

A definition named `X_Variant` in front of `X` is a deliberately wrong form of `X`
(a dropped check, an off-by-one, a swapped order). No specification uses it; with
it in place of `X` the property listed with it in `PROJECT.json` is violated,
which shows that the property depends on that code.

### Expectation

One step is one critical section. A call is a frame on its thread's `stack`:
`Enter` (slot and `CallGuard`), `Snapshot` (the clone in `select`), then one step
per rule (`TakeRule`, `PassRule`, `RejectClaim`), `NoRuleLeft`, `Fail`
(`State::fail` and the panic), `Respond` (the action lock; a one-shot response is
moved out) and `Leave`. Matchers and responses are user code: they may call mocks
(`Nested`) or panic. `AddBegin` and `AddCommit` are the two checks of `add_with`,
between which no lock is held. `CheckpointBegin`, `AuditRule` and `AuditEnd` walk a
mock's rules under its `inner` lock, during which claims go on. `Finish`,
`CheckMock`, `StartDetach`, `Detach`, `Deactivate` end the session.

Left out: wording of failures; `Expectation::calls` and the reporting forms of
`verify`, which change no state; poisoned locks, which the code recovers from. A
closure that adds a rule in the middle of a call is the same step as another thread
adding it. Which mock a check visits first is left open; the code's order is one of
the choices. `Rules` stands for the heap and bounds the number of rules.

With `Contract` the callers keep what README.md (660-663) asks: "Configure mocks
and run checkpoints while their calls are stopped, and join workers that use global
mocks before verification and cleanup." Only `VerdictExact` and `expectation_liveness`
need it; the others let everything interleave. `Session::drop` gives its verdict by
a panic and keeps silent while its thread already panics; the model ends with the
verdict and leaves out how it is told.

`asked` in a request is what the builder's words mean, as a set of numbers of calls.
The code never sees it; `RangesConverted` compares it with the count made of it.

### Routing

Addresses are functions and sites (the dispatcher generated by one macro call).
`code` says where a function's entry leads. A call reads shared state step by step:
`ReadCode`, `CheckLocalSlot`, `CheckFlag`, `CheckShared`, `Route`, `ReadGlobal`.
Installation fills the slot, raises the flag, and then joins an entry, publishes
and writes a new one, sets a global target, or patches the function for a global
session; a refusal undoes slot and flag in steps of their own. `EndBegin` to
`EndDone` are `restore` and `drop`: global targets and patches last first, mocks
afterwards. `promised` is a history variable: what the sessions promised for a call
at some moment since it began. During an installation or an end, and after a
`restore` that failed, both answers are promised.

Abstractions: patched byte ranges of functions are disjoint, so an address lies in
a patch only if it is that function; decoding, planning and allocation errors are
one refusing step; the write of a raw patch (`install_raw`) that fails after changing
bytes is part of it too, since `memory::write` puts the bytes back and global
sessions are only checked with calls stopped, where nobody can see them between;
local routes of a thread are a set, with at most one per
dispatcher; the `SESSION` lock has no writer preference; destruction of
thread-locals, the call-bridge and shadow-stack paths of `fallback`, and an abort
inside `memory::write` are left out. `MayInstall` keeps README's rule (662) that a
site stays bound to one function for global installations; local ones also try
to break it and are refused by the code. With `StopCalls`, callers make no call to
a function while its code is written (README 652-655).

### Memory

`CodePages` turns the regions the system reports into the page ranges to change.
`cuts` lets the system report a boundary inside a run of equal pages. `MemoryWrite`
and `RemapWrite` take one system call per step; any call may fail and then changed
nothing (a partly applied `mprotect` is outside the model). `fetched` is what the
processor would execute at worst: stores reach it only by a flush. Both modules
refine `AtomicWrite`: while a write is under way, the abstract bytes and
permissions are the ones before it. An abort promises nothing. On Apple Silicon each
private image is mapped (`Allocate`) and sealed (`Seal`) in steps of their own. `live`
holds the images that are mapped and `owned` those that an `Image` value will unmap
when it is dropped; `Release` drops only the latter, so `ImagesReleased` depends on
`Image::new` taking ownership before its next call can fail.

## 3. Runs

| Run | Instance | Shows |
|---|---|---|
| `expectation_counts` | 2 threads, 1 mock, 2 rules of 7 kinds, usize up to 2, no contract | conversion of ranges, counts, first match, one-shot responses, failures, recursion, late adds |
| `expectation_sequences` | 2 threads, 1 mock, 2 rules that fill a sequence and a third that is refused, no contract | order, no lost slot, the inductive invariant |
| `expectation_contract` | 2 threads, 2 mocks, 2 rules, nested calls, contract | the verdict is exact; order across mocks |
| `expectation_liveness` | 2 threads, 2 mocks, 2 rules, one-way nesting, contract | calls come back |
| `expectation_ending` | 2 threads, 1 mock that calls itself, 1 rule, no contract | calls come back and sessions end while calls, adds and checkpoints go on |
| `routing_local` | 2 threads, 2 functions, 3 sites, 2 local sessions, 1 failed write | calls get what their own thread installed |
| `routing_open_calls` | 2 threads, 2 functions, 3 sites, 2 local sessions, calls at any moment, no failed write | a call in the middle of a first patch finds its route and its answer |
| `routing_global` | 2 threads, 2 functions, 4 sites, 2 sessions of both kinds, 1 failed write | the same, no leaks, no cycles |
| `routing_liveness` | as above with 3 uses | forwarding and operations end |
| `routing_failed_window` | calls are not stopped | expected violation, see below |
| `memory_write` | 3 pages of 2 bytes, mixed layouts, writes of 1 and 4 bytes, 2 failures | refinement of `AtomicWrite`, no fault, coherence, aborts |
| `remap_write` | the same | refinement, coherence, no image leaked or missing |

Bounds. The races of this code are between a caller and one other party (another
caller, a builder, a check, an ending session), so two threads show them; that more
threads add nothing is proved only for the properties of section 4; two rules give a first and a later match
and an earlier and a later slot; `UsizeMax = 2` puts the counters' limit within
reach of a call and lets two rules fill a sequence. Longer sequences are covered by
the theorems of section 4 only. Two sessions let one follow or overlap another on an entry that
stays patched. Two failures are what an abort needs; three pages give writes that
start, end and cross inside and on boundaries of pages and regions. Threads are
symmetric in the safety runs; no symmetry is used for liveness.

Deadlock is checked everywhere. The steps `Done` and `Stopped` are the only ones
that stand still: the session is over, or the process aborted.

Fairness. In `Expectation` a builder and a check that hold a lock are scheduled
(weak fairness). A call at each depth and the thread that ends the session are
strongly fair: a mutex is handed on, so whoever waits for it gets it in the end
although others, such as repeated checkpoints, take it in between; and closures
return, so a call does not stay behind calls its closures make forever.
`expectation_liveness` assumes nothing of the session's thread. In
`Routing` every started call and operation is weakly fair. The program is never
obliged to call, add or open anything. `EveryCallEnds` is checked for mocks whose
responses call each other in one direction only. Two responses on two threads that
call each other's mocks take two action locks in opposite orders and can wait for
each other; `CallGuard` sees only its own thread, and nothing in the repository
promises otherwise. `OpsEnd` leaves out waiting for the `SESSION` lock, which lasts
as long as another session is open.

Finding. `src/routing.rs:168` says "A thread that reaches the dispatcher while the
entry is being written must still find the saved original." If the write fails, the
entry is taken off the list again (line 178; "The source is unpatched again, so
nothing reaches this entry."). A thread that followed the jump before it was undone
then finds no route and panics. `routing_failed_window` shows the steps. Programs
that stop calls during the first installation are not affected (`routing_local`).

## 4. Proofs

`ExpectationProofs` proves, for any sets of threads, mocks, rules, sequences,
arguments and requests, any `UsizeMax > 0` and with or without the contract:

* `Invariance`: `IInv` always holds; `TypeCorrect`, `CountsHold`,
  `SequencesOrdered`, `SequencesProgress`: `TypeOK`, `CountsRespected`,
  `SequenceInOrder`, `SequenceNeverStuck` follow from it;
* `EndedMocksEmpty`: `EndedMockStaysEmpty`.

The assumptions are those stated in `CallCount` and `Expectation`, about constants
only.

None of the properties is inductive by itself. That the rules before a sequence's
cursor are done says nothing about what the next claim may do unless the rule at
the cursor exists, is the only one with its slot and has calls left: `SequenceInv`
says so. Giving out a slot once needs that two threads never build the same rule
and that a rule being built is in no sequence yet: `BuildingInv`. That `Current(t)`
is a rule at all needs `FrameInv`. `TypeOK` contains the bounds on the counters:
a call count is below `UsizeMax` because `claim` checks it, and the cursor because
it stays at or below the next slot. The proof has one lemma per group of actions
that change the same state: `CallMoves` (only frames), `MockSteps` (only mocks and
checks), `MarkingSteps` (rules marked without touching counts), `TakeStep`,
`AddBeginStep` and `AddCommitStep`; `StepInv` puts them together. What happens to
one sequence is in `SlotsUnaffected`, `SlotTaken` and `SlotAdded`. The first two
groups are in `ExpectationLemmas`.

Only model-checked: `FirstMatchWins`, `OneShotOnce`, `FailureReachesMock`,
`NoSelfWait`, `VerdictExact`, everything about routing and memory, and all
liveness (fairness and `ENABLED` are out of the prover's reach; so is induction over
data, which the scan in `CodePages` would need).

## 5. Plan

1. Done: counts and engine with the first theorems, routing and sessions, code
   writes in both forms.
2. Executable pages: the search in reach of a source, seal, release on errors.
   Entry planning and relocation as functions, checked against a reference meaning
   of jumps for small address widths. The async registries with polls that race
   registration and removal.
3. A composition: `Routing` with writes that follow `AtomicWrite`, and dispatchers
   that enter `Expectation`.
4. Proofs: `OneShotOnce`, `FirstMatchWins`, `FailureReachesMock`, `NoSelfWait`;
   for routing `NothingLeaks` and `NoCycle`; the refinement of `AtomicWrite` by
   `MemoryWrite`; facts about `CallCount`'s conversions.

Not planned: macro parsing and signature checks (compile time), the text format of
`/proc/self/maps`, foreign declarations, error texts, instruction tables.
