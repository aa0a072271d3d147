# Salts utilities: TLA+ models, model checking and proofs

This directory specifies the parts of the repository whose correctness depends
on order: which callback runs before which reset, which thread gets to a lock
first, where a chunk of input was cut, where the clock stands when a value read from
it is used. Paths below are relative to the repository root.

* `*.tla` without prefix: one module per component.
* `MC*.tla`, `MC*.cfg`: finite instances for TLC.
* `*Proofs.tla`: theorems, checked by TLAPS.
* `PROJECT.json`: for every definition the source lines it models, the runs, a
  fault ("mutant") that each checked property detects, findings and hazards.

Operators commented `Fault:` are deliberate mistakes. No action uses them; each
is put in place of the definition that follows it to show that a property of the
model would notice that bug.

## 1. Inventory

| Component | Source | State | Operations | What is hard |
|---|---|---|---|---|
| Behavior tree | `behavior-tree/src/behavior_tree.c` | per node: last status, cursor, counter, timer, caches, `prepared` / `running` / branch marks | `tick`, `reset`, `cancel`, `destroy`, `init`, parameter resolvers, constructors, `validate` | re-entry after `RUNNING`, halting from above, errors in the middle of a tick, pairing of host callbacks |
| Value pool | `databind/runtime/data_bind.c:118-218, 1170-1217, 1422-1463, 5930-5962` | lock-free slots, ready bitmap, policy flag, control mutex | allocate, release, enable, disable | lost bits, ABA, policy change during a put or take |
| Codec plan cache | `databind/runtime/data_bind.c:5798-5928` | table of prepared plans, field budget | acquire, free | compilation outside the lock, losers and error paths |
| Type-meta initialisation | `databind/runtime/data_bind.c` | global table, once flag | find | double-checked initialisation |
| Cron search | `cron/src/salts_cron.c:901-1083` | none between calls | `matches`, `next`, `next_n` | carries between calendar fields, iteration limit, change of UTC offset |
| Cron runner | `cron/src/salts_cron.c:1085-1299` | cursor minute, `thread_active`, `stop_requested`, condition variable | create, start, stop, advance, destroy, worker thread | two threads that advance, a clock that is set, stale clock values, lost wakeups, restart |
| Cron parser | `cron/src/salts_cron.c`, `cron_lexer.re` | none | parse lines and tables | text |
| LTV, TLV and Modbus parsers | `parser/{ltv,tlv,modbus}_parser` | partial frame, learnt size, views and pooled payloads handed out | build, parse, feed, reset, free | a frame cut at any byte, a refused chunk, memory that a returned view shares with the buffer |
| CSV stream processor | `parser/csv_parser/src/csv_stream_processor.c` | partial line, header, filter plan, result columns | create, set filter, set columns, feed, finish | chunk borders, a filter set before the columns are known, failing allocations |
| Query VM | `parser/query_vm/src/query_vm.c` | verifier tables, registers | verify, execute | registers written on some paths only, jump targets at the limits |
| Jinja template loading | `jinja/src/jinja_cmeta_environment.c`, parts of `jinja_cmeta.c`, `jinja_cmeta_provider.c` | cache, reference counts, loader leases, instances of a render | compile, load, release, clear, render with include, import, extends | eviction of what is in use, error paths, circles of templates |
| CSV parser, index, filter; SOA parser | `parser/csv_parser`, `parser/soa_parser` | parsed tables | parse, query | bulk data |
| Databind plans, codecs, providers, compiler | `databind/` | plans (immutable once built) | compile, encode, decode | breadth |
| Text parsers, jinja expressions, mustache, bindings, tools | `parser/`, `jinja/`, `mustache/`, `bindings/`, `tools/`, `vendor/` | mostly none between calls | parse, render | grammar |

Interactions. The behavior tree calls its host through callbacks and is called
only by its driver: it never blocks and has no threads. The cron runner calls
`salts_cron_next` from the host's `advance` and from its own worker. DataBind
codecs create values, so they use the value pool from any thread; a codec's plan
cache is shared by the threads that use the codec. The stream parsers, the CSV
processor, the query VM and a Jinja environment are each used by one thread at a
time; the Jinja environment calls its loader and is called by the render it serves,
which is why `JinjaLoading` has both. The components do not share
state with one another, so there is no composed module; `CronRunner` uses of
`salts_cron_next` exactly what `CronNext` checks of it and `CronNextProofs`
proves for a constant offset (the earliest match strictly after the anchor).

What makes each correct:

* behavior tree: the host's callbacks pair up, nothing keeps running that the
  tree has left, an ended activation leaves no trace, a tick ends;
* value pool: one owner per value, no value lost or unreachable, policy obeyed,
  calls return;
* plan cache: one plan per artifact, limits kept under concurrent compilation,
  what was returned stays valid, no leaks;
* cron search: the earliest match strictly after the anchor, and no early surrender;
* cron runner: each due minute fires once unless a start goes back to before it, none
  is skipped, stop returns, one worker;
* stream parsers: the cut of the input does not matter, what is built is parsed
  back, what was handed out keeps its bytes;
* CSV stream processor: the results are the rows that pass, aligned, and no row
  passes an unheeded filter without an error;
* query VM: an accepted program is safe on every path, and only unsafe ones are
  refused;
* Jinja loading: a template lives exactly as long as somebody refers to it, leases
  are returned, budgets hold, every render ends.

The hazards behind these, each at its line, are in `PROJECT.json`.

## 2. Modules and how they correspond to the code

### BehaviorTree

One driver thread walks the tree recursively. The C stack is always the path from
the root to one node: `cur` is that node, `frame[n]` the locals of
`tick_node_impl` for a node on the path, `ret` what a child has just returned.
`node[n]` is `salts_bt_node`, field by field. Every callback is host code, so it
is a step of its own with every answer it may give (a status, a choice, an error).

* `TickTree` .. `AbortTick`: `salts_bt_tree_tick`, its entry and its error path.
* `ResolveParams`: the parameter resolver at the start of `tick_node_impl`, with
  the deadline of a running timer recomputed.
* one start and one return action per node kind, or per family with the same
  control: `Composite*` (memory and reactive sequence and fallback),
  `Decorator*`, `RunOnce*`, `Loop*` with `RetryRepeatReturn`, `Condition*`,
  `Branch*`, `SelectCase` and `CooperativeReturn` (if-then-else, precondition,
  while-do, switch, keep-running), `Timeout*`, `Delay*`, `Pipeline*`, `Queue*`,
  `Entry*`, `Parallel*`.
* `Reset` is `reset_node_state_impl`. The C code recurses; the model gives the
  result for all nodes under the root of the reset at once. That is exact because
  the callbacks it makes (halt, abort) return nothing and cannot call back into a
  busy tree.
* `ResetTree`: `reset`, `cancel` and `destroy`, which share `reset_tree_state`.
* `SetResolver`, `Rebuild`, `Elapse`: attach or detach a resolver, a new tree on
  the same storage, the monotonic clock.

Topologies are a constant: `WellFormed` is what `validate_impl` demands together
with the numbering that `add_node_with_limit_internal` gives (a child is created
after its parent and after its elder siblings), and a tree does not change while it
is in use. Values of leaves, context payloads and
names are left out. `host` is a history variable that counts what the host has
been told: leaves that are active, contexts and branches that are open, how often
a RunOnce has completed.

### ValuePool

One step per atomic operation of `value_pool_take`, `value_pool_put`, `dbv_new`,
`dbv_release` and `data_bind_set_value_pool_enabled`; the control call's steps
under its mutex are separate steps as well, because takes and puts do not take the
mutex. `ready` is the bitmap, `slots` the slot array with `Empty` (NULL) and
`Closed` (`VALUE_POOL_CLOSED_SLOT`), `pc`, `val`, `seen`, `at`, `snap`, `tries`,
`todo`, `pooled`, `nodes` the locals of the call a thread is in. The model is
sequentially consistent; the code uses acquire and release operations on every
location involved. The ready mask is a set of slots;
which set bit a take and which slot a put tries next is left open, where the code
starts from a per-thread cursor.

`ValueTransfer` is what the pool promises, without slots, bits, mutex and policy
flag: values move one at a time, atomically, between the allocator, the pool, a
thread inside a call and the application; a shut pool is empty and takes nothing
until it is opened. `Transfer` in `ValuePool` is the refinement mapping: the pool is
what lies in slots, what a thread carries is its local value and the values it has
drained, and the pool is shut when all slots are closed.

### CodecPlanCache

`data_bind_message_plan_acquire_generated`: the two sections under the mutex, and
between them compilation and reservation of the table, each of which may fail. The
clean-up label is one step that every path after a successful compilation passes
through. `data_bind_free` requires that no call is in progress, as its callers do.

### CronNext

`salts_cron_next` turn by turn: one action for each way a turn of the loop can go
(month, day, hour, minute exhausted or jumped, match, limit). A normalised `struct tm`
is the local minute it stands for; the calendar (month lengths, week length, hours,
minutes) is a parameter. `mktime` and `localtime` are external; with `Shift # 0` the
UTC offset changes once, and `mktime` with `tm_isdst = -1` returns any instant with
the requested local time. `Matches` is `salts_cron_matches`, the reference against
which the search is checked. The sets of an expression lie within the ranges of their
fields and its minutes are not empty (`ExprAssumption`), as `cron_apply_range` leaves
them. The limit of 5000 turns is the parameter `MaxIters`; what a limit is good for is
`GivesUpLate`.

### CronRunner

The host thread (one call after another) and the worker thread. Sections under
`runner->lock` are single steps; reading `time(NULL)`, each callback of a scan,
creating and joining the thread are steps between which the clock and the other thread
move. The clock may be set to any time at any moment, forward or back (`ClockMoves`),
and the host advances to any time, whatever the clock says; an accepted `start` sets
the cursor to the minute it has read, forward or back. The wait for the next match may
time out at any moment, since its duration says nothing of a clock that has been set.
Times are from the epoch on; the epoch minute itself is in no schedule. `signalled`
says that a broadcast has reached the worker's wait; a broadcast nobody waits for is
lost, and a wait may end spuriously. Of `salts_cron_next` the model takes that it
returns the first match strictly after its argument (what `CronNextProofs` proves for
a constant offset).

`CronDuty` is what the runner promises, without threads, lock, clock and condition
variable: it is followed from minute to minute and never back, each instant of the
schedule that is passed becomes due once, and what is due is passed to the callback
once. A start puts it at some minute, ahead or behind: it forgets what it has called
after that minute, so that these instants will be due again, and it never drops what is
due; nor does a destroy. `Duty` in `CronRunner` is the refinement mapping: the cursor is
how far the runner has been followed, and due is what a thread has claimed by moving the
cursor and has not yet fired.

### FrameStreams

`ltv_stream_feed`, `stream_parser_feed` and `modbus_stream_feed` with the one-shot
parsers and builders they rest on. `conn` is a wire: a protocol, a buffer size and the
bytes; a caller feeds any number of the bytes still to come, or none (a drain, for RTU
the frame boundary). `mem` is the buffer as memory, so that `memmove` and later chunks
overwrite what a view shows. TLV payloads are copied into the thread's pool, a stack
allocator with marks (`held`, `used`), or to `malloc`. The caller frees any frame it
holds: `frame_free` rewinds the pool to that frame's mark, also when newer payloads
lie above it. `exposed` is a history variable that marks those. A rewind to above the
top, which follows from such frees, may move the top or be ignored (`Rewound`).
Uninterpreted fields are left out and multi-byte integers are one unit; the LTV varint
keeps its digits, its limit and its canonical form. The checksum is some function of
the bytes.

`OneShot`, the reference of `ChunkingIrrelevant`, and `Digits`, the value of a varint,
are recursive functions, not RECURSIVE operators, so that they can be proved about. A
wire may say of which frames it is made (`sent`), and then they are frames of the
builders (`IsBuilt`). `WireAssumption` says this, that the units of an LTV wire are
bytes (below `2 * Base`, as `uint8_t` is below 2 * 128), and that lengths in use are
below what a varint can hold: `LTV_MAX_PAYLOAD_SIZE` is 10 MB and a varint of five bytes
holds 32 bits.

### CsvStream

`csv_stream_processor.c`. `Feed` appends a chunk, `FlushLine` is one turn of
`flush_lines`, `Finish` takes the unterminated last line. `Split`, `Unescape`,
`Number`, `Columns`, `Chosen`, `Compiles`, `Plan` and `Accepts` are the functions of
the same purpose. Filter and selection may be set between any two calls. Any
allocation that the code checks may fail, with what the code does then: a lost chunk,
a header line that is lost so that the next line becomes the header, a dropped
selection, a column that silently does not grow. Unchecked ones (the copies of the
column names, `col_selected`) do not fail in the model. The text of a filter is
represented by the clauses it denotes; numbers are unsigned integers.

### QueryVM

`Verify`, `FlowStep` and `FlowEnd` are `qvm_verify_slice_ex`: checks of single
instructions, then the forward pass that computes for each instruction whether it is
reachable and which registers every path has written. `Execute`, `RunSingle`, `Run`,
`Halt`, `Refuse` and `BackendError` are `qvm_execute_ex`, which does not know whether
its program was verified. Opcodes are grouped by what they read, write and demand of
their operands; values are left out, so a conditional jump goes either way.
`written` is the set of registers the execution has really written.

### JinjaLoading

`heap` are the live templates with their counts, `cache` is `env->cache` in order,
`handles` are the references the host owns, `call` is the
`jinja_cmeta_env_load_bounded` in progress, `instances` and `stack` are the render. A
source is its length and the references that its body executes; everything else a
body does can only fail (`RenderError`). The loader may answer differently each time.
The 64-bit hash of a source is taken to identify it.

## 3. Runs

| Run | Instance | States (distinct) | Checks |
|---|---|---|---|
| `bt_trees` | every well-formed tree of 1 to 3 nodes, and of 4 with a branching inner node, all kinds, with and without predicates and hooks; five trees of 7 to 9 nodes | 257,278 | `BalancedCallbacks`, `NoOrphanedWork`, `SingleActiveBranch`, `IdleIsFresh`, `DeadlineInForce`, `CompletesOnce`, `TickTerminates` |
| `bt_run_once_under_parallel` | a Parallel of a RunOnce and a leaf | violation | `CompletesOnce` |
| `value_pool` | 2 threads, 2 slots, 3 values, 2 attempts | 109,528 | `TypeOK`, `Exclusive`, `NoLeak`, `NoStrandedValue`, `SlotsMatchPolicy`, `CallsReturn`, `ImplementsTransfer` |
| `codec_plan_cache` | 3 threads, 5 artifacts, 4 plans, table of 2, 4 fields | 31,712 | `OnePlanPerArtifact`, `HandedOutIsPublished`, `FieldBudget`, `NoLeak`, `TableBacked` |
| `cron_runner` | minutes of two ticks, times 0 to 7, any movement of the clock, three schedules | 110,056 | `ImplementsDuty`, `FiresOnce`, `NoMissedMinute`, `SingleWorker`, `StopReturns` |
| `cron_next` | all expressions over a two-year calendar, all anchors in one and a half cycles, a limit of 8 turns | 194,588 | `NothingSkipped`, `EarliestMatch`, `StrictlyAfter`, `GivesUpLate` |
| `cron_next_fold` | one change of the UTC offset back by an hour | violation | `StrictlyAfter` |
| `frame_streams` | pairs and triples of frames of the four protocols, payloads of 0 to 4, buffers of 5 and 8; the 9-byte ones with each byte changed; all 4-byte LTV inputs | 505,757 | `ChunkingIrrelevant`, `RoundTrip`, `HandedOutIntact` |
| `frame_view` | two Modbus TCP frames, a buffer for both | violation | `ViewIntact` |
| `query_vm` | all programs of 1 and 2 instructions of every kind, of 3 and 4 over control flow, one over the limit | 264,369 | `VerifiedIsSafe`, `RunInBounds`, `ExactFlow` |
| `jinja_loading` | 3 names with 2, 3 and 1 sources, 5 live templates, cache of 2, 3 loads, 3 bytes, depth 2 | 394,290 | `ReferencesExact`, `LoadsAccounted`, `InstancesOnce`, `RenderEnds` |
| `csv_stream` | 5 tables, each with and without quotes, with LF and CRLF, with and without a last line end; chunks of 1, 2 and everything; one failing allocation | 1,106,870 | `ResultsExact`, `FilterInForce` |

Bounds and why they are enough:

* Trees. Every interaction of a node is with its parent and its children, and
  every rule of the code looks one level up or down, except the reset, which
  reaches a whole subtree. `bt_trees` therefore has every pair (parent kind, child
  kind) with siblings; in its five large trees resets reach through three to five
  levels. Loops are limited to 2 iterations (`MaxIter`), so that "not yet", "last"
  and "spent" all occur; the clock has two values (`MaxNow = 1`), durations are 0,
  exactly 1 and 9, the last of which saturates at `TimeMax = 4`.
* Value pool. Two slots let a take choose and a sweep be half done; two threads are
  any two of taker, putter and controller. Two attempts per take reach the retry and
  the exhausted loop. All safety properties and the refinement are proved for any
  number of threads, so the instance need not be larger; without symmetry it can also
  carry the liveness property.
* Plan cache. Field counts 0 to 3 and 5 against a budget of 4 give plans that fit
  singly but not in pairs, exactly, and never; a table of 2 fills up; three threads
  give a winner, a loser and a bystander.
* Cron runner. Eight ticks are four minutes: enough for a restart between two due
  minutes, for a thread whose clock value is a minute old, for an advance two minutes
  ahead of the clock and for a start that goes back over minutes that have fired.
  Schedules: every minute, every other minute, never. A match out of reach stands
  for the endless recurrence of calendar fields.
* Cron search. Months of 3, 1, 3 and 2 days, a two-day week that does not divide
  the year: short months, leap days and every combination of the two day fields
  occur, and an expression may be unsatisfiable. With `MaxIters = 8` on nine-day
  cycles the search gives up both on what never matches and on what recurs too late,
  and does so after five days without a match, as `GivesUpLate` says; the theorem has
  the same for any limit. What the limit of 5000 is good for in the Gregorian calendar
  follows from it by arithmetic, which `RarestDateAssumption` in `MCCronNext` checks:
  within any nine years, at most 9 * 366 <= 4997 days, there is a 29 February, and every
  other date, and every day of the week, comes back sooner. (Both day fields together
  mean either, so no schedule waits for a date to fall on a weekday.)
* Frames. With `Base = 3` and at most two digits a varint can be short, long, overlong
  and too large; payloads reach the maximum (3) and one more; a buffer of 5 is too
  small for some frames, one of 8 holds one and a half; the pool of 3 runs out with
  the second or third payload, and three of them are freed in every order.
* Query VM. Two registers in use of three, operands 0 and 1, and each value one too
  high; offset 0 and 1; four instructions give two nested branches with a join, and
  `MaxSteps = 3` ends a longer run.
* Jinja. Name `a` imports `b` twice and includes it, or extends it; `b` is empty,
  includes and extends `a`, or imports it: circles through each kind of reference.
  A third name makes a cache of two evict its oldest entry; entries are also replaced
  by a new source of the same name.
* CSV. Ragged rows, a quote and a delimiter inside a field, a blank line, an empty
  last field, a third column beyond `MaxFields = 2`, a row wider than `RowBytes = 6`.

`CHECK_DEADLOCK FALSE` is used where a run comes to its end: a search that has
returned, a wire that has been read, a document that is finished, a program that has
been executed.

Fairness:

* `TickTerminates`: weak fairness of the tick's steps. The driver thread keeps
  executing and callbacks return.
* `CallsReturn`: weak fairness of each thread's steps in a call. Beginning a call
  is not fair: nobody has to.
* `StopReturns`: weak fairness of the host's and the worker's steps and of the end
  of a wait that has been signalled. Neither the passage of time nor a timeout nor a
  spurious wakeup nor any call of the host is assumed.
* `RenderEnds`: weak fairness of the steps of a load or render, which run on the
  caller's thread until it returns, the loader's answer included.

## 4. Findings

* **RunOnce under a Parallel** (`bt_run_once_under_parallel`). When a Parallel
  stays `RUNNING` because of one branch, `behavior_tree.c:951` resets each branch
  that has ended with `reset_tree_state`, which also clears RunOnce and
  EntryUpdated caches. `behavior_tree.h:363` and `behavior-tree/README.md:23` say
  that internal resets keep them. In consequence a once-only child is executed on
  every tick of the activation.
* **The repeated hour** (`cron_next_fold`). `salts_cron.c:1043` converts the match
  by `mktime` with `tm_isdst = -1`. In the hour that is repeated when daylight
  saving ends the result may be the first of two instants with that local time and
  lie before `after`, against `salts_cron.h:148` ("strictly after"). With glibc and
  `TZ=EST5EDT`, `after` = 01:59 EDT on the day of the change gives 01:00 EDT.
  `salts_cron_runner_advance` scans with `check = next_fire`, so it would fire the
  hour again and need not return. The runner's model takes `salts_cron_next` to be
  strictly increasing and says nothing about that hour.

* **A Modbus frame overwritten before it is read** (`frame_view`).
  `modbus_stream_feed` returns a TCP frame whose `pdu.data` points into the stream's
  buffer; when bytes of the next frame are already there, `modbus_parser.c:306` moves
  them to the front in the same call, over the data just returned.
  `modbus_parser.h:6` promises "LTV/TLV-style result semantics"; the LTV stream defers
  its compaction to the next call for this reason (`ltv_parser.c:234`,
  `ltv_parser.h:162`), and `FrameStreams` has both. `test_modbus_parser.c:244` feeds
  two frames with the same payload, which hides it.

Observed and deliberately not stated as properties: when `dvec_push` or
`str_store_push_row` cannot grow, the value is dropped without an error and the
columns of a CSV result no longer align, although `csv_stream_processor.h:74`
describes `out_len` as the number of matched rows, so `ResultsExact` is claimed only
while no allocation has failed; `frame_free` of a TLV frame rewinds the pool below the
payloads parsed after it, so a caller that frees out of order and parses again has two
live frames share bytes (nothing in `frame.h` asks for the newest first), and
`HandedOutIntact` speaks only of payloads that no such free has exposed; the error of
a chunk lost for want of memory is erased when a filter is compiled later; a selection
that cannot be stored selects everything; a spurious wakeup at the due instant, or a
callback that lasts longer than the time to the next match, delays the overdue minute
until the next match (it is not lost: `NoMissedMinute`); `start` sets the cursor to
the minute of `time(NULL)` even when that lies before it (`salts_cron.c:1257`), so
that after the clock was set back, or after an advance ahead of it, a start makes
minutes fire again (`FiresOnce` counts from such a start); `start` reads the clock
before it takes the lock; two concurrent `stop` calls would join the same thread
twice; `cursor_minute == 0` doubles as "not started".

## 5. Proofs

Eight modules prove safety for every value of the constants: any number of threads,
trees, calendars, programs, templates, any input and any cut of it. `ValuePoolProofs`
and `CronRunnerProofs` also prove that the component implements its abstract
specification. `StreamProofs` has the CSV stream processor and the frame parsers. The
proofs have the same shape: an inductive
invariant (a conjunction of named parts), one lemma per action that the action keeps
it, and the theorems `Spec => []P` for the properties that the runs check on small
instances. Where a fact about all sequences or all trees needs induction, it is
proved by least counterexample: `LeastElement` (a non-empty set of numbers has a
least member) comes from `WellFoundedInduction`, and the least position, depth or
length at which the fact fails is refuted.

**Value pool** (`PoolInvariant`, `PoolTypes`, `PoolExclusive`, `PoolNoLeak`,
`PoolNoStrandedValue`, `PoolSlotsMatchPolicy`), from `PoolAssumption`: the special
values are distinct, the slots are a non-empty finite set, at least one attempt.
The four properties are not inductive by themselves. `LocalsOK` says which labels own
a value and which are about to touch a slot: without it a state in which an idle
thread carries a value would break `Exclusive` in one step. `ControlOK` ties the
mutex to the labels of a control call, says how far its sweep has come, and that the
policy is "disabled" throughout: `SlotsMatchPolicy` speaks only of states with a free
mutex and needs it to survive the unlock, `NoStrandedValue` needs it where an enable
clears the mask (all slots are closed there, so no bit that matters is lost).

**Plan cache** (`CacheInvariant`, `CacheTypes`, `CacheOnePlanPerArtifact`,
`CacheHandedOutIsPublished`, `CacheNoLeak`, `CacheTableBacked`), from
`CacheAssumption`: the special values are distinct, the limits are numbers, the
threads are finitely many (a spare table is counted per thread). Strengthening:
`LocalsOK`, of which the important part is that a call past its first section either
intends to reserve or has seen a table with capacity, and that such a table keeps it
while any call is in progress (this is what makes the decision taken under the first
lock still right under the second); and `OneOwner`, that a plan owned by a call is
neither free nor owned by another call. `OnePlanPerArtifact` rests on the second
lookup, `HandedOutIsPublished` on `plan` being cleared on publication.
`CacheFieldBudget` is separate: the sum is stated by running totals over the table,
so that publishing a plan extends them by one and freeing the codec starts afresh.

**Refinement** (`PoolImplementsTransfer`): `Spec => Transfer!Spec`, from the same
assumption. Every step of the pool is, under the mapping of section 2, one step of
`ValueTransfer` or changes nothing there. The invariant of the pool is what makes
that true: `Exclusive` says that a value taken by a compare-exchange is nowhere else,
so moving it is one transfer; `ControlOK` says that the sweep of an enable meets only
closed slots, so that it opens the pool once. Lemmas `Held*` compute how the mapped
`carried` changes when one thread gains or loses a value; there is one lemma for each
group of steps that is visible, and the others are shown to be invisible.

**Query VM** (`Invariance`, `TypeCorrect`, `AcceptedIsSafe`, `ExecutionInBounds`,
`ExactHolds`, `VerifierExact`, `RefusesOnlyFaulty`), from `QvmAssumption`: the limits
are numbers and the register file is not empty. `VerifiedIsSafe` is not inductive: it
says nothing of the verifier's tables. The invariant says that they are a fixpoint as
far as the pass has come (`FlowedTo`: each reachable instruction reads only what its
set contains, and hands its successors no more than it has), that acceptance means a
fixpoint up to the end, and that an execution of an accepted program has written at
least the set of the instruction it has come to (`RunInv`). That jumps go forward is
used twice: a later instruction cannot shrink the set of one already judged, and
`steps <= pc - lo` bounds the execution. That `pc` stays in `lo..hi` is the
interpreter's own check of each jump (`JumpValid`) and does not rest on the verifier.

`ExactFlow` says that the tables are neither too large nor too small: at the
instruction the pass has come to, they are what the paths to it have in common, where
`PathsTo` collects for each path what it writes. Its invariant `ExactInv` speaks of
all instructions still to come: `Via(k, pc)` are the paths to `k` whose last jump
leaves an instruction already judged, and the tables are exact for these. A step of
the pass adds the paths through the instruction it judges; when the pass arrives at
`k`, all paths to it are among them (`ViaAll`), because jumps go forward. It follows
(`RefusesOnlyFaulty`, an action property) that a program is refused for its data flow
only if some path really reads a register it has not written.

**Behavior tree** (`InvariantHolds`, `CallbacksPairUp`, `NothingOrphaned`,
`OneActiveBranch`, `ResetIsFresh`, `TimersInForce`, `ShelteredCompleteOnce`,
`CompletesOnceOutsideParallel`), from `TreesAssumption` and `BoundsAssumption`: any
set of well-formed trees. `IInv` is `Consistent`, which has two halves. What holds of
the nodes at every moment: `Mirror` (a node's `prepared`, `running` and branch marks
are exactly what the host has been told), `Cursors`, `Timers`, `Onces` (a RunOnce
that is not inside a Parallel has completed exactly if its cache is filled). What holds
of the walk: `Path` (the C stack is the path from the root), `Focus` (a node that
runs one of several children has work only under its cursor, while it waits also
under the child it waits for and the branch it may be about to leave), `Locals` (what
the locals of each frame say of the node), `Returned` (the answer is the child's),
`SettledOff` (a node that is not executing and did not answer `RUNNING` has nothing
open below it) and `Between` (a tree between calls is clean unless its last result
was `RUNNING`, and as built after a reset or an error). That a reset cleans a whole
subtree is an induction over the tree.
`CompletesOnce` as such is refuted (section 4); it is proved for trees without a
RunOnce inside a Parallel, and for every RunOnce that has no Parallel above it in
whatever tree.

**Cron runner** (`InvariantHolds`, `RunnerTypes`, `CallbacksFireOnce`,
`NothingMissed`, `OneWorker`, `CursorForward`), from `ScheduleAssumption`,
`EndlessAssumption` and `ClockAssumption`. A thread that scans holds a window of
minutes it has claimed by moving the cursor. `Windows`: claimed windows lie behind the
cursor and do not overlap; `Settled`: what has fired lies behind the cursor, in no
window still to be scanned, and fired once. Together they are why two threads cannot
fire the same minute although neither holds the lock while it fires. `Reads` says that
the times in local variables are times somebody named, `Bounds` the same of the cursor,
and `Lifecycle` which combinations of host and worker positions exist: in particular
that a `start` that finds no active worker finds no window being scanned either, so
that a cursor it sets back cannot make two threads claim the same minute. Nothing is
assumed of the clock. `CallbacksFireOnce` counts since the last start that set the
cursor before the instant; `CursorForward`, an action property, says that such a start
and a new runner are the only steps that move the cursor back.

`RunnerImplementsDuty` is `Spec => Duty!Spec`. Moving the cursor claims a window
and is one `Follow`; a callback is one `Call`, for which `Settled` (what is pending has
not fired) and `Windows` (nothing is pending in both threads) are needed; a `start` that
sets the cursor, and a new runner after `destroy`, find nothing due, by `Lifecycle`.

**Cron search** (`SearchInvariant`, `SearchSkipsNothing`, `SearchFindsEarliest`,
`SearchStrictlyAfter`, `SearchGivesUpLate`, `TurnsAdvance`), from
`CalendarAssumption`, `ExprAssumption` and a constant offset (`Shift = 0`; with a
change of the offset `StrictlyAfter` is refuted, section 4): any calendar, expression,
anchor and limit. The heart is one lemma per kind of jump (month, day, hour, minute):
no minute between the candidate and the next one matches. They rest on facts about the
calendar as arithmetic (which month a day belongs to, that the fields of a minute
determine it within its hour, day and month), proved from `Division`. `Underway` ties
the results found so far to the anchor of the current search. `TurnsAdvance` is an
action property: each turn of the loop that is counted moves the candidate forward.
`SearchGivesUpLate` makes a number of this: `Paced` says that the turns taken are no
more than the days left behind, plus one while the minute is 0, two once the hour
matches too, three once everything does. The turns that go to a later day gain a day
each and arrive at minute 0; an hour is exhausted only from another minute, which the
first candidate alone can have; the turns to a matching hour and to a matching minute
end the search.

**CSV stream** (`FilterStaysInForce`, `ColumnsStayAligned`), from `CsvAssumption`.
`FilterInForce` is inductive; its lemma `NextSettles` follows the header, the filter,
its plan and the error through every call, including those that fail half way.
`Aligned`: while no allocation has failed, every selected column has one entry per
match; its strengthening `Stores` says that no row is stored before the header is known.

**Frame parsers** (`ChunksDoNotMatter`, `HandedOutStays`, `BuiltComesBack`), from
`FrameAssumption` and, for the last one, `WireAssumption`: any wires, buffer sizes,
pool and limits, any checksum, and any order of feeds, drains, resets and frees.

* `ChunksDoNotMatter`. `ChunkingIrrelevant` compares a stream with `OneShot` applied to
  the bytes accepted so far, and is not inductive. `Streamed` is: the frames returned
  are each whole (`WholeFrames`), and together with the bytes that remain they are the
  accepted bytes (`Sound`); an answer without a frame is the parser's verdict on
  what remains. `SizeKnown` says that the size learnt from a header is still that of
  the bytes in the buffer, and `BoundsKept` is the same for RTU, whose frames are cut
  by the caller. That whole frames followed by a rest are what `OneShot`
  finds (`AllBefore`) is an induction over the frames, and rests on one fact about each
  parser: a verdict on a frame depends on the bytes of the frame only (`ParseStable`,
  `FirstIsWhole`).
* `HandedOutStays`. A view shows the payload (`Shows`) after each step of each feed,
  because compaction waits for the next call. For the copies in the pool, `PoolInv`:
  a payload that is not exposed lies below the top and below every payload of the pool
  taken later. A frame is freed at any place; those before it lie below its
  mark, to which the pool is rewound, and those after it are exposed from then on.
* `BuiltComesBack`. For LTV: a varint that the parser accepts is the encoding that
  `ltv_build` writes (`Canonical`, `EncodingOf`), by induction over its digits, so
  that an accepted message is the one encoding of its fields. For what was built: each
  built frame parses as a whole, an error is not taken back by more
  bytes (`ErrorStays`), and so the parser cannot answer with one in the middle of
  built frames; the frames returned are a prefix of those sent, and all of them when
  the wire is read to its end.

**Jinja loading** (`InvariantHolds`, `ReferencesStayExact`, `LoadsStayAccounted`,
`OrderHolds`, `InstancesLoadOnce`), from
`LoadingAssumption`. `Types`; `Rendering`: activations and their parents are instances
of the render, and its root is kept alive by the host; `Calls`: what each step of a
load holds of the budget, a lease and a source; `Unique`: a name is cached once;
`Exact`: the count of a template is the number of its owners, except that a template
with a single owner may have count 0 if it was never cached. That exception is why
`ReferencesExact` is not inductive: a hit on a cached template increments its count
and an eviction decrements it, which is right only because what is in the cache never
has the count 0. `DropAll`, which releases the owned instances one after the other, is
shown to leave what the closed form `Left` describes; lemmas `Balance*` carry
`Exact` through one release and through the release of all instances.

`InstancesOnce` needs a second invariant, `Order`, proved on top of the first. A
parent is loaded after its child and for that child only (`Parents`), an instance is
the root of its chain or the parent of an earlier one (`Roots`), an activation is the
only one of its instance (`Actives`), and a parent has not run while its child is still
in its body or is about to run it (`Waits`); `Modular` and `Distinct` are the
conclusions. `Asking` says that what was checked before a load (no such module, no such
name along the chain) still holds when it returns. The check for a circular `extends`
walks up from `chain_root`; `ChainComplete` shows that this walk meets every
instance of the chain, by looking at the first one it would miss.

## 6. Only model-checked

* Liveness (`TickTerminates`, `CallsReturn`, `StopReturns`, `RenderEnds`): the prover
  handles neither fairness nor `ENABLED`.
* `ResultsExact`: it compares what the CSV processor stores with the rows its text was
  written from. Between the two lie splitting into lines and fields, quoting and
  unescaping, character by character, and each would need its own induction. (Recursive
  functions are within reach by least counterexample, as `ExactFlow`,
  `ChunkingIrrelevant` and `RoundTrip` show; RECURSIVE operators are not.)
* `CompletesOnce` without the restriction of section 5 is false.

## 7. Not modelled

* Memory orders weaker than sequential consistency in the value pool.
* Pool statistics counters; logging; error texts.
* The construction of a behavior tree node by node (`salts_bt_tree_add_node` between
  ticks); misuse of the API that it does not claim to support (calls from inside a
  callback, two host threads in `start` and `stop`).
* CSV: the one-shot parser, filters and indexes; filter syntax; signs, fractions and
  exponents of numbers. Modbus: the meaning of a PDU. Query VM: values and the
  disassembler. Jinja: the registry of functions, filters and globals, the compiler and
  the evaluation of expressions.
* Text parsers, formatters, plan compilation, code generation, bindings and vendored
  code: sequential transformations of large data, see `PROJECT.json` ("components")
  for each. They are most of the repository: about 158,000 lines of implementation, of
  which the generated parsers, the vendored libraries, the build-time tools, the text
  formats and the expression engine of Jinja keep no state between calls that an
  interleaving or an input order could spoil. The modules here cover the parts that do;
  their share of the lines is small and is meant to be.

## 8. Plan

Done: the behavior tree, both shared structures of DataBind, cron search and runner,
the binary stream parsers, the CSV stream processor, the query VM, template loading of
Jinja. Every invariant the runs check is proved but `ResultsExact`;
the value pool and the cron runner are proved to implement their abstract
specifications.

Left:

1. Theorems: `ResultsExact`.
2. Type-meta initialisation; the state of DataBind's stream formats; staged publication
   of the DataBind compiler's output; adding nodes to a behavior tree between ticks.
