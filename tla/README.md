# Verification of fairchain-miner

TLA+ models of the miner's concurrent core, TLC configurations that check them
on small instances, and TLAPS proofs of their main properties for every value
of the constants. Paths and line numbers are those of the repository
(`pkg/...` stands for `src/pkg/...`). `PROJECT.json` maps every definition to the
lines it models.

## 1. The system

The program mines the memory-hard hash sha256mem either for a stratum pool
(`stratum.RunMiner`) or for a node (`template.Builder` and `worker.Pool`), behind
a terminal dashboard.

| Component | Code | State | Operations |
|---|---|---|---|
| Job dispatch | `stratum/stratum.go`, `handleNotify` in `client.go` | `jobCh` (capacity 4), `currentJob`, `jobMu`/`jobCond`, each worker's job and nonce | send with drain, receive and broadcast, wait, scan, periodic check, submit |
| Stratum session | `stratum/client.go` | connection, scanner, credentials, share statistics | dial, subscribe, authorize, read loop, backoff, `SubmitShare`, `Reauthorize`, `Close` |
| Shares | `client.go`, the workers in `stratum.go` | extranonce1 and the width of extranonce2, difficulty, the counters, `requestTimes` | `set_difficulty`, `notify`, `NextExtranonce2`, `BuildHeader`, `SubmitShare` |
| Targets | `client.go`, `crypto/crypto.go`, `types/types.go` | a job's or template's bits and targets | `CompactToHash` (two of them), `DifficultyToTarget`, `LessOrEqual` |
| Solo mining | `rpc/client.go`, `template/builder.go`, `types/types.go`, `crypto/crypto.go` | the node's answers, the template, the block | `GetBlockchainInfo`, `GetBlockByHeight`, `Build`, `Assemble`, `SubmitBlock` |
| Solo worker pool | `worker/pool.go` | result channel, cancellation, wait group, each worker's position | `Mine` with workers, stale-tip detector and closer |
| Dashboard | `tui/dashboard.go`, the two menus, `worker/control.go`, `config/store.go` | overlays, form, hardware settings, configuration, stored row, commands in flight | keys, messages of other goroutines, messages of commands, save, panic, quit |
| PoW algorithm | `algorithm/` | scratchpad and hasher of a workspace | fill, mix passes, finalise; optimised, assembly and GPU variants |
| Workspaces | `memory/`, `Workspace` in `algorithm/sha256mem.go`, the worker loops | mappings with huge pages and node bindings, each worker's workspace, the settings it saw | allocate, bind, fall back to the heap, replace, free |
| Metrics, GPU discovery | `metrics/`, `discovery.go` | counters; a cached list | |

How they interact. The session's read loop is the only sender on `jobCh`, the main
loop of `RunMiner` its only receiver; workers share `currentJob` under `jobMu` and
call `SubmitShare` on whatever connection the session has. `Reauthorize` and
`Close` come from other goroutines. A difficulty is stored by one message and used
by the next `notify`. The dashboard's commands run in goroutines of their own and
change the settings (the two `control.go`) that workers read in their loops; a worker
that sees NUMA or huge pages changed replaces its workspace. A solo miner asks the
node for its tip, builds a template on it, lets the pool search and submits what the
template and the nonce found make; the code that calls these in turn is not in the
repository. Every worker hashes in a workspace that outlives the hash.

What is hard here: a condition variable used with a read lock; a bounded channel
whose sender drops the oldest entry while the receiver takes it; a connection
replaced without a lock under its users; answers that are matched by no id;
credentials swapped during a handshake; the ends of a search (a win, a
cancellation, a moved tip) falling together; messages that an overlay swallows;
what a connection was assigned replaced while workers build headers from it; two
answers of a node whose chain moves in between; memory outside Go's heap, freed by hand
and mapped again at the same address; a hash in three variants over a scratchpad that is
never cleared; and two byte orders for one comparison. `PROJECT.json` lists each hazard
at its line, with the properties that would catch it going wrong, or a note that says
why none does: where the code has the fault and a property holds only because it
excuses that case, the note names it.

What makes each component correct: dispatch never goes back to an older job, never
loses the newest one and never blocks its sender; a session runs only authorized
and under current credentials, its statistics never count more than the pool
answered, and it ends; a share is one the pool can check, no coinbase is mined twice, and a job
has the target of its difficulty; the targets accept the hashes that bits and difficulty ask
for; a search misses and loses no win, joins its workers and ends; the header submitted is
one that was hashed, on its parent; every hasher computes the same hash; a worker hashes in
memory that is mapped and its own; the dashboard's settings stay in range and reach
the backend, its store keeps what was confirmed, and a panic or quitting ends the
program.

## 2. The modules

| Module | Models | Checked by | Proved in |
|---|---|---|---|
| `LatestJob` | the promise of dispatch to workers, abstractly | refined by `JobDispatch` | |
| `JobDispatch` | read loop, channel, main loop and workers | `JobDispatch.cfg`, `JobDispatchIdle.cfg` | `JobDispatch_proofs` |
| `StratumSession` | the client with its callers, the network and the pool | `StratumSession.cfg` | `StratumSession_proofs` |
| `ShareSession` | what a share is made of, across connections; uses `LatestJob` | `ShareSession.cfg` on `MCShareSession` | `ShareSession_proofs` |
| `WorkerPool` | one call of `Pool.Mine` | with `SoloMining` | `WorkerPool_proofs` |
| `SoloMining` | node, RPC client, builder and caller around `WorkerPool`, which it extends | `SoloMining.cfg` on `MCSoloMining` | `WorkerPool_proofs` |
| `Workspaces` | the workers' scratchpads over RunMiner or calls of Mine | `Workspaces.cfg`, `WorkspacesFreed.cfg` | `Workspaces_proofs` |
| `Dashboard` | `Update`, its overlays and commands, the store | `Dashboard.cfg`, `DashboardHooks.cfg` | `Dashboard_proofs` |
| `WorkTargets` | compact bits and difficulties to targets, the comparison | `MCHashing.cfg`, `WorkTargetsSolo.cfg` | `Hashing_proofs` |
| `PowHash` | the proof of work by each hasher, and its reference | `MCHashing.cfg`, `PowHashIdentical.cfg` | `Hashing_proofs` |
| `Powers` | powers, by recursion: the weights of bytes and digits | with its users | `NatFacts` |
| `NatFacts` | facts the proofs cite: `\div` and `%`, induction and recursion on the naturals, powers and digits | | itself |

`MCHashing` instantiates `WorkTargets` and `PowHash` together: they share no state, and a
behaviour of it is one of either with the other at rest.

**JobDispatch.** Every goroutine has a program counter; an action is the code
between two points at which another goroutine can be seen, so a section under
`jobMu` that does not block is one action. A job is its number in the order of the
`mining.notify` messages, as the code compares pointers. `NewJob`, `TrySend`,
`DrainOldest` and `Resend` are the nested selects at the end of `handleNotify`;
`TakeJob` and `Publish` the main loop's case; `CheckJob` and `StartWait` the wait
(between them no lock is held); `StartIteration` and `Hash` the scan. Whether a
hash wins is left open. `late` is a history variable that counts hashes done for a
replaced job or after a cancellation. Left out: the reporter goroutine and throttling;
the re-allocation of workspaces is in `Workspaces`, what a share contains in
`ShareSession`.

**StratumSession.** The reading goroutine (`connectWithRetry`, `dialAndAuth`,
`subscribe`, `authorize`, `Run`, `handleMessage`), workers that submit,
`Reauthorize`'s callers (swap, then close), the main loop's `Close`, and an
environment of pool, network and user. A message is its kind. The pool answers in
order and refuses shares on a connection it has not authorized. `Reauthorize`'s read
of `c.conn` is a data race: it returns any connection from the last one that
`workerMu` orders before the swap up to the newest. `Close`'s read of it is taken
to be current. Left out: the length of the backoff, bytes buffered for a connection that
is closed, and the double count of an answer with a null result and an error.

**ShareSession.** The reading goroutine again, but for what it brings: `ReadSubscribe`
sets extranonce1 and the width, `HandlePush` is `handleSetDifficulty` and
`handleNotify`, in authorize as in Run. Between it and the workers stands dispatch, of
which only the promise is used: `Adopt` is `LatestJob`'s, with `Lag` the channel's
capacity. A worker is one pass of RunMiner's loop with a step for each read of shared
state: `Take` (the job), `NextExtranonce2` (the width and the counter), `BuildHeader`
(extranonce1), `SubmitShare` (the id), `StoreRequest` and `WriteRequest` (`sendJSON`
holds `writeMu` for each of the two, and not across them). Bytes are digits of a base;
a header is a job and a coinbase, a coinbase extranonce1 and extranonce2. The pool gives
every connection an extranonce1 of its own and of one length (`En1Assumption`). `tried`
(every coinbase built), `handled` (answers `handleMessage` saw) and a job's `due` (the
difficulty the pool meant it to have) are history. Left out: retries and credentials
(`StratumSession`), the hash that decides whether there is a share.

**WorkerPool.** One `Mine`: the partition, the workers' loop, the buffered result
channel, `mineCtx`, the detector with its ticker, the closer and the caller. The
winning nonces are any set, chosen initially. Left out: `NewPool`'s clamping, the
hardware settings and the throttle inside the loop.

**SoloMining.** One round of a solo miner. The functions' arguments fix the order of the
calls: chain info, the block at its height, `Build`, `Mine`, `Assemble`, `SubmitBlock`.
`GetBlock` returns the block at that height or, since no status is looked at, a block of
zeros. Between the calls the node's chain grows (`Extend`) or blocks at its top are
replaced (`Reorg`), also by a shorter chain; during the search `WorkerPool`'s
`TipMoves` stands for it, and `Build` sets it if the chain has moved before.
A serialized header is the sequence of its fields, and `Stamp` is what a worker does to
it. A hash is the term that was hashed. The coinbase is built as in the code, from the
two digests of the developer's address that the code compares: they differ, so that
every template has the empty transaction. `torn` remembers that the last two answers do
not belong together. Left out: the height's push, `VerifyTemplates` switched off, merkle
roots over more than one transaction.

**Workspaces.** A worker is reduced to what it does with memory: `Start` allocates,
`SeeNuma` and `SeeHuge` remember the settings, `SettingsChanged`, `FreeOld` and
`Reallocate` replace the workspace, `DeferredFree` is RunMiner's deferred call;
Mine's workers just return. A region is an address the kernel may choose, again and
again; `mapped` is both the kernel's view and the table in which `syscall.Munmap`
looks an address up before it unmaps. Huge and ordinary mappings are told apart
nowhere after the allocation and are one. A mapping may fail, and so may its binding,
which leaves the mapping behind (`unbound`). `Hash` needs its memory mapped, `Crash`
is what happens otherwise. Left out: sizes, the parsing of the nodes' lists of CPUs,
`RunBenchmark`.

**Dashboard.** One action per key or message, each as `Update` routes it: the open
overlays decide who gets it. A command is in flight from the update that returns
it to the update that receives its message. The question before a panic is an overlay
like the others: its "y" is a command, and only "n" closes it. NUMA, huge pages and affinity are one
switch; a temperature is its position towards the thermal limit; text is told
apart by its origin. Left out: the menu's cursor, views, logs, statistics, the
form's other fields and the row's hardware columns, and the copies of the user outside
the dashboard (the stratum client, `RunMiner`'s arguments), which a panic does not
touch. A write to the store never fails.

**WorkTargets.** Bytes are digits of a base, `big.Int` and `big.Float` naturals and
fractions. `Notify` uses the difficulty in force; `Build` refuses bits of zero. The
rest of `handleNotify` is in `JobDispatch` and `ShareSession`, the rest of `Build` in
`SoloMining`.

**PowHash.** SHA-256 is any compression function of a state and a block of two halves,
and a word's ARX step any function of the word and the index. One action fills a slot or
does a round of mixing; both hashers' loops have the same actions, and differ where the
code differs: whether a midstate is used (`Seed`), what a hardened slot is (`Fill`), which
word gives the index (`Offset`) and what a round computes (`Mix`). `mem` and `midState`
stay from hash to hash. `Reference` is the algorithm as a recursive function, next to
which the hashers' outputs are put. The assembly's compression is taken to be the same
function as Go's; its byte order is not modelled.

## 3. The runs

Passing runs:

| Run | Instance | Shows |
|---|---|---|
| `dispatch` | 2 workers, 6 nonces, a check every 2, capacity 2, 3 jobs | `QueueHoldsNewest`, `SendNeverBlocks`, `StaleWorkBounded`, `ParksOnlyAtStart`, the refinement `ImplementsLatestJob`; `WorkersFollowPool`, `WorkersStop` |
| `session` | 2 callers, 2 authorize lines, 2 connections, 2 swaps, 1 share, 2 notifications | `CredentialsCurrent`, `AuthorizedByPool`, `AcceptedByPool`; `HandshakeEnds`, `RunEndsWithContext` |
| `shares` | 2 workers, base 2, 2 connections with 1 and 2 bytes of extranonce2, 2 pushes, 3 extranonce2 values, 1 share | `SharesVerify`, `CoinbasesDistinct`, `LedgerExact`, `TargetIsPools` |
| `pool_mine` | 2 workers, 3 nonces, every set of winners, a chain of 3 blocks and one that is learned | `NothingMissed`, `WinIsReturned`, `SubmittedWins`, `TimestampFollowsParent`; `SearchEnds` |
| `workspaces` | 2 workers, 4 regions, 1 change of a setting, 2 calls of Mine | `OwnUntilReturn`, `FreedOnReturn`, `MappingsBounded` |
| `dashboard_safe` | power 1 to 4 in steps of 2, 3 fields, 7 events | `PowerInRange`, `NoRpcStored`, `SavedFormSticks`; `QuitEnds` |
| `targets` | base 3, hashes of 6 bytes, exponents to 7, difficulties with terms to 3; 4 slots of 3 words of 2 bits, hardening every 2, 3 rounds a pass, a cycle of 2, 2 headers, 2 nonces | `NetTargetExact`, `NoShareMissed`; `HashIsReference`, `ScratchpadIsHeaders` |

Why the bounds are enough. Three jobs fill a channel of two and force a drain, with
the main loop anywhere. Six nonces for two workers make one range begin at a
multiple of the check period and the other between two, which is where
`StaleWorkBounded` is tight. Two connections and two swaps let a swap fall before,
inside and after a handshake and overlap another swap; two notifications use up
authorize's lines, so that its "timeout" is reached. In `shares` two connections differ in
extranonce1 and width, so that a header can be built from either of each; a width of
one byte in base 2 has two values, and the third that is taken comes round again; two
pushes are a difficulty and a job, in both orders, before and after authorize's answer,
or one on each connection. The workers are symmetric. Three nonces over two workers leave
a remainder of one; one more block is a tip that grows, or a top that is replaced, in each
of the caller's steps, and the chain may shrink by one or two. Four regions hold two workers' scratchpads from two calls of
Mine, and one change makes both of RunMiner's workers replace theirs, each in any of
the other's places. Seven events are enough to open the form, edit, save,
open an overlay and quit; a power limit of 4 with steps of 2 passes both
ends by an odd and an even amount. In base 3 every length of a quotient occurs,
with and without leading zeros, and every exponent from a mantissa shifted away to
a number that no longer fits. Four slots are two hardened and two filled ones after the
seed, in any of which an earlier hash may have left something; three rounds are no
multiple of the cycle, as 32768 is none of 7. Every property has a mutant of the code, kept in its
module, that makes the run fail.

Runs that end in a violation, each of something the repository says of itself:

| Run | What is said | What the trace shows |
|---|---|---|
| `dispatch_idle` | all cores are used (`DOCS/TUNING.md:34`) | The first job is published after a worker has given the read lock up and before it waits: it sleeps with a job current until the pool sends another (`stratum.go:127`). |
| `workspaces_freed` | "Workspace holds per-goroutine pre-allocated memory" (`sha256mem.go:33`) | `defer ws.Free()` keeps the first workspace (`stratum.go:112`): a worker that has replaced it frees its address a second time, where by then another worker hashes. |
| `dashboard_hooks` | "Trigger backend hooks based on TUI actions" (`dashboard.go:357`) | The message that carries a changed setting comes back while the hardware menu is open, and is swallowed there. |
| `pow_identical` | "Every optimization must produce the identical hash output as the reference" (`README.md:48`) | `amd64Hasher` counts the rounds of both passes on and takes the offset from the count (`sha256mem_amd64.go:85`): since 32768 % 7 is 1, its second pass is one word ahead of the reference's. With the build tag `sha_ni` a compression also stands for a whole SHA-256. |
| `targets_solo` | "returns true if this hash is <= target hash" (`types.go:90`) | A template's target has its lowest byte where the comparison looks for the highest: the number of hashes that pass is not the one the bits ask for. |

Disagreements met on the way that have no run of their own:

- `DifficultyToTarget` writes the upper half from the top without its leading zeros
  (`client.go:742`), although it "converts a relative difficulty value to a target hash"
  (`client.go:716`). Its targets are too easy and never too hard, so that no share the
  pool wants is missed (`NoShareMissed`) and many are sent that it refuses; a raised
  difficulty can give an easier target (257 after 256).
- A panic that is confirmed ends nothing: the answer "y" makes it a command and leaves
  the question open (`dashboard.go:177`), whose branch of `Update` then gets the command's
  message, looks at keys only and returns (`dashboard.go:183`). Only if the user declines
  the question again before the command's goroutine has run are the configuration and
  the inputs cleared and the program quit ("This will clear all sensitive credentials
  from memory", "and immediately terminate the miner.", `dashboard.go:713`). The model's
  `ConfirmPanic` and `Panic` have it, and no passing property is about a panic.
- `authorize` takes the error answer to a worker's share for the rejection of its own
  request (`client.go:528`, "This should be our auth response.").
- The first eight bytes of the SHA-256 of `devAddr` are 0x3fdd6bc1fb61d05e and not what
  `builder.go:200` compares them with: `makeCoinbaseTx` always returns an empty
  transaction, and no block of a solo miner has inputs or outputs (`builder.go:211`: "the
  entire subsidy goes to the developer address").
- `HashWithNonce` never copies the header it is given, since an array's length is never
  0 (`sha256mem_opt.go:115`); nothing calls it.

## 4. Fairness

- `JobDispatch`: weak fairness for the read loop inside a send, the main loop and
  each worker. Go's scheduler is preemptive and no section under `jobMu` blocks.
  The pool need not send and the user need not cancel.
- `StratumSession`: the reading goroutine, a `Reauthorize` between swap and close, and
  the main loop after a cancellation. `Spec` adds that a pool whose connection is
  up answers: no read of the client has a deadline, so a silent pool stops it.
- `SoloMining`: the pool's workers, closer, caller and the detector's check, once the
  search has begun. The detector's wait has none: its ticker may be late for ever. The
  miner's caller owes nothing.
- `Dashboard`: a command's goroutine runs and the loop takes its message, a panic's too.
  Keys and statistics owe nothing. Deadlock is not checked in its runs: the loop waits for
  the next event, and none is left after the bound.
- `ShareSession`, `Workspaces`, `WorkTargets` and `PowHash` state no liveness. In the run
  `shares` deadlock is not checked: with the connections used up and the pushes spent
  there may be no job to take.

Bounds (`MaxJobs`, `MaxConns`, `MaxReauths`, `MaxShares`, `MaxPushes`, `MaxTakes`,
`MaxBlocks`, `MaxEvents`) are guards of environment actions, of dialling, or in
`ShareSession` of the workers' steps, about which no liveness is stated there.

## 5. What is proved

TLAPS checks these for all values of the constants, from the named assumptions in
the modules only (positive numbers of workers, capacities and lines; a step no
larger than the range; a pool that tells its connections apart; a compression function
that returns a hash; a base of at least two and a unit that fits into half a hash).

- **JobDispatch.** `QueueHoldsNewest`, `SendNeverBlocks`, `StaleWorkBounded`,
  `ParksOnlyAtStart`, type correctness, and that it implements `LatestJob`. The
  invariant `IInv` adds what they need: a job exists while it is being sent
  (`SendingHasJob`), published jobs and workers' jobs are in order (`JobOrder`), and
  late hashes are within an allowance that depends on the worker's place in its
  period (`LateWithinAllowance`) - the bound itself is not inductive, since a worker
  just below it could hash once more unless its position is known. The refinement
  maps `Publish` and all scan steps to stutters, `TakeJob` to `Adopt`, `CheckJob` to
  `TakeUp`; `Adopt` needs `QueueHoldsNewest` for its lag.
- **StratumSession.** `CredentialsCurrent`, `AuthorizedByPool`, type correctness, for any
  number of callers. `IInv` adds `Published` (authorize's read of the credentials makes
  the connection visible to later swaps, so that a `Close` can no longer miss it),
  `LinesLeft`, and `TrueIsAuthorized` (a "true" in flight implies that the pool has
  authorized the connection). `AcceptedByPool` adds two facts: one authorize is sent on a
  connection and none is on its way once the pool has consented (`AuthorizeOnce`), and the
  shares counted as accepted and the "true" lines in flight are together no more than the
  pool has accepted, but for the one that authorize will take (`TruesCounted`).
- **ShareSession.** `SharesVerify`, `LedgerExact`, `TargetIsPools`, `CoinbasesDistinct` and
  type correctness, for any number of workers. `SharesVerify` rests on `ShareInv`: a job of the connection exists
  only after subscribe has set what the connection was assigned (`JobsOfAssigned`), so a
  worker that has taken one reads the width and extranonce1 of it or of a later one
  (`OwnWork`). `LedgerExact` rests on `IdsInv`: an id is in flight or answered only after
  its entry was made, and until its write it is no other's. `TargetIsPools` needs
  `DiffInv`, which says for every line in flight with which difficulty the client will
  come to it. `CoinbasesDistinct` needs that a value which is taken is no other worker's and
  not tried yet (`Fresh`), that a coinbase is made of some connection's extranonce1, the
  client having one before its first job (`SubscribedOnce`), and of its own value
  (`TriedOnce`). Since every extranonce1 is equally long, equal coinbases have equal
  extranonce2, and values with the same bytes have the same remainder by the power of the
  width (`SameDigits`, by induction over the bytes): distinct ones are that power apart.
  `SharesUseThePromise` is the refinement of `LatestJob`: what this module assumes of
  dispatch is the specification that `JobDispatch` is proved to implement.
- **WorkerPool and SoloMining.** The partition is disjoint and complete; `FoundWins`,
  `NothingMissed`, `WinIsReturned` and `WorkersStopped` of the pool alone; that
  `SoloMining` implements it (`SoloImplementsPool`: `Build` is a stutter or `TipMoves`, the
  caller's and the node's other steps are stutters), so that `WinIsReturned` and
  `NothingMissed` hold there; type correctness (`SoloTypeOK`); `SubmittedWins`, with the invariant that the template's bytes
  and signature are its fields', and `TimestampFollowsParent`, with the invariant that
  until the answers are torn the chain still has the best block at its height.
- **PowHash.** `HashIsReference`, `ScratchpadIsHeaders` and type correctness, for any sizes
  and any compression function. The invariant is that the slots below the counter are the
  header's, that the midstate is, and that a hasher other than `amd64Hasher` has
  the accumulator that the reference has after as many rounds (`AccInv`). The reference is a recursive function: that it has a value, and
  which, follows from `RecursionExists`.
- **WorkTargets.** `NetTargetExact`, `NoShareMissed` and type correctness, for any base, size
  of hash and bounds. The invariant ties each target to the bits or the difficulty it was
  made of; the rest is arithmetic: the bytes of a number give the number back, and where
  two hashes first differ, from the highest byte down, decides between their numbers.
- **Workspaces.** `OwnUntilReturn`, `FreedOnReturn`, `MappingsBounded`, type
  correctness, for any number of workers and regions (with it: a worker past its first
  allocation has a workspace, whichever allocation failed). `IInv` says of ownership
  that it holds for every worker that has a workspace and not only of one that hashes
  (`AllOwn`), that only RunMiner's workers come to a deferred call, and that without a
  change the settings seen are the first ones, so that nothing is replaced and the
  deferred call frees the worker's own (`NothingReplaced`, `AllUsed`). For
  `MappingsBounded` the bound mappings that no worker's variable names any more are
  none under RunMiner, and those of Mine's earlier calls (`LeaksBounded`).
- **Dashboard.** `PowerInRange`, `FocusShown`, `NoRpcStored` (with: the configuration in
  memory holds no node's address), `SavedFormSticks` (with: after a save the form is
  closed and its inputs are that row), type correctness.
- **NatFacts** proves what these use of the naturals. The library's induction takes an
  operator as its parameter, which the provers cannot instantiate; `SetInduction` takes the
  set of the numbers for which the claim holds, and follows from the least element of a
  set (`LeastNat`, from `WFMin`). On it rest the existence of functions defined by recursion
  (`RecursionExists`) and the powers and digits of a number (`PowSteps`, `ModPowNext`).

Every invariant of a passing run is thereby a theorem. Only model-checked are the liveness
properties `WorkersFollowPool`, `WorkersStop`, `HandshakeEnds`, `RunEndsWithContext`,
`SearchEnds` and `QuitEnds`: TLAPS does not handle fairness and `ENABLED` here.

## 6. Not modelled, and what is left

Not modelled: the assembly, CUDA and OpenCL kernels (machine and device code) and the
choice of a GPU hasher, whose discovery is a stub; CPU affinity (a system call); the
hashrate tracker and reporter (one counter and a goroutine that averages it, with no
other state that depends on it); everything that draws; `RunBenchmark`; the loading of
the configuration, whose caller is not in the repository.

Left, in this order:

1. `Dashboard`: the hardware columns of the stored row, the pair of address and user
   that is stored for a node, the panic that its own question swallows (section 3), and
   the thermal protection behind an open overlay, as properties. `PROJECT.json` lists
   them as hazards without one, or in the note of one that has others.
2. `ShareSession` composed with `JobDispatch` itself in place of `LatestJob`.
