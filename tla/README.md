# TLA+ verification of world-zk-compute

World ZK Compute runs computations off chain and settles them on chain. Two
markets share the repository. In the *zkVM market* a requester escrows a tip
with `ExecutionEngine`, and a prover claims the request and submits a proof. In
the *optimistic ML market* a submitter stakes ETH with `TEEMLVerifier` on a
result attested by a TEE, anybody may challenge it, and an off-chain *operator*
answers challenges with ZK proofs. This directory holds TLA+ models of the parts
that move money, decide outcomes or must not lose work, the TLC instances that
check them, and proofs for the central ones.

Every module is a translation of the source. `PROJECT.json` maps each definition
to the lines it stands for, lists the runs, the hazards they address, the
findings and the theorems.

## 1. Inventory

| Component | State it keeps | Operations | What makes it correct |
|---|---|---|---|
| `contracts/src/tee/TEEMLVerifier.sol` | results, dispute flags, enclave keys, windows and amounts, ETH | submit, challenge, four ways to resolve, extend, finalize, admin setters, pause | every pot is paid once and to the winner; outcomes are earned and final; no stake stays locked |
| `contracts/src/ExecutionEngine.sol` | requests, fee, recipient, reputation, statistics, ETH | request, claim, submit, report, cancel, owner setters, pause | tips stay covered; a claim is exclusive; closed requests stay closed; a requester can get out |
| `contracts/src/ProverReputation.sol` | scores, tiers, counts by tier, bans, reporters, cooldown | register, record success, failure and abandonment, slash, ban | records match what happened in the market; tier counts are exact |
| `contracts/src/ProverRegistry.sol` | provers, array of active provers with an index map, stake total, selection commitments | register, stake, withdraw, (de)activate, slash, record, select, commit/reveal | array, indices and flags agree; stakes are backed; selection is proportional to weight |
| `TimelockController.sol`, `Upgradeable.sol` | scheduled operations, delay; implementation, admin, timelock, the upgradeable engine's requests and ETH | schedule, execute, cancel, set delay; initialize, upgrade, the engine's functions | nothing critical changes before its announced delay; tips survive upgrades |
| `contracts/src/remainder` batched sessions | sessions with three arrays each, circuits | start, continue, finalize, clean up | the batches make exactly the checks of the one-shot verification |
| `sdk/typescript` batch client | the session it drives, retries | verifyBatch, resumeBatch, cancel | what it reports as verified is verified on chain |
| `services/operator` watch loop and `store.rs`, with `crates/watcher` | next block, active disputes, processed ids, proof tasks, state file | poll, dedup, start a task, save, stop, restart | a crash loses no challenge; one task per dispute; every challenge is taken up |
| `services/operator` `circuit_breaker.rs` and `auto_finalize` | two breakers, the loop's counter | allow, record, submit finalize | a tripped breaker is quiet and recovers; results get finalized |
| `prover/` node | job queue, nonces, tasks | poll, claim, prove, submit, retry | no nonce is lost or used twice; nothing is submitted unclaimed; rounds end |
| `services/indexer` | results table, position, WebSocket slots and replay buffer | poll and index, stream | the table follows the chain; a returning client misses nothing |
| `ProgramRegistry.sol` | programs, owners, flags | register, update, (de)activate | only the owner changes a program |
| `services/proof-registry` | proofs, transparency log | append, prove inclusion | an inclusion proof verifies exactly for a logged leaf |
| `services/proof-generator`, `gateway`, `verifier`, `health-aggregator`, `admin-cli` | job table, quotas, tenants | HTTP handlers | quotas and rate limits |
| `tee/enclave` | model, keys, nonce window | infer, attest, watchdog | a nonce is not answered twice |
| `contracts/src/remainder` verifiers, `contracts/stylus`, `crates/zkml-verifier` | none | verify proofs | soundness of the arithmetic |
| other SDKs, CLI, web, examples, deployment | none of their own | wrappers | - |

Interactions. The engine reads `ProgramRegistry` and a verifier and reports to
`ProverReputation` in try/catch; the TEE contract calls a `RemainderVerifier`; the
operator and the indexer poll contract events; the operator sends
`resolveDispute` and `finalize`; the prover node polls the engine and sends claims
and proofs; the batch client drives a session of `RemainderVerifier`; the timelock
calls the proxy. Owners and admins reconfigure every contract while requests and
results are in flight.

What is hard here: one ETH balance shared by all results; deadlines with an
inclusive and an exclusive side; settings read at one step and used at another;
payments and reports that may fail; competing provers; array-with-index and
counter-by-tier bookkeeping; a position that is advanced in memory before its
events are handled and made durable after; signals in the middle of a batch;
parallel tasks that share a nonce counter; calls that time out and are mined
later; delays and owners that change while operations wait. `PROJECT.json` lists
each hazard at its line together with the properties that would catch it.

## 2. Modules

| Module | Models |
|---|---|
| `Escrow` | the abstract promise: a deal is funded, then closed by one payment out of its own pot |
| `TEEMLVerifier` | the TEE result contract; implements `Escrow` |
| `ExecutionEngine` | the request market; implements `Escrow` |
| `ProverReputation` | the reputation contract |
| `RatedMarket` | `ExecutionEngine` composed with `ProverReputation` |
| `ProverRegistry` | the staking registry |
| `TimelockController` | the delay on administrative calls |
| `UpgradeableEngine` | proxy, UUPS base and upgradeable engine, composed with `TimelockController`; implements `Escrow` |
| `DAGBatch` | batched verification sessions |
| `BatchClient` | the TypeScript client, composed with `DAGBatch` |
| `OperatorWatch` | the operator's watch loop against a chain of events |
| `CircuitBreaker` | a breaker, as operators on its record |
| `AutoFinalize` | the loop's calls through its two breakers, and the proof tasks that report to one of them |
| `ProverNode` | queue, tasks and nonces of the prover service |
| `EventStream` | the indexer's WebSocket hub |
| `Indexer` | the indexer's loop and table, composed with `EventStream` |
| `Totals` | the sum of a function's values, for the accounts of the contracts, the operator's permits, leaked connection slots and the claims of public inputs |
| `...Proofs` | theorems about the module of that name; `OperatorProofs` is about `OperatorWatch` and `AutoFinalize`, `RatedMarketProofs` also about `ExecutionEngine`, `IndexerProofs` also about `EventStream`, `ProverProofs` about `ProverRegistry` and `ProverNode`, `BatchClientProofs` also about `DAGBatch` |
| `MC...` | the TLC instances (model values, symmetry, and assumptions that say the bounds reach the interesting cases) |

### Contracts

A transaction is one action. This is sound for `TEEMLVerifier` and
`ProverRegistry` because every state-changing function that makes an external
call holds the reentrancy lock, and a revert undoes everything. In
`ExecutionEngine` only `requestExecution` lacks the lock. A nested call to it
merely appends a request, and all effects of the outer function precede its
transfers, so it is equivalent to a call right after the outer transaction.

Guards are the `require`/`revert` conditions in the order-independent form of a
conjunction; primed variables are the assignments. `now` is the block clock, and
any number of transactions may share a block. Variables marked *history* are not
in the code: they record what was paid, claimed, reported, announced or checked,
so that properties can refer to it. Signatures, hashes and verifier answers are
inputs: a hash is injective, a verifier may answer either way since the caller
picks the proof. Wallets in `Rejecting` revert on receipt of ETH.

Numbers are mathematical integers. Solidity 0.8 reverts on overflow, and every
cap in the code (`MaxAmount`, windows, fee, slash percentage) is a constant of
the model, so wrap-around is not reachable. An underflow that would revert a
report inside try/catch is excluded by the theorem `ExactTiers`.

* `TEEMLVerifier`. `results[id]` is `_results`, keyed by submitter, job and
  block as in the code's hash. `settleDispute` is `_settleDispute`;
  `resolveDispute`, `resolveDisputeHybrid` and `resolveDisputeHybridChunked`
  share `SettleByProof`.
* `ExecutionEngine`. `calculatePayout` is the decaying tip with the integer
  division of the code; a claim that lapsed is taken over by another
  `claimExecution` or freed by `reportBadProof`; `submitProof` pays prover and
  fee recipient, then calls the requester back (a callback that fails is ignored
  by the code).
* `ProverReputation`, `RatedMarket`. `Update` recomputes the tier after each
  change of a score, as every function of the contract does. `EngineStep` conjoins
  an engine action with the report it makes, and with a refusal when the
  contract would revert; nothing the reputation contract does changes the
  engine's step.
* `ProverRegistry`. `activeProvers` is the array (sequence element i + 1 is array
  element i), `proverIndex` the index map, `RemoveFromPool` the swap-and-pop.
  `Selected` is the cumulative-weight walk.
* `TimelockController`, `UpgradeableEngine`. `execute` marks the operation and
  `Execute` conjoins the effect of its call on the proxy with the timelock as
  sender; a call that would revert makes the step impossible. `upgradeTo` leaves
  the engine's storage alone and refuses an address without code (`HasCode`).
  `upgradeToAndCall` is `upgradeTo` followed by a call of the same sender, since the
  new implementation is delegated to, and has no action of its own.
* `DAGBatch`. A check is a value that says which layer, group or claim is
  checked with which binding or input proof; `checked` is the history of a session's
  checks and `OneShot` the sequence `verifyDAGProof` makes. Every call takes
  arguments of its own, since the proof is supplied again each time: the length of
  the message list of each layer of the proof, and the generators. `ValidGens` is the
  comparison with the registered hash, which only `start` and `verifyDAGProof` make;
  `supplied` is the history of a session's arguments, `earlier` that of the sessions
  before it under the same id. `crossData` has the lengths of the three stored arrays
  (offsets, bindings, output challenges) and `extent` how far their slots are in
  use: `_storeArray` never shrinks it, `_clearArray` clears up to the last length.
  Which arguments pass which checks is arithmetic and left out: the actions are
  the calls whose checks succeed, for any choice of arguments.

### Services and clients

* `OperatorWatch` separates the steps between which a crash or a signal can fall:
  poll (which advances `from_block` in memory), one step per event, the save at
  the end of a cycle, the proof tasks, and the drain of a graceful stop. The
  chain is a sequence with at most one event per block; a batch is the set of
  polled events, handled in the order of their blocks. The save is a write and a
  rename and so is atomic: it happens or it fails. A poll that a breaker or the
  endpoint refuses returns nothing.
* `AutoFinalize` shows what `OperatorWatch` assumes of the breaker. Its loop
  sleeps, polls through `rpc_cb`, and every `FinalizeEvery` iterations submits
  `finalize` for each result of the window through `chain_cb`; proof tasks record
  on `chain_cb` at any time without asking it. Time is counted in iterations.
* `ProverNode`. A task step is what runs between two awaits: taking a nonce,
  sending, waiting for the receipt, handling an error. The two kinds of proving are
  steps of their own: `Prove` on the standard path, after the claim, and `Decompose`,
  which precedes the claim of a public request. The Ethereum node keeps
  a mempool by nonce and mines the next one only; it and the engine are external.
* `Indexer` reads its position, applies one event per step and then saves the
  new position; a crash falls between any two, and the read, a write of a row and the
  save may fail. A read that fails yields 0, and the poll starts from the first block
  (`rewound`, until such a poll has come to its end). `EventStream` takes and gives back the two slots of a
  connection in separate steps, and replays from the buffer while live events
  wait in the receiver.
* `BatchClient`. Sending a call and waiting for its receipt are separate steps, and
  either may end with an error (`SendError`). A transient one makes the client send the
  call again while retries are left, so that both may be mined; any other is thrown at
  once. After an error the application resumes. All calls of the client are given the
  same proof.

## 3. Runs

| Run | Instance | Shows |
|---|---|---|
| `tee_lifecycle` | 2 results, a wallet that rejects ETH, an extension, a donation, a change of configuration, fairness | `Solvency`, `PaidOnceToWinner`, `OutcomeIsEarned`, `DisputesAreBounded`, `OutcomeIsFinal`, `ImplementsEscrow`, `EveryStakeIsReleased` |
| `engine_market` | 1 request, 2 accounts as requesters and provers, one of which rejects ETH, one change of the engine's and two transactions of both owners, fairness | `PaymentMatchesFate`, `RecordsMatchMarket`, `ImplementsEscrow`, `ClaimIsExclusive`, `FundsRecoverableWithReputation` |
| `registry_stakes` | 3 provers, a slash of 120 %, raised and lowered minimum, a selection in flight | `StakesAreBacked`, `SelectionIsProportional`, `PoolMatchesFlags` |
| `watch_recovery` | 2 disputes, a permit for each; a crash, a signal, a lost state file and a reorganisation | `CheckpointCoversChallenges`, `ActiveDisputesMatchChain`, `OneTaskPerDispute` |
| `watch_takeup` | 2 disputes, one permit, room for one id, one crash, one signal, fairness | `EveryChallengeIsTakenUp` |
| `auto_finalize` | 2 results, 2 outages, thresholds of 1 and 2, fairness | `QuietAfterTrip`, `PollsResume`, `OldestIsFinalized` |
| `prover_rounds` | 3 requests, a queue of 2, 2 tasks, 2 rounds, 1 fault, fairness | `QueueIsConsistent`, `NoncesAreAccountedFor`, `ClaimMinedBeforeProving`, `RoundEndsUnlessGap` |
| `indexer_crash` | 1 result, 3 events, 2 clients behind one address, a crash, a failed write, save or read of the position, a failed upgrade, fairness | `SlotsAreAccountedFor`, `FollowersMissNothing`, `RowsAreGenuine`, `TableCatchesUp` |
| `dag_sessions` | 2 senders, 2 blocks, 2 starts, 4 circuits around the batch sizes, 2 proofs that each call may choose from, pauses and deactivation, fairness | `MatchesOneShot`, `NoStorageLeftBehind`, `NoReplayAcrossBlocks`, `SessionsComplete` |
| `batch_client` | one client, 3 errors, a retry, 2 cancels, pauses, fairness | `ReportedIsVerified`, `ResumeCompletes` |
| `governance` | 2 accounts, one operation id, 12 calls, changed delays, 1 request, fairness | `ChangesAreAnnounced`, `AnnouncedIsExecuted`, `OnlyLapsedClaimsAreStuck`, `ImplementsEscrow` |

The type invariants of `OperatorWatch`, `ProverNode`, `Indexer`, `DAGBatch`,
`BatchClient` and `ProverRegistry` are conjuncts of one of their invariants
(`OneTaskPerDispute`, `QueueIsConsistent`, `RowsAreGenuine`, `MatchesOneShot`,
`ReportedIsVerified`, `StakesAreBacked`); those of the other contracts and of
`AutoFinalize` are only stated as theorems. Solvency of the two engines
is part of what they refine: in `Escrow`, ETH leaves only as the payment of a
deal out of its own pot.

Definitions commented *Mutation* are plausible bugs in the definition they are
named after; `PROJECT.json` pairs each property with one that must violate it.

### Where the code disagrees with what it says

One disagreement has a run that is expected to fail. `prover_gap` checks
`EveryRoundEnds`, what `nonce.rs:10` and `:21` promise of errors. A nonce is taken
before the send; when the send fails for another reason than the nonce
(`nonce.rs:138`; another prover was faster, or the call was lost) it is not given
back. Transactions behind it are never mined, `get_receipt` waits without a
timeout and the round waits for all its tasks. `RoundEndsUnlessGap` shows that
this is the only way a round fails to end.

The following were met while modelling. The models do what the code does.

Contracts:

* `docs/SECURITY_MODEL.md:68` says that without a proof within the window the
  challenger wins. The resolving functions check no deadline
  (`TEEMLVerifier.sol:346`): a late proof wins until somebody calls
  `resolveDisputeByTimeout`.
* `ExecutionEngine.sol:336` says users can always recover their funds. With the
  optional reputation contract unset (`:105`), `reportBadProof` reverts (`:503`)
  and an expired claimed request cannot be closed. `FundsRecoverableWithReputation`
  is the part that holds.
* `ExecutionEngine.sol:684` says a wrong reputation address is silently swallowed
  by try/catch. A call to an address without code reverts in the caller, outside
  the try.
* `ProverReputation.sol` documents Bronze as "Score < 5000", but a score of 0 is
  Unranked; and records may bring a score to 0 without the ban that a slash to 0
  causes.
* `ProverRegistry.sol:394` calls the seed of a selection the hash of the block
  after the commitment. Revealed in that very block, or after the EVM's window of
  256 blocks, the hash is zero.
* `ProverRegistry.sol:209` says `addStake` reactivates provers deactivated for low
  stake; it also reactivates one who opted out with enough stake.
* `ProverRegistry.sol:406`, the top N provers: with reputations at zero, index 0
  is listed repeatedly.
* `Upgradeable.sol:445` calls its core functions the same as the non-upgradeable
  version. They have no decay, and a lapsed claim can neither be taken over nor
  reported, so it strands the tip: `OnlyLapsedClaimsAreStuck`.
* With the timelock as admin, `pause` waits for the delay as well. An admin that is
  not the timelock can clear it at once with `setTimelock(0)` (by design:
  `AUDIT_FINDINGS`, M-2). `UPGRADE_GUIDE.md:236` uses OpenZeppelin's signature
  of `schedule`, which this controller does not have.
* `docs/DAG_BATCH_SECURITY.md`, section 4, allows cleaning up at any time and names
  a `batchIdx` parameter; the code requires a finalized session and takes none.
* `docs/DAG_BATCH_SECURITY.md`, section 5.4, says that the transcript ties the proofs
  supplied to the calls of a session to one another. No guard does: the generators
  are compared with the registered hash in `start` and `verifyDAGProof` only
  (`RemainderVerifier.sol:1189`, `:2008`), and `finalize` takes layer commitments, claims
  and public inputs from its own proof (`:2352`). What the transcript achieves is
  arithmetic, so the models neither show nor refute the statement. `MatchesOneShot`
  is about which checks are made; that they are those of *one* proof with the
  registered generators is stated only of sessions whose calls were given the same.
* `RemainderVerifier.sol:1988` and `:2503` say that cleaning up zeroes the slots of a
  session. The output challenges and the bindings are as many as the messages of the
  supplied proof (`:2046`). When a start in the same block is given a proof with shorter
  lists, the slots beyond them are neither cleared by the restart nor by the
  cleanup (`DAGBatchVerifier.sol:265`). `NoStorageLeftBehind` is the part that holds;
  without its exemption it is violated in `dag_sessions`.
* A circuit with a committed input layer that no atom targets can be registered, and
  no verification of it, batched or not, comes to an end: the first claim point is read
  without a check (`GKRDAGVerifier.sol:221`, `:606`). `SessionsComplete` exempts it
  (`Verifiable`).

Services and clients:

* `main.rs:1051` (operator) and `RUNBOOK.md:458` say that a challenge skipped for
  lack of a permit is retried on the next poll. The next poll starts behind its block.
* `store.rs:191` says all blocks before the saved position were processed. A
  signal in mid-batch drops the rest and saves the advanced position (`main.rs:918`),
  so that a challenge may be lost for good: `EveryChallengeIsTakenUp` exempts it
  (`DroppedAtStop`), next to the challenges skipped for lack of a permit.
* `docs/RUNBOOK.md:116` says a graceful stop waits for in-flight submissions; the
  signal that starts the stop also cancels them (`main.rs:1032`). A task
  lost in a crash after its id was saved is not restarted (`main.rs:1057`,
  documented there).
* `store.rs:252` says that without a state file polling starts at the latest
  block; it starts at block 0 (`DefaultState`).
* `docs/ARCHITECTURE.md:143` has the operator finalize unchallenged results. Each
  round submits closed and challenged ones again, and their reverts open
  the breaker before later ones are tried: `OldestIsFinalized` holds, and the same
  statement about every result does not.
* `circuit_breaker.rs:187` says a failure recorded while open "Shouldn't happen
  (calls blocked)"; proof tasks do it.
* The decomposed path proves a public request (`monitor.rs:782`) before it claims it
  (`:845`), so that the work is lost when another prover is faster. The standard path
  claims first; `ClaimMinedBeforeProving` says what holds of each.
* `queue.rs:192` says "Remove worst to make room" and removes the best job. A private request
  whose proof is cached or decomposed is claimed twice (`monitor.rs:697`, `:845`).
  The status in a receipt is not looked at, `pending_count` wraps below zero after
  a synchronisation, and a synchronisation hands out nonces that are pending.
* `websocket.rs:111` says ids are "Never reused, never zero"; they start at 1 again
  after a restart. A failed upgrade keeps both slots for good (`:446`); the
  `break` at `:560` leaves only the replay, not the connection.
* The indexer logs an event it cannot store and moves its position past it
  (`main.rs:658`). When it cannot read its position it starts from block 0
  (`main.rs:459`): old statuses are written over newer ones until the poll ends, and a
  crash before that leaves them in the table for good, behind the saved position.
  `RowsAreGenuine` and `TableCatchesUp` exempt this (`rewound`).
* A retried `start` of the batch client leaves an orphaned session, a
  retried `cleanup` reports an error although it was done, and a duplicated
  `continue` makes `verifyBatch` throw. `ResumeCompletes` shows that resuming helps.

### Bounds, and why they are enough

Two results share one balance, which is what could let one be paid from the
other; a third adds no new kind of interaction. The engines are checked with one
request: the composed state is large, and that requests do not interfere is
what the theorems of section 4 prove for any number of them. Two accounts
play all roles, and one of them may hold a wallet that rejects ETH. Windows of one
or two blocks and a clock that always runs past the last deadline (the
`ClockReachesEveryDeadline` assumptions) put a transaction before, at and after
every deadline. Tips of 2 (below the minimum) and 41 with a decay over two blocks
exercise the guard and the rounding of the payout; a fee of 1001 is above the cap.
A penalty of 10000 takes a score to 0 and bans. The registry needs three provers
so that a removal moves an element that is neither removed nor first. For the
operator two disputes give a batch that is cut in the middle; one of each fault, in
any order and place, covers a fault during the recovery from another one. Two
results let the older one's reverts open the breaker before the younger is tried.
Three requests overflow a queue of two, and two rounds let a request come back. A
buffer of two and a channel of one make clients lag and events fall out of the
buffer within three events. Circuits with 1, 2 and 5 layers and input layers of 0
to 4 groups lie below, at and above multiples of the batch sizes of 2; the two proofs
differ in their number of layers, in the length of each list, in both directions, and in
the generators, of which one circuit accepts only one. Two starts make a restart in the same
block. Errors exceed retries, so that a call is given up. Of governance, one id suffices because
an id can be used once only and its slot is what operations share; a delay that is
raised and one that is lowered both occur while an operation waits.

`MaxConfigOps`, `MaxOwnerOps`, `MaxAdminOps`, `MaxAdmin`, `MaxDonated`,
`MaxCrashes`, `MaxSignals`, `MaxStateLosses`, `MaxReorgs`, `MaxFaults`,
`MaxOutages`, `MaxRounds`, `MaxEvents`, `MaxFailedUpgrades`, `MaxStarts`,
`MaxErrors` and `MaxCancels` bound what may otherwise happen without limit. The
properties proved in section 4 do not depend on the values of any of these bounds.

The operator's tracker keeps 1 or 2 ids instead of 10 000, and the breakers trip
after 2 failures instead of 3 or 5: only whether a limit is reached matters.
Provers and disputes are interchangeable, so the safety runs with several of them
use symmetry; the liveness runs do not.

Deadlock is checked where the system always has a step. In `prover_*`,
`indexer_crash`, `dag_sessions`, `batch_client` and `governance` all bounds may be
used up with nothing left to do, which is where the model ends and not the system.

### Fairness

* `TEEMLVerifier`: blocks keep being mined; an admin does not leave the contract
  paused for good; `finalize` and `resolveDisputeByTimeout` may be called by
  anyone and each pays somebody, who keeps sending it (strong fairness, since
  pauses interrupt it). Nobody is assumed to challenge, prove or extend.
  The property exempts results with a party whose wallet rejects the payout.
* `RatedMarket`: blocks keep being mined; the requester keeps trying to report
  a lapsed claim and to cancel, neither of which the pause prevents. Both are
  strong, since a new claim disables them. Provers and owners owe nothing.
* `OperatorWatch`: the process is restarted (`restart: unless-stopped` in
  `docker-compose.yml`), its loop and tasks are scheduled by the runtime, the
  RPC endpoint answers infinitely often (strong fairness of `Poll`, since a poll
  may fail in between), sent transactions are mined.
* `AutoFinalize`: the loop runs. The endpoint is not assumed to be up: the
  properties are conditional on it.
* `ProverNode`: the runtime keeps polling the loop and the tasks, and the
  account's next transaction is mined.
* `Indexer`: the loop sleeps and polls for ever. Clients owe nothing.
* `DAGBatch`: the owner of a session keeps calling with a valid proof.
  `BatchClient`: the client runs, what it sends is mined, and the application
  resumes after an error. Both properties are conditional on the contract not
  staying paused and on a circuit that the one-shot function can verify too.
* `UpgradeableEngine`: blocks are mined, somebody executes an operation that is
  ready (anyone may), a requester whose request stays unclaimed cancels it.

## 4. Proofs

All theorems hold for every value of the constants that satisfies the named
assumptions of the module. No bound occurs in them other than as a natural
number.

### `TEEMLVerifierProofs`

| Theorem | Statement |
|---|---|
| `TypeCorrect` | `Spec => []TypeOK` |
| `ResultInvariant` | `Spec => [](TypeOK /\ ResultInv)` |
| `Solvent` | `Spec => []Solvency` |
| `Payment` | `Spec => []PaidOnceToWinner` |
| `Outcomes` | `Spec => []OutcomeIsEarned` |
| `BoundedDisputes` | `Spec => []DisputesAreBounded` |
| `Finality` | `Spec => OutcomeIsFinal` |
| `Refinement` | `Spec => ImplementsEscrow` |

From `AccountAssumption`, `FiniteAssumption` (addresses and hashes have a fixed
width, so that a sum over all results exists), `NatAssumption`, `InitAssumption`. None of the safety
properties is inductive. That the winner has been paid once
says nothing about a state with `disputeResolved` set and `finalized` not, from
which a second payment would follow; that an outcome is earned must survive the
clock, and the bound on the deadline must count the extensions used so far. The
inductive invariant is `TypeOK /\ ResultInv`, where `ResultInv` says of each
result:

* `Lifecycle`: which flags go together. Nothing is set before submission, a
  resolved dispute is exactly a challenged and finalized result, an unchallenged
  one has neither bond nor extensions, and the parties are real accounts.
* `Timing`: an unchallenged finalized result is past its challenge deadline, a
  dispute's deadline is bounded by the extensions used, and a recorded outcome
  has its verdict or its expired deadline.
* `Settlement`: who has been paid, as a function of the flags.

Each action preserves it: one lemma per action (or group of actions that leave
the results alone), and inside it one step per conjunct for the touched result
and a frame argument for the others. `OutcomeIsFinal` follows because each action
that changes a result is disabled when it is finalized. For `Solvency` each action
changes what is owed for one result, by what it takes in or pays out, and
`TotalChange` carries that to the sum. For the refinement each
action is a funding, a closing, a donation or a stutter of `Escrow`, and the
invariant gives the pot that is paid.

### `RatedMarketProofs`

Part 1 is about `ExecutionEngine` alone, part 2 about the composition.

| Theorem | Statement |
|---|---|
| `EngineInvariant` | `Spec => []Inv` |
| `TypeCorrect` | `Spec => []TypeOK` |
| `Payment` | `Spec => []PaymentMatchesFate` |
| `Reports` | `Spec => []NoClaimReportedTwice` |
| `Exclusive` | `Spec => ClaimIsExclusive` |
| `Closed` | `Spec => ClosedForGood` |
| `TipFalls` | `Spec => TipNeverRises` |
| `Refinement` | `Spec => ImplementsEscrow` |
| `ReputationNeverInterferes` | `RatedSpec => Spec` |
| `ExactTiers` | `RatedSpec => [](RepTypeOK /\ TiersAddUp)` |
| `EarnedCredits` | `RatedSpec => []CreditsAreEarned` |
| `RecordsMatch` | `RatedSpec => []RecordsMatchMarket` |

From `AccountAssumption`, `NatAssumption` and `InitAssumption` of the engine,
`ProverAssumption` and `ScoreAssumption` of the reputation contract, and
`SameAccounts` and `ArgumentAssumption` of the composition. `Inv` is `TypeOK` and,
of each request, `Stored` (slots beyond the counter are empty, the tip is the one
escrowed, a request was made in the past, and a claim's deadline lies within a
window of the expiry), `Fate` (what was paid, by status) and `Reported` (there
are no more reports than claims that ended). The arithmetic of the decay is in
lemmas of its own: the payout lies between half the tip and the tip and falls with
time, also across the end of the period, for every rounding.

`ReputationNeverInterferes` lifts every engine theorem to the composition. The
tier counts need the cardinalities of `FiniteSetTheorems`: moving one prover
from one tier to another takes the counts down and up by one, and the count that
is taken down is positive because the prover is in it. `RatedInv` adds that a
running claim has a real claimant and was made in the past (`Named`), so that
a report meets a prover and the proving time is a natural number. `Ledger`, the
first conjunct of `RecordsMatchMarket` together with the fact that an unregistered
prover has no jobs on record, is kept because every call of the engine raises
`reports` by one and either one prover's jobs or `refused` by one; a registration
resets a record, which loses nothing as there was none.

### `ProverProofs`

Part 1 is about `ProverRegistry`, whose specification is `RegistrySpec`, part 2 about
`ProverNode`.

| Theorem | Statement |
|---|---|
| `PoolConsistent` | `RegistrySpec => []PoolMatchesFlags` |
| `StakesBacked` | `RegistrySpec => []StakesAreBacked` |
| `FairSelection` | `RegistrySpec => []SelectionIsProportional` |
| `MinimumKept` | `RegistrySpec => BelowMinimumOnlyByRaise` |
| `NodeInvariant` | `Spec => []NodeInv` |
| `ConsistentQueue` | `Spec => []QueueIsConsistent` |
| `AccountedNonces` | `Spec => []NoncesAreAccountedFor` |
| `ClaimFirst` | `Spec => []ClaimMinedBeforeProving` |

Part 1 is from `RegistryAssumption` and, for the sum, `FiniteAssumption`. The invariant is `PoolInv`: the types the array needs,
`PoolMatchesFlags`, and `ActiveAreRegistered`. The last is needed because
`register` appends a prover it has only checked not to be registered; were such a
prover active, it would be listed twice. `AppendKeepsPool` and `RemoveKeepsPool`
are the two lemmas about the array. The second is the swap-and-pop argument: the
moved element's index is the removed one's, the others keep theirs, and the case in
which the removed prover is itself the last is covered by the order of the two
index writes. `StakeInv` adds the total and the remaining types; a slash of more
than the whole stake is the case that needs the cap in `slash`. For `FairSelection`
the cumulative weights are a rising function of the array's index; each random value
below the total lies in exactly one of its steps (by the least-number argument of
`TotalsProofs`), and the step of a prover has the length of its weight.

Part 2 is from `RequestAssumption` and `NatAssumption`. `NodeInv` is `TypeOK`, `QueueInv`,
`NonceInv` and, for the task of each request, `TaskOK`: a transaction that is waited
for is in the mempool or mined, one that collided is not the only one with its
nonce, and a request is planned after an early claim, proved on the standard path, or
submitted only after its claim was mined; one that is decomposed is claimed if it is
private, and a task remembers whether it was claimed early. The
nonce accounting is not inductive without `TaskOK`, since a task that gives its nonce
up must leave somebody else responsible for it; and `TaskOK` is what makes a
synchronisation, which may move the counter back, lose nothing. In the queue, the
full case removes the best job, so that size and ids have to be counted
together (`JobAdded`, `JobRemoved`).

### `UpgradeableEngineProofs`

| Theorem | Statement |
|---|---|
| `AnnouncedChanges` | `Spec => ChangesAreAnnounced` |
| `TypeCorrect` | `Spec => []TypeOK` |
| `Refinement` | `Spec => ImplementsEscrow` |

From `TimelockAssumption`, `SlotAssumption`, `EngineAssumption`,
`RequestAssumption` and `CallAssumption`. `GovInv` says that every operation is
backed by an announcement with the same call and a delay no shorter than the
minimum of that time, that there is one announcement per id, and that before
initialization there is neither admin nor timelock. `MarketInv` says that the
slots below the counter are the ones in use, that nothing is paid while a request
is open, and that an engine that is not initialized has no requests, which is what
makes `initialize` harmless.

### `OperatorProofs`

Part 1 is about `OperatorWatch`, part 2 about `AutoFinalize`, whose specification is
`CallsSpec`.

| Theorem | Statement |
|---|---|
| `WatchInvariant` | `Spec => []WatchInv` |
| `TypeCorrect` | `Spec => []TypeOK` |
| `ActiveMatchChain` | `Spec => []ActiveDisputesMatchChain` |
| `RoomInvariant` | `Room => (Spec => []RoomInv)` |
| `CheckpointCovers` | `Room => (Spec => []CheckpointCoversChallenges)` |
| `OneTaskEach` | `Room => (Spec => []OneTaskPerDispute)` |
| `CallsTypeCorrect` | `CallsSpec => []CallsTypeOK` |
| `SoundBreakers` | `CallsSpec => []BreakersAreSound` |
| `Quiet` | `CallsSpec => QuietAfterTrip` |

Part 1 is from `OperatorAssumption` and `FiniteAssumption`. `WatchInv` says of a state of
the operator, a set of events still to be handled and the chain (`Good`): a tracked
dispute was challenged; one that is processed, or whose challenge is behind the
position, is tracked until its end is handled; no end is behind while its challenge is
to come. It holds of the memory with the current batch and of the state file with the
empty one, which is why a crash at any point is harmless: a restart takes
up a state that was good when it was saved, and the chain only grows or shifts
(`Moves`). The lemmas are about arbitrary chains, states and batches, and each
action is an instance of one.

`CheckpointCovers` and `OneTaskEach` are false in general: an operator that has seen
more disputes than `MAX_PROCESSED_IDS` (10 000) evicts ids, and a re-delivered
challenge starts a second task. Both are proved for an operator with `Room`, that is
`Cardinality(Disputes) <= MAX_PROCESSED_IDS`, for any number of crashes, signals, lost
files and reorganisations. `RoomInv` adds that ids are distinct, that the challenges
behind a position are among them unless skipped, and that a dispute with a task is
processed. The instance of `watch_recovery` has room; that of `watch_takeup` has not,
and shows that evictions lose no challenge.

Part 2 is from `CallsAssumption`. That no call passes soon after a trip needs to know
that the breaker's own clock and the history `sinceTrip` agree while it is open
(`Timed`), which a success recorded by a late task could have broken had the code
closed the breaker on it.

### `IndexerProofs`

| Theorem | Statement |
|---|---|
| `IndexerInvariant` | `Spec => []IndexerInv` |
| `SlotsAccounted` | `Spec => []SlotsAreAccountedFor` |
| `NothingMissed` | `Spec => []FollowersMissNothing` |
| `GenuineRows` | `Spec => []RowsAreGenuine` |

From `FollowerAssumption` (clients are finitely many, so that connections can be
counted) and `CapacityAssumption`. `IndexerInv` is `StreamInv`
and `RowInv`.

`SlotsAreAccountedFor` is inductive with the types: every step moves one connection
from one place to another, and `CountsMove` says what that does to the two counts; a
slot lost in an upgrade moves from a count to the sum of `leaked`. `FollowersMissNothing`
is not inductive: it is silent about a client that is away, or open and still
waiting for its replay, with live events in hand that lie beyond a gap. `Follow` says what such a client
has: until the replay everything up to the `since_id` of its subscription, after it
everything up to the highest id it has seen, and a receiver that is at most one ahead
of that id. That the replay closes the gap rests on two facts about the hub: the
buffer is the end of what was sent (`LastOf`, kept by `Buffered` also when it drops
the oldest), and the receiver starts where the buffer ended when the connection was
opened. A restart empties the stream and starts the ids anew, which is why a client
that was connected before it is exempt (`stale`).

`RowInv` strengthens `RowsAreGenuine` by the poll under way: a row is behind neither
the saved position nor the next event to apply. A poll that starts from the first
block gives up the first half, so that the two halves are separate: during such a
poll a row is only known not to be behind the next event, which when the poll ends is
beyond the saved position again; after a crash in it (`Late`) the later polls restore
neither, until one starts from the first block again. The case to argue is an event that
the statement ignores, a submission whose row exists or another event whose row does not. It
rests on the contract's order, in which the first event of a result and no other is its
submission (`SubmittedFirst`): an ignored event is one the row is already past. A crash
only forgets the poll.

### `BatchClientProofs`

Part 1 is about `DAGBatch`, part 2 about `BatchClient`, whose specification is
`ClientSpec`.

| Theorem | Statement |
|---|---|
| `BatchInvariant` | `Spec => []BatchInv` |
| `OneShotMatched` | `Spec => []MatchesOneShot` |
| `NothingLeft` | `Spec => []NoStorageLeftBehind` |
| `NoReplay` | `Spec => NoReplayAcrossBlocks` |
| `ClientInvariant` | `ClientSpec => []ClientInv` |
| `ClientDrives` | `ClientSpec => Spec` |
| `Reported` | `ClientSpec => []ReportedIsVerified` |

Part 1 is from `DAGAssumption`: the batch sizes are positive, and a circuit is any
number of layers and any sequence of committed and public inputs with any number of
claims. `MatchesOneShot` is not inductive: a session whose checks are a prefix of the
one-shot sequence could go on anywhere. `BatchInv` says which prefix it is. `SessionOK`
reads it off the counters of the session: the layers of `nextBatchIdx` batches, then
the first `finalizeInputIdx` input layers, then `finalizeGroupsDone` groups of the
next one (`DoneSoFar`). It also says that the two phases do not overlap (no input is
checked while batches are left), that the group counter is non-zero only inside a
committed layer that has groups left, and that the stored bindings are as many as the
layers checked, which is what makes a later batch use the binding of its own layer.

`NoStorageLeftBehind` needs the lengths of the arrays. `StoreOK` distinguishes whether
there was an earlier session under the id. Without one the slots in use are exactly
the arrays. With one, and with the same arguments throughout, both are determined by
the number of layers (`GivenOnce`): the slots in use are those of some session that had
come at least as far, so that a session that is finalized, and has come all the way,
covers them and its cleanup clears all. The sum of the message lists over a range of
layers is split and compared with `TotalsProofs` (`BindingsSplit`, `DataGrows`).

The argument has three layers. About sequences: `FlattenSeq`, a recursive function of the
library, is characterised by the sequence of its partial concatenations (`Joins`),
whose existence and uniqueness are shown with a least counterexample, so that no
induction principle is needed; checks in a range are then slices of a function, and
slices that meet join. About the arithmetic of batches: the range of batch b ends
where that of b + 1 starts, and the last one ends at the number of layers, for every
batch size, divisor or not (`BatchArithmetic`). About the finalize loop: a call that
starts at `finalizeInputIdx` recomputes the proof index and the claim index that the
one-shot loop has at that layer (`countCommittedBefore` plus the committed ones passed
since is the count from 0, and likewise the sum of claims, with `TotalsProofs`), so what
it checks up to a layer joins what was done to what the one-shot loop does up to it
(`LoopInvariant`). `NoReplay` follows from the same lemmas: a call either
concatenates to `checked`, starts a session of the current block, or deletes one.

Part 2 adds `ClientAssumption`. `ClientInv` is `BatchInv` and what the client knows:
the call waited for is the last one in the mempool and every other was given up
on after an error (`PoolOK`); after a finalize that succeeded the session is verified, and a
receipt of a start names a session (`PhaseOK`); a session that is finalized on chain
was recorded as verified, also when a call given up did it (`VerifiedOK`).
The last is needed for a resumed session that turns out to be finalized already.
`ClientDrives` shows that whatever is mined twice, late or after a cancel is a
step the contract allows, so that the theorems of part 1 hold under the client.

### `TotalsProofs`

`TotalChange`, `TotalNat`, `TotalZero` and `TotalExtend`: what the sum of a
function on a finite set is after one value changed, that a sum of natural numbers
bounds each of them, that a sum of zeros is zero, and that one more element adds
its value. The sum is defined by choosing elements one after the other, so that
induction over the subsets is needed. It is done by contradiction with a smallest
subset for which the claim fails (`LeastNumber`, `SmallestSubset`), which needs
no operator parameter.

### Only model-checked

Every liveness property, since fairness is out of the prover's reach:
`EveryStakeIsReleased`, `FundsRecoverableWithReputation`, `EveryChallengeIsTakenUp`,
`PollsResume`, `OldestIsFinalized`, `RoundEndsUnlessGap`, `TableCatchesUp`,
`SessionsComplete`, `ResumeCompletes`, `AnnouncedIsExecuted` and
`OnlyLapsedClaimsAreStuck`. Every invariant and every action property of the runs has
a theorem. The checkpoint and the tasks of an operator whose tracker overflows are
false in general, and what still holds of such an operator (`watch_takeup`) is
liveness.

## 5. Not modelled

* Field, curve and hash arithmetic (`remainder/`, Stylus, `zkml-verifier`, the
  Merkle log of the proof registry): out of a model checker's reach; a verifier's
  answer is an input. These, with the circuit generators among the examples, are
  the larger part of the repository's lines.
* Signature checks and attestations: inputs, for the same reason.
* The HTTP services (routes of the indexer, gateway, verifier, proof generator,
  enclave): request handlers over a table or a counter behind one lock, whose
  properties restate single guards; configuration, parsing, metrics, webhooks,
  logging: no state that a property is about.
* Views: `getScore` with its decay, `getTopProvers`, paged lists.
* `Pausable.sol`: no contract inherits it.
* UUPS upgrades and admin transfer of `TEEMLVerifier`: the base is that of
  `UpgradeableEngine`. The storage layout of a new implementation.
* A reorganisation that puts a *new* event into a block already polled: the
  operator waits for no confirmations and nothing in its code would see it.
  Reorganisations under the indexer, which handles none: it would keep rows of
  events that are gone, and what is said of its rows is of a chain that only grows.
* The GPU and CPU pools of the prover node, which only delay a task, and the
  Python batch client, which has the shape of the TypeScript one.
* Everything listed under `components` with status `not_modelled`.

## 6. What remains

1. A composition of `OperatorWatch` and `AutoFinalize` with `TEEMLVerifier`, so
   that a challenge answered in time is won end to end.
2. The deadline monitor with its alert deduplication, and the enclave's nonce window.
