# Verification of the Goldcoin / Solana bridge

This directory holds TLA+ models of the bridge, TLC configurations that check
them on small instances, and proofs checked by TLAPS. Every definition is
translated from the Rust source; `PROJECT.json` maps each one to its lines.

## 1. The system

A federation of N validators, any M of which act for it, locks GLC in a Goldcoin
multisig vault and issues wrapped GLC on Solana.

| Part | State it keeps | Operations | Source |
| --- | --- | --- | --- |
| Federation proof | none | build the canonical message of a claim, a completion, a governance action; count the distinct validators among the entries of an ed25519 instruction | `shared/src`, `programs/.../verification.rs`, `validation.rs` |
| On-chain program | `BridgeConfig`, `ValidatorSet`, `PendingGovernanceAction`, one `DepositClaim` per claimed output, one `WithdrawalRequest` per burn, the SPL mint | initialize, create the mint, mint, burn, complete a withdrawal, propose / execute / cancel a rotation, propose / execute a cap raise, pause, lower the cap, hand over the admin key, create and update the token's metadata | `programs/glc-bridge/src` |
| Deposit indexer | `indexed_blocks`, `chain_state`, `deposit_candidates`, `claim_artifacts` (SQLite) | one tick: find the fork point, roll back, ingest, advance, promote | `relayer/src/glc/indexer.rs`, `db.rs` |
| Mint orchestrator | the same rows, from `ReadyForSignature` on | one tick: reconcile with the claim account, verify the stored message, collect signatures, send, record | `relayer/src/orchestrator.rs` |
| Withdrawal executor | `withdrawals`, `vault_utxos`, `payouts` (SQLite) | discover burns, track the vault, reserve inputs, build, collect partial signatures, broadcast, reconcile, complete | `relayer/src/withdrawal`, `glc/withdrawal_db.rs` |
| Completion loop | the completion columns of `withdrawals` | collect completion attestations, submit `complete_withdrawal` | `withdrawal/completion.rs` |
| Signer service | the signer's own copy of the databases above, the epoch it last read and when, an in-memory seen-set, the approval files its operator stages | re-derive what it is asked to sign (deposit, completion, governance action, payout, sweep) and sign or refuse | `relayer/src/p2p`, `solana/epoch.rs` |
| Governance rounds | approval files; the round in progress | stage, revoke; ask every peer; send what enough of them signed; execute | `p2p/collector.rs`, `bin/glc-admin.rs` |
| Vault sweep | sweep approvals, the sweep in progress | approve the plan one's own rows give, collect M partial signatures, broadcast | `withdrawal/sweep.rs`, `p2p/sweep_view.rs`, `bin/glc-admin.rs` |
| Operations | none | health, metrics, solvency, preflight, listings | `relayer/src/ops`, `relayer/src/bin` |

How they interact. The indexer and the executor poll a Goldcoin node; the
orchestrator, discovery and the completion loop talk to a Solana RPC node. In
one relayer process the indexer, the orchestrator and the withdrawal loops are
tasks over one SQLite file, each with a connection of its own, and the signer
service is another process on that file. Relayers of different operators share
nothing: they meet on the two chains and in the signature requests they send one
another. The program trusts none of them: what it accepts is a threshold of
signatures over a canonical message, presented by anyone.

What is hard here:

* every RPC is an await at which the other loops, the chain or an operator may
  move, and a row read before it is written after it;
* Goldcoin reorganizes, also between two RPCs of one tick, and a transaction may
  be mined again in another block or in the same one;
* a process may stop between any two transactions;
* a Solana transaction may be dropped, or land after it was given up; a signature
  once given can be presented again at any time;
* governance actions wait for a timelock while everything else goes on;
* several operators act on one obligation, each from its own database;
* a signer serves its peers concurrently, while the file its operator writes, the
  epoch it has read and the rows of its relayer change;
* a command reads the chain, decides and sends, and what it sent lands later, when the
  chain may be another.

What makes each part correct: the program mints an output once, only with the
approval of the federation of that moment, never beyond its cap, and hands the
federation over only with its own approval; the deposit pipeline releases only
deposits that are deep and unspent, keeps its index one chain across reorgs,
never forgets a settled row and in the end mints every deep deposit; the
withdrawal pipeline pays every burn, and none of them twice; a signer signs only what
its own records or its operator's approvals hold, and what the operators agree on is
carried out; what leaves the vault is what was planned, to the last unit.

## 2. Modules

| Module | Models | Status |
| --- | --- | --- |
| `FederationProof` | canonical messages, validator-set rules, the counting of signers | checked, used in the proofs |
| `BridgeLedger` | what the program promises about value | abstract specification |
| `BridgeProgram` | the on-chain program, one action per instruction | checked, proved, implements `BridgeLedger` |
| `BridgeProgramProofs` | theorems about `BridgeProgram` | proved |
| `BridgeBackingProofs` | the supply and the metadata, on top of `BridgeProgramProofs` | proved |
| `Sums` | sums over finite sets, for the proofs | lemmas |
| `MCBridgeProgram` | its small instances | |
| `DepositPipeline` | indexer, orchestrator and their database in one relayer | checked, proved |
| `DepositPipelineProofs` | theorems about `DepositPipeline` | proved |
| `MCDepositPipeline` | its small instances | |
| `WithdrawalPipeline` | executors, payout signers and completion loops of N operators with a database each, the Goldcoin network, the program's withdrawal accounts | checked, proved |
| `WithdrawalPipelineProofs` | theorems about `WithdrawalPipeline` | proved |
| `MCWithdrawalPipeline` | its small instances | |
| `SignerPromise` | what a signer promises, without the service | abstract specification |
| `SignerService` | one validator's signer service, policy, epoch refresher and approval file | checked, proved, implements `SignerPromise` |
| `SignerServiceProofs` | theorems about `SignerService` | proved |
| `MCSignerService` | its small instance | |
| `GovernanceRounds` | approvals, rounds and submissions of N operators | checked and proved in `VaultSweep` |
| `GovernanceRoundsProofs` | lemmas about `GovernanceRounds` | proved |
| `VaultCoins` | coin selection, fees, payout verification, sweep plans, assembly, as functions | checked and proved in `VaultSweep` |
| `VaultSweep` | payouts and sweeps over the rows of N operators, beside `GovernanceRounds` | checked, proved |
| `VaultSweepProofs` | theorems about `VaultSweep`, `VaultCoins` and `GovernanceRounds` | proved |
| `MCVaultSweep` | its small instances | |
| `TokenMetadata` | the metadata instructions and commands, beside `BridgeProgram` | checked and proved with it |

### FederationProof

A canonical message is a record of the fields its bytes commit to; `type` stands
for the domain tag and the action byte. SHA-256 is taken to be injective. The
entries of the ed25519 precompile are a sequence of (key, message) pairs whose
signatures the runtime has verified; `EntriesAccepted` is
`count_unique_validator_signers`, in which an entry that is foreign or repeated
is an error. `ApprovedBy` is the meaning the properties use, stated without
entry lists: at least `threshold` different members signed this message.

### BridgeProgram

One action per instruction. A Solana transaction is atomic, so a failed check is
a disabled action and every check of the handler and of its account constraints
is a guard. `signatures` is the set of all signatures that ever existed, and an
instruction may present any of them at any time: this is how replay, early
presentation and competing relayers are covered at once. Any coalition of
`Coalitions` may sign any message of the model, true or false, so the model says
nothing about the honesty of validators and the properties rest on thresholds
alone. `U64Max` and `I64Max` stand for the machine widths: the program's additions
are checked, so a small width reaches the same overflow exits. The SPL token, the
associated token accounts and the clock are external. `history` and `queued` (when the
pending action was queued, and under which cap) are history variables; nothing the program
does depends on them.

`BridgeLedger` is the promise about value with everything else left out: outputs that are
credited once and within a limit, what each wallet holds, what is owed under which number
and by what it was settled. Who consents, under which epoch and proof, and how the limit
and the pause are set, are not its business. The mapping (`credited`, `owed`, at the end of
`BridgeProgram`) forgets a claim's epoch and a withdrawal's status, takes the balances as
what is held, and the pause and the cap as limits that may change at any step between two
movements. `LedgerIsKept` is the refinement. The ledger bounds what holders have, while the
code compares the mint's counter with the cap, so the refinement rests on the two being
equal (`Backed`).

### DepositPipeline

Each loop is cut at its awaits: one action is one RPC answer and the database
work done on it before the next await; a database call is one SQL transaction.
The Goldcoin chain is a fixed tree of blocks (`Path`), `Vault` and `Spends` say
what each block does to the vault, and the node's tip moves to any higher block
of either branch. `Pushes` and `MinDeposit` decide what an output becomes:
one valid push binds a recipient, none or several do not, and an amount below the
minimum waits for an operator (`extract_recipient_binding`, `initial_state`). Row
order is id order. An RPC may fail at any await (the tick is abandoned), the
process may stop anywhere, a sent mint may land, fail or expire, other relayers
may mint first, the federation may rotate, and a stored field may be corrupted,
which `verify_and_load_signable_message` must notice. `everDeep` and `shaken` are history
variables: which deposits were ever deep on the live chain, and whether the chain was
reorganized, not merely extended, while an indexer tick ran. What holds only without such
a reorg says so in its formula, not in the instance.

### WithdrawalPipeline

N operators, each with an executor, a payout signer and a completion loop on one
database: `st`, `payout`, `coin` and `holder` are its columns (withdrawal state,
payout row, UTXO state, `reserved_by`), `exe[o]` and `sig[q]` the local variables of
the tick and of the request in progress.

* **Executor.** A tick runs eight phases (`PhaseState`); each phase reads the rows
  of one state when it begins and works them off in order, so a row may have moved
  on when its turn comes. The tick is cut at every await, and also between the four
  transactions of one build (`build_reserves`, `build_starts`, `build_creates`,
  `build_ends`), because the signer writes to the same database in between. An
  illegal `transition_withdrawal` is an error that ends the tick (`Abandon`).
  `record_signed_payout` and `record_confirmations` write the state without the
  transition table, as the SQL does.
* **Signer.** `sign_payout` holds a lock over the whole request but writes in
  several transactions: `adopt_reserves`, `adopt_creates`, up to three
  `adopt_transition`s, then the second look at the state and the comparison with the
  local payout (`Signable`, `SamePayout`). An answer counts only while the asker still
  waits (`open`); the partial signature exists all the same, in `partials`.
* **Completion loop.** `process_one` per withdrawal. The collection of attestations is
  one step: an attestation is a read of the attester's database and node and changes
  nothing, and a payout that is deep stays deep in the model.
* **Administration.** Re-designation of a quorum, clearing of a halt.
* **Environment.** Burns, funding, mining, reorgs shallower than the confirmation
  depth, eviction from the mempool, dropped Solana transactions, failed calls and
  crashes of the executor or the signer at any point, timeouts, a corrupted payout row.

Discovery scans the program's accounts and skips the ones it cannot decode
(`Decodable`); of the others, those to an address it cannot pay fail (`Payable`).

Data that is abstracted: a transaction is its withdrawal, its inputs and who signed
it. Coin selection returns any of the sets in `Selections` that are available; the one
fact about amounts that is kept is whether a selection leaves change (`Exact`),
because the builder and the adopter treat the change hash of the intent differently
in that case. The clock is not kept: where times are compared, either answer is
possible (`Failover`, `Expiry`).

### SignerPromise and SignerService

`SignerPromise` says what the rest of the federation relies on: a signer pledges itself
to a message only while its own record, or its operator's approval, holds exactly that
message under that epoch, and in one life of the process it gives one proposal per
action. Records and approvals change freely around it. `SignerService` is the code: a
request is charged to its peer, passes the two loads of the epoch observation, and is
examined and signed in two steps, because the seen-set is locked twice and the approval
file is read before the lock. `pledged` is read off the requests in progress, `given` is
a history variable, and `PromiseIsKept` is the refinement. Time is kept as ages that
stop growing beyond the bounds they are compared with; `Latency` bounds how long a read
of the chain takes and two adjacent atomic operations happen within one tick.

### GovernanceRounds, VaultCoins and VaultSweep

`GovernanceRounds` composes the operators' approval files, the signers' memory, the tool
that asks peer after peer and the program that verifies the proof with
`FederationProof`. Signers decide as `SignerPromise` says. A sent transaction lands in
any order or never; a peer may sign and its answer be lost; a peer that has not seen a
rotation may still sign under the epoch it ended.

`VaultCoins` has the arithmetic: sizes and fees rounded up, the three tiers of `select`,
the split of change and dust, `verify_payout_tx`, `plan_sweep`, the commitment of a
sweep, and `assemble` with what the multisig script asks. Amounts fit in two bytes, so
that the database's order of little-endian blobs shows. `VaultSweep` runs it: rows per
operator, a payout planned from them, a node that may build something else, sweeps
approved, asked for, signed and broadcast, beside the rotations of `GovernanceRounds`.
A script is the name of whom it pays.

### TokenMetadata

Extends `BridgeProgram` with the metadata account and the metadata transactions in
flight. The commands read and send in one step; landing is another.

## 3. Runs

All bounds are CONSTANTS; every passing run ends within about three minutes on two cores.

| Run | Question | Instance, and why it is enough |
| --- | --- | --- |
| `program` | Can a queued action become unexecutable, a federation appear that its predecessor did not approve, the cap rise otherwise, a configuration be written that cannot work? Is every mint and completion approved, claimed once and backed, and do the accounts keep the ledger (`BridgeLedger`)? Does a late creation, or a former admin's transaction, undo a rename? | 3 keys, overlapping 2-of-2 sets and malformed lists, thresholds 0 and 2, zero cap and timelock, two admins; two outputs, one signed for with two amounts and recipients, width 3 so that additions overflow; two metadata transactions in flight |
| `raise_undoes_lowering` | a queued raise "cannot silently undo an admin lowering", ADR-0014 (violated) | the same federation, caps 1 to 3 |
| `deposits` | Does the database stay consistent and the rolling window hold? Are, until a reorg falls inside a tick, the index one chain and every released deposit deep? Is every deposit that stays due minted in the end? | two branches, a reorg deeper than `MaxReorgDepth`, a tip that moves between two RPCs, a deposit on both branches and one that a reorg drops, a spent vault output, outputs with two pushes or a short one, below the minimum or above the flat cap, a window that holds one of the two amounts; a fault, corruption, a rotation, time, a competing relayer |
| `reorg_during_tick` | the depth claim of `docs/deposit-flow.md` (violated) | one deposit, depth 3, a reorg inside a tick |
| `returned_block_lost` | re-mined deposits get a fresh row, ADR-0011 (violated) | a block that leaves the chain and returns |
| `orphan_revived` | Orphaned is "terminal history", `db.rs:158` (violated) | one deposit, one reorg, no fault |
| `payout_safety` | Can a withdrawal be paid twice, can a payout be lost, can a signed input be freed, can payouts of two withdrawals compete? | 2 operators that both build (failover), either of two inputs, a re-designation, an expired reservation and one fault of any kind at any step; or two withdrawals, one selection without change |
| `payout_liveness` | Is every payable burn paid and completed in the end, and never completed before it is buried? | a payable withdrawal beside one that is refused and one that cannot be decoded, funding that arrives late, depth 2 and a reorg of the payout |
| `builders_deadlock` | "two honest operators no longer diverge", ADR-0019 (violated) | 2 withdrawals, 2 coins, no fault |
| `completion_stalls` | completions "simply retry next tick", runbooks (violated) | 1 withdrawal, 2 attesters, no fault |
| `signing` | Does the service keep its promise, never take a long retired epoch for current, and sign what its operator approved although a peer floods it? | the operator's tool and one other peer that asks for anything, one deposit, one action with two rival proposals, one rotation, an allowance of one request, two changes (failed reads, restarts, edits of the file, rows) |
| `rounds` | Is only what the operators agreed on queued, cancelled and swept, does agreement lead to it, is selection sound and complete, do the books balance? | two operators, thresholds 1 and 2, a rotation that reorders them, a raise, two queued actions, two transactions in flight; seven vaults of two or three outputs around the fees and around 256, payouts of two sizes, a later deposit |

Deadlock checking is on in every run but the one over `VaultSweep`, where the commands
are run by people who may be done.

**Constraints.** Three passing runs explore several subjects of one module with one
instance and a CONSTRAINT (`OneSubject`) that keeps a behaviour to one of them: metadata,
value or governance in `program`; one withdrawal with faults or two without in
`payout_safety`; governance or the vault, but for a rotation first, in `rounds`. The
subjects share no state but what the constraint lets through (the deployment, the
rotation), and the proofs of section 4, where there are any, have no such restriction. A constraint drops
successors, never fairness: TLC evaluates ENABLED on the specification, so a liveness
property is decided exactly for the behaviours that stay inside. `deposits` explores a
behaviour with any two of its troubles (`TwoTroubles`), which only drops faults and steps
of the environment, and without a return of branch a, the subject of
`returned_block_lost` (`NoReturn`).

**Why two operators.** Everything that can go wrong between operators here is between
the one that builds and one that signs, or between two that build; with N = 2 and
M = 2 every operator is in every quorum, so both roles meet on one database. What a
third operator adds is a quorum that leaves one of the others out; the proofs of
section 4 cover that for every N and M.

**Assumption on quorums.** The vault accepts any 1 <= M <= N. Two quorums of one
payout need a common member, or an operator could re-designate a payout to signers that
know nothing of the first ones. `QuorumAssumption` says exactly this, of the quorum
`designate_quorum` chooses and of those in `Reassignments`; without re-designations it
holds for every M. `MajoritiesMeet` proves it, and more, from M > N/2.

**Fairness.** The deposit `FairSpec` assumes weak fairness of the two loops, which
`main.rs` runs on interval timers for the life of the process, and of the execution of a
mint that is valid when it is sent. Faults are bounded by `MaxFaults`, so they end; no
fairness is assumed of the chain, of rotations or of operators. `DeepDepositsAreMinted`
names what it needs of them: that the deposit stays due (`DueForMint`: deep, unspent, within
the caps, and neither released under an epoch that has ended nor waiting for a restart under
the new one), no reorg inside a tick or beyond `MaxReorgDepth`, no damaged row. The
withdrawal `FairSpec`
assumes weak fairness of each loop and of the signer at work, and strong fairness of
each pair of asker and signer: the signer's lock is a tokio `Mutex`, which is fair, so
somebody who keeps asking is served although others are served in between. Of the
environment it assumes that burns and funding arrive and that a transaction in the
mempool, or a completion sent, is included. `SignerService` assumes weak fairness of the
refresher (an interval timer in `signer-server`), of the handlers and of time, and that
the operator's tool asks again; `Change` bounds failures. `VaultSweep` assumes weak
fairness of a round or sweep that has begun and of the decision of a sent transaction,
and strong fairness of beginning one that some operator has staged: only one command
runs at a time, so it is not continuously possible. No fairness is assumed of approvals,
rotations, deposits or restarts.

**Mutants.** Every property of a passing run has a mutant in the module it is
about (operators with a suffix, commented `Mutant:`): a plausible slip in that
code under which TLC finds the property violated.

## 4. Proofs

`BridgeProgramProofs` proves, for every value of the constants that satisfies
the named assumptions (`KeysAssumption`, `ProgramAssumption`), that every
behaviour of `BridgeProgram` satisfies:

* `TypeCorrect`: `TypeOK`;
* `SafetyInvariant`: the inductive invariant;
* `ConfigIsAlwaysUsable`, `PendingIsAlwaysExecutable`, `FederationChainsToGenesis`,
  `ClaimsAlwaysApproved`, `CompletionsAlwaysApproved`: the invariants of the same
  names in the runs;
* `RecordsAlwaysPermanent`, `CapAlwaysGoverned`: the action properties.

The argument. The approval invariants are not inductive alone: that a claim of an
old epoch was approved by that epoch's set needs `history`, that the set now in
force is the last of `history` needs `ChainOfTrust`, and that an executed
rotation keeps `ChainOfTrust` needs `PendingStaysExecutable`, which says the
queued set was approved by the set still in force. The last needs
`ConfigStaysUsable` (a threshold of at least one) and
`NothingBeforeInitialize`, since `initialize` writes epoch 0 of `history`. The
conjunction is inductive. Two lemmas carry the signature argument: entries that
pass `EntriesAccepted` are an injection into the members who signed, so
`Len(entries) <= Cardinality(...)`, and `ApprovedBy` is monotone in `signatures`.

`WithdrawalPipelineProofs` proves, for every number of operators, every threshold,
every finite set of withdrawals, every set of outputs and selections, every depth
and every bound on faults and reorgs, under `OperatorAssumption`,
`WithdrawalAssumption` and `QuorumAssumption`:

* `PayoutInvariant`: the inductive invariant `IInv`;
* `PipelineTypes`, `NeverDoublePaid`, `SentStaysDurable`, `SignedStaysHeld`,
  `CompletedWasPaid`: `TypeOK`, which is proved and needs no run, and `NoDoublePay`,
  `SentIsDurable`, `SignedInputsStayHeld` and `CompletedIsPaid` of the runs;
* `PayoutsNeverConflict`: `NoConflict`, when quorums of different withdrawals share a
  signer too (`QuorumsMeet`). This premise is needed: with M <= N/2 two disjoint
  quorums may sign for one coin;
* `MajoritiesMeet`: M > N/2 gives `QuorumsMeet`. `designate_quorum` names M different
  operators because steps along the ring modulo N never coincide, and two sets of M
  among N with 2M > N overlap.

The argument. None of these is inductive alone. What ties them together is
`PartialFine`: a partial signature fixes the inputs of the payout row of its signer,
and that signer's database holds these inputs until the payout is complete. It is kept
because a payout row never changes its inputs, because only rows without a payout are
reclaimed, and because a coin that is reserved is never reserved again. Around it:

* `ExecutorFine`: what an executor has collected are partials of members of a quorum over
  the inputs of its own payout, and what it asks the node about is recorded as signed;
* `SignerFine`: a request somebody still waits for is the one its executor still makes,
  so a late or repeated answer is never counted for another withdrawal. This is where
  timeouts, crashes of either side and the moving on of the tick come in;
* `RowFine`: a signed payout carries the partials of a whole quorum, and a completed row is
  signed and buried;
* `SentFine`: what was sent is recorded as signed by somebody; what Solana was told, or
  records, is buried;
* `PayoutsDisjoint`: payouts of one database share no input.

Then two transactions sent for one withdrawal were each signed by a whole quorum, the
quorums have a member in common, and its one payout row has the inputs of both.
`Grows` collects what no step ever undoes (known rows, inputs and signatures of a
payout, partials, burns, depth); the lemmas named `...Kept` derive from it that the parts
a step does not touch stay fine, so that the proof of each action is about what the
action changes.

`SignerServiceProofs` proves, under `SignerAssumption`, for every set of peers, deposits,
actions and commitments and every staleness bound, poll interval, latency and allowance:

* `ServiceTypes`: `TypeOK`, again without a run;
* `PromiseKept`: `PromiseIsKept`, the refinement. Its invariant adds to the types that
  what was given since the start is remembered in `signed` (`Remembered`), which makes the
  guard of `approve_signs` the abstract `~Equivocates`. `pledged` is the image of the
  calls, so one lemma each says what a call that begins, ends or leaves alone its pledge
  does to it, and every other step is one of the environment;
* `PassedIsLive`: `PassedUnderALiveEpoch`. Its invariant `FreshInv`: an epoch that is not
  current has been retired for at most the age of the observation plus `Latency`; a
  read in progress is at most as old as its age; between the two stores the epoch is
  already the new one, which is where their order matters; and as long as a handler stands
  between its two loads the observation is not stale.

`NeverClaimedTwice` (in `BridgeProgramProofs`) and `BridgeBackingProofs` add what the
program does with value:

* `NeverClaimedTwice`: `NoDoubleClaim`, since a claim record is created with the
  mint and never removed;
* `SupplyIsBacked`: `Backed`. Beside the safety invariant it needs that the claims are
  finitely many; each of mint, transfer and burn is then one lemma about a sum in
  which one term comes or changes;
* `ValueAlwaysWithinLimits`: the action property `ValueMovesWithinLimits`, on the program's
  own counter; it is proved and needs no run;
* `LedgerAlwaysKept`: `LedgerIsKept`. The initial state maps to the empty ledger
  (`LedgerInit`); a mint maps to a credit, a burn to a redemption under the next number, a
  completion to a settlement (`MintIsCredit`, `BurnIsRedeem`, `CompletionIsSettle`), token
  transfers and burns to the steps of the same kind, and every other instruction leaves
  the ledger alone or changes its limits only. Of the invariants it takes the types, so
  that the next number is new, and `Backed`;
* `LedgerKeptBesideMetadata`: so does the program with the metadata instructions;
* `MetadataKeepsProgram`: `MetadataSpec => Spec`, a refinement with the identity mapping,
  so every theorem about the program holds beside the metadata instructions;
* `RenamesAlwaysTheAdmins`: `RenamesAreTheAdmins`.

**Sums.** The provers cannot use a theorem with an operator parameter, and `MapThenSumSet`
takes one. `Sums` defines `SumOver` for a function along the same recursion, shows that the
recursion has a solution, and proves what a sum does when an element comes, goes or
changes, when a set is split, and when values are compared. Each induction there is the
choice of a minimal counterexample among the subsets of a finite set, so no induction
principle is cited. In the models a sum becomes a `SumOver` by expanding definitions.

`DepositPipelineProofs` proves, for every block tree, every placement of deposits and
spends, every depth, window and number of faults, under `ChainAssumption` and
`DepthAssumption`:

* `TypeCorrect`: `TypeOK`, which includes that the indexer never asks the node for a height
  beyond its tip. `Cursor` is what makes it inductive: the height a tick works on is that of
  the database, and the node's height never falls;
* `IndexAlwaysConsistent`, `MintedAlwaysClaimed`, `SentAlwaysReleased`, `WindowAlwaysKept`:
  the invariants they are named for in `deposits`. They need `Worklists`, that the rows a
  tick has listed and not yet worked off are still in a state its writes expect (the indexer's are
  Confirming, because nothing but itself moves such a row), and `Releases`, which ties
  the frozen artifact and the release time to the row's state. For the window: a release at
  time t is checked only against the window that ends at t, and since no release is
  later than the clock, that window is the last that t belongs to;
* `SettledAlwaysStays`: the action property `SettledStaysSettled`;
* `IndexStaysOneChain` and `ClaimsOnlyAtDepth`: `IndexIsOneChain` and
  `ClaimableAtDepthUnlessShaken`, whose premise `~shaken` is what `reorg_during_tick` shows to
  be needed. `OnNode` says that what a tick has learnt from the node is still so: a tip that
  grows on the same branch keeps every block below it (`ChainFacts`).

`VaultSweepProofs`, with `GovernanceRoundsProofs` for the half that is governance, proves,
for every federation, set of peers and proposals, vault, fee rate, dust limit and number
of inputs, under `KeysAssumption`, `RoundAssumption`, `VaultAssumption` and
`SweepAssumption`:

* `VaultTypeCorrect`: `TypeOK`;
* `QueuedAlwaysConsented` and `CancelsAlwaysHitTheirTarget`. Their invariant `Consents`
  follows a consent from the approval file through the round and into the transaction: each
  signature in a round or in flight is of somebody who staged that message. A proof the
  program accepts is an injection of entries into members, so a threshold of them
  consented. An execution never passes for a cancellation, because it raises the epoch or
  the cap;
* `SweepsAlwaysConsented`: `Staged` does the same for a sweep. The signers compare
  commitments, not plans; `SameCommitment` shows that a commitment determines its plan
  and `LaterOutputs` that outputs which arrive later change neither;
* `BooksAlwaysBalance`: `Planned` says that a plan values its inputs as the chain does,
  however old the rows it was made from, because an output's amount never changes; and
  `VerifiedPayout` that of all a node may build only a transaction paying plan and change
  passes;
* `SelectionsAlwaysSound`: by the three tiers of `select` and the two of `finalize`;
* `SelectionsAlwaysFindEnough`: an exchange argument. Outputs of the choice that are not
  among the first n are as many as those among the first n that the choice leaves out,
  and none is larger (`LargestAreMost`, from `SumExchange`).

`available_utxos` chooses a listing that respects an order; `ListExists` proves that a
finite set with a strict total order has one (the last element is taken off, again
by a minimal counterexample), so the choice is never arbitrary.

What the assumptions on the constants say. `SweepAssumption`: outputs are numbered from 1,
the vault's keys are peers that can be asked, and amounts in the vault are
positive, as those of standard outputs are. `None` differs from every value it stands
beside. `RoundAssumption`: the first set passed `validate_validator_set`, which
`initialize` enforces. Bounds are numbers, of any size.

**Only model-checked.** All liveness (`DeepDepositsAreMinted`, `PaidInTheEnd`,
`CompletedInTheEnd`, `ConsentIsSigned`, `AgreedIsQueued`, `AgreedIsSwept`): TLAPS does not
reason about fairness here. Every invariant and action property of a passing run is a theorem.

## 5. Disagreements between code and text

With a run:

* `reorg_during_tick`: a tick looks for the fork once and then ingests by height;
  a reorg in between leaves a replaced block in the index and releases a deposit
  that was never deep.
* `returned_block_lost`: `INSERT OR IGNORE` on (txid, vout, block hash) keeps the
  Orphaned row of a block that returns to the chain.
* `builders_deadlock`: the designated builders of two withdrawals reserve the same
  coin, each in its own database, and each refuses to sign the other's payout. A
  reservation with a payout is never released and a payout never changes its inputs,
  so neither burn is paid until an operator intervenes.
* `completion_stalls`: an operator that adopted a payout stays in Signing, since
  nobody sends it the signed transaction, so it never attests; with a threshold above
  one the completion is never submitted.
* `orphan_revived`: `db.rs:158` counts Orphaned to the terminal history and `db.rs:822`
  describes `mark_submitted` as a step from ReadyForSignature; the update has no state
  check, so a row orphaned while its mint is being sent becomes Submitted again.
* `raise_undoes_lowering`: ADR-0014 (line 808) and `governance.rs:353` say the re-check at
  execution keeps a queued raise from undoing an admin's lowering. The re-check asks that the
  raise be above the cap, which a lowering only makes truer. `PendingStaysExecutable`
  and its theorem say the same from the other side: that check never refuses a queued raise
  (`glc-admin.rs:1030` says it can).

Met while modelling, without a run of their own:

* `available_utxos` sorts by a column that is a BLOB of little-endian bytes
  (`withdrawal_db.rs:777`, `905`), so 255 precedes 256, although `coin.rs:61` says it
  "guarantees" candidates largest first. Greedy selection then takes small outputs first and
  may give up on a payout the largest would cover. `VaultCoins` keeps that order;
  `SelectionFindsEnough` is stated for candidates that do come largest first.
* The seen-set and the signed proposals and sweeps are in memory: a restart forgets them
  (ADR-0014 calls the seen-set persistent). `PromiseIsKept` holds
  per start; of mints it says only that a pledge rests on the signer's record, not that
  the seen-set keeps a signer from a second message for one deposit.
* `GovernanceView.signed` is keyed by the action alone and never cleared: after one signed
  raise another one, under whatever epoch, is refused until the signer restarts.
* A governance message has no nonce and no expiry, so one proposal can be queued again
  after it was cancelled, under the same epoch.
* A governance round counts and submits signatures of every configured peer; one that is
  not a validator any more makes the program reject the whole proof. `AgreedIsQueued`
  leaves such rounds out.
* `sweep-execute` pairs validators with vault keys by position (`glc-admin.rs:1158`); after
  a rotation that reorders them the answers are rejected. `AgreedIsSwept` counts only
  signers paired with their own key.
* The warning before a sweep compares the outputs to be swept with `vault_utxo_stats`, which
  counts Available rows only, so reserved outputs never show; an approval goes on
  matching when the vault receives further outputs (`sweep_view.rs:62` says otherwise);
  and a vault with more outputs than `max_inputs_per_payout` cannot be swept.
* `estimated_size_bytes` counts 148 bytes per input, a P2PKH input; the vault's multisig
  inputs are larger, so the fee rate is below the configured one (`coin.rs:36`).
* `select` misses an output that covers the amount and a fee for one output but not for
  two; `SelectionFindsEnough` is stated for two.
* A burn to an address `decode_withdrawal` rejects is never observed: it is neither paid
  nor Failed.
* `update-token-metadata` is a read-modify-write. `glc-admin.rs:1561` says that moving only
  the URL "cannot change them by accident", name and symbol that is; but the transaction
  restates the values the command read, so one that lands after a rename undoes it.
  `RenamesAreTheAdmins` allows exactly that, as long as the sender is still admin. Both
  metadata commands read back right after sending, which may be before the landing.
* A mint the cluster refuses ends the orchestrator's tick, so later deposits wait for it.
* After a rotation a row released under the old epoch is signed by nobody and is
  never rebuilt (`indexer.rs:404` freezes the epoch): `DueForMint` leaves such rows out.
* `ops/indexer_status.rs:21` says a halted indexer mints nothing; the orchestrator
  goes on with what was released before.
* `minted_deposit_total` (`db.rs:1010`) sums rows, so a deposit minted and then
  mined again in another block counts twice.
* A cancel message commits to kind and eta (`shared/src/governance.rs:113`), so it
  also cancels another proposal of the same kind made in the same second. The etas of
  `GovernanceRounds` are numbered, so the run does not meet that case.
* A build interrupted between `create_payout` and the transition to Signing leaves the
  row in Building. `tick` has no arm for that state, so the adoption described at
  `executor.rs:492` is not reached; only a peer's request or an operator moves it on.
* When the failover window elapses while the designated builder is only slow, both
  build with inputs of their own choice and refuse each other. No money moves twice
  (`NoDoublePay`), and none moves at all until an operator intervenes.
* For a selection without change the builder leaves the change hash out of the intent
  and the adopter of the proposal does not, so the adopter refuses (`IntentMismatch`).
* A completion is recorded when it is sent (`completion.rs:276`); when the transaction is
  dropped this relayer does not send it again.
* A vault output that falls below its depth in a reorg is marked Spent
  (`mark_missing_utxos_spent`) and is not selected again when it returns.
* `operator_clear_withdrawal_halt` back to Validated with a payout row in place makes
  `build` end every tick with an illegal transition to Signing.
* A reservation that expires in the middle of an adoption ends in IntegrityHalted: the
  payout is created over inputs that are no longer held.

## 6. Plan

In this order:

1. The steps of the liveness arguments that are safety: what a loop under way may not lose
   (a released deposit is signable or settled, a begun round ends), as invariants.
2. `SelectionFindsEnough` for payouts without change, where `select` itself is incomplete.

## 7. Not modelled

Byte layouts, script and address encoding, signature hashes, RPC transport, TLS
identities, the audit log, metrics, health, the solvency report, preflight checks and
listings: they read what the modules keep and change none of it, or are conversions whose
result the modules take as given.
SQLite is modelled as serializable transactions; a DEFERRED transaction that
fails to upgrade its lock ends the loop, which a restart covers for safety.
