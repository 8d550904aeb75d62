--------------------------- MODULE DepositPipeline ---------------------------
(***************************************************************************)
(* One relayer's deposit pipeline: the Goldcoin indexer (glc/indexer.rs),  *)
(* the mint orchestrator (orchestrator.rs) and the SQLite database both of *)
(* them write through connections of their own (glc/db.rs).                *)
(*                                                                         *)
(* The two loops are independent tasks.  Every RPC is an await, at which   *)
(* the other loop, the Goldcoin chain or Solana may move, so each loop is  *)
(* cut into the pieces between two awaits: one RPC answer and the database *)
(* work done on it before the next await.  Every database call is one      *)
(* SQL transaction.                                                        *)
(*                                                                         *)
(* The Goldcoin chain is a fixed tree of blocks given by Path[b], the      *)
(* chain from the genesis block to b, and a live tip that only ever moves  *)
(* to a higher block, on the same branch or on another.                    *)
(***************************************************************************)
EXTENDS Integers, Sequences, FiniteSets, FiniteSetsExt

CONSTANTS
    Blocks, Genesis,
    Path,           \* [Blocks -> Seq(Blocks)], genesis first
    Deposits,       \* vault outputs (txid, vout)
    Vault,          \* [Blocks -> Seq(Deposits)], the vault outputs a block creates
    Spends,         \* [Blocks -> SUBSET Deposits], the vault outputs it spends
    Pushes,         \* [Deposits -> Seq(Nat)], the payload lengths of the OP_RETURN
                    \* outputs in the deposit's transaction
    Amount,         \* [Deposits -> Nat]
    MinDeposit,     \* min_deposit_atomic
    ConfirmationDepth, MaxReorgDepth,
    MaxDeposit,     \* value_caps.max_deposit_atomic
    Window, WindowCap, \* value_caps.rolling_window
    Refused,        \* deposits mint_wrapped rejects (no token account, supply cap)
    Corruptible,    \* deposits whose stored fields may be corrupted
    ForeignMints,   \* deposits another relayer may submit
    MaxEpoch,       \* bound: validator-set rotations
    MaxClock,       \* bound: the wall clock
    MaxFaults,      \* bound: crashes, RPC failures, missing signers, dropped transactions
    None

Height(b) == Len(Path[b]) - 1
BlockAt(b, h) == Path[b][h + 1]
Elements(s) == {s[i] : i \in DOMAIN s}
NoRepeats(s) == \A i, j \in DOMAIN s : s[i] = s[j] => i = j

(* SELECT ... WHERE: what s has in T, in the order of s, that of the ids. *)
Where(s, T) ==
    LET upTo[i \in 0..Len(s)] ==
            IF i = 0 THEN <<>>
            ELSE IF s[i] \in T THEN Append(upTo[i - 1], s[i]) ELSE upTo[i - 1]
    IN  upTo[Len(s)]

ASSUME ChainAssumption ==
    /\ Genesis \in Blocks /\ IsFiniteSet(Blocks)
    /\ None \notin Blocks /\ None \notin Nat
    /\ Path \in [Blocks -> Seq(Blocks)]
    /\ \A b \in Blocks :
          /\ Len(Path[b]) >= 1
          /\ Path[b][1] = Genesis
          /\ Path[b][Len(Path[b])] = b
          /\ \A i \in DOMAIN Path[b] : Path[Path[b][i]] = SubSeq(Path[b], 1, i)
    /\ Vault \in [Blocks -> Seq(Deposits)] /\ Vault[Genesis] = <<>>
    /\ \A b \in Blocks : NoRepeats(Vault[b])
    /\ Spends \in [Blocks -> SUBSET Deposits]
    /\ Amount \in [Deposits -> Nat] /\ MinDeposit \in Nat
    /\ Pushes \in [Deposits -> Seq(Nat)]

(* IndexerConfig's validation of the two depths; caps are unsigned. *)
ASSUME DepthAssumption ==
    /\ ConfirmationDepth \in Nat \ {0}
    /\ MaxReorgDepth \in Nat /\ MaxReorgDepth >= ConfirmationDepth
    /\ MaxDeposit \in Nat /\ Window \in Nat /\ WindowCap \in Nat
    /\ MaxEpoch \in Nat /\ MaxClock \in Nat /\ MaxFaults \in Nat

(* A deposit_candidates row, identified by its UNIQUE (txid, vout, block_hash). *)
Rows == UNION {{[deposit |-> d, block |-> b] : d \in Elements(Vault[b])} : b \in Blocks}
TopHeight == Max({Height(b) : b \in Blocks})

(* Mutant: a minted deposit is rolled back too. *)
Active_and_minted ==
    {"Candidate", "Confirming", "ReadyForSignature", "Submitted", "Minted"}

(* DepositState::is_active, the states rollback_reorg touches. *)
Active == {"Candidate", "Confirming", "ReadyForSignature", "Submitted"}

VARIABLES
    node,       \* the Goldcoin node's live tip
    indexed,    \* indexed_blocks: the hash stored for each height
    dbTip,      \* chain_state
    ids,        \* deposit_candidates in the order of their ids
    row,        \* the state of each row
    artifact,   \* claim_artifacts: the epoch frozen in each row's message
    readyAt,    \* deposit_candidates.ready_at
    corrupt,    \* rows whose message no longer recomputes
    idx,        \* the indexer task
    orc,        \* the orchestrator task
    configEpoch,\* the validator epoch the relayer was started with
    chainEpoch, \* the on-chain validator-set epoch
    claims,     \* deposits whose claim account exists on Solana
    inflight,   \* mint_wrapped transactions sent and not yet decided
    clock,      \* wall clock
    faults,     \* how many faults have happened
    everDeep,   \* history: deposits that were ever ConfirmationDepth deep on the live chain
    shaken      \* history: has the live chain been reorganized while an indexer tick ran?

database == <<indexed, dbTip, ids, row, artifact, readyAt>>
solana == <<chainEpoch, claims, inflight>>
vars == <<node, indexed, dbTip, ids, row, artifact, readyAt, corrupt, idx, orc,
          configEpoch, chainEpoch, claims, inflight, clock, faults, everDeep, shaken>>

IdleIndexer == [pc |-> "idle", h |-> 0, liveTip |-> 0, todo |-> <<>>, halted |-> FALSE]
IdleOrchestrator == [pc |-> "idle", todo |-> <<>>]

Init ==
    /\ node = Genesis
    /\ indexed = [h \in 0..TopHeight |-> None]
    /\ dbTip = None
    /\ ids = <<>>
    /\ row = [r \in Rows |-> "Absent"]
    /\ artifact = [r \in Rows |-> None]
    /\ readyAt = [r \in Rows |-> None]
    /\ corrupt = {}
    /\ idx = IdleIndexer
    /\ orc = IdleOrchestrator
    /\ configEpoch = 0
    /\ chainEpoch = 0
    /\ claims = {}
    /\ inflight = {}
    /\ clock = 0
    /\ faults = 0
    /\ everDeep = {}
    /\ shaken = FALSE

-----------------------------------------------------------------------------
(* What the Goldcoin node answers.                                         *)

(* The depth of a deposit on the chain that ends in b, 0 if it is not there. *)
DepthOn(b, d) ==
    LET at == {i \in DOMAIN Path[b] : d \in Elements(Vault[Path[b][i]])} IN
    IF at = {} THEN 0 ELSE Len(Path[b]) - Min(at) + 1

(* gettxout without the mempool: confirmed on the live chain and not spent there. *)
get_tx_out_confirmed(d) ==
    /\ DepthOn(node, d) > 0
    /\ \A i \in DOMAIN Path[node] : d \notin Spends[Path[node][i]]

-----------------------------------------------------------------------------
(* The indexer: Indexer::tick.                                             *)

IndexerUnchanged == <<node, corrupt, orc, configEpoch, solana, clock, faults, everDeep, shaken>>

(* A halted indexer's tick does nothing. *)
TickHalted == idx.halted /\ UNCHANGED vars

(* get_block_count, then chain_tip from the database. *)
TickBegins ==
    /\ idx.pc = "idle" /\ ~idx.halted
    /\ idx' = [idx EXCEPT !.pc = IF dbTip = None THEN "index" ELSE "fork",
                          !.h = IF dbTip = None THEN 0 ELSE Height(dbTip),
                          !.liveTip = Height(node)]
    /\ UNCHANGED <<database, IndexerUnchanged>>

(* find_fork_point, one get_block_hash at a time. *)
ForkPointFound ==
    /\ idx.pc = "fork"
    /\ indexed[idx.h] = BlockAt(node, idx.h)
    /\ idx' = IF idx.h = Height(dbTip)
              THEN [idx EXCEPT !.pc = "index", !.h = @ + 1]
              ELSE [idx EXCEPT !.pc = "rollback"]
    /\ UNCHANGED <<database, IndexerUnchanged>>

ForkTooDeep == idx.h = 0 \/ Height(dbTip) - (idx.h - 1) > MaxReorgDepth

(* Mutant: the halt is noted and the walk goes on. *)
WalkBack_on ==
    /\ idx.pc = "fork"
    /\ indexed[idx.h] # BlockAt(node, idx.h)
    /\ idx' = [idx EXCEPT !.h = @ - 1, !.halted = ForkTooDeep]
    /\ UNCHANGED <<database, IndexerUnchanged>>

WalkBack ==
    /\ idx.pc = "fork"
    /\ indexed[idx.h] # BlockAt(node, idx.h)
    /\ idx' = IF ForkTooDeep
              THEN [IdleIndexer EXCEPT !.halted = TRUE]
              ELSE [idx EXCEPT !.h = @ - 1]
    /\ UNCHANGED <<database, IndexerUnchanged>>

(* Mutant: only the tip is moved back. *)
rollback_reorg_tip_only ==
    /\ idx.pc = "rollback"
    /\ dbTip' = BlockAt(node, idx.h)
    /\ idx' = [idx EXCEPT !.pc = "index", !.h = @ + 1]
    /\ UNCHANGED <<indexed, row, ids, artifact, readyAt, IndexerUnchanged>>

(* get_block_hash(fork_height), then Db::rollback_reorg. *)
rollback_reorg ==
    /\ idx.pc = "rollback"
    /\ row' = [r \in Rows |-> IF row[r] \in Active /\ Height(r.block) > idx.h
                              THEN "Orphaned" ELSE row[r]]
    /\ indexed' = [h \in 0..TopHeight |-> IF h > idx.h THEN None ELSE indexed[h]]
    /\ dbTip' = BlockAt(node, idx.h)
    /\ idx' = [idx EXCEPT !.pc = "index", !.h = @ + 1]
    /\ UNCHANGED <<ids, artifact, readyAt, IndexerUnchanged>>

(* Mutant: a malformed or too small payment is not set aside. *)
initial_state_unchecked(d) == "Candidate"

(* The binding is the transaction's only OP_RETURN, of exactly 32 bytes;   *)
(* the outputs are looked at in order and the first fault is the answer.   *)
extract_recipient_binding(d) ==
    IF Pushes[d] = <<>> THEN "no_recipient_binding"
    ELSE IF Head(Pushes[d]) # 32 THEN "malformed_recipient_binding"
    ELSE IF Len(Pushes[d]) > 1 THEN "ambiguous_recipient_binding"
    ELSE "bound"

(* A payment without a valid binding, or below the minimum, is recorded as Failed. *)
initial_state(d) ==
    IF extract_recipient_binding(d) = "bound" /\ Amount[d] >= MinDeposit
    THEN "Candidate" ELSE "Failed"

(* The rows a block gives: its vault outputs, valid or not. *)
vault_output_candidates(b) ==
    [i \in DOMAIN Vault[b] |-> [deposit |-> Vault[b][i], block |-> b]]

(* Mutant: rows are unique by (txid, vout) alone. *)
IsNew_by_outpoint(r) ==
    \A s \in Rows : s.deposit = r.deposit => row[s] = "Absent"

(* INSERT OR IGNORE under UNIQUE (txid, vout, block_hash). *)
IsNew(r) == row[r] = "Absent"

(* index_block: the block at this height, then Db::ingest_block.  A height *)
(* or a row that is already stored is left as it is; the tip always moves. *)
index_block ==
    LET b == BlockAt(node, idx.h)
        new == Where(vault_output_candidates(b), {r \in Rows : IsNew(r)})
    IN
    /\ idx.pc = "index"
    /\ idx.h <= idx.liveTip
    /\ indexed' = [indexed EXCEPT ![idx.h] = IF @ = None THEN b ELSE @]
    /\ dbTip' = b
    /\ ids' = ids \o new
    /\ row' = [r \in Rows |->
                 IF r \in Elements(new) THEN initial_state(r.deposit) ELSE row[r]]
    /\ idx' = [idx EXCEPT !.h = @ + 1]
    /\ UNCHANGED <<artifact, readyAt, IndexerUnchanged>>

RowsIn(state) == Where(ids, {r \in Rows : row[r] = state})

(* Db::transition_state: the row, and with ReadyForSignature the time and  *)
(* the claim artifact, in one transaction.                                 *)
transition_state(r, to, claim) ==
    /\ row' = [row EXCEPT ![r] = to]
    /\ readyAt' = IF to = "ReadyForSignature"
                  THEN [readyAt EXCEPT ![r] = clock] ELSE readyAt
    /\ artifact' = IF claim = None THEN artifact ELSE [artifact EXCEPT ![r] = claim]

(* advance_new_candidates_to_confirming, one row at a time. *)
AdvanceCandidate ==
    /\ idx.pc = "index"
    /\ idx.h > idx.liveTip
    /\ RowsIn("Candidate") # <<>>
    /\ transition_state(Head(RowsIn("Candidate")), "Confirming", None)
    /\ UNCHANGED <<indexed, dbTip, ids, idx, IndexerUnchanged>>

(* Mutant: the deposit's own block is counted twice. *)
DeepEnough_off_by_one(r) == idx.liveTip - Height(r.block) + 2 >= ConfirmationDepth

(* The depth under the tip height that was read when the tick began. *)
DeepEnough(r) == idx.liveTip - Height(r.block) + 1 >= ConfirmationDepth

(* promote_confirming starts from the Confirming rows that are deep enough. *)
PromoteBegins ==
    /\ idx.pc = "index"
    /\ idx.h > idx.liveTip
    /\ RowsIn("Candidate") = <<>>
    /\ idx' = [idx EXCEPT !.pc = "promote",
                 !.todo = Where(RowsIn("Confirming"), {r \in Rows : DeepEnough(r)})]
    /\ UNCHANGED <<database, IndexerUnchanged>>

(* What rows are worth together. *)
AmountOf(rows) == MapThenSumSet(LAMBDA r : Amount[r.deposit], rows)

(* Mutant: only rows still waiting for signatures count. *)
ready_amount_sum_since_waiting(since) ==
    AmountOf({r \in Rows : row[r] = "ReadyForSignature" /\ readyAt[r] >= since})

(* What the rolling window has already let through. *)
ready_amount_sum_since(since) ==
    AmountOf({r \in Rows : readyAt[r] # None /\ readyAt[r] >= since})

WithinCaps(r) ==
    /\ Amount[r.deposit] <= MaxDeposit
    /\ ready_amount_sum_since(clock - Window) + Amount[r.deposit] <= WindowCap

Promoting == idx.pc = "promote" /\ idx.todo # <<>>
PromoteNext == idx' = [idx EXCEPT !.todo = Tail(@)]

PromoteToFailed ==
    /\ Promoting
    /\ ~get_tx_out_confirmed(Head(idx.todo).deposit)
    /\ transition_state(Head(idx.todo), "Failed", None)
    /\ PromoteNext
    /\ UNCHANGED <<indexed, dbTip, ids, IndexerUnchanged>>

PromoteDeferred ==
    /\ Promoting
    /\ get_tx_out_confirmed(Head(idx.todo).deposit)
    /\ ~WithinCaps(Head(idx.todo))
    /\ PromoteNext
    /\ UNCHANGED <<database, IndexerUnchanged>>

(* The canonical claim message.  The deposit's own fields are the same in  *)
(* every construction of it; the epoch is what this relayer believes.      *)
build_claim_message == configEpoch

PromoteToReady ==
    LET r == Head(idx.todo) IN
    /\ Promoting
    /\ get_tx_out_confirmed(r.deposit)
    /\ WithinCaps(r)
    /\ transition_state(r, "ReadyForSignature", build_claim_message)
    /\ PromoteNext
    /\ UNCHANGED <<indexed, dbTip, ids, IndexerUnchanged>>

TickEnds ==
    /\ idx.pc = "promote" /\ idx.todo = <<>>
    /\ idx' = IdleIndexer
    /\ UNCHANGED <<database, IndexerUnchanged>>

IndexerStep ==
    \/ TickHalted \/ TickBegins \/ ForkPointFound \/ WalkBack \/ rollback_reorg
    \/ index_block \/ AdvanceCandidate \/ PromoteBegins
    \/ PromoteToFailed \/ PromoteDeferred \/ PromoteToReady \/ TickEnds

-----------------------------------------------------------------------------
(* The orchestrator: Orchestrator::tick and process_one.                   *)

OrchestratorUnchanged == <<node, indexed, dbTip, ids, artifact, readyAt, idx,
                           configEpoch, chainEpoch, claims, clock, everDeep, shaken>>
Current == Head(orc.todo)
NextRow == orc' = IF Len(orc.todo) = 1 THEN IdleOrchestrator
                  ELSE [pc |-> "row", todo |-> Tail(orc.todo)]

(* The rows to work on are read once, at the start of the tick. *)
MintTickBegins ==
    LET rows == RowsIn("ReadyForSignature") \o RowsIn("Submitted") IN
    /\ orc.pc = "idle"
    /\ rows # <<>>
    /\ orc' = [pc |-> "row", todo |-> rows]
    /\ UNCHANGED <<OrchestratorUnchanged, row, corrupt, inflight, faults>>

(* Reconciliation first: the claim account exists, Db::mark_minted. *)
mark_minted ==
    /\ orc.pc = "row"
    /\ Current.deposit \in claims
    /\ row' = [row EXCEPT ![Current] = "Minted"]
    /\ NextRow
    /\ UNCHANGED <<OrchestratorUnchanged, corrupt, inflight, faults>>

(* Db::verify_and_load_signable_message: it looks at the row's fields and  *)
(* at its artifact, not at its state.                                      *)
verify_and_load_signable_message ==
    /\ orc.pc = "row"
    /\ Current.deposit \notin claims
    /\ artifact[Current] # None
    /\ IF Current \in corrupt
       THEN row' = [row EXCEPT ![Current] = "IntegrityHalted"] /\ NextRow
       ELSE orc' = [orc EXCEPT !.pc = "collect"] /\ UNCHANGED row
    /\ UNCHANGED <<OrchestratorUnchanged, corrupt, inflight, faults>>

(* A round over every peer.  A signer quotes the epoch it observes on      *)
(* chain, so only a message of that epoch is signed by anyone.             *)
collect_mint_signatures(r) == artifact[r] = chainEpoch

(* A threshold of the current validators signed. *)
SignaturesCollected ==
    /\ orc.pc = "collect"
    /\ collect_mint_signatures(Current)
    /\ orc' = [orc EXCEPT !.pc = "send"]
    /\ UNCHANGED <<OrchestratorUnchanged, row, corrupt, inflight, faults>>

InsufficientSignatures ==
    /\ orc.pc = "collect"
    /\ IF collect_mint_signatures(Current)
       THEN faults < MaxFaults /\ faults' = faults + 1
       ELSE UNCHANGED faults
    /\ NextRow
    /\ UNCHANGED <<OrchestratorUnchanged, row, corrupt, inflight>>

(* What mint_wrapped, and send_transaction's preflight of it, require. *)
Mintable(m) == m.deposit \notin claims \cup Refused /\ m.epoch = chainEpoch

mint_wrapped_instruction(d, epoch) == [deposit |-> d, epoch |-> epoch]

CurrentMint == mint_wrapped_instruction(Current.deposit, artifact[Current])

send_transaction ==
    /\ orc.pc = "send"
    /\ Mintable(CurrentMint)
    /\ inflight' = inflight \cup {CurrentMint}
    /\ orc' = [orc EXCEPT !.pc = "mark"]
    /\ UNCHANGED <<OrchestratorUnchanged, row, corrupt, faults>>

(* An error ends the tick: the rows after this one wait for the next. *)
send_transaction_refused ==
    /\ orc.pc = "send"
    /\ ~Mintable(CurrentMint)
    /\ orc' = IdleOrchestrator
    /\ UNCHANGED <<OrchestratorUnchanged, row, corrupt, inflight, faults>>

(* Mutant: a transaction that was sent is taken for one that succeeded. *)
mark_submitted_as_minted ==
    /\ orc.pc = "mark"
    /\ row' = [row EXCEPT ![Current] = "Minted"]
    /\ NextRow
    /\ UNCHANGED <<OrchestratorUnchanged, corrupt, inflight, faults>>

(* Db::mark_submitted, whatever the row's state has become meanwhile. *)
mark_submitted ==
    /\ orc.pc = "mark"
    /\ row' = [row EXCEPT ![Current] = "Submitted"]
    /\ NextRow
    /\ UNCHANGED <<OrchestratorUnchanged, corrupt, inflight, faults>>

OrchestratorStep ==
    \/ MintTickBegins \/ mark_minted \/ verify_and_load_signable_message
    \/ SignaturesCollected \/ InsufficientSignatures
    \/ send_transaction \/ send_transaction_refused \/ mark_submitted

-----------------------------------------------------------------------------
(* Around the relayer.                                                     *)

(* The node's tip moves to a higher block, possibly of another branch. *)
TipMoves(b) ==
    /\ Height(b) > Height(node)
    /\ node' = b
    /\ shaken' = (shaken \/ (idx.pc # "idle" /\ BlockAt(b, Height(node)) # node))
    /\ everDeep' = everDeep \cup {d \in Deposits : DepthOn(b, d) >= ConfirmationDepth}
    /\ UNCHANGED <<database, corrupt, idx, orc, configEpoch, solana, clock, faults>>

(* A mint transaction is executed; the claim account is its replay guard. *)
Land(m) ==
    /\ m \in inflight
    /\ Mintable(m)
    /\ claims' = claims \cup {m.deposit}
    /\ inflight' = inflight \ {m}
    /\ UNCHANGED <<node, database, corrupt, idx, orc, configEpoch, chainEpoch,
                   clock, faults, everDeep, shaken>>

(* It fails on chain, or is dropped and expires. *)
Drop(m) ==
    /\ m \in inflight
    /\ IF Mintable(m) THEN faults < MaxFaults /\ faults' = faults + 1
                      ELSE UNCHANGED faults
    /\ inflight' = inflight \ {m}
    /\ UNCHANGED <<node, database, corrupt, idx, orc, configEpoch, chainEpoch,
                   claims, clock, everDeep, shaken>>

(* Another relayer of the federation mints a deposit first. *)
MintedElsewhere(d) ==
    /\ d \in everDeep \ claims
    /\ claims' = claims \cup {d}
    /\ UNCHANGED <<node, database, corrupt, idx, orc, configEpoch, chainEpoch,
                   inflight, clock, faults, everDeep, shaken>>

Rotate ==
    /\ chainEpoch < MaxEpoch
    /\ chainEpoch' = chainEpoch + 1
    /\ UNCHANGED <<node, database, corrupt, idx, orc, configEpoch, claims,
                   inflight, clock, faults, everDeep, shaken>>

ClockTicks ==
    /\ clock < MaxClock
    /\ clock' = clock + 1
    /\ UNCHANGED <<node, database, corrupt, idx, orc, configEpoch, solana,
                   faults, everDeep, shaken>>

Fault == faults < MaxFaults /\ faults' = faults + 1

(* An RPC fails after its retries: the tick is abandoned where it stands,  *)
(* also when the failing send did reach the cluster.                       *)
IndexerRpcFails ==
    /\ idx.pc # "idle" /\ Fault
    /\ idx' = IdleIndexer
    /\ UNCHANGED <<node, database, corrupt, orc, configEpoch, solana, clock, everDeep, shaken>>

OrchestratorRpcFails ==
    /\ orc.pc # "idle" /\ Fault
    /\ orc' = IdleOrchestrator
    /\ UNCHANGED <<node, database, corrupt, idx, configEpoch, solana, clock, everDeep, shaken>>

(* The process stops, anywhere, and is started again with the epoch the    *)
(* operator configures: the old one or the one now on chain.               *)
Restart ==
    /\ Fault
    /\ idx' = IdleIndexer
    /\ orc' = IdleOrchestrator
    /\ configEpoch' \in {configEpoch, chainEpoch}
    /\ UNCHANGED <<node, database, corrupt, solana, clock, everDeep, shaken>>

CorruptRow(r) ==
    /\ artifact[r] # None /\ r \notin corrupt /\ Fault
    /\ corrupt' = corrupt \cup {r}
    /\ UNCHANGED <<node, database, idx, orc, configEpoch, solana, clock, everDeep, shaken>>

(* The operator's only way out of IntegrityHalted, the damage repaired or not. *)
operator_clear_integrity_halt(r, to, repaired) ==
    /\ row[r] = "IntegrityHalted"
    /\ to \in {"ReadyForSignature", "Failed"}
    /\ row' = [row EXCEPT ![r] = to]
    /\ corrupt' = IF repaired THEN corrupt \ {r} ELSE corrupt
    /\ UNCHANGED <<node, indexed, dbTip, ids, artifact, readyAt, idx, orc,
                   configEpoch, solana, clock, faults, everDeep, shaken>>

Environment ==
    \/ \E b \in Blocks : TipMoves(b)
    \/ \E m \in inflight : Land(m) \/ Drop(m)
    \/ \E d \in ForeignMints : MintedElsewhere(d)
    \/ Rotate \/ ClockTicks
    \/ IndexerRpcFails \/ OrchestratorRpcFails \/ Restart
    \/ \E r \in Rows : r.deposit \in Corruptible /\ CorruptRow(r)
    \/ \E r \in Rows, to \in {"ReadyForSignature", "Failed"}, repaired \in BOOLEAN :
          operator_clear_integrity_halt(r, to, repaired)

Next == IndexerStep \/ OrchestratorStep \/ Environment

Spec == Init /\ [][Next]_vars

(* Both loops keep ticking and a sound transaction is eventually executed. *)
(* Faults are bounded by MaxFaults, so they end without further fairness.  *)
Fairness ==
    /\ WF_vars(IndexerStep)
    /\ WF_vars(OrchestratorStep)
    /\ WF_vars(\E m \in inflight : Land(m))

FairSpec == Spec /\ Fairness

-----------------------------------------------------------------------------
States == Active \cup {"Absent", "Orphaned", "Minted", "Failed", "IntegrityHalted"}

(* Every variable has its type, and a halted indexer is between ticks. *)
TypeOK ==
    /\ node \in Blocks
    /\ indexed \in [0..TopHeight -> Blocks \cup {None}]
    /\ dbTip \in Blocks \cup {None}
    /\ ids \in Seq(Rows)
    /\ row \in [Rows -> States]
    /\ artifact \in [Rows -> Nat \cup {None}]
    /\ readyAt \in [Rows -> Nat \cup {None}]
    /\ corrupt \subseteq Rows
    /\ idx \in [pc : {"idle", "fork", "rollback", "index", "promote"},
                h : 0..(TopHeight + 1), liveTip : 0..TopHeight,
                todo : Seq(Rows), halted : BOOLEAN]
    /\ idx.halted => idx.pc = "idle"
    /\ orc \in [pc : {"idle", "row", "collect", "send", "mark"}, todo : Seq(Rows)]
    /\ configEpoch \in 0..MaxEpoch /\ chainEpoch \in 0..MaxEpoch
    /\ claims \subseteq Deposits
    /\ inflight \subseteq [deposit : Deposits, epoch : 0..MaxEpoch]
    /\ clock \in 0..MaxClock /\ faults \in 0..MaxFaults
    /\ everDeep \subseteq Deposits /\ shaken \in BOOLEAN

(* A block hash is stored for exactly the heights up to the tip, after any *)
(* reorg, failed tick or restart, which is what makes ingest_block's       *)
(* precondition hold; and a deposit that is still being confirmed lies in  *)
(* the block stored for its height, so none is left on a dropped block.    *)
IndexIsConsistent ==
    /\ \A h \in 0..TopHeight :
          indexed[h] # None <=> dbTip # None /\ h <= Height(dbTip)
    /\ \A r \in Rows : row[r] \in {"Candidate", "Confirming"} =>
          indexed[Height(r.block)] = r.block

(* A row says Minted only when the claim account exists on Solana. *)
MintedIsClaimed == \A r \in Rows : row[r] = "Minted" => r.deposit \in claims

(* Minted and Failed are final whatever the two loops do to a row that the *)
(* other one has moved on meanwhile, and IntegrityHalted is left only for  *)
(* the two states an operator may choose.                                  *)
SettledStaysSettled ==
    [][\A r \in Rows :
          /\ row[r] \in {"Minted", "Failed"} => row'[r] = row[r]
          /\ row[r] = "IntegrityHalted" =>
                row'[r] \in {"IntegrityHalted", "ReadyForSignature", "Failed"}]_vars

(* DepositState::is_active counts Orphaned to the "terminal history".  Not *)
(* so: mark_submitted writes without looking, so a row that a reorg        *)
(* orphans while its mint is being sent comes back as Submitted.           *)
OrphanedIsTerminal ==
    [][\A r \in Rows : row[r] = "Orphaned" => row'[r] = "Orphaned"]_vars

(* The well-formed deposits: one 32-byte push, and at least the minimum. *)
Bound == {d \in Deposits : Pushes[d] = <<32>> /\ Amount[d] >= MinDeposit}

(* Every mint this relayer ever sends is for a well-formed deposit within  *)
(* the flat cap that it saw confirmed and unspent and released under the   *)
(* epoch the message names.                                                *)
OnlyReleasedDepositsAreSent ==
    \A m \in inflight :
        /\ m.deposit \in Bound
        /\ Amount[m.deposit] <= MaxDeposit
        /\ \E r \in Rows : r.deposit = m.deposit /\ artifact[r] = m.epoch

(* The rolling window: deposits released for signing within any Window     *)
(* seconds never add up to more than WindowCap.                            *)
ReleasedWithinWindow ==
    \A t \in 0..clock :
        AmountOf({r \in Rows : readyAt[r] # None /\ readyAt[r] \in t..(t + Window)})
            <= WindowCap

(* Unless the chain is reorganized between two RPCs of a tick, the stored  *)
(* blocks are one chain of the block tree: a tip that merely grows during  *)
(* a tick, a failed tick and a restart leave no gap and no foreign block.  *)
IndexIsOneChain ==
    ~shaken /\ dbTip # None => \A h \in 0..Height(dbTip) : indexed[h] = BlockAt(dbTip, h)

(* deposit-flow.md: "A vault output becomes claimable only at depth >= N    *)
(* confirmations".                                                         *)
ClaimableOnlyAtDepth ==
    \A r \in Rows : artifact[r] # None => r.deposit \in everDeep

(* It does, unless the chain is reorganized between two RPCs of a tick. *)
ClaimableAtDepthUnlessShaken == ~shaken => ClaimableOnlyAtDepth

(* What the indexer stored is further from the live chain than it follows. *)
ReorgTooDeep ==
    /\ dbTip # None /\ Height(dbTip) > MaxReorgDepth
    /\ BlockAt(dbTip, Height(dbTip) - MaxReorgDepth) # BlockAt(node, Height(dbTip) - MaxReorgDepth)

(* Deep and unspent on the live chain, within the caps, and not released   *)
(* under an epoch that has ended since.                                    *)
DueForMint(d) ==
    /\ DepthOn(node, d) >= ConfirmationDepth /\ get_tx_out_confirmed(d)
    /\ configEpoch = chainEpoch
    /\ \A r \in Rows : r.deposit = d =>
          IF artifact[r] = None THEN WithinCaps(r) ELSE artifact[r] >= chainEpoch

(* Something good: a well-formed deposit that stays due is minted in the   *)
(* end, whatever failures, restarts and reorgs it went through and whoever *)
(* mints it, unless a reorg fell inside a tick or was too deep to follow,  *)
(* or the database was damaged.                                            *)
DeepDepositsAreMinted ==
    \A d \in Bound :
        [](~shaken /\ ~ReorgTooDeep /\ corrupt = {}) /\ <>[]DueForMint(d)
            => <>(d \in claims)

=============================================================================
