------------------------------ MODULE VaultCoins ------------------------------
(***************************************************************************)
(* Spending the vault, as functions of what it holds: fees and coin        *)
(* selection (withdrawal/coin.rs), the check of a payout the node built    *)
(* (withdrawal/builder.rs), the plan of a sweep and its check              *)
(* (withdrawal/sweep.rs) and the assembly of signatures                    *)
(* (withdrawal/multisig.rs, withdrawal/vault.rs).                          *)
(*                                                                         *)
(* An output is a number, in the order of transaction ids; a script is the *)
(* name of whom it pays.  Amounts fit in two bytes, the bound that matters *)
(* to the order in which the database returns them.                        *)
(***************************************************************************)
EXTENDS Integers, SequencesExt, FiniteSetsExt

CONSTANTS
    FeeRate,        \* fee_rate_per_kb
    Dust,           \* dust_threshold_atomic
    MaxInputs,      \* max_inputs_per_payout
    VaultKeys,      \* the redeem script: its signers' keys, in order
    VaultThreshold  \* M

(* MultisigVault::new. *)
MAX_VAULT_SIGNERS == 16
MultisigVault(threshold, keys) ==
    /\ Len(keys) \in 1..MAX_VAULT_SIGNERS
    /\ threshold \in 1..Len(keys)
    /\ IsInjective(keys)

ASSUME VaultAssumption ==
    /\ FeeRate \in Nat /\ Dust \in Nat
    /\ MaxInputs \in Nat \ {0}
    /\ MultisigVault(VaultThreshold, VaultKeys)

MAX_SWEEP_FEE_MULTIPLE == 10

Total(amount, inputs) == MapThenSumSet(LAMBDA u : amount[u], ToSet(inputs))

-----------------------------------------------------------------------------
estimated_size_bytes(inputs, outputs) == 10 + 148 * inputs + 34 * outputs

(* Rounded up. *)
fee_for(inputs, outputs) == (estimated_size_bytes(inputs, outputs) * FeeRate + 999) \div 1000

(* The database stores an amount as eight little-endian bytes and compares *)
(* them as bytes.                                                          *)
Blob(a) == <<a % 256, (a \div 256) % 256>>
BlobAbove(a, b) == a[1] > b[1] \/ (a[1] = b[1] /\ a[2] > b[2])

(* available_utxos: ORDER BY amount_atomic DESC, txid. *)
ListedBefore(amount, u, v) ==
    \/ BlobAbove(Blob(amount[u]), Blob(amount[v]))
    \/ Blob(amount[u]) = Blob(amount[v]) /\ u < v
available_utxos(amount, utxos) ==
    CHOOSE s \in SetToSeqs(utxos) :
        \A i, j \in DOMAIN s : i < j => ListedBefore(amount, s[i], s[j])

(* The split into fee and change of the chosen inputs: change that would   *)
(* be dust goes to the fee.                                                *)
finalize_keeps_dust(amount, inputs, pay) ==
    LET change == Total(amount, inputs) - pay - fee_for(Len(inputs), 2) IN
    [inputs |-> inputs, pay |-> pay, fee |-> fee_for(Len(inputs), 2), change |-> change]

finalize(amount, inputs, pay) ==
    LET total == Total(amount, inputs)
        change == total - pay - fee_for(Len(inputs), 2)
    IN  IF change < Dust \/ change = 0
        THEN [inputs |-> inputs, pay |-> pay, fee |-> total - pay, change |-> 0]
        ELSE [inputs |-> inputs, pay |-> pay, fee |-> fee_for(Len(inputs), 2), change |-> change]

(* select: the plans it may return (none, or one).  An output spent whole; *)
(* else the smallest that covers; else the first that do together.         *)
Exact(amount, candidates, pay) ==
    {i \in DOMAIN candidates : amount[candidates[i]] = pay + fee_for(1, 1)}
Covering(amount, candidates, pay) ==
    {u \in ToSet(candidates) : amount[u] >= pay + fee_for(1, 2)}
Enough_but_one(amount, candidates, pay) ==
    {n \in 1..Len(candidates) : n < MaxInputs
        /\ Total(amount, SubSeq(candidates, 1, n)) >= pay + fee_for(n, 2)}
Enough(amount, candidates, pay) ==
    {n \in 1..Len(candidates) : n <= MaxInputs
        /\ Total(amount, SubSeq(candidates, 1, n)) >= pay + fee_for(n, 2)}

select(amount, candidates, pay) ==
    LET exact == Exact(amount, candidates, pay)
        covering == Covering(amount, candidates, pay)
        enough == Enough(amount, candidates, pay)
        smallest == CHOOSE u \in covering : \A v \in covering \ {u} :
                        amount[u] < amount[v] \/ (amount[u] = amount[v] /\ u < v)
    IN  IF exact # {}
        THEN {[inputs |-> <<candidates[Min(exact)]>>, pay |-> pay, fee |-> fee_for(1, 1), change |-> 0]}
        ELSE IF covering # {} THEN {finalize(amount, <<smallest>>, pay)}
        ELSE IF enough # {} THEN {finalize(amount, SubSeq(candidates, 1, Min(enough)), pay)}
        ELSE {}

-----------------------------------------------------------------------------
(* A transaction is its inputs and its outputs; a payout pays `user', and  *)
(* the vault its change.                                                   *)
Output(script, value) == [script |-> script, value |-> value]

FirstTo(tx, script, others) ==
    {i \in DOMAIN tx.outputs : tx.outputs[i].script = script /\ i \notin others}

verify_payout_tx_uncounted(amount, tx, plan) ==
    LET dest == FirstTo(tx, "user", {}) IN
    /\ tx.inputs = plan.inputs
    /\ dest # {} /\ tx.outputs[Min(dest)].value = plan.pay
    /\ \A i \in DOMAIN tx.outputs : tx.outputs[i].script \in {"user", "vault"}

verify_payout_tx(amount, tx, plan) ==
    LET dest == FirstTo(tx, "user", {})
        change == FirstTo(tx, "vault", {Min(dest)})
    IN  /\ tx.inputs = plan.inputs
        /\ Len(tx.outputs) = IF plan.change > 0 THEN 2 ELSE 1
        /\ dest # {} /\ tx.outputs[Min(dest)].value = plan.pay
        /\ plan.change > 0 => change # {} /\ tx.outputs[Min(change)].value = plan.change
        /\ \A i \in DOMAIN tx.outputs :
              tx.outputs[i].script \in {"user"} \cup (IF plan.change > 0 THEN {"vault"} ELSE {})
        /\ Total(amount, plan.inputs) = plan.pay + plan.change + plan.fee

-----------------------------------------------------------------------------
(* plan_sweep: everything that is available, in the database's order, to   *)
(* one destination.                                                        *)
plan_sweep_unchecked(amount, utxos, dest) ==
    LET total == Total(amount, utxos)
        fee == fee_for(Len(utxos), 1)
    IN  {[inputs |-> utxos, dest |-> dest, fee |-> fee, swept |-> total - fee]}

plan_sweep(amount, utxos, dest) ==
    LET total == Total(amount, utxos)
        fee == fee_for(Len(utxos), 1)
    IN  IF utxos # <<>> /\ dest # "vault" /\ Len(utxos) <= MaxInputs
           /\ total > fee /\ total - fee >= Dust
        THEN {[inputs |-> utxos, dest |-> dest, fee |-> fee, swept |-> total - fee]}
        ELSE {}

SweepTx(plan) == [inputs |-> plan.inputs, outputs |-> <<Output(plan.dest, plan.swept)>>]

(* What an operator approves: this vault, this destination, this fee and   *)
(* these inputs with their amounts, in this order.                         *)
commitment(amount, plan) ==
    [source |-> VaultKeys, dest |-> plan.dest, fee |-> plan.fee, swept |-> plan.swept,
     inputs |-> [i \in DOMAIN plan.inputs |-> <<plan.inputs[i], amount[plan.inputs[i]]>>]]

(* plan_from_local_view: the plan a transaction is, valued by one's own    *)
(* rows.                                                                   *)
plan_from_local_view(amount, available, tx) ==
    LET value == tx.outputs[1].value
        total == Total(amount, tx.inputs)
    IN  IF /\ ToSet(tx.inputs) \subseteq available
           /\ Len(tx.outputs) = 1
           /\ value <= total
           /\ total - value <= MAX_SWEEP_FEE_MULTIPLE * fee_for(Len(tx.inputs), 1)
        THEN {[inputs |-> tx.inputs, dest |-> tx.outputs[1].script,
               fee |-> total - value, swept |-> value]}
        ELSE {}

(* The transaction realises the plan. *)
verify_sweep_tx(tx, plan) == tx = SweepTx(plan)

-----------------------------------------------------------------------------
Position(k) == CHOOSE i \in DOMAIN VaultKeys : VaultKeys[i] = k

(* assemble: exactly M of the vault's signers, each once, in the order of  *)
(* the redeem script.                                                      *)
assemble(keys) ==
    IF /\ ToSet(keys) \subseteq ToSet(VaultKeys) /\ IsInjective(keys)
       /\ Len(keys) = VaultThreshold
    THEN {s \in SetToSeqs(ToSet(keys)) :
              \A i, j \in DOMAIN s : i < j => Position(s[i]) < Position(s[j])}
    ELSE {}

(* What OP_CHECKMULTISIG asks of them. *)
Spends(keys) ==
    /\ Len(keys) = VaultThreshold
    /\ \A i \in DOMAIN keys : keys[i] \in ToSet(VaultKeys)
    /\ \A i, j \in DOMAIN keys : i < j => Position(keys[i]) < Position(keys[j])
=============================================================================
