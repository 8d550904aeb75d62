---------------------------- MODULE BridgeProgram ----------------------------
(***************************************************************************)
(* The glc-bridge Solana program: the accounts it owns, the wrapped-GLC    *)
(* mint it controls, and every instruction that changes them.              *)
(*                                                                         *)
(* A Solana transaction is atomic: an instruction that fails a check       *)
(* leaves no trace, so each action is one instruction with all its checks  *)
(* as guards.  Anyone may submit mint, complete, propose, execute and      *)
(* cancel; what authorises them is a federation proof over the signatures  *)
(* that exist.  A signature never disappears: once a validator has signed  *)
(* a message, anyone may present that signature, any number of times.      *)
(*                                                                         *)
(* Integers are bounded by U64Max and I64Max, which stand for the machine  *)
(* widths; every addition in the program is checked, so a small width      *)
(* reaches the same overflow exits as a large one.                         *)
(***************************************************************************)
EXTENDS FederationProof, FiniteSetsExt

CONSTANTS
    U64Max,         \* the largest u64
    I64Max,         \* the largest timestamp
    Wallets,        \* Solana wallets that hold or receive wrapped GLC
    Admins,         \* keys that may act as the bridge's admin
    Authority,      \* the one that holds the program's upgrade authority
    Outpoints,      \* Goldcoin outputs (txid, vout)
    Deposits,       \* [outpoint, amount, recipient] that may be claimed
    BurnAmounts,    \* amounts a user tries to burn
    Dests,          \* Goldcoin addresses of an accepted length
    TxIds, ZeroTxId,\* payout transaction ids, the all-zero one included
    Heights,        \* payout heights, zero included
    ValidatorLists, \* validator lists that are proposed
    Thresholds,     \* thresholds that are proposed
    Caps,           \* wrapped-supply caps that are configured or proposed
    Minimums,       \* minimum deposits and withdrawals that are configured
    Timelocks,      \* governance timelocks that are configured
    Coalitions,     \* sets of keys that sign together
    MaxMessages,    \* bound: how many different messages are ever signed
    MaxWithdrawals  \* bound: how many withdrawals are ever requested

U64 == 0..U64Max
I64 == 0..I64Max
ZeroPayout == [txid |-> ZeroTxId, height |-> 0]
None == "none"

ASSUME ProgramAssumption ==
    /\ U64Max \in Nat
    /\ I64Max \in Nat
    /\ Authority \in Admins
    /\ IsFiniteSet(Wallets)
    /\ ZeroTxId \in TxIds
    /\ Deposits \subseteq [outpoint : Outpoints, amount : U64, recipient : Wallets]
    /\ BurnAmounts \subseteq U64
    /\ Heights \subseteq U64
    /\ ValidatorLists \subseteq Seq(Keys)
    /\ Thresholds \subseteq Nat
    /\ Caps \subseteq U64
    /\ Minimums \subseteq U64
    /\ Timelocks \subseteq I64
    /\ \A C \in Coalitions : C \subseteq Keys \ {DefaultKey}

VARIABLES
    config,         \* BridgeConfig, with `initialized' for the account's existence
    validatorSet,   \* ValidatorSet
    pending,        \* PendingGovernanceAction; action = None when there is none
    claims,         \* the DepositClaim accounts
    withdrawals,    \* the WithdrawalRequest accounts, by index
    atas,           \* wallets that have an associated token account
    balances,       \* wrapped-GLC balances
    supply,         \* the mint's supply
    now,            \* Clock::unix_timestamp
    signatures,     \* every [key, message] the validators have signed
    \* history variables, read by the properties only
    history,        \* the validator set of each epoch and when it was queued and applied
    queued          \* when the pending action was queued, and the cap in force then

accounts == <<config, validatorSet, pending, claims, withdrawals>>
tokens == <<atas, balances, supply>>
ghosts == <<history, queued>>
vars == <<config, validatorSet, pending, claims, withdrawals,
          atas, balances, supply, now, signatures, history, queued>>

-----------------------------------------------------------------------------
SetType == [validators : Seq(Keys), threshold : Nat]

ConfigType ==
    [initialized : BOOLEAN, admin : Admins, pending_admin : Admins \cup {None},
     paused : BOOLEAN, withdrawal_count : U64, min_deposit : U64,
     min_withdrawal : U64, has_mint : BOOLEAN, timelock : I64,
     max_wrapped_supply : U64]

PendingType ==
    [action : {None, "rotation", "raise"}, proposed_under_epoch : U64,
     eta : I64, threshold : Nat, validators : Seq(Keys), new_max : U64]

ClaimType ==
    [outpoint : Outpoints, amount : U64, recipient : Wallets, epoch : U64]

WithdrawalType ==
    [amount : U64, requester : Wallets, dest : Dests,
     status : {"Pending", "Completed"},
     payout : [txid : TxIds, height : U64]]

Message ==
    [type : {"deposit"}, epoch : U64, outpoint : Outpoints, amount : U64,
        recipient : Wallets]
    \cup [type : {"completion"}, epoch : U64, index : U64, txid : TxIds,
            height : U64, amount : U64, dest : Dests]
    \cup [type : {"rotation"}, epoch : U64, threshold : Nat, validators : Seq(Keys)]
    \cup [type : {"raise"}, epoch : U64, newMax : U64]
    \cup [type : {"cancel"}, epoch : U64, action : {"rotation", "raise"}, eta : I64]

NoAction ==
    [action |-> None, proposed_under_epoch |-> 0, eta |-> 0, threshold |-> 0,
     validators |-> <<>>, new_max |-> 0]

NoEpoch == [validators |-> <<>>, threshold |-> 0, queued_at |-> 0, since |-> 0]

Init ==
    /\ config = [initialized |-> FALSE, admin |-> Authority, pending_admin |-> None,
                 paused |-> FALSE, withdrawal_count |-> 0, min_deposit |-> 0,
                 min_withdrawal |-> 0, has_mint |-> FALSE, timelock |-> 0,
                 max_wrapped_supply |-> 0]
    /\ validatorSet = [epoch |-> 0, validators |-> <<>>, threshold |-> 0]
    /\ pending = NoAction
    /\ claims = {}
    /\ withdrawals = <<>>
    /\ atas = {}
    /\ balances = [w \in Wallets |-> 0]
    /\ supply = 0
    /\ now = 0
    /\ signatures = {}
    /\ history = [e \in U64 |-> NoEpoch]
    /\ queued = [at |-> 0, cap |-> 0]

-----------------------------------------------------------------------------
(* Deployment.                                                             *)

initialize(validators, threshold, minDeposit, minWithdrawal, timelock, cap) ==
    /\ ~config.initialized
    /\ validate_validator_set(validators, threshold)
    /\ timelock > 0
    /\ cap > 0
    /\ config' = [initialized |-> TRUE, admin |-> Authority, pending_admin |-> None,
                  paused |-> FALSE, withdrawal_count |-> 0,
                  min_deposit |-> minDeposit, min_withdrawal |-> minWithdrawal,
                  has_mint |-> FALSE, timelock |-> timelock,
                  max_wrapped_supply |-> cap]
    /\ validatorSet' = [epoch |-> 0, validators |-> validators, threshold |-> threshold]
    /\ history' = [history EXCEPT ![0] =
                     [validators |-> validators, threshold |-> threshold,
                      queued_at |-> now, since |-> now]]
    /\ UNCHANGED <<pending, claims, withdrawals, tokens, now, signatures,
                   queued>>

create_wrapped_mint(caller) ==
    /\ config.initialized
    /\ config.admin = caller
    /\ ~config.has_mint
    /\ config' = [config EXCEPT !.has_mint = TRUE]
    /\ UNCHANGED <<validatorSet, pending, claims, withdrawals, tokens, now,
                   signatures, ghosts>>

-----------------------------------------------------------------------------
(* Value: mint, burn, complete.                                            *)

(* The SPL token program's mint_to_checked and burn_checked; it checks its *)
(* own arithmetic on the account and on the mint.                          *)
TokenMintTo(wallet, amount) ==
    /\ balances[wallet] + amount <= U64Max
    /\ supply + amount <= U64Max
    /\ balances' = [balances EXCEPT ![wallet] = @ + amount]
    /\ supply' = supply + amount

TokenBurnFrom(wallet, amount) ==
    /\ amount <= balances[wallet]
    /\ amount <= supply
    /\ balances' = [balances EXCEPT ![wallet] = @ - amount]
    /\ supply' = supply - amount

(* Mutant: init_if_needed, an existing claim account is no error. *)
ClaimExists_never(outpoint) == FALSE

(* Mutant: the epoch is one of the seeds of the claim's address. *)
ClaimExists_per_epoch(outpoint) ==
    \E c \in claims : c.outpoint = outpoint /\ c.epoch = validatorSet.epoch

(* The claim account's existence is the replay guard. *)
ClaimExists(outpoint) == \E c \in claims : c.outpoint = outpoint

mint_wrapped(outpoint, amount, recipient, epoch, entries) ==
    /\ config.initialized
    /\ config.has_mint
    /\ recipient \in atas
    /\ ~ClaimExists(outpoint)
    /\ ~config.paused
    /\ epoch = validatorSet.epoch
    /\ amount > 0
    /\ amount >= config.min_deposit
    /\ supply + amount <= U64Max
    /\ supply + amount <= config.max_wrapped_supply
    /\ require_federation_approval(entries,
           deposit_claim_message(validatorSet.epoch, outpoint, amount, recipient),
           validatorSet)
    /\ TokenMintTo(recipient, amount)
    /\ claims' = claims \cup {[outpoint |-> outpoint, amount |-> amount,
                               recipient |-> recipient, epoch |-> validatorSet.epoch]}
    /\ UNCHANGED <<config, validatorSet, pending, withdrawals, atas, now,
                   signatures, ghosts>>

(* The withdrawal is stored under the counter's current value. *)
(* Mutant: the counter is not advanced. *)
burn_wrapped_uncounted(user, amount, dest) ==
    /\ config.initialized
    /\ config.has_mint
    /\ user \in atas
    /\ ~config.paused
    /\ amount > 0
    /\ amount >= config.min_withdrawal
    /\ config.withdrawal_count + 1 <= U64Max
    /\ config.withdrawal_count < MaxWithdrawals
    /\ TokenBurnFrom(user, amount)
    /\ withdrawals' = [i \in 0..config.withdrawal_count |->
                         IF i = config.withdrawal_count
                         THEN [amount |-> amount, requester |-> user, dest |-> dest,
                               status |-> "Pending", payout |-> ZeroPayout]
                         ELSE withdrawals[i]]
    /\ UNCHANGED <<config, validatorSet, pending, claims, atas, now, signatures, ghosts>>

burn_wrapped(user, amount, dest) ==
    /\ config.initialized
    /\ config.has_mint
    /\ user \in atas
    /\ ~config.paused
    /\ amount > 0
    /\ amount >= config.min_withdrawal
    /\ config.withdrawal_count + 1 <= U64Max
    /\ config.withdrawal_count < MaxWithdrawals
    /\ TokenBurnFrom(user, amount)
    /\ withdrawals' = [i \in 0..config.withdrawal_count |->
                         IF i = config.withdrawal_count
                         THEN [amount |-> amount, requester |-> user, dest |-> dest,
                               status |-> "Pending", payout |-> ZeroPayout]
                         ELSE withdrawals[i]]
    /\ config' = [config EXCEPT !.withdrawal_count = @ + 1]
    /\ UNCHANGED <<validatorSet, pending, claims, atas, now, signatures, ghosts>>

(* Mutant: neither the pause nor the record's status is looked at. *)
complete_withdrawal_unguarded(index, txid, height, epoch, entries) ==
    /\ config.initialized
    /\ index \in DOMAIN withdrawals
    /\ epoch = validatorSet.epoch
    /\ txid # ZeroTxId
    /\ height > 0
    /\ require_federation_approval(entries,
           withdrawal_completion_message(validatorSet.epoch, index, txid, height,
               withdrawals[index].amount, withdrawals[index].dest),
           validatorSet)
    /\ withdrawals' = [withdrawals EXCEPT
                         ![index].payout = [txid |-> txid, height |-> height],
                         ![index].status = "Completed"]
    /\ UNCHANGED <<config, validatorSet, pending, claims, tokens, now,
                   signatures, ghosts>>

(* The amount and the destination the proof must name are the record's.    *)
complete_withdrawal(index, txid, height, epoch, entries) ==
    /\ config.initialized
    /\ index \in DOMAIN withdrawals
    /\ ~config.paused
    /\ epoch = validatorSet.epoch
    /\ withdrawals[index].status = "Pending"
    /\ withdrawals[index].payout = ZeroPayout
    /\ txid # ZeroTxId
    /\ height > 0
    /\ require_federation_approval(entries,
           withdrawal_completion_message(validatorSet.epoch, index, txid, height,
               withdrawals[index].amount, withdrawals[index].dest),
           validatorSet)
    /\ withdrawals' = [withdrawals EXCEPT
                         ![index].payout = [txid |-> txid, height |-> height],
                         ![index].status = "Completed"]
    /\ UNCHANGED <<config, validatorSet, pending, claims, tokens, now,
                   signatures, ghosts>>

-----------------------------------------------------------------------------
(* Governance: one action is queued at a time, behind the timelock.        *)

propose_validator_rotation(validators, threshold, entries) ==
    /\ config.initialized
    /\ pending.action = None
    /\ validate_validator_set(validators, threshold)
    /\ require_federation_approval(entries,
           rotation_message(validatorSet.epoch, threshold, validators), validatorSet)
    /\ now + config.timelock <= I64Max
    /\ pending' = [action |-> "rotation",
                   proposed_under_epoch |-> validatorSet.epoch,
                   eta |-> now + config.timelock, threshold |-> threshold,
                   validators |-> validators, new_max |-> 0]
    /\ queued' = [at |-> now, cap |-> config.max_wrapped_supply]
    /\ UNCHANGED <<config, validatorSet, claims, withdrawals, tokens, now,
                   signatures, history>>

(* Mutant: the executed action is not closed. *)
execute_validator_rotation_kept ==
    /\ config.initialized
    /\ pending.action = "rotation"
    /\ now >= pending.eta
    /\ validatorSet.epoch = pending.proposed_under_epoch
    /\ validate_validator_set(pending.validators, pending.threshold)
    /\ validatorSet.epoch + 1 <= U64Max
    /\ validatorSet' = [epoch |-> validatorSet.epoch + 1,
                        validators |-> pending.validators,
                        threshold |-> pending.threshold]
    /\ history' = [history EXCEPT ![validatorSet.epoch + 1] =
                     [validators |-> pending.validators,
                      threshold |-> pending.threshold,
                      queued_at |-> queued.at, since |-> now]]
    /\ UNCHANGED <<config, pending, claims, withdrawals, tokens, now, signatures,
                   queued>>

execute_validator_rotation ==
    /\ config.initialized
    /\ pending.action = "rotation"
    /\ now >= pending.eta
    /\ validatorSet.epoch = pending.proposed_under_epoch
    /\ validate_validator_set(pending.validators, pending.threshold)
    /\ validatorSet.epoch + 1 <= U64Max
    /\ validatorSet' = [epoch |-> validatorSet.epoch + 1,
                        validators |-> pending.validators,
                        threshold |-> pending.threshold]
    /\ pending' = NoAction
    /\ history' = [history EXCEPT ![validatorSet.epoch + 1] =
                     [validators |-> pending.validators,
                      threshold |-> pending.threshold,
                      queued_at |-> queued.at, since |-> now]]
    /\ UNCHANGED <<config, claims, withdrawals, tokens, now, signatures,
                   queued>>

propose_wrapped_supply_cap_raise(newMax, entries) ==
    /\ config.initialized
    /\ pending.action = None
    /\ newMax > config.max_wrapped_supply
    /\ require_federation_approval(entries,
           raise_message(validatorSet.epoch, newMax), validatorSet)
    /\ now + config.timelock <= I64Max
    /\ pending' = [action |-> "raise",
                   proposed_under_epoch |-> validatorSet.epoch,
                   eta |-> now + config.timelock, threshold |-> 0,
                   validators |-> <<>>, new_max |-> newMax]
    /\ queued' = [at |-> now, cap |-> config.max_wrapped_supply]
    /\ UNCHANGED <<config, validatorSet, claims, withdrawals, tokens, now,
                   signatures, history>>

execute_wrapped_supply_cap_raise ==
    /\ config.initialized
    /\ pending.action = "raise"
    /\ now >= pending.eta
    /\ validatorSet.epoch = pending.proposed_under_epoch
    /\ pending.new_max > config.max_wrapped_supply
    /\ config' = [config EXCEPT !.max_wrapped_supply = pending.new_max]
    /\ pending' = NoAction
    /\ UNCHANGED <<validatorSet, claims, withdrawals, tokens, now, signatures, ghosts>>

(* Cancels whichever action is pending. *)
cancel_validator_rotation(entries) ==
    /\ config.initialized
    /\ pending.action # None
    /\ require_federation_approval(entries,
           cancel_message(validatorSet.epoch, pending.action, pending.eta),
           validatorSet)
    /\ pending' = NoAction
    /\ UNCHANGED <<config, validatorSet, claims, withdrawals, tokens, now,
                   signatures, history, queued>>

-----------------------------------------------------------------------------
(* The admin key.                                                          *)

set_paused(caller, paused) ==
    /\ config.initialized
    /\ config.admin = caller
    /\ config.paused # paused
    /\ config' = [config EXCEPT !.paused = paused]
    /\ UNCHANGED <<validatorSet, pending, claims, withdrawals, tokens, now,
                   signatures, ghosts>>

(* Mutant: any change of the cap is accepted. *)
lower_wrapped_supply_cap_any(caller, newMax) ==
    /\ config.initialized
    /\ config.admin = caller
    /\ newMax # config.max_wrapped_supply
    /\ newMax > 0
    /\ config' = [config EXCEPT !.max_wrapped_supply = newMax]
    /\ UNCHANGED <<validatorSet, pending, claims, withdrawals, tokens, now,
                   signatures, ghosts>>

(* Mutant: the cap may be lowered to zero. *)
lower_wrapped_supply_cap_to_zero(caller, newMax) ==
    /\ config.initialized
    /\ config.admin = caller
    /\ newMax < config.max_wrapped_supply
    /\ config' = [config EXCEPT !.max_wrapped_supply = newMax]
    /\ UNCHANGED <<validatorSet, pending, claims, withdrawals, tokens, now,
                   signatures, ghosts>>

lower_wrapped_supply_cap(caller, newMax) ==
    /\ config.initialized
    /\ config.admin = caller
    /\ newMax < config.max_wrapped_supply
    /\ newMax > 0
    /\ config' = [config EXCEPT !.max_wrapped_supply = newMax]
    /\ UNCHANGED <<validatorSet, pending, claims, withdrawals, tokens, now,
                   signatures, ghosts>>

transfer_admin(caller, newAdmin) ==
    /\ config.initialized
    /\ config.admin = caller
    /\ newAdmin # config.admin
    /\ config' = [config EXCEPT !.pending_admin = newAdmin]
    /\ UNCHANGED <<validatorSet, pending, claims, withdrawals, tokens, now,
                   signatures, ghosts>>

accept_admin(caller) ==
    /\ config.initialized
    /\ config.pending_admin # None
    /\ config.pending_admin = caller
    /\ config' = [config EXCEPT !.admin = config.pending_admin, !.pending_admin = None]
    /\ UNCHANGED <<validatorSet, pending, claims, withdrawals, tokens, now,
                   signatures, ghosts>>

-----------------------------------------------------------------------------
(* Around the program: validators sign, holders use the token program      *)
(* directly, time passes.                                                  *)

(* Everything the validators can be asked to sign: under the current epoch *)
(* or, by a validator that has not noticed a rotation, an earlier one.     *)
SignableMessages ==
    LET epochs == 0..validatorSet.epoch IN
    {deposit_claim_message(e, d.outpoint, d.amount, d.recipient) :
        e \in epochs, d \in Deposits}
    \cup {withdrawal_completion_message(e, i, t, h, withdrawals[i].amount,
                                        withdrawals[i].dest) :
            e \in epochs, i \in DOMAIN withdrawals, t \in TxIds, h \in Heights}
    \cup {rotation_message(e, t, v) :
            e \in epochs, t \in Thresholds, v \in ValidatorLists}
    \cup {raise_message(e, c) : e \in epochs, c \in Caps}
    \cup {cancel_message(e, a, pending.eta) :
            e \in epochs, a \in {pending.action} \ {None}}

SignedMessages == {s.message : s \in signatures}

Sign(coalition, message) ==
    /\ config.initialized
    /\ message \notin SignedMessages
    /\ Cardinality(SignedMessages) < MaxMessages
    /\ signatures' = signatures \cup {[key |-> k, message |-> message] : k \in coalition}
    /\ UNCHANGED <<accounts, tokens, now, ghosts>>

CreateAta(wallet) ==
    /\ config.has_mint
    /\ wallet \notin atas
    /\ atas' = atas \cup {wallet}
    /\ UNCHANGED <<accounts, balances, supply, now, signatures, ghosts>>

TokenTransfer(from, to, amount) ==
    /\ {from, to} \subseteq atas
    /\ from # to
    /\ amount > 0
    /\ amount <= balances[from] /\ balances[to] + amount <= U64Max
    /\ balances' = [balances EXCEPT ![from] = @ - amount, ![to] = @ + amount]
    /\ UNCHANGED <<accounts, atas, supply, now, signatures, ghosts>>

(* A holder burns with the token program, without requesting a payout. *)
TokenBurn(wallet, amount) ==
    /\ wallet \in atas
    /\ amount > 0
    /\ TokenBurnFrom(wallet, amount)
    /\ UNCHANGED <<accounts, atas, now, signatures, ghosts>>

Tick ==
    /\ config.initialized
    /\ now < I64Max
    /\ now' = now + 1
    /\ UNCHANGED <<accounts, tokens, signatures, ghosts>>

-----------------------------------------------------------------------------
(* The longest list of entries worth presenting: one per validator.        *)
Proofs == Entries(signatures, MaxValidators)

Deploy ==
    \/ \E v \in ValidatorLists, t \in Thresholds, d, w \in Minimums,
          l \in Timelocks, c \in Caps : initialize(v, t, d, w, l, c)
    \/ \E a \in Admins : create_wrapped_mint(a)

MoveValue ==
    \/ \E d \in Deposits, e \in U64 : \E p \in Proofs :
          mint_wrapped(d.outpoint, d.amount, d.recipient, e, p)
    \/ \E u \in Wallets, a \in BurnAmounts, d \in Dests : burn_wrapped(u, a, d)
    \/ \E i \in DOMAIN withdrawals, t \in TxIds, h \in Heights, e \in U64 :
          \E p \in Proofs : complete_withdrawal(i, t, h, e, p)

Govern ==
    \/ \E v \in ValidatorLists, t \in Thresholds : \E p \in Proofs :
          propose_validator_rotation(v, t, p)
    \/ execute_validator_rotation
    \/ \E c \in Caps : \E p \in Proofs : propose_wrapped_supply_cap_raise(c, p)
    \/ execute_wrapped_supply_cap_raise
    \/ \E p \in Proofs : cancel_validator_rotation(p)

Administer ==
    \E a \in Admins :
        \/ \E b \in BOOLEAN : set_paused(a, b)
        \/ \E c \in Caps : lower_wrapped_supply_cap(a, c)
        \/ \E n \in Admins : transfer_admin(a, n)
        \/ accept_admin(a)

Environment ==
    \/ \E C \in Coalitions, m \in SignableMessages : Sign(C, m)
    \/ \E w \in Wallets : CreateAta(w)
    \/ \E f, t \in Wallets, a \in BurnAmounts : TokenTransfer(f, t, a)
    \/ \E w \in Wallets, a \in BurnAmounts : TokenBurn(w, a)
    \/ Tick

Next == Deploy \/ MoveValue \/ Govern \/ Administer \/ Environment

Spec == Init /\ [][Next]_vars

-----------------------------------------------------------------------------
(* Every account, balance, signature and history entry has its type. *)
TypeOK ==
    /\ config \in ConfigType
    /\ validatorSet \in [epoch : U64, validators : Seq(Keys), threshold : Nat]
    /\ pending \in PendingType
    /\ claims \subseteq ClaimType
    /\ withdrawals \in [0..(config.withdrawal_count - 1) -> WithdrawalType]
    /\ atas \subseteq Wallets
    /\ balances \in [Wallets -> U64]
    /\ supply \in U64
    /\ now \in I64
    /\ signatures \subseteq [key : Keys, message : Message]
    /\ history \in [U64 -> [validators : Seq(Keys), threshold : Nat,
                            queued_at : I64, since : I64]]
    /\ queued \in [at : I64, cap : U64]

(* The configuration stays usable whatever the admin and the federation    *)
(* do: the cap and the timelock are never zero, and the validator set can  *)
(* always reach its threshold with distinct, usable keys.                  *)
ConfigStaysUsable ==
    config.initialized =>
        /\ config.max_wrapped_supply > 0
        /\ config.timelock > 0
        /\ validate_validator_set(validatorSet.validators, validatorSet.threshold)

(* Until initialize has run there is nothing to act on. *)
NothingBeforeInitialize ==
    ~config.initialized =>
        /\ config.withdrawal_count = 0
        /\ config.has_mint = FALSE
        /\ pending.action = None
        /\ claims = {}
        /\ validatorSet.epoch = 0

(* A queued action can always be executed once its time comes: it stays    *)
(* approved by the validators that are current, and nothing the            *)
(* admin, the federation or a holder does while it waits makes the checks  *)
(* execute_validator_rotation and execute_wrapped_supply_cap_raise repeat  *)
(* fail.  Nothing bumps the epoch while an action is pending, so the       *)
(* stale-epoch check is the defence in depth governance.rs calls it; and   *)
(* the cap only goes down meanwhile, so the re-check of a raise against    *)
(* the cap never refuses one: LoweringStands says what that costs.         *)
PendingStaysExecutable ==
    pending.action # None =>
        /\ pending.proposed_under_epoch = validatorSet.epoch
        /\ pending.eta = queued.at + config.timelock
        /\ pending.action = "rotation" =>
              /\ validate_validator_set(pending.validators, pending.threshold)
              /\ ApprovedBy(validatorSet,
                     rotation_message(validatorSet.epoch, pending.threshold,
                                      pending.validators),
                     signatures)
        /\ pending.action = "raise" =>
              /\ pending.new_max > config.max_wrapped_supply
              /\ ApprovedBy(validatorSet,
                     raise_message(validatorSet.epoch, pending.new_max), signatures)

(* ADR-0014: "A queued raise is re-checked at execution, so a raise        *)
(* proposed before an incident cannot silently undo an admin lowering that *)
(* happened during it".  That is: a raise that lands finds the cap it was  *)
(* proposed against.  execute_wrapped_supply_cap_raise compares the new    *)
(* cap with the lowered one, which makes it only easier to accept.         *)
LoweringStands ==
    [][pending.action = "raise" /\ config'.max_wrapped_supply > config.max_wrapped_supply
          => config.max_wrapped_supply = queued.cap]_vars

(* The federation can only be replaced by itself: every validator set that *)
(* was ever current, after the first, was signed for, under the epoch just *)
(* before, by a threshold of the set it replaced, and was public for the   *)
(* whole timelock before it took effect.                                   *)
ChainOfTrust ==
    config.initialized =>
    /\ history[validatorSet.epoch].validators = validatorSet.validators
    /\ history[validatorSet.epoch].threshold = validatorSet.threshold
    /\ \A e \in 1..validatorSet.epoch :
          /\ ApprovedBy(history[e - 1],
                 rotation_message(e - 1, history[e].threshold, history[e].validators),
                 signatures)
          /\ history[e].since >= history[e].queued_at + config.timelock

(* Every deposit claim was approved, with its exact output, amount and     *)
(* recipient, by a threshold of the validators of the epoch it was minted  *)
(* in; no signature of another epoch, deposit or message kind counted.     *)
ClaimsAreApproved ==
    \A c \in claims :
        /\ c.epoch <= validatorSet.epoch
        /\ ApprovedBy(history[c.epoch],
               deposit_claim_message(c.epoch, c.outpoint, c.amount, c.recipient),
               signatures)

(* Every completed withdrawal carries the payout that a threshold of some  *)
(* epoch's validators attested for this very index, amount and destination.*)
CompletionsAreApproved ==
    \A i \in DOMAIN withdrawals :
        LET w == withdrawals[i] IN
        IF w.status = "Completed"
        THEN \E e \in 0..validatorSet.epoch :
                ApprovedBy(history[e],
                    withdrawal_completion_message(e, i, w.payout.txid,
                        w.payout.height, w.amount, w.dest),
                    signatures)
        ELSE w.payout = ZeroPayout

(* An output is claimed at most once, whatever amount and recipient the    *)
(* validators signed for it and in however many epochs.                    *)
NoDoubleClaim == \A c, d \in claims : c.outpoint = d.outpoint => c = d

(* What was claimed from deposits, what withdrawals ask for, what is held. *)
TotalClaimed(cs) == MapThenSumSet(LAMBDA c : c.amount, cs)
TotalRequested(ws) == MapThenSumSet(LAMBDA i : ws[i].amount, DOMAIN ws)
TotalHeld(bs) == MapThenSumSet(LAMBDA w : bs[w], Wallets)

(* Threat-model invariant 1, the program's half: wrapped GLC in            *)
(* circulation plus every payout obligation never exceeds what was claimed *)
(* from deposits, and the balances are exactly the supply.                 *)
Backed ==
    /\ supply + TotalRequested(withdrawals) <= TotalClaimed(claims)
    /\ supply = TotalHeld(balances)

(* What an account records stays recorded: claims are never closed or      *)
(* rewritten, a withdrawal keeps its amount, owner and destination, moves  *)
(* only from Pending to Completed, and never changes its payout again.     *)
RecordsArePermanent ==
    [][/\ claims \subseteq claims'
       /\ \A i \in DOMAIN withdrawals :
             /\ i \in DOMAIN withdrawals'
             /\ withdrawals'[i] # withdrawals[i] =>
                   /\ withdrawals[i].status = "Pending"
                   /\ withdrawals'[i].status = "Completed"
                   /\ [withdrawals'[i] EXCEPT !.status = "Pending", !.payout = ZeroPayout]
                         = withdrawals[i]]_vars

(* Exposure only grows with consent: after initialization the cap rises    *)
(* only to a value a threshold of the current validators signed for, and   *)
(* only when that raise has been queued for the whole timelock.            *)
CapRisesOnlyByGovernance ==
    [][config.initialized /\ config'.max_wrapped_supply > config.max_wrapped_supply =>
          /\ ApprovedBy(validatorSet,
                 raise_message(validatorSet.epoch, config'.max_wrapped_supply),
                 signatures)
          /\ now >= queued.at + config.timelock]_vars

(* Supply grows only within the cap in force and only against a new claim; *)
(* a paused bridge neither mints, accepts withdrawals nor completes them.  *)
ValueMovesWithinLimits ==
    [][/\ config.paused => claims' = claims /\ withdrawals' = withdrawals
       /\ supply' > supply =>
             /\ supply' <= config.max_wrapped_supply
             /\ \E c \in claims' \ claims : supply' - supply = c.amount]_vars

-----------------------------------------------------------------------------
(* The ledger that the accounts are.                                       *)

credited ==
    {[outpoint |-> c.outpoint, amount |-> c.amount, recipient |-> c.recipient] : c \in claims}
owed ==
    [i \in DOMAIN withdrawals |->
        [amount |-> withdrawals[i].amount, owner |-> withdrawals[i].requester,
         dest |-> withdrawals[i].dest, payout |-> withdrawals[i].payout]]

Ledger == INSTANCE BridgeLedger WITH
              held <- balances,
              limits <- [paused |-> config.paused, cap |-> config.max_wrapped_supply],
              Indices <- U64, Amounts <- U64 \ {0},
              Payouts <- [txid : TxIds, height : U64], Unpaid <- ZeroPayout

(* The program implements BridgeLedger: whoever signs, replays, rotates,   *)
(* pauses or lowers the cap in between, each output is credited once and   *)
(* within the cap of that moment, what is burned is owed as it was asked   *)
(* for, and what is owed is settled once and never while paused.           *)
LedgerIsKept == Ledger!Spec
=============================================================================
