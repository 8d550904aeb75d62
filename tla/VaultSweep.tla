------------------------------ MODULE VaultSweep ------------------------------
(***************************************************************************)
(* The vault under two kinds of spending at once: payouts, which each      *)
(* operator's executor plans from its own rows, and a sweep, which M       *)
(* operators approve one by one with glc-admin and one of them executes    *)
(* (bin/glc-admin.rs, p2p/sweep_view.rs, p2p/collector.rs); beside the     *)
(* governance of the same federation, whose rotations change whom a sweep  *)
(* asks.                                                                   *)
(*                                                                         *)
(* Operators have rows of their own and may disagree about what the vault  *)
(* holds.  A sweep is cut at its questions to the signers.  How a payout   *)
(* comes to its signatures is WithdrawalPipeline; here it takes effect     *)
(* after its plan, at once or never.  A signer names its vault key.  The   *)
(* commands that ask the peers run one at a time: a governance round and a *)
(* sweep ask for different things and share nothing but the set they read. *)
(***************************************************************************)
EXTENDS VaultCoins, GovernanceRounds

CONSTANTS
    Ids,            \* outputs the vault may come to have, 1..n
    Vaults,         \* what it may hold at first: sequences of amounts
    Deposit,        \* the amount of a later deposit
    Pays,           \* amounts a user may withdraw
    Dests,          \* where operators may want to sweep to
    MaxVaultChanges \* bound: deposits, payouts, approvals, restarts and failures

Operators == ToSet(VaultKeys)

(* Plans, what an operator commits to, and what it stages. *)
Plans == [inputs : Seq(Ids), dest : Dests, fee : Nat, swept : Nat]
Commitments ==
    [source : {VaultKeys}, dest : Dests, fee : Nat, swept : Nat, inputs : Seq(Ids \X Nat)]
SweepApprovals == [commitment : Commitments, expired : BOOLEAN]

ASSUME SweepAssumption ==
    /\ VaultKeys \in Seq(Asked)
    /\ IsFiniteSet(Ids) /\ Ids = 1..Cardinality(Ids)
    /\ Vaults \subseteq Seq(Nat \ {0}) /\ \A v \in Vaults : Len(v) <= Cardinality(Ids)
    /\ Deposit \in Nat \ {0} /\ Pays \subseteq Nat
    /\ MaxChanges <= MaxVaultChanges
    /\ None \notin SweepApprovals

VARIABLES
    amount,     \* of every output there has been
    unspent,    \* outputs on Goldcoin
    rows,       \* vault_utxos.state, per operator
    payout,     \* the payout in progress, or None
    staged,     \* each operator's sweep approval
    swears,     \* each signer's SweepView.signed
    sweep,      \* the sweep being executed
    ledger,     \* what has been deposited, paid, spent on fees and swept
    history     \* the sweeps each operator has staged, and those sent

coins == <<amount, unspent>>
sweepVars == <<amount, unspent, rows, payout, staged, swears, sweep, ledger, history>>
vars == <<sweepVars, governanceVars>>
GovernanceStays == <<program, approvals, signed, tool, sent, consents>>

NoSweep == [pc |-> "rest", plan |-> None, epoch |-> 0, todo |-> <<>>, partials |-> <<>>]
NoPayout == [pc |-> "none", plan |-> None]

Init ==
    /\ GovernanceInit
    /\ \E v \in Vaults :
          /\ amount = v
          /\ unspent = DOMAIN v
          /\ rows = [o \in Operators |-> [u \in DOMAIN v |-> "Available"]]
          /\ ledger = [deposited |-> Total(v, [u \in DOMAIN v |-> u]), paid |-> 0, fees |-> 0, swept |-> 0]
    /\ payout = NoPayout
    /\ staged = [o \in Operators |-> None]
    /\ swears = [o \in Operators |-> None]
    /\ sweep = NoSweep
    /\ history = [staged |-> [o \in Operators |-> {}], sent |-> {}]

VaultChange == changes < MaxVaultChanges /\ changes' = changes + 1

Known(o) == DOMAIN rows[o]
Available(o) == {u \in Known(o) : rows[o][u] = "Available"}
Candidates(o) == available_utxos(amount, Available(o))

-----------------------------------------------------------------------------
(* The vault and each operator's rows of it.                               *)

(* external *)
DepositArrives ==
    /\ Len(amount) < Cardinality(Ids)
    /\ amount' = Append(amount, Deposit)
    /\ unspent' = unspent \cup {Len(amount) + 1}
    /\ ledger' = [ledger EXCEPT !.deposited = @ + Deposit]
    /\ VaultChange
    /\ UNCHANGED <<rows, payout, staged, swears, sweep, history, GovernanceStays>>

(* sync_vault: outputs that appear are Available, those that vanish Spent; *)
(* a Reserved row stays.                                                   *)
sync_vault(o) ==
    /\ rows' = [rows EXCEPT ![o] = [u \in Known(o) \cup unspent |->
                  IF u \notin Known(o) THEN "Available"
                  ELSE IF rows[o][u] = "Available" /\ u \notin unspent THEN "Spent"
                  ELSE rows[o][u]]]
    /\ rows' # rows
    /\ UNCHANGED <<coins, payout, staged, swears, sweep, ledger, history, GovernanceStays, changes>>

-----------------------------------------------------------------------------
(* A payout: planned and reserved, built by the node, verified, spent.     *)

build(o, pay) ==
    /\ payout = NoPayout
    /\ \E plan \in select(amount, Candidates(o), pay) :
          /\ payout' = [pc |-> "planned", plan |-> plan]
          /\ rows' = [rows EXCEPT ![o] = [u \in Known(o) |->
                        IF u \in ToSet(plan.inputs) THEN "Reserved" ELSE rows[o][u]]]
    /\ VaultChange
    /\ UNCHANGED <<coins, staged, swears, sweep, ledger, history, GovernanceStays>>

(* create_raw_transaction, external: what was asked for, or not. *)
Built(plan) ==
    LET toUser == Output("user", plan.pay)
        toVault == Output("vault", plan.change)
        asked == IF plan.change > 0 THEN <<toUser, toVault>> ELSE <<toUser>>
    IN  [inputs : {plan.inputs},
         outputs : {asked, Reverse(asked), <<toUser>>, Append(asked, Output("vault", 1)),
                    <<Output("user", plan.pay - 1), toVault>>}]

Paid(tx) == MapThenSumSet(LAMBDA i : tx.outputs[i].value, FirstTo(tx, "user", {}))
Returned(tx) == MapThenSumSet(LAMBDA i : tx.outputs[i].value, FirstTo(tx, "vault", {}))

(* What verify_payout_tx passes is signed and mined, its change a new      *)
(* output of the vault; the plan's fee is what the books record.           *)
PayoutSpends ==
    /\ payout.pc = "planned" /\ ToSet(payout.plan.inputs) \subseteq unspent
    /\ \E tx \in Built(payout.plan) :
          /\ verify_payout_tx(amount, tx, payout.plan)
          /\ LET change == Returned(tx) IN
             /\ change > 0 => Len(amount) < Cardinality(Ids)
             /\ amount' = IF change > 0 THEN Append(amount, change) ELSE amount
             /\ unspent' = (unspent \ ToSet(tx.inputs))
                              \cup (IF change > 0 THEN {Len(amount) + 1} ELSE {})
          /\ ledger' = [ledger EXCEPT !.paid = @ + Paid(tx), !.fees = @ + payout.plan.fee]
    /\ payout' = [payout EXCEPT !.pc = "paid"]
    /\ UNCHANGED <<rows, staged, swears, sweep, history, GovernanceStays, changes>>

(* What it does not pass halts the withdrawal. *)
build_halts ==
    /\ payout.pc = "planned"
    /\ \E tx \in Built(payout.plan) : ~verify_payout_tx(amount, tx, payout.plan)
    /\ payout' = [payout EXCEPT !.pc = "halted"]
    /\ VaultChange
    /\ UNCHANGED <<coins, rows, staged, swears, sweep, ledger, history, GovernanceStays>>

-----------------------------------------------------------------------------
(* A sweep: each operator approves the plan it can build itself.           *)

build_plan(o, d) == plan_sweep(amount, Candidates(o), d)

(* The commitment the operator types, agreed with the others, must be that *)
(* of the plan its own rows give.                                          *)
sweep_approve(o, d) ==
    /\ \E plan \in build_plan(o, d) :
          /\ staged' = [staged EXCEPT ![o] =
                           [commitment |-> commitment(amount, plan), expired |-> FALSE]]
          /\ history' = [history EXCEPT !.staged[o] = @ \cup {plan}]
    /\ VaultChange
    /\ UNCHANGED <<coins, rows, payout, swears, sweep, ledger, GovernanceStays>>

sweep_revoke(o) ==
    /\ staged[o] # None
    /\ staged' = [staged EXCEPT ![o] = None]
    /\ VaultChange
    /\ UNCHANGED <<coins, rows, payout, swears, sweep, ledger, history, GovernanceStays>>

SweepApprovalExpires(o) ==
    /\ staged[o] # None /\ ~staged[o].expired
    /\ staged' = [staged EXCEPT ![o].expired = TRUE]
    /\ VaultChange
    /\ UNCHANGED <<coins, rows, payout, swears, sweep, ledger, history, GovernanceStays>>

SweepSignerRestarts(o) ==
    /\ swears[o] # None
    /\ swears' = [swears EXCEPT ![o] = None]
    /\ VaultChange
    /\ UNCHANGED <<coins, rows, payout, staged, sweep, ledger, history, GovernanceStays>>

(* The executing operator plans from its own rows and pairs the validators *)
(* of the program with the keys of the vault by their positions.           *)
DesignatedSigners ==
    [i \in 1..Min({Len(set.validators), Len(VaultKeys)}) |->
        [validator |-> set.validators[i], key |-> VaultKeys[i]]]

sweep_execute(o, d) ==
    /\ sweep.pc = "rest" /\ tool.pc = "rest"
    /\ \E plan \in build_plan(o, d) :
          sweep' = [pc |-> "asking", plan |-> plan, epoch |-> set.epoch,
                    todo |-> DesignatedSigners, partials |-> <<>>]
    /\ UNCHANGED <<coins, rows, payout, staged, swears, ledger, history, GovernanceStays, changes>>

(* sign_sweep: the transaction is what one's own rows say it is, is the    *)
(* one sweep approved, and no other was signed before.                     *)
AlreadySignedAnother(o, plan) == swears[o] \notin {None, commitment(amount, plan)}

SweepApproved_any(o, plan) == staged[o] # None /\ ~staged[o].expired
SweepApproved(o, plan) ==
    staged[o] = [commitment |-> commitment(amount, plan), expired |-> FALSE]

WillingToSweep(o, tx) ==
    \E plan \in plan_from_local_view(amount, Available(o), tx) :
        verify_sweep_tx(tx, plan) /\ SweepApproved(o, plan) /\ ~AlreadySignedAnother(o, plan)

sign_sweep(o, plan) == swears' = [swears EXCEPT ![o] = commitment(amount, plan)]

AskingSweep_but_the_last ==
    /\ sweep.pc = "asking" /\ Len(sweep.todo) > 1
    /\ Len(sweep.partials) < VaultThreshold
AskingSweep ==
    /\ sweep.pc = "asking" /\ sweep.todo # <<>>
    /\ Len(sweep.partials) < VaultThreshold
SweepPeer == Head(sweep.todo).validator
AskedSweep(partials) == sweep' = [sweep EXCEPT !.todo = Tail(@), !.partials = partials]
CanSweep == SweepPeer \in Operators /\ WillingToSweep(SweepPeer, SweepTx(sweep.plan))

(* accept_payout: the answer must come with the key that was designated. *)
accept_payout(partials) ==
    IF Head(sweep.todo).key = SweepPeer THEN Append(partials, SweepPeer) ELSE partials

ask_sweep ==
    /\ AskingSweep /\ CanSweep
    /\ sign_sweep(SweepPeer, sweep.plan)
    /\ AskedSweep(accept_payout(sweep.partials))
    /\ UNCHANGED <<coins, rows, payout, staged, ledger, history, GovernanceStays, changes>>

ask_sweep_refused ==
    /\ AskingSweep /\ (~CanSweep \/ sweep.epoch # set.epoch)
    /\ AskedSweep(sweep.partials)
    /\ UNCHANGED <<coins, rows, payout, staged, swears, ledger, history, GovernanceStays, changes>>

ask_sweep_unavailable ==
    /\ AskingSweep
    /\ \/ UNCHANGED swears
       \/ CanSweep /\ sign_sweep(SweepPeer, sweep.plan)
    /\ AskedSweep(sweep.partials)
    /\ VaultChange
    /\ UNCHANGED <<coins, rows, payout, staged, ledger, history, GovernanceStays>>

(* Another peer may ask a signer, for whatever sweep it likes. *)
PeerAsksForSweep(o, plan) ==
    /\ WillingToSweep(o, SweepTx(plan)) /\ swears[o] # commitment(amount, plan)
    /\ sign_sweep(o, plan)
    /\ UNCHANGED <<coins, rows, payout, staged, sweep, ledger, history, GovernanceStays, changes>>

Collected == sweep.pc = "asking" /\ ~AskingSweep

sweep_falls_short ==
    /\ Collected /\ Len(sweep.partials) < VaultThreshold
    /\ sweep' = NoSweep
    /\ UNCHANGED <<coins, rows, payout, staged, swears, ledger, history, GovernanceStays, changes>>

(* Assembled and broadcast: accepted if its inputs are there still. *)
SweepSpends ==
    /\ Collected /\ Len(sweep.partials) >= VaultThreshold
    /\ \E keys \in assemble(sweep.partials) :
          IF ToSet(sweep.plan.inputs) \subseteq unspent /\ Spends(keys)
          THEN /\ unspent' = unspent \ ToSet(sweep.plan.inputs)
               /\ ledger' = [ledger EXCEPT !.swept = @ + sweep.plan.swept, !.fees = @ + sweep.plan.fee]
               /\ history' = [history EXCEPT !.sent = @ \cup {sweep.plan}]
          ELSE UNCHANGED <<unspent, ledger, history>>
    /\ sweep' = NoSweep
    /\ UNCHANGED <<amount, rows, payout, staged, swears, GovernanceStays, changes>>

-----------------------------------------------------------------------------
ForeignPlans ==
    {[inputs |-> available_utxos(amount, U), dest |-> d, fee |-> f,
      swept |-> MapThenSumSet(LAMBDA u : amount[u], U) - f] :
        U \in SUBSET unspent, d \in Dests,
        f \in {fee_for(1, 1), fee_for(Cardinality(unspent), 1)}} \cap Plans

SweepStep == ask_sweep \/ ask_sweep_refused \/ sweep_falls_short \/ SweepSpends

SweepNext ==
    \/ DepositArrives \/ PayoutSpends \/ build_halts
    \/ \E o \in Operators, p \in Pays : build(o, p)
    \/ \E o \in Operators, d \in Dests : sweep_approve(o, d) \/ sweep_execute(o, d)
    \/ \E o \in Operators :
          sync_vault(o) \/ sweep_revoke(o) \/ SweepApprovalExpires(o) \/ SweepSignerRestarts(o)
    \/ SweepStep \/ ask_sweep_unavailable
    \/ \E o \in Operators : \E plan \in ForeignPlans : PeerAsksForSweep(o, plan)

OneCommand == sweep.pc = "rest" \/ tool.pc = "rest"

Next == SweepNext \/ (GovernanceNext /\ UNCHANGED sweepVars /\ OneCommand')

Spec == Init /\ [][Next]_vars

(* A sweep that has begun goes on, and one that some operator has staged   *)
(* is executed again.                                                      *)
SweepWanted(d) == \E o \in Operators : staged[o] # None /\ staged[o].commitment.dest = d
Fairness ==
    /\ GovernanceFairness
    /\ WF_vars(SweepStep)
    /\ \A o \in Operators, d \in Dests : SF_vars(SweepWanted(d) /\ sweep_execute(o, d))

LiveSpec == Spec /\ Fairness

-----------------------------------------------------------------------------
Selections == [inputs : Seq(Ids), pay : Pays, fee : Nat, change : Nat]

VaultTypeOK ==
    /\ amount \in Seq(Nat \ {0}) /\ DOMAIN amount \subseteq Ids /\ unspent \subseteq DOMAIN amount
    /\ DOMAIN rows = Operators
    /\ \A o \in Operators : Known(o) \subseteq DOMAIN amount
          /\ rows[o] \in [Known(o) -> {"Available", "Reserved", "Spent"}]
    /\ payout \in [pc : {"none", "planned", "paid", "halted"}, plan : Selections \cup {None}]
    /\ staged \in [Operators -> SweepApprovals \cup {None}]
    /\ swears \in [Operators -> Commitments \cup {None}]
    /\ sweep \in [pc : {"rest", "asking"}, plan : Plans \cup {None}, epoch : Nat,
                  todo : Seq([validator : Keys, key : Operators]), partials : Seq(Operators)]
    /\ ledger \in [deposited : Nat, paid : Nat, fees : Nat, swept : Nat]
    /\ history \in [staged : [Operators -> SUBSET Plans], sent : SUBSET Plans]

(* The variables' types; governance's and the vault's. *)
TypeOK == GovernanceTypeOK /\ VaultTypeOK

(* The books balance: what the vault holds, what users were paid, the fees *)
(* as planned and what was swept add up to what was deposited, whatever    *)
(* the node builds and however payouts and sweeps take turns; and a user   *)
(* who is paid gets the amount burned.                                     *)
BooksBalance ==
    /\ MapThenSumSet(LAMBDA u : amount[u], unspent) + ledger.paid + ledger.fees + ledger.swept
          = ledger.deposited
    /\ payout.pc = "paid" => ledger.paid = payout.plan.pay

(* Whatever rows an operator comes to have, a payout selected from them    *)
(* pays at least the policy fee of its own shape, creates no dust, and     *)
(* gives away less than dust beyond the fee of a payout with change.       *)
SelectionIsSound ==
    \A o \in Operators, p \in Pays : \A s \in select(amount, Candidates(o), p) :
        /\ ToSet(s.inputs) \subseteq Available(o) /\ Len(s.inputs) \in 1..MaxInputs
        /\ s.change = 0 \/ s.change >= Dust
        /\ 1000 * s.fee >= FeeRate * estimated_size_bytes(Len(s.inputs), IF s.change > 0 THEN 2 ELSE 1)
        /\ s.fee < fee_for(Len(s.inputs), 2) + Dust \/ s.fee = fee_for(Len(s.inputs), 2)

LargestFirst(candidates) ==
    \A i, j \in DOMAIN candidates : i < j => amount[candidates[i]] >= amount[candidates[j]]

(* Whenever the candidates come largest first, selection fails only if no  *)
(* allowed number of outputs covers the amount and the fee of a payout     *)
(* with change.  But for one output of exactly the right amount, select    *)
(* reckons with that fee also where no change would be left.               *)
SelectionFindsEnough ==
    \A o \in Operators, p \in Pays :
        LargestFirst(Candidates(o)) /\ select(amount, Candidates(o), p) = {} =>
            \A U \in SUBSET Available(o) :
                Cardinality(U) \in 1..MaxInputs =>
                    MapThenSumSet(LAMBDA u : amount[u], U) < p + fee_for(Cardinality(U), 2)

(* A sweep that is broadcast was staged, to the last input, by as many     *)
(* operators as the vault has signatures to give, although rows, approvals *)
(* and requests change while it is collected.                              *)
SweepIsConsented ==
    \A plan \in history.sent :
        Cardinality({o \in Operators : plan \in history.staged[o]}) >= VaultThreshold

(* A sweep that an operator can plan and M signers, paired with their own  *)
(* keys, stand ready to sign is broadcast in the end, or something about   *)
(* it changes.                                                             *)
Ready(plan) == {o \in Operators :
    /\ WillingToSweep(o, SweepTx(plan))
    /\ \E i \in DOMAIN DesignatedSigners : DesignatedSigners[i] = [validator |-> o, key |-> o]}
SweepAgreed(o, d) ==
    \E plan \in build_plan(o, d) :
        ToSet(plan.inputs) \subseteq unspent /\ Cardinality(Ready(plan)) >= VaultThreshold
AgreedIsSwept == \A o \in Operators, d \in Dests : SweepAgreed(o, d) ~> ~SweepAgreed(o, d)
=============================================================================
