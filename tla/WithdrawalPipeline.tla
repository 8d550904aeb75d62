------------------------- MODULE WithdrawalPipeline -------------------------
(***************************************************************************)
(* Paying burns out on Goldcoin: the withdrawal executors                  *)
(* (withdrawal/executor.rs), the payout signers (p2p/payout_view.rs) and   *)
(* the completion loops (withdrawal/completion.rs) of N operators, each    *)
(* operator with a database of its own (glc/withdrawal_db.rs), around one  *)
(* Goldcoin network and the program's withdrawal accounts.                 *)
(*                                                                         *)
(* An operator's executor and its signer are two processes on one          *)
(* database.  The executor is cut at its awaits and between the database   *)
(* transactions of one build; the signer, whose handler holds a lock, only *)
(* between its database transactions.  An error that ends the executor's   *)
(* tick, or its process, brings it back to the start of a tick.            *)
(*                                                                         *)
(* The clock is not kept: where the code compares two times (the failover  *)
(* window, the age of a reservation) either answer is possible, unless     *)
(* Failover or Expiry excludes one.                                        *)
(***************************************************************************)
EXTENDS Integers, FiniteSets, FiniteSetsExt

CONSTANTS
    N,              \* how many operators, and vault signers, there are
    Threshold,      \* signatures a vault spend needs
    Attesters,      \* validators that must attest a completion on Solana
    Withdrawals,    \* withdrawal indices
    Decodable,      \* those whose account decode_withdrawal accepts
    Payable,        \* those among them of an amount above dust
    Utxos,          \* outputs that pay the vault, each of a transaction of its own
    Funded,         \* those confirmed from the start
    Selections,     \* [Withdrawals -> sets of inputs coin::select may return]
    Exact,          \* [Withdrawals -> those among them that leave no change]
    ConfirmationDepth,
    Failover,       \* may a failover window elapse?
    Expiry,         \* may a reservation outlive its timeout?
    Reassignments,  \* quorums an operator may re-designate a payout to
    MaxAttempts,    \* bound: re-designations of one payout
    MaxReorgs,      \* bound: reorgs of a payout
    MaxFaults       \* bound: failed calls, crashes, evictions, lost funding, corruptions

Operators == 0..(N - 1)
Quorums == {Q \in SUBSET Operators : Cardinality(Q) = Threshold}
Nobody == -1        \* no reserved_by
Unknown == -1       \* the confirmations of a transaction the node does not know

ASSUME OperatorAssumption ==
    /\ N \in Nat \ {0}
    /\ Threshold \in 1..N
    /\ Attesters \in 1..N
    /\ ConfirmationDepth \in Nat \ {0}
    /\ Failover \in BOOLEAN /\ Expiry \in BOOLEAN
    /\ MaxAttempts \in Nat /\ MaxReorgs \in Nat /\ MaxFaults \in Nat

ASSUME WithdrawalAssumption ==
    /\ Withdrawals \subseteq Nat
    /\ IsFiniteSet(Withdrawals)
    /\ Decodable \subseteq Withdrawals /\ Payable \subseteq Decodable
    /\ Funded \subseteq Utxos
    /\ Selections \in [Withdrawals -> SUBSET ((SUBSET Utxos) \ {{}})]
    /\ Exact \in [Withdrawals -> SUBSET SUBSET Utxos]
    /\ Reassignments \subseteq Quorums

VARIABLES
    st,         \* withdrawal_requests.state, per operator
    payout,     \* withdrawal_payouts with its inputs, per operator
    coin,       \* vault_utxos.state, per operator
    holder,     \* vault_utxos.reserved_by, per operator
    exe,        \* each operator's executor
    sig,        \* each operator's payout signer
    burned,     \* withdrawals requested on Solana
    onchain,    \* withdrawals Solana records as Completed
    completing, \* complete_withdrawal transactions sent and not yet decided
    funded,     \* vault outputs confirmed deep enough
    net,        \* confirmations of every payout the network has ever been sent
    partials,   \* history: the partial signatures that were ever given
    reorgs, faults

rows == <<st, payout, coin, holder>>
solana == <<burned, onchain, completing>>
goldcoin == <<funded, net>>
bounds == <<reorgs, faults>>
vars == <<st, payout, coin, holder, exe, sig, burned, onchain, completing,
          funded, net, partials, reorgs, faults>>

-----------------------------------------------------------------------------
States == {"Absent", "Observed", "Validated", "AwaitingFunds", "Building", "Signing",
           "Broadcast", "Confirming", "Orphaned", "Completed", "Failed",
           "IntegrityHalted"}

(* may_transition_to, and a state may always be written again. *)
may_transition_to(from, to) ==
    \/ from = to
    \/ to = "IntegrityHalted" /\ from \notin {"Completed", "Failed"}
    \/ <<from, to>> \in
         {<<"Observed", "Validated">>, <<"Observed", "Failed">>,
          <<"Validated", "AwaitingFunds">>, <<"Validated", "Building">>,
          <<"Validated", "Failed">>, <<"AwaitingFunds", "Validated">>,
          <<"AwaitingFunds", "Failed">>, <<"Building", "Signing">>,
          <<"Building", "AwaitingFunds">>, <<"Building", "Failed">>,
          <<"Signing", "Broadcast">>, <<"Broadcast", "Confirming">>,
          <<"Broadcast", "Orphaned">>, <<"Confirming", "Completed">>,
          <<"Confirming", "Orphaned">>, <<"Confirming", "Broadcast">>,
          <<"Orphaned", "Broadcast">>, <<"IntegrityHalted", "Validated">>,
          <<"IntegrityHalted", "Failed">>}

(* The signers of a payout, and the operator that builds it first. *)
designate_quorum(w) == {((w % N) + k) % N : k \in 0..(Threshold - 1)}
designated_for(w) == w % N

(* Who may come to sign a payout.  Any two of these quorums must share a   *)
(* signer; M > N/2 is enough for it, and the vault itself only asks for    *)
(* 1 <= M <= N.                                                            *)
QuorumsOf(w) == {designate_quorum(w)} \cup Reassignments

ASSUME QuorumAssumption ==
    \A w \in Withdrawals : \A P, Q \in QuorumsOf(w) : P \cap Q # {}

(* may_build and may_propose: designated, or the window has elapsed. *)
MayAct(o, w) == o = designated_for(w) \/ Failover

Held(o, w) == {u \in Utxos : coin[o][u] = "Reserved" /\ holder[o][u] = w}
Available(o) == {u \in Utxos : coin[o][u] = "Available"}

(* reserve_utxos: all of them or none. *)
reserve_utxos(o, w, inputs) ==
    /\ coin' = [coin EXCEPT ![o] = [u \in Utxos |->
                   IF u \in inputs THEN "Reserved" ELSE coin[o][u]]]
    /\ holder' = [holder EXCEPT ![o] = [u \in Utxos |->
                   IF u \in inputs THEN w ELSE holder[o][u]]]

(* The payout the operator has signed: its transaction id depends on the   *)
(* signatures and therefore on who signed.                                 *)
NoPayout == [exists |-> FALSE, inputs |-> {}, quorum |-> {}, attempt |-> 0,
             address |-> FALSE, intent |-> FALSE, signed |-> {}, conf |-> 0,
             completed |-> FALSE, recorded |-> FALSE]
Tx(o, w) == [w |-> w, inputs |-> payout[o][w].inputs, quorum |-> payout[o][w].signed]

(* The primary key and the UNIQUE input outpoints of create_payout. *)
PayoutFits(o, w, inputs) ==
    /\ ~payout[o][w].exists
    /\ \A v \in Withdrawals : payout[o][v].exists => payout[o][v].inputs \cap inputs = {}

(* The one part of an intent on which two computations of it may disagree: *)
(* whether the change hash is in it.  The builder, and reassign_quorum     *)
(* after it, leaves it out when there is no change; the adopter of a       *)
(* proposal never does.                                                    *)
canonical_payout_intent(w, inputs) == inputs \notin Exact[w]

create_payout(o, w, inputs, hash) ==
    payout' = [payout EXCEPT ![o][w] =
        [NoPayout EXCEPT !.exists = TRUE, !.inputs = inputs,
                         !.quorum = designate_quorum(w),
                         !.address = hash, !.intent = hash]]

(* Every committed input is still Reserved, and by this withdrawal. *)
ReservationHolds(o, w) ==
    payout[o][w].inputs # {} /\ payout[o][w].inputs \subseteq Held(o, w)

(* The intent recomputed from the rows is the committed one. *)
CommitmentMatches(o, w) == payout[o][w].intent = payout[o][w].address

(* The guards of verify_and_load_signable_payout, in one transaction. *)
Signable(o, w) ==
    /\ ~payout[o][w].completed /\ payout[o][w].conf = 0 /\ payout[o][w].signed = {}
    /\ ReservationHolds(o, w)
    /\ CommitmentMatches(o, w)

-----------------------------------------------------------------------------
(* What the Goldcoin node answers.                                         *)

Status(t) == IF t \in DOMAIN net THEN net[t] ELSE Unknown
Unspent == {u \in funded : \A t \in DOMAIN net : net[t] >= 0 => u \notin t.inputs}

-----------------------------------------------------------------------------
(* The executor's tick: one phase after the other, and in each phase the   *)
(* rows that were in its state when it began.                              *)

PhaseState == <<"Broadcast", "Confirming", "Orphaned", "Observed",
                "AwaitingFunds", "Validated", "Signing", "Broadcast">>

Idle == [pc |-> "idle", phase |-> 1, todo |-> {}, inputs |-> {}, quorum |-> {},
         attempt |-> 0, intent |-> FALSE, got |-> {}, refused |-> {}, ans |-> 0]

RowsIn(p, s) == {w \in Withdrawals : s[w] = PhaseState[p]}

FromPhase(p, s) ==
    LET busy == {q \in p..8 : RowsIn(q, s) # {}} IN
    IF busy = {} THEN Idle
    ELSE [Idle EXCEPT !.pc = "row", !.phase = Min(busy), !.todo = RowsIn(Min(busy), s)]

Current(o) == Min(exe[o].todo)

(* Where the tick goes when it is done with a row, s being the states now. *)
NextRow(o, s) ==
    LET rest == exe[o].todo \ {Current(o)} IN
    IF rest = {} THEN FromPhase(exe[o].phase + 1, s)
    ELSE [Idle EXCEPT !.pc = "row", !.phase = exe[o].phase, !.todo = rest]

Goto(o, pc) == exe' = [exe EXCEPT ![o].pc = pc]
RowDone(o) == exe' = [exe EXCEPT ![o] = NextRow(o, st[o])] /\ UNCHANGED st
Abandon(o) == exe' = [exe EXCEPT ![o] = Idle] /\ UNCHANGED st

(* transition_withdrawal: an illegal one is an error that ends the tick. *)
TransitionAndGoto(o, to, pc) ==
    IF may_transition_to(st[o][Current(o)], to)
    THEN st' = [st EXCEPT ![o][Current(o)] = to] /\ Goto(o, pc)
    ELSE Abandon(o)

TransitionAndNext(o, to) ==
    IF may_transition_to(st[o][Current(o)], to)
    THEN /\ st' = [st EXCEPT ![o][Current(o)] = to]
         /\ exe' = [exe EXCEPT ![o] = NextRow(o, [st[o] EXCEPT ![Current(o)] = to])]
    ELSE Abandon(o)

At(o, pc) == exe[o].pc = pc
AtRow(o, phases) == exe[o].pc = "row" /\ exe[o].phase \in phases
Fault == faults < MaxFaults /\ faults' = faults + 1 /\ UNCHANGED reorgs

(* Mutant: a reservation may be reclaimed although a payout uses it. *)
Abandoned_with_payout(o, w) ==
    st[o][w] \in {"Validated", "AwaitingFunds", "Building"} /\ Held(o, w) # {}

(* A reservation that never reached a payout. *)
Abandoned(o, w) ==
    /\ st[o][w] \in {"Validated", "AwaitingFunds", "Building"}
    /\ ~payout[o][w].exists
    /\ Held(o, w) # {}

(* The withdrawals Solana does not record as Completed.  An account that   *)
(* does not decode is skipped at every scan: it is never even observed.    *)
scan_withdrawals == (burned \ onchain) \cap Decodable

(* A row that exists stays as it is: observing it again is a no-op. *)
observe_withdrawal(o, w) == IF st[o][w] = "Absent" THEN "Observed" ELSE st[o][w]

ingest_discovered(o) ==
    [w \in Withdrawals |-> IF w \in scan_withdrawals THEN observe_withdrawal(o, w)
                                                      ELSE st[o][w]]

(* sync_vault_utxos, then mark_missing_utxos_spent: what the node reports  *)
(* becomes Available once, and nothing Reserved or Spent is disturbed.     *)
sync_vault(o, u) ==
    IF coin[o][u] = "Absent" /\ u \in Unspent THEN "Available"
    ELSE IF coin[o][u] = "Available" /\ u \notin Unspent THEN "Spent"
    ELSE coin[o][u]

(* release_reservation of every old one. *)
release_reservation(o, old) == UNION {Held(o, w) : w \in old}

(* Discovery and observe_withdrawal, sync_vault, then the reclaiming of    *)
(* reservations that are old and never reached a payout.                   *)
TickBegins(o, old) ==
    LET seen == ingest_discovered(o)
        released == release_reservation(o, old)
    IN
    /\ At(o, "idle")
    /\ old # {} => Expiry
    /\ \A w \in old : Abandoned(o, w)
    /\ st' = [st EXCEPT ![o] = seen]
    /\ coin' = [coin EXCEPT ![o] = [u \in Utxos |->
          IF u \in released THEN "Available" ELSE sync_vault(o, u)]]
    /\ holder' = [holder EXCEPT ![o] = [u \in Utxos |->
          IF u \in released THEN Nobody ELSE holder[o][u]]]
    /\ exe' = [exe EXCEPT ![o] = FromPhase(1, seen)]
    /\ UNCHANGED <<payout, sig, solana, goldcoin, partials, bounds>>

(* Mutant: an orphaned payout that once had a confirmation is not resent. *)
rebroadcast_unconfirmed(o) ==
    LET w == Current(o) IN
    /\ AtRow(o, {3, 8})
    /\ IF payout[o][w].signed = {} \/ payout[o][w].conf # 0 \/ w \in onchain
       THEN RowDone(o)
       ELSE Goto(o, "send") /\ UNCHANGED st
    /\ UNCHANGED <<payout, coin, holder, sig, solana, goldcoin, partials, bounds>>

(* rebroadcast: nothing to send, or Solana already records the payout. *)
rebroadcast(o) ==
    LET w == Current(o) IN
    /\ AtRow(o, {3, 8})
    /\ IF \/ payout[o][w].signed = {}
          \/ exe[o].phase = 8 /\ payout[o][w].conf # 0
          \/ w \in onchain
       THEN RowDone(o)
       ELSE Goto(o, "send") /\ UNCHANGED st
    /\ UNCHANGED <<payout, coin, holder, sig, solana, goldcoin, partials, bounds>>

(* The identical bytes: accepted, already known, or an input is missing. *)
send_raw_transaction(o) ==
    LET t == Tx(o, Current(o))
        known == Status(t) >= 0
        accepted == t.inputs \subseteq Unspent
    IN
    /\ At(o, "send")
    /\ net' = [x \in DOMAIN net \cup {t} |->
                 IF x = t /\ ~known THEN IF accepted THEN 0 ELSE Unknown ELSE net[x]]
    /\ IF (known \/ accepted) /\ st[o][t.w] = "Orphaned"
       THEN TransitionAndGoto(o, "Broadcast", "status")
       ELSE Goto(o, "status") /\ UNCHANGED st
    /\ UNCHANGED <<payout, coin, holder, sig, solana, funded, partials, bounds>>

reconcile_broadcast(o) ==
    /\ AtRow(o, {1, 2})
    /\ IF payout[o][Current(o)].signed = {} THEN RowDone(o)
                                            ELSE Goto(o, "status") /\ UNCHANGED st
    /\ UNCHANGED <<payout, coin, holder, sig, solana, goldcoin, partials, bounds>>

transaction_confirmations(o) ==
    /\ At(o, "status")
    /\ exe' = [exe EXCEPT ![o].ans = Status(Tx(o, Current(o))), ![o].pc = "apply"]
    /\ UNCHANGED <<rows, sig, solana, goldcoin, partials, bounds>>

(* complete_payout: everything this withdrawal holds is Spent. *)
complete_payout(o, w) ==
    /\ payout' = [payout EXCEPT ![o][w].conf = exe[o].ans, ![o][w].completed = TRUE]
    /\ coin' = [coin EXCEPT ![o] = [u \in Utxos |->
                   IF u \in Held(o, w) THEN "Spent" ELSE coin[o][u]]]
    /\ holder' = [holder EXCEPT ![o] = [u \in Utxos |->
                   IF u \in Held(o, w) THEN Nobody ELSE holder[o][u]]]

(* Mutant: one block short of the confirmation depth. *)
Deep_off_by_one(c) == c + 1 >= ConfirmationDepth

Deep(c) == c >= ConfirmationDepth

(* The answer is applied; a block it names must still be on the main chain. *)
record_confirmations(o) ==
    LET w == Current(o)
        c == exe[o].ans
        state == IF Deep(c) THEN "Completed"
                 ELSE IF st[o][w] = "Broadcast" THEN "Confirming" ELSE st[o][w]
    IN
    /\ At(o, "apply")
    /\ IF c = Unknown \/ (c > 0 /\ Status(Tx(o, w)) <= 0)
       THEN TransitionAndNext(o, "Orphaned") /\ UNCHANGED <<payout, coin, holder>>
       ELSE /\ st' = [st EXCEPT ![o][w] = state]
            /\ exe' = [exe EXCEPT ![o] = NextRow(o, [st[o] EXCEPT ![w] = state])]
            /\ IF Deep(c)
               THEN complete_payout(o, w)
               ELSE /\ payout' = [payout EXCEPT ![o][w].conf = c]
                    /\ UNCHANGED <<coin, holder>>
    /\ UNCHANGED <<sig, solana, goldcoin, partials, bounds>>

validate(o) ==
    /\ AtRow(o, {4})
    /\ TransitionAndNext(o, IF Current(o) \in Payable THEN "Validated" ELSE "Failed")
    /\ UNCHANGED <<payout, coin, holder, sig, solana, goldcoin, partials, bounds>>

(* The stored address does not hash to the stored hash. *)
validate_halts(o) ==
    /\ AtRow(o, {4}) /\ Fault
    /\ TransitionAndNext(o, "IntegrityHalted")
    /\ UNCHANGED <<payout, coin, holder, sig, solana, goldcoin, partials>>

(* Not this operator's turn to build. *)
build_passive(o) ==
    /\ AtRow(o, {5, 6})
    /\ o # designated_for(Current(o))
    /\ RowDone(o)
    /\ UNCHANGED <<payout, coin, holder, sig, solana, goldcoin, partials, bounds>>

(* A payout that exists is adopted; otherwise coin::select chooses. *)
build(o) ==
    LET w == Current(o)
        choices == {S \in Selections[w] : S \subseteq Available(o)}
    IN
    /\ AtRow(o, {5, 6})
    /\ MayAct(o, w)
    /\ \/ payout[o][w].exists /\ TransitionAndNext(o, "Signing")
       \/ /\ ~payout[o][w].exists /\ choices = {}
          /\ IF st[o][w] = "AwaitingFunds" THEN RowDone(o)
                                           ELSE TransitionAndNext(o, "AwaitingFunds")
       \/ /\ ~payout[o][w].exists
          /\ \E S \in choices :
                exe' = [exe EXCEPT ![o].inputs = S, ![o].pc = "reserve"]
          /\ st' = IF st[o][w] = "AwaitingFunds"
                   THEN [st EXCEPT ![o][w] = "Validated"] ELSE st
    /\ UNCHANGED <<payout, coin, holder, sig, solana, goldcoin, partials, bounds>>

build_reserves(o) ==
    /\ At(o, "reserve")
    /\ IF exe[o].inputs \subseteq Available(o)
       THEN /\ reserve_utxos(o, Current(o), exe[o].inputs)
            /\ Goto(o, "building") /\ UNCHANGED st
       ELSE RowDone(o) /\ UNCHANGED <<coin, holder>>
    /\ UNCHANGED <<payout, sig, solana, goldcoin, partials, bounds>>

build_starts(o) ==
    /\ At(o, "building")
    /\ TransitionAndGoto(o, "Building", "create")
    /\ UNCHANGED <<payout, coin, holder, sig, solana, goldcoin, partials, bounds>>

(* The node's transaction was verified; a second payout is an error. *)
build_creates(o) ==
    LET w == Current(o) IN
    /\ At(o, "create")
    /\ IF PayoutFits(o, w, exe[o].inputs)
       THEN /\ create_payout(o, w, exe[o].inputs, canonical_payout_intent(w, exe[o].inputs))
            /\ Goto(o, "signing") /\ UNCHANGED st
       ELSE Abandon(o) /\ UNCHANGED payout
    /\ UNCHANGED <<coin, holder, sig, solana, goldcoin, partials, bounds>>

(* The node's transaction is not what was asked for. *)
build_halts(o) ==
    /\ At(o, "create") /\ Fault
    /\ TransitionAndNext(o, "IntegrityHalted")
    /\ UNCHANGED <<payout, coin, holder, sig, solana, goldcoin, partials>>

build_ends(o) ==
    /\ At(o, "signing")
    /\ TransitionAndNext(o, "Signing")
    /\ UNCHANGED <<payout, coin, holder, sig, solana, goldcoin, partials, bounds>>

(* sign: the pre-signing guards, then the designated quorum is asked. *)
sign(o) ==
    LET w == Current(o)
        p == payout[o][w]
    IN
    /\ AtRow(o, {7})
    /\ IF ~p.exists THEN RowDone(o)
       ELSE IF Signable(o, w)
       THEN /\ exe' = [exe EXCEPT ![o] = [@ EXCEPT !.pc = "collect", !.inputs = p.inputs,
                          !.quorum = p.quorum, !.attempt = p.attempt, !.intent = p.intent]]
            /\ UNCHANGED st
       ELSE /\ st' = [st EXCEPT ![o][w] = "IntegrityHalted"]
            /\ exe' = [exe EXCEPT ![o] = NextRow(o, [st[o] EXCEPT ![w] = "IntegrityHalted"])]
    /\ UNCHANGED <<payout, coin, holder, sig, solana, goldcoin, partials, bounds>>

sign_falls_short(o) ==
    /\ At(o, "collect")
    /\ exe[o].refused # {} /\ exe[o].got \cup exe[o].refused = exe[o].quorum
    /\ RowDone(o)
    /\ UNCHANGED <<payout, coin, holder, sig, solana, goldcoin, partials, bounds>>

(* The partials do not assemble, or the node disagrees about the result. *)
sign_halts(o) ==
    /\ At(o, "collect") /\ exe[o].got = exe[o].quorum /\ Fault
    /\ TransitionAndNext(o, "IntegrityHalted")
    /\ UNCHANGED <<payout, coin, holder, sig, solana, goldcoin, partials>>

(* Mutant: whatever signatures came in are taken for the quorum's. *)
record_signed_payout_short(o) ==
    LET w == Current(o) IN
    /\ At(o, "collect") /\ exe[o].got # {}
    /\ payout' = [payout EXCEPT ![o][w].signed = IF @ = {} THEN exe[o].quorum ELSE @]
    /\ st' = [st EXCEPT ![o][w] = "Broadcast"]
    /\ exe' = [exe EXCEPT ![o] = NextRow(o, [st[o] EXCEPT ![w] = "Broadcast"])]
    /\ UNCHANGED <<coin, holder, sig, solana, goldcoin, partials, bounds>>

(* record_signed_payout, whatever the state has become: signed bytes and   *)
(* transaction id are durable before the network sees anything.            *)
record_signed_payout(o) ==
    LET w == Current(o) IN
    /\ At(o, "collect") /\ exe[o].got = exe[o].quorum
    /\ payout' = [payout EXCEPT ![o][w].signed = IF @ = {} THEN exe[o].quorum ELSE @]
    /\ st' = [st EXCEPT ![o][w] = "Broadcast"]
    /\ exe' = [exe EXCEPT ![o] = NextRow(o, [st[o] EXCEPT ![w] = "Broadcast"])]
    /\ UNCHANGED <<coin, holder, sig, solana, goldcoin, partials, bounds>>

(* Solana cannot be read, so nothing is sent, or the epoch observation is  *)
(* stale, so nothing is asked for.                                         *)
row_skipped(o) ==
    /\ AtRow(o, {3, 7, 8}) /\ Fault
    /\ IF exe[o].phase = 7 THEN payout[o][Current(o)].exists /\ Signable(o, Current(o))
                            ELSE payout[o][Current(o)].signed # {}
    /\ RowDone(o)
    /\ UNCHANGED <<payout, coin, holder, sig, solana, goldcoin, partials>>

ExecutorStep(o) ==
    \/ \E old \in SUBSET Withdrawals : TickBegins(o, old)
    \/ rebroadcast(o) \/ send_raw_transaction(o)
    \/ reconcile_broadcast(o) \/ transaction_confirmations(o) \/ record_confirmations(o)
    \/ validate(o)
    \/ build_passive(o) \/ build(o) \/ build_reserves(o) \/ build_starts(o)
    \/ build_creates(o) \/ build_ends(o)
    \/ sign(o) \/ sign_falls_short(o) \/ record_signed_payout(o)

-----------------------------------------------------------------------------
(* The signer: PayoutView::sign_payout, one request at a time.             *)

Free == [pc |-> "idle", from |-> 0, open |-> FALSE, w |-> 0, inputs |-> {},
         quorum |-> {}, attempt |-> 0, intent |-> FALSE, was |-> "Validated"]

SignerUnchanged == <<solana, goldcoin, bounds>>

(* The signers of a quorum are asked one after the other. *)
Asks(o, q) ==
    LET unasked == exe[o].quorum \ (exe[o].got \cup exe[o].refused) IN
    /\ At(o, "collect")
    /\ unasked # {} /\ q = Min(unasked)

BeingServed(o) == \E q \in Operators : sig[q].open /\ sig[q].from = o

Request(o, pc, was) ==
    [pc |-> pc, from |-> o, open |-> TRUE, w |-> Current(o), inputs |-> exe[o].inputs,
     quorum |-> exe[o].quorum, attempt |-> exe[o].attempt, intent |-> exe[o].intent,
     was |-> was]

(* The end of a request; the answer counts while somebody waits for it. *)
Refuse(q) ==
    /\ sig' = [sig EXCEPT ![q] = Free]
    /\ exe' = IF sig[q].open
              THEN [exe EXCEPT ![sig[q].from].refused = @ \cup {q}] ELSE exe

Grant(q) ==
    /\ sig' = [sig EXCEPT ![q] = Free]
    /\ exe' = IF sig[q].open
              THEN [exe EXCEPT ![sig[q].from].got = @ \cup {q}] ELSE exe

SignerGoto(q, pc) == sig' = [sig EXCEPT ![q].pc = pc] /\ UNCHANGED exe

(* Turned away at once: the proposer's turn has not come, or the local     *)
(* state or the local UTXO set does not allow it.                          *)
sign_payout_refused(q, o) ==
    LET w == Current(o) IN
    /\ Asks(o, q) /\ sig[q].pc = "idle" /\ ~BeingServed(o)
    /\ \/ o # designated_for(w)
       \/ st[q][w] \notin {"Validated", "AwaitingFunds", "Building", "Signing"}
       \/ /\ st[q][w] \in {"Validated", "AwaitingFunds"}
          /\ ~(exe[o].inputs \subseteq Available(q))
    /\ exe' = [exe EXCEPT ![o].refused = @ \cup {q}]
    /\ UNCHANGED <<rows, sig, partials, SignerUnchanged>>

sign_payout(q, o) ==
    LET w == Current(o) IN
    /\ Asks(o, q) /\ sig[q].pc = "idle" /\ ~BeingServed(o)
    /\ MayAct(o, w)
    /\ \/ /\ st[q][w] \in {"Validated", "AwaitingFunds"}
          /\ exe[o].inputs \subseteq Available(q)
          /\ sig' = [sig EXCEPT ![q] = Request(o, "reserve", st[q][w])]
       \/ /\ st[q][w] \in {"Building", "Signing"}
          /\ sig' = [sig EXCEPT ![q] = Request(o, "verify", "Validated")]
    /\ UNCHANGED <<rows, exe, partials, SignerUnchanged>>

adopt_reserves(q) ==
    /\ sig[q].pc = "reserve"
    /\ IF sig[q].inputs \subseteq Available(q)
       THEN reserve_utxos(q, sig[q].w, sig[q].inputs) /\ SignerGoto(q, "create")
       ELSE Refuse(q) /\ UNCHANGED <<coin, holder>>
    /\ UNCHANGED <<st, payout, partials, SignerUnchanged>>

adopt_creates(q) ==
    /\ sig[q].pc = "create"
    /\ IF PayoutFits(q, sig[q].w, sig[q].inputs)
       THEN /\ create_payout(q, sig[q].w, sig[q].inputs, TRUE)
            /\ SignerGoto(q, IF sig[q].was = "AwaitingFunds" THEN "Validated" ELSE "Building")
       ELSE Refuse(q) /\ UNCHANGED payout
    /\ UNCHANGED <<st, coin, holder, partials, SignerUnchanged>>

(* The transitions of adopt_proposal, each a transaction of its own. *)
adopt_transition(q) ==
    LET to == sig[q].pc IN
    /\ to \in {"Validated", "Building", "Signing"}
    /\ IF may_transition_to(st[q][sig[q].w], to)
       THEN /\ st' = [st EXCEPT ![q][sig[q].w] = to]
            /\ SignerGoto(q, CASE to = "Validated" -> "Building"
                               [] to = "Building" -> "Signing"
                               [] to = "Signing" -> "window")
       ELSE Refuse(q) /\ UNCHANGED st
    /\ UNCHANGED <<payout, coin, holder, partials, SignerUnchanged>>

(* The state is read once more: only Building and Signing may be signed. *)
signing_window(q) ==
    /\ sig[q].pc = "window"
    /\ IF st[q][sig[q].w] \in {"Building", "Signing"} THEN SignerGoto(q, "verify")
                                                      ELSE Refuse(q)
    /\ UNCHANGED <<rows, partials, SignerUnchanged>>

(* Mutant: neither the intent nor the transaction is compared. *)
SamePayout_loose(q) ==
    LET p == payout[q][sig[q].w] IN
    p.attempt = sig[q].attempt /\ q \in p.quorum /\ p.quorum = sig[q].quorum

(* The local payout is the one asked for, in every compared respect. *)
SamePayout(q) ==
    LET p == payout[q][sig[q].w] IN
    /\ p.attempt = sig[q].attempt
    /\ q \in p.quorum
    /\ p.quorum = sig[q].quorum /\ p.intent = sig[q].intent
    /\ p.inputs = sig[q].inputs

(* The same pre-signing guards on the signer's own rows; failing them      *)
(* halts the withdrawal here.                                              *)
sign_partial(q) ==
    LET w == sig[q].w IN
    /\ sig[q].pc = "verify"
    /\ IF payout[q][w].exists /\ Signable(q, w) /\ SamePayout(q)
       THEN /\ partials' = partials \cup {[signer |-> q, w |-> w, inputs |-> sig[q].inputs]}
            /\ Grant(q)
       ELSE Refuse(q) /\ UNCHANGED partials
    /\ st' = IF payout[q][w].exists /\ ~Signable(q, w)
             THEN [st EXCEPT ![q][w] = "IntegrityHalted"] ELSE st
    /\ UNCHANGED <<payout, coin, holder, SignerUnchanged>>

Served(q, o) == sign_payout_refused(q, o) \/ sign_payout(q, o)

Serving(q) ==
    \/ adopt_reserves(q) \/ adopt_creates(q) \/ adopt_transition(q)
    \/ signing_window(q) \/ sign_partial(q)

SignerStep(q) == Serving(q) \/ \E o \in Operators : Served(q, o)

-----------------------------------------------------------------------------
(* The completion loop: CompletionSubmitter::process_one.                  *)

CompletionUnchanged == <<st, coin, holder, exe, sig, burned, onchain, goldcoin,
                         partials, bounds>>
AwaitsCompletion(o, w) == st[o][w] = "Completed" /\ ~payout[o][w].recorded
Record(o, w) == payout' = [payout EXCEPT ![o][w].recorded = TRUE]

(* Mutant: the depth itself is not deep enough. *)
attest_deeper(q, t) ==
    st[q][t.w] = "Completed" /\ Tx(q, t.w) = t /\ Status(t) > ConfirmationDepth

(* CompletionView::attest of operator q. *)
attest(q, t) ==
    st[q][t.w] = "Completed" /\ Tx(q, t.w) = t /\ Deep(Status(t))

(* What the operator asks the others to attest; nothing without a payout   *)
(* transaction of its own.                                                 *)
local_completion_facts(o, w) == IF payout[o][w].signed = {} THEN {} ELSE {Tx(o, w)}

(* Everyone is asked, and no quorum is designated for a completion. *)
collect_completion_signatures(t) == {q \in Operators : attest(q, t)}

completion_observed(o, w) ==
    /\ AwaitsCompletion(o, w) /\ w \in onchain
    /\ Record(o, w)
    /\ UNCHANGED <<completing, CompletionUnchanged>>

(* Recorded as soon as the transaction is sent. *)
completion_submitted(o, w) ==
    /\ AwaitsCompletion(o, w) /\ w \notin onchain
    /\ \E t \in local_completion_facts(o, w) :
          /\ Cardinality(collect_completion_signatures(t)) >= Attesters
          /\ completing' = completing \cup {t}
    /\ Record(o, w)
    /\ UNCHANGED CompletionUnchanged

CompletionStep(o) ==
    \E w \in Withdrawals : completion_observed(o, w) \/ completion_submitted(o, w)

-----------------------------------------------------------------------------
(* The operators' administration.                                          *)

AdminUnchanged == <<coin, holder, exe, sig, solana, goldcoin, partials, bounds>>

(* Mutant: a signed payout is signed afresh. *)
reassign_payout_quorum_signed(o, w, Q, intent) ==
    /\ payout[o][w].exists
    /\ payout[o][w].attempt < MaxAttempts
    /\ payout' = [payout EXCEPT ![o][w] = [@ EXCEPT !.quorum = Q, !.attempt = @ + 1,
                     !.signed = {}]]
    /\ UNCHANGED <<st, AdminUnchanged>>

(* Only while unsigned; inputs and unsigned transaction stay the same. *)
reassign_payout_quorum(o, w, Q, intent) ==
    /\ payout[o][w].exists /\ payout[o][w].signed = {}
    /\ payout[o][w].attempt < MaxAttempts
    /\ payout' = [payout EXCEPT ![o][w] = [@ EXCEPT !.quorum = Q,
                     !.attempt = payout[o][w].attempt + 1,
                     !.intent = intent]]
    /\ UNCHANGED <<st, AdminUnchanged>>

(* glc-admin: the quorum is the operator's, the intent is rebuilt as the   *)
(* builder builds it.                                                      *)
reassign_quorum(o, w, Q) ==
    reassign_payout_quorum(o, w, Q, canonical_payout_intent(w, payout[o][w].inputs))

operator_clear_withdrawal_halt(o, w, to) ==
    /\ st[o][w] = "IntegrityHalted"
    /\ st' = [st EXCEPT ![o][w] = to]
    /\ UNCHANGED <<payout, AdminUnchanged>>

AdminStep ==
    \E o \in Operators, w \in Withdrawals :
        \/ \E Q \in Reassignments : reassign_quorum(o, w, Q)
        \/ \E to \in {"Validated", "Failed"} : operator_clear_withdrawal_halt(o, w, to)

-----------------------------------------------------------------------------
(* Around the operators.                                                   *)

SystemUnchanged == <<rows, exe, sig, partials>>

Burn(w) ==
    /\ w \notin burned
    /\ burned' = burned \cup {w}
    /\ UNCHANGED <<SystemUnchanged, onchain, completing, goldcoin, bounds>>

CompletionLands(t) ==
    /\ completing' = completing \ {t}
    /\ onchain' = onchain \cup {t.w}
    /\ UNCHANGED <<SystemUnchanged, burned, goldcoin, bounds>>

CompletionDropped(t) ==
    /\ Fault
    /\ completing' = completing \ {t}
    /\ UNCHANGED <<SystemUnchanged, burned, onchain, goldcoin>>

Fund(u) ==
    /\ u \notin funded
    /\ funded' = funded \cup {u}
    /\ UNCHANGED <<SystemUnchanged, solana, net, bounds>>

SetConf(t, c) == net' = [net EXCEPT ![t] = c]

(* Mined, or one block deeper. *)
BlockMined(t) ==
    /\ net[t] >= 0 /\ net[t] < ConfirmationDepth
    /\ SetConf(t, net[t] + 1)
    /\ UNCHANGED <<SystemUnchanged, solana, funded, bounds>>

(* A reorg shallower than the confirmation depth takes a payout out of its *)
(* block, back to the mempool or out of it.                                *)
PayoutReorged(t) ==
    /\ net[t] \in 1..(ConfirmationDepth - 1)
    /\ reorgs < MaxReorgs /\ reorgs' = reorgs + 1 /\ UNCHANGED faults
    /\ \E c \in {Unknown, 0} : SetConf(t, c)
    /\ UNCHANGED <<SystemUnchanged, solana, funded>>

(* Or a deposit below the depth at which the vault spends it. *)
FundingReorged(u) ==
    /\ u \in Unspent /\ Fault
    /\ funded' = funded \ {u}
    /\ UNCHANGED <<SystemUnchanged, solana, net>>

Evicted(t) ==
    /\ net[t] = 0 /\ Fault
    /\ SetConf(t, Unknown)
    /\ UNCHANGED <<SystemUnchanged, solana, funded>>

(* A call fails or the relayer stops: nobody waits for its signers now. *)
ExecutorFails(o) ==
    /\ exe[o].pc # "idle" /\ Fault
    /\ exe' = [exe EXCEPT ![o] = Idle]
    /\ sig' = [q \in Operators |-> IF sig[q].open /\ sig[q].from = o
                                  THEN [sig[q] EXCEPT !.open = FALSE] ELSE sig[q]]
    /\ UNCHANGED <<rows, partials, solana, goldcoin>>

(* The signer stops in the middle of a request. *)
SignerFails(q) ==
    /\ sig[q].pc # "idle" /\ Fault
    /\ Refuse(q)
    /\ UNCHANGED <<rows, partials, solana, goldcoin>>

(* The round's time is over, or the signer cannot be reached: its answer,  *)
(* if one comes, is lost.                                                  *)
RequestTimesOut(o, q) ==
    /\ Asks(o, q) /\ Fault
    /\ exe' = [exe EXCEPT ![o].refused = @ \cup {q}]
    /\ sig' = IF sig[q].open /\ sig[q].from = o
              THEN [sig EXCEPT ![q].open = FALSE] ELSE sig
    /\ UNCHANGED <<rows, partials, solana, goldcoin>>

(* A stored payout no longer recomputes to its intent. *)
PayoutCorrupted(o, w) ==
    /\ payout[o][w].exists /\ Fault
    /\ payout' = [payout EXCEPT ![o][w].intent = ~@]
    /\ UNCHANGED <<st, coin, holder, exe, sig, partials, solana, goldcoin>>

Environment ==
    \/ \E w \in Withdrawals : Burn(w)
    \/ \E t \in completing : CompletionLands(t) \/ CompletionDropped(t)
    \/ \E u \in Utxos : Fund(u) \/ FundingReorged(u)
    \/ \E t \in DOMAIN net : BlockMined(t) \/ PayoutReorged(t) \/ Evicted(t)
    \/ \E o \in Operators : ExecutorFails(o) \/ SignerFails(o)
    \/ \E o \in Operators : validate_halts(o) \/ build_halts(o) \/ sign_halts(o)
    \/ \E o \in Operators : row_skipped(o)
    \/ \E o, q \in Operators : RequestTimesOut(o, q)
    \/ \E o \in Operators, w \in Withdrawals : PayoutCorrupted(o, w)

Init ==
    /\ st = [o \in Operators |-> [w \in Withdrawals |-> "Absent"]]
    /\ payout = [o \in Operators |-> [w \in Withdrawals |-> NoPayout]]
    /\ coin = [o \in Operators |-> [u \in Utxos |-> "Absent"]]
    /\ holder = [o \in Operators |-> [u \in Utxos |-> Nobody]]
    /\ exe = [o \in Operators |-> Idle]
    /\ sig = [o \in Operators |-> Free]
    /\ burned = {} /\ onchain = {} /\ completing = {}
    /\ funded = Funded
    /\ net = [t \in {} |-> 0]
    /\ partials = {}
    /\ reorgs = 0 /\ faults = 0

Next ==
    \/ \E o \in Operators : ExecutorStep(o) \/ SignerStep(o) \/ CompletionStep(o)
    \/ AdminStep
    \/ Environment

Spec == Init /\ [][Next]_vars

(* Every loop keeps running, a signer's lock is passed on in the order it  *)
(* was asked for, burns reach Solana, the vault is funded, and a           *)
(* transaction that is in the mempool is mined and buried.                 *)
Fairness ==
    /\ \A o \in Operators :
          /\ WF_vars(ExecutorStep(o)) /\ WF_vars(Serving(o)) /\ WF_vars(CompletionStep(o))
          /\ \A q \in Operators : SF_vars(Served(q, o))
    /\ WF_vars(\E w \in Withdrawals : Burn(w))
    /\ WF_vars(\E u \in Utxos : Fund(u))
    /\ WF_vars(\E t \in DOMAIN net : BlockMined(t))
    /\ WF_vars(\E t \in completing : CompletionLands(t))

FairSpec == Spec /\ Fairness

-----------------------------------------------------------------------------
PayoutType ==
    [exists : BOOLEAN, inputs : SUBSET Utxos, quorum : SUBSET Operators, attempt : Nat,
     address : BOOLEAN, intent : BOOLEAN, signed : SUBSET Operators,
     conf : 0..ConfirmationDepth, completed : BOOLEAN, recorded : BOOLEAN]

TxType == [w : Withdrawals, inputs : SUBSET Utxos, quorum : SUBSET Operators]

(* Every variable has its type. *)
TypeOK ==
    /\ st \in [Operators -> [Withdrawals -> States]]
    /\ payout \in [Operators -> [Withdrawals -> PayoutType]]
    /\ coin \in [Operators -> [Utxos -> {"Absent", "Available", "Reserved", "Spent"}]]
    /\ holder \in [Operators -> [Utxos -> Withdrawals \cup {Nobody}]]
    /\ \A o \in Operators :
          /\ exe[o].pc \in {"idle", "row", "send", "status", "apply", "reserve", "building",
                            "create", "signing", "collect"}
          /\ exe[o].phase \in 1..8
          /\ exe[o].pc # "idle" <=> exe[o].todo # {}
    /\ burned \subseteq Withdrawals /\ onchain \subseteq burned
    /\ completing \subseteq TxType
    /\ funded \subseteq Utxos
    /\ DOMAIN net \subseteq TxType
    /\ \A t \in DOMAIN net : net[t] \in {Unknown} \cup 0..ConfirmationDepth
    /\ partials \subseteq [signer : Operators, w : Withdrawals, inputs : SUBSET Utxos]
    /\ reorgs \in 0..MaxReorgs /\ faults \in 0..MaxFaults

(* withdrawal_db.rs: the never-double-pay guarantee.  However many         *)
(* operators built, adopted, re-designated or retried, all transactions    *)
(* the network was ever sent for one withdrawal spend the same inputs, so  *)
(* at most one of them can confirm.                                        *)
NoDoublePay == \A t, u \in DOMAIN net : t.w = u.w => t.inputs = u.inputs

(* The payouts of two withdrawals never compete for an input. *)
NoConflict == \A t, u \in DOMAIN net : t.w # u.w => t.inputs \cap u.inputs = {}

(* ADR-0013: nothing reaches the network that is not durable, bytes and    *)
(* transaction id, in the database of an operator that can reconcile it.   *)
SentIsDurable == \A t \in DOMAIN net : \E o \in Operators : Tx(o, t.w) = t

(* A partial signature is backed by a reservation in its signer's own      *)
(* database until the payout is complete: no reclaiming, resync, retry or  *)
(* restart frees an input somebody has signed over.                        *)
SignedInputsStayHeld ==
    \A p \in partials :
        payout[p.signer][p.w].completed \/ p.inputs \subseteq Held(p.signer, p.w)

(* A row is Completed, and Solana says Completed, only for a payout that   *)
(* is really buried under the required number of blocks.                   *)
CompletedIsPaid ==
    /\ \A o \in Operators, w \in Withdrawals :
          st[o][w] = "Completed" => Status(Tx(o, w)) >= ConfirmationDepth
    /\ \A w \in onchain : \E t \in DOMAIN net : t.w = w /\ net[t] >= ConfirmationDepth

(* Something good: every payable burn is paid. *)
PaidInTheEnd ==
    \A w \in Payable : <>(\E t \in DOMAIN net : t.w = w /\ net[t] >= ConfirmationDepth)

(* And Solana records it. *)
CompletedInTheEnd == \A w \in Payable : <>(w \in onchain)
=============================================================================
