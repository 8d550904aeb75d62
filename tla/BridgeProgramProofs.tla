------------------------- MODULE BridgeProgramProofs -------------------------
(* What BridgeProgram guarantees for every federation, every cap and every *)
(* number of deposits and withdrawals.                                     *)
EXTENDS BridgeProgram, FiniteSetTheorems, TLAPS

-----------------------------------------------------------------------------
(* Lemmas about federation proofs.                                         *)

(* A list of entries that count_unique_validator_signers accepts and that  *)
(* reaches the threshold does come from that many members of the set: the  *)
(* entry list is the code's view, ApprovedBy what it is meant to establish.*)
LEMMA ApprovalIsSound ==
    ASSUME NEW sigs, NEW m, NEW set, NEW n \in Nat,
           NEW entries \in Entries(sigs, n),
           \A s \in sigs : s = [key |-> s.key, message |-> s.message],
           set.validators \in Seq(Keys), set.threshold \in Nat,
           require_federation_approval(entries, m, set)
    PROVE  ApprovedBy(set, m, sigs)
<1> DEFINE S == {k \in Members(set.validators) :
                    [key |-> k, message |-> m] \in sigs}
           signer == [i \in 1..Len(entries) |-> entries[i].key]
<1>1. PICK l \in 1..n : entries \in [1..l -> sigs]
  BY DEF Entries
<1>2. Len(entries) = l /\ DOMAIN entries = 1..l /\ l \in Nat
  BY <1>1
<1>3. S \subseteq Keys
  BY DEF Members
<1>4. IsFiniteSet(S)
  BY <1>3, FS_Subset, KeysAssumption
<1>5. signer \in [1..l -> S]
  BY <1>1, <1>2 DEF require_federation_approval, EntriesAccepted
<1>6. IsFiniteSet(1..l) /\ Cardinality(1..l) = l
  <2>1. 1 \in Int /\ l \in Int /\ ~(1 > l) /\ l - 1 + 1 = l
    BY <1>1, <1>2
  <2>2. /\ IsFiniteSet(1..l)
        /\ Cardinality(1..l) = IF 1 > l THEN 0 ELSE l - 1 + 1
    BY <2>1, FS_Interval, Zenon
  <2> QED
    BY <2>1, <2>2, Zenon
<1>7. Cardinality(S) \in Nat
  BY <1>4, FS_CardinalityType
<1>8. ~(Cardinality(S) < Cardinality(1..l))
  <2> SUFFICES ASSUME Cardinality(S) < Cardinality(1..l) PROVE FALSE
    OBVIOUS
  <2>1. \E i, j \in 1..l : i # j /\ signer[i] = signer[j]
    <3> HIDE DEF S, signer
    <3> QED
      BY <1>4, <1>5, <1>6, FS_PigeonHole, Zenon
  <2> QED
    BY <2>1, <1>2 DEF require_federation_approval, EntriesAccepted
<1>9. Cardinality(S) >= set.threshold
  BY <1>2, <1>6, <1>7, <1>8 DEF require_federation_approval
<1> QED
  BY <1>9 DEF ApprovedBy

(* Signing more never withdraws an approval. *)
LEMMA ApprovalIsStable ==
    ASSUME NEW sigs, NEW more, sigs \subseteq more, NEW m, NEW set,
           set.validators \in Seq(Keys), set.threshold \in Nat,
           ApprovedBy(set, m, sigs)
    PROVE  ApprovedBy(set, m, more)
<1> DEFINE S(x) == {k \in Members(set.validators) :
                       [key |-> k, message |-> m] \in x}
<1>1. S(sigs) \subseteq S(more) /\ S(more) \subseteq Keys
  BY DEF Members
<1>2. IsFiniteSet(S(more)) /\ IsFiniteSet(S(sigs))
  BY <1>1, FS_Subset, KeysAssumption
<1>3. Cardinality(S(sigs)) <= Cardinality(S(more))
  BY <1>1, <1>2, FS_Subset
<1>4. Cardinality(S(sigs)) \in Nat /\ Cardinality(S(more)) \in Nat
  BY <1>2, FS_CardinalityType
<1>5. Cardinality(S(sigs)) >= set.threshold
  BY DEF ApprovedBy
<1>6. Cardinality(S(more)) >= set.threshold
  BY <1>3, <1>4, <1>5
<1> QED
  BY <1>6 DEF ApprovedBy

-----------------------------------------------------------------------------
(* Type correctness.  The type of the withdrawal accounts depends on the   *)
(* counter, which initialize resets, so it is proved together with what    *)
(* holds before initialize.                                                *)

(* Checked arithmetic stays within its width. *)
LEMMA CheckedArithmetic ==
    /\ 0 \in U64 /\ 0 \in I64
    /\ \A a, b \in U64 : a + b <= U64Max => a + b \in U64
    /\ \A a, b \in U64 : a <= b => b - a \in U64
    /\ \A a, b \in I64 : a + b <= I64Max => a + b \in I64
    /\ U64 \subseteq Nat
  BY ProgramAssumption DEF U64, I64

(* The withdrawal indices below a counter, and what one more makes of them.*)
LEMMA CounterStep ==
    ASSUME NEW n \in U64
    PROVE  /\ n \in Nat
           /\ 0..(n - 1) \subseteq U64
           /\ n + 1 <= U64Max => n + 1 \in U64
           /\ 0..((n + 1) - 1) = 0..n
           /\ \A i \in 0..n : i # n => i \in 0..(n - 1)
<1>1. n \in Nat /\ n <= U64Max /\ U64Max \in Nat
  BY ProgramAssumption DEF U64
<1>2. (n + 1) - 1 = n
  BY <1>1
<1>3. 0..(n - 1) \subseteq U64
  BY <1>1 DEF U64
<1>4. n + 1 <= U64Max => n + 1 \in U64
  BY <1>1 DEF U64
<1>5. \A i \in 0..n : i # n => i \in 0..(n - 1)
  BY <1>1
<1> QED
  BY <1>1, <1>2, <1>3, <1>4, <1>5

(* What the validators can be asked to sign is a message. *)
LEMMA SignableType ==
    ASSUME TypeOK, NEW m \in SignableMessages
    PROVE  m \in Message
<1> DEFINE epochs == 0..validatorSet.epoch
<1>1. epochs \subseteq U64
  BY ProgramAssumption DEF TypeOK, U64
<1>2. \A i \in DOMAIN withdrawals : i \in U64 /\ withdrawals[i] \in WithdrawalType
  <2>1. config.withdrawal_count \in U64
    BY DEF TypeOK, ConfigType
  <2> QED
    BY <2>1, CounterStep DEF TypeOK
<1> HIDE DEF epochs
<1>3. CASE \E e \in epochs, d \in Deposits :
              m = deposit_claim_message(e, d.outpoint, d.amount, d.recipient)
  <2>1. \A d \in Deposits :
          d.outpoint \in Outpoints /\ d.amount \in U64 /\ d.recipient \in Wallets
    BY ProgramAssumption
  <2> QED
    BY <1>1, <1>3, <2>1 DEF deposit_claim_message, Message
<1>4. CASE \E e \in epochs, i \in DOMAIN withdrawals, t \in TxIds, h \in Heights :
              m = withdrawal_completion_message(e, i, t, h, withdrawals[i].amount,
                                                withdrawals[i].dest)
  <2>1. Heights \subseteq U64
    BY ProgramAssumption
  <2>2. \A i \in DOMAIN withdrawals :
          withdrawals[i].amount \in U64 /\ withdrawals[i].dest \in Dests
    BY <1>2 DEF WithdrawalType
  <2> QED
    BY <1>1, <1>2, <1>4, <2>1, <2>2 DEF withdrawal_completion_message, Message
<1>5. CASE \E e \in epochs, t \in Thresholds, v \in ValidatorLists :
              m = rotation_message(e, t, v)
  <2>1. Thresholds \subseteq Nat /\ ValidatorLists \subseteq Seq(Keys)
    BY ProgramAssumption
  <2> QED
    BY <1>1, <1>5, <2>1 DEF rotation_message, Message
<1>6. CASE \E e \in epochs, c \in Caps : m = raise_message(e, c)
  <2>1. Caps \subseteq U64
    BY ProgramAssumption
  <2> QED
    BY <1>1, <1>6, <2>1 DEF raise_message, Message
<1>7. CASE \E e \in epochs, a \in {pending.action} \ {None} :
              m = cancel_message(e, a, pending.eta)
  <2>1. pending.action \in {None, "rotation", "raise"} /\ pending.eta \in I64
    BY DEF TypeOK, PendingType
  <2> QED
    BY <1>1, <1>7, <2>1 DEF cancel_message, Message
<1> QED
  BY <1>3, <1>4, <1>5, <1>6, <1>7 DEF SignableMessages, epochs

TypeInv == TypeOK /\ NothingBeforeInitialize

(* Before initialize there are no accounts, so the initial state is typed. *)
LEMMA TypeInit == Init => TypeInv
  BY ProgramAssumption DEF Init, TypeInv, TypeOK, NothingBeforeInitialize,
     ConfigType, PendingType, NoAction, NoEpoch, U64, I64, None

(* Every instruction leaves every account within its field widths: the     *)
(* checked additions of the program never overflow, and nothing exists     *)
(* before initialize.                                                      *)
LEMMA TypeStep == TypeInv /\ [Next]_vars => TypeInv'
<1> SUFFICES ASSUME TypeInv, [Next]_vars PROVE TypeInv'
  OBVIOUS
<1> USE DEF TypeInv, TypeOK, accounts, tokens, ghosts
<1>1. ASSUME NEW v \in ValidatorLists, NEW t \in Thresholds, NEW d \in Minimums,
             NEW w \in Minimums, NEW l \in Timelocks, NEW c \in Caps,
             initialize(v, t, d, w, l, c)
      PROVE  TypeInv'
  <2>1. config' \in ConfigType /\ config'.withdrawal_count = 0 /\ config'.initialized
    BY <1>1, ProgramAssumption, CheckedArithmetic DEF initialize, ConfigType
  <2>2. config.withdrawal_count = 0
    BY <1>1 DEF initialize, NothingBeforeInitialize
  <2>3. 0 \in U64 /\ v \in Seq(Keys) /\ t \in Nat
    BY ProgramAssumption, CheckedArithmetic
  <2> QED
    BY <1>1, <2>1, <2>2, <2>3 DEF initialize, NothingBeforeInitialize
<1>2. ASSUME NEW a \in Admins, create_wrapped_mint(a)
      PROVE  TypeInv'
  <2>1. /\ config' \in ConfigType /\ config'.initialized
        /\ config'.withdrawal_count = config.withdrawal_count
    BY <1>2 DEF create_wrapped_mint, ConfigType
  <2> QED
    BY <1>2, <2>1 DEF create_wrapped_mint, NothingBeforeInitialize
<1>3. ASSUME NEW d \in Deposits, NEW e \in U64, NEW p \in Proofs,
             mint_wrapped(d.outpoint, d.amount, d.recipient, e, p)
      PROVE  TypeInv'
  <2>1. d.outpoint \in Outpoints /\ d.amount \in U64 /\ d.recipient \in Wallets
    BY ProgramAssumption
  <2>2. claims' \subseteq ClaimType
    BY <1>3, <2>1 DEF mint_wrapped, ClaimType
  <2>3. supply' \in U64 /\ balances' \in [Wallets -> U64]
    BY <1>3, <2>1, CheckedArithmetic DEF mint_wrapped, TokenMintTo
  <2> QED
    BY <1>3, <2>2, <2>3 DEF mint_wrapped, NothingBeforeInitialize
<1>4. ASSUME NEW u \in Wallets, NEW a \in BurnAmounts, NEW d \in Dests,
             burn_wrapped(u, a, d)
      PROVE  TypeInv'
  <2> DEFINE n == config.withdrawal_count
             rec == [amount |-> a, requester |-> u, dest |-> d,
                     status |-> "Pending", payout |-> ZeroPayout]
  <2>1. n \in U64 /\ n + 1 \in U64 /\ 0..((n + 1) - 1) = 0..n
    <3>1. n \in U64 /\ n + 1 <= U64Max
      BY <1>4 DEF burn_wrapped, ConfigType
    <3> QED
      BY <3>1, CounterStep
  <2>2. config' \in ConfigType /\ config'.withdrawal_count = n + 1 /\ config'.initialized
    BY <1>4, <2>1 DEF burn_wrapped, ConfigType
  <2>3. rec \in WithdrawalType
    BY ProgramAssumption, CheckedArithmetic DEF WithdrawalType, ZeroPayout
  <2>4. withdrawals' \in [0..n -> WithdrawalType]
    <3>1. \A i \in 0..n : i # n => withdrawals[i] \in WithdrawalType
      BY <2>1, CounterStep
    <3>2. withdrawals' = [i \in 0..n |-> IF i = n THEN rec ELSE withdrawals[i]]
      BY <1>4 DEF burn_wrapped
    <3> QED
      BY <2>3, <3>1, <3>2
  <2>5. supply' \in U64 /\ balances' \in [Wallets -> U64]
    BY <1>4, ProgramAssumption, CheckedArithmetic DEF burn_wrapped, TokenBurnFrom
  <2> QED
    BY <1>4, <2>1, <2>2, <2>4, <2>5 DEF burn_wrapped, NothingBeforeInitialize
<1>5. ASSUME NEW i \in DOMAIN withdrawals, NEW t \in TxIds, NEW h \in Heights,
             NEW e \in U64, NEW p \in Proofs, complete_withdrawal(i, t, h, e, p)
      PROVE  TypeInv'
  <2>1. withdrawals' \in [0..(config.withdrawal_count - 1) -> WithdrawalType]
    <3>1. withdrawals[i] \in WithdrawalType /\ h \in U64
      BY ProgramAssumption
    <3>2. [withdrawals[i] EXCEPT !.payout = [txid |-> t, height |-> h],
                                 !.status = "Completed"] \in WithdrawalType
      BY <3>1 DEF WithdrawalType
    <3>3. withdrawals' = [withdrawals EXCEPT ![i] =
            [withdrawals[i] EXCEPT !.payout = [txid |-> t, height |-> h],
                                   !.status = "Completed"]]
      BY <1>5, <3>1 DEF complete_withdrawal, WithdrawalType
    <3> QED
      BY <3>2, <3>3
  <2> QED
    BY <1>5, <2>1 DEF complete_withdrawal, NothingBeforeInitialize
<1>6. ASSUME NEW v \in ValidatorLists, NEW t \in Thresholds, NEW p \in Proofs,
             propose_validator_rotation(v, t, p)
      PROVE  TypeInv'
  <2>1. config.timelock \in I64 /\ config.max_wrapped_supply \in U64
    BY DEF ConfigType
  <2>2. now + config.timelock \in I64
    BY <1>6, <2>1, CheckedArithmetic DEF propose_validator_rotation
  <2>3. pending' \in PendingType
    BY <1>6, <2>2, ProgramAssumption, CheckedArithmetic
       DEF propose_validator_rotation, PendingType
  <2> QED
    BY <1>6, <2>1, <2>3 DEF propose_validator_rotation, NothingBeforeInitialize
<1>7. ASSUME execute_validator_rotation
      PROVE  TypeInv'
  <2>1. pending' \in PendingType
    BY <1>7, CheckedArithmetic DEF execute_validator_rotation, NoAction, PendingType
  <2>2. validatorSet.epoch + 1 \in U64
    <3>1. validatorSet.epoch + 1 <= U64Max
      BY <1>7 DEF execute_validator_rotation
    <3>2. validatorSet.epoch \in U64
      OBVIOUS
    <3>3. U64Max \in Nat
      BY ProgramAssumption
    <3> HIDE DEF TypeInv, TypeOK
    <3> QED BY <3>1, <3>2, <3>3, Z3 DEF U64
  <2>3. pending.validators \in Seq(Keys) /\ pending.threshold \in Nat
    BY DEF PendingType
  <2> QED
    BY <1>7, <2>1, <2>2, <2>3 DEF execute_validator_rotation, NothingBeforeInitialize
<1>8. ASSUME NEW c \in Caps, NEW p \in Proofs, propose_wrapped_supply_cap_raise(c, p)
      PROVE  TypeInv'
  <2>1. config.timelock \in I64 /\ config.max_wrapped_supply \in U64
    BY DEF ConfigType
  <2>2. now + config.timelock \in I64
    BY <1>8, <2>1, CheckedArithmetic DEF propose_wrapped_supply_cap_raise
  <2>3. pending' \in PendingType
    BY <1>8, <2>2, ProgramAssumption DEF propose_wrapped_supply_cap_raise, PendingType
  <2> QED
    BY <1>8, <2>1, <2>3 DEF propose_wrapped_supply_cap_raise, NothingBeforeInitialize
<1>9. ASSUME execute_wrapped_supply_cap_raise
      PROVE  TypeInv'
  <2>1. pending' \in PendingType
    BY <1>9, CheckedArithmetic DEF execute_wrapped_supply_cap_raise, NoAction, PendingType
  <2>2. /\ config' \in ConfigType /\ config'.initialized
        /\ config'.withdrawal_count = config.withdrawal_count
    BY <1>9 DEF execute_wrapped_supply_cap_raise, ConfigType, PendingType
  <2> QED
    BY <1>9, <2>1, <2>2 DEF execute_wrapped_supply_cap_raise, NothingBeforeInitialize
<1>10. ASSUME NEW p \in Proofs, cancel_validator_rotation(p)
       PROVE  TypeInv'
  <2>1. pending' \in PendingType
    BY <1>10, CheckedArithmetic DEF cancel_validator_rotation, NoAction, PendingType
  <2> QED
    BY <1>10, <2>1 DEF cancel_validator_rotation, NothingBeforeInitialize
<1>11. ASSUME NEW a \in Admins, NEW b \in BOOLEAN, set_paused(a, b)
       PROVE  TypeInv'
  <2>1. /\ config' \in ConfigType /\ config'.initialized
        /\ config'.withdrawal_count = config.withdrawal_count
    BY <1>11 DEF set_paused, ConfigType
  <2> QED
    BY <1>11, <2>1 DEF set_paused, NothingBeforeInitialize
<1>12. ASSUME NEW a \in Admins, NEW c \in Caps, lower_wrapped_supply_cap(a, c)
       PROVE  TypeInv'
  <2>1. /\ config' \in ConfigType /\ config'.initialized
        /\ config'.withdrawal_count = config.withdrawal_count
    BY <1>12, ProgramAssumption DEF lower_wrapped_supply_cap, ConfigType
  <2> QED
    BY <1>12, <2>1 DEF lower_wrapped_supply_cap, NothingBeforeInitialize
<1>13. ASSUME NEW a \in Admins, NEW n \in Admins, transfer_admin(a, n)
       PROVE  TypeInv'
  <2>1. /\ config' \in ConfigType /\ config'.initialized
        /\ config'.withdrawal_count = config.withdrawal_count
    BY <1>13 DEF transfer_admin, ConfigType
  <2> QED
    BY <1>13, <2>1 DEF transfer_admin, NothingBeforeInitialize
<1>14. ASSUME NEW a \in Admins, accept_admin(a)
       PROVE  TypeInv'
  <2>1. /\ config' \in ConfigType /\ config'.initialized
        /\ config'.withdrawal_count = config.withdrawal_count
    BY <1>14 DEF accept_admin, ConfigType
  <2> QED
    BY <1>14, <2>1 DEF accept_admin, NothingBeforeInitialize
<1>15. ASSUME NEW C \in Coalitions, NEW m \in SignableMessages, Sign(C, m)
       PROVE  TypeInv'
  <2>1. m \in Message
    BY SignableType
  <2>2. C \subseteq Keys
    BY ProgramAssumption
  <2> QED
    BY <1>15, <2>1, <2>2 DEF Sign, NothingBeforeInitialize
<1>16. ASSUME NEW w \in Wallets, CreateAta(w)
       PROVE  TypeInv'
  BY <1>16 DEF CreateAta, NothingBeforeInitialize
<1>17. ASSUME NEW f \in Wallets, NEW t \in Wallets, NEW a \in BurnAmounts,
              TokenTransfer(f, t, a)
       PROVE  TypeInv'
  <2>1. balances' \in [Wallets -> U64]
    BY <1>17, ProgramAssumption, CheckedArithmetic DEF TokenTransfer
  <2> QED
    BY <1>17, <2>1 DEF TokenTransfer, NothingBeforeInitialize
<1>18. ASSUME NEW w \in Wallets, NEW a \in BurnAmounts, TokenBurn(w, a)
       PROVE  TypeInv'
  <2>1. supply' \in U64 /\ balances' \in [Wallets -> U64]
    BY <1>18, ProgramAssumption, CheckedArithmetic DEF TokenBurn, TokenBurnFrom
  <2> QED
    BY <1>18, <2>1 DEF TokenBurn, NothingBeforeInitialize
<1>19. ASSUME Tick
       PROVE  TypeInv'
  <2>1. now' \in I64
    BY <1>19, ProgramAssumption DEF Tick, I64
  <2> QED
    BY <1>19, <2>1 DEF Tick, NothingBeforeInitialize
<1>20. ASSUME UNCHANGED vars
       PROVE  TypeInv'
  BY <1>20 DEF vars, NothingBeforeInitialize
<1> QED
  <2> HIDE DEF TypeInv
  <2> QED
    BY <1>1, <1>2, <1>3, <1>4, <1>5, <1>6, <1>7, <1>8, <1>9, <1>10, <1>11,
       <1>12, <1>13, <1>14, <1>15, <1>16, <1>17, <1>18, <1>19, <1>20
       DEF Next, Deploy, MoveValue, Govern, Administer, Environment

(* Every reachable state of the program is well typed: in particular no    *)
(* counter, amount or timestamp ever leaves its machine width, and the     *)
(* withdrawal accounts are exactly those below the counter.                *)
THEOREM TypeCorrect == Spec => []TypeOK
<1>1. Spec => []TypeInv
  BY TypeInit, TypeStep, PTL DEF Spec
<1> QED
  BY <1>1, PTL DEF TypeInv

-----------------------------------------------------------------------------
(* The steps that matter to the safety proof.  Every other instruction,    *)
(* and everything holders and the clock do, is a quiet step: it leaves     *)
(* validators, signatures, claims and withdrawals alone, and can only      *)
(* lower the cap.                                                          *)
QuietStep ==
    /\ UNCHANGED <<validatorSet, pending, claims, withdrawals, signatures,
                   history, queued>>
    /\ config'.initialized = config.initialized
    /\ config'.timelock = config.timelock
    /\ config'.max_wrapped_supply <= config.max_wrapped_supply
    /\ config.max_wrapped_supply > 0 => config'.max_wrapped_supply > 0

(* The steps of the program one by one: each is an instruction with        *)
(* arguments, an external token or clock step, or a stutter.               *)
LEMMA StepCases ==
    ASSUME TypeInv, [Next]_vars
    PROVE  \/ \E v \in ValidatorLists, t \in Thresholds, d, w \in Minimums,
                 l \in Timelocks, c \in Caps : initialize(v, t, d, w, l, c)
           \/ \E d \in Deposits, e \in U64 : \E p \in Proofs :
                 mint_wrapped(d.outpoint, d.amount, d.recipient, e, p)
           \/ \E u \in Wallets, a \in BurnAmounts, d \in Dests : burn_wrapped(u, a, d)
           \/ \E i \in DOMAIN withdrawals, t \in TxIds, h \in Heights, e \in U64 :
                 \E p \in Proofs : complete_withdrawal(i, t, h, e, p)
           \/ \E v \in ValidatorLists, t \in Thresholds : \E p \in Proofs :
                 propose_validator_rotation(v, t, p)
           \/ execute_validator_rotation
           \/ \E c \in Caps : \E p \in Proofs : propose_wrapped_supply_cap_raise(c, p)
           \/ execute_wrapped_supply_cap_raise
           \/ \E p \in Proofs : cancel_validator_rotation(p)
           \/ \E C \in Coalitions, m \in SignableMessages : Sign(C, m)
           \/ QuietStep
<1> USE DEF accounts, tokens, ghosts
<1>0. /\ config \in ConfigType
      /\ config.max_wrapped_supply \in Nat
      /\ config.max_wrapped_supply <= config.max_wrapped_supply
  <2>1. config \in ConfigType
    BY DEF TypeInv, TypeOK
  <2>2. config.max_wrapped_supply \in Nat
    BY <2>1, CheckedArithmetic DEF ConfigType
  <2> QED
    BY <2>1, <2>2
<1>1. ASSUME NEW a \in Admins, create_wrapped_mint(a) PROVE QuietStep
  <2>1. /\ config'.initialized = config.initialized
        /\ config'.timelock = config.timelock
        /\ config'.max_wrapped_supply = config.max_wrapped_supply
    BY <1>0, <1>1 DEF create_wrapped_mint, ConfigType
  <2> QED
    BY <1>0, <1>1, <2>1 DEF create_wrapped_mint, QuietStep
<1>2. ASSUME NEW a \in Admins, NEW b \in BOOLEAN, set_paused(a, b) PROVE QuietStep
  <2>1. /\ config'.initialized = config.initialized
        /\ config'.timelock = config.timelock
        /\ config'.max_wrapped_supply = config.max_wrapped_supply
    BY <1>0, <1>2 DEF set_paused, ConfigType
  <2> QED
    BY <1>0, <1>2, <2>1 DEF set_paused, QuietStep
<1>3. ASSUME NEW a \in Admins, NEW c \in Caps, lower_wrapped_supply_cap(a, c)
      PROVE  QuietStep
  <2>1. /\ config'.initialized = config.initialized
        /\ config'.timelock = config.timelock
        /\ config'.max_wrapped_supply = c
    BY <1>0, <1>3 DEF lower_wrapped_supply_cap, ConfigType
  <2>2. c \in Nat
    BY ProgramAssumption, CheckedArithmetic
  <2>3. c > 0 /\ c <= config.max_wrapped_supply
    BY <1>0, <1>3, <2>2 DEF lower_wrapped_supply_cap
  <2> QED
    BY <1>3, <2>1, <2>3 DEF lower_wrapped_supply_cap, QuietStep
<1>4. ASSUME NEW a \in Admins, NEW n \in Admins, transfer_admin(a, n) PROVE QuietStep
  <2>1. /\ config'.initialized = config.initialized
        /\ config'.timelock = config.timelock
        /\ config'.max_wrapped_supply = config.max_wrapped_supply
    BY <1>0, <1>4 DEF transfer_admin, ConfigType
  <2> QED
    BY <1>0, <1>4, <2>1 DEF transfer_admin, QuietStep
<1>5. ASSUME NEW a \in Admins, accept_admin(a) PROVE QuietStep
  <2>1. /\ config'.initialized = config.initialized
        /\ config'.timelock = config.timelock
        /\ config'.max_wrapped_supply = config.max_wrapped_supply
    BY <1>0, <1>5 DEF accept_admin, ConfigType
  <2> QED
    BY <1>0, <1>5, <2>1 DEF accept_admin, QuietStep
<1>6. ASSUME NEW w \in Wallets, CreateAta(w) PROVE QuietStep
  BY <1>0, <1>6 DEF CreateAta, QuietStep
<1>7. ASSUME NEW f \in Wallets, NEW t \in Wallets, NEW a \in BurnAmounts,
             TokenTransfer(f, t, a)
      PROVE  QuietStep
  BY <1>0, <1>7 DEF TokenTransfer, QuietStep
<1>8. ASSUME NEW w \in Wallets, NEW a \in BurnAmounts, TokenBurn(w, a) PROVE QuietStep
  BY <1>0, <1>8 DEF TokenBurn, QuietStep
<1>9. ASSUME Tick PROVE QuietStep
  BY <1>0, <1>9 DEF Tick, QuietStep
<1>10. ASSUME UNCHANGED vars PROVE QuietStep
  BY <1>0, <1>10 DEF vars, QuietStep
<1> QED
  BY <1>1, <1>2, <1>3, <1>4, <1>5, <1>6, <1>7, <1>8, <1>9, <1>10
     DEF Next, Deploy, MoveValue, Govern, Administer, Environment

(* To governance, moving value is quiet; to value, so is governance, save  *)
(* for a rotation.                                                         *)
GovernanceQuiet ==
    /\ UNCHANGED <<validatorSet, pending, signatures, history, queued>>
    /\ config'.initialized = config.initialized
    /\ config'.timelock = config.timelock
    /\ config'.max_wrapped_supply <= config.max_wrapped_supply
    /\ config.max_wrapped_supply > 0 => config'.max_wrapped_supply > 0

ValueQuiet == UNCHANGED <<validatorSet, claims, withdrawals, signatures, history>>

(* The steps that can change the configuration, the validator set, the     *)
(* pending action or the signatures; every other step leaves them alone.   *)
LEMMA GovernanceCases ==
    ASSUME TypeInv, [Next]_vars
    PROVE  \/ \E v \in ValidatorLists, t \in Thresholds, d, w \in Minimums,
                 l \in Timelocks, c \in Caps : initialize(v, t, d, w, l, c)
           \/ \E v \in ValidatorLists, t \in Thresholds : \E p \in Proofs :
                 propose_validator_rotation(v, t, p)
           \/ execute_validator_rotation
           \/ \E c \in Caps : \E p \in Proofs : propose_wrapped_supply_cap_raise(c, p)
           \/ execute_wrapped_supply_cap_raise
           \/ \E p \in Proofs : cancel_validator_rotation(p)
           \/ \E C \in Coalitions, m \in SignableMessages : Sign(C, m)
           \/ GovernanceQuiet
<1>0. config \in ConfigType
  BY DEF TypeInv, TypeOK
<1>1. config.max_wrapped_supply \in Nat
  BY <1>0, CheckedArithmetic DEF ConfigType
<1>2. config.max_wrapped_supply <= config.max_wrapped_supply
  BY <1>1
<1>3. ASSUME NEW d \in Deposits, NEW e \in U64, NEW p \in Proofs,
             mint_wrapped(d.outpoint, d.amount, d.recipient, e, p)
      PROVE  GovernanceQuiet
  BY <1>2, <1>3 DEF mint_wrapped, GovernanceQuiet, ghosts
<1>4. ASSUME NEW u \in Wallets, NEW a \in BurnAmounts, NEW d \in Dests,
             burn_wrapped(u, a, d)
      PROVE  GovernanceQuiet
  <2>1. /\ config'.initialized = config.initialized
        /\ config'.timelock = config.timelock
        /\ config'.max_wrapped_supply = config.max_wrapped_supply
    BY <1>0, <1>4 DEF burn_wrapped, ConfigType
  <2> QED
    BY <1>2, <1>4, <2>1 DEF burn_wrapped, GovernanceQuiet, ghosts
<1>5. ASSUME NEW i \in DOMAIN withdrawals, NEW t \in TxIds, NEW h \in Heights,
             NEW e \in U64, NEW p \in Proofs, complete_withdrawal(i, t, h, e, p)
      PROVE  GovernanceQuiet
  BY <1>2, <1>5 DEF complete_withdrawal, GovernanceQuiet, ghosts
<1>6. ASSUME QuietStep PROVE GovernanceQuiet
  BY <1>6 DEF QuietStep, GovernanceQuiet
<1> QED
  BY <1>3, <1>4, <1>5, <1>6, StepCases

(* The steps that can change the claims, the withdrawal records or the     *)
(* epoch; every other step leaves them alone.                              *)
LEMMA ValueCases ==
    ASSUME TypeInv, [Next]_vars
    PROVE  \/ \E v \in ValidatorLists, t \in Thresholds, d, w \in Minimums,
                 l \in Timelocks, c \in Caps : initialize(v, t, d, w, l, c)
           \/ \E d \in Deposits, e \in U64 : \E p \in Proofs :
                 mint_wrapped(d.outpoint, d.amount, d.recipient, e, p)
           \/ \E u \in Wallets, a \in BurnAmounts, d \in Dests : burn_wrapped(u, a, d)
           \/ \E i \in DOMAIN withdrawals, t \in TxIds, h \in Heights, e \in U64 :
                 \E p \in Proofs : complete_withdrawal(i, t, h, e, p)
           \/ execute_validator_rotation
           \/ \E C \in Coalitions, m \in SignableMessages : Sign(C, m)
           \/ ValueQuiet
<1>1. ASSUME NEW v \in ValidatorLists, NEW t \in Thresholds, NEW p \in Proofs,
             propose_validator_rotation(v, t, p)
      PROVE  ValueQuiet
  BY <1>1 DEF propose_validator_rotation, ValueQuiet
<1>2. ASSUME NEW c \in Caps, NEW p \in Proofs, propose_wrapped_supply_cap_raise(c, p)
      PROVE  ValueQuiet
  BY <1>2 DEF propose_wrapped_supply_cap_raise, ValueQuiet
<1>3. ASSUME execute_wrapped_supply_cap_raise PROVE ValueQuiet
  BY <1>3 DEF execute_wrapped_supply_cap_raise, ValueQuiet, ghosts
<1>4. ASSUME NEW p \in Proofs, cancel_validator_rotation(p) PROVE ValueQuiet
  BY <1>4 DEF cancel_validator_rotation, ValueQuiet
<1>5. ASSUME QuietStep PROVE ValueQuiet
  BY <1>5 DEF QuietStep, ValueQuiet
<1> QED
  BY <1>1, <1>2, <1>3, <1>4, <1>5, StepCases

(* A proof the program accepts now is an approval by its current set. *)
LEMMA CurrentApproval ==
    ASSUME TypeOK, NEW m, NEW p \in Proofs,
           require_federation_approval(p, m, validatorSet)
    PROVE  ApprovedBy(validatorSet, m, signatures)
<1>1. \A s \in signatures : s = [key |-> s.key, message |-> s.message]
  BY DEF TypeOK
<1>2. validatorSet.validators \in Seq(Keys) /\ validatorSet.threshold \in Nat
  BY DEF TypeOK
<1>3. MaxValidators \in Nat
  BY KeysAssumption
<1> QED
  BY <1>1, <1>2, <1>3, ApprovalIsSound DEF Proofs

-----------------------------------------------------------------------------
(* The inductive invariant.  ChainOfTrust alone is not inductive: executing*)
(* a rotation needs to know that what is pending was approved by the set   *)
(* that is about to be replaced and has waited, which is what              *)
(* PendingStaysExecutable says; the claims in turn need ChainOfTrust to    *)
(* know that the current set is the one on record for its epoch.           *)
SafetyInv ==
    /\ TypeInv
    /\ ConfigStaysUsable
    /\ PendingStaysExecutable
    /\ ChainOfTrust
    /\ ClaimsAreApproved
    /\ CompletionsAreApproved
    /\ NoDoubleClaim

(* The inductive invariant holds before initialize.                        *)
LEMMA SafetyInit == Init => SafetyInv
<1> SUFFICES ASSUME Init PROVE SafetyInv
  OBVIOUS
<1>1. TypeInv
  BY TypeInit
<1>2. ConfigStaysUsable /\ PendingStaysExecutable /\ ChainOfTrust
  BY DEF Init, ConfigStaysUsable, PendingStaysExecutable, ChainOfTrust, NoAction
<1>3. ClaimsAreApproved /\ CompletionsAreApproved /\ NoDoubleClaim
  BY DEF Init, ClaimsAreApproved, CompletionsAreApproved, NoDoubleClaim
<1> QED
  BY <1>1, <1>2, <1>3 DEF SafetyInv

(* Each conjunct is preserved. *)

(* initialize, execute_validator_rotation and the cap instructions keep    *)
(* the configuration usable; nothing else writes it.                       *)
LEMMA UsableStep ==
    ASSUME SafetyInv, [Next]_vars PROVE ConfigStaysUsable'
<1>0. TypeInv /\ TypeOK /\ ConfigStaysUsable /\ config \in ConfigType
  BY DEF SafetyInv, TypeInv, TypeOK
<1> USE DEF ConfigStaysUsable
<1>1. ASSUME NEW v \in ValidatorLists, NEW t \in Thresholds, NEW d \in Minimums,
             NEW w \in Minimums, NEW l \in Timelocks, NEW c \in Caps,
             initialize(v, t, d, w, l, c)
      PROVE  ConfigStaysUsable'
  BY <1>1 DEF initialize
<1>2. ASSUME NEW v \in ValidatorLists, NEW t \in Thresholds, NEW p \in Proofs,
             propose_validator_rotation(v, t, p)
      PROVE  ConfigStaysUsable'
  BY <1>0, <1>2 DEF propose_validator_rotation
<1>3. ASSUME execute_validator_rotation PROVE ConfigStaysUsable'
  BY <1>0, <1>3 DEF execute_validator_rotation
<1>4. ASSUME NEW c \in Caps, NEW p \in Proofs, propose_wrapped_supply_cap_raise(c, p)
      PROVE  ConfigStaysUsable'
  BY <1>0, <1>4 DEF propose_wrapped_supply_cap_raise
<1>5. ASSUME execute_wrapped_supply_cap_raise PROVE ConfigStaysUsable'
  <2>1. /\ config'.max_wrapped_supply = pending.new_max
        /\ config'.timelock = config.timelock
    BY <1>0, <1>5 DEF execute_wrapped_supply_cap_raise, ConfigType
  <2>2. config.max_wrapped_supply \in Nat /\ pending.new_max \in Nat
    BY <1>0, CheckedArithmetic DEF TypeOK, ConfigType, PendingType
  <2>3. pending.new_max > 0
    BY <1>5, <2>2 DEF execute_wrapped_supply_cap_raise
  <2> QED
    BY <1>0, <1>5, <2>1, <2>3 DEF execute_wrapped_supply_cap_raise
<1>6. ASSUME NEW p \in Proofs, cancel_validator_rotation(p) PROVE ConfigStaysUsable'
  BY <1>0, <1>6 DEF cancel_validator_rotation
<1>7. ASSUME NEW C \in Coalitions, NEW m \in SignableMessages, Sign(C, m)
      PROVE  ConfigStaysUsable'
  BY <1>0, <1>7 DEF Sign, accounts
<1>8. ASSUME GovernanceQuiet PROVE ConfigStaysUsable'
  BY <1>0, <1>8 DEF GovernanceQuiet
<1> QED
  <2> HIDE DEF ConfigStaysUsable
  <2> QED
    BY <1>0, <1>1, <1>2, <1>3, <1>4, <1>5, <1>6, <1>7, <1>8, GovernanceCases

(* A queued action stays executable: only its own execution or             *)
(* cancellation moves the epoch or replaces it.                            *)
LEMMA PendingStep ==
    ASSUME SafetyInv, [Next]_vars PROVE PendingStaysExecutable'
<1>0. TypeInv /\ TypeOK /\ PendingStaysExecutable /\ NothingBeforeInitialize
  BY DEF SafetyInv, TypeInv
<1> USE DEF PendingStaysExecutable, None
<1>1. ASSUME NEW v \in ValidatorLists, NEW t \in Thresholds, NEW d \in Minimums,
             NEW w \in Minimums, NEW l \in Timelocks, NEW c \in Caps,
             initialize(v, t, d, w, l, c)
      PROVE  PendingStaysExecutable'
  BY <1>0, <1>1 DEF initialize, NothingBeforeInitialize
<1>2. ASSUME NEW v \in ValidatorLists, NEW t \in Thresholds, NEW p \in Proofs,
             propose_validator_rotation(v, t, p)
      PROVE  PendingStaysExecutable'
  <2>1. ApprovedBy(validatorSet, rotation_message(validatorSet.epoch, t, v), signatures)
    BY <1>0, <1>2, CurrentApproval DEF propose_validator_rotation
  <2> QED
    BY <1>2, <2>1 DEF propose_validator_rotation
<1>3. ASSUME execute_validator_rotation PROVE PendingStaysExecutable'
  BY <1>3 DEF execute_validator_rotation, NoAction
<1>4. ASSUME NEW c \in Caps, NEW p \in Proofs, propose_wrapped_supply_cap_raise(c, p)
      PROVE  PendingStaysExecutable'
  <2>1. ApprovedBy(validatorSet, raise_message(validatorSet.epoch, c), signatures)
    BY <1>0, <1>4, CurrentApproval DEF propose_wrapped_supply_cap_raise
  <2> QED
    BY <1>4, <2>1 DEF propose_wrapped_supply_cap_raise
<1>5. ASSUME execute_wrapped_supply_cap_raise PROVE PendingStaysExecutable'
  BY <1>5 DEF execute_wrapped_supply_cap_raise, NoAction
<1>6. ASSUME NEW p \in Proofs, cancel_validator_rotation(p) PROVE PendingStaysExecutable'
  BY <1>6 DEF cancel_validator_rotation, NoAction
<1>7. ASSUME NEW C \in Coalitions, NEW m \in SignableMessages, Sign(C, m)
      PROVE  PendingStaysExecutable'
  <2>1. signatures \subseteq signatures'
    BY <1>7 DEF Sign
  <2>2. validatorSet.validators \in Seq(Keys) /\ validatorSet.threshold \in Nat
    BY <1>0 DEF TypeOK
  <2>3. \A x : ApprovedBy(validatorSet, x, signatures) =>
                 ApprovedBy(validatorSet, x, signatures')
    BY <2>1, <2>2, ApprovalIsStable
  <2> QED
    BY <1>0, <1>7, <2>3 DEF Sign, accounts, ghosts
<1>8. ASSUME GovernanceQuiet PROVE PendingStaysExecutable'
  <2>1. /\ config.max_wrapped_supply \in Nat /\ pending.new_max \in Nat
        /\ config \in ConfigType
    BY <1>0, CheckedArithmetic DEF TypeOK, ConfigType, PendingType
  <2>2. config'.max_wrapped_supply \in Nat
    BY <1>0, TypeStep, CheckedArithmetic DEF TypeInv, TypeOK, ConfigType
  <2>3. pending.new_max > config.max_wrapped_supply =>
          pending.new_max > config'.max_wrapped_supply
    BY <1>8, <2>1, <2>2 DEF GovernanceQuiet
  <2> QED
    BY <1>0, <1>8, <2>3 DEF GovernanceQuiet
<1> QED
  <2> HIDE DEF PendingStaysExecutable
  <2> QED
    BY <1>0, <1>1, <1>2, <1>3, <1>4, <1>5, <1>6, <1>7, <1>8, GovernanceCases

(* Only initialize and execute_validator_rotation extend the history of    *)
(* federations, and the second does so with the approval recorded at its   *)
(* proposal.                                                               *)
LEMMA ChainStep ==
    ASSUME SafetyInv, [Next]_vars PROVE ChainOfTrust'
<1>0. /\ TypeInv /\ TypeOK /\ PendingStaysExecutable /\ ChainOfTrust
      /\ config \in ConfigType
      /\ validatorSet.epoch \in U64 /\ U64 \subseteq Nat
  BY CheckedArithmetic DEF SafetyInv, TypeInv, TypeOK
<1> USE DEF ChainOfTrust
<1>1. ASSUME NEW v \in ValidatorLists, NEW t \in Thresholds, NEW d \in Minimums,
             NEW w \in Minimums, NEW l \in Timelocks, NEW c \in Caps,
             initialize(v, t, d, w, l, c)
      PROVE  ChainOfTrust'
  <2>1. history'[0] = [validators |-> v, threshold |-> t, queued_at |-> now, since |-> now]
    BY <1>0, <1>1, CheckedArithmetic DEF initialize, TypeOK
  <2>2. 1..0 = {}
    OBVIOUS
  <2> QED
    BY <1>1, <2>1, <2>2 DEF initialize
<1>2. ASSUME NEW v \in ValidatorLists, NEW t \in Thresholds, NEW p \in Proofs,
             propose_validator_rotation(v, t, p)
      PROVE  ChainOfTrust'
  BY <1>0, <1>2 DEF propose_validator_rotation
<1>3. ASSUME execute_validator_rotation PROVE ChainOfTrust'
  <2> DEFINE n == validatorSet.epoch
  <2>1. n \in Nat /\ n + 1 \in U64 /\ config.initialized /\ n + 1 - 1 = n
    <3>1. n \in U64 /\ n + 1 <= U64Max /\ config.initialized
      BY <1>0, <1>3 DEF execute_validator_rotation
    <3>2. n \in Nat /\ n + 1 \in U64
      BY <3>1, CounterStep
    <3> QED
      BY <3>1, <3>2
  <2>2. /\ history'[n + 1] = [validators |-> pending.validators,
                              threshold |-> pending.threshold,
                              queued_at |-> queued.at, since |-> now]
        /\ \A e \in U64 : e # n + 1 => history'[e] = history[e]
    BY <1>0, <1>3, <2>1 DEF execute_validator_rotation, TypeOK
  <2>3. history'[n] = history[n]
    BY <1>0, <2>1, <2>2
  <2>4. ApprovedBy(history'[n],
            rotation_message(n, pending.threshold, pending.validators), signatures)
    <3>1. ApprovedBy(validatorSet,
              rotation_message(n, pending.threshold, pending.validators), signatures)
      BY <1>0, <1>3 DEF execute_validator_rotation, PendingStaysExecutable, None
    <3> QED
      BY <1>0, <2>1, <2>3, <3>1 DEF ApprovedBy
  <2>5. now >= queued.at + config.timelock
    BY <1>0, <1>3 DEF execute_validator_rotation, PendingStaysExecutable, None
  <2>6. ASSUME NEW e \in 1..(n + 1)
        PROVE  /\ ApprovedBy(history'[e - 1],
                     rotation_message(e - 1, history'[e].threshold,
                                      history'[e].validators), signatures)
               /\ history'[e].since >= history'[e].queued_at + config.timelock
    <3>1. CASE e = n + 1
      BY <2>1, <2>2, <2>4, <2>5, <3>1
    <3>2. CASE e # n + 1
      <4>1. e \in 1..n /\ e \in U64 /\ e - 1 \in U64 /\ e - 1 # n + 1
        BY <1>0, <2>1, <3>2, ProgramAssumption DEF U64
      <4>2. history'[e] = history[e] /\ history'[e - 1] = history[e - 1]
        BY <2>2, <3>2, <4>1
      <4> QED
        BY <1>0, <2>1, <4>1, <4>2
    <3> QED
      BY <3>1, <3>2
  <2> QED
    BY <1>3, <2>1, <2>2, <2>6 DEF execute_validator_rotation
<1>4. ASSUME NEW c \in Caps, NEW p \in Proofs, propose_wrapped_supply_cap_raise(c, p)
      PROVE  ChainOfTrust'
  BY <1>0, <1>4 DEF propose_wrapped_supply_cap_raise
<1>5. ASSUME execute_wrapped_supply_cap_raise PROVE ChainOfTrust'
  <2>1. config'.timelock = config.timelock /\ config'.initialized = config.initialized
    BY <1>0, <1>5 DEF execute_wrapped_supply_cap_raise, ConfigType
  <2> QED
    BY <1>0, <1>5, <2>1 DEF execute_wrapped_supply_cap_raise, ghosts
<1>6. ASSUME NEW p \in Proofs, cancel_validator_rotation(p) PROVE ChainOfTrust'
  BY <1>0, <1>6 DEF cancel_validator_rotation
<1>7. ASSUME NEW C \in Coalitions, NEW m \in SignableMessages, Sign(C, m)
      PROVE  ChainOfTrust'
  <2>1. signatures \subseteq signatures'
    BY <1>7 DEF Sign
  <2>2. \A e \in 1..validatorSet.epoch : e - 1 \in U64
    BY <1>0, ProgramAssumption DEF U64
  <2>3. \A e \in U64 : /\ history[e].validators \in Seq(Keys)
                        /\ history[e].threshold \in Nat
    BY <1>0 DEF TypeOK
  <2>4. \A e \in U64 : \A x : ApprovedBy(history[e], x, signatures) =>
                                 ApprovedBy(history[e], x, signatures')
    BY <2>1, <2>3, ApprovalIsStable
  <2> QED
    BY <1>0, <1>7, <2>2, <2>4 DEF Sign, accounts, ghosts
<1>8. ASSUME GovernanceQuiet PROVE ChainOfTrust'
  BY <1>0, <1>8 DEF GovernanceQuiet
<1> QED
  <2> HIDE DEF ChainOfTrust
  <2> QED
    BY <1>0, <1>1, <1>2, <1>3, <1>4, <1>5, <1>6, <1>7, <1>8, GovernanceCases

(* What the current set approves, the set on record for its epoch does. *)
LEMMA RecordedApproval ==
    ASSUME SafetyInv, config.initialized, NEW m,
           ApprovedBy(validatorSet, m, signatures)
    PROVE  ApprovedBy(history[validatorSet.epoch], m, signatures)
  BY DEF SafetyInv, ChainOfTrust, ApprovedBy

(* The record of past and current epochs is final, and approvals under it  *)
(* only grow: what Sign and a rotation leave of every earlier approval.    *)
LEMMA PastApprovalsHold ==
    ASSUME SafetyInv,
           \/ execute_validator_rotation
           \/ \E C \in Coalitions, m \in SignableMessages : Sign(C, m)
    PROVE  /\ validatorSet.epoch <= validatorSet'.epoch
           /\ UNCHANGED <<claims, withdrawals>>
           /\ \A e \in 0..validatorSet.epoch : \A m :
                 ApprovedBy(history[e], m, signatures) =>
                     ApprovedBy(history'[e], m, signatures')
<1>0. /\ TypeOK /\ validatorSet.epoch \in U64 /\ U64 \subseteq Nat
      /\ 0..validatorSet.epoch \subseteq U64
  <2>1. TypeOK /\ validatorSet.epoch \in U64
    BY DEF SafetyInv, TypeInv, TypeOK
  <2>2. \A n \in U64 : 0..n \subseteq U64
    BY ProgramAssumption DEF U64
  <2> QED
    BY <2>1, <2>2, CheckedArithmetic
<1>1. CASE execute_validator_rotation
  <2>1. validatorSet.epoch \in Nat /\ validatorSet'.epoch = validatorSet.epoch + 1
    BY <1>0, <1>1 DEF execute_validator_rotation
  <2>2. \A e \in 0..validatorSet.epoch : e # validatorSet.epoch + 1
    BY <2>1
  <2>3. \A e \in 0..validatorSet.epoch : history'[e] = history[e]
    BY <1>0, <1>1, <2>2 DEF execute_validator_rotation, TypeOK
  <2>4. signatures' = signatures /\ UNCHANGED <<claims, withdrawals>>
    BY <1>1 DEF execute_validator_rotation
  <2>5. validatorSet.epoch <= validatorSet'.epoch
    BY <2>1
  <2> QED
    BY <2>3, <2>4, <2>5
<1>2. CASE \E C \in Coalitions, m \in SignableMessages : Sign(C, m)
  <2>1. /\ signatures \subseteq signatures'
        /\ UNCHANGED <<validatorSet, claims, withdrawals, history>>
    BY <1>2 DEF Sign, accounts, ghosts
  <2>2. \A e \in U64 : /\ history[e].validators \in Seq(Keys)
                        /\ history[e].threshold \in Nat
    BY <1>0 DEF TypeOK
  <2>3. \A e \in U64 : \A x : ApprovedBy(history[e], x, signatures) =>
                                 ApprovedBy(history[e], x, signatures')
    BY <2>1, <2>2, ApprovalIsStable
  <2>4. validatorSet.epoch <= validatorSet.epoch
    <3>1. validatorSet.epoch \in Nat
      BY <1>0
    <3> QED
      BY <3>1
  <2> QED
    BY <1>0, <2>1, <2>3, <2>4
<1> QED
  BY <1>1, <1>2

(* mint_wrapped adds one claim, approved under the current epoch, for an   *)
(* output that had none; no other step touches the claims.                 *)
LEMMA ClaimsStep ==
    ASSUME SafetyInv, [Next]_vars PROVE ClaimsAreApproved' /\ NoDoubleClaim'
<1>0. /\ TypeInv /\ TypeOK /\ ClaimsAreApproved /\ NoDoubleClaim
      /\ validatorSet.epoch \in Nat
      /\ \A c \in claims : c.epoch \in 0..validatorSet.epoch
  <2>1. validatorSet.epoch \in Nat /\ TypeOK /\ ClaimsAreApproved
    BY CheckedArithmetic DEF SafetyInv, TypeInv, TypeOK
  <2>2. \A c \in claims : c.epoch \in Nat /\ c.epoch <= validatorSet.epoch
    BY <2>1, CheckedArithmetic DEF TypeOK, ClaimType, ClaimsAreApproved
  <2> QED
    BY <2>1, <2>2 DEF SafetyInv
<1>1. ASSUME NEW v \in ValidatorLists, NEW t \in Thresholds, NEW d \in Minimums,
             NEW w \in Minimums, NEW l \in Timelocks, NEW c \in Caps,
             initialize(v, t, d, w, l, c)
      PROVE  ClaimsAreApproved' /\ NoDoubleClaim'
  BY <1>0, <1>1 DEF initialize, TypeInv, NothingBeforeInitialize,
     ClaimsAreApproved, NoDoubleClaim
<1>2. ASSUME NEW d \in Deposits, NEW e \in U64, NEW p \in Proofs,
             mint_wrapped(d.outpoint, d.amount, d.recipient, e, p)
      PROVE  ClaimsAreApproved' /\ NoDoubleClaim'
  <2> DEFINE m == deposit_claim_message(validatorSet.epoch, d.outpoint, d.amount,
                                        d.recipient)
             new == [outpoint |-> d.outpoint, amount |-> d.amount,
                     recipient |-> d.recipient, epoch |-> validatorSet.epoch]
  <2>1. ApprovedBy(validatorSet, m, signatures) /\ config.initialized
    BY <1>0, <1>2, CurrentApproval DEF mint_wrapped
  <2>2. ApprovedBy(history[validatorSet.epoch], m, signatures)
    BY <2>1, RecordedApproval
  <2>3. claims' = claims \cup {new}
    BY <1>2 DEF mint_wrapped
  <2>4. UNCHANGED <<validatorSet, signatures, history>>
    BY <1>2 DEF mint_wrapped, ghosts
  <2>5. validatorSet.epoch <= validatorSet.epoch
    BY <1>0
  <2>6. ClaimsAreApproved'
    BY <1>0, <2>2, <2>3, <2>4, <2>5 DEF ClaimsAreApproved
  <2>7. NoDoubleClaim'
    BY <1>0, <1>2, <2>3 DEF NoDoubleClaim, mint_wrapped, ClaimExists
  <2> QED
    BY <2>6, <2>7
<1>3. ASSUME NEW u \in Wallets, NEW a \in BurnAmounts, NEW d \in Dests,
             burn_wrapped(u, a, d)
      PROVE  ClaimsAreApproved' /\ NoDoubleClaim'
  BY <1>0, <1>3 DEF burn_wrapped, ghosts, ClaimsAreApproved, NoDoubleClaim
<1>4. ASSUME NEW i \in DOMAIN withdrawals, NEW t \in TxIds, NEW h \in Heights,
             NEW e \in U64, NEW p \in Proofs, complete_withdrawal(i, t, h, e, p)
      PROVE  ClaimsAreApproved' /\ NoDoubleClaim'
  BY <1>0, <1>4 DEF complete_withdrawal, ghosts, ClaimsAreApproved, NoDoubleClaim
<1>5. ASSUME \/ execute_validator_rotation
             \/ \E C \in Coalitions, m \in SignableMessages : Sign(C, m)
      PROVE  ClaimsAreApproved' /\ NoDoubleClaim'
  <2>1. validatorSet'.epoch \in Nat
    BY <1>0, TypeStep, CheckedArithmetic DEF TypeInv, TypeOK
  <2>2. /\ validatorSet.epoch <= validatorSet'.epoch
        /\ UNCHANGED <<claims, withdrawals>>
        /\ \A e \in 0..validatorSet.epoch : \A m :
              ApprovedBy(history[e], m, signatures) =>
                  ApprovedBy(history'[e], m, signatures')
    BY <1>5, PastApprovalsHold
  <2>3. \A c \in claims : c.epoch <= validatorSet'.epoch
    BY <1>0, <2>1, <2>2
  <2> QED
    BY <1>0, <2>2, <2>3 DEF ClaimsAreApproved, NoDoubleClaim
<1>6. ASSUME ValueQuiet PROVE ClaimsAreApproved' /\ NoDoubleClaim'
  BY <1>0, <1>6 DEF ValueQuiet, ClaimsAreApproved, NoDoubleClaim
<1> QED
  BY <1>0, <1>1, <1>2, <1>3, <1>4, <1>5, <1>6, ValueCases

(* complete_withdrawal completes one pending record, approved under the    *)
(* current epoch; burn_wrapped only adds pending ones.                     *)
LEMMA CompletionsStep ==
    ASSUME SafetyInv, [Next]_vars PROVE CompletionsAreApproved'
<1>0. TypeInv /\ TypeOK /\ CompletionsAreApproved /\ validatorSet.epoch \in Nat
  BY CheckedArithmetic DEF SafetyInv, TypeInv, TypeOK
<1>1. ASSUME NEW v \in ValidatorLists, NEW t \in Thresholds, NEW d \in Minimums,
             NEW w \in Minimums, NEW l \in Timelocks, NEW c \in Caps,
             initialize(v, t, d, w, l, c)
      PROVE  CompletionsAreApproved'
  <2>1. config.withdrawal_count = 0 /\ withdrawals' = withdrawals
    BY <1>0, <1>1 DEF initialize, TypeInv, NothingBeforeInitialize
  <2>2. 0..(0 - 1) = {}
    OBVIOUS
  <2>3. DOMAIN withdrawals' = {}
    BY <1>0, <2>1, <2>2 DEF TypeOK
  <2> QED
    BY <2>3 DEF CompletionsAreApproved
<1>2. ASSUME NEW d \in Deposits, NEW e \in U64, NEW p \in Proofs,
             mint_wrapped(d.outpoint, d.amount, d.recipient, e, p)
      PROVE  CompletionsAreApproved'
  BY <1>0, <1>2 DEF mint_wrapped, ghosts, CompletionsAreApproved
<1>3. ASSUME NEW u \in Wallets, NEW a \in BurnAmounts, NEW d \in Dests,
             burn_wrapped(u, a, d)
      PROVE  CompletionsAreApproved'
  <2> DEFINE n == config.withdrawal_count
  <2>1. n \in U64
    BY <1>0 DEF TypeOK, ConfigType
  <2>2. \A i \in 0..n : i # n => i \in DOMAIN withdrawals
    BY <1>0, <2>1, CounterStep DEF TypeOK
  <2>3. /\ DOMAIN withdrawals' = 0..n
        /\ \A i \in 0..n : i # n => withdrawals'[i] = withdrawals[i]
        /\ n \in 0..n => /\ withdrawals'[n].status = "Pending"
                         /\ withdrawals'[n].payout = ZeroPayout
    BY <1>3 DEF burn_wrapped
  <2>4. UNCHANGED <<validatorSet, signatures, history>>
    BY <1>3 DEF burn_wrapped, ghosts
  <2>5. "Pending" # "Completed"
    OBVIOUS
  <2> HIDE DEF n
  <2> QED
    BY <1>0, <2>2, <2>3, <2>4, <2>5 DEF CompletionsAreApproved
<1>4. ASSUME NEW i \in DOMAIN withdrawals, NEW t \in TxIds, NEW h \in Heights,
             NEW e \in U64, NEW p \in Proofs, complete_withdrawal(i, t, h, e, p)
      PROVE  CompletionsAreApproved'
  <2> DEFINE m == withdrawal_completion_message(validatorSet.epoch, i, t, h,
                      withdrawals[i].amount, withdrawals[i].dest)
  <2>1. ApprovedBy(validatorSet, m, signatures) /\ config.initialized
    BY <1>0, <1>4, CurrentApproval DEF complete_withdrawal
  <2>2. ApprovedBy(history[validatorSet.epoch], m, signatures)
    BY <2>1, RecordedApproval
  <2>3. withdrawals[i] \in WithdrawalType
    BY <1>0 DEF TypeOK
  <2>4. /\ DOMAIN withdrawals' = DOMAIN withdrawals
        /\ \A j \in DOMAIN withdrawals : j # i => withdrawals'[j] = withdrawals[j]
        /\ withdrawals'[i].payout.txid = t /\ withdrawals'[i].payout.height = h
        /\ withdrawals'[i].amount = withdrawals[i].amount
        /\ withdrawals'[i].dest = withdrawals[i].dest
        /\ withdrawals'[i].status = "Completed"
    BY <1>0, <1>4, <2>3 DEF complete_withdrawal, WithdrawalType, TypeOK
  <2>5. UNCHANGED <<validatorSet, signatures, history>>
    BY <1>4 DEF complete_withdrawal, ghosts
  <2>6. validatorSet.epoch \in 0..validatorSet.epoch
    BY <1>0
  <2> QED
    BY <1>0, <2>2, <2>4, <2>5, <2>6 DEF CompletionsAreApproved
<1>5. ASSUME \/ execute_validator_rotation
             \/ \E C \in Coalitions, m \in SignableMessages : Sign(C, m)
      PROVE  CompletionsAreApproved'
  <2>1. validatorSet'.epoch \in Nat
    BY <1>0, TypeStep, CheckedArithmetic DEF TypeInv, TypeOK
  <2>2. /\ validatorSet.epoch <= validatorSet'.epoch
        /\ UNCHANGED <<claims, withdrawals>>
        /\ \A e \in 0..validatorSet.epoch : \A m :
              ApprovedBy(history[e], m, signatures) =>
                  ApprovedBy(history'[e], m, signatures')
    BY <1>5, PastApprovalsHold
  <2>3. 0..validatorSet.epoch \subseteq 0..validatorSet'.epoch
    BY <1>0, <2>1, <2>2
  <2> QED
    BY <1>0, <2>2, <2>3 DEF CompletionsAreApproved
<1>6. ASSUME ValueQuiet PROVE CompletionsAreApproved'
  BY <1>0, <1>6 DEF ValueQuiet, CompletionsAreApproved
<1> QED
  BY <1>0, <1>1, <1>2, <1>3, <1>4, <1>5, <1>6, ValueCases

-----------------------------------------------------------------------------
(* The inductive invariant holds in every reachable state. *)
THEOREM SafetyInvariant == Spec => []SafetyInv
<1>1. SafetyInv /\ [Next]_vars => SafetyInv'
  BY TypeStep, UsableStep, PendingStep, ChainStep, ClaimsStep, CompletionsStep
     DEF SafetyInv
<1> QED
  BY <1>1, SafetyInit, PTL DEF Spec

(* For every federation: the cap and timelock stay positive and the        *)
(* validator set stays well formed through every rotation and every admin  *)
(* change (validate_validator_set, lower_wrapped_supply_cap).              *)
THEOREM ConfigIsAlwaysUsable == Spec => []ConfigStaysUsable
  BY SafetyInvariant, PTL DEF SafetyInv

(* For every federation: whatever is queued stays approved and executable, *)
(* so the re-checks of the two execute instructions never fail after eta,  *)
(* also the one that is to protect an admin's lowering of the cap.         *)
THEOREM PendingIsAlwaysExecutable == Spec => []PendingStaysExecutable
  BY SafetyInvariant, PTL DEF SafetyInv

(* For every federation and any number of rotations: each validator set    *)
(* was approved by a threshold of the one before and waited the timelock.  *)
THEOREM FederationChainsToGenesis == Spec => []ChainOfTrust
  BY SafetyInvariant, PTL DEF SafetyInv

(* For any number of deposits: mint_wrapped only mints what a threshold of *)
(* the epoch's validators signed.                                          *)
THEOREM ClaimsAlwaysApproved == Spec => []ClaimsAreApproved
  BY SafetyInvariant, PTL DEF SafetyInv

(* For any number of deposits, epochs and replays: a deposit output is     *)
(* claimed at most once, because the claim's address is the output's.      *)
THEOREM NeverClaimedTwice == Spec => []NoDoubleClaim
  BY SafetyInvariant, PTL DEF SafetyInv

(* For any number of withdrawals: complete_withdrawal only records payouts *)
(* a threshold attested for that withdrawal.                               *)
THEOREM CompletionsAlwaysApproved == Spec => []CompletionsAreApproved
  BY SafetyInvariant, PTL DEF SafetyInv

-----------------------------------------------------------------------------
(* Undoing what complete_withdrawal writes gives back the pending record. *)
LEMMA CompletionUndone ==
    ASSUME NEW w \in WithdrawalType, w.status = "Pending", w.payout = ZeroPayout,
           NEW p
    PROVE  LET done == [w EXCEPT !.payout = p, !.status = "Completed"] IN
           /\ done.status = "Completed"
           /\ [done EXCEPT !.status = "Pending", !.payout = ZeroPayout] = w
  BY DEF WithdrawalType

(* No step removes a claim or changes what a withdrawal record promised or *)
(* recorded.                                                               *)
LEMMA RecordsStep ==
    ASSUME SafetyInv, [Next]_vars
    PROVE  /\ claims \subseteq claims'
           /\ \A i \in DOMAIN withdrawals :
                 /\ i \in DOMAIN withdrawals'
                 /\ withdrawals'[i] # withdrawals[i] =>
                       /\ withdrawals[i].status = "Pending"
                       /\ withdrawals'[i].status = "Completed"
                       /\ [withdrawals'[i] EXCEPT !.status = "Pending",
                                                  !.payout = ZeroPayout]
                             = withdrawals[i]
<1> DEFINE Goal ==
        /\ claims \subseteq claims'
        /\ \A i \in DOMAIN withdrawals :
              /\ i \in DOMAIN withdrawals'
              /\ withdrawals'[i] # withdrawals[i] =>
                    /\ withdrawals[i].status = "Pending"
                    /\ withdrawals'[i].status = "Completed"
                    /\ [withdrawals'[i] EXCEPT !.status = "Pending",
                                               !.payout = ZeroPayout]
                          = withdrawals[i]
<1>0. TypeInv /\ TypeOK
  BY DEF SafetyInv, TypeInv
<1>1. ASSUME NEW v \in ValidatorLists, NEW t \in Thresholds, NEW d \in Minimums,
             NEW w \in Minimums, NEW l \in Timelocks, NEW c \in Caps,
             initialize(v, t, d, w, l, c)
      PROVE  Goal
  BY <1>1 DEF initialize
<1>2. ASSUME NEW d \in Deposits, NEW e \in U64, NEW p \in Proofs,
             mint_wrapped(d.outpoint, d.amount, d.recipient, e, p)
      PROVE  Goal
  BY <1>2 DEF mint_wrapped
<1>3. ASSUME NEW u \in Wallets, NEW a \in BurnAmounts, NEW d \in Dests,
             burn_wrapped(u, a, d)
      PROVE  Goal
  <2> DEFINE n == config.withdrawal_count
  <2>1. n \in Nat
    BY <1>0, CounterStep DEF TypeOK, ConfigType
  <2>2. \A i \in 0..(n - 1) : i \in 0..n /\ i # n
    BY <2>1
  <2>3. DOMAIN withdrawals = 0..(n - 1)
    BY <1>0 DEF TypeOK
  <2>4. /\ DOMAIN withdrawals' = 0..n /\ claims' = claims
        /\ \A i \in 0..n : i # n => withdrawals'[i] = withdrawals[i]
    BY <1>3 DEF burn_wrapped
  <2> HIDE DEF n
  <2> QED
    BY <2>2, <2>3, <2>4
<1>4. ASSUME NEW i \in DOMAIN withdrawals, NEW t \in TxIds, NEW h \in Heights,
             NEW e \in U64, NEW p \in Proofs, complete_withdrawal(i, t, h, e, p)
      PROVE  Goal
  <2>1. withdrawals[i] \in WithdrawalType
    BY <1>0 DEF TypeOK
  <2>2. /\ withdrawals[i].status = "Pending" /\ withdrawals[i].payout = ZeroPayout
        /\ claims' = claims
    BY <1>4 DEF complete_withdrawal
  <2>3. /\ DOMAIN withdrawals' = DOMAIN withdrawals
        /\ \A j \in DOMAIN withdrawals : j # i => withdrawals'[j] = withdrawals[j]
        /\ withdrawals'[i] = [withdrawals[i] EXCEPT
                !.payout = [txid |-> t, height |-> h], !.status = "Completed"]
    BY <1>0, <1>4, <2>1 DEF complete_withdrawal, WithdrawalType, TypeOK
  <2>4. /\ withdrawals'[i].status = "Completed"
        /\ [withdrawals'[i] EXCEPT !.status = "Pending", !.payout = ZeroPayout]
              = withdrawals[i]
    <3> DEFINE done == [withdrawals[i] EXCEPT
                !.payout = [txid |-> t, height |-> h], !.status = "Completed"]
    <3>1. /\ done.status = "Completed"
          /\ [done EXCEPT !.status = "Pending", !.payout = ZeroPayout] = withdrawals[i]
      BY <2>1, <2>2, CompletionUndone, Zenon
    <3>2. withdrawals'[i] = done
      BY <2>3, Zenon
    <3> HIDE DEF done
    <3> QED
      BY <3>1, <3>2, Zenon
  <2> QED
    BY <2>2, <2>3, <2>4
<1>5. ASSUME execute_validator_rotation PROVE Goal
  BY <1>5 DEF execute_validator_rotation
<1>6. ASSUME NEW C \in Coalitions, NEW m \in SignableMessages, Sign(C, m)
      PROVE  Goal
  BY <1>6 DEF Sign, accounts
<1>7. ASSUME ValueQuiet PROVE Goal
  BY <1>7 DEF ValueQuiet
<1> QED
  <2> HIDE DEF Goal
  <2>1. Goal
    BY <1>0, <1>1, <1>2, <1>3, <1>4, <1>5, <1>6, <1>7, ValueCases
  <2> QED
    BY <2>1 DEF Goal

(* For any number of accounts: claims and withdrawals are never lost or    *)
(* rewritten, and completion is terminal (the status guard of              *)
(* complete_withdrawal).                                                   *)
THEOREM RecordsAlwaysPermanent == Spec => RecordsArePermanent
<1>1. SafetyInv /\ [Next]_vars =>
        [/\ claims \subseteq claims'
         /\ \A i \in DOMAIN withdrawals :
               /\ i \in DOMAIN withdrawals'
               /\ withdrawals'[i] # withdrawals[i] =>
                     /\ withdrawals[i].status = "Pending"
                     /\ withdrawals'[i].status = "Completed"
                     /\ [withdrawals'[i] EXCEPT !.status = "Pending",
                                                !.payout = ZeroPayout]
                           = withdrawals[i]]_vars
  BY RecordsStep
<1> QED
  BY <1>1, SafetyInvariant, PTL DEF Spec, RecordsArePermanent

(* A step that raises the cap executes a queued raise, approved by the     *)
(* federation that proposed it.                                            *)
LEMMA CapStep ==
    ASSUME SafetyInv, [Next]_vars, config.initialized,
           config'.max_wrapped_supply > config.max_wrapped_supply
    PROVE  /\ ApprovedBy(validatorSet,
                  raise_message(validatorSet.epoch, config'.max_wrapped_supply),
                  signatures)
           /\ now >= queued.at + config.timelock
<1>0. /\ TypeInv /\ TypeOK /\ PendingStaysExecutable /\ config \in ConfigType
      /\ config.max_wrapped_supply \in Nat
  BY CheckedArithmetic DEF SafetyInv, TypeInv, TypeOK, ConfigType
<1>1. config'.max_wrapped_supply \in Nat
  BY <1>0, TypeStep, CheckedArithmetic DEF TypeInv, TypeOK, ConfigType
<1>2. config'.max_wrapped_supply # config.max_wrapped_supply
  BY <1>0, <1>1
<1>3. config' # config
  BY <1>2
<1>4. ~GovernanceQuiet
  <2>1. GovernanceQuiet => config'.max_wrapped_supply <= config.max_wrapped_supply
    BY DEF GovernanceQuiet
  <2>2. ~(config'.max_wrapped_supply <= config.max_wrapped_supply)
    BY <1>0, <1>1
  <2> QED
    BY <2>1, <2>2
<1>5. execute_wrapped_supply_cap_raise
  BY <1>0, <1>3, <1>4, GovernanceCases
     DEF initialize, propose_validator_rotation, execute_validator_rotation,
         propose_wrapped_supply_cap_raise, cancel_validator_rotation, Sign, accounts
<1>6. config'.max_wrapped_supply = pending.new_max
  BY <1>0, <1>5 DEF execute_wrapped_supply_cap_raise, ConfigType
<1> QED
  BY <1>0, <1>5, <1>6 DEF execute_wrapped_supply_cap_raise, PendingStaysExecutable, None

(* For every federation: exposure grows only by a raise the current        *)
(* validators approved and that waited out the timelock.                   *)
THEOREM CapAlwaysGoverned == Spec => CapRisesOnlyByGovernance
<1>1. SafetyInv /\ [Next]_vars =>
        [config.initialized /\ config'.max_wrapped_supply > config.max_wrapped_supply =>
            /\ ApprovedBy(validatorSet,
                   raise_message(validatorSet.epoch, config'.max_wrapped_supply),
                   signatures)
            /\ now >= queued.at + config.timelock]_vars
  BY CapStep
<1> QED
  BY <1>1, SafetyInvariant, PTL DEF Spec, CapRisesOnlyByGovernance
=============================================================================
