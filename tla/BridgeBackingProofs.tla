------------------------- MODULE BridgeBackingProofs -------------------------
(* What the program guarantees about value, for every set of wallets and   *)
(* any number of deposits, transfers, burns and withdrawals; and what its  *)
(* composition with the token metadata adds.                               *)
EXTENDS TokenMetadata, BridgeProgramProofs, Sums

-----------------------------------------------------------------------------
(* The three totals as sums of functions.                                  *)

Amounts(cs) == [c \in cs |-> c.amount]
Requests(ws) == [i \in DOMAIN ws |-> ws[i].amount]

(* What was claimed, summed over the claim accounts. *)
LEMMA ClaimedIsSum ==
    ASSUME NEW cs
    PROVE  TotalClaimed(cs) = SumOver(Amounts(cs), cs)
<1> DEFINE a(f, s) == IF s = {} THEN 0 ELSE Pick(s).amount + f[s \ {Pick(s)}]
           b(f, s) == IF s = {} THEN 0 ELSE Amounts(cs)[Pick(s)] + f[s \ {Pick(s)}]
           A(f) == f = [s \in SUBSET cs |-> a(f, s)]
           B(f) == f = [s \in SUBSET cs |-> b(f, s)]
<1>1. ASSUME NEW f PROVE A(f) <=> B(f)
  <2>1. \A s \in SUBSET cs : s # {} => Amounts(cs)[Pick(s)] = Pick(s).amount
    BY Picked DEF Amounts
  <2>2. \A s \in SUBSET cs : a(f, s) = b(f, s)
    BY <2>1
  <2>3. [s \in SUBSET cs |-> a(f, s)] = [s \in SUBSET cs |-> b(f, s)]
    <3> HIDE DEF a, b
    <3> QED BY <2>2
  <2> QED BY <2>3
<1>2. (CHOOSE f : A(f)) = (CHOOSE f : B(f))
  <2> HIDE DEF A, B
  <2> QED BY <1>1, Zenon
<1> QED
  BY <1>2, Zenon DEF TotalClaimed, MapThenSumSet, MapThenFoldSet, Pick, SumOver, Summing, IsSum

(* What withdrawals ask for, summed over their indices. *)
LEMMA RequestedIsSum ==
    ASSUME NEW ws
    PROVE  TotalRequested(ws) = SumOver(Requests(ws), DOMAIN ws)
<1> DEFINE S == DOMAIN ws
           a(f, s) == IF s = {} THEN 0 ELSE ws[Pick(s)].amount + f[s \ {Pick(s)}]
           b(f, s) == IF s = {} THEN 0 ELSE Requests(ws)[Pick(s)] + f[s \ {Pick(s)}]
           A(f) == f = [s \in SUBSET S |-> a(f, s)]
           B(f) == f = [s \in SUBSET S |-> b(f, s)]
<1>1. ASSUME NEW f PROVE A(f) <=> B(f)
  <2>1. \A s \in SUBSET S : s # {} => Requests(ws)[Pick(s)] = ws[Pick(s)].amount
    BY Picked DEF Requests
  <2>2. \A s \in SUBSET S : a(f, s) = b(f, s)
    BY <2>1
  <2>3. [s \in SUBSET S |-> a(f, s)] = [s \in SUBSET S |-> b(f, s)]
    <3> HIDE DEF a, b
    <3> QED BY <2>2
  <2> QED BY <2>3
<1>2. (CHOOSE f : A(f)) = (CHOOSE f : B(f))
  <2> HIDE DEF A, B
  <2> QED BY <1>1, Zenon
<1> QED
  BY <1>2, Zenon
     DEF TotalRequested, MapThenSumSet, MapThenFoldSet, Pick, SumOver, Summing, IsSum

(* What is held, summed over the wallets. *)
LEMMA HeldIsSum ==
    ASSUME NEW bs
    PROVE  TotalHeld(bs) = SumOver(bs, Wallets)
  BY Zenon DEF TotalHeld, MapThenSumSet, MapThenFoldSet, Pick, SumOver, Summing, IsSum

-----------------------------------------------------------------------------
(* How the totals move.                                                    *)

(* A claim more adds its amount. *)
LEMMA ClaimAdds ==
    ASSUME NEW cs, IsFiniteSet(cs), cs \subseteq ClaimType, NEW c \in ClaimType, c \notin cs
    PROVE  /\ TotalClaimed(cs \cup {c}) = TotalClaimed(cs) + c.amount
           /\ TotalClaimed(cs) \in Nat
           /\ IsFiniteSet(cs \cup {c})
<1> DEFINE F == Amounts(cs \cup {c})
<1>1. \A x \in ClaimType : x.amount \in Nat
  <2>1. \A x \in ClaimType : x.amount \in U64
    BY DEF ClaimType
  <2>2. \A y \in U64 : y \in Nat
    BY CheckedArithmetic
  <2> QED BY <2>1, <2>2
<1>2. /\ \A x \in cs \cup {c} : F[x] = x.amount
      /\ \A x \in cs : Amounts(cs)[x] = x.amount
  BY DEF Amounts
<1>3. \A x \in cs \cup {c} : F[x] \in Int
  <2>1. \A x \in cs \cup {c} : x.amount \in Int
    BY <1>1
  <2> HIDE DEF F
  <2> QED BY <1>2, <2>1
<1>4. SumOver(F, cs \cup {c}) = F[c] + SumOver(F, cs)
  <2> HIDE DEF F
  <2> QED BY <1>3, SumAdd
<1>5. SumOver(F, cs) = SumOver(Amounts(cs), cs)
  <2> HIDE DEF F
  <2> QED BY <1>2, SumSame
<1>6. SumOver(Amounts(cs), cs) \in Nat
  <2>1. \A x \in cs : Amounts(cs)[x] \in Nat
    BY <1>1, <1>2
  <2>2. cs \in SUBSET cs
    OBVIOUS
  <2> QED BY <2>1, <2>2, SumNat
<1>7. F[c] = c.amount /\ c.amount \in Nat
  BY <1>1, <1>2
<1>8. IsFiniteSet(cs \cup {c})
  BY FS_AddElement
<1>9. TotalClaimed(cs \cup {c}) = c.amount + TotalClaimed(cs) /\ TotalClaimed(cs) \in Nat
  BY <1>4, <1>5, <1>6, <1>7, ClaimedIsSum, Zenon
<1> QED
  BY <1>7, <1>8, <1>9

(* A request more adds its amount. *)
LEMMA RequestAdds ==
    ASSUME NEW n \in U64, NEW ws \in [0..(n - 1) -> WithdrawalType],
           NEW xs \in [0..n -> WithdrawalType], \A i \in 0..(n - 1) : xs[i] = ws[i]
    PROVE  /\ TotalRequested(xs) = TotalRequested(ws) + xs[n].amount
           /\ TotalRequested(ws) \in Nat /\ xs[n].amount \in Nat
<1> DEFINE F == Requests(xs)  G == Requests(ws)  S == 0..(n - 1)
<1>0. n \in Nat
  BY CheckedArithmetic
<1>1. \A x \in WithdrawalType : x.amount \in Nat
  <2>1. \A x \in WithdrawalType : x.amount \in U64
    BY DEF WithdrawalType
  <2> QED BY <2>1, CheckedArithmetic
<1>2. /\ DOMAIN ws = S /\ DOMAIN xs = 0..n /\ 0..n = S \cup {n} /\ n \notin S
      /\ S \subseteq 0..n /\ n \in 0..n
  BY <1>0
<1>3. /\ \A i \in S : F[i] = xs[i].amount /\ G[i] = ws[i].amount /\ F[i] = G[i]
      /\ F[n] = xs[n].amount
  BY <1>2 DEF Requests
<1>4. \A i \in S \cup {n} : F[i] \in Int
  BY <1>1, <1>2, <1>3
<1>5. IsFiniteSet(S)
  BY <1>0, FS_Interval
<1>6. SumOver(F, S \cup {n}) = F[n] + SumOver(F, S)
  <2> HIDE DEF F, S
  <2> QED BY <1>2, <1>4, <1>5, SumAdd
<1>7. SumOver(F, S) = SumOver(G, S)
  <2> HIDE DEF F, G, S
  <2> QED BY <1>3, <1>5, SumSame
<1>8. SumOver(G, S) \in Nat
  <2>1. \A i \in S : G[i] \in Nat
    BY <1>1, <1>3
  <2>2. S \in SUBSET S
    OBVIOUS
  <2> HIDE DEF G, S
  <2> QED BY <1>5, <2>1, <2>2, SumNat
<1>9. TotalRequested(xs) = SumOver(F, S \cup {n}) /\ TotalRequested(ws) = SumOver(G, S)
  BY <1>2, RequestedIsSum, Zenon
<1>10. xs[n].amount \in Nat
  BY <1>1, <1>2
<1> HIDE DEF F, G, S
<1> QED
  BY <1>3, <1>6, <1>7, <1>8, <1>9, <1>10

(* A record that keeps its amount changes no total. *)
LEMMA RequestKept ==
    ASSUME NEW n \in U64, NEW ws \in [0..(n - 1) -> WithdrawalType],
           NEW xs \in [0..(n - 1) -> WithdrawalType],
           \A i \in 0..(n - 1) : xs[i].amount = ws[i].amount
    PROVE  TotalRequested(xs) = TotalRequested(ws)
<1>1. IsFiniteSet(0..(n - 1))
  <2>1. n - 1 \in Int
    BY CheckedArithmetic
  <2> QED BY <2>1, FS_Interval
<1>2. \A i \in 0..(n - 1) : Requests(xs)[i] = Requests(ws)[i]
  BY DEF Requests
<1>3. SumOver(Requests(xs), 0..(n - 1)) = SumOver(Requests(ws), 0..(n - 1))
  BY <1>1, <1>2, SumSame
<1>4. DOMAIN xs = 0..(n - 1) /\ DOMAIN ws = 0..(n - 1)
  OBVIOUS
<1> QED
  BY <1>3, <1>4, RequestedIsSum, Zenon

(* One balance changes. *)
LEMMA BalanceChanges ==
    ASSUME NEW bs \in [Wallets -> U64], NEW w \in Wallets, NEW x \in U64
    PROVE  /\ TotalHeld([bs EXCEPT ![w] = x]) = TotalHeld(bs) - bs[w] + x
           /\ TotalHeld(bs) \in Nat
<1> DEFINE cs == [bs EXCEPT ![w] = x]
<1>1. IsFiniteSet(Wallets)
  BY ProgramAssumption
<1>2. /\ \A v \in Wallets : bs[v] \in Int /\ cs[v] \in Int /\ bs[v] \in Nat
      /\ \A v \in Wallets \ {w} : bs[v] = cs[v]
      /\ cs[w] = x
  <2>1. /\ \A v \in Wallets : bs[v] \in U64 /\ cs[v] \in U64
        /\ \A v \in Wallets \ {w} : bs[v] = cs[v]
        /\ cs[w] = x
    OBVIOUS
  <2>2. \A y \in U64 : y \in Nat /\ y \in Int
    BY CheckedArithmetic
  <2> QED BY <2>1, <2>2
<1>3. SumOver(cs, Wallets) = SumOver(bs, Wallets) - bs[w] + cs[w]
  <2> HIDE DEF cs
  <2> QED BY <1>1, <1>2, SumChange
<1>4. SumOver(bs, Wallets) \in Nat
  <2>1. Wallets \in SUBSET Wallets
    OBVIOUS
  <2> QED BY <1>1, <1>2, <2>1, SumNat
<1>5. TotalHeld(cs) = TotalHeld(bs) - bs[w] + x
  BY <1>2, <1>3, HeldIsSum, Zenon
<1> QED
  BY <1>4, <1>5, HeldIsSum, Zenon

-----------------------------------------------------------------------------
(* The supply is backed.  Inductively: the claims are finitely many, so    *)
(* that they have a sum, and a new claim is none of the old ones, which is *)
(* what NoDoubleClaim's guard gives.                                       *)
BackedInv == SafetyInv /\ IsFiniteSet(claims) /\ Backed

BackingQuiet == UNCHANGED <<claims, withdrawals, balances, supply>>

(* The steps that move value; all the others leave the four alone. *)
LEMMA BackingCases ==
    ASSUME [Next]_vars
    PROVE  \/ \E d \in Deposits, e \in U64 : \E p \in Proofs :
                 mint_wrapped(d.outpoint, d.amount, d.recipient, e, p)
           \/ \E u \in Wallets, a \in BurnAmounts, d \in Dests : burn_wrapped(u, a, d)
           \/ \E i \in DOMAIN withdrawals, t \in TxIds, h \in Heights, e \in U64 :
                 \E p \in Proofs : complete_withdrawal(i, t, h, e, p)
           \/ \E f, t \in Wallets, a \in BurnAmounts : TokenTransfer(f, t, a)
           \/ \E w \in Wallets, a \in BurnAmounts : TokenBurn(w, a)
           \/ BackingQuiet
<1> USE DEF BackingQuiet, accounts, tokens, ghosts
<1>1. ASSUME Deploy PROVE BackingQuiet
  BY <1>1 DEF Deploy, initialize, create_wrapped_mint
<1>2. ASSUME Govern PROVE BackingQuiet
  BY <1>2 DEF Govern, propose_validator_rotation, execute_validator_rotation,
     propose_wrapped_supply_cap_raise, execute_wrapped_supply_cap_raise,
     cancel_validator_rotation
<1>3. ASSUME Administer PROVE BackingQuiet
  BY <1>3 DEF Administer, set_paused, lower_wrapped_supply_cap, transfer_admin, accept_admin
<1>4. ASSUME NEW C \in Coalitions, NEW m \in SignableMessages, Sign(C, m) PROVE BackingQuiet
  BY <1>4 DEF Sign
<1>5. ASSUME NEW w \in Wallets, CreateAta(w) PROVE BackingQuiet
  BY <1>5 DEF CreateAta
<1>6. ASSUME Tick PROVE BackingQuiet
  BY <1>6 DEF Tick
<1>7. ASSUME UNCHANGED vars PROVE BackingQuiet
  BY <1>7 DEF vars
<1> HIDE DEF BackingQuiet
<1> QED
  BY <1>1, <1>2, <1>3, <1>4, <1>5, <1>6, <1>7 DEF Next, MoveValue, Environment

(* The supply and each wallet's balance, typed. *)
LEMMA TokenTypes ==
    ASSUME TypeOK
    PROVE  /\ supply \in Nat /\ balances \in [Wallets -> U64]
           /\ \A w \in Wallets : balances[w] \in Nat
           /\ BurnAmounts \subseteq Nat /\ BurnAmounts \subseteq U64
<1>1. \A y \in U64 : y \in Nat
  BY CheckedArithmetic
<1> QED
  BY <1>1, ProgramAssumption DEF TypeOK

(* Burning takes the same from a wallet and from the supply. *)
LEMMA BurnKeepsBalance ==
    ASSUME TypeOK, NEW u \in Wallets, NEW a \in BurnAmounts, TokenBurnFrom(u, a),
           supply = TotalHeld(balances)
    PROVE  supply' = TotalHeld(balances') /\ supply' = supply - a /\ a \in Nat
<1>1. a \in Nat /\ balances[u] \in Nat /\ balances \in [Wallets -> U64] /\ a \in U64
  BY TokenTypes
<1>2. a <= balances[u] /\ supply' = supply - a
      /\ balances' = [balances EXCEPT ![u] = balances[u] - a]
  BY DEF TokenBurnFrom
<1>3. balances[u] - a \in U64
  BY <1>1, <1>2, CheckedArithmetic
<1>4. /\ TotalHeld(balances') = TotalHeld(balances) - balances[u] + (balances[u] - a)
      /\ TotalHeld(balances) \in Nat
  BY <1>1, <1>2, <1>3, BalanceChanges, Zenon
<1> QED
  BY <1>1, <1>2, <1>4

(* Every step keeps the supply backed. *)
LEMMA BackedStep ==
    ASSUME BackedInv, [Next]_vars
    PROVE  IsFiniteSet(claims') /\ Backed'
<1>0. /\ TypeOK /\ TypeOK' /\ IsFiniteSet(claims) /\ claims \subseteq ClaimType
      /\ supply \in Nat /\ supply = TotalHeld(balances)
      /\ supply + TotalRequested(withdrawals) <= TotalClaimed(claims)
  BY TypeStep, TokenTypes DEF BackedInv, SafetyInv, TypeInv, Backed, TypeOK
<1> DEFINE n == config.withdrawal_count
<1>n. n \in U64 /\ withdrawals \in [0..(n - 1) -> WithdrawalType]
  BY <1>0 DEF TypeOK, ConfigType
<1>m. /\ n \in Nat /\ n - 1 \in Int /\ n \in 0..n
      /\ \A i \in 0..(n - 1) : i \in 0..n /\ i # n
  <2> HIDE DEF n
  <2>1. n \in Nat
    BY <1>n, CheckedArithmetic
  <2> QED BY <2>1
<1>t. TotalRequested(withdrawals) \in Nat /\ TotalClaimed(claims) \in Nat
  <2>1. TotalClaimed(claims) \in Nat
    <3>1. \A x \in claims : Amounts(claims)[x] \in Nat
      <4>1. \A x \in claims : Amounts(claims)[x] = x.amount /\ x.amount \in U64
        BY <1>0 DEF Amounts, ClaimType
      <4>2. \A y \in U64 : y \in Nat
        BY CheckedArithmetic
      <4> QED BY <4>1, <4>2
    <3>2. claims \in SUBSET claims
      OBVIOUS
    <3>3. SumOver(Amounts(claims), claims) \in Nat
      BY <1>0, <3>1, <3>2, SumNat
    <3> QED BY <3>3, ClaimedIsSum
  <2>2. TotalRequested(withdrawals) \in Nat
    <3>1. DOMAIN withdrawals = 0..(n - 1) /\ IsFiniteSet(0..(n - 1))
      BY <1>n, <1>m, FS_Interval
    <3>2. \A i \in DOMAIN withdrawals : Requests(withdrawals)[i] \in Nat
      <4>1. \A i \in DOMAIN withdrawals : /\ Requests(withdrawals)[i] = withdrawals[i].amount
                                          /\ withdrawals[i].amount \in U64
        BY <1>n DEF Requests, WithdrawalType
      <4>2. \A y \in U64 : y \in Nat
        BY CheckedArithmetic
      <4> QED BY <4>1, <4>2
    <3>3. DOMAIN withdrawals \in SUBSET (DOMAIN withdrawals) /\ IsFiniteSet(DOMAIN withdrawals)
      BY <3>1
    <3>4. SumOver(Requests(withdrawals), DOMAIN withdrawals) \in Nat
      BY <3>2, <3>3, SumNat
    <3> QED BY <3>4, RequestedIsSum
  <2> QED BY <2>1, <2>2
<1>1. ASSUME NEW d \in Deposits, NEW e \in U64, NEW p \in Proofs,
             mint_wrapped(d.outpoint, d.amount, d.recipient, e, p)
      PROVE  IsFiniteSet(claims') /\ Backed'
  <2> DEFINE a == d.amount  w == d.recipient
             c == [outpoint |-> d.outpoint, amount |-> a, recipient |-> w,
                   epoch |-> validatorSet.epoch]
  <2>1. a \in U64 /\ a \in Nat /\ w \in Wallets /\ d.outpoint \in Outpoints
    <3>1. a \in U64 /\ w \in Wallets /\ d.outpoint \in Outpoints
      BY ProgramAssumption
    <3> QED BY <3>1, CheckedArithmetic
  <2>2. c \in ClaimType /\ c.amount = a /\ c.outpoint = d.outpoint
    BY <1>0, <2>1 DEF ClaimType, TypeOK
  <2>3. /\ ~ClaimExists(d.outpoint) /\ claims' = claims \cup {c}
        /\ withdrawals' = withdrawals /\ supply' = supply + a
        /\ balances' = [balances EXCEPT ![w] = balances[w] + a]
        /\ balances[w] + a <= U64Max
    BY <1>1 DEF mint_wrapped, TokenMintTo
  <2>4. c \notin claims
    BY <2>2, <2>3 DEF ClaimExists
  <2>5. /\ TotalClaimed(claims') = TotalClaimed(claims) + a
        /\ IsFiniteSet(claims')
    <3> HIDE DEF c
    <3> QED BY <1>0, <2>2, <2>3, <2>4, ClaimAdds
  <2>6. balances[w] \in U64 /\ balances[w] + a \in U64 /\ balances \in [Wallets -> U64]
        /\ balances[w] \in Nat
    BY <1>0, <2>1, <2>3, CheckedArithmetic, TokenTypes DEF TypeOK
  <2>7. TotalHeld(balances') = TotalHeld(balances) - balances[w] + (balances[w] + a)
    BY <2>1, <2>3, <2>6, BalanceChanges, Zenon
  <2>8. supply' = TotalHeld(balances')
    BY <1>0, <2>1, <2>3, <2>6, <2>7
  <2>9. supply' + TotalRequested(withdrawals') <= TotalClaimed(claims')
    <3>1. supply' + TotalRequested(withdrawals') = (supply + TotalRequested(withdrawals)) + a
      BY <1>0, <1>t, <2>1, <2>3
    <3> QED BY <1>0, <1>t, <2>1, <2>5, <3>1
  <2> QED BY <2>5, <2>8, <2>9 DEF Backed
<1>2. ASSUME NEW u \in Wallets, NEW a \in BurnAmounts, NEW d \in Dests,
             burn_wrapped(u, a, d)
      PROVE  IsFiniteSet(claims') /\ Backed'
  <2>1. TokenBurnFrom(u, a) /\ claims' = claims
    BY <1>2 DEF burn_wrapped
  <2>2. supply' = TotalHeld(balances') /\ supply' = supply - a /\ a \in Nat
    BY <1>0, <2>1, BurnKeepsBalance
  <2>3. /\ DOMAIN withdrawals' = 0..n /\ withdrawals'[n].amount = a
        /\ \A i \in 0..n : i # n => withdrawals'[i] = withdrawals[i]
    BY <1>2, <1>m DEF burn_wrapped
  <2>4. withdrawals' \in [0..n -> WithdrawalType]
    <3>1. config'.withdrawal_count = n + 1
      BY <1>0, <1>2 DEF burn_wrapped, ConfigType, TypeOK
    <3>2. 0..(config'.withdrawal_count - 1) = 0..n
      BY <1>n, <3>1, CounterStep
    <3>3. withdrawals' \in [0..(config'.withdrawal_count - 1) -> WithdrawalType]
      BY <1>0 DEF TypeOK
    <3> QED BY <3>2, <3>3, Zenon
  <2>5. \A i \in 0..(n - 1) : withdrawals'[i] = withdrawals[i]
    BY <2>3, <1>m
  <2>6. TotalRequested(withdrawals') = TotalRequested(withdrawals) + withdrawals'[n].amount
    <3> HIDE DEF n
    <3> QED BY <1>n, <2>4, <2>5, RequestAdds, Zenon
  <2>7. TotalRequested(withdrawals') = TotalRequested(withdrawals) + a
    BY <2>3, <2>6
  <2>8. supply' + TotalRequested(withdrawals') <= TotalClaimed(claims')
    BY <1>0, <1>t, <2>1, <2>2, <2>7
  <2> QED BY <1>0, <2>1, <2>2, <2>8 DEF Backed
<1>3. ASSUME NEW i \in DOMAIN withdrawals, NEW t \in TxIds, NEW h \in Heights,
             NEW e \in U64, NEW p \in Proofs, complete_withdrawal(i, t, h, e, p)
      PROVE  IsFiniteSet(claims') /\ Backed'
  <2>1. claims' = claims /\ balances' = balances /\ supply' = supply /\ config' = config
    BY <1>3 DEF complete_withdrawal, tokens
  <2>2. withdrawals' \in [0..(n - 1) -> WithdrawalType]
    BY <1>0, <2>1 DEF TypeOK
  <2>3. \A j \in 0..(n - 1) : withdrawals'[j].amount = withdrawals[j].amount
    <3>1. withdrawals[i] \in WithdrawalType
      BY <1>n
    <3>2. \A j \in 0..(n - 1) : withdrawals'[j] = IF j = i
             THEN [withdrawals[i] EXCEPT !.payout = [txid |-> t, height |-> h],
                                         !.status = "Completed"]
             ELSE withdrawals[j]
      BY <1>n, <1>3, <3>1 DEF complete_withdrawal, WithdrawalType
    <3>3. [withdrawals[i] EXCEPT !.payout = [txid |-> t, height |-> h],
                                 !.status = "Completed"].amount = withdrawals[i].amount
      BY <3>1 DEF WithdrawalType
    <3> QED BY <3>2, <3>3
  <2>4. TotalRequested(withdrawals') = TotalRequested(withdrawals)
    <3> HIDE DEF n
    <3> QED BY <1>n, <2>2, <2>3, RequestKept, Zenon
  <2> QED BY <1>0, <2>1, <2>4 DEF Backed
<1>4. ASSUME NEW f \in Wallets, NEW t \in Wallets, NEW a \in BurnAmounts, TokenTransfer(f, t, a)
      PROVE  IsFiniteSet(claims') /\ Backed'
  <2>1. claims' = claims /\ withdrawals' = withdrawals /\ supply' = supply
    BY <1>4 DEF TokenTransfer, accounts
  <2> DEFINE bs == [balances EXCEPT ![f] = balances[f] - a]
  <2>2. /\ f # t /\ a <= balances[f] /\ balances[t] + a <= U64Max
        /\ balances' = [bs EXCEPT ![t] = balances[t] + a]
    BY <1>0, <1>4 DEF TokenTransfer, TypeOK
  <2>3. /\ balances \in [Wallets -> U64] /\ balances[f] \in U64 /\ balances[t] \in U64
        /\ a \in U64 /\ a \in Nat /\ balances[f] \in Nat /\ balances[t] \in Nat
    BY <1>0, TokenTypes
  <2>4. balances[f] - a \in U64 /\ balances[t] + a \in U64
    BY <2>2, <2>3, CheckedArithmetic
  <2>5. /\ TotalHeld(bs) = TotalHeld(balances) - balances[f] + (balances[f] - a)
        /\ TotalHeld(balances) \in Nat
    BY <2>3, <2>4, BalanceChanges, Zenon
  <2>6. bs \in [Wallets -> U64] /\ bs[t] = balances[t]
    BY <2>2, <2>3, <2>4
  <2>7. TotalHeld(balances') = TotalHeld(bs) - bs[t] + (balances[t] + a)
    <3> HIDE DEF bs
    <3> QED BY <2>2, <2>4, <2>6, BalanceChanges, Zenon
  <2>8. TotalHeld(balances') = TotalHeld(balances)
    <3> HIDE DEF bs
    <3> QED BY <2>3, <2>5, <2>6, <2>7
  <2> QED BY <1>0, <2>1, <2>8 DEF Backed
<1>5. ASSUME NEW w \in Wallets, NEW a \in BurnAmounts, TokenBurn(w, a)
      PROVE  IsFiniteSet(claims') /\ Backed'
  <2>1. TokenBurnFrom(w, a) /\ claims' = claims /\ withdrawals' = withdrawals
    BY <1>5 DEF TokenBurn, accounts
  <2>2. supply' = TotalHeld(balances') /\ supply' = supply - a /\ a \in Nat
    BY <1>0, <2>1, BurnKeepsBalance
  <2>3. supply' + TotalRequested(withdrawals') <= TotalClaimed(claims')
    BY <1>0, <1>t, <2>1, <2>2
  <2> QED BY <1>0, <2>1, <2>2, <2>3 DEF Backed
<1>6. ASSUME BackingQuiet PROVE IsFiniteSet(claims') /\ Backed'
  <2>1. claims' = claims /\ withdrawals' = withdrawals /\ balances' = balances /\ supply' = supply
    BY <1>6 DEF BackingQuiet
  <2> QED BY <1>0, <2>1 DEF Backed
<1> QED
  BY <1>1, <1>2, <1>3, <1>4, <1>5, <1>6, BackingCases

(* Before the first deposit there is nothing to back. *)
LEMMA BackedInit == Init => IsFiniteSet(claims) /\ Backed
<1> SUFFICES ASSUME Init PROVE IsFiniteSet(claims) /\ Backed
  OBVIOUS
<1>1. claims = {} /\ withdrawals = <<>> /\ supply = 0 /\ balances = [w \in Wallets |-> 0]
  BY DEF Init
<1>2. TotalClaimed({}) = 0
  BY ClaimedIsSum, SumEmpty
<1>3. DOMAIN <<>> = {}
  OBVIOUS
<1>4. TotalRequested(<<>>) = 0
  BY <1>3, RequestedIsSum, SumEmpty
<1>5. SumOver([w \in Wallets |-> 0], Wallets) = 0
  <2> DEFINE F == [w \in Wallets |-> 0]
  <2>1. IsFiniteSet(Wallets) /\ \A w \in Wallets : F[w] \in Int /\ F[w] = 0
    BY ProgramAssumption
  <2>2. \A x \in SUBSET Wallets : SumOver(F, x) = 0
    <3> DEFINE Bad == {x \in SUBSET Wallets : SumOver(F, x) # 0}
    <3>0. SUFFICES ASSUME Bad # {} PROVE FALSE
      OBVIOUS
    <3>1. PICK x \in Bad : \A y \in Bad : y \subseteq x => y = x
      <4>1. Bad \subseteq SUBSET Wallets
        OBVIOUS
      <4> HIDE DEF Bad
      <4> QED BY <2>1, <3>0, <4>1, MinimalSubset
    <3>2. x # {} /\ x \in SUBSET Wallets /\ SumOver(F, x) # 0
      BY <3>1, SumEmpty
    <3>3. PICK w \in x : w \in Wallets
      BY <3>2
    <3>4. x \ {w} \notin Bad
      BY <3>1, <3>3
    <3>5. SumOver(F, x \ {w}) = 0
      BY <3>2, <3>4
    <3> HIDE DEF F
    <3>6. IsFiniteSet(x) /\ \A y \in x : F[y] \in Int
      BY <2>1, <3>2, FS_Subset
    <3>7. SumOver(F, x) = F[w] + SumOver(F, x \ {w})
      BY <3>3, <3>6, SumTake
    <3> QED BY <2>1, <3>2, <3>3, <3>5, <3>7
  <2> HIDE DEF F
  <2>3. Wallets \in SUBSET Wallets
    OBVIOUS
  <2>4. SumOver(F, Wallets) = 0
    BY <2>2, <2>3
  <2> QED BY <2>4 DEF F
<1>6. TotalHeld(balances) = 0
  BY <1>1, <1>5, HeldIsSum
<1>7. IsFiniteSet(claims)
  BY <1>1, FS_EmptySet
<1> QED
  BY <1>1, <1>2, <1>4, <1>6, <1>7 DEF Backed

(* The invariant with the sums holds always. *)
LEMMA BackedAlways == Spec => []BackedInv
<1>1. Init => BackedInv
  BY SafetyInit, BackedInit DEF BackedInv
<1>2. BackedInv /\ [Next]_vars => BackedInv'
  <2> SUFFICES ASSUME BackedInv, [Next]_vars PROVE BackedInv'
    OBVIOUS
  <2>1. SafetyInv'
    BY TypeStep, UsableStep, PendingStep, ChainStep, ClaimsStep, CompletionsStep
       DEF BackedInv, SafetyInv
  <2> QED
    BY <2>1, BackedStep DEF BackedInv
<1> QED
  BY <1>1, <1>2, PTL DEF Spec

(* Threat-model invariant 1 for every federation, any set of wallets and   *)
(* any number of claims, transfers, burns and withdrawals: the supply and  *)
(* the payout obligations never exceed what was claimed, and balances and  *)
(* supply never drift apart.                                               *)
THEOREM SupplyIsBacked == Spec => []Backed
<1>1. BackedInv => Backed
  BY DEF BackedInv
<1> QED
  BY <1>1, BackedAlways, PTL

-----------------------------------------------------------------------------
(* What one step may do with value.                                        *)
ValueMove ==
    /\ config.paused => claims' = claims /\ withdrawals' = withdrawals
    /\ supply' > supply =>
          /\ supply' <= config.max_wrapped_supply
          /\ \E c \in claims' \ claims : supply' - supply = c.amount

(* Only mint_wrapped adds to the supply, and it looks at the pause, at the *)
(* cap and for the claim before it does.                                   *)
LEMMA ValueStep ==
    ASSUME TypeOK, [Next]_vars PROVE ValueMove
<1>0. supply \in Nat /\ BurnAmounts \subseteq Nat
  BY TokenTypes
<1>1. ASSUME NEW d \in Deposits, NEW e \in U64, NEW p \in Proofs,
             mint_wrapped(d.outpoint, d.amount, d.recipient, e, p)
      PROVE  ValueMove
  <2> DEFINE a == d.amount
             c == [outpoint |-> d.outpoint, amount |-> a, recipient |-> d.recipient,
                   epoch |-> validatorSet.epoch]
  <2>1. a \in Nat
    <3>1. a \in U64
      BY ProgramAssumption
    <3> QED BY <3>1, CheckedArithmetic
  <2>2. /\ ~config.paused /\ ~ClaimExists(d.outpoint) /\ claims' = claims \cup {c}
        /\ supply' = supply + a /\ supply + a <= config.max_wrapped_supply
    BY <1>1 DEF mint_wrapped, TokenMintTo
  <2>3. c \in claims' \ claims /\ c.amount = a
    BY <2>2 DEF ClaimExists
  <2>4. supply' - supply = a
    BY <1>0, <2>1, <2>2
  <2> QED
    <3> HIDE DEF c
    <3> QED BY <2>2, <2>3, <2>4 DEF ValueMove
<1>2. ASSUME NEW u \in Wallets, NEW a \in BurnAmounts, NEW d \in Dests,
             burn_wrapped(u, a, d)
      PROVE  ValueMove
  BY <1>0, <1>2 DEF burn_wrapped, TokenBurnFrom, ValueMove
<1>3. ASSUME NEW i \in DOMAIN withdrawals, NEW t \in TxIds, NEW h \in Heights,
             NEW e \in U64, NEW p \in Proofs, complete_withdrawal(i, t, h, e, p)
      PROVE  ValueMove
  BY <1>0, <1>3 DEF complete_withdrawal, tokens, ValueMove
<1>4. ASSUME NEW f \in Wallets, NEW t \in Wallets, NEW a \in BurnAmounts, TokenTransfer(f, t, a)
      PROVE  ValueMove
  BY <1>0, <1>4 DEF TokenTransfer, accounts, ValueMove
<1>5. ASSUME NEW w \in Wallets, NEW a \in BurnAmounts, TokenBurn(w, a)
      PROVE  ValueMove
  BY <1>0, <1>5 DEF TokenBurn, TokenBurnFrom, accounts, ValueMove
<1>6. ASSUME BackingQuiet PROVE ValueMove
  BY <1>0, <1>6 DEF BackingQuiet, ValueMove
<1> QED
  BY <1>1, <1>2, <1>3, <1>4, <1>5, <1>6, BackingCases

(* For every federation: no instruction mints past the cap in force, or    *)
(* without a claim of its own, or moves anything across the bridge while   *)
(* it is paused.                                                           *)
THEOREM ValueAlwaysWithinLimits == Spec => ValueMovesWithinLimits
<1>1. TypeOK /\ [Next]_vars =>
        [/\ config.paused => claims' = claims /\ withdrawals' = withdrawals
         /\ supply' > supply =>
               /\ supply' <= config.max_wrapped_supply
               /\ \E c \in claims' \ claims : supply' - supply = c.amount]_vars
  BY ValueStep DEF ValueMove
<1> QED
  BY <1>1, TypeCorrect, PTL DEF Spec, ValueMovesWithinLimits

-----------------------------------------------------------------------------
(* The composition with the token metadata.                                *)

(* A metadata instruction touches no account of the bridge, so whatever    *)
(* holds of the program alone holds of the program with its metadata.      *)
THEOREM MetadataKeepsProgram == MetadataSpec => Spec
<1>1. MetadataInit => Init
  BY DEF MetadataInit
<1>2. [MetadataNext]_<<vars, metadata, writes>> => [Next]_vars
  BY DEF MetadataNext, metadataVars
<1> QED
  BY <1>1, <1>2, PTL DEF MetadataSpec, Spec

(* The one change an existing name may undergo. *)
Renaming ==
    metadata.exists /\ metadata' # metadata =>
        \E w \in writes \ writes' :
           /\ w.ix = "update" /\ w.by = config.admin
           /\ metadata' = Shown(w.name, w.uri)

(* For any set of names, admins and writes in flight: what wallets show    *)
(* changes only by an update of the admin of the moment, never by a late   *)
(* creation or by what an admin sent who has handed over.                  *)
THEOREM RenamesAlwaysTheAdmins == MetadataSpec => RenamesAreTheAdmins
<1>1. [MetadataNext]_<<vars, metadata, writes>> => [Renaming]_<<vars, metadata, writes>>
  <2> SUFFICES ASSUME [MetadataNext]_<<vars, metadata, writes>>,
                      metadata.exists, metadata' # metadata
               PROVE  \E w \in writes \ writes' :
                         /\ w.ix = "update" /\ w.by = config.admin
                         /\ metadata' = Shown(w.name, w.uri)
    BY DEF Renaming
  <2>1. PICK w \in writes : Lands(w)
    BY DEF MetadataNext, metadataVars, MetadataStep, token_metadata, update_command,
       Send, Expires
  <2>2. update_token_metadata(w)
    BY <2>1 DEF Lands, create_token_metadata
  <2> QED
    BY <2>1, <2>2 DEF Lands, update_token_metadata, MayWrite
<1>2. [][MetadataNext]_<<vars, metadata, writes>> => [][Renaming]_<<vars, metadata, writes>>
  BY <1>1, PTL
<1> QED
  BY <1>2 DEF MetadataSpec, RenamesAreTheAdmins, Renaming
-----------------------------------------------------------------------------
(* The program implements the ledger.                                      *)

(* What the ledger counts as held is the supply. *)
LEMMA LedgerHeld == ASSUME BackedInv PROVE Ledger!Held(balances) = supply
<1>1. Ledger!Held(balances) = TotalHeld(balances)
  BY Zenon DEF Ledger!Held, TotalHeld, Ledger!MapThenSumSet, Ledger!MapThenFoldSet,
     MapThenSumSet, MapThenFoldSet
<1> QED
  BY <1>1 DEF BackedInv, Backed

LEMMA LedgerInit == Init => Ledger!Init
<1> SUFFICES ASSUME Init PROVE Ledger!Init
  OBVIOUS
<1>1. claims = {} /\ withdrawals = <<>> /\ balances = [w \in Wallets |-> 0]
  BY DEF Init
<1>2. credited = {} /\ DOMAIN owed = {}
  BY <1>1 DEF credited, owed
<1> QED
  BY <1>1, <1>2 DEF Ledger!Init

(* A mint credits its output. *)
LEMMA MintIsCredit ==
    ASSUME BackedInv, NEW d \in Deposits, NEW e \in U64, NEW p \in Proofs,
           mint_wrapped(d.outpoint, d.amount, d.recipient, e, p)
    PROVE  Ledger!Credit(d.outpoint, d.amount, d.recipient)
<1> DEFINE c == [outpoint |-> d.outpoint, amount |-> d.amount, recipient |-> d.recipient,
                 epoch |-> validatorSet.epoch]
           k == [outpoint |-> d.outpoint, amount |-> d.amount, recipient |-> d.recipient]
<1>1. /\ ~config.paused /\ ~ClaimExists(d.outpoint) /\ claims' = claims \cup {c}
      /\ supply + d.amount <= config.max_wrapped_supply
      /\ balances' = [balances EXCEPT ![d.recipient] = @ + d.amount]
      /\ config' = config /\ withdrawals' = withdrawals
  BY DEF mint_wrapped, TokenMintTo
<1>2. credited' = credited \cup {k}
  <2> DEFINE Entry(x) == [outpoint |-> x.outpoint, amount |-> x.amount,
                          recipient |-> x.recipient]
  <2>1. credited = {Entry(x) : x \in claims} /\ credited' = {Entry(x) : x \in claims \cup {c}}
    BY <1>1 DEF credited
  <2>2. Entry(c) = k
    OBVIOUS
  <2> HIDE DEF Entry, c, k
  <2> QED BY <2>1, <2>2
<1>3. \A x \in credited : x.outpoint # d.outpoint
  BY <1>1 DEF credited, ClaimExists
<1>4. owed' = owed
  BY <1>1 DEF owed
<1>5. Ledger!Held(balances) + d.amount <= config.max_wrapped_supply
  BY <1>1, LedgerHeld
<1> QED
  BY <1>1, <1>2, <1>3, <1>4, <1>5 DEF Ledger!Credit

(* A burn owes what it asks for. *)
LEMMA BurnIsRedeem ==
    ASSUME BackedInv, NEW u \in Wallets, NEW a \in BurnAmounts, NEW d \in Dests,
           burn_wrapped(u, a, d)
    PROVE  /\ config.withdrawal_count \in U64 \ DOMAIN owed
           /\ Ledger!Redeem(config.withdrawal_count, u, a, d)
<1> DEFINE n == config.withdrawal_count
           new == [amount |-> a, requester |-> u, dest |-> d, status |-> "Pending",
                   payout |-> ZeroPayout]
<1>1. /\ ~config.paused /\ n + 1 <= U64Max /\ a <= balances[u]
      /\ balances' = [balances EXCEPT ![u] = @ - a]
      /\ withdrawals' = [i \in 0..n |-> IF i = n THEN new ELSE withdrawals[i]]
      /\ config' = [config EXCEPT !.withdrawal_count = @ + 1] /\ claims' = claims
  BY DEF burn_wrapped, TokenBurnFrom
<1>2. n \in U64 /\ n \in Nat /\ U64Max \in Nat /\ DOMAIN withdrawals = 0..(n - 1) /\ config \in ConfigType
  BY ProgramAssumption DEF BackedInv, SafetyInv, TypeInv, TypeOK, ConfigType, U64
<1>3. config'.paused = config.paused /\ config'.max_wrapped_supply = config.max_wrapped_supply
  BY <1>1, <1>2 DEF ConfigType
<1> HIDE DEF n
<1>4. 0..n = DOMAIN withdrawals \cup {n} /\ n \notin DOMAIN withdrawals
  BY <1>2
<1>5. DOMAIN owed = DOMAIN withdrawals
  BY DEF owed
<1>6. owed' = [j \in DOMAIN owed \cup {n} |->
                 IF j = n THEN [amount |-> a, owner |-> u, dest |-> d, payout |-> ZeroPayout]
                 ELSE owed[j]]
  <2>1. DOMAIN withdrawals' = DOMAIN owed \cup {n}
    BY <1>1, <1>4, <1>5
  <2>2. \A j \in DOMAIN owed \cup {n} :
          withdrawals'[j] = IF j = n THEN new ELSE withdrawals[j]
    BY <1>1, <1>4, <1>5
  <2> QED BY <1>4, <1>5, <2>1, <2>2 DEF owed
<1>7. credited' = credited
  BY <1>1 DEF credited
<1>8. Ledger!Redeem(n, u, a, d)
  BY <1>1, <1>3, <1>6, <1>7 DEF Ledger!Redeem
<1> QED
  BY <1>2, <1>4, <1>5, <1>8 DEF n

(* A completion settles what is owed. *)
LEMMA CompletionIsSettle ==
    ASSUME BackedInv, NEW i \in DOMAIN withdrawals, NEW t \in TxIds, NEW h \in Heights,
           NEW e \in U64, NEW p \in Proofs, complete_withdrawal(i, t, h, e, p)
    PROVE  /\ i \in DOMAIN owed /\ [txid |-> t, height |-> h] \in [txid : TxIds, height : U64] \ {ZeroPayout}
           /\ Ledger!Settle(i, [txid |-> t, height |-> h])
<1> DEFINE x == [txid |-> t, height |-> h]
<1>1. /\ ~config.paused /\ withdrawals[i].payout = ZeroPayout /\ t # ZeroTxId
      /\ withdrawals' = [withdrawals EXCEPT ![i].payout = x, ![i].status = "Completed"]
      /\ config' = config /\ claims' = claims /\ balances' = balances
  BY DEF complete_withdrawal, tokens
<1>2. withdrawals \in [0..(config.withdrawal_count - 1) -> WithdrawalType]
  BY DEF BackedInv, SafetyInv, TypeInv, TypeOK
<1>3. h \in U64
  BY ProgramAssumption
<1>4. x # ZeroPayout /\ x \in [txid : TxIds, height : U64]
  BY <1>1, <1>3 DEF ZeroPayout
<1> HIDE DEF x
<1>5. DOMAIN withdrawals' = DOMAIN withdrawals
      /\ \A j \in DOMAIN withdrawals :
            withdrawals'[j] = IF j = i
                              THEN [withdrawals[i] EXCEPT !.payout = x, !.status = "Completed"]
                              ELSE withdrawals[j]
  BY <1>1, <1>2
<1>6. /\ withdrawals'[i].amount = withdrawals[i].amount
      /\ withdrawals'[i].requester = withdrawals[i].requester
      /\ withdrawals'[i].dest = withdrawals[i].dest
      /\ withdrawals'[i].payout = x
  BY <1>2, <1>5 DEF WithdrawalType
<1>7. /\ DOMAIN owed' = DOMAIN owed /\ DOMAIN owed = DOMAIN withdrawals
      /\ \A j \in DOMAIN owed :
            owed'[j] = IF j = i THEN [owed[i] EXCEPT !.payout = x] ELSE owed[j]
  BY <1>5, <1>6 DEF owed
<1>8. owed' = [owed EXCEPT ![i].payout = x] /\ owed[i].payout = ZeroPayout
  <2>1. owed' = [j \in DOMAIN owed' |-> owed'[j]]
    BY DEF owed
  <2>2. owed = [j \in DOMAIN owed |-> owed[j]]
    BY DEF owed
  <2>3. owed[i].payout = ZeroPayout
    BY <1>1 DEF owed
  <2>4. \A f, g, y : /\ f = [j \in DOMAIN f |-> f[j]] /\ DOMAIN g = DOMAIN f
                     /\ g = [j \in DOMAIN g |-> g[j]]
                     /\ \A j \in DOMAIN f : g[j] = IF j = i THEN y ELSE f[j]
                     => g = [f EXCEPT ![i] = y]
    OBVIOUS
  <2> QED BY <1>7, <2>1, <2>2, <2>3, <2>4
<1>9. credited' = credited
  BY <1>1 DEF credited
<1>10. Ledger!Settle(i, x)
  BY <1>1, <1>8, <1>9 DEF Ledger!Settle
<1> QED
  BY <1>4, <1>7, <1>10 DEF x

(* Every step of the program is a step of the ledger. *)
LEMMA StepIsLedgers ==
    ASSUME BackedInv, [Next]_vars PROVE [Ledger!Next]_(Ledger!ledgerVars)
<1>0. BurnAmounts \subseteq Nat /\ BurnAmounts \subseteq U64
  BY TokenTypes DEF BackedInv, SafetyInv, TypeInv
<1>1. ASSUME NEW d \in Deposits, NEW e \in U64, NEW p \in Proofs,
             mint_wrapped(d.outpoint, d.amount, d.recipient, e, p)
      PROVE  Ledger!Next
  <2>1. d.outpoint \in Outpoints /\ d.amount \in U64 /\ d.recipient \in Wallets
    BY ProgramAssumption
  <2>2. d.amount > 0
    BY <1>1 DEF mint_wrapped
  <2>3. d.amount \in U64 \ {0}
    BY <2>1, <2>2
  <2>4. Ledger!Credit(d.outpoint, d.amount, d.recipient)
    BY <1>1, MintIsCredit
  <2> QED BY <2>1, <2>3, <2>4 DEF Ledger!Next
<1>2. ASSUME NEW u \in Wallets, NEW a \in BurnAmounts, NEW d \in Dests, burn_wrapped(u, a, d)
      PROVE  Ledger!Next
  <2>1. a \in U64 \ {0}
    BY <1>0, <1>2 DEF burn_wrapped
  <2> QED BY <1>2, <2>1, BurnIsRedeem DEF Ledger!Next
<1>3. ASSUME NEW i \in DOMAIN withdrawals, NEW t \in TxIds, NEW h \in Heights, NEW e \in U64,
             NEW p \in Proofs, complete_withdrawal(i, t, h, e, p)
      PROVE  Ledger!Next
  BY <1>3, CompletionIsSettle DEF Ledger!Next
<1>4. ASSUME NEW f \in Wallets, NEW t \in Wallets, NEW a \in BurnAmounts, TokenTransfer(f, t, a)
      PROVE  Ledger!Next
  <2>1. a \in U64 \ {0} /\ f # t /\ a <= balances[f]
        /\ balances' = [balances EXCEPT ![f] = @ - a, ![t] = @ + a]
        /\ claims' = claims /\ withdrawals' = withdrawals /\ config' = config
    BY <1>0, <1>4 DEF TokenTransfer, accounts
  <2>2. Ledger!Transfer(f, t, a)
    BY <2>1 DEF Ledger!Transfer, credited, owed
  <2> QED BY <2>1, <2>2 DEF Ledger!Next
<1>5. ASSUME NEW w \in Wallets, NEW a \in BurnAmounts, TokenBurn(w, a)
      PROVE  Ledger!Next
  <2>1. a \in U64 \ {0} /\ a <= balances[w] /\ balances' = [balances EXCEPT ![w] = @ - a]
        /\ claims' = claims /\ withdrawals' = withdrawals /\ config' = config
    BY <1>0, <1>5 DEF TokenBurn, TokenBurnFrom, accounts
  <2>2. Ledger!Destroy(w, a)
    BY <2>1 DEF Ledger!Destroy, credited, owed
  <2> QED BY <2>1, <2>2 DEF Ledger!Next
<1>6. ASSUME BackingQuiet PROVE Ledger!Next
  BY <1>6 DEF BackingQuiet, Ledger!Next, Ledger!LimitsChange, credited, owed
<1> QED
  BY <1>1, <1>2, <1>3, <1>4, <1>5, <1>6, BackingCases

(* The program implements the ledger for every federation, whatever is     *)
(* signed, replayed and governed, and however the cap and the pause change *)
(* between two movements.  That the cap bounds what holders have, and not  *)
(* only the mint's counter, rests on Backed.                               *)
THEOREM LedgerAlwaysKept == Spec => LedgerIsKept
<1>1. BackedInv /\ [Next]_vars => [Ledger!Next]_(Ledger!ledgerVars)
  BY StepIsLedgers
<1> QED
  BY <1>1, LedgerInit, BackedAlways, PTL DEF Spec, LedgerIsKept, Ledger!Spec

(* The program with its metadata implements it too. *)
THEOREM LedgerKeptBesideMetadata == MetadataSpec => LedgerIsKept
  BY MetadataKeepsProgram, LedgerAlwaysKept

=============================================================================
