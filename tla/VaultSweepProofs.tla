--------------------------- MODULE VaultSweepProofs ---------------------------
(* What the vault's books, selections and sweeps guarantee, and governance *)
(* beside them, for every vault, fee rate, bound on inputs and federation. *)
EXTENDS VaultSweep, GovernanceRoundsProofs, Sums

-----------------------------------------------------------------------------
(* Finite sets in order.                                                   *)

(* R orders S, strictly and totally. *)
Orders(R, S) ==
    /\ \A x \in S : <<x, x>> \notin R
    /\ \A x, y, z \in S : <<x, y>> \in R /\ <<y, z>> \in R => <<x, z>> \in R
    /\ \A x, y \in S : x # y => <<x, y>> \in R \/ <<y, x>> \in R

(* A finite set that is ordered has a last element. *)
LEMMA LastElement ==
    ASSUME NEW R, NEW S, Orders(R, S), IsFiniteSet(S), S # {}
    PROVE  \E x \in S : \A y \in S \ {x} : <<y, x>> \in R
<1> DEFINE above(x) == {y \in S : <<x, y>> \in R}
           T == {above(x) : x \in S}
<1>1. T \subseteq SUBSET S /\ T # {}
  OBVIOUS
<1>2. PICK a \in T : \A b \in T : b \subseteq a => b = a
  <2> HIDE DEF T
  <2> QED BY <1>1, MinimalSubset
<1>3. PICK x \in S : a = above(x)
  OBVIOUS
<1>4. ASSUME NEW y \in S, <<x, y>> \in R PROVE FALSE
  <2>1. above(y) \subseteq above(x) /\ y \in above(x) /\ y \notin above(y)
    BY <1>4 DEF Orders
  <2>2. above(y) \in T
    OBVIOUS
  <2> QED BY <1>2, <1>3, <2>1, <2>2
<1> QED
  BY <1>4 DEF Orders

(* A finite set that is ordered can be listed in that order. *)
LEMMA ListExists ==
    ASSUME NEW R, NEW S, Orders(R, S), IsFiniteSet(S)
    PROVE  \E s \in [1..Cardinality(S) -> S] :
               \A i, j \in 1..Cardinality(S) : i < j => <<s[i], s[j]>> \in R
<1> DEFINE Listed(T, s) == /\ s \in [1..Cardinality(T) -> T]
                           /\ \A i, j \in 1..Cardinality(T) : i < j => <<s[i], s[j]>> \in R
           Bad == {T \in SUBSET S : ~ \E s : Listed(T, s)}
<1>0. SUFFICES ASSUME Bad # {} PROVE FALSE
  <2>1. S \notin Bad => \E s : Listed(S, s)
    OBVIOUS
  <2> QED BY <2>1
<1>1. PICK T \in Bad : \A U \in Bad : U \subseteq T => U = T
  <2>1. Bad \subseteq SUBSET S
    OBVIOUS
  <2> HIDE DEF Bad
  <2> QED BY <1>0, <2>1, MinimalSubset
<1>2. IsFiniteSet(T) /\ T \subseteq S /\ Orders(R, T) /\ ~ \E s : Listed(T, s)
  BY FS_Subset DEF Orders
<1>3. T # {}
  <2> SUFFICES ASSUME T = {} PROVE FALSE
    OBVIOUS
  <2>1. Cardinality(T) = 0
    BY FS_EmptySet
  <2>2. 1..Cardinality(T) = {}
    BY <2>1
  <2>3. Listed(T, [i \in 1..Cardinality(T) |-> i])
    BY <2>2
  <2> QED BY <1>2, <2>3
<1>4. PICK x \in T : \A y \in T \ {x} : <<y, x>> \in R
  BY <1>2, <1>3, LastElement
<1> DEFINE U == T \ {x}  m == Cardinality(U)  n == Cardinality(T)
<1>5. U \in SUBSET S /\ U \subseteq T /\ U # T
  BY <1>2
<1>6. m = n - 1 /\ n \in Nat /\ m \in Nat
  BY <1>2, FS_RemoveElement, FS_CardinalityType
<1>7. PICK s : Listed(U, s)
  <2>1. U \notin Bad
    <3> HIDE DEF U, Bad
    <3> QED BY <1>1, <1>5
  <2> QED BY <1>5, <2>1
<1>8. s \in [1..m -> U] /\ \A i, j \in 1..m : i < j => <<s[i], s[j]>> \in R
  BY <1>7
<1> DEFINE t == [i \in 1..n |-> IF i = n THEN x ELSE s[i]]
<1>9. \A i \in 1..n : i # n => i \in 1..m
  <2> HIDE DEF m, n
  <2> QED BY <1>6
<1>10. Listed(T, t)
  <2>1. t \in [1..n -> T]
    BY <1>8, <1>9
  <2>2. ASSUME NEW i \in 1..n, NEW j \in 1..n, i < j PROVE <<t[i], t[j]>> \in R
    <3>1. i # n
      <4> HIDE DEF m, n
      <4> QED BY <1>6, <2>2
    <3>2. t[i] = s[i] /\ s[i] \in U
      BY <1>8, <1>9, <3>1
    <3>3. CASE j = n
      BY <1>4, <3>2, <3>3
    <3>4. CASE j # n
      BY <1>8, <1>9, <2>2, <3>1, <3>2, <3>4
    <3> QED BY <3>3, <3>4
  <2> QED BY <2>1, <2>2
<1> QED
  BY <1>2, <1>10

(* What lists a finite set without repetition has all of it. *)
LEMMA ListingFacts ==
    ASSUME NEW S, IsFiniteSet(S), NEW s \in SetToSeqs(S)
    PROVE  /\ s \in Seq(S) /\ Len(s) = Cardinality(S) /\ DOMAIN s = 1..Len(s)
           /\ ToSet(s) = S /\ IsInjective(s)
<1> DEFINE n == Cardinality(S)
<1>1. n \in Nat /\ s \in [1..n -> S] /\ \A i, j \in 1..n : i # j => s[i] # s[j]
  BY FS_CardinalityType DEF SetToSeqs
<1>2. IsFiniteSet(1..n) /\ Cardinality(1..n) = n
  <2>1. Cardinality(1..n) = IF 1 > n THEN 0 ELSE n - 1 + 1
    <3> HIDE DEF n
    <3> QED BY <1>1, FS_Interval
  <2> HIDE DEF n
  <2> QED BY <1>1, <2>1, FS_Interval
<1>3. s \in Seq(S) /\ Len(s) = n /\ DOMAIN s = 1..n
  <2> HIDE DEF n
  <2> QED BY <1>1
<1>4. ASSUME NEW x \in S PROVE \E i \in 1..n : s[i] = x
  <2> SUFFICES ASSUME \A i \in 1..n : s[i] # x PROVE FALSE
    OBVIOUS
  <2> DEFINE U == S \ {x}
  <2>1. s \in [1..n -> U]
    BY <1>1
  <2>2. IsFiniteSet(U) /\ Cardinality(U) = n - 1
    BY FS_RemoveElement
  <2> HIDE DEF U, n
  <2>3. Cardinality(U) < n
    BY <1>1, <2>2
  <2> QED BY <1>1, <1>2, <2>1, <2>2, <2>3, FS_PigeonHole
<1>5. ToSet(s) = S
  BY <1>1, <1>3, <1>4 DEF ToSet
<1>6. IsInjective(s)
  BY <1>1, <1>3 DEF IsInjective
<1> QED
  BY <1>3, <1>5, <1>6

(* The order of the database is total, so what it returns is every output  *)
(* asked for, once.                                                        *)
LEMMA AvailableFacts ==
    ASSUME NEW am, NEW U, IsFiniteSet(U), U \subseteq Nat, \A u \in U : am[u] \in Nat
    PROVE  /\ available_utxos(am, U) \in Seq(U)
           /\ Len(available_utxos(am, U)) = Cardinality(U)
           /\ DOMAIN available_utxos(am, U) = 1..Len(available_utxos(am, U))
           /\ ToSet(available_utxos(am, U)) = U
           /\ IsInjective(available_utxos(am, U))
<1> DEFINE R == {w \in U \X U : ListedBefore(am, w[1], w[2])}
           lo(u) == am[u] % 256
           hi(u) == (am[u] \div 256) % 256
<1>1. \A u \in U : lo(u) \in Int /\ hi(u) \in Int
  OBVIOUS
<1>2. \A u, v \in U : <<u, v>> \in R <=> \/ lo(u) > lo(v)
                                         \/ lo(u) = lo(v) /\ hi(u) > hi(v)
                                         \/ lo(u) = lo(v) /\ hi(u) = hi(v) /\ u < v
  <2>1. \A u, v \in U : <<u, v>> \in R <=> ListedBefore(am, u, v)
    OBVIOUS
  <2>2. \A a, b, c, d : <<a, b>> = <<c, d>> <=> a = c /\ b = d
    OBVIOUS
  <2>3. ASSUME NEW u \in U, NEW v \in U
        PROVE  ListedBefore(am, u, v) <=>
                  \/ lo(u) > lo(v)
                  \/ lo(u) = lo(v) /\ hi(u) > hi(v)
                  \/ lo(u) = lo(v) /\ hi(u) = hi(v) /\ u < v
    <3>1. Blob(am[u]) = <<lo(u), hi(u)>> /\ Blob(am[v]) = <<lo(v), hi(v)>>
      BY DEF Blob
    <3>2. ListedBefore(am, u, v) <=>
             \/ BlobAbove(<<lo(u), hi(u)>>, <<lo(v), hi(v)>>)
             \/ <<lo(u), hi(u)>> = <<lo(v), hi(v)>> /\ u < v
      BY <3>1, Zenon DEF ListedBefore
    <3> HIDE DEF lo, hi
    <3> QED BY <2>2, <3>2 DEF BlobAbove
  <2> HIDE DEF R, lo, hi
  <2> QED BY <2>1, <2>3
<1>3. Orders(R, U)
  <2> HIDE DEF R, lo, hi
  <2>1. \A x \in U : <<x, x>> \notin R
    BY <1>1, <1>2
  <2>2. ASSUME NEW x \in U, NEW y \in U, NEW z \in U, <<x, y>> \in R, <<y, z>> \in R
        PROVE  <<x, z>> \in R
    BY <1>1, <1>2, <2>2
  <2>3. ASSUME NEW x \in U, NEW y \in U, x # y PROVE <<x, y>> \in R \/ <<y, x>> \in R
    BY <1>1, <1>2, <2>3
  <2> QED BY <2>1, <2>2, <2>3 DEF Orders
<1>4. \E s \in SetToSeqs(U) : \A i, j \in DOMAIN s : i < j => ListedBefore(am, s[i], s[j])
  <2> DEFINE n == Cardinality(U)
  <2>1. PICK s \in [1..n -> U] : \A i, j \in 1..n : i < j => <<s[i], s[j]>> \in R
    <3> HIDE DEF R
    <3> QED BY <1>3, ListExists
  <2>2. ASSUME NEW i \in 1..n, NEW j \in 1..n, i # j PROVE s[i] # s[j]
    <3>1. i < j \/ j < i
      BY <2>2
    <3>2. \A x \in U : <<x, x>> \notin R
      BY <1>3 DEF Orders
    <3> HIDE DEF R
    <3> QED BY <2>1, <3>1, <3>2
  <2>3. s \in SetToSeqs(U) /\ DOMAIN s = 1..n
    BY <2>1, <2>2 DEF SetToSeqs
  <2>4. ASSUME NEW i \in 1..n, NEW j \in 1..n, i < j PROVE ListedBefore(am, s[i], s[j])
    BY <2>1, <2>4
  <2> QED BY <2>3, <2>4
<1>5. available_utxos(am, U) \in SetToSeqs(U)
  BY <1>4 DEF available_utxos
<1> QED
  BY <1>5, ListingFacts

-----------------------------------------------------------------------------
(* Sums, fees and selections.                                              *)

(* A sum over outputs. *)
LEMMA HeldSum ==
    ASSUME NEW am, NEW U
    PROVE  MapThenSumSet(LAMBDA u : am[u], U) = SumOver(am, U)
  BY Zenon DEF MapThenSumSet, MapThenFoldSet, Pick, SumOver, Summing, IsSum

(* The total of a list of inputs. *)
LEMMA TotalSum ==
    ASSUME NEW am, NEW s
    PROVE  Total(am, s) = SumOver(am, ToSet(s))
  BY HeldSum, Zenon DEF Total

(* A sequence has finitely many elements. *)
LEMMA ToSetFacts ==
    ASSUME NEW S, NEW s \in Seq(S)
    PROVE  /\ ToSet(s) \subseteq S /\ IsFiniteSet(ToSet(s))
           /\ DOMAIN s = 1..Len(s) /\ Len(s) \in Nat
<1>1. DOMAIN s = 1..Len(s) /\ Len(s) \in Nat /\ \A i \in 1..Len(s) : s[i] \in S
  OBVIOUS
<1>2. IsFiniteSet(1..Len(s))
  BY <1>1, FS_Interval
<1>3. ToSet(s) \subseteq S /\ \A y \in ToSet(s) : \E i \in 1..Len(s) : y = s[i]
  BY <1>1 DEF ToSet
<1>4. IsFiniteSet(ToSet(s))
  BY <1>2, <1>3, FiniteImage
<1> QED
  BY <1>1, <1>3, <1>4

(* A fee is at least the rate, and grows with the outputs. *)
LEMMA FeeFacts ==
    ASSUME NEW n \in Nat
    PROVE  /\ fee_for(n, 1) \in Nat /\ fee_for(n, 2) \in Nat
           /\ fee_for(n, 1) <= fee_for(n, 2)
           /\ 1000 * fee_for(n, 1) >= FeeRate * estimated_size_bytes(n, 1)
           /\ 1000 * fee_for(n, 2) >= FeeRate * estimated_size_bytes(n, 2)
           /\ FeeRate * estimated_size_bytes(n, 2) >= FeeRate * estimated_size_bytes(n, 1)
<1> DEFINE a == estimated_size_bytes(n, 1)  b == estimated_size_bytes(n, 2)
           x == a * FeeRate  y == b * FeeRate
<1>1. a \in Nat /\ b \in Nat /\ b = a + 34 /\ FeeRate \in Nat
  BY VaultAssumption DEF estimated_size_bytes
<1>2. x \in Nat /\ y \in Nat /\ y >= x /\ x = FeeRate * a /\ y = FeeRate * b
  <2> HIDE DEF a, b
  <2>1. y = x + 34 * FeeRate
    BY <1>1
  <2>2. x \in Nat
    BY <1>1
  <2>3. x = FeeRate * a /\ y = FeeRate * b
    BY <1>1
  <2> HIDE DEF x, y
  <2> QED BY <1>1, <2>1, <2>2, <2>3
<1>3. fee_for(n, 1) = (x + 999) \div 1000 /\ fee_for(n, 2) = (y + 999) \div 1000
  BY DEF fee_for
<1> HIDE DEF a, b, x, y
<1>4. /\ (x + 999) \div 1000 \in Nat /\ (y + 999) \div 1000 \in Nat
      /\ (x + 999) \div 1000 <= (y + 999) \div 1000
      /\ 1000 * ((x + 999) \div 1000) >= x /\ 1000 * ((y + 999) \div 1000) >= y
  BY <1>2
<1> QED
  BY <1>2, <1>3, <1>4 DEF a, b

(* What every selection must be. *)
Sound(s) ==
    /\ s.change = 0 \/ s.change >= Dust
    /\ 1000 * s.fee >= FeeRate * estimated_size_bytes(Len(s.inputs), IF s.change > 0 THEN 2 ELSE 1)
    /\ s.fee < fee_for(Len(s.inputs), 2) + Dust \/ s.fee = fee_for(Len(s.inputs), 2)

(* Inputs that cover the amount and the fee of a payout with change.       *)
LEMMA FinalizeFacts ==
    ASSUME NEW am, NEW s, NEW pay \in Nat, Len(s) \in Nat, Total(am, s) \in Nat,
           Total(am, s) >= pay + fee_for(Len(s), 2)
    PROVE  LET r == finalize(am, s, pay) IN
           /\ r = [inputs |-> s, pay |-> pay, fee |-> r.fee, change |-> r.change]
           /\ r.fee \in Nat /\ r.change \in Nat /\ Sound(r)
<1> DEFINE t == Total(am, s)  f == fee_for(Len(s), 2)  c == t - pay - f
           r == finalize(am, s, pay)
<1>1. f \in Nat /\ t \in Nat /\ c \in Nat /\ Dust \in Nat /\ t = pay + f + c
  <2>1. f \in Nat /\ t \in Nat /\ t >= pay + f
    BY FeeFacts
  <2> HIDE DEF t, f
  <2> QED BY <2>1, VaultAssumption
<1>2. /\ 1000 * f >= FeeRate * estimated_size_bytes(Len(s), 2)
      /\ 1000 * f >= FeeRate * estimated_size_bytes(Len(s), 1)
  <2> DEFINE x == FeeRate * estimated_size_bytes(Len(s), 1)
             y == FeeRate * estimated_size_bytes(Len(s), 2)
  <2>1. 1000 * f >= y /\ y >= x
    BY FeeFacts
  <2>2. x \in Int /\ y \in Int
    BY VaultAssumption DEF estimated_size_bytes
  <2> HIDE DEF f, x, y
  <2>3. 1000 * f >= x
    BY <1>1, <2>1, <2>2
  <2> QED BY <2>1, <2>3 DEF x, y
<1>3. r = IF c < Dust \/ c = 0
          THEN [inputs |-> s, pay |-> pay, fee |-> t - pay, change |-> 0]
          ELSE [inputs |-> s, pay |-> pay, fee |-> f, change |-> c]
  BY DEF finalize
<1> HIDE DEF t, f, c, r
<1>4. CASE c < Dust \/ c = 0
  <2>1. r = [inputs |-> s, pay |-> pay, fee |-> t - pay, change |-> 0]
    BY <1>3, <1>4
  <2>2. t - pay = f + c /\ t - pay \in Nat
    BY <1>1
  <2>3. 1000 * (f + c) >= FeeRate * estimated_size_bytes(Len(s), 1)
    <3> DEFINE x == FeeRate * estimated_size_bytes(Len(s), 1)
    <3>1. x \in Int
      BY VaultAssumption DEF estimated_size_bytes
    <3> HIDE DEF x
    <3>2. 1000 * f >= x
      BY <1>2 DEF x
    <3>3. 1000 * (f + c) >= x
      BY <1>1, <3>1, <3>2
    <3> QED BY <3>3 DEF x
  <2>4. f + c < f + Dust \/ f + c = f
    BY <1>1, <1>4
  <2>5. ~(0 > 0)
    OBVIOUS
  <2>6. Sound(r)
    BY <2>1, <2>2, <2>3, <2>4, <2>5 DEF Sound, f
  <2> QED BY <2>1, <2>2, <2>6 DEF r
<1>5. CASE ~(c < Dust \/ c = 0)
  <2>1. r = [inputs |-> s, pay |-> pay, fee |-> f, change |-> c]
    BY <1>3, <1>5
  <2>2. c > 0 /\ c >= Dust
    BY <1>1, <1>5
  <2>3. Sound(r)
    BY <1>2, <2>1, <2>2 DEF Sound, f
  <2> QED BY <1>1, <2>1, <2>3 DEF r
<1> QED
  BY <1>4, <1>5

(* A selection spends what was offered, is sound, and its parts are        *)
(* amounts.                                                                *)
LEMMA SelectFacts ==
    ASSUME NEW am, NEW U, IsFiniteSet(U), U \subseteq Nat, \A u \in U : am[u] \in Nat,
           NEW c \in Seq(U), NEW pay \in Nat, NEW r \in select(am, c, pay)
    PROVE  /\ r = [inputs |-> r.inputs, pay |-> pay, fee |-> r.fee, change |-> r.change]
           /\ r.inputs \in Seq(U) /\ r.fee \in Nat /\ r.change \in Nat
           /\ Len(r.inputs) \in 1..MaxInputs /\ Sound(r)
<1> DEFINE exact == Exact(am, c, pay)
           covering == Covering(am, c, pay)
           enough == Enough(am, c, pay)
           smallest == CHOOSE u \in covering : \A v \in covering \ {u} :
                           am[u] < am[v] \/ (am[u] = am[v] /\ u < v)
           one == [inputs |-> <<c[Min(exact)]>>, pay |-> pay, fee |-> fee_for(1, 1), change |-> 0]
<1>0. /\ MaxInputs \in Nat /\ MaxInputs >= 1 /\ Dust \in Nat
      /\ DOMAIN c = 1..Len(c) /\ Len(c) \in Nat /\ ToSet(c) \subseteq U /\ IsFiniteSet(ToSet(c))
  BY ToSetFacts, VaultAssumption
<1>1. \/ exact # {} /\ r = one
      \/ covering # {} /\ r = finalize(am, <<smallest>>, pay)
      \/ enough # {} /\ r = finalize(am, SubSeq(c, 1, Min(enough)), pay)
  BY Zenon DEF select
<1>2. ASSUME NEW u \in U PROVE /\ <<u>> \in Seq(U) /\ Len(<<u>>) = 1 /\ 1 \in 1..MaxInputs
                               /\ Total(am, <<u>>) = am[u]
  <2>1. ToSet(<<u>>) = {u}
    BY DEF ToSet
  <2>2. SumOver(am, {} \cup {u}) = am[u] + SumOver(am, {}) /\ SumOver(am, {}) = 0
    <3>1. IsFiniteSet({}) /\ u \notin {} /\ \A y \in {} \cup {u} : am[y] \in Int
      BY FS_EmptySet
    <3>2. SumOver(am, {} \cup {u}) = am[u] + SumOver(am, {})
      BY <3>1, SumAdd, Zenon
    <3> QED BY <3>2, SumEmpty
  <2>3. {} \cup {u} = {u}
    OBVIOUS
  <2>4. Total(am, <<u>>) = am[u]
    <3>1. Total(am, <<u>>) = SumOver(am, {u})
      BY <2>1, TotalSum, Zenon
    <3> QED BY <2>2, <2>3, <3>1
  <2> QED BY <1>0, <2>4
<1>3. CASE exact # {} /\ r = one
  <2>1. exact \subseteq Nat /\ exact \subseteq DOMAIN c
    BY <1>0 DEF Exact
  <2>2. Min(exact) \in DOMAIN c
    <3> HIDE DEF exact
    <3> QED BY <1>3, <2>1, LeastNumber
  <2> DEFINE u == c[Min(exact)]
  <2>3. u \in U
    <3> HIDE DEF exact
    <3> QED BY <1>0, <2>2
  <2>4. r = [inputs |-> <<u>>, pay |-> pay, fee |-> fee_for(1, 1), change |-> 0]
    BY <1>3
  <2> HIDE DEF u
  <2>5. /\ fee_for(1, 1) \in Nat /\ fee_for(1, 2) \in Nat /\ fee_for(1, 1) <= fee_for(1, 2)
        /\ 1000 * fee_for(1, 1) >= FeeRate * estimated_size_bytes(1, 1)
    BY FeeFacts
  <2>6. fee_for(1, 1) < fee_for(1, 2) + Dust \/ fee_for(1, 1) = fee_for(1, 2)
    BY <1>0, <2>5
  <2>7. Len(<<u>>) = 1 /\ ~(0 > 0)
    OBVIOUS
  <2>8. Sound(r)
    BY <2>4, <2>5, <2>6, <2>7 DEF Sound
  <2> QED BY <1>2, <2>3, <2>4, <2>5, <2>8
<1>4. CASE covering # {} /\ r = finalize(am, <<smallest>>, pay)
  <2>1. covering \subseteq U /\ IsFiniteSet(covering)
        /\ \A u \in covering : am[u] >= pay + fee_for(1, 2)
    <3>1. covering \in SUBSET ToSet(c)
      BY DEF Covering
    <3>2. IsFiniteSet(covering)
      <4> HIDE DEF covering
      <4> QED BY <1>0, <3>1, FS_Subset
    <3> QED BY <1>0, <3>1, <3>2 DEF Covering
  <2> HIDE DEF covering
  <2> DEFINE R == {w \in covering \X covering :
                      am[w[2]] < am[w[1]] \/ (am[w[2]] = am[w[1]] /\ w[2] < w[1])}
  <2>2. \A u, v \in covering : <<v, u>> \in R <=> am[u] < am[v] \/ (am[u] = am[v] /\ u < v)
    OBVIOUS
  <2>3. \A u \in covering : u \in Nat /\ am[u] \in Nat
    BY <2>1
  <2>4. Orders(R, covering)
    <3> HIDE DEF R
    <3>1. ASSUME NEW x \in covering, NEW y \in covering, NEW z \in covering,
                 <<x, y>> \in R, <<y, z>> \in R
          PROVE  <<x, z>> \in R
      BY <2>2, <2>3, <3>1
    <3>2. ASSUME NEW x \in covering, NEW y \in covering, x # y
          PROVE  <<x, y>> \in R \/ <<y, x>> \in R
      BY <2>2, <2>3, <3>2
    <3>3. \A x \in covering : <<x, x>> \notin R
      BY <2>2, <2>3
    <3> QED BY <3>1, <3>2, <3>3 DEF Orders
  <2>5. \E u \in covering : \A v \in covering \ {u} :
           am[u] < am[v] \/ (am[u] = am[v] /\ u < v)
    <3>1. \E u \in covering : \A v \in covering \ {u} : <<v, u>> \in R
      <4> HIDE DEF R
      <4> QED BY <1>4, <2>1, <2>4, LastElement
    <3> HIDE DEF R
    <3> QED BY <2>2, <3>1
  <2>6. smallest \in covering
    BY <2>5
  <2> HIDE DEF smallest
  <2>7. smallest \in U /\ am[smallest] >= pay + fee_for(1, 2) /\ am[smallest] \in Nat
    BY <2>1, <2>3, <2>6
  <2> DEFINE s == <<smallest>>
  <2>8. s \in Seq(U) /\ Len(s) = 1 /\ 1 \in 1..MaxInputs /\ Total(am, s) = am[smallest]
    BY <1>2, <2>7
  <2> HIDE DEF s
  <2>9. LET q == finalize(am, s, pay) IN
        /\ q = [inputs |-> s, pay |-> pay, fee |-> q.fee, change |-> q.change]
        /\ q.fee \in Nat /\ q.change \in Nat /\ Sound(q)
    <3>1. Len(s) \in Nat /\ Total(am, s) \in Nat /\ Total(am, s) >= pay + fee_for(Len(s), 2)
      BY <2>7, <2>8
    <3> QED BY <3>1, FinalizeFacts
  <2>10. r = finalize(am, s, pay)
    BY <1>4 DEF s
  <2>11. r.inputs = s
    BY <2>9, <2>10
  <2>12. r = [inputs |-> r.inputs, pay |-> pay, fee |-> r.fee, change |-> r.change]
    BY <2>9, <2>10, <2>11
  <2> QED BY <2>8, <2>9, <2>10, <2>11, <2>12
<1>5. CASE enough # {} /\ r = finalize(am, SubSeq(c, 1, Min(enough)), pay)
  <2> DEFINE n == Min(enough)  s == SubSeq(c, 1, n)
  <2>1. enough \subseteq Nat
    BY DEF Enough
  <2>2. n \in enough
    <3> HIDE DEF enough
    <3> QED BY <1>5, <2>1, LeastNumber
  <2> HIDE DEF n
  <2>3. n \in 1..Len(c) /\ n <= MaxInputs /\ Total(am, s) >= pay + fee_for(n, 2)
    BY <2>2 DEF Enough
  <2>4. s \in Seq(U) /\ Len(s) = n
    BY <1>0, <2>3
  <2>5. r = finalize(am, s, pay)
    BY <1>5 DEF n
  <2> HIDE DEF s
  <2>6. Total(am, s) \in Nat
    <3>1. ToSet(s) \subseteq U /\ IsFiniteSet(ToSet(s))
      BY <2>4, ToSetFacts
    <3>2. SumOver(am, ToSet(s)) \in Nat
      <4> DEFINE S == ToSet(s)
      <4>1. IsFiniteSet(S) /\ \A x \in S : am[x] \in Nat
        BY <3>1
      <4>2. S \in SUBSET S
        OBVIOUS
      <4> HIDE DEF S
      <4>3. SumOver(am, S) \in Nat
        BY <4>1, <4>2, SumNat
      <4> QED BY <4>3 DEF S
    <3> QED BY <3>2, TotalSum, Zenon
  <2>7. LET q == finalize(am, s, pay) IN
        /\ q = [inputs |-> s, pay |-> pay, fee |-> q.fee, change |-> q.change]
        /\ q.fee \in Nat /\ q.change \in Nat /\ Sound(q)
    <3>1. Len(s) \in Nat /\ Total(am, s) >= pay + fee_for(Len(s), 2)
      BY <1>0, <2>3, <2>4 DEF s
    <3> QED BY <2>6, <3>1, FinalizeFacts
  <2>8. n \in 1..MaxInputs
    BY <1>0, <2>3
  <2> QED BY <2>4, <2>5, <2>7, <2>8
<1> QED
  BY <1>1, <1>3, <1>4, <1>5

(* Of a list, largest first, no choice of as many is worth more than its   *)
(* beginning.                                                              *)
LEMMA LargestAreMost ==
    ASSUME NEW am, NEW S, IsFiniteSet(S), \A u \in S : am[u] \in Nat,
           NEW c \in Seq(S), ToSet(c) = S, IsInjective(c), Len(c) = Cardinality(S),
           \A i, j \in DOMAIN c : i < j => am[c[i]] >= am[c[j]],
           NEW U \in SUBSET S
    PROVE  /\ Cardinality(U) \in 0..Len(c)
           /\ SumOver(am, U) <= Total(am, SubSeq(c, 1, Cardinality(U)))
<1> DEFINE n == Cardinality(U)  f == SubSeq(c, 1, n)  F == ToSet(f)
<1>1. IsFiniteSet(U) /\ n \in Nat /\ n <= Len(c) /\ Len(c) \in Nat /\ DOMAIN c = 1..Len(c)
  <2>1. IsFiniteSet(U) /\ n <= Len(c)
    BY FS_Subset
  <2> QED BY <2>1, FS_CardinalityType
<1>2. /\ f \in Seq(S) /\ Len(f) = n /\ DOMAIN f = 1..n
      /\ \A i \in 1..n : f[i] = c[i] /\ i \in DOMAIN c
  <2> HIDE DEF n
  <2> QED BY <1>1
<1>3. F \subseteq S /\ IsFiniteSet(F) /\ \A y : y \in F <=> \E i \in 1..n : y = c[i]
  <2>1. F \subseteq S /\ IsFiniteSet(F)
    <3> HIDE DEF f, n
    <3> QED BY <1>2, ToSetFacts
  <2>2. \A y : y \in F <=> \E i \in 1..n : y = f[i]
    <3> HIDE DEF f, n
    <3> QED BY <1>2 DEF ToSet
  <2> HIDE DEF f, n, F
  <2> QED BY <1>2, <2>1, <2>2
<1> HIDE DEF F, f
<1>4. Cardinality(F) = n
  <2>1. f \in Bijection(1..n, F)
    <3>1. f \in [1..n -> F]
      BY <1>2, <1>3
    <3>2. \A i, j \in 1..n : f[i] = f[j] => i = j
      BY <1>2 DEF IsInjective
    <3>3. \A y \in F : \E i \in 1..n : f[i] = y
      BY <1>2, <1>3
    <3> QED BY <3>1, <3>2, <3>3 DEF Bijection, Injection, Surjection, IsInjective
  <2>2. IsFiniteSet(1..n) /\ Cardinality(1..n) = n
    <3>1. Cardinality(1..n) = IF 1 > n THEN 0 ELSE n - 1 + 1
      <4> HIDE DEF n
      <4> QED BY <1>1, FS_Interval
    <3> HIDE DEF n
    <3> QED BY <1>1, <3>1, FS_Interval
  <2>3. ExistsBijection(1..n, F)
    BY <2>1 DEF ExistsBijection
  <2> HIDE DEF n
  <2> QED BY <2>2, <2>3, FS_Bijection
<1> DEFINE I == U \cap F  A == U \ I  B == F \ I
<1>5. I \in SUBSET U /\ I \in SUBSET F /\ IsFiniteSet(I) /\ IsFiniteSet(A) /\ IsFiniteSet(B)
  <2>1. I \in SUBSET U /\ I \in SUBSET F
    OBVIOUS
  <2> QED BY <1>1, <1>3, <2>1, FS_Subset
<1>6. Cardinality(A) = Cardinality(B)
  <2>1. U \cap I = I /\ F \cap I = I
    OBVIOUS
  <2>2. Cardinality(A) = n - Cardinality(U \cap I) /\ Cardinality(B) = Cardinality(F) - Cardinality(F \cap I)
    <3> HIDE DEF I
    <3> QED BY <1>1, <1>3, FS_Difference
  <2> QED BY <1>4, <2>1, <2>2
<1>7. ASSUME NEW x \in A, NEW y \in B PROVE am[x] <= am[y]
  <2>1. x \in S /\ x \notin F /\ y \in F
    OBVIOUS
  <2>2. PICK j \in 1..Len(c) : x = c[j]
    BY <1>1, <2>1 DEF ToSet
  <2>3. PICK i \in 1..n : y = c[i]
    BY <1>3, <2>1
  <2>4. j > n
    <3>1. ~(j \in 1..n)
      BY <1>3, <2>1, <2>2
    <3> HIDE DEF n
    <3> QED BY <1>1, <3>1
  <2>5. i < j /\ i \in DOMAIN c /\ j \in DOMAIN c
    <3> HIDE DEF n
    <3> QED BY <1>1, <2>2, <2>3, <2>4
  <2>6. am[y] >= am[x] /\ am[x] \in Nat /\ am[y] \in Nat
    BY <1>3, <2>1, <2>2, <2>3, <2>5
  <2> QED BY <2>6
<1>8. /\ SumOver(am, U) = SumOver(am, I) + SumOver(am, A)
      /\ SumOver(am, F) = SumOver(am, I) + SumOver(am, B)
      /\ SumOver(am, I) \in Int /\ SumOver(am, A) \in Int /\ SumOver(am, B) \in Int
  <2>1. (\A x \in U : am[x] \in Int) /\ (\A x \in F : am[x] \in Int)
    BY <1>3
  <2>a. ASSUME NEW X, NEW Y, IsFiniteSet(X), Y \in SUBSET X, \A x \in X : am[x] \in Int
        PROVE  /\ SumOver(am, X) = SumOver(am, Y) + SumOver(am, X \ Y)
               /\ SumOver(am, Y) \in Int /\ SumOver(am, X \ Y) \in Int
    BY <2>a, SumSplit
  <2>2. SumOver(am, U) = SumOver(am, I) + SumOver(am, A) /\ SumOver(am, I) \in Int
        /\ SumOver(am, A) \in Int
    <3> HIDE DEF I
    <3> QED BY <1>1, <1>5, <2>1, <2>a
  <2>3. SumOver(am, F) = SumOver(am, I) + SumOver(am, B) /\ SumOver(am, B) \in Int
    <3> HIDE DEF I
    <3> QED BY <1>3, <1>5, <2>1, <2>a
  <2> QED BY <2>2, <2>3
<1>9. SumOver(am, A) <= SumOver(am, B)
  <2>1. \A x \in A \cup B : am[x] \in Int
    BY <1>3
  <2> HIDE DEF A, B
  <2> QED BY <1>5, <1>6, <1>7, <2>1, SumExchange
<1>10. Total(am, f) = SumOver(am, F)
  BY TotalSum, Zenon DEF F
<1> HIDE DEF A, B, I
<1>11. SumOver(am, U) <= Total(am, f)
  BY <1>8, <1>9, <1>10
<1>12. n \in 0..Len(c)
  <2> HIDE DEF n
  <2> QED BY <1>1
<1> QED
  BY <1>11, <1>12 DEF f

-----------------------------------------------------------------------------
(* The vault's state.                                                      *)

(* A plan values its inputs as they are. *)
Fits(plan) ==
    /\ plan \in Plans /\ ToSet(plan.inputs) \subseteq DOMAIN amount
    /\ plan.fee + plan.swept = Total(amount, plan.inputs)

(* What is being collected, what was staged and what is being paid. *)
Planned ==
    /\ sweep.pc = "asking" => Fits(sweep.plan)
    /\ \A o \in Operators : \A plan \in history.staged[o] : ToSet(plan.inputs) \subseteq DOMAIN amount
    /\ payout.pc # "none" => payout.plan \in Selections
    /\ payout.pc # "paid" => ledger.paid = 0

(* Approvals on file, and signatures collected, are of plans that were     *)
(* staged.                                                                 *)
Staged ==
    /\ \A o \in Operators : staged[o] # None =>
          \E plan \in history.staged[o] : staged[o].commitment = commitment(amount, plan)
    /\ sweep.pc = "asking" =>
          \A i \in DOMAIN sweep.partials : sweep.plan \in history.staged[sweep.partials[i]]

(* The vault's signers. *)
LEMMA OperatorFacts ==
    /\ Operators \subseteq Asked /\ IsFiniteSet(Operators) /\ VaultKeys \in Seq(Operators)
    /\ VaultThreshold \in Nat /\ Len(VaultKeys) \in Nat /\ Len(VaultKeys) >= 1
<1>1. VaultKeys \in Seq(Asked) /\ VaultThreshold \in Nat /\ Len(VaultKeys) >= 1
  BY SweepAssumption, VaultAssumption DEF MultisigVault, MAX_VAULT_SIGNERS
<1>2. Operators \subseteq Asked /\ IsFiniteSet(Operators) /\ Len(VaultKeys) \in Nat
  BY <1>1, ToSetFacts DEF Operators
<1>3. VaultKeys \in Seq(Operators)
  BY <1>1 DEF Operators, ToSet
<1> QED
  BY <1>1, <1>2, <1>3

(* The vault's outputs. *)
LEMMA OutputFacts ==
    ASSUME VaultTypeOK
    PROVE  /\ DOMAIN amount = 1..Len(amount) /\ Len(amount) \in Nat
           /\ DOMAIN amount \subseteq Nat /\ IsFiniteSet(DOMAIN amount)
           /\ \A u \in DOMAIN amount : amount[u] \in Nat /\ amount[u] # 0 /\ u \in Ids
           /\ IsFiniteSet(unspent) /\ unspent \subseteq DOMAIN amount
<1>1. amount \in Seq(Nat \ {0}) /\ DOMAIN amount \subseteq Ids /\ unspent \in SUBSET DOMAIN amount
  BY DEF VaultTypeOK
<1>2. DOMAIN amount = 1..Len(amount) /\ Len(amount) \in Nat
      /\ \A u \in DOMAIN amount : amount[u] \in Nat /\ amount[u] # 0
  BY <1>1
<1>3. IsFiniteSet(DOMAIN amount)
  BY <1>2, FS_Interval
<1>4. IsFiniteSet(unspent)
  BY <1>1, <1>3, FS_Subset
<1> QED
  BY <1>1, <1>2, <1>3, <1>4

(* What an operator's rows offer. *)
LEMMA CandidateFacts ==
    ASSUME VaultTypeOK, NEW o \in Operators
    PROVE  /\ Available(o) \subseteq DOMAIN amount /\ IsFiniteSet(Available(o))
           /\ Available(o) \subseteq Nat /\ \A u \in Available(o) : amount[u] \in Nat
           /\ Candidates(o) \in Seq(Available(o)) /\ ToSet(Candidates(o)) = Available(o)
           /\ Len(Candidates(o)) = Cardinality(Available(o)) /\ IsInjective(Candidates(o))
           /\ DOMAIN Candidates(o) = 1..Len(Candidates(o))
<1> DEFINE U == Available(o)
<1>1. U \in SUBSET DOMAIN amount
  BY DEF VaultTypeOK, Available
<1> HIDE DEF U
<1>2. IsFiniteSet(U) /\ U \subseteq Nat /\ \A u \in U : amount[u] \in Nat
  BY <1>1, OutputFacts, FS_Subset
<1>3. /\ available_utxos(amount, U) \in Seq(U)
      /\ Len(available_utxos(amount, U)) = Cardinality(U)
      /\ DOMAIN available_utxos(amount, U) = 1..Len(available_utxos(amount, U))
      /\ ToSet(available_utxos(amount, U)) = U
      /\ IsInjective(available_utxos(amount, U))
  BY <1>2, AvailableFacts
<1> QED
  BY <1>1, <1>2, <1>3 DEF U, Candidates

(* Adding up outputs gives an amount. *)
LEMMA TotalNat ==
    ASSUME VaultTypeOK, NEW U, U \subseteq DOMAIN amount
    PROVE  SumOver(amount, U) \in Nat
<1>1. IsFiniteSet(DOMAIN amount) /\ \A u \in DOMAIN amount : amount[u] \in Nat
  BY OutputFacts
<1> DEFINE S == DOMAIN amount
<1>2. IsFiniteSet(S) /\ (\A u \in S : amount[u] \in Nat) /\ U \in SUBSET S
  BY <1>1
<1> HIDE DEF S
<1> QED
  BY <1>2, SumNat

(* A plan that an operator's rows give. *)
LEMMA BuiltPlan ==
    ASSUME VaultTypeOK, NEW o \in Operators, NEW d \in Dests, NEW plan \in build_plan(o, d)
    PROVE  Fits(plan)
<1> DEFINE c == Candidates(o)  t == Total(amount, c)  f == fee_for(Len(c), 1)
<1>1. /\ plan = [inputs |-> c, dest |-> d, fee |-> f, swept |-> t - f]
      /\ t > f
  BY DEF build_plan, plan_sweep
<1>2. c \in Seq(Available(o)) /\ ToSet(c) = Available(o) /\ Available(o) \subseteq DOMAIN amount
  BY CandidateFacts
<1>3. Available(o) \subseteq Ids
  BY <1>2, OutputFacts
<1>4. c \in Seq(Ids)
  <2> HIDE DEF c
  <2> QED BY <1>2, <1>3
<1>5. f \in Nat
  <2>1. Len(c) \in Nat
    <3> HIDE DEF c
    <3> QED BY <1>4
  <2> HIDE DEF c
  <2> QED BY <2>1, FeeFacts
<1>6. t \in Nat
  <2>1. t = SumOver(amount, Available(o))
    BY <1>2, TotalSum, Zenon
  <2> QED BY <1>2, <2>1, TotalNat
<1> HIDE DEF c, f, t
<1>7. t - f \in Nat /\ f + (t - f) = t
  BY <1>1, <1>5, <1>6
<1>8. plan \in Plans
  BY <1>1, <1>4, <1>5, <1>7 DEF Plans
<1>9. ToSet(plan.inputs) \subseteq DOMAIN amount
  BY <1>1, <1>2 DEF c
<1>10. plan.fee + plan.swept = Total(amount, plan.inputs)
  BY <1>1, <1>7 DEF t
<1> QED
  BY <1>8, <1>9, <1>10 DEF Fits

(* A commitment names its plan. *)
LEMMA SameCommitment ==
    ASSUME NEW am, NEW p \in Plans, NEW q \in Plans, commitment(am, p) = commitment(am, q)
    PROVE  p = q
<1>1. p.dest = q.dest /\ p.fee = q.fee /\ p.swept = q.swept
  BY DEF commitment
<1> DEFINE a == p.inputs  b == q.inputs
<1>2. a \in Seq(Ids) /\ b \in Seq(Ids)
  BY DEF Plans
<1>3. [i \in DOMAIN a |-> <<a[i], am[a[i]]>>] = [i \in DOMAIN b |-> <<b[i], am[b[i]]>>]
  BY DEF commitment
<1> HIDE DEF a, b
<1>4. DOMAIN a = DOMAIN b
  BY <1>3
<1>5. \A i \in DOMAIN a : a[i] = b[i]
  <2> SUFFICES ASSUME NEW i \in DOMAIN a PROVE a[i] = b[i]
    OBVIOUS
  <2>1. <<a[i], am[a[i]]>> = <<b[i], am[b[i]]>>
    BY <1>3, <1>4
  <2> QED BY <2>1
<1>6. a = b
  BY <1>2, <1>4, <1>5
<1> QED
  BY <1>1, <1>6 DEF Plans, a, b

(* Later outputs change neither what a plan is worth nor its commitment. *)
LEMMA LaterOutputs ==
    ASSUME VaultTypeOK, NEW am, \A u \in DOMAIN amount : am[u] = amount[u],
           NEW plan \in Plans, ToSet(plan.inputs) \subseteq DOMAIN amount
    PROVE  /\ Total(am, plan.inputs) = Total(amount, plan.inputs)
           /\ commitment(am, plan) = commitment(amount, plan)
<1> DEFINE s == plan.inputs
<1>1. s \in Seq(Ids)
  BY DEF Plans
<1> HIDE DEF s
<1>2. IsFiniteSet(ToSet(s)) /\ \A u \in ToSet(s) : am[u] = amount[u]
  BY <1>1, ToSetFacts DEF s
<1>3. SumOver(am, ToSet(s)) = SumOver(amount, ToSet(s))
  BY <1>2, SumSame
<1>4. Total(am, s) = Total(amount, s)
  BY <1>3, TotalSum, Zenon
<1>5. \A i \in DOMAIN s : am[s[i]] = amount[s[i]]
  BY <1>2 DEF ToSet
<1>6. [i \in DOMAIN s |-> <<s[i], am[s[i]]>>] = [i \in DOMAIN s |-> <<s[i], amount[s[i]]>>]
  BY <1>5
<1> QED
  BY <1>4, <1>6 DEF s, commitment

(* What every step keeps of the vault, but for the books. *)
VaultFacts == VaultTypeOK /\ Planned /\ Staged

RowStates == {"Available", "Reserved", "Spent"}

-----------------------------------------------------------------------------
(* One lemma per action.                                                   *)

(* Whatever leaves the vault alone keeps what is known of it. *)
LEMMA VaultStays == ASSUME VaultFacts, UNCHANGED sweepVars PROVE VaultFacts'
<1>1. /\ amount' = amount /\ unspent' = unspent /\ rows' = rows /\ payout' = payout
      /\ staged' = staged /\ swears' = swears /\ sweep' = sweep /\ ledger' = ledger
      /\ history' = history
  BY DEF sweepVars
<1>2. VaultTypeOK'
  BY <1>1 DEF VaultFacts, VaultTypeOK, Known
<1>3. Planned' /\ Staged'
  BY <1>1 DEF VaultFacts, Planned, Staged, Fits
<1> QED
  BY <1>2, <1>3 DEF VaultFacts

(* The vault's rows alone change. *)
LEMMA RowsStep ==
    ASSUME VaultTypeOK, NEW o \in Operators, NEW r, DOMAIN r \subseteq DOMAIN amount,
           r \in [DOMAIN r -> RowStates], rows' = [rows EXCEPT ![o] = r]
    PROVE  /\ DOMAIN rows' = Operators
           /\ \A p \in Operators : /\ DOMAIN rows'[p] \subseteq DOMAIN amount
                                   /\ rows'[p] \in [DOMAIN rows'[p] -> RowStates]
<1>1. DOMAIN rows = Operators
      /\ \A p \in Operators : /\ DOMAIN rows[p] \subseteq DOMAIN amount
                              /\ rows[p] \in [DOMAIN rows[p] -> RowStates]
  BY DEF VaultTypeOK, Known, RowStates
<1>2. DOMAIN rows' = Operators /\ \A p \in Operators : rows'[p] = IF p = o THEN r ELSE rows[p]
  BY <1>1
<1> QED
  BY <1>1, <1>2

(* An operator syncs its rows with the chain. *)
LEMMA SyncStep ==
    ASSUME VaultFacts, NEW o \in Operators, sync_vault(o) PROVE VaultFacts'
<1> DEFINE r == [u \in Known(o) \cup unspent |->
                  IF u \notin Known(o) THEN "Available"
                  ELSE IF rows[o][u] = "Available" /\ u \notin unspent THEN "Spent"
                  ELSE rows[o][u]]
<1>1. /\ amount' = amount /\ unspent' = unspent /\ payout' = payout
      /\ staged' = staged /\ swears' = swears /\ sweep' = sweep /\ ledger' = ledger
      /\ history' = history /\ rows' = [rows EXCEPT ![o] = r]
  BY DEF sync_vault, coins
<1>2. VaultTypeOK
  BY DEF VaultFacts
<1>3. DOMAIN r \subseteq DOMAIN amount /\ r \in [DOMAIN r -> RowStates]
  <2>1. Known(o) \cup unspent \subseteq DOMAIN amount /\ rows[o] \in [Known(o) -> RowStates]
    BY <1>2 DEF VaultTypeOK, RowStates
  <2> QED BY <2>1 DEF RowStates
<1> HIDE DEF r
<1>4. /\ DOMAIN rows' = Operators
      /\ \A p \in Operators : /\ DOMAIN rows'[p] \subseteq DOMAIN amount
                              /\ rows'[p] \in [DOMAIN rows'[p] -> RowStates]
  BY <1>1, <1>2, <1>3, RowsStep
<1>5. VaultTypeOK'
  BY <1>1, <1>2, <1>4 DEF VaultTypeOK, Known, RowStates
<1>6. Planned' /\ Staged'
  BY <1>1 DEF VaultFacts, Planned, Staged, Fits
<1> QED
  BY <1>5, <1>6 DEF VaultFacts

(* A payout is planned and its inputs reserved. *)
LEMMA BuildStep ==
    ASSUME VaultFacts, NEW o \in Operators, NEW p \in Pays, build(o, p) PROVE VaultFacts'
<1>1. PICK plan \in select(amount, Candidates(o), p) :
          /\ payout' = [pc |-> "planned", plan |-> plan]
          /\ rows' = [rows EXCEPT ![o] = [u \in Known(o) |->
                        IF u \in ToSet(plan.inputs) THEN "Reserved" ELSE rows[o][u]]]
  BY DEF build
<1> DEFINE r == [u \in Known(o) |-> IF u \in ToSet(plan.inputs) THEN "Reserved" ELSE rows[o][u]]
<1>2. /\ amount' = amount /\ unspent' = unspent /\ payout = NoPayout
      /\ staged' = staged /\ swears' = swears /\ sweep' = sweep /\ ledger' = ledger
      /\ history' = history
  BY DEF build, coins
<1>3. VaultTypeOK
  BY DEF VaultFacts
<1>4. plan \in Selections
  <2> DEFINE U == Available(o)  c == Candidates(o)
  <2>1. /\ IsFiniteSet(U) /\ U \subseteq Nat /\ (\A u \in U : amount[u] \in Nat) /\ c \in Seq(U)
        /\ U \subseteq DOMAIN amount
    BY <1>3, CandidateFacts
  <2>2. p \in Nat /\ U \subseteq Ids
    BY <1>3, <2>1, OutputFacts, SweepAssumption
  <2>3. plan \in select(amount, c, p)
    OBVIOUS
  <2> HIDE DEF U, c
  <2>4. /\ plan = [inputs |-> plan.inputs, pay |-> p, fee |-> plan.fee, change |-> plan.change]
        /\ plan.inputs \in Seq(U) /\ plan.fee \in Nat /\ plan.change \in Nat
    BY <2>1, <2>2, <2>3, SelectFacts
  <2>5. plan.inputs \in Seq(Ids)
    BY <2>2, <2>4
  <2> QED BY <2>4, <2>5 DEF Selections
<1>5. DOMAIN r \subseteq DOMAIN amount /\ r \in [DOMAIN r -> RowStates]
  <2>1. Known(o) \subseteq DOMAIN amount /\ rows[o] \in [Known(o) -> RowStates]
    BY <1>3 DEF VaultTypeOK, RowStates
  <2> QED BY <2>1 DEF RowStates
<1>6. rows' = [rows EXCEPT ![o] = r]
  BY <1>1
<1> HIDE DEF r
<1>7. /\ DOMAIN rows' = Operators
      /\ \A q \in Operators : /\ DOMAIN rows'[q] \subseteq DOMAIN amount
                              /\ rows'[q] \in [DOMAIN rows'[q] -> RowStates]
  BY <1>3, <1>5, <1>6, RowsStep
<1>8. payout' \in [pc : {"none", "planned", "paid", "halted"}, plan : Selections \cup {None}]
  BY <1>1, <1>4
<1>9. VaultTypeOK'
  BY <1>2, <1>3, <1>7, <1>8 DEF VaultTypeOK, Known, RowStates
<1>10. Planned'
  BY <1>1, <1>2, <1>4 DEF VaultFacts, Planned, Fits, NoPayout
<1>11. Staged'
  BY <1>2 DEF VaultFacts, Staged
<1> QED
  BY <1>9, <1>10, <1>11 DEF VaultFacts

(* A transaction that fails its verification halts the payout. *)
LEMMA HaltStep == ASSUME VaultFacts, build_halts PROVE VaultFacts'
<1>1. /\ amount' = amount /\ unspent' = unspent /\ rows' = rows
      /\ staged' = staged /\ swears' = swears /\ sweep' = sweep /\ ledger' = ledger
      /\ history' = history /\ payout' = [payout EXCEPT !.pc = "halted"] /\ payout.pc = "planned"
  BY DEF build_halts, coins
<1>2. payout \in [pc : {"none", "planned", "paid", "halted"}, plan : Selections \cup {None}]
  BY DEF VaultFacts, VaultTypeOK
<1>3. /\ payout'.pc = "halted" /\ payout'.plan = payout.plan
      /\ payout' \in [pc : {"none", "planned", "paid", "halted"}, plan : Selections \cup {None}]
  BY <1>1, <1>2
<1>4. VaultTypeOK'
  BY <1>1, <1>3 DEF VaultFacts, VaultTypeOK, Known
<1>5. Planned'
  BY <1>1, <1>3 DEF VaultFacts, Planned, Fits
<1>6. Staged'
  BY <1>1 DEF VaultFacts, Staged
<1> QED
  BY <1>4, <1>5, <1>6 DEF VaultFacts

(* The commitment of a plan over known outputs is well typed. *)
LEMMA CommitmentType ==
    ASSUME VaultTypeOK, NEW plan \in Plans, ToSet(plan.inputs) \subseteq DOMAIN amount
    PROVE  commitment(amount, plan) \in Commitments
<1> DEFINE s == plan.inputs
           t == [i \in DOMAIN s |-> <<s[i], amount[s[i]]>>]
<1>1. s \in Seq(Ids) /\ ToSet(s) \subseteq DOMAIN amount
  BY DEF Plans
<1>2. commitment(amount, plan) = [source |-> VaultKeys, dest |-> plan.dest, fee |-> plan.fee,
                                 swept |-> plan.swept, inputs |-> t]
  BY DEF commitment
<1>3. t \in Seq(Ids \X Nat)
  <2> HIDE DEF s
  <2>1. DOMAIN s = 1..Len(s) /\ Len(s) \in Nat
    BY <1>1
  <2>2. ASSUME NEW i \in 1..Len(s) PROVE <<s[i], amount[s[i]]>> \in Ids \X Nat
    <3>1. s[i] \in ToSet(s) /\ s[i] \in Ids
      BY <1>1, <2>1 DEF ToSet
    <3>2. amount[s[i]] \in Nat
      BY <1>1, <3>1, OutputFacts
    <3> QED BY <3>1, <3>2
  <2>3. t = [i \in 1..Len(s) |-> <<s[i], amount[s[i]]>>]
    BY <2>1
  <2> HIDE DEF t
  <2> QED BY <2>1, <2>2, <2>3
<1> HIDE DEF t
<1> QED
  BY <1>2, <1>3 DEF Commitments, Plans

(* An operator stages the plan of its own rows. *)
LEMMA ApproveStep ==
    ASSUME VaultFacts, NEW o \in Operators, NEW d \in Dests, sweep_approve(o, d) PROVE VaultFacts'
<1>1. PICK plan \in build_plan(o, d) :
          /\ staged' = [staged EXCEPT ![o] =
                           [commitment |-> commitment(amount, plan), expired |-> FALSE]]
          /\ history' = [history EXCEPT !.staged[o] = @ \cup {plan}]
  BY DEF sweep_approve
<1>2. /\ amount' = amount /\ unspent' = unspent /\ rows' = rows /\ payout' = payout
      /\ swears' = swears /\ sweep' = sweep /\ ledger' = ledger
  BY DEF sweep_approve, coins
<1>3. VaultTypeOK /\ Planned /\ Staged
  BY DEF VaultFacts
<1>4. plan \in Plans /\ ToSet(plan.inputs) \subseteq DOMAIN amount
  BY <1>3, BuiltPlan DEF Fits
<1> DEFINE a == [commitment |-> commitment(amount, plan), expired |-> FALSE]
<1>5. a \in SweepApprovals
  BY <1>3, <1>4, CommitmentType DEF SweepApprovals
<1>6. /\ staged \in [Operators -> SweepApprovals \cup {None}]
      /\ history \in [staged : [Operators -> SUBSET Plans], sent : SUBSET Plans]
  BY <1>3 DEF VaultTypeOK
<1>7. /\ history'.sent = history.sent
      /\ history'.staged = [history.staged EXCEPT ![o] = history.staged[o] \cup {plan}]
      /\ history' \in [staged : [Operators -> SUBSET Plans], sent : SUBSET Plans]
  <2> DEFINE h == history.staged  g == [h EXCEPT ![o] = h[o] \cup {plan}]
  <2>1. history' = [history EXCEPT !.staged = g]
    BY <1>1
  <2>2. h \in [Operators -> SUBSET Plans]
    BY <1>6
  <2>3. g \in [Operators -> SUBSET Plans]
    <3> HIDE DEF h
    <3> QED BY <1>4, <2>2
  <2>4. history'.staged = g /\ history'.sent = history.sent
    <3> HIDE DEF g
    <3> QED BY <1>6, <2>1
  <2>5. history' = [staged |-> g, sent |-> history.sent]
    <3> HIDE DEF g
    <3> QED BY <1>6, <2>1
  <2>6. history' \in [staged : [Operators -> SUBSET Plans], sent : SUBSET Plans]
    <3> HIDE DEF g
    <3> QED BY <1>6, <2>3, <2>5
  <2> QED BY <2>4, <2>6
<1>8. \A q \in Operators :
        /\ history'.staged[q] = IF q = o THEN history.staged[q] \cup {plan} ELSE history.staged[q]
        /\ staged'[q] = IF q = o THEN a ELSE staged[q]
  BY <1>1, <1>6, <1>7
<1>9. staged' \in [Operators -> SweepApprovals \cup {None}]
  <2> HIDE DEF a
  <2> QED BY <1>1, <1>5, <1>6 DEF a
<1>10. VaultTypeOK'
  BY <1>2, <1>3, <1>7, <1>9 DEF VaultTypeOK, Known
<1>11. Planned'
  <2>1. \A q \in Operators : \A r \in history'.staged[q] : ToSet(r.inputs) \subseteq DOMAIN amount'
    BY <1>2, <1>3, <1>4, <1>8 DEF Planned
  <2> QED BY <1>2, <1>3, <2>1 DEF Planned, Fits
<1>12. Staged'
  <2>1. ASSUME NEW q \in Operators, staged'[q] # None
        PROVE  \E r \in history'.staged[q] : staged'[q].commitment = commitment(amount', r)
    <3>1. CASE q = o
      <4>1. a.commitment = commitment(amount, plan)
        OBVIOUS
      <4>2. staged'[q] = a /\ plan \in history'.staged[q]
        BY <1>8, <3>1
      <4> HIDE DEF a
      <4> QED BY <1>2, <4>1, <4>2
    <3>2. CASE q # o
      BY <1>2, <1>3, <1>8, <2>1, <3>2 DEF Staged
    <3> QED BY <3>1, <3>2
  <2>2. sweep.partials \in Seq(Operators)
    BY <1>3 DEF VaultTypeOK
  <2>3. \A i \in DOMAIN sweep.partials : sweep.partials[i] \in Operators
    <3> DEFINE b == sweep.partials
    <3> HIDE DEF b
    <3>1. \A i \in DOMAIN b : b[i] \in Operators
      BY <2>2 DEF b
    <3> QED BY <3>1 DEF b
  <2>4. sweep.pc = "asking" =>
          \A i \in DOMAIN sweep.partials : sweep.plan \in history'.staged[sweep.partials[i]]
    BY <1>3, <1>8, <2>3 DEF Staged
  <2> QED BY <1>2, <2>1, <2>4 DEF Staged
<1> QED
  BY <1>10, <1>11, <1>12 DEF VaultFacts

(* An approval that ends, or that nobody may use any more. *)
LEMMA WithdrawStep ==
    ASSUME VaultFacts, NEW o \in Operators, sweep_revoke(o) \/ SweepApprovalExpires(o)
    PROVE  VaultFacts'
<1> DEFINE x == staged[o]
<1>1. /\ amount' = amount /\ unspent' = unspent /\ rows' = rows /\ payout' = payout
      /\ swears' = swears /\ sweep' = sweep /\ ledger' = ledger /\ history' = history
      /\ x # None
  BY DEF sweep_revoke, SweepApprovalExpires, coins
<1>2. VaultTypeOK /\ Planned /\ Staged /\ staged \in [Operators -> SweepApprovals \cup {None}]
  BY DEF VaultFacts, VaultTypeOK
<1>3. PICK y : /\ staged' = [staged EXCEPT ![o] = y]
               /\ y = None \/ y = [x EXCEPT !.expired = TRUE]
  BY DEF sweep_revoke, SweepApprovalExpires
<1>4. x \in SweepApprovals
  BY <1>1, <1>2
<1> HIDE DEF x
<1>5. y = None \/ (y \in SweepApprovals /\ y.commitment = x.commitment)
  BY <1>3, <1>4 DEF SweepApprovals
<1>6. /\ staged' \in [Operators -> SweepApprovals \cup {None}]
      /\ \A q \in Operators : staged'[q] = IF q = o THEN y ELSE staged[q]
  BY <1>2, <1>3, <1>5
<1>7. VaultTypeOK'
  BY <1>1, <1>2, <1>6 DEF VaultTypeOK, Known
<1>8. Planned'
  BY <1>1, <1>2 DEF Planned, Fits
<1>9. ASSUME NEW q \in Operators, staged'[q] # None
      PROVE  \E r \in history'.staged[q] : staged'[q].commitment = commitment(amount', r)
  <2>1. staged[q] # None /\ staged'[q].commitment = staged[q].commitment
    BY <1>1, <1>5, <1>6, <1>9 DEF x
  <2> QED BY <1>1, <1>2, <2>1 DEF Staged
<1>10. Staged'
  BY <1>1, <1>2, <1>9 DEF Staged
<1> QED
  BY <1>7, <1>8, <1>10 DEF VaultFacts

(* A signer that restarts forgets what it signed. *)
LEMMA SignerRestartStep ==
    ASSUME VaultFacts, NEW o \in Operators, SweepSignerRestarts(o) PROVE VaultFacts'
<1>1. /\ amount' = amount /\ unspent' = unspent /\ rows' = rows /\ payout' = payout
      /\ staged' = staged /\ sweep' = sweep /\ ledger' = ledger /\ history' = history
      /\ swears' = [swears EXCEPT ![o] = None]
  BY DEF SweepSignerRestarts, coins
<1>2. swears' \in [Operators -> Commitments \cup {None}]
  BY <1>1 DEF VaultFacts, VaultTypeOK
<1>3. VaultTypeOK'
  BY <1>1, <1>2 DEF VaultFacts, VaultTypeOK, Known
<1>4. Planned' /\ Staged'
  BY <1>1 DEF VaultFacts, Planned, Staged, Fits
<1> QED
  BY <1>3, <1>4 DEF VaultFacts

(* A sweep begins. *)
LEMMA ExecuteStep ==
    ASSUME GovernanceTypeOK, VaultFacts, NEW o \in Operators, NEW d \in Dests, sweep_execute(o, d)
    PROVE  VaultFacts'
<1>1. PICK plan \in build_plan(o, d) :
          sweep' = [pc |-> "asking", plan |-> plan, epoch |-> set.epoch,
                    todo |-> DesignatedSigners, partials |-> <<>>]
  BY DEF sweep_execute
<1>2. /\ amount' = amount /\ unspent' = unspent /\ rows' = rows /\ payout' = payout
      /\ staged' = staged /\ swears' = swears /\ ledger' = ledger /\ history' = history
  BY DEF sweep_execute, coins
<1>3. VaultTypeOK /\ Planned /\ Staged
  BY DEF VaultFacts
<1>4. Fits(plan) /\ plan \in Plans
  BY <1>3, BuiltPlan DEF Fits
<1>5. set.validators \in Seq(Keys) /\ set.epoch \in Nat
  BY DEF GovernanceTypeOK
<1>6. DesignatedSigners \in Seq([validator : Keys, key : Operators])
  <2> DEFINE v == set.validators  a == Len(v)  b == Len(VaultKeys)  n == Min({a, b})
             D == [i \in 1..n |-> [validator |-> v[i], key |-> VaultKeys[i]]]
  <2>1. v \in Seq(Keys) /\ VaultKeys \in Seq(Operators)
    BY <1>5, OperatorFacts
  <2> HIDE DEF v
  <2>2. a \in Nat /\ b \in Nat
    BY <2>1
  <2> HIDE DEF a, b
  <2>3. n \in {a, b} /\ n <= a /\ n <= b
    <3>1. {a, b} \subseteq Nat /\ {a, b} # {}
      BY <2>2
    <3> QED BY <3>1, LeastNumber
  <2> HIDE DEF n
  <2>4. n \in Nat /\ 1..n \subseteq 1..a /\ 1..n \subseteq 1..b
    BY <2>2, <2>3
  <2>5. \A i \in 1..n : v[i] \in Keys /\ VaultKeys[i] \in Operators
    BY <2>1, <2>4 DEF a, b
  <2>6. D \in Seq([validator : Keys, key : Operators])
    BY <2>4, <2>5
  <2>7. DesignatedSigners = D
    BY Zenon DEF DesignatedSigners, D, n, a, b, v
  <2> QED BY <2>6, <2>7
<1>7. <<>> \in Seq(Operators)
  OBVIOUS
<1>8. sweep' \in [pc : {"rest", "asking"}, plan : Plans \cup {None}, epoch : Nat,
                 todo : Seq([validator : Keys, key : Operators]), partials : Seq(Operators)]
  <2> DEFINE t == DesignatedSigners  e == set.epoch
  <2> HIDE DEF t, e
  <2>1. sweep' = [pc |-> "asking", plan |-> plan, epoch |-> e, todo |-> t, partials |-> <<>>]
    BY <1>1 DEF t, e
  <2> QED BY <1>4, <1>5, <1>6, <1>7, <2>1 DEF t, e
<1>9. VaultTypeOK'
  BY <1>2, <1>3, <1>8 DEF VaultTypeOK, Known
<1>10. sweep'.plan = plan /\ sweep'.partials = <<>>
  BY <1>1
<1>11. Fits(plan)'
  BY <1>2, <1>4 DEF Fits
<1>12. Planned'
  BY <1>2, <1>3, <1>10, <1>11 DEF Planned, Fits
<1>13. Staged'
  <2>1. DOMAIN <<>> = {}
    OBVIOUS
  <2> QED BY <1>2, <1>3, <1>10, <2>1 DEF Staged
<1> QED
  BY <1>9, <1>12, <1>13 DEF VaultFacts

(* A signer that signs has staged what it signs: its rows value the        *)
(* transaction, and the approval on file is for that plan alone.           *)
LEMMA WillingFacts ==
    ASSUME VaultFacts, NEW o \in Operators, NEW plan \in Plans, WillingToSweep(o, SweepTx(plan))
    PROVE  /\ ToSet(plan.inputs) \subseteq DOMAIN amount
           /\ Fits(plan) => plan \in history.staged[o]
<1> DEFINE tx == SweepTx(plan)
<1>1. /\ tx.inputs = plan.inputs /\ Len(tx.outputs) = 1
      /\ tx.outputs[1].value = plan.swept /\ tx.outputs[1].script = plan.dest
  BY DEF SweepTx, Output
<1>2. PICK q \in plan_from_local_view(amount, Available(o), tx) : SweepApproved(o, q)
  BY DEF WillingToSweep
<1> DEFINE t == Total(amount, plan.inputs)
<1>3. /\ ToSet(plan.inputs) \subseteq Available(o) /\ plan.swept <= t
      /\ q = [inputs |-> plan.inputs, dest |-> plan.dest, fee |-> t - plan.swept,
              swept |-> plan.swept]
  BY <1>1, <1>2 DEF plan_from_local_view
<1>4. VaultTypeOK /\ Staged /\ history.staged \in [Operators -> SUBSET Plans]
  BY DEF VaultFacts, VaultTypeOK
<1>5. ToSet(plan.inputs) \subseteq DOMAIN amount
  BY <1>3, <1>4, CandidateFacts
<1>6. t \in Nat
  <2>1. t = SumOver(amount, ToSet(plan.inputs))
    BY TotalSum, Zenon
  <2> QED BY <1>4, <1>5, <2>1, TotalNat
<1>7. plan.swept \in Nat /\ plan.fee \in Nat
      /\ plan = [inputs |-> plan.inputs, dest |-> plan.dest, fee |-> plan.fee, swept |-> plan.swept]
  BY DEF Plans
<1> HIDE DEF t, tx
<1>8. t - plan.swept \in Nat
  BY <1>3, <1>6, <1>7
<1>9. q \in Plans /\ q.inputs = plan.inputs
  BY <1>3, <1>8 DEF Plans
<1>10. ASSUME Fits(plan) PROVE plan \in history.staged[o]
  <2>1. q = plan
    <3>1. plan.fee + plan.swept = t
      BY <1>10 DEF Fits, t
    <3>2. plan.fee = t - plan.swept
      BY <1>6, <1>7, <3>1
    <3> QED BY <1>3, <1>7, <3>2
  <2> DEFINE a == [commitment |-> commitment(amount, plan), expired |-> FALSE]
  <2>2. staged[o] = a
    BY <1>2, <2>1 DEF SweepApproved
  <2>3. a \in SweepApprovals
    BY <1>4, <1>5, CommitmentType DEF SweepApprovals
  <2>4. a # None
    BY <2>3, SweepAssumption
  <2>5. a.commitment = commitment(amount, plan)
    OBVIOUS
  <2> HIDE DEF a
  <2>6. PICK r \in history.staged[o] : staged[o].commitment = commitment(amount, r)
    BY <1>4, <2>2, <2>4 DEF Staged
  <2>7. r \in Plans /\ commitment(amount, r) = commitment(amount, plan)
    BY <1>4, <2>2, <2>5, <2>6
  <2>8. r = plan
    BY <2>7, SameCommitment
  <2> QED BY <2>6, <2>8
<1> QED
  BY <1>5, <1>10

(* An answer: one peer less to ask. *)
LEMMA AnswerStep ==
    ASSUME VaultFacts, AskingSweep, NEW p \in Seq(Operators), AskedSweep(p),
           \A i \in DOMAIN p : sweep.plan \in history.staged[p[i]],
           swears' \in [Operators -> Commitments \cup {None}],
           UNCHANGED <<coins, rows, payout, staged, ledger, history>>
    PROVE  VaultFacts'
<1>1. /\ amount' = amount /\ unspent' = unspent /\ rows' = rows /\ payout' = payout
      /\ staged' = staged /\ ledger' = ledger /\ history' = history
  BY DEF coins
<1>2. VaultTypeOK /\ Planned /\ Staged
  BY DEF VaultFacts
<1> DEFINE t == sweep.todo  T == [validator : Keys, key : Operators]
<1>3. /\ sweep \in [pc : {"rest", "asking"}, plan : Plans \cup {None}, epoch : Nat,
                   todo : Seq(T), partials : Seq(Operators)]
      /\ t \in Seq(T) /\ t # <<>> /\ sweep.pc = "asking"
  BY <1>2 DEF VaultTypeOK, AskingSweep
<1>4. Tail(t) \in Seq(T)
  <2> HIDE DEF t, T
  <2> QED BY <1>3
<1>5. sweep' = [pc |-> sweep.pc, plan |-> sweep.plan, epoch |-> sweep.epoch, todo |-> Tail(t),
                partials |-> p]
  <2>1. sweep' = [sweep EXCEPT !.todo = Tail(t), !.partials = p]
    BY DEF AskedSweep
  <2> DEFINE x == Tail(t)
  <2> HIDE DEF T, x
  <2> QED BY <1>3, <2>1 DEF x
<1>6. sweep' \in [pc : {"rest", "asking"}, plan : Plans \cup {None}, epoch : Nat,
                 todo : Seq(T), partials : Seq(Operators)]
  <2> DEFINE x == Tail(t)
  <2> HIDE DEF T, x
  <2> QED BY <1>3, <1>4, <1>5 DEF x
<1>7. VaultTypeOK'
  BY <1>1, <1>2, <1>6 DEF VaultTypeOK, Known
<1>8. sweep'.plan = sweep.plan /\ sweep'.partials = p /\ sweep'.pc = sweep.pc
  BY <1>5
<1>9. Planned'
  BY <1>1, <1>2, <1>8 DEF Planned, Fits
<1>10. Staged'
  BY <1>1, <1>2, <1>8 DEF Staged
<1> QED
  BY <1>7, <1>9, <1>10 DEF VaultFacts

(* A signature is a commitment on record. *)
LEMMA SignType ==
    ASSUME VaultFacts, NEW o \in Operators, NEW plan \in Plans,
           WillingToSweep(o, SweepTx(plan)), sign_sweep(o, plan)
    PROVE  swears' \in [Operators -> Commitments \cup {None}]
<1>1. VaultTypeOK /\ swears \in [Operators -> Commitments \cup {None}]
  BY DEF VaultFacts, VaultTypeOK
<1>2. commitment(amount, plan) \in Commitments
  BY <1>1, WillingFacts, CommitmentType
<1> QED
  BY <1>1, <1>2 DEF sign_sweep

(* A signer is asked, whatever it answers. *)
LEMMA AskStep ==
    ASSUME VaultFacts, ask_sweep \/ ask_sweep_refused \/ ask_sweep_unavailable PROVE VaultFacts'
<1>1. /\ AskingSweep
      /\ UNCHANGED <<coins, rows, payout, staged, ledger, history>>
  BY DEF ask_sweep, ask_sweep_refused, ask_sweep_unavailable
<1>2. VaultTypeOK /\ Planned /\ Staged /\ sweep.pc = "asking"
  BY <1>1 DEF VaultFacts, AskingSweep
<1> DEFINE p == sweep.partials
<1>3. /\ p \in Seq(Operators) /\ (\A i \in DOMAIN p : sweep.plan \in history.staged[p[i]])
      /\ sweep.plan \in Plans /\ Fits(sweep.plan)
      /\ swears \in [Operators -> Commitments \cup {None}]
  BY <1>2 DEF VaultTypeOK, Staged, Planned, Fits
<1>4. ASSUME CanSweep, sign_sweep(SweepPeer, sweep.plan)
      PROVE  swears' \in [Operators -> Commitments \cup {None}]
  BY <1>3, <1>4, SignType DEF CanSweep
<1>5. CASE AskedSweep(p) /\ (swears' = swears \/ (CanSweep /\ sign_sweep(SweepPeer, sweep.plan)))
  <2> HIDE DEF p
  <2>1. swears' \in [Operators -> Commitments \cup {None}]
    BY <1>3, <1>4, <1>5
  <2> QED BY <1>1, <1>3, <1>5, <2>1, AnswerStep
<1>6. CASE ask_sweep
  <2> DEFINE v == SweepPeer  q == accept_payout(p)
  <2>1. CanSweep /\ sign_sweep(v, sweep.plan) /\ AskedSweep(q)
    BY <1>6 DEF ask_sweep
  <2>2. v \in Operators /\ sweep.plan \in history.staged[v]
    BY <1>3, <2>1, WillingFacts DEF CanSweep
  <2>3. q = p \/ q = Append(p, v)
    BY DEF accept_payout
  <2> HIDE DEF v, p, q
  <2>4. q \in Seq(Operators) /\ \A i \in DOMAIN q : sweep.plan \in history.staged[q[i]]
    <3>1. CASE q = p
      BY <1>3, <3>1
    <3>2. CASE q = Append(p, v)
      <4>1. /\ Append(p, v) \in Seq(Operators)
            /\ DOMAIN Append(p, v) = 1..(Len(p) + 1) /\ DOMAIN p = 1..Len(p) /\ Len(p) \in Nat
            /\ \A i \in 1..Len(p) : Append(p, v)[i] = p[i]
            /\ Append(p, v)[Len(p) + 1] = v
        BY <1>3, <2>2
      <4>2. \A i \in 1..(Len(p) + 1) : i \in 1..Len(p) \/ i = Len(p) + 1
        BY <4>1
      <4> QED BY <1>3, <2>2, <3>2, <4>1, <4>2
    <3> QED BY <2>3, <3>1, <3>2
  <2>5. swears' \in [Operators -> Commitments \cup {None}]
    BY <1>4, <2>1 DEF v
  <2> QED BY <1>1, <2>1, <2>4, <2>5, AnswerStep
<1> QED
  BY <1>5, <1>6 DEF ask_sweep_refused, ask_sweep_unavailable

(* Somebody else asks a signer. *)
LEMMA PeerStep ==
    ASSUME VaultFacts, NEW o \in Operators, NEW plan \in ForeignPlans, PeerAsksForSweep(o, plan)
    PROVE  VaultFacts'
<1>1. /\ amount' = amount /\ unspent' = unspent /\ rows' = rows /\ payout' = payout
      /\ staged' = staged /\ sweep' = sweep /\ ledger' = ledger /\ history' = history
      /\ WillingToSweep(o, SweepTx(plan)) /\ sign_sweep(o, plan)
  BY DEF PeerAsksForSweep, coins
<1>2. plan \in Plans
  BY DEF ForeignPlans
<1>3. swears' \in [Operators -> Commitments \cup {None}]
  BY <1>1, <1>2, SignType
<1>4. VaultTypeOK'
  BY <1>1, <1>3 DEF VaultFacts, VaultTypeOK, Known
<1>5. Planned' /\ Staged'
  BY <1>1 DEF VaultFacts, Planned, Staged, Fits
<1> QED
  BY <1>4, <1>5 DEF VaultFacts

(* The command rests. *)
LEMMA RestType ==
    NoSweep \in [pc : {"rest", "asking"}, plan : Plans \cup {None}, epoch : Nat,
                 todo : Seq([validator : Keys, key : Operators]), partials : Seq(Operators)]
<1> DEFINE T == [validator : Keys, key : Operators]
<1>1. <<>> \in Seq(T) /\ <<>> \in Seq(Operators)
  <2> HIDE DEF T
  <2> QED OBVIOUS
<1> HIDE DEF T
<1>2. NoSweep \in [pc : {"rest", "asking"}, plan : Plans \cup {None}, epoch : Nat,
                 todo : Seq(T), partials : Seq(Operators)]
  BY <1>1 DEF NoSweep
<1> QED
  BY <1>2 DEF T

(* A sweep that ends, one way or the other. *)
LEMMA SweepEndStep ==
    ASSUME VaultFacts, sweep_falls_short \/ SweepSpends PROVE VaultFacts'
<1>1. /\ amount' = amount /\ rows' = rows /\ payout' = payout /\ staged' = staged
      /\ swears' = swears /\ sweep' = NoSweep /\ sweep.pc = "asking"
  BY DEF sweep_falls_short, SweepSpends, Collected, coins
<1>2. VaultTypeOK /\ Planned /\ Staged /\ sweep.plan \in Plans
  BY <1>1 DEF VaultFacts, Planned, Fits
<1> DEFINE plan == sweep.plan
<1>3. \/ unspent' = unspent /\ ledger' = ledger /\ history' = history
      \/ /\ unspent' = unspent \ ToSet(plan.inputs)
         /\ ledger' = [ledger EXCEPT !.swept = @ + plan.swept, !.fees = @ + plan.fee]
         /\ history' = [history EXCEPT !.sent = @ \cup {plan}]
  BY DEF sweep_falls_short, SweepSpends, coins
<1>4. /\ plan \in Plans /\ plan.swept \in Nat /\ plan.fee \in Nat
      /\ ledger \in [deposited : Nat, paid : Nat, fees : Nat, swept : Nat]
      /\ history \in [staged : [Operators -> SUBSET Plans], sent : SUBSET Plans]
      /\ unspent \subseteq DOMAIN amount
  BY <1>2 DEF VaultTypeOK, Plans
<1> HIDE DEF plan
<1>5. /\ ledger' \in [deposited : Nat, paid : Nat, fees : Nat, swept : Nat]
      /\ ledger'.paid = ledger.paid
  <2>1. \/ ledger' = ledger
        \/ ledger' = [deposited |-> ledger.deposited, paid |-> ledger.paid,
                      fees |-> ledger.fees + plan.fee, swept |-> ledger.swept + plan.swept]
    BY <1>3, <1>4
  <2>2. ledger.fees + plan.fee \in Nat /\ ledger.swept + plan.swept \in Nat
    BY <1>4
  <2> QED BY <1>4, <2>1, <2>2
<1>6. /\ history' \in [staged : [Operators -> SUBSET Plans], sent : SUBSET Plans]
      /\ history'.staged = history.staged
  <2> DEFINE h == history.staged  S == [Operators -> SUBSET Plans]
  <2>1. h \in S /\ history.sent \in SUBSET Plans /\ history = [staged |-> h, sent |-> history.sent]
    BY <1>4
  <2>2. history' = history \/ history' = [staged |-> h, sent |-> history.sent \cup {plan}]
    <3> HIDE DEF S
    <3> QED BY <1>3, <1>4
  <2> HIDE DEF h, S
  <2>3. history' \in [staged : S, sent : SUBSET Plans] /\ history'.staged = h
    BY <1>4, <2>1, <2>2
  <2> QED BY <2>3 DEF h, S
<1>7. unspent' \subseteq DOMAIN amount
  BY <1>3, <1>4
<1>8. VaultTypeOK'
  BY <1>1, <1>2, <1>5, <1>6, <1>7, RestType DEF VaultTypeOK, Known
<1>9. sweep'.pc # "asking"
  BY <1>1 DEF NoSweep
<1>10. Planned'
  BY <1>1, <1>2, <1>5, <1>6, <1>9 DEF Planned, Fits
<1>11. Staged'
  BY <1>1, <1>2, <1>6, <1>9 DEF Staged
<1> QED
  BY <1>8, <1>10, <1>11 DEF VaultFacts

-----------------------------------------------------------------------------
(* What the node built, once it has been verified.                         *)

(* A sum over a transaction's outputs. *)
Worth(outs, S) == MapThenSumSet(LAMBDA i : outs[i].value, S)

(* What outputs are worth is a sum. *)
LEMMA ValueSum ==
    ASSUME NEW outs, NEW S
    PROVE  Worth(outs, S) = SumOver([i \in S |-> outs[i].value], S)
<1> DEFINE V == [i \in S |-> outs[i].value]
           a(f, s) == IF s = {} THEN 0 ELSE outs[Pick(s)].value + f[s \ {Pick(s)}]
           b(f, s) == IF s = {} THEN 0 ELSE V[Pick(s)] + f[s \ {Pick(s)}]
           A(f) == f = [s \in SUBSET S |-> a(f, s)]
           B(f) == f = [s \in SUBSET S |-> b(f, s)]
<1>1. ASSUME NEW f PROVE A(f) <=> B(f)
  <2>1. \A s \in SUBSET S : s # {} => V[Pick(s)] = outs[Pick(s)].value
    BY Picked
  <2>2. \A s \in SUBSET S : a(f, s) = b(f, s)
    <3> HIDE DEF V
    <3> QED BY <2>1
  <2>3. [s \in SUBSET S |-> a(f, s)] = [s \in SUBSET S |-> b(f, s)]
    <3> HIDE DEF a, b
    <3> QED BY <2>2
  <2> HIDE DEF a, b
  <2> QED BY <2>3
<1>2. (CHOOSE f : A(f)) = (CHOOSE f : B(f))
  <2> HIDE DEF A, B
  <2> QED BY <1>1, Zenon
<1> QED
  BY <1>2, Zenon DEF Worth, MapThenSumSet, MapThenFoldSet, Pick, SumOver, Summing, IsSum

(* No output, or one. *)
LEMMA NoValue == ASSUME NEW outs PROVE Worth(outs, {}) = 0
  BY ValueSum, SumEmpty

(* One output is worth its value. *)
LEMMA OneValue ==
    ASSUME NEW outs, NEW d, outs[d].value \in Int PROVE Worth(outs, {d}) = outs[d].value
<1> DEFINE V == [i \in {d} |-> outs[i].value]
<1>1. V[d] = outs[d].value
  OBVIOUS
<1>2. Worth(outs, {d}) = SumOver(V, {d})
  BY ValueSum, Zenon
<1> HIDE DEF V
<1>3. IsFiniteSet({}) /\ d \notin {} /\ \A y \in {} \cup {d} : V[y] \in Int
  BY <1>1, FS_EmptySet
<1>4. SumOver(V, {} \cup {d}) = V[d] + SumOver(V, {})
  BY <1>3, SumAdd, Zenon
<1>5. {} \cup {d} = {d}
  OBVIOUS
<1> QED
  BY <1>1, <1>2, <1>4, <1>5, SumEmpty

(* A verified payout pays the user the plan's amount and the vault the     *)
(* plan's change, whatever the node was asked and whatever it answered.    *)
LEMMA VerifiedPayout ==
    ASSUME NEW am, NEW plan \in Selections, NEW tx \in Built(plan), verify_payout_tx(am, tx, plan)
    PROVE  /\ tx.inputs = plan.inputs /\ Paid(tx) = plan.pay /\ Returned(tx) = plan.change
           /\ Total(am, plan.inputs) = plan.pay + plan.change + plan.fee
<1> DEFINE outs == tx.outputs  O == [script : {"user", "vault"}, value : Int]
           user == FirstTo(tx, "user", {})  vault == FirstTo(tx, "vault", {})
           d == Min(user)  other == FirstTo(tx, "vault", {d})  c == Min(other)
<1>1. plan.pay \in Nat /\ plan.change \in Nat
  BY SweepAssumption DEF Selections
<1>2. outs \in Seq(O)
  <2> DEFINE toUser == Output("user", plan.pay)  toVault == Output("vault", plan.change)
             asked == IF plan.change > 0 THEN <<toUser, toVault>> ELSE <<toUser>>
             extra == Output("vault", 1)  less == Output("user", plan.pay - 1)
  <2>1. toUser \in O /\ toVault \in O /\ extra \in O /\ less \in O
    <3>1. plan.pay \in Int /\ plan.change \in Int /\ plan.pay - 1 \in Int
      BY <1>1
    <3> QED BY <3>1 DEF Output
  <2>2. outs \in {asked, Reverse(asked), <<toUser>>, Append(asked, extra), <<less, toVault>>}
    BY DEF Built
  <2> HIDE DEF toUser, toVault, extra, less, O, outs
  <2>3. asked \in Seq(O) /\ <<toUser>> \in Seq(O) /\ <<less, toVault>> \in Seq(O)
    BY <2>1
  <2> HIDE DEF asked
  <2>4. Append(asked, extra) \in Seq(O)
    BY <2>1, <2>3
  <2>5. Reverse(asked) \in Seq(O)
    <3>1. Len(asked) \in Nat /\ \A i \in 1..Len(asked) : asked[i] \in O
      BY <2>3
    <3>2. \A i \in 1..Len(asked) : asked[(Len(asked) - i) + 1] \in O
      BY <3>1
    <3>3. Reverse(asked) = [i \in 1..Len(asked) |-> asked[(Len(asked) - i) + 1]]
      BY DEF Reverse
    <3> QED BY <3>1, <3>2, <3>3
  <2> QED BY <2>2, <2>3, <2>4, <2>5
<1>3. /\ DOMAIN outs = 1..Len(outs) /\ Len(outs) \in Nat /\ DOMAIN outs \subseteq Nat
      /\ \A i \in DOMAIN outs : outs[i].value \in Int /\ outs[i].script \in {"user", "vault"}
  <2> HIDE DEF outs, O
  <2>1. /\ DOMAIN outs = 1..Len(outs) /\ Len(outs) \in Nat /\ DOMAIN outs \subseteq Nat
        /\ \A i \in DOMAIN outs : outs[i] \in O
    BY <1>2
  <2>2. \A x \in O : x.value \in Int /\ x.script \in {"user", "vault"}
    BY DEF O
  <2> QED BY <2>1, <2>2
<1>4. /\ tx.inputs = plan.inputs
      /\ Len(outs) = IF plan.change > 0 THEN 2 ELSE 1
      /\ user # {} /\ outs[d].value = plan.pay
      /\ plan.change > 0 => other # {} /\ outs[c].value = plan.change
      /\ plan.change > 0 \/ \A i \in DOMAIN outs : outs[i].script = "user"
      /\ Total(am, plan.inputs) = plan.pay + plan.change + plan.fee
  BY DEF verify_payout_tx
<1>5. /\ \A i : i \in user <=> i \in DOMAIN outs /\ outs[i].script = "user"
      /\ \A i : i \in vault <=> i \in DOMAIN outs /\ outs[i].script = "vault"
      /\ \A i : i \in other <=> i \in DOMAIN outs /\ outs[i].script = "vault" /\ i # d
  <2> HIDE DEF d
  <2> QED BY DEF FirstTo
<1>6. d \in user
  <2>1. user \subseteq Nat
    BY <1>3, <1>5
  <2> HIDE DEF user
  <2> QED BY <1>4, <2>1, LeastNumber
<1>7. Paid(tx) = Worth(outs, user) /\ Returned(tx) = Worth(outs, vault)
  BY Zenon DEF Paid, Returned, Worth
<1>8. CASE plan.change > 0
  <2>1. c \in other
    <3>1. other \subseteq Nat /\ other # {}
      BY <1>3, <1>4, <1>5, <1>8
    <3> HIDE DEF other
    <3> QED BY <3>1, LeastNumber
  <2>2. DOMAIN outs = {1, 2}
    BY <1>3, <1>4, <1>8
  <2>3. user = {d} /\ vault = {c}
    <3> HIDE DEF outs, user, vault, other, d, c
    <3> QED BY <1>5, <1>6, <2>1, <2>2
  <2>4. outs[d].value \in Int /\ outs[c].value \in Int
    <3> HIDE DEF outs, user, vault, other, d, c
    <3> QED BY <1>3, <1>5, <1>6, <2>1
  <2>5. Worth(outs, {d}) = outs[d].value /\ Worth(outs, {c}) = outs[c].value
    <3> HIDE DEF outs, d, c
    <3> QED BY <2>4, OneValue
  <2>6. Paid(tx) = outs[d].value /\ Returned(tx) = outs[c].value
    <3> HIDE DEF outs, user, vault, d, c
    <3> QED BY <1>7, <2>3, <2>5, Zenon
  <2> QED BY <1>4, <1>8, <2>6
<1>9. CASE ~(plan.change > 0)
  <2>1. plan.change = 0
    BY <1>1, <1>9
  <2>2. DOMAIN outs = {1}
    BY <1>3, <1>4, <1>9
  <2>3. user = {d} /\ vault = {}
    <3>1. \A i \in DOMAIN outs : outs[i].script = "user"
      BY <1>4, <1>9
    <3> HIDE DEF outs, user, vault, other, d, c
    <3> QED BY <1>5, <1>6, <2>2, <3>1
  <2>4. outs[d].value \in Int
    <3> HIDE DEF outs, user, vault, other, d, c
    <3> QED BY <1>3, <1>5, <1>6
  <2>5. Worth(outs, {d}) = outs[d].value /\ Worth(outs, {}) = 0
    <3> HIDE DEF outs, d, c
    <3> QED BY <2>4, OneValue, NoValue
  <2>6. Paid(tx) = outs[d].value /\ Returned(tx) = 0
    <3> HIDE DEF outs, user, vault, d, c
    <3> QED BY <1>7, <2>3, <2>5, Zenon
  <2> QED BY <1>4, <2>1, <2>6
<1> QED
  BY <1>8, <1>9

-----------------------------------------------------------------------------
(* The vault's outputs change.                                             *)

(* A new output takes the next number and leaves the others alone. *)
LEMMA AppendFacts ==
    ASSUME VaultTypeOK, NEW x \in Nat \ {0}, Len(amount) < Cardinality(Ids)
    PROVE  /\ Append(amount, x) \in Seq(Nat \ {0})
           /\ DOMAIN Append(amount, x) = DOMAIN amount \cup {Len(amount) + 1}
           /\ DOMAIN Append(amount, x) \subseteq Ids
           /\ Len(amount) + 1 \notin DOMAIN amount
           /\ \A u \in DOMAIN amount : Append(amount, x)[u] = amount[u]
           /\ Append(amount, x)[Len(amount) + 1] = x
<1> DEFINE n == Len(amount)  a == Append(amount, x)
<1>1. amount \in Seq(Nat \ {0}) /\ DOMAIN amount \subseteq Ids
  BY DEF VaultTypeOK
<1>2. DOMAIN amount = 1..n /\ n \in Nat
  BY <1>1
<1>3. /\ a \in Seq(Nat \ {0}) /\ DOMAIN a = 1..(n + 1)
      /\ (\A u \in 1..n : a[u] = amount[u]) /\ a[n + 1] = x
  BY <1>1
<1>4. n + 1 \in Ids
  <2>1. Cardinality(Ids) \in Nat /\ Ids = 1..Cardinality(Ids)
    BY SweepAssumption, FS_CardinalityType
  <2> HIDE DEF n
  <2>2. n + 1 \in 1..Cardinality(Ids)
    BY <1>2, <2>1 DEF n
  <2> QED BY <2>1, <2>2
<1>5. 1..(n + 1) = 1..n \cup {n + 1} /\ n + 1 \notin 1..n
  <2> HIDE DEF n
  <2> QED BY <1>2
<1> QED
  BY <1>1, <1>2, <1>3, <1>4, <1>5

(* An output more does not disturb what was planned or staged before it. *)
LEMMA CoinsStep ==
    ASSUME VaultFacts,
           \/ amount' = amount
           \/ \E x \in Nat \ {0} : Len(amount) < Cardinality(Ids) /\ amount' = Append(amount, x),
           unspent' \subseteq DOMAIN amount',
           payout' \in [pc : {"none", "planned", "paid", "halted"}, plan : Selections \cup {None}],
           payout'.pc # "none" => payout'.plan \in Selections,
           payout'.pc # "paid" => ledger'.paid = 0,
           ledger' \in [deposited : Nat, paid : Nat, fees : Nat, swept : Nat],
           UNCHANGED <<rows, staged, swears, sweep, history>>
    PROVE  VaultFacts'
<1>1. VaultTypeOK /\ Planned /\ Staged
  BY DEF VaultFacts
<1>2. /\ amount' \in Seq(Nat \ {0}) /\ DOMAIN amount \subseteq DOMAIN amount'
      /\ DOMAIN amount' \subseteq Ids /\ \A u \in DOMAIN amount : amount'[u] = amount[u]
  <2>1. CASE amount' = amount
    BY <1>1, <2>1 DEF VaultTypeOK
  <2>2. ASSUME NEW x \in Nat \ {0}, Len(amount) < Cardinality(Ids), amount' = Append(amount, x)
        PROVE  /\ amount' \in Seq(Nat \ {0}) /\ DOMAIN amount \subseteq DOMAIN amount'
               /\ DOMAIN amount' \subseteq Ids /\ \A u \in DOMAIN amount : amount'[u] = amount[u]
    BY <1>1, <2>2, AppendFacts
  <2> QED BY <2>1, <2>2
<1>3. VaultTypeOK'
  BY <1>1, <1>2 DEF VaultTypeOK, Known
<1>4. history.staged \in [Operators -> SUBSET Plans]
  BY <1>1 DEF VaultTypeOK
<1>5. \A o \in Operators : \A plan \in history.staged[o] :
          /\ plan \in Plans /\ ToSet(plan.inputs) \subseteq DOMAIN amount
          /\ commitment(amount', plan) = commitment(amount, plan)
  <2> SUFFICES ASSUME NEW o \in Operators, NEW plan \in history.staged[o]
               PROVE  /\ plan \in Plans /\ ToSet(plan.inputs) \subseteq DOMAIN amount
                      /\ commitment(amount', plan) = commitment(amount, plan)
    OBVIOUS
  <2>1. plan \in Plans /\ ToSet(plan.inputs) \subseteq DOMAIN amount
    BY <1>1, <1>4 DEF Planned
  <2> QED BY <1>1, <1>2, <2>1, LaterOutputs
<1>6. ASSUME NEW plan, Fits(plan)
      PROVE  /\ plan \in Plans /\ ToSet(plan.inputs) \subseteq DOMAIN amount'
             /\ plan.fee + plan.swept = Total(amount', plan.inputs)
  <2>1. plan \in Plans /\ ToSet(plan.inputs) \subseteq DOMAIN amount
        /\ plan.fee + plan.swept = Total(amount, plan.inputs)
    BY <1>6 DEF Fits
  <2>2. Total(amount', plan.inputs) = Total(amount, plan.inputs)
    BY <1>1, <1>2, <2>1, LaterOutputs
  <2> QED BY <1>2, <2>1, <2>2
<1>7. sweep' = sweep /\ history' = history /\ staged' = staged
  OBVIOUS
<1>8. Planned'
  <2>1. sweep.pc = "asking" => Fits(sweep.plan)
    BY <1>1 DEF Planned
  <2>2. sweep'.pc = "asking" =>
          /\ sweep'.plan \in Plans /\ ToSet(sweep'.plan.inputs) \subseteq DOMAIN amount'
          /\ sweep'.plan.fee + sweep'.plan.swept = Total(amount', sweep'.plan.inputs)
    BY <1>6, <1>7, <2>1
  <2>3. \A o \in Operators : \A plan \in history'.staged[o] :
           ToSet(plan.inputs) \subseteq DOMAIN amount'
    BY <1>2, <1>5, <1>7
  <2> QED BY <2>2, <2>3 DEF Planned, Fits
<1>9. Staged'
  <2>1. ASSUME NEW o \in Operators, staged'[o] # None
        PROVE  \E plan \in history'.staged[o] : staged'[o].commitment = commitment(amount', plan)
    BY <1>1, <1>5, <1>7, <2>1 DEF Staged
  <2> QED BY <1>1, <1>7, <2>1 DEF Staged
<1> QED
  BY <1>3, <1>8, <1>9 DEF VaultFacts

(* A deposit arrives. *)
LEMMA DepositStep == ASSUME VaultFacts, DepositArrives PROVE VaultFacts'
<1>1. /\ Len(amount) < Cardinality(Ids) /\ amount' = Append(amount, Deposit)
      /\ unspent' = unspent \cup {Len(amount) + 1} /\ payout' = payout
      /\ ledger' = [ledger EXCEPT !.deposited = @ + Deposit]
      /\ UNCHANGED <<rows, staged, swears, sweep, history>>
  BY DEF DepositArrives
<1>2. VaultTypeOK /\ Planned /\ Deposit \in Nat \ {0}
  BY SweepAssumption DEF VaultFacts
<1>3. unspent' \subseteq DOMAIN amount'
  <2>1. unspent \subseteq DOMAIN amount
    BY <1>2 DEF VaultTypeOK
  <2> QED BY <1>1, <1>2, <2>1, AppendFacts
<1>4. /\ payout \in [pc : {"none", "planned", "paid", "halted"}, plan : Selections \cup {None}]
      /\ ledger \in [deposited : Nat, paid : Nat, fees : Nat, swept : Nat]
  BY <1>2 DEF VaultTypeOK
<1>5. /\ ledger' = [deposited |-> ledger.deposited + Deposit, paid |-> ledger.paid,
                   fees |-> ledger.fees, swept |-> ledger.swept]
      /\ ledger.deposited + Deposit \in Nat
  BY <1>1, <1>2, <1>4
<1>6. ledger' \in [deposited : Nat, paid : Nat, fees : Nat, swept : Nat]
  BY <1>4, <1>5
<1>7. /\ payout'.pc # "none" => payout'.plan \in Selections
      /\ payout'.pc # "paid" => ledger'.paid = 0
  BY <1>1, <1>2, <1>5 DEF Planned
<1> QED
  BY <1>1, <1>2, <1>3, <1>4, <1>6, <1>7, CoinsStep

(* A payout that is mined: what the plan says moves. *)
LEMMA PayoutFacts ==
    ASSUME VaultFacts, PayoutSpends
    PROVE  LET plan == payout.plan  n == Len(amount) + 1 IN
           /\ plan \in Selections /\ ToSet(plan.inputs) \subseteq unspent
           /\ Total(amount, plan.inputs) = plan.pay + plan.change + plan.fee
           /\ plan.change > 0 => Len(amount) < Cardinality(Ids)
           /\ amount' = IF plan.change > 0 THEN Append(amount, plan.change) ELSE amount
           /\ unspent' = (unspent \ ToSet(plan.inputs))
                            \cup (IF plan.change > 0 THEN {n} ELSE {})
           /\ ledger' = [deposited |-> ledger.deposited, paid |-> ledger.paid + plan.pay,
                         fees |-> ledger.fees + plan.fee, swept |-> ledger.swept]
           /\ payout' = [pc |-> "paid", plan |-> plan] /\ payout.pc = "planned"
<1> DEFINE plan == payout.plan
<1>1. payout.pc = "planned" /\ ToSet(plan.inputs) \subseteq unspent
      /\ payout' = [payout EXCEPT !.pc = "paid"]
  BY DEF PayoutSpends
<1>2. /\ payout \in [pc : {"none", "planned", "paid", "halted"}, plan : Selections \cup {None}]
      /\ ledger \in [deposited : Nat, paid : Nat, fees : Nat, swept : Nat]
      /\ plan \in Selections
  BY <1>1 DEF VaultFacts, VaultTypeOK, Planned
<1>3. PICK tx \in Built(plan) :
        /\ verify_payout_tx(amount, tx, plan)
        /\ Returned(tx) > 0 => Len(amount) < Cardinality(Ids)
        /\ amount' = IF Returned(tx) > 0 THEN Append(amount, Returned(tx)) ELSE amount
        /\ unspent' = (unspent \ ToSet(tx.inputs))
                          \cup (IF Returned(tx) > 0 THEN {Len(amount) + 1} ELSE {})
        /\ ledger' = [ledger EXCEPT !.paid = @ + Paid(tx), !.fees = @ + plan.fee]
  BY DEF PayoutSpends
<1>4. /\ tx.inputs = plan.inputs /\ Paid(tx) = plan.pay /\ Returned(tx) = plan.change
      /\ Total(amount, plan.inputs) = plan.pay + plan.change + plan.fee
  BY <1>2, <1>3, VerifiedPayout
<1>5. payout' = [pc |-> "paid", plan |-> plan]
  BY <1>1, <1>2
<1> HIDE DEF plan
<1>6. ledger' = [deposited |-> ledger.deposited, paid |-> ledger.paid + plan.pay,
                 fees |-> ledger.fees + plan.fee, swept |-> ledger.swept]
  BY <1>2, <1>3, <1>4
<1> QED
  BY <1>1, <1>2, <1>3, <1>4, <1>5, <1>6 DEF plan

(* A payout that passed its verification is mined. *)
LEMMA PayoutStep == ASSUME VaultFacts, PayoutSpends PROVE VaultFacts'
<1> DEFINE plan == payout.plan  n == Len(amount) + 1
<1>1. /\ plan \in Selections /\ ToSet(plan.inputs) \subseteq unspent
      /\ plan.change > 0 => Len(amount) < Cardinality(Ids)
      /\ amount' = IF plan.change > 0 THEN Append(amount, plan.change) ELSE amount
      /\ unspent' = (unspent \ ToSet(plan.inputs)) \cup (IF plan.change > 0 THEN {n} ELSE {})
      /\ ledger' = [deposited |-> ledger.deposited, paid |-> ledger.paid + plan.pay,
                    fees |-> ledger.fees + plan.fee, swept |-> ledger.swept]
      /\ payout' = [pc |-> "paid", plan |-> plan]
  BY PayoutFacts
<1>2. plan.pay \in Nat /\ plan.change \in Nat /\ plan.fee \in Nat
  BY <1>1, SweepAssumption DEF Selections
<1>3. VaultTypeOK /\ unspent \subseteq DOMAIN amount
      /\ ledger \in [deposited : Nat, paid : Nat, fees : Nat, swept : Nat]
  BY DEF VaultFacts, VaultTypeOK
<1> HIDE DEF plan
<1>4. UNCHANGED <<rows, staged, swears, sweep, history>>
  BY DEF PayoutSpends
<1>5. /\ \/ amount' = amount
         \/ \E x \in Nat \ {0} : Len(amount) < Cardinality(Ids) /\ amount' = Append(amount, x)
      /\ unspent' \subseteq DOMAIN amount'
  <2>1. CASE plan.change > 0
    <3>1. plan.change \in Nat \ {0} /\ Len(amount) < Cardinality(Ids)
          /\ amount' = Append(amount, plan.change)
      BY <1>1, <1>2, <2>1
    <3>2. DOMAIN amount' = DOMAIN amount \cup {n}
      BY <1>3, <3>1, AppendFacts
    <3> HIDE DEF n
    <3> QED BY <1>1, <1>3, <3>1, <3>2
  <2>2. CASE ~(plan.change > 0)
    <3> HIDE DEF n
    <3> QED BY <1>1, <1>3, <2>2
  <2> QED BY <2>1, <2>2
<1>6. ledger' \in [deposited : Nat, paid : Nat, fees : Nat, swept : Nat]
  <2>1. ledger.paid + plan.pay \in Nat /\ ledger.fees + plan.fee \in Nat
    BY <1>2, <1>3
  <2> QED BY <1>1, <1>3, <2>1
<1>7. /\ payout' \in [pc : {"none", "planned", "paid", "halted"}, plan : Selections \cup {None}]
      /\ payout'.pc # "none" => payout'.plan \in Selections
      /\ payout'.pc # "paid" => ledger'.paid = 0
  BY <1>1
<1> QED
  BY <1>4, <1>5, <1>6, <1>7, CoinsStep

(* At the start every row is available and nothing is planned. *)
LEMMA VaultFactsInit == ASSUME Init PROVE VaultFacts
<1>1. PICK v \in Vaults :
        /\ amount = v
        /\ unspent = DOMAIN v
        /\ rows = [o \in Operators |-> [u \in DOMAIN v |-> "Available"]]
        /\ ledger = [deposited |-> Total(v, [u \in DOMAIN v |-> u]), paid |-> 0, fees |-> 0, swept |-> 0]
  BY DEF Init
<1>2. /\ payout = NoPayout /\ staged = [o \in Operators |-> None]
      /\ swears = [o \in Operators |-> None] /\ sweep = NoSweep
      /\ history = [staged |-> [o \in Operators |-> {}], sent |-> {}]
  BY DEF Init
<1>3. v \in Seq(Nat \ {0}) /\ Len(v) <= Cardinality(Ids) /\ IsFiniteSet(Ids)
      /\ Ids = 1..Cardinality(Ids)
  BY SweepAssumption
<1>4. Len(v) \in Nat /\ DOMAIN v = 1..Len(v) /\ Cardinality(Ids) \in Nat
  BY <1>3, FS_CardinalityType
<1>5. DOMAIN v \subseteq Ids
  <2>1. \A i \in 1..Len(v) : i \in 1..Cardinality(Ids)
    BY <1>3, <1>4
  <2> QED BY <1>3, <1>4, <2>1
<1>6. Total(v, [u \in DOMAIN v |-> u]) \in Nat
  <2> DEFINE S == DOMAIN v
  <2>1. ToSet([u \in S |-> u]) = S
    BY DEF ToSet
  <2>2. Total(v, [u \in S |-> u]) = SumOver(v, S)
    BY <2>1, TotalSum, Zenon
  <2>3. IsFiniteSet(S) /\ (\A u \in S : v[u] \in Nat) /\ S \in SUBSET S
    <3>1. IsFiniteSet(1..Len(v))
      BY <1>4, FS_Interval
    <3>2. \A u \in 1..Len(v) : v[u] \in Nat
      BY <1>3
    <3> QED BY <1>4, <3>1, <3>2
  <2> HIDE DEF S
  <2>4. SumOver(v, S) \in Nat
    BY <2>3, SumNat
  <2> QED BY <2>2, <2>4 DEF S
<1>7. \A o \in Operators : /\ DOMAIN rows[o] = DOMAIN v
                           /\ rows[o] \in [DOMAIN rows[o] -> {"Available", "Reserved", "Spent"}]
  BY <1>1
<1>8. /\ payout \in [pc : {"none", "planned", "paid", "halted"}, plan : Selections \cup {None}]
      /\ staged \in [Operators -> SweepApprovals \cup {None}]
      /\ swears \in [Operators -> Commitments \cup {None}]
      /\ ledger \in [deposited : Nat, paid : Nat, fees : Nat, swept : Nat]
      /\ history \in [staged : [Operators -> SUBSET Plans], sent : SUBSET Plans]
  BY <1>1, <1>2, <1>6 DEF NoPayout
<1>9. VaultTypeOK
  BY <1>1, <1>2, <1>3, <1>5, <1>7, <1>8, RestType DEF VaultTypeOK, Known
<1>10. Planned
  BY <1>1, <1>2 DEF Planned, NoSweep, NoPayout
<1>11. Staged
  BY <1>2 DEF Staged, NoSweep
<1> QED
  BY <1>9, <1>10, <1>11 DEF VaultFacts

-----------------------------------------------------------------------------
(* The books and the consent to sweep.                                     *)

(* BooksBalance with a sum that theorems are about. *)
Books ==
    /\ SumOver(amount, unspent) + ledger.paid + ledger.fees + ledger.swept = ledger.deposited
    /\ payout.pc = "paid" => ledger.paid = payout.plan.pay

(* Both ways to add up are one. *)
LEMMA BooksAreSums == Books => BooksBalance
<1> DEFINE x == MapThenSumSet(LAMBDA u : amount[u], unspent)
<1>1. x = SumOver(amount, unspent)
  BY HeldSum, Zenon
<1>2. x + ledger.paid + ledger.fees + ledger.swept = ledger.deposited
      /\ (payout.pc = "paid" => ledger.paid = payout.plan.pay) => BooksBalance
  BY Zenon DEF BooksBalance
<1> HIDE DEF x
<1> QED
  BY <1>1, <1>2 DEF Books

(* Outputs that are spent leave the sum, and one that comes enters it. *)
LEMMA SpendSum ==
    ASSUME VaultTypeOK, NEW U, U \subseteq unspent
    PROVE  /\ SumOver(amount, unspent) = SumOver(amount, U) + SumOver(amount, unspent \ U)
           /\ SumOver(amount, U) \in Nat /\ SumOver(amount, unspent \ U) \in Nat
<1>1. /\ IsFiniteSet(unspent) /\ unspent \subseteq DOMAIN amount
      /\ \A u \in unspent : amount[u] \in Int
  BY OutputFacts
<1>2. SumOver(amount, unspent) = SumOver(amount, U) + SumOver(amount, unspent \ U)
  <2>1. U \in SUBSET unspent
    OBVIOUS
  <2> QED BY <1>1, <2>1, SumSplit
<1>3. SumOver(amount, U) \in Nat /\ SumOver(amount, unspent \ U) \in Nat
  BY <1>1, TotalNat
<1> QED
  BY <1>2, <1>3

(* An output that comes enters the sum. *)
LEMMA ArriveSum ==
    ASSUME VaultTypeOK, NEW x \in Nat \ {0}, Len(amount) < Cardinality(Ids),
           NEW U, U \subseteq DOMAIN amount
    PROVE  SumOver(Append(amount, x), U \cup {Len(amount) + 1}) = SumOver(amount, U) + x
<1> DEFINE a == Append(amount, x)  n == Len(amount) + 1
<1>1. /\ DOMAIN a = DOMAIN amount \cup {n} /\ n \notin DOMAIN amount
      /\ (\A u \in DOMAIN amount : a[u] = amount[u]) /\ a[n] = x
  BY AppendFacts
<1>2. IsFiniteSet(DOMAIN amount) /\ \A u \in DOMAIN amount : amount[u] \in Nat
  BY OutputFacts
<1> HIDE DEF a, n
<1>3. IsFiniteSet(U)
  BY <1>2, FS_Subset
<1>4. n \notin U /\ \A y \in U \cup {n} : a[y] \in Int
  BY <1>1, <1>2
<1>5. SumOver(a, U \cup {n}) = a[n] + SumOver(a, U) /\ SumOver(a, U) \in Int
  BY <1>3, <1>4, SumAdd
<1>6. SumOver(a, U) = SumOver(amount, U)
  <2>1. \A u \in U : a[u] = amount[u]
    BY <1>1
  <2> QED BY <1>3, <2>1, SumSame
<1>7. SumOver(a, U \cup {n}) = SumOver(amount, U) + x
  BY <1>1, <1>5, <1>6
<1> QED
  BY <1>7 DEF a, n

(* Deposits, payouts and sweeps keep the books in balance. *)
LEMMA BooksStep == ASSUME VaultFacts, Books, SweepNext PROVE Books'
<1>0. /\ VaultTypeOK /\ ledger \in [deposited : Nat, paid : Nat, fees : Nat, swept : Nat]
      /\ unspent \subseteq DOMAIN amount /\ SumOver(amount, unspent) \in Nat
  BY TotalNat DEF VaultFacts, VaultTypeOK
<1> DEFINE l == ledger  held == SumOver(amount, unspent)
<1>1. /\ l.deposited \in Nat /\ l.paid \in Nat /\ l.fees \in Nat /\ l.swept \in Nat /\ held \in Nat
      /\ held + l.paid + l.fees + l.swept = l.deposited
      /\ payout.pc = "paid" => l.paid = payout.plan.pay
  BY <1>0 DEF Books
<1>2. CASE /\ amount' = amount /\ unspent' = unspent /\ ledger' = ledger
           /\ payout' = payout \/ payout'.pc \in {"planned", "halted"}
  BY <1>2 DEF Books
<1>3. CASE DepositArrives
  <2>1. /\ Len(amount) < Cardinality(Ids) /\ amount' = Append(amount, Deposit)
        /\ unspent' = unspent \cup {Len(amount) + 1} /\ payout' = payout
        /\ ledger' = [ledger EXCEPT !.deposited = @ + Deposit]
    BY <1>3 DEF DepositArrives
  <2>2. Deposit \in Nat \ {0}
    BY SweepAssumption
  <2> DEFINE h == SumOver(amount', unspent')
  <2>3. h = held + Deposit
    BY <1>0, <2>1, <2>2, ArriveSum
  <2>4. /\ ledger'.deposited = l.deposited + Deposit /\ ledger'.paid = l.paid
        /\ ledger'.fees = l.fees /\ ledger'.swept = l.swept
    BY <1>0, <2>1
  <2> HIDE DEF h, held
  <2>5. h + ledger'.paid + ledger'.fees + ledger'.swept = ledger'.deposited
    BY <1>1, <2>2, <2>3, <2>4
  <2>6. payout'.pc = "paid" => ledger'.paid = payout'.plan.pay
    BY <1>1, <2>1, <2>4
  <2> QED BY <2>5, <2>6 DEF Books, h
<1>4. CASE PayoutSpends
  <2> DEFINE plan == payout.plan  n == Len(amount) + 1  U == ToSet(plan.inputs)
             rest == SumOver(amount, unspent \ U)  h == SumOver(amount', unspent')
  <2>1. /\ plan \in Selections /\ U \subseteq unspent
        /\ Total(amount, plan.inputs) = plan.pay + plan.change + plan.fee
        /\ plan.change > 0 => Len(amount) < Cardinality(Ids)
        /\ amount' = IF plan.change > 0 THEN Append(amount, plan.change) ELSE amount
        /\ unspent' = (unspent \ U) \cup (IF plan.change > 0 THEN {n} ELSE {})
        /\ ledger' = [deposited |-> l.deposited, paid |-> l.paid + plan.pay,
                      fees |-> l.fees + plan.fee, swept |-> l.swept]
        /\ payout' = [pc |-> "paid", plan |-> plan] /\ payout.pc = "planned"
    BY <1>4, PayoutFacts
  <2>2. plan.pay \in Nat /\ plan.change \in Nat /\ plan.fee \in Nat
    BY <2>1, SweepAssumption DEF Selections
  <2>3. l.paid = 0
    BY <2>1 DEF VaultFacts, Planned
  <2>4. held = plan.pay + plan.change + plan.fee + rest /\ rest \in Nat
    <3>1. Total(amount, plan.inputs) = SumOver(amount, U)
      BY TotalSum, Zenon
    <3>2. held = SumOver(amount, U) + rest /\ SumOver(amount, U) \in Nat /\ rest \in Nat
      <4> HIDE DEF U
      <4> QED BY <1>0, <2>1, SpendSum
    <3> QED BY <2>1, <3>1, <3>2
  <2>5. h = rest + plan.change
    <3> HIDE DEF plan, U
    <3>1. CASE plan.change > 0
      <4>1. amount' = Append(amount, plan.change) /\ unspent' = (unspent \ U) \cup {n}
            /\ plan.change \in Nat \ {0} /\ Len(amount) < Cardinality(Ids)
        BY <2>1, <2>2, <3>1
      <4>2. unspent \ U \subseteq DOMAIN amount
        BY <1>0
      <4>3. SumOver(Append(amount, plan.change), (unspent \ U) \cup {Len(amount) + 1})
               = SumOver(amount, unspent \ U) + plan.change
        <5> DEFINE V == unspent \ U
        <5> HIDE DEF V
        <5>1. SumOver(Append(amount, plan.change), V \cup {Len(amount) + 1})
                 = SumOver(amount, V) + plan.change
          BY <1>0, <4>1, <4>2, ArriveSum DEF V
        <5> QED BY <5>1 DEF V
      <4> QED BY <4>1, <4>3
    <3>2. CASE ~(plan.change > 0)
      <4>1. amount' = amount /\ unspent' = unspent \ U /\ plan.change = 0
        BY <2>1, <2>2, <3>2
      <4>2. h = rest
        BY <4>1
      <4> HIDE DEF h, rest
      <4> QED BY <2>4, <4>1, <4>2
    <3> QED BY <3>1, <3>2
  <2>6. /\ ledger'.deposited = l.deposited /\ ledger'.paid = l.paid + plan.pay
        /\ ledger'.fees = l.fees + plan.fee /\ ledger'.swept = l.swept
        /\ payout'.plan.pay = plan.pay
    BY <2>1
  <2> HIDE DEF held, rest, h, plan
  <2>7. h + ledger'.paid + ledger'.fees + ledger'.swept = ledger'.deposited
    BY <1>1, <2>2, <2>4, <2>5, <2>6
  <2>8. ledger'.paid = payout'.plan.pay
    BY <2>2, <2>3, <2>6
  <2> QED BY <2>7, <2>8 DEF Books, h
<1>5. CASE /\ SweepSpends
           /\ ~(unspent' = unspent /\ ledger' = ledger)
  <2> DEFINE plan == sweep.plan  U == ToSet(plan.inputs)
             rest == SumOver(amount, unspent \ U)  h == SumOver(amount', unspent')
  <2>1. /\ U \subseteq unspent /\ unspent' = unspent \ U /\ amount' = amount /\ payout' = payout
        /\ ledger' = [ledger EXCEPT !.swept = @ + plan.swept, !.fees = @ + plan.fee]
        /\ sweep.pc = "asking"
    BY <1>5 DEF SweepSpends, Collected
  <2>2. plan \in Plans /\ plan.fee + plan.swept = Total(amount, plan.inputs)
        /\ plan.fee \in Nat /\ plan.swept \in Nat
    BY <2>1 DEF VaultFacts, Planned, Fits, Plans
  <2>3. Total(amount, plan.inputs) = SumOver(amount, U)
    BY TotalSum, Zenon
  <2>4. held = SumOver(amount, U) + rest /\ SumOver(amount, U) \in Nat /\ rest \in Nat
    <3> HIDE DEF U
    <3> QED BY <1>0, <2>1, SpendSum
  <2>5. h = rest
    BY <2>1
  <2>6. /\ ledger'.deposited = l.deposited /\ ledger'.paid = l.paid
        /\ ledger'.fees = l.fees + plan.fee /\ ledger'.swept = l.swept + plan.swept
    BY <1>0, <2>1
  <2> HIDE DEF held, rest, h, plan
  <2>7. held = plan.fee + plan.swept + rest
    BY <2>2, <2>3, <2>4
  <2>8. h + ledger'.paid + ledger'.fees + ledger'.swept = ledger'.deposited
    BY <1>1, <2>2, <2>4, <2>5, <2>6, <2>7
  <2>9. payout'.pc = "paid" => ledger'.paid = payout'.plan.pay
    BY <1>1, <2>1, <2>6
  <2> QED BY <2>8, <2>9 DEF Books, h
<1>6. \/ DepositArrives \/ PayoutSpends \/ SweepSpends
      \/ /\ amount' = amount /\ unspent' = unspent /\ ledger' = ledger
         /\ payout' = payout \/ payout'.pc \in {"planned", "halted"}
  <2>1. CASE build_halts
    <3>1. payout \in [pc : {"none", "planned", "paid", "halted"}, plan : Selections \cup {None}]
      BY <1>0 DEF VaultTypeOK
    <3> QED BY <2>1, <3>1 DEF build_halts, coins
  <2>2. ASSUME NEW o \in Operators, NEW p \in Pays, build(o, p)
        PROVE  /\ amount' = amount /\ unspent' = unspent /\ ledger' = ledger
               /\ payout'.pc = "planned"
    BY <2>2 DEF build, coins
  <2>3. \/ DepositArrives \/ PayoutSpends \/ SweepSpends \/ build_halts
        \/ \E o \in Operators, p \in Pays : build(o, p)
        \/ amount' = amount /\ unspent' = unspent /\ ledger' = ledger /\ payout' = payout
    BY DEF SweepNext, sweep_approve, sweep_execute, sync_vault, sweep_revoke,
       SweepApprovalExpires, SweepSignerRestarts, SweepStep, ask_sweep, ask_sweep_refused,
       sweep_falls_short, ask_sweep_unavailable, PeerAsksForSweep, coins
  <2> QED BY <2>1, <2>2, <2>3
<1>7. CASE SweepSpends /\ unspent' = unspent /\ ledger' = ledger
  <2>1. amount' = amount /\ payout' = payout
    BY <1>7 DEF SweepSpends
  <2> QED BY <1>7, <2>1 DEF Books
<1> QED
  BY <1>2, <1>3, <1>4, <1>5, <1>6, <1>7

(* At the start everything deposited is held. *)
LEMMA BooksInit == ASSUME Init PROVE Books
<1>1. PICK v \in Vaults :
        /\ amount = v /\ unspent = DOMAIN v
        /\ ledger = [deposited |-> Total(v, [u \in DOMAIN v |-> u]), paid |-> 0, fees |-> 0, swept |-> 0]
  BY DEF Init
<1> DEFINE S == DOMAIN v  all == [u \in S |-> u]
<1>2. ToSet(all) = S
  BY DEF ToSet
<1>3. Total(v, all) = SumOver(v, S)
  BY <1>2, TotalSum, Zenon
<1>4. SumOver(amount, unspent) \in Nat
  BY VaultFactsInit, TotalNat DEF VaultFacts, VaultTypeOK
<1>5. /\ ledger.deposited = SumOver(amount, unspent)
      /\ ledger.paid = 0 /\ ledger.fees = 0 /\ ledger.swept = 0
  BY <1>1, <1>3
<1>6. payout.pc # "paid"
  BY DEF Init, NoPayout
<1> DEFINE held == SumOver(amount, unspent)
<1> HIDE DEF held
<1>7. held + ledger.paid + ledger.fees + ledger.swept = ledger.deposited
  BY <1>4, <1>5 DEF held
<1> QED
  BY <1>6, <1>7 DEF Books, held

(* Enough signatures are enough operators, each of whom staged the plan.   *)
LEMMA SignaturesAreOperators ==
    ASSUME NEW keys \in Seq(Operators), IsInjective(keys), Len(keys) = VaultThreshold,
           NEW S \in SUBSET Operators, \A i \in DOMAIN keys : keys[i] \in S
    PROVE  Cardinality(S) >= VaultThreshold
<1> DEFINE n == Len(keys)
<1>1. n \in Nat /\ DOMAIN keys = 1..n
  OBVIOUS
<1>2. IsFiniteSet(S) /\ Cardinality(S) \in Nat
  BY OperatorFacts, FS_Subset, FS_CardinalityType
<1>3. CASE n = 0
  BY <1>2, <1>3
<1>4. CASE n # 0
  <2>1. IsFiniteSet(1..n) /\ Cardinality(1..n) = n
    <3>1. 1 \in Int /\ n \in Int /\ ~(1 > n) /\ n - 1 + 1 = n
      BY <1>1, <1>4
    <3>2. /\ IsFiniteSet(1..n)
          /\ Cardinality(1..n) = IF 1 > n THEN 0 ELSE n - 1 + 1
      BY <3>1, FS_Interval, Zenon
    <3> QED BY <3>1, <3>2, Zenon
  <2>2. ~(Cardinality(S) < Cardinality(1..n))
    <3> SUFFICES ASSUME Cardinality(S) < Cardinality(1..n) PROVE FALSE
      OBVIOUS
    <3> DEFINE f == [i \in 1..n |-> keys[i]]
    <3>1. f \in [1..n -> S]
      BY <1>1
    <3>2. \E i, j \in 1..n : i # j /\ f[i] = f[j]
      <4> HIDE DEF f, n
      <4> QED BY <1>2, <2>1, <3>1, FS_PigeonHole, Zenon
    <3> QED BY <1>1, <3>2 DEF IsInjective
  <2> QED BY <1>1, <1>2, <2>1, <2>2
<1> QED
  BY <1>3, <1>4

(* What an operator has staged stays staged. *)
LEMMA HistoryStep ==
    ASSUME VaultFacts, SweepNext
    PROVE  /\ \A o \in Operators : history.staged[o] \subseteq history'.staged[o]
           /\ \/ history'.sent = history.sent
              \/ history'.sent = history.sent \cup {sweep.plan} /\ SweepSpends
<1>1. history \in [staged : [Operators -> SUBSET Plans], sent : SUBSET Plans]
  BY DEF VaultFacts, VaultTypeOK
<1>2. CASE history' = history
  BY <1>2
<1>3. ASSUME NEW o \in Operators, NEW d \in Dests, sweep_approve(o, d)
      PROVE  /\ \A q \in Operators : history.staged[q] \subseteq history'.staged[q]
             /\ history'.sent = history.sent
  <2>1. PICK plan \in build_plan(o, d) : history' = [history EXCEPT !.staged[o] = @ \cup {plan}]
    BY <1>3 DEF sweep_approve
  <2> DEFINE h == history.staged  g == [h EXCEPT ![o] = h[o] \cup {plan}]
  <2>2. h \in [Operators -> SUBSET Plans] /\ history' = [history EXCEPT !.staged = g]
    BY <1>1, <2>1
  <2>3. \A q \in Operators : h[q] \subseteq g[q]
    <3> HIDE DEF h
    <3> QED BY <2>2
  <2>4. history'.staged = g /\ history'.sent = history.sent
    <3> HIDE DEF g
    <3> QED BY <1>1, <2>2
  <2> QED BY <2>3, <2>4
<1>4. CASE SweepSpends /\ history' # history
  <2>1. history' = [history EXCEPT !.sent = @ \cup {sweep.plan}]
    BY <1>4 DEF SweepSpends
  <2>2. history'.staged = history.staged /\ history'.sent = history.sent \cup {sweep.plan}
    BY <1>1, <2>1
  <2> QED BY <1>4, <2>2
<1>5. \/ history' = history \/ SweepSpends
      \/ \E o \in Operators, d \in Dests : sweep_approve(o, d)
  BY DEF SweepNext, DepositArrives, PayoutSpends, build_halts, build, sweep_execute, sync_vault,
     sweep_revoke, SweepApprovalExpires, SweepSignerRestarts, SweepStep, ask_sweep,
     ask_sweep_refused, sweep_falls_short, ask_sweep_unavailable, PeerAsksForSweep
<1> QED
  BY <1>2, <1>3, <1>4, <1>5

(* A sweep is sent with the signatures of M operators, who staged it. *)
LEMMA ConsentStep ==
    ASSUME VaultFacts, SweepIsConsented, SweepNext PROVE SweepIsConsented'
<1> DEFINE Now(plan) == {o \in Operators : plan \in history.staged[o]}
           Then(plan) == {o \in Operators : plan \in history'.staged[o]}
<1>1. ASSUME NEW plan, Cardinality(Now(plan)) >= VaultThreshold
      PROVE  Cardinality(Then(plan)) >= VaultThreshold
  <2>1. Now(plan) \subseteq Then(plan) /\ Then(plan) \subseteq Operators
    BY HistoryStep
  <2> DEFINE A == Now(plan)  B == Then(plan)
  <2> HIDE DEF A, B
  <2>2. IsFiniteSet(B) /\ Cardinality(B) \in Nat /\ A \in SUBSET B
    BY <2>1, OperatorFacts, FS_Subset, FS_CardinalityType DEF A, B
  <2>3. Cardinality(A) <= Cardinality(B) /\ Cardinality(A) \in Nat
    BY <2>2, FS_Subset, FS_CardinalityType
  <2>4. Cardinality(A) >= VaultThreshold /\ VaultThreshold \in Nat
    BY <1>1, OperatorFacts DEF A
  <2>5. Cardinality(B) >= VaultThreshold
    BY <2>2, <2>3, <2>4
  <2> QED BY <2>5 DEF B
<1>2. ASSUME SweepSpends PROVE Cardinality(Then(sweep.plan)) >= VaultThreshold
  <2> DEFINE keys == sweep.partials  plan == sweep.plan
  <2>1. sweep.pc = "asking" /\ \E s : s \in assemble(keys)
    BY <1>2 DEF SweepSpends, Collected
  <2>2. IsInjective(keys) /\ Len(keys) = VaultThreshold
    BY <2>1 DEF assemble
  <2>3. keys \in Seq(Operators) /\ \A i \in DOMAIN keys : plan \in history.staged[keys[i]]
    BY <2>1 DEF VaultFacts, VaultTypeOK, Staged
  <2> HIDE DEF keys, plan
  <2>4. Now(plan) \in SUBSET Operators /\ \A i \in DOMAIN keys : keys[i] \in Now(plan)
    BY <2>3
  <2>5. Cardinality(Now(plan)) >= VaultThreshold
    <3> HIDE DEF Now
    <3> QED BY <2>2, <2>3, <2>4, SignaturesAreOperators
  <2> HIDE DEF Now, Then
  <2> QED BY <1>1, <2>5 DEF plan
<1>3. ASSUME NEW plan \in history'.sent PROVE Cardinality(Then(plan)) >= VaultThreshold
  <2>1. CASE plan \in history.sent
    <3>1. Cardinality(Now(plan)) >= VaultThreshold
      BY <2>1 DEF SweepIsConsented
    <3> HIDE DEF Now, Then
    <3> QED BY <1>1, <3>1
  <2>2. CASE plan \notin history.sent
    <3>1. plan = sweep.plan /\ SweepSpends
      BY <1>3, <2>2, HistoryStep
    <3> HIDE DEF Now, Then
    <3> QED BY <1>2, <3>1
  <2> QED BY <2>1, <2>2
<1> QED
  BY <1>3 DEF SweepIsConsented

-----------------------------------------------------------------------------
(* The whole.                                                              *)

VaultInv == GovernanceInv /\ VaultFacts /\ Books /\ SweepIsConsented

(* The invariant holds at the start. *)
LEMMA VaultInvInit == Init => VaultInv
<1> SUFFICES ASSUME Init PROVE VaultInv
  OBVIOUS
<1>1. GovernanceInv
  BY GovernanceInvInit DEF Init
<1>2. history.sent = {}
  BY DEF Init
<1>3. SweepIsConsented
  BY <1>2 DEF SweepIsConsented
<1> QED
  BY <1>1, <1>3, VaultFactsInit, BooksInit DEF VaultInv

(* Every step of the vault keeps what is known of it. *)
LEMMA VaultFactsStep ==
    ASSUME GovernanceTypeOK, VaultFacts, SweepNext PROVE VaultFacts'
<1>1. ASSUME NEW o \in Operators, NEW p \in Pays, build(o, p) PROVE VaultFacts'
  BY <1>1, BuildStep
<1>2. ASSUME NEW o \in Operators, NEW d \in Dests, sweep_approve(o, d) \/ sweep_execute(o, d)
      PROVE  VaultFacts'
  BY <1>2, ApproveStep, ExecuteStep
<1>3. ASSUME NEW o \in Operators,
             \/ sync_vault(o) \/ sweep_revoke(o) \/ SweepApprovalExpires(o)
             \/ SweepSignerRestarts(o)
      PROVE  VaultFacts'
  BY <1>3, SyncStep, WithdrawStep, SignerRestartStep
<1>4. ASSUME NEW o \in Operators, NEW plan \in ForeignPlans, PeerAsksForSweep(o, plan)
      PROVE  VaultFacts'
  BY <1>4, PeerStep
<1>5. CASE DepositArrives \/ PayoutSpends \/ build_halts
  BY <1>5, DepositStep, PayoutStep, HaltStep
<1>6. CASE SweepStep \/ ask_sweep_unavailable
  BY <1>6, AskStep, SweepEndStep DEF SweepStep
<1> HIDE DEF VaultFacts
<1> QED
  BY <1>1, <1>2, <1>3, <1>4, <1>5, <1>6 DEF SweepNext

(* The vault's steps leave governance alone, but for the count of changes. *)
LEMMA GovernanceBeside ==
    ASSUME GovernanceInv, SweepNext PROVE GovernanceInv'
<1>1. changes \in Nat
  BY DEF GovernanceInv, GovernanceTypes, GovernanceTypeOK
<1>2. UNCHANGED GovernanceStays /\ (UNCHANGED changes \/ VaultChange)
  BY DEF SweepNext, DepositArrives, PayoutSpends, build_halts, build, sweep_approve,
     sweep_execute, sync_vault, sweep_revoke, SweepApprovalExpires, SweepSignerRestarts,
     SweepStep, ask_sweep, ask_sweep_refused, sweep_falls_short, SweepSpends,
     ask_sweep_unavailable, PeerAsksForSweep
<1>3. changes' \in Nat
  BY <1>1, <1>2 DEF VaultChange
<1>4. UNCHANGED <<set, cap, pending, queued, approvals, signed, tool, sent, consents>>
  BY <1>2 DEF GovernanceStays, program
<1> QED
  BY <1>3, <1>4, GovernanceInvStays

(* Governance's steps leave the vault alone. *)
LEMMA VaultBeside ==
    ASSUME VaultFacts, Books, SweepIsConsented, UNCHANGED sweepVars
    PROVE  VaultFacts' /\ Books' /\ SweepIsConsented'
<1>1. amount' = amount /\ unspent' = unspent /\ payout' = payout /\ ledger' = ledger
      /\ history' = history
  BY DEF sweepVars
<1>2. Books' /\ SweepIsConsented'
  BY <1>1 DEF Books, SweepIsConsented
<1> QED
  BY <1>2, VaultStays

(* Every step, of the vault or of governance, keeps it. *)
LEMMA VaultInvStep == ASSUME VaultInv, [Next]_vars PROVE VaultInv'
<1>1. CASE SweepNext
  <2>1. GovernanceTypeOK
    BY DEF VaultInv, GovernanceInv, GovernanceTypes
  <2> QED
    BY <1>1, <2>1, VaultFactsStep, BooksStep, ConsentStep, GovernanceBeside DEF VaultInv
<1>2. CASE GovernanceNext /\ UNCHANGED sweepVars
  BY <1>2, GovernanceInvStep, VaultBeside DEF VaultInv
<1>3. CASE UNCHANGED vars
  <2>1. UNCHANGED sweepVars /\ UNCHANGED governanceVars
    BY <1>3 DEF vars
  <2>2. changes' \in Nat
        /\ UNCHANGED <<set, cap, pending, queued, approvals, signed, tool, sent, consents>>
    BY <2>1 DEF governanceVars, VaultInv, GovernanceInv, GovernanceTypes, GovernanceTypeOK
  <2> QED
    BY <2>1, <2>2, GovernanceInvStays, VaultBeside DEF VaultInv
<1> QED
  BY <1>1, <1>2, <1>3 DEF Next

(* So it holds always. *)
LEMMA VaultAlways == Spec => []VaultInv
  BY VaultInvInit, VaultInvStep, PTL DEF Spec

(* The variables keep their types, those of governance beside those of the *)
(* vault: every plan and approval is one over outputs there have been.     *)
THEOREM VaultTypeCorrect == Spec => []TypeOK
<1>1. VaultInv => TypeOK
  BY DEF VaultInv, VaultFacts, GovernanceInv, GovernanceTypes, TypeOK
<1> QED
  BY <1>1, VaultAlways, PTL

(* The books balance in every state: payouts and sweeps, each planned from *)
(* rows that may be stale, neither lose nor invent an amount, and a user   *)
(* who is paid gets the amount burned.                                     *)
THEOREM BooksAlwaysBalance == Spec => []BooksBalance
<1>1. VaultInv => BooksBalance
  BY BooksAreSums DEF VaultInv
<1> QED
  BY <1>1, VaultAlways, PTL

(* Every selection (select of withdrawal/coin.rs), from whatever rows an   *)
(* operator has, spends what they list, pays the policy's fee for its      *)
(* shape, makes no dust and overpays by less than dust.                    *)
THEOREM SelectionsAlwaysSound == Spec => []SelectionIsSound
<1>1. ASSUME VaultInv, NEW o \in Operators, NEW p \in Pays,
             NEW s \in select(amount, Candidates(o), p)
      PROVE  ToSet(s.inputs) \subseteq Available(o) /\ Len(s.inputs) \in 1..MaxInputs /\ Sound(s)
  <2>1. VaultTypeOK
    BY <1>1 DEF VaultInv, VaultFacts
  <2> DEFINE U == Available(o)  c == Candidates(o)
  <2>2. /\ IsFiniteSet(U) /\ U \subseteq Nat /\ (\A u \in U : amount[u] \in Nat)
        /\ c \in Seq(U) /\ p \in Nat /\ s \in select(amount, c, p)
    BY <2>1, CandidateFacts, SweepAssumption
  <2> HIDE DEF U, c
  <2>3. s.inputs \in Seq(U) /\ Len(s.inputs) \in 1..MaxInputs /\ Sound(s)
    BY <2>2, SelectFacts
  <2>4. ToSet(s.inputs) \subseteq U
    BY <2>3, ToSetFacts
  <2> QED BY <2>3, <2>4 DEF U
<1>2. VaultInv => SelectionIsSound
  BY <1>1 DEF SelectionIsSound, Sound
<1> QED
  BY <1>2, VaultAlways, PTL

(* If the candidates come largest first and selection finds nothing, no    *)
(* allowed choice of outputs pays for a payout with change: the first n    *)
(* are worth the most that any n are.                                      *)
THEOREM SelectionsAlwaysFindEnough == Spec => []SelectionFindsEnough
<1>1. ASSUME VaultInv, NEW o \in Operators, NEW p \in Pays, LargestFirst(Candidates(o)),
             select(amount, Candidates(o), p) = {}, NEW U \in SUBSET Available(o),
             Cardinality(U) \in 1..MaxInputs
      PROVE  MapThenSumSet(LAMBDA u : amount[u], U) < p + fee_for(Cardinality(U), 2)
  <2> DEFINE S == Available(o)  c == Candidates(o)  n == Cardinality(U)
  <2>1. /\ IsFiniteSet(S) /\ (\A u \in S : amount[u] \in Nat) /\ c \in Seq(S) /\ ToSet(c) = S
        /\ IsInjective(c) /\ Len(c) = Cardinality(S) /\ Len(c) \in Nat /\ DOMAIN c = 1..Len(c)
        /\ p \in Nat /\ U \in SUBSET S /\ n \in 1..MaxInputs /\ MaxInputs \in Nat
        /\ U \subseteq DOMAIN amount /\ VaultTypeOK
    <3>1. VaultTypeOK
      BY <1>1 DEF VaultInv, VaultFacts
    <3>2. c \in Seq(S) => Len(c) \in Nat
      <4> HIDE DEF c, S
      <4> QED OBVIOUS
    <3> QED BY <1>1, <3>1, <3>2, CandidateFacts, SweepAssumption, VaultAssumption
  <2>2. \A i, j \in DOMAIN c : i < j => amount[c[i]] >= amount[c[j]]
    BY <1>1 DEF LargestFirst
  <2>3. Enough(amount, c, p) = {}
    <3> DEFINE f == finalize(amount, SubSeq(c, 1, Min(Enough(amount, c, p))), p)
    <3> HIDE DEF f, c
    <3> QED BY <1>1 DEF select, c
  <2> HIDE DEF S, c, n
  <2>4. n \in 0..Len(c) /\ SumOver(amount, U) <= Total(amount, SubSeq(c, 1, n))
    BY <2>1, <2>2, LargestAreMost DEF n
  <2> DEFINE t == Total(amount, SubSeq(c, 1, n))  need == p + fee_for(n, 2)
  <2>5. n \in 1..Len(c) /\ n <= MaxInputs
    BY <2>1, <2>4
  <2>6. ~(t >= need)
    BY <2>3, <2>5 DEF Enough
  <2>7. SumOver(amount, U) \in Nat /\ need \in Nat /\ t \in Nat
    <3>1. SumOver(amount, U) \in Nat
      BY <2>1, TotalNat
    <3>2. fee_for(n, 2) \in Nat
      BY <2>5, FeeFacts
    <3>3. SubSeq(c, 1, n) \in Seq(S)
      BY <2>1, <2>5
    <3> DEFINE f == SubSeq(c, 1, n)
    <3> HIDE DEF f
    <3>4. ToSet(f) \subseteq S
      BY <3>3, ToSetFacts DEF f
    <3>5. S \subseteq DOMAIN amount
      BY <1>1, <2>1, CandidateFacts DEF S
    <3>6. SumOver(amount, ToSet(f)) \in Nat
      <4> DEFINE T == ToSet(f)
      <4> HIDE DEF T
      <4>1. T \subseteq DOMAIN amount
        BY <3>4, <3>5 DEF T
      <4>2. SumOver(amount, T) \in Nat
        BY <2>1, <4>1, TotalNat
      <4> QED BY <4>2 DEF T
    <3>7. Total(amount, f) = SumOver(amount, ToSet(f))
      BY TotalSum, Zenon
    <3> QED BY <2>1, <3>1, <3>2, <3>6, <3>7 DEF f
  <2> HIDE DEF t, need
  <2>8. SumOver(amount, U) < need
    BY <2>4, <2>6, <2>7 DEF t
  <2>9. MapThenSumSet(LAMBDA u : amount[u], U) = SumOver(amount, U)
    BY HeldSum, Zenon
  <2> QED BY <2>8, <2>9, Zenon DEF need, n
<1>2. VaultInv => SelectionFindsEnough
  BY <1>1, Zenon DEF SelectionFindsEnough
<1> QED
  BY <1>2, VaultAlways, PTL

(* A sweep that is broadcast was staged, to the last input, by as many     *)
(* operators as the vault needs signatures, although each one's approval   *)
(* may be replaced, revoked or expired since.                              *)
THEOREM SweepsAlwaysConsented == Spec => []SweepIsConsented
<1>1. VaultInv => SweepIsConsented
  BY DEF VaultInv
<1> QED
  BY <1>1, VaultAlways, PTL

(* Whatever waits for its timelock was staged, exactly so and for this     *)
(* epoch, by a threshold of the current validators' operators.             *)
THEOREM QueuedAlwaysConsented == Spec => []QueuedIsConsented
<1>1. VaultInv => QueuedIsConsented
  BY DEF VaultInv, GovernanceInv
<1> QED
  BY <1>1, VaultAlways, PTL

(* A cancellation removes the very action its approvers named: nothing but *)
(* an execution and such a cancellation removes a queued action.           *)
THEOREM CancelsAlwaysHitTheirTarget == Spec => CancelHitsItsTarget
<1> DEFINE Gone == pending # None /\ pending' = None /\ set' = set /\ cap' = cap
           Named == Cardinality(Consenting(
                        cancel_message(set.epoch, pending.message.type, pending.eta))) >= set.threshold
<1>1. ASSUME VaultInv, [Next]_vars PROVE [Gone => Named]_governanceVars
  <2>1. CASE GovernanceNext
    BY <1>1, <2>1, CancelStep DEF VaultInv
  <2>2. CASE SweepNext \/ UNCHANGED vars
    <3>1. pending' = pending
      <4>1. CASE SweepNext
        BY <4>1 DEF SweepNext, DepositArrives, PayoutSpends, build_halts, build, sweep_approve,
           sweep_execute, sync_vault, sweep_revoke, SweepApprovalExpires, SweepSignerRestarts,
           SweepStep, ask_sweep, ask_sweep_refused, sweep_falls_short, SweepSpends,
           ask_sweep_unavailable, PeerAsksForSweep, GovernanceStays, program
      <4>2. CASE UNCHANGED vars
        BY <4>2 DEF vars, governanceVars
      <4> QED BY <2>2, <4>1, <4>2
    <3> QED BY <3>1
  <2> QED BY <1>1, <2>1, <2>2 DEF Next
<1> QED
  BY <1>1, VaultAlways, PTL DEF Spec, CancelHitsItsTarget

=============================================================================
