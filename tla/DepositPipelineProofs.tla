------------------------ MODULE DepositPipelineProofs ------------------------
(* The deposit pipeline for every block tree, every set of deposits and    *)
(* any number of faults, rotations and seconds.                            *)
EXTENDS DepositPipeline, Sums

-----------------------------------------------------------------------------
(* Reading rows in order.                                                  *)

WhereStep(f, s, T, i) ==
    IF i = 0 THEN <<>>
    ELSE IF s[i] \in T THEN Append(f[i - 1], s[i]) ELSE f[i - 1]

IsWhere(f, s, T, n) == f = [i \in 0..n |-> WhereStep(f, s, T, i)]

(* The recursion behind Where has a solution. *)
LEMMA WhereDefined ==
    ASSUME NEW s, NEW T, NEW len \in Nat
    PROVE  \E f : IsWhere(f, s, T, len)
<1> DEFINE Bad == {n \in Nat : ~ \E f : IsWhere(f, s, T, n)}
<1>0. SUFFICES ASSUME Bad # {} PROVE FALSE
  OBVIOUS
<1> DEFINE n == Min(Bad)
<1>1. n \in Bad /\ \A m \in Bad : n <= m
  <2>1. Bad \subseteq Nat
    OBVIOUS
  <2> HIDE DEF Bad
  <2> QED BY <1>0, <2>1, LeastNumber
<1>2. n \in Nat /\ ~ \E f : IsWhere(f, s, T, n)
  BY <1>1
<1> HIDE DEF n
<1>3. n # 0
  <2> DEFINE g == [i \in 0..0 |-> <<>>]
  <2>1. \A i \in 0..0 : g[i] = WhereStep(g, s, T, i)
    BY DEF WhereStep
  <2>2. g = [i \in 0..0 |-> WhereStep(g, s, T, i)]
    <3> HIDE DEF WhereStep
    <3> QED BY <2>1
  <2>3. IsWhere(g, s, T, 0)
    BY <2>2 DEF IsWhere
  <2> QED BY <1>2, <2>3
<1>4. n - 1 \in Nat /\ n - 1 \notin Bad
  BY <1>1, <1>2, <1>3
<1>5. PICK f : IsWhere(f, s, T, n - 1)
  BY <1>4
<1> DEFINE g == [i \in 0..n |-> IF i = n THEN WhereStep(f, s, T, n) ELSE f[i]]
<1>6. ASSUME NEW i \in 0..n PROVE g[i] = WhereStep(g, s, T, i)
  <2>1. i # 0 => g[i - 1] = f[i - 1]
    BY <1>2, <1>3
  <2>2. WhereStep(g, s, T, i) = WhereStep(f, s, T, i)
    BY <2>1 DEF WhereStep
  <2>3. CASE i = n
    BY <2>2, <2>3
  <2>4. CASE i # n
    <3>1. i \in 0..(n - 1)
      BY <1>2, <2>4
    <3>2. f[i] = WhereStep(f, s, T, i)
      BY <1>5, <3>1 DEF IsWhere
    <3> QED BY <2>2, <2>4, <3>2
  <2> QED BY <2>3, <2>4
<1>7. IsWhere(g, s, T, n)
  <2>1. g = [i \in 0..n |-> g[i]]
    OBVIOUS
  <2>2. [i \in 0..n |-> g[i]] = [i \in 0..n |-> WhereStep(g, s, T, i)]
    <3> HIDE DEF g
    <3> QED BY <1>6
  <2> HIDE DEF g
  <2> QED BY <2>1, <2>2 DEF IsWhere
<1> QED
  BY <1>2, <1>7

(* What WHERE returns: rows of the table, those and only those that match, *)
(* each as often as it is there.                                           *)
LEMMA WhereFacts ==
    ASSUME NEW S, NEW s \in Seq(S), NEW T
    PROVE  /\ Where(s, T) \in Seq(S)
           /\ Elements(Where(s, T)) = Elements(s) \cap T
           /\ NoRepeats(s) => NoRepeats(Where(s, T))
<1> DEFINE W == CHOOSE f : IsWhere(f, s, T, Len(s))
<1>1. Where(s, T) = W[Len(s)]
  BY Zenon DEF Where, IsWhere, WhereStep
<1>2. Len(s) \in Nat /\ \A i \in 1..Len(s) : s[i] \in S
  OBVIOUS
<1>3. IsWhere(W, s, T, Len(s))
  <2>1. \E f : IsWhere(f, s, T, Len(s))
    BY <1>2, WhereDefined
  <2> QED BY <2>1, Zenon
<1> HIDE DEF W
<1>4. \A i \in 0..Len(s) : W[i] = WhereStep(W, s, T, i)
  BY <1>3 DEF IsWhere
<1> DEFINE Good(i) ==
              /\ W[i] \in Seq(S)
              /\ \A x : x \in Elements(W[i]) <=> x \in T /\ \E k \in 1..i : x = s[k]
              /\ NoRepeats(s) => NoRepeats(W[i])
           Bad == {i \in 0..Len(s) : ~Good(i)}
<1>5. ASSUME Bad # {} PROVE FALSE
  <2> DEFINE n == Min(Bad)
  <2>1. n \in Bad /\ \A m \in Bad : n <= m
    <3>1. Bad \subseteq Nat
      BY <1>2
    <3> HIDE DEF Bad
    <3> QED BY <1>5, <3>1, LeastNumber
  <2>2. n \in 0..Len(s) /\ ~Good(n)
    BY <2>1
  <2> HIDE DEF n
  <2>3. n # 0
    <3> SUFFICES ASSUME n = 0 PROVE Good(n)
      BY <2>2
    <3>1. W[n] = <<>>
      BY <1>2, <1>4 DEF WhereStep
    <3>2. Elements(<<>>) = {} /\ NoRepeats(<<>>) /\ <<>> \in Seq(S) /\ 1..0 = {}
      BY DEF Elements, NoRepeats
    <3> QED BY <3>1, <3>2
  <2>4. n - 1 \in 0..Len(s) /\ n - 1 \notin Bad /\ n \in 1..Len(s)
    BY <1>2, <2>1, <2>2, <2>3
  <2> DEFINE w == W[n - 1]
  <2>5. /\ w \in Seq(S)
        /\ \A x : x \in Elements(w) <=> x \in T /\ \E k \in 1..(n - 1) : x = s[k]
        /\ NoRepeats(s) => NoRepeats(w)
    BY <2>4
  <2>6. W[n] = IF s[n] \in T THEN Append(w, s[n]) ELSE w
    BY <1>4, <2>2, <2>3 DEF WhereStep
  <2>7. 1..n = 1..(n - 1) \cup {n}
    BY <1>2, <2>2, <2>3
  <2>8. s[n] \in S
    BY <1>2, <2>4
  <2> HIDE DEF w, Bad
  <2>9. CASE s[n] \in T
    <3>1. W[n] = Append(w, s[n])
      BY <2>6, <2>9
    <3>2. /\ Append(w, s[n]) \in Seq(S) /\ Len(Append(w, s[n])) = Len(w) + 1
          /\ DOMAIN w = 1..Len(w) /\ Len(w) \in Nat
          /\ DOMAIN Append(w, s[n]) = 1..(Len(w) + 1)
          /\ \A j \in 1..Len(w) : Append(w, s[n])[j] = w[j]
          /\ Append(w, s[n])[Len(w) + 1] = s[n]
      BY <2>5, <2>8
    <3>3. Elements(Append(w, s[n])) = Elements(w) \cup {s[n]}
      <4>1. 1..(Len(w) + 1) = 1..Len(w) \cup {Len(w) + 1}
        BY <3>2
      <4> DEFINE v == Append(w, s[n])  l == Len(w) + 1
      <4>2. /\ DOMAIN v = DOMAIN w \cup {l} /\ v[l] = s[n]
            /\ \A j \in DOMAIN w : v[j] = w[j]
        BY <3>2, <4>1
      <4> HIDE DEF v, l
      <4>3. \A x : x \in Elements(v) <=> x \in Elements(w) \cup {s[n]}
        BY <4>2 DEF Elements
      <4> QED BY <4>3 DEF v
    <3>4. \A x : x \in Elements(W[n]) <=> x \in T /\ \E k \in 1..n : x = s[k]
      BY <2>5, <2>7, <2>9, <3>1, <3>3
    <3>5. ASSUME NoRepeats(s) PROVE NoRepeats(W[n])
      <4>1. s[n] \notin Elements(w)
        <5> SUFFICES ASSUME NEW k \in 1..(n - 1), s[n] = s[k] PROVE FALSE
          BY <2>5
        <5>1. k \in DOMAIN s /\ n \in DOMAIN s /\ k # n
          BY <1>2, <2>4
        <5> QED BY <3>5, <5>1 DEF NoRepeats
      <4>2. \A j \in 1..Len(w) : w[j] # s[n]
        BY <3>2, <4>1 DEF Elements
      <4>3. \A i, j \in 1..Len(w) : w[i] = w[j] => i = j
        BY <2>5, <3>2, <3>5 DEF NoRepeats
      <4>4. \A i \in 1..(Len(w) + 1) : i \in 1..Len(w) \/ i = Len(w) + 1
        BY <3>2
      <4> QED BY <3>1, <3>2, <4>2, <4>3, <4>4 DEF NoRepeats
    <3> QED BY <2>2, <3>1, <3>2, <3>4, <3>5
  <2>10. CASE s[n] \notin T
    <3>1. W[n] = w
      BY <2>6, <2>10
    <3> QED BY <2>2, <2>5, <2>7, <2>10, <3>1
  <2> QED BY <2>9, <2>10
<1>6. Good(Len(s))
  <2>1. Len(s) \in 0..Len(s)
    BY <1>2
  <2> QED BY <1>5, <2>1
<1>7. Elements(W[Len(s)]) = Elements(s) \cap T
  <2>1. \A x : x \in Elements(s) <=> \E k \in 1..Len(s) : x = s[k]
    BY DEF Elements
  <2> QED BY <1>6, <2>1
<1> QED
  BY <1>1, <1>6, <1>7

-----------------------------------------------------------------------------
(* The block tree.                                                         *)

(* The parts of the assumption on the block tree. *)
LEMMA Tree ==
    /\ Genesis \in Blocks /\ IsFiniteSet(Blocks) /\ None \notin Blocks /\ None \notin Nat
    /\ \A b \in Blocks :
          /\ Path[b] \in Seq(Blocks) /\ Vault[b] \in Seq(Deposits) /\ NoRepeats(Vault[b])
          /\ Len(Path[b]) >= 1 /\ Path[b][1] = Genesis /\ Path[b][Len(Path[b])] = b
          /\ \A i \in DOMAIN Path[b] : Path[Path[b][i]] = SubSeq(Path[b], 1, i)
    /\ \A d \in Deposits : Amount[d] \in Nat /\ Pushes[d] \in Seq(Nat)
    /\ Vault[Genesis] = <<>> /\ MinDeposit \in Nat
  BY ChainAssumption

(* Every block has its height below the highest. *)
LEMMA Heights ==
    /\ TopHeight \in Nat
    /\ \A b \in Blocks : Height(b) \in Nat /\ Height(b) \in 0..TopHeight
<1>1. \A b \in Blocks : Height(b) \in Nat
  BY Tree DEF Height
<1> DEFINE H == {Height(b) : b \in Blocks}
<1>2. H \subseteq Nat /\ H # {}
  BY <1>1, Tree
<1>3. IsFiniteSet(H)
  <2> DEFINE f == [b \in Blocks |-> Height(b)]
  <2>1. \A h \in H : \E b \in Blocks : h = f[b]
    OBVIOUS
  <2>2. IsFiniteSet(Blocks)
    BY Tree
  <2> HIDE DEF f, H
  <2> QED BY <2>1, <2>2, FiniteImage
<1>4. Max(H) \in H /\ \A y \in H : y <= Max(H)
  <2> HIDE DEF H
  <2> QED BY <1>2, <1>3, GreatestNumber
<1>5. Max(H) \in Nat /\ \A b \in Blocks : Height(b) <= Max(H)
  BY <1>2, <1>4
<1> HIDE DEF H
<1>6. TopHeight = Max(H)
  BY DEF TopHeight, H
<1> QED
  BY <1>1, <1>5, <1>6

(* The block at a height of a chain, and the chain below it. *)
LEMMA ChainFacts ==
    ASSUME NEW b \in Blocks
    PROVE  /\ Height(b) \in Nat /\ BlockAt(b, Height(b)) = b
           /\ \A h \in 0..Height(b) :
                 /\ BlockAt(b, h) \in Blocks /\ Height(BlockAt(b, h)) = h
                 /\ \A k \in 0..h : BlockAt(BlockAt(b, h), k) = BlockAt(b, k)
<1>1. /\ Path[b] \in Seq(Blocks) /\ Len(Path[b]) >= 1 /\ Path[b][Len(Path[b])] = b
      /\ \A i \in DOMAIN Path[b] : Path[Path[b][i]] = SubSeq(Path[b], 1, i)
  BY Tree
<1>2. Height(b) \in Nat /\ BlockAt(b, Height(b)) = b
  BY <1>1 DEF Height, BlockAt
<1>3. ASSUME NEW h \in 0..Height(b)
      PROVE  /\ BlockAt(b, h) \in Blocks /\ Height(BlockAt(b, h)) = h
             /\ \A k \in 0..h : BlockAt(BlockAt(b, h), k) = BlockAt(b, k)
  <2>1. h \in Nat /\ h + 1 \in 1..Len(Path[b]) /\ h + 1 \in DOMAIN Path[b]
    BY <1>1 DEF Height
  <2>2. Path[Path[b][h + 1]] = SubSeq(Path[b], 1, h + 1) /\ Path[b][h + 1] \in Blocks
    BY <1>1, <2>1
  <2>3. /\ Len(SubSeq(Path[b], 1, h + 1)) = h + 1
        /\ \A j \in 1..(h + 1) : SubSeq(Path[b], 1, h + 1)[j] = Path[b][j]
    BY <1>1, <2>1
  <2>4. \A k \in 0..h : k + 1 \in 1..(h + 1)
    BY <2>1
  <2> QED
    BY <2>1, <2>2, <2>3, <2>4 DEF Height, BlockAt
<1> QED
  BY <1>2, <1>3

(* A row is a vault output of its block. *)
LEMMA RowFacts ==
    ASSUME NEW r \in Rows
    PROVE  /\ r.deposit \in Deposits /\ r.block \in Blocks
           /\ r.deposit \in Elements(Vault[r.block])
           /\ Height(r.block) \in Nat /\ Height(r.block) \in 0..TopHeight
           /\ Amount[r.deposit] \in Nat
<1>0. PICK b \in Blocks : \E d \in Elements(Vault[b]) : r = [deposit |-> d, block |-> b]
  BY DEF Rows
<1>1. PICK d \in Elements(Vault[b]) : r = [deposit |-> d, block |-> b]
  BY <1>0
<1>2. d \in Deposits
  BY <1>1, Tree DEF Elements
<1> QED
  BY <1>1, <1>2, Heights, Tree

(* The rows a block gives. *)
LEMMA CandidateFacts ==
    ASSUME NEW b \in Blocks
    PROVE  /\ vault_output_candidates(b) \in Seq(Rows)
           /\ NoRepeats(vault_output_candidates(b))
           /\ \A r \in Elements(vault_output_candidates(b)) : r \in Rows /\ r.block = b
<1> DEFINE v == Vault[b]  c == vault_output_candidates(b)
<1>1. v \in Seq(Deposits) /\ NoRepeats(v)
  BY Tree
<1>2. /\ Len(v) \in Nat /\ DOMAIN v = 1..Len(v) /\ DOMAIN c = 1..Len(v)
      /\ \A i \in 1..Len(v) : c[i] = [deposit |-> v[i], block |-> b]
  BY <1>1 DEF vault_output_candidates
<1>3. \A i \in 1..Len(v) : c[i] \in Rows
  <2>1. \A i \in 1..Len(v) : v[i] \in Elements(v)
    BY <1>2 DEF Elements
  <2>2. ASSUME NEW d \in Elements(Vault[b]) PROVE [deposit |-> d, block |-> b] \in Rows
    <3> DEFINE X(c1) == {[deposit |-> e, block |-> c1] : e \in Elements(Vault[c1])}
    <3>1. [deposit |-> d, block |-> b] \in X(b)
      OBVIOUS
    <3>2. Rows = UNION {X(c1) : c1 \in Blocks}
      BY DEF Rows
    <3> HIDE DEF X
    <3> QED BY <3>1, <3>2
  <2> HIDE DEF c
  <2> QED BY <1>2, <2>1, <2>2
<1>4. c \in Seq(Rows)
  <2>1. c = [i \in 1..Len(v) |-> c[i]]
    BY <1>2 DEF vault_output_candidates
  <2> HIDE DEF c, v
  <2> QED BY <1>2, <1>3, <2>1
<1>5. NoRepeats(c)
  <2> SUFFICES ASSUME NEW i \in 1..Len(v), NEW j \in 1..Len(v), c[i] = c[j] PROVE i = j
    BY <1>2 DEF NoRepeats
  <2>1. c[i].deposit = v[i] /\ c[j].deposit = v[j]
    <3> HIDE DEF c, v
    <3> QED BY <1>2
  <2> QED BY <1>1, <1>2, <2>1 DEF NoRepeats
<1>6. \A r \in Elements(c) : r \in Rows /\ r.block = b
  <2> HIDE DEF c, v
  <2> QED BY <1>2, <1>3 DEF Elements
<1> QED
  BY <1>4, <1>5, <1>6

(* The rows are finitely many, so their amounts add up. *)
LEMMA RowsFinite == IsFiniteSet(Rows)
<1> DEFINE C == UNION {Elements(Vault[b]) : b \in Blocks}
           f == [b \in Blocks |-> Elements(Vault[b])]
           U == {f[b] : b \in Blocks}
           P == C \X Blocks
           g == [p \in P |-> [deposit |-> p[1], block |-> p[2]]]
<1>1. IsFiniteSet(Blocks)
  BY Tree
<1>2. ASSUME NEW b \in Blocks PROVE IsFiniteSet(Elements(Vault[b]))
  <2> DEFINE v == Vault[b]  E == Elements(Vault[b])
  <2>1. Len(v) \in Nat /\ DOMAIN v = 1..Len(v)
    BY Tree
  <2>2. IsFiniteSet(DOMAIN v)
    BY <2>1, FS_Interval
  <2>3. \A y \in E : \E i \in DOMAIN v : y = v[i]
    BY DEF Elements
  <2> HIDE DEF v, E
  <2>4. IsFiniteSet(E)
    BY <2>2, <2>3, FiniteImage
  <2> QED BY <2>4 DEF E
<1>3. IsFiniteSet(U) /\ \A x \in U : IsFiniteSet(x)
  <2>1. \A x \in U : \E b \in Blocks : x = f[b]
    OBVIOUS
  <2>2. \A x \in U : IsFiniteSet(x)
    BY <1>2
  <2> HIDE DEF U, f
  <2> QED BY <1>1, <2>1, <2>2, FiniteImage
<1>4. IsFiniteSet(UNION U)
  <2> HIDE DEF U
  <2> QED BY <1>3, FS_UNION
<1>5. C \subseteq UNION U
  OBVIOUS
<1>6. IsFiniteSet(P)
  <2> HIDE DEF C, U
  <2> QED BY <1>1, <1>4, <1>5, FS_Subset, FS_Product
<1>7. ASSUME NEW r \in Rows PROVE \E p \in P : r = g[p]
  <2>1. PICK b \in Blocks : \E d \in Elements(Vault[b]) : r = [deposit |-> d, block |-> b]
    BY DEF Rows
  <2>2. PICK d \in Elements(Vault[b]) : r = [deposit |-> d, block |-> b]
    BY <2>1
  <2>3. <<d, b>> \in P
    BY <2>2
  <2>4. g[<<d, b>>] = r
    <3> HIDE DEF C
    <3> QED BY <2>2, <2>3
  <2> QED BY <2>3, <2>4
<1> HIDE DEF P, g
<1> QED
  BY <1>6, <1>7, FiniteImage

-----------------------------------------------------------------------------
(* Work lists.                                                             *)

(* Taking the head of a list. *)
LEMMA ListRest ==
    ASSUME NEW S, NEW s \in Seq(S), s # <<>>
    PROVE  /\ Head(s) \in S /\ Head(s) \in Elements(s)
           /\ Tail(s) \in Seq(S) /\ Elements(Tail(s)) \subseteq Elements(s)
           /\ NoRepeats(s) => NoRepeats(Tail(s)) /\ Head(s) \notin Elements(Tail(s))
<1>1. /\ Len(s) \in Nat /\ Len(s) >= 1 /\ DOMAIN s = 1..Len(s) /\ Head(s) = s[1]
      /\ Tail(s) \in Seq(S) /\ Len(Tail(s)) = Len(s) - 1 /\ DOMAIN Tail(s) = 1..(Len(s) - 1)
      /\ \A i \in 1..(Len(s) - 1) : Tail(s)[i] = s[i + 1]
  OBVIOUS
<1>2. /\ 1 \in 1..Len(s)
      /\ \A i \in 1..(Len(s) - 1) : i + 1 \in 1..Len(s) /\ i + 1 # 1
  BY <1>1
<1>3. \A i, j \in 1..(Len(s) - 1) : i + 1 = j + 1 => i = j
  BY <1>1
<1>4. Head(s) \in S /\ Head(s) \in Elements(s) /\ Elements(Tail(s)) \subseteq Elements(s)
  BY <1>1, <1>2 DEF Elements
<1>5. ASSUME NoRepeats(s) PROVE NoRepeats(Tail(s)) /\ Head(s) \notin Elements(Tail(s))
  BY <1>1, <1>2, <1>3, <1>5 DEF NoRepeats, Elements
<1> QED
  BY <1>1, <1>4, <1>5

(* One list after another. *)
LEMMA ListJoin ==
    ASSUME NEW S, NEW s \in Seq(S), NEW t \in Seq(S)
    PROVE  /\ s \o t \in Seq(S) /\ Elements(s \o t) = Elements(s) \cup Elements(t)
           /\ NoRepeats(s) /\ NoRepeats(t) /\ Elements(s) \cap Elements(t) = {}
                 => NoRepeats(s \o t)
<1> DEFINE m == Len(s)  n == Len(t)  u == s \o t
<1>1. /\ m \in Nat /\ n \in Nat /\ DOMAIN s = 1..m /\ DOMAIN t = 1..n
      /\ u \in Seq(S) /\ DOMAIN u = 1..(m + n)
      /\ \A i \in 1..m : u[i] = s[i]
      /\ \A i \in 1..(m + n) : i > m => u[i] = t[i - m]
  OBVIOUS
<1> HIDE DEF m, n, u
<1>2. /\ \A i \in 1..(m + n) : i \in 1..m \/ (i > m /\ i - m \in 1..n)
      /\ \A i \in 1..n : i + m \in 1..(m + n) /\ i + m > m /\ (i + m) - m = i
      /\ \A i \in 1..m : i \in 1..(m + n)
      /\ \A i, j \in 1..(m + n) : i - m = j - m => i = j
  <2>1. m \in Nat /\ n \in Nat
    BY <1>1
  <2> QED BY <2>1
<1>x. /\ \A x : x \in Elements(s) <=> \E i \in 1..m : x = s[i]
      /\ \A x : x \in Elements(t) <=> \E i \in 1..n : x = t[i]
      /\ \A x : x \in Elements(u) <=> \E i \in 1..(m + n) : x = u[i]
  BY <1>1 DEF Elements
<1>y. \A i \in 1..n : u[i + m] = t[i]
  BY <1>1, <1>2
<1>3. \A x \in Elements(u) : x \in Elements(s) \cup Elements(t)
  BY <1>1, <1>2, <1>x
<1>4. \A x \in Elements(s) : x \in Elements(u)
  BY <1>1, <1>2, <1>x
<1>5. \A x \in Elements(t) : x \in Elements(u)
  BY <1>2, <1>x, <1>y
<1>6. ASSUME NoRepeats(s), NoRepeats(t), Elements(s) \cap Elements(t) = {}
      PROVE  NoRepeats(u)
  <2> SUFFICES ASSUME NEW i \in 1..(m + n), NEW j \in 1..(m + n), u[i] = u[j] PROVE i = j
    BY <1>1 DEF NoRepeats
  <2>1. CASE i \in 1..m /\ j \in 1..m
    BY <1>1, <1>6, <2>1 DEF NoRepeats
  <2>2. CASE i > m /\ j > m
    <3>1. i \notin 1..m /\ j \notin 1..m
      BY <1>1, <2>2
    <3>2. i - m \in 1..n /\ j - m \in 1..n /\ t[i - m] = t[j - m]
      BY <1>1, <1>2, <2>2, <3>1
    <3>3. i - m = j - m
      BY <1>1, <1>6, <3>2 DEF NoRepeats
    <3> QED BY <1>2, <3>3
  <2>3. ASSUME i \in 1..m, j > m PROVE FALSE
    <3>1. u[i] \in Elements(s) /\ u[j] \in Elements(t)
      BY <1>1, <1>2, <1>x, <2>3
    <3> QED BY <1>6, <3>1
  <2>4. ASSUME j \in 1..m, i > m PROVE FALSE
    <3>1. u[j] \in Elements(s) /\ u[i] \in Elements(t)
      BY <1>1, <1>2, <1>x, <2>4
    <3> QED BY <1>6, <3>1
  <2> QED BY <1>1, <1>2, <2>1, <2>2, <2>3, <2>4
<1>7. Elements(u) = Elements(s) \cup Elements(t)
  BY <1>3, <1>4, <1>5
<1> QED
  BY <1>1, <1>6, <1>7 DEF u

(* The rows of one state. *)
LEMMA RowsInFacts ==
    ASSUME ids \in Seq(Rows), NEW state
    PROVE  /\ RowsIn(state) \in Seq(Rows)
           /\ \A r \in Elements(RowsIn(state)) : r \in Rows /\ row[r] = state
           /\ NoRepeats(ids) => NoRepeats(RowsIn(state))
           /\ RowsIn(state) # <<>> =>
                 Head(RowsIn(state)) \in Rows /\ row[Head(RowsIn(state))] = state
<1> DEFINE T == {r \in Rows : row[r] = state}
<1>1. /\ Where(ids, T) \in Seq(Rows) /\ Elements(Where(ids, T)) = Elements(ids) \cap T
      /\ NoRepeats(ids) => NoRepeats(Where(ids, T))
  <2> HIDE DEF T
  <2> QED BY WhereFacts
<1>2. RowsIn(state) = Where(ids, T)
  BY DEF RowsIn
<1>3. \A r \in Elements(RowsIn(state)) : r \in Rows /\ row[r] = state
  BY <1>1, <1>2
<1>4. RowsIn(state) # <<>> => Head(RowsIn(state)) \in Elements(RowsIn(state))
  <2> HIDE DEF T
  <2> QED BY <1>1, <1>2, ListRest
<1> QED
  BY <1>1, <1>2, <1>3, <1>4

-----------------------------------------------------------------------------
(* Types.  What the indexer is about to read exists: the heights it walks  *)
(* are at or below a tip it has seen, and a tip it has seen is never above *)
(* the node's, because the node's never gets lower.                        *)
Cursor ==
    /\ dbTip # None => Height(dbTip) <= Height(node)
    /\ idx.liveTip <= Height(node)
    /\ idx.pc \in {"fork", "rollback"} => dbTip # None /\ idx.h <= Height(dbTip)
    /\ idx.pc = "index" => idx.h = IF dbTip = None THEN 0 ELSE Height(dbTip) + 1
    /\ orc.pc # "idle" => orc.todo # <<>>

TypeInv == TypeOK /\ Cursor

IndexerType ==
    [pc : {"idle", "fork", "rollback", "index", "promote"},
     h : 0..(TopHeight + 1), liveTip : 0..TopHeight,
     todo : Seq(Rows), halted : BOOLEAN]

OrchestratorType == [pc : {"idle", "row", "collect", "send", "mark"}, todo : Seq(Rows)]

(* Both loops start with nothing to do. *)
LEMMA IdleTypes == IdleIndexer \in IndexerType /\ IdleOrchestrator \in OrchestratorType
  BY Heights DEF IdleIndexer, IdleOrchestrator, IndexerType, OrchestratorType

(* The node is asked only for heights it has. *)
LEMMA CursorFacts ==
    ASSUME TypeInv
    PROVE  /\ TopHeight \in Nat /\ idx.h \in Nat /\ idx.liveTip \in Nat
           /\ Height(node) \in Nat /\ Height(node) <= TopHeight
           /\ dbTip # None => dbTip \in Blocks /\ Height(dbTip) \in Nat
           /\ idx.pc \in {"fork", "rollback"} => idx.h \in 0..Height(node)
           /\ idx.pc = "index" /\ idx.h <= idx.liveTip => idx.h \in 0..Height(node)
           /\ \A h \in 0..Height(node) :
                 BlockAt(node, h) \in Blocks /\ Height(BlockAt(node, h)) = h
<1>1. node \in Blocks /\ idx.h \in 0..(TopHeight + 1) /\ idx.liveTip \in 0..TopHeight
      /\ dbTip \in Blocks \cup {None}
  BY DEF TypeInv, TypeOK
<1>2. TopHeight \in Nat /\ Height(node) \in Nat /\ Height(node) <= TopHeight
      /\ (dbTip # None => dbTip \in Blocks /\ Height(dbTip) \in Nat)
  BY <1>1, Heights
<1>3. \A h \in 0..Height(node) : BlockAt(node, h) \in Blocks /\ Height(BlockAt(node, h)) = h
  BY <1>1, ChainFacts
<1> QED
  BY <1>1, <1>2, <1>3 DEF TypeInv, Cursor

(* The start is typed. *)
LEMMA TypeInit == Init => TypeInv
<1> SUFFICES ASSUME Init PROVE TypeInv
  OBVIOUS
<1>1. Height(Genesis) \in Nat /\ TopHeight \in Nat /\ Genesis \in Blocks
  BY Heights, Tree
<1>2. idx \in IndexerType /\ orc \in OrchestratorType
  BY IdleTypes DEF Init
<1>s. shaken \in BOOLEAN
  BY Zenon DEF Init
<1>3. TypeOK
  BY <1>1, <1>2, <1>s, DepthAssumption
     DEF Init, TypeOK, States, Active, IndexerType, OrchestratorType, IdleIndexer
<1>4. Cursor
  BY <1>1 DEF Init, Cursor, IdleIndexer, IdleOrchestrator
<1> QED
  BY <1>3, <1>4 DEF TypeInv

(* The indexer's steps, by what they leave: everything outside its own     *)
(* database work stays as it was.                                          *)
LEMMA IndexerTypes ==
    ASSUME TypeInv, IndexerStep
    PROVE  /\ idx' \in IndexerType /\ (idx'.halted => idx'.pc = "idle")
           /\ indexed' \in [0..TopHeight -> Blocks \cup {None}]
           /\ dbTip' \in Blocks \cup {None}
           /\ ids' \in Seq(Rows) /\ row' \in [Rows -> States]
           /\ artifact' \in [Rows -> Nat \cup {None}]
           /\ readyAt' \in [Rows -> Nat \cup {None}]
           /\ Cursor'
           /\ UNCHANGED IndexerUnchanged
<1> DEFINE Goal == /\ idx' \in IndexerType /\ (idx'.halted => idx'.pc = "idle")
                   /\ indexed' \in [0..TopHeight -> Blocks \cup {None}]
                   /\ dbTip' \in Blocks \cup {None}
                   /\ ids' \in Seq(Rows) /\ row' \in [Rows -> States]
                   /\ artifact' \in [Rows -> Nat \cup {None}]
                   /\ readyAt' \in [Rows -> Nat \cup {None}]
                   /\ Cursor'
                   /\ UNCHANGED IndexerUnchanged
<1>0. /\ idx \in IndexerType /\ (idx.halted => idx.pc = "idle")
      /\ indexed \in [0..TopHeight -> Blocks \cup {None}]
      /\ dbTip \in Blocks \cup {None} /\ node \in Blocks
      /\ ids \in Seq(Rows) /\ row \in [Rows -> States]
      /\ artifact \in [Rows -> Nat \cup {None}]
      /\ readyAt \in [Rows -> Nat \cup {None}]
      /\ Cursor /\ clock \in Nat /\ configEpoch \in Nat
  BY DepthAssumption DEF TypeInv, TypeOK, IndexerType
<1> USE DEF database, IndexerUnchanged, solana
<1>1. CASE TickHalted
  BY <1>0, <1>1 DEF TickHalted, vars, Cursor
<1>m. /\ orc.pc # "idle" => orc.todo # <<>>
      /\ dbTip # None => dbTip \in Blocks /\ Height(dbTip) \in Nat /\ Height(dbTip) <= Height(node)
      /\ Height(node) \in Nat /\ Height(node) <= TopHeight /\ TopHeight \in Nat
      /\ idx.h \in Nat /\ idx.liveTip \in Nat /\ idx.liveTip <= Height(node)
      /\ idx.liveTip <= TopHeight /\ idx.h <= TopHeight + 1
  <2>1. idx.h \in 0..(TopHeight + 1) /\ idx.liveTip \in 0..TopHeight
    BY <1>0 DEF IndexerType
  <2> QED BY <1>0, <2>1, CursorFacts DEF Cursor
<1>2. CASE TickBegins
  <2> DEFINE p == IF dbTip = None THEN "index" ELSE "fork"
             h == IF dbTip = None THEN 0 ELSE Height(dbTip)
  <2>1. /\ idx' = [idx EXCEPT !.pc = p, !.h = h, !.liveTip = Height(node)] /\ ~idx.halted
        /\ UNCHANGED <<database, IndexerUnchanged>>
    BY <1>2 DEF TickBegins
  <2>2. h \in 0..(TopHeight + 1) /\ Height(node) \in 0..TopHeight /\ Height(node) <= Height(node)
        /\ (dbTip # None => h <= Height(dbTip))
    BY <1>m
  <2>3. /\ idx' \in IndexerType /\ idx'.pc = p /\ idx'.h = h /\ idx'.liveTip = Height(node)
        /\ ~idx'.halted
    <3> HIDE DEF h
    <3> QED BY <1>0, <2>1, <2>2 DEF IndexerType
  <2>4. Cursor'
    BY <1>0, <1>m, <2>1, <2>2, <2>3 DEF Cursor
  <2> QED BY <1>0, <2>1, <2>3, <2>4
<1>3. CASE ForkPointFound
  <2>1. /\ idx.pc = "fork" /\ dbTip # None /\ idx.h <= Height(dbTip)
        /\ idx' = IF idx.h = Height(dbTip)
                  THEN [idx EXCEPT !.pc = "index", !.h = idx.h + 1]
                  ELSE [idx EXCEPT !.pc = "rollback"]
        /\ UNCHANGED <<database, IndexerUnchanged>> /\ ~idx.halted
    BY <1>0, <1>3 DEF ForkPointFound, Cursor, IndexerType
  <2>2. idx.h + 1 \in 0..(TopHeight + 1)
    BY <1>m, <2>1
  <2>3. /\ idx' \in IndexerType /\ ~idx'.halted /\ idx'.liveTip = idx.liveTip
        /\ \/ idx'.pc = "index" /\ idx'.h = Height(dbTip) + 1
           \/ idx'.pc = "rollback" /\ idx'.h = idx.h
    BY <1>0, <2>1, <2>2 DEF IndexerType
  <2>4. Cursor'
    BY <1>0, <1>m, <2>1, <2>3 DEF Cursor
  <2> QED BY <1>0, <2>1, <2>3, <2>4
<1>4. CASE WalkBack
  <2>0. /\ idx.pc = "fork" /\ dbTip # None /\ idx.h <= Height(dbTip) /\ ~idx.halted
        /\ UNCHANGED <<database, IndexerUnchanged>>
    BY <1>0, <1>4 DEF WalkBack, Cursor
  <2>1. CASE ForkTooDeep
    <3>1. /\ idx' \in IndexerType /\ idx'.pc = "idle" /\ idx'.liveTip = 0
      BY <1>4, <2>1, IdleTypes DEF WalkBack, IndexerType, IdleIndexer
    <3>2. Cursor'
      BY <1>0, <1>m, <2>0, <3>1 DEF Cursor
    <3> QED BY <1>0, <2>0, <3>1, <3>2
  <2>2. CASE ~ForkTooDeep
    <3>1. idx.h # 0 /\ idx' = [idx EXCEPT !.h = idx.h - 1]
      BY <1>0, <1>4, <2>2 DEF WalkBack, ForkTooDeep, IndexerType
    <3>2. idx.h - 1 \in 0..(TopHeight + 1) /\ idx.h - 1 <= Height(dbTip)
      BY <1>m, <2>0, <3>1
    <3>3. /\ idx' \in IndexerType /\ idx'.pc = "fork" /\ idx'.h = idx.h - 1
          /\ idx'.liveTip = idx.liveTip /\ ~idx'.halted
      BY <1>0, <2>0, <3>1, <3>2 DEF IndexerType
    <3>4. Cursor'
      BY <1>0, <1>m, <2>0, <3>2, <3>3 DEF Cursor
    <3> QED BY <1>0, <2>0, <3>3, <3>4
  <2> QED BY <2>1, <2>2
<1>5. CASE rollback_reorg
  <2>1. /\ idx.pc = "rollback" /\ dbTip # None /\ idx.h <= Height(dbTip) /\ ~idx.halted
        /\ idx' = [idx EXCEPT !.pc = "index", !.h = idx.h + 1]
        /\ dbTip' = BlockAt(node, idx.h)
        /\ UNCHANGED <<ids, artifact, readyAt, IndexerUnchanged>>
    BY <1>0, <1>5 DEF rollback_reorg, Cursor, IndexerType
  <2>2. idx.h + 1 \in 0..(TopHeight + 1) /\ idx.h \in 0..Height(node)
    BY <1>m, <2>1
  <2>3. /\ idx' \in IndexerType /\ ~idx'.halted /\ idx'.liveTip = idx.liveTip
        /\ idx'.pc = "index" /\ idx'.h = idx.h + 1
    BY <1>0, <2>1, <2>2 DEF IndexerType
  <2>4. dbTip' \in Blocks /\ Height(dbTip') = idx.h /\ dbTip' # None
    BY <2>1, <2>2, CursorFacts, Tree
  <2>5. Cursor'
    BY <1>0, <1>m, <2>1, <2>2, <2>3, <2>4 DEF Cursor
  <2>6. row' \in [Rows -> States] /\ indexed' \in [0..TopHeight -> Blocks \cup {None}]
    BY <1>0, <1>5 DEF rollback_reorg, States
  <2> QED BY <1>0, <2>1, <2>3, <2>4, <2>5, <2>6
<1>6. CASE index_block
  <2> DEFINE b == BlockAt(node, idx.h)
             new == Where(vault_output_candidates(b), {r \in Rows : IsNew(r)})
  <2>1. /\ idx.pc = "index" /\ idx.h <= idx.liveTip /\ ~idx.halted
        /\ idx' = [idx EXCEPT !.h = idx.h + 1]
        /\ dbTip' = b /\ ids' = ids \o new
        /\ indexed' = [indexed EXCEPT ![idx.h] = IF indexed[idx.h] = None THEN b
                                                 ELSE indexed[idx.h]]
        /\ row' = [r \in Rows |->
                     IF r \in Elements(new) THEN initial_state(r.deposit) ELSE row[r]]
        /\ UNCHANGED <<artifact, readyAt, IndexerUnchanged>>
    BY <1>0, <1>6 DEF index_block, IndexerType
  <2>2. idx.h + 1 \in 0..(TopHeight + 1) /\ idx.h \in 0..Height(node)
    BY <1>m, <2>1
  <2>3. /\ idx' \in IndexerType /\ ~idx'.halted /\ idx'.liveTip = idx.liveTip
        /\ idx'.pc = "index" /\ idx'.h = idx.h + 1
    BY <1>0, <2>1, <2>2 DEF IndexerType
  <2>4. b \in Blocks /\ Height(b) = idx.h /\ b # None
    BY <2>2, CursorFacts, Tree
  <2>5. new \in Seq(Rows)
    <3>1. vault_output_candidates(b) \in Seq(Rows)
      BY <2>4, CandidateFacts
    <3> QED BY <3>1, WhereFacts
  <2> HIDE DEF new, b
  <2>6. Cursor'
    BY <1>0, <1>m, <2>1, <2>2, <2>3, <2>4 DEF Cursor
  <2>7. row' \in [Rows -> States]
    BY <1>0, <2>1 DEF States, Active, initial_state
  <2>8. indexed' \in [0..TopHeight -> Blocks \cup {None}]
    BY <1>0, <2>1, <2>4
  <2>9. ids' \in Seq(Rows)
    BY <1>0, <2>1, <2>5, ListJoin
  <2> QED BY <1>0, <2>1, <2>3, <2>4, <2>6, <2>7, <2>8, <2>9
<1>7. CASE AdvanceCandidate
  BY <1>0, <1>7, RowsInFacts
     DEF AdvanceCandidate, transition_state, IndexerType, Cursor, States, Active
<1>8. CASE PromoteBegins
  BY <1>0, <1>8, RowsInFacts, WhereFacts DEF PromoteBegins, IndexerType, Cursor
<1>9. CASE PromoteToFailed
  BY <1>0, <1>9, ListRest
     DEF PromoteToFailed, Promoting, PromoteNext, transition_state, IndexerType, Cursor, States
<1>10. CASE PromoteDeferred
  BY <1>0, <1>10, ListRest DEF PromoteDeferred, Promoting, PromoteNext, IndexerType, Cursor
<1>11. CASE PromoteToReady
  BY <1>0, <1>11, ListRest
     DEF PromoteToReady, Promoting, PromoteNext, transition_state, build_claim_message,
         IndexerType, Cursor, States, Active
<1>12. CASE TickEnds
  <2>1. idx' \in IndexerType /\ idx'.pc = "idle" /\ idx'.liveTip = 0
    BY <1>12, IdleTypes DEF TickEnds, IdleIndexer
  <2>2. Cursor'
    BY <1>0, <1>m, <1>12, <2>1 DEF Cursor, TickEnds
  <2> QED BY <1>0, <1>12, <2>1, <2>2 DEF TickEnds
<1> QED
  BY <1>1, <1>2, <1>3, <1>4, <1>5, <1>6, <1>7, <1>8, <1>9, <1>10, <1>11, <1>12
     DEF IndexerStep

(* The orchestrator's steps. *)
LEMMA OrchestratorTypes ==
    ASSUME TypeInv, OrchestratorStep
    PROVE  /\ orc' \in OrchestratorType /\ (orc'.pc # "idle" => orc'.todo # <<>>)
           /\ row' \in [Rows -> States]
           /\ inflight' \subseteq [deposit : Deposits, epoch : 0..MaxEpoch]
           /\ faults' \in 0..MaxFaults
           /\ UNCHANGED <<OrchestratorUnchanged, corrupt>>
<1>0. /\ orc \in OrchestratorType /\ row \in [Rows -> States] /\ ids \in Seq(Rows)
      /\ inflight \subseteq [deposit : Deposits, epoch : 0..MaxEpoch]
      /\ faults \in 0..MaxFaults /\ chainEpoch \in 0..MaxEpoch
      /\ orc.pc # "idle" => orc.todo # <<>>
  BY DEF TypeInv, TypeOK, OrchestratorType, Cursor
<1>1. ASSUME orc.pc # "idle" PROVE /\ Current \in Rows /\ Tail(orc.todo) \in Seq(Rows)
                                   /\ Len(orc.todo) \in Nat /\ orc.todo \in Seq(Rows)
                                   /\ Len(orc.todo) # 1 => Tail(orc.todo) # <<>>
  <2>1. orc.todo \in Seq(Rows) /\ orc.todo # <<>>
    BY <1>0, <1>1 DEF OrchestratorType
  <2>2. Head(orc.todo) \in Rows /\ Tail(orc.todo) \in Seq(Rows)
    <3> DEFINE t == orc.todo  S == Rows
    <3>1. t \in Seq(S) /\ t # <<>>
      BY <2>1
    <3> HIDE DEF t, S
    <3>2. Head(t) \in S /\ Tail(t) \in Seq(S)
      BY <3>1, ListRest
    <3> QED BY <3>2 DEF t, S
  <2>3. Len(orc.todo) \in Nat /\ (Len(orc.todo) # 1 => Tail(orc.todo) # <<>>)
    <3> DEFINE t == orc.todo
    <3>1. t \in Seq(Rows) /\ t # <<>>
      BY <2>1
    <3> HIDE DEF t
    <3>2. Len(t) \in Nat /\ Len(Tail(t)) = Len(t) - 1 /\ Len(t) # 0
      BY <3>1
    <3>a. Len(<<>>) = 0
      OBVIOUS
    <3>3. Tail(t) = <<>> => Len(Tail(t)) = 0
      BY <3>a, Zenon
    <3>4. Len(t) # 1 => Tail(t) # <<>>
      BY <3>2, <3>3
    <3> QED BY <3>2, <3>4 DEF t
  <2> QED BY <2>1, <2>2, <2>3 DEF Current
<1>2. ASSUME orc.pc # "idle", NextRow
      PROVE  orc' \in OrchestratorType /\ (orc'.pc # "idle" => orc'.todo # <<>>)
  BY <1>0, <1>1, <1>2, IdleTypes DEF NextRow, OrchestratorType, IdleOrchestrator
<1>3. ASSUME NEW p \in {"row", "collect", "send", "mark"}, orc.pc # "idle",
             orc' = [orc EXCEPT !.pc = p]
      PROVE  orc' \in OrchestratorType /\ (orc'.pc # "idle" => orc'.todo # <<>>)
  BY <1>0, <1>3 DEF OrchestratorType
<1>4. ASSUME orc' = IdleOrchestrator
      PROVE  orc' \in OrchestratorType /\ (orc'.pc # "idle" => orc'.todo # <<>>)
  BY <1>4, IdleTypes DEF IdleOrchestrator
<1> USE DEF OrchestratorUnchanged
<1>5. CASE MintTickBegins
  <2>1. RowsIn("ReadyForSignature") \o RowsIn("Submitted") \in Seq(Rows)
    BY <1>0, RowsInFacts, ListJoin
  <2> QED BY <1>0, <1>5, <2>1 DEF MintTickBegins, OrchestratorType
<1>6. CASE mark_minted
  BY <1>0, <1>1, <1>2, <1>6 DEF mark_minted, States
<1>7. CASE verify_and_load_signable_message
  BY <1>0, <1>1, <1>2, <1>3, <1>7 DEF verify_and_load_signable_message, States
<1>8. CASE SignaturesCollected
  BY <1>0, <1>3, <1>8 DEF SignaturesCollected
<1>9. CASE InsufficientSignatures
  BY <1>0, <1>2, <1>9, DepthAssumption DEF InsufficientSignatures
<1>10. CASE send_transaction
  <2>1. CurrentMint \in [deposit : Deposits, epoch : 0..MaxEpoch]
    <3>1. Current.deposit \in Deposits
      BY <1>1, <1>10, RowFacts DEF send_transaction
    <3>2. artifact[Current] = chainEpoch
      BY <1>10 DEF send_transaction, Mintable, CurrentMint, mint_wrapped_instruction
    <3> QED BY <1>0, <3>1, <3>2 DEF CurrentMint, mint_wrapped_instruction
  <2> QED BY <1>0, <1>3, <1>10, <2>1 DEF send_transaction
<1>11. CASE send_transaction_refused
  BY <1>0, <1>4, <1>11 DEF send_transaction_refused
<1>12. CASE mark_submitted
  BY <1>0, <1>1, <1>2, <1>12 DEF mark_submitted, States, Active
<1> QED
  BY <1>5, <1>6, <1>7, <1>8, <1>9, <1>10, <1>11, <1>12 DEF OrchestratorStep

(* What happens around the two loops. *)
LEMMA EnvironmentTypes ==
    ASSUME TypeInv, Environment PROVE TypeInv'
<1>0. /\ idx \in IndexerType /\ orc \in OrchestratorType /\ TypeOK /\ Cursor
      /\ row \in [Rows -> States] /\ corrupt \subseteq Rows /\ claims \subseteq Deposits
      /\ everDeep \subseteq Deposits /\ faults \in 0..MaxFaults /\ clock \in 0..MaxClock
      /\ chainEpoch \in 0..MaxEpoch /\ configEpoch \in 0..MaxEpoch
      /\ inflight \subseteq [deposit : Deposits, epoch : 0..MaxEpoch]
  BY DEF TypeInv, TypeOK, IndexerType, OrchestratorType
<1>f. ASSUME Fault PROVE faults' \in 0..MaxFaults
  BY <1>0, <1>f, DepthAssumption DEF Fault
<1>h. Height(node) \in Nat /\ 0 <= Height(node)
  BY CursorFacts
<1>i. /\ IdleIndexer \in IndexerType /\ IdleIndexer.pc = "idle" /\ IdleIndexer.liveTip = 0
      /\ ~IdleIndexer.halted
      /\ IdleOrchestrator \in OrchestratorType /\ IdleOrchestrator.pc = "idle"
  BY IdleTypes DEF IdleIndexer, IdleOrchestrator
<1> USE DEF database, solana
<1>1. ASSUME NEW b \in Blocks, TipMoves(b) PROVE TypeInv'
  <2>1. /\ Height(b) \in Nat /\ Height(b) > Height(node) /\ node' = b
        /\ everDeep' \subseteq Deposits
        /\ UNCHANGED <<database, corrupt, idx, orc, configEpoch, solana, clock, faults>>
    BY <1>0, <1>1, Heights DEF TipMoves
  <2>s. shaken' \in BOOLEAN
    BY <1>1, Zenon DEF TipMoves
  <2>2. TypeOK'
    BY <1>0, <2>1, <2>s DEF TypeOK
  <2>3. Cursor'
    BY <1>0, <2>1, CursorFacts DEF Cursor
  <2> QED BY <2>2, <2>3 DEF TypeInv
<1>2. ASSUME NEW m \in inflight, Land(m) \/ Drop(m) PROVE TypeInv'
  <2>1. m.deposit \in Deposits
    BY <1>0
  <2>2. /\ claims' \subseteq Deposits /\ faults' \in 0..MaxFaults
        /\ inflight' \subseteq [deposit : Deposits, epoch : 0..MaxEpoch]
        /\ UNCHANGED <<node, database, corrupt, idx, orc, configEpoch, chainEpoch, clock, everDeep,
                       shaken>>
    BY <1>0, <1>2, <2>1, DepthAssumption DEF Land, Drop
  <2> QED BY <1>0, <2>2 DEF TypeInv, TypeOK, Cursor
<1>3. ASSUME NEW d \in ForeignMints, MintedElsewhere(d) PROVE TypeInv'
  BY <1>0, <1>3 DEF MintedElsewhere, TypeInv, TypeOK, Cursor
<1>4. CASE Rotate
  <2>1. chainEpoch' \in 0..MaxEpoch
    BY <1>0, <1>4, DepthAssumption DEF Rotate
  <2> QED BY <1>0, <1>4, <2>1 DEF Rotate, TypeInv, TypeOK, Cursor
<1>5. CASE ClockTicks
  <2>1. clock' \in 0..MaxClock
    BY <1>0, <1>5, DepthAssumption DEF ClockTicks
  <2> QED BY <1>0, <1>5, <2>1 DEF ClockTicks, TypeInv, TypeOK, Cursor
<1>6. CASE IndexerRpcFails
  <2>1. /\ faults' \in 0..MaxFaults /\ idx' = IdleIndexer
        /\ UNCHANGED <<node, database, corrupt, orc, configEpoch, solana, clock, everDeep, shaken>>
    BY <1>6, <1>f DEF IndexerRpcFails
  <2> QED BY <1>0, <1>h, <1>i, <2>1 DEF TypeInv, TypeOK, Cursor, IndexerType
<1>7. CASE OrchestratorRpcFails
  <2>1. /\ faults' \in 0..MaxFaults /\ orc' = IdleOrchestrator
        /\ UNCHANGED <<node, database, corrupt, idx, configEpoch, solana, clock, everDeep, shaken>>
    BY <1>7, <1>f DEF OrchestratorRpcFails
  <2> QED BY <1>0, <1>i, <2>1 DEF TypeInv, TypeOK, Cursor, OrchestratorType
<1>8. CASE Restart
  <2>1. /\ faults' \in 0..MaxFaults /\ idx' = IdleIndexer /\ orc' = IdleOrchestrator
        /\ configEpoch' \in 0..MaxEpoch
        /\ UNCHANGED <<node, database, corrupt, solana, clock, everDeep, shaken>>
    BY <1>0, <1>8, <1>f DEF Restart
  <2> QED BY <1>0, <1>h, <1>i, <2>1 DEF TypeInv, TypeOK, Cursor, IndexerType, OrchestratorType
<1>9. ASSUME NEW r \in Rows, CorruptRow(r) PROVE TypeInv'
  BY <1>0, <1>9, <1>f DEF CorruptRow, TypeInv, TypeOK, Cursor
<1>10. ASSUME NEW r \in Rows, NEW to \in {"ReadyForSignature", "Failed"},
              NEW repaired \in BOOLEAN, operator_clear_integrity_halt(r, to, repaired)
       PROVE  TypeInv'
  <2>1. row' \in [Rows -> States] /\ corrupt' \subseteq Rows
    BY <1>0, <1>10 DEF operator_clear_integrity_halt, States, Active
  <2> QED BY <1>0, <1>10, <2>1 DEF operator_clear_integrity_halt, TypeInv, TypeOK, Cursor
<1> QED
  BY <1>1, <1>2, <1>3, <1>4, <1>5, <1>6, <1>7, <1>8, <1>9, <1>10 DEF Environment

(* Every step keeps the types. *)
LEMMA TypeStep ==
    ASSUME TypeInv, [Next]_vars PROVE TypeInv'
<1>1. CASE IndexerStep
  <2>1. UNCHANGED IndexerUnchanged /\ Cursor'
    BY <1>1, IndexerTypes
  <2> QED BY <1>1, <2>1, IndexerTypes
          DEF TypeInv, TypeOK, IndexerUnchanged, solana, IndexerType
<1>2. CASE OrchestratorStep
  <2>1. UNCHANGED <<OrchestratorUnchanged, corrupt>>
    BY <1>2, OrchestratorTypes
  <2>2. TypeOK'
    BY <1>2, <2>1, OrchestratorTypes DEF TypeInv, TypeOK, OrchestratorUnchanged, OrchestratorType
  <2>3. Cursor'
    BY <1>2, <2>1, OrchestratorTypes DEF TypeInv, Cursor, OrchestratorUnchanged
  <2> QED BY <2>2, <2>3 DEF TypeInv
<1>3. CASE Environment
  BY <1>3, EnvironmentTypes
<1>4. CASE UNCHANGED vars
  BY <1>4 DEF vars, TypeInv, TypeOK, Cursor
<1> QED
  BY <1>1, <1>2, <1>3, <1>4 DEF Next

(* For every block tree and any number of faults: all columns and loop     *)
(* variables keep their types, no loop asks for a height that is not       *)
(* there, and a halted indexer is between ticks.                           *)
THEOREM TypeCorrect == Spec => []TypeOK
<1>1. Spec => []TypeInv
  BY TypeInit, TypeStep, PTL DEF Spec
<1> QED
  BY <1>1, PTL DEF TypeInv

-----------------------------------------------------------------------------
(* Rows.  Each loop works through a list it read earlier; what is on it    *)
(* is still in a state that the work on it may start from.                 *)
Released == {"ReadyForSignature", "Submitted", "Orphaned"}

Worklists ==
    /\ NoRepeats(ids) /\ \A r \in Elements(ids) : row[r] # "Absent"
    /\ idx.pc # "promote" => idx.todo = <<>>
    /\ NoRepeats(idx.todo) /\ \A r \in Elements(idx.todo) : row[r] = "Confirming"
    /\ NoRepeats(orc.todo) /\ \A r \in Elements(orc.todo) : row[r] \in Released

Kept(r) == artifact'[r] = artifact[r] /\ readyAt'[r] = readyAt[r]

(* What an indexer step may do to a row ... *)
MovedByIndexer(r) ==
    \/ row'[r] = row[r] /\ Kept(r)
    \/ row[r] = "Absent" /\ row'[r] = initial_state(r.deposit) /\ Kept(r)
    \/ row[r] = "Candidate" /\ row'[r] = "Confirming" /\ Kept(r)
    \/ row[r] = "Confirming" /\ row'[r] = "Failed" /\ Kept(r)
    \/ /\ row[r] = "Confirming" /\ row'[r] = "ReadyForSignature"
       /\ artifact'[r] = configEpoch /\ readyAt'[r] = clock
       /\ Amount[r.deposit] <= MaxDeposit
    \/ row[r] \in Active /\ row'[r] = "Orphaned" /\ idx.pc = "rollback" /\ Kept(r)

(* ... and what any other step may. *)
MovedOutside(r) ==
    /\ Kept(r)
    /\ \/ row'[r] = row[r]
       \/ /\ r = Head(orc.todo) /\ orc.todo # <<>> /\ row[r] \in Released
          /\ OrchestratorStep
          /\ \/ row'[r] \in {"Submitted", "IntegrityHalted"}
             \/ row'[r] = "Minted" /\ r.deposit \in claims
       \/ /\ row[r] = "IntegrityHalted" /\ row'[r] \in {"ReadyForSignature", "Failed"}

(* The lists, with their members. *)
LEMMA ListFacts ==
    ASSUME TypeInv, Worklists
    PROVE  /\ idx.todo \in Seq(Rows) /\ orc.todo \in Seq(Rows) /\ ids \in Seq(Rows)
           /\ idx.todo # <<>> =>
                 /\ Head(idx.todo) \in Rows /\ row[Head(idx.todo)] = "Confirming"
                 /\ Tail(idx.todo) \in Seq(Rows)
                 /\ Elements(Tail(idx.todo)) \subseteq Elements(idx.todo)
                 /\ NoRepeats(Tail(idx.todo)) /\ Head(idx.todo) \notin Elements(Tail(idx.todo))
           /\ orc.todo # <<>> =>
                 /\ Head(orc.todo) \in Rows /\ row[Head(orc.todo)] \in Released
                 /\ Tail(orc.todo) \in Seq(Rows)
                 /\ Elements(Tail(orc.todo)) \subseteq Elements(orc.todo)
                 /\ NoRepeats(Tail(orc.todo)) /\ Head(orc.todo) \notin Elements(Tail(orc.todo))
<1> DEFINE s == idx.todo  t == orc.todo
<1>1. s \in Seq(Rows) /\ t \in Seq(Rows) /\ ids \in Seq(Rows)
  BY DEF TypeInv, TypeOK
<1>2. /\ NoRepeats(s) /\ \A r \in Elements(s) : row[r] = "Confirming"
      /\ NoRepeats(t) /\ \A r \in Elements(t) : row[r] \in Released
  BY DEF Worklists
<1> HIDE DEF s, t
<1>3. s # <<>> => /\ Head(s) \in Rows /\ Head(s) \in Elements(s) /\ Tail(s) \in Seq(Rows)
                  /\ Elements(Tail(s)) \subseteq Elements(s)
                  /\ NoRepeats(Tail(s)) /\ Head(s) \notin Elements(Tail(s))
  BY <1>1, <1>2, ListRest
<1>4. t # <<>> => /\ Head(t) \in Rows /\ Head(t) \in Elements(t) /\ Tail(t) \in Seq(Rows)
                  /\ Elements(Tail(t)) \subseteq Elements(t)
                  /\ NoRepeats(Tail(t)) /\ Head(t) \notin Elements(Tail(t))
  BY <1>1, <1>2, ListRest
<1>5. /\ s # <<>> => row[Head(s)] = "Confirming"
      /\ t # <<>> => row[Head(t)] \in Released
  BY <1>2, <1>3, <1>4
<1> QED
  BY <1>1, <1>3, <1>4, <1>5 DEF s, t

(* The new rows of a block: its own, not there before, each once. *)
LEMMA NewRows ==
    ASSUME TypeInv, index_block
    PROVE  LET b == BlockAt(node, idx.h)
               new == Where(vault_output_candidates(b), {r \in Rows : IsNew(r)})
           IN  /\ b \in Blocks /\ Height(b) = idx.h
               /\ new \in Seq(Rows) /\ NoRepeats(new)
               /\ \A r \in Elements(new) : r \in Rows /\ row[r] = "Absent" /\ r.block = b
<1> DEFINE b == BlockAt(node, idx.h)  T == {r \in Rows : IsNew(r)}
           c == vault_output_candidates(b)
<1>1. b \in Blocks /\ Height(b) = idx.h
  BY CursorFacts DEF index_block
<1>2. /\ c \in Seq(Rows) /\ NoRepeats(c)
      /\ \A r \in Elements(c) : r \in Rows /\ r.block = b
  BY <1>1, CandidateFacts
<1>3. /\ Where(c, T) \in Seq(Rows) /\ NoRepeats(Where(c, T))
      /\ Elements(Where(c, T)) = Elements(c) \cap T
  <2> HIDE DEF T, c
  <2> QED BY <1>2, WhereFacts
<1>4. \A r \in T : row[r] = "Absent"
  BY DEF IsNew
<1> HIDE DEF T, c, b
<1>5. \A r \in Elements(Where(c, T)) : r \in Rows /\ row[r] = "Absent" /\ r.block = b
  BY <1>2, <1>3, <1>4
<1> QED
  BY <1>1, <1>3, <1>5 DEF b, c, T

(* The indexer's steps, row by row. *)
LEMMA IndexerMoves ==
    ASSUME TypeInv, Worklists, IndexerStep, NEW r \in Rows PROVE MovedByIndexer(r)
<1>0. row \in [Rows -> States] /\ artifact \in [Rows -> Nat \cup {None}]
      /\ readyAt \in [Rows -> Nat \cup {None}]
  BY DEF TypeInv, TypeOK
<1>1. CASE UNCHANGED <<row, artifact, readyAt>>
  BY <1>1 DEF MovedByIndexer, Kept
<1>2. CASE rollback_reorg
  BY <1>0, <1>2 DEF rollback_reorg, MovedByIndexer, Kept
<1>3. CASE index_block
  <2> DEFINE new == Where(vault_output_candidates(BlockAt(node, idx.h)), {x \in Rows : IsNew(x)})
  <2>1. row'[r] = IF r \in Elements(new) THEN initial_state(r.deposit) ELSE row[r]
    BY <1>3 DEF index_block
  <2>2. \A x \in Elements(new) : row[x] = "Absent"
    BY <1>3, NewRows
  <2>3. Kept(r)
    BY <1>3 DEF index_block, Kept
  <2> HIDE DEF new
  <2> QED BY <2>1, <2>2, <2>3 DEF MovedByIndexer
<1>4. CASE AdvanceCandidate
  <2> DEFINE h == Head(RowsIn("Candidate"))
  <2>1. h \in Rows /\ row[h] = "Candidate"
    BY <1>4, ListFacts, RowsInFacts DEF AdvanceCandidate
  <2>2. /\ row' = [row EXCEPT ![h] = "Confirming"]
        /\ readyAt' = readyAt /\ artifact' = artifact
    BY <1>4 DEF AdvanceCandidate, transition_state
  <2> HIDE DEF h
  <2> QED BY <1>0, <2>1, <2>2 DEF MovedByIndexer, Kept
<1>5. CASE PromoteToFailed
  <2>1. /\ row' = [row EXCEPT ![Head(idx.todo)] = "Failed"]
        /\ readyAt' = readyAt /\ artifact' = artifact /\ idx.todo # <<>>
    BY <1>5 DEF PromoteToFailed, Promoting, transition_state
  <2> QED BY <1>0, <2>1, ListFacts DEF MovedByIndexer, Kept
<1>6. CASE PromoteToReady
  <2> DEFINE h == Head(idx.todo)
  <2>1. h \in Rows /\ row[h] = "Confirming"
    BY <1>6, ListFacts DEF PromoteToReady, Promoting
  <2>2. configEpoch # None
    <3>1. configEpoch \in Nat
      BY DepthAssumption DEF TypeInv, TypeOK
    <3> QED BY <3>1, Tree
  <2>3. /\ row' = [row EXCEPT ![h] = "ReadyForSignature"]
        /\ readyAt' = [readyAt EXCEPT ![h] = clock]
        /\ artifact' = [artifact EXCEPT ![h] = configEpoch]
        /\ Amount[h.deposit] <= MaxDeposit
    BY <1>6, <2>2 DEF PromoteToReady, transition_state, build_claim_message, WithinCaps
  <2> HIDE DEF h
  <2> QED BY <1>0, <2>1, <2>3 DEF MovedByIndexer, Kept
<1>7. CASE TickHalted
  BY <1>1, <1>7 DEF TickHalted, vars
<1> QED
  BY <1>1, <1>2, <1>3, <1>4, <1>5, <1>6, <1>7
     DEF IndexerStep, TickBegins, ForkPointFound, WalkBack, PromoteBegins,
         PromoteDeferred, TickEnds, database

(* What happens around the loops changes only a halted row. *)
LEMMA EnvironmentRows ==
    ASSUME TypeInv, Environment, NEW r \in Rows
    PROVE  /\ Kept(r)
           /\ \/ row'[r] = row[r]
              \/ row[r] = "IntegrityHalted" /\ row'[r] \in {"ReadyForSignature", "Failed"}
<1>0. row \in [Rows -> States]
  BY DEF TypeInv, TypeOK
<1>1. ASSUME NEW s \in Rows, NEW to \in {"ReadyForSignature", "Failed"},
             NEW repaired \in BOOLEAN, operator_clear_integrity_halt(s, to, repaired)
      PROVE  /\ Kept(r)
             /\ \/ row'[r] = row[r]
                \/ row[r] = "IntegrityHalted" /\ row'[r] \in {"ReadyForSignature", "Failed"}
  BY <1>0, <1>1 DEF operator_clear_integrity_halt, Kept
<1>2. CASE UNCHANGED <<row, artifact, readyAt>>
  BY <1>2 DEF Kept
<1> QED
  BY <1>1, <1>2
     DEF Environment, TipMoves, Land, Drop, MintedElsewhere, Rotate, ClockTicks,
         IndexerRpcFails, OrchestratorRpcFails, Restart, CorruptRow, database

(* The other steps, row by row. *)
LEMMA OutsideMoves ==
    ASSUME TypeInv, Worklists, OrchestratorStep \/ Environment, NEW r \in Rows
    PROVE  MovedOutside(r)
<1>0. row \in [Rows -> States]
  BY DEF TypeInv, TypeOK
<1>1. CASE UNCHANGED <<row, artifact, readyAt>>
  BY <1>1 DEF MovedOutside, Kept
<1>2. ASSUME NEW x \in {"Submitted", "IntegrityHalted", "Minted"},
             row' = [row EXCEPT ![Current] = x], orc.pc # "idle",
             x = "Minted" => Current.deposit \in claims, OrchestratorStep,
             artifact' = artifact, readyAt' = readyAt
      PROVE  MovedOutside(r)
  <2>1. orc.todo # <<>>
    BY <1>2 DEF TypeInv, Cursor
  <2>2. Current \in Rows /\ row[Current] \in Released /\ Current = Head(orc.todo)
    BY <2>1, ListFacts DEF Current
  <2>3. CASE r = Current
    BY <1>0, <1>2, <2>1, <2>2, <2>3 DEF MovedOutside, Kept
  <2>4. CASE r # Current
    BY <1>0, <1>2, <2>4 DEF MovedOutside, Kept
  <2> QED BY <2>3, <2>4
<1>3. CASE OrchestratorStep
  <2> USE DEF OrchestratorUnchanged
  <2>1. CASE mark_minted
    <3> HIDE DEF OrchestratorUnchanged
    <3>1. UNCHANGED <<artifact, readyAt>>
      BY <2>1 DEF mark_minted, OrchestratorUnchanged
    <3> QED BY <1>2, <1>3, <2>1, <3>1 DEF mark_minted
  <2>2. CASE verify_and_load_signable_message
    <3> HIDE DEF OrchestratorUnchanged
    <3>1. UNCHANGED <<artifact, readyAt>> /\ orc.pc # "idle"
      BY <2>2 DEF verify_and_load_signable_message, OrchestratorUnchanged
    <3>2. CASE Current \in corrupt
      <4>1. row' = [row EXCEPT ![Current] = "IntegrityHalted"]
        BY <2>2, <3>2 DEF verify_and_load_signable_message
      <4>2. "IntegrityHalted" \in {"Submitted", "IntegrityHalted", "Minted"}
            /\ "IntegrityHalted" # "Minted"
        OBVIOUS
      <4> QED BY <1>2, <1>3, <3>1, <4>1, <4>2, Zenon
    <3>3. CASE Current \notin corrupt
      BY <1>1, <2>2, <3>1, <3>3 DEF verify_and_load_signable_message
    <3> QED BY <3>2, <3>3
  <2>3. CASE mark_submitted
    <3> HIDE DEF OrchestratorUnchanged
    <3>1. UNCHANGED <<artifact, readyAt>>
      BY <2>3 DEF mark_submitted, OrchestratorUnchanged
    <3>2. row' = [row EXCEPT ![Current] = "Submitted"] /\ orc.pc # "idle"
      BY <2>3 DEF mark_submitted
    <3>3. "Submitted" \in {"Submitted", "IntegrityHalted", "Minted"}
          /\ "Submitted" # "Minted"
      OBVIOUS
    <3> QED BY <1>2, <1>3, <3>1, <3>2, <3>3, Zenon
  <2> QED
    BY <1>1, <1>3, <2>1, <2>2, <2>3
       DEF OrchestratorStep, MintTickBegins, SignaturesCollected, InsufficientSignatures,
           send_transaction, send_transaction_refused
<1>5. CASE Environment
  BY <1>5, EnvironmentRows DEF MovedOutside
<1> QED
  BY <1>3, <1>5

(* Nothing to do. *)
LEMMA EmptyList == Elements(<<>>) = {} /\ NoRepeats(<<>>)
  BY DEF Elements, NoRepeats

(* What the indexer has left to promote. *)
LEMMA IndexerList ==
    ASSUME TypeInv, Worklists, IndexerStep
    PROVE  /\ idx'.pc # "promote" => idx'.todo = <<>>
           /\ NoRepeats(idx'.todo)
           /\ \A r \in Elements(idx'.todo) : row'[r] = "Confirming"
<1>0. /\ idx \in IndexerType /\ row \in [Rows -> States]
      /\ idx.pc # "promote" => idx.todo = <<>>
      /\ NoRepeats(idx.todo) /\ \A r \in Elements(idx.todo) : row[r] = "Confirming"
  BY DEF TypeInv, TypeOK, IndexerType, Worklists
<1>1. CASE idx'.todo = <<>>
  BY <1>1, EmptyList
<1>2. CASE TickHalted
  BY <1>0, <1>2 DEF TickHalted, vars
<1>3. ASSUME \/ TickBegins \/ ForkPointFound \/ WalkBack \/ rollback_reorg
             \/ index_block \/ AdvanceCandidate \/ TickEnds
      PROVE  idx'.todo = <<>>
  <2>1. CASE WalkBack
    BY <1>0, <2>1 DEF WalkBack, IndexerType, IdleIndexer
  <2>2. CASE TickBegins
    BY <1>0, <2>2 DEF TickBegins, IndexerType
  <2>3. CASE ForkPointFound
    BY <1>0, <2>3 DEF ForkPointFound, IndexerType
  <2>4. CASE rollback_reorg
    BY <1>0, <2>4 DEF rollback_reorg, IndexerType
  <2>5. CASE index_block
    BY <1>0, <2>5 DEF index_block, IndexerType
  <2>6. CASE AdvanceCandidate
    BY <1>0, <2>6 DEF AdvanceCandidate
  <2>7. CASE TickEnds
    BY <2>7 DEF TickEnds, IdleIndexer
  <2> QED BY <1>3, <2>1, <2>2, <2>3, <2>4, <2>5, <2>6, <2>7
<1>4. CASE PromoteBegins
  <2> DEFINE c == RowsIn("Confirming")  T == {r \in Rows : DeepEnough(r)}
  <2>1. /\ c \in Seq(Rows) /\ NoRepeats(c) /\ \A r \in Elements(c) : row[r] = "Confirming"
    BY ListFacts, RowsInFacts DEF Worklists
  <2>2. /\ Elements(Where(c, T)) = Elements(c) \cap T /\ NoRepeats(Where(c, T))
    <3> HIDE DEF c, T
    <3> QED BY <2>1, WhereFacts
  <2>3. idx'.pc = "promote" /\ idx'.todo = Where(c, T) /\ row' = row
    BY <1>0, <1>4 DEF PromoteBegins, IndexerType, database
  <2> HIDE DEF c, T
  <2> QED BY <2>1, <2>2, <2>3
<1>5. ASSUME PromoteToFailed \/ PromoteDeferred \/ PromoteToReady
      PROVE  /\ idx'.pc = "promote" /\ NoRepeats(idx'.todo)
             /\ \A r \in Elements(idx'.todo) : row'[r] = "Confirming"
  <2>1. /\ idx.pc = "promote" /\ idx.todo # <<>> /\ PromoteNext
        /\ \/ row' = row
           \/ \E x : row' = [row EXCEPT ![Head(idx.todo)] = x]
    BY <1>5 DEF PromoteToFailed, PromoteDeferred, PromoteToReady, Promoting, transition_state,
       database
  <2>2. idx'.pc = "promote" /\ idx'.todo = Tail(idx.todo)
    BY <1>0, <2>1 DEF PromoteNext, IndexerType
  <2>3. /\ NoRepeats(Tail(idx.todo)) /\ Head(idx.todo) \notin Elements(Tail(idx.todo))
        /\ \A r \in Elements(Tail(idx.todo)) : r \in Rows /\ row[r] = "Confirming"
    <3>1. Tail(idx.todo) \in Seq(Rows)
      BY <2>1, ListFacts
    <3>2. \A r \in Elements(Tail(idx.todo)) : r \in Rows
      BY <3>1 DEF Elements
    <3> QED BY <1>0, <2>1, <3>2, ListFacts
  <2>4. \A r \in Elements(Tail(idx.todo)) : row'[r] = row[r]
    BY <1>0, <2>1, <2>3
  <2> QED BY <2>2, <2>3, <2>4
<1> QED
  BY <1>1, <1>2, <1>3, <1>4, <1>5 DEF IndexerStep

(* What the orchestrator has left, after one of its steps. *)
LEMMA OrchestratorList ==
    ASSUME TypeInv, Worklists, OrchestratorStep
    PROVE  NoRepeats(orc'.todo) /\ \A r \in Elements(orc'.todo) : row'[r] \in Released
<1>0. /\ orc \in OrchestratorType /\ row \in [Rows -> States]
      /\ NoRepeats(orc.todo) /\ \A r \in Elements(orc.todo) : row[r] \in Released
      /\ ids \in Seq(Rows) /\ NoRepeats(ids)
  BY DEF TypeInv, TypeOK, OrchestratorType, Worklists
<1>1. CASE MintTickBegins
  <2> DEFINE a == RowsIn("ReadyForSignature")  b == RowsIn("Submitted")
  <2>1. /\ a \in Seq(Rows) /\ b \in Seq(Rows) /\ NoRepeats(a) /\ NoRepeats(b)
        /\ \A r \in Elements(a) : row[r] = "ReadyForSignature"
        /\ \A r \in Elements(b) : row[r] = "Submitted"
    BY <1>0, RowsInFacts
  <2>2. orc'.todo = a \o b /\ row' = row
    BY <1>1 DEF MintTickBegins
  <2> HIDE DEF a, b
  <2>3. Elements(a) \cap Elements(b) = {}
    BY <2>1
  <2>4. NoRepeats(a \o b) /\ Elements(a \o b) = Elements(a) \cup Elements(b)
    BY <2>1, <2>3, ListJoin
  <2> QED BY <2>1, <2>2, <2>4 DEF Released
<1>2. ASSUME NextRow, orc.pc # "idle",
             row' = row \/ \E x : row' = [row EXCEPT ![Head(orc.todo)] = x]
      PROVE  NoRepeats(orc'.todo) /\ \A r \in Elements(orc'.todo) : row'[r] \in Released
  <2>0. orc.todo # <<>>
    BY <1>2 DEF TypeInv, Cursor
  <2>1. orc'.todo = <<>> \/ orc'.todo = Tail(orc.todo)
    BY <1>2 DEF NextRow, IdleOrchestrator
  <2>2. CASE orc'.todo = <<>>
    BY <2>2, EmptyList
  <2>3. CASE orc'.todo = Tail(orc.todo)
    <3>1. /\ NoRepeats(Tail(orc.todo)) /\ Head(orc.todo) \notin Elements(Tail(orc.todo))
          /\ \A r \in Elements(Tail(orc.todo)) : row[r] \in Released
      BY <1>0, <2>0, ListFacts
    <3>2. \A r \in Elements(Tail(orc.todo)) : r \in Rows
      <4>1. Tail(orc.todo) \in Seq(Rows)
        BY <2>0, ListFacts
      <4> QED BY <4>1 DEF Elements
    <3>3. \A r \in Elements(Tail(orc.todo)) : row'[r] = row[r]
      BY <1>0, <1>2, <3>1, <3>2
    <3> QED BY <2>3, <3>1, <3>3
  <2> QED BY <2>1, <2>2, <2>3
<1>3. ASSUME orc'.todo = orc.todo, row' = row
      PROVE  NoRepeats(orc'.todo) /\ \A r \in Elements(orc'.todo) : row'[r] \in Released
  BY <1>0, <1>3
<1>4. ASSUME orc' = IdleOrchestrator
      PROVE  NoRepeats(orc'.todo) /\ \A r \in Elements(orc'.todo) : row'[r] \in Released
  BY <1>4, EmptyList DEF IdleOrchestrator
<1>5. CASE mark_minted \/ mark_submitted
  <2>1. NextRow /\ orc.pc # "idle" /\ \E x : row' = [row EXCEPT ![Head(orc.todo)] = x]
    BY <1>5 DEF mark_minted, mark_submitted, Current
  <2> QED BY <1>2, <2>1
<1>6. CASE verify_and_load_signable_message
  <2>1. orc.pc # "idle"
    BY <1>6 DEF verify_and_load_signable_message
  <2>2. CASE Current \in corrupt
    <3>1. NextRow /\ \E x : row' = [row EXCEPT ![Head(orc.todo)] = x]
      BY <1>6, <2>2 DEF verify_and_load_signable_message, Current
    <3> QED BY <1>2, <2>1, <3>1
  <2>3. CASE Current \notin corrupt
    <3>1. orc'.todo = orc.todo /\ row' = row
      BY <1>0, <1>6, <2>3 DEF verify_and_load_signable_message, OrchestratorType
    <3> QED BY <1>3, <3>1
  <2> QED BY <2>2, <2>3
<1>7. CASE SignaturesCollected \/ send_transaction
  <2>1. orc'.todo = orc.todo /\ row' = row
    BY <1>0, <1>7 DEF SignaturesCollected, send_transaction, OrchestratorType
  <2> QED BY <1>3, <2>1
<1>8. CASE InsufficientSignatures
  BY <1>2, <1>8 DEF InsufficientSignatures
<1>9. CASE send_transaction_refused
  BY <1>4, <1>9 DEF send_transaction_refused
<1> QED
  BY <1>1, <1>5, <1>6, <1>7, <1>8, <1>9 DEF OrchestratorStep

(* Every step keeps the work lists sound. *)
LEMMA WorklistsStep ==
    ASSUME TypeInv, Worklists, [Next]_vars PROVE Worklists'
<1>0. /\ NoRepeats(ids) /\ (\A r \in Elements(ids) : row[r] # "Absent")
      /\ \A r \in Elements(ids) : r \in Rows
      /\ \A r \in Elements(idx.todo) : r \in Rows
      /\ \A r \in Elements(orc.todo) : r \in Rows
  BY ListFacts DEF Worklists, Elements
<1>1. CASE IndexerStep
  <2>1. \A r \in Rows : MovedByIndexer(r)
    BY <1>1, IndexerMoves
  <2>2. \A r \in Rows : row[r] # "Absent" => row'[r] # "Absent"
    BY <2>1 DEF MovedByIndexer
  <2>3. \A r \in Rows : row[r] \in Released => row'[r] \in Released
    BY <2>1 DEF MovedByIndexer, Released
  <2>4. orc' = orc
    <3>1. UNCHANGED IndexerUnchanged
      BY <1>1, IndexerTypes
    <3> QED BY <3>1 DEF IndexerUnchanged
  <2>5. NoRepeats(orc'.todo) /\ \A r \in Elements(orc'.todo) : row'[r] \in Released
    BY <1>0, <2>3, <2>4 DEF Worklists
  <2>6. NoRepeats(ids') /\ \A r \in Elements(ids') : row'[r] # "Absent"
    <3>1. CASE index_block
      <4> DEFINE new == Where(vault_output_candidates(BlockAt(node, idx.h)),
                              {r \in Rows : IsNew(r)})
      <4>1. /\ new \in Seq(Rows) /\ NoRepeats(new)
            /\ \A r \in Elements(new) : r \in Rows /\ row[r] = "Absent"
        BY <3>1, NewRows
      <4>2. /\ ids' = ids \o new
            /\ row' = [r \in Rows |->
                        IF r \in Elements(new) THEN initial_state(r.deposit) ELSE row[r]]
        BY <3>1 DEF index_block
      <4> HIDE DEF new
      <4>3. Elements(ids) \cap Elements(new) = {}
        BY <1>0, <4>1
      <4>4. NoRepeats(ids') /\ Elements(ids') = Elements(ids) \cup Elements(new)
        BY <1>0, <4>1, <4>2, <4>3, ListFacts, ListJoin
      <4>5. \A r \in Elements(new) : row'[r] # "Absent"
        BY <4>1, <4>2 DEF initial_state
      <4> QED BY <1>0, <2>2, <4>4, <4>5
    <3>2. CASE ~index_block
      <4>1. ids' = ids
        BY <1>1, <3>2
           DEF IndexerStep, TickHalted, vars, TickBegins, ForkPointFound, WalkBack,
               rollback_reorg, AdvanceCandidate, PromoteBegins, PromoteToFailed,
               PromoteDeferred, PromoteToReady, TickEnds, database
      <4> QED BY <1>0, <2>2, <4>1
    <3> QED BY <3>1, <3>2
  <2> QED BY <1>1, <2>5, <2>6, IndexerList DEF Worklists
<1>2. CASE OrchestratorStep \/ Environment
  <2>1. \A r \in Rows : MovedOutside(r)
    BY <1>2, OutsideMoves
  <2>2. \A r \in Rows : /\ row[r] # "Absent" => row'[r] # "Absent"
                        /\ row[r] = "Confirming" => row'[r] = "Confirming"
    BY <2>1 DEF MovedOutside, Released
  <2>3. ids' = ids /\ (idx' = idx \/ idx' = IdleIndexer)
    BY <1>2
       DEF OrchestratorStep, OrchestratorUnchanged, MintTickBegins, mark_minted,
           verify_and_load_signable_message, SignaturesCollected, InsufficientSignatures,
           send_transaction, send_transaction_refused, mark_submitted,
           Environment, TipMoves, Land, Drop, MintedElsewhere, Rotate, ClockTicks,
           IndexerRpcFails, OrchestratorRpcFails, Restart, CorruptRow,
           operator_clear_integrity_halt, database
  <2>4. NoRepeats(ids') /\ \A r \in Elements(ids') : row'[r] # "Absent"
    BY <1>0, <2>2, <2>3
  <2>5. /\ idx'.pc # "promote" => idx'.todo = <<>>
        /\ NoRepeats(idx'.todo) /\ \A r \in Elements(idx'.todo) : row'[r] = "Confirming"
    <3>1. CASE idx' = idx
      BY <1>0, <2>2, <3>1 DEF Worklists
    <3>2. CASE idx' = IdleIndexer
      BY <3>2, EmptyList DEF IdleIndexer
    <3> QED BY <2>3, <3>1, <3>2
  <2>6. NoRepeats(orc'.todo) /\ \A r \in Elements(orc'.todo) : row'[r] \in Released
    <3>1. CASE OrchestratorStep
      BY <3>1, OrchestratorList
    <3>2. CASE Environment
      <4>1. orc' = orc \/ orc' = IdleOrchestrator
        BY <3>2
           DEF Environment, TipMoves, Land, Drop, MintedElsewhere, Rotate, ClockTicks,
               IndexerRpcFails, OrchestratorRpcFails, Restart, CorruptRow,
               operator_clear_integrity_halt
      <4>2. CASE orc' = IdleOrchestrator
        BY <4>2, EmptyList DEF IdleOrchestrator
      <4>3. CASE orc' = orc
        <5>1. ASSUME NEW r \in Elements(orc.todo) PROVE row'[r] \in Released
          <6>1. row[r] \in Released /\ r \in Rows
            BY <1>0 DEF Worklists
          <6>2. row'[r] = row[r]
            BY <3>2, <6>1, EnvironmentRows DEF Released
          <6> QED BY <6>1, <6>2
        <5> QED BY <4>3, <5>1 DEF Worklists
      <4> QED BY <4>1, <4>2, <4>3
    <3> QED BY <1>2, <3>1, <3>2
  <2> QED BY <2>4, <2>5, <2>6 DEF Worklists
<1>3. CASE UNCHANGED vars
  BY <1>3 DEF vars, Worklists
<1> QED
  BY <1>1, <1>2, <1>3 DEF Next

-----------------------------------------------------------------------------
(* The index.                                                              *)

(* A step that leaves the stored chain alone brings no row to Candidate or *)
(* Confirming that was not one of them.                                    *)
LEMMA IndexQuiet ==
    ASSUME TypeInv, Worklists, IndexIsConsistent, UNCHANGED <<indexed, dbTip>>,
           \A r \in Rows : row'[r] \in {"Candidate", "Confirming"} =>
                                row[r] \in {"Candidate", "Confirming"}
    PROVE  IndexIsConsistent'
  BY DEF IndexIsConsistent

(* Every step keeps the index consistent. *)
LEMMA IndexStep ==
    ASSUME TypeInv, Worklists, IndexIsConsistent, [Next]_vars PROVE IndexIsConsistent'
<1>0. /\ indexed \in [0..TopHeight -> Blocks \cup {None}] /\ row \in [Rows -> States]
      /\ None \notin Blocks
      /\ \A r \in Rows : Height(r.block) \in 0..TopHeight /\ r.block \in Blocks
      /\ \A h \in 0..TopHeight : indexed[h] # None <=> dbTip # None /\ h <= Height(dbTip)
      /\ \A r \in Rows : row[r] \in {"Candidate", "Confirming"} =>
                            indexed[Height(r.block)] = r.block
  BY RowFacts, Tree DEF TypeInv, TypeOK, IndexIsConsistent
<1>c. /\ TopHeight \in Nat /\ idx.h \in Nat /\ Height(node) \in Nat /\ Height(node) <= TopHeight
      /\ dbTip # None => dbTip \in Blocks /\ Height(dbTip) \in Nat
      /\ idx.pc \in {"fork", "rollback"} => dbTip # None /\ idx.h <= Height(dbTip)
                                              /\ idx.h \in 0..Height(node)
      /\ idx.pc = "index" => idx.h = IF dbTip = None THEN 0 ELSE Height(dbTip) + 1
      /\ \A h \in 0..Height(node) : BlockAt(node, h) \in Blocks /\ Height(BlockAt(node, h)) = h
  BY CursorFacts DEF TypeInv, Cursor
<1>1. CASE rollback_reorg
  <2>1. /\ idx.pc = "rollback" /\ dbTip' = BlockAt(node, idx.h)
        /\ row' = [r \in Rows |-> IF row[r] \in Active /\ Height(r.block) > idx.h
                                  THEN "Orphaned" ELSE row[r]]
        /\ indexed' = [h \in 0..TopHeight |-> IF h > idx.h THEN None ELSE indexed[h]]
    BY <1>1 DEF rollback_reorg
  <2>2. dbTip' # None /\ Height(dbTip') = idx.h /\ dbTip # None /\ idx.h <= Height(dbTip)
    BY <1>0, <1>c, <2>1
  <2>3. \A h \in 0..TopHeight : indexed'[h] # None <=> h <= idx.h
    BY <1>0, <1>c, <2>1, <2>2
  <2>4. ASSUME NEW r \in Rows, row'[r] \in {"Candidate", "Confirming"}
        PROVE  indexed'[Height(r.block)] = r.block
    <3>1. row'[r] = row[r] /\ ~(Height(r.block) > idx.h)
      BY <2>1, <2>4 DEF Active
    <3> QED BY <1>0, <2>1, <2>4, <3>1
  <2> QED BY <2>2, <2>3, <2>4 DEF IndexIsConsistent
<1>2. CASE index_block
  <2> DEFINE b == BlockAt(node, idx.h)
             new == Where(vault_output_candidates(b), {r \in Rows : IsNew(r)})
  <2>1. /\ idx.pc = "index" /\ dbTip' = b
        /\ indexed' = [indexed EXCEPT ![idx.h] = IF indexed[idx.h] = None THEN b
                                                 ELSE indexed[idx.h]]
        /\ row' = [r \in Rows |->
                     IF r \in Elements(new) THEN initial_state(r.deposit) ELSE row[r]]
    BY <1>2 DEF index_block
  <2>2. /\ b \in Blocks /\ Height(b) = idx.h
        /\ \A r \in Elements(new) : r.block = b
    BY <1>2, NewRows
  <2>3. idx.h \in 0..TopHeight /\ b # None
    <3>1. Height(b) \in 0..TopHeight
      BY <2>2, Heights
    <3> QED BY <1>0, <2>2, <3>1
  <2> HIDE DEF new, b
  <2>4. indexed[idx.h] = None
    BY <1>0, <1>c, <2>1, <2>3
  <2>5. indexed' = [indexed EXCEPT ![idx.h] = b]
    BY <2>1, <2>4
  <2>6. \A h \in 0..TopHeight : indexed'[h] # None <=> h <= idx.h
    <3>1. \A h \in 0..TopHeight : h # idx.h => indexed'[h] = indexed[h]
      BY <1>0, <2>5
    <3>2. indexed'[idx.h] = b
      BY <1>0, <2>3, <2>5
    <3>3. \A h \in 0..TopHeight : h # idx.h => (indexed[h] # None <=> h <= idx.h)
      BY <1>0, <1>c, <2>1, <2>3
    <3> QED BY <1>c, <2>3, <3>1, <3>2, <3>3
  <2>7. ASSUME NEW r \in Rows, row'[r] \in {"Candidate", "Confirming"}
        PROVE  indexed'[Height(r.block)] = r.block
    <3>1. CASE r \in Elements(new)
      BY <1>0, <2>2, <2>3, <2>5, <3>1
    <3>2. CASE r \notin Elements(new)
      <4>1. indexed[Height(r.block)] = r.block /\ r.block # None
        BY <1>0, <2>1, <2>7, <3>2
      <4>2. Height(r.block) # idx.h
        BY <2>4, <4>1
      <4> QED BY <1>0, <2>5, <4>1, <4>2
    <3> QED BY <3>1, <3>2
  <2> QED BY <2>1, <2>2, <2>3, <2>6, <2>7 DEF IndexIsConsistent
<1>3. CASE IndexerStep /\ ~rollback_reorg /\ ~index_block
  <2>1. UNCHANGED <<indexed, dbTip>> /\ (UNCHANGED row \/ AdvanceCandidate \/ PromoteToFailed \/ PromoteToReady)
    BY <1>3
       DEF IndexerStep, TickHalted, vars, TickBegins, ForkPointFound, WalkBack,
           AdvanceCandidate, PromoteBegins, PromoteToFailed,
           PromoteDeferred, PromoteToReady, TickEnds, database
  <2>2. ASSUME NEW r \in Rows, row'[r] \in {"Candidate", "Confirming"}
        PROVE  row[r] \in {"Candidate", "Confirming"}
    <3>1. CASE UNCHANGED row
      BY <2>2, <3>1
    <3>2. CASE AdvanceCandidate
      <4> DEFINE h == Head(RowsIn("Candidate"))
      <4>1. h \in Rows /\ row[h] = "Candidate" /\ row' = [row EXCEPT ![h] = "Confirming"]
        BY <3>2, ListFacts, RowsInFacts DEF AdvanceCandidate, transition_state
      <4> HIDE DEF h
      <4> QED BY <1>0, <2>2, <4>1
    <3>3. CASE PromoteToFailed \/ PromoteToReady
      <4>1. \/ row' = [row EXCEPT ![Head(idx.todo)] = "Failed"]
            \/ row' = [row EXCEPT ![Head(idx.todo)] = "ReadyForSignature"]
        BY <3>3 DEF PromoteToFailed, PromoteToReady, transition_state
      <4> QED BY <1>0, <2>2, <4>1
    <3> QED BY <2>1, <3>1, <3>2, <3>3
  <2> QED BY <2>1, <2>2, IndexQuiet
<1>4. CASE OrchestratorStep \/ Environment
  <2>1. UNCHANGED <<indexed, dbTip>>
    BY <1>4
       DEF OrchestratorStep, OrchestratorUnchanged, MintTickBegins, mark_minted,
           verify_and_load_signable_message, SignaturesCollected, InsufficientSignatures,
           send_transaction, send_transaction_refused, mark_submitted,
           Environment, TipMoves, Land, Drop, MintedElsewhere, Rotate, ClockTicks,
           IndexerRpcFails, OrchestratorRpcFails, Restart, CorruptRow,
           operator_clear_integrity_halt, database
  <2>2. \A r \in Rows : row'[r] \in {"Candidate", "Confirming"} =>
                           row[r] \in {"Candidate", "Confirming"}
    BY <1>4, OutsideMoves DEF MovedOutside
  <2> QED BY <2>1, <2>2, IndexQuiet
<1>5. CASE UNCHANGED vars
  BY <1>5 DEF vars, IndexIsConsistent
<1> QED
  BY <1>1, <1>2, <1>3, <1>4, <1>5 DEF Next

-----------------------------------------------------------------------------
(* Releases.  A message exists only for a deposit that was once Confirming *)
(* and passed the caps; the time of its release is in the past.            *)
SoundRelease(r) ==
    /\ row[r] \in {"Absent", "Candidate", "Confirming"} =>
          artifact[r] = None /\ readyAt[r] = None
    /\ row[r] \in {"Candidate", "Confirming"} => r.deposit \in Bound
    /\ artifact[r] # None => r.deposit \in Bound /\ Amount[r.deposit] <= MaxDeposit
    /\ readyAt[r] # None => readyAt[r] <= clock

Releases == \A r \in Rows : SoundRelease(r)

(* What the indexer takes for a deposit is well-formed. *)
LEMMA CandidatesAreBound ==
    ASSUME NEW d \in Deposits, initial_state(d) # "Failed" PROVE d \in Bound
<1>1. /\ Pushes[d] \in Seq(Nat) /\ Pushes[d] # <<>> /\ Head(Pushes[d]) = 32
      /\ ~(Len(Pushes[d]) > 1) /\ Amount[d] >= MinDeposit
  BY Tree DEF initial_state, extract_recipient_binding
<1> DEFINE s == Pushes[d]
<1> HIDE DEF s
<1>2. s \in Seq(Nat) /\ s # <<>> /\ Head(s) = 32 /\ ~(Len(s) > 1)
  BY <1>1 DEF s
<1>3. Len(s) = 1 /\ s[1] = 32
  <2>1. Len(s) \in Nat /\ Len(s) # 0 /\ Head(s) = s[1]
    BY <1>2
  <2>2. Len(s) = 1
    <3> DEFINE n == Len(s)
    <3>1. n \in Nat /\ n # 0 /\ ~(n > 1)
      BY <1>2, <2>1, Zenon
    <3> HIDE DEF n
    <3>2. n = 1
      BY <3>1
    <3> QED BY <3>2 DEF n
  <2> QED BY <1>2, <2>1, <2>2
<1>4. s = <<32>>
  BY <1>2, <1>3
<1> QED
  BY <1>1, <1>4 DEF Bound, s

(* Every step keeps the releases sound. *)
LEMMA ReleasesStep ==
    ASSUME TypeInv, Worklists, Releases, [Next]_vars PROVE Releases'
<1>0. clock \in Nat /\ clock' \in Nat /\ clock <= clock' /\ configEpoch \in Nat
  <2>1. clock' = clock \/ ClockTicks
    BY DEF Next, IndexerStep, OrchestratorStep, Environment, vars, TickHalted, TickBegins,
       ForkPointFound, WalkBack, rollback_reorg, index_block, AdvanceCandidate, PromoteBegins,
       PromoteToFailed, PromoteDeferred, PromoteToReady, TickEnds, IndexerUnchanged,
       OrchestratorUnchanged, MintTickBegins, mark_minted,
       verify_and_load_signable_message, SignaturesCollected, InsufficientSignatures,
       send_transaction, send_transaction_refused, mark_submitted,
       TipMoves, Land, Drop, MintedElsewhere, Rotate,
       IndexerRpcFails, OrchestratorRpcFails, Restart, CorruptRow,
       operator_clear_integrity_halt
  <2>2. clock \in Nat /\ configEpoch \in Nat
    BY DepthAssumption DEF TypeInv, TypeOK
  <2> QED BY <2>1, <2>2 DEF ClockTicks
<1>r. ASSUME NEW r \in Rows PROVE readyAt[r] \in Nat \cup {None}
  BY DEF TypeInv, TypeOK
<1>1. CASE IndexerStep
  <2> SUFFICES ASSUME NEW r \in Rows
               PROVE  SoundRelease(r)'
    BY DEF Releases
  <2>1. MovedByIndexer(r)
    BY <1>1, IndexerMoves
  <2>2. r.deposit \in Deposits
    BY RowFacts
  <2>3. initial_state(r.deposit) \in {"Candidate", "Failed"}
    BY DEF initial_state
  <2> QED
    BY <1>0, <1>r, <2>1, <2>2, <2>3, CandidatesAreBound, Tree
       DEF MovedByIndexer, Kept, Releases, SoundRelease, Active
<1>2. CASE OrchestratorStep \/ Environment
  <2> SUFFICES ASSUME NEW r \in Rows
               PROVE  SoundRelease(r)'
    BY DEF Releases
  <2>1. MovedOutside(r)
    BY <1>2, OutsideMoves
  <2> QED
    BY <1>0, <1>r, <2>1 DEF MovedOutside, Kept, Releases, SoundRelease
<1>3. CASE UNCHANGED vars
  BY <1>3 DEF vars, Releases, SoundRelease
<1> QED
  BY <1>1, <1>2, <1>3 DEF Next

-----------------------------------------------------------------------------
(* What is sent and what is minted.                                        *)

(* A row becomes Minted only when its claim exists, and claims stay. *)
LEMMA MintedStep ==
    ASSUME TypeInv, Worklists, MintedIsClaimed, [Next]_vars PROVE MintedIsClaimed'
<1>1. claims \subseteq claims'
  BY DEF Next, IndexerStep, OrchestratorStep, Environment, vars, TickHalted, TickBegins,
     ForkPointFound, WalkBack, rollback_reorg, index_block, AdvanceCandidate, PromoteBegins,
     PromoteToFailed, PromoteDeferred, PromoteToReady, TickEnds, IndexerUnchanged, solana,
     OrchestratorUnchanged, MintTickBegins, mark_minted,
     verify_and_load_signable_message, SignaturesCollected, InsufficientSignatures,
     send_transaction, send_transaction_refused, mark_submitted,
     TipMoves, Land, Drop, MintedElsewhere, Rotate, ClockTicks,
     IndexerRpcFails, OrchestratorRpcFails, Restart, CorruptRow,
     operator_clear_integrity_halt
<1> SUFFICES ASSUME NEW r \in Rows, row'[r] = "Minted" PROVE r.deposit \in claims
  BY <1>1 DEF MintedIsClaimed
<1>2. CASE IndexerStep
  BY <1>2, IndexerMoves DEF MovedByIndexer, MintedIsClaimed, initial_state
<1>3. CASE OrchestratorStep \/ Environment
  BY <1>3, OutsideMoves DEF MovedOutside, MintedIsClaimed
<1>4. CASE UNCHANGED vars
  BY <1>4 DEF vars, MintedIsClaimed
<1> QED
  BY <1>2, <1>3, <1>4 DEF Next

(* A frozen message is never replaced. *)
LEMMA ArtifactsStay ==
    ASSUME TypeInv, Worklists, Releases, [Next]_vars, NEW r \in Rows, artifact[r] # None
    PROVE  artifact'[r] = artifact[r]
<1>1. CASE IndexerStep
  BY <1>1, IndexerMoves DEF MovedByIndexer, Kept, Releases, SoundRelease
<1>2. CASE OrchestratorStep \/ Environment
  BY <1>2, OutsideMoves DEF MovedOutside, Kept
<1>3. CASE UNCHANGED vars
  BY <1>3 DEF vars
<1> QED
  BY <1>1, <1>2, <1>3 DEF Next

(* Only the row the orchestrator is at is sent, with its frozen message. *)
LEMMA SentStep ==
    ASSUME TypeInv, Worklists, Releases, OnlyReleasedDepositsAreSent, [Next]_vars
    PROVE  OnlyReleasedDepositsAreSent'
<1>1. \/ inflight' \subseteq inflight
      \/ send_transaction
  BY DEF Next, IndexerStep, OrchestratorStep, Environment, vars, TickHalted, TickBegins,
     ForkPointFound, WalkBack, rollback_reorg, index_block, AdvanceCandidate, PromoteBegins,
     PromoteToFailed, PromoteDeferred, PromoteToReady, TickEnds, IndexerUnchanged, solana,
     OrchestratorUnchanged, MintTickBegins, mark_minted,
     verify_and_load_signable_message, SignaturesCollected, InsufficientSignatures,
     send_transaction_refused, mark_submitted,
     TipMoves, Land, Drop, MintedElsewhere, Rotate, ClockTicks,
     IndexerRpcFails, OrchestratorRpcFails, Restart, CorruptRow,
     operator_clear_integrity_halt
<1>2. ASSUME NEW m \in inflight
      PROVE  /\ m.deposit \in Bound /\ Amount[m.deposit] <= MaxDeposit
             /\ \E r \in Rows : r.deposit = m.deposit /\ artifact'[r] = m.epoch
  <2>1. PICK r \in Rows : r.deposit = m.deposit /\ artifact[r] = m.epoch
    BY DEF OnlyReleasedDepositsAreSent
  <2>2. m.epoch # None
    <3>1. m.epoch \in Nat
      BY DepthAssumption DEF TypeInv, TypeOK
    <3> QED BY <3>1, Tree
  <2>3. artifact'[r] = m.epoch
    BY <2>1, <2>2, ArtifactsStay
  <2> QED BY <2>1, <2>3 DEF OnlyReleasedDepositsAreSent
<1>3. ASSUME send_transaction
      PROVE  LET m == CurrentMint IN
             /\ m.deposit \in Bound /\ Amount[m.deposit] <= MaxDeposit
             /\ \E r \in Rows : r.deposit = m.deposit /\ artifact'[r] = m.epoch
  <2>1. Current \in Rows
    <3>1. orc.todo # <<>>
      BY <1>3 DEF send_transaction, TypeInv, Cursor
    <3> QED BY <3>1, ListFacts DEF Current
  <2>2. /\ CurrentMint.deposit = Current.deposit /\ CurrentMint.epoch = artifact[Current]
        /\ artifact' = artifact
    BY <1>3 DEF CurrentMint, mint_wrapped_instruction, send_transaction, OrchestratorUnchanged
  <2>3. artifact[Current] # None
    <3>1. CurrentMint.epoch = chainEpoch /\ chainEpoch \in Nat
      BY <1>3, DepthAssumption DEF send_transaction, Mintable, TypeInv, TypeOK
    <3> QED BY <2>2, <3>1, Tree
  <2> QED BY <2>1, <2>2, <2>3 DEF Releases, SoundRelease
<1>4. ASSUME NEW m \in inflight'
      PROVE  /\ m.deposit \in Bound /\ Amount[m.deposit] <= MaxDeposit
             /\ \E r \in Rows : r.deposit = m.deposit /\ artifact'[r] = m.epoch
  <2>0. send_transaction => inflight' = inflight \cup {CurrentMint}
    BY DEF send_transaction
  <2>1. m \in inflight \/ (send_transaction /\ m = CurrentMint)
    <3>1. CASE inflight' \subseteq inflight
      BY <1>4, <3>1
    <3>2. CASE send_transaction
      BY <1>4, <2>0, <3>2
    <3> QED BY <1>1, <3>1, <3>2
  <2> QED BY <1>2, <1>3, <2>1
<1> QED
  BY <1>4 DEF OnlyReleasedDepositsAreSent

-----------------------------------------------------------------------------
(* The rolling window.                                                     *)
RowAmount == [r \in Rows |-> Amount[r.deposit]]

(* An amount of rows is a sum over them. *)
LEMMA AmountIsSum ==
    ASSUME NEW S \in SUBSET Rows
    PROVE  AmountOf(S) = SumOver(RowAmount, S)
<1> DEFINE a(f, s) == IF s = {} THEN 0 ELSE Amount[Pick(s).deposit] + f[s \ {Pick(s)}]
           b(f, s) == IF s = {} THEN 0 ELSE RowAmount[Pick(s)] + f[s \ {Pick(s)}]
           A(f) == f = [s \in SUBSET S |-> a(f, s)]
           B(f) == f = [s \in SUBSET S |-> b(f, s)]
<1>1. ASSUME NEW f PROVE A(f) <=> B(f)
  <2>1. \A s \in SUBSET S : s # {} => RowAmount[Pick(s)] = Amount[Pick(s).deposit]
    BY Picked DEF RowAmount
  <2>2. \A s \in SUBSET S : a(f, s) = b(f, s)
    BY <2>1
  <2>3. [s \in SUBSET S |-> a(f, s)] = [s \in SUBSET S |-> b(f, s)]
    <3> HIDE DEF a, b
    <3> QED BY <2>2
  <2> QED BY <2>3
<1>2. (CHOOSE f : A(f)) = (CHOOSE f : B(f))
  <2> HIDE DEF A, B
  <2> QED BY <1>1, Zenon
<1> QED
  BY <1>2, Zenon DEF AmountOf, MapThenSumSet, MapThenFoldSet, Pick, SumOver, Summing, IsSum

(* How amounts of rows compare and grow. *)
LEMMA AmountFacts ==
    /\ AmountOf({}) = 0
    /\ \A S \in SUBSET Rows : AmountOf(S) \in Nat
    /\ \A S \in SUBSET Rows : \A T \in SUBSET S : AmountOf(T) <= AmountOf(S)
    /\ \A S \in SUBSET Rows : \A r \in Rows :
          r \notin S => AmountOf(S \cup {r}) = Amount[r.deposit] + AmountOf(S)
<1>1. \A r \in Rows : RowAmount[r] = Amount[r.deposit] /\ RowAmount[r] \in Nat
  BY RowFacts DEF RowAmount
<1>2. \A S \in SUBSET Rows : IsFiniteSet(S)
  BY RowsFinite, FS_Subset
<1>3. AmountOf({}) = 0
  BY AmountIsSum, SumEmpty
<1>4. ASSUME NEW S \in SUBSET Rows, NEW T \in SUBSET S
      PROVE  AmountOf(S) \in Nat /\ AmountOf(T) <= AmountOf(S)
  <2>1. SumOver(RowAmount, S) \in Nat /\ SumOver(RowAmount, T) <= SumOver(RowAmount, S)
    BY <1>1, <1>2, SumNat
  <2>2. T \in SUBSET Rows
    OBVIOUS
  <2> QED BY <2>1, <2>2, AmountIsSum
<1>5. ASSUME NEW S \in SUBSET Rows, NEW r \in Rows, r \notin S
      PROVE  AmountOf(S \cup {r}) = Amount[r.deposit] + AmountOf(S)
  <2>1. IsFiniteSet(S) /\ \A y \in S \cup {r} : RowAmount[y] \in Int
    BY <1>1, <1>2
  <2>2. SumOver(RowAmount, S \cup {r}) = RowAmount[r] + SumOver(RowAmount, S)
    BY <1>5, <2>1, SumAdd
  <2>3. S \cup {r} \in SUBSET Rows
    OBVIOUS
  <2> QED BY <1>1, <2>2, <2>3, AmountIsSum
<1>6. \A S \in SUBSET Rows : AmountOf(S) \in Nat
  <2> SUFFICES ASSUME NEW S \in SUBSET Rows PROVE AmountOf(S) \in Nat
    OBVIOUS
  <2>1. S \in SUBSET S
    OBVIOUS
  <2> QED BY <1>4, <2>1
<1> QED
  BY <1>3, <1>4, <1>5, <1>6

(* Every step keeps the window. *)
LEMMA WindowStep ==
    ASSUME TypeInv, Worklists, Releases, ReleasedWithinWindow, [Next]_vars
    PROVE  ReleasedWithinWindow'
<1> DEFINE W(t) == {r \in Rows : readyAt[r] # None /\ readyAt[r] \in t..(t + Window)}
<1>0. /\ clock \in Nat /\ Window \in Nat /\ WindowCap \in Nat /\ None \notin Nat
      /\ readyAt \in [Rows -> Nat \cup {None}]
      /\ \A r \in Rows : readyAt[r] # None => readyAt[r] <= clock
      /\ \A t \in 0..clock : AmountOf(W(t)) <= WindowCap
  <2>1. /\ clock \in Nat /\ Window \in Nat /\ WindowCap \in Nat /\ None \notin Nat
        /\ readyAt \in [Rows -> Nat \cup {None}]
    BY DepthAssumption, Tree DEF TypeInv, TypeOK
  <2>2. \A r \in Rows : readyAt[r] # None => readyAt[r] <= clock
    BY DEF Releases, SoundRelease
  <2>3. \A t \in 0..clock : AmountOf(W(t)) <= WindowCap
    BY Zenon DEF ReleasedWithinWindow
  <2> QED BY <2>1, <2>2, <2>3
<1>1. CASE PromoteToReady
  <2> DEFINE h == Head(idx.todo)
             S == {r \in Rows : readyAt[r] # None /\ readyAt[r] >= clock - Window}
  <2>1. h \in Rows /\ row[h] = "Confirming"
    BY <1>1, ListFacts DEF PromoteToReady, Promoting
  <2>2. readyAt[h] = None
    BY <2>1 DEF Releases, SoundRelease
  <2>3. /\ readyAt' = [readyAt EXCEPT ![h] = clock] /\ clock' = clock
        /\ AmountOf(S) + Amount[h.deposit] <= WindowCap
    BY <1>1 DEF PromoteToReady, transition_state, WithinCaps, ready_amount_sum_since,
       IndexerUnchanged
  <2> HIDE DEF h
  <2>4. ASSUME NEW t \in 0..clock
        PROVE  AmountOf({r \in Rows : readyAt'[r] # None /\ readyAt'[r] \in t..(t + Window)})
                   <= WindowCap
    <3> DEFINE V == {r \in Rows : readyAt'[r] # None /\ readyAt'[r] \in t..(t + Window)}
    <3>1. /\ h \notin W(t) /\ W(t) \in SUBSET Rows /\ S \in SUBSET Rows
          /\ AmountOf(W(t)) <= WindowCap
      BY <1>0, <2>2
    <3>2. \A r \in Rows : r # h => (r \in V <=> r \in W(t))
      BY <1>0, <2>3
    <3>3. h \in V <=> clock \in t..(t + Window)
      BY <1>0, <2>1, <2>3
    <3>4. CASE clock \in t..(t + Window)
      <4>1. V = W(t) \cup {h}
        <5> HIDE DEF V, W
        <5>1. V \subseteq Rows
          BY DEF V
        <5> QED BY <2>1, <3>1, <3>2, <3>3, <3>4, <5>1
      <4>2. \A r \in W(t) : r \in S
        <5> SUFFICES ASSUME NEW r \in Rows, readyAt[r] # None, readyAt[r] \in t..(t + Window)
                     PROVE  readyAt[r] >= clock - Window
          OBVIOUS
        <5>1. readyAt[r] \in Nat /\ t \in Nat
          BY <1>0
        <5> QED BY <1>0, <3>4, <5>1
      <4> HIDE DEF V, W, S
      <4>3. AmountOf(V) = Amount[h.deposit] + AmountOf(W(t))
        BY <2>1, <3>1, <4>1, AmountFacts
      <4>4. AmountOf(W(t)) <= AmountOf(S) /\ AmountOf(W(t)) \in Nat /\ AmountOf(S) \in Nat
        <5>1. W(t) \in SUBSET S
          BY <4>2
        <5> QED BY <3>1, <5>1, AmountFacts
      <4>5. Amount[h.deposit] \in Nat
        BY <2>1, RowFacts
      <4>6. AmountOf(V) <= WindowCap
        BY <1>0, <2>3, <4>3, <4>4, <4>5
      <4> QED BY <4>6 DEF V
    <3>5. CASE clock \notin t..(t + Window)
      <4>1. V = W(t)
        <5> HIDE DEF V, W
        <5>1. V \subseteq Rows
          BY DEF V
        <5> QED BY <3>1, <3>2, <3>3, <3>5, <5>1
      <4> QED BY <3>1, <4>1
    <3> QED BY <3>4, <3>5
  <2> QED BY <2>3, <2>4 DEF ReleasedWithinWindow
<1>2. CASE ClockTicks
  <2>1. clock' = clock + 1 /\ readyAt' = readyAt
    BY <1>2 DEF ClockTicks, database
  <2>2. ASSUME NEW t \in 0..(clock + 1) PROVE AmountOf(W(t)) <= WindowCap
    <3>1. CASE t \in 0..clock
      BY <1>0, <3>1
    <3>2. CASE t = clock + 1
      <4>1. W(t) = {}
        <5> SUFFICES ASSUME NEW r \in Rows, readyAt[r] # None, readyAt[r] \in t..(t + Window)
                     PROVE  FALSE
          OBVIOUS
        <5>1. readyAt[r] \in Nat /\ readyAt[r] <= clock
          BY <1>0
        <5> QED BY <1>0, <3>2, <5>1
      <4> HIDE DEF W
      <4> QED BY <1>0, <4>1, AmountFacts
    <3> QED BY <1>0, <3>1, <3>2
  <2> QED BY <2>1, <2>2 DEF ReleasedWithinWindow
<1>3. CASE UNCHANGED <<readyAt, clock>>
  BY <1>3 DEF ReleasedWithinWindow
<1>4. PromoteToReady \/ ClockTicks \/ UNCHANGED <<readyAt, clock>>
  BY DEF Next, IndexerStep, OrchestratorStep, Environment, vars, TickHalted, TickBegins,
     ForkPointFound, WalkBack, rollback_reorg, index_block, AdvanceCandidate, PromoteBegins,
     PromoteToFailed, PromoteDeferred, TickEnds, IndexerUnchanged, solana, database,
     OrchestratorUnchanged, MintTickBegins, mark_minted, transition_state,
     verify_and_load_signable_message, SignaturesCollected, InsufficientSignatures,
     send_transaction, send_transaction_refused, mark_submitted,
     TipMoves, Land, Drop, MintedElsewhere, Rotate,
     IndexerRpcFails, OrchestratorRpcFails, Restart, CorruptRow,
     operator_clear_integrity_halt
<1> QED
  BY <1>1, <1>2, <1>3, <1>4

-----------------------------------------------------------------------------
(* What holds whatever the chain does during a tick.                       *)

DepositInv ==
    /\ TypeInv /\ Worklists /\ IndexIsConsistent /\ Releases
    /\ MintedIsClaimed /\ OnlyReleasedDepositsAreSent /\ ReleasedWithinWindow

(* A new database satisfies the invariant. *)
LEMMA InvInit == Init => DepositInv
<1> SUFFICES ASSUME Init PROVE DepositInv
  OBVIOUS
<1>1. TypeInv
  BY TypeInit
<1>2. Worklists
  <2>1. ids = <<>> /\ idx.todo = <<>> /\ orc.todo = <<>>
    BY DEF Init, IdleIndexer, IdleOrchestrator
  <2> QED BY <2>1, EmptyList DEF Worklists
<1>3. IndexIsConsistent
  BY Heights, RowFacts DEF Init, IndexIsConsistent
<1>4. Releases
  BY DEF Init, Releases, SoundRelease
<1>5. MintedIsClaimed /\ OnlyReleasedDepositsAreSent
  BY DEF Init, MintedIsClaimed, OnlyReleasedDepositsAreSent
<1>6. ReleasedWithinWindow
  <2> SUFFICES ASSUME NEW t \in 0..clock
               PROVE  AmountOf({r \in Rows : readyAt[r] # None
                                  /\ readyAt[r] \in t..(t + Window)}) <= WindowCap
    BY DEF ReleasedWithinWindow
  <2>1. {r \in Rows : readyAt[r] # None /\ readyAt[r] \in t..(t + Window)} = {}
    BY DEF Init
  <2>2. AmountOf({}) = 0 /\ WindowCap \in Nat
    BY AmountFacts, DepthAssumption
  <2>3. AmountOf({}) <= WindowCap
    BY <2>2
  <2> QED BY <2>1, <2>3, Zenon
<1> QED
  BY <1>1, <1>2, <1>3, <1>4, <1>5, <1>6 DEF DepositInv

(* Every step of the loops, the node and the chain keeps it. *)
LEMMA InvStep == DepositInv /\ [Next]_vars => DepositInv'
  BY TypeStep, WorklistsStep, IndexStep, ReleasesStep, MintedStep, SentStep, WindowStep
     DEF DepositInv

(* So it holds always. *)
LEMMA Inv == Spec => []DepositInv
  BY InvInit, InvStep, PTL DEF Spec

(* Whatever reorgs, failed ticks and restarts come in between, a hash is   *)
(* stored for exactly the heights up to chain_state's tip, and no deposit  *)
(* is left confirming on a block that rollback_reorg dropped.              *)
THEOREM IndexAlwaysConsistent == Spec => []IndexIsConsistent
<1>1. DepositInv => IndexIsConsistent
  BY DEF DepositInv
<1> QED BY <1>1, Inv, PTL

(* mark_minted is only ever reached behind an existing claim account. *)
THEOREM MintedAlwaysClaimed == Spec => []MintedIsClaimed
<1>1. DepositInv => MintedIsClaimed
  BY DEF DepositInv
<1> QED BY <1>1, Inv, PTL

(* What send_transaction carries was released by promote_confirming: a     *)
(* well-formed deposit under the flat cap, with the epoch that was frozen. *)
THEOREM SentAlwaysReleased == Spec => []OnlyReleasedDepositsAreSent
<1>1. DepositInv => OnlyReleasedDepositsAreSent
  BY DEF DepositInv
<1> QED BY <1>1, Inv, PTL

(* The rolling-window check of promote_confirming bounds what is released  *)
(* in EVERY window of that length, not only in the ones it looks at.       *)
THEOREM WindowAlwaysKept == Spec => []ReleasedWithinWindow
<1>1. DepositInv => ReleasedWithinWindow
  BY DEF DepositInv
<1> QED BY <1>1, Inv, PTL

(* No step of either loop, of an operator or of a crash unsettles a row    *)
(* that was minted, set aside or halted.                                   *)
THEOREM SettledAlwaysStays == Spec => SettledStaysSettled
<1>1. ASSUME DepositInv, [Next]_vars, NEW r \in Rows
      PROVE  /\ row[r] \in {"Minted", "Failed"} => row'[r] = row[r]
             /\ row[r] = "IntegrityHalted" =>
                   row'[r] \in {"IntegrityHalted", "ReadyForSignature", "Failed"}
  <2>1. CASE IndexerStep
    BY <1>1, <2>1, IndexerMoves DEF DepositInv, MovedByIndexer, Active
  <2>2. CASE OrchestratorStep \/ Environment
    BY <1>1, <2>2, OutsideMoves DEF DepositInv, MovedOutside, Released
  <2>3. CASE UNCHANGED vars
    BY <2>3 DEF vars
  <2> QED BY <1>1, <2>1, <2>2, <2>3 DEF Next
<1>2. DepositInv /\ [Next]_vars =>
         [\A r \in Rows :
            /\ row[r] \in {"Minted", "Failed"} => row'[r] = row[r]
            /\ row[r] = "IntegrityHalted" =>
                  row'[r] \in {"IntegrityHalted", "ReadyForSignature", "Failed"}]_vars
  BY <1>1
<1> QED BY <1>2, Inv, PTL DEF Spec, SettledStaysSettled

-----------------------------------------------------------------------------
(* Until the chain is reorganized during a tick, the index follows the     *)
(* node's chain: what a tick has found out about it stays true until the   *)
(* tick ends, because a chain that grows keeps its blocks.                 *)

(* A deposit is at least as deep as the block that carries it. *)
LEMMA DepthOfBlock ==
    ASSUME NEW b \in Blocks, NEW r \in Rows, Height(r.block) <= Height(b),
           BlockAt(b, Height(r.block)) = r.block
    PROVE  DepthOn(b, r.deposit) >= Height(b) - Height(r.block) + 1
<1> DEFINE at == {i \in DOMAIN Path[b] : r.deposit \in Elements(Vault[Path[b][i]])}
           k == Height(r.block) + 1
<1>1. /\ Path[b] \in Seq(Blocks) /\ Len(Path[b]) \in Nat /\ DOMAIN Path[b] = 1..Len(Path[b])
      /\ Height(b) \in Nat /\ Len(Path[b]) = Height(b) + 1
  BY Tree DEF Height
<1>2. Height(r.block) \in Nat /\ r.deposit \in Elements(Vault[r.block])
  BY RowFacts
<1>3. k \in at
  BY <1>1, <1>2 DEF BlockAt
<1>4. at \subseteq Nat /\ at # {}
  BY <1>1, <1>3
<1>5. DepthOn(b, r.deposit) = IF at = {} THEN 0 ELSE Len(Path[b]) - Min(at) + 1
  BY DEF DepthOn
<1> HIDE DEF at
<1>6. Min(at) \in at /\ Min(at) <= k
  BY <1>3, <1>4, LeastNumber
<1>7. Min(at) \in Nat
  BY <1>4, <1>6
<1> QED
  BY <1>1, <1>2, <1>4, <1>5, <1>6, <1>7

(* The genesis block carries no deposit. *)
LEMMA GenesisIsEmpty == \A d \in Deposits : DepthOn(Genesis, d) = 0
<1>1. /\ Genesis \in Blocks /\ Path[Genesis] \in Seq(Blocks) /\ Path[Genesis][1] = Genesis
      /\ Vault[Genesis] = <<>> /\ Len(Path[Genesis]) >= 1
  BY Tree
<1>2. Len(Path[Genesis]) = 1
  <2>1. 1 \in DOMAIN Path[Genesis]
    BY <1>1
  <2>2. Path[Genesis] = SubSeq(Path[Genesis], 1, 1)
    BY <1>1, <2>1, Tree
  <2>3. Len(SubSeq(Path[Genesis], 1, 1)) = 1
    BY <1>1
  <2> QED BY <2>2, <2>3
<1>3. DOMAIN Path[Genesis] = {1}
  BY <1>1, <1>2
<1>4. \A d \in Deposits :
         {i \in DOMAIN Path[Genesis] : d \in Elements(Vault[Path[Genesis][i]])} = {}
  BY <1>1, <1>3, EmptyList
<1> QED
  BY <1>4 DEF DepthOn

OnNode ==
    /\ idx.pc \in {"index", "promote"} /\ dbTip # None => dbTip = BlockAt(node, Height(dbTip))
    /\ idx.pc = "rollback" => indexed[idx.h] = BlockAt(node, idx.h)
    /\ \A r \in Elements(idx.todo) : r.deposit \in everDeep
    /\ \A d \in Deposits : DepthOn(node, d) >= ConfirmationDepth => d \in everDeep

Still == IndexIsOneChain /\ OnNode /\ ClaimableOnlyAtDepth

StillInv == DepositInv /\ (~shaken => Still)

(* The start: nothing is indexed and nothing is deep. *)
LEMMA StillInit == Init => StillInv
<1> SUFFICES ASSUME Init PROVE StillInv
  OBVIOUS
<1>1. DepositInv
  BY InvInit
<1>2. IndexIsOneChain /\ ClaimableOnlyAtDepth
  BY DEF Init, IndexIsOneChain, ClaimableOnlyAtDepth
<1>3. \A d \in Deposits : ~(DepthOn(Genesis, d) >= ConfirmationDepth)
  <2>1. ConfirmationDepth \in Nat \ {0}
    BY DepthAssumption
  <2>2. \A d \in Deposits : DepthOn(Genesis, d) = 0
    BY GenesisIsEmpty
  <2> QED BY <2>1, <2>2
<1>4. OnNode
  <2>1. idx.pc = "idle" /\ Elements(idx.todo) = {} /\ node = Genesis
    BY EmptyList DEF Init, IdleIndexer
  <2> QED BY <1>3, <2>1 DEF OnNode
<1> QED
  BY <1>1, <1>2, <1>4 DEF StillInv, Still

(* The stored blocks stay one chain. *)
LEMMA OneChainStep ==
    ASSUME DepositInv, Still, ~shaken, [Next]_vars PROVE IndexIsOneChain'
<1>0. /\ TypeInv /\ Worklists /\ node \in Blocks /\ TopHeight \in Nat
      /\ indexed \in [0..TopHeight -> Blocks \cup {None}]
      /\ \A h \in 0..TopHeight : indexed[h] # None <=> dbTip # None /\ h <= Height(dbTip)
      /\ dbTip # None => /\ dbTip \in Blocks /\ Height(dbTip) \in Nat
                         /\ Height(dbTip) <= Height(node)
                         /\ \A h \in 0..Height(dbTip) : indexed[h] = BlockAt(dbTip, h)
      /\ Height(node) \in Nat /\ Height(node) <= TopHeight
  BY CursorFacts
     DEF DepositInv, Still, TypeInv, TypeOK, Cursor, IndexIsConsistent, IndexIsOneChain
<1>c. \A h \in 0..Height(node) :
         /\ BlockAt(node, h) \in Blocks /\ Height(BlockAt(node, h)) = h
         /\ \A k \in 0..h : BlockAt(BlockAt(node, h), k) = BlockAt(node, k)
  BY <1>0, ChainFacts
<1>1. CASE rollback_reorg
  <2> DEFINE c == BlockAt(node, idx.h)
  <2>1. /\ idx.pc = "rollback" /\ dbTip' = c
        /\ indexed' = [h \in 0..TopHeight |-> IF h > idx.h THEN None ELSE indexed[h]]
    BY <1>1 DEF rollback_reorg
  <2>2. /\ dbTip # None /\ idx.h \in Nat /\ idx.h <= Height(dbTip) /\ idx.h \in 0..Height(node)
        /\ indexed[idx.h] = c
    BY <1>0, <2>1, CursorFacts DEF TypeInv, Cursor, Still, OnNode
  <2>3. c \in Blocks /\ Height(c) = idx.h /\ BlockAt(dbTip, idx.h) = c
    BY <1>0, <1>c, <2>2
  <2>4. \A k \in 0..idx.h : BlockAt(c, k) = BlockAt(dbTip, k)
    <3>1. \A k \in 0..idx.h : BlockAt(BlockAt(dbTip, idx.h), k) = BlockAt(dbTip, k)
      BY <1>0, <2>2, ChainFacts
    <3> QED BY <2>3, <3>1
  <2> HIDE DEF c
  <2>5. \A k \in 0..idx.h : indexed'[k] = BlockAt(c, k)
    <3> SUFFICES ASSUME NEW k \in 0..idx.h PROVE indexed'[k] = BlockAt(c, k)
      OBVIOUS
    <3>1. k \in 0..TopHeight /\ k \in 0..Height(dbTip) /\ ~(k > idx.h)
      BY <1>0, <2>2
    <3> QED BY <1>0, <2>1, <2>2, <2>4, <3>1
  <2> QED BY <2>1, <2>3, <2>5 DEF IndexIsOneChain
<1>2. CASE index_block
  <2> DEFINE b == BlockAt(node, idx.h)
  <2>1. /\ idx.pc = "index" /\ idx.h <= idx.liveTip /\ dbTip' = b
        /\ indexed' = [indexed EXCEPT ![idx.h] = IF indexed[idx.h] = None THEN b
                                                 ELSE indexed[idx.h]]
    BY <1>2 DEF index_block
  <2>2. /\ idx.h \in Nat /\ idx.h \in 0..Height(node)
        /\ idx.h = IF dbTip = None THEN 0 ELSE Height(dbTip) + 1
        /\ dbTip # None => dbTip = BlockAt(node, Height(dbTip))
    BY <1>0, <2>1, CursorFacts DEF TypeInv, Cursor, Still, OnNode
  <2>3. /\ b \in Blocks /\ Height(b) = idx.h
        /\ \A k \in 0..idx.h : BlockAt(b, k) = BlockAt(node, k)
    BY <1>c, <2>2
  <2> HIDE DEF b
  <2>4. idx.h \in 0..TopHeight /\ indexed[idx.h] = None
    BY <1>0, <2>2
  <2>5. indexed' = [indexed EXCEPT ![idx.h] = b]
    BY <2>1, <2>4
  <2>6. indexed'[idx.h] = b /\ BlockAt(b, idx.h) = b
    <3>1. BlockAt(b, Height(b)) = b
      BY <2>3, ChainFacts
    <3> QED BY <1>0, <2>3, <2>4, <2>5, <3>1
  <2>7. ASSUME NEW k \in 0..idx.h, k # idx.h PROVE indexed'[k] = BlockAt(b, k)
    <3>1. dbTip # None /\ k \in 0..Height(dbTip) /\ k \in 0..TopHeight
      BY <1>0, <2>2, <2>7
    <3>2. indexed'[k] = BlockAt(dbTip, k)
      BY <1>0, <2>5, <2>7, <3>1
    <3>3. BlockAt(dbTip, k) = BlockAt(node, k)
      <4>1. Height(dbTip) \in 0..Height(node)
        BY <1>0, <3>1
      <4>2. BlockAt(BlockAt(node, Height(dbTip)), k) = BlockAt(node, k)
        BY <1>c, <3>1, <4>1
      <4> QED BY <2>2, <3>1, <4>2
    <3> QED BY <2>3, <3>2, <3>3
  <2> QED BY <2>1, <2>3, <2>6, <2>7 DEF IndexIsOneChain
<1>3. CASE UNCHANGED <<indexed, dbTip>>
  BY <1>3 DEF Still, IndexIsOneChain
<1>4. rollback_reorg \/ index_block \/ UNCHANGED <<indexed, dbTip>>
  BY DEF Next, IndexerStep, OrchestratorStep, Environment, vars, TickHalted, TickBegins,
     ForkPointFound, WalkBack, AdvanceCandidate, PromoteBegins,
     PromoteToFailed, PromoteDeferred, PromoteToReady, TickEnds, database,
     OrchestratorUnchanged, MintTickBegins, mark_minted,
     verify_and_load_signable_message, SignaturesCollected, InsufficientSignatures,
     send_transaction, send_transaction_refused, mark_submitted,
     TipMoves, Land, Drop, MintedElsewhere, Rotate, ClockTicks,
     IndexerRpcFails, OrchestratorRpcFails, Restart, CorruptRow,
     operator_clear_integrity_halt
<1> QED
  BY <1>1, <1>2, <1>3, <1>4

(* A depth is a number. *)
LEMMA DepthIsNumber ==
    ASSUME NEW b \in Blocks, NEW d PROVE DepthOn(b, d) \in Int
<1> DEFINE at == {i \in DOMAIN Path[b] : d \in Elements(Vault[Path[b][i]])}
<1>1. Path[b] \in Seq(Blocks) /\ Len(Path[b]) \in Nat /\ at \subseteq Nat
  BY Tree
<1>2. DepthOn(b, d) = IF at = {} THEN 0 ELSE Len(Path[b]) - Min(at) + 1
  BY DEF DepthOn
<1> HIDE DEF at
<1>3. at # {} => Min(at) \in at
  BY <1>1, LeastNumber
<1>4. at # {} => Min(at) \in Nat
  BY <1>1, <1>3
<1> QED
  BY <1>1, <1>2, <1>4

(* What a tick found out about the node's chain stays true to its end. *)
LEMMA OnNodeStep ==
    ASSUME DepositInv, Still, ~shaken, ~shaken', [Next]_vars PROVE OnNode'
<1>0. /\ TypeInv /\ Worklists /\ idx \in IndexerType /\ node \in Blocks
      /\ idx.pc \in {"index", "promote"} /\ dbTip # None =>
            dbTip = BlockAt(node, Height(dbTip))
      /\ idx.pc = "rollback" => indexed[idx.h] = BlockAt(node, idx.h)
      /\ \A r \in Elements(idx.todo) : r.deposit \in everDeep
      /\ \A d \in Deposits : DepthOn(node, d) >= ConfirmationDepth => d \in everDeep
      /\ dbTip # None => /\ dbTip \in Blocks /\ Height(dbTip) \in Nat
                         /\ Height(dbTip) <= Height(node)
      /\ idx.pc # "promote" => Elements(idx.todo) = {}
      /\ Height(node) \in Nat /\ idx.h \in Nat
  BY CursorFacts, EmptyList
     DEF DepositInv, Still, TypeInv, TypeOK, Cursor, OnNode, Worklists, IndexerType
<1>q. ASSUME UNCHANGED <<node, everDeep>>, idx'.pc = "idle", Elements(idx'.todo) = {}
      PROVE  OnNode'
  BY <1>0, <1>q DEF OnNode
<1>1. CASE TickBegins
  <2>1. /\ idx'.pc \in {"index", "fork"} /\ (idx'.pc = "index" => dbTip = None)
        /\ idx'.todo = idx.todo /\ idx.pc = "idle"
        /\ UNCHANGED <<node, dbTip, indexed, everDeep>>
    BY <1>0, <1>1 DEF TickBegins, IndexerType, database, IndexerUnchanged
  <2> QED BY <1>0, <2>1 DEF OnNode
<1>2. CASE ForkPointFound
  <2>1. /\ idx.pc = "fork" /\ indexed[idx.h] = BlockAt(node, idx.h)
        /\ \/ idx'.pc = "index" /\ idx.h = Height(dbTip)
           \/ idx'.pc = "rollback" /\ idx'.h = idx.h
        /\ idx'.todo = idx.todo /\ UNCHANGED <<node, dbTip, indexed, everDeep>>
    BY <1>0, <1>2 DEF ForkPointFound, IndexerType, database, IndexerUnchanged
  <2>2. idx.h = Height(dbTip) => dbTip = BlockAt(node, Height(dbTip))
    <3> SUFFICES ASSUME idx.h = Height(dbTip) PROVE dbTip = BlockAt(node, Height(dbTip))
      OBVIOUS
    <3>1. dbTip # None
      BY <1>0, <2>1 DEF TypeInv, Cursor
    <3>2. indexed[Height(dbTip)] = BlockAt(dbTip, Height(dbTip))
      BY <1>0, <3>1 DEF Still, IndexIsOneChain
    <3>3. BlockAt(dbTip, Height(dbTip)) = dbTip
      BY <1>0, <3>1, ChainFacts
    <3> QED BY <2>1, <3>2, <3>3
  <2> QED BY <1>0, <2>1, <2>2 DEF OnNode
<1>3. CASE WalkBack
  <2>1. /\ UNCHANGED <<node, dbTip, indexed, everDeep>> /\ idx.pc = "fork"
        /\ \/ idx' = [IdleIndexer EXCEPT !.halted = TRUE]
           \/ idx' = [idx EXCEPT !.h = idx.h - 1]
    BY <1>3 DEF WalkBack, database, IndexerUnchanged
  <2>2. CASE idx' = [IdleIndexer EXCEPT !.halted = TRUE]
    <3>1. idx'.pc = "idle" /\ idx'.todo = <<>>
      BY <2>2 DEF IdleIndexer
    <3> QED BY <1>q, <2>1, <3>1, EmptyList
  <2>3. CASE idx' = [idx EXCEPT !.h = idx.h - 1]
    <3>1. idx'.pc = "fork" /\ idx'.todo = idx.todo
      BY <1>0, <2>1, <2>3 DEF IndexerType
    <3> QED BY <1>0, <2>1, <3>1 DEF OnNode
  <2> QED BY <2>1, <2>2, <2>3
<1>4. ASSUME rollback_reorg \/ index_block PROVE OnNode'
  <2>1. /\ UNCHANGED <<node, everDeep>> /\ idx.pc # "idle" /\ idx.pc # "promote"
        /\ idx'.pc = "index" /\ idx'.todo = idx.todo
        /\ dbTip' = BlockAt(node, idx.h)
    BY <1>0, <1>4 DEF rollback_reorg, index_block, IndexerType, IndexerUnchanged
  <2>2. idx.h \in 0..Height(node)
    BY <1>0, <1>4, CursorFacts DEF rollback_reorg, index_block
  <2>3. dbTip' = BlockAt(node, Height(dbTip'))
    BY <1>0, <2>1, <2>2, ChainFacts
  <2> QED BY <1>0, <2>1, <2>3 DEF OnNode
<1>5. CASE PromoteBegins
  <2> DEFINE c == RowsIn("Confirming")  T == {r \in Rows : DeepEnough(r)}
  <2>1. /\ UNCHANGED <<node, dbTip, indexed, everDeep>> /\ idx.pc = "index"
        /\ idx.h > idx.liveTip /\ idx'.pc = "promote" /\ idx'.todo = Where(c, T)
    BY <1>0, <1>5 DEF PromoteBegins, IndexerType, IndexerUnchanged, database
  <2>2. /\ dbTip # None /\ Height(dbTip) >= idx.liveTip
        /\ idx.liveTip \in Nat /\ idx.liveTip <= Height(node)
    BY <1>0, <2>1, CursorFacts DEF TypeInv, Cursor
  <2>3. c \in Seq(Rows) /\ \A r \in Elements(c) : r \in Rows /\ row[r] = "Confirming"
    BY <1>0, ListFacts, RowsInFacts
  <2>4. Elements(Where(c, T)) = Elements(c) \cap T
    <3> HIDE DEF c, T
    <3> QED BY <2>3, WhereFacts
  <2>5. ASSUME NEW r \in Elements(Where(c, T))
        PROVE  r.deposit \in everDeep
    <3>1. r \in Rows /\ row[r] = "Confirming" /\ DeepEnough(r)
      BY <2>3, <2>4
    <3>2. /\ r.block \in Blocks /\ Height(r.block) \in Nat /\ Height(r.block) \in 0..TopHeight
          /\ r.deposit \in Deposits
      BY <3>1, RowFacts
    <3>3. indexed[Height(r.block)] = r.block
      BY <3>1 DEF DepositInv, IndexIsConsistent
    <3>4. Height(r.block) <= Height(dbTip)
      BY <3>2, <3>3, Tree DEF DepositInv, IndexIsConsistent
    <3>5. BlockAt(node, Height(r.block)) = r.block
      <4>1. Height(r.block) \in 0..Height(dbTip) /\ Height(dbTip) \in 0..Height(node)
        BY <1>0, <2>2, <3>2, <3>4
      <4>2. indexed[Height(r.block)] = BlockAt(dbTip, Height(r.block))
        BY <2>2, <4>1 DEF Still, IndexIsOneChain
      <4>3. BlockAt(BlockAt(node, Height(dbTip)), Height(r.block)) = BlockAt(node, Height(r.block))
        BY <1>0, <4>1, ChainFacts
      <4> QED BY <1>0, <2>1, <2>2, <3>3, <4>2, <4>3
    <3>6. DepthOn(node, r.deposit) >= Height(node) - Height(r.block) + 1
      BY <1>0, <2>2, <3>1, <3>2, <3>4, <3>5, DepthOfBlock
    <3>7. idx.liveTip - Height(r.block) + 1 >= ConfirmationDepth
      BY <3>1 DEF DeepEnough
    <3>8. DepthOn(node, r.deposit) \in Int /\ ConfirmationDepth \in Int
      BY <1>0, DepthAssumption, DepthIsNumber
    <3>9. DepthOn(node, r.deposit) >= ConfirmationDepth
      BY <1>0, <2>2, <3>2, <3>6, <3>7, <3>8
    <3> QED BY <1>0, <3>2, <3>9
  <2> HIDE DEF c, T
  <2>6. \A r \in Elements(idx'.todo) : r.deposit \in everDeep
    BY <2>1, <2>5
  <2> QED BY <1>0, <2>1, <2>6 DEF OnNode
<1>6. CASE PromoteToFailed \/ PromoteDeferred \/ PromoteToReady
  <2>1. /\ UNCHANGED <<node, dbTip, indexed, everDeep>> /\ idx.todo # <<>>
        /\ PromoteNext /\ idx.pc = "promote"
    BY <1>6 DEF PromoteToFailed, PromoteDeferred, PromoteToReady, Promoting, database,
       IndexerUnchanged
  <2>2. idx'.pc = "promote" /\ idx'.todo = Tail(idx.todo)
    BY <1>0, <2>1 DEF PromoteNext, IndexerType
  <2>3. Elements(Tail(idx.todo)) \subseteq Elements(idx.todo)
    BY <1>0, <2>1, ListFacts
  <2> QED BY <1>0, <2>1, <2>2, <2>3 DEF OnNode
<1>7. CASE TickEnds \/ IndexerRpcFails \/ Restart
  <2>1. UNCHANGED <<node, everDeep>> /\ idx' = IdleIndexer
    BY <1>7 DEF TickEnds, IndexerRpcFails, Restart, IndexerUnchanged
  <2> QED BY <1>q, <2>1, EmptyList DEF IdleIndexer
<1>8. ASSUME NEW b \in Blocks, TipMoves(b) PROVE OnNode'
  <2>1. /\ idx' = idx /\ node' = b /\ Height(b) > Height(node) /\ UNCHANGED <<dbTip, indexed>>
        /\ everDeep' = everDeep \cup {d \in Deposits : DepthOn(b, d) >= ConfirmationDepth}
        /\ idx.pc = "idle" \/ BlockAt(b, Height(node)) = node
    BY <1>8 DEF TipMoves, database
  <2>2. CASE idx.pc = "idle"
    BY <1>0, <2>1, <2>2 DEF OnNode
  <2>3. CASE BlockAt(b, Height(node)) = node
    <3>1. \A h \in 0..Height(node) : BlockAt(b, h) = BlockAt(node, h)
      <4>1. Height(b) \in Nat /\ Height(node) \in 0..Height(b)
        BY <1>0, <2>1, ChainFacts
      <4> QED BY <2>3, <4>1, ChainFacts
    <3>2. dbTip # None => Height(dbTip) \in 0..Height(node)
      BY <1>0
    <3>3. idx.pc = "rollback" => idx.h \in 0..Height(node)
      BY <1>0, CursorFacts
    <3> QED BY <1>0, <2>1, <3>1, <3>2, <3>3 DEF OnNode
  <2> QED BY <2>1, <2>2, <2>3
<1>9. CASE UNCHANGED <<node, dbTip, indexed, everDeep, idx>>
  BY <1>0, <1>9 DEF OnNode
<1>10. \/ TickBegins \/ ForkPointFound \/ WalkBack \/ rollback_reorg \/ index_block
       \/ PromoteBegins \/ PromoteToFailed \/ PromoteDeferred \/ PromoteToReady
       \/ TickEnds \/ IndexerRpcFails \/ Restart \/ \E b \in Blocks : TipMoves(b)
       \/ UNCHANGED <<node, dbTip, indexed, everDeep, idx>>
  BY DEF Next, IndexerStep, OrchestratorStep, Environment, vars, TickHalted,
     AdvanceCandidate, database, IndexerUnchanged,
     OrchestratorUnchanged, MintTickBegins, mark_minted,
     verify_and_load_signable_message, SignaturesCollected, InsufficientSignatures,
     send_transaction, send_transaction_refused, mark_submitted,
     Land, Drop, MintedElsewhere, Rotate, ClockTicks,
     OrchestratorRpcFails, CorruptRow, operator_clear_integrity_halt
<1> QED
  BY <1>1, <1>2, <1>3, <1>4, <1>5, <1>6, <1>7, <1>8, <1>9, <1>10

(* A message is only ever frozen for a deposit that is deep. *)
LEMMA DepthStep ==
    ASSUME DepositInv, Still, ~shaken, [Next]_vars PROVE ClaimableOnlyAtDepth'
<1>0. TypeInv /\ Worklists /\ Releases /\ artifact \in [Rows -> Nat \cup {None}]
  BY DEF DepositInv, Still, TypeInv, TypeOK
<1>1. everDeep \subseteq everDeep'
  BY DEF Next, IndexerStep, OrchestratorStep, Environment, vars, TickHalted, TickBegins,
     ForkPointFound, WalkBack, rollback_reorg, index_block, AdvanceCandidate, PromoteBegins,
     PromoteToFailed, PromoteDeferred, PromoteToReady, TickEnds, IndexerUnchanged,
     OrchestratorUnchanged, MintTickBegins, mark_minted,
     verify_and_load_signable_message, SignaturesCollected, InsufficientSignatures,
     send_transaction, send_transaction_refused, mark_submitted,
     TipMoves, Land, Drop, MintedElsewhere, Rotate, ClockTicks,
     IndexerRpcFails, OrchestratorRpcFails, Restart, CorruptRow,
     operator_clear_integrity_halt
<1>2. CASE PromoteToReady
  <2> DEFINE h == Head(idx.todo)
  <2>1. idx.todo # <<>> /\ \E x : artifact' = [artifact EXCEPT ![h] = x]
    <3>1. idx.todo # <<>> /\ transition_state(h, "ReadyForSignature", build_claim_message)
      BY <1>2 DEF PromoteToReady, Promoting
    <3>2. artifact' = artifact \/ artifact' = [artifact EXCEPT ![h] = build_claim_message]
      BY <3>1 DEF transition_state
    <3>3. artifact = [artifact EXCEPT ![h] = artifact[h]]
      BY <1>0
    <3> QED BY <3>1, <3>2, <3>3
  <2>2. h \in Elements(idx.todo) /\ h \in Rows
    <3>1. idx.todo \in Seq(Rows)
      BY <1>0, ListFacts
    <3> DEFINE t == idx.todo
    <3> HIDE DEF t
    <3>2. t \in Seq(Rows) /\ t # <<>>
      BY <2>1, <3>1 DEF t
    <3>3. Head(t) \in Elements(t) /\ Head(t) \in Rows
      BY <3>2, ListRest
    <3> QED BY <3>3 DEF t
  <2>3. h.deposit \in everDeep
    <3>1. h.deposit \in Deposits
      BY <2>2, RowFacts
    <3> QED BY <2>2, <3>1 DEF Still, OnNode
  <2> HIDE DEF h
  <2> SUFFICES ASSUME NEW r \in Rows, artifact'[r] # None PROVE r.deposit \in everDeep
    BY <1>1 DEF ClaimableOnlyAtDepth
  <2>4. CASE r = h
    BY <2>3, <2>4
  <2>5. CASE r # h
    <3>1. artifact'[r] = artifact[r]
      BY <1>0, <2>1, <2>5
    <3> QED BY <3>1 DEF Still, ClaimableOnlyAtDepth
  <2> QED BY <2>4, <2>5
<1>3. CASE UNCHANGED artifact
  BY <1>1, <1>3 DEF Still, ClaimableOnlyAtDepth
<1>4. PromoteToReady \/ UNCHANGED artifact
  BY DEF Next, IndexerStep, OrchestratorStep, Environment, vars, TickHalted, TickBegins,
     ForkPointFound, WalkBack, rollback_reorg, index_block, AdvanceCandidate, PromoteBegins,
     PromoteToFailed, PromoteDeferred, TickEnds, IndexerUnchanged, transition_state,
     OrchestratorUnchanged, MintTickBegins, mark_minted, database,
     verify_and_load_signable_message, SignaturesCollected, InsufficientSignatures,
     send_transaction, send_transaction_refused, mark_submitted,
     TipMoves, Land, Drop, MintedElsewhere, Rotate, ClockTicks,
     IndexerRpcFails, OrchestratorRpcFails, Restart, CorruptRow,
     operator_clear_integrity_halt
<1> QED
  BY <1>2, <1>3, <1>4

(* A reorg during a tick is remembered. *)
LEMMA ShakenStays ==
    ASSUME DepositInv, [Next]_vars, shaken PROVE shaken'
  BY DEF Next, IndexerStep, OrchestratorStep, Environment, vars, TickHalted, TickBegins,
     ForkPointFound, WalkBack, rollback_reorg, index_block, AdvanceCandidate, PromoteBegins,
     PromoteToFailed, PromoteDeferred, PromoteToReady, TickEnds, IndexerUnchanged,
     OrchestratorUnchanged, MintTickBegins, mark_minted,
     verify_and_load_signable_message, SignaturesCollected, InsufficientSignatures,
     send_transaction, send_transaction_refused, mark_submitted,
     TipMoves, Land, Drop, MintedElsewhere, Rotate, ClockTicks,
     IndexerRpcFails, OrchestratorRpcFails, Restart, CorruptRow,
     operator_clear_integrity_halt

(* All of it together, as long as no reorg has fallen into a tick. *)
LEMMA StillStep == StillInv /\ [Next]_vars => StillInv'
  BY InvStep, ShakenStays, OneChainStep, OnNodeStep, DepthStep DEF StillInv, Still

(* Unless a reorg falls between two RPCs of one indexer tick, the stored   *)
(* hashes are always one chain of the block tree, across any reorgs        *)
(* between ticks, a tip that grows during them, failed ticks and restarts. *)
THEOREM IndexStaysOneChain == Spec => []IndexIsOneChain
<1>1. StillInv => IndexIsOneChain
  BY DEF StillInv, Still, IndexIsOneChain
<1> QED BY <1>1, StillInit, StillStep, PTL DEF Spec

(* And unless one does, a claim message exists only for a deposit that was *)
(* at depth ConfirmationDepth on the live chain, as deposit-flow.md says.  *)
THEOREM ClaimsOnlyAtDepth == Spec => []ClaimableAtDepthUnlessShaken
<1>1. StillInv => ClaimableAtDepthUnlessShaken
  BY DEF StillInv, Still, ClaimableAtDepthUnlessShaken
<1> QED BY <1>1, StillInit, StillStep, PTL DEF Spec

=============================================================================
