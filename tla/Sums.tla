-------------------------------- MODULE Sums --------------------------------
(***************************************************************************)
(* Sums over finite sets, for the proofs about supply, limits and books.   *)
(*                                                                         *)
(* MapThenSumSet adds up the values of an operator, and no theorem about   *)
(* an operator can be used by the provers.  SumOver adds up the values of  *)
(* a function along the same recursion, so a sum of the model becomes a    *)
(* SumOver by expanding definitions, and what is proved about SumOver for  *)
(* every function carries over.  Induction is the choice of a minimal      *)
(* counterexample among the subsets of a finite set.                       *)
(***************************************************************************)
EXTENDS Integers, FiniteSets, FiniteSetsExt, FiniteSetTheorems, TLAPS

Pick(s) == CHOOSE x \in s : TRUE

(* f gives every subset of S its sum, element after element. *)
IsSum(f, F, S) ==
    f = [s \in SUBSET S |-> IF s = {} THEN 0 ELSE F[Pick(s)] + f[s \ {Pick(s)}]]

Summing(F, S) == CHOOSE f : IsSum(f, F, S)

(* The sum of F[x] over the x in S. *)
SumOver(F, S) == Summing(F, S)[S]

-----------------------------------------------------------------------------
(* A set of subsets of a finite set has a member that includes no other:   *)
(* what the inductions below rest on.                                      *)
LEMMA MinimalSubset ==
    ASSUME NEW S, IsFiniteSet(S), NEW T, T \subseteq SUBSET S, T # {}
    PROVE  \E x \in T : \A y \in T : y \subseteq x => y = x
<1> DEFINE R == StrictSubsetOrdering(S)
<1>1. IsWellFoundedOn(R, SUBSET S)
  BY FS_StrictSubsetOrderingWellFounded, FS_FiniteSubsetsOfFinite
<1>2. \E x \in T : \A y \in T : ~ (<<y, x>> \in R)
  <2> HIDE DEF R
  <2> QED BY <1>1, WFMin
<1>3. PICK x \in T : \A y \in T : ~ (<<y, x>> \in R)
  BY <1>2
<1> QED
  BY <1>3 DEF StrictSubsetOrdering

(* The element the recursion takes next is one of the set's. *)
LEMMA Picked ==
    ASSUME NEW s, s # {}
    PROVE  Pick(s) \in s
  BY DEF Pick

(* The recursion, one step. *)
LEMMA SumStep ==
    ASSUME NEW F, NEW S, NEW f, IsSum(f, F, S), NEW s \in SUBSET S
    PROVE  f[s] = IF s = {} THEN 0 ELSE F[Pick(s)] + f[s \ {Pick(s)}]
  BY DEF IsSum

(* Two summing functions agree on the sets both are defined for. *)
LEMMA SumAgrees ==
    ASSUME NEW F, NEW S, IsFiniteSet(S), NEW T, NEW f, NEW g,
           IsSum(f, F, S), IsSum(g, F, T), NEW s, s \in SUBSET S, s \in SUBSET T
    PROVE  f[s] = g[s]
<1> DEFINE Bad == {u \in SUBSET S : u \in SUBSET T /\ f[u] # g[u]}
<1>0. SUFFICES ASSUME Bad # {} PROVE FALSE
  OBVIOUS
<1>1. PICK u \in Bad : \A y \in Bad : y \subseteq u => y = u
  <2>1. Bad \subseteq SUBSET S
    OBVIOUS
  <2> HIDE DEF Bad
  <2> QED BY <1>0, <2>1, MinimalSubset
<1>2. u # {}
  <2>1. f[{}] = 0 /\ g[{}] = 0
    BY SumStep
  <2> QED BY <1>1, <2>1
<1>3. Pick(u) \in u
  BY <1>2, Picked
<1>4. u \ {Pick(u)} \notin Bad
  BY <1>1, <1>3
<1>5. f[u \ {Pick(u)}] = g[u \ {Pick(u)}]
  BY <1>1, <1>4
<1> QED
  BY <1>1, <1>2, <1>5, SumStep

(* For a finite set the recursion defines a function. *)
LEMMA SumDefined ==
    ASSUME NEW F, NEW S, IsFiniteSet(S)
    PROVE  IsSum(Summing(F, S), F, S)
<1> DEFINE Bad == {u \in SUBSET S : ~ \E f : IsSum(f, F, u)}
<1>1. SUFFICES ASSUME Bad # {} PROVE FALSE
  <2>1. \E f : IsSum(f, F, S)
    BY <1>1
  <2> QED
    BY <2>1 DEF Summing
<1>2. PICK u \in Bad : \A y \in Bad : y \subseteq u => y = u
  <2>1. Bad \subseteq SUBSET S
    OBVIOUS
  <2> HIDE DEF Bad
  <2> QED BY <1>1, <2>1, MinimalSubset
<1> DEFINE g == [s \in SUBSET u |-> IF s = {} THEN 0
                                    ELSE F[Pick(s)] + SumOver(F, s \ {Pick(s)})]
<1>3. ASSUME NEW s \in SUBSET u, s # u
      PROVE  IsSum(Summing(F, s), F, s) /\ IsFiniteSet(s)
  <2>1. s \notin Bad
    BY <1>2, <1>3
  <2>2. \E f : IsSum(f, F, s)
    BY <1>2, <2>1
  <2>3. IsFiniteSet(s)
    BY <1>2, FS_Subset
  <2> QED
    BY <2>2, <2>3 DEF Summing
<1>4. ASSUME NEW s \in SUBSET u, s # u
      PROVE  g[s] = SumOver(F, s)
  <2>1. CASE s = {}
    <3>1. SumOver(F, s) = 0
      BY <1>3, <1>4, <2>1, SumStep DEF SumOver
    <3> QED
      BY <2>1, <3>1
  <2>2. CASE s # {}
    <3> DEFINE t == s \ {Pick(s)}
    <3>1. Pick(s) \in s
      BY <2>2, Picked
    <3>2. t \in SUBSET u /\ t # u /\ t \in SUBSET s /\ t \in SUBSET t
      BY <1>4, <3>1
    <3>3. IsSum(Summing(F, s), F, s) /\ IsFiniteSet(s) /\ IsSum(Summing(F, t), F, t)
      <4> HIDE DEF t
      <4> QED BY <1>3, <1>4, <3>2
    <3>4. Summing(F, s)[t] = SumOver(F, t)
      <4> HIDE DEF t
      <4> QED BY <3>2, <3>3, SumAgrees DEF SumOver
    <3>5. SumOver(F, s) = F[Pick(s)] + Summing(F, s)[t]
      BY <2>2, <3>3, SumStep DEF SumOver
    <3>6. g[s] = F[Pick(s)] + SumOver(F, t)
      BY <2>2
    <3> QED
      BY <3>4, <3>5, <3>6
  <2> QED
    BY <2>1, <2>2
<1>5. ASSUME NEW s \in SUBSET u
      PROVE  g[s] = IF s = {} THEN 0 ELSE F[Pick(s)] + g[s \ {Pick(s)}]
  <2>1. CASE s = {}
    BY <2>1
  <2>2. CASE s # {}
    <3> DEFINE t == s \ {Pick(s)}
    <3>1. t \in SUBSET u /\ t # u
      BY <2>2, Picked
    <3>2. g[t] = SumOver(F, t)
      <4> HIDE DEF t, g
      <4> QED BY <1>4, <3>1
    <3>3. g[s] = F[Pick(s)] + SumOver(F, t)
      BY <2>2
    <3> QED
      BY <2>2, <3>2, <3>3
  <2> QED
    BY <2>1, <2>2
<1>6. IsSum(g, F, u)
  <2>1. g = [s \in SUBSET u |-> g[s]]
    OBVIOUS
  <2> HIDE DEF g
  <2> QED
    BY <1>5, <2>1 DEF IsSum
<1> QED
  BY <1>2, <1>6

(* The equation the sum satisfies. *)
LEMMA SumEquation ==
    ASSUME NEW F, NEW S, IsFiniteSet(S)
    PROVE  /\ SumOver(F, {}) = 0
           /\ S # {} => SumOver(F, S) = F[Pick(S)] + SumOver(F, S \ {Pick(S)})
<1>1. SumOver(F, {}) = 0
  BY SumDefined, SumStep, FS_EmptySet DEF SumOver
<1>2. ASSUME S # {}
      PROVE  SumOver(F, S) = F[Pick(S)] + SumOver(F, S \ {Pick(S)})
  <2> DEFINE t == S \ {Pick(S)}
  <2>1. IsFiniteSet(t) /\ t \in SUBSET S
    BY FS_Subset
  <2>2. IsSum(Summing(F, S), F, S) /\ IsSum(Summing(F, t), F, t)
    <3> HIDE DEF t
    <3> QED BY <2>1, SumDefined
  <2>3. Summing(F, S)[t] = Summing(F, t)[t]
    <3>1. t \in SUBSET t
      OBVIOUS
    <3> DEFINE f == Summing(F, S)  g == Summing(F, t)
    <3>2. f[t] = g[t]
      <4>1. IsSum(f, F, S) /\ IsSum(g, F, t)
        BY <2>2
      <4> HIDE DEF t, f, g
      <4> QED BY <2>1, <3>1, <4>1, SumAgrees
    <3> QED BY <3>2
  <2>4. Summing(F, S)[S] = F[Pick(S)] + Summing(F, S)[t]
    BY <1>2, <2>2, SumStep
  <2> QED
    BY <2>3, <2>4 DEF SumOver
<1> QED
  BY <1>1, <1>2

(* Nothing adds up to nothing. *)
LEMMA SumEmpty == \A F : SumOver(F, {}) = 0
  BY SumEquation, FS_EmptySet

(* A sum of integers is one. *)
LEMMA SumInt ==
    ASSUME NEW F, NEW S, IsFiniteSet(S), \A x \in S : F[x] \in Int
    PROVE  SumOver(F, S) \in Int
<1> DEFINE Bad == {u \in SUBSET S : SumOver(F, u) \notin Int}
<1>0. SUFFICES ASSUME Bad # {} PROVE FALSE
  OBVIOUS
<1>1. PICK u \in Bad : \A y \in Bad : y \subseteq u => y = u
  <2>1. Bad \subseteq SUBSET S
    OBVIOUS
  <2> HIDE DEF Bad
  <2> QED BY <1>0, <2>1, MinimalSubset
<1>2. IsFiniteSet(u)
  BY <1>1, FS_Subset
<1>3. u # {}
  <2>1. SumOver(F, {}) = 0 /\ 0 \in Int
    BY SumEmpty
  <2> QED BY <1>1, <2>1, Zenon
<1>4. Pick(u) \in u /\ F[Pick(u)] \in Int
  BY <1>1, <1>3, Picked
<1>5. u \ {Pick(u)} \notin Bad
  BY <1>1, <1>4
<1>6. SumOver(F, u \ {Pick(u)}) \in Int
  BY <1>1, <1>5
<1>7. SumOver(F, u) = F[Pick(u)] + SumOver(F, u \ {Pick(u)})
  BY <1>2, <1>3, SumEquation
<1> QED
  BY <1>1, <1>4, <1>6, <1>7

(* Any element may be taken out first. *)
LEMMA SumTake ==
    ASSUME NEW F, NEW S, IsFiniteSet(S), \A x \in S : F[x] \in Int, NEW x \in S
    PROVE  /\ SumOver(F, S) = F[x] + SumOver(F, S \ {x})
           /\ SumOver(F, S \ {x}) \in Int
<1> DEFINE Good(u, y) == SumOver(F, u) = F[y] + SumOver(F, u \ {y})
           Bad == {u \in SUBSET S : \E y \in u : ~Good(u, y)}
<1>a. SumOver(F, S \ {x}) \in Int
  <2>1. IsFiniteSet(S \ {x})
    BY FS_Subset
  <2> QED BY <2>1, SumInt
<1>0. SUFFICES ASSUME Bad # {} PROVE FALSE
  <2>1. S \notin Bad
    BY <1>0
  <2>2. Good(S, x)
    <3> HIDE DEF Good
    <3> QED BY <2>1
  <2> QED BY <1>a, <2>2
<1>1. PICK u \in Bad : \A y \in Bad : y \subseteq u => y = u
  <2>1. Bad \subseteq SUBSET S
    OBVIOUS
  <2> HIDE DEF Bad
  <2> QED BY <1>0, <2>1, MinimalSubset
<1>2. PICK y \in u : ~Good(u, y)
  <2> HIDE DEF Good
  <2> QED BY <1>1
<1> DEFINE p == Pick(u)
<1>3. u \subseteq S /\ p \in u /\ y \in u
  BY <1>1, <1>2, Picked
<1>4. \A v \in SUBSET S : IsFiniteSet(v) /\ SumOver(F, v) \in Int
  <2>1. ASSUME NEW v \in SUBSET S PROVE IsFiniteSet(v) /\ SumOver(F, v) \in Int
    <3>1. IsFiniteSet(v)
      BY FS_Subset
    <3> QED BY <3>1, SumInt
  <2> QED BY <2>1
<1>5. SumOver(F, u) = F[p] + SumOver(F, u \ {p})
  BY <1>2, <1>3, <1>4, SumEquation
<1>6. p # y
  BY <1>2, <1>5
<1>7. Good(u \ {p}, y) /\ Good(u \ {y}, p)
  <2>1. u \ {p} \notin Bad /\ u \ {y} \notin Bad
    BY <1>1, <1>3
  <2> HIDE DEF Good
  <2> QED BY <1>3, <1>6, <2>1
<1>8. (u \ {p}) \ {y} = (u \ {y}) \ {p} /\ (u \ {p}) \ {y} \in SUBSET S
  BY <1>3
<1> DEFINE a == SumOver(F, u)  b == SumOver(F, u \ {p})  c == SumOver(F, u \ {y})
           d == SumOver(F, (u \ {p}) \ {y})
<1>9. a = F[p] + b /\ b = F[y] + d /\ c = F[p] + d
  BY <1>5, <1>7, <1>8
<1>10. d \in Int /\ F[p] \in Int /\ F[y] \in Int
  BY <1>3, <1>4, <1>8
<1>11. a = F[y] + c
  <2> HIDE DEF a, b, c, d, p
  <2> QED BY <1>9, <1>10
<1> QED
  BY <1>2, <1>11

(* One element more. *)
LEMMA SumAdd ==
    ASSUME NEW F, NEW S, IsFiniteSet(S), NEW x, x \notin S,
           \A y \in S \cup {x} : F[y] \in Int
    PROVE  /\ SumOver(F, S \cup {x}) = F[x] + SumOver(F, S)
           /\ SumOver(F, S) \in Int
<1>1. IsFiniteSet(S \cup {x}) /\ x \in S \cup {x} /\ (S \cup {x}) \ {x} = S
  BY FS_AddElement
<1> QED
  BY <1>1, SumTake, SumInt

(* The sum depends only on the values at the set's elements. *)
LEMMA SumSame ==
    ASSUME NEW F, NEW G, NEW S, IsFiniteSet(S), \A x \in S : F[x] = G[x]
    PROVE  SumOver(F, S) = SumOver(G, S)
<1> DEFINE Bad == {u \in SUBSET S : SumOver(F, u) # SumOver(G, u)}
<1>0. SUFFICES ASSUME Bad # {} PROVE FALSE
  OBVIOUS
<1>1. PICK u \in Bad : \A y \in Bad : y \subseteq u => y = u
  <2>1. Bad \subseteq SUBSET S
    OBVIOUS
  <2> HIDE DEF Bad
  <2> QED BY <1>0, <2>1, MinimalSubset
<1>2. IsFiniteSet(u)
  BY <1>1, FS_Subset
<1>3. u # {}
  BY <1>1, SumEmpty
<1>4. Pick(u) \in u /\ F[Pick(u)] = G[Pick(u)]
  BY <1>1, <1>3, Picked
<1>5. u \ {Pick(u)} \notin Bad
  BY <1>1, <1>4
<1>6. SumOver(F, u \ {Pick(u)}) = SumOver(G, u \ {Pick(u)})
  BY <1>1, <1>5
<1> QED
  BY <1>1, <1>2, <1>3, <1>4, <1>6, SumEquation

(* A set is summed by summing a part and the rest. *)
LEMMA SumSplit ==
    ASSUME NEW F, NEW S, IsFiniteSet(S), \A x \in S : F[x] \in Int, NEW T \in SUBSET S
    PROVE  /\ SumOver(F, S) = SumOver(F, T) + SumOver(F, S \ T)
           /\ SumOver(F, T) \in Int /\ SumOver(F, S \ T) \in Int
<1> DEFINE Good(u) == SumOver(F, S) = SumOver(F, u) + SumOver(F, S \ u)
           Bad == {u \in SUBSET S : ~Good(u)}
<1>1. \A v \in SUBSET S : IsFiniteSet(v) /\ SumOver(F, v) \in Int
  <2>1. ASSUME NEW v \in SUBSET S PROVE IsFiniteSet(v) /\ SumOver(F, v) \in Int
    <3>1. IsFiniteSet(v)
      BY FS_Subset
    <3> QED BY <3>1, SumInt
  <2> QED BY <2>1
<1>0. SUFFICES ASSUME Bad # {} PROVE FALSE
  <2>1. T \notin Bad
    BY <1>0
  <2>2. Good(T)
    <3> HIDE DEF Good
    <3> QED BY <2>1
  <2> QED BY <1>1, <2>2
<1>2. PICK u \in Bad : \A y \in Bad : y \subseteq u => y = u
  <2>1. Bad \subseteq SUBSET S
    OBVIOUS
  <2> HIDE DEF Bad
  <2> QED BY <1>0, <2>1, MinimalSubset
<1>3. u \in SUBSET S /\ ~Good(u)
  <2> HIDE DEF Good
  <2> QED BY <1>2
<1>4. u # {}
  <2>1. SumOver(F, {}) = 0 /\ S \ {} = S
    BY SumEquation
  <2>2. SumOver(F, S) = 0 + SumOver(F, S)
    BY <1>1
  <2>3. Good({})
    BY <2>1, <2>2, Zenon
  <2> QED BY <1>3, <2>3, Zenon
<1>5. PICK x \in u : TRUE
  BY <1>4
<1> DEFINE v == u \ {x}
<1>6. v \in SUBSET S /\ S \ v \in SUBSET S /\ S \ u \in SUBSET S
  BY <1>3
<1>7. Good(v)
  <2>1. v \notin Bad
    BY <1>2, <1>5
  <2> HIDE DEF Good, v
  <2> QED BY <1>6, <2>1
<1>8. SumOver(F, u) = F[x] + SumOver(F, v)
  <2>1. IsFiniteSet(u) /\ \A y \in u : F[y] \in Int
    BY <1>1, <1>3
  <2> QED BY <1>5, <2>1, SumTake
<1>9. SumOver(F, S \ v) = F[x] + SumOver(F, S \ u)
  <2>1. (S \ v) \ {x} = S \ u /\ x \in S \ v
    BY <1>3, <1>5
  <2>2. IsFiniteSet(S \ v) /\ \A y \in S \ v : F[y] \in Int
    BY <1>1, <1>6
  <2> DEFINE w == S \ v
  <2>3. IsFiniteSet(w) /\ (\A y \in w : F[y] \in Int) /\ x \in w /\ w \ {x} = S \ u
    BY <2>1, <2>2
  <2>4. SumOver(F, w) = F[x] + SumOver(F, w \ {x})
    <3> HIDE DEF w
    <3> QED BY <2>3, SumTake
  <2> QED BY <2>3, <2>4
<1>10. F[x] \in Int /\ SumOver(F, v) \in Int /\ SumOver(F, S \ u) \in Int
  BY <1>1, <1>3, <1>5, <1>6
<1> DEFINE a == SumOver(F, S)  b == SumOver(F, u)  c == SumOver(F, v)
           d == SumOver(F, S \ v)  e == SumOver(F, S \ u)
<1>11. a = c + d /\ b = F[x] + c /\ d = F[x] + e
  BY <1>7, <1>8, <1>9
<1>12. a = b + e
  <2>1. c \in Int /\ e \in Int
    BY <1>10
  <2> HIDE DEF a, b, c, d, e
  <2> QED BY <1>10, <1>11, <2>1
<1> QED
  BY <1>3, <1>12

(* What is everywhere at most as much adds up to at most as much. *)
LEMMA SumLeq ==
    ASSUME NEW F, NEW G, NEW S, IsFiniteSet(S),
           \A x \in S : F[x] \in Int /\ G[x] \in Int /\ F[x] <= G[x]
    PROVE  SumOver(F, S) <= SumOver(G, S)
<1> DEFINE Bad == {u \in SUBSET S : ~(SumOver(F, u) <= SumOver(G, u))}
<1>0. SUFFICES ASSUME Bad # {} PROVE FALSE
  OBVIOUS
<1>1. PICK u \in Bad : \A y \in Bad : y \subseteq u => y = u
  <2>1. Bad \subseteq SUBSET S
    OBVIOUS
  <2> HIDE DEF Bad
  <2> QED BY <1>0, <2>1, MinimalSubset
<1>2. IsFiniteSet(u)
  BY <1>1, FS_Subset
<1>3. u # {}
  <2>1. SumOver(F, {}) = 0 /\ SumOver(G, {}) = 0 /\ 0 <= 0
    BY SumEmpty
  <2> QED BY <1>1, <2>1, Zenon
<1>4. PICK x \in u : x \in S
  BY <1>1, <1>3
<1>5. u \ {x} \notin Bad
  BY <1>1, <1>4
<1>6. SumOver(F, u \ {x}) <= SumOver(G, u \ {x})
  BY <1>1, <1>5
<1>7. /\ SumOver(F, u) = F[x] + SumOver(F, u \ {x}) /\ SumOver(F, u \ {x}) \in Int
      /\ SumOver(G, u) = G[x] + SumOver(G, u \ {x}) /\ SumOver(G, u \ {x}) \in Int
  <2>1. \A y \in u : F[y] \in Int /\ G[y] \in Int
    BY <1>1
  <2> QED BY <1>2, <1>4, <2>1, SumTake
<1>8. ~(SumOver(F, u) <= SumOver(G, u))
  BY <1>1
<1> QED
  BY <1>4, <1>6, <1>7, <1>8

(* Of natural numbers the sum is one, and a part adds up to no more. *)
LEMMA SumNat ==
    ASSUME NEW F, NEW S, IsFiniteSet(S), \A x \in S : F[x] \in Nat, NEW T \in SUBSET S
    PROVE  /\ SumOver(F, S) \in Nat /\ SumOver(F, T) \in Nat
           /\ SumOver(F, T) <= SumOver(F, S)
<1>1. ASSUME NEW U \in SUBSET S PROVE SumOver(F, U) \in Nat
  <2> DEFINE Bad == {u \in SUBSET U : ~(SumOver(F, u) \in Nat)}
  <2>0. SUFFICES ASSUME Bad # {} PROVE FALSE
    OBVIOUS
  <2>a. IsFiniteSet(U)
    BY FS_Subset
  <2>1. PICK u \in Bad : \A y \in Bad : y \subseteq u => y = u
    <3>1. Bad \subseteq SUBSET U
      OBVIOUS
    <3> HIDE DEF Bad
    <3> QED BY <2>0, <2>a, <3>1, MinimalSubset
  <2>2. IsFiniteSet(u)
    BY <2>1, <2>a, FS_Subset
  <2>3. u # {}
    <3>1. SumOver(F, {}) = 0 /\ 0 \in Nat
      BY SumEmpty
    <3> QED BY <2>1, <3>1, Zenon
  <2>4. Pick(u) \in u /\ F[Pick(u)] \in Nat
    BY <2>1, <2>3, Picked
  <2>5. u \ {Pick(u)} \notin Bad
    BY <2>1, <2>4
  <2>6. SumOver(F, u \ {Pick(u)}) \in Nat
    BY <2>1, <2>5
  <2>7. SumOver(F, u) = F[Pick(u)] + SumOver(F, u \ {Pick(u)})
    BY <2>2, <2>3, SumEquation
  <2> QED
    BY <2>1, <2>4, <2>6, <2>7
<1>2. SumOver(F, S) \in Nat /\ SumOver(F, T) \in Nat /\ SumOver(F, S \ T) \in Nat
  <2>1. S \in SUBSET S /\ S \ T \in SUBSET S
    OBVIOUS
  <2> QED BY <1>1, <2>1
<1>3. SumOver(F, S) = SumOver(F, T) + SumOver(F, S \ T)
  <2>1. \A x \in S : F[x] \in Int
    OBVIOUS
  <2> QED BY <2>1, SumSplit
<1> QED
  BY <1>2, <1>3

(* As many terms, each no larger, add up to no more. *)
LEMMA SumExchange ==
    ASSUME NEW F, NEW A, NEW B, IsFiniteSet(A), IsFiniteSet(B), Cardinality(A) = Cardinality(B),
           \A x \in A \cup B : F[x] \in Int, \A x \in A, y \in B : F[x] <= F[y]
    PROVE  SumOver(F, A) <= SumOver(F, B)
<1> DEFINE Bad == {u \in SUBSET A : \E v \in SUBSET B :
                      Cardinality(u) = Cardinality(v) /\ ~(SumOver(F, u) <= SumOver(F, v))}
<1>0. SUFFICES ASSUME Bad # {} PROVE FALSE
  <2>1. A \in SUBSET A /\ B \in SUBSET B /\ A \notin Bad
    OBVIOUS
  <2> QED BY <2>1
<1>1. PICK u \in Bad : \A w \in Bad : w \subseteq u => w = u
  <2>1. Bad \subseteq SUBSET A
    OBVIOUS
  <2> HIDE DEF Bad
  <2> QED BY <1>0, <2>1, MinimalSubset
<1>2. PICK v \in SUBSET B : Cardinality(u) = Cardinality(v) /\ ~(SumOver(F, u) <= SumOver(F, v))
  BY <1>1
<1>3. u \in SUBSET A /\ IsFiniteSet(u) /\ IsFiniteSet(v)
  BY FS_Subset
<1>4. u # {}
  <2> SUFFICES ASSUME u = {} PROVE FALSE
    OBVIOUS
  <2>1. v = {}
    BY <1>2, <1>3, FS_EmptySet
  <2> QED BY <1>2, <2>1, SumEmpty
<1>5. v # {}
  BY <1>2, <1>3, <1>4, FS_EmptySet
<1>6. PICK x \in u : TRUE
  BY <1>4
<1>7. PICK y \in v : TRUE
  BY <1>5
<1> DEFINE s == u \ {x}  t == v \ {y}
<1>8. /\ SumOver(F, u) = F[x] + SumOver(F, s) /\ SumOver(F, s) \in Int
      /\ SumOver(F, v) = F[y] + SumOver(F, t) /\ SumOver(F, t) \in Int
  <2>1. (\A z \in u : F[z] \in Int) /\ (\A z \in v : F[z] \in Int)
    BY <1>3
  <2> QED BY <1>3, <2>1, SumTake
<1>9. Cardinality(s) = Cardinality(t)
  <2>1. Cardinality(s) = Cardinality(u) - 1
    BY <1>3, FS_RemoveElement
  <2>2. Cardinality(t) = Cardinality(v) - 1
    BY <1>3, FS_RemoveElement
  <2> QED BY <1>2, <2>1, <2>2
<1>10. s \in SUBSET A /\ t \in SUBSET B /\ s \subseteq u /\ s # u
  BY <1>3
<1> HIDE DEF s, t
<1>11. SumOver(F, s) <= SumOver(F, t)
  <2>1. s \notin Bad
    <3> HIDE DEF Bad
    <3> QED BY <1>1, <1>10
  <2> QED BY <1>9, <1>10, <2>1
<1>12. F[x] \in Int /\ F[y] \in Int /\ F[x] <= F[y]
  BY <1>3
<1> QED
  BY <1>2, <1>8, <1>11, <1>12

(* One value changes. *)
LEMMA SumChange ==
    ASSUME NEW F, NEW G, NEW S, IsFiniteSet(S), NEW x \in S,
           \A y \in S : F[y] \in Int /\ G[y] \in Int,
           \A y \in S \ {x} : F[y] = G[y]
    PROVE  /\ SumOver(G, S) = SumOver(F, S) - F[x] + G[x]
           /\ SumOver(F, S) \in Int /\ SumOver(G, S) \in Int
<1>1. IsFiniteSet(S \ {x})
  BY FS_Subset
<1>2. SumOver(F, S \ {x}) = SumOver(G, S \ {x})
  BY <1>1, SumSame
<1>3. /\ SumOver(F, S) = F[x] + SumOver(F, S \ {x}) /\ SumOver(F, S \ {x}) \in Int
      /\ SumOver(G, S) = G[x] + SumOver(G, S \ {x})
  BY SumTake
<1> QED
  BY <1>2, <1>3

(* The values of a function on finitely many arguments are finitely many. *)
LEMMA FiniteImage ==
    ASSUME NEW S, IsFiniteSet(S), NEW f, NEW T, \A y \in T : \E x \in S : y = f[x]
    PROVE  IsFiniteSet(T)
<1> DEFINE U == {x \in S : f[x] \in T}
           g == [x \in U |-> f[x]]
<1>1. g \in Surjection(U, T)
  BY DEF Surjection
<1>2. IsFiniteSet(U)
  BY FS_Subset
<1> HIDE DEF g, U
<1> QED
  BY <1>1, <1>2, FS_Surjection

-----------------------------------------------------------------------------
(* Least and greatest numbers, by the same induction.                      *)

(* Of any numbers one is the least, and Min finds it. *)
LEMMA LeastNumber ==
    ASSUME NEW S, S \subseteq Nat, S # {}
    PROVE  Min(S) \in S /\ \A y \in S : Min(S) <= y
<1>1. PICK m \in S : m \in Nat
  OBVIOUS
<1> DEFINE below(x) == {y \in S : y < x}
           T == {below(x) : x \in {z \in S : z <= m}}
<1> DEFINE I == 0..m
<1>2. T \subseteq SUBSET I /\ T # {} /\ IsFiniteSet(I)
  <2>1. ASSUME NEW x \in S, x <= m PROVE below(x) \subseteq I
    <3> SUFFICES ASSUME NEW y \in S, y < x PROVE y \in 0..m
      OBVIOUS
    <3>1. x \in Nat /\ y \in Nat /\ m \in Nat
      OBVIOUS
    <3> QED BY <2>1, <3>1
  <2>2. T \subseteq SUBSET I
    <3> HIDE DEF I, below
    <3> QED BY <2>1
  <2>3. m <= m
    BY <1>1
  <2>4. IsFiniteSet(I)
    BY <1>1, FS_Interval
  <2>5. below(m) \in T
    <3> HIDE DEF below
    <3> QED BY <2>3
  <2> QED BY <2>2, <2>4, <2>5
<1>3. PICK u \in T : \A v \in T : v \subseteq u => v = u
  <2> HIDE DEF T, I
  <2> QED BY <1>2, MinimalSubset
<1>4. PICK x \in S : x <= m /\ u = below(x)
  BY <1>3
<1>5. \A y \in S : x <= y
  <2> SUFFICES ASSUME NEW y \in S, ~(x <= y) PROVE FALSE
    OBVIOUS
  <2>0. x \in Nat /\ y \in Nat /\ m \in Nat /\ \A z \in S : z \in Nat
    OBVIOUS
  <2>1. y <= m /\ y \in below(x) /\ y \notin below(y) /\ below(y) \subseteq below(x)
    <3>1. y <= m /\ y < x /\ ~(y < y)
      BY <2>0, <1>4
    <3>2. \A z \in S : z < y => z < x
      BY <2>0, <3>1
    <3> QED BY <3>1, <3>2
  <2>2. below(y) \in T
    <3> HIDE DEF below
    <3> QED BY <2>1
  <2> HIDE DEF T, below
  <2> QED BY <1>3, <1>4, <2>1, <2>2
<1> QED
  BY <1>5 DEF Min

(* Of finitely many numbers one is the greatest, and Max finds it. *)
LEMMA GreatestNumber ==
    ASSUME NEW S, S \subseteq Nat, S # {}, IsFiniteSet(S)
    PROVE  Max(S) \in S /\ \A y \in S : y <= Max(S)
<1> DEFINE above(x) == {y \in S : y > x}
           T == {above(x) : x \in S}
<1>1. T \subseteq SUBSET S /\ T # {}
  <2>1. \A x \in S : above(x) \in SUBSET S
    OBVIOUS
  <2> HIDE DEF above
  <2> QED BY <2>1
<1>2. PICK u \in T : \A v \in T : v \subseteq u => v = u
  <2> DEFINE I == S
  <2>1. IsFiniteSet(I) /\ T \subseteq SUBSET I /\ T # {}
    BY <1>1
  <2> HIDE DEF T, I
  <2> QED BY <2>1, MinimalSubset
<1>3. PICK x \in S : u = above(x)
  BY <1>2
<1>4. \A y \in S : x >= y
  <2> SUFFICES ASSUME NEW y \in S, ~(x >= y) PROVE FALSE
    OBVIOUS
  <2>0. x \in Nat /\ y \in Nat /\ \A z \in S : z \in Nat
    OBVIOUS
  <2>1. y \in above(x) /\ y \notin above(y) /\ above(y) \subseteq above(x)
    <3>1. y > x /\ ~(y > y)
      BY <2>0
    <3>2. \A z \in S : z > y => z > x
      BY <2>0, <3>1
    <3> QED BY <3>1, <3>2
  <2>2. above(y) \in T
    <3> HIDE DEF above
    <3> QED OBVIOUS
  <2> HIDE DEF T, above
  <2> QED BY <1>2, <1>3, <2>1, <2>2
<1>5. Max(S) \in S /\ \A y \in S : Max(S) >= y
  BY <1>4 DEF Max
<1> QED
  BY <1>5
=============================================================================
