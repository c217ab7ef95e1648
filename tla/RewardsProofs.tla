--------------------------- MODULE RewardsProofs ----------------------------
(***************************************************************************)
(* The laws of finite sums, and distribute_reward, for every reward and    *)
(* every set of weighted winners: the shares are natural numbers and       *)
(* together never exceed the reward, whether or not a product saturates.   *)
(* FiniteSetInduction puts induction over a finite set into first-order    *)
(* form (a family of sets, not a predicate), from the well-foundedness of  *)
(* strict inclusion.                                                       *)
(***************************************************************************)
EXTENDS Rewards, Integers, FiniteSetTheorems, TLAPS

-----------------------------------------------------------------------------
\* Sums.

\* A family that holds {} and is closed under adding one member of the finite
\* set S holds S itself.
LEMMA FiniteSetInduction ==
  ASSUME NEW S, IsFiniteSet(S), NEW F, {} \in F,
         \A T \in SUBSET S : T \in F => \A x \in S \ T : T \cup {x} \in F
  PROVE  S \in F
<1> DEFINE Bad == {T \in SUBSET S : T \notin F}
<1>1. SUFFICES ASSUME S \notin F PROVE FALSE
  OBVIOUS
<1>2. Bad \subseteq FiniteSubsetsOf(S) /\ Bad # {}
  BY <1>1, FS_FiniteSubsetsOfFinite, FS_Subset
<1>3. IsWellFoundedOn(StrictSubsetOrdering(S), FiniteSubsetsOf(S))
  BY FS_StrictSubsetOrderingWellFounded
<1> HIDE DEF Bad
<1>4. PICK T \in Bad : \A U \in Bad : ~(<<U, T>> \in StrictSubsetOrdering(S))
  BY <1>2, <1>3, WFMin
<1> USE DEF Bad
<1>5. PICK x \in T : TRUE
  OBVIOUS
<1>6. T \ {x} \in F
  <2>1. <<T \ {x}, T>> \in (SUBSET S) \X (SUBSET S)
    OBVIOUS
  <2>2. T \ {x} \subseteq T /\ T \ {x} # T
    BY <1>5
  <2>3. <<T \ {x}, T>> \in StrictSubsetOrdering(S)
    BY <2>1, <2>2 DEF StrictSubsetOrdering
  <2>4. T \ {x} \notin Bad
    BY <1>4, <2>3
  <2>. QED BY <2>1, <2>4
<1>7. (T \ {x}) \cup {x} \in F
  BY <1>5, <1>6
<1>8. T \in F
  BY <1>7, <1>5, (T \ {x}) \cup {x} = T
<1>. QED BY <1>8

\* Only the values on S matter: the sum over S of two functions that agree on S
\* is the same.
LEMMA SumAgree ==
  ASSUME NEW S, NEW f, NEW g, \A s \in S : f[s] = g[s]
  PROVE  Sum(S, f) = Sum(S, g)
<1>1. \A s \in S : {s} \X (1..f[s]) = {s} \X (1..g[s])
  OBVIOUS
<1>2. Tokens(S, f) = Tokens(S, g)
  BY <1>1, Zenon DEF Tokens
<1>. QED BY <1>2 DEF Sum

\* The tokens of a finite set are finitely many, so a sum is a natural number.
LEMMA SumType ==
  ASSUME NEW S, IsFiniteSet(S), NEW f, \A s \in S : f[s] \in Nat
  PROVE  IsFiniteSet(Tokens(S, f)) /\ Sum(S, f) \in Nat
<1> DEFINE F == {T \in SUBSET S : IsFiniteSet(Tokens(T, f))}
<1>1. {} \in F
  <2>1. Tokens({}, f) = {}
    BY DEF Tokens
  <2>. QED BY <2>1, FS_EmptySet
<1>2. \A T \in SUBSET S : T \in F => \A x \in S \ T : T \cup {x} \in F
  <2> SUFFICES ASSUME NEW T \in SUBSET S, T \in F, NEW x \in S \ T
               PROVE  T \cup {x} \in F
    OBVIOUS
  <2>1. Tokens(T \cup {x}, f) = Tokens(T, f) \cup ({x} \X (1..f[x]))
    BY DEF Tokens
  <2>2. IsFiniteSet(1..f[x]) /\ IsFiniteSet({x})
    <3>1. 1 \in Int /\ f[x] \in Int
      OBVIOUS
    <3>2. IsFiniteSet(1..f[x])
      BY <3>1, FS_Interval
    <3>. QED BY <3>2, FS_Singleton
  <2>3. IsFiniteSet({x} \X (1..f[x]))
    BY <2>2, FS_Product
  <2>4. IsFiniteSet(Tokens(T \cup {x}, f))
    <3>1. IsFiniteSet(Tokens(T, f))
      OBVIOUS
    <3>2. IsFiniteSet(Tokens(T, f) \cup ({x} \X (1..f[x])))
      BY <3>1, <2>3, FS_Union
    <3>. QED BY <3>2, <2>1
  <2>. QED BY <2>4
<1>3. S \in F
  <2> HIDE DEF F
  <2>. QED BY <1>1, <1>2, FiniteSetInduction
<1>4. IsFiniteSet(Tokens(S, f))
  BY <1>3
<1>. QED BY <1>4, FS_CardinalityType DEF Sum

\* Nothing sums to nothing.
LEMMA SumEmpty ==
  ASSUME NEW f
  PROVE  Sum({}, f) = 0
<1>1. Tokens({}, f) = {}
  BY DEF Tokens
<1>. QED BY <1>1, FS_EmptySet DEF Sum

\* One more member adds exactly its own amount.
LEMMA SumAdd ==
  ASSUME NEW S, IsFiniteSet(S), NEW f, NEW x, x \notin S,
         f[x] \in Nat, \A s \in S : f[s] \in Nat
  PROVE  Sum(S \cup {x}, f) = Sum(S, f) + f[x]
<1>1. Tokens(S \cup {x}, f) = Tokens(S, f) \cup ({x} \X (1..f[x]))
  BY DEF Tokens
<1>2. Tokens(S, f) \cap ({x} \X (1..f[x])) = {}
  BY DEF Tokens
<1>3. /\ IsFiniteSet(1..f[x]) /\ Cardinality(1..f[x]) = f[x]
      /\ IsFiniteSet({x}) /\ Cardinality({x}) = 1
  <2>1. 1 \in Int /\ f[x] \in Int /\ f[x] >= 0
    OBVIOUS
  <2>2. IsFiniteSet(1..f[x])
        /\ Cardinality(1..f[x]) = IF 1 > f[x] THEN 0 ELSE f[x] - 1 + 1
    BY <2>1, FS_Interval
  <2>3. Cardinality(1..f[x]) = f[x]
    BY <2>1, <2>2
  <2>. QED BY <2>2, <2>3, FS_Singleton
<1>4. IsFiniteSet({x} \X (1..f[x])) /\ Cardinality({x} \X (1..f[x])) = f[x]
  <2>1. IsFiniteSet({x} \X (1..f[x]))
        /\ Cardinality({x} \X (1..f[x])) = Cardinality({x}) * Cardinality(1..f[x])
    BY <1>3, FS_Product, Zenon
  <2>2. f[x] \in Nat /\ 1 * f[x] = f[x]
    OBVIOUS
  <2>. QED BY <2>1, <2>2, <1>3
<1>5. IsFiniteSet(Tokens(S, f)) /\ Sum(S, f) \in Nat
  BY SumType
<1>6. Cardinality({}) = 0
  BY FS_EmptySet
<1>7. Cardinality(Tokens(S, f) \cup ({x} \X (1..f[x])))
        = Cardinality(Tokens(S, f)) + f[x] - 0
  BY <1>2, <1>4, <1>5, <1>6, FS_Union
<1>8. f[x] \in Nat
  OBVIOUS
<1>9. Cardinality(Tokens(S \cup {x}, f)) = Cardinality(Tokens(S, f)) + f[x] - 0
  BY <1>1, <1>7, Zenon
<1>10. Cardinality(Tokens(S, f)) \in Nat
  BY <1>5 DEF Sum
<1>. QED BY <1>8, <1>9, <1>10 DEF Sum

\* SumType and SumAdd for every part T of a finite set S: the form an induction
\* over S uses.
LEMMA SumStep ==
  ASSUME NEW S, IsFiniteSet(S), NEW f, \A s \in S : f[s] \in Nat
  PROVE  \A T \in SUBSET S :
           /\ Sum(T, f) \in Nat
           /\ \A x \in S \ T : Sum(T \cup {x}, f) = Sum(T, f) + f[x]
<1> TAKE T \in SUBSET S
<1>1. IsFiniteSet(T)
  BY FS_Subset
<1>2. \A s \in T : f[s] \in Nat
  OBVIOUS
<1>3. Sum(T, f) \in Nat
  BY <1>1, <1>2, SumType
<1>4. ASSUME NEW x \in S \ T PROVE Sum(T \cup {x}, f) = Sum(T, f) + f[x]
  <2>1. x \notin T /\ f[x] \in Nat
    OBVIOUS
  <2>. QED BY <1>1, <1>2, <2>1, SumAdd
<1>. QED BY <1>3, <1>4

\* Taking a member out takes exactly its amount out.
LEMMA SumRemove ==
  ASSUME NEW S, IsFiniteSet(S), NEW f, NEW x \in S, \A s \in S : f[s] \in Nat
  PROVE  Sum(S, f) = Sum(S \ {x}, f) + f[x]
<1>1. IsFiniteSet(S \ {x}) /\ (S \ {x}) \cup {x} = S
  BY FS_RemoveElement
<1>2. f[x] \in Nat /\ \A s \in S \ {x} : f[s] \in Nat
  OBVIOUS
<1>3. Sum((S \ {x}) \cup {x}, f) = Sum(S \ {x}, f) + f[x]
  <2>1. x \notin S \ {x}
    OBVIOUS
  <2>. QED BY <2>1, <1>1, <1>2, SumAdd
<1>. QED BY <1>1, <1>3

\* No member holds more than the whole.
LEMMA SumMember ==
  ASSUME NEW S, IsFiniteSet(S), NEW f, NEW x \in S, \A s \in S : f[s] \in Nat
  PROVE  f[x] <= Sum(S, f)
<1>1. IsFiniteSet(S \ {x})
  BY FS_RemoveElement
<1>2. Sum(S \ {x}, f) \in Nat
  BY <1>1, SumType
<1>. QED BY <1>2, SumRemove

\* A part weighs no more than the whole.
LEMMA SumMonotone ==
  ASSUME NEW S, IsFiniteSet(S), NEW f, \A s \in S : f[s] \in Nat, NEW T \in SUBSET S
  PROVE  Sum(T, f) <= Sum(S, f)
<1>1. IsFiniteSet(Tokens(S, f))
  BY SumType
<1>2. Tokens(T, f) \in SUBSET Tokens(S, f)
  BY DEF Tokens
<1>. QED BY <1>1, <1>2, FS_Subset DEF Sum

\* A sum may be taken over other names of the same things.
LEMMA SumRenamed ==
  ASSUME NEW S, IsFiniteSet(S), NEW f, NEW g, NEW h,
         \A s \in S : f[s] \in Nat /\ h[g[s]] = f[s],
         \A s, u \in S : g[s] = g[u] => s = u
  PROVE  Sum(S, f) = Sum({g[s] : s \in S}, h)
<1> DEFINE Names(T) == {g[s] : s \in T}
<1> DEFINE F == {T \in SUBSET S : IsFiniteSet(Names(T)) /\ Sum(T, f) = Sum(Names(T), h)}
<1>1. {} \in F
  <2>1. Names({}) = {}
    OBVIOUS
  <2>. QED BY <2>1, SumEmpty, FS_EmptySet
<1>2. \A T \in SUBSET S : T \in F => \A x \in S \ T : T \cup {x} \in F
  <2> SUFFICES ASSUME NEW T \in SUBSET S, T \in F, NEW x \in S \ T
               PROVE  T \cup {x} \in F
    OBVIOUS
  <2>1. Names(T \cup {x}) = Names(T) \cup {g[x]}
    OBVIOUS
  <2>2. g[x] \notin Names(T)
    OBVIOUS
  <2>3. IsFiniteSet(T) /\ IsFiniteSet(Names(T))
    BY FS_Subset
  <2>4. Sum(T \cup {x}, f) = Sum(T, f) + f[x]
    BY SumStep
  <2>5. \A y \in Names(T) : h[y] \in Nat
    OBVIOUS
  <2>6. h[g[x]] \in Nat /\ h[g[x]] = f[x]
    OBVIOUS
  <2> HIDE DEF Names
  <2>7. Sum(Names(T) \cup {g[x]}, h) = Sum(Names(T), h) + h[g[x]]
    <3> DEFINE N == Names(T)
    <3>1. IsFiniteSet(N) /\ g[x] \notin N /\ \A y \in N : h[y] \in Nat
      BY <2>2, <2>3, <2>5
    <3> HIDE DEF N
    <3>2. PICK y : y = g[x]
      OBVIOUS
    <3>3. y \notin N /\ h[y] \in Nat
      BY <2>6, <3>1, <3>2
    <3>4. Sum(N \cup {y}, h) = Sum(N, h) + h[y]
      BY <3>1, <3>3, SumAdd
    <3>. QED BY <3>2, <3>4 DEF N
  <2>8. IsFiniteSet(Names(T) \cup {g[x]})
    BY <2>3, FS_AddElement
  <2>. QED BY <2>1, <2>4, <2>6, <2>7, <2>8
<1> HIDE DEF F
<1>3. S \in F
  BY <1>1, <1>2, FiniteSetInduction
<1>. QED BY <1>3 DEF F

\* The same numbers under names of a given set.
LEMMA SumBijection ==
  ASSUME NEW S, IsFiniteSet(S), NEW T, NEW f, NEW g, NEW h,
         \A s \in S : f[s] \in Nat /\ h[g[s]] = f[s] /\ g[s] \in T,
         \A s, u \in S : g[s] = g[u] => s = u,
         \A t \in T : \E s \in S : g[s] = t
  PROVE  Sum(S, f) = Sum(T, h)
<1>1. T = {g[s] : s \in S}
  OBVIOUS
<1>2. Sum(S, f) = Sum({g[s] : s \in S}, h)
  BY SumRenamed
<1>. QED BY <1>1, <1>2

\* Who has nothing adds nothing.
LEMMA SumSupport ==
  ASSUME NEW S, NEW T \in SUBSET S, NEW f, \A s \in S \ T : f[s] = 0
  PROVE  Sum(S, f) = Sum(T, f)
<1>1. \A s \in S \ T : {s} \X (1..f[s]) = {}
  OBVIOUS
<1>2. Tokens(S, f) = Tokens(T, f)
  BY <1>1 DEF Tokens
<1>. QED BY <1>2 DEF Sum

\* More for each is more for all.
LEMMA SumPointwise ==
  ASSUME NEW S, IsFiniteSet(S), NEW f \in [S -> Nat], NEW g \in [S -> Nat],
         \A s \in S : f[s] <= g[s]
  PROVE  Sum(S, f) <= Sum(S, g)
<1>1. IsFiniteSet(Tokens(S, g))
  BY SumType
<1>2. \A s \in S : 1..f[s] \subseteq 1..g[s]
  OBVIOUS
<1>3. Tokens(S, f) \in SUBSET Tokens(S, g)
  BY <1>2 DEF Tokens
<1>. QED BY <1>1, <1>3, FS_Subset DEF Sum

\* A new value for one member.
LEMMA SumUpdate ==
  ASSUME NEW S, IsFiniteSet(S), NEW x \in S, NEW f \in [S -> Nat], NEW g \in [S -> Nat],
         \A s \in S \ {x} : g[s] = f[s]
  PROVE  Sum(S, g) = Sum(S, f) - f[x] + g[x]
<1>1. Sum(S, f) = Sum(S \ {x}, f) + f[x]
  BY SumRemove
<1>2. Sum(S, g) = Sum(S \ {x}, g) + g[x]
  BY SumRemove
<1>3. Sum(S \ {x}, g) = Sum(S \ {x}, f)
  BY SumAgree
<1>4. Sum(S \ {x}, f) \in Nat
  BY FS_Subset, SumType
<1>. QED BY <1>1, <1>2, <1>3, <1>4

-----------------------------------------------------------------------------
\* Sums of integers.

Gains(S, f) == [s \in S |-> Positive(f[s])]
Debts(S, f) == [s \in S |-> Positive(-f[s])]

LEMMA NetFacts ==
  ASSUME NEW S, IsFiniteSet(S), NEW f \in [S -> Int]
  PROVE  /\ Gains(S, f) \in [S -> Nat] /\ Debts(S, f) \in [S -> Nat]
         /\ Sum(S, Gains(S, f)) \in Nat /\ Sum(S, Debts(S, f)) \in Nat
         /\ NetSum(S, f) = Sum(S, Gains(S, f)) - Sum(S, Debts(S, f))
         /\ NetSum(S, f) \in Int
<1>1. Gains(S, f) \in [S -> Nat] /\ Debts(S, f) \in [S -> Nat]
  BY DEF Gains, Debts, Positive
<1>2. Sum(S, Gains(S, f)) \in Nat /\ Sum(S, Debts(S, f)) \in Nat
  BY <1>1, SumType
<1>3. NetSum(S, f) = Sum(S, Gains(S, f)) - Sum(S, Debts(S, f))
  BY DEF NetSum, Gains, Debts
<1>. QED BY <1>1, <1>2, <1>3

\* A new balance for one member.
LEMMA NetUpdate ==
  ASSUME NEW S, IsFiniteSet(S), NEW x \in S, NEW f \in [S -> Int], NEW g \in [S -> Int],
         \A s \in S \ {x} : g[s] = f[s]
  PROVE  NetSum(S, g) = NetSum(S, f) - f[x] + g[x]
<1>1. /\ Gains(S, f) \in [S -> Nat] /\ Gains(S, g) \in [S -> Nat]
      /\ Debts(S, f) \in [S -> Nat] /\ Debts(S, g) \in [S -> Nat]
  BY NetFacts
<1>2. \A s \in S \ {x} : /\ Gains(S, g)[s] = Gains(S, f)[s]
                         /\ Debts(S, g)[s] = Debts(S, f)[s]
  BY DEF Gains, Debts
<1>3. Sum(S, Gains(S, g)) = Sum(S, Gains(S, f)) - Gains(S, f)[x] + Gains(S, g)[x]
  BY <1>1, <1>2, SumUpdate
<1>4. Sum(S, Debts(S, g)) = Sum(S, Debts(S, f)) - Debts(S, f)[x] + Debts(S, g)[x]
  BY <1>1, <1>2, SumUpdate
<1>5. /\ f[x] = Gains(S, f)[x] - Debts(S, f)[x]
      /\ g[x] = Gains(S, g)[x] - Debts(S, g)[x]
  BY DEF Gains, Debts, Positive
<1>6. /\ Gains(S, f)[x] \in Nat /\ Gains(S, g)[x] \in Nat
      /\ Debts(S, f)[x] \in Nat /\ Debts(S, g)[x] \in Nat
  BY <1>1
<1>7. /\ NetSum(S, f) = Sum(S, Gains(S, f)) - Sum(S, Debts(S, f))
      /\ NetSum(S, g) = Sum(S, Gains(S, g)) - Sum(S, Debts(S, g))
      /\ Sum(S, Gains(S, f)) \in Nat /\ Sum(S, Debts(S, f)) \in Nat
  BY NetFacts
<1>. QED BY <1>3, <1>4, <1>5, <1>6, <1>7

\* No balance is greater, nor is their sum.
LEMMA NetPointwise ==
  ASSUME NEW S, IsFiniteSet(S), NEW f \in [S -> Int], NEW g \in [S -> Int],
         \A s \in S : f[s] <= g[s]
  PROVE  NetSum(S, f) <= NetSum(S, g)
<1>1. /\ \A s \in S : Gains(S, f)[s] <= Gains(S, g)[s]
      /\ \A s \in S : Debts(S, g)[s] <= Debts(S, f)[s]
  BY DEF Gains, Debts, Positive
<1>2. /\ Sum(S, Gains(S, f)) <= Sum(S, Gains(S, g))
      /\ Sum(S, Debts(S, g)) <= Sum(S, Debts(S, f))
  BY <1>1, NetFacts, SumPointwise
<1>. QED BY <1>2, NetFacts

\* Credits add up.
LEMMA NetCredited ==
  ASSUME NEW S, IsFiniteSet(S), NEW f \in [S -> Int], NEW c \in [S -> Nat]
  PROVE  NetSum(S, [s \in S |-> f[s] + c[s]]) = NetSum(S, f) + Sum(S, c)
<1> DEFINE g(T) == [s \in S |-> IF s \in T THEN f[s] + c[s] ELSE f[s]]
<1> DEFINE F == {T \in SUBSET S : NetSum(S, g(T)) = NetSum(S, f) + Sum(T, c)}
<1>1. {} \in F
  <2>1. g({}) = f
    OBVIOUS
  <2>2. NetSum(S, f) \in Int /\ Sum({}, c) = 0
    BY NetFacts, SumEmpty
  <2>3. NetSum(S, f) = NetSum(S, f) + Sum({}, c)
    BY <2>2
  <2>. QED BY <2>1, <2>3
<1>2. \A T \in SUBSET S : T \in F => \A x \in S \ T : T \cup {x} \in F
  <2> SUFFICES ASSUME NEW T \in SUBSET S, T \in F, NEW x \in S \ T
               PROVE  T \cup {x} \in F
    OBVIOUS
  <2>1. PICK h, k : h = g(T) /\ k = g(T \cup {x})
    OBVIOUS
  <2>2. /\ h \in [S -> Int] /\ k \in [S -> Int]
        /\ h[x] = f[x] /\ k[x] = f[x] + c[x] /\ f[x] + c[x] \in Int
        /\ \A s \in S \ {x} : k[s] = h[s]
    BY <2>1
  <2>3. NetSum(S, k) = NetSum(S, h) - h[x] + k[x]
    BY <2>2, NetUpdate
  <2>4. Sum(T \cup {x}, c) = Sum(T, c) + c[x] /\ Sum(T, c) \in Nat /\ c[x] \in Nat
    BY SumStep
  <2>5. NetSum(S, h) = NetSum(S, f) + Sum(T, c) /\ NetSum(S, f) \in Int
    BY <2>1, NetFacts
  <2>6. NetSum(S, k) = NetSum(S, f) + Sum(T \cup {x}, c)
    <3>1. f[x] \in Int
      OBVIOUS
    <3>. QED BY <2>2, <2>3, <2>4, <2>5, <3>1
  <2>. QED BY <2>1, <2>6
<1>3. S \in F
  <2> HIDE DEF F
  <2>. QED BY <1>1, <1>2, FiniteSetInduction
<1>4. g(S) = [s \in S |-> f[s] + c[s]]
  OBVIOUS
<1>. QED BY <1>3, <1>4

-----------------------------------------------------------------------------
\* Shares.

USE MaxU64Assumption

\* The sum of a pointwise sum.
LEMMA SumPlus ==
  ASSUME NEW S, IsFiniteSet(S), NEW f, NEW g, NEW h,
         \A s \in S : f[s] \in Nat /\ g[s] \in Nat /\ h[s] = f[s] + g[s]
  PROVE  Sum(S, h) = Sum(S, f) + Sum(S, g)
<1> DEFINE F == {T \in SUBSET S : Sum(T, h) = Sum(T, f) + Sum(T, g)}
<1>1. {} \in F
  BY SumEmpty
<1>5. \A T \in SUBSET S :
       /\ Sum(T, f) \in Nat
       /\ \A x \in S \ T : Sum(T \cup {x}, f) = Sum(T, f) + f[x]
  BY SumStep
<1>6. \A T \in SUBSET S :
       /\ Sum(T, g) \in Nat
       /\ \A x \in S \ T : Sum(T \cup {x}, g) = Sum(T, g) + g[x]
  BY SumStep
<1>7. \A T \in SUBSET S :
       /\ Sum(T, h) \in Nat
       /\ \A x \in S \ T : Sum(T \cup {x}, h) = Sum(T, h) + h[x]
  BY SumStep
<1>2. \A T \in SUBSET S : T \in F => \A x \in S \ T : T \cup {x} \in F
  <2> SUFFICES ASSUME NEW T \in SUBSET S, T \in F, NEW x \in S \ T
               PROVE  Sum(T \cup {x}, h) = Sum(T \cup {x}, f) + Sum(T \cup {x}, g)
    OBVIOUS
  <2>5. Sum(T \cup {x}, h) = Sum(T, h) + h[x]
    BY <1>7
  <2>6. Sum(T \cup {x}, f) = Sum(T, f) + f[x] /\ Sum(T, f) \in Nat
    BY <1>5
  <2>7. Sum(T \cup {x}, g) = Sum(T, g) + g[x] /\ Sum(T, g) \in Nat
    BY <1>6
  <2>8. Sum(T, h) = Sum(T, f) + Sum(T, g)
    OBVIOUS
  <2>9. f[x] \in Nat /\ g[x] \in Nat /\ h[x] = f[x] + g[x]
    OBVIOUS
  <2>. QED BY <2>5, <2>6, <2>7, <2>8, <2>9
<1>3. S \in F
  <2> HIDE DEF F
  <2>. QED BY <1>1, <1>2, FiniteSetInduction
<1>. QED BY <1>3

\* The sum of a 0/1 function counts the members where it is 1.
LEMMA SumIndicator ==
  ASSUME NEW S, IsFiniteSet(S), NEW f, \A s \in S : f[s] \in {0, 1}
  PROVE  Sum(S, f) = Cardinality({s \in S : f[s] = 1})
<1> DEFINE F == {T \in SUBSET S : Sum(T, f) = Cardinality({s \in T : f[s] = 1})}
<1>1. {} \in F
  <2>1. {s \in {} : f[s] = 1} = {}
    OBVIOUS
  <2>. QED BY <2>1, SumEmpty, FS_EmptySet
<1>2. \A T \in SUBSET S : T \in F => \A x \in S \ T : T \cup {x} \in F
  <2> SUFFICES ASSUME NEW T \in SUBSET S, T \in F, NEW x \in S \ T
               PROVE  Sum(T \cup {x}, f) = Cardinality({s \in T \cup {x} : f[s] = 1})
    OBVIOUS
  <2> DEFINE One(U) == {s \in U : f[s] = 1}
  <2>1. IsFiniteSet(T) /\ x \notin T /\ f[x] \in Nat /\ \A s \in T : f[s] \in Nat
    BY FS_Subset
  <2>2. Sum(T \cup {x}, f) = Sum(T, f) + f[x]
    BY <2>1, SumAdd
  <2>3. IsFiniteSet(One(T)) /\ Cardinality(One(T)) \in Nat
    <3>1. One(T) \in SUBSET T
      OBVIOUS
    <3>2. IsFiniteSet(One(T))
      BY <2>1, <3>1, FS_Subset
    <3>. QED BY <3>2, FS_CardinalityType
  <2>4. CASE f[x] = 1
    <3>1. One(T \cup {x}) = One(T) \cup {x} /\ x \notin One(T)
      BY <2>1, <2>4
    <3> HIDE DEF One
    <3>2. Cardinality(One(T) \cup {x}) = Cardinality(One(T)) + 1
      BY <2>3, <3>1, FS_AddElement, Zenon
    <3>3. Sum(T, f) = Cardinality(One(T))
      BY DEF One
    <3>4. Cardinality(One(T \cup {x})) = Sum(T, f) + 1
      BY <3>1, <3>2, <3>3, Zenon
    <3>5. Sum(T \cup {x}, f) = Sum(T, f) + 1
      BY <2>2, <2>4
    <3>. QED BY <3>4, <3>5 DEF One
  <2>5. CASE f[x] = 0
    <3>1. One(T \cup {x}) = One(T)
      BY <2>5
    <3>2. Sum(T \cup {x}, f) = Sum(T, f)
      BY <2>2, <2>3, <2>5
    <3>. QED BY <3>1, <3>2
  <2>. QED BY <2>4, <2>5
<1>3. S \in F
  <2> HIDE DEF F
  <2>. QED BY <1>1, <1>2, FiniteSetInduction
<1>. QED BY <1>3

\* A proportion that holds of every member holds of the sums.
LEMMA SumScale ==
  ASSUME NEW S, IsFiniteSet(S), NEW f, NEW g, NEW k \in Nat, NEW t \in Nat,
         \A s \in S : f[s] \in Nat, \A s \in S : g[s] \in Nat,
         \A s \in S : f[s] * t <= k * g[s]
  PROVE  Sum(S, f) * t <= k * Sum(S, g)
<1> DEFINE F == {T \in SUBSET S : Sum(T, f) * t <= k * Sum(T, g)}
<1>1. {} \in F
  <2>1. Sum({}, f) = 0 /\ Sum({}, g) = 0
    BY SumEmpty, Zenon
  <2>2. 0 * t = 0 /\ k * 0 = 0
    OBVIOUS
  <2>. QED BY <2>1, <2>2
<1>2. \A T \in SUBSET S :
        /\ Sum(T, f) \in Nat
        /\ \A x \in S \ T : Sum(T \cup {x}, f) = Sum(T, f) + f[x]
  BY SumStep
<1>3. \A T \in SUBSET S :
        /\ Sum(T, g) \in Nat
        /\ \A x \in S \ T : Sum(T \cup {x}, g) = Sum(T, g) + g[x]
  BY SumStep
<1>4. \A T \in SUBSET S : T \in F => \A x \in S \ T : T \cup {x} \in F
  <2> SUFFICES ASSUME NEW T \in SUBSET S, T \in F, NEW x \in S \ T
               PROVE  Sum(T \cup {x}, f) * t <= k * Sum(T \cup {x}, g)
    OBVIOUS
  <2>1. ASSUME NEW p \in Nat, NEW q \in Nat, NEW r \in Nat, NEW s \in Nat,
               p * t <= k * r, q * t <= k * s
        PROVE  (p + q) * t <= k * (r + s)
    <3>1. (p + q) * t = p * t + q * t /\ k * (r + s) = k * r + k * s
      OBVIOUS
    <3>. QED BY <2>1, <3>1
  <2>2. Sum(T, f) \in Nat /\ Sum(T \cup {x}, f) = Sum(T, f) + f[x]
    BY <1>2
  <2>3. Sum(T, g) \in Nat /\ Sum(T \cup {x}, g) = Sum(T, g) + g[x]
    BY <1>3
  <2>4. Sum(T, f) * t <= k * Sum(T, g)
    OBVIOUS
  <2>5. f[x] \in Nat /\ g[x] \in Nat /\ f[x] * t <= k * g[x]
    OBVIOUS
  <2>. QED BY <2>1, <2>2, <2>3, <2>4, <2>5, Zenon
<1>5. S \in F
  <2> HIDE DEF F
  <2>. QED BY <1>1, <1>4, FiniteSetInduction
<1>. QED BY <1>5

\* A positive factor cancels.
LEMMA CancelFactor ==
  ASSUME NEW p \in Nat, NEW q \in Nat, NEW t \in Nat \ {0}, p * t <= q * t
  PROVE  p <= q
<1> SUFFICES ASSUME p >= q + 1 PROVE FALSE
  OBVIOUS
<1>1. PICK k \in Nat : p = q + 1 + k
  <2>1. p - q - 1 \in Nat /\ p = q + 1 + (p - q - 1)
    OBVIOUS
  <2>. QED BY <2>1
<1>2. p * t = q * t + t + k * t /\ k * t \in Nat /\ q * t \in Nat
  BY <1>1
<1>. QED BY <1>2

\* The hypotheses of the results below: a nonempty finite set of winners, the
\* positions of their reports, with positive weights.
Weights(w) ==
  /\ IsFiniteSet(DOMAIN w)
  /\ DOMAIN w # {}
  /\ DOMAIN w \subseteq Nat
  /\ \A i \in DOMAIN w : w[i] \in Nat \ {0}

\* The total weight is positive.
LEMMA TotalWeightPositive ==
  ASSUME NEW w, Weights(w)
  PROVE  TotalWeight(w) \in Nat \ {0}
<1>1. PICK i \in DOMAIN w : TRUE
  BY DEF Weights
<1>2. IsFiniteSet(DOMAIN w) /\ \A s \in DOMAIN w : w[s] \in Nat
  BY DEF Weights
<1>3. Sum(DOMAIN w, w) \in Nat
  BY <1>2, SumType
<1>4. w[i] <= Sum(DOMAIN w, w)
  BY <1>1, <1>2, SumMember
<1>5. w[i] \in Nat \ {0}
  BY <1>1 DEF Weights
<1>. QED BY <1>3, <1>4, <1>5 DEF TotalWeight

\* A base share is a natural number, and no more than the winner's proportion.
LEMMA BaseShareBound ==
  ASSUME NEW w, Weights(w), NEW reward \in Nat, NEW i \in DOMAIN w
  PROVE  /\ BaseShare(reward, w, i) \in Nat
         /\ BaseShare(reward, w, i) * TotalWeight(w) <= reward * w[i]
<1> DEFINE T == TotalWeight(w)
<1> DEFINE P == SatMul(reward, w[i])
<1>1. T \in Nat \ {0}
  BY TotalWeightPositive
<1>2. reward * w[i] \in Nat
  <2>1. w[i] \in Nat
    BY DEF Weights
  <2>. QED BY <2>1
<1>3. P \in Nat /\ P <= reward * w[i]
  BY <1>2 DEF SatMul, Saturated
<1> HIDE DEF T, P
<1>4. P \div T \in Nat /\ (P \div T) * T <= P
  BY <1>1, <1>3
<1>5. (P \div T) * T <= reward * w[i]
  <2>1. (P \div T) * T \in Nat
    BY <1>1, <1>4
  <2>. QED BY <1>2, <1>3, <1>4, <2>1
<1>. QED BY <1>4, <1>5 DEF BaseShare, T, P

\* The base shares together do not exceed the reward.
LEMMA BaseSharesBound ==
  ASSUME NEW w, Weights(w), NEW reward \in Nat
  PROVE  /\ Sum(DOMAIN w, BaseShares(reward, w)) \in Nat
         /\ Sum(DOMAIN w, BaseShares(reward, w)) <= reward
<1> DEFINE T == TotalWeight(w)
<1> DEFINE b == BaseShares(reward, w)
<1> DEFINE W == DOMAIN w
<1>1. IsFiniteSet(W) /\ \A i \in W : w[i] \in Nat
  BY DEF Weights
<1>2. /\ \A i \in W : b[i] \in Nat
      /\ \A i \in W : b[i] * T <= reward * w[i]
  BY BaseShareBound DEF BaseShares
<1>3. T \in Nat \ {0} /\ T \in Nat /\ Sum(W, w) = T
  BY TotalWeightPositive DEF TotalWeight
<1> HIDE DEF T, b, W
<1>4. Sum(W, b) * T <= reward * Sum(W, w)
  BY <1>1, <1>2, <1>3, SumScale
<1>5. Sum(W, b) \in Nat
  BY <1>1, <1>2, SumType
<1>6. Sum(W, b) <= reward
  BY <1>3, <1>4, <1>5, CancelFactor
<1>. QED BY <1>5, <1>6 DEF b, W

-----------------------------------------------------------------------------
\* The remainder.

\* A rank is a natural number below the number of winners, and no two winners
\* have the same rank: the sort puts them in one line.
LEMMA RankInjective ==
  ASSUME NEW w, Weights(w)
  PROVE  /\ \A i \in DOMAIN w : Rank(w, i) \in 0..(Cardinality(DOMAIN w) - 1)
         /\ \A i, j \in DOMAIN w : Rank(w, i) = Rank(w, j) => i = j
<1> DEFINE Ahead(i) == {j \in DOMAIN w : Before(w, j, i)}
<1>1. IsFiniteSet(DOMAIN w) /\ DOMAIN w \subseteq Nat
      /\ \A i \in DOMAIN w : w[i] \in Nat
  BY DEF Weights
<1>2. \A i \in DOMAIN w : IsFiniteSet(Ahead(i)) /\ Cardinality(Ahead(i)) \in Nat
  <2> TAKE i \in DOMAIN w
  <2>1. Ahead(i) \in SUBSET DOMAIN w
    OBVIOUS
  <2>2. IsFiniteSet(Ahead(i))
    BY <1>1, <2>1, FS_Subset
  <2>. QED BY <2>2, FS_CardinalityType
<1>3. \A i, j, k \in DOMAIN w :
        /\ ~Before(w, i, i)
        /\ Before(w, k, i) /\ Before(w, i, j) => Before(w, k, j)
        /\ i # j => Before(w, i, j) \/ Before(w, j, i)
  BY <1>1 DEF Before
<1>4. ASSUME NEW i \in DOMAIN w, NEW j \in DOMAIN w, Before(w, i, j)
      PROVE  Cardinality(Ahead(i)) < Cardinality(Ahead(j))
  <2>1. Ahead(i) \in SUBSET Ahead(j)
    BY <1>3, <1>4
  <2>2. i \in Ahead(j) /\ i \notin Ahead(i)
    BY <1>3, <1>4
  <2>3. Ahead(i) # Ahead(j)
    BY <2>2
  <2> HIDE DEF Ahead
  <2>4. IsFiniteSet(Ahead(j)) /\ Cardinality(Ahead(i)) \in Nat
        /\ Cardinality(Ahead(j)) \in Nat
    BY <1>2
  <2>5. /\ Cardinality(Ahead(i)) <= Cardinality(Ahead(j))
        /\ Cardinality(Ahead(j)) = Cardinality(Ahead(i)) => Ahead(j) = Ahead(i)
    BY <2>1, <2>4, FS_Subset, Zenon
  <2>. QED BY <2>3, <2>4, <2>5
<1>5. \A i, j \in DOMAIN w : Rank(w, i) = Rank(w, j) => i = j
  <2> SUFFICES ASSUME NEW i \in DOMAIN w, NEW j \in DOMAIN w, i # j
               PROVE  Cardinality(Ahead(i)) # Cardinality(Ahead(j))
    BY DEF Rank
  <2>1. Cardinality(Ahead(i)) \in Nat /\ Cardinality(Ahead(j)) \in Nat
    BY <1>2
  <2>2. Before(w, i, j) \/ Before(w, j, i)
    BY <1>3
  <2>3. \/ Cardinality(Ahead(i)) < Cardinality(Ahead(j))
        \/ Cardinality(Ahead(j)) < Cardinality(Ahead(i))
    BY <1>4, <2>2
  <2> HIDE DEF Ahead
  <2>. QED BY <2>1, <2>3
<1>6. ASSUME NEW i \in DOMAIN w
      PROVE  Rank(w, i) \in 0..(Cardinality(DOMAIN w) - 1)
  <2>1. Ahead(i) \in SUBSET DOMAIN w /\ i \notin Ahead(i)
    BY <1>3
  <2>2. Ahead(i) # DOMAIN w
    BY <2>1
  <2>3. Cardinality(DOMAIN w) \in Nat
    BY <1>1, FS_CardinalityType
  <2>4. Cardinality(Ahead(i)) \in Nat
    BY <1>2
  <2> HIDE DEF Ahead
  <2>5. /\ Cardinality(Ahead(i)) <= Cardinality(DOMAIN w)
        /\ Cardinality(DOMAIN w) = Cardinality(Ahead(i)) => DOMAIN w = Ahead(i)
    BY <1>1, <2>1, FS_Subset, Zenon
  <2>6. Cardinality(Ahead(i)) \in 0..(Cardinality(DOMAIN w) - 1)
    BY <2>2, <2>3, <2>4, <2>5
  <2>. QED BY <2>6 DEF Rank, Ahead
<1>. QED BY <1>5, <1>6

\* At most n winners stand before place n, and exactly n if there are that many.
LEMMA RanksBelow ==
  ASSUME NEW w, Weights(w), NEW n \in Nat
  PROVE  LET P == {i \in DOMAIN w : Rank(w, i) < n}
         IN  /\ Cardinality(P) <= n
             /\ n <= Cardinality(DOMAIN w) => Cardinality(P) = n
<1> DEFINE W == DOMAIN w
<1> DEFINE P == {i \in W : Rank(w, i) < n}
<1> DEFINE r == [i \in W |-> Rank(w, i)]
<1> DEFINE q == [i \in P |-> Rank(w, i)]
<1> DEFINE m == Cardinality(W)
<1>1. /\ \A i \in W : Rank(w, i) \in 0..(m - 1)
      /\ \A i, j \in W : Rank(w, i) = Rank(w, j) => i = j
  BY RankInjective
<1>2. IsFiniteSet(W) /\ m \in Nat
  BY FS_CardinalityType DEF Weights
<1> HIDE DEF m
<1>3. /\ IsFiniteSet(0..(n - 1)) /\ Cardinality(0..(n - 1)) = n
      /\ IsFiniteSet(0..(m - 1)) /\ Cardinality(0..(m - 1)) = m
  <2>1. 0 \in Int /\ n - 1 \in Int /\ m - 1 \in Int /\ n >= 0 /\ m >= 0
    BY <1>2
  <2>2. /\ IsFiniteSet(0..(n - 1))
        /\ Cardinality(0..(n - 1)) = IF 0 > n - 1 THEN 0 ELSE n - 1 - 0 + 1
    BY <2>1, FS_Interval
  <2>3. /\ IsFiniteSet(0..(m - 1))
        /\ Cardinality(0..(m - 1)) = IF 0 > m - 1 THEN 0 ELSE m - 1 - 0 + 1
    BY <2>1, FS_Interval
  <2>. QED BY <1>2, <2>2, <2>3
<1>4. q \in Injection(P, 0..(n - 1))
  <2>1. q \in [P -> 0..(n - 1)]
    BY <1>1
  <2>. QED BY <1>1, <2>1 DEF Injection, IsInjective
<1>5. /\ Cardinality(P) <= Cardinality(0..(n - 1))
      /\ Cardinality(P) = Cardinality(0..(n - 1)) <=> q \in Surjection(P, 0..(n - 1))
  BY <1>3, <1>4, FS_Injection
<1>6. ASSUME n <= m PROVE q \in Surjection(P, 0..(n - 1))
  <2>1. r \in Injection(W, 0..(m - 1))
    <3>1. r \in [W -> 0..(m - 1)]
      BY <1>1
    <3>. QED BY <1>1, <3>1 DEF Injection, IsInjective
  <2>2. Cardinality(W) = Cardinality(0..(m - 1)) <=> r \in Surjection(W, 0..(m - 1))
    BY <1>3, <2>1, FS_Injection
  <2>3. r \in Surjection(W, 0..(m - 1))
    BY <1>3, <2>2 DEF m
  <2>4. \A k \in 0..(m - 1) : \E i \in W : Rank(w, i) = k
    BY <2>3 DEF Surjection
  <2>5. \A k \in 0..(n - 1) : \E i \in P : Rank(w, i) = k
    BY <1>2, <1>6, <2>4
  <2>. QED BY <1>4, <2>5 DEF Injection, Surjection
<1>. QED BY <1>3, <1>5, <1>6 DEF m

\* distribute_reward pays natural shares that together do not exceed the reward,
\* even when a product saturates at the largest u64.
THEOREM SharesBound ==
  ASSUME NEW w, Weights(w), NEW reward \in Nat
  PROVE  /\ \A i \in DOMAIN w : Shares(reward, w)[i] \in Nat
         /\ Sum(DOMAIN w, Shares(reward, w)) \in Nat
         /\ Sum(DOMAIN w, Shares(reward, w)) <= reward
<1> DEFINE W == DOMAIN w
<1> DEFINE b == BaseShares(reward, w)
<1> DEFINE rem == Remainder(reward, w)
<1> DEFINE e == [i \in W |-> IF Rank(w, i) < rem THEN 1 ELSE 0]
<1> DEFINE P == {i \in W : Rank(w, i) < rem}
<1>1. Sum(W, b) \in Nat /\ Sum(W, b) <= reward
  BY BaseSharesBound
<1>2. rem = reward - Sum(W, b) /\ rem \in Nat
  BY <1>1 DEF Remainder, SatSub
<1>3. \A i \in W : b[i] \in Nat
  BY BaseShareBound DEF BaseShares
<1>4. \A i \in W : e[i] \in {0, 1} /\ Shares(reward, w)[i] = b[i] + e[i]
  BY DEF Shares, BaseShares
<1>5. IsFiniteSet(W)
  BY DEF Weights
<1>6. Cardinality(P) <= rem
  BY <1>2, RanksBelow
<1>7. Sum(W, e) = Cardinality({i \in W : e[i] = 1})
  BY <1>4, <1>5, SumIndicator
<1>8. {i \in W : e[i] = 1} = P
  OBVIOUS
<1>9. Sum(W, e) \in Nat
  <2>1. \A i \in W : e[i] \in Nat
    BY <1>4
  <2>. QED BY <1>5, <2>1, SumType
<1> HIDE DEF b, rem, e, P
<1>10. Sum(W, e) <= rem
  BY <1>6, <1>7, <1>8
<1>11. \A i \in W : b[i] \in Nat /\ e[i] \in Nat
                      /\ Shares(reward, w)[i] = b[i] + e[i]
  BY <1>3, <1>4
<1>12. Sum(W, Shares(reward, w)) = Sum(W, b) + Sum(W, e)
  BY <1>5, <1>11, SumPlus
<1>13. \A i \in W : Shares(reward, w)[i] \in Nat
  BY <1>11
<1>. QED BY <1>1, <1>2, <1>9, <1>10, <1>12, <1>13

\* Counting by a constant 1.
LEMMA SumOnes ==
  ASSUME NEW S, IsFiniteSet(S), NEW f, \A s \in S : f[s] = 1
  PROVE  Sum(S, f) = Cardinality(S)
<1>1. \A s \in S : f[s] \in {0, 1}
  OBVIOUS
<1>2. Sum(S, f) = Cardinality({s \in S : f[s] = 1})
  BY <1>1, SumIndicator
<1>3. {s \in S : f[s] = 1} = S
  OBVIOUS
<1>. QED BY <1>2, <1>3

\* Rounding loses less than one token per winner, as long as no product
\* saturates.
LEMMA RemainderBound ==
  ASSUME NEW w, Weights(w), NEW reward \in Nat,
         \A i \in DOMAIN w : reward * w[i] <= MaxU64
  PROVE  Remainder(reward, w) <= Cardinality(DOMAIN w)
<1> DEFINE T == TotalWeight(w)
<1> DEFINE W == DOMAIN w
<1> DEFINE b == BaseShares(reward, w)
<1> DEFINE one == [i \in W |-> 1]
<1> DEFINE c == [i \in W |-> b[i] + one[i]]
<1>1. IsFiniteSet(W) /\ \A i \in W : w[i] \in Nat
  BY DEF Weights
<1>2. T \in Nat \ {0} /\ T \in Nat /\ Sum(W, w) = T
  BY TotalWeightPositive DEF TotalWeight
<1>3. \A i \in W : b[i] \in Nat
  BY BaseShareBound DEF BaseShares
<1>4. \A i \in W : w[i] * reward <= T * c[i]
  <2> TAKE i \in W
  <2>1. b[i] = (reward * w[i]) \div T
    <3>1. SatMul(reward, w[i]) = reward * w[i]
      <4>1. reward * w[i] \in Nat /\ reward * w[i] <= MaxU64
        BY <1>1
      <4>. QED BY <4>1 DEF SatMul, Saturated
    <3>. QED BY <3>1 DEF BaseShares, BaseShare
  <2>2. c[i] = b[i] + 1
    OBVIOUS
  <2>3. reward * w[i] \in Nat
    BY <1>1
  <2>4. ASSUME NEW n \in Nat PROVE n <= T * ((n \div T) + 1)
    <3> HIDE DEF T
    <3>1. n = T * (n \div T) + (n % T) /\ n % T \in 0..(T - 1) /\ n \div T \in Nat
      BY <1>2
    <3>2. T * ((n \div T) + 1) = T * (n \div T) + T
      BY <1>2, <3>1
    <3>3. T * (n \div T) \in Nat
      BY <1>2, <3>1
    <3>. QED BY <1>2, <3>1, <3>2, <3>3
  <2>5. reward * w[i] = w[i] * reward
    BY <1>1
  <2> HIDE DEF T, b, c
  <2>6. reward * w[i] <= T * (((reward * w[i]) \div T) + 1)
    BY <2>3, <2>4
  <2>. QED BY <2>1, <2>2, <2>5, <2>6
<1>5. \A i \in W : c[i] \in Nat /\ one[i] = 1
  BY <1>3
<1>6. \A i \in W : b[i] \in Nat /\ one[i] \in Nat /\ c[i] = b[i] + one[i]
  BY <1>3
<1>7. Sum(W, b) \in Nat /\ Sum(W, b) <= reward /\ Remainder(reward, w) = reward - Sum(W, b)
  BY BaseSharesBound DEF Remainder, SatSub
<1> HIDE DEF T, b, c, one
<1>8. Sum(W, w) * reward <= T * Sum(W, c)
  <2>1. \A i \in W : c[i] \in Nat
    BY <1>5
  <2>. QED BY <1>1, <1>2, <1>4, <2>1, SumScale
<1>9. Sum(W, c) = Sum(W, b) + Sum(W, one)
  BY <1>1, <1>6, SumPlus
<1>10. Sum(W, one) = Cardinality(W) /\ Cardinality(W) \in Nat
  BY <1>1, <1>5, SumOnes, FS_CardinalityType
<1>11. Sum(W, c) \in Nat
  BY <1>7, <1>9, <1>10
<1>12. reward * T <= Sum(W, c) * T
  BY <1>2, <1>8, <1>11
<1>13. reward <= Sum(W, c)
  BY <1>2, <1>11, <1>12, CancelFactor
<1>. QED BY <1>7, <1>9, <1>10, <1>13

\* Unless a product saturates, the winners together receive exactly the reward.
THEOREM SharesExact ==
  ASSUME NEW w, Weights(w), NEW reward \in Nat,
         \A i \in DOMAIN w : reward * w[i] <= MaxU64
  PROVE  Sum(DOMAIN w, Shares(reward, w)) = reward
<1> DEFINE W == DOMAIN w
<1> DEFINE b == BaseShares(reward, w)
<1> DEFINE rem == Remainder(reward, w)
<1> DEFINE e == [i \in W |-> IF Rank(w, i) < rem THEN 1 ELSE 0]
<1> DEFINE P == {i \in W : Rank(w, i) < rem}
<1>1. Sum(W, b) \in Nat /\ Sum(W, b) <= reward
  BY BaseSharesBound
<1>2. rem = reward - Sum(W, b) /\ rem \in Nat /\ rem <= Cardinality(W)
  BY <1>1, RemainderBound DEF Remainder, SatSub
<1>3. \A i \in W : b[i] \in Nat /\ e[i] \in Nat
                     /\ Shares(reward, w)[i] = b[i] + e[i]
  BY BaseShareBound DEF Shares, BaseShares
<1>4. IsFiniteSet(W) /\ \A i \in W : e[i] \in {0, 1}
  BY DEF Weights
<1>5. Cardinality(P) = rem
  BY <1>2, RanksBelow
<1>6. Sum(W, e) = Cardinality({i \in W : e[i] = 1})
  BY <1>4, SumIndicator
<1>7. {i \in W : e[i] = 1} = P
  OBVIOUS
<1> HIDE DEF b, rem, e, P
<1>8. Sum(W, e) = rem
  BY <1>5, <1>6, <1>7
<1>9. Sum(W, Shares(reward, w)) = Sum(W, b) + Sum(W, e)
  BY <1>3, <1>4, SumPlus
<1>. QED BY <1>1, <1>2, <1>8, <1>9

=============================================================================
