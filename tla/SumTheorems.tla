---------------------------- MODULE SumTheorems ----------------------------
(***************************************************************************)
(* Laws of MapThenSumSet of the community modules, which the provers know  *)
(* only as a recursive function on the subsets of a set.  Induction is on  *)
(* finite sets: of the sets that break a law one would be minimal.         *)
(***************************************************************************)
EXTENDS Integers, FiniteSetTheorems, TLAPS

Chosen(X) == CHOOSE x \in X : TRUE

\* g is the recursive function that MapThenSumSet evaluates at S, for the
\* addends f.
IsSum(g, f, S) ==
    g = [X \in SUBSET S |->
           IF X = {} THEN 0 ELSE f[Chosen(X)] + g[X \ {Chosen(X)}]]

Total(f, X) == (CHOOSE g : IsSum(g, f, X))[X]

-----------------------------------------------------------------------------
\* A set of subsets of a finite set has a member with no other member in it.
LEMMA MinimalSubset ==
    ASSUME NEW S, IsFiniteSet(S), NEW C \in SUBSET SUBSET S, C # {}
    PROVE  \E X \in C : \A Y \in C : Y \subseteq X => Y = X
<1> DEFINE R == StrictSubsetOrdering(S)
<1>1. IsWellFoundedOn(R, SUBSET S)
  BY FS_StrictSubsetOrderingWellFounded, FS_FiniteSubsetsOfFinite
<1>2. \E X \in C : \A Y \in C : ~(<<Y, X>> \in R)
  <2> HIDE DEF R
  <2> QED BY <1>1, WFMin
<1>3. PICK X \in C : \A Y \in C : ~(<<Y, X>> \in R)
  BY <1>2
<1>4. \A Y \in C : Y \subseteq X /\ Y # X => <<Y, X>> \in R
  BY DEF StrictSubsetOrdering
<1> HIDE DEF R
<1>5. ASSUME NEW Y \in C, Y \subseteq X
      PROVE  Y = X
  BY <1>3, <1>4, <1>5
<1> QED BY <1>5

\* The element a sum takes first is one of the set.
LEMMA ChosenIsOne == \A X : X # {} => Chosen(X) \in X
BY DEF Chosen

\* One unfolding of the recursive function.
LEMMA SumUnfolds ==
    ASSUME NEW g, NEW f, NEW S, IsSum(g, f, S)
    PROVE  /\ g[{}] = 0
           /\ \A X \in SUBSET S :
                 X # {} => g[X] = f[Chosen(X)] + g[X \ {Chosen(X)}]
<1>1. \A X \in SUBSET S : 
        g[X] = IF X = {} THEN 0 ELSE f[Chosen(X)] + g[X \ {Chosen(X)}]
  BY DEF IsSum
<1>2. {} \in SUBSET S
  OBVIOUS
<1>3. g[{}] = 0
  BY <1>1, <1>2
<1> QED BY <1>1, <1>3

\* A sum depends on the addends of its elements only.
LEMMA SumCongruence ==
    ASSUME NEW S, NEW T, IsFiniteSet(S), NEW f, NEW e, NEW g, NEW h,
           IsSum(g, f, S), IsSum(h, e, T),
           NEW X, X \subseteq S, X \subseteq T,
           \A x \in X : f[x] = e[x]
    PROVE  g[X] = h[X]
<1> DEFINE C == {Y \in SUBSET S : /\ Y \subseteq T /\ \A x \in Y : f[x] = e[x]
                                  /\ g[Y] # h[Y]}
<1>1. SUFFICES ASSUME C # {} PROVE FALSE
  OBVIOUS
<1>2. PICK Y \in C : \A Z \in C : Z \subseteq Y => Z = Y
  <2> HIDE DEF C
  <2>1. C \in SUBSET SUBSET S
    BY DEF C
  <2> QED BY <1>1, <2>1, MinimalSubset
<1>3. Y # {}
  <2>1. g[{}] = 0 /\ h[{}] = 0
    BY SumUnfolds
  <2> QED BY <1>2, <2>1
<1> DEFINE c == Chosen(Y)
           Z == Y \ {c}
<1>4. c \in Y
  BY <1>3, ChosenIsOne
<1>5. g[Y] = f[c] + g[Z] /\ h[Y] = e[c] + h[Z]
  <2>1. Y \in SUBSET S /\ Y \in SUBSET T
    BY <1>2
  <2> HIDE DEF C
  <2>2. \A W \in SUBSET S : W # {} => g[W] = f[Chosen(W)] + g[W \ {Chosen(W)}]
    BY SumUnfolds
  <2>3. \A W \in SUBSET T : W # {} => h[W] = e[Chosen(W)] + h[W \ {Chosen(W)}]
    BY SumUnfolds
  <2> QED BY <1>3, <2>1, <2>2, <2>3
<1>6. g[Z] = h[Z]
  BY <1>2, <1>4
<1> QED BY <1>4, <1>5, <1>6

\* There is such a function.
LEMMA SumExists ==
    ASSUME NEW S, IsFiniteSet(S), NEW f
    PROVE  \E g : IsSum(g, f, S)
<1> DEFINE C == {X \in SUBSET S : ~ \E g : IsSum(g, f, X)}
<1>1. SUFFICES ASSUME C # {} PROVE FALSE
  OBVIOUS
<1>2. PICK X \in C : \A Y \in C : Y \subseteq X => Y = X
  <2> HIDE DEF C
  <2>1. C \in SUBSET SUBSET S
    BY DEF C
  <2> QED BY <1>1, <2>1, MinimalSubset
<1> DEFINE G == [Y \in SUBSET X |->
                   IF Y = {} THEN 0 ELSE f[Chosen(Y)] + Total(f, Y \ {Chosen(Y)})]
<1>3. \A Y \in SUBSET X : Y # X => IsSum(CHOOSE g : IsSum(g, f, Y), f, Y)
  BY <1>2
<1>4. ASSUME NEW Z \in SUBSET X, Z # X
      PROVE  G[Z] = Total(f, Z)
  <2> DEFINE h == CHOOSE g : IsSum(g, f, Z)
  <2>1. IsSum(h, f, Z) /\ Total(f, Z) = h[Z]
    BY <1>3, <1>4 DEF Total
  <2>2. CASE Z = {}
    BY <2>1, <2>2, SumUnfolds
  <2>3. CASE Z # {}
    <3> DEFINE W == Z \ {Chosen(Z)}
               k == CHOOSE g : IsSum(g, f, W)
    <3>1. W \in SUBSET X /\ W # X /\ W \subseteq Z
      BY <1>4
    <3>2. IsSum(k, f, W) /\ Total(f, W) = k[W]
      BY <1>3, <3>1 DEF Total
    <3>3. IsFiniteSet(Z)
      BY FS_Subset
    <3>4. h[W] = k[W]
      <4> HIDE DEF h, k, W
      <4> QED BY <2>1, <3>1, <3>2, <3>3, SumCongruence
    <3>5. h[Z] = f[Chosen(Z)] + h[W]
      <4> HIDE DEF h
      <4> QED BY <2>1, <2>3, SumUnfolds
    <3> QED BY <2>1, <2>3, <3>2, <3>4, <3>5
  <2> QED BY <2>2, <2>3
<1>5. IsSum(G, f, X)
  <2>1. ASSUME NEW Y \in SUBSET X, Y # {}
        PROVE  G[Y] = f[Chosen(Y)] + G[Y \ {Chosen(Y)}]
    <3>1. Y \ {Chosen(Y)} \in SUBSET X /\ Y \ {Chosen(Y)} # X
      BY <2>1, ChosenIsOne
    <3> QED BY <1>4, <2>1, <3>1
  <2>2. ASSUME NEW Y \in SUBSET X, Y = {}
        PROVE  G[Y] = 0
    BY <2>2
  <2>3. G = [Y \in SUBSET X |-> G[Y]]
    OBVIOUS
  <2> HIDE DEF G
  <2> QED BY <2>1, <2>2, <2>3 DEF IsSum
<1> QED BY <1>2, <1>5

\* A sum of integers is an integer, and any element may be added last.
LEMMA SumTakesOne ==
    ASSUME NEW S, IsFiniteSet(S), NEW f, \A s \in S : f[s] \in Int,
           NEW g, IsSum(g, f, S), NEW X \in SUBSET S
    PROVE  /\ g[X] \in Int
           /\ \A x \in X : g[X] = f[x] + g[X \ {x}]
<1> DEFINE C == {Y \in SUBSET S : ~(/\ g[Y] \in Int
                                    /\ \A x \in Y : g[Y] = f[x] + g[Y \ {x}])}
<1>1. SUFFICES ASSUME C # {} PROVE FALSE
  OBVIOUS
<1>2. PICK Y \in C : \A Z \in C : Z \subseteq Y => Z = Y
  <2> HIDE DEF C
  <2>1. C \in SUBSET SUBSET S
    BY DEF C
  <2> QED BY <1>1, <2>1, MinimalSubset
<1>3. /\ Y \in SUBSET S
      /\ ~(g[Y] \in Int /\ \A x \in Y : g[Y] = f[x] + g[Y \ {x}])
  BY <1>2
<1>4. \A Z \in SUBSET Y : Z # Y =>
         g[Z] \in Int /\ \A x \in Z : g[Z] = f[x] + g[Z \ {x}]
  BY <1>2, <1>3
<1> HIDE DEF C
<1>5. Y # {}
  <2>1. g[{}] = 0
    BY SumUnfolds
  <2>2. g[{}] \in Int
    BY <2>1
  <2> QED BY <1>3, <2>2
<1> DEFINE c == Chosen(Y)
<1>6. c \in Y
  BY <1>5, ChosenIsOne
<1>7. g[Y] = f[c] + g[Y \ {c}]
  <2>1. \A W \in SUBSET S : W # {} => g[W] = f[Chosen(W)] + g[W \ {Chosen(W)}]
    BY SumUnfolds
  <2> QED BY <1>3, <1>5, <2>1
<1> HIDE DEF c
<1>8. \A y \in Y : f[y] \in Int
  BY <1>3
<1>9. \A y \in Y : Y \ {y} \in SUBSET Y /\ Y \ {y} # Y
  OBVIOUS
<1>10. \A y \in Y : /\ g[Y \ {y}] \in Int
                    /\ \A x \in Y \ {y} : g[Y \ {y}] = f[x] + g[(Y \ {y}) \ {x}]
  BY <1>4, <1>9
<1>11. g[Y] \in Int
  <2>1. g[Y \ {c}] \in Int /\ f[c] \in Int
    BY <1>6, <1>8, <1>10
  <2> QED BY <1>7, <2>1
<1>12. ASSUME NEW x \in Y
       PROVE  g[Y] = f[x] + g[Y \ {x}]
  <2>1. CASE x = c
    BY <2>1, <1>7
  <2>2. CASE x # c
    <3> DEFINE W == (Y \ {c}) \ {x}
    <3>1. W = (Y \ {x}) \ {c} /\ x \in Y \ {c} /\ c \in Y \ {x}
      BY <1>6, <2>2
    <3>2. W \in SUBSET Y /\ W # Y
      BY <1>6
    <3>3. g[Y \ {c}] = f[x] + g[W]
      BY <1>6, <1>10, <3>1
    <3>4. g[Y \ {x}] = f[c] + g[W]
      BY <1>10, <3>1
    <3> HIDE DEF W
    <3>5. g[W] \in Int
      BY <1>4, <3>2
    <3>6. f[x] \in Int /\ f[c] \in Int
      BY <1>6, <1>8
    <3> QED BY <1>7, <3>3, <3>4, <3>5, <3>6
  <2> QED BY <2>1, <2>2
<1> QED BY <1>3, <1>11, <1>12

-----------------------------------------------------------------------------
(* The same about totals.                                                  *)

\* A total is a value of such a function.
LEMMA TotalIsSum ==
    ASSUME NEW S, IsFiniteSet(S), NEW f
    PROVE  \E g : IsSum(g, f, S) /\ Total(f, S) = g[S]
<1> DEFINE g == CHOOSE h : IsSum(h, f, S)
<1>1. IsSum(g, f, S)
  BY SumExists
<1> QED BY <1>1 DEF Total

\* Nothing adds up to zero.
LEMMA EmptyTotal == \A f : Total(f, {}) = 0
<1> TAKE f
<1>1. IsFiniteSet({})
  BY FS_EmptySet
<1>2. PICK g : IsSum(g, f, {}) /\ Total(f, {}) = g[{}]
  BY <1>1, TotalIsSum
<1> QED BY <1>2, SumUnfolds

\* A total depends on the addends of its elements only.
LEMMA TotalCongruence ==
    ASSUME NEW S, IsFiniteSet(S), NEW f, NEW e, \A s \in S : f[s] = e[s]
    PROVE  Total(f, S) = Total(e, S)
<1>1. PICK g : IsSum(g, f, S) /\ Total(f, S) = g[S]
  BY TotalIsSum
<1>2. PICK h : IsSum(h, e, S) /\ Total(e, S) = h[S]
  BY TotalIsSum
<1>3. \A X : X \subseteq S /\ X \subseteq S /\ (\A x \in X : f[x] = e[x]) => g[X] = h[X]
  BY <1>1, <1>2, SumCongruence
<1> QED BY <1>1, <1>2, <1>3

\* A total of integers is an integer, whichever of them is added last.
LEMMA TotalTakesOne ==
    ASSUME NEW S, IsFiniteSet(S), NEW f, \A s \in S : f[s] \in Int
    PROVE  /\ Total(f, S) \in Int
           /\ \A x \in S : Total(f, S) = f[x] + Total(f, S \ {x})
<1>1. PICK g : IsSum(g, f, S) /\ Total(f, S) = g[S]
  BY TotalIsSum
<1>2. g[S] \in Int /\ \A x \in S : g[S] = f[x] + g[S \ {x}]
  BY <1>1, SumTakesOne
<1>3. ASSUME NEW x \in S
      PROVE  Total(f, S \ {x}) = g[S \ {x}]
  <2> DEFINE T == S \ {x}
  <2>1. IsFiniteSet(T) /\ T \subseteq S
    BY FS_Subset
  <2> HIDE DEF T
  <2>2. PICK h : IsSum(h, f, T) /\ Total(f, T) = h[T]
    BY <2>1, TotalIsSum
  <2>3. g[T] = h[T]
    BY <1>1, <2>1, <2>2, SumCongruence
  <2> QED BY <2>2, <2>3 DEF T
<1> QED BY <1>1, <1>2, <1>3

\* When one addend changes, the total changes by as much.
LEMMA TotalChangesByOne ==
    ASSUME NEW S, IsFiniteSet(S), NEW f, NEW e, NEW x \in S,
           \A s \in S : f[s] \in Int /\ e[s] \in Int,
           \A s \in S \ {x} : e[s] = f[s]
    PROVE  Total(e, S) = Total(f, S) - f[x] + e[x]
<1> DEFINE T == S \ {x}
<1>1. IsFiniteSet(T) /\ T \subseteq S
  BY FS_Subset
<1>2. Total(f, S) = f[x] + Total(f, T) /\ Total(e, S) = e[x] + Total(e, T)
  BY TotalTakesOne
<1>3. \A s \in T : e[s] = f[s]
  OBVIOUS
<1> HIDE DEF T
<1>4. Total(e, T) = Total(f, T) /\ Total(f, T) \in Int
  BY <1>1, <1>3, TotalCongruence, TotalTakesOne
<1>5. f[x] \in Int /\ e[x] \in Int
  OBVIOUS
<1> QED BY <1>2, <1>4, <1>5

\* Addends that are zero may be left out.
LEMMA TotalWithoutZeros ==
    ASSUME NEW S, IsFiniteSet(S), NEW f, \A s \in S : f[s] \in Int,
           NEW T, T \subseteq S, \A s \in S \ T : f[s] = 0
    PROVE  Total(f, S) = Total(f, T)
<1> DEFINE C == {X \in SUBSET S : T \subseteq X /\ Total(f, X) # Total(f, T)}
<1>1. SUFFICES ASSUME C # {} PROVE FALSE
  OBVIOUS
<1>2. PICK X \in C : \A Y \in C : Y \subseteq X => Y = X
  <2> HIDE DEF C
  <2>1. C \in SUBSET SUBSET S
    BY DEF C
  <2> QED BY <1>1, <2>1, MinimalSubset
<1>3. X \subseteq S /\ T \subseteq X /\ Total(f, X) # Total(f, T)
  BY <1>2
<1>4. PICK x \in X : x \notin T
  BY <1>3
<1>5. Total(f, X \ {x}) = Total(f, T)
  BY <1>2, <1>3, <1>4
<1> HIDE DEF C
<1>6. IsFiniteSet(X) /\ \A s \in X : f[s] \in Int
  BY <1>3, FS_Subset
<1>7. Total(f, X) = f[x] + Total(f, X \ {x}) /\ f[x] = 0
  BY <1>3, <1>4, <1>6, TotalTakesOne
<1>8. Total(f, T) \in Int
  <2>1. IsFiniteSet(T) /\ \A s \in T : f[s] \in Int
    BY FS_Subset
  <2> QED BY <2>1, TotalTakesOne
<1> QED BY <1>3, <1>5, <1>7, <1>8

=============================================================================
