---------------------------- MODULE Totals_proofs ----------------------------
(***************************************************************************)
(* Lemmas about Total, the sum of a function over a finite set.            *)
(*                                                                         *)
(* Total is a fold, a function defined by recursion over the subsets of a  *)
(* set.  The induction theorems of the library take the statement to prove *)
(* as an operator; here induction is the fact that a set of finite sets    *)
(* has a minimal element, which speaks of sets only.                       *)
(***************************************************************************)
EXTENDS Totals, FiniteSetTheorems, TLAPS

(* Any set of subsets of a finite set has a minimal one.                   *)
LEMMA MinimalSubset ==
  ASSUME NEW S, IsFiniteSet(S), NEW Bad \in SUBSET (SUBSET S), Bad # {}
  PROVE  \E T \in Bad : \A U \in SUBSET T : U # T => U \notin Bad
<1>1. IsWellFoundedOn(StrictSubsetOrdering(S), SUBSET S)
  BY FS_StrictSubsetOrderingWellFounded, FS_FiniteSubsetsOfFinite
<1>2. PICK T \in Bad : \A U \in Bad : ~ (<<U, T>> \in StrictSubsetOrdering(S))
  BY <1>1, WFMin, Zenon
<1>3. ASSUME NEW U \in SUBSET T, U # T PROVE U \notin Bad
  BY <1>2, <1>3 DEF StrictSubsetOrdering
<1>4. QED BY <1>3

(* What a sum over the subsets of S has to satisfy, whichever element is   *)
(* taken out first.                                                        *)
IsSum(g, f, S) ==
  /\ g \in [SUBSET S -> Int]
  /\ g[{}] = 0
  /\ \A T \in SUBSET S : \A x \in T : g[T] = f[x] + g[T \ {x}]

(* One element more.                                                       *)
LEMMA SumExtends ==
  ASSUME NEW S, NEW f, NEW x \in S, f[x] \in Int, \A y \in S : f[y] \in Int,
         NEW g, IsSum(g, f, S \ {x})
  PROVE  IsSum([T \in SUBSET S |-> IF x \in T THEN f[x] + g[T \ {x}] ELSE g[T]], f, S)
<1> DEFINE h == [T \in SUBSET S |-> IF x \in T THEN f[x] + g[T \ {x}] ELSE g[T]]
<1>1. \A T \in SUBSET (S \ {x}) : g[T] \in Int
  BY DEF IsSum
<1>2. \A T \in SUBSET S : /\ T \ {x} \in SUBSET (S \ {x})
                          /\ x \notin T => T \in SUBSET (S \ {x})
  OBVIOUS
<1>3. \A T \in SUBSET S : (IF x \in T THEN f[x] + g[T \ {x}] ELSE g[T]) \in Int
  BY <1>1, <1>2
<1>4. h \in [SUBSET S -> Int]
  BY <1>3
<1>5. h[{}] = 0
  BY DEF IsSum
<1>6. ASSUME NEW T \in SUBSET S, NEW y \in T
      PROVE  h[T] = f[y] + h[T \ {y}]
  <2>1. T \ {y} \in SUBSET S
    OBVIOUS
  <2>2. CASE y = x
    BY <2>1, <2>2
  <2>3. CASE y # x /\ x \notin T
    <3>1. T \in SUBSET (S \ {x}) /\ x \notin T \ {y}
      BY <2>3
    <3>2. g[T] = f[y] + g[T \ {y}]
      BY <3>1 DEF IsSum
    <3>3. QED BY <2>1, <2>3, <3>1, <3>2
  <2>4. CASE y # x /\ x \in T
    <3>1. /\ T \ {x} \in SUBSET (S \ {x})
          /\ y \in T \ {x}
          /\ (T \ {x}) \ {y} = (T \ {y}) \ {x}
          /\ x \in T \ {y}
          /\ (T \ {y}) \ {x} \in SUBSET (S \ {x})
      BY <2>4
    <3>2. g[T \ {x}] = f[y] + g[(T \ {y}) \ {x}]
      BY <3>1 DEF IsSum
    <3>3. h[T] = f[x] + g[T \ {x}] /\ h[T \ {y}] = f[x] + g[(T \ {y}) \ {x}]
      BY <2>1, <2>4, <3>1
    <3>4. f[y] \in Int /\ g[(T \ {y}) \ {x}] \in Int
      BY <1>1, <3>1
    <3>5. QED BY <3>2, <3>3, <3>4
  <2>5. QED BY <2>2, <2>3, <2>4
<1> HIDE DEF h
<1>7. IsSum(h, f, S)
  BY <1>4, <1>5, <1>6 DEF IsSum
<1>8. QED BY <1>7 DEF h

LEMMA SumExists ==
  ASSUME NEW S, IsFiniteSet(S), NEW f, \A x \in S : f[x] \in Int
  PROVE  \E g : IsSum(g, f, S)
<1> DEFINE Bad == {T \in SUBSET S : ~ \E g : IsSum(g, f, T)}
<1>1. SUFFICES ASSUME Bad # {} PROVE FALSE
  <2>1. S \notin Bad
    BY <1>1
  <2>2. QED BY <2>1
<1>2. PICK T \in Bad : \A U \in SUBSET T : U # T => U \notin Bad
  <2>1. Bad \in SUBSET (SUBSET S)
    OBVIOUS
  <2> HIDE DEF Bad
  <2>2. QED BY <1>1, <2>1, MinimalSubset
<1>3. T \in SUBSET S /\ ~ \E g : IsSum(g, f, T)
  BY <1>2
<1>4. CASE T = {}
  <2>1. IsSum([U \in {{}} |-> 0], f, {})
    BY SUBSET {} = {{}} DEF IsSum
  <2>2. QED BY <1>3, <1>4, <2>1
<1>5. CASE T # {}
  <2>1. PICK x : x \in T
    BY <1>5
  <2>2. T \ {x} \notin Bad /\ T \ {x} \in SUBSET S
    BY <1>2, <1>3, <2>1
  <2>3. PICK g : IsSum(g, f, T \ {x})
    BY <2>2
  <2>4. \A y \in T : f[y] \in Int
    BY <1>3
  <2>5. \E h : IsSum(h, f, T)
    BY SumExtends, <2>1, <2>3, <2>4
  <2>6. QED BY <1>3, <2>5
<1>6. QED BY <1>4, <1>5

(* The fold is that sum.                                                   *)
Pick(T) == CHOOSE x \in T : TRUE

LEMMA TotalUnfolds ==
  ASSUME NEW f, NEW S
  PROVE  \E h : /\ h = CHOOSE g : g = [T \in SUBSET S |->
                     IF T = {} THEN 0 ELSE f[Pick(T)] + g[T \ {Pick(T)}]]
                /\ Total(f, S) = h[S]
BY DEF Total, MapThenSumSet, MapThenFoldSet, Pick

LEMMA TotalIsSum ==
  ASSUME NEW S, IsFiniteSet(S), NEW f, \A x \in S : f[x] \in Int,
         NEW g, IsSum(g, f, S)
  PROVE  Total(f, S) = g[S]
<1>1. PICK h : /\ h = CHOOSE k : k = [T \in SUBSET S |->
                    IF T = {} THEN 0 ELSE f[Pick(T)] + k[T \ {Pick(T)}]]
               /\ Total(f, S) = h[S]
  BY TotalUnfolds
<1>2. \A T \in SUBSET S : T # {} => Pick(T) \in T /\ T \ {Pick(T)} \in SUBSET S
  BY DEF Pick
<1>3. g = [T \in SUBSET S |-> IF T = {} THEN 0 ELSE f[Pick(T)] + g[T \ {Pick(T)}]]
  BY <1>2 DEF IsSum
<1>4. h = [T \in SUBSET S |-> IF T = {} THEN 0 ELSE f[Pick(T)] + h[T \ {Pick(T)}]]
  BY <1>1, <1>3
<1> DEFINE Bad == {T \in SUBSET S : h[T] # g[T]}
<1>5. Bad = {}
  <2>1. SUFFICES ASSUME Bad # {} PROVE FALSE
    OBVIOUS
  <2>2. PICK T \in Bad : \A U \in SUBSET T : U # T => U \notin Bad
    <3>1. Bad \in SUBSET (SUBSET S)
      OBVIOUS
    <3> HIDE DEF Bad
    <3>2. QED BY <2>1, <3>1, MinimalSubset
  <2>3. T \in SUBSET S /\ h[T] # g[T]
    BY <2>2
  <2>4. T # {}
    BY <1>4, <2>3 DEF IsSum
  <2>5. Pick(T) \in T /\ T \ {Pick(T)} \in SUBSET S
    BY <1>2, <2>3, <2>4
  <2>6. h[T \ {Pick(T)}] = g[T \ {Pick(T)}]
    BY <2>2, <2>5
  <2>7. h[T] = f[Pick(T)] + h[T \ {Pick(T)}]
    BY <1>4, <2>3, <2>4
  <2>8. g[T] = f[Pick(T)] + g[T \ {Pick(T)}]
    BY <2>3, <2>5 DEF IsSum
  <2>9. QED BY <2>3, <2>6, <2>7, <2>8
<1>6. QED BY <1>1, <1>5

-----------------------------------------------------------------------------
(* What the proofs about ledgers use.                                      *)

LEMMA TotalEmpty == ASSUME NEW f PROVE Total(f, {}) = 0
<1>1. IsSum([U \in {{}} |-> 0], f, {})
  BY SUBSET {} = {{}} DEF IsSum
<1>2. QED BY <1>1, TotalIsSum, FS_EmptySet

LEMMA TotalType ==
  ASSUME NEW S, IsFiniteSet(S), NEW f, \A x \in S : f[x] \in Int
  PROVE  Total(f, S) \in Int
<1>1. PICK g : IsSum(g, f, S)
  BY SumExists
<1>2. Total(f, S) = g[S]
  BY <1>1, TotalIsSum
<1>3. QED BY <1>1, <1>2 DEF IsSum

(* It depends on the values of the function on the set, and on nothing     *)
(* else of it.                                                             *)
LEMMA TotalSame ==
  ASSUME NEW S, IsFiniteSet(S), NEW f, NEW h,
         \A x \in S : f[x] \in Int /\ h[x] = f[x]
  PROVE  Total(h, S) = Total(f, S)
<1>1. PICK g : IsSum(g, f, S)
  BY SumExists
<1>2. IsSum(g, h, S)
  BY <1>1 DEF IsSum
<1>3. Total(f, S) = g[S]
  BY <1>1, TotalIsSum
<1>4. Total(h, S) = g[S]
  BY <1>2, TotalIsSum
<1>5. QED BY <1>3, <1>4

LEMMA TotalRemove ==
  ASSUME NEW S, IsFiniteSet(S), NEW f, \A x \in S : f[x] \in Int, NEW a \in S
  PROVE  Total(f, S) = f[a] + Total(f, S \ {a})
<1>1. PICK g : IsSum(g, f, S)
  BY SumExists
<1> DEFINE r == [T \in SUBSET (S \ {a}) |-> g[T]]
<1>2. \A T \in SUBSET (S \ {a}) : /\ T \in SUBSET S
                                  /\ \A x \in T : T \ {x} \in SUBSET (S \ {a})
  OBVIOUS
<1>3. r \in [SUBSET (S \ {a}) -> Int] /\ r[{}] = 0
  BY <1>1, <1>2 DEF IsSum
<1>4. ASSUME NEW T \in SUBSET (S \ {a}), NEW x \in T
      PROVE  r[T] = f[x] + r[T \ {x}]
  BY <1>1, <1>2 DEF IsSum
<1>5. IsSum(r, f, S \ {a})
  BY <1>3, <1>4 DEF IsSum
<1>6. IsFiniteSet(S \ {a}) /\ S \ {a} \in SUBSET (S \ {a})
  BY FS_RemoveElement
<1>7. Total(f, S \ {a}) = r[S \ {a}]
  BY <1>5, <1>6, TotalIsSum
<1>8. Total(f, S) = g[S]
  BY <1>1, TotalIsSum
<1>9. g[S] = f[a] + g[S \ {a}]
  BY <1>1 DEF IsSum
<1>10. QED BY <1>6, <1>7, <1>8, <1>9

LEMMA TotalAdd ==
  ASSUME NEW S, IsFiniteSet(S), NEW a, a \notin S,
         NEW f, f[a] \in Int, \A x \in S : f[x] \in Int
  PROVE  Total(f, S \cup {a}) = f[a] + Total(f, S)
<1>1. /\ IsFiniteSet(S \cup {a})
      /\ a \in S \cup {a}
      /\ \A x \in S \cup {a} : f[x] \in Int
      /\ (S \cup {a}) \ {a} = S
  BY FS_AddElement
<1>2. Total(f, S \cup {a}) = f[a] + Total(f, (S \cup {a}) \ {a})
  BY <1>1, TotalRemove
<1>3. QED BY <1>1, <1>2

(* One value changes.                                                      *)
LEMMA TotalOne ==
  ASSUME NEW S, IsFiniteSet(S), NEW f, NEW h, NEW a \in S,
         \A x \in S : f[x] \in Int /\ h[x] \in Int,
         \A x \in S \ {a} : h[x] = f[x]
  PROVE  Total(h, S) = Total(f, S) + h[a] - f[a]
<1>1. IsFiniteSet(S \ {a})
  BY FS_RemoveElement
<1>2. Total(h, S \ {a}) = Total(f, S \ {a}) /\ Total(f, S \ {a}) \in Int
  BY <1>1, TotalSame, TotalType
<1>3. Total(f, S) = f[a] + Total(f, S \ {a})
  BY TotalRemove
<1>4. Total(h, S) = h[a] + Total(h, S \ {a})
  BY TotalRemove
<1>5. f[a] \in Int /\ h[a] \in Int
  OBVIOUS
<1>6. QED BY <1>2, <1>3, <1>4, <1>5

(* Two do.                                                                 *)
LEMMA TotalTwo ==
  ASSUME NEW S, IsFiniteSet(S), NEW f, NEW h, NEW a \in S, NEW b \in S, a # b,
         \A x \in S : f[x] \in Int /\ h[x] \in Int,
         \A x \in S \ {a, b} : h[x] = f[x]
  PROVE  Total(h, S) = Total(f, S) + (h[a] - f[a]) + (h[b] - f[b])
<1>1. /\ IsFiniteSet(S \ {a})
      /\ b \in S \ {a}
      /\ \A x \in S \ {a} : f[x] \in Int /\ h[x] \in Int
      /\ \A x \in (S \ {a}) \ {b} : h[x] = f[x]
  BY FS_RemoveElement
<1>2. /\ Total(h, S \ {a}) = Total(f, S \ {a}) + h[b] - f[b]
      /\ Total(f, S \ {a}) \in Int
  <2>1. Total(h, S \ {a}) = Total(f, S \ {a}) + h[b] - f[b]
    BY <1>1, TotalOne
  <2>2. QED BY <1>1, <2>1, TotalType
<1>3. Total(f, S) = f[a] + Total(f, S \ {a})
  BY TotalRemove
<1>4. Total(h, S) = h[a] + Total(h, S \ {a})
  BY TotalRemove
<1>5. f[a] \in Int /\ h[a] \in Int /\ f[b] \in Int /\ h[b] \in Int
  OBVIOUS
<1>6. QED BY <1>2, <1>3, <1>4, <1>5

LEMMA TotalZero ==
  ASSUME NEW S, IsFiniteSet(S), NEW f, \A x \in S : f[x] = 0
  PROVE  Total(f, S) = 0
<1>1. IsSum([T \in SUBSET S |-> 0], f, S)
  <2> DEFINE z == [T \in SUBSET S |-> 0]
  <2>1. z \in [SUBSET S -> Int] /\ z[{}] = 0
    OBVIOUS
  <2>2. ASSUME NEW T \in SUBSET S, NEW x \in T PROVE z[T] = f[x] + z[T \ {x}]
    BY T \ {x} \in SUBSET S
  <2>3. QED BY <2>1, <2>2 DEF IsSum
<1>2. Total(f, S) = [T \in SUBSET S |-> 0][S]
  BY <1>1, TotalIsSum
<1>3. QED BY <1>2

(* The rent of one more account.                                           *)
LEMMA OneMore ==
  ASSUME NEW S, IsFiniteSet(S), NEW x, x \notin S, NEW rent \in Nat
  PROVE  rent * Cardinality(S \cup {x}) = rent * Cardinality(S) + rent
<1>1. Cardinality(S \cup {x}) = Cardinality(S) + 1 /\ Cardinality(S) \in Nat
  BY FS_AddElement, FS_CardinalityType
<1>2. \A n \in Nat : rent * (n + 1) = rent * n + rent
  OBVIOUS
<1>3. QED BY <1>1, <1>2

=============================================================================
