------------------------- MODULE LedgerServiceProofs -------------------------
(***************************************************************************)
(* Theorems of LedgerService, for any accounts, categories, amounts and    *)
(* any number of rows.                                                     *)
(*                                                                         *)
(* A balance is a sum over the rows, so the first part is about sums:      *)
(* what holds of all smaller subsets of a finite set holds of the set,     *)
(* since the strict subset order is well-founded (SetInduction), and with  *)
(* that the fold that defines a sum is unrolled (SumPick), taken in any    *)
(* order (SumRemove), and exchanged with another (SumExchange).            *)
(*                                                                         *)
(* The invariant IInv is what the runs check, together: a patch relies on  *)
(* complete groups to find the fee, on HistoryHolds to stay on accounts    *)
(* that are there, and ArchivedIsZero needs that a companion has the       *)
(* account of its transfer (GroupComplete), or a patch that is allowed     *)
(* for the transfer could move money on an archived account through it.    *)
(* Paired and Moved say GroupsAreOwn, GroupComplete and AskedIsMoved of a  *)
(* table of rows, without the choice of a companion; each transaction is   *)
(* one of five changes of that table (InsertOne, InsertTwo, ChangeOne,     *)
(* ChangePair, ChangeAndInsert), and RowsChange has the rest of a step.    *)
(***************************************************************************)
EXTENDS LedgerService, FiniteSetTheorems, SequenceTheorems, WellFoundedInduction, TLAPS

(* One step of the sum: the element the fold takes from s, and the rest.   *)
Pick(s) == CHOOSE x \in s : TRUE
SumStep(h, f, s) == IF s = {} THEN 0 ELSE f[Pick(s)] + h[s \ {Pick(s)}]
IsSum(h, f, S) == h = [s \in SUBSET S |-> SumStep(h, f, s)]

(* A sum is the value at S of the function that the fold defines.          *)
LEMMA SumIsIterated ==
  ASSUME NEW f, NEW S
  PROVE  SumFunctionOnSet(f, S) = (CHOOSE h : IsSum(h, f, S))[S]
  BY Zenon DEF SumFunctionOnSet, FoldFunctionOnSet, MapThenFoldSet, IsSum, SumStep, Pick

(* Induction over the subsets of a finite set, for a set G of subsets: a   *)
(* smallest subset outside G would be in it.                               *)
LEMMA SetInduction ==
  ASSUME NEW S, IsFiniteSet(S), NEW G,
         \A T \in SUBSET S : (\A U \in SUBSET T : U # T => U \in G) => T \in G
  PROVE  S \in G
  <1> DEFINE Bad == {T \in SUBSET S : T \notin G}
  <1> SUFFICES ASSUME Bad # {} PROVE FALSE
    OBVIOUS
  <1>1. IsWellFoundedOn(StrictSubsetOrdering(S), SUBSET S)
    <2>1. IsWellFoundedOn(StrictSubsetOrdering(S), FiniteSubsetsOf(S))
      BY FS_StrictSubsetOrderingWellFounded
    <2>2. FiniteSubsetsOf(S) = SUBSET S
      BY FS_FiniteSubsetsOfFinite
    <2> QED BY <2>1, <2>2
  <1>2. Bad \subseteq SUBSET S
    OBVIOUS
  <1>3. PICK T \in Bad : \A U \in Bad : ~(<<U, T>> \in StrictSubsetOrdering(S))
    <2> HIDE DEF Bad
    <2> QED BY <1>1, <1>2, WFMin
  <1>4. \A U \in SUBSET T : U # T => U \in G
    <2> SUFFICES ASSUME NEW U \in SUBSET T, U # T, U \notin G PROVE FALSE
      OBVIOUS
    <2>1. <<U, T>> \in StrictSubsetOrdering(S)
      BY DEF StrictSubsetOrdering
    <2> QED BY <1>3, <2>1
  <1> QED BY <1>3, <1>4

(* The element that is taken is there.                                     *)
LEMMA PickIsMember == \A s : s # {} => Pick(s) \in s
  BY DEF Pick

(* Functions that satisfy the equation of the sum agree where both do.     *)
LEMMA SumsAgree ==
  ASSUME NEW f, NEW T, IsFiniteSet(T), NEW V, NEW W, NEW g, NEW h,
         IsSum(g, f, V), IsSum(h, f, W), T \subseteq V, T \subseteq W
  PROVE  g[T] = h[T]
  <1> DEFINE G == {s \in SUBSET T : g[s] = h[s]}
  <1>1. ASSUME NEW s \in SUBSET T, \A u \in SUBSET s : u # s => u \in G
        PROVE  s \in G
    <2>1. g[s] = SumStep(g, f, s) /\ h[s] = SumStep(h, f, s)
      BY DEF IsSum
    <2>2. CASE s = {}
      BY <2>1, <2>2 DEF SumStep
    <2>3. CASE s # {}
      <3>1. s \ {Pick(s)} \in G
        BY <1>1, <2>3, PickIsMember
      <3> QED BY <2>1, <2>3, <3>1 DEF SumStep
    <2> QED BY <2>2, <2>3
  <1>2. T \in G
    <2> HIDE DEF G
    <2> QED BY <1>1, SetInduction
  <1> QED BY <1>2

(* There is one for every finite set: built from those of smaller sets.    *)
LEMMA SumExists ==
  ASSUME NEW f, NEW S, IsFiniteSet(S)
  PROVE  \E h : IsSum(h, f, S)
  <1> DEFINE G == {T \in SUBSET S : \E h : IsSum(h, f, T)}
  <1>1. ASSUME NEW T \in SUBSET S, \A U \in SUBSET T : U # T => U \in G
        PROVE  T \in G
    <2> DEFINE H == [U \in SUBSET T |-> CHOOSE h : IsSum(h, f, U)]
               Body(s) == IF s = {} THEN 0 ELSE f[Pick(s)] + H[s \ {Pick(s)}][s \ {Pick(s)}]
               h == [s \in SUBSET T |-> Body(s)]
    <2>1. ASSUME NEW U \in SUBSET T, U # T PROVE IsSum(H[U], f, U)
      <3>1. \E g : IsSum(g, f, U)
        BY <1>1, <2>1
      <3> QED BY <3>1
    <2>2. ASSUME NEW s \in SUBSET T PROVE h[s] = SumStep(h, f, s)
      <3>1. CASE s = {}
        BY <3>1 DEF SumStep
      <3>2. CASE s # {}
        <4> DEFINE u == s \ {Pick(s)}
        <4>1. Pick(s) \in s /\ u \in SUBSET T /\ u # T
          BY <3>2, PickIsMember
        <4>2. IsSum(H[u], f, u) /\ IsFiniteSet(u)
          BY <4>1, <2>1, FS_Subset
        <4>3. H[u][u] = SumStep(H[u], f, u)
          BY <4>2 DEF IsSum
        <4>4. H[u][u] = Body(u)
          <5>1. CASE u = {}
            BY <4>3, <5>1 DEF SumStep
          <5>2. CASE u # {}
            <6> DEFINE v == u \ {Pick(u)}
            <6>1. Pick(u) \in u /\ v \in SUBSET T /\ v # T /\ v \subseteq u
              BY <4>1, <5>2, PickIsMember
            <6>2. IsSum(H[v], f, v) /\ IsFiniteSet(v)
              BY <6>1, <2>1, FS_Subset
            <6>3. H[u][v] = H[v][v]
              <7> HIDE DEF H, u, v
              <7> QED BY <4>2, <6>1, <6>2, SumsAgree
            <6> QED BY <4>3, <5>2, <6>3 DEF SumStep
          <5> QED BY <5>1, <5>2
        <4>5. h[u] = H[u][u]
          BY <4>1, <4>4
        <4> QED BY <3>2, <4>1, <4>5 DEF SumStep
      <3> QED BY <3>1, <3>2
    <2>3. IsSum(h, f, T)
      BY <2>2 DEF IsSum
    <2> QED BY <2>3
  <1>2. S \in G
    <2> HIDE DEF G
    <2> QED BY <1>1, SetInduction
  <1> QED BY <1>2

(* One function gives the sums over all subsets of S.                      *)
LEMMA SumOfSubsets ==
  ASSUME NEW f, NEW S, IsFiniteSet(S)
  PROVE  \E h : IsSum(h, f, S) /\ \A T \in SUBSET S : h[T] = SumFunctionOnSet(f, T)
  <1> DEFINE It(T) == CHOOSE h : IsSum(h, f, T)
  <1>1. ASSUME NEW T \in SUBSET S PROVE IsSum(It(T), f, T) /\ SumFunctionOnSet(f, T) = It(T)[T] /\ IsFiniteSet(T)
    <2>1. IsFiniteSet(T)
      BY FS_Subset
    <2>2. \E h : IsSum(h, f, T)
      BY <2>1, SumExists
    <2>3. IsSum(It(T), f, T)
      BY <2>2
    <2> QED BY <2>1, <2>3, SumIsIterated
  <1>2. ASSUME NEW T \in SUBSET S PROVE It(S)[T] = SumFunctionOnSet(f, T)
    <2>1. IsSum(It(S), f, S)
      BY <1>1
    <2>2. It(S)[T] = It(T)[T]
      <3> HIDE DEF It
      <3> QED BY <1>1, <2>1, SumsAgree
    <2> QED BY <2>2, <1>1
  <1> QED BY <1>1, <1>2

(* The sum over nothing.                                                   *)
LEMMA SumEmpty == \A f : SumFunctionOnSet(f, {}) = 0
  <1> SUFFICES ASSUME NEW f PROVE SumFunctionOnSet(f, {}) = 0
    OBVIOUS
  <1>1. PICK h : IsSum(h, f, {}) /\ \A T \in SUBSET {} : h[T] = SumFunctionOnSet(f, T)
    BY SumOfSubsets, FS_EmptySet
  <1> QED BY <1>1 DEF IsSum, SumStep

(* The equation of the sum.                                                *)
LEMMA SumPick ==
  ASSUME NEW f, NEW S, IsFiniteSet(S), S # {}
  PROVE  SumFunctionOnSet(f, S) = f[Pick(S)] + SumFunctionOnSet(f, S \ {Pick(S)})
  <1>1. PICK h : IsSum(h, f, S) /\ \A T \in SUBSET S : h[T] = SumFunctionOnSet(f, T)
    BY SumOfSubsets
  <1>2. h[S] = SumStep(h, f, S)
    BY <1>1 DEF IsSum
  <1> QED BY <1>1, <1>2 DEF SumStep

(* A sum of integers is one.                                               *)
LEMMA SumType ==
  ASSUME NEW f, NEW S, IsFiniteSet(S), \A x \in S : f[x] \in Int
  PROVE  SumFunctionOnSet(f, S) \in Int
  <1> DEFINE G == {T \in SUBSET S : SumFunctionOnSet(f, T) \in Int}
  <1>1. ASSUME NEW T \in SUBSET S, \A U \in SUBSET T : U # T => U \in G
        PROVE  T \in G
    <2>1. CASE T = {}
      BY <2>1, SumEmpty
    <2>2. CASE T # {}
      <3>1. Pick(T) \in T /\ T \ {Pick(T)} \in G
        BY <1>1, <2>2, PickIsMember
      <3>2. IsFiniteSet(T)
        BY FS_Subset
      <3>3. SumFunctionOnSet(f, T) = f[Pick(T)] + SumFunctionOnSet(f, T \ {Pick(T)})
        BY <2>2, <3>2, SumPick
      <3> QED BY <3>1, <3>3
    <2> QED BY <2>1, <2>2
  <1>2. S \in G
    <2> HIDE DEF G
    <2> QED BY <1>1, SetInduction
  <1> QED BY <1>2

(* Any element may be taken first: addition commutes.                      *)
LEMMA SumRemove ==
  ASSUME NEW f, NEW S, IsFiniteSet(S), \A x \in S : f[x] \in Int
  PROVE  \A x \in S : SumFunctionOnSet(f, S) = f[x] + SumFunctionOnSet(f, S \ {x})
  <1> DEFINE Sum(T) == SumFunctionOnSet(f, T)
             G == {T \in SUBSET S : \A x \in T : Sum(T) = f[x] + Sum(T \ {x})}
  <1>1. ASSUME NEW T \in SUBSET S, \A U \in SUBSET T : U # T => U \in G
        PROVE  T \in G
    <2> SUFFICES ASSUME NEW x \in T PROVE Sum(T) = f[x] + Sum(T \ {x})
      OBVIOUS
    <2> DEFINE p == Pick(T)
    <2>1. p \in T
      BY PickIsMember
    <2>2. /\ IsFiniteSet(T) /\ IsFiniteSet(T \ {p}) /\ IsFiniteSet(T \ {x})
          /\ IsFiniteSet((T \ {p}) \ {x})
      BY FS_Subset
    <2>3. Sum(T) = f[p] + Sum(T \ {p})
      BY <2>2, SumPick
    <2>4. CASE x = p
      BY <2>3, <2>4
    <2>5. CASE x # p
      <3>1. T \ {p} \in G /\ T \ {x} \in G
        BY <1>1, <2>1
      <3>2. Sum(T \ {p}) = f[x] + Sum((T \ {p}) \ {x})
        BY <3>1, <2>5
      <3>3. Sum(T \ {x}) = f[p] + Sum((T \ {x}) \ {p})
        BY <3>1, <2>1, <2>5
      <3>4. (T \ {x}) \ {p} = (T \ {p}) \ {x}
        OBVIOUS
      <3>5. /\ Sum(T \ {p}) \in Int /\ Sum((T \ {p}) \ {x}) \in Int
            /\ f[p] \in Int /\ f[x] \in Int
        BY <2>1, <2>2, SumType
      <3>6. f[p] + Sum(T \ {p}) = f[x] + (f[p] + Sum((T \ {p}) \ {x}))
        <4> HIDE DEF Sum, p
        <4> QED BY <3>2, <3>5
      <3>7. Sum(T \ {x}) = f[p] + Sum((T \ {p}) \ {x})
        BY <3>3, <3>4
      <3>8. Sum(T) = f[x] + (f[p] + Sum((T \ {p}) \ {x}))
        BY <2>3, <3>6
      <3> QED BY <3>7, <3>8
    <2> QED BY <2>4, <2>5
  <1>2. S \in G
    <2> HIDE DEF G
    <2> QED BY <1>1, SetInduction
  <1> QED BY <1>2

(* The sum depends on the values over S alone.                             *)
LEMMA SumSame ==
  ASSUME NEW f, NEW g, NEW S, IsFiniteSet(S), \A x \in S : f[x] = g[x]
  PROVE  SumFunctionOnSet(f, S) = SumFunctionOnSet(g, S)
  <1> DEFINE G == {T \in SUBSET S : SumFunctionOnSet(f, T) = SumFunctionOnSet(g, T)}
  <1>1. ASSUME NEW T \in SUBSET S, \A U \in SUBSET T : U # T => U \in G
        PROVE  T \in G
    <2>1. CASE T = {}
      BY <2>1, SumEmpty
    <2>2. CASE T # {}
      <3>1. Pick(T) \in T /\ T \ {Pick(T)} \in G
        BY <1>1, <2>2, PickIsMember
      <3>2. IsFiniteSet(T)
        BY FS_Subset
      <3>3. /\ SumFunctionOnSet(f, T) = f[Pick(T)] + SumFunctionOnSet(f, T \ {Pick(T)})
            /\ SumFunctionOnSet(g, T) = g[Pick(T)] + SumFunctionOnSet(g, T \ {Pick(T)})
        BY <2>2, <3>2, SumPick
      <3> QED BY <3>1, <3>3
    <2> QED BY <2>1, <2>2
  <1>2. S \in G
    <2> HIDE DEF G
    <2> QED BY <1>1, SetInduction
  <1> QED BY <1>2

(* The sum of two functions.                                               *)
LEMMA SumPlus ==
  ASSUME NEW f, NEW g, NEW h, NEW S, IsFiniteSet(S),
         \A x \in S : f[x] \in Int /\ g[x] \in Int /\ h[x] = f[x] + g[x]
  PROVE  SumFunctionOnSet(h, S) = SumFunctionOnSet(f, S) + SumFunctionOnSet(g, S)
  <1> DEFINE Sum(k, T) == SumFunctionOnSet(k, T)
             G == {T \in SUBSET S : Sum(h, T) = Sum(f, T) + Sum(g, T)}
  <1>1. ASSUME NEW T \in SUBSET S, \A U \in SUBSET T : U # T => U \in G
        PROVE  T \in G
    <2>1. CASE T = {}
      BY <2>1, SumEmpty
    <2>2. CASE T # {}
      <3> DEFINE p == Pick(T)
      <3>1. p \in T /\ T \ {p} \in G
        BY <1>1, <2>2, PickIsMember
      <3>2. IsFiniteSet(T) /\ IsFiniteSet(T \ {p})
        BY FS_Subset
      <3>3. /\ Sum(f, T) = f[p] + Sum(f, T \ {p})
            /\ Sum(g, T) = g[p] + Sum(g, T \ {p})
            /\ Sum(h, T) = h[p] + Sum(h, T \ {p})
        BY <2>2, <3>2, SumPick
      <3>4. Sum(f, T \ {p}) \in Int /\ Sum(g, T \ {p}) \in Int
        BY <3>2, SumType
      <3>5. Sum(h, T \ {p}) = Sum(f, T \ {p}) + Sum(g, T \ {p})
        BY <3>1
      <3>6. f[p] \in Int /\ g[p] \in Int /\ h[p] = f[p] + g[p]
        BY <3>1
      <3>7. Sum(h, T) = Sum(f, T) + Sum(g, T)
        <4> HIDE DEF Sum, p
        <4> QED BY <3>3, <3>4, <3>5, <3>6
      <3> QED BY <3>7
    <2> QED BY <2>1, <2>2
  <1>2. S \in G
    <2> HIDE DEF G
    <2> QED BY <1>1, SetInduction
  <1> QED BY <1>2

(* What is zero does not count.                                            *)
LEMMA SumZeroOutside ==
  ASSUME NEW f, NEW S, IsFiniteSet(S), NEW R \in SUBSET S,
         \A x \in S : f[x] \in Int, \A x \in S \ R : f[x] = 0
  PROVE  SumFunctionOnSet(f, S) = SumFunctionOnSet(f, R)
  <1> DEFINE G == {T \in SUBSET S : R \subseteq T => SumFunctionOnSet(f, T) = SumFunctionOnSet(f, R)}
  <1>1. ASSUME NEW T \in SUBSET S, \A U \in SUBSET T : U # T => U \in G
        PROVE  T \in G
    <2> SUFFICES ASSUME R \subseteq T, R # T
                 PROVE  SumFunctionOnSet(f, T) = SumFunctionOnSet(f, R)
      OBVIOUS
    <2>1. PICK x \in T : x \notin R
      OBVIOUS
    <2>2. T \ {x} \in G /\ R \subseteq T \ {x}
      BY <1>1, <2>1
    <2>3. IsFiniteSet(T) /\ IsFiniteSet(R)
      BY FS_Subset
    <2>4. SumFunctionOnSet(f, T) = f[x] + SumFunctionOnSet(f, T \ {x})
      BY <2>1, <2>3, SumRemove
    <2>5. SumFunctionOnSet(f, T \ {x}) = SumFunctionOnSet(f, R) /\ SumFunctionOnSet(f, R) \in Int
      BY <2>2, <2>3, SumType
    <2>6. f[x] = 0
      BY <2>1
    <2> QED BY <2>4, <2>5, <2>6
  <1>2. S \in G
    <2> HIDE DEF G
    <2> QED BY <1>1, SetInduction
  <1> QED BY <1>2

(* The sum over one element, and over two.                                 *)
LEMMA SumOfOne ==
  ASSUME NEW f, NEW p, f[p] \in Int
  PROVE  SumFunctionOnSet(f, {p}) = f[p]
  <1>1. IsFiniteSet({p})
    BY FS_Singleton
  <1>2. SumFunctionOnSet(f, {p}) = f[p] + SumFunctionOnSet(f, {p} \ {p})
    BY <1>1, SumRemove
  <1>3. {p} \ {p} = {}
    OBVIOUS
  <1> QED BY <1>2, <1>3, SumEmpty

LEMMA SumOfTwo ==
  ASSUME NEW f, NEW p, NEW q, p # q, f[p] \in Int, f[q] \in Int
  PROVE  SumFunctionOnSet(f, {p, q}) = f[p] + f[q]
  <1>1. IsFiniteSet({p, q})
    <2>1. IsFiniteSet({q}) /\ {p, q} = {q} \cup {p}
      BY FS_Singleton
    <2> QED BY <2>1, FS_AddElement
  <1>2. SumFunctionOnSet(f, {p, q}) = f[p] + SumFunctionOnSet(f, {p, q} \ {p})
    BY <1>1, SumRemove
  <1>3. {p, q} \ {p} = {q}
    OBVIOUS
  <1> QED BY <1>2, <1>3, SumOfOne

(* A table F of integers with the sums of its lines and of its columns.    *)
Table(F, A, N, total, col, row) ==
  /\ IsFiniteSet(A) /\ IsFiniteSet(N)
  /\ \A a \in A, n \in N : F[a][n] \in Int
  /\ \A a \in A : total[a] = SumFunctionOnSet(F[a], N)
  /\ \A n \in N : \A a \in A : col[n][a] = F[a][n]
  /\ \A n \in N : row[n] = SumFunctionOnSet(col[n], A)

(* Adding up line by line or column by column is the same.                 *)
LEMMA SumExchange ==
  ASSUME NEW F, NEW A, NEW N, NEW total, NEW col, NEW row, Table(F, A, N, total, col, row)
  PROVE  SumFunctionOnSet(total, A) = SumFunctionOnSet(row, N)
  <1> USE DEF Table
  <1> DEFINE Sum(k, T) == SumFunctionOnSet(k, T)
             across(T) == [n \in N |-> Sum(col[n], T)]
             G == {T \in SUBSET A : Sum(total, T) = Sum(across(T), N)}
  <1>1. ASSUME NEW T \in SUBSET A, \A U \in SUBSET T : U # T => U \in G
        PROVE  T \in G
    <2>1. CASE T = {}
      <3>1. \A n \in N : across(T)[n] = 0
        BY <2>1, SumEmpty
      <3>2. Sum(across(T), N) = Sum(across(T), {})
        <4> HIDE DEF across
        <4> QED BY <3>1, SumZeroOutside
      <3>3. Sum(across(T), {}) = 0
        <4> HIDE DEF across
        <4> QED BY SumEmpty
      <3> QED BY <2>1, <3>2, <3>3, SumEmpty
    <2>2. CASE T # {}
      <3> DEFINE p == Pick(T)
                 rest == T \ {p}
      <3>1. p \in T /\ rest \in G
        BY <1>1, <2>2, PickIsMember
      <3>2. IsFiniteSet(T) /\ IsFiniteSet(rest)
        BY FS_Subset
      <3>3. \A n \in N : \A a \in T : col[n][a] \in Int
        OBVIOUS
      <3>4. \A n \in N : Sum(col[n], rest) \in Int
        BY <3>2, <3>3, SumType
      <3>5. \A n \in N : Sum(col[n], T) = col[n][p] + Sum(col[n], rest)
        BY <2>2, <3>2, SumPick
      <3>6. Sum(total, T) = total[p] + Sum(total, rest)
        BY <2>2, <3>2, SumPick
      <3>7. \A n \in N : /\ F[p][n] \in Int /\ across(rest)[n] \in Int
                         /\ across(T)[n] = F[p][n] + across(rest)[n]
        BY <3>1, <3>4, <3>5
      <3>8. Sum(across(T), N) = Sum(F[p], N) + Sum(across(rest), N)
        <4> HIDE DEF across, p, rest
        <4> QED BY <3>7, SumPlus
      <3>9. total[p] = Sum(F[p], N) /\ Sum(total, rest) = Sum(across(rest), N)
        BY <3>1
      <3> QED BY <3>6, <3>8, <3>9
    <2> QED BY <2>1, <2>2
  <1>2. A \in G
    <2> HIDE DEF G
    <2> QED BY <1>1, SetInduction
  <1>3. \A n \in N : across(A)[n] = row[n]
    OBVIOUS
  <1>4. Sum(across(A), N) = Sum(row, N)
    <2> HIDE DEF across
    <2> QED BY <1>3, SumSame
  <1> QED BY <1>2, <1>4

(* One element of f changed, and one more.                                 *)
Again(r, f, i, x, y) == r = Append([f EXCEPT ![i] = x], y)

LEMMA IsAgain ==
  ASSUME NEW S, NEW f, NEW i, NEW x, NEW y, NEW r, Again(r, f, i, x, y),
         f \in Seq(S), i \in DOMAIN f, x \in S, y \in S
  PROVE  /\ r \in Seq(S) /\ Len(r) = Len(f) + 1 /\ r[i] = x /\ r[Len(f) + 1] = y
         /\ \A j \in DOMAIN f : j # i => r[j] = f[j]
  <1> DEFINE s == [f EXCEPT ![i] = x]
  <1>1. /\ s \in Seq(S) /\ Len(s) = Len(f) /\ s[i] = x
        /\ \A j \in DOMAIN f : j # i => s[j] = f[j]
    OBVIOUS
  <1>2. r = Append(s, y) /\ DOMAIN f = 1 .. Len(f) /\ Len(f) \in Nat
    BY DEF Again
  <1> HIDE DEF s
  <1>3. /\ r \in Seq(S) /\ Len(r) = Len(s) + 1 /\ r[Len(s) + 1] = y
        /\ \A j \in 1 .. Len(s) : r[j] = s[j]
    BY <1>1, <1>2, AppendProperties
  <1> QED BY <1>1, <1>2, <1>3

LEMMA IntAgain ==
  ASSUME NEW f, NEW i, NEW x, NEW y, NEW r, Again(r, f, i, x, y),
         f \in Seq(Int), i \in DOMAIN f, x \in Int, y \in Int
  PROVE  /\ r \in Seq(Int) /\ Len(r) = Len(f) + 1 /\ r[i] = x
         /\ \A j \in DOMAIN f : j # i => r[j] = f[j]
  <1> DEFINE S == Int
  <1>1. f \in Seq(S) /\ x \in S /\ y \in S
    OBVIOUS
  <1> HIDE DEF S
  <1>2. /\ r \in Seq(S) /\ Len(r) = Len(f) + 1 /\ r[i] = x
        /\ \A j \in DOMAIN f : j # i => r[j] = f[j]
    BY <1>1, IsAgain
  <1> QED BY <1>2 DEF S

-----------------------------------------------------------------------------
USE LedgerAssumption

(* The invariant: what the runs check, together.                           *)
IInv == LedgerInv /\ GroupComplete /\ AskedIsMoved /\ ArchivedIsZero

(* At the start there is nothing.                                          *)
LEMMA InitInv == Init => IInv
  <1> SUFFICES ASSUME Init PROVE IInv
    OBVIOUS
  <1>1. TypeOK
    BY DEF Init, TypeOK
  <1>2. HistoryHolds /\ BaseIsFixed /\ LockedByAccount /\ ExcludedContributes /\ GroupsAreOwn
    BY DEF Init, HistoryHolds, BaseIsFixed, LockedByAccount, ExcludedContributes, GroupsAreOwn
  <1>3. GroupComplete /\ AskedIsMoved /\ ArchivedIsZero
    BY DEF Init, GroupComplete, AskedIsMoved, ArchivedIsZero
  <1> QED BY <1>1, <1>2, <1>3 DEF IInv, LedgerInv

-----------------------------------------------------------------------------
(* Rows and balances.                                                      *)

(* A row adds an integer to the balance of an account that is there.       *)
LEMMA EffectType ==
  ASSUME TypeOK, NEW a \in Accounts, NEW i \in DOMAIN rows
  PROVE  EffectOn(rows[i], a) \in Int
  <1>1. rows[i] \in Transactions
    BY DEF TypeOK
  <1>2. rows[i].amount \in Int /\ rows[i].type \in CategoryKinds \cup {"transfer", "adjustment"}
    BY <1>1 DEF Transactions
  <1> QED BY <1>2 DEF EffectOn, Signed, CategoryKinds

(* Its balance is an integer.                                              *)
LEMMA BalanceType ==
  ASSUME TypeOK, NEW a \in Accounts, accounts[a] # None
  PROVE  Balance(a) \in Int
  <1>1. accounts[a].opening.balance \in Int
    BY DEF TypeOK, AccountRecords
  <1>2. IsFiniteSet(DOMAIN rows)
    <2>1. Len(rows) \in Nat /\ DOMAIN rows = 1 .. Len(rows)
      BY DEF TypeOK
    <2> QED BY <2>1, FS_Interval
  <1>3. \A i \in DOMAIN rows : Effects(a)[i] \in Int
    BY EffectType DEF Effects
  <1>4. DOMAIN Effects(a) = DOMAIN rows
    BY DEF Effects
  <1>5. SumFunction(Effects(a)) \in Int
    BY <1>2, <1>3, <1>4, SumType DEF SumFunction
  <1> QED BY <1>1, <1>5 DEF Balance

(* A row of other accounts, or a deleted one, adds nothing.                *)
LEMMA NoEffect ==
  ASSUME NEW t, NEW a \in Accounts, t.deleted \/ (t.from # a /\ t.to # a)
  PROVE  EffectOn(t, a) = 0
  BY DEF EffectOn, Touched

(* Row numbers.                                                            *)
LEMMA RowNumbers ==
  ASSUME TypeOK
  PROVE  Len(rows) \in Nat /\ DOMAIN rows = 1 .. Len(rows) /\ IsFiniteSet(DOMAIN rows)
  <1>1. Len(rows) \in Nat /\ DOMAIN rows = 1 .. Len(rows)
    BY DEF TypeOK
  <1> QED BY <1>1, FS_Interval

(* The balance of an account is kept by a step that changes neither its    *)
(* opening nor what the old rows add to it, and inserts rows of others.    *)
LEMMA BalanceKept ==
  ASSUME TypeOK, TypeOK', NEW a \in Accounts,
         accounts[a] # None, accounts'[a].opening = accounts[a].opening,
         Len(rows) <= Len(rows'),
         \A j \in 1 .. Len(rows) : EffectOn(rows[j], a)' = EffectOn(rows[j], a),
         \A j \in 1 .. Len(rows') : j > Len(rows) => EffectOn(rows[j], a)' = 0
  PROVE  Balance(a)' = Balance(a)
  <1> DEFINE old == Effects(a)
             new == Effects(a)'
             R == 1 .. Len(rows)
             S == 1 .. Len(rows')
  <1>1. /\ Len(rows) \in Nat /\ DOMAIN rows = R /\ IsFiniteSet(R)
        /\ Len(rows') \in Nat /\ DOMAIN rows' = S /\ IsFiniteSet(S)
    <2>1. Len(rows) \in Nat /\ DOMAIN rows = R /\ Len(rows') \in Nat /\ DOMAIN rows' = S
      BY DEF TypeOK
    <2> QED BY <2>1, FS_Interval
  <1>2. DOMAIN old = R /\ \A j \in R : old[j] = EffectOn(rows[j], a) /\ old[j] \in Int
    BY <1>1, EffectType DEF Effects
  <1>3. DOMAIN new = S /\ \A j \in S : new[j] = EffectOn(rows[j], a)'
    BY <1>1 DEF Effects
  <1>4. \A j \in R : j \in S /\ new[j] = old[j]
    BY <1>1, <1>2, <1>3
  <1>5. \A j \in S \ R : new[j] = 0
    BY <1>1, <1>3
  <1>6. \A j \in S : new[j] \in Int
    BY <1>2, <1>4, <1>5
  <1>7. SumFunctionOnSet(new, S) = SumFunctionOnSet(new, R)
    <2> HIDE DEF new, S, R
    <2>1. R \in SUBSET S
      BY <1>4
    <2> QED BY <1>1, <1>5, <1>6, <2>1, SumZeroOutside
  <1>8. SumFunctionOnSet(new, R) = SumFunctionOnSet(old, R)
    <2> HIDE DEF new, old, S, R
    <2> QED BY <1>1, <1>4, SumSame
  <1>9. SumFunction(new) = SumFunction(old)
    BY <1>2, <1>3, <1>7, <1>8 DEF SumFunction
  <1> QED BY <1>9 DEF Balance

(* As by one that leaves its row and the transactions alone.               *)
LEMMA BalanceStays ==
  ASSUME TypeOK, TypeOK', NEW a \in Accounts, accounts[a] # None,
         rows' = rows,
         accounts'[a].nature = accounts[a].nature, accounts'[a].opening = accounts[a].opening
  PROVE  Balance(a)' = Balance(a)
  <1>1. \A j \in 1 .. Len(rows) : EffectOn(rows[j], a)' = EffectOn(rows[j], a)
    BY DEF EffectOn, Touched
  <1>2. Len(rows) \in Nat
    BY RowNumbers
  <1> QED BY <1>1, <1>2, BalanceKept

-----------------------------------------------------------------------------
(* Settings, accounts and categories: the rows stay.                       *)

(* What the rows say by themselves stays.                                  *)
LEMMA RowsStay ==
  ASSUME IInv, UNCHANGED <<rows, asked>>
  PROVE  GroupsAreOwn' /\ GroupComplete' /\ AskedIsMoved'
  <1>1. GroupsAreOwn'
    BY DEF IInv, LedgerInv, GroupsAreOwn
  <1>2. GroupComplete'
    BY DEF IInv, GroupComplete, GroupExpenses
  <1>3. AskedIsMoved'
    BY DEF IInv, AskedIsMoved, FeeOf, GroupExpenses
  <1> QED BY <1>1, <1>2, <1>3

(* The settings are made, or changed before there is an account.           *)
LEMMA SettingsKeep ==
  ASSUME IInv, NEW b \in Bases, CreateSettings(b) \/ PatchSettings(b)
  PROVE  IInv'
  <1> DEFINE Op == CreateSettings(b) \/ PatchSettings(b)
  <1> USE DEF IInv, LedgerInv
  <1>1. UNCHANGED <<accounts, categories, rows, excluded, asked>>
    BY DEF CreateSettings, PatchSettings
  <1>2. settings' \in SettingsRecords
    <2>1. CASE CreateSettings(b)
      BY <2>1 DEF CreateSettings, SettingsRecords
    <2>2. CASE PatchSettings(b)
      <3>1. settings \in SettingsRecords
        BY <2>2 DEF PatchSettings, TypeOK
      <3> QED BY <2>2, <3>1 DEF PatchSettings, SettingsRecords
    <2> QED BY <2>1, <2>2
  <1>3. TypeOK'
    BY <1>1, <1>2 DEF TypeOK
  <1>4. HistoryHolds'
    BY <1>1 DEF HistoryHolds, RowHolds, KindFits, Candidate, CategoryKind
  <1>5. LockedByAccount' /\ BaseIsFixed'
    <2>1. settings' # None
      BY <1>2
    <2>2. CASE settings = None
      BY <1>1, <2>2 DEF LockedByAccount, BaseIsFixed
    <2>3. CASE settings # None
      <3>1. PatchSettings(b)
        BY <2>3 DEF CreateSettings
      <3>2. settings'.locked = settings.locked /\ (settings.locked => settings'.base = settings.base)
        BY <2>3, <3>1 DEF PatchSettings, TypeOK, SettingsRecords
      <3> QED BY <1>1, <2>1, <3>2 DEF LockedByAccount, BaseIsFixed
    <2> QED BY <2>2, <2>3
  <1>6. ExcludedContributes'
    BY <1>1 DEF ExcludedContributes
  <1>7. ArchivedIsZero'
    <2>1. \A a \in Accounts : accounts[a] # None => Balance(a)' = Balance(a)
      BY <1>1, <1>3, BalanceStays
    <2> QED BY <1>1, <2>1 DEF ArchivedIsZero
  <1> QED BY <1>1, <1>3, <1>4, <1>5, <1>6, <1>7, RowsStay

(* History holds when its accounts keep their nature and opening.          *)
LEMMA HistoryStays ==
  ASSUME TypeOK, HistoryHolds, rows' = rows, categories' = categories,
         \A i \in DOMAIN rows : \A a \in Touched(rows[i]) :
           /\ accounts'[a] # None
           /\ accounts'[a].nature = accounts[a].nature
           /\ accounts'[a].opening = accounts[a].opening
  PROVE  HistoryHolds'
  <1> SUFFICES ASSUME NEW i \in DOMAIN rows PROVE RowHolds(rows[i])'
    BY DEF HistoryHolds
  <1> DEFINE t == rows[i]
  <1>1. RowHolds(t) /\ t \in Transactions
    BY DEF HistoryHolds, TypeOK
  <1>2. t.from \in Touched(t) /\ (t.to # None => t.to \in Touched(t))
    BY <1>1 DEF Touched, Transactions
  <1>3. \A a \in Touched(t)' : accounts'[a] # None /\ accounts'[a].opening.day <= t'.day
    BY <1>1 DEF RowHolds, Touched
  <1>4. (t.type = "transfer" => t.from # t.to /\ KindFits(t.kind, t.from, t.to))'
    BY <1>1, <1>2 DEF RowHolds, KindFits
  <1>5. (t.type = "transfer" <=> t.to # None)' /\ (t.category # None => Candidate(t.category, t.type))'
    BY <1>1 DEF RowHolds, Candidate, CategoryKind
  <1> QED BY <1>3, <1>4, <1>5 DEF RowHolds

(* A step that writes account a and maybe the lock of the settings.        *)
LEMMA AccountWritten ==
  ASSUME IInv, NEW a \in Accounts, NEW r \in AccountRecords \cup {None},
         accounts' = [accounts EXCEPT ![a] = r], settings' \in SettingsRecords \cup {None},
         UNCHANGED <<categories, rows, excluded, asked>>,
         r # None => /\ settings' # None /\ settings'.locked
                     /\ r.base = settings'.base,
         \A b \in Accounts : accounts[b] # None => settings' = settings,
         HasAccountHistory(a) =>
           /\ r # None
           /\ r.nature = accounts[a].nature /\ r.opening = accounts[a].opening,
         r # None /\ r.archived => Balance(a)' = 0
  PROVE  IInv'
  <1> USE DEF IInv, LedgerInv
  <1>1. accounts' \in [Accounts -> AccountRecords \cup {None}]
    BY DEF TypeOK
  <1>2. TypeOK'
    BY <1>1 DEF TypeOK
  <1>3. \A b \in Accounts : b # a => accounts'[b] = accounts[b]
    BY DEF TypeOK
  <1>4. accounts'[a] = r
    BY DEF TypeOK
  <1>5. HistoryHolds'
    <2>1. ASSUME NEW i \in DOMAIN rows, NEW b \in Touched(rows[i])
          PROVE  /\ accounts'[b] # None
                 /\ accounts'[b].nature = accounts[b].nature
                 /\ accounts'[b].opening = accounts[b].opening
      <3>1. b \in Accounts /\ accounts[b] # None
        <4>1. rows[i] \in Transactions /\ RowHolds(rows[i])
          BY DEF TypeOK, HistoryHolds
        <4>2. b \in Accounts
          BY <4>1, <2>1 DEF Transactions, Touched
        <4> QED BY <4>1, <4>2, <2>1 DEF RowHolds
      <3>2. b = a => HasAccountHistory(a)
        BY <2>1 DEF HasAccountHistory
      <3> QED BY <3>1, <3>2, <1>3, <1>4
    <2> QED BY <2>1, HistoryStays
  <1>6. LockedByAccount' /\ BaseIsFixed'
    BY <1>3, <1>4 DEF LockedByAccount, BaseIsFixed
  <1>7. ExcludedContributes'
    BY DEF ExcludedContributes
  <1>8. ArchivedIsZero'
    <2>1. \A b \in Accounts : b # a /\ accounts[b] # None => Balance(b)' = Balance(b)
      BY <1>2, <1>3, BalanceStays
    <2> QED BY <2>1, <1>3, <1>4 DEF ArchivedIsZero
  <1> QED BY <1>2, <1>5, <1>6, <1>7, <1>8, RowsStay

(* A new account has no rows.                                              *)
LEMMA CreateAccountKeeps ==
  ASSUME IInv, NEW a \in Accounts, NEW n \in Natures, NEW o \in Openings,
         CreateAccount(a, n, o)
  PROVE  IInv'
  <1> DEFINE r == [nature |-> n, opening |-> o, base |-> settings.base, archived |-> FALSE]
  <1> USE DEF IInv, LedgerInv
  <1>1. settings \in SettingsRecords /\ settings' = [settings EXCEPT !.locked = TRUE]
    BY DEF CreateAccount, TypeOK
  <1>2. /\ settings' \in SettingsRecords /\ settings'.locked
        /\ settings'.base = settings.base
    BY <1>1 DEF SettingsRecords
  <1>3. r \in AccountRecords
    BY <1>1 DEF AccountRecords, SettingsRecords
  <1>4. ~HasAccountHistory(a)
    BY DEF CreateAccount, HasAccountHistory, HistoryHolds, RowHolds
  <1>5. \A b \in Accounts : accounts[b] # None => settings' = settings
    BY <1>1 DEF LockedByAccount, SettingsRecords
  <1>6. settings' # None
    BY <1>2
  <1>7. accounts' = [accounts EXCEPT ![a] = r] /\ UNCHANGED <<categories, rows, excluded, asked>>
    BY DEF CreateAccount
  <1>8. ~r.archived /\ r.base = settings'.base
    BY <1>2
  <1> HIDE DEF r, IInv
  <1> QED BY <1>2, <1>3, <1>4, <1>5, <1>6, <1>7, <1>8, AccountWritten

(* The financial fields change before there is a row.                      *)
LEMMA PatchAccountKeeps ==
  ASSUME IInv, NEW a \in Accounts, NEW n \in Natures, NEW o \in Openings,
         PatchAccount(a, n, o)
  PROVE  IInv'
  <1> DEFINE r == [accounts[a] EXCEPT !.nature = n, !.opening = o]
  <1> USE DEF IInv, LedgerInv
  <1>1. accounts[a] \in AccountRecords /\ ~accounts[a].archived /\ ~HasAccountHistory(a)
    BY DEF PatchAccount, Active, TypeOK
  <1>2. r \in AccountRecords /\ r.base = accounts[a].base /\ ~r.archived
    BY <1>1 DEF AccountRecords
  <1>3. accounts' = [accounts EXCEPT ![a] = r]
    BY <1>1 DEF PatchAccount, TypeOK
  <1>4. UNCHANGED <<settings, categories, rows, excluded, asked>>
    BY DEF PatchAccount
  <1>5. settings # None /\ settings.locked /\ r.base = settings.base
    BY <1>1, <1>2 DEF LockedByAccount, BaseIsFixed
  <1>6. settings' \in SettingsRecords \cup {None}
    BY <1>4 DEF TypeOK
  <1> HIDE DEF r, IInv
  <1> QED BY <1>1, <1>2, <1>3, <1>4, <1>5, <1>6, AccountWritten

(* An account without rows may go.                                         *)
LEMMA DeleteAccountKeeps ==
  ASSUME IInv, NEW a \in Accounts, DeleteAccount(a)
  PROVE  IInv'
  <1>1. accounts' = [accounts EXCEPT ![a] = None] /\ ~HasAccountHistory(a)
    BY DEF DeleteAccount
  <1>2. UNCHANGED <<settings, categories, rows, excluded, asked>>
    BY DEF DeleteAccount
  <1>3. settings' \in SettingsRecords \cup {None}
    BY <1>2 DEF IInv, LedgerInv, TypeOK
  <1> QED BY <1>1, <1>2, <1>3, AccountWritten

(* An account is archived at zero, and restored at any time.               *)
LEMMA ArchiveKeeps ==
  ASSUME IInv, NEW a \in Accounts, ArchiveAccount(a) \/ RestoreAccount(a)
  PROVE  IInv'
  <1> DEFINE r == [accounts[a] EXCEPT !.archived = ~accounts[a].archived]
  <1> USE DEF IInv, LedgerInv
  <1>1. accounts[a] \in AccountRecords
    BY DEF ArchiveAccount, RestoreAccount, Active, TypeOK
  <1>2. /\ r \in AccountRecords /\ r.base = accounts[a].base
        /\ r.nature = accounts[a].nature /\ r.opening = accounts[a].opening
        /\ r.archived = ~accounts[a].archived
    BY <1>1 DEF AccountRecords
  <1>3. accounts' = [accounts EXCEPT ![a] = r]
    <2>1. CASE ArchiveAccount(a)
      BY <2>1, <1>1 DEF ArchiveAccount, Active, TypeOK, AccountRecords
    <2>2. CASE RestoreAccount(a)
      BY <2>2, <1>1 DEF RestoreAccount, TypeOK, AccountRecords
    <2> QED BY <2>1, <2>2
  <1>4. UNCHANGED <<settings, categories, rows, excluded, asked>>
    BY DEF ArchiveAccount, RestoreAccount
  <1>5. settings # None /\ settings.locked /\ r.base = settings.base
    BY <1>1, <1>2 DEF LockedByAccount, BaseIsFixed
  <1>6. settings' \in SettingsRecords \cup {None}
    BY <1>4 DEF TypeOK
  <1>7. r.archived => Balance(a)' = 0
    <2> SUFFICES ASSUME r.archived PROVE Balance(a)' = 0
      OBVIOUS
    <2>1. Balance(a) = 0
      BY <1>2 DEF ArchiveAccount, RestoreAccount
    <2>2. accounts'[a] = r
      BY <1>3 DEF TypeOK
    <2>3. TypeOK'
      BY <1>2, <1>3, <1>4 DEF TypeOK
    <2>4. Balance(a)' = Balance(a)
      <3> HIDE DEF r
      <3> QED BY <1>1, <1>2, <1>4, <2>2, <2>3, BalanceStays
    <2> QED BY <2>1, <2>4
  <1> HIDE DEF r, IInv
  <1> QED BY <1>1, <1>2, <1>3, <1>4, <1>5, <1>6, <1>7, AccountWritten

(* A category that rows have is neither changed nor removed.               *)
LEMMA CategoriesKeep ==
  ASSUME IInv, CategoryOps
  PROVE  IInv'
  <1> USE DEF IInv, LedgerInv
  <1> DEFINE Fine(c, value) ==
               /\ SetCategory(c, value)
               /\ categories[c] = None \/ ~HasCategoryHistory(c) \/ categories[c].archived
  <1>1. PICK c \in Own, value \in CategoryRecords \cup {None} : Fine(c, value)
    <2>1. PICK c \in Own :
            \/ ArchiveCategory(c) \/ RestoreCategory(c) \/ DeleteCategory(c)
            \/ \E k \in CategoryKinds : CreateCategory(c, k) \/ PatchCategory(c, k)
      BY DEF CategoryOps
    <2>2. categories[c] # None => categories[c] \in CategoryRecords
      BY DEF TypeOK
    <2>3. CASE ArchiveCategory(c)
      BY <2>2, <2>3 DEF ArchiveCategory, CategoryRecords
    <2>4. CASE RestoreCategory(c)
      BY <2>2, <2>4 DEF RestoreCategory, CategoryRecords
    <2>5. CASE DeleteCategory(c)
      BY <2>5 DEF DeleteCategory
    <2>6. ASSUME NEW k \in CategoryKinds, CreateCategory(c, k)
          PROVE  \E value \in CategoryRecords \cup {None} : Fine(c, value)
      BY <2>6 DEF CreateCategory, CategoryRecords
    <2>7. ASSUME NEW k \in CategoryKinds, PatchCategory(c, k)
          PROVE  \E value \in CategoryRecords \cup {None} : Fine(c, value)
      BY <2>2, <2>7 DEF PatchCategory, CategoryRecords
    <2> QED BY <2>1, <2>3, <2>4, <2>5, <2>6, <2>7
  <1>2. categories' = [categories EXCEPT ![c] = value]
    BY <1>1 DEF SetCategory
  <1>3. UNCHANGED <<settings, accounts, rows, excluded, asked>>
    BY <1>1 DEF SetCategory
  <1>4. TypeOK'
    BY <1>2, <1>3 DEF TypeOK
  <1>5. HistoryHolds'
    <2> SUFFICES ASSUME NEW i \in DOMAIN rows PROVE RowHolds(rows[i])'
      BY <1>3 DEF HistoryHolds
    <2> DEFINE t == rows[i]
    <2>1. RowHolds(t)
      BY DEF HistoryHolds
    <2>2. t.category # None => t.category # c
      BY <1>1, <2>1 DEF HasCategoryHistory, RowHolds, Candidate
    <2>3. t.category \in Own => categories'[t.category] = categories[t.category] \/ t.category = None
      BY <1>2, <2>2 DEF TypeOK
    <2>4. (t.category # None => Candidate(t.category, t.type))'
      BY <1>3, <2>1, <2>3 DEF RowHolds, Candidate, CategoryKind
    <2> QED BY <1>3, <2>1, <2>4 DEF RowHolds, Touched, KindFits
  <1>6. LockedByAccount' /\ BaseIsFixed' /\ ExcludedContributes'
    BY <1>3 DEF LockedByAccount, BaseIsFixed, ExcludedContributes
  <1>7. ArchivedIsZero'
    <2>1. \A a \in Accounts : accounts[a] # None => Balance(a)' = Balance(a)
      BY <1>3, <1>4, BalanceStays
    <2> QED BY <1>3, <2>1 DEF ArchivedIsZero
  <1> QED BY <1>3, <1>4, <1>5, <1>6, <1>7, RowsStay

(* Statistics: what is excluded contributes.                               *)
LEMMA StatisticsKeep ==
  ASSUME IInv, NEW i \in DOMAIN rows, ExcludeFromStatistics(i) \/ RestoreToStatistics(i)
  PROVE  IInv'
  <1> USE DEF IInv, LedgerInv
  <1>1. UNCHANGED <<settings, accounts, categories, rows, asked>>
    BY DEF ExcludeFromStatistics, RestoreToStatistics, tables
  <1>2. TypeOK'
    BY <1>1 DEF TypeOK, ExcludeFromStatistics, RestoreToStatistics
  <1>3. ExcludedContributes'
    BY <1>1 DEF ExcludedContributes, ExcludeFromStatistics, RestoreToStatistics, Eligible
  <1>4. HistoryHolds' /\ LockedByAccount' /\ BaseIsFixed'
    <2>1. HistoryHolds'
      BY <1>1 DEF HistoryHolds, RowHolds, KindFits, Candidate, CategoryKind
    <2>2. LockedByAccount' /\ BaseIsFixed'
      BY <1>1 DEF LockedByAccount, BaseIsFixed
    <2> QED BY <2>1, <2>2
  <1>5. ArchivedIsZero'
    <2>1. \A a \in Accounts : accounts[a] # None => Balance(a)' = Balance(a)
      BY <1>1, <1>2, BalanceStays
    <2> QED BY <1>1, <2>1 DEF ArchivedIsZero
  <1> QED BY <1>1, <1>2, <1>3, <1>4, <1>5, RowsStay

-----------------------------------------------------------------------------
(* Transactions: the tables stay.                                          *)

(* A row that adds nothing to an archived account.                         *)
Idle(t) == t.deleted \/ \A a \in Touched(t) : Active(a)

(* The rows change: each one holds, and those that are changed or new add  *)
(* nothing to an archived account, before or after.                        *)
LEMMA RowsChange ==
  ASSUME IInv, TypeOK', UNCHANGED tables, Len(rows) <= Len(rows'),
         \A j \in DOMAIN rows' : RowHolds(rows'[j]),
         \A j \in DOMAIN rows : rows'[j] = rows[j] \/ (Idle(rows[j]) /\ Idle(rows'[j])),
         \A j \in DOMAIN rows' : j > Len(rows) => Idle(rows'[j]),
         ExcludedContributes', GroupsAreOwn', GroupComplete', AskedIsMoved'
  PROVE  IInv'
  <1> USE DEF IInv, LedgerInv
  <1>1. UNCHANGED <<settings, accounts, categories>>
    BY DEF tables
  <1>2. HistoryHolds'
    BY <1>1 DEF HistoryHolds, RowHolds, KindFits, Candidate, CategoryKind
  <1>3. LockedByAccount' /\ BaseIsFixed'
    BY <1>1 DEF LockedByAccount, BaseIsFixed
  <1>4. ArchivedIsZero'
    <2> SUFFICES ASSUME NEW a \in Accounts, accounts[a] # None, accounts[a].archived
                 PROVE  Balance(a)' = 0
      BY <1>1 DEF ArchivedIsZero
    <2>1. Balance(a) = 0
      BY DEF ArchivedIsZero
    <2>2. \A t : Idle(t) => EffectOn(t, a) = 0
      BY DEF Idle, Active, EffectOn
    <2>3. \A j : EffectOn(rows[j], a)' = EffectOn(rows'[j], a)
      BY <1>1 DEF EffectOn
    <2>4. /\ DOMAIN rows = 1 .. Len(rows) /\ Len(rows) \in Nat
          /\ DOMAIN rows' = 1 .. Len(rows') /\ Len(rows') \in Nat
      BY DEF TypeOK
    <2>5. \A j \in 1 .. Len(rows) : EffectOn(rows[j], a)' = EffectOn(rows[j], a)
      <3> SUFFICES ASSUME NEW j \in 1 .. Len(rows)
                   PROVE  EffectOn(rows'[j], a) = EffectOn(rows[j], a)
        BY <2>3
      <3>1. rows'[j] = rows[j] \/ (Idle(rows[j]) /\ Idle(rows'[j]))
        BY <2>4
      <3> QED BY <2>2, <3>1
    <2>6. \A j \in 1 .. Len(rows') : j > Len(rows) => EffectOn(rows[j], a)' = 0
      BY <2>2, <2>3, <2>4
    <2>7. Balance(a)' = Balance(a)
      BY <1>1, <2>5, <2>6, BalanceKept
    <2> QED BY <2>1, <2>7
  <1> QED BY <1>2, <1>3, <1>4

(* The groups in a table of rows, each companion at the number of its      *)
(* group; and what the transfers move.                                     *)
Twin(t, j, x) == [CompanionOf(t, j, x) EXCEPT !.deleted = t.deleted]

Paired(rs) ==
  /\ \A j \in DOMAIN rs : rs[j].type # "transfer" /\ rs[j].group # None =>
       rs[j].type = "expense" /\ rs[j].group = j
  /\ \A i, k \in DOMAIN rs :
       /\ rs[i].type = "transfer" /\ rs[k].type = "transfer"
       /\ rs[i].group # None /\ rs[i].group = rs[k].group
       => i = k
  /\ \A i \in DOMAIN rs : rs[i].type = "transfer" /\ rs[i].group # None =>
       LET j == rs[i].group
       IN  /\ j \in DOMAIN rs
           /\ rs[j] = Twin(rs[i], j, rs[j].amount)
  /\ \A j \in DOMAIN rs : rs[j].type = "expense" /\ rs[j].group # None /\ ~rs[j].deleted =>
       \E i \in DOMAIN rs : rs[i].type = "transfer" /\ rs[i].group = rs[j].group

FeeIn(rs, i) == IF rs[i].group = None THEN 0 ELSE rs[rs[i].group].amount

Moved(rs, as) ==
  \A i \in DOMAIN rs : rs[i].type = "transfer" /\ ~rs[i].deleted =>
    Arriving(as[i], FeeIn(rs, i), rs[i].mode) = rs[i].amount

(* A companion is the expense of its group.                                *)
LEMMA TwinIs ==
  \A t, j, x : /\ Twin(t, j, x).type = "expense" /\ Twin(t, j, x).group = j
               /\ Twin(t, j, x).amount = x /\ Twin(t, j, x).deleted = t.deleted
               /\ Twin(t, j, x).from = t.from /\ Twin(t, j, x).to = None
               /\ Twin(t, j, x).day = t.day /\ Twin(t, j, x).kind = None
  BY DEF Twin, CompanionOf, Entry

(* The group of a transfer has its companion alone.                        *)
LEMMA PairedGroup ==
  ASSUME Paired(rows), NEW i \in DOMAIN rows, rows[i].type = "transfer"
  PROVE  /\ rows[i].group = None => GroupExpenses(i) = {}
         /\ rows[i].group # None => GroupExpenses(i) = {rows[i].group}
         /\ FeeOf(i) = FeeIn(rows, i)
  <1>1. CASE rows[i].group = None
    BY <1>1 DEF GroupExpenses, FeeOf, FeeIn
  <1>2. CASE rows[i].group # None
    <2> DEFINE g == rows[i].group
    <2>1. g \in DOMAIN rows /\ rows[g].type = "expense" /\ rows[g].group = g
      <3>1. g \in DOMAIN rows
        BY <1>2 DEF Paired
      <3>2. rows[g] = Twin(rows[i], g, rows[g].amount)
        BY <1>2 DEF Paired
      <3>3. rows[g].type = "expense" /\ rows[g].group = g
        BY <3>2, TwinIs
      <3> QED BY <3>1, <3>3
    <2>2. GroupExpenses(i) = {g}
      BY <1>2, <2>1 DEF Paired, GroupExpenses
    <2>3. FeeOf(i) = rows[g].amount
      BY <1>2, <2>2 DEF FeeOf
    <2> QED BY <1>2, <2>2, <2>3 DEF FeeIn
  <1> QED BY <1>1, <1>2

(* The properties say just that.                                           *)
LEMMA PairedIsComplete ==
  TypeOK => (GroupsAreOwn /\ GroupComplete <=> Paired(rows))
  <1>0. SUFFICES ASSUME TypeOK PROVE GroupsAreOwn /\ GroupComplete <=> Paired(rows)
    OBVIOUS
  <1>1. ASSUME GroupsAreOwn, GroupComplete PROVE Paired(rows)
    <2>1. ASSUME NEW i \in DOMAIN rows, rows[i].type = "transfer", rows[i].group # None
          PROVE  LET j == rows[i].group
                 IN  /\ j \in DOMAIN rows
                     /\ rows[j] = Twin(rows[i], j, rows[j].amount)
      <3>1. PICK j \in GroupExpenses(i) :
               rows[j] = Twin(rows[i], rows[i].group, rows[j].amount)
        BY <1>1, <2>1 DEF GroupComplete, Twin
      <3>2. j \in DOMAIN rows /\ rows[j].group = rows[i].group /\ rows[j].type = "expense"
        BY DEF GroupExpenses
      <3>3. j = rows[i].group
        BY <1>1, <2>1, <3>2 DEF GroupsAreOwn
      <3> QED BY <3>1, <3>2, <3>3
    <2> QED BY <1>1, <2>1 DEF Paired, GroupsAreOwn, GroupComplete
  <1>2. ASSUME Paired(rows) PROVE GroupsAreOwn /\ GroupComplete
    <2>1. ASSUME NEW i \in DOMAIN rows, rows[i].type = "transfer", rows[i].group # None
          PROVE  \E j \in GroupExpenses(i) :
                   /\ GroupExpenses(i) = {j}
                   /\ rows[j] = Twin(rows[i], rows[i].group, rows[j].amount)
      <3>1. GroupExpenses(i) = {rows[i].group}
        BY <1>2, <2>1, PairedGroup
      <3> QED BY <1>2, <2>1, <3>1 DEF Paired
    <2> QED BY <1>2, <2>1 DEF Paired, GroupsAreOwn, GroupComplete, Twin
  <1> QED BY <1>1, <1>2

LEMMA MovedIsAsked ==
  Paired(rows) => (AskedIsMoved <=> Moved(rows, asked))
  BY PairedGroup DEF AskedIsMoved, Moved

(* The same of the next state.                                             *)
LEMMA PairedNext ==
  TypeOK' /\ Paired(rows)' => GroupsAreOwn' /\ GroupComplete'
  BY PairedIsComplete, PTL

LEMMA MovedNext ==
  Paired(rows)' /\ Moved(rows, asked)' => AskedIsMoved'
  BY MovedIsAsked, PTL

-----------------------------------------------------------------------------
(* New transactions.                                                       *)

(* The rows and the amounts after an insertion.                            *)
LEMMA Inserted ==
  ASSUME TypeOK, NEW ts \in Seq(Transactions), NEW x \in Int, Insert(ts, x)
  PROVE  /\ rows' \in Seq(Transactions) /\ asked' \in Seq(Int)
         /\ Len(rows') = Len(rows) + Len(ts) /\ Len(rows') <= MaxRows
         /\ Len(asked') = Len(rows')
         /\ \A j \in 1 .. Len(rows) : rows'[j] = rows[j] /\ asked'[j] = asked[j]
         /\ \A k \in 1 .. Len(ts) : rows'[Len(rows) + k] = ts[k]
         /\ Len(ts) > 0 => asked'[Len(rows) + 1] = x
  <1> DEFINE s == [i \in DOMAIN ts |-> IF i = 1 THEN x ELSE ts[i].amount]
  <1>1. \A i \in DOMAIN ts : ts[i] \in Transactions
    OBVIOUS
  <1>2. \A i \in DOMAIN ts : ts[i].amount \in Int
    BY <1>1 DEF Transactions
  <1>3. s \in Seq(Int) /\ Len(s) = Len(ts)
    BY <1>2
  <1>4. rows \in Seq(Transactions) /\ asked \in Seq(Int) /\ Len(asked) = Len(rows)
    BY DEF TypeOK
  <1>5. rows' = rows \o ts /\ asked' = asked \o s /\ Len(rows) + Len(ts) <= MaxRows
    BY DEF Insert
  <1>6. Len(ts) > 0 => s[1] = x
    OBVIOUS
  <1> HIDE DEF s
  <1>7. /\ rows \o ts \in Seq(Transactions) /\ Len(rows \o ts) = Len(rows) + Len(ts)
        /\ \A i \in 1 .. Len(rows) + Len(ts) :
             (rows \o ts)[i] = IF i <= Len(rows) THEN rows[i] ELSE ts[i - Len(rows)]
    BY <1>4, ConcatProperties
  <1>8. /\ asked \o s \in Seq(Int) /\ Len(asked \o s) = Len(asked) + Len(s)
        /\ \A i \in 1 .. Len(asked) + Len(s) :
             (asked \o s)[i] = IF i <= Len(asked) THEN asked[i] ELSE s[i - Len(asked)]
    <2> DEFINE I == Int
    <2>1. asked \in Seq(I) /\ s \in Seq(I)
      BY <1>3, <1>4
    <2> HIDE DEF I
    <2>2. /\ asked \o s \in Seq(I) /\ Len(asked \o s) = Len(asked) + Len(s)
          /\ \A i \in 1 .. Len(asked) + Len(s) :
               (asked \o s)[i] = IF i <= Len(asked) THEN asked[i] ELSE s[i - Len(asked)]
      BY <2>1, ConcatProperties
    <2> QED BY <2>2 DEF I
  <1>9. Len(rows) \in Nat /\ Len(ts) \in Nat
    BY <1>4
  <1>10. \A k \in 1 .. Len(ts) : rows'[Len(rows) + k] = ts[k]
    BY <1>5, <1>7, <1>9
  <1>11. \A j \in 1 .. Len(rows) : rows'[j] = rows[j] /\ asked'[j] = asked[j]
    BY <1>3, <1>4, <1>5, <1>7, <1>8, <1>9
  <1>12. Len(ts) > 0 => asked'[Len(rows) + 1] = x
    <2> SUFFICES ASSUME Len(ts) > 0 PROVE asked'[Len(rows) + 1] = x
      OBVIOUS
    <2>1. (asked \o s)[Len(rows) + 1] = s[(Len(rows) + 1) - Len(rows)]
      BY <1>3, <1>4, <1>8, <1>9
    <2>2. (Len(rows) + 1) - Len(rows) = 1
      BY <1>9
    <2> QED BY <1>5, <1>6, <2>1, <2>2
  <1> QED BY <1>3, <1>4, <1>5, <1>7, <1>8, <1>10, <1>11, <1>12

(* A row that is checked when it is entered.                               *)
Sound(t) ==
  /\ t \in Transactions /\ t.amount # 0 /\ (t.type # "adjustment" => t.amount > 0)
  /\ RowHolds(t) /\ Idle(t)

Checked(t) == Sound(t) /\ ~t.deleted

(* One row, without a group.                                               *)
LEMMA InsertOne ==
  ASSUME IInv, UNCHANGED <<tables, excluded>>, NEW e, NEW x \in Int, Checked(e),
         Insert(<<e>>, x), e.group = None, e.type = "transfer" => e.amount = x
  PROVE  IInv'
  <1> DEFINE n == Len(rows)
  <1> USE DEF IInv, LedgerInv
  <1>1. <<e>> \in Seq(Transactions) /\ Len(<<e>>) = 1 /\ <<e>>[1] = e
    BY DEF Checked, Sound
  <1>2. /\ rows' \in Seq(Transactions) /\ asked' \in Seq(Int)
        /\ Len(rows') = n + 1 /\ n + 1 <= MaxRows /\ Len(asked') = n + 1
        /\ \A j \in 1 .. n : rows'[j] = rows[j] /\ asked'[j] = asked[j]
        /\ rows'[n + 1] = e /\ asked'[n + 1] = x
    <2> DEFINE ts == <<e>>
    <2>1. ts \in Seq(Transactions) /\ Len(ts) = 1 /\ ts[1] = e /\ Insert(ts, x)
      BY <1>1
    <2>2. /\ rows' \in Seq(Transactions) /\ asked' \in Seq(Int)
          /\ Len(rows') = n + Len(ts) /\ Len(rows') <= MaxRows /\ Len(asked') = Len(rows')
          /\ \A j \in 1 .. n : rows'[j] = rows[j] /\ asked'[j] = asked[j]
          /\ \A k \in 1 .. Len(ts) : rows'[n + k] = ts[k]
          /\ Len(ts) > 0 => asked'[n + 1] = x
      <3> HIDE DEF ts
      <3> QED BY <2>1, Inserted
    <2>3. 1 \in 1 .. Len(ts)
      BY <2>1
    <2>4. rows'[n + 1] = e
      BY <2>1, <2>2, <2>3
    <2> HIDE DEF ts, n
    <2> QED BY <2>1, <2>2, <2>4
  <1>3. /\ n \in Nat /\ DOMAIN rows = 1 .. n /\ DOMAIN rows' = 1 .. (n + 1)
        /\ rows \in Seq(Transactions) /\ asked \in Seq(Int) /\ excluded \subseteq DOMAIN rows
    BY <1>2 DEF TypeOK
  <1>4. UNCHANGED <<settings, accounts, categories, excluded>>
    BY DEF tables
  <1>5. \A j \in DOMAIN rows' : (j \in 1 .. n /\ rows'[j] = rows[j]) \/ (j = n + 1 /\ rows'[j] = e)
    <2> SUFFICES ASSUME NEW j \in 1 .. (n + 1)
                 PROVE  (j \in 1 .. n /\ rows'[j] = rows[j]) \/ (j = n + 1 /\ rows'[j] = e)
      BY <1>3
    <2>1. j \in 1 .. n \/ j = n + 1
      BY <1>3
    <2> QED BY <1>2, <2>1
  <1>6. TypeOK'
    <2>1. \A j \in DOMAIN rows' :
            rows'[j].amount # 0 /\ (rows'[j].type # "adjustment" => rows'[j].amount > 0)
      BY <1>3, <1>5 DEF Checked, Sound, TypeOK
    <2>2. settings' \in SettingsRecords \cup {None} /\ accounts' \in [Accounts -> AccountRecords \cup {None}]
          /\ categories' \in [Own -> CategoryRecords \cup {None}]
      BY <1>4 DEF TypeOK
    <2> HIDE DEF IInv
    <2> QED BY <1>2, <1>3, <1>4, <2>1, <2>2 DEF TypeOK
  <1>7. Paired(rows) /\ Moved(rows, asked)
    BY PairedIsComplete, MovedIsAsked
  <1>8. Paired(rows')
    <2>1. \A i \in DOMAIN rows' : rows'[i].type = "transfer" /\ rows'[i].group # None =>
            /\ rows'[i].group \in DOMAIN rows'
            /\ rows'[rows'[i].group] = Twin(rows'[i], rows'[i].group, rows'[rows'[i].group].amount)
      <3> SUFFICES ASSUME NEW i \in DOMAIN rows', rows'[i].type = "transfer", rows'[i].group # None
                   PROVE  /\ rows'[i].group \in DOMAIN rows'
                          /\ rows'[rows'[i].group] =
                               Twin(rows'[i], rows'[i].group, rows'[rows'[i].group].amount)
        OBVIOUS
      <3>1. i \in DOMAIN rows /\ rows'[i] = rows[i]
        BY <1>3, <1>5
      <3>2. /\ rows[i].group \in DOMAIN rows
            /\ rows[rows[i].group] = Twin(rows[i], rows[i].group, rows[rows[i].group].amount)
        BY <1>7, <3>1 DEF Paired
      <3>3. rows'[rows[i].group] = rows[rows[i].group] /\ rows[i].group \in DOMAIN rows'
        BY <1>2, <1>3, <3>2
      <3> QED BY <3>1, <3>2, <3>3
    <2>2. \A j \in DOMAIN rows' :
            rows'[j].type = "expense" /\ rows'[j].group # None /\ ~rows'[j].deleted =>
              \E i \in DOMAIN rows' : rows'[i].type = "transfer" /\ rows'[i].group = rows'[j].group
      <3> SUFFICES ASSUME NEW j \in DOMAIN rows', rows'[j].type = "expense",
                          rows'[j].group # None, ~rows'[j].deleted
                   PROVE  \E i \in DOMAIN rows' :
                            rows'[i].type = "transfer" /\ rows'[i].group = rows'[j].group
        OBVIOUS
      <3>1. j \in DOMAIN rows /\ rows'[j] = rows[j]
        BY <1>3, <1>5
      <3>2. PICK i \in DOMAIN rows : rows[i].type = "transfer" /\ rows[i].group = rows[j].group
        BY <1>7, <3>1 DEF Paired
      <3> QED BY <1>2, <1>3, <3>1, <3>2
    <2>3. \A j \in DOMAIN rows' : rows'[j].type # "transfer" /\ rows'[j].group # None =>
            rows'[j].type = "expense" /\ rows'[j].group = j
      BY <1>3, <1>5, <1>7 DEF Paired
    <2>4. \A i, k \in DOMAIN rows' :
            /\ rows'[i].type = "transfer" /\ rows'[k].type = "transfer"
            /\ rows'[i].group # None /\ rows'[i].group = rows'[k].group
            => i = k
      BY <1>3, <1>5, <1>7 DEF Paired
    <2> QED BY <2>1, <2>2, <2>3, <2>4 DEF Paired
  <1>9. Moved(rows', asked')
    <2> SUFFICES ASSUME NEW i \in DOMAIN rows', rows'[i].type = "transfer", ~rows'[i].deleted
                 PROVE  Arriving(asked'[i], FeeIn(rows', i), rows'[i].mode) = rows'[i].amount
      BY DEF Moved
    <2>1. CASE i = n + 1
      BY <1>2, <2>1 DEF FeeIn, Arriving
    <2>2. CASE i # n + 1
      <3>0. i \in 1 .. n
        BY <1>3, <2>2
      <3>1. i \in DOMAIN rows /\ rows'[i] = rows[i] /\ asked'[i] = asked[i]
        BY <1>2, <1>3, <3>0
      <3>2. FeeIn(rows', i) = FeeIn(rows, i)
        BY <1>2, <1>3, <1>7, <3>1 DEF FeeIn, Paired
      <3> QED BY <1>7, <3>1, <3>2 DEF Moved
    <2> QED BY <2>1, <2>2
  <1>10. GroupsAreOwn' /\ GroupComplete' /\ AskedIsMoved'
    <2>1. Paired(rows)' /\ Moved(rows, asked)'
      BY <1>8, <1>9
    <2> QED BY <1>6, <2>1, PairedNext, MovedNext
  <1>11. ExcludedContributes'
    BY <1>3, <1>4, <1>5 DEF ExcludedContributes
  <1>12. \A j \in DOMAIN rows' : RowHolds(rows'[j]) /\ (j > n => Idle(rows'[j]))
    BY <1>3, <1>5 DEF HistoryHolds, Checked, Sound
  <1>13. \A j \in DOMAIN rows : rows'[j] = rows[j]
    BY <1>2, <1>3
  <1> HIDE DEF IInv
  <1> QED BY <1>2, <1>3, <1>6, <1>10, <1>11, <1>12, <1>13, RowsChange

(* An income, an expense or an adjustment is checked.                      *)
LEMMA EntryIsChecked ==
  ASSUME TypeOK, NEW type \in CategoryKinds \cup {"adjustment"}, NEW a \in Accounts, Active(a),
         NEW c \in AllCategories \cup {None}, c # None => Candidate(c, type),
         NEW x \in Int, x # 0, type # "adjustment" => x > 0,
         NEW day \in Days, NotBefore(day, {a})
  PROVE  /\ Checked(Entry(type, a, c, x, day))
         /\ Entry(type, a, c, x, day).group = None
         /\ Entry(type, a, c, x, day).type # "transfer"
  <1> DEFINE e == Entry(type, a, c, x, day)
  <1>1. /\ e.type = type /\ e.kind = None /\ e.group = None /\ e.mode = None /\ e.amount = x
        /\ e.from = a /\ e.to = None /\ e.category = c /\ e.day = day /\ e.deleted = FALSE
    BY DEF Entry
  <1>2. e \in Transactions
    BY DEF Entry, Transactions
  <1>3. Touched(e) = {a}
    BY <1>1 DEF Touched
  <1>4. type # "transfer"
    BY DEF CategoryKinds
  <1> HIDE DEF e
  <1>5. RowHolds(e)
    BY <1>1, <1>3, <1>4 DEF RowHolds, Active, NotBefore
  <1>6. Idle(e)
    BY <1>3 DEF Idle
  <1>7. Checked(e)
    BY <1>1, <1>2, <1>5, <1>6 DEF Checked, Sound
  <1> QED BY <1>1, <1>4, <1>7 DEF e

(* An income or an expense is entered.                                     *)
LEMMA CreateEntryKeeps ==
  ASSUME IInv, NEW a \in Accounts, NEW day \in Days, NEW x \in Amounts,
         NEW type \in CategoryKinds, NEW c \in Picks, CreateEntry(type, a, c, x, day)
  PROVE  IInv'
  <1> DEFINE e == Entry(type, a, c, x, day)
  <1>1. /\ Active(a) /\ Candidate(c, type) /\ NotBefore(day, {a})
        /\ Insert(<<e>>, x) /\ UNCHANGED <<tables, excluded>>
    BY DEF CreateEntry
  <1>2. c \in AllCategories /\ x \in Int /\ x > 0
    OBVIOUS
  <1>3. Checked(e) /\ e.group = None /\ e.type # "transfer"
    BY <1>1, <1>2, EntryIsChecked DEF IInv, LedgerInv
  <1> HIDE DEF e
  <1> QED BY <1>1, <1>2, <1>3, InsertOne

(* An account is adjusted to another balance.                              *)
LEMMA AdjustKeeps ==
  ASSUME IInv, NEW a \in Accounts, NEW day \in Days, NEW x \in Targets,
         AdjustAccount(a, x, day)
  PROVE  IInv'
  <1> DEFINE d == x - Balance(a)
             e == Entry("adjustment", a, None, d, day)
  <1>1. /\ Active(a) /\ NotBefore(day, {a}) /\ x # Balance(a)
        /\ Insert(<<e>>, x) /\ UNCHANGED <<tables, excluded>>
    BY DEF AdjustAccount
  <1>2. Balance(a) \in Int /\ x \in Int
    BY <1>1, BalanceType DEF IInv, LedgerInv, Active
  <1>3. d \in Int /\ d # 0
    BY <1>1, <1>2
  <1>4. Checked(e) /\ e.group = None /\ e.type # "transfer"
    <2> HIDE DEF d
    <2> QED BY <1>1, <1>3, EntryIsChecked DEF IInv, LedgerInv
  <1> HIDE DEF e, d
  <1> QED BY <1>1, <1>2, <1>4, InsertOne

(* A transfer is checked.                                                  *)
LEMMA TransferIsChecked ==
  ASSUME TypeOK, NEW from \in Accounts, NEW to \in Accounts, from # to,
         Active(from), Active(to), NEW kind \in TransferKinds, KindFits(kind, from, to),
         NEW day \in Days, NotBefore(day, {from, to}),
         NEW group \in (1 .. MaxRows) \cup {None}, NEW mode \in Modes \cup {None},
         NEW x \in Int, x > 0
  PROVE  Checked(Transfer(kind, group, mode, x, from, to, day))
  <1> DEFINE t == Transfer(kind, group, mode, x, from, to, day)
  <1>1. /\ t.type = "transfer" /\ t.kind = kind /\ t.group = group /\ t.mode = mode
        /\ t.amount = x /\ t.from = from /\ t.to = to /\ t.category = None /\ t.day = day
        /\ t.deleted = FALSE
    BY DEF Transfer
  <1>2. t \in Transactions
    BY DEF Transfer, Transactions
  <1>3. Touched(t) = {from, to} /\ to # None
    BY <1>1 DEF Touched
  <1> HIDE DEF t
  <1>4. RowHolds(t)
    BY <1>1, <1>3 DEF RowHolds, Active, NotBefore
  <1>5. Idle(t)
    BY <1>3 DEF Idle
  <1>6. Checked(t)
    BY <1>1, <1>2, <1>4, <1>5 DEF Checked, Sound
  <1> QED BY <1>6 DEF t

(* So is the companion of a transfer.                                      *)
LEMMA CompanionIsChecked ==
  ASSUME TypeOK, NEW t, Checked(t), t.type = "transfer",
         NEW g \in 1 .. MaxRows, NEW fee \in Int, fee > 0
  PROVE  Checked(CompanionOf(t, g, fee))
  <1> DEFINE c == IF t.kind = "repayment" THEN "interest" ELSE "fee"
             e == CompanionOf(t, g, fee)
  <1>1. c \in DOMAIN Defaults /\ Defaults[c] = "expense" /\ c \notin Own
    BY DEF Defaults
  <1>2. t.from \in Accounts /\ t.day \in Days
    BY DEF Checked, Sound, Transactions
  <1>3. /\ e.type = "expense" /\ e.kind = None /\ e.group = g /\ e.mode = None
        /\ e.amount = fee /\ e.from = t.from /\ e.to = None /\ e.category = c /\ e.day = t.day
        /\ e.deleted = FALSE
    BY DEF CompanionOf, Entry
  <1>4. e \in Transactions
    <2> DEFINE b == Entry("expense", t.from, c, fee, t.day)
    <2>1. b \in Transactions
      <3> HIDE DEF c
      <3> QED BY <1>1, <1>2 DEF Entry, Transactions, CategoryKinds, AllCategories
    <2>2. e = [b EXCEPT !.group = g]
      BY DEF CompanionOf
    <2> HIDE DEF b, e
    <2> QED BY <2>1, <2>2 DEF Transactions
  <1>5. Touched(e) = {t.from} /\ t.from \in Touched(t)
    BY <1>2, <1>3 DEF Touched
  <1> HIDE DEF e, c
  <1>6. RowHolds(e)
    BY <1>1, <1>3, <1>5 DEF RowHolds, Checked, Sound, Candidate, CategoryKind
  <1>7. Idle(e)
    BY <1>5 DEF Idle, Checked, Sound
  <1> QED BY <1>3, <1>4, <1>6, <1>7 DEF Checked, Sound, e

(* A companion that is active is its transfer's twin.                      *)
LEMMA CompanionIsTwin ==
  ASSUME NEW t, NEW g, NEW fee, t.deleted = FALSE, CompanionOf(t, g, fee) \in Transactions
  PROVE  CompanionOf(t, g, fee) = Twin(t, g, fee)
  <1> DEFINE c == CompanionOf(t, g, fee)
  <1>1. c.deleted = FALSE
    BY DEF CompanionOf, Entry
  <1>2. Twin(t, g, fee) = [c EXCEPT !.deleted = FALSE]
    BY DEF Twin
  <1> HIDE DEF c
  <1>3. c \in Transactions
    BY DEF c
  <1>4. [c EXCEPT !.deleted = FALSE] = c
    BY <1>1, <1>3 DEF Transactions
  <1> QED BY <1>2, <1>4 DEF c

(* A transfer and its companion, each at its number.                       *)
LEMMA InsertTwo ==
  ASSUME IInv, UNCHANGED <<tables, excluded>>, NEW t, NEW c, NEW x \in Int, NEW fee \in Int, fee > 0,
         Checked(t), Checked(c), Insert(<<t, c>>, x), t.type = "transfer",
         t.group = Len(rows) + 2, c = Twin(t, Len(rows) + 2, fee),
         Arriving(x, fee, t.mode) = t.amount
  PROVE  IInv'
  <1> DEFINE n == Len(rows)
  <1> USE DEF IInv, LedgerInv
  <1>1. /\ rows' \in Seq(Transactions) /\ asked' \in Seq(Int)
        /\ Len(rows') = n + 2 /\ n + 2 <= MaxRows /\ Len(asked') = n + 2
        /\ \A j \in 1 .. n : rows'[j] = rows[j] /\ asked'[j] = asked[j]
        /\ rows'[n + 1] = t /\ rows'[n + 2] = c /\ asked'[n + 1] = x
    <2> DEFINE ts == <<t, c>>
    <2>1. ts \in Seq(Transactions) /\ Len(ts) = 2 /\ ts[1] = t /\ ts[2] = c /\ Insert(ts, x)
      BY DEF Checked, Sound
    <2>2. /\ rows' \in Seq(Transactions) /\ asked' \in Seq(Int)
          /\ Len(rows') = n + Len(ts) /\ Len(rows') <= MaxRows /\ Len(asked') = Len(rows')
          /\ \A j \in 1 .. n : rows'[j] = rows[j] /\ asked'[j] = asked[j]
          /\ \A k \in 1 .. Len(ts) : rows'[n + k] = ts[k]
          /\ Len(ts) > 0 => asked'[n + 1] = x
      <3> HIDE DEF ts
      <3> QED BY <2>1, Inserted
    <2>3. 1 \in 1 .. Len(ts) /\ 2 \in 1 .. Len(ts)
      BY <2>1
    <2>4. rows'[n + 1] = t /\ rows'[n + 2] = c
      BY <2>1, <2>2, <2>3
    <2> HIDE DEF ts, n
    <2> QED BY <2>1, <2>2, <2>4
  <1>2. /\ n \in Nat /\ DOMAIN rows = 1 .. n /\ DOMAIN rows' = 1 .. (n + 2)
        /\ rows \in Seq(Transactions) /\ asked \in Seq(Int) /\ excluded \subseteq DOMAIN rows
    BY <1>1 DEF TypeOK
  <1>3. UNCHANGED <<settings, accounts, categories, excluded>>
    BY DEF tables
  <1>4. \A j \in DOMAIN rows' : \/ j \in 1 .. n /\ rows'[j] = rows[j]
                                \/ j = n + 1 /\ rows'[j] = t
                                \/ j = n + 2 /\ rows'[j] = c
    <2> SUFFICES ASSUME NEW j \in 1 .. (n + 2)
                 PROVE  \/ j \in 1 .. n /\ rows'[j] = rows[j]
                        \/ j = n + 1 /\ rows'[j] = t
                        \/ j = n + 2 /\ rows'[j] = c
      BY <1>2
    <2>1. j \in 1 .. n \/ j = n + 1 \/ j = n + 2
      BY <1>2
    <2> QED BY <1>1, <2>1
  <1>5. TypeOK'
    <2>1. \A j \in DOMAIN rows' :
            rows'[j].amount # 0 /\ (rows'[j].type # "adjustment" => rows'[j].amount > 0)
      BY <1>2, <1>4 DEF Checked, Sound, TypeOK
    <2>2. settings' \in SettingsRecords \cup {None} /\ accounts' \in [Accounts -> AccountRecords \cup {None}]
          /\ categories' \in [Own -> CategoryRecords \cup {None}]
      BY <1>3 DEF TypeOK
    <2> HIDE DEF IInv
    <2> QED BY <1>1, <1>2, <1>3, <2>1, <2>2 DEF TypeOK
  <1>6. Paired(rows) /\ Moved(rows, asked)
    BY PairedIsComplete, MovedIsAsked
  <1>7. /\ c.type = "expense" /\ c.group = n + 2 /\ c.amount = fee /\ ~c.deleted /\ ~t.deleted
        /\ n + 2 # None
    BY <1>2, TwinIs DEF Checked, Sound
  <1>8. \A i \in DOMAIN rows : rows[i].type = "transfer" /\ rows[i].group # None =>
          /\ rows[i].group \in DOMAIN rows
          /\ rows[rows[i].group] = Twin(rows[i], rows[i].group, rows[rows[i].group].amount)
    BY <1>6 DEF Paired
  <1>9. Paired(rows')
    <2>1. \A i \in DOMAIN rows' : rows'[i].type = "transfer" /\ rows'[i].group # None =>
            /\ rows'[i].group \in DOMAIN rows'
            /\ rows'[rows'[i].group] = Twin(rows'[i], rows'[i].group, rows'[rows'[i].group].amount)
      <3> SUFFICES ASSUME NEW i \in DOMAIN rows', rows'[i].type = "transfer", rows'[i].group # None
                   PROVE  /\ rows'[i].group \in DOMAIN rows'
                          /\ rows'[rows'[i].group] =
                               Twin(rows'[i], rows'[i].group, rows'[rows'[i].group].amount)
        OBVIOUS
      <3>1. CASE i \in 1 .. n /\ rows'[i] = rows[i]
        <4>1. /\ rows[i].group \in DOMAIN rows
              /\ rows[rows[i].group] = Twin(rows[i], rows[i].group, rows[rows[i].group].amount)
          BY <1>2, <1>8, <3>1
        <4>2. rows'[rows[i].group] = rows[rows[i].group] /\ rows[i].group \in DOMAIN rows'
          BY <1>1, <1>2, <4>1
        <4> QED BY <3>1, <4>1, <4>2
      <3>2. CASE i = n + 1 /\ rows'[i] = t
        BY <1>1, <1>2, <1>7, <3>2
      <3>3. CASE i = n + 2 /\ rows'[i] = c
        BY <1>7, <3>3
      <3> QED BY <1>4, <3>1, <3>2, <3>3
    <2>2. \A j \in DOMAIN rows' :
            rows'[j].type = "expense" /\ rows'[j].group # None /\ ~rows'[j].deleted =>
              \E i \in DOMAIN rows' : rows'[i].type = "transfer" /\ rows'[i].group = rows'[j].group
      <3> SUFFICES ASSUME NEW j \in DOMAIN rows', rows'[j].type = "expense",
                          rows'[j].group # None, ~rows'[j].deleted
                   PROVE  \E i \in DOMAIN rows' :
                            rows'[i].type = "transfer" /\ rows'[i].group = rows'[j].group
        OBVIOUS
      <3>1. CASE j \in 1 .. n /\ rows'[j] = rows[j]
        <4>1. PICK i \in DOMAIN rows : rows[i].type = "transfer" /\ rows[i].group = rows[j].group
          BY <1>2, <1>6, <3>1 DEF Paired
        <4> QED BY <1>1, <1>2, <3>1, <4>1
      <3>2. CASE j = n + 1 /\ rows'[j] = t
        BY <3>2
      <3>3. CASE j = n + 2 /\ rows'[j] = c
        <4>1. n + 1 \in DOMAIN rows'
          BY <1>2
        <4> QED BY <1>1, <1>7, <3>3, <4>1
      <3> QED BY <1>4, <3>1, <3>2, <3>3
    <2>3. \A j \in DOMAIN rows' : rows'[j].type # "transfer" /\ rows'[j].group # None =>
            rows'[j].type = "expense" /\ rows'[j].group = j
      BY <1>2, <1>4, <1>6, <1>7 DEF Paired
    <2>4. \A i, k \in DOMAIN rows' :
            /\ rows'[i].type = "transfer" /\ rows'[k].type = "transfer"
            /\ rows'[i].group # None /\ rows'[i].group = rows'[k].group
            => i = k
      <3> SUFFICES ASSUME NEW i \in DOMAIN rows', NEW k \in DOMAIN rows',
                          rows'[i].type = "transfer", rows'[k].type = "transfer",
                          rows'[i].group # None, rows'[i].group = rows'[k].group
                   PROVE  i = k
        OBVIOUS
      <3>1. i \in 1 .. n \/ i = n + 1
        BY <1>4, <1>7
      <3>2. k \in 1 .. n \/ k = n + 1
        BY <1>4, <1>7
      <3>3. \A j \in 1 .. n : rows[j].type = "transfer" /\ rows[j].group # None => rows[j].group # n + 2
        BY <1>2, <1>8
      <3>4. CASE i \in 1 .. n /\ k \in 1 .. n
        <4>1. i \in DOMAIN rows /\ k \in DOMAIN rows /\ rows'[i] = rows[i] /\ rows'[k] = rows[k]
          BY <1>1, <1>2, <3>4
        <4> QED BY <1>6, <4>1 DEF Paired
      <3>5. CASE ~(i \in 1 .. n /\ k \in 1 .. n)
        BY <1>1, <3>1, <3>2, <3>3, <3>5
      <3> QED BY <3>4, <3>5
    <2> QED BY <2>1, <2>2, <2>3, <2>4 DEF Paired
  <1>10. Moved(rows', asked')
    <2> SUFFICES ASSUME NEW i \in DOMAIN rows', rows'[i].type = "transfer", ~rows'[i].deleted
                 PROVE  Arriving(asked'[i], FeeIn(rows', i), rows'[i].mode) = rows'[i].amount
      BY DEF Moved
    <2>1. CASE i \in 1 .. n /\ rows'[i] = rows[i]
      <3>1. i \in DOMAIN rows /\ asked'[i] = asked[i]
        BY <1>1, <1>2, <2>1
      <3>2. FeeIn(rows', i) = FeeIn(rows, i)
        BY <1>1, <1>2, <1>8, <2>1, <3>1 DEF FeeIn
      <3> QED BY <1>6, <2>1, <3>1, <3>2 DEF Moved
    <2>2. CASE i = n + 1 /\ rows'[i] = t
      <3>1. FeeIn(rows', i) = fee
        BY <1>1, <1>7, <2>2 DEF FeeIn
      <3> QED BY <1>1, <2>2, <3>1
    <2>3. CASE i = n + 2 /\ rows'[i] = c
      BY <1>7, <2>3
    <2> QED BY <1>4, <2>1, <2>2, <2>3
  <1>11. GroupsAreOwn' /\ GroupComplete' /\ AskedIsMoved'
    <2>1. Paired(rows)' /\ Moved(rows, asked)'
      BY <1>9, <1>10
    <2> QED BY <1>5, <2>1, PairedNext, MovedNext
  <1>12. ExcludedContributes'
    BY <1>1, <1>2, <1>3 DEF ExcludedContributes
  <1>13. \A j \in DOMAIN rows' : RowHolds(rows'[j]) /\ (j > n => Idle(rows'[j]))
    <2> SUFFICES ASSUME NEW j \in DOMAIN rows' PROVE RowHolds(rows'[j]) /\ (j > n => Idle(rows'[j]))
      OBVIOUS
    <2>1. CASE j \in 1 .. n /\ rows'[j] = rows[j]
      BY <1>2, <2>1 DEF HistoryHolds
    <2>2. CASE rows'[j] = t \/ rows'[j] = c
      BY <2>2 DEF Checked, Sound
    <2> QED BY <1>4, <2>1, <2>2
  <1>14. \A j \in DOMAIN rows : rows'[j] = rows[j]
    BY <1>1, <1>2
  <1> HIDE DEF IInv
  <1> QED BY <1>1, <1>2, <1>5, <1>11, <1>12, <1>13, <1>14, RowsChange

(* A transfer is made, with its companion when there is a fee.             *)
LEMMA CreateTransferKeeps ==
  ASSUME IInv, NEW from \in Accounts, NEW to \in Accounts, NEW kind \in TransferKinds,
         NEW day \in Days, CreateTransfer(from, to, kind, day)
  PROVE  IInv'
  <1>1. PICK amount \in Amounts, fee \in Fees, mode \in Modes \cup {Keep} :
          LET stored == StoredMode(kind, fee, mode, None)
              t == Transfer(kind, IF fee > 0 THEN Len(rows) + 2 ELSE None, stored,
                            Arriving(amount, fee, stored), from, to, day)
          IN  /\ FeeAllowed(kind, fee, mode) /\ t.amount > 0
              /\ Insert(IF fee > 0 THEN <<t, CompanionOf(t, t.group, fee)>> ELSE <<t>>, amount)
    BY DEF CreateTransfer
  <1> DEFINE stored == StoredMode(kind, fee, mode, None)
             moved == Arriving(amount, fee, stored)
             group == IF fee > 0 THEN Len(rows) + 2 ELSE None
             t == Transfer(kind, group, stored, moved, from, to, day)
             c == CompanionOf(t, group, fee)
  <1>2. /\ from # to /\ Active(from) /\ Active(to) /\ KindFits(kind, from, to)
        /\ NotBefore(day, {from, to}) /\ UNCHANGED <<tables, excluded>> /\ TypeOK
    BY DEF CreateTransfer, IInv, LedgerInv
  <1>3. fee \in Nat /\ amount \in Int /\ Len(rows) \in Nat
    BY <1>2, RowNumbers
  <1>4. stored \in Modes \cup {None} /\ moved \in Int
    BY <1>3 DEF StoredMode, Arriving, Modes
  <1>5. t.amount = moved /\ t.group = group /\ t.type = "transfer" /\ t.mode = stored /\ t.deleted = FALSE
    BY DEF Transfer
  <1>6. moved > 0
    BY <1>1, <1>5
  <1>7. CASE fee = 0
    <2>1. group = None /\ moved = amount /\ Insert(<<t>>, amount)
      BY <1>1, <1>3, <1>7 DEF Arriving
    <2>2. Checked(t)
      <3> HIDE DEF stored, moved, group
      <3> QED BY <1>2, <1>4, <1>6, <2>1, TransferIsChecked
    <2> HIDE DEF t, moved, group
    <2> QED BY <1>2, <1>3, <1>5, <2>1, <2>2, InsertOne
  <1>8. CASE fee > 0
    <2>1. group = Len(rows) + 2 /\ Insert(<<t, c>>, amount)
      BY <1>1, <1>5, <1>8
    <2>2. group \in 1 .. MaxRows
      <3>1. Len(rows) + Len(<<t, c>>) <= MaxRows
        BY <2>1 DEF Insert
      <3>2. Len(<<t, c>>) = 2
        OBVIOUS
      <3> HIDE DEF t, c
      <3> QED BY <1>3, <2>1, <3>1, <3>2
    <2>3. Checked(t)
      <3> HIDE DEF stored, moved, group
      <3> QED BY <1>2, <1>4, <1>6, <2>2, TransferIsChecked
    <2>4. Checked(c)
      <3> HIDE DEF t, group
      <3> QED BY <1>2, <1>3, <1>5, <1>8, <2>2, <2>3, CompanionIsChecked
    <2>5. c = Twin(t, group, fee)
      <3> HIDE DEF t, group
      <3> QED BY <1>5, <2>4, CompanionIsTwin DEF Checked, Sound
    <2>6. Arriving(amount, fee, t.mode) = t.amount
      BY <1>5
    <2> HIDE DEF t, c, moved, group, stored
    <2> QED BY <1>2, <1>3, <1>5, <1>8, <2>1, <2>3, <2>4, <2>5, <2>6, InsertTwo
  <1> QED BY <1>3, <1>7, <1>8

-----------------------------------------------------------------------------
(* Changed transactions.                                                   *)

(* A function on the first numbers is a sequence.                          *)
LEMMA IsSequence ==
  ASSUME NEW S, NEW n \in Nat, NEW f \in [1 .. n -> S]
  PROVE  f \in Seq(S) /\ Len(f) = n
  OBVIOUS

(* What a change of rows leaves is typed, when each row is sound or old.   *)
LEMMA ChangedType ==
  ASSUME TypeOK, UNCHANGED tables, rows' \in Seq(Transactions), asked' \in Seq(Int),
         Len(rows') <= MaxRows, Len(asked') = Len(rows'), Len(rows) <= Len(rows'),
         excluded' \subseteq DOMAIN rows,
         \A j \in DOMAIN rows' : Sound(rows'[j]) \/ (j \in DOMAIN rows /\ rows'[j] = rows[j])
  PROVE  TypeOK'
  <1>1. \A j \in DOMAIN rows' :
          rows'[j].amount # 0 /\ (rows'[j].type # "adjustment" => rows'[j].amount > 0)
    BY DEF Sound, TypeOK
  <1>2. /\ settings' \in SettingsRecords \cup {None}
        /\ accounts' \in [Accounts -> AccountRecords \cup {None}]
        /\ categories' \in [Own -> CategoryRecords \cup {None}]
    BY DEF TypeOK, tables
  <1>3. excluded' \subseteq DOMAIN rows'
    <2>1. /\ Len(rows) \in Nat /\ DOMAIN rows = 1 .. Len(rows)
          /\ Len(rows') \in Nat /\ DOMAIN rows' = 1 .. Len(rows')
      BY DEF TypeOK
    <2> QED BY <2>1
  <1> QED BY <1>1, <1>2, <1>3 DEF TypeOK

(* Only row i is changed, and it has no group before or after.             *)
LEMMA ChangeOne ==
  ASSUME IInv, UNCHANGED tables, NEW i \in DOMAIN rows, NEW e, Sound(e), Idle(rows[i]),
         e.type = rows[i].type, rows[i].group = None, e.group = None,
         rows' = [rows EXCEPT ![i] = e], NEW x \in Int, asked' = [asked EXCEPT ![i] = x],
         e.type = "transfer" /\ ~e.deleted => x = e.amount,
         excluded' \subseteq DOMAIN rows, \A j \in excluded' : Contributes(rows'[j])
  PROVE  IInv'
  <1> DEFINE n == Len(rows)
  <1> USE DEF IInv, LedgerInv
  <1>1. /\ n \in Nat /\ DOMAIN rows = 1 .. n /\ rows \in Seq(Transactions)
        /\ asked \in Seq(Int) /\ Len(asked) = n /\ n <= MaxRows /\ e \in Transactions
    BY DEF TypeOK, Sound
  <1>2. /\ rows' \in Seq(Transactions) /\ Len(rows') = n /\ DOMAIN rows' = 1 .. n
        /\ asked' \in Seq(Int) /\ Len(asked') = n
    BY <1>1
  <1>3. /\ rows'[i] = e /\ asked'[i] = x
        /\ \A j \in DOMAIN rows : j # i => rows'[j] = rows[j] /\ asked'[j] = asked[j]
    BY <1>1
  <1>4. TypeOK'
    <2> HIDE DEF IInv
    <2>1. TypeOK
      BY DEF IInv
    <2> QED BY <1>1, <1>2, <1>3, <2>1, ChangedType
  <1>5. Paired(rows) /\ Moved(rows, asked)
    BY PairedIsComplete, MovedIsAsked
  <1>6. Paired(rows')
    <2>1. \A k \in DOMAIN rows' : rows'[k].type = "transfer" /\ rows'[k].group # None =>
            /\ rows'[k].group \in DOMAIN rows'
            /\ rows'[rows'[k].group] = Twin(rows'[k], rows'[k].group, rows'[rows'[k].group].amount)
      <3> SUFFICES ASSUME NEW k \in DOMAIN rows', rows'[k].type = "transfer", rows'[k].group # None
                   PROVE  /\ rows'[k].group \in DOMAIN rows'
                          /\ rows'[rows'[k].group] =
                               Twin(rows'[k], rows'[k].group, rows'[rows'[k].group].amount)
        OBVIOUS
      <3>1. k \in DOMAIN rows /\ k # i /\ rows'[k] = rows[k]
        BY <1>1, <1>2, <1>3
      <3>2. /\ rows[k].group \in DOMAIN rows
            /\ rows[rows[k].group] = Twin(rows[k], rows[k].group, rows[rows[k].group].amount)
        BY <1>5, <3>1 DEF Paired
      <3>3. rows[rows[k].group].group = rows[k].group
        BY <3>2, TwinIs
      <3>4. rows'[rows[k].group] = rows[rows[k].group]
        BY <1>3, <3>1, <3>2, <3>3
      <3> QED BY <1>1, <1>2, <3>1, <3>2, <3>4
    <2>2. \A j \in DOMAIN rows' :
            rows'[j].type = "expense" /\ rows'[j].group # None /\ ~rows'[j].deleted =>
              \E k \in DOMAIN rows' : rows'[k].type = "transfer" /\ rows'[k].group = rows'[j].group
      <3> SUFFICES ASSUME NEW j \in DOMAIN rows', rows'[j].type = "expense",
                          rows'[j].group # None, ~rows'[j].deleted
                   PROVE  \E k \in DOMAIN rows' :
                            rows'[k].type = "transfer" /\ rows'[k].group = rows'[j].group
        OBVIOUS
      <3>1. j \in DOMAIN rows /\ rows'[j] = rows[j]
        BY <1>1, <1>2, <1>3
      <3>2. PICK k \in DOMAIN rows : rows[k].type = "transfer" /\ rows[k].group = rows[j].group
        BY <1>5, <3>1 DEF Paired
      <3> QED BY <1>1, <1>2, <1>3, <3>1, <3>2
    <2>3. \A j \in DOMAIN rows' : rows'[j].type # "transfer" /\ rows'[j].group # None =>
            rows'[j].type = "expense" /\ rows'[j].group = j
      BY <1>1, <1>2, <1>3, <1>5 DEF Paired
    <2>4. \A k, l \in DOMAIN rows' :
            /\ rows'[k].type = "transfer" /\ rows'[l].type = "transfer"
            /\ rows'[k].group # None /\ rows'[k].group = rows'[l].group
            => k = l
      BY <1>1, <1>2, <1>3, <1>5 DEF Paired
    <2> QED BY <2>1, <2>2, <2>3, <2>4 DEF Paired
  <1>7. Moved(rows', asked')
    <2> SUFFICES ASSUME NEW k \in DOMAIN rows', rows'[k].type = "transfer", ~rows'[k].deleted
                 PROVE  Arriving(asked'[k], FeeIn(rows', k), rows'[k].mode) = rows'[k].amount
      BY DEF Moved
    <2>1. CASE k = i
      BY <1>3, <2>1 DEF FeeIn, Arriving
    <2>2. CASE k # i
      <3>1. k \in DOMAIN rows /\ rows'[k] = rows[k] /\ asked'[k] = asked[k]
        BY <1>1, <1>2, <1>3, <2>2
      <3>2. FeeIn(rows', k) = FeeIn(rows, k)
        <4>1. CASE rows[k].group = None
          BY <3>1, <4>1 DEF FeeIn
        <4>2. CASE rows[k].group # None
          <5>1. /\ rows[k].group \in DOMAIN rows
                /\ rows[rows[k].group] = Twin(rows[k], rows[k].group, rows[rows[k].group].amount)
            BY <1>5, <3>1, <4>2 DEF Paired
          <5>2. rows[rows[k].group].group = rows[k].group
            BY <5>1, TwinIs
          <5> QED BY <1>3, <3>1, <4>2, <5>1, <5>2 DEF FeeIn
        <4> QED BY <4>1, <4>2
      <3> QED BY <1>5, <3>1, <3>2 DEF Moved
    <2> QED BY <2>1, <2>2
  <1>8. GroupsAreOwn' /\ GroupComplete' /\ AskedIsMoved'
    <2>1. Paired(rows)' /\ Moved(rows, asked)'
      BY <1>6, <1>7
    <2> QED BY <1>4, <2>1, PairedNext, MovedNext
  <1>9. ExcludedContributes'
    BY DEF ExcludedContributes, Contributes
  <1>10. \A j \in DOMAIN rows' : RowHolds(rows'[j]) /\ ~(j > n)
    BY <1>1, <1>2, <1>3 DEF HistoryHolds, Sound
  <1>11. \A j \in DOMAIN rows : rows'[j] = rows[j] \/ (Idle(rows[j]) /\ Idle(rows'[j]))
    BY <1>3 DEF Sound
  <1> HIDE DEF IInv
  <1> QED BY <1>1, <1>2, <1>4, <1>8, <1>9, <1>10, <1>11, RowsChange

(* A transfer and its companion change together, or the transfer leaves    *)
(* its companion, which is deleted.                                        *)
LEMMA ChangePair ==
  ASSUME IInv, UNCHANGED tables, NEW i \in DOMAIN rows, NEW g \in DOMAIN rows,
         rows[i].type = "transfer", rows[i].group = g, g # None, Idle(rows[i]), Idle(rows[g]),
         NEW e, NEW c, NEW fee \in Int, Sound(e), Sound(c), e.type = "transfer",
         \/ e.group = g /\ c = Twin(e, g, fee)
         \/ e.group = None /\ c.deleted /\ c.type = "expense" /\ c.group = g,
         rows' = [j \in DOMAIN rows |-> IF j = i THEN e ELSE IF j = g THEN c ELSE rows[j]],
         NEW x \in Int, asked' = [asked EXCEPT ![i] = x],
         ~e.deleted => Arriving(x, IF e.group = None THEN 0 ELSE fee, e.mode) = e.amount,
         excluded' \subseteq DOMAIN rows, \A j \in excluded' : Contributes(rows'[j])
  PROVE  IInv'
  <1> DEFINE n == Len(rows)
  <1> USE DEF IInv, LedgerInv
  <1>1. /\ n \in Nat /\ DOMAIN rows = 1 .. n /\ rows \in Seq(Transactions)
        /\ asked \in Seq(Int) /\ Len(asked) = n /\ n <= MaxRows
        /\ e \in Transactions /\ c \in Transactions
    BY DEF TypeOK, Sound
  <1>2. Paired(rows) /\ Moved(rows, asked)
    BY PairedIsComplete, MovedIsAsked
  <1>3. c.type = "expense" /\ c.group = g /\ (e.group = g => c.amount = fee)
    BY TwinIs
  <1>4. \A k \in DOMAIN rows : rows[k].type = "transfer" /\ rows[k].group # None =>
          /\ rows[k].group \in DOMAIN rows
          /\ rows[rows[k].group] = Twin(rows[k], rows[k].group, rows[rows[k].group].amount)
          /\ rows[rows[k].group].group = rows[k].group
          /\ rows[rows[k].group].type = "expense"
    BY <1>2, TwinIs DEF Paired
  <1>5. i # g
    BY <1>4
  <1>6. /\ rows'[i] = e /\ rows'[g] = c /\ DOMAIN rows' = DOMAIN rows
        /\ \A j \in DOMAIN rows : j # i /\ j # g => rows'[j] = rows[j]
    BY <1>5
  <1>7. rows' \in Seq(Transactions) /\ Len(rows') = n
    <2>1. rows' \in [1 .. n -> Transactions]
      BY <1>1
    <2> QED BY <1>1, <2>1, IsSequence
  <1>8. /\ asked' \in Seq(Int) /\ Len(asked') = n /\ asked'[i] = x
        /\ \A j \in DOMAIN rows : j # i => asked'[j] = asked[j]
    BY <1>1
  <1>9. TypeOK'
    <2> HIDE DEF IInv
    <2>1. TypeOK
      BY DEF IInv
    <2> QED BY <1>1, <1>6, <1>7, <1>8, <2>1, ChangedType
  <1>10. \A k \in DOMAIN rows : k # i /\ rows[k].type = "transfer" => rows[k].group # g /\ k # g
    BY <1>2, <1>4 DEF Paired
  <1>11. Paired(rows')
    <2>1. \A k \in DOMAIN rows' : rows'[k].type = "transfer" /\ rows'[k].group # None =>
            /\ rows'[k].group \in DOMAIN rows'
            /\ rows'[rows'[k].group] = Twin(rows'[k], rows'[k].group, rows'[rows'[k].group].amount)
      <3> SUFFICES ASSUME NEW k \in DOMAIN rows', rows'[k].type = "transfer", rows'[k].group # None
                   PROVE  /\ rows'[k].group \in DOMAIN rows'
                          /\ rows'[rows'[k].group] =
                               Twin(rows'[k], rows'[k].group, rows'[rows'[k].group].amount)
        OBVIOUS
      <3>1. CASE k = i
        BY <1>3, <1>6, <3>1
      <3>2. CASE k # i
        <4>1. k \in DOMAIN rows /\ k # g /\ rows'[k] = rows[k]
          BY <1>3, <1>6, <3>2
        <4>2. /\ rows[k].group \in DOMAIN rows /\ rows[k].group # g /\ rows[k].group # i
              /\ rows[rows[k].group] = Twin(rows[k], rows[k].group, rows[rows[k].group].amount)
          BY <1>4, <1>10, <3>2, <4>1
        <4>3. rows'[rows[k].group] = rows[rows[k].group]
          BY <1>6, <4>2
        <4> QED BY <1>6, <4>1, <4>2, <4>3
      <3> QED BY <3>1, <3>2
    <2>2. \A j \in DOMAIN rows' :
            rows'[j].type = "expense" /\ rows'[j].group # None /\ ~rows'[j].deleted =>
              \E k \in DOMAIN rows' : rows'[k].type = "transfer" /\ rows'[k].group = rows'[j].group
      <3> SUFFICES ASSUME NEW j \in DOMAIN rows', rows'[j].type = "expense",
                          rows'[j].group # None, ~rows'[j].deleted
                   PROVE  \E k \in DOMAIN rows' :
                            rows'[k].type = "transfer" /\ rows'[k].group = rows'[j].group
        OBVIOUS
      <3>1. CASE j = g
        BY <1>3, <1>6, <3>1
      <3>2. CASE j # g
        <4>1. j \in DOMAIN rows /\ rows'[j] = rows[j]
          BY <1>6, <3>2
        <4>2. rows[j].group = j
          BY <1>2, <4>1 DEF Paired
        <4>3. PICK k \in DOMAIN rows : rows[k].type = "transfer" /\ rows[k].group = rows[j].group
          BY <1>2, <4>1 DEF Paired
        <4>4. k # i /\ k # g
          BY <1>4, <3>2, <4>2, <4>3
        <4> QED BY <1>6, <4>1, <4>3, <4>4
      <3> QED BY <3>1, <3>2
    <2>3. \A j \in DOMAIN rows' : rows'[j].type # "transfer" /\ rows'[j].group # None =>
            rows'[j].type = "expense" /\ rows'[j].group = j
      BY <1>2, <1>3, <1>6 DEF Paired
    <2>4. \A k, l \in DOMAIN rows' :
            /\ rows'[k].type = "transfer" /\ rows'[l].type = "transfer"
            /\ rows'[k].group # None /\ rows'[k].group = rows'[l].group
            => k = l
      <3>1. \A k \in DOMAIN rows' : rows'[k].type = "transfer" =>
              k = i \/ (k # g /\ rows'[k] = rows[k] /\ rows[k].group # g)
        BY <1>3, <1>6, <1>10
      <3> QED BY <1>2, <1>6, <3>1 DEF Paired
    <2> QED BY <2>1, <2>2, <2>3, <2>4 DEF Paired
  <1>12. Moved(rows', asked')
    <2> SUFFICES ASSUME NEW k \in DOMAIN rows', rows'[k].type = "transfer", ~rows'[k].deleted
                 PROVE  Arriving(asked'[k], FeeIn(rows', k), rows'[k].mode) = rows'[k].amount
      BY DEF Moved
    <2>1. CASE k = i
      <3>1. FeeIn(rows', k) = IF e.group = None THEN 0 ELSE fee
        BY <1>3, <1>6, <2>1 DEF FeeIn
      <3> QED BY <1>6, <1>8, <2>1, <3>1
    <2>2. CASE k # i
      <3>1. k \in DOMAIN rows /\ k # g /\ rows'[k] = rows[k] /\ asked'[k] = asked[k]
        BY <1>3, <1>6, <1>8, <2>2
      <3>2. FeeIn(rows', k) = FeeIn(rows, k)
        <4>1. CASE rows[k].group = None
          BY <3>1, <4>1 DEF FeeIn
        <4>2. CASE rows[k].group # None
          <5>1. /\ rows[k].group \in DOMAIN rows /\ rows[k].group # g /\ rows[k].group # i
            BY <1>4, <1>10, <2>2, <3>1, <4>2
          <5> QED BY <1>6, <3>1, <4>2, <5>1 DEF FeeIn
        <4> QED BY <4>1, <4>2
      <3> QED BY <1>2, <3>1, <3>2 DEF Moved
    <2> QED BY <2>1, <2>2
  <1>13. GroupsAreOwn' /\ GroupComplete' /\ AskedIsMoved'
    <2>1. Paired(rows)' /\ Moved(rows, asked)'
      BY <1>11, <1>12
    <2> QED BY <1>9, <2>1, PairedNext, MovedNext
  <1>14. ExcludedContributes'
    BY DEF ExcludedContributes, Contributes
  <1>15. \A j \in DOMAIN rows' : RowHolds(rows'[j]) /\ ~(j > n)
    BY <1>1, <1>6 DEF HistoryHolds, Sound
  <1>16. \A j \in DOMAIN rows : rows'[j] = rows[j] \/ (Idle(rows[j]) /\ Idle(rows'[j]))
    BY <1>6 DEF Sound
  <1> HIDE DEF IInv
  <1> QED BY <1>1, <1>7, <1>9, <1>13, <1>14, <1>15, <1>16, RowsChange

(* A transfer gets a companion, the next row.                              *)
LEMMA ChangeAndInsert ==
  ASSUME IInv, UNCHANGED tables, NEW i \in DOMAIN rows,
         rows[i].type = "transfer", rows[i].group = None, Idle(rows[i]),
         NEW e, NEW c, NEW fee \in Int, Sound(e), Sound(c), ~e.deleted, e.type = "transfer",
         Len(rows) < MaxRows, e.group = Len(rows) + 1, c = Twin(e, Len(rows) + 1, fee),
         Again(rows', rows, i, e, c), NEW x \in Int, Again(asked', asked, i, x, fee),
         Arriving(x, fee, e.mode) = e.amount,
         excluded' \subseteq DOMAIN rows, \A j \in excluded' : Contributes(rows'[j])
  PROVE  IInv'
  <1> DEFINE n == Len(rows)
  <1> USE DEF IInv, LedgerInv
  <1>1. /\ n \in Nat /\ DOMAIN rows = 1 .. n /\ rows \in Seq(Transactions)
        /\ asked \in Seq(Int) /\ Len(asked) = n
        /\ e \in Transactions /\ c \in Transactions
    BY DEF TypeOK, Sound
  <1>2. Paired(rows) /\ Moved(rows, asked)
    BY PairedIsComplete, MovedIsAsked
  <1>3. /\ c.type = "expense" /\ c.group = n + 1 /\ c.amount = fee /\ c.deleted = e.deleted
        /\ n + 1 # None
    BY <1>1, TwinIs
  <1>4. /\ rows' \in Seq(Transactions) /\ Len(rows') = n + 1
        /\ rows'[i] = e /\ rows'[n + 1] = c /\ \A j \in DOMAIN rows : j # i => rows'[j] = rows[j]
    BY <1>1, IsAgain
  <1>5. DOMAIN rows' = 1 .. (n + 1) /\ rows'[n + 1] = c
    BY <1>1, <1>4
  <1>6. /\ asked' \in Seq(Int) /\ Len(asked') = Len(asked) + 1 /\ asked'[i] = x
        /\ \A j \in DOMAIN asked : j # i => asked'[j] = asked[j]
    <2>1. asked \in Seq(Int) /\ i \in DOMAIN asked
      BY <1>1
    <2> QED BY <2>1, IntAgain
  <1>7. /\ asked' \in Seq(Int) /\ Len(asked') = n + 1 /\ asked'[i] = x
        /\ \A j \in DOMAIN rows : j # i => asked'[j] = asked[j]
    BY <1>1, <1>6
  <1>8. \A j \in DOMAIN rows' : \/ j \in DOMAIN rows /\ j # i /\ rows'[j] = rows[j]
                                \/ j = i /\ rows'[j] = e
                                \/ j = n + 1 /\ rows'[j] = c
    <2> SUFFICES ASSUME NEW j \in 1 .. (n + 1)
                 PROVE  \/ j \in DOMAIN rows /\ j # i /\ rows'[j] = rows[j]
                        \/ j = i /\ rows'[j] = e
                        \/ j = n + 1 /\ rows'[j] = c
      BY <1>5
    <2>1. j \in 1 .. n \/ j = n + 1
      <3>1. n \in Nat
        BY <1>1
      <3> HIDE DEF n, IInv
      <3> QED BY <3>1
    <2> QED BY <1>1, <1>4, <2>1
  <1>9. rows'[i] = e /\ i \in DOMAIN rows' /\ i # n + 1
    BY <1>1, <1>4, <1>5
  <1>10. TypeOK'
    <2> HIDE DEF IInv
    <2>1. TypeOK
      BY DEF IInv
    <2>2. n + 1 <= MaxRows /\ n <= n + 1
      BY <1>1
    <2> QED BY <1>4, <1>5, <1>7, <1>8, <2>1, <2>2, ChangedType
  <1>11. \A k \in DOMAIN rows : rows[k].type = "transfer" /\ rows[k].group # None =>
          /\ rows[k].group \in DOMAIN rows /\ rows[k].group # n + 1 /\ rows[k].group # i
          /\ rows[rows[k].group] = Twin(rows[k], rows[k].group, rows[rows[k].group].amount)
    <2>1. \A k \in DOMAIN rows : rows[k].type = "transfer" /\ rows[k].group # None =>
            /\ rows[k].group \in DOMAIN rows
            /\ rows[rows[k].group] = Twin(rows[k], rows[k].group, rows[rows[k].group].amount)
      BY <1>2 DEF Paired
    <2> QED BY <1>1, <2>1, TwinIs
  <1>12. \A j \in DOMAIN rows : rows[j].group # None => rows[j].group \in DOMAIN rows
    BY <1>2, <1>11 DEF Paired
  <1>13. \A j \in DOMAIN rows : j # i => rows'[j] = rows[j]
    BY <1>4
  <1>14. Paired(rows')
    <2>1. \A k \in DOMAIN rows' : rows'[k].type = "transfer" /\ rows'[k].group # None =>
            /\ rows'[k].group \in DOMAIN rows'
            /\ rows'[rows'[k].group] = Twin(rows'[k], rows'[k].group, rows'[rows'[k].group].amount)
      <3> SUFFICES ASSUME NEW k \in DOMAIN rows', rows'[k].type = "transfer", rows'[k].group # None
                   PROVE  /\ rows'[k].group \in DOMAIN rows'
                          /\ rows'[rows'[k].group] =
                               Twin(rows'[k], rows'[k].group, rows'[rows'[k].group].amount)
        OBVIOUS
      <3>1. CASE k = i
        BY <1>1, <1>3, <1>5, <1>9, <3>1
      <3>2. CASE k \in DOMAIN rows /\ k # i
        <4>1. /\ rows'[k] = rows[k] /\ rows[k].group \in DOMAIN rows /\ rows[k].group # i
              /\ rows[rows[k].group] = Twin(rows[k], rows[k].group, rows[rows[k].group].amount)
          BY <1>11, <1>13, <3>2
        <4>2. rows'[rows[k].group] = rows[rows[k].group] /\ rows[k].group \in DOMAIN rows'
          BY <1>1, <1>5, <1>13, <4>1
        <4> QED BY <4>1, <4>2
      <3>3. k # n + 1
        BY <1>3, <1>5
      <3> QED BY <1>8, <3>1, <3>2, <3>3
    <2>2. \A j \in DOMAIN rows' :
            rows'[j].type = "expense" /\ rows'[j].group # None /\ ~rows'[j].deleted =>
              \E k \in DOMAIN rows' : rows'[k].type = "transfer" /\ rows'[k].group = rows'[j].group
      <3> SUFFICES ASSUME NEW j \in DOMAIN rows', rows'[j].type = "expense",
                          rows'[j].group # None, ~rows'[j].deleted
                   PROVE  \E k \in DOMAIN rows' :
                            rows'[k].type = "transfer" /\ rows'[k].group = rows'[j].group
        OBVIOUS
      <3>1. CASE j = n + 1
        <4>1. rows'[j].group = n + 1
          BY <1>3, <1>5, <3>1
        <4>2. i \in DOMAIN rows' /\ rows'[i].type = "transfer" /\ rows'[i].group = n + 1
          BY <1>9
        <4> QED BY <4>1, <4>2
      <3>2. CASE j \in DOMAIN rows /\ j # i
        <4>1. rows'[j] = rows[j]
          BY <1>13, <3>2
        <4>2. PICK k \in DOMAIN rows : rows[k].type = "transfer" /\ rows[k].group = rows[j].group
          BY <1>2, <3>2, <4>1 DEF Paired
        <4>3. k # i /\ k \in DOMAIN rows'
          BY <1>1, <1>5, <4>1, <4>2
        <4> QED BY <1>13, <4>1, <4>2, <4>3
      <3>3. j # i
        BY <1>9
      <3> QED BY <1>8, <3>1, <3>2, <3>3
    <2>3. \A j \in DOMAIN rows' : rows'[j].type # "transfer" /\ rows'[j].group # None =>
            rows'[j].type = "expense" /\ rows'[j].group = j
      BY <1>2, <1>3, <1>8 DEF Paired
    <2>4. \A k, l \in DOMAIN rows' :
            /\ rows'[k].type = "transfer" /\ rows'[l].type = "transfer"
            /\ rows'[k].group # None /\ rows'[k].group = rows'[l].group
            => k = l
      <3>1. \A k \in DOMAIN rows' : rows'[k].type = "transfer" =>
              \/ k = i /\ rows'[k].group = n + 1
              \/ k \in DOMAIN rows /\ rows'[k] = rows[k] /\ rows[k].group # n + 1
        <4> SUFFICES ASSUME NEW k \in DOMAIN rows', rows'[k].type = "transfer"
                     PROVE  \/ k = i /\ rows'[k].group = n + 1
                            \/ k \in DOMAIN rows /\ rows'[k] = rows[k] /\ rows[k].group # n + 1
          OBVIOUS
        <4> QED BY <1>3, <1>8, <1>9, <1>11
      <3> QED BY <1>2, <3>1 DEF Paired
    <2> QED BY <2>1, <2>2, <2>3, <2>4 DEF Paired
  <1>15. Moved(rows', asked')
    <2> SUFFICES ASSUME NEW k \in DOMAIN rows', rows'[k].type = "transfer", ~rows'[k].deleted
                 PROVE  Arriving(asked'[k], FeeIn(rows', k), rows'[k].mode) = rows'[k].amount
      BY DEF Moved
    <2>1. CASE k = i
      <3>1. FeeIn(rows', k) = fee
        BY <1>3, <1>5, <1>9, <2>1 DEF FeeIn
      <3> QED BY <1>7, <1>9, <2>1, <3>1
    <2>2. CASE k \in DOMAIN rows /\ k # i
      <3>1. rows'[k] = rows[k] /\ asked'[k] = asked[k]
        BY <1>7, <1>13, <2>2
      <3>2. FeeIn(rows', k) = FeeIn(rows, k)
        <4>1. CASE rows[k].group = None
          BY <3>1, <4>1 DEF FeeIn
        <4>2. CASE rows[k].group # None
          <5>1. rows[k].group \in DOMAIN rows /\ rows[k].group # i
            BY <1>11, <2>2, <3>1, <4>2
          <5> QED BY <1>13, <3>1, <4>2, <5>1 DEF FeeIn
        <4> QED BY <4>1, <4>2
      <3> QED BY <1>2, <2>2, <3>1, <3>2 DEF Moved
    <2>3. k # n + 1
      BY <1>3, <1>5
    <2> QED BY <1>8, <2>1, <2>2, <2>3
  <1>16. GroupsAreOwn' /\ GroupComplete' /\ AskedIsMoved'
    <2>1. Paired(rows)' /\ Moved(rows, asked)'
      BY <1>14, <1>15
    <2> QED BY <1>10, <2>1, PairedNext, MovedNext
  <1>17. ExcludedContributes'
    BY DEF ExcludedContributes, Contributes
  <1>18. \A j \in DOMAIN rows' : RowHolds(rows'[j]) /\ (j > n => Idle(rows'[j]))
    <2> SUFFICES ASSUME NEW j \in DOMAIN rows' PROVE RowHolds(rows'[j]) /\ (j > n => Idle(rows'[j]))
      OBVIOUS
    <2>1. CASE j \in DOMAIN rows /\ rows'[j] = rows[j]
      BY <1>1, <2>1 DEF HistoryHolds
    <2>2. CASE rows'[j] = e \/ rows'[j] = c
      BY <2>2 DEF Sound
    <2> QED BY <1>8, <2>1, <2>2
  <1>19. \A j \in DOMAIN rows : rows'[j] = rows[j] \/ (Idle(rows[j]) /\ Idle(rows'[j]))
    BY <1>9, <1>13 DEF Sound
  <1> HIDE DEF IInv
  <1> QED BY <1>1, <1>4, <1>5, <1>10, <1>16, <1>17, <1>18, <1>19, RowsChange

(* The accounts of a row that may be patched are active.                   *)
LEMMA MayPatchIs ==
  ASSUME IInv, NEW i \in DOMAIN rows, MayPatch(i)
  PROVE  /\ Idle(rows[i]) /\ rows[i] \in Transactions /\ RowHolds(rows[i])
         /\ ~rows[i].deleted /\ (rows[i].type # "transfer" => rows[i].group = None)
         /\ rows[i].amount # 0 /\ (rows[i].type # "adjustment" => rows[i].amount > 0)
  <1>1. Idle(rows[i]) /\ ~rows[i].deleted
    BY DEF MayPatch, Idle
  <1>2. rows[i] \in Transactions /\ RowHolds(rows[i])
    BY DEF IInv, LedgerInv, TypeOK, HistoryHolds
  <1>3. rows[i].type # "transfer" => rows[i].group = None
    BY DEF IInv, LedgerInv, GroupsAreOwn, MayPatch
  <1>4. rows[i].amount # 0 /\ (rows[i].type # "adjustment" => rows[i].amount > 0)
    BY DEF IInv, LedgerInv, TypeOK
  <1> QED BY <1>1, <1>2, <1>3, <1>4

(* A deleted row is sound, if its accounts were active or it was deleted.  *)
LEMMA DeletedIsSound ==
  ASSUME NEW t \in Transactions, RowHolds(t), t.amount # 0, t.type # "adjustment" => t.amount > 0
  PROVE  /\ Sound([t EXCEPT !.deleted = TRUE])
         /\ [t EXCEPT !.deleted = TRUE].deleted
         /\ [t EXCEPT !.deleted = TRUE].type = t.type
         /\ [t EXCEPT !.deleted = TRUE].kind = t.kind
         /\ [t EXCEPT !.deleted = TRUE].group = t.group
  <1> DEFINE d == [t EXCEPT !.deleted = TRUE]
  <1>1. /\ d \in Transactions /\ d.deleted /\ d.type = t.type /\ d.group = t.group
        /\ d.kind = t.kind /\ d.amount = t.amount /\ d.from = t.from /\ d.to = t.to
        /\ d.category = t.category /\ d.day = t.day
    BY DEF Transactions
  <1> HIDE DEF d
  <1>2. RowHolds(d)
    BY <1>1 DEF RowHolds, Touched
  <1>3. Sound(d)
    BY <1>1, <1>2 DEF Sound, Idle
  <1> QED BY <1>1, <1>3 DEF d

(* A patched row is typed.                                                 *)
LEMMA PatchIsTyped ==
  ASSUME NEW t \in Transactions, NEW a \in Accounts, NEW c \in AllCategories,
         NEW x \in Int, NEW day \in Days
  PROVE  [t EXCEPT !.from = a, !.category = c, !.amount = x, !.day = day] \in Transactions
  <1> DEFINE d == [t EXCEPT !.from = a, !.category = c]
             e == [d EXCEPT !.amount = x, !.day = day]
  <1>1. d \in Transactions
    BY DEF Transactions
  <1>2. [t EXCEPT !.from = a, !.category = c, !.amount = x, !.day = day] = e
    OBVIOUS
  <1> HIDE DEF d
  <1>3. e \in Transactions
    <2> DEFINE b == [d EXCEPT !.amount = x]
    <2>1. b \in Transactions
      BY <1>1 DEF Transactions
    <2>2. e = [b EXCEPT !.day = day]
      OBVIOUS
    <2> HIDE DEF b, e
    <2> QED BY <2>1, <2>2 DEF Transactions
  <1> QED BY <1>2, <1>3

(* An income or an expense is patched.                                     *)
LEMMA PatchEntryKeeps ==
  ASSUME IInv, NEW i \in DOMAIN rows, NEW a \in Accounts, NEW c \in Picks, NEW x \in Amounts,
         NEW day \in Days, PatchEntry(i, a, c, x, day)
  PROVE  IInv'
  <1> DEFINE t == rows[i]
             e == [t EXCEPT !.from = a, !.category = c, !.amount = x, !.day = day]
  <1>1. /\ t \in Transactions /\ RowHolds(t) /\ Idle(t) /\ ~t.deleted /\ t.group = None
        /\ t.type \in CategoryKinds /\ t.type # "transfer" /\ t.type # "adjustment"
    BY MayPatchIs DEF PatchEntry, CategoryKinds
  <1>2. /\ e \in Transactions /\ e.from = a /\ e.category = c /\ e.amount = x /\ e.day = day
        /\ e.type = t.type /\ e.group = t.group /\ e.to = t.to /\ e.deleted = t.deleted
        /\ e.kind = t.kind
    <2>1. c \in AllCategories /\ x \in Int
      OBVIOUS
    <2> HIDE DEF t
    <2>2. /\ e.from = a /\ e.category = c /\ e.amount = x /\ e.day = day
          /\ e.type = t.type /\ e.group = t.group /\ e.to = t.to /\ e.deleted = t.deleted
          /\ e.kind = t.kind
      BY <1>1 DEF Transactions
    <2>3. e \in Transactions
      BY <1>1, <2>1, PatchIsTyped
    <2> QED BY <2>2, <2>3
  <1>3. rows' = [rows EXCEPT ![i] = e]
    <2>1. rows \in Seq(Transactions)
      BY DEF IInv, LedgerInv, TypeOK
    <2>2. rows' = [rows EXCEPT ![i].from = a, ![i].category = c, ![i].amount = x, ![i].day = day]
      BY DEF PatchEntry
    <2> QED BY <1>1, <2>1, <2>2
  <1>4. /\ Active(a) /\ NotBefore(day, {a}) /\ asked' = [asked EXCEPT ![i] = x]
        /\ UNCHANGED <<tables, excluded>> /\ x \in Int /\ x > 0
        /\ IF c = t.category THEN CategoryKind(c) = t.type ELSE Candidate(c, t.type)
    BY DEF PatchEntry
  <1> HIDE DEF e
  <1>5. t.to = None
    BY <1>1 DEF RowHolds
  <1>6. Touched(e) = {a}
    BY <1>2, <1>5 DEF Touched
  <1>7. Candidate(c, t.type)
    BY <1>1, <1>4 DEF RowHolds
  <1>8. RowHolds(e)
    BY <1>1, <1>2, <1>4, <1>5, <1>6, <1>7 DEF RowHolds, Active, NotBefore
  <1>9. Sound(e)
    BY <1>2, <1>4, <1>6, <1>8 DEF Sound, Idle
  <1>10. excluded' \subseteq DOMAIN rows /\ \A j \in excluded' : Contributes(rows'[j])
    <2>1. excluded \subseteq DOMAIN rows /\ \A j \in excluded : Contributes(rows[j])
      BY DEF IInv, LedgerInv, TypeOK, ExcludedContributes
    <2>2. \A j \in DOMAIN rows : rows'[j].type = rows[j].type /\ rows'[j].kind = rows[j].kind
      BY <1>2, <1>3
    <2> QED BY <1>4, <2>1, <2>2 DEF Contributes
  <1>11. e.type = t.type /\ e.group = None /\ e.type # "transfer"
    BY <1>1, <1>2
  <1> QED BY <1>1, <1>3, <1>4, <1>9, <1>10, <1>11, ChangeOne

(* A transaction is deleted, with its companion.                           *)
LEMMA DeleteKeeps ==
  ASSUME IInv, NEW i \in DOMAIN rows, DeleteTransaction(i)
  PROVE  IInv'
  <1> DEFINE t == rows[i]
             Gone(j) == [rows[j] EXCEPT !.deleted = TRUE]
  <1>1. /\ t \in Transactions /\ RowHolds(t) /\ Idle(t) /\ ~t.deleted
        /\ (t.type # "transfer" => t.group = None)
        /\ t.amount # 0 /\ (t.type # "adjustment" => t.amount > 0)
    BY MayPatchIs DEF DeleteTransaction
  <1>2. /\ UNCHANGED <<tables, excluded, asked>>
        /\ rows' = [j \in DOMAIN rows |-> [rows[j] EXCEPT !.deleted = @ \/ j \in Group(i)]]
        /\ \A j \in Group(i) : Idle(rows[j])
    BY DEF DeleteTransaction, Idle
  <1>3. /\ rows \in Seq(Transactions) /\ asked \in Seq(Int) /\ Len(asked) = Len(rows)
        /\ excluded \subseteq DOMAIN rows /\ \A j \in excluded : Contributes(rows[j])
        /\ \A j \in DOMAIN rows : /\ rows[j] \in Transactions /\ RowHolds(rows[j])
                                  /\ rows[j].amount # 0
                                  /\ (rows[j].type # "adjustment" => rows[j].amount > 0)
    BY DEF IInv, LedgerInv, TypeOK, ExcludedContributes, HistoryHolds
  <1>4. \A j \in DOMAIN rows : j \in Group(i) => rows'[j] = Gone(j)
    BY <1>2, <1>3 DEF Transactions
  <1>5. \A j \in DOMAIN rows : j \notin Group(i) => rows'[j] = rows[j]
    <2> SUFFICES ASSUME NEW j \in DOMAIN rows, j \notin Group(i) PROVE rows'[j] = rows[j]
      OBVIOUS
    <2> DEFINE r == rows[j]
    <2>1. r \in Transactions
      BY <1>3
    <2>2. rows'[j] = [r EXCEPT !.deleted = r.deleted \/ FALSE]
      BY <1>2
    <2> HIDE DEF r
    <2>3. [r EXCEPT !.deleted = r.deleted \/ FALSE] = r
      BY <2>1 DEF Transactions
    <2> QED BY <2>2, <2>3 DEF r
  <1>6. \A j \in DOMAIN rows :
          /\ Sound(Gone(j)) /\ Gone(j).deleted /\ Gone(j).type = rows[j].type
          /\ Gone(j).group = rows[j].group /\ Gone(j).kind = rows[j].kind
    BY <1>3, DeletedIsSound
  <1>7. asked' = [asked EXCEPT ![i] = asked[i]] /\ asked[i] \in Int
    BY <1>2, <1>3
  <1> HIDE DEF Gone
  <1>8. excluded' \subseteq DOMAIN rows /\ \A j \in excluded' : Contributes(rows'[j])
    <2>1. \A j \in DOMAIN rows : rows'[j].type = rows[j].type /\ rows'[j].kind = rows[j].kind
      BY <1>4, <1>5, <1>6
    <2> QED BY <1>2, <1>3, <2>1 DEF Contributes
  <1>9. CASE t.group = None
    <2>1. Group(i) = {i}
      BY <1>9 DEF Group
    <2>2. rows' = [rows EXCEPT ![i] = Gone(i)]
      BY <1>2, <1>3, <1>4, <1>5, <2>1
    <2>3. /\ Sound(Gone(i)) /\ Gone(i).deleted /\ Gone(i).type = t.type /\ Gone(i).group = None
      BY <1>6, <1>9
    <2> QED BY <1>1, <1>2, <1>7, <1>8, <1>9, <2>2, <2>3, ChangeOne
  <1>10. CASE t.group # None
    <2> DEFINE g == t.group
               fee == rows[g].amount
    <2>1. Paired(rows) /\ t.type = "transfer"
      BY <1>1, <1>10, PairedIsComplete DEF IInv, LedgerInv
    <2>2. g \in DOMAIN rows /\ rows[g] = Twin(t, g, rows[g].amount)
      BY <1>10, <2>1 DEF Paired
    <2>3. /\ rows[g].group = g /\ rows[g].type = "expense"
      BY <2>2, TwinIs
    <2>4. Group(i) = {i, g}
      <3>1. \A j \in DOMAIN rows : rows[j].group = g => j = i \/ j = g
        BY <1>10, <2>1 DEF Paired
      <3> QED BY <1>10, <2>2, <2>3, <3>1 DEF Group
    <2>5. rows' = [j \in DOMAIN rows |-> IF j = i THEN Gone(i) ELSE IF j = g THEN Gone(g) ELSE rows[j]]
      BY <1>2, <1>3, <1>4, <1>5, <2>4
    <2>6. Gone(g) = Twin(Gone(i), g, fee)
      <3> DEFINE r == rows[g]
      <3>1. Twin(Gone(i), g, fee) = [Twin(t, g, fee) EXCEPT !.deleted = TRUE]
        BY <1>1 DEF Twin, CompanionOf, Entry, Gone, Transactions
      <3> QED BY <2>2, <3>1 DEF Gone
    <2>7. fee \in Int /\ g # None /\ rows[i].group = g /\ rows[i].type = "transfer"
      BY <1>3, <1>10, <2>1, <2>2 DEF Transactions
    <2> DEFINE e == Gone(i)
               c == Gone(g)
               x == asked[i]
    <2>8. /\ Sound(e) /\ e.deleted /\ e.type = "transfer" /\ e.group = g
          /\ Sound(c) /\ Idle(rows[g]) /\ Idle(rows[i])
          /\ c = Twin(e, g, fee) /\ x \in Int /\ asked' = [asked EXCEPT ![i] = x]
      BY <1>1, <1>2, <1>6, <1>7, <2>1, <2>2, <2>4, <2>6
    <2>9. /\ rows' = [j \in DOMAIN rows |-> IF j = i THEN e ELSE IF j = g THEN c ELSE rows[j]]
          /\ g \in DOMAIN rows /\ UNCHANGED tables
      BY <1>2, <2>2, <2>5
    <2> HIDE DEF g, fee, e, c, x
    <2> QED BY <1>8, <2>7, <2>8, <2>9, ChangePair
  <1> QED BY <1>9, <1>10

(* A row, and the amount that was asked for in it.                         *)
LEMMA RowType ==
  ASSUME TypeOK, NEW i \in DOMAIN rows
  PROVE  /\ rows[i] \in Transactions /\ asked[i] \in Int
         /\ rows[i].amount \in Int /\ (rows[i].type # "adjustment" => rows[i].amount > 0)
  <1>1. rows[i] \in Transactions /\ i \in DOMAIN asked /\ asked \in Seq(Int)
    BY DEF TypeOK
  <1>2. rows[i].amount \in Int
    BY <1>1 DEF Transactions
  <1>3. rows[i].type # "adjustment" => rows[i].amount > 0
    BY DEF TypeOK
  <1>4. asked[i] \in Int
    BY <1>1
  <1> QED BY <1>1, <1>2, <1>3, <1>4

(* The amount a transfer was asked for is remembered, or computed again.   *)
LEMMA AskedForIs ==
  ASSUME IInv, NEW i \in DOMAIN rows, rows[i].type = "transfer", ~rows[i].deleted
  PROVE  /\ AskedFor(i) = asked[i] /\ asked[i] \in Int
         /\ FeeOf(i) = FeeIn(rows, i) /\ FeeOf(i) \in Int /\ FeeOf(i) >= 0
         /\ rows[i].group = None => FeeOf(i) = 0
  <1>1. Paired(rows) /\ Moved(rows, asked)
    BY PairedIsComplete, MovedIsAsked DEF IInv, LedgerInv
  <1>2. FeeOf(i) = FeeIn(rows, i)
    BY <1>1, PairedGroup
  <1>3. FeeOf(i) \in Int /\ FeeOf(i) >= 0 /\ (rows[i].group = None => FeeOf(i) = 0)
    <2>1. CASE rows[i].group = None
      BY <1>2, <2>1 DEF FeeIn
    <2>2. CASE rows[i].group # None
      <3> DEFINE g == rows[i].group
      <3>1. g \in DOMAIN rows /\ rows[g] = Twin(rows[i], g, rows[g].amount)
        BY <1>1, <2>2 DEF Paired
      <3>2. rows[g].type = "expense"
        BY <3>1, TwinIs
      <3>3. rows[g].amount \in Int /\ rows[g].amount > 0
        BY <3>1, <3>2, RowType DEF IInv, LedgerInv
      <3> QED BY <1>2, <2>2, <3>3 DEF FeeIn
    <2> QED BY <2>1, <2>2
  <1>4. asked[i] \in Int /\ rows[i].amount \in Int
    BY RowType DEF IInv, LedgerInv
  <1>5. Arriving(asked[i], FeeOf(i), rows[i].mode) = rows[i].amount
    BY <1>1, <1>2 DEF Moved
  <1>6. AskedFor(i) = asked[i]
    BY <1>3, <1>4, <1>5 DEF Arriving, AskedFor
  <1> QED BY <1>2, <1>3, <1>4, <1>6

(* Statistics that still exclude what contributes.                         *)
LEMMA StillContributes ==
  ASSUME IInv, NEW i \in DOMAIN rows, rows[i].type = "transfer", NEW kind, NEW g,
         DOMAIN rows \subseteq DOMAIN rows', rows'[i].kind = kind,
         \A j \in DOMAIN rows \ {i, g} : rows'[j] = rows[j],
         g \in DOMAIN rows => rows'[g].type = "expense",
         excluded' = StillExcluded(i, kind)
  PROVE  excluded' \subseteq DOMAIN rows /\ \A j \in excluded' : Contributes(rows'[j])
  <1>1. excluded \subseteq DOMAIN rows /\ \A j \in excluded : Contributes(rows[j])
    BY DEF IInv, LedgerInv, TypeOK, ExcludedContributes
  <1>2. excluded' \subseteq excluded
    BY DEF StillExcluded
  <1>3. ASSUME NEW j \in excluded' PROVE Contributes(rows'[j])
    <2>1. CASE j = i
      <3>1. rows[i].kind = "repayment"
        BY <1>1, <1>2, <1>3, <2>1 DEF Contributes, CategoryKinds
      <3> QED BY <1>3, <2>1, <3>1 DEF StillExcluded, Contributes
    <2>2. CASE j = g
      BY <1>1, <1>2, <1>3, <2>2 DEF Contributes, CategoryKinds
    <2>3. CASE j # i /\ j # g
      <3>1. rows'[j] = rows[j] /\ Contributes(rows[j])
        BY <1>1, <1>2, <1>3, <2>3
      <3> QED BY <3>1 DEF Contributes
    <2> QED BY <2>1, <2>2, <2>3
  <1> QED BY <1>1, <1>2, <1>3

(* A transfer is patched, and its companion follows.                       *)
LEMMA PatchTransferKeeps ==
  ASSUME IInv, NEW i \in DOMAIN rows, PatchTransfer(i)
  PROVE  IInv'
  <1>1. PICK from \in Accounts, to \in Accounts, kind \in TransferKinds, day \in Days :
          /\ from # to /\ Active(from) /\ Active(to)
          /\ KindFits(kind, from, to) /\ NotBefore(day, {from, to})
          /\ \E amount \in Amounts \cup {Keep}, givenFee \in Fees \cup {Keep}, mode \in Modes \cup {Keep} :
               PatchTo(i, kind, from, to, amount, givenFee, mode, day)
    BY DEF PatchTransfer
  <1>2. PICK amount \in Amounts \cup {Keep}, givenFee \in Fees \cup {Keep}, mode \in Modes \cup {Keep} :
          PatchTo(i, kind, from, to, amount, givenFee, mode, day)
    BY <1>1
  <1> DEFINE t == rows[i]
             n == Len(rows)
             g == t.group
             fee == IF givenFee = Keep THEN FeeOf(i) ELSE givenFee
             x == IF amount = Keep THEN AskedFor(i) ELSE amount
             stored == StoredMode(kind, fee, mode, t.mode)
             group == IF fee = 0 THEN None ELSE IF g # None THEN g ELSE n + 1
             e == Transfer(kind, group, stored, Arriving(x, fee, stored), from, to, day)
             kept == IF amount = Keep THEN asked ELSE [asked EXCEPT ![i] = amount]
  <1>3. /\ t.type = "transfer" /\ ~t.deleted /\ Idle(t) /\ t \in Transactions /\ TypeOK
        /\ MayPatch(i) /\ GroupIntact(i)
    BY MayPatchIs DEF PatchTransfer, IInv, LedgerInv
  <1>4. /\ e.amount > 0 /\ rows' = WithCompanion(i, e, fee) /\ Len(rows') <= MaxRows
        /\ excluded' = StillExcluded(i, kind) /\ UNCHANGED tables
        /\ asked' = IF Len(rows') > n THEN Append(kept, fee) ELSE kept
    BY <1>2 DEF PatchTo
  <1>5. /\ fee \in Int /\ fee >= 0 /\ x \in Int /\ x = (IF amount = Keep THEN asked[i] ELSE amount)
    <2>1. FeeOf(i) \in Int /\ FeeOf(i) >= 0 /\ AskedFor(i) = asked[i] /\ asked[i] \in Int
      BY <1>3, AskedForIs
    <2>2. givenFee # Keep => givenFee \in Int /\ givenFee >= 0
      OBVIOUS
    <2>3. amount # Keep => amount \in Int
      OBVIOUS
    <2> QED BY <2>1, <2>2, <2>3
  <1>6. kept = [asked EXCEPT ![i] = x] /\ asked \in Seq(Int) /\ Len(asked) = n
    <2>1. asked \in Seq(Int) /\ Len(asked) = n /\ n \in Nat /\ i \in 1 .. n
      BY <1>3, RowNumbers DEF TypeOK
    <2>2. asked = [asked EXCEPT ![i] = asked[i]]
      BY <2>1
    <2> HIDE DEF x
    <2> QED BY <1>5, <2>1, <2>2
  <1>7. stored \in Modes \cup {None} /\ (fee = 0 => stored = None)
    <2>1. t.mode \in Modes \cup {None}
      BY <1>3 DEF Transactions
    <2> HIDE DEF t, fee
    <2> QED BY <2>1 DEF StoredMode, Modes
  <1>8. n \in Nat /\ DOMAIN rows = 1 .. n /\ rows \in Seq(Transactions) /\ n <= MaxRows
    BY <1>3, RowNumbers DEF TypeOK
  <1>9. e.amount = Arriving(x, fee, stored) /\ e.amount \in Int
    BY <1>5 DEF Transfer, Arriving
  <1>10. /\ e.type = "transfer" /\ e.kind = kind /\ e.group = group /\ e.mode = stored
         /\ e.from = from /\ e.deleted = FALSE
    BY DEF Transfer
  <1>11. group \in (1 .. MaxRows) \cup {None} => Checked(e)
    <2> DEFINE y == Arriving(x, fee, stored)
    <2>1. y \in Int /\ y > 0
      BY <1>4, <1>9
    <2>2. e = Transfer(kind, group, stored, y, from, to, day)
      OBVIOUS
    <2> HIDE DEF y, group, stored, fee, x, e
    <2> QED BY <1>1, <1>3, <1>7, <2>1, <2>2, TransferIsChecked
  <1>12. ASSUME group \in 1 .. MaxRows, fee > 0
         PROVE  /\ Sound(CompanionOf(e, group, fee))
                /\ CompanionOf(e, group, fee) = Twin(e, group, fee)
    <2>1. Checked(e)
      BY <1>11, <1>12
    <2> HIDE DEF e, group, fee
    <2>2. Checked(CompanionOf(e, group, fee))
      BY <1>3, <1>5, <1>10, <1>12, <2>1, CompanionIsChecked
    <2> QED BY <1>10, <2>2, CompanionIsTwin DEF Checked, Sound
  <1>13. Paired(rows)
    BY PairedIsComplete DEF IInv, LedgerInv
  <1> DEFINE olds == GroupExpenses(i)
             updated == [j \in DOMAIN rows |->
                           IF j = i THEN e
                           ELSE IF j \notin olds THEN rows[j]
                           ELSE IF fee > 0 THEN CompanionOf(e, e.group, fee)
                           ELSE [rows[j] EXCEPT !.deleted = TRUE]]
  <1>14. rows' = IF fee > 0 /\ olds = {} THEN Append(updated, CompanionOf(e, e.group, fee)) ELSE updated
    BY <1>4 DEF WithCompanion
  <1> HIDE DEF t, n, g, fee, x, stored, group, e, kept, olds, updated
  <1>15. CASE g = None
    <2>1. olds = {}
      BY <1>3, <1>13, <1>15, PairedGroup DEF olds, g, t
    <2>2. CASE fee = 0
      <3>1. group = None /\ Sound(e) /\ x = e.amount
        BY <1>5, <1>7, <1>9, <1>11, <2>2 DEF group, Checked, Arriving
      <3>2. rows' = [rows EXCEPT ![i] = e]
        <4>1. rows' = updated
          BY <1>5, <1>14, <2>2
        <4>2. updated = [j \in DOMAIN rows |-> IF j = i THEN e ELSE rows[j]]
          BY <2>1 DEF updated
        <4> QED BY <1>8, <4>1, <4>2
      <3>3. Len(rows') = n
        BY <1>8, <3>2
      <3>4. asked' = [asked EXCEPT ![i] = x]
        BY <1>4, <1>6, <1>8, <3>3
      <3>5. excluded' \subseteq DOMAIN rows /\ \A j \in excluded' : Contributes(rows'[j])
        <4>1. /\ DOMAIN rows' = DOMAIN rows /\ rows'[i].kind = kind
              /\ \A j \in DOMAIN rows \ {i, None} : rows'[j] = rows[j]
          BY <1>8, <1>10, <3>2
        <4>2. None \notin DOMAIN rows
          BY <1>8
        <4> QED BY <1>3, <1>4, <4>1, <4>2, StillContributes DEF t
      <3> QED BY <1>3, <1>4, <1>5, <1>10, <1>15, <3>1, <3>2, <3>4, <3>5, ChangeOne DEF t, g
    <2>3. CASE fee # 0
      <3>1. fee > 0 /\ group = n + 1
        BY <1>5, <1>15, <2>3 DEF group
      <3> DEFINE c == CompanionOf(e, n + 1, fee)
      <3>2. Again(rows', rows, i, e, c)
        <4>1. updated = [rows EXCEPT ![i] = e]
          BY <1>8, <2>1 DEF updated
        <4> QED BY <1>10, <1>14, <2>1, <3>1, <4>1 DEF Again
      <3>3. /\ Len(rows') = n + 1 /\ rows'[i] = e /\ DOMAIN rows \subseteq DOMAIN rows'
            /\ \A j \in DOMAIN rows : j # i => rows'[j] = rows[j]
        <4> DEFINE S == Transactions \cup {e, c}
        <4>1. rows \in Seq(S) /\ e \in S /\ c \in S
          BY <1>8
        <4> HIDE DEF S, c
        <4>2. /\ rows' \in Seq(S) /\ Len(rows') = Len(rows) + 1 /\ rows'[i] = e
              /\ \A j \in DOMAIN rows : j # i => rows'[j] = rows[j]
          BY <3>2, <4>1, IsAgain
        <4> QED BY <1>8, <4>2 DEF n
      <3>4. n < MaxRows /\ group \in 1 .. MaxRows
        BY <1>4, <1>8, <3>1, <3>3
      <3>5. Sound(e) /\ Sound(c) /\ c = Twin(e, n + 1, fee)
        BY <1>11, <1>12, <3>1, <3>4 DEF Checked
      <3>6. Again(asked', asked, i, x, fee)
        BY <1>4, <1>6, <1>8, <3>3 DEF Again
      <3>7. excluded' \subseteq DOMAIN rows /\ \A j \in excluded' : Contributes(rows'[j])
        <4>1. /\ DOMAIN rows \subseteq DOMAIN rows' /\ rows'[i].kind = kind
              /\ \A j \in DOMAIN rows \ {i, None} : rows'[j] = rows[j]
          BY <1>10, <3>3
        <4>2. None \notin DOMAIN rows
          BY <1>8
        <4> QED BY <1>3, <1>4, <4>1, <4>2, StillContributes DEF t
      <3> HIDE DEF c
      <3> QED BY <1>3, <1>4, <1>5, <1>9, <1>10, <1>15, <3>1, <3>2, <3>4, <3>5, <3>6, <3>7,
                 ChangeAndInsert DEF t, g, n
    <2> QED BY <2>2, <2>3
  <1>16. CASE g # None
    <2>1. /\ olds = {g} /\ g \in DOMAIN rows /\ rows[g] = Twin(t, g, rows[g].amount)
      BY <1>3, <1>13, <1>16, PairedGroup DEF olds, g, t, Paired
    <2>2. /\ rows[g].type = "expense" /\ rows[g].group = g /\ rows[g].from = t.from
          /\ rows[g].to = None /\ g # i
      BY <1>3, <2>1, TwinIs DEF t
    <2>3. /\ rows[g] \in Transactions /\ RowHolds(rows[g]) /\ rows[g].amount # 0
          /\ (rows[g].type # "adjustment" => rows[g].amount > 0)
      BY <1>3, <2>1 DEF IInv, LedgerInv, TypeOK, HistoryHolds
    <2>4. Idle(rows[g])
      <3>1. t.from \in Touched(t) /\ Touched(rows[g]) = {t.from}
        BY <1>3, <2>2 DEF Touched, Transactions
      <3> QED BY <1>3, <3>1 DEF MayPatch, Idle, t
    <2> DEFINE c == IF fee > 0 THEN CompanionOf(e, g, fee) ELSE [rows[g] EXCEPT !.deleted = TRUE]
    <2>5. group \in (1 .. MaxRows) \cup {None} /\ Sound(e)
      <3>1. group \in (1 .. MaxRows) \cup {None}
        BY <1>8, <1>16, <2>1 DEF group
      <3> QED BY <1>11, <3>1 DEF Checked
    <2>6. rows' = [j \in DOMAIN rows |-> IF j = i THEN e ELSE IF j = g THEN c ELSE rows[j]]
      <3>1. rows' = updated
        BY <1>14, <2>1
      <3>2. fee > 0 => e.group = g
        BY <1>10, <1>16 DEF group
      <3> QED BY <2>1, <3>1, <3>2 DEF updated
    <2>7. /\ Sound(c) /\ c.type = "expense"
          /\ \/ e.group = g /\ c = Twin(e, g, fee)
             \/ e.group = None /\ c.deleted /\ c.type = "expense" /\ c.group = g
      <3>1. CASE fee > 0
        <4>1. group = g /\ g \in 1 .. MaxRows
          BY <1>8, <1>16, <2>1, <3>1 DEF group
        <4>2. Sound(c) /\ c = Twin(e, g, fee)
          BY <1>12, <3>1, <4>1
        <4> HIDE DEF c
        <4>3. c.type = "expense"
          BY <4>2, TwinIs
        <4> QED BY <1>10, <4>1, <4>2, <4>3
      <3>2. CASE ~(fee > 0)
        <4>1. fee = 0 /\ group = None
          BY <1>5, <3>2 DEF group
        <4>2. Sound(c) /\ c.deleted /\ c.type = "expense" /\ c.group = g
          BY <2>2, <2>3, <3>2, DeletedIsSound
        <4> QED BY <1>10, <4>1, <4>2
      <3> QED BY <3>1, <3>2
    <2> HIDE DEF c
    <2>8. /\ rows'[i] = e /\ rows'[g] = c /\ Len(rows') = n /\ DOMAIN rows' = DOMAIN rows
          /\ \A j \in DOMAIN rows \ {i, g} : rows'[j] = rows[j]
      <3>1. /\ rows'[i] = e /\ rows'[g] = c /\ DOMAIN rows' = DOMAIN rows
            /\ \A j \in DOMAIN rows \ {i, g} : rows'[j] = rows[j]
        BY <2>1, <2>2, <2>6
      <3>2. rows' \in [1 .. n -> Transactions]
        BY <1>8, <2>5, <2>6, <2>7 DEF Sound
      <3>3. Len(rows') = n
        BY <1>8, <3>2, IsSequence
      <3> QED BY <3>1, <3>3
    <2>9. asked' = [asked EXCEPT ![i] = x]
      BY <1>4, <1>6, <1>8, <2>8
    <2>10. excluded' \subseteq DOMAIN rows /\ \A j \in excluded' : Contributes(rows'[j])
      BY <1>3, <1>4, <1>10, <2>7, <2>8, StillContributes DEF t
    <2>11. Arriving(x, IF e.group = None THEN 0 ELSE fee, e.mode) = e.amount
      <3>1. CASE fee = 0
        BY <1>9, <1>10, <3>1
      <3>2. CASE fee # 0
        <4>1. e.group # None
          BY <1>10, <1>16, <3>2 DEF group
        <4> QED BY <1>9, <1>10, <4>1
      <3> QED BY <3>1, <3>2
    <2>12. rows[i].type = "transfer" /\ rows[i].group = g /\ Idle(rows[i])
      BY <1>3 DEF t, g
    <2>13. /\ UNCHANGED tables /\ g \in DOMAIN rows /\ g # None /\ fee \in Int /\ x \in Int
           /\ e.type = "transfer" /\ Sound(e) /\ Sound(c)
      BY <1>4, <1>5, <1>10, <1>16, <2>1, <2>5, <2>7
    <2> QED BY <2>4, <2>6, <2>7, <2>9, <2>10, <2>11, <2>12, <2>13, ChangePair
  <1> QED BY <1>15, <1>16
-----------------------------------------------------------------------------
(* All steps.                                                              *)

LEMMA AccountOpsKeep == IInv /\ AccountOps => IInv'
  <1> SUFFICES ASSUME IInv, AccountOps PROVE IInv'
    OBVIOUS
  <1>1. CASE \E b \in Bases : CreateSettings(b) \/ PatchSettings(b)
    BY <1>1, SettingsKeep
  <1>2. CASE \E a \in Accounts : DeleteAccount(a) \/ ArchiveAccount(a) \/ RestoreAccount(a)
    BY <1>2, DeleteAccountKeeps, ArchiveKeeps
  <1>3. CASE \E a \in Accounts, n \in Natures, o \in Openings :
               CreateAccount(a, n, o) \/ PatchAccount(a, n, o)
    BY <1>3, CreateAccountKeeps, PatchAccountKeeps
  <1> QED BY <1>1, <1>2, <1>3 DEF AccountOps

LEMMA CreateKeeps == IInv /\ Create => IInv'
  <1> SUFFICES ASSUME IInv, NEW a \in Accounts, NEW d \in Days,
                      \/ \E m \in Amounts, type \in CategoryKinds, c \in Picks :
                           CreateEntry(type, a, c, m, d)
                      \/ \E b \in Accounts, k \in TransferKinds : CreateTransfer(a, b, k, d)
                      \/ \E x \in Targets : AdjustAccount(a, x, d)
               PROVE  IInv'
    BY DEF Create
  <1>1. CASE \E m \in Amounts, type \in CategoryKinds, c \in Picks : CreateEntry(type, a, c, m, d)
    BY <1>1, CreateEntryKeeps
  <1>2. CASE \E b \in Accounts, k \in TransferKinds : CreateTransfer(a, b, k, d)
    BY <1>2, CreateTransferKeeps
  <1>3. CASE \E x \in Targets : AdjustAccount(a, x, d)
    BY <1>3, AdjustKeeps
  <1> QED BY <1>1, <1>2, <1>3

LEMMA ChangeKeeps ==
  ASSUME IInv, NEW i \in DOMAIN rows, Change(i)
  PROVE  IInv'
  <1>1. CASE \E a \in Accounts, c \in Picks, m \in Amounts, d \in Days : PatchEntry(i, a, c, m, d)
    BY <1>1, PatchEntryKeeps
  <1>2. CASE PatchTransfer(i)
    BY <1>2, PatchTransferKeeps
  <1>3. CASE DeleteTransaction(i)
    BY <1>3, DeleteKeeps
  <1>4. CASE ExcludeFromStatistics(i) \/ RestoreToStatistics(i)
    BY <1>4, StatisticsKeep
  <1> QED BY <1>1, <1>2, <1>3, <1>4 DEF Change

LEMMA StutterKeeps == IInv /\ UNCHANGED vars => IInv'
  <1> SUFFICES ASSUME IInv, UNCHANGED vars PROVE IInv'
    OBVIOUS
  <1>1. UNCHANGED <<settings, accounts, categories, rows, excluded, asked>>
    BY DEF vars
  <1>2. TypeOK'
    BY <1>1 DEF IInv, LedgerInv, TypeOK
  <1>3. HistoryHolds' /\ BaseIsFixed' /\ LockedByAccount' /\ ExcludedContributes'
    BY <1>1 DEF IInv, LedgerInv, HistoryHolds, RowHolds, KindFits, Candidate, CategoryKind,
                BaseIsFixed, LockedByAccount, ExcludedContributes
  <1>4. ArchivedIsZero'
    <2>1. \A a \in Accounts : accounts[a] # None => Balance(a)' = Balance(a)
      BY <1>1, <1>2, BalanceStays DEF IInv, LedgerInv
    <2> QED BY <1>1, <2>1 DEF IInv, ArchivedIsZero
  <1>5. GroupsAreOwn' /\ GroupComplete' /\ AskedIsMoved'
    BY <1>1, RowsStay
  <1> QED BY <1>2, <1>3, <1>4, <1>5 DEF IInv, LedgerInv

LEMMA NextKeeps == IInv /\ [Next]_vars => IInv'
  <1> SUFFICES ASSUME IInv, [Next]_vars PROVE IInv'
    OBVIOUS
  <1>1. CASE AccountOps
    BY <1>1, AccountOpsKeep
  <1>2. CASE CategoryOps
    BY <1>2, CategoriesKeep
  <1>3. CASE Create
    BY <1>3, CreateKeeps
  <1>4. CASE \E i \in DOMAIN rows : Change(i)
    BY <1>4, ChangeKeeps
  <1>5. CASE UNCHANGED vars
    BY <1>5, StutterKeeps
  <1> QED BY <1>1, <1>2, <1>3, <1>4, <1>5 DEF Next

(* Whatever is entered, patched, deleted, archived and restored, and in    *)
(* whatever order, the tables of the ledger agree with each other.         *)
THEOREM LedgerInvariant == Spec => []IInv
  BY InitInv, NextKeeps, PTL DEF Spec

(* What was checked when a row, an account or an exclusion was stored      *)
(* holds as long as it is stored: the guards on history are enough.        *)
THEOREM HistoryIsKept == Spec => []LedgerInv
<1>1. IInv => LedgerInv
  BY DEF IInv
<1> QED BY <1>1, LedgerInvariant, PTL

(* A transfer with a fee has its one companion, as it was last patched.    *)
THEOREM GroupsAreComplete == Spec => []GroupComplete
<1>1. IInv => GroupComplete
  BY DEF IInv
<1> QED BY <1>1, LedgerInvariant, PTL

(* A transfer moves the amount last asked for, less a deducted fee.        *)
THEOREM TransfersMoveWhatWasAsked == Spec => []AskedIsMoved
<1>1. IInv => AskedIsMoved
  BY DEF IInv
<1> QED BY <1>1, LedgerInvariant, PTL

(* No operation moves money on an archived account, not even as the        *)
(* companion or the other side of a transaction.                           *)
THEOREM ArchivedStaysZero == Spec => []ArchivedIsZero
<1>1. IInv => ArchivedIsZero
  BY DEF IInv
<1> QED BY <1>1, LedgerInvariant, PTL

-----------------------------------------------------------------------------
(* Net worth: the sum over the accounts is exchanged with the sum over the *)
(* rows, and each row is worth what it brings in from outside.             *)

(* The sum of the negated values.                                          *)
LEMMA SumNegated ==
  ASSUME NEW f, NEW g, NEW S, IsFiniteSet(S), \A x \in S : f[x] \in Int /\ g[x] = -f[x]
  PROVE  SumFunctionOnSet(g, S) = -SumFunctionOnSet(f, S)
  <1> DEFINE h == [x \in S |-> 0]
  <1>1. \A x \in S : f[x] \in Int /\ g[x] \in Int /\ h[x] = f[x] + g[x]
    OBVIOUS
  <1>2. (\A x \in S : h[x] \in Int) /\ (\A x \in S \ {} : h[x] = 0) /\ {} \in SUBSET S
    OBVIOUS
  <1> HIDE DEF h
  <1>3. SumFunctionOnSet(h, S) = SumFunctionOnSet(f, S) + SumFunctionOnSet(g, S)
    BY <1>1, SumPlus
  <1>4. SumFunctionOnSet(h, S) = SumFunctionOnSet(h, {})
    BY <1>2, SumZeroOutside
  <1>5. SumFunctionOnSet(h, {}) = 0
    BY SumEmpty
  <1>6. SumFunctionOnSet(f, S) \in Int /\ SumFunctionOnSet(g, S) \in Int
    BY <1>1, SumType
  <1> QED BY <1>3, <1>4, <1>5, <1>6

(* The accounts that are there.                                            *)
LEMMA PresentAccounts ==
  ASSUME TypeOK
  PROVE  /\ IsFiniteSet(Present)
         /\ \A a \in Present : /\ a \in Accounts /\ accounts[a] # None
                               /\ accounts[a].nature \in Natures
                               /\ accounts[a].opening.balance \in Int
  <1>1. Present \subseteq Accounts
    BY DEF Present
  <1>2. IsFiniteSet(Present)
    BY <1>1, FS_Subset
  <1>3. \A a \in Present : accounts[a] \in AccountRecords
    BY DEF TypeOK, Present
  <1> QED BY <1>1, <1>2, <1>3 DEF Present, AccountRecords

(* What the rows are worth to an account.                                  *)
LEMMA WorthOfEffects ==
  ASSUME TypeOK, NEW a \in Present,
         NEW f, f = [n \in DOMAIN rows |-> Worth(a, EffectOn(rows[n], a))]
  PROVE  /\ \A n \in DOMAIN rows : f[n] \in Int
         /\ SumFunctionOnSet(f, DOMAIN rows) \in Int
         /\ Worth(a, Balance(a)) =
              Worth(a, accounts[a].opening.balance) + SumFunctionOnSet(f, DOMAIN rows)
  <1> DEFINE e == Effects(a)
             N == DOMAIN rows
             o == accounts[a].opening.balance
  <1>1. IsFiniteSet(N) /\ a \in Accounts /\ o \in Int
    BY RowNumbers, PresentAccounts
  <1>2. DOMAIN e = N /\ \A n \in N : e[n] = EffectOn(rows[n], a) /\ e[n] \in Int
    BY <1>1, EffectType DEF Effects
  <1>3. Balance(a) = o + SumFunctionOnSet(e, N)
    BY <1>2 DEF Balance, SumFunction
  <1>4. \A n \in N : f[n] = Worth(a, e[n])
    BY <1>2
  <1> HIDE DEF e, N, o
  <1>5. \A n \in N : f[n] \in Int
    BY <1>2, <1>4 DEF Worth
  <1>6. SumFunctionOnSet(e, N) \in Int /\ SumFunctionOnSet(f, N) \in Int
    BY <1>1, <1>2, <1>5, SumType
  <1>7. CASE accounts[a].nature = "asset"
    <2>1. \A n \in N : f[n] = e[n]
      BY <1>4, <1>7 DEF Worth
    <2>2. SumFunctionOnSet(f, N) = SumFunctionOnSet(e, N)
      BY <1>1, <2>1, SumSame
    <2> QED BY <1>3, <1>5, <1>6, <1>7, <2>2 DEF Worth, N, o
  <1>8. CASE accounts[a].nature # "asset"
    <2>1. \A n \in N : e[n] \in Int /\ f[n] = -e[n]
      BY <1>2, <1>4, <1>8 DEF Worth
    <2>2. SumFunctionOnSet(f, N) = -SumFunctionOnSet(e, N)
      BY <1>1, <2>1, SumNegated
    <2>3. -(o + SumFunctionOnSet(e, N)) = -o + SumFunctionOnSet(f, N)
      BY <1>1, <1>6, <2>2
    <2> QED BY <1>3, <1>5, <1>6, <1>8, <2>3 DEF Worth, N, o
  <1> QED BY <1>7, <1>8

(* What comes in is worth that, and what goes out costs that, in assets    *)
(* and in liabilities (signedAmountForRole).                               *)
LEMMA WorthOfSigned ==
  ASSUME NEW a, accounts[a].nature \in Natures, NEW x \in Int
  PROVE  /\ Worth(a, Signed(accounts[a].nature, "income", x)) = x
         /\ Worth(a, Signed(accounts[a].nature, "incoming", x)) = x
         /\ Worth(a, Signed(accounts[a].nature, "expense", x)) = -x
         /\ Worth(a, Signed(accounts[a].nature, "outgoing", x)) = -x
  <1>1. -(-x) = x
    OBVIOUS
  <1>2. CASE accounts[a].nature = "asset"
    BY <1>2 DEF Worth, Signed
  <1>3. CASE accounts[a].nature = "liability"
    BY <1>1, <1>3 DEF Worth, Signed
  <1> QED BY <1>2, <1>3 DEF Natures

(* What a row is worth to all accounts is what it brings in: a transfer    *)
(* takes from one what it gives to the other.                              *)
LEMMA WorthOfRow ==
  ASSUME TypeOK, HistoryHolds, NEW i \in DOMAIN rows,
         NEW f, f = [a \in Present |-> Worth(a, EffectOn(rows[i], a))]
  PROVE  SumFunctionOnSet(f, Present) = FromOutside(rows[i])
  <1> DEFINE t == rows[i]
             P == Present
  <1>1. /\ IsFiniteSet(P)
        /\ \A a \in P : a \in Accounts /\ accounts[a].nature \in Natures
    BY PresentAccounts
  <1>2. t \in Transactions /\ RowHolds(t) /\ t.amount \in Int
    BY RowType DEF HistoryHolds
  <1>3. \A a \in P : f[a] = Worth(a, EffectOn(t, a)) /\ f[a] \in Int
    <2>1. \A a \in P : EffectOn(t, a) \in Int
      BY <1>1, EffectType
    <2> QED BY <2>1 DEF Worth
  <1>4. /\ t.from \in P /\ t.from \in Accounts /\ t.from # None
        /\ t.to # None => t.to \in P /\ t.to \in Accounts
    <2>1. t.from \in Accounts /\ t.from # None /\ (t.to # None => t.to \in Accounts)
      BY <1>2 DEF Transactions
    <2> QED BY <1>2, <2>1 DEF RowHolds, Touched, Present
  <1>5. \A a \in P : t.deleted \/ (a # t.from /\ a # t.to) => f[a] = 0
    BY <1>1, <1>3, NoEffect DEF Worth
  <1> HIDE DEF t, P
  <1>6. CASE t.deleted
    <2>1. {} \in SUBSET P /\ (\A a \in P : f[a] \in Int) /\ \A a \in P \ {} : f[a] = 0
      BY <1>3, <1>5, <1>6
    <2>2. SumFunctionOnSet(f, P) = SumFunctionOnSet(f, {})
      BY <1>1, <2>1, SumZeroOutside
    <2>3. FromOutside(t) = 0
      BY <1>6 DEF FromOutside
    <2> QED BY <2>2, <2>3, SumEmpty DEF t, P
  <1>7. CASE ~t.deleted /\ t.type # "transfer"
    <2>1. t.to = None
      BY <1>2, <1>7 DEF RowHolds
    <2> DEFINE p == t.from
    <2>2. {p} \in SUBSET P /\ \A a \in P \ {p} : f[a] = 0
      <3>1. None \notin P
        BY <1>1
      <3> QED BY <1>4, <1>5, <2>1, <3>1
    <2>3. SumFunctionOnSet(f, P) = SumFunctionOnSet(f, {p})
      BY <1>1, <1>3, <2>2, SumZeroOutside
    <2>4. f[p] = FromOutside(t) /\ f[p] \in Int
      <3>1. f[p] = Worth(p, EffectOn(t, p)) /\ f[p] \in Int /\ accounts[p].nature \in Natures
        BY <1>1, <1>3, <1>4
      <3>2. p \in Touched(t)
        BY <1>4 DEF Touched
      <3>3. t.type \in CategoryKinds \cup {"transfer", "adjustment"}
        BY <1>2 DEF Transactions
      <3>4. CASE t.type = "income"
        <4>1. EffectOn(t, p) = Signed(accounts[p].nature, "income", t.amount)
          BY <1>7, <3>2, <3>4 DEF EffectOn, CategoryKinds
        <4>2. FromOutside(t) = t.amount
          BY <1>7, <3>4 DEF FromOutside
        <4> QED BY <1>2, <3>1, <4>1, <4>2, WorthOfSigned
      <3>5. CASE t.type = "expense"
        <4>1. EffectOn(t, p) = Signed(accounts[p].nature, "expense", t.amount)
          BY <1>7, <3>2, <3>5 DEF EffectOn, CategoryKinds
        <4>2. FromOutside(t) = -t.amount
          BY <1>7, <3>5 DEF FromOutside
        <4> QED BY <1>2, <3>1, <4>1, <4>2, WorthOfSigned
      <3>6. CASE t.type = "adjustment"
        BY <1>2, <1>7, <3>1, <3>2, <3>6 DEF Worth, EffectOn, FromOutside, CategoryKinds
      <3> QED BY <1>7, <3>1, <3>3, <3>4, <3>5, <3>6 DEF CategoryKinds
    <2> QED BY <2>3, <2>4, SumOfOne DEF t, P
  <1>8. CASE ~t.deleted /\ t.type = "transfer"
    <2> DEFINE p == t.from
               q == t.to
    <2>1. p # q /\ q # None /\ p \in P /\ q \in P
      BY <1>2, <1>4, <1>8 DEF RowHolds
    <2>2. {p, q} \in SUBSET P /\ \A a \in P \ {p, q} : f[a] = 0
      BY <1>5, <2>1
    <2>3. SumFunctionOnSet(f, P) = SumFunctionOnSet(f, {p, q})
      BY <1>1, <1>3, <2>2, SumZeroOutside
    <2>4. f[p] \in Int /\ f[q] \in Int /\ p \in Touched(t) /\ q \in Touched(t)
      BY <1>3, <1>4, <2>1 DEF Touched
    <2>5. f[p] = -t.amount
      <3>1. f[p] = Worth(p, EffectOn(t, p)) /\ accounts[p].nature \in Natures
        BY <1>1, <1>3, <2>1
      <3>2. EffectOn(t, p) = Signed(accounts[p].nature, "outgoing", t.amount)
        BY <1>8, <2>4 DEF EffectOn, CategoryKinds
      <3> QED BY <1>2, <3>1, <3>2, WorthOfSigned
    <2>6. f[q] = t.amount
      <3>1. f[q] = Worth(q, EffectOn(t, q)) /\ accounts[q].nature \in Natures
        BY <1>1, <1>3, <2>1
      <3>2. EffectOn(t, q) = Signed(accounts[q].nature, "incoming", t.amount)
        BY <1>8, <2>1, <2>4 DEF EffectOn, CategoryKinds
      <3> QED BY <1>2, <3>1, <3>2, WorthOfSigned
    <2>7. FromOutside(t) = 0
      BY <1>8 DEF FromOutside
    <2>8. SumFunctionOnSet(f, {p, q}) = f[p] + f[q]
      BY <2>1, <2>4, SumOfTwo
    <2>9. f[p] + f[q] = 0
      BY <1>2, <2>5, <2>6
    <2> QED BY <2>3, <2>7, <2>8, <2>9 DEF t, P
  <1> QED BY <1>6, <1>7, <1>8

(* Both together.                                                          *)
LEMMA NetWorth ==
  ASSUME TypeOK, HistoryHolds
  PROVE  NetWorthIsEarned
  <1> DEFINE P == Present
             N == DOMAIN rows
             F == [a \in P |-> [n \in N |-> Worth(a, EffectOn(rows[n], a))]]
             total == [a \in P |-> SumFunctionOnSet(F[a], N)]
             col == [n \in N |-> [a \in P |-> F[a][n]]]
             net == [a \in P |-> Worth(a, Balance(a))]
             open == [a \in P |-> Worth(a, accounts[a].opening.balance)]
             outside == [n \in N |-> FromOutside(rows[n])]
             byRow == [n \in N |-> SumFunctionOnSet(col[n], P)]
  <1>1. IsFiniteSet(P) /\ IsFiniteSet(N)
    BY PresentAccounts, RowNumbers
  <1>2. \A a \in P : /\ \A n \in N : F[a][n] \in Int
                     /\ total[a] \in Int /\ open[a] \in Int
                     /\ net[a] = open[a] + total[a]
    <2> SUFFICES ASSUME NEW a \in P
                 PROVE  /\ \A n \in N : F[a][n] \in Int
                        /\ total[a] \in Int /\ open[a] \in Int
                        /\ net[a] = open[a] + total[a]
      OBVIOUS
    <2> DEFINE f == F[a]
    <2>1. f = [n \in N |-> Worth(a, EffectOn(rows[n], a))]
      OBVIOUS
    <2>2. open[a] \in Int
      BY PresentAccounts DEF Worth
    <2> HIDE DEF f
    <2>3. /\ \A n \in N : f[n] \in Int
          /\ SumFunctionOnSet(f, N) \in Int
          /\ Worth(a, Balance(a)) = Worth(a, accounts[a].opening.balance) + SumFunctionOnSet(f, N)
      BY <2>1, WorthOfEffects
    <2> QED BY <2>2, <2>3 DEF f
  <1>3. \A n \in N : byRow[n] = outside[n]
    <2> SUFFICES ASSUME NEW n \in N PROVE SumFunctionOnSet(col[n], P) = FromOutside(rows[n])
      OBVIOUS
    <2> DEFINE f == col[n]
    <2>1. f = [a \in P |-> Worth(a, EffectOn(rows[n], a))]
      OBVIOUS
    <2> HIDE DEF f
    <2>2. SumFunctionOnSet(f, P) = FromOutside(rows[n])
      BY <2>1, WorthOfRow
    <2> QED BY <2>2 DEF f
  <1>4. /\ SumFunction(net) = SumFunctionOnSet(net, P)
        /\ SumFunction(open) = SumFunctionOnSet(open, P)
        /\ SumFunction(outside) = SumFunctionOnSet(outside, N)
    BY DEF SumFunction
  <1>5. NetWorthIsEarned <=> SumFunction(net) = SumFunction(open) + SumFunction(outside)
    BY DEF NetWorthIsEarned
  <1>6. /\ \A a \in P : total[a] = SumFunctionOnSet(F[a], N)
        /\ \A n \in N : \A a \in P : col[n][a] = F[a][n]
        /\ \A n \in N : byRow[n] = SumFunctionOnSet(col[n], P)
    OBVIOUS
  <1> HIDE DEF P, N, F, total, col, net, open, outside, byRow
  <1>7. SumFunctionOnSet(net, P) = SumFunctionOnSet(open, P) + SumFunctionOnSet(total, P)
    BY <1>1, <1>2, SumPlus
  <1>8. SumFunctionOnSet(total, P) = SumFunctionOnSet(byRow, N)
    <2>1. \A a \in P, n \in N : F[a][n] \in Int
      BY <1>2
    <2>2. Table(F, P, N, total, col, byRow)
      BY <1>1, <1>6, <2>1 DEF Table
    <2> QED BY <2>2, SumExchange
  <1>9. SumFunctionOnSet(byRow, N) = SumFunctionOnSet(outside, N)
    BY <1>1, <1>3, SumSame
  <1> QED BY <1>4, <1>5, <1>7, <1>8, <1>9

(* Transfers between accounts of any nature, and their patches, make no    *)
(* money: net worth is what accounts opened with and what came in.         *)
THEOREM NetWorthComesFromOutside == Spec => []NetWorthIsEarned
<1>1. IInv => NetWorthIsEarned
  BY NetWorth DEF IInv, LedgerInv
<1> QED BY <1>1, LedgerInvariant, PTL
=============================================================================
