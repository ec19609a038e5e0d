------------------------------ MODULE Sets_proofs ------------------------------
(***************************************************************************)
(* Facts about finite sets, sequences and sums that the proofs about the   *)
(* storage engine and the live tail share.  Where an argument is by        *)
(* induction, it takes a smallest counterexample.                          *)
(***************************************************************************)
EXTENDS Sorting, SequencesExt, FiniteSetTheorems, SequenceTheorems, TLAPS

\* Of some subsets of a finite set, one has no other below it.
LEMMA SmallestSubset ==
  ASSUME NEW S, IsFiniteSet(S), NEW Q \in SUBSET SUBSET S, Q # {}
  PROVE  \E T \in Q : \A U \in Q : U \subseteq T => U = T
<1> DEFINE R == StrictSubsetOrdering(S)
<1>1. IsWellFoundedOn(R, FiniteSubsetsOf(S))
  BY FS_StrictSubsetOrderingWellFounded
<1>2. \A U, T \in SUBSET S : <<U, T>> \in R <=> U \subseteq T /\ U # T
  BY DEF StrictSubsetOrdering
<1>3. SUBSET S \subseteq FiniteSubsetsOf(S)
  BY FS_Subset DEF FiniteSubsetsOf
<1> HIDE DEF R
<1>4. \E x \in Q : \A y \in Q : ~ (<<y, x>> \in R)
  BY <1>1, <1>3, WFMin
<1> QED
  BY <1>2, <1>4

\* A finite set has a member with the highest key, and none but that one if the
\* keys differ.
LEMMA HighestKey ==
  ASSUME NEW S, IsFiniteSet(S), S # {}, NEW key \in [S -> Int]
  PROVE  \E m \in S : \A x \in S : key[x] <= key[m]
<1> DEFINE Q == {T \in SUBSET S : T # {} /\ ~ \E m \in T : \A x \in T : key[x] <= key[m]}
<1>1. ASSUME Q # {} PROVE FALSE
  <2>1. PICK T \in Q : \A U \in Q : U \subseteq T => U = T
    <3> HIDE DEF Q
    <3>1. Q \in SUBSET SUBSET S
      BY DEF Q
    <3> QED
      BY <1>1, <3>1, SmallestSubset
  <2>2. PICK e \in T : TRUE
    BY <2>1
  <2>3. T \in SUBSET S /\ T # {} /\ e \in S
    BY <2>1, <2>2
  <2> DEFINE U == T \ {e}
  <2>4. CASE U = {}
    <3>1. T = {e}
      BY <2>2, <2>4
    <3>2. key[e] <= key[e]
      BY <2>3
    <3> QED
      BY <2>1, <3>1, <3>2
  <2>5. CASE U # {}
    <3>1. U \notin Q
      BY <2>1, <2>2
    <3>2. PICK m \in U : \A x \in U : key[x] <= key[m]
      BY <2>3, <2>5, <3>1
    <3>3. key[m] \in Int /\ key[e] \in Int /\ \A x \in T : key[x] \in Int
      BY <2>3, <3>2
    <3>4. \/ \A x \in T : key[x] <= key[m]
          \/ \A x \in T : key[x] <= key[e]
      BY <3>2, <3>3
    <3> QED
      BY <2>1, <2>2, <3>2, <3>4
  <2> QED
    BY <2>4, <2>5
<1> QED
  BY <1>1

LEMMA MaxIs ==
  ASSUME NEW S \in SUBSET Int, IsFiniteSet(S), S # {}
  PROVE  Max(S) \in S /\ \A x \in S : x <= Max(S)
<1> DEFINE key == [x \in S |-> x]
<1>1. key \in [S -> Int] /\ \A x \in S : key[x] = x
  OBVIOUS
<1> HIDE DEF key
<1>2. PICK m \in S : \A x \in S : key[x] <= key[m]
  BY <1>1, HighestKey
<1>3. \A x \in S : m >= x
  BY <1>1, <1>2
<1>4. Max(S) \in S /\ \A x \in S : Max(S) >= x
  BY <1>3 DEF Max
<1> QED
  BY <1>4

LEMMA MaxOfTwo ==
  ASSUME NEW a \in Int, NEW b \in Int
  PROVE  Max({a, b}) = IF a <= b THEN b ELSE a
<1>1. IsFiniteSet({a, b})
  <2>1. {a, b} = {a} \cup {b}
    OBVIOUS
  <2>2. IsFiniteSet({a}) /\ IsFiniteSet({b})
    BY FS_Singleton
  <2>3. IsFiniteSet({a} \cup {b})
    BY <2>2, FS_Union
  <2> QED
    BY <2>1, <2>3
<1>2. Max({a, b}) \in {a, b} /\ \A x \in {a, b} : x <= Max({a, b})
  BY <1>1, MaxIs
<1> QED
  BY <1>2

\* The set of what a sequence holds.
LEMMA ToSetIs ==
  ASSUME NEW S, NEW q \in Seq(S)
  PROVE  /\ ToSet(q) = {q[i] : i \in 1 .. Len(q)}
         /\ ToSet(q) \in SUBSET S
         /\ IsFiniteSet(ToSet(q))
<1>1. DOMAIN q = 1 .. Len(q) /\ Len(q) \in Nat /\ q \in [1 .. Len(q) -> S]
  BY LenProperties
<1>2. ToSet(q) = {q[i] : i \in 1 .. Len(q)}
  BY <1>1 DEF ToSet
<1>3. IsFiniteSet(1 .. Len(q))
  BY <1>1, FS_Interval
<1>4. q \in Surjection(1 .. Len(q), ToSet(q))
  BY <1>1, <1>2 DEF Surjection
<1>5. IsFiniteSet(ToSet(q))
  BY <1>3, <1>4, FS_Surjection
<1> QED
  BY <1>1, <1>2, <1>5

LEMMA ToSetEmpty == ToSet(<<>>) = {}
  BY DEF ToSet

LEMMA ToSetAppend ==
  ASSUME NEW S, NEW q \in Seq(S), NEW e \in S
  PROVE  ToSet(Append(q, e)) = ToSet(q) \cup {e}
<1>1. DOMAIN q = 1 .. Len(q) /\ DOMAIN Append(q, e) = 1 .. Len(q) + 1 /\ Len(q) \in Nat
  BY LenProperties
<1>2. \A i \in 1 .. Len(q) : Append(q, e)[i] = q[i]
  BY <1>1
<1>3. Append(q, e)[Len(q) + 1] = e
  BY <1>1
<1>4. 1 .. Len(q) + 1 = (1 .. Len(q)) \cup {Len(q) + 1}
  BY <1>1
<1> QED
  BY <1>1, <1>2, <1>3, <1>4 DEF ToSet

LEMMA ToSetTail ==
  ASSUME NEW S, NEW q \in Seq(S), q # <<>>
  PROVE  /\ Head(q) \in S /\ Tail(q) \in Seq(S)
         /\ ToSet(q) = {Head(q)} \cup ToSet(Tail(q))
<1>1. /\ Head(q) = q[1] /\ Tail(q) \in Seq(S) /\ Len(Tail(q)) = Len(q) - 1
      /\ \A i \in 1 .. Len(q) - 1 : Tail(q)[i] = q[i + 1]
  BY HeadTailProperties
<1>2. Len(q) \in Nat \ {0} /\ q[1] \in S
  BY EmptySeq, LenProperties
<1>3. ToSet(q) = {q[i] : i \in 1 .. Len(q)} /\ ToSet(Tail(q)) = {Tail(q)[i] : i \in 1 .. Len(q) - 1}
  BY <1>1, ToSetIs
<1>4. ASSUME NEW x \in ToSet(q) PROVE x \in {Head(q)} \cup ToSet(Tail(q))
  <2>1. PICK i \in 1 .. Len(q) : x = q[i]
    BY <1>3, <1>4
  <2>2. CASE i = 1
    BY <1>1, <2>1, <2>2
  <2>3. CASE i # 1
    <3>1. i - 1 \in 1 .. Len(q) - 1 /\ Tail(q)[i - 1] = q[i - 1 + 1] /\ i - 1 + 1 = i
      BY <1>1, <1>2, <2>3
    <3> QED
      BY <1>3, <2>1, <3>1
  <2> QED
    BY <2>2, <2>3
<1>5. Head(q) \in ToSet(q)
  BY <1>1, <1>2, <1>3
<1>6. ASSUME NEW x \in ToSet(Tail(q)) PROVE x \in ToSet(q)
  <2>2. PICK i \in 1 .. Len(q) - 1 : x = Tail(q)[i]
    BY <1>3
  <2>3. i + 1 \in 1 .. Len(q) /\ x = q[i + 1]
    BY <1>1, <1>2, <2>2
  <2> QED
    BY <1>3, <2>3
<1> QED
  BY <1>1, <1>2, <1>4, <1>5, <1>6

LEMMA MinIs ==
  ASSUME NEW S \in SUBSET Int, IsFiniteSet(S), S # {}
  PROVE  Min(S) \in S /\ \A x \in S : Min(S) <= x
<1> DEFINE key == [x \in S |-> 0 - x]
<1>1. key \in [S -> Int] /\ \A x \in S : key[x] = 0 - x
  OBVIOUS
<1> HIDE DEF key
<1>2. PICK m \in S : \A x \in S : key[x] <= key[m]
  BY <1>1, HighestKey
<1>3. \A x \in S : m <= x
  BY <1>1, <1>2
<1> QED
  BY <1>3 DEF Min

------------------------------------------------------------------------------
(* Sorting. *)

LEMMA SortedExists ==
  ASSUME NEW S, IsFiniteSet(S), NEW key \in [S -> Int],
         \A x, y \in S : key[x] = key[y] => x = y
  PROVE  \E q \in [1 .. Cardinality(S) -> S] :
           \A i, j \in 1 .. Cardinality(S) : i < j => key[q[i]] < key[q[j]]
<1> DEFINE Sorts(T, q) ==
             \A i, j \in 1 .. Cardinality(T) : i < j => key[q[i]] < key[q[j]]
           Q == {T \in SUBSET S : ~ \E q \in [1 .. Cardinality(T) -> T] : Sorts(T, q)}
<1>1. ASSUME Q # {} PROVE FALSE
  <2>1. PICK T \in Q : \A U \in Q : U \subseteq T => U = T
    <3>1. Q \in SUBSET SUBSET S
      OBVIOUS
    <3> HIDE DEF Q
    <3> QED
      BY <1>1, <3>1, SmallestSubset
  <2>2. T \in SUBSET S /\ IsFiniteSet(T) /\ Cardinality(T) \in Nat
    BY <2>1, FS_Subset, FS_CardinalityType
  <2>3. CASE T = {}
    <3>1. Cardinality(T) = 0
      BY <2>3, FS_EmptySet
    <3>2. [i \in 1 .. Cardinality(T) |-> i] \in [1 .. Cardinality(T) -> T]
      BY <3>1
    <3>3. \A q : Sorts(T, q)
      BY <3>1
    <3> QED
      BY <2>1, <3>2, <3>3
  <2>4. CASE T # {}
    <3> DEFINE k == [x \in T |-> key[x]]
    <3>1. k \in [T -> Int] /\ \A x \in T : k[x] = key[x]
      BY <2>2
    <3> HIDE DEF k
    <3>2. PICK m \in T : \A x \in T : k[x] <= k[m]
      BY <2>2, <2>4, <3>1, HighestKey
    <3> DEFINE U == T \ {m}
               n == Cardinality(T)
    <3>3. IsFiniteSet(U) /\ Cardinality(U) = n - 1 /\ n \in Nat /\ n >= 1
      <4>1. IsFiniteSet(U) /\ Cardinality(U) = n - 1
        BY <2>2, FS_RemoveElement
      <4>2. Cardinality(U) \in Nat
        BY <4>1, FS_CardinalityType
      <4> QED
        BY <2>2, <4>1, <4>2
    <3>4. U \notin Q
      BY <2>1, <3>2
    <3>5. PICK q \in [1 .. n - 1 -> U] :
            \A i, j \in 1 .. n - 1 : i < j => key[q[i]] < key[q[j]]
      BY <2>2, <3>3, <3>4
    <3> HIDE DEF n
    <3> DEFINE r == [i \in 1 .. n |-> IF i = n THEN m ELSE q[i]]
    <3>6. r \in [1 .. n -> T]
      BY <3>3, <3>5
    <3>7. \A i \in 1 .. n - 1 : key[q[i]] \in Int /\ key[m] \in Int /\ key[q[i]] < key[m]
      <4>1. TAKE i \in 1 .. n - 1
      <4>2. q[i] \in T /\ q[i] # m
        BY <3>5
      <4>3. q[i] \in S /\ m \in S
        BY <2>2, <4>2
      <4> QED
        BY <3>1, <3>2, <4>2, <4>3
    <3>8. \A i, j \in 1 .. n : i < j => key[r[i]] < key[r[j]]
      <4>1. TAKE i, j \in 1 .. n
      <4>2. HAVE i < j
      <4>3. i \in 1 .. n - 1 /\ r[i] = q[i]
        BY <3>3, <4>2
      <4>4. CASE j = n
        BY <3>7, <4>3, <4>4
      <4>5. CASE j # n
        <5>1. j \in 1 .. n - 1 /\ r[j] = q[j]
          BY <3>3, <4>5
        <5> QED
          BY <3>5, <4>2, <4>3, <5>1
      <4> QED
        BY <4>4, <4>5
    <3> QED
      BY <2>1, <3>6, <3>8 DEF n
  <2> QED
    BY <2>3, <2>4
<1>2. S \notin Q
  BY <1>1
<1> QED
  BY <1>2

\* Sorting a set keeps all of it, in order.
LEMMA SortedByIs ==
  ASSUME NEW S, IsFiniteSet(S), NEW key \in [S -> Int],
         \A x, y \in S : key[x] = key[y] => x = y
  PROVE  LET q == SortedBy(S, key)
         IN  /\ q \in Seq(S) /\ Len(q) = Cardinality(S)
             /\ \A i, j \in 1 .. Len(q) : i < j => key[q[i]] < key[q[j]]
             /\ ToSet(q) = S
             /\ \A i, j \in 1 .. Len(q) : q[i] = q[j] => i = j
<1> DEFINE n == Cardinality(S)
           q == SortedBy(S, key)
<1>1. n \in Nat
  BY FS_CardinalityType
<1>2. /\ q \in [1 .. n -> S]
      /\ \A i, j \in 1 .. n : i < j => key[q[i]] < key[q[j]]
  BY SortedExists DEF SortedBy
<1> HIDE DEF q
<1>3. q \in Seq(S) /\ Len(q) = n /\ DOMAIN q = 1 .. n
  BY <1>1, <1>2
<1>4. \A i, j \in 1 .. n : q[i] = q[j] => i = j
  <2>1. TAKE i, j \in 1 .. n
  <2>2. key[q[i]] \in Int /\ key[q[j]] \in Int
    BY <1>2
  <2> QED
    BY <1>1, <1>2, <2>2
<1>5. q \in Injection(1 .. n, S)
  BY <1>2, <1>4 DEF Injection, IsInjective
<1>6. IsFiniteSet(1 .. n) /\ Cardinality(1 .. n) = n
  BY <1>1, FS_Interval
<1>7. q \in Surjection(1 .. n, S)
  BY <1>5, <1>6, FS_Injection
<1>8. ToSet(q) = S
  BY <1>2, <1>3, <1>7 DEF ToSet, Surjection
<1> QED
  BY <1>2, <1>3, <1>4, <1>8 DEF q

\* Where some members are ahead of others, in one order, how many are ahead of each
\* tells them apart and puts them in that order.
LEMMA RankIs ==
  ASSUME NEW S, IsFiniteSet(S), NEW ahead \in [S -> SUBSET S],
         \A x \in S : x \notin ahead[x],
         \A x, y \in S : x # y => x \in ahead[y] \/ y \in ahead[x],
         \A x, y \in S : x \in ahead[y] => ahead[x] \subseteq ahead[y],
         NEW key, key = [x \in S |-> Cardinality(ahead[x])]
  PROVE  /\ key \in [S -> Int]
         /\ \A x, y \in S : key[x] = key[y] => x = y
         /\ \A x, y \in S : key[x] < key[y] => x \in ahead[y]
<1>1. \A x \in S : IsFiniteSet(ahead[x]) /\ Cardinality(ahead[x]) \in Nat
  <2>1. \A x \in S : ahead[x] \subseteq S
    OBVIOUS
  <2> QED
    BY <2>1, FS_Subset, FS_CardinalityType
<1>2. key \in [S -> Int] /\ \A x \in S : key[x] = Cardinality(ahead[x]) /\ key[x] \in Nat
  BY <1>1
<1>3. \A x, y \in S : x \in ahead[y] => key[x] < key[y]
  <2>1. TAKE x, y \in S
  <2>2. HAVE x \in ahead[y]
  <2>3. ahead[x] \subseteq ahead[y] /\ ahead[x] # ahead[y]
    BY <2>2
  <2>4. Cardinality(ahead[x]) <= Cardinality(ahead[y]) /\ Cardinality(ahead[x]) # Cardinality(ahead[y])
    BY <1>1, <2>3, FS_Subset
  <2> QED
    BY <1>2, <2>4
<1>4. \A x, y \in S : key[x] < key[y] => ~ (key[y] < key[x])
  BY <1>2
<1>5. \A x, y \in S : key[x] = key[y] => x = y
  <2>1. TAKE x, y \in S
  <2>2. HAVE key[x] = key[y]
  <2>3. ~ (key[x] < key[y]) /\ ~ (key[y] < key[x])
    BY <1>2, <2>2
  <2> QED
    BY <1>3, <2>3
<1>6. \A x, y \in S : key[x] < key[y] => x \in ahead[y]
  <2>1. TAKE x, y \in S
  <2>2. HAVE key[x] < key[y]
  <2>3. x # y
    BY <1>2, <2>2
  <2> QED
    BY <1>3, <1>4, <2>2, <2>3
<1> QED
  BY <1>2, <1>5, <1>6

------------------------------------------------------------------------------
(* Sums over finite sets. *)

Pick(T) == CHOOSE x \in T : TRUE

\* The function SumFunctionOnSet recurs with.
IsTable(it, f, S) ==
  it = [T \in SUBSET S |->
          IF T = {} THEN 0 ELSE f[Pick(T)] + it[T \ {Pick(T)}]]

Table(f, S) == CHOOSE it : IsTable(it, f, S)

LEMMA PickIs ==
  ASSUME NEW T, T # {}
  PROVE  Pick(T) \in T
  BY DEF Pick

LEMMA SumIsTable ==
  ASSUME NEW f, NEW S
  PROVE  SumFunctionOnSet(f, S) = Table(f, S)[S]
  BY DEF SumFunctionOnSet, FoldFunctionOnSet, MapThenFoldSet, Table, IsTable, Pick

LEMMA TableAt ==
  ASSUME NEW it, NEW f, NEW S, IsTable(it, f, S), NEW T \in SUBSET S
  PROVE  /\ T = {} => it[T] = 0
         /\ T # {} => it[T] = f[Pick(T)] + it[T \ {Pick(T)}]
  BY DEF IsTable

LEMMA TablesAgree ==
  ASSUME NEW f, NEW S, NEW U, IsFiniteSet(U), NEW it, NEW iu,
         IsTable(it, f, S), IsTable(iu, f, U), U \subseteq S
  PROVE  \A T \in SUBSET U : it[T] = iu[T]
<1> DEFINE Q == {T \in SUBSET U : it[T] # iu[T]}
<1>1. SUFFICES ASSUME Q # {} PROVE FALSE
  OBVIOUS
<1>2. Q \in SUBSET SUBSET U
  OBVIOUS
<1>3. PICK T \in Q : \A V \in Q : V \subseteq T => V = T
  <2> HIDE DEF Q
  <2> QED
    BY <1>1, <1>2, SmallestSubset
<1>4. T \in SUBSET U /\ T \in SUBSET S /\ it[T] # iu[T]
  BY <1>3
<1>5. T # {}
  BY <1>4, TableAt
<1>6. T \ {Pick(T)} \notin Q
  <2>1. Pick(T) \in T
    BY <1>5, PickIs
  <2>2. T \ {Pick(T)} # T /\ T \ {Pick(T)} \subseteq T
    BY <2>1
  <2> QED
    BY <1>3, <2>2
<1>7. it[T \ {Pick(T)}] = iu[T \ {Pick(T)}]
  BY <1>4, <1>6
<1>8. it[T] = f[Pick(T)] + it[T \ {Pick(T)}] /\ iu[T] = f[Pick(T)] + iu[T \ {Pick(T)}]
  BY <1>4, <1>5, TableAt
<1> QED
  BY <1>4, <1>7, <1>8

LEMMA TableExists ==
  ASSUME NEW f, NEW S, IsFiniteSet(S)
  PROVE  \A T \in SUBSET S : IsTable(Table(f, T), f, T)
<1> DEFINE Q == {T \in SUBSET S : ~ IsTable(Table(f, T), f, T)}
<1>1. SUFFICES ASSUME Q # {} PROVE FALSE
  OBVIOUS
<1>2. Q \in SUBSET SUBSET S
  OBVIOUS
<1>3. PICK U \in Q : \A V \in Q : V \subseteq U => V = U
  <2> HIDE DEF Q
  <2> QED
    BY <1>1, <1>2, SmallestSubset
<1>4. \A V \in SUBSET U : V # U => IsTable(Table(f, V), f, V)
  BY <1>3
<1> DEFINE rest == U \ {Pick(U)}
           it == [T \in SUBSET U |->
                    IF T = U /\ U # {} THEN f[Pick(U)] + Table(f, rest)[rest]
                    ELSE IF T = U THEN 0 ELSE Table(f, T)[T]]
<1>5. ASSUME NEW T \in SUBSET U, T # {}
      PROVE  it[T \ {Pick(T)}] = Table(f, T \ {Pick(T)})[T \ {Pick(T)}]
  <2>1. Pick(T) \in T
    BY <1>5, PickIs
  <2> DEFINE V == T \ {Pick(T)}
  <2>2. V \in SUBSET U /\ V # U
    BY <2>1
  <2> HIDE DEF V
  <2> QED
    BY <2>2 DEF V
<1>6. ASSUME NEW T \in SUBSET U, T # {}, T # U
      PROVE  it[T] = f[Pick(T)] + it[T \ {Pick(T)}]
  <2> DEFINE V == T \ {Pick(T)}
  <2>1. it[T] = Table(f, T)[T]
    BY <1>6
  <2>2. IsTable(Table(f, T), f, T)
    BY <1>4, <1>6
  <2>3. V \in SUBSET U /\ V # U /\ V \in SUBSET T
    BY <1>6
  <2>4. IsTable(Table(f, V), f, V)
    BY <1>4, <2>3
  <2>5. IsFiniteSet(V)
    BY <2>3, <1>3, FS_Subset
  <2>6. Table(f, T)[V] = Table(f, V)[V]
    BY <2>2, <2>3, <2>4, <2>5, TablesAgree
  <2>7. Table(f, T)[T] = f[Pick(T)] + Table(f, T)[V]
    BY <1>6, <2>2, TableAt
  <2>8. it[V] = Table(f, V)[V]
    BY <1>5, <1>6
  <2> QED
    BY <2>1, <2>6, <2>7, <2>8
<1>7. U # {} => it[U] = f[Pick(U)] + it[U \ {Pick(U)}]
  BY <1>5
<1>8. it[{}] = 0
  <2>1. CASE U = {}
    BY <2>1
  <2>2. CASE U # {}
    <3>1. IsTable(Table(f, {}), f, {})
      BY <1>4, <2>2
    <3>2. Table(f, {})[{}] = 0
      BY <3>1, TableAt
    <3> QED
      BY <2>2, <3>2
  <2> QED
    BY <2>1, <2>2
<1>9. DOMAIN it = SUBSET U /\ it = [T \in SUBSET U |-> it[T]]
  OBVIOUS
<1> HIDE DEF it
<1>10. IsTable(it, f, U)
  <2>1. ASSUME NEW T \in SUBSET U
        PROVE  it[T] = IF T = {} THEN 0 ELSE f[Pick(T)] + it[T \ {Pick(T)}]
    BY <1>6, <1>7, <1>8
  <2>2. [T \in SUBSET U |-> it[T]] =
          [T \in SUBSET U |-> IF T = {} THEN 0 ELSE f[Pick(T)] + it[T \ {Pick(T)}]]
    BY <2>1
  <2> QED
    BY <1>9, <2>2 DEF IsTable
<1>11. IsTable(Table(f, U), f, U)
  BY <1>10 DEF Table
<1> QED
  BY <1>3, <1>11

LEMMA SumIs ==
  ASSUME NEW f, NEW S, IsFiniteSet(S)
  PROVE  /\ SumFunctionOnSet(f, {}) = 0
         /\ S # {} => SumFunctionOnSet(f, S) = f[Pick(S)] + SumFunctionOnSet(f, S \ {Pick(S)})
<1>1. \A T \in SUBSET S : IsTable(Table(f, T), f, T)
  BY TableExists
<1>2. SumFunctionOnSet(f, {}) = 0
  BY <1>1, TableAt, SumIsTable
<1>3. ASSUME S # {}
      PROVE  SumFunctionOnSet(f, S) = f[Pick(S)] + SumFunctionOnSet(f, S \ {Pick(S)})
  <2> DEFINE V == S \ {Pick(S)}
  <2>1. Table(f, S)[S] = f[Pick(S)] + Table(f, S)[V]
    BY <1>1, <1>3, TableAt
  <2>2. IsFiniteSet(V)
    BY FS_Subset
  <2>3. Table(f, S)[V] = Table(f, V)[V]
    <3>1. V \in SUBSET S /\ V \in SUBSET V /\ S \in SUBSET S
      OBVIOUS
    <3>2. IsTable(Table(f, S), f, S) /\ IsTable(Table(f, V), f, V)
      BY <1>1, <3>1
    <3> HIDE DEF V
    <3> QED
      BY <2>2, <3>1, <3>2, TablesAgree
  <2> QED
    BY <2>1, <2>3, SumIsTable
<1> QED
  BY <1>2, <1>3

\* Any element may be added last.
LEMMA SumAdd ==
  ASSUME NEW f, NEW S, IsFiniteSet(S), \A x \in S : f[x] \in Int
  PROVE  /\ SumFunctionOnSet(f, S) \in Int
         /\ \A x \in S : SumFunctionOnSet(f, S) = f[x] + SumFunctionOnSet(f, S \ {x})
<1> DEFINE Sum(T) == SumFunctionOnSet(f, T)
           Good(T) == Sum(T) \in Int /\ \A x \in T : Sum(T) = f[x] + Sum(T \ {x})
           Q == {T \in SUBSET S : ~Good(T)}
<1>1. SUFFICES ASSUME Q # {} PROVE FALSE
  <2>1. S \in SUBSET S
    OBVIOUS
  <2> QED
    BY <2>1
<1>2. Q \in SUBSET SUBSET S
  OBVIOUS
<1>3. PICK U \in Q : \A V \in Q : V \subseteq U => V = U
  <2> HIDE DEF Q
  <2> QED
    BY <1>1, <1>2, SmallestSubset
<1>4. U \in SUBSET S /\ ~Good(U) /\ IsFiniteSet(U)
  BY <1>3, FS_Subset
<1>5. \A V \in SUBSET U : V # U => Good(V)
  BY <1>3
<1>6. \A V \in SUBSET U : V # {} => Sum(V) = f[Pick(V)] + Sum(V \ {Pick(V)}) /\ Pick(V) \in V
  BY <1>4, FS_Subset, SumIs, PickIs
<1>7. Sum({}) = 0
  BY SumIs
<1>8. U # {}
  <2>1. ASSUME U = {} PROVE Sum(U) = 0
    BY <1>7, <2>1
  <2>2. ASSUME U = {} PROVE Good(U)
    BY <2>1, <2>2
  <2> QED
    BY <1>4, <2>2
<1> HIDE DEF Sum
<1> DEFINE y == Pick(U)
<1>9. y \in U /\ Sum(U) = f[y] + Sum(U \ {y})
  BY <1>6, <1>8
<1> HIDE DEF y
<1>10. Good(U \ {y})
  BY <1>5, <1>9
<1>11. Sum(U) \in Int
  BY <1>4, <1>9, <1>10
<1>12. ASSUME NEW x \in U PROVE Sum(U) = f[x] + Sum(U \ {x})
  <2>1. CASE x = y
    BY <1>9, <2>1
  <2>2. CASE x # y
    <3>1. Good(U \ {x})
      BY <1>5
    <3>2. Sum(U \ {y}) = f[x] + Sum((U \ {y}) \ {x})
      BY <1>10, <2>2
    <3>3. Sum(U \ {x}) = f[y] + Sum((U \ {x}) \ {y})
      BY <1>9, <3>1, <2>2
    <3>4. (U \ {x}) \ {y} = (U \ {y}) \ {x}
      OBVIOUS
    <3>5. Good((U \ {y}) \ {x})
      <4>1. (U \ {y}) \ {x} \in SUBSET U /\ (U \ {y}) \ {x} # U
        OBVIOUS
      <4> QED
        BY <1>5, <4>1
    <3>6. f[x] \in Int /\ f[y] \in Int /\ Sum((U \ {y}) \ {x}) \in Int
      BY <1>4, <1>9, <3>5
    <3> DEFINE a == Sum((U \ {y}) \ {x})
    <3>7. Sum(U \ {y}) = f[x] + a /\ Sum(U \ {x}) = f[y] + a /\ a \in Int
      BY <3>2, <3>3, <3>4, <3>6
    <3> HIDE DEF a
    <3> QED
      BY <1>9, <3>6, <3>7
  <2> QED
    BY <2>1, <2>2
<1> QED
  BY <1>4, <1>11, <1>12

LEMMA SumNat ==
  ASSUME NEW f, NEW S, IsFiniteSet(S), \A x \in S : f[x] \in Nat
  PROVE  SumFunctionOnSet(f, S) \in Nat
<1> DEFINE Sum(T) == SumFunctionOnSet(f, T)
           Q == {T \in SUBSET S : Sum(T) \notin Nat}
<1>1. SUFFICES ASSUME Q # {} PROVE FALSE
  <2>1. S \in SUBSET S
    OBVIOUS
  <2> QED
    BY <2>1
<1>2. Q \in SUBSET SUBSET S
  OBVIOUS
<1>3. PICK U \in Q : \A V \in Q : V \subseteq U => V = U
  <2> HIDE DEF Q
  <2> QED
    BY <1>1, <1>2, SmallestSubset
<1>4. U \in SUBSET S /\ IsFiniteSet(U)
  BY FS_Subset
<1>5. U # {}
  <2>1. ASSUME U = {} PROVE Sum(U) = 0
    BY <2>1, <1>4, SumIs
  <2>2. Sum(U) \notin Nat
    BY <1>3
  <2>3. 0 \in Nat
    OBVIOUS
  <2> QED
    BY <2>1, <2>2, <2>3, Zenon
<1>6. Sum(U) = f[Pick(U)] + Sum(U \ {Pick(U)}) /\ Pick(U) \in U
  BY <1>4, <1>5, SumIs, PickIs
<1>7. Sum(U \ {Pick(U)}) \in Nat
  <2>1. U \ {Pick(U)} # U /\ U \ {Pick(U)} \subseteq U
    BY <1>6
  <2>2. U \ {Pick(U)} \notin Q
    BY <1>3, <2>1
  <2> QED
    BY <1>4, <2>1, <2>2
<1>8. f[Pick(U)] \in Nat
  BY <1>4, <1>6
<1> HIDE DEF Sum
<1> QED
  BY <1>3, <1>6, <1>7, <1>8

LEMMA SumSame ==
  ASSUME NEW f, NEW g, NEW S, IsFiniteSet(S), \A x \in S : f[x] = g[x]
  PROVE  SumFunctionOnSet(f, S) = SumFunctionOnSet(g, S)
<1> DEFINE Q == {T \in SUBSET S : SumFunctionOnSet(f, T) # SumFunctionOnSet(g, T)}
<1>1. SUFFICES ASSUME Q # {} PROVE FALSE
  <2>1. S \in SUBSET S
    OBVIOUS
  <2> QED
    BY <2>1
<1>2. Q \in SUBSET SUBSET S
  OBVIOUS
<1>3. PICK U \in Q : \A V \in Q : V \subseteq U => V = U
  <2> HIDE DEF Q
  <2> QED
    BY <1>1, <1>2, SmallestSubset
<1>4. U \in SUBSET S /\ IsFiniteSet(U)
  BY FS_Subset
<1>5. U # {}
  <2>1. ASSUME U = {} PROVE SumFunctionOnSet(f, U) = 0 /\ SumFunctionOnSet(g, U) = 0
    BY <2>1, <1>4, SumIs
  <2>2. SumFunctionOnSet(f, U) # SumFunctionOnSet(g, U)
    BY <1>3
  <2> QED
    BY <2>1, <2>2
<1>6. /\ Pick(U) \in U
      /\ SumFunctionOnSet(f, U) = f[Pick(U)] + SumFunctionOnSet(f, U \ {Pick(U)})
      /\ SumFunctionOnSet(g, U) = g[Pick(U)] + SumFunctionOnSet(g, U \ {Pick(U)})
  BY <1>4, <1>5, SumIs, PickIs
<1>7. SumFunctionOnSet(f, U \ {Pick(U)}) = SumFunctionOnSet(g, U \ {Pick(U)})
  <2>1. U \ {Pick(U)} # U /\ U \ {Pick(U)} \subseteq U
    BY <1>6
  <2>2. U \ {Pick(U)} \notin Q
    BY <1>3, <2>1
  <2> QED
    BY <1>4, <2>1, <2>2
<1>8. f[Pick(U)] = g[Pick(U)]
  BY <1>4, <1>6
<1> QED
  BY <1>3, <1>6, <1>7, <1>8

LEMMA SumSplit ==
  ASSUME NEW f, NEW S, IsFiniteSet(S), \A x \in S : f[x] \in Int, NEW T \in SUBSET S
  PROVE  SumFunctionOnSet(f, S) = SumFunctionOnSet(f, T) + SumFunctionOnSet(f, S \ T)
<1> DEFINE Sum(U) == SumFunctionOnSet(f, U)
           Q == {U \in SUBSET S : Sum(S) # Sum(U) + Sum(S \ U)}
<1>1. SUFFICES ASSUME Q # {} PROVE FALSE
  BY <1>1
<1>2. Q \in SUBSET SUBSET S
  OBVIOUS
<1>3. PICK U \in Q : \A V \in Q : V \subseteq U => V = U
  <2> HIDE DEF Q
  <2> QED
    BY <1>1, <1>2, SmallestSubset
<1>4. U \in SUBSET S /\ IsFiniteSet(U) /\ \A x \in U : f[x] \in Int
  BY FS_Subset
<1>5. Sum(S) \in Int /\ Sum({}) = 0
  BY SumAdd, SumIs
<1>6. ASSUME U = {} PROVE FALSE
  <2>1. S \ U = S
    BY <1>6
  <2>2. Sum(S) = Sum(U) + Sum(S \ U)
    BY <1>5, <1>6, <2>1
  <2> QED
    BY <1>3, <2>2
<1>7. PICK x \in U : TRUE
  BY <1>6
<1> DEFINE V == U \ {x}
<1>8. Sum(S) = Sum(V) + Sum(S \ V)
  <2>1. V # U /\ V \subseteq U /\ V \in SUBSET S
    BY <1>4
  <2>2. V \notin Q
    BY <1>3, <2>1
  <2> QED
    BY <2>1, <2>2
<1>9. Sum(U) = f[x] + Sum(V)
  BY <1>4, SumAdd
<1>10. Sum(S \ V) = f[x] + Sum(S \ U)
  <2>1. IsFiniteSet(S \ V) /\ x \in S \ V
    BY <1>4, FS_Subset
  <2>2. (S \ V) \ {x} = S \ U
    BY <1>4
  <2>3. \A y \in S \ V : f[y] \in Int
    OBVIOUS
  <2> QED
    BY <2>1, <2>2, <2>3, SumAdd
<1>11. Sum(V) \in Int /\ Sum(S \ U) \in Int
  <2>1. IsFiniteSet(V) /\ IsFiniteSet(S \ U)
    BY <1>4, FS_Subset
  <2>2. \A y \in V : f[y] \in Int
    BY <1>4
  <2>3. \A y \in S \ U : f[y] \in Int
    OBVIOUS
  <2> QED
    BY <2>1, <2>2, <2>3, SumAdd
<1>12. f[x] \in Int
  BY <1>4
<1> HIDE DEF Sum, V
<1> QED
  BY <1>3, <1>8, <1>9, <1>10, <1>11, <1>12
=============================================================================
