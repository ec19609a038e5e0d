--------------------------- MODULE LiveTail_proofs ---------------------------
(***************************************************************************)
(* Proofs about the live tail, for any streams, connections, ring and      *)
(* queue sizes, files at boot and bounds.                                  *)
(*                                                                         *)
(* A ring, and a backlog, is Top of some records put in order: those with  *)
(* fewer than RingSize newer ones.  Top does not depend on how the records *)
(* are split over files or streams (TopUnion), nor on the files the walk   *)
(* leaves unread (EnoughIs), and one record more at the end is a push      *)
(* (PushIs); so a ring is what it should be at boot and stays so.          *)
(*                                                                         *)
(* Of a tail it is shown that what it has heard is in order and before     *)
(* what is yet to be published (Hears); that what it shows is in order and *)
(* before every line it has yet to show (Shows); and that it has shown     *)
(* what it owes of the backlog and counted what it misses of the rest      *)
(* (Counts).                                                               *)
(***************************************************************************)
EXTENDS LiveTail, Sets_proofs

------------------------------------------------------------------------------
(* Records in the order of their numbers. *)

\* Finitely many records, no two with one number.
Ranked(S) ==
  /\ S \in SUBSET Record /\ IsFiniteSet(S)
  /\ \A x, y \in S : x.seq = y.seq => x = y

Rising(q) == \A i, j \in 1 .. Len(q) : i < j => q[i].seq < q[j].seq

From(S, r) == {x \in S : r.seq <= x.seq}

\* The newest of some records, as many as a ring holds.
Top(S) == {r \in S : Cardinality(From(S, r)) <= RingSize}

\* A part of some records is ranked as they are.
LEMMA RankedPart ==
  ASSUME NEW S, Ranked(S), NEW T \in SUBSET S
  PROVE  Ranked(T)
  BY FS_Subset DEF Ranked

\* Records put in order: all of them, once, and rising.
LEMMA InOrderIs ==
  ASSUME NEW S, Ranked(S)
  PROVE  /\ InOrder(S) \in Seq(Record) /\ Len(InOrder(S)) = Cardinality(S)
         /\ Rising(InOrder(S)) /\ ToSet(InOrder(S)) = S
<1> DEFINE key == [r \in S |-> r.seq]
           q == SortedBy(S, key)
<1>1. key \in [S -> Int] /\ \A r \in S : key[r] = r.seq
  BY DEF Ranked, Record
<1>2. InOrder(S) = q
  BY DEF InOrder
<1>3. \A x, y \in S : key[x] = key[y] => x = y
  BY <1>1 DEF Ranked
<1> HIDE DEF key
<1>4. /\ q \in Seq(S) /\ Len(q) = Cardinality(S)
      /\ \A i, j \in 1 .. Len(q) : i < j => key[q[i]] < key[q[j]]
      /\ ToSet(q) = S
  BY <1>1, <1>3, SortedByIs DEF Ranked
<1> HIDE DEF q
<1>5. \A i \in 1 .. Len(q) : q[i] \in S
  BY <1>4
<1>6. q \in Seq(Record)
  BY <1>4 DEF Ranked
<1>7. Rising(q)
  BY <1>1, <1>4, <1>5 DEF Rising
<1> QED
  BY <1>2, <1>4, <1>6, <1>7

\* The elements of a sequence of records.
LEMMA RecordsAre ==
  ASSUME NEW q \in Seq(Record)
  PROVE  /\ Len(q) \in Nat
         /\ \A j \in 1 .. Len(q) : q[j] \in Record /\ q[j].seq \in Nat /\ q[j] \in ToSet(q)
<1>1. /\ Len(q) \in Nat
      /\ \A j \in 1 .. Len(q) : q[j] \in Record
  OBVIOUS
<1>2. \A r \in Record : r.seq \in Nat
  BY DEF Record
<1>3. ToSet(q) = {q[j] : j \in 1 .. Len(q)}
  BY ToSetIs
<1> QED
  BY <1>1, <1>2, <1>3

\* The place of a record tells how many come after it.
LEMMA PlaceIs ==
  ASSUME NEW q \in Seq(Record), Rising(q), NEW i \in 1 .. Len(q)
  PROVE  Cardinality(From(ToSet(q), q[i])) = Len(q) - i + 1
<1> DEFINE S == From(ToSet(q), q[i])
           I == i .. Len(q)
           f == [j \in I |-> q[j]]
<1>1. /\ Len(q) \in Nat /\ ToSet(q) = {q[j] : j \in 1 .. Len(q)}
      /\ \A j \in 1 .. Len(q) : q[j] \in Record /\ q[j].seq \in Nat
  BY RecordsAre, ToSetIs
<1>2. \A j, k \in 1 .. Len(q) : q[j].seq <= q[k].seq <=> j <= k
  BY <1>1 DEF Rising
<1>3. \A j, k \in 1 .. Len(q) : q[j] = q[k] => j = k
  BY <1>1, <1>2
<1>4. S = {q[j] : j \in I}
  BY <1>1, <1>2 DEF From
<1>5. f \in [I -> S] /\ \A j \in I : f[j] = q[j] /\ j \in 1 .. Len(q)
  BY <1>1, <1>4
<1> HIDE DEF S, f
<1>6. f \in Bijection(I, S)
  <2>1. f \in Injection(I, S)
    BY <1>3, <1>5 DEF Injection, IsInjective
  <2>2. f \in Surjection(I, S)
    BY <1>4, <1>5 DEF Surjection
  <2> QED
    BY <2>1, <2>2 DEF Bijection
<1>7. IsFiniteSet(I) /\ Cardinality(I) = Len(q) - i + 1
  BY <1>1, FS_Interval
<1>8. Cardinality(S) = Cardinality(I)
  BY <1>6, <1>7, FS_Bijection DEF ExistsBijection
<1> QED
  BY <1>7, <1>8 DEF S

\* A rising sequence holds each number once.
LEMMA RisingIs ==
  ASSUME NEW q \in Seq(Record), Rising(q)
  PROVE  Ranked(ToSet(q)) /\ Cardinality(ToSet(q)) = Len(q)
<1>1. /\ Len(q) \in Nat /\ ToSet(q) = {q[j] : j \in 1 .. Len(q)}
      /\ \A j \in 1 .. Len(q) : q[j] \in Record /\ q[j].seq \in Nat
      /\ IsFiniteSet(ToSet(q)) /\ ToSet(q) \in SUBSET Record
  BY RecordsAre, ToSetIs
<1>2. \A j, k \in 1 .. Len(q) : q[j].seq <= q[k].seq <=> j <= k
  BY <1>1 DEF Rising
<1>3. Ranked(ToSet(q))
  <2>1. ASSUME NEW j \in 1 .. Len(q), NEW k \in 1 .. Len(q), q[j].seq = q[k].seq
        PROVE  q[j] = q[k]
    <3>1. j <= k /\ k <= j
      BY <1>1, <1>2, <2>1
    <3> QED
      BY <1>1, <3>1
  <2> QED
    BY <1>1, <2>1 DEF Ranked
<1>4. CASE Len(q) = 0
  <2>1. ToSet(q) = {}
    BY <1>1, <1>4
  <2> QED
    BY <1>3, <1>4, <2>1, FS_EmptySet
<1>5. CASE Len(q) # 0
  <2>1. 1 \in 1 .. Len(q)
    BY <1>1, <1>5
  <2>2. From(ToSet(q), q[1]) = ToSet(q)
    BY <1>1, <1>2, <2>1 DEF From
  <2>3. Cardinality(From(ToSet(q), q[1])) = Len(q) - 1 + 1
    BY <2>1, PlaceIs
  <2>4. Cardinality(ToSet(q)) = Len(q) - 1 + 1
    BY <2>2, <2>3
  <2>5. Len(q) - 1 + 1 = Len(q)
    BY <1>1
  <2> QED
    BY <1>3, <2>4, <2>5
<1> QED
  BY <1>4, <1>5

\* There is one order only.
LEMMA RisingUnique ==
  ASSUME NEW p \in Seq(Record), NEW q \in Seq(Record), Rising(p), Rising(q),
         ToSet(p) = ToSet(q)
  PROVE  p = q
<1>1. Len(p) = Len(q) /\ Len(p) \in Nat
  BY RisingIs
<1>2. ASSUME NEW i \in 1 .. Len(p) PROVE p[i] = q[i]
  <2>1. p[i] \in ToSet(q)
    BY ToSetIs
  <2>2. PICK j \in 1 .. Len(q) : p[i] = q[j]
    BY <2>1, ToSetIs
  <2>3. Cardinality(From(ToSet(p), p[i])) = Len(p) - i + 1
    BY PlaceIs
  <2>4. Cardinality(From(ToSet(q), q[j])) = Len(q) - j + 1
    BY PlaceIs
  <2>5. i = j
    BY <1>1, <2>2, <2>3, <2>4
  <2> QED
    BY <2>2, <2>5
<1> QED
  BY <1>1, <1>2

\* A rising sequence is its records put in order.
LEMMA InOrderUnique ==
  ASSUME NEW q \in Seq(Record), Rising(q)
  PROVE  InOrder(ToSet(q)) = q
  BY RisingIs, InOrderIs, RisingUnique

\* The end of a rising sequence is its newest records.
LEMMA LastOfIs ==
  ASSUME NEW q \in Seq(Record), Rising(q)
  PROVE  LET p == LastOf(q, RingSize)
         IN  /\ p \in Seq(Record) /\ Rising(p) /\ ToSet(p) = Top(ToSet(q))
             /\ Len(p) = IF Len(q) > RingSize THEN RingSize ELSE Len(q)
<1> DEFINE n == Len(q)
           m == IF n > RingSize THEN n - RingSize + 1 ELSE 1
           p == LastOf(q, RingSize)
<1>1. /\ n \in Nat /\ RingSize \in Nat \ {0}
      /\ \A j \in 1 .. n : q[j] \in Record /\ q[j].seq \in Nat
  BY RecordsAre, TailAssumption
<1>2. m \in 1 .. n + 1 /\ p = SubSeq(q, m, n)
  BY <1>1 DEF LastOf
<1>3. n - m + 1 = IF n > RingSize THEN RingSize ELSE n
  BY <1>1
<1> HIDE DEF m, n, p
<1>4. /\ p \in Seq(Record) /\ Len(p) = n - m + 1
      /\ \A i \in 1 .. n - m + 1 : p[i] = q[m + i - 1]
  <2>1. m \in Int /\ n \in Int /\ \A i \in m .. n : q[i] \in Record
    BY <1>1, <1>2
  <2>2. /\ SubSeq(q, m, n) \in Seq(Record)
        /\ Len(SubSeq(q, m, n)) = IF m <= n THEN n - m + 1 ELSE 0
        /\ \A i \in 1 .. n - m + 1 : SubSeq(q, m, n)[i] = q[m + i - 1]
    BY <2>1, SubSeqProperties
  <2> QED
    BY <1>1, <1>2, <2>2
<1>5. \A i \in 1 .. Len(p) : m + i - 1 \in m .. n /\ m + i - 1 \in 1 .. n
  BY <1>1, <1>2, <1>4
<1>6. \A j \in m .. n : j - m + 1 \in 1 .. Len(p) /\ p[j - m + 1] = q[j] /\ j \in 1 .. n
  BY <1>1, <1>2, <1>4
<1>7. Rising(p)
  <2> SUFFICES ASSUME NEW i \in 1 .. Len(p), NEW j \in 1 .. Len(p), i < j
               PROVE  p[i].seq < p[j].seq
    BY DEF Rising
  <2>1. m + i - 1 < m + j - 1
    BY <1>1, <1>2
  <2>2. q[m + i - 1].seq < q[m + j - 1].seq
    BY <1>5, <2>1 DEF Rising, n
  <2> QED
    BY <1>4, <2>2
<1>8. ToSet(p) = {q[j] : j \in m .. n}
  <2>1. ToSet(p) = {p[i] : i \in 1 .. Len(p)}
    BY <1>4, ToSetIs
  <2>2. \A i \in 1 .. Len(p) : p[i] = q[m + i - 1] /\ m + i - 1 \in m .. n
    BY <1>4, <1>5
  <2> QED
    BY <1>6, <2>1, <2>2
<1>9. \A j \in 1 .. n : Cardinality(From(ToSet(q), q[j])) <= RingSize <=> j \in m .. n
  <2>1. ASSUME NEW j \in 1 .. n
        PROVE  Cardinality(From(ToSet(q), q[j])) = n - j + 1
    BY PlaceIs DEF n
  <2>2. \A j \in 1 .. n : n - j + 1 <= RingSize <=> j \in m .. n
    BY <1>1 DEF m
  <2> QED
    BY <2>1, <2>2
<1>10. Top(ToSet(q)) = {q[j] : j \in m .. n}
  <2>1. ToSet(q) = {q[j] : j \in 1 .. n}
    BY ToSetIs DEF n
  <2> QED
    BY <1>6, <1>9, <2>1 DEF Top
<1> QED
  BY <1>3, <1>4, <1>7, <1>8, <1>10 DEF p, n

\* What a ring keeps of some records.
LEMMA NewestIs ==
  ASSUME NEW S, Ranked(S)
  PROVE  /\ LastOf(InOrder(S), RingSize) = InOrder(Top(S))
         /\ Ranked(Top(S)) /\ IsFiniteSet(Top(S))
         /\ Cardinality(Top(S)) =
              IF Cardinality(S) > RingSize THEN RingSize ELSE Cardinality(S)
<1> DEFINE q == InOrder(S)
           p == LastOf(q, RingSize)
<1>1. q \in Seq(Record) /\ Rising(q) /\ ToSet(q) = S /\ Len(q) = Cardinality(S)
  BY InOrderIs
<1> HIDE DEF q
<1>2. /\ p \in Seq(Record) /\ Rising(p) /\ ToSet(p) = Top(S)
      /\ Len(p) = IF Len(q) > RingSize THEN RingSize ELSE Len(q)
  BY <1>1, LastOfIs
<1> HIDE DEF p
<1>3. InOrder(Top(S)) = p
  BY <1>2, InOrderUnique
<1>4. Ranked(Top(S)) /\ Cardinality(Top(S)) = Len(p)
  BY <1>2, RisingIs
<1> QED
  BY <1>1, <1>2, <1>3, <1>4 DEF p, q, Ranked

\* What comes after a record, in all and in a part.
LEMMA FromFits ==
  ASSUME NEW S, Ranked(S), NEW T \in SUBSET S, NEW r
  PROVE  /\ IsFiniteSet(From(S, r)) /\ IsFiniteSet(From(T, r))
         /\ From(T, r) \subseteq From(S, r) /\ From(T, r) = From(S, r) \cap T
         /\ Cardinality(From(S, r)) \in Nat /\ Cardinality(From(T, r)) \in Nat
         /\ Cardinality(From(T, r)) <= Cardinality(From(S, r))
<1>1. From(S, r) \in SUBSET S /\ From(T, r) = From(S, r) \cap T
  BY DEF From
<1>2. IsFiniteSet(From(S, r))
  BY <1>1, FS_Subset DEF Ranked
<1>3. From(T, r) \in SUBSET From(S, r)
  BY <1>1
<1>4. IsFiniteSet(From(T, r)) /\ Cardinality(From(T, r)) <= Cardinality(From(S, r))
  BY <1>2, <1>3, FS_Subset
<1> QED
  BY <1>1, <1>2, <1>4, FS_CardinalityType

\* What is left out comes before all that is kept, and the ring is full then.
LEMMA LeftOut ==
  ASSUME NEW S, Ranked(S), NEW y \in S \ Top(S)
  PROVE  Cardinality(Top(S)) = RingSize /\ \A x \in Top(S) : y.seq < x.seq
<1>1. RingSize \in Nat \ {0} /\ \A x \in S : x.seq \in Nat
  BY TailAssumption DEF Ranked, Record
<1>2. ~(Cardinality(From(S, y)) <= RingSize)
  BY DEF Top
<1>3. ASSUME NEW x \in Top(S), ~(y.seq < x.seq) PROVE FALSE
  <2>1. x \in S /\ Cardinality(From(S, x)) <= RingSize
    BY DEF Top
  <2>2. x.seq <= y.seq
    BY <1>1, <1>3, <2>1
  <2>3. From(S, y) \in SUBSET From(S, x)
    BY <1>1, <2>1, <2>2 DEF From
  <2>4. /\ IsFiniteSet(From(S, x)) /\ Cardinality(From(S, x)) \in Nat
        /\ Cardinality(From(S, y)) \in Nat
    BY FromFits
  <2>5. Cardinality(From(S, y)) <= Cardinality(From(S, x))
    BY <2>3, <2>4, FS_Subset
  <2> QED
    BY <1>1, <1>2, <2>1, <2>4, <2>5
<1>4. Cardinality(Top(S)) = RingSize
  <2>1. Cardinality(From(S, y)) \in Nat /\ Cardinality(S) \in Nat
        /\ Cardinality(From(S, y)) <= Cardinality(S)
    <3>1. From(S, y) \in SUBSET S
      BY DEF From
    <3> QED
      BY <3>1, FS_Subset, FS_CardinalityType DEF Ranked
  <2>2. Cardinality(S) > RingSize
    BY <1>1, <1>2, <2>1
  <2> QED
    BY <2>2, NewestIs
<1> QED
  BY <1>3, <1>4

\* The newest of all are among the newest of each part.
LEMMA TopUnion ==
  ASSUME NEW A, NEW B, Ranked(A \cup B)
  PROVE  Top(Top(A) \cup Top(B)) = Top(A \cup B)
<1> DEFINE S == A \cup B
           U == Top(A) \cup Top(B)
<1>1. /\ A \in SUBSET S /\ B \in SUBSET S /\ U \in SUBSET S
      /\ Top(A) \in SUBSET A /\ Top(B) \in SUBSET B
  BY DEF Top
<1>2. Ranked(S) /\ Ranked(A) /\ Ranked(B) /\ Ranked(U)
  BY <1>1, RankedPart
<1>3. RingSize \in Nat \ {0} /\ \A x \in S : x.seq \in Nat
  BY <1>2, TailAssumption DEF Ranked, Record
<1> HIDE DEF S, U
<1>4. ASSUME NEW C \in {A, B}, NEW r \in Top(S), r \in C
      PROVE  r \in Top(C)
  <2>1. Cardinality(From(S, r)) <= RingSize
    BY DEF Top
  <2>2. /\ Cardinality(From(C, r)) <= Cardinality(From(S, r))
        /\ Cardinality(From(S, r)) \in Nat /\ Cardinality(From(C, r)) \in Nat
    BY <1>1, <1>2, FromFits
  <2> QED
    BY <1>3, <1>4, <2>1, <2>2 DEF Top
<1>5. ASSUME NEW r \in Top(S) PROVE r \in Top(U)
  <2>1. r \in S /\ Cardinality(From(S, r)) <= RingSize
    BY DEF Top
  <2>2. r \in U
    BY <1>4, <2>1 DEF S, U
  <2>3. /\ Cardinality(From(U, r)) <= Cardinality(From(S, r))
        /\ Cardinality(From(S, r)) \in Nat /\ Cardinality(From(U, r)) \in Nat
    BY <1>1, <1>2, FromFits
  <2> QED
    BY <1>3, <2>1, <2>2, <2>3 DEF Top
<1>6. ASSUME NEW r \in Top(U), r \notin Top(S) PROVE FALSE
  <2>1. r \in U /\ r \in S /\ Cardinality(From(U, r)) <= RingSize
    BY <1>1 DEF Top
  <2>2. ~(Cardinality(From(S, r)) <= RingSize)
    BY <1>6, <2>1 DEF Top
  <2>3. From(S, r) # From(U, r)
    BY <2>1, <2>2
  <2>4. PICK y \in S : y \notin U /\ r.seq <= y.seq
    BY <1>1, <2>3 DEF From
  <2>5. PICK C \in {A, B} : y \in C \ Top(C)
    BY <2>4 DEF S, U
  <2>6. Ranked(C) /\ Top(C) \in SUBSET U /\ C \in SUBSET S
    BY <1>1, <1>2 DEF U
  <2>7. Cardinality(Top(C)) = RingSize /\ \A x \in Top(C) : y.seq < x.seq
    BY <2>5, <2>6, LeftOut
  <2>8. Top(C) \in SUBSET From(U, r) /\ r \notin Top(C) /\ r \in From(U, r)
    <3>1. \A x \in Top(C) : x \in U /\ x.seq \in Nat
      BY <1>1, <1>3, <2>6
    <3>2. y.seq \in Nat /\ r.seq \in Nat /\ r.seq <= r.seq
      BY <1>3, <2>1, <2>4
    <3>3. \A x \in Top(C) : r.seq < x.seq /\ r.seq <= x.seq
      BY <2>4, <2>7, <3>1, <3>2
    <3> QED
      BY <2>1, <3>1, <3>2, <3>3 DEF From
  <2>9. IsFiniteSet(Top(C)) /\ IsFiniteSet(From(U, r)) /\ Cardinality(From(U, r)) \in Nat
    BY <1>2, <2>6, NewestIs, FromFits
  <2>10. Cardinality(Top(C) \cup {r}) = RingSize + 1 /\ IsFiniteSet(Top(C) \cup {r})
    BY <2>7, <2>8, <2>9, FS_AddElement
  <2>11. Top(C) \cup {r} \in SUBSET From(U, r)
    BY <2>8
  <2>12. Cardinality(Top(C) \cup {r}) <= Cardinality(From(U, r))
    BY <2>9, <2>11, FS_Subset
  <2> QED
    BY <1>3, <2>1, <2>9, <2>10, <2>12
<1> QED
  BY <1>5, <1>6 DEF S, U

\* A ring that has room for all of them keeps them all.
LEMMA TopFew ==
  ASSUME NEW S, Ranked(S), Cardinality(S) <= RingSize
  PROVE  Top(S) = S
<1>1. \A y \in S : Cardinality(From(S, y)) <= Cardinality(S)
  <2>1. \A y \in S : From(S, y) \in SUBSET S
    BY DEF From
  <2> QED
    BY <2>1, FS_Subset DEF Ranked
<1>2. Cardinality(S) \in Nat /\ RingSize \in Nat
      /\ \A y \in S : Cardinality(From(S, y)) \in Nat
  BY FromFits, FS_CardinalityType, TailAssumption DEF Ranked
<1> QED
  BY <1>1, <1>2 DEF Top

\* A record that comes last is pushed.
LEMMA PushIs ==
  ASSUME NEW S, NEW r, Ranked(S \cup {r}), \A x \in S : x.seq < r.seq
  PROVE  Push(InOrder(Top(S)), r) = InOrder(Top(S \cup {r}))
<1>1. /\ Ranked(S) /\ Ranked({r}) /\ Top(S) \in SUBSET S
      /\ r \in Record /\ r \notin S
  <2>1. r \in Record /\ r.seq \in Nat /\ ~(r.seq < r.seq)
    BY DEF Ranked, Record
  <2> QED
    BY <2>1, RankedPart DEF Top
<1>2. Ranked(Top(S)) /\ Ranked(Top(S) \cup {r})
  BY <1>1, RankedPart
<1> DEFINE q == InOrder(Top(S))
           p == Append(q, r)
<1>3. q \in Seq(Record) /\ Rising(q) /\ ToSet(q) = Top(S)
  BY <1>2, InOrderIs
<1> HIDE DEF q
<1>4. /\ p \in Seq(Record) /\ Len(p) = Len(q) + 1 /\ Len(q) \in Nat
      /\ p[Len(q) + 1] = r /\ \A i \in 1 .. Len(q) : p[i] = q[i]
  BY <1>1, <1>3
<1>5. ToSet(p) = Top(S) \cup {r}
  BY <1>1, <1>3, ToSetAppend
<1>6. \A i \in 1 .. Len(q) : q[i].seq < r.seq
  BY <1>1, <1>3, RecordsAre
<1> HIDE DEF p
<1>7. Rising(p)
  <2> SUFFICES ASSUME NEW i \in 1 .. Len(p), NEW j \in 1 .. Len(p), i < j
               PROVE  p[i].seq < p[j].seq
    BY DEF Rising
  <2>1. i \in 1 .. Len(q)
    BY <1>4
  <2>2. CASE j = Len(q) + 1
    BY <1>4, <1>6, <2>1, <2>2
  <2>3. CASE j # Len(q) + 1
    <3>1. j \in 1 .. Len(q)
      BY <1>4, <2>3
    <3> QED
      BY <1>3, <1>4, <2>1, <3>1 DEF Rising
  <2> QED
    BY <2>2, <2>3
<1>8. InOrder(Top(S) \cup {r}) = p
  BY <1>4, <1>5, <1>7, InOrderUnique
<1>9. LastOf(p, RingSize) = InOrder(Top(Top(S) \cup {r}))
  BY <1>2, <1>8, NewestIs
<1>10. Top({r}) = {r}
  <2>1. Cardinality({r}) = 1
    BY FS_Singleton
  <2> QED
    BY <1>1, <2>1, TopFew, TailAssumption
<1>11. Top(Top(S) \cup {r}) = Top(S \cup {r})
  BY <1>10, TopUnion
<1> QED
  BY <1>9, <1>11 DEF Push, p, q

------------------------------------------------------------------------------
(* The walk over the files at boot. *)

\* Nothing, put in order.
LEMMA NothingInOrder == Ranked({}) /\ Top({}) = {} /\ InOrder({}) = <<>>
<1>1. <<>> \in Seq(Record) /\ Rising(<<>>)
  BY DEF Rising
<1>2. InOrder(ToSet(<<>>)) = <<>>
  BY <1>1, InOrderUnique
<1>3. Ranked({})
  BY FS_EmptySet DEF Ranked
<1>4. Top({}) = {}
  BY DEF Top
<1> QED
  BY <1>2, <1>3, <1>4, ToSetEmpty

\* The highest number of some records.
LEMMA HighestSeqIs ==
  ASSUME NEW S, Ranked(S)
  PROVE  /\ HighestSeq(S) \in Nat /\ \A r \in S : r.seq <= HighestSeq(S)
         /\ S # {} => \E r \in S : r.seq = HighestSeq(S)
<1>1. CASE S = {}
  BY <1>1 DEF HighestSeq
<1>2. CASE S # {}
  <2> DEFINE N == {r.seq : r \in S}
             f == [r \in S |-> r.seq]
  <2>1. N \in SUBSET Int /\ N # {} /\ \A r \in S : r.seq \in N /\ r.seq \in Nat
    BY <1>2 DEF Ranked, Record
  <2>2. IsFiniteSet(N)
    <3>1. f \in Surjection(S, N)
      BY DEF Surjection
    <3> QED
      BY <3>1, FS_Surjection DEF Ranked
  <2>3. \A n \in N : \E r \in S : r.seq = n
    OBVIOUS
  <2>4. HighestSeq(S) = Max(N)
    BY <1>2 DEF HighestSeq
  <2> HIDE DEF N
  <2>5. Max(N) \in N /\ \A n \in N : n <= Max(N)
    BY <2>1, <2>2, MaxIs
  <2> QED
    BY <2>1, <2>3, <2>4, <2>5
<1> QED
  BY <1>1, <1>2

\* A file that is not read holds none of the newest records (newest).
LEMMA EnoughIs ==
  ASSUME NEW A, NEW F, Ranked(A \cup F), Enough(InOrder(Top(A)), F)
  PROVE  Top(A \cup F) = Top(A)
<1> DEFINE T == Top(A)
           B == Top(F)
           q == InOrder(T)
<1>1. /\ Ranked(A) /\ Ranked(F) /\ A \in SUBSET (A \cup F) /\ F \in SUBSET (A \cup F)
  BY RankedPart
<1>2. /\ Ranked(T) /\ T \in SUBSET A /\ B \in SUBSET F /\ IsFiniteSet(T)
      /\ Cardinality(T) \in Nat
      /\ Cardinality(T) <= RingSize /\ RingSize \in Nat \ {0}
  <2>1. /\ Ranked(T) /\ IsFiniteSet(T) /\ RingSize \in Nat \ {0}
        /\ Cardinality(T) = IF Cardinality(A) > RingSize THEN RingSize ELSE Cardinality(A)
    BY <1>1, NewestIs, TailAssumption
  <2>2. Cardinality(T) \in Nat /\ Cardinality(A) \in Nat
    BY <1>1, <2>1, FS_CardinalityType DEF Ranked
  <2> QED
    BY <2>1, <2>2 DEF Top
<1>3. q \in Seq(Record) /\ Rising(q) /\ ToSet(q) = T /\ Len(q) = Cardinality(T)
  BY <1>2, InOrderIs
<1>4. \A x \in A \cup F : x.seq \in Nat
  BY DEF Ranked, Record
<1>5. Len(q) >= RingSize /\ HighestSeq(F) < q[1].seq
  BY DEF Enough
<1> HIDE DEF T, B, q
<1>6. Cardinality(T) = RingSize
  BY <1>2, <1>3, <1>5
<1>7. \A x \in T : q[1].seq <= x.seq
  <2>1. \A i \in 1 .. Len(q) : q[1].seq <= q[i].seq
    <3>1. 1 \in 1 .. Len(q) /\ \A i \in 1 .. Len(q) : i = 1 \/ 1 < i
      BY <1>2, <1>3, <1>6
    <3>2. \A i \in 1 .. Len(q) : q[i].seq \in Nat
      BY <1>3, RecordsAre
    <3> QED
      BY <1>3, <3>1, <3>2 DEF Rising
  <2>2. T = {q[i] : i \in 1 .. Len(q)}
    BY <1>3, ToSetIs
  <2> QED
    BY <2>1, <2>2
<1>8. \A y \in B, x \in T : y.seq < x.seq
  <2>1. 1 \in 1 .. Len(q)
    BY <1>2, <1>3, <1>6
  <2>2. HighestSeq(F) \in Nat /\ q[1].seq \in Nat /\ \A y \in F : y.seq <= HighestSeq(F)
    BY <1>1, <1>3, <2>1, HighestSeqIs, RecordsAre
  <2>3. \A y \in B : y \in F /\ y.seq \in Nat
    BY <1>2, <1>4
  <2>4. \A x \in T : x.seq \in Nat
    BY <1>2, <1>4
  <2> QED
    BY <1>5, <1>7, <2>2, <2>3, <2>4
<1>9. Ranked(T \cup B)
  BY <1>2, RankedPart
<1>10. ASSUME NEW x \in T PROVE x \in Top(T \cup B)
  <2>1. From(T \cup B, x) \in SUBSET T
    <3>1. \A y \in B : ~(x.seq <= y.seq)
      BY <1>2, <1>4, <1>8
    <3> QED
      BY <3>1 DEF From
  <2>2. Cardinality(From(T \cup B, x)) <= Cardinality(T)
    BY <1>2, <2>1, FS_Subset
  <2> QED
    BY <1>6, <2>2 DEF Top
<1>11. ASSUME NEW y \in Top(T \cup B), y \notin T PROVE FALSE
  <2>1. y \in B /\ Cardinality(From(T \cup B, y)) <= RingSize
    BY <1>11 DEF Top
  <2>2. T \cup {y} \in SUBSET From(T \cup B, y)
    <3>1. y.seq <= y.seq
      BY <1>2, <1>4, <2>1
    <3>2. \A x \in T : y.seq <= x.seq
      BY <1>2, <1>4, <1>8, <2>1
    <3> QED
      BY <2>1, <3>1, <3>2 DEF From
  <2>3. Cardinality(T \cup {y}) = RingSize + 1
    BY <1>2, <1>6, <1>11, FS_AddElement
  <2>4. IsFiniteSet(From(T \cup B, y)) /\ Cardinality(From(T \cup B, y)) \in Nat
    BY <1>9, FromFits
  <2>5. Cardinality(T \cup {y}) <= Cardinality(From(T \cup B, y))
    BY <2>2, <2>4, FS_Subset
  <2> QED
    BY <1>2, <2>1, <2>3, <2>4, <2>5
<1>12. Top(T \cup B) = T
  <2>1. Top(T \cup B) \subseteq T
    BY <1>11
  <2> QED
    BY <1>10, <2>1
<1> QED
  BY <1>12, TopUnion DEF T, B

\* One file more is read, or left alone because it cannot matter.
LEMMA ReadIs ==
  ASSUME NEW A, NEW F, Ranked(A \cup F)
  PROVE  Read(InOrder(Top(A)), F) = InOrder(Top(A \cup F))
<1>1. /\ Ranked(A) /\ Ranked(F) /\ Ranked(Top(A)) /\ Ranked(Top(F))
      /\ Ranked(Top(A) \cup Top(F))
  <2>1. Top(A) \in SUBSET (A \cup F) /\ Top(F) \in SUBSET (A \cup F)
        /\ Top(A) \cup Top(F) \in SUBSET (A \cup F)
    BY DEF Top
  <2> QED
    BY <2>1, RankedPart
<1>2. CASE Enough(InOrder(Top(A)), F)
  BY <1>2, EnoughIs DEF Read
<1>3. CASE ~Enough(InOrder(Top(A)), F)
  <2>1. ToSet(InOrder(Top(A))) = Top(A)
    BY <1>1, InOrderIs
  <2>2. ToSet(LastOf(InOrder(F), RingSize)) = Top(F)
    BY <1>1, NewestIs, InOrderIs
  <2>3. Read(InOrder(Top(A)), F) = LastOf(InOrder(Top(A) \cup Top(F)), RingSize)
    BY <1>3, <2>1, <2>2 DEF Read
  <2>4. LastOf(InOrder(Top(A) \cup Top(F)), RingSize) = InOrder(Top(Top(A) \cup Top(F)))
    BY <1>1, NewestIs
  <2> QED
    BY <2>3, <2>4, TopUnion
<1> QED
  BY <1>2, <1>3

\* What the walk finds in each part of it; FoldLeft recurs with this.
IsWalk(it, walk) ==
  it = [T \in SUBSET DOMAIN walk |->
          IF T = {} THEN <<>> ELSE Read(it[T \ {Max(T)}], walk[Max(T)])]

\* FoldLeft, as the walk it stands for.
LEMMA FoldIs ==
  ASSUME NEW walk
  PROVE  FoldLeft(Read, <<>>, walk) = (CHOOSE it : IsWalk(it, walk))[DOMAIN walk]
  BY DEF FoldLeft, MapThenFoldSet, IsWalk

\* The walk, by its first part that would find something else.
LEMMA WalkIs ==
  ASSUME NEW walk \in Seq(SUBSET Record), Ranked(UNION ToSet(walk))
  PROVE  FoldLeft(Read, <<>>, walk) = InOrder(Top(UNION ToSet(walk)))
<1> DEFINE D == DOMAIN walk
           Of1(T) == UNION {walk[i] : i \in T}
           best == [T \in SUBSET D |-> InOrder(Top(Of1(T)))]
           found == CHOOSE it : IsWalk(it, walk)
<1>1. IsFiniteSet(D) /\ D \in SUBSET Int
  <2>1. D = 1 .. Len(walk) /\ Len(walk) \in Nat
    OBVIOUS
  <2> HIDE DEF D
  <2> QED
    BY <2>1, FS_Interval
<1>2. UNION ToSet(walk) = Of1(D)
  BY DEF ToSet
<1>3. ASSUME NEW T \in SUBSET D PROVE Ranked(Of1(T))
  <2>1. Of1(T) \in SUBSET Of1(D)
    OBVIOUS
  <2> HIDE DEF Of1
  <2> QED
    BY <1>2, <2>1, RankedPart
<1>4. ASSUME NEW T \in SUBSET D, T # {}
      PROVE  Max(T) \in T /\ Of1(T) = Of1(T \ {Max(T)}) \cup walk[Max(T)]
  <2>1. Max(T) \in T
    BY <1>1, <1>4, FS_Subset, MaxIs
  <2> QED
    BY <2>1
<1>5. Of1({}) = {}
  OBVIOUS
<1> HIDE DEF Of1, D
<1>6. \A T \in SUBSET D : best[T] = InOrder(Top(Of1(T)))
  OBVIOUS
<1>7. DOMAIN best = SUBSET D /\ best = [T \in SUBSET D |-> best[T]]
  OBVIOUS
<1> HIDE DEF best
<1>8. ASSUME NEW T \in SUBSET D
      PROVE  best[T] = IF T = {} THEN <<>> ELSE Read(best[T \ {Max(T)}], walk[Max(T)])
  <2>1. CASE T = {}
    BY <1>5, <1>6, <2>1, NothingInOrder
  <2>2. CASE T # {}
    <3> DEFINE U == T \ {Max(T)}
    <3>1. best[U] = InOrder(Top(Of1(U))) /\ best[T] = InOrder(Top(Of1(T)))
      BY <1>6
    <3>2. Of1(T) = Of1(U) \cup walk[Max(T)]
      BY <1>4, <2>2
    <3>3. Ranked(Of1(T))
      BY <1>3
    <3> HIDE DEF U
    <3>4. Read(InOrder(Top(Of1(U))), walk[Max(T)]) = InOrder(Top(Of1(U) \cup walk[Max(T)]))
      BY <3>2, <3>3, ReadIs
    <3> QED
      BY <2>2, <3>1, <3>2, <3>4 DEF U
  <2> QED
    BY <2>1, <2>2
<1>9. IsWalk(best, walk)
  <2>1. [T \in SUBSET D |-> best[T]] =
          [T \in SUBSET D |-> IF T = {} THEN <<>>
                              ELSE Read(best[T \ {Max(T)}], walk[Max(T)])]
    BY <1>8
  <2> QED
    BY <1>7, <2>1 DEF IsWalk, D
<1>10. IsWalk(found, walk)
  BY <1>9
<1> HIDE DEF found
<1>11. \A T \in SUBSET D :
         found[T] = IF T = {} THEN <<>> ELSE Read(found[T \ {Max(T)}], walk[Max(T)])
  BY <1>10 DEF IsWalk, D
<1> DEFINE Q == {T \in SUBSET D : found[T] # best[T]}
<1>12. Q \in SUBSET SUBSET D /\ \A T \in SUBSET D : T \in Q <=> found[T] # best[T]
  OBVIOUS
<1> HIDE DEF Q
<1>13. ASSUME Q # {} PROVE FALSE
  <2>1. PICK T \in Q : \A V \in Q : V \subseteq T => V = T
    <3>1. IsFiniteSet(D) /\ Q \in SUBSET SUBSET D /\ Q # {}
      BY <1>1, <1>12, <1>13
    <3> QED
      BY ONLY <3>1, SmallestSubset
  <2>2. T \in SUBSET D /\ found[T] # best[T]
    BY <1>12
  <2>3. T # {}
    BY <1>8, <1>11, <2>2
  <2>4. Max(T) \in T
    BY <1>4, <2>2, <2>3
  <2>5. found[T \ {Max(T)}] = best[T \ {Max(T)}]
    <3>1. T \ {Max(T)} \in SUBSET D /\ T \ {Max(T)} \subseteq T /\ T \ {Max(T)} # T
      BY <2>2, <2>4
    <3> QED
      BY <1>12, <2>1, <3>1
  <2>6. found[T] = best[T]
    BY <1>8, <1>11, <2>2, <2>3, <2>5
  <2> QED
    BY <2>2, <2>6
<1>14. found[D] = InOrder(Top(Of1(D)))
  <2>1. D \in SUBSET D
    OBVIOUS
  <2> QED
    BY <1>6, <1>12, <1>13, <2>1
<1> QED
  BY <1>2, <1>14, FoldIs DEF found, D

\* The walk finds the newest records of a stream, however they are spread over
\* its files.
LEMMA NewestFound ==
  ASSUME NEW S, Ranked(S), NEW files, UNION files = S, {} \notin files,
         \A f, g \in files : f # g => f \cap g = {}
  PROVE  Newest(files) = InOrder(Top(S))
<1> DEFINE key == [f \in files |-> 0 - HighestSeq(f)]
           walk == SortedBy(files, key)
<1>1. files \in SUBSET SUBSET S
  OBVIOUS
<1>2. \A f \in files : Ranked(f) /\ f \in SUBSET Record /\ f # {}
  <2>1. ASSUME NEW f \in files PROVE Ranked(f)
    BY <1>1, RankedPart
  <2>2. \A f \in files : f # {}
    OBVIOUS
  <2> QED
    BY <2>1, <2>2 DEF Ranked
<1>3. \A f \in files : /\ HighestSeq(f) \in Nat
                       /\ \E r \in f : r.seq = HighestSeq(f)
  BY <1>2, HighestSeqIs
<1>4. ASSUME NEW f \in files, NEW g \in files, HighestSeq(f) = HighestSeq(g) PROVE f = g
  <2>1. PICK x \in f : x.seq = HighestSeq(f)
    BY <1>3
  <2>2. PICK y \in g : y.seq = HighestSeq(g)
    BY <1>3
  <2>3. x \in S /\ y \in S /\ x.seq = y.seq
    BY <1>1, <1>4, <2>1, <2>2
  <2>4. x = y
    BY <2>3 DEF Ranked
  <2> QED
    BY <2>4
<1>5. key \in [files -> Int] /\ \A f \in files : key[f] = 0 - HighestSeq(f)
  BY <1>3
<1> HIDE DEF key
<1>6. \A f, g \in files : key[f] = key[g] => f = g
  BY <1>3, <1>4, <1>5
<1>7. IsFiniteSet(files)
  <2>1. IsFiniteSet(SUBSET S)
    BY FS_SUBSET DEF Ranked
  <2> QED
    BY <1>1, <2>1, FS_Subset
<1>8. walk \in Seq(files) /\ ToSet(walk) = files
  BY <1>5, <1>6, <1>7, SortedByIs
<1>9. Newest(files) = FoldLeft(Read, <<>>, walk)
  BY DEF Newest, key
<1> HIDE DEF walk
<1>10. walk \in Seq(SUBSET Record)
  BY <1>2, <1>8
<1> QED
  BY <1>8, <1>9, <1>10, WalkIs

------------------------------------------------------------------------------
(* The inductive invariant. *)

PartOf(H, s) == {r \in H : s \in {All, r.stream}}

\* Records are numbered in the order they are written; n is the last number.
Numbered(H, n) == n \in Nat /\ Ranked(H) /\ \A r \in H : r.seq <= n

\* The rings hold the newest records of each stream that has any.
Keeps(H, R) ==
  /\ DOMAIN R = {r.stream : r \in H}
  /\ \A s \in DOMAIN R : R[s] = InOrder(Top(PartOf(H, s)))

\* What is to be published is the last record, and the list before it.
Waits(H, n, p) ==
  p # <<>> =>
    \E r \in H :
      /\ r.seq = n
      /\ \/ p = <<Line(r)>>
         \/ \E l \in SUBSET Stream : p = <<[kind |-> "streams", streams |-> l], Line(r)>>

IsLine(e) == e.kind = "line"

\* The lines a tail has heard are in order, and before what is to be published.
Hears(H, n, p, k) ==
  /\ Len(k.queue) <= QueueSize
  /\ \A i \in 1 .. Len(k.queue) : IsLine(k.queue[i]) =>
       /\ k.queue[i].record \in H
       /\ p # <<>> => k.queue[i].record.seq < n
       /\ \A j \in 1 .. Len(k.queue) :
            IsLine(k.queue[j]) /\ i < j => k.queue[i].record.seq < k.queue[j].record.seq

\* What a tail shows is in order, and before every line it will still show.
Shows(H, n, p, k) ==
  /\ k.floor <= n /\ Rising(k.shown)
  /\ \A x \in ToSet(k.shown) :
       /\ x \in H
       /\ p # <<>> /\ k.floor < n => x.seq < n
       /\ \A i \in 1 .. Len(k.queue) :
            IsLine(k.queue[i]) /\ k.floor < k.queue[i].record.seq =>
              x.seq < k.queue[i].record.seq

\* Owed and Missed, of what there is.
OwedOf(H, k) ==
  {r \in PartOf(H, k.stream) :
     /\ r.wanted
     /\ RingSize >= Cardinality({x \in PartOf(H, k.stream) :
                                   r.seq <= x.seq /\ x.seq <= k.floor})}

MissedOf(H, p, k) ==
  {r \in OwedOf(H, k) : r \notin ToSet(k.shown) /\ Line(r) \notin ToSet(k.queue \o p)}

\* What is owed of the backlog is shown, and what is missed has been counted.
Counts(H, p, k) ==
  k.step = "lines" /\ k.open =>
    /\ \A r \in OwedOf(H, k) : r.seq <= k.floor => r \in ToSet(k.shown)
    /\ Cardinality(MissedOf(H, p, k)) <= k.dropped

Fits(H, n, p, k) ==
  k \in Tailing /\ Hears(H, n, p, k) /\ Shows(H, n, p, k) /\ Counts(H, p, k)

IInv ==
  /\ opens \in Nat /\ closed \in BOOLEAN
  /\ Numbered(history, seq) /\ Keeps(history, rings) /\ Waits(history, seq, pending)
  /\ DOMAIN conn = Conn /\ conn = [c \in Conn |-> conn[c]]
  /\ \A c \in Conn : Fits(history, seq, pending, conn[c])

------------------------------------------------------------------------------
(* What a backlog holds. *)

\* What holds the newest of all has them as its own newest.
LEMMA TopBetween ==
  ASSUME NEW S, Ranked(S), NEW U \in SUBSET S, Top(S) \subseteq U
  PROVE  Top(U) = Top(S)
<1>1. Top(S) \cup U = U /\ S \cup U = S /\ S \cup S = S
  OBVIOUS
<1>2. Ranked(U)
  BY RankedPart
<1>3. Top(Top(S)) = Top(S)
  <2>1. Top(Top(S) \cup Top(S)) = Top(S \cup S)
    BY <1>1, TopUnion
  <2>2. Top(S) \cup Top(S) = Top(S)
    OBVIOUS
  <2> QED
    BY <1>1, <2>1, <2>2
<1>4. Top(Top(Top(S)) \cup Top(U)) = Top(Top(S) \cup U)
  BY <1>1, <1>2, TopUnion
<1>5. Top(Top(S) \cup Top(U)) = Top(S \cup U)
  BY <1>1, TopUnion
<1> QED
  BY <1>1, <1>3, <1>4, <1>5

\* The records a tail of one stream, or of all of them, is about.
LEMMA PartIs ==
  ASSUME NEW H, Ranked(H), NEW s
  PROVE  /\ PartOf(H, s) \in SUBSET H /\ Ranked(PartOf(H, s))
         /\ s = All => PartOf(H, s) = H
         /\ s # All => PartOf(H, s) = {r \in H : r.stream = s}
<1>1. PartOf(H, s) \in SUBSET H
  BY DEF PartOf
<1>2. Ranked(PartOf(H, s))
  BY <1>1, RankedPart
<1>3. s = All => PartOf(H, s) = H
  BY DEF PartOf
<1>4. s # All => PartOf(H, s) = {r \in H : r.stream = s}
  BY DEF PartOf
<1> QED
  BY <1>1, <1>2, <1>3, <1>4

\* The ring of a stream, empty if it has none.
RingOf(R, s) == IF s \in DOMAIN R THEN R[s] ELSE <<>>

\* A ring holds the newest records of its stream, nothing where there is none.
LEMMA RingIs ==
  ASSUME NEW H, Ranked(H), NEW R, Keeps(H, R), NEW s \in Stream
  PROVE  RingOf(R, s) = InOrder(Top(PartOf(H, s)))
<1>1. CASE s \in DOMAIN R
  BY <1>1 DEF Keeps, RingOf
<1>2. CASE s \notin DOMAIN R
  <2>1. PartOf(H, s) = {}
    <3>1. s # All
      BY TailAssumption
    <3>2. \A r \in H : r.stream # s
      BY <1>2 DEF Keeps
    <3> QED
      BY <3>1, <3>2, PartIs
  <2> QED
    BY <1>2, <2>1, NothingInOrder DEF RingOf
<1> QED
  BY <1>1, <1>2

\* The newest of all streams are found in the rings.
LEMMA RingsTogether ==
  ASSUME NEW H, Ranked(H), NEW R, Keeps(H, R)
  PROVE  LastOf(InOrder(UNION {ToSet(R[t]) : t \in DOMAIN R}), RingSize) = InOrder(Top(H))
<1> DEFINE U == UNION {ToSet(R[t]) : t \in DOMAIN R}
<1>1. ASSUME NEW t \in DOMAIN R
      PROVE  ToSet(R[t]) = Top(PartOf(H, t)) /\ t # All
  <2>1. R[t] = InOrder(Top(PartOf(H, t)))
    BY DEF Keeps
  <2>2. Ranked(Top(PartOf(H, t)))
    BY PartIs, NewestIs
  <2>3. ToSet(R[t]) = Top(PartOf(H, t))
    BY <2>1, <2>2, InOrderIs
  <2>4. t \in Stream
    BY DEF Keeps, Ranked, Record
  <2> QED
    BY <2>3, <2>4, TailAssumption
<1>2. U \in SUBSET H
  <2>1. \A t \in DOMAIN R : Top(PartOf(H, t)) \subseteq H
    BY DEF Top, PartOf
  <2> QED
    BY <1>1, <2>1
<1>3. ASSUME NEW r \in Top(H) PROVE r \in U
  <2> DEFINE t == r.stream
             P == PartOf(H, t)
  <2>1. r \in H /\ Cardinality(From(H, r)) <= RingSize
    BY DEF Top
  <2>2. t \in DOMAIN R
    BY <2>1 DEF Keeps
  <2>3. r \in P /\ P \in SUBSET H
    BY <2>1 DEF PartOf
  <2> HIDE DEF P
  <2>4. /\ Cardinality(From(P, r)) <= Cardinality(From(H, r))
        /\ Cardinality(From(P, r)) \in Nat /\ Cardinality(From(H, r)) \in Nat
    BY <2>3, FromFits
  <2>5. r \in Top(P)
    BY <2>1, <2>3, <2>4, TailAssumption DEF Top
  <2>6. r \in ToSet(R[t])
    BY <1>1, <2>2, <2>5 DEF P
  <2> QED
    BY <2>2, <2>6
<1> HIDE DEF U
<1>4. Ranked(U) /\ Top(U) = Top(H)
  BY <1>2, <1>3, RankedPart, TopBetween
<1>5. LastOf(InOrder(U), RingSize) = InOrder(Top(H))
  BY <1>4, NewestIs
<1> QED
  BY <1>5 DEF U

\* The backlog of a tail is the newest records it is about (newest, tail).
LEMMA BacklogIs ==
  ASSUME Ranked(history), Keeps(history, rings), NEW s \in Stream \cup {All}
  PROVE  Backlog(s) = InOrder(Top(PartOf(history, s)))
<1>1. CASE s = All
  <2>1. PartOf(history, s) = history
    BY <1>1, PartIs
  <2>2. Backlog(s) = LastOf(InOrder(UNION {ToSet(rings[t]) : t \in DOMAIN rings}), RingSize)
    BY <1>1 DEF Backlog
  <2> QED
    BY <2>1, <2>2, RingsTogether
<1>2. CASE s # All
  <2>1. s \in Stream
    BY <1>2
  <2>2. Backlog(s) = RingOf(rings, s)
    BY <1>2 DEF Backlog, RingOf
  <2> QED
    BY <2>1, <2>2, RingIs
<1> QED
  BY <1>1, <1>2

\* The filter keeps the order.
LEMMA WantedIs ==
  ASSUME NEW q \in Seq(Record), Rising(q)
  PROVE  /\ Wanted(q) \in Seq(Record) /\ Rising(Wanted(q))
         /\ ToSet(Wanted(q)) = {r \in ToSet(q) : r.wanted}
<1> DEFINE P == {i \in DOMAIN q : q[i].wanted}
           key == [i \in P |-> i]
           at == SortedBy(P, key)
           w == Wanted(q)
<1>1. /\ DOMAIN q = 1 .. Len(q) /\ Len(q) \in Nat
      /\ \A j \in 1 .. Len(q) : q[j] \in Record /\ q[j].seq \in Nat
  BY RecordsAre
<1>2. P \in SUBSET (1 .. Len(q)) /\ P = {i \in 1 .. Len(q) : q[i].wanted}
  BY <1>1
<1>3. w = [n \in DOMAIN at |-> q[at[n]]]
  BY DEF Wanted
<1> HIDE DEF P, w
<1>4. IsFiniteSet(P)
  <2>1. IsFiniteSet(1 .. Len(q))
    BY <1>1, FS_Interval
  <2> QED
    BY <1>2, <2>1, FS_Subset
<1>5. key \in [P -> Int] /\ \A i \in P : key[i] = i
  BY <1>2
<1> HIDE DEF key
<1>6. \A x, y \in P : key[x] = key[y] => x = y
  BY <1>5
<1>7. /\ at \in Seq(P) /\ ToSet(at) = P
      /\ \A i, j \in 1 .. Len(at) : i < j => key[at[i]] < key[at[j]]
  BY <1>4, <1>5, <1>6, SortedByIs
<1> HIDE DEF at
<1>8. /\ DOMAIN at = 1 .. Len(at) /\ Len(at) \in Nat
      /\ \A i \in 1 .. Len(at) : at[i] \in P /\ at[i] \in 1 .. Len(q)
  BY <1>2, <1>7
<1>9. /\ w \in Seq(Record) /\ Len(w) = Len(at)
      /\ \A i \in 1 .. Len(at) : w[i] = q[at[i]]
  BY <1>1, <1>3, <1>8
<1>10. Rising(w)
  <2> SUFFICES ASSUME NEW i \in 1 .. Len(w), NEW j \in 1 .. Len(w), i < j
               PROVE  w[i].seq < w[j].seq
    BY DEF Rising
  <2>1. at[i] < at[j]
    BY <1>5, <1>7, <1>8, <1>9
  <2>2. q[at[i]].seq < q[at[j]].seq
    BY <1>8, <1>9, <2>1 DEF Rising
  <2> QED
    BY <1>9, <2>2
<1>11. ToSet(w) = {q[i] : i \in P}
  <2>1. ToSet(w) = {w[i] : i \in 1 .. Len(at)}
    BY <1>9, ToSetIs
  <2>2. P = {at[i] : i \in 1 .. Len(at)}
    BY <1>7, ToSetIs
  <2> QED
    BY <1>9, <2>1, <2>2
<1>12. ToSet(q) = {q[i] : i \in 1 .. Len(q)}
  BY ToSetIs
<1>13. {q[i] : i \in P} = {r \in ToSet(q) : r.wanted}
  BY <1>2, <1>12
<1> QED
  BY <1>9, <1>10, <1>11, <1>13 DEF w

------------------------------------------------------------------------------
(* What there is at boot. *)

\* The records on disk are numbered.
LEMMA FirstRecords ==
  ASSUME NEW n \in Nat, NEW s \in [1 .. n -> Stream], NEW w \in [1 .. n -> BOOLEAN],
         NEW H, H = {[seq |-> i, stream |-> s[i], wanted |-> w[i]] : i \in 1 .. n}
  PROVE  Numbered(H, n)
<1> DEFINE rec(i) == [seq |-> i, stream |-> s[i], wanted |-> w[i]]
           f == [i \in 1 .. n |-> rec(i)]
<1>1. \A i \in 1 .. n : rec(i).seq = i /\ rec(i) \in Record
  BY DEF Record
<1>2. H = {rec(i) : i \in 1 .. n}
  OBVIOUS
<1> HIDE DEF rec
<1>3. f \in Surjection(1 .. n, H)
  BY <1>2 DEF Surjection
<1>4. IsFiniteSet(1 .. n)
  BY FS_Interval
<1>5. IsFiniteSet(H)
  BY <1>3, <1>4, FS_Surjection
<1>6. H \in SUBSET Record /\ \A r \in H : r.seq <= n
  BY <1>1, <1>2
<1>7. \A x, y \in H : x.seq = y.seq => x = y
  BY <1>1, <1>2
<1> QED
  BY <1>5, <1>6, <1>7 DEF Numbered, Ranked

\* Each ring is loaded with the newest records of its stream (loadBacklog).
LEMMA FirstRings ==
  ASSUME NEW H, Ranked(H), NEW files \in Files(H), NEW R,
         R = [s \in {r.stream : r \in H} |->
                Newest({f \in files : \A r \in f : r.stream = s})]
  PROVE  Keeps(H, R)
<1>1. /\ files \in SUBSET ((SUBSET H) \ {{}}) /\ UNION files = H
      /\ \A f, g \in files : f # g => f \cap g = {}
      /\ \A f \in files : \A a, b \in f : a.stream = b.stream
  BY DEF Files
<1>2. DOMAIN R = {r.stream : r \in H}
  OBVIOUS
<1>3. ASSUME NEW s \in DOMAIN R
      PROVE  R[s] = InOrder(Top(PartOf(H, s)))
  <2> DEFINE part == {f \in files : \A r \in f : r.stream = s}
  <2>1. R[s] = Newest(part)
    OBVIOUS
  <2>2. PartOf(H, s) = {r \in H : r.stream = s}
    <3>1. s \in Stream
      BY <1>2 DEF Ranked, Record
    <3> QED
      BY <3>1, PartIs, TailAssumption
  <2>3. UNION part = PartOf(H, s)
    <3>1. ASSUME NEW r \in H, r.stream = s PROVE \E f \in part : r \in f
      <4>1. PICK f \in files : r \in f
        BY <1>1
      <4>2. \A a \in f : a.stream = s
        BY <1>1, <3>1, <4>1
      <4> QED
        BY <4>1, <4>2
    <3>2. ASSUME NEW f \in part, NEW r \in f PROVE r \in H /\ r.stream = s
      BY <1>1
    <3> QED
      BY <2>2, <3>1, <3>2
  <2>4. {} \notin part
    BY <1>1
  <2>5. \A f, g \in part : f # g => f \cap g = {}
    BY <1>1
  <2> HIDE DEF part
  <2>6. Ranked(PartOf(H, s))
    BY PartIs
  <2>7. Newest(part) = InOrder(Top(PartOf(H, s)))
    BY <2>3, <2>4, <2>5, <2>6, NewestFound
  <2> QED
    BY <2>1, <2>7
<1> QED
  BY <1>2, <1>3 DEF Keeps

------------------------------------------------------------------------------
(* Appending. *)

\* A record with the next number comes after all others.
LEMMA NextRecord ==
  ASSUME NEW H, NEW n, Numbered(H, n), NEW r \in Record, r.seq = n + 1
  PROVE  /\ Numbered(H \cup {r}, n + 1) /\ Numbered(H, n + 1)
         /\ \A x \in H : x.seq < r.seq
<1>1. n \in Nat /\ Ranked(H) /\ \A x \in H : x.seq <= n /\ x.seq \in Nat
  BY DEF Numbered, Ranked, Record
<1>2. \A x \in H : x.seq < r.seq /\ x.seq <= n + 1 /\ x.seq # r.seq
  BY <1>1
<1>3. IsFiniteSet(H \cup {r}) /\ H \cup {r} \in SUBSET Record
  BY <1>1, FS_AddElement DEF Ranked
<1>4. \A x, y \in H \cup {r} : x.seq = y.seq => x = y
  BY <1>1, <1>2 DEF Ranked
<1>5. \A x \in H \cup {r} : x.seq <= n + 1
  BY <1>1, <1>2
<1> QED
  BY <1>1, <1>2, <1>3, <1>4, <1>5 DEF Numbered, Ranked

\* One record more.
LEMMA PartOfMore ==
  ASSUME NEW H, NEW r, NEW t
  PROVE  /\ t = All \/ t = r.stream => PartOf(H \cup {r}, t) = PartOf(H, t) \cup {r}
         /\ t # All /\ t # r.stream => PartOf(H \cup {r}, t) = PartOf(H, t)
<1>1. \A x : x \in PartOf(H \cup {r}, t) <=>
                x \in PartOf(H, t) \/ (x = r /\ (t = All \/ t = r.stream))
  BY DEF PartOf
<1> QED
  BY <1>1

\* An append pushes its record on the ring of its stream (Append).
LEMMA RingsKeep ==
  ASSUME NEW H, NEW n, Numbered(H, n), NEW r \in Record, r.seq = n + 1,
         NEW s, s = r.stream, NEW R, Keeps(H, R)
  PROVE  Keeps(H \cup {r}, With(R, s, Push(RingOf(R, s), r)))
<1> DEFINE N == With(R, s, Push(RingOf(R, s), r))
<1>1. /\ Ranked(H) /\ Ranked(H \cup {r}) /\ s \in Stream
      /\ \A x \in H : x.seq < r.seq
  <2>1. Numbered(H \cup {r}, n + 1) /\ \A x \in H : x.seq < r.seq
    BY NextRecord
  <2>2. s \in Stream
    BY DEF Record
  <2> QED
    BY <2>1, <2>2 DEF Numbered
<1>2. DOMAIN N = DOMAIN R \cup {s}
  BY DEF With
<1>3. DOMAIN N = {x.stream : x \in H \cup {r}}
  BY <1>1, <1>2 DEF Keeps
<1>4. \A t \in DOMAIN N : t \in Stream
  BY <1>1, <1>3 DEF Ranked, Record
<1>5. ASSUME NEW t \in DOMAIN N
      PROVE  N[t] = InOrder(Top(PartOf(H \cup {r}, t)))
  <2>1. t # All
    BY <1>4, TailAssumption
  <2>2. CASE t = s
    <3> DEFINE P == PartOf(H, t)
    <3>1. N[t] = Push(RingOf(R, s), r)
      BY <1>2, <2>2 DEF With
    <3>2. RingOf(R, s) = InOrder(Top(P))
      BY <1>1, <2>2, RingIs
    <3>3. PartOf(H \cup {r}, t) = P \cup {r}
      BY <1>1, <2>2, PartOfMore
    <3>4. Ranked(P \cup {r}) /\ \A x \in P : x.seq < r.seq
      <4>1. Ranked(PartOf(H \cup {r}, t)) /\ P \in SUBSET H
        BY <1>1, PartIs
      <4> QED
        BY <1>1, <3>3, <4>1
    <3> HIDE DEF P, N
    <3>5. Push(InOrder(Top(P)), r) = InOrder(Top(P \cup {r}))
      BY <3>4, PushIs
    <3> QED
      BY <3>1, <3>2, <3>3, <3>5
  <2>3. CASE t # s
    <3>1. t \in DOMAIN R /\ N[t] = R[t]
      BY <1>2, <2>3 DEF With
    <3>2. PartOf(H \cup {r}, t) = PartOf(H, t)
      BY <1>1, <2>1, <2>3, PartOfMore
    <3> QED
      BY <3>1, <3>2 DEF Keeps
  <2> QED
    BY <2>2, <2>3
<1> QED
  BY <1>3, <1>5 DEF Keeps

------------------------------------------------------------------------------
(* One tail, and what may happen to it. *)

\* What two sequences hold, one after the other.
LEMMA ToSetConcat ==
  ASSUME NEW S, NEW p \in Seq(S), NEW q \in Seq(S)
  PROVE  ToSet(p \o q) = ToSet(p) \cup ToSet(q)
<1>1. /\ p \o q \in Seq(S) /\ Len(p \o q) = Len(p) + Len(q)
      /\ Len(p) \in Nat /\ Len(q) \in Nat
      /\ \A i \in 1 .. Len(p) : (p \o q)[i] = p[i]
      /\ \A i \in 1 .. Len(q) : (p \o q)[Len(p) + i] = q[i]
  OBVIOUS
<1> DEFINE c == p \o q
<1> HIDE DEF c
<1>2. /\ ToSet(c) = {c[i] : i \in 1 .. Len(c)} /\ ToSet(p) = {p[i] : i \in 1 .. Len(p)}
      /\ ToSet(q) = {q[i] : i \in 1 .. Len(q)}
  BY <1>1, ToSetIs DEF c
<1>3. ASSUME NEW i \in 1 .. Len(c) PROVE c[i] \in ToSet(p) \cup ToSet(q)
  <2>1. CASE i \in 1 .. Len(p)
    BY <1>1, <1>2, <2>1 DEF c
  <2>2. CASE i \notin 1 .. Len(p)
    <3>1. i - Len(p) \in 1 .. Len(q) /\ i = Len(p) + (i - Len(p))
      BY <1>1, <2>2 DEF c
    <3>2. c[i] = q[i - Len(p)]
      BY <1>1, <3>1 DEF c
    <3> QED
      BY <1>2, <3>1, <3>2
  <2> QED
    BY <2>1, <2>2
<1>4. ASSUME NEW i \in 1 .. Len(p) PROVE p[i] \in ToSet(c)
  <2>1. i \in 1 .. Len(c) /\ c[i] = p[i]
    BY <1>1 DEF c
  <2> QED
    BY <1>2, <2>1
<1>5. ASSUME NEW i \in 1 .. Len(q) PROVE q[i] \in ToSet(c)
  <2>1. Len(p) + i \in 1 .. Len(c) /\ c[Len(p) + i] = q[i]
    BY <1>1 DEF c
  <2> QED
    BY <1>2, <2>1
<1>6. ToSet(c) \subseteq ToSet(p) \cup ToSet(q)
  BY <1>2, <1>3
<1>7. ToSet(p) \cup ToSet(q) \subseteq ToSet(c)
  BY <1>2, <1>4, <1>5
<1> QED
  BY <1>6, <1>7 DEF c

\* The parts of a tail have their types.
LEMMA TailIs ==
  ASSUME NEW k \in Tailing
  PROVE  /\ k.queue \in Seq(Event) /\ Len(k.queue) \in Nat
         /\ k.shown \in Seq(Record) /\ k.floor \in Nat /\ k.dropped \in Nat
         /\ k.stream \in Stream \cup {All} /\ k.open \in BOOLEAN
         /\ \A i \in 1 .. Len(k.queue) :
              /\ k.queue[i] \in Event /\ k.queue[i] \in ToSet(k.queue)
              /\ IsLine(k.queue[i]) =>
                   /\ k.queue[i].record \in Record /\ k.queue[i].record.seq \in Nat
                   /\ k.queue[i] = Line(k.queue[i].record)
<1>1. /\ k.queue \in Seq(Event)
      /\ k.shown \in Seq(Record) /\ k.floor \in Nat /\ k.dropped \in Nat
      /\ k.stream \in Stream \cup {All} /\ k.open \in BOOLEAN
  BY DEF Tailing
<1>2. Len(k.queue) \in Nat /\ \A i \in 1 .. Len(k.queue) : k.queue[i] \in Event
  BY <1>1
<1>3. ToSet(k.queue) = {k.queue[i] : i \in 1 .. Len(k.queue)}
  BY <1>1, ToSetIs
<1>4. ASSUME NEW e \in Event, IsLine(e)
      PROVE  e.record \in Record /\ e.record.seq \in Nat /\ e = Line(e.record)
  BY <1>4 DEF Event, IsLine, Line, Record
<1> QED
  BY <1>1, <1>2, <1>3, <1>4

\* Counting what is missed: no more than before, or one more.
LEMMA MissedIs ==
  ASSUME NEW H, Ranked(H), NEW k, NEW p, NEW M, NEW d \in Nat,
         Cardinality(MissedOf(H, p, k)) <= d
  PROVE  /\ IsFiniteSet(MissedOf(H, p, k))
         /\ M \subseteq MissedOf(H, p, k) => Cardinality(M) <= d
         /\ \A r : M \subseteq MissedOf(H, p, k) \cup {r} => Cardinality(M) <= d + 1
<1> DEFINE S == MissedOf(H, p, k)
<1>1. S \in SUBSET H
  BY DEF MissedOf, OwedOf, PartOf
<1> HIDE DEF S
<1>2. IsFiniteSet(S)
  BY <1>1, FS_Subset DEF Ranked
<1>3. Cardinality(S) \in Nat
  BY <1>2, FS_CardinalityType
<1>4. ASSUME M \subseteq S PROVE Cardinality(M) <= d
  <2>1. IsFiniteSet(M) /\ Cardinality(M) <= Cardinality(S)
    BY <1>2, <1>4, FS_Subset
  <2>2. Cardinality(M) \in Nat
    BY <2>1, FS_CardinalityType
  <2> QED
    BY <1>3, <2>1, <2>2 DEF S
<1>5. ASSUME NEW r, M \subseteq S \cup {r} PROVE Cardinality(M) <= d + 1
  <2>1. IsFiniteSet(S \cup {r}) /\ Cardinality(S \cup {r}) <= Cardinality(S) + 1
    <3>1. /\ IsFiniteSet(S \cup {r})
          /\ Cardinality(S \cup {r}) = IF r \in S THEN Cardinality(S) ELSE Cardinality(S) + 1
      BY <1>2, FS_AddElement
    <3> QED
      BY <1>3, <3>1
  <2>2. IsFiniteSet(M) /\ Cardinality(M) <= Cardinality(S \cup {r})
    BY <1>5, <2>1, FS_Subset
  <2>3. Cardinality(M) \in Nat /\ Cardinality(S \cup {r}) \in Nat
    BY <2>1, <2>2, FS_CardinalityType
  <2> QED
    BY <1>3, <2>1, <2>2, <2>3 DEF S
<1> QED
  BY <1>2, <1>4, <1>5 DEF S

\* What else a tail does changes nothing of this.
LEMMA FitsSame ==
  ASSUME NEW H, NEW n, NEW p, NEW k, Fits(H, n, p, k), NEW m \in Tailing,
         m.queue = k.queue, m.shown = k.shown, m.floor = k.floor,
         m.stream = k.stream, m.dropped = k.dropped,
         m.step = "lines" /\ m.open => k.step = "lines" /\ k.open
  PROVE  Fits(H, n, p, m)
<1>1. OwedOf(H, m) = OwedOf(H, k)
  BY DEF OwedOf
<1>2. MissedOf(H, p, m) = MissedOf(H, p, k)
  BY <1>1 DEF MissedOf
<1>3. Hears(H, n, p, m)
  BY DEF Fits, Hears
<1>4. Shows(H, n, p, m)
  BY DEF Fits, Shows
<1>5. Counts(H, p, m)
  BY <1>1, <1>2 DEF Fits, Counts
<1> QED
  BY <1>3, <1>4, <1>5 DEF Fits

\* A tail that has just begun has heard and shown nothing.
LEMMA FitsNew ==
  ASSUME NEW H, NEW n, Numbered(H, n), NEW p, NEW k \in Tailing,
         k.queue = <<>>, k.shown = <<>>, k.floor = 0, k.step # "lines"
  PROVE  Fits(H, n, p, k)
<1>1. Len(k.queue) = 0 /\ 1 .. Len(k.queue) = {} /\ ToSet(k.shown) = {}
  BY ToSetEmpty
<1>2. Hears(H, n, p, k)
  BY <1>1, TailAssumption DEF Hears
<1>3. Rising(k.shown) /\ n \in Nat
  BY DEF Rising, Numbered
<1>4. Shows(H, n, p, k)
  BY <1>1, <1>3 DEF Shows
<1> QED
  BY <1>2, <1>4 DEF Fits, Counts

\* An append that fails uses up a number only.
LEMMA FitsCount ==
  ASSUME NEW H, NEW n \in Nat, NEW k, Fits(H, n, <<>>, k)
  PROVE  Fits(H, n + 1, <<>>, k)
<1>1. k.floor \in Nat
  BY TailIs DEF Fits
<1>2. Hears(H, n + 1, <<>>, k)
  BY DEF Fits, Hears
<1>3. Shows(H, n + 1, <<>>, k)
  BY <1>1 DEF Fits, Shows
<1> QED
  BY <1>2, <1>3 DEF Fits

\* A record that is written is still to be published to every tail.
LEMMA FitsAppend ==
  ASSUME NEW H, NEW n, Numbered(H, n), NEW r \in Record, r.seq = n + 1,
         \A x \in H : x.seq < r.seq, NEW k, Fits(H, n, <<>>, k),
         NEW p \in Seq(Event), Line(r) \in ToSet(p)
  PROVE  Fits(H \cup {r}, n + 1, p, k)
<1>1. /\ k.queue \in Seq(Event) /\ k.floor \in Nat /\ k.dropped \in Nat
      /\ n \in Nat /\ k.floor <= n /\ Ranked(H)
  BY TailIs DEF Fits, Shows, Numbered
<1>2. Hears(H \cup {r}, n + 1, p, k)
  BY DEF Fits, Hears
<1>3. Shows(H \cup {r}, n + 1, p, k)
  BY <1>1 DEF Fits, Shows
<1>4. ASSUME NEW x \in H
      PROVE  x \in OwedOf(H \cup {r}, k) <=> x \in OwedOf(H, k)
  <2>1. \A y : y \in PartOf(H \cup {r}, k.stream) /\ y.seq <= k.floor
                 <=> y \in PartOf(H, k.stream) /\ y.seq <= k.floor
    <3>1. ~(r.seq <= k.floor)
      BY <1>1
    <3> QED
      BY <3>1 DEF PartOf
  <2>2. {y \in PartOf(H \cup {r}, k.stream) : x.seq <= y.seq /\ y.seq <= k.floor}
          = {y \in PartOf(H, k.stream) : x.seq <= y.seq /\ y.seq <= k.floor}
    BY <2>1
  <2>3. x \in PartOf(H \cup {r}, k.stream) <=> x \in PartOf(H, k.stream)
    BY DEF PartOf
  <2> QED
    BY <2>2, <2>3 DEF OwedOf
<1>5. \A x \in OwedOf(H \cup {r}, k) : x \in H \/ x = r
  BY DEF OwedOf, PartOf
<1>6. Counts(H \cup {r}, p, k)
  <2> SUFFICES ASSUME k.step = "lines", k.open
               PROVE  /\ \A x \in OwedOf(H \cup {r}, k) :
                           x.seq <= k.floor => x \in ToSet(k.shown)
                      /\ Cardinality(MissedOf(H \cup {r}, p, k)) <= k.dropped
    BY DEF Counts
  <2>1. /\ \A x \in OwedOf(H, k) : x.seq <= k.floor => x \in ToSet(k.shown)
        /\ Cardinality(MissedOf(H, <<>>, k)) <= k.dropped
    BY DEF Fits, Counts
  <2>2. ~(r.seq <= k.floor)
    BY <1>1
  <2>3. /\ ToSet(k.queue \o p) = ToSet(k.queue) \cup ToSet(p)
        /\ ToSet(k.queue \o <<>>) = ToSet(k.queue) \cup ToSet(<<>>)
    <3>1. <<>> \in Seq(Event)
      BY EmptySeq
    <3>2. \A q \in Seq(Event) : ToSet(k.queue \o q) = ToSet(k.queue) \cup ToSet(q)
      BY <1>1, ToSetConcat
    <3> QED
      BY ONLY <3>1, <3>2, p \in Seq(Event)
  <2>4. MissedOf(H \cup {r}, p, k) \subseteq MissedOf(H, <<>>, k)
    BY <1>4, <1>5, <2>3, ToSetEmpty DEF MissedOf
  <2>5. Cardinality(MissedOf(H \cup {r}, p, k)) <= k.dropped
    BY <1>1, <2>1, <2>4, MissedIs
  <2> QED
    BY <1>4, <1>5, <2>1, <2>2, <2>5
<1> QED
  BY <1>2, <1>3, <1>6 DEF Fits

------------------------------------------------------------------------------
(* What is published. *)

\* The next event, and what is left after it.
LEMMA WaitsIs ==
  ASSUME NEW H, NEW n, Numbered(H, n), NEW p, Waits(H, n, p), p # <<>>
  PROVE  \E r \in H :
           /\ r.seq = n
           /\ p \in Seq(Event) /\ Tail(p) \in Seq(Event) /\ Head(p) \in Event
           /\ ToSet(p) = {Head(p)} \cup ToSet(Tail(p))
           /\ \/ Head(p) = Line(r) /\ IsLine(Head(p)) /\ Tail(p) = <<>>
              \/ ~IsLine(Head(p)) /\ Head(p).kind = "streams" /\ Tail(p) = <<Line(r)>>
<1>1. PICK r \in H :
        /\ r.seq = n
        /\ \/ p = <<Line(r)>>
           \/ \E l \in SUBSET Stream : p = <<[kind |-> "streams", streams |-> l], Line(r)>>
  BY DEF Waits
<1>2. r \in Record
  BY DEF Numbered, Ranked
<1>3. Line(r) \in Event /\ IsLine(Line(r))
  BY <1>2 DEF Event, Line, IsLine
<1>4. CASE p = <<Line(r)>>
  <2>1. p \in Seq(Event) /\ Head(p) = Line(r) /\ Tail(p) = <<>>
    BY <1>3, <1>4
  <2>2. ToSet(p) = {Line(r)}
    BY <1>4 DEF ToSet
  <2>3. <<>> \in Seq(Event)
    BY EmptySeq
  <2>4. ToSet(p) = {Head(p)} \cup ToSet(Tail(p))
    BY <2>1, <2>2, ToSetEmpty
  <2>5. Tail(p) \in Seq(Event) /\ Head(p) \in Event /\ IsLine(Head(p))
    BY <1>3, <2>1, <2>3
  <2> QED
    BY <1>1, <2>1, <2>4, <2>5
<1>5. CASE \E l \in SUBSET Stream : p = <<[kind |-> "streams", streams |-> l], Line(r)>>
  <2>1. PICK l \in SUBSET Stream : p = <<[kind |-> "streams", streams |-> l], Line(r)>>
    BY <1>5
  <2> DEFINE e == [kind |-> "streams", streams |-> l]
  <2>2. e \in Event /\ ~IsLine(e) /\ e.kind = "streams"
    BY DEF Event, IsLine
  <2> HIDE DEF e
  <2>3. p = <<e, Line(r)>>
    BY <2>1 DEF e
  <2>4. p \in Seq(Event) /\ Head(p) = e /\ Tail(p) = <<Line(r)>>
    BY <1>3, <2>2, <2>3
  <2>5. Tail(p) \in Seq(Event)
    BY <1>3, <2>4
  <2>6. ToSet(p) = {e, Line(r)} /\ ToSet(Tail(p)) = {Line(r)}
    BY <2>3, <2>4 DEF ToSet
  <2>7. ToSet(p) = {Head(p)} \cup ToSet(Tail(p))
    BY <2>4, <2>6
  <2> QED
    BY <1>1, <2>2, <2>4, <2>5, <2>7
<1> QED
  BY <1>1, <1>4, <1>5

\* An event is published, and the rest waits.
LEMMA WaitsLess ==
  ASSUME NEW H, NEW n, Numbered(H, n), NEW p, Waits(H, n, p), p # <<>>
  PROVE  Waits(H, n, Tail(p))
<1>1. PICK r \in H : r.seq = n /\ (Tail(p) = <<>> \/ Tail(p) = <<Line(r)>>)
  BY WaitsIs
<1> QED
  BY <1>1 DEF Waits

\* An event that is not for this tail, or for which it has no room.
LEMMA FitsSkipped ==
  ASSUME NEW H, NEW n, Numbered(H, n), NEW p, Waits(H, n, p), p # <<>>,
         NEW k, Fits(H, n, p, k), NEW m \in Tailing,
         m.queue = k.queue, m.shown = k.shown, m.floor = k.floor,
         m.stream = k.stream, m.step = k.step, m.open = k.open,
         \/ m.dropped = k.dropped /\ ~(k.open /\ Selects(k.stream, Head(p)))
         \/ m.dropped = k.dropped + 1
  PROVE  Fits(H, n, Tail(p), m)
<1> DEFINE e == Head(p)
           t == Tail(p)
<1>1. PICK r \in H :
        /\ r.seq = n
        /\ p \in Seq(Event) /\ t \in Seq(Event) /\ e \in Event
        /\ ToSet(p) = {e} \cup ToSet(t)
        /\ \/ e = Line(r) /\ IsLine(e) /\ t = <<>>
           \/ ~IsLine(e) /\ e.kind = "streams" /\ t = <<Line(r)>>
  BY WaitsIs
<1> HIDE DEF e, t
<1>2. /\ k.queue \in Seq(Event) /\ k.dropped \in Nat /\ k.stream \in Stream \cup {All}
      /\ n \in Nat /\ Ranked(H)
  BY TailIs DEF Fits, Numbered
<1>3. Hears(H, n, t, m)
  BY DEF Fits, Hears
<1>4. Shows(H, n, t, m)
  BY DEF Fits, Shows
<1>5. OwedOf(H, m) = OwedOf(H, k)
  BY DEF OwedOf
<1>6. Counts(H, t, m)
  <2> SUFFICES ASSUME k.step = "lines", k.open
               PROVE  /\ \A x \in OwedOf(H, m) : x.seq <= m.floor => x \in ToSet(m.shown)
                      /\ Cardinality(MissedOf(H, t, m)) <= m.dropped
    BY DEF Counts
  <2>1. /\ \A x \in OwedOf(H, k) : x.seq <= k.floor => x \in ToSet(k.shown)
        /\ Cardinality(MissedOf(H, p, k)) <= k.dropped
    BY DEF Fits, Counts
  <2>2. /\ ToSet(k.queue \o p) = ToSet(k.queue) \cup ToSet(p)
        /\ ToSet(k.queue \o t) = ToSet(k.queue) \cup ToSet(t)
    BY <1>1, <1>2, ToSetConcat
  <2>3. \A x \in MissedOf(H, t, m) : x \in MissedOf(H, p, k) \/ Line(x) = e
    BY <1>1, <1>5, <2>2 DEF MissedOf
  <2>4. \A x : Line(x) = e => x = r /\ IsLine(e)
    BY <1>1 DEF Line, IsLine
  <2>5. CASE m.dropped = k.dropped /\ ~Selects(k.stream, e)
    <3>1. \A x \in OwedOf(H, k) : Line(x) # e
      <4>1. ASSUME NEW x \in OwedOf(H, k), Line(x) = e PROVE FALSE
        <5>1. x = r /\ e = Line(r) /\ e.record = r
          BY <1>1, <2>4, <4>1 DEF Line
        <5>2. k.stream = All \/ k.stream = r.stream
          BY <4>1, <5>1 DEF OwedOf, PartOf
        <5> QED
          BY <2>5, <5>1, <5>2 DEF Selects
      <4> QED
        BY <4>1
    <3>2. MissedOf(H, t, m) \subseteq MissedOf(H, p, k)
      BY <1>5, <2>3, <3>1 DEF MissedOf
    <3>3. Cardinality(MissedOf(H, t, m)) <= k.dropped
      BY <1>2, <2>1, <3>2, MissedIs
    <3> QED
      BY <1>5, <2>1, <2>5, <3>3
  <2>6. CASE m.dropped = k.dropped + 1
    <3>1. MissedOf(H, t, m) \subseteq MissedOf(H, p, k) \cup {r}
      BY <2>3, <2>4
    <3>2. Cardinality(MissedOf(H, t, m)) <= k.dropped + 1
      BY <1>2, <2>1, <3>1, MissedIs
    <3> QED
      BY <1>5, <2>1, <2>6, <3>2
  <2> QED
    BY <2>5, <2>6 DEF e
<1> QED
  BY <1>3, <1>4, <1>6 DEF Fits, t

\* An event that is queued.
LEMMA FitsQueued ==
  ASSUME NEW H, NEW n, Numbered(H, n), NEW p, Waits(H, n, p), p # <<>>,
         NEW k, Fits(H, n, p, k), Len(k.queue) < QueueSize, NEW m \in Tailing,
         m.queue = Append(k.queue, Head(p)), m.shown = k.shown, m.floor = k.floor,
         m.stream = k.stream, m.step = k.step, m.open = k.open, m.dropped = k.dropped
  PROVE  Fits(H, n, Tail(p), m)
<1> DEFINE e == Head(p)
           t == Tail(p)
<1>1. PICK r \in H :
        /\ r.seq = n
        /\ p \in Seq(Event) /\ t \in Seq(Event) /\ e \in Event
        /\ ToSet(p) = {e} \cup ToSet(t)
        /\ \/ e = Line(r) /\ IsLine(e) /\ t = <<>>
           \/ ~IsLine(e) /\ e.kind = "streams" /\ t = <<Line(r)>>
  BY WaitsIs
<1>2. m.queue = Append(k.queue, e)
  OBVIOUS
<1> HIDE DEF e, t
<1>3. /\ k.queue \in Seq(Event) /\ k.dropped \in Nat /\ Len(k.queue) \in Nat
      /\ n \in Nat /\ Ranked(H) /\ QueueSize \in Nat
  BY TailIs, TailAssumption DEF Fits, Numbered
<1> DEFINE q == k.queue
           l == Len(q)
           u == m.queue
<1>4. /\ Len(u) = l + 1 /\ u[l + 1] = e /\ u \in Seq(Event)
      /\ \A i \in 1 .. l : u[i] = q[i]
      /\ \A i \in 1 .. Len(u) : i \in 1 .. l \/ i = l + 1
  <2>1. u = Append(q, e) /\ q \in Seq(Event) /\ e \in Event /\ Len(q) \in Nat
    BY <1>1, <1>2, <1>3
  <2> HIDE DEF q, u
  <2>2. /\ Len(u) = Len(q) + 1 /\ u[Len(q) + 1] = e /\ u \in Seq(Event)
        /\ \A i \in 1 .. Len(q) : u[i] = q[i]
    BY <2>1
  <2>3. \A i \in 1 .. Len(u) : i \in 1 .. Len(q) \/ i = Len(q) + 1
    BY <2>1, <2>2
  <2> QED
    BY <2>2, <2>3
<1>5. ToSet(u) = ToSet(q) \cup {e}
  BY <1>1, <1>2, <1>3, ToSetAppend
<1>6. IsLine(e) => t = <<>> /\ e.record = r
  BY <1>1 DEF Line, IsLine
<1>7. /\ \A i \in 1 .. l : IsLine(q[i]) =>
           /\ q[i].record \in H /\ q[i].record.seq < n
           /\ \A j \in 1 .. l : IsLine(q[j]) /\ i < j => q[i].record.seq < q[j].record.seq
  BY DEF Fits, Hears
<1>8. /\ k.floor <= n /\ Rising(k.shown)
      /\ \A x \in ToSet(k.shown) :
           /\ x \in H
           /\ k.floor < n => x.seq < n
           /\ \A i \in 1 .. l : IsLine(q[i]) /\ k.floor < q[i].record.seq =>
                                  x.seq < q[i].record.seq
  BY DEF Fits, Shows
<1> HIDE DEF q, l, u
<1>9. Hears(H, n, t, m)
  <2>1. Len(u) <= QueueSize
    BY <1>3, <1>4 DEF l, q
  <2>2. ASSUME NEW i \in 1 .. Len(u), IsLine(u[i])
        PROVE  /\ u[i].record \in H
               /\ t # <<>> => u[i].record.seq < n
               /\ \A j \in 1 .. Len(u) :
                    IsLine(u[j]) /\ i < j => u[i].record.seq < u[j].record.seq
    <3>1. CASE i = l + 1
      <4>1. u[i].record \in H /\ t = <<>>
        BY <1>1, <1>4, <1>6, <2>2, <3>1
      <4>2. \A j \in 1 .. Len(u) : ~(i < j)
        BY <1>3, <1>4, <3>1 DEF l, q
      <4> QED
        BY <4>1, <4>2
    <3>2. CASE i \in 1 .. l
      <4>1. u[i] = q[i] /\ q[i].record \in H /\ q[i].record.seq < n
        BY <1>4, <1>7, <2>2, <3>2
      <4>2. ASSUME NEW j \in 1 .. Len(u), IsLine(u[j]), i < j
            PROVE  u[i].record.seq < u[j].record.seq
        <5>1. CASE j \in 1 .. l
          BY <1>4, <1>7, <2>2, <3>2, <4>2, <5>1
        <5>2. CASE j = l + 1
          <6>1. u[j].record.seq = n
            BY <1>1, <1>4, <1>6, <4>2, <5>2
          <6> QED
            BY <4>1, <6>1
        <5> QED
          BY <1>4, <5>1, <5>2
      <4> QED
        BY <4>1, <4>2
    <3> QED
      BY <1>4, <3>1, <3>2
  <2> QED
    BY <2>1, <2>2 DEF Hears, u
<1>10. Shows(H, n, t, m)
  <2>1. ASSUME NEW x \in ToSet(k.shown)
        PROVE  /\ x \in H
               /\ t # <<>> /\ k.floor < n => x.seq < n
               /\ \A i \in 1 .. Len(u) :
                    IsLine(u[i]) /\ k.floor < u[i].record.seq => x.seq < u[i].record.seq
    <3>1. x \in H /\ (k.floor < n => x.seq < n)
      BY <1>8
    <3>2. ASSUME NEW i \in 1 .. Len(u), IsLine(u[i]), k.floor < u[i].record.seq
          PROVE  x.seq < u[i].record.seq
      <4>1. CASE i \in 1 .. l
        BY <1>4, <1>8, <3>2, <4>1
      <4>2. CASE i = l + 1
        <5>1. u[i].record.seq = n
          BY <1>1, <1>4, <1>6, <3>2, <4>2
        <5> QED
          BY <3>1, <3>2, <5>1
      <4> QED
        BY <1>4, <4>1, <4>2
    <3> QED
      BY <3>1, <3>2
  <2> QED
    BY <1>8, <2>1 DEF Shows, u
<1>11. Counts(H, t, m)
  <2> SUFFICES ASSUME k.step = "lines", k.open
               PROVE  /\ \A x \in OwedOf(H, m) : x.seq <= m.floor => x \in ToSet(m.shown)
                      /\ Cardinality(MissedOf(H, t, m)) <= m.dropped
    BY DEF Counts
  <2>1. /\ \A x \in OwedOf(H, k) : x.seq <= k.floor => x \in ToSet(k.shown)
        /\ Cardinality(MissedOf(H, p, k)) <= k.dropped
    BY DEF Fits, Counts
  <2>2. /\ ToSet(k.queue \o p) = ToSet(k.queue) \cup ToSet(p)
        /\ ToSet(m.queue \o t) = ToSet(m.queue) \cup ToSet(t)
    <3>1. m.queue \in Seq(Event)
      BY <1>4 DEF u
    <3>2. ToSet(k.queue \o p) = ToSet(k.queue) \cup ToSet(p)
      BY <1>1, <1>3, ToSetConcat
    <3>3. ToSet(m.queue \o t) = ToSet(m.queue) \cup ToSet(t)
      BY ONLY <1>1, <3>1, ToSetConcat
    <3> QED
      BY <3>2, <3>3
  <2>3. ToSet(m.queue \o t) = ToSet(k.queue \o p)
    BY <1>1, <1>5, <2>2 DEF u, q
  <2>4. OwedOf(H, m) = OwedOf(H, k)
    BY DEF OwedOf
  <2>5. MissedOf(H, t, m) = MissedOf(H, p, k)
    BY <2>3, <2>4 DEF MissedOf
  <2> QED
    BY <2>1, <2>4, <2>5
<1> QED
  BY <1>9, <1>10, <1>11 DEF Fits, t

------------------------------------------------------------------------------
(* What is shown. *)

\* A line is shown if it comes after the backlog; if not, the backlog had it.
LEMMA FitsReceived ==
  ASSUME NEW H, NEW n, Numbered(H, n), NEW p, Waits(H, n, p),
         NEW k, Fits(H, n, p, k), k.step = "lines", k.queue # <<>>
  PROVE  Fits(H, n, p, Received(k))
<1> DEFINE e == Head(k.queue)
           m == Received(k)
           q == k.queue
           l == Len(q)
           u == Tail(q)
           new == IsLine(e) /\ IsNew(k, e.record)
<1>1. /\ q \in Seq(Event) /\ l \in Nat /\ l # 0 /\ e = q[1] /\ 1 \in 1 .. l
      /\ k.dropped \in Nat /\ k.floor \in Nat /\ k.shown \in Seq(Record)
      /\ n \in Nat /\ Ranked(H) /\ k \in Tailing /\ k.open \in BOOLEAN
  BY TailIs DEF Fits, Numbered
<1>2. /\ u \in Seq(Event) /\ Len(u) = l - 1
      /\ \A i \in 1 .. l - 1 : u[i] = q[i + 1] /\ i + 1 \in 1 .. l /\ 1 < i + 1
  BY <1>1
<1>3. ToSet(q) = {e} \cup ToSet(u)
  BY <1>1, ToSetTail
<1>4. e \in Event /\ (IsLine(e) => e.record \in Record /\ e = Line(e.record))
  BY <1>1, TailIs
<1>5. /\ \A i \in 1 .. l : IsLine(q[i]) =>
           /\ q[i].record \in H /\ q[i].record.seq \in Nat
           /\ p # <<>> => q[i].record.seq < n
           /\ \A j \in 1 .. l : IsLine(q[j]) /\ i < j => q[i].record.seq < q[j].record.seq
      /\ l <= QueueSize
  BY <1>1, TailIs DEF Fits, Hears
<1>6. /\ k.floor <= n /\ Rising(k.shown)
      /\ \A x \in ToSet(k.shown) :
           /\ x \in H
           /\ p # <<>> /\ k.floor < n => x.seq < n
           /\ \A i \in 1 .. l : IsLine(q[i]) /\ k.floor < q[i].record.seq =>
                                  x.seq < q[i].record.seq
  BY DEF Fits, Shows
<1>7. /\ m \in Tailing /\ m.queue = u /\ m.floor = k.floor /\ m.stream = k.stream
      /\ m.step = k.step /\ m.open = k.open /\ m.dropped = k.dropped
      /\ m.shown = IF new THEN Append(k.shown, e.record) ELSE k.shown
  <2>1. CASE e.kind = "streams"
    <3>1. m = [[k EXCEPT !.queue = u] EXCEPT !.list = e.streams]
      BY <2>1 DEF Received
    <3>2. ~IsLine(e) /\ e.streams \in SUBSET Stream
      BY <1>4, <2>1 DEF Event, IsLine
    <3> HIDE DEF e, u, m
    <3> QED
      BY <1>1, <1>2, <3>1, <3>2 DEF Tailing
  <2>2. CASE new
    <3>1. m = [[k EXCEPT !.queue = u] EXCEPT !.shown = Append(k.shown, e.record)]
      <4>1. IsNew([k EXCEPT !.queue = u], e.record) <=> IsNew(k, e.record)
        BY <1>1 DEF IsNew, Tailing
      <4>2. e.kind # "streams"
        BY <2>2 DEF IsLine
      <4>3. [k EXCEPT !.queue = u].shown = k.shown
        BY <1>1 DEF Tailing
      <4> QED
        BY <1>1, <2>2, <4>1, <4>2, <4>3 DEF Received, Tailing
    <3>2. Append(k.shown, e.record) \in Seq(Record)
      BY <1>1, <1>4, <2>2
    <3> HIDE DEF e, u, m
    <3> QED
      BY <1>1, <1>2, <2>2, <3>1, <3>2 DEF Tailing
  <2>3. CASE IsLine(e) /\ ~new
    <3>1. m = [k EXCEPT !.queue = u]
      <4>1. e.kind # "streams" /\ ~IsNew(k, e.record)
        BY <2>3 DEF IsLine
      <4> QED
        BY <4>1 DEF Received
    <3> HIDE DEF e, u, m
    <3> QED
      BY <1>1, <1>2, <2>3, <3>1 DEF Tailing
  <2>4. e.kind = "streams" \/ IsLine(e)
    BY <1>4 DEF Event, IsLine
  <2> QED
    BY <2>1, <2>2, <2>3, <2>4
<1>8. new => e.record.seq > k.floor
  BY DEF IsNew
<1>9. \A r : IsLine(e) /\ r.seq > k.floor /\ r.wanted /\ r = e.record => new
  BY DEF IsNew
<1> HIDE DEF new, m, e, q, l, u
<1>10. Hears(H, n, p, m)
  <2>1. ASSUME NEW i \in 1 .. Len(u), IsLine(u[i])
        PROVE  /\ u[i].record \in H
               /\ p # <<>> => u[i].record.seq < n
               /\ \A j \in 1 .. Len(u) :
                    IsLine(u[j]) /\ i < j => u[i].record.seq < u[j].record.seq
    <3>1. i + 1 \in 1 .. l /\ u[i] = q[i + 1]
      BY <1>2
    <3>2. ASSUME NEW j \in 1 .. Len(u), IsLine(u[j]), i < j
          PROVE  u[i].record.seq < u[j].record.seq
      <4>1. j + 1 \in 1 .. l /\ u[j] = q[j + 1] /\ i + 1 < j + 1
        BY <1>1, <1>2, <3>2
      <4> QED
        BY <1>5, <2>1, <3>1, <3>2, <4>1
    <3> QED
      BY <1>5, <2>1, <3>1, <3>2
  <2>2. Len(u) <= QueueSize
    BY <1>1, <1>2, <1>5, TailAssumption
  <2> QED
    BY <1>7, <2>1, <2>2 DEF Hears
<1>11. \A x \in ToSet(k.shown) : x \in ToSet(m.shown)
  <2>1. new => e.record \in Record
    BY <1>4 DEF new
  <2> QED
    BY <1>1, <1>7, <2>1, ToSetAppend
<1>12. ASSUME new PROVE Shows(H, n, p, m) /\ e.record \in ToSet(m.shown)
  <2> DEFINE r == e.record
             s == m.shown
             o == k.shown
  <2>1. /\ IsLine(e) /\ r \in Record /\ r \in H /\ r.seq \in Nat /\ k.floor < r.seq
        /\ s = Append(o, r)
    BY <1>1, <1>4, <1>5, <1>7, <1>8, <1>12 DEF new
  <2>2. \A x \in ToSet(o) : x \in H /\ x.seq < r.seq
    BY <1>1, <1>6, <2>1
  <2>3. /\ Len(s) = Len(o) + 1 /\ s[Len(o) + 1] = r /\ Len(o) \in Nat
        /\ \A i \in 1 .. Len(o) : s[i] = o[i] /\ o[i] \in ToSet(o)
        /\ \A i \in 1 .. Len(s) : i \in 1 .. Len(o) \/ i = Len(o) + 1
    <3>1. o \in Seq(Record)
      BY <1>1
    <3>2. Len(o) \in Nat /\ \A i \in 1 .. Len(o) : o[i] \in ToSet(o)
      BY <3>1, RecordsAre
    <3> HIDE DEF o, r, s
    <3> QED
      BY <2>1, <3>1, <3>2
  <2>4. ToSet(s) = ToSet(o) \cup {r}
    BY <1>1, <2>1, ToSetAppend
  <2>5. Rising(o)
    BY <1>6
  <2>6. \A i \in 1 .. l : IsLine(q[i]) /\ 1 < i => r.seq < q[i].record.seq
    BY <1>1, <1>5, <2>1
  <2>7. p # <<>> => r.seq < n
    BY <1>1, <1>5, <2>1
  <2> HIDE DEF r, s, o
  <2>8. Rising(s)
    <3> SUFFICES ASSUME NEW i \in 1 .. Len(s), NEW j \in 1 .. Len(s), i < j
                 PROVE  s[i].seq < s[j].seq
      BY DEF Rising
    <3>1. i \in 1 .. Len(o)
      BY <2>3
    <3>2. CASE j = Len(o) + 1
      BY <2>2, <2>3, <3>1, <3>2
    <3>3. CASE j \in 1 .. Len(o)
      BY <2>3, <2>5, <3>1, <3>3 DEF Rising
    <3> QED
      BY <2>3, <3>2, <3>3
  <2>9. ASSUME NEW x \in ToSet(s)
        PROVE  /\ x \in H
               /\ p # <<>> /\ k.floor < n => x.seq < n
               /\ \A i \in 1 .. Len(u) :
                    IsLine(u[i]) /\ k.floor < u[i].record.seq => x.seq < u[i].record.seq
    <3>1. CASE x \in ToSet(o)
      BY <1>2, <1>6, <3>1 DEF o
    <3>2. CASE x = r
      BY <1>2, <2>1, <2>6, <2>7, <3>2
    <3> QED
      BY <2>4, <3>1, <3>2
  <2>10. Shows(H, n, p, m)
    BY <1>6, <1>7, <2>8, <2>9 DEF Shows, s
  <2>11. e.record \in ToSet(m.shown)
    BY <2>4 DEF s, r
  <2> QED
    BY <2>10, <2>11
<1>13. ASSUME ~new PROVE Shows(H, n, p, m)
  BY <1>2, <1>6, <1>7, <1>13 DEF Shows
<1>14. Shows(H, n, p, m) /\ (new => e.record \in ToSet(m.shown))
  BY <1>12, <1>13
<1>15. Counts(H, p, m)
  <2> SUFFICES ASSUME k.step = "lines", k.open
               PROVE  /\ \A x \in OwedOf(H, m) : x.seq <= m.floor => x \in ToSet(m.shown)
                      /\ Cardinality(MissedOf(H, p, m)) <= m.dropped
    BY <1>7 DEF Counts
  <2>1. /\ \A x \in OwedOf(H, k) : x.seq <= k.floor => x \in ToSet(k.shown)
        /\ Cardinality(MissedOf(H, p, k)) <= k.dropped
    BY DEF Fits, Counts
  <2>2. OwedOf(H, m) = OwedOf(H, k)
    BY <1>7 DEF OwedOf
  <2>3. p \in Seq(Event)
    <3>1. CASE p = <<>>
      BY <3>1, EmptySeq
    <3>2. CASE p # <<>>
      BY <3>2, WaitsIs
    <3> QED
      BY <3>1, <3>2
  <2>4. ToSet(k.queue \o p) = {e} \cup ToSet(m.queue \o p)
    <3>1. ToSet(q \o p) = ToSet(q) \cup ToSet(p)
      BY ONLY <1>1, <2>3, ToSetConcat
    <3>2. ToSet(u \o p) = ToSet(u) \cup ToSet(p)
      BY ONLY <1>2, <2>3, ToSetConcat
    <3> QED
      BY <1>3, <1>7, <3>1, <3>2 DEF q
  <2>5. \A x \in MissedOf(H, p, m) : x \in MissedOf(H, p, k) \/ Line(x) = e
    BY <1>11, <2>2, <2>4 DEF MissedOf
  <2>6. ASSUME NEW x \in MissedOf(H, p, m), Line(x) = e PROVE FALSE
    <3>1. x \in OwedOf(H, k) /\ x \notin ToSet(m.shown)
      BY <2>2 DEF MissedOf
    <3>2. IsLine(e) /\ e.record = x
      BY <2>6 DEF Line, IsLine
    <3>3. x.wanted /\ x.seq \in Nat
      BY <3>1 DEF OwedOf, PartOf, Numbered, Ranked, Record
    <3>4. ~new
      BY <1>14, <3>1, <3>2
    <3>5. x.seq <= k.floor
      BY <1>1, <1>9, <3>2, <3>3, <3>4
    <3> QED
      BY <1>11, <2>1, <3>1, <3>5
  <2>7. MissedOf(H, p, m) \subseteq MissedOf(H, p, k)
    BY <2>5, <2>6
  <2>8. Cardinality(MissedOf(H, p, m)) <= k.dropped
    BY <1>1, <2>1, <2>7, MissedIs
  <2> QED
    BY <1>7, <1>11, <2>1, <2>2, <2>8
<1> QED
  BY <1>7, <1>10, <1>14, <1>15 DEF Fits, m

\* The backlog is sent: every record owed of it is in it.
LEMMA FitsBacklog ==
  ASSUME NEW H, NEW n, Numbered(H, n), NEW p, NEW k, Fits(H, n, p, k),
         NEW b, b = InOrder(Top(PartOf(H, k.stream))), NEW m,
         m = [k EXCEPT !.step = "lines", !.floor = HighestSeq(ToSet(b)),
                       !.shown = Wanted(b)]
  PROVE  Fits(H, n, p, m)
<1> DEFINE P == PartOf(H, k.stream)
           T == Top(P)
           top == HighestSeq(ToSet(b))
           w == Wanted(b)
<1>1. /\ k \in Tailing /\ k.dropped \in Nat /\ k.queue \in Seq(Event)
      /\ n \in Nat /\ Ranked(H) /\ \A x \in H : x.seq <= n /\ x.seq \in Nat
  BY TailIs DEF Fits, Numbered, Ranked, Record
<1>2. P \in SUBSET H /\ Ranked(P)
  BY <1>1, PartIs
<1>3. T \in SUBSET P /\ Ranked(T)
  BY <1>2, NewestIs DEF Top
<1> HIDE DEF P, T
<1>4. b \in Seq(Record) /\ Rising(b) /\ ToSet(b) = T
  BY <1>3, InOrderIs DEF T, P
<1>5. w \in Seq(Record) /\ Rising(w) /\ ToSet(w) = {r \in T : r.wanted}
  BY <1>4, WantedIs
<1>6. /\ top \in Nat /\ \A r \in T : r.seq <= top
      /\ T # {} => \E r \in T : r.seq = top
  BY <1>3, <1>4, HighestSeqIs
<1>7. T = {} => top = 0
  BY <1>4 DEF HighestSeq
<1>8. top <= n
  BY <1>1, <1>2, <1>3, <1>6, <1>7
<1>9. \A x \in P : x.seq <= top
  <2>1. ASSUME NEW y \in P, y \notin T PROVE y.seq <= top
    <3>1. Cardinality(T) = RingSize /\ \A x \in T : y.seq < x.seq
      BY <1>2, <2>1, LeftOut DEF T
    <3>2. T # {}
      BY <3>1, FS_EmptySet, TailAssumption
    <3>3. PICK x \in T : x.seq = top
      BY <1>6, <3>2
    <3>4. y.seq \in Nat /\ y.seq < top
      BY <1>1, <1>2, <3>1, <3>3
    <3> QED
      BY <1>6, <3>4
  <2> QED
    BY <1>6, <2>1
<1> HIDE DEF top, w
<1>10. /\ m \in Tailing /\ m.queue = k.queue /\ m.stream = k.stream
       /\ m.dropped = k.dropped /\ m.open = k.open
       /\ m.floor = top /\ m.shown = w
  <2>1. m = [k EXCEPT !.step = "lines", !.floor = top, !.shown = w]
    BY DEF top, w
  <2> QED
    BY <1>1, <1>5, <1>6, <2>1 DEF Tailing
<1>11. Hears(H, n, p, m)
  BY <1>10 DEF Fits, Hears
<1>12. Shows(H, n, p, m)
  <2>1. ASSUME NEW x \in ToSet(w)
        PROVE  /\ x \in H
               /\ p # <<>> /\ top < n => x.seq < n
               /\ \A i \in 1 .. Len(m.queue) :
                    IsLine(m.queue[i]) /\ top < m.queue[i].record.seq =>
                      x.seq < m.queue[i].record.seq
    <3>1. x \in H /\ x.seq <= top /\ x.seq \in Nat
      BY <1>1, <1>2, <1>3, <1>5, <1>6
    <3>2. \A i \in 1 .. Len(k.queue) :
            IsLine(k.queue[i]) => k.queue[i].record.seq \in Nat
      BY <1>1, TailIs
    <3> QED
      BY <1>1, <1>6, <1>10, <3>1, <3>2
  <2> QED
    BY <1>5, <1>8, <1>10, <2>1 DEF Shows
<1>13. ASSUME NEW r \in OwedOf(H, m) PROVE r \in ToSet(w)
  <2>1. /\ r \in P /\ r.wanted
        /\ RingSize >= Cardinality({x \in P : r.seq <= x.seq /\ x.seq <= top})
    BY <1>10 DEF OwedOf, P
  <2>2. {x \in P : r.seq <= x.seq /\ x.seq <= top} = From(P, r)
    BY <1>9 DEF From
  <2>3. RingSize \in Nat /\ Cardinality(From(P, r)) \in Nat
    BY <1>2, FromFits, TailAssumption
  <2>4. r \in T
    BY <2>1, <2>2, <2>3 DEF T, Top
  <2> QED
    BY <1>5, <2>1, <2>4
<1>14. Counts(H, p, m)
  <2>1. MissedOf(H, p, m) = {}
    BY <1>10, <1>13 DEF MissedOf
  <2>2. Cardinality(MissedOf(H, p, m)) = 0
    BY <2>1, FS_EmptySet
  <2> QED
    BY <1>1, <1>10, <1>13, <2>2 DEF Counts
<1> QED
  BY <1>10, <1>11, <1>12, <1>14 DEF Fits

------------------------------------------------------------------------------
(* The steps. *)

\* At boot.
LEMMA InitIInv == Init => IInv
<1> SUFFICES ASSUME Init PROVE IInv
  OBVIOUS
<1>1. PICK n \in 0 .. OldRecords :
        /\ seq = n
        /\ \E s \in [1 .. n -> Stream], w \in [1 .. n -> BOOLEAN] :
             history = {[seq |-> i, stream |-> s[i], wanted |-> w[i]] : i \in 1 .. n}
  BY DEF Init
<1>2. n \in Nat
  BY TailAssumption
<1>3. Numbered(history, seq)
  BY <1>1, <1>2, FirstRecords
<1>4. Keeps(history, rings)
  <2>1. PICK files \in Files(history) :
          rings = [s \in {r.stream : r \in history} |->
                     Newest({f \in files : \A r \in f : r.stream = s})]
    BY DEF Init
  <2>2. Ranked(history)
    BY <1>3 DEF Numbered
  <2> QED
    BY <2>1, <2>2, FirstRings
<1>5. Waits(history, seq, pending)
  BY DEF Init, Waits
<1>6. conn = [c \in Conn |-> Gone] /\ opens \in Nat /\ closed \in BOOLEAN
  BY DEF Init
<1>7. Gone \in Tailing
  <2>1. <<>> \in Seq(Event) /\ <<>> \in Seq(Record)
    BY EmptySeq
  <2> QED
    BY <2>1 DEF Gone, Tailing
<1>8. Fits(history, seq, pending, Gone)
  BY <1>3, <1>7, FitsNew DEF Gone
<1> QED
  BY <1>3, <1>4, <1>5, <1>6, <1>8 DEF IInv

\* An append (Append).
LEMMA AppendIInv ==
  ASSUME IInv, NEW s \in Stream, NEW w \in BOOLEAN, NEW ok \in BOOLEAN,
         AppendRecord(s, w, ok)
  PROVE  IInv'
<1>1. /\ pending = <<>> /\ seq' = seq + 1
      /\ UNCHANGED <<closed, conn, opens>>
  BY DEF AppendRecord
<1> DEFINE r == [seq |-> seq + 1, stream |-> s, wanted |-> w]
<1>2. /\ Numbered(history, seq) /\ Keeps(history, rings) /\ seq \in Nat
      /\ \A c \in Conn : Fits(history, seq, <<>>, conn[c])
  BY <1>1 DEF IInv, Numbered
<1>3. r \in Record /\ r.seq = seq + 1 /\ r.stream = s
  <2>1. seq + 1 \in Nat \ {0}
    BY <1>2
  <2> QED
    BY <2>1 DEF Record
<1>4. r = [seq |-> seq + 1, stream |-> s, wanted |-> w]
  OBVIOUS
<1> HIDE DEF r
<1>5. /\ Numbered(history \cup {r}, seq + 1) /\ Numbered(history, seq + 1)
      /\ \A x \in history : x.seq < r.seq
  BY <1>2, <1>3, NextRecord
<1>6. CASE ok
  <2>1. /\ rings' = With(rings, s, Push(RingOf(rings, s), r))
        /\ history' = history \cup {r}
        /\ pending' = IF s \in DOMAIN rings THEN <<Line(r)>>
                      ELSE <<List(DOMAIN rings, s), Line(r)>>
    BY <1>4, <1>6 DEF AppendRecord, RingOf
  <2>2. Keeps(history', rings')
    BY <1>2, <1>3, <2>1, RingsKeep
  <2>3. /\ Waits(history', seq', pending')
        /\ pending' \in Seq(Event) /\ Line(r) \in ToSet(pending')
    <3>1. Line(r) \in Event
      BY <1>3 DEF Line, Event
    <3>2. CASE pending' = <<Line(r)>>
      <4>1. Waits(history', seq', pending')
        BY <1>1, <1>3, <2>1, <3>2 DEF Waits
      <4> QED
        BY <3>1, <3>2, <4>1 DEF ToSet
    <3>3. CASE pending' = <<List(DOMAIN rings, s), Line(r)>>
      <4> DEFINE l == DOMAIN rings \cup {s}
                 e == [kind |-> "streams", streams |-> l]
      <4>1. l \in SUBSET Stream
        BY <1>2 DEF Keeps, Numbered, Ranked, Record
      <4>2. e \in Event
        BY <4>1 DEF Event
      <4>3. pending' = <<e, Line(r)>>
        BY <3>3 DEF List
      <4> HIDE DEF l
      <4>4. Waits(history', seq', pending')
        BY <1>1, <1>3, <2>1, <4>1, <4>3 DEF Waits
      <4> HIDE DEF e
      <4>5. pending' \in Seq(Event)
        BY <3>1, <4>2, <4>3
      <4>6. Line(r) \in ToSet(pending')
        BY <4>3 DEF ToSet
      <4> QED
        BY <4>4, <4>5, <4>6
    <3> QED
      BY <2>1, <3>2, <3>3
  <2>4. ASSUME NEW c \in Conn PROVE Fits(history', seq', pending', conn'[c])
    <3>1. Fits(history \cup {r}, seq + 1, pending', conn[c])
      BY <1>2, <1>3, <1>5, <2>3, FitsAppend
    <3> QED
      BY <1>1, <2>1, <3>1
  <2> QED
    BY <1>1, <1>5, <2>1, <2>2, <2>3, <2>4 DEF IInv
<1>7. CASE ~ok
  <2>1. UNCHANGED <<rings, history, pending>>
    BY <1>7 DEF AppendRecord
  <2>2. ASSUME NEW c \in Conn PROVE Fits(history', seq', pending', conn'[c])
    <3>1. Fits(history, seq + 1, <<>>, conn[c])
      BY <1>2, FitsCount
    <3> QED
      BY <1>1, <2>1, <3>1
  <2>3. Waits(history', seq', pending')
    BY <1>1, <2>1 DEF Waits
  <2> QED
    BY <1>1, <1>2, <1>5, <2>1, <2>2, <2>3 DEF IInv
<1> QED
  BY <1>6, <1>7

\* A publish, to every tail at once (publish, send).
LEMMA PublishIInv ==
  ASSUME IInv, Publish
  PROVE  IInv'
<1>1. /\ pending # <<>> /\ pending' = Tail(pending)
      /\ UNCHANGED <<seq, rings, history, closed, opens>>
  BY DEF Publish
<1>2. Numbered(history, seq) /\ Waits(history, seq, pending)
  BY DEF IInv
<1>3. Head(pending) \in Event
  BY <1>1, <1>2, WaitsIs
<1>4. DOMAIN conn' = Conn /\ conn' = [c \in Conn |-> conn'[c]]
  BY DEF Publish
<1>5. ASSUME NEW c \in Conn
      PROVE  Fits(history, seq, Tail(pending), conn'[c])
  <2> DEFINE k == conn[c]
             e == Head(pending)
  <2>1. Fits(history, seq, pending, k)
    BY DEF IInv
  <2>2. conn'[c] = IF k.open /\ Selects(k.stream, e) THEN Sent(k, e) ELSE k
    BY DEF Publish
  <2>3. k \in Tailing /\ k.queue \in Seq(Event) /\ k.dropped \in Nat
    BY <2>1, TailIs DEF Fits
  <2>4. CASE ~(k.open /\ Selects(k.stream, e))
    <3>1. conn'[c] = k
      BY <2>2, <2>4
    <3> QED
      BY <1>1, <1>2, <2>1, <2>3, <2>4, <3>1, FitsSkipped
  <2>5. CASE k.open /\ Selects(k.stream, e)
    <3> HIDE DEF e, k
    <3>1. CASE Len(k.queue) < QueueSize
      <4> DEFINE m == [k EXCEPT !.queue = Append(k.queue, e)]
      <4>1. conn'[c] = m
        BY <2>2, <2>5, <3>1 DEF Sent
      <4>2. Append(k.queue, e) \in Seq(Event)
        BY <1>3, <2>3 DEF e
      <4>3. /\ m \in Tailing /\ m.queue = Append(k.queue, e) /\ m.shown = k.shown
            /\ m.floor = k.floor /\ m.stream = k.stream /\ m.step = k.step
            /\ m.open = k.open /\ m.dropped = k.dropped
        BY <2>3, <4>2 DEF Tailing
      <4> HIDE DEF m
      <4> QED
        BY <1>1, <1>2, <2>1, <3>1, <4>1, <4>3, FitsQueued DEF e
    <3>2. CASE ~(Len(k.queue) < QueueSize)
      <4> DEFINE m == [k EXCEPT !.dropped = k.dropped + 1]
      <4>1. conn'[c] = m
        BY <2>2, <2>5, <3>2 DEF Sent
      <4>2. k.dropped + 1 \in Nat
        BY <2>3
      <4>3. /\ m \in Tailing /\ m.queue = k.queue /\ m.shown = k.shown
            /\ m.floor = k.floor /\ m.stream = k.stream /\ m.step = k.step
            /\ m.open = k.open /\ m.dropped = k.dropped + 1
        BY <2>3, <4>2 DEF Tailing
      <4> HIDE DEF m
      <4> QED
        BY <1>1, <1>2, <2>1, <4>1, <4>3, FitsSkipped DEF e
    <3> QED
      BY <3>1, <3>2
  <2> QED
    BY <2>4, <2>5
<1>6. Waits(history, seq, Tail(pending))
  BY <1>1, <1>2, WaitsLess
<1> QED
  BY <1>1, <1>4, <1>5, <1>6 DEF IInv

\* The fan-out closes (Fanout.Close).
LEMMA CloseIInv ==
  ASSUME IInv, CloseFanout
  PROVE  IInv'
<1>1. /\ closed' = TRUE /\ UNCHANGED <<seq, rings, history, pending, opens>>
      /\ conn' = [c \in Conn |-> [conn[c] EXCEPT !.open = FALSE]]
  BY DEF CloseFanout
<1>2. ASSUME NEW c \in Conn
      PROVE  Fits(history, seq, pending, conn'[c])
  <2> DEFINE k == conn[c]
             m == [k EXCEPT !.open = FALSE]
  <2>1. Fits(history, seq, pending, k) /\ k \in Tailing
    BY DEF IInv, Fits
  <2>2. conn'[c] = m
    BY <1>1
  <2> HIDE DEF k
  <2>3. /\ m \in Tailing /\ m.queue = k.queue /\ m.shown = k.shown
        /\ m.floor = k.floor /\ m.stream = k.stream /\ m.dropped = k.dropped
        /\ ~m.open
    BY <2>1 DEF Tailing
  <2> HIDE DEF m
  <2> QED
    BY <2>1, <2>2, <2>3, FitsSame
<1> QED
  BY <1>1, <1>2 DEF IInv

\* A step of one tail.
LEMMA GoesIInv ==
  ASSUME IInv, NEW c \in Conn, NEW m, Fits(history, seq, pending, m), Goes(c, m),
         opens' \in Nat
  PROVE  IInv'
<1>1. /\ conn' = [conn EXCEPT ![c] = m]
      /\ UNCHANGED <<seq, rings, history, pending, closed>>
  BY DEF Goes
<1>2. DOMAIN conn = Conn
  BY DEF IInv
<1>3. ASSUME NEW d \in Conn PROVE Fits(history, seq, pending, conn'[d])
  <2>1. conn'[d] = IF d = c THEN m ELSE conn[d]
    BY <1>1, <1>2
  <2>2. Fits(history, seq, pending, conn[d])
    BY DEF IInv
  <2> QED
    BY <2>1, <2>2
<1>4. DOMAIN conn' = Conn /\ conn' = [d \in Conn |-> conn'[d]]
  BY <1>1, <1>2
<1> QED
  BY <1>1, <1>3, <1>4 DEF IInv

\* A tail that has ended.
LEMMA GoneFits ==
  ASSUME IInv
  PROVE  Gone \in Tailing /\ Fits(history, seq, pending, Gone)
<1>1. <<>> \in Seq(Event) /\ <<>> \in Seq(Record)
  BY EmptySeq
<1>2. Gone \in Tailing
  BY <1>1 DEF Gone, Tailing
<1> QED
  BY <1>2, FitsNew DEF Gone, IInv

\* The notice of what was dropped.
LEMMA NoticeFits ==
  ASSUME NEW H, NEW n, NEW p, NEW k, Fits(H, n, p, k)
  PROVE  Fits(H, n, p, Notice(k))
<1> DEFINE m == Notice(k)
<1>1. k \in Tailing /\ k.dropped \in Nat
  BY TailIs DEF Fits
<1>2. /\ m \in Tailing /\ m.queue = k.queue /\ m.shown = k.shown
      /\ m.floor = k.floor /\ m.stream = k.stream /\ m.dropped = k.dropped
      /\ m.step = k.step /\ m.open = k.open
  BY <1>1 DEF Notice, Tailing
<1> HIDE DEF m
<1>3. Fits(H, n, p, m)
  BY <1>2, FitsSame
<1> QED
  BY <1>3 DEF m

\* A step of one tail (tail).
LEMMA TailIInv ==
  ASSUME IInv, NEW c \in Conn,
         \/ \E s \in Stream \cup {All} : Subscribe(c, s)
         \/ SendStreams(c) \/ SendBacklog(c)
         \/ \E due \in BOOLEAN : Receive(c, due)
         \/ Heartbeat(c) \/ Ends(c) \/ Leave(c)
  PROVE  IInv'
<1> DEFINE k == conn[c]
<1>1. /\ Fits(history, seq, pending, k) /\ opens \in Nat /\ closed \in BOOLEAN
      /\ Numbered(history, seq) /\ Waits(history, seq, pending)
      /\ Ranked(history) /\ Keeps(history, rings)
  BY DEF IInv, Numbered
<1>2. k \in Tailing /\ k.stream \in Stream \cup {All}
  BY <1>1, TailIs DEF Fits
<1>3. ASSUME NEW s \in Stream \cup {All}, Subscribe(c, s) PROVE IInv'
  <2> DEFINE m == Subscribed(s)
  <2>1. Goes(c, m) /\ opens' \in Nat
    BY <1>1, <1>3 DEF Subscribe
  <2>2. /\ m \in Tailing /\ m.queue = <<>> /\ m.shown = <<>> /\ m.floor = 0
        /\ m.step # "lines"
    <3>1. <<>> \in Seq(Event) /\ <<>> \in Seq(Record) /\ (~closed) \in BOOLEAN
      BY EmptySeq
    <3> QED
      BY <3>1 DEF Subscribed, Gone, Tailing
  <2> HIDE DEF m
  <2>3. Fits(history, seq, pending, m)
    BY <1>1, <2>2, FitsNew
  <2> QED
    BY <2>1, <2>3, GoesIInv
<1>4. ASSUME SendStreams(c) PROVE IInv'
  <2> DEFINE m == [k EXCEPT !.step = "backlog", !.list = DOMAIN rings]
  <2>1. Goes(c, m) /\ opens' \in Nat
    BY <1>1, <1>4 DEF SendStreams
  <2>2. DOMAIN rings \in SUBSET Stream
    BY <1>1 DEF Keeps, Ranked, Record
  <2> HIDE DEF k
  <2>3. /\ m \in Tailing /\ m.queue = k.queue /\ m.shown = k.shown
        /\ m.floor = k.floor /\ m.stream = k.stream /\ m.dropped = k.dropped
        /\ m.step = "backlog"
    BY <1>2, <2>2 DEF Tailing
  <2> HIDE DEF m
  <2>4. Fits(history, seq, pending, m)
    BY <1>1, <2>3, FitsSame
  <2> QED
    BY <2>1, <2>4, GoesIInv
<1>5. ASSUME SendBacklog(c) PROVE IInv'
  <2> DEFINE b == Backlog(k.stream)
             m == [k EXCEPT !.step = "lines", !.floor = HighestSeq(ToSet(b)),
                            !.shown = Wanted(b)]
  <2>1. Goes(c, m) /\ opens' \in Nat
    BY <1>1, <1>5 DEF SendBacklog
  <2>2. b = InOrder(Top(PartOf(history, k.stream)))
    BY <1>1, <1>2, BacklogIs
  <2> HIDE DEF b, k
  <2>3. Fits(history, seq, pending, m)
    BY <1>1, <2>2, FitsBacklog
  <2> HIDE DEF m
  <2> QED
    BY <2>1, <2>3, GoesIInv
<1>6. ASSUME NEW due \in BOOLEAN, Receive(c, due) PROVE IInv'
  <2>1. k.step = "lines" /\ k.queue # <<>> /\ opens' \in Nat
    BY <1>1, <1>6 DEF Receive
  <2>2. Fits(history, seq, pending, Received(k))
    BY <1>1, <2>1, FitsReceived
  <2>3. CASE due
    <3>1. Goes(c, Notice(Received(k)))
      BY <1>6, <2>3 DEF Receive
    <3>2. Fits(history, seq, pending, Notice(Received(k)))
      BY <2>2, NoticeFits
    <3> QED
      BY <2>1, <3>1, <3>2, GoesIInv
  <2>4. CASE ~due
    <3>1. Goes(c, Received(k))
      BY <1>6, <2>4 DEF Receive
    <3> QED
      BY <2>1, <2>2, <3>1, GoesIInv
  <2> QED
    BY <2>3, <2>4
<1>7. ASSUME Heartbeat(c) PROVE IInv'
  <2>1. Goes(c, Notice(k)) /\ opens' \in Nat
    BY <1>1, <1>7 DEF Heartbeat
  <2>2. Fits(history, seq, pending, Notice(k))
    BY <1>1, NoticeFits
  <2> QED
    BY <2>1, <2>2, GoesIInv
<1>8. ASSUME Ends(c) \/ Leave(c) PROVE IInv'
  <2>1. Goes(c, Gone) /\ opens' \in Nat
    BY <1>1, <1>8 DEF Ends, Leave
  <2> QED
    BY <2>1, GoneFits, GoesIInv
<1> QED
  BY <1>3, <1>4, <1>5, <1>6, <1>7, <1>8

\* Every step.
LEMMA StepIInv ==
  ASSUME IInv, [Next]_vars
  PROVE  IInv'
<1>1. CASE UNCHANGED vars
  BY <1>1 DEF vars, IInv
<1>2. ASSUME NEW s \in Stream, NEW w \in BOOLEAN, NEW ok \in BOOLEAN,
             AppendRecord(s, w, ok)
      PROVE  IInv'
  BY <1>2, AppendIInv
<1>3. CASE Publish
  BY <1>3, PublishIInv
<1>4. CASE CloseFanout
  BY <1>4, CloseIInv
<1>5. ASSUME NEW c \in Conn,
             \/ \E s \in Stream \cup {All} : Subscribe(c, s)
             \/ SendStreams(c) \/ SendBacklog(c)
             \/ \E due \in BOOLEAN : Receive(c, due)
             \/ Heartbeat(c) \/ Ends(c) \/ Leave(c)
      PROVE  IInv'
  BY <1>5, TailIInv
<1> QED
  BY <1>1, <1>2, <1>3, <1>4, <1>5 DEF Next

\* Between any two steps, whoever takes them, what a tail has heard, shows, owes
\* and has counted fit the records, the rings and the publish in progress.
THEOREM TailInvariant == Spec => []IInv
<1>1. IInv /\ [Next]_vars => IInv'
  BY StepIInv
<1> QED
  BY InitIInv, <1>1, PTL DEF Spec

\* The invariant gives the types.
LEMMA IInvTyped == IInv => TypeOK
<1> SUFFICES ASSUME IInv PROVE TypeOK
  OBVIOUS
<1>1. /\ opens \in Nat /\ closed \in BOOLEAN /\ seq \in Nat
      /\ Ranked(history) /\ history \in SUBSET Record
      /\ Numbered(history, seq) /\ Keeps(history, rings) /\ Waits(history, seq, pending)
      /\ DOMAIN conn = Conn /\ conn = [c \in Conn |-> conn[c]]
      /\ \A c \in Conn : Fits(history, seq, pending, conn[c])
  BY DEF IInv, Numbered, Ranked
<1>2. DOMAIN rings \subseteq Stream
  BY <1>1 DEF Keeps, Record
<1>3. ASSUME NEW s \in DOMAIN rings
      PROVE  rings[s] \in Seq(Record) /\ Len(rings[s]) <= RingSize
  <2> DEFINE P == PartOf(history, s)
  <2>1. rings[s] = InOrder(Top(P)) /\ Ranked(P)
    BY <1>1, PartIs DEF Keeps
  <2> HIDE DEF P
  <2>2. /\ Ranked(Top(P))
        /\ Cardinality(Top(P)) =
             IF Cardinality(P) > RingSize THEN RingSize ELSE Cardinality(P)
    BY <2>1, NewestIs
  <2>3. Cardinality(P) \in Nat /\ RingSize \in Nat
    BY <2>1, FS_CardinalityType, TailAssumption DEF Ranked
  <2>4. InOrder(Top(P)) \in Seq(Record) /\ Len(InOrder(Top(P))) = Cardinality(Top(P))
    BY <2>2, InOrderIs
  <2> QED
    BY <2>1, <2>2, <2>3, <2>4
<1>4. pending \in Seq(Event)
  <2>1. CASE pending = <<>>
    BY <2>1, EmptySeq
  <2>2. CASE pending # <<>>
    BY <1>1, <2>2, WaitsIs
  <2> QED
    BY <2>1, <2>2
<1>5. \A c \in Conn : conn[c] \in Tailing /\ Len(conn[c].queue) <= QueueSize
  BY <1>1 DEF Fits, Hears
<1>6. conn \in [Conn -> Tailing]
  BY <1>1, <1>5
<1> QED
  BY <1>1, <1>2, <1>3, <1>4, <1>5, <1>6 DEF TypeOK

\* The state of the rings, the queues and the screens has its types, and neither
\* a ring nor a queue outgrows its size (ring, Fanout).
THEOREM TypesHold == Spec => []TypeOK
BY TailInvariant, IInvTyped, PTL

\* The invariant says what the rings hold.
LEMMA IInvRings == IInv => RingIsNewest
<1> SUFFICES ASSUME IInv, NEW s \in DOMAIN rings
             PROVE  rings[s] = LastOf(InOrder(Of(s)), RingSize)
  BY DEF RingIsNewest
<1>1. Ranked(history) /\ Keeps(history, rings)
  BY DEF IInv, Numbered
<1>2. Of(s) = PartOf(history, s)
  BY DEF Of, PartOf
<1>3. rings[s] = InOrder(Top(PartOf(history, s))) /\ Ranked(PartOf(history, s))
  BY <1>1, PartIs DEF Keeps
<1> QED
  BY <1>2, <1>3, NewestIs

\* After a restart as before it, the backlog of a stream is its newest records,
\* whatever files the walk at boot found them in (newest, Append).
THEOREM RingsHoldNewest == Spec => []RingIsNewest
BY TailInvariant, IInvRings, PTL

\* The invariant says what is shown.
LEMMA IInvShown == IInv => ShownOnce
<1> SUFFICES ASSUME IInv, NEW c \in Conn,
                    NEW i \in DOMAIN conn[c].shown, NEW j \in DOMAIN conn[c].shown, i < j
             PROVE  conn[c].shown[i].seq < conn[c].shown[j].seq
  BY DEF ShownOnce
<1>1. conn[c].shown \in Seq(Record) /\ Rising(conn[c].shown)
  BY TailIs DEF IInv, Fits, Shows
<1>2. DOMAIN conn[c].shown = 1 .. Len(conn[c].shown)
  BY <1>1
<1> QED
  BY <1>1, <1>2 DEF Rising

\* A tail shows every record once and in order, wherever between two appends it
\* subscribed and read its backlog (tail).
THEOREM RecordsShownOnce == Spec => []ShownOnce
BY TailInvariant, IInvShown, PTL

\* The invariant says what is counted.
LEMMA IInvCounted == IInv => LossIsCounted
<1> SUFFICES ASSUME IInv, NEW c \in Conn, conn[c].step = "lines", conn[c].open
             PROVE  Cardinality(Missed(conn[c])) <= conn[c].dropped
  BY DEF LossIsCounted
<1> DEFINE k == conn[c]
<1>1. Cardinality(MissedOf(history, pending, k)) <= k.dropped
  BY DEF IInv, Fits, Counts
<1>2. Of(k.stream) = PartOf(history, k.stream)
  BY DEF Of, PartOf
<1> HIDE DEF k
<1>3. Owed(k) = OwedOf(history, k)
  BY <1>2 DEF Owed, OwedOf
<1>4. Missed(k) = MissedOf(history, pending, k)
  BY <1>3 DEF Missed, MissedOf
<1> QED
  BY <1>1, <1>4 DEF k

\* A tail that skips a record it owes its client has counted it: no slow reader,
\* subscription or full queue makes one vanish in silence (send, tail).
THEOREM LossesAreCounted == Spec => []LossIsCounted
BY TailInvariant, IInvCounted, PTL

==============================================================================
