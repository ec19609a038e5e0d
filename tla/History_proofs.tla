---------------------------- MODULE History_proofs -----------------------------
(***************************************************************************)
(* Proofs about what history answers, and what compaction writes, for any  *)
(* lines of any fields, keys however they fold, columns, horizons, ranks,  *)
(* levels and bounds.                                                      *)
(*                                                                         *)
(* What history answers of a row rests on what is left of its line through *)
(* any number of merges (Traced) and on the columns its file has for that  *)
(* (Housed).  The rest is about one row and one comparison: the resolver   *)
(* reads a column under a name only where the name is the key's in every   *)
(* file (CellIs), as a number or an object only where every column of the  *)
(* key is one (FactIs), and each way of reading answers as the live        *)
(* predicate does (NothingAgrees, TextAgrees, NumberAgrees, CastAgrees).   *)
(* A line that is not JSON is read by no path into it (NotInLine).  That a *)
(* rewrite is done once, and promises no more than was done, rests on rows *)
(* keeping the time and rank they came with (Dated).                       *)
(***************************************************************************)
EXTENDS History, FiniteSetTheorems, SequenceTheorems, TLAPS

\* The kinds a column has.
ColumnKinds == {"int", "string", "json"}

\* A line, as it arrives.
Arrival ==
  [fields : {Menu[i].fields : i \in DOMAIN Menu}, level : Nat, json : BOOLEAN, raw : {TRUE},
   ts : Int, seq : Nat]

\* What a row holds of a value of its line: the value, or its text once it has been in a
\* column of text.
Keeps(cell, value) == value # Null /\ cell \in {value, Str(TextOf(value))}

\* Records, or rows, are what is left of the lines they are numbered for.
Traced(records, arrived) ==
  \A r \in records :
    /\ DOMAIN r = {"fields", "level", "json", "raw", "ts", "seq"}
    /\ r.ts \in Int /\ r.level \in Nat /\ r.raw \in BOOLEAN /\ r.seq \in 1 .. Len(arrived)
    /\ DOMAIN r.fields \subseteq DOMAIN arrived[r.seq].fields
    /\ \A key \in DOMAIN r.fields :
         /\ r.fields[key] \in Value
         /\ r.fields[key] # Null => Keeps(r.fields[key], arrived[r.seq].fields[key])

\* A file has a column of the right kind, and only kinds that agree, for everything its
\* rows hold, and keeps raw lines if one of its rows has one.
Housed(f, arrived) ==
  /\ f.raw \in BOOLEAN /\ Traced(f.rows, arrived)
  /\ \A c \in f.columns :
       /\ c.key \in Key /\ c.kind \in ColumnKinds
       /\ \A d \in f.columns : c.key = d.key => c.kind = d.kind
  /\ \A row \in f.rows :
       /\ row.raw => f.raw
       /\ \A key \in DOMAIN row.fields :
            /\ row.fields[key] # Null
            /\ \E c \in f.columns : c.key = key /\ c.kind = row.fields[key].kind

\* Rows have a time, and a rank.
Dated(records) == \A r \in records : /\ {"ts", "level", "fields", "raw"} \subseteq DOMAIN r
                                     /\ r.ts \in Int /\ r.level \in Nat

\* The inductive invariant.
IInv == /\ now \in Nat /\ lines \in Seq(Arrival)
        /\ \A f \in files : Housed(f, lines)

------------------------------------------------------------------------------
(* Values, and comparisons of them. *)

\* A value, written as text and read as a number, is what it was.
LEMMA ValueIs ==
  ASSUME NEW value \in Value
  PROVE  /\ value = [kind |-> value.kind, v |-> value.v] /\ value.v \in Int
         /\ value # Null <=> value.kind \in ColumnKinds
         /\ value.kind = "null" <=> value = Null
         /\ value.kind = "int" => value.v \in {1, 2, 10}
         /\ value.kind = "string" => value.v \in Text
         /\ value.kind = "json" => value = JSON(6)
<1>1. CASE value = Null
  BY <1>1 DEF Null, ColumnKinds
<1>2. CASE \E n \in {1, 2, 10} : value = Int_(n)
  BY <1>2 DEF Null, Int_, ColumnKinds
<1>3. CASE \E t \in Text : value = Str(t)
  BY <1>3 DEF Null, Str, ColumnKinds, Text
<1>4. CASE value = JSON(6)
  BY <1>4 DEF Null, JSON, ColumnKinds
<1> QED
  BY <1>1, <1>2, <1>3, <1>4 DEF Value

LEMMA NumbersIn ==
  /\ NumberIn[1] = 1 /\ NumberIn[2] = 1 /\ NumberIn[3] = 10 /\ NumberIn[4] = 2
BY DEF NumberIn, NumberText

LEMMA TextIs ==
  ASSUME NEW value \in Value, value # Null
  PROVE  /\ TextOf(value) \in Text
         /\ value.kind = "int" => /\ TextOf(value) \in NumberText
                                  /\ NumberIn[TextOf(value)] = value.v
         /\ value.kind # "int" => TextOf(value) = value.v
<1>1. CASE value.kind = "int"
  <2>1. value.v \in {1, 2, 10}
    BY <1>1, ValueIs
  <2>2. \E t \in NumberText \ {2} : NumberIn[t] = value.v
    BY <2>1, NumbersIn DEF NumberText
  <2>3. TextOf(value) = CHOOSE t \in NumberText \ {2} : NumberIn[t] = value.v
    BY <1>1 DEF TextOf
  <2>4. TextOf(value) \in NumberText \ {2} /\ NumberIn[TextOf(value)] = value.v
    BY <2>2, <2>3
  <2> QED
    BY <1>1, <2>4 DEF NumberText, Text
<1>2. CASE value.kind # "int"
  <2>1. TextOf(value) = value.v
    BY <1>2 DEF TextOf
  <2>2. value.kind \in {"string", "json"}
    BY <1>2, ValueIs DEF ColumnKinds
  <2>3. value.v \in Text
    BY <2>2, ValueIs DEF Text, JSON
  <2> QED
    BY <1>2, <2>1, <2>3
<1> QED
  BY <1>1, <1>2

LEMMA StrIs ==
  ASSUME NEW t \in Text
  PROVE  /\ Str(t) \in Value /\ Str(t) # Null /\ Str(t).kind = "string" /\ Str(t).v = t
         /\ TextOf(Str(t)) = t
BY DEF Str, Value, Null, TextOf

LEMMA IntIs ==
  ASSUME NEW n \in Int
  PROVE  Int_(n).kind = "int" /\ Int_(n).v = n
BY DEF Int_

\* What is asked is of one of three kinds.
LEMMA ComparisonIs ==
  ASSUME NEW n \in Comparison
  PROVE  \/ n.op = "exists" /\ n.literal = Null
         \/ n.op # "exists" /\ n.literal = Null
         \/ /\ n.op \in {"=", "<", ">="} /\ n.literal # Null
            /\ n.literal.kind \in {"number", "string"} /\ n.literal.v \in Int
<1>1. CASE n \in [op : {"exists", "="}, literal : {Null}]
  BY <1>1
<1>2. CASE n \in [op : {"=", "<", ">="}, literal : Literal \ {Null}]
  <2>1. n.op \in {"=", "<", ">="} /\ n.literal \in Literal /\ n.literal # Null
    BY <1>2
  <2>2. n.literal.kind \in {"number", "string"} /\ n.literal.v \in Int
    BY <2>1 DEF Literal
  <2> QED
    BY <2>1, <2>2
<1> QED
  BY <1>1, <1>2 DEF Comparison

LEMMA OrderIs ==
  ASSUME NEW op \in {"=", "<", ">="}, NEW a \in Int, NEW b \in Int
  PROVE  Order(op, a, b) \in BOOLEAN
<1>1. CASE op = "="
  BY <1>1 DEF Order
<1>2. CASE op = "<"
  BY <1>2 DEF Order
<1>3. CASE op = ">="
  BY <1>3 DEF Order
<1> QED
  BY <1>1, <1>2, <1>3

\* What both evaluators say of what is not there.
LEMMA NothingAgrees ==
  ASSUME NEW n \in Comparison, NEW resolution, resolution.form # "none"
  PROVE  Selects(resolution, n, {}) <=> Predicate(n, {})
<1>1. CASE n.op = "exists"
  BY <1>1 DEF Selects, Predicate
<1>2. CASE n.op # "exists" /\ n.literal = Null
  BY <1>2 DEF Selects, Predicate
<1>3. CASE n.op # "exists" /\ n.literal # Null
  <2>1. ~Predicate(n, {})
    BY <1>3 DEF Predicate
  <2>2. Ordered({}, resolution.number, n.literal, n.op) \in {{FALSE}, {}}
    BY DEF Ordered
  <2>3. Ordered({}, resolution.number, n.literal, n.op) # {TRUE}
    BY <2>2
  <2>4. ~Selects(resolution, n, {})
    BY <1>3, <2>3 DEF Selects
  <2> QED
    BY <2>1, <2>4
<1> QED
  BY <1>1, <1>2, <1>3

LEMMA OneTruth ==
  ASSUME NEW truth \in BOOLEAN
  PROVE  ({truth} = {TRUE}) <=> truth
OBVIOUS

\* A comparison of one value with a literal, in SQL.
LEMMA SelectsOne ==
  ASSUME NEW n \in Comparison, n.op # "exists", n.literal # Null,
         NEW resolution, resolution.form # "none", NEW expr
  PROVE  /\ n.op \in {"=", "<", ">="} /\ n.literal.kind \in {"number", "string"}
         /\ n.literal.v \in Int
         /\ Selects(resolution, n, expr)
              <=> Ordered(expr, resolution.number, n.literal, n.op) = {TRUE}
         /\ \A value : Predicate(n, {value}) <=> CompareValue(value, n.literal, n.op)
<1>1. n.op \in {"=", "<", ">="} /\ n.literal.kind \in {"number", "string"} /\ n.literal.v \in Int
  BY ComparisonIs
<1>2. Selects(resolution, n, expr) <=> Ordered(expr, resolution.number, n.literal, n.op) = {TRUE}
  BY DEF Selects
<1>3. ASSUME NEW value
      PROVE  Predicate(n, {value}) <=> CompareValue(value, n.literal, n.op)
  <2>1. Predicate(n, {value}) = \E x \in {value} : CompareValue(x, n.literal, n.op)
    BY DEF Predicate
  <2> QED
    BY <2>1
<1> QED
  BY <1>1, <1>2, <1>3

\* A value as text, compared in SQL, answers as the value does live, but for a number
\* that a quoted literal is compared with.
LEMMA TextAgrees ==
  ASSUME NEW n \in Comparison, NEW resolution, resolution.form # "none", ~resolution.number,
         NEW value \in Value, value # Null,
         ~(value.kind = "int" /\ n.literal.kind = "string")
  PROVE  Selects(resolution, n, {Str(TextOf(value))}) <=> Predicate(n, {value})
<1> DEFINE text == TextOf(value)
<1>1. /\ text \in Text /\ Str(text).v = text
      /\ value.kind = "int" => text \in NumberText /\ NumberIn[text] = value.v
      /\ value.kind # "int" => text = value.v
  BY TextIs, StrIs
<1> SUFFICES Selects(resolution, n, {Str(text)}) <=> Predicate(n, {value})
  OBVIOUS
<1> HIDE DEF text
<1>2. CASE n.op = "exists"
  BY <1>2 DEF Selects, Predicate
<1>3. CASE n.op # "exists" /\ n.literal = Null
  BY <1>3 DEF Selects, Predicate
<1>4. CASE n.op # "exists" /\ n.literal # Null
  <2> DEFINE ordered == Ordered({Str(text)}, resolution.number, n.literal, n.op)
  <2>1. /\ n.op \in {"=", "<", ">="} /\ n.literal.kind \in {"number", "string"}
        /\ n.literal.v \in Int
    BY <1>4, SelectsOne
  <2>s. Selects(resolution, n, {Str(text)}) <=> ordered = {TRUE}
    BY <1>4, SelectsOne
  <2>p. Predicate(n, {value}) <=> CompareValue(value, n.literal, n.op)
    BY <1>4, SelectsOne
  <2>2. CASE n.literal.kind = "number"
    <3> DEFINE number == NumberIn[text]
    <3>1. ordered = {Order(n.op, NumberIn[x.v], n.literal.v) :
                        x \in {x \in {Str(text)} : x.v \in NumberText}}
      BY <2>2 DEF Ordered
    <3>2. CASE text \in NumberText
      <4>0. {x \in {Str(text)} : x.v \in NumberText} = {Str(text)}
        BY <3>2, <1>1
      <4>1. ordered = {Order(n.op, number, n.literal.v)}
        BY <3>1, <4>0, <1>1
      <4>2. CompareValue(value, n.literal, n.op) <=> Order(n.op, number, n.literal.v)
        <5>1. CASE value.kind = "int"
          BY <5>1, <2>2, <3>2, <1>1 DEF CompareValue
        <5>2. CASE value.kind # "int"
          <6>1. CompareValue(value, n.literal, n.op)
                  <=> (value.v \in NumberText /\ Order(n.op, NumberIn[value.v], n.literal.v))
            BY <5>2, <2>2 DEF CompareValue
          <6>2. Order(n.op, number, n.literal.v) \in BOOLEAN
            BY <3>2, <2>1, NumbersIn, OrderIs DEF NumberText
          <6> QED
            BY <6>1, <6>2, <5>2, <3>2, <1>1
        <5> QED
          BY <5>1, <5>2
      <4>3. Order(n.op, number, n.literal.v) \in BOOLEAN
        BY <3>2, <2>1, NumbersIn, OrderIs DEF NumberText
      <4> HIDE DEF ordered, number
      <4> QED
        BY <4>1, <4>2, <4>3, <2>s, <2>p, OneTruth
    <3>3. CASE text \notin NumberText
      <4>1. ordered = {}
        BY <3>1, <3>3, <1>1
      <4>2. ~CompareValue(value, n.literal, n.op)
        BY <3>3, <1>1, <2>2 DEF CompareValue
      <4> HIDE DEF ordered
      <4> QED
        BY <4>1, <4>2, <2>s, <2>p
    <3> QED
      BY <3>2, <3>3
  <2>3. CASE n.literal.kind = "string"
    <3>1. value.kind # "int" /\ text = value.v
      BY <2>3, <1>1
    <3>2. ordered = {Order(n.op, x.v, StrOf(n.literal)) : x \in {Str(text)}}
      BY <2>3 DEF Ordered
    <3>3. ordered = {Order(n.op, text, n.literal.v)}
      BY <3>2, <1>1, <2>3 DEF StrOf
    <3>4. CompareValue(value, n.literal, n.op) <=> Order(n.op, text, n.literal.v)
      BY <3>1, <2>3 DEF CompareValue, StrOf
    <3>5. Order(n.op, text, n.literal.v) \in BOOLEAN
      BY <1>1, <2>1, OrderIs DEF Text
    <3> HIDE DEF ordered
    <3> QED
      BY <3>3, <3>4, <3>5, <2>s, <2>p, OneTruth
  <2> QED
    BY <2>1, <2>2, <2>3
<1> QED
  BY <1>2, <1>3, <1>4

\* A number, compared as a number in SQL, answers as it does live.
LEMMA NumberAgrees ==
  ASSUME NEW n \in Comparison, NEW resolution, resolution.form # "none", resolution.number = TRUE,
         NEW value \in Value, value.kind = "int"
  PROVE  Selects(resolution, n, {value}) <=> Predicate(n, {value})
<1>1. CASE n.op = "exists"
  BY <1>1 DEF Selects, Predicate
<1>2. CASE n.op # "exists" /\ n.literal = Null
  BY <1>2 DEF Selects, Predicate
<1>3. CASE n.op # "exists" /\ n.literal # Null
  <2> DEFINE ordered == Ordered({value}, resolution.number, n.literal, n.op)
  <2>1. /\ n.op \in {"=", "<", ">="} /\ n.literal.kind \in {"number", "string"}
        /\ n.literal.v \in Int
    BY <1>3, SelectsOne
  <2>s. Selects(resolution, n, {value}) <=> ordered = {TRUE}
    BY <1>3, SelectsOne
  <2>p. Predicate(n, {value}) <=> CompareValue(value, n.literal, n.op)
    BY <1>3, SelectsOne
  <2>2. CASE n.literal.kind = "number"
    <3>1. ordered = {Order(n.op, x.v, n.literal.v) : x \in {value}}
      BY <2>2 DEF Ordered
    <3>2. ordered = {Order(n.op, value.v, n.literal.v)}
      BY <3>1
    <3>3. Order(n.op, value.v, n.literal.v) \in BOOLEAN
      BY <2>1, ValueIs, OrderIs
    <3>4. CompareValue(value, n.literal, n.op) <=> Order(n.op, value.v, n.literal.v)
      BY <2>2, <3>3 DEF CompareValue
    <3> HIDE DEF ordered
    <3> QED
      BY <3>2, <3>3, <3>4, <2>s, <2>p, OneTruth
  <2>3. CASE n.literal.kind = "string"
    <3>1. ordered = {FALSE}
      BY <2>3 DEF Ordered
    <3>2. ~CompareValue(value, n.literal, n.op)
      BY <2>3 DEF CompareValue
    <3> HIDE DEF ordered
    <3> QED
      BY <3>1, <3>2, <2>s, <2>p
  <2> QED
    BY <2>1, <2>2, <2>3
<1> QED
  BY <1>1, <1>2, <1>3

\* What a raw line holds, read as a number, answers a bare number as it does live.
LEMMA CastAgrees ==
  ASSUME NEW n \in Comparison, n.literal.kind = "number",
         NEW resolution, resolution.form # "none", resolution.number = TRUE,
         NEW value \in Value, value # Null, value.kind # "int"
  PROVE  Selects(resolution, n,
                 {Int_(NumberIn[x.v]) : x \in {x \in {Str(TextOf(value))} : x.v \in NumberText}})
           <=> Predicate(n, {value})
<1> DEFINE text == TextOf(value)
           cast == {Int_(NumberIn[x.v]) : x \in {x \in {Str(text)} : x.v \in NumberText}}
           ordered == Ordered(cast, resolution.number, n.literal, n.op)
<1>1. text \in Text /\ text = value.v /\ Str(text).v = text
  BY TextIs, StrIs
<1> SUFFICES Selects(resolution, n, cast) <=> Predicate(n, {value})
  OBVIOUS
<1> HIDE DEF text
<1>2. n.op # "exists" /\ n.literal # Null
  BY ComparisonIs DEF Null
<1>3. /\ n.op \in {"=", "<", ">="} /\ n.literal.v \in Int
      /\ Selects(resolution, n, cast) <=> ordered = {TRUE}
      /\ Predicate(n, {value}) <=> CompareValue(value, n.literal, n.op)
  <2> HIDE DEF cast
  <2> QED
    BY <1>2, SelectsOne
<1>4. CompareValue(value, n.literal, n.op)
        <=> (text \in NumberText /\ Order(n.op, NumberIn[text], n.literal.v))
  BY <1>1 DEF CompareValue
<1>5. ordered = {Order(n.op, x.v, n.literal.v) : x \in cast}
  <2> HIDE DEF cast
  <2> QED
    BY DEF Ordered
<1>6. CASE text \in NumberText
  <2>1. {x \in {Str(text)} : x.v \in NumberText} = {Str(text)}
    BY <1>1, <1>6
  <2>2. cast = {Int_(NumberIn[text])}
    BY <2>1, <1>1
  <2>3. NumberIn[text] \in Int
    BY <1>6, NumbersIn DEF NumberText
  <2>4. Int_(NumberIn[text]).v = NumberIn[text]
    BY <2>3, IntIs
  <2> HIDE DEF cast, ordered
  <2>5. ordered = {Order(n.op, NumberIn[text], n.literal.v)}
    BY <1>5, <2>2, <2>4
  <2>6. Order(n.op, NumberIn[text], n.literal.v) \in BOOLEAN
    BY <2>3, <1>3, OrderIs
  <2> QED
    BY <2>5, <2>6, <1>3, <1>4, <1>6
<1>7. CASE text \notin NumberText
  <2>1. cast = {}
    BY <1>1, <1>7
  <2> HIDE DEF cast
  <2>2. ordered = {}
    BY <2>1, <1>5
  <2> HIDE DEF ordered
  <2>3. ~CompareValue(value, n.literal, n.op)
    BY <1>4, <1>7
  <2> QED
    BY <2>2, <2>3, <1>3
<1> QED
  BY <1>6, <1>7

------------------------------------------------------------------------------
(* What is written of records. *)

LEMMA ArrivalIs ==
  ASSUME NEW line \in Arrival
  PROVE  /\ DOMAIN line.fields \subseteq Key
         /\ \A key \in DOMAIN line.fields : line.fields[key] \in Value
<1>1. PICK i \in DOMAIN Menu : line.fields = Menu[i].fields
  BY DEF Arrival
<1> QED
  BY <1>1, HistoryAssumption

\* Writing a value again as text keeps what it is of its line.
LEMMA KeepsAgain ==
  ASSUME NEW value \in Value, NEW cell \in Value, cell # Null, Keeps(cell, value), NEW kind
  PROVE  /\ Keeps(ValueFor(kind, cell), value)
         /\ ValueFor(kind, cell) \in Value /\ ValueFor(kind, cell) # Null
         /\ kind = "string" => ValueFor(kind, cell).kind = "string"
         /\ kind # "string" => ValueFor(kind, cell) = cell
<1>1. value # Null /\ cell \in {value, Str(TextOf(value))}
  BY DEF Keeps
<1>2. TextOf(value) \in Text /\ TextOf(cell) \in Text
  BY <1>1, TextIs
<1>3. TextOf(cell) = TextOf(value)
  BY <1>1, <1>2, StrIs
<1>4. CASE kind = "string"
  <2>1. ValueFor(kind, cell) = Str(TextOf(value))
    BY <1>3, <1>4 DEF ValueFor
  <2> QED
    BY <2>1, <1>1, <1>2, <1>4, StrIs DEF Keeps
<1>5. CASE kind # "string"
  BY <1>5 DEF ValueFor
<1> QED
  BY <1>4, <1>5

LEMMA ColumnKindsFinite == IsFiniteSet(ColumnKinds)
<1>1. IsFiniteSet({"int"})
  BY FS_Singleton
<1>2. IsFiniteSet({"int"} \cup {"string"})
  BY <1>1, FS_AddElement
<1>3. IsFiniteSet({"int"} \cup {"string"} \cup {"json"})
  BY <1>2, FS_AddElement
<1>4. ColumnKinds = {"int"} \cup {"string"} \cup {"json"}
  BY DEF ColumnKinds
<1> QED
  BY <1>3, <1>4

\* The kind of a column, and of what it can hold.
LEMMA KindIs ==
  ASSUME NEW records, NEW arrived, Traced(records, arrived), NEW key \in Candidates(records)
  PROVE  /\ KindOf(records, key) \in ColumnKinds
         /\ \A r \in records :
              key \in DOMAIN r.fields /\ r.fields[key] # Null /\ KindOf(records, key) # "string"
                => r.fields[key].kind = KindOf(records, key)
<1> DEFINE kinds == KindsOf(records, key)
<1>1. ASSUME NEW kind \in kinds
      PROVE  kind \in ColumnKinds
  <2>1. PICK r \in records : key \in DOMAIN r.fields /\ kind = r.fields[key].kind /\ kind # "null"
    BY DEF KindsOf
  <2>2. r.fields[key] \in Value
    BY <2>1 DEF Traced
  <2> QED
    BY <2>1, <2>2, ValueIs DEF Null
<1>2. kinds # {}
  BY DEF Candidates
<1>3. ASSUME NEW r \in records, key \in DOMAIN r.fields, r.fields[key] # Null
      PROVE  r.fields[key].kind \in kinds
  <2>1. r.fields[key] \in Value
    BY <1>3 DEF Traced
  <2>2. r.fields[key].kind # "null"
    BY <2>1, <1>3, ValueIs
  <2> QED
    BY <2>2, <1>3 DEF KindsOf
<1>4. IsFiniteSet(kinds)
  <2>1. IsFiniteSet(ColumnKinds)
    BY ColumnKindsFinite
  <2>2. kinds \subseteq ColumnKinds
    BY <1>1
  <2> QED
    BY <2>1, <2>2, FS_Subset
<1>5. KindOf(records, key) = IF Cardinality(kinds) = 1 THEN CHOOSE kind \in kinds : TRUE ELSE "string"
  BY DEF KindOf
<1> HIDE DEF kinds
<1>6. CASE Cardinality(kinds) = 1
  <2>1. PICK x : kinds = {x}
    BY <1>4, <1>6, FS_Singleton
  <2>2. KindOf(records, key) = x
    BY <1>5, <1>6, <2>1
  <2> QED
    BY <1>1, <1>3, <2>1, <2>2
<1>7. CASE Cardinality(kinds) # 1
  BY <1>5, <1>7 DEF ColumnKinds
<1> QED
  BY <1>6, <1>7

LEMMA SchemaIs ==
  ASSUME NEW records, NEW c \in BuildSchema(records)
  PROVE  /\ c.key \in Candidates(records) /\ c.key \in Key
         /\ c.kind = KindOf(records, c.key)
BY DEF BuildSchema, Candidates

\* What a row keeps of a record.
LEMMA StoredIs ==
  ASSUME NEW records, NEW arrived, Traced(records, arrived), arrived \in Seq(Arrival),
         NEW r \in records, NEW fields, fields = StoredFields(BuildSchema(records), r.fields)
  PROVE  /\ DOMAIN fields \subseteq DOMAIN r.fields
         /\ \A key \in DOMAIN fields :
              /\ fields[key] \in Value /\ fields[key] # Null
              /\ Keeps(fields[key], arrived[r.seq].fields[key])
              /\ \E c \in BuildSchema(records) : c.key = key /\ c.kind = fields[key].kind
<1> DEFINE columns == BuildSchema(records)
           kept == {c.key : c \in {c \in columns : c.key \in DOMAIN r.fields /\ r.fields[c.key] # Null}}
           column(key) == CHOOSE c \in columns : c.key = key
<1>1. /\ DOMAIN fields = kept
      /\ \A key \in kept : fields[key] = ValueFor(column(key).kind, r.fields[key])
  BY DEF StoredFields
<1>2. ASSUME NEW key \in kept
      PROVE  /\ key \in DOMAIN r.fields /\ r.fields[key] # Null
             /\ column(key) \in columns /\ column(key).key = key
  <2>1. \E c \in columns : c.key = key
    OBVIOUS
  <2>2. column(key) \in columns /\ column(key).key = key
    BY <2>1
  <2> QED
    BY <2>2
<1> HIDE DEF kept, columns, column
<1>3. ASSUME NEW key \in kept
      PROVE  /\ fields[key] \in Value /\ fields[key] # Null
             /\ Keeps(fields[key], arrived[r.seq].fields[key])
             /\ \E c \in columns : c.key = key /\ c.kind = fields[key].kind
  <2> DEFINE cell == r.fields[key]
             value == arrived[r.seq].fields[key]
             kind == column(key).kind
  <2>1. key \in DOMAIN r.fields /\ cell # Null
    BY <1>2
  <2>2. cell \in Value /\ Keeps(cell, value)
    BY <2>1 DEF Traced
  <2>3. value \in Value
    <3>1. r.seq \in 1 .. Len(arrived) /\ key \in DOMAIN arrived[r.seq].fields
      BY <2>1 DEF Traced
    <3>2. arrived[r.seq] \in Arrival
      BY <3>1
    <3> QED
      BY <3>1, <3>2, ArrivalIs
  <2>4. key \in Candidates(records) /\ kind = KindOf(records, key)
    BY <1>2, SchemaIs DEF columns
  <2>5. kind # "string" => cell.kind = kind
    BY <2>1, <2>4, KindIs
  <2>6. fields[key] = ValueFor(kind, cell)
    BY <1>1
  <2> HIDE DEF cell, value, kind
  <2>7. /\ Keeps(fields[key], value) /\ fields[key] \in Value /\ fields[key] # Null
        /\ kind = "string" => fields[key].kind = "string"
        /\ kind # "string" => fields[key] = cell
    BY <2>1, <2>2, <2>3, <2>6, KeepsAgain
  <2>8. fields[key].kind = kind
    BY <2>5, <2>7
  <2> QED
    BY <2>7, <2>8, <1>2 DEF value, kind
<1> QED
  <2>1. DOMAIN fields \subseteq DOMAIN r.fields
    BY <1>1, <1>2
  <2> QED
    BY <2>1, <1>1, <1>3 DEF columns

\* A file of records that come from lines holds rows that do, in columns of their kinds.
LEMMA WrittenFits ==
  ASSUME NEW records, NEW arrived, Traced(records, arrived), arrived \in Seq(Arrival),
         NEW keepRaw \in BOOLEAN, NEW level, NEW floor
  PROVE  Housed(FileOf(records, keepRaw, level, floor), arrived)
<1> DEFINE f == FileOf(records, keepRaw, level, floor)
           columns == BuildSchema(records)
           rowOf(r) == [r EXCEPT !.fields = StoredFields(columns, @), !.raw = @ /\ keepRaw]
<1>1. f.columns = columns /\ f.raw = keepRaw /\ f.rows = {rowOf(r) : r \in records}
  BY DEF FileOf, Written
<1>2. ASSUME NEW r \in records
      PROVE  /\ DOMAIN rowOf(r) = {"fields", "level", "json", "raw", "ts", "seq"}
             /\ rowOf(r).fields = StoredFields(columns, r.fields)
             /\ rowOf(r).raw = (r.raw /\ keepRaw)
             /\ rowOf(r).ts = r.ts /\ rowOf(r).seq = r.seq /\ rowOf(r).level = r.level
  <2>1. DOMAIN r = {"fields", "level", "json", "raw", "ts", "seq"}
    BY DEF Traced
  <2> HIDE DEF columns
  <2> QED
    BY <2>1
<1> HIDE DEF rowOf, f
<1>3. ASSUME NEW r \in records
      PROVE  LET row == rowOf(r) IN
             /\ DOMAIN row = {"fields", "level", "json", "raw", "ts", "seq"}
             /\ row.ts \in Int /\ row.raw \in BOOLEAN /\ row.seq \in 1 .. Len(arrived)
             /\ row.level \in Nat
             /\ row.raw => keepRaw
             /\ DOMAIN row.fields \subseteq DOMAIN arrived[row.seq].fields
             /\ \A key \in DOMAIN row.fields :
                  /\ row.fields[key] \in Value /\ row.fields[key] # Null
                  /\ Keeps(row.fields[key], arrived[row.seq].fields[key])
                  /\ \E c \in columns : c.key = key /\ c.kind = row.fields[key].kind
  <2> DEFINE row == rowOf(r)
             fields == row.fields
  <2>1. /\ DOMAIN row = {"fields", "level", "json", "raw", "ts", "seq"}
        /\ fields = StoredFields(columns, r.fields) /\ row.raw = (r.raw /\ keepRaw)
        /\ row.ts = r.ts /\ row.seq = r.seq /\ row.level = r.level
    BY <1>2
  <2>2. /\ r.ts \in Int /\ r.raw \in BOOLEAN /\ r.seq \in 1 .. Len(arrived) /\ r.level \in Nat
        /\ DOMAIN r.fields \subseteq DOMAIN arrived[r.seq].fields
    BY DEF Traced
  <2> HIDE DEF fields
  <2>3. /\ DOMAIN fields \subseteq DOMAIN r.fields
        /\ \A key \in DOMAIN fields :
              /\ fields[key] \in Value /\ fields[key] # Null
              /\ Keeps(fields[key], arrived[r.seq].fields[key])
              /\ \E c \in columns : c.key = key /\ c.kind = fields[key].kind
    <3>1. fields = StoredFields(columns, r.fields)
      BY <2>1
    <3> HIDE DEF row
    <3> QED
      BY <3>1, StoredIs
  <2> HIDE DEF columns, row
  <2>4. /\ row.ts \in Int /\ row.raw \in BOOLEAN /\ row.seq \in 1 .. Len(arrived)
        /\ row.level \in Nat
        /\ row.raw => keepRaw
    BY <2>1, <2>2
  <2>5. /\ DOMAIN fields \subseteq DOMAIN arrived[row.seq].fields
        /\ \A key \in DOMAIN fields : Keeps(fields[key], arrived[row.seq].fields[key])
    BY <2>1, <2>2, <2>3
  <2> QED
    BY <2>1, <2>3, <2>4, <2>5 DEF row, fields
<1>4. Traced(f.rows, arrived)
  <2> HIDE DEF columns
  <2> SUFFICES ASSUME NEW row \in f.rows
               PROVE  /\ DOMAIN row = {"fields", "level", "json", "raw", "ts", "seq"}
                      /\ row.ts \in Int /\ row.raw \in BOOLEAN /\ row.seq \in 1 .. Len(arrived)
                      /\ row.level \in Nat
                      /\ DOMAIN row.fields \subseteq DOMAIN arrived[row.seq].fields
                      /\ \A key \in DOMAIN row.fields :
                           /\ row.fields[key] \in Value
                           /\ Keeps(row.fields[key], arrived[row.seq].fields[key])
    BY DEF Traced
  <2>1. PICK r \in records : row = rowOf(r)
    BY <1>1
  <2> QED
    BY <2>1, <1>3
<1>5. ASSUME NEW c \in f.columns
      PROVE  /\ c.key \in Key /\ c.kind \in ColumnKinds
             /\ \A d \in f.columns : c.key = d.key => c.kind = d.kind
  BY <1>1, SchemaIs, KindIs
<1>6. ASSUME NEW row \in f.rows
      PROVE  /\ row.raw => f.raw
             /\ \A key \in DOMAIN row.fields :
                  /\ row.fields[key] # Null
                  /\ \E c \in f.columns : c.key = key /\ c.kind = row.fields[key].kind
  <2> HIDE DEF columns
  <2>1. PICK r \in records : row = rowOf(r)
    BY <1>1
  <2> QED
    BY <2>1, <1>1, <1>3
<1> QED
  <2>1. f.raw \in BOOLEAN
    BY <1>1
  <2> HIDE DEF columns
  <2> QED
    BY <2>1, <1>4, <1>5, <1>6 DEF Housed, f

\* Rows are written with the times and ranks they had, and no others are.
LEMMA WrittenRows ==
  ASSUME NEW records, Dated(records), NEW keepRaw, NEW level, NEW floor
  PROVE  LET f == FileOf(records, keepRaw, level, floor)
         IN  /\ f.raw = keepRaw /\ f.floor = floor /\ Dated(f.rows)
             /\ \A r \in records : \E row \in f.rows : row.ts = r.ts
             /\ \A row \in f.rows : \E r \in records : row.level = r.level
<1> DEFINE f == FileOf(records, keepRaw, level, floor)
           columns == BuildSchema(records)
           rowOf(r) == [r EXCEPT !.fields = StoredFields(columns, @), !.raw = @ /\ keepRaw]
<1>1. Written(records, keepRaw) =
        [columns |-> columns, raw |-> keepRaw, rows |-> {rowOf(r) : r \in records}]
  BY DEF Written
<1> HIDE DEF columns
<1>2. \A r \in records : /\ {"ts", "level", "fields", "raw"} \subseteq DOMAIN rowOf(r)
                         /\ rowOf(r).ts = r.ts /\ rowOf(r).level = r.level
                         /\ r.ts \in Int /\ r.level \in Nat
  BY DEF Dated
<1> HIDE DEF rowOf
<1>3. f.raw = keepRaw /\ f.floor = floor /\ f.rows = {rowOf(r) : r \in records}
  BY <1>1 DEF FileOf
<1> QED
  BY <1>2, <1>3 DEF Dated

------------------------------------------------------------------------------
(* What is read of a row. *)

LEMMA ResolveIs ==
  ASSUME NEW read, NEW field
  PROVE  LET r == Resolve(read, field)
             name == ColumnName(read, field.key)
             kind == FactKind(read, field.key)
         IN  /\ r.form \in {"none", "raw", "column", "both"} /\ r.number \in BOOLEAN
             /\ r.form = "none" => WithRaw(read) = {}
             /\ r.form \in {"none", "raw"} => r.number = FALSE
             /\ r.form \in {"column", "both"} => /\ r.name = name /\ name # {}
                                                 /\ field.inner => kind = "json" /\ r.number = FALSE
                                                 /\ ~field.inner => r.number = (kind = "int")
             /\ r.form = "column" => Missing(read, field.key) = {} \/ WithRaw(read) = {}
<1> DEFINE r == Resolve(read, field)
           name == ColumnName(read, field.key)
           kind == FactKind(read, field.key)
           form == IF Missing(read, field.key) = {} \/ WithRaw(read) = {} THEN "column" ELSE "both"
<1>1. r = IF name = {} THEN FromRaw(read)
          ELSE IF ~field.inner THEN Resolution(form, kind = "int", name)
          ELSE IF kind = "json" THEN Resolution(form, FALSE, name) ELSE FromRaw(read)
  BY DEF Resolve
<1>2. /\ FromRaw(read).form \in {"none", "raw"} /\ FromRaw(read).number = FALSE
      /\ FromRaw(read).form = "none" => WithRaw(read) = {}
  BY DEF FromRaw, Resolution
<1>3. ASSUME NEW number, NEW x
      PROVE  /\ Resolution(x, number, name).form = x /\ Resolution(x, number, name).number = number
             /\ Resolution(x, number, name).name = name
  BY DEF Resolution
<1>4. /\ form \in {"column", "both"}
      /\ form = "column" => Missing(read, field.key) = {} \/ WithRaw(read) = {}
  OBVIOUS
<1> HIDE DEF form, name, kind, r
<1>5. CASE name = {}
  BY <1>1, <1>2, <1>5 DEF r
<1>6. CASE name # {} /\ ~field.inner
  <2>1. r = Resolution(form, kind = "int", name)
    BY <1>1, <1>6
  <2>2. r.form = form /\ r.name = name /\ r.number = (kind = "int")
    BY <2>1, <1>3
  <2> QED
    BY <2>2, <1>4, <1>6 DEF r, name, kind
<1>7. CASE name # {} /\ field.inner /\ kind = "json"
  <2>1. r = Resolution(form, FALSE, name)
    BY <1>1, <1>7
  <2>2. r.form = form /\ r.name = name /\ r.number = FALSE
    BY <2>1, <1>3
  <2> QED
    BY <2>2, <1>4, <1>7 DEF r, name, kind
<1>8. CASE name # {} /\ field.inner /\ kind # "json"
  BY <1>1, <1>2, <1>8 DEF r
<1> QED
  BY <1>5, <1>6, <1>7, <1>8

\* What a row has in the columns of these names.
CellOf(row, f, names) ==
  UNION {ValueAt(row.fields, c.key) : c \in {c \in f.columns : c.name \in names}}

\* The column read of a row is that of the key, in every file.
LEMMA CellIs ==
  ASSUME NEW read, NEW f \in read, NEW key \in Key, NEW arrived, Housed(f, arrived),
         ColumnName(read, key) # {}, NEW row \in f.rows
  PROVE  CellOf(row, f, ColumnName(read, key)) = ValueAt(row.fields, key)
<1> DEFINE names == ColumnName(read, key)
           chosen == {c \in f.columns : c.name \in names}
<1>1. names = {c.name : c \in ColumnsOf(read, key)} /\ ~Shared(read, key)
  BY DEF ColumnName
<1>2. \A c \in f.columns : c.key = key => c \in ColumnsOf(read, key)
  BY DEF ColumnsOf
<1>3. \A c \in f.columns : c.key \in Key
  BY DEF Housed
<1>4. ASSUME NEW c \in chosen
      PROVE  c.key = key
  <2>1. PICK d \in ColumnsOf(read, key) : d.name = c.name
    BY <1>1
  <2>2. c \in ColumnsOf(read, c.key)
    BY DEF ColumnsOf
  <2> QED
    BY <1>1, <1>3, <2>1, <2>2 DEF Shared
<1>5. CASE ValueAt(row.fields, key) = {}
  <2>1. \A c \in chosen : ValueAt(row.fields, c.key) = {}
    BY <1>4, <1>5
  <2> HIDE DEF chosen
  <2>2. UNION {ValueAt(row.fields, c.key) : c \in chosen} = {}
    BY <2>1
  <2> QED
    BY <2>2, <1>5 DEF chosen, names, CellOf
<1>6. CASE ValueAt(row.fields, key) # {}
  <2>1. key \in DOMAIN row.fields
    BY <1>6 DEF ValueAt
  <2>2. PICK c \in f.columns : c.key = key
    BY <2>1 DEF Housed
  <2>3. c \in chosen
    BY <1>1, <1>2, <2>2
  <2> HIDE DEF chosen
  <2>4. UNION {ValueAt(row.fields, x.key) : x \in chosen} = ValueAt(row.fields, key)
    BY <1>4, <2>2, <2>3
  <2> QED
    BY <2>4 DEF chosen, names, CellOf
<1> QED
  BY <1>5, <1>6

\* A kind that is a number or an object is the kind of every column of the key.
LEMMA FactIs ==
  ASSUME NEW read, NEW f \in read, NEW key \in Key, NEW arrived, Housed(f, arrived),
         FactKind(read, key) \in {"int", "json"}, IsFiniteSet({c.kind : c \in ColumnsOf(read, key)}),
         NEW c \in f.columns, c.key = key
  PROVE  c.kind = FactKind(read, key)
<1> DEFINE kinds == {x.kind : x \in ColumnsOf(read, key)}
<1>1. c.kind \in kinds
  BY DEF ColumnsOf
<1>2. FactKind(read, key) = IF Cardinality(kinds) = 1 THEN CHOOSE kind \in kinds : TRUE ELSE "string"
  BY DEF FactKind
<1>3. IsFiniteSet(kinds)
  OBVIOUS
<1> HIDE DEF kinds
<1>4. Cardinality(kinds) = 1
  BY <1>2
<1>5. PICK x : kinds = {x}
  BY <1>3, <1>4, FS_Singleton
<1> QED
  BY <1>1, <1>2, <1>4, <1>5

\* Nothing, or one value.
ValuesFit(values) == values = {} \/ \E value \in Value \ {Null} : values = {value}

LEMMA MembersIs ==
  ASSUME NEW value \in Value
  PROVE  /\ value.kind = "json" => Members({value}) = {Str(1)}
         /\ value.kind # "json" => Members({value}) = {}
<1>1. CASE value.kind = "json"
  <2>1. {x \in {value} : x.kind = "json"} = {value}
    BY <1>1
  <2> QED
    BY <2>1, <1>1 DEF Members, Member
<1>2. CASE value.kind # "json"
  <2>1. {x \in {value} : x.kind = "json"} = {}
    BY <1>2
  <2> QED
    BY <2>1, <1>2 DEF Members
<1> QED
  BY <1>1, <1>2

LEMMA MembersNone == Members({}) = {}
BY DEF Members

LEMMA LookupIs ==
  ASSUME NEW field, NEW fields,
         \A key \in DOMAIN fields : fields[key] \in Value
  PROVE  LET values == Lookup(fields, field)
             value == fields[field.key]
         IN  /\ ValuesFit(values)
             /\ field.key \in DOMAIN fields /\ value # Null =>
                  /\ ~field.inner => values = {value}
                  /\ field.inner /\ value.kind = "json" => values = {Str(1)}
<1> DEFINE value == fields[field.key]
           values == Lookup(fields, field)
<1>1. Str(1) \in Value \ {Null}
  BY StrIs DEF Text
<1>2. CASE field.key \in DOMAIN fields /\ value # Null
  <2>1. value \in Value \ {Null} /\ ValueAt(fields, field.key) = {value}
    BY <1>2 DEF ValueAt
  <2> HIDE DEF value
  <2>2. CASE ~field.inner
    <3>1. values = {value}
      BY <2>1, <2>2 DEF Lookup
    <3> HIDE DEF values
    <3> QED
      BY <3>1, <2>1, <2>2 DEF ValuesFit, value, values
  <2>3. CASE field.inner
    <3>1. values = Members({value})
      BY <2>1, <2>3 DEF Lookup
    <3>2. /\ value.kind = "json" => values = {Str(1)}
          /\ value.kind # "json" => values = {}
      BY <2>1, <3>1, MembersIs
    <3> HIDE DEF values
    <3> QED
      BY <3>2, <1>1, <2>3 DEF ValuesFit, value, values
  <2> QED
    BY <2>2, <2>3
<1>3. CASE ~(field.key \in DOMAIN fields /\ value # Null)
  <2>1. ValueAt(fields, field.key) = {}
    BY <1>3 DEF ValueAt
  <2>2. values = {}
    BY <2>1, MembersNone DEF Lookup
  <2> QED
    BY <2>2, <1>3 DEF ValuesFit
<1> QED
  BY <1>2, <1>3

LEMMA AsTextIs ==
  /\ AsText({}) = {}
  /\ \A value : AsText({value}) = {Str(TextOf(value))}
BY DEF AsText

LEMMA KindsFinite ==
  ASSUME NEW read, NEW arrived, \A f \in read : Housed(f, arrived), NEW key
  PROVE  IsFiniteSet({c.kind : c \in ColumnsOf(read, key)})
<1>1. IsFiniteSet(ColumnKinds)
  BY ColumnKindsFinite
<1>2. {c.kind : c \in ColumnsOf(read, key)} \subseteq ColumnKinds
  BY DEF ColumnsOf, Housed
<1> QED
  BY <1>1, <1>2, FS_Subset

\* A column read of a row is empty only where the row keeps nothing of the key, and has
\* the value of the line otherwise: as it is, or as text.
ColumnFits(resolution, field, row, values, column) ==
  /\ column = {} => field.key \notin DOMAIN row.fields
  /\ column = {} \/ \E value \in Value \ {Null} :
       /\ values = {value}
       /\ ~resolution.number => column = {Str(TextOf(value))}
       /\ resolution.number => column = {value} /\ value.kind = "int"

\* What a row keeps of a field: nothing, or what its line has, as text where it is read
\* as text.
LEMMA ColumnHas ==
  ASSUME NEW read, NEW arrived, arrived \in Seq(Arrival), \A f \in read : Housed(f, arrived),
         NEW f \in read, NEW row \in f.rows, NEW field \in Field,
         Resolve(read, field).form \in {"column", "both"}
  PROVE  ColumnFits(Resolve(read, field), field, row, Lookup(arrived[row.seq].fields, field),
                    ColumnExpr(Resolve(read, field), field, f, row))
<1> DEFINE resolution == Resolve(read, field)
           key == field.key
           line == arrived[row.seq].fields
           values == Lookup(line, field)
           column == ColumnExpr(resolution, field, f, row)
           name == ColumnName(read, key)
           kind == FactKind(read, key)
           cell == ValueAt(row.fields, key)
<1> SUFFICES ColumnFits(resolution, field, row, values, column)
  OBVIOUS
<1>1. /\ resolution.name = name /\ name # {}
      /\ field.inner => kind = "json" /\ resolution.number = FALSE
      /\ ~field.inner => resolution.number = (kind = "int")
  BY ResolveIs
<1>2. key \in Key
  BY DEF Field
<1>3. column = IF field.inner THEN Members(cell) ELSE IF resolution.number THEN cell ELSE AsText(cell)
  <2>1. CellOf(row, f, name) = cell
    BY <1>1, <1>2, CellIs
  <2>2. UNION {ValueAt(row.fields, c.key) : c \in {c \in f.columns : c.name \in resolution.name}} = cell
    BY <2>1, <1>1 DEF CellOf
  <2> HIDE DEF cell, resolution
  <2> QED
    BY <2>2 DEF ColumnExpr
<1> HIDE DEF column, resolution, name
<1>4. CASE key \notin DOMAIN row.fields
  <2>1. cell = {}
    BY <1>4 DEF ValueAt
  <2>2. column = {}
    BY <2>1, <1>3, MembersNone, AsTextIs
  <2> QED
    BY <2>2, <1>4 DEF ColumnFits
<1>5. CASE key \in DOMAIN row.fields
  <2> DEFINE kept == row.fields[key]
             value == line[key]
  <2>1. /\ kept # Null /\ kept \in Value /\ Keeps(kept, value) /\ key \in DOMAIN line
    BY <1>5 DEF Housed, Traced
  <2>2. cell = {kept}
    BY <1>5, <2>1 DEF ValueAt
  <2>3. PICK c \in f.columns : c.key = key /\ c.kind = kept.kind
    BY <1>5 DEF Housed
  <2>4. kind \in {"int", "json"} => kept.kind = kind
    BY <2>3, <1>2, FactIs, KindsFinite
  <2>5. \A k \in DOMAIN line : line[k] \in Value
    <3>1. row.seq \in 1 .. Len(arrived)
      BY DEF Housed, Traced
    <3>2. arrived[row.seq] \in Arrival
      BY <3>1
    <3> QED
      BY <3>2, ArrivalIs
  <2>6. value \in Value /\ value # Null
    BY <2>1, <2>5 DEF Keeps
  <2>7. /\ ~field.inner => values = {value}
        /\ field.inner /\ value.kind = "json" => values = {Str(1)}
    BY <2>5, <2>6, <2>1, LookupIs
  <2> HIDE DEF kept, value, values, line, kind, cell
  <2>8. /\ TextOf(value) \in Text /\ kept \in {value, Str(TextOf(value))}
        /\ Str(TextOf(value)).kind = "string" /\ TextOf(Str(TextOf(value))) = TextOf(value)
    BY <2>1, <2>6, TextIs, StrIs DEF Keeps
  <2>9. TextOf(kept) = TextOf(value) /\ (kept.kind \in {"int", "json"} => kept = value)
    BY <2>8
  <2>10. CASE field.inner
    <3>1. kept = value /\ value.kind = "json"
      BY <2>4, <2>9, <2>10, <1>1
    <3>2. column = {Str(1)} /\ values = {Str(1)}
      BY <3>1, <2>2, <2>6, <2>7, <2>10, <1>3, MembersIs
    <3>3. Str(1) \in Value \ {Null} /\ Str(TextOf(Str(1))) = Str(1)
      BY StrIs DEF Text
    <3> QED
      BY <3>2, <3>3, <2>10, <1>1 DEF ColumnFits
  <2>11. CASE ~field.inner /\ resolution.number
    <3>1. kept = value /\ value.kind = "int"
      BY <2>4, <2>9, <2>11, <1>1
    <3>2. column = {value}
      BY <3>1, <2>2, <2>11, <1>3
    <3> QED
      BY <3>1, <3>2, <2>6, <2>7, <2>11 DEF ColumnFits
  <2>12. CASE ~field.inner /\ ~resolution.number
    <3>1. column = {Str(TextOf(value))}
      BY <2>2, <2>9, <2>12, <1>3, AsTextIs
    <3> QED
      BY <3>1, <2>6, <2>7, <2>12 DEF ColumnFits
  <2> QED
    BY <2>10, <2>11, <2>12
<1> QED
  BY <1>4, <1>5

\* What the raw line of a row answers, where it is read.
LEMMA RawAgrees ==
  ASSUME NEW field, NEW fields, NEW row, row.raw, row.json, NEW value \in Value, value # Null,
         Lookup(fields, field) = {value},
         NEW resolution, resolution.form # "none", resolution.number \in BOOLEAN,
         NEW n \in Comparison, ~ReadAsOther(n, resolution, {value})
  PROVE  Selects(resolution, n, RawExpr(resolution, field, fields, row)) <=> Predicate(n, {value})
<1> DEFINE raw == RawExpr(resolution, field, fields, row)
           text == {Str(TextOf(value))}
<1>1. AsText(Lookup(fields, field)) = text
  BY AsTextIs
<1>2. raw = IF resolution.number
            THEN {Int_(NumberIn[x.v]) : x \in {x \in text : x.v \in NumberText}}
            ELSE text
  <2> HIDE DEF text
  <2> QED
    BY <1>1 DEF RawExpr
<1> HIDE DEF raw
<1>3. CASE ~resolution.number
  <2>1. raw = text
    BY <1>2, <1>3
  <2>2. ~(value.kind = "int" /\ n.literal.kind = "string")
    BY <1>3 DEF ReadAsOther
  <2> QED
    BY <2>1, <2>2, <1>3, TextAgrees DEF raw
<1>4. CASE resolution.number /\ value.kind = "int"
  <2>1. /\ TextOf(value) \in NumberText /\ TextOf(value) \in Text
        /\ NumberIn[TextOf(value)] = value.v
    BY <1>4, TextIs
  <2>2. {x \in text : x.v \in NumberText} = text
    BY <2>1, StrIs
  <2>3. Str(TextOf(value)).v = TextOf(value) /\ value = Int_(value.v)
    BY <2>1, <1>4, StrIs, ValueIs DEF Int_
  <2>4. raw = {value}
    BY <2>1, <2>2, <2>3, <1>2, <1>4
  <2> HIDE DEF text
  <2>5. Selects(resolution, n, {value}) <=> Predicate(n, {value})
    BY <1>4, NumberAgrees
  <2> QED
    BY <2>4, <2>5 DEF raw
<1>5. CASE resolution.number /\ value.kind # "int"
  <2>1. n.literal.kind = "number"
    BY <1>5 DEF ReadAsOther
  <2>2. raw = {Int_(NumberIn[x.v]) : x \in {x \in text : x.v \in NumberText}}
    BY <1>2, <1>5
  <2>3. Selects(resolution, n, {Int_(NumberIn[x.v]) : x \in {x \in text : x.v \in NumberText}})
          <=> Predicate(n, {value})
    BY <2>1, <1>5, CastAgrees
  <2> HIDE DEF text
  <2> QED
    BY <2>2, <2>3 DEF raw
<1> QED
  BY <1>3, <1>4, <1>5

\* A row of a file that is as it should be is selected just when its line would be.
LEMMA RowAgrees ==
  ASSUME NEW read, NEW arrived, arrived \in Seq(Arrival), \A f \in read : Housed(f, arrived),
         NEW f \in read, NEW row \in f.rows, NEW field \in Field,
         ~LostWithRaw(Resolve(read, field), field, Lookup(arrived[row.seq].fields, field), f, row),
         ~NotInLine(Resolve(read, field), field, Lookup(arrived[row.seq].fields, field), f, row),
         ~SqueezedOut(Resolve(read, field), field, Lookup(arrived[row.seq].fields, field), f, row),
         NEW n \in Comparison,
         ~ReadAsOther(n, Resolve(read, field), Lookup(arrived[row.seq].fields, field))
  PROVE  Selects(Resolve(read, field), n,
                 Expr(Resolve(read, field), field, arrived[row.seq].fields, f, row))
           <=> Predicate(n, Lookup(arrived[row.seq].fields, field))
<1> DEFINE resolution == Resolve(read, field)
           line == arrived[row.seq].fields
           values == Lookup(line, field)
           column == ColumnExpr(resolution, field, f, row)
           raw == RawExpr(resolution, field, line, row)
           expr == Expr(resolution, field, line, f, row)
<1>1. /\ resolution.form \in {"none", "raw", "column", "both"} /\ resolution.number \in BOOLEAN
      /\ resolution.form = "none" => WithRaw(read) = {}
      /\ resolution.form = "raw" => resolution.number = FALSE
      /\ resolution.form = "column" => Missing(read, field.key) = {} \/ WithRaw(read) = {}
  BY ResolveIs
<1>2. row.raw => f \in WithRaw(read)
  BY DEF Housed, WithRaw
<1>3. ValuesFit(values)
  <2>1. row.seq \in 1 .. Len(arrived)
    BY DEF Housed, Traced
  <2>2. arrived[row.seq] \in Arrival
    BY <2>1
  <2> QED
    BY <2>2, ArrivalIs, LookupIs
<1>4. resolution.form \in {"column", "both"} => ColumnFits(resolution, field, row, values, column)
  BY ColumnHas
<1>5. expr = CASE resolution.form = "column" -> column
               [] resolution.form = "raw" -> raw
               [] OTHER -> IF column # {} THEN column ELSE raw
  BY DEF Expr
<1>6. /\ ~LostWithRaw(resolution, field, values, f, row)
      /\ ~NotInLine(resolution, field, values, f, row)
      /\ ~SqueezedOut(resolution, field, values, f, row)
      /\ ~ReadAsOther(n, resolution, values)
  OBVIOUS
<1>7. ~row.raw => /\ resolution.form \notin {"none", "raw"}
                  /\ values = {} \/ column # {}
  BY <1>6 DEF LostWithRaw
<1>8. resolution.form # "none"
  BY <1>1, <1>2, <1>7
<1>9. values = {} => raw = {}
  <2>1. values = {} => RawExpr(resolution, field, line, row) = {}
    <3>1. CASE ~(row.raw /\ row.json)
      BY <3>1 DEF RawExpr
    <3>2. CASE values = {} /\ row.raw /\ row.json
      <4>1. AsText(Lookup(line, field)) = {}
        BY <3>2, AsTextIs
      <4> HIDE DEF resolution, line
      <4> QED
        BY <4>1, <3>2 DEF RawExpr
    <3> QED
      BY <3>1, <3>2
  <2> QED
    BY <2>1
<1>10. ASSUME row.raw, row.json, values # {}
       PROVE  Selects(resolution, n, raw) <=> Predicate(n, values)
  <2>1. PICK value \in Value \ {Null} : values = {value}
    BY <1>3, <1>10 DEF ValuesFit
  <2>2. Lookup(line, field) = {value} /\ ~ReadAsOther(n, resolution, {value})
    BY <2>1, <1>6
  <2> HIDE DEF resolution, line
  <2>3. Selects(resolution, n, RawExpr(resolution, field, line, row)) <=> Predicate(n, {value})
    BY <2>2, <1>1, <1>8, <1>10, RawAgrees
  <2> QED
    BY <2>1, <2>3
<1>11. resolution.form = "column" /\ column = {} => values = {}
  <2> SUFFICES ASSUME resolution.form = "column", column = {}, values # {}
               PROVE  FALSE
    OBVIOUS
  <2>1. row.raw
    BY <1>7
  <2>2. Missing(read, field.key) = {}
    BY <2>1, <1>1, <1>2
  <2>3. Present({f}, field.key) # {}
    BY <2>2 DEF Missing, Present
  <2>4. field.key \notin DOMAIN row.fields
    BY <1>4 DEF ColumnFits
  <2> HIDE DEF resolution, values, column
  <2> QED
    BY <2>3, <2>4, <1>6 DEF SqueezedOut
<1> SUFFICES Selects(resolution, n, expr) <=> Predicate(n, values)
  OBVIOUS
<1> HIDE DEF resolution, line, values, column, raw, expr
<1>12. Selects(resolution, n, {}) <=> Predicate(n, {})
  BY <1>8, NothingAgrees
<1>13. CASE resolution.form \in {"column", "both"} /\ column # {}
  <2>1. expr = column
    BY <1>5, <1>13
  <2>2. PICK value \in Value \ {Null} :
          /\ values = {value}
          /\ ~resolution.number => column = {Str(TextOf(value))}
          /\ resolution.number => column = {value} /\ value.kind = "int"
    BY <1>4, <1>13 DEF ColumnFits
  <2>3. CASE resolution.number
    <3>1. resolution.number = TRUE
      BY <2>3, <1>1
    <3>2. Selects(resolution, n, {value}) <=> Predicate(n, {value})
      BY <3>1, <2>2, <1>8, NumberAgrees
    <3> QED
      BY <3>2, <2>1, <2>2, <2>3
  <2>4. CASE ~resolution.number
    <3>1. ~(value.kind = "int" /\ n.literal.kind = "string")
      BY <2>2, <2>4, <1>6 DEF ReadAsOther
    <3>2. Selects(resolution, n, {Str(TextOf(value))}) <=> Predicate(n, {value})
      BY <3>1, <2>2, <2>4, <1>8, TextAgrees
    <3> QED
      BY <3>2, <2>1, <2>2, <2>4
  <2> QED
    BY <2>3, <2>4
<1>14. CASE resolution.form = "column" /\ column = {}
  BY <1>5, <1>11, <1>12, <1>14
<1>15. CASE resolution.form = "raw" \/ (resolution.form = "both" /\ column = {})
  <2>1. expr = raw
    BY <1>5, <1>15
  <2>2. CASE values = {}
    BY <2>1, <2>2, <1>9, <1>12
  <2>3. CASE values # {}
    <3>1. row.raw
      BY <2>3, <1>7, <1>15
    <3>2. row.json
      BY <2>3, <3>1, <1>6, <1>15 DEF NotInLine, column
    <3> QED
      BY <2>1, <2>3, <3>1, <3>2, <1>10
  <2> QED
    BY <2>2, <2>3
<1> QED
  BY <1>1, <1>8, <1>13, <1>14, <1>15

------------------------------------------------------------------------------
(* The invariant. *)

\* Lines that arrive leave what rows have of earlier ones.
LEMMA MoreLines ==
  ASSUME NEW arrived \in Seq(Arrival), NEW more \in Seq(Arrival), NEW f, Housed(f, arrived)
  PROVE  Housed(f, arrived \o more)
<1>1. /\ Len(arrived) \in Nat /\ Len(more) \in Nat
      /\ Len(arrived \o more) = Len(arrived) + Len(more)
      /\ \A i \in 1 .. Len(arrived) + Len(more) :
            (arrived \o more)[i] = IF i <= Len(arrived) THEN arrived[i] ELSE more[i - Len(arrived)]
  BY ConcatProperties, LenProperties
<1>2. \A i \in 1 .. Len(arrived) : i \in 1 .. Len(arrived \o more) /\ (arrived \o more)[i] = arrived[i]
  BY <1>1
<1>3. Traced(f.rows, arrived \o more)
  <2> DEFINE all == arrived \o more
  <2> HIDE DEF all
  <2>1. \A i \in 1 .. Len(arrived) : i \in 1 .. Len(all) /\ all[i] = arrived[i]
    BY <1>2 DEF all
  <2>2. Traced(f.rows, arrived)
    BY DEF Housed
  <2>3. Traced(f.rows, all)
    BY <2>1, <2>2 DEF Traced
  <2> QED
    BY <2>3 DEF all
<1> QED
  BY <1>3 DEF Housed

LEMMA FlushStep ==
  ASSUME IInv, Flush
  PROVE  IInv'
<1>1. PICK n \in 1 .. MaxBatch : \E batch \in [1 .. n -> DOMAIN Menu] :
        LET arrived == [i \in 1 .. n |-> Arrived(Menu[batch[i]], Len(lines) + i)]
            records == {arrived[i] : i \in 1 .. n}
        IN  /\ lines' = lines \o arrived
            /\ files' = files \cup {FileOf(records, TRUE, 0, 0)} /\ now' = now
  BY DEF Flush
<1>2. PICK batch \in [1 .. n -> DOMAIN Menu] :
        LET arrived == [i \in 1 .. n |-> Arrived(Menu[batch[i]], Len(lines) + i)]
            records == {arrived[i] : i \in 1 .. n}
        IN  /\ lines' = lines \o arrived
            /\ files' = files \cup {FileOf(records, TRUE, 0, 0)} /\ now' = now
  BY <1>1
<1> DEFINE arrived == [i \in 1 .. n |-> Arrived(Menu[batch[i]], Len(lines) + i)]
           records == {arrived[i] : i \in 1 .. n}
<1>3. n \in Nat /\ Len(lines) \in Nat /\ now \in Nat /\ lines \in Seq(Arrival)
  BY HistoryAssumption DEF IInv
<1>4. ASSUME NEW i \in 1 .. n
      PROVE  /\ arrived[i] \in Arrival /\ arrived[i].raw = TRUE
             /\ DOMAIN arrived[i] = {"fields", "level", "json", "raw", "ts", "seq"}
             /\ arrived[i].seq = Len(lines) + i
  <2>1. batch[i] \in DOMAIN Menu
    OBVIOUS
  <2>2. Menu[batch[i]].level \in Nat /\ Menu[batch[i]].json \in BOOLEAN
    BY <2>1, HistoryAssumption
  <2>3. arrived[i] = [fields |-> Menu[batch[i]].fields, level |-> Menu[batch[i]].level,
                      json |-> Menu[batch[i]].json, raw |-> TRUE, ts |-> now,
                      seq |-> Len(lines) + i]
    BY DEF Arrived
  <2> HIDE DEF arrived
  <2>4. Len(lines) + i \in Nat /\ now \in Int
    BY <1>3
  <2> QED
    BY <2>1, <2>2, <2>3, <2>4 DEF Arrival
<1>5. arrived \in Seq(Arrival) /\ Len(arrived) = n
  <2>1. arrived \in [1 .. n -> Arrival]
    <3> SUFFICES \A i \in 1 .. n : arrived[i] \in Arrival
      OBVIOUS
    <3> QED
      BY <1>4
  <2> HIDE DEF arrived
  <2> QED
    BY <2>1, <1>3
<1> HIDE DEF arrived
<1>6. /\ lines' \in Seq(Arrival) /\ Len(lines') = Len(lines) + n
      /\ \A i \in 1 .. n : Len(lines) + i \in 1 .. Len(lines') /\ lines'[Len(lines) + i] = arrived[i]
  <2>1. lines' = lines \o arrived
    BY <1>2 DEF arrived
  <2>2. /\ lines' \in Seq(Arrival) /\ Len(lines') = Len(lines) + n
        /\ \A i \in 1 .. Len(lines) + n :
             lines'[i] = IF i <= Len(lines) THEN lines[i] ELSE arrived[i - Len(lines)]
    BY <2>1, <1>3, <1>5, ConcatProperties
  <2>3. ASSUME NEW i \in 1 .. n
        PROVE  Len(lines) + i \in 1 .. Len(lines') /\ lines'[Len(lines) + i] = arrived[i]
    <3>1. /\ Len(lines) + i \in 1 .. Len(lines) + n /\ ~(Len(lines) + i <= Len(lines))
          /\ Len(lines) + i - Len(lines) = i
      BY <1>3
    <3> QED
      BY <3>1, <2>2
  <2> QED
    BY <2>2, <2>3
<1>7. Traced(records, lines')
  <2> SUFFICES ASSUME NEW i \in 1 .. n
               PROVE  LET r == arrived[i] IN
                      /\ DOMAIN r = {"fields", "level", "json", "raw", "ts", "seq"}
                      /\ r.ts \in Int /\ r.level \in Nat /\ r.raw \in BOOLEAN
                      /\ r.seq \in 1 .. Len(lines')
                      /\ DOMAIN r.fields \subseteq DOMAIN lines'[r.seq].fields
                      /\ \A key \in DOMAIN r.fields :
                           /\ r.fields[key] \in Value
                           /\ r.fields[key] # Null => Keeps(r.fields[key], lines'[r.seq].fields[key])
    BY DEF Traced
  <2> DEFINE r == arrived[i]
  <2>1. /\ r \in Arrival /\ r.raw = TRUE /\ r.seq = Len(lines) + i
        /\ DOMAIN r = {"fields", "level", "json", "raw", "ts", "seq"}
    BY <1>4
  <2>2. r.seq \in 1 .. Len(lines') /\ lines'[r.seq] = r
    BY <2>1, <1>6
  <2>3. r.ts \in Int /\ r.level \in Nat /\ \A key \in DOMAIN r.fields : r.fields[key] \in Value
    BY <2>1, ArrivalIs DEF Arrival
  <2> HIDE DEF r
  <2>4. \A key \in DOMAIN r.fields :
           r.fields[key] # Null => Keeps(r.fields[key], lines'[r.seq].fields[key])
    BY <2>2 DEF Keeps
  <2> QED
    BY <2>1, <2>2, <2>3, <2>4 DEF r
<1>8. Housed(FileOf(records, TRUE, 0, 0), lines')
  <2> HIDE DEF records
  <2> QED
    BY <1>6, <1>7, WrittenFits
<1>9. ASSUME NEW f \in files
      PROVE  Housed(f, lines')
  <2>1. lines' = lines \o arrived /\ Housed(f, lines)
    BY <1>2 DEF arrived, IInv
  <2> QED
    BY <2>1, <1>3, <1>5, MoreLines
<1>10. files' = files \cup {FileOf(records, TRUE, 0, 0)} /\ now' = now
  BY <1>2 DEF arrived
<1> HIDE DEF records
<1> QED
  BY <1>3, <1>6, <1>8, <1>9, <1>10 DEF IInv

LEMMA MergeStep ==
  ASSUME IInv, NEW fs \in SUBSET files, NEW level, Merge(fs, level)
  PROVE  IInv'
<1> DEFINE kept == ApplyRetention(Rows(fs))
<1>1. /\ files' = (files \ fs) \cup (IF kept = {} THEN {} ELSE {Output(fs, kept, level)})
      /\ now' = now /\ lines' = lines
  BY DEF Merge
<1>2. Traced(kept, lines)
  BY DEF IInv, Housed, Traced, ApplyRetention, Rows
<1> HIDE DEF kept
<1>3. Housed(Output(fs, kept, level), lines)
  BY <1>2, WrittenFits DEF Output, KeepRaw, IInv
<1> QED
  BY <1>1, <1>3 DEF IInv

\* Through any number of flushes, merges and retention rewrites, every row is what is
\* left of the line it came with, and its file has a column for everything it holds.
THEOREM HistoryInvariant == Spec => []IInv
<1>1. Init => IInv
  BY DEF Init, IInv
<1>2. IInv /\ [Next]_vars => IInv'
  <2> SUFFICES ASSUME IInv, [Next]_vars
               PROVE  IInv'
    OBVIOUS
  <2>1. CASE Flush
    BY <2>1, FlushStep
  <2>2. CASE MergeLevel
    BY <2>2, MergeStep DEF MergeLevel
  <2>3. CASE RewriteLevel
    BY <2>3, MergeStep DEF RewriteLevel
  <2>4. CASE Tick \/ UNCHANGED vars
    BY <2>4 DEF Tick, vars, IInv
  <2> QED
    BY <2>1, <2>2, <2>3, <2>4 DEF Next
<1> QED
  BY <1>1, <1>2, PTL DEF Spec

------------------------------------------------------------------------------
(* What follows from it. *)

\* History, in SQL over whatever files a query reads and however often their rows were
\* merged, selects a row just when the live predicate would have selected its line, but
\* for the four exceptions HistoryIsLive names: a key of several kinds, a line that was
\* dropped, one that is not JSON where lines are read, and a value squeezed out of its
\* file (internal/query/resolve.go against internal/rql/predicate.go).
THEOREM HistoryAnswersAsLive == Spec => []HistoryIsLive
<1>1. IInv => HistoryIsLive
  <2> SUFFICES ASSUME IInv, NEW f \in files, NEW field \in Field,
                      NEW read \in SUBSET files, f \in read,
                      NEW row \in f.rows,
                      ~LostWithRaw(Resolve(read, field), field,
                                   Lookup(lines[row.seq].fields, field), f, row),
                      ~NotInLine(Resolve(read, field), field,
                                 Lookup(lines[row.seq].fields, field), f, row),
                      ~SqueezedOut(Resolve(read, field), field,
                                   Lookup(lines[row.seq].fields, field), f, row),
                      NEW n \in Comparison,
                      ~ReadAsOther(n, Resolve(read, field), Lookup(lines[row.seq].fields, field))
               PROVE  Selects(Resolve(read, field), n,
                              Expr(Resolve(read, field), field, lines[row.seq].fields, f, row))
                        <=> Predicate(n, Lookup(lines[row.seq].fields, field))
    BY DEF HistoryIsLive, Resolutions
  <2>1. lines \in Seq(Arrival) /\ \A g \in read : Housed(g, lines)
    BY DEF IInv
  <2> QED
    BY <2>1, RowAgrees
<1> QED
  BY <1>1, HistoryInvariant, PTL

LEMMA RetainedAreDated ==
  ASSUME IInv, NEW fs \in SUBSET files
  PROVE  Dated(Rows(fs)) /\ Dated(ApplyRetention(Rows(fs)))
<1>1. Dated(Rows(fs))
  <2>1. ASSUME NEW f \in fs, NEW r \in f.rows
        PROVE  {"ts", "level", "fields", "raw"} \subseteq DOMAIN r /\ r.ts \in Int /\ r.level \in Nat
    BY DEF IInv, Housed, Traced
  <2> QED
    BY <2>1 DEF Dated, Rows
<1> QED
  BY <1>1 DEF Dated, ApplyRetention

\* What a rewrite, or a merge, writes is not due for a rewrite as it is, and holds no
\* record below the rank it promises to have been freed of, in any state history can be
\* in: whole files and single records are judged by horizons that agree, at every rank,
\* age and clock (due, floorOf, applyRetention and keepRaw).
THEOREM RewritesSettle == Spec => []RewrittenOnce
<1>1. IInv => RewrittenOnce
  <2> SUFFICES ASSUME IInv, NEW fs \in SUBSET files, ApplyRetention(Rows(fs)) # {}
               PROVE  LET f == Output(fs, ApplyRetention(Rows(fs)), LastLevel)
                      IN  ~Due(f) /\ \A row \in f.rows : row.level >= f.floor
    BY DEF RewrittenOnce
  <2> DEFINE all == Rows(fs)
             kept == ApplyRetention(all)
             f == Output(fs, kept, LastLevel)
  <2>1. /\ Dated(all) /\ Dated(kept) /\ now \in Int
        /\ DropRawAfter \in Nat /\ DownsampleAfter \in Nat /\ MinLevelAfter \in Nat
    BY RetainedAreDated, HistoryAssumption DEF IInv
  <2> HIDE DEF all
  <2>2. /\ f.raw = KeepRaw(kept) /\ f.floor = FloorOf(all) /\ Dated(f.rows)
        /\ \A r \in kept : \E row \in f.rows : row.ts = r.ts
        /\ \A row \in f.rows : \E r \in kept : row.level = r.level
    <3> HIDE DEF kept
    <3> QED
      BY <2>1, WrittenRows DEF Output, all
  <2> HIDE DEF f
  <2>3. ~(f.raw /\ Past(f, DropRawAfter))
    <3> SUFFICES ASSUME f.raw, Past(f, DropRawAfter)
                 PROVE  FALSE
      OBVIOUS
    <3>1. PICK r \in kept : r.ts > now - DropRawAfter
      BY <2>2 DEF KeepRaw, Past
    <3>2. PICK row \in f.rows : row.ts = r.ts
      BY <2>2
    <3>3. row.ts < now - DropRawAfter
      BY DEF Past
    <3> QED
      BY <2>1, <2>2, <3>1, <3>2, <3>3 DEF Dated
  <2>4. ~(f.floor < MinLevelAfter /\ Past(f, DownsampleAfter))
    <3> SUFFICES ASSUME f.floor < MinLevelAfter, Past(f, DownsampleAfter)
                 PROVE  FALSE
      OBVIOUS
    <3>1. DownsampleAfter # 0 /\ \A row \in f.rows : row.ts < now - DownsampleAfter
      BY DEF Past
    <3>2. FloorOf(all) # MinLevelAfter
      BY <2>1, <2>2
    <3>3. PICK r \in all : ~(r.ts <= now - DownsampleAfter)
      BY <3>1, <3>2 DEF FloorOf
    <3>4. r.ts > now - DownsampleAfter
      BY <2>1, <3>3 DEF Dated
    <3>5. r \in kept
      BY <3>4 DEF ApplyRetention
    <3>6. PICK row \in f.rows : row.ts = r.ts
      BY <2>2, <3>5
    <3> QED
      BY <2>1, <2>2, <3>1, <3>4, <3>6 DEF Dated
  <2>5. ASSUME NEW row \in f.rows
        PROVE  row.level >= f.floor
    <3>1. PICK r \in kept : row.level = r.level
      BY <2>2
    <3>2. r \in all /\ r.ts \in Int /\ r.level \in Nat
      BY <2>1 DEF Dated, ApplyRetention
    <3>3. CASE DownsampleAfter # 0 /\ \A x \in all : x.ts <= now - DownsampleAfter
      <4>1. f.floor = MinLevelAfter
        BY <2>2, <3>3 DEF FloorOf
      <4>2. ~(r.ts > now - DownsampleAfter)
        BY <2>1, <3>2, <3>3
      <4>3. r.level >= MinLevelAfter
        BY <3>3, <4>2 DEF ApplyRetention
      <4> QED
        BY <3>1, <4>1, <4>3
    <3>4. CASE ~(DownsampleAfter # 0 /\ \A x \in all : x.ts <= now - DownsampleAfter)
      <4>1. f.floor = 0
        BY <2>2, <3>4 DEF FloorOf
      <4> QED
        BY <3>1, <3>2, <4>1
    <3> QED
      BY <3>3, <3>4
  <2> QED
    BY <2>3, <2>4, <2>5 DEF Due, f, kept, all
<1> QED
  BY <1>1, HistoryInvariant, PTL
=============================================================================
