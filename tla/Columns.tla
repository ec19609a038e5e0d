-------------------------------- MODULE Columns --------------------------------
(***************************************************************************)
(* Values and columns: what a record holds for a key (internal/model), and *)
(* the columns a Parquet file gives the keys of its records                *)
(* (internal/parquetio).  Floats and booleans are left out: a float answers*)
(* as an integer does, and a boolean only literals of its own kind.        *)
(*                                                                         *)
(* Text is its place among these in byte order:                            *)
(*   1 "1"   2 "1.0"   3 "10"   4 "2"   5 "x"   6 {"c":1}                  *)
(***************************************************************************)
EXTENDS Integers, FiniteSets

CONSTANTS
  Key,        \* keys, numbered in the order of their names
  Folded,     \* the column name each is mangled to, without regard to case
  MaxColumns  \* columns a file may have

ASSUME ColumnsAssumption ==
  /\ Key \subseteq Nat /\ IsFiniteSet(Key) /\ DOMAIN Folded = Key
  /\ MaxColumns \in Nat

Text == 1 .. 6

Null == [kind |-> "null", v |-> 0]
Int_(n) == [kind |-> "int", v |-> n]
Str(t) == [kind |-> "string", v |-> t]
JSON(t) == [kind |-> "json", v |-> t]

NumberText == {1, 2, 3, 4}
NumberIn == [t \in NumberText |-> <<1, 1, 10, 2>>[t]]

Value == {Null} \cup {Int_(n) : n \in {1, 2, 10}} \cup {Str(t) : t \in Text} \cup {JSON(6)}

\* Value.Text.
TextOf(value) ==
  IF value.kind = "int" THEN CHOOSE t \in NumberText \ {2} : NumberIn[t] = value.v
  ELSE value.v

\* What an object holds at "c", as text.
Member(document) == Str(1)

------------------------------------------------------------------------------
(* A record, and a row of a file: fields has what is promoted of it, raw whether *)
(* it still has its line, json whether that is JSON, and has the fields too.     *)

KindsOf(records, key) ==
  {r.fields[key].kind : r \in {r \in records : key \in DOMAIN r.fields}} \ {"null"}

CountOf(records, key) ==
  Cardinality({r \in records : key \in DOMAIN r.fields /\ r.fields[key] # Null})

\* kindSet.resolve, of a key that is not always null.
KindOf(records, key) ==
  LET kinds == KindsOf(records, key)
  IN IF Cardinality(kinds) = 1 THEN CHOOSE kind \in kinds : TRUE ELSE "string"

Candidates(records) == {key \in Key : KindsOf(records, key) # {}}

\* The candidates ranked before key.
Before(records, key) ==
  {other \in Candidates(records) :
     \/ CountOf(records, other) > CountOf(records, key)
     \/ CountOf(records, other) = CountOf(records, key) /\ other < key}

\* columnName: a name is what the key folds to, and a number, from 2 for the
\* second key of the file to fold to it.
NameOf(records, key) ==
  <<Folded[key], 1 + Cardinality({other \in Before(records, key) : Folded[other] = Folded[key]})>>

BuildSchema(records) ==
  {[key |-> key, name |-> NameOf(records, key), kind |-> KindOf(records, key),
    polymorphic |-> Cardinality(KindsOf(records, key)) > 1] :
     key \in {key \in Candidates(records) : Cardinality(Before(records, key)) < MaxColumns}}

\* valueFor, and the value decodeValue reads back from the column it went to.
ValueFor(kind, value) == IF kind = "string" THEN Str(TextOf(value)) ELSE value

\* What a row keeps of the fields of its record.
StoredFields(columns, fields) ==
  [key \in {c.key : c \in {c \in columns : c.key \in DOMAIN fields /\ fields[c.key] # Null}} |->
     ValueFor((CHOOSE c \in columns : c.key = key).kind, fields[key])]

\* Write: the file of these records, whose lines it keeps or drops.
Written(records, keepRaw) ==
  LET columns == BuildSchema(records)
  IN [columns |-> columns, raw |-> keepRaw,
      rows |-> {[r EXCEPT !.fields = StoredFields(columns, @), !.raw = @ /\ keepRaw] : r \in records}]

=============================================================================
