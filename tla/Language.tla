-------------------------------- MODULE Language -------------------------------
(***************************************************************************)
(* The query language: one comparison, as the live predicate answers it of *)
(* a record (internal/rql) and as history does of a row, in SQL, through   *)
(* the resolver (internal/query).  And, Or and Not combine the answers the *)
(* same way in both, a comparison with NULL counting as none.              *)
(***************************************************************************)
EXTENDS Columns

\* key, or the member "c" of it: key.c
Field == [key : Key, inner : BOOLEAN]

Literal == [kind : {"number"}, v : {1, 2, 10}] \cup [kind : {"string"}, v : {1, 2, 5}]
             \cup {Null}

\* What is asked of a field.
Comparison == [op : {"exists", "="}, literal : {Null}]
                \cup [op : {"=", "<", ">="}, literal : Literal \ {Null}]

Order(op, a, b) == CASE op = "=" -> a = b [] op = "<" -> a < b [] op = ">=" -> a >= b

------------------------------------------------------------------------------
(* The live predicate.  What may be missing is a set of at most one value. *)

ValueAt(fields, key) == IF key \in DOMAIN fields /\ fields[key] # Null THEN {fields[key]} ELSE {}

Members(values) == {Member(value.v) : value \in {value \in values : value.kind = "json"}}

Lookup(fields, field) ==
  IF field.inner THEN Members(ValueAt(fields, field.key)) ELSE ValueAt(fields, field.key)

\* A literal's text.
StrOf(literal) == IF literal.kind = "number" THEN TextOf(Int_(literal.v)) ELSE literal.v

CompareValue(value, literal, op) ==
  CASE value.kind = "int" -> literal.kind = "number" /\ Order(op, value.v, literal.v)
    [] value.kind # "int" /\ literal.kind = "number" ->
         value.v \in NumberText /\ Order(op, NumberIn[value.v], literal.v)
    [] OTHER -> Order(op, value.v, StrOf(literal))

\* What it answers of what it found.
Predicate(n, found) ==
  CASE n.op = "exists" -> found # {}
    [] n.op # "exists" /\ n.literal = Null -> found = {}
    [] OTHER -> \E value \in found : CompareValue(value, n.literal, n.op)

------------------------------------------------------------------------------
(* The resolver, built from the files a query reads. *)

ColumnsOf(files, key) == {c \in UNION {f.columns : f \in files} : c.key = key}

Present(files, key) == {f \in files : \E c \in f.columns : c.key = key}

\* The planner hands files over by the time and number of their first record.
Older(f, g) == \E r \in f.rows : \A s \in g.rows : r.seq < s.seq

\* Mutant of Missing: the files older than the first with the key are not counted.
MissingLater(files, key) ==
  {f \in files \ Present(files, key) :
     \E g \in Present(files, key) : Older(g, f)}

Missing(files, key) == files \ Present(files, key)

WithRaw(files) == {f \in files : f.raw}

\* The one kind the key has in every file, or string.
FactKind(files, key) ==
  LET kinds == {c.kind : c \in ColumnsOf(files, key)}
  IN IF Cardinality(kinds) = 1 THEN CHOOSE kind \in kinds : TRUE ELSE "string"

\* A column of the key's answers for another key, in one of the files.
Shared(files, key) ==
  \E c \in ColumnsOf(files, key), other \in Key \ {key} :
     \E d \in ColumnsOf(files, other) : d.name = c.name

\* The name the key has in every file that has a column for it.
ColumnName(files, key) ==
  LET names == {c.name : c \in ColumnsOf(files, key)}
  IN IF Shared(files, key) \/ Cardinality(names) # 1 THEN {} ELSE names

(* form: what is read, "column", "raw" or the one and then the other; "none" is  *)
(* unresolvable.  number: it is read as a number, and as text if not.            *)
Resolution(form, number, name) == [form |-> form, number |-> number, name |-> name]

FromRaw(files) == IF WithRaw(files) = {} THEN Resolution("none", FALSE, {})
                  ELSE Resolution("raw", FALSE, {})

Resolve(files, field) ==
  LET name == ColumnName(files, field.key)
      kind == FactKind(files, field.key)
      form == IF Missing(files, field.key) = {} \/ WithRaw(files) = {} THEN "column" ELSE "both"
  IN IF name = {} THEN FromRaw(files)
     ELSE IF ~field.inner THEN Resolution(form, kind = "int", name)
     ELSE IF kind = "json" THEN Resolution(form, FALSE, name) ELSE FromRaw(files)

------------------------------------------------------------------------------
(* The SQL, of one row of one file.  fields is what was promoted of the row's    *)
(* line, which a line that is JSON holds itself.  A value that is NULL is the    *)
(* empty set, and so is a truth.                                                 *)

AsText(values) == {Str(TextOf(value)) : value \in values}

\* The column of that name, without regard to case, in the row's file.
ColumnExpr(resolution, field, file, row) ==
  LET cell == UNION {ValueAt(row.fields, c.key) : c \in {c \in file.columns : c.name \in resolution.name}}
  IN IF field.inner THEN Members(cell) ELSE IF resolution.number THEN cell ELSE AsText(cell)

\* rawPath, which is NULL of a line that is not JSON, and castFromRaw.
RawExpr(resolution, field, fields, row) ==
  LET text == IF row.raw /\ row.json THEN AsText(Lookup(fields, field)) ELSE {}
  IN IF resolution.number
     THEN {Int_(NumberIn[value.v]) : value \in {value \in text : value.v \in NumberText}}
     ELSE text

Expr(resolution, field, fields, file, row) ==
  LET column == ColumnExpr(resolution, field, file, row)
      raw == RawExpr(resolution, field, fields, row)
  IN CASE resolution.form = "column" -> column
       [] resolution.form = "raw" -> raw
       [] OTHER -> IF column # {} THEN column ELSE raw

Ordered(expr, number, literal, op) ==
  CASE literal.kind # "number" /\ number -> {FALSE}
    [] literal.kind = "number" /\ number -> {Order(op, value.v, literal.v) : value \in expr}
    [] literal.kind = "number" /\ ~number ->
         {Order(op, NumberIn[value.v], literal.v) : value \in {value \in expr : value.v \in NumberText}}
    [] OTHER -> {Order(op, value.v, StrOf(literal)) : value \in expr}

\* Whether WHERE keeps a row of which expr is read.
Selects(resolution, n, expr) ==
  /\ resolution.form # "none"
  /\ CASE n.op = "exists" -> expr # {}
       [] n.op # "exists" /\ n.literal = Null -> expr = {}
       [] OTHER -> Ordered(expr, resolution.number, n.literal, n.op) = {TRUE}

=============================================================================
