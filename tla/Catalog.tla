------------------------------- MODULE Catalog -------------------------------
(***************************************************************************)
(* A database as its migrations and its models describe it: tables, foreign*)
(* keys, unique keys, checks and privileges, what a statement needs of the *)
(* rows already there, and what it does to them.  Columns appear only where*)
(* a key, a reference or a check names them; PostgreSQL itself is external.*)
(***************************************************************************)
EXTENDS Integers, FiniteSets, Sequences, SequencesExt

CONSTANT None

(***************************************************************************)
(* Declarations.                                                           *)
(***************************************************************************)
Reference(column, target, required, onDelete) ==
  [column |-> column, target |-> target, required |-> required, onDelete |-> onDelete]
Must(column, target) == Reference(column, target, TRUE, "RESTRICT")
May(column, target) == Reference(column, target, FALSE, "RESTRICT")
Part(column, target) == Reference(column, target, TRUE, "CASCADE")
Mention(column, target) == Reference(column, target, FALSE, "SET NULL")

\* A unique key: two nulls are equal or distinct, over all rows or some.
Key(columns) == [columns |-> columns, nulls |-> "distinct", rows |-> "all"]
NullsEqual(columns) == [Key(columns) EXCEPT !.nulls = "equal"]
OnlyFor(key, rows) == [key EXCEPT !.rows = rows]

Check(name, values) == [name |-> name, values |-> values]
Holds(name) == Check(name, {})

\* What is declared of one table; the foreign keys know their table.
Parts(table, refs, keys, checks) ==
  [refs |-> {[table |-> table, column |-> r.column, target |-> r.target,
              required |-> r.required, onDelete |-> r.onDelete] : r \in refs},
   keys |-> {<<table, k>> : k \in keys},
   checks |-> {<<table, c>> : c \in checks}]
Table(name, refs, keys, checks) == [name |-> name, parts |-> Parts(name, refs, keys, checks)]

Structure(tables) ==
  [tables |-> {t.name : t \in tables},
   refs |-> UNION {t.parts.refs : t \in tables},
   keys |-> UNION {t.parts.keys : t \in tables},
   checks |-> UNION {t.parts.checks : t \in tables}]

(***************************************************************************)
(* Statements.  The optional part of one that does not use it is empty.    *)
(***************************************************************************)
Statement(op, table, parts, who) == [op |-> op, table |-> table, parts |-> parts, who |-> who]
NoParts == Parts("", {}, {}, {})
Create(table, refs, keys, checks) == Statement("create", table, Parts(table, refs, keys, checks), {})
Drop(table) == Statement("drop", table, NoParts, {})
Add(table, refs, keys, checks) == Statement("add", table, Parts(table, refs, keys, checks), {})
Withdraw(table, refs, keys, checks) == Statement("remove", table, Parts(table, refs, keys, checks), {})
\* A column that is not null and has no default.
NewColumn(table) == Statement("column", table, NoParts, {})
\* A nullable column becomes required.
SetNotNull(ref, table) == Statement("not null", table, Parts(table, {ref}, {}, {}), {})
Grant(role, privileges, table) == Statement("grant", table, NoParts, {<<role, p>> : p \in privileges})
Dml == {"SELECT", "INSERT", "UPDATE", "DELETE"}
RevokeAll(role, table) == Statement("revoke", table, NoParts, {<<role, p>> : p \in Dml})
Revoke(role, privileges, table) == Statement("revoke", table, NoParts, {<<role, p>> : p \in privileges})
\* A statement over the rows of the figures.
Rows(action) == Statement(action, "metric_observation", NoParts, {})
Each(statements) == FoldSet(LAMBDA s, done : Append(done, s), <<>>, statements)

\* The default privileges of 02-roles.sql: not for the restricted schema.
ByDefault(table) ==
  IF table = "party_attribute" THEN {}
  ELSE {<<"app", "SELECT", table>>} \cup {<<"ingest", p, table>> : p \in Dml}

(***************************************************************************)
(* A database.  "filled" are the tables that hold rows; of the figures and *)
(* of the outcome models the rows themselves are kept.                     *)
(***************************************************************************)
Figure(kind, suppressed, model, reason) ==
  [kind |-> kind, suppressed |-> suppressed, model |-> model, reason |-> reason,
   yearly |-> kind = "yearly", family |-> FALSE]

EmptyDatabase ==
  [tables |-> {}, refs |-> {}, keys |-> {}, checks |-> {}, may |-> {}, filled |-> {},
   figures |-> {}, models |-> {}, ok |-> TRUE]

\* A year's figure and the whole window's agree in every column but the year.
KeyAdmits(db, tk) ==
  tk[1] = "metric_observation" /\ "calendar_year" \notin tk[2].columns
    => \A f \in db.figures : ~f.yearly

CheckAdmits(db, tc) ==
  CASE tc[2].name = "suppression_reason_flag" -> \A f \in db.figures : f.suppressed = (f.reason # None)
    [] tc[2].name = "suppression_reason" -> \A f \in db.figures : f.reason \in tc[2].values \cup {None}
    [] tc[2].name = "status" -> db.models \subseteq tc[2].values
    [] OTHER -> TRUE

Admits(db, s) ==
  CASE s.op = "create" -> s.table \notin db.tables /\ \A r \in s.parts.refs : r.target \in db.tables \cup {s.table}
    [] s.op = "drop" -> s.table \in db.tables /\ \A r \in db.refs : r.target = s.table => r.table = s.table
    [] s.op = "add" ->
         /\ s.table \in db.tables
         /\ s.parts.refs \cap db.refs = {} /\ s.parts.keys \cap db.keys = {} /\ s.parts.checks \cap db.checks = {}
         /\ \A r \in s.parts.refs : r.target \in db.tables /\ (r.required => s.table \notin db.filled)
         /\ \A k \in s.parts.keys : KeyAdmits(db, k)
         /\ \A c \in s.parts.checks : CheckAdmits(db, c)
    [] s.op = "remove" -> s.parts.refs \subseteq db.refs /\ s.parts.keys \subseteq db.keys
                          /\ s.parts.checks \subseteq db.checks
    [] s.op = "column" -> s.table \in db.tables \ db.filled
    [] s.op = "not null" -> \A f \in db.figures : f.family
    [] s.op = "delete unavailable models" -> \A f \in db.figures : f.model # "unavailable"
    [] OTHER -> s.table \in db.tables

Relaxed(refs, r) == {q \in refs : q.table # r.table \/ q.column # r.column}

FiguresAfter(figures, op) ==
  CASE op = "backfill reasons" -> {IF f.suppressed THEN [f EXCEPT !.reason = "below_threshold"] ELSE f : f \in figures}
    [] op = "forget models" -> {[f EXCEPT !.reason = None, !.model = None] : f \in figures}
    [] op = "delete figures of unavailable models" -> {f \in figures : f.model # "unavailable"}
    [] op = "delete yearly figures" -> {f \in figures : ~f.yearly}
    [] op = "convert up" -> {[f EXCEPT !.family = TRUE] : f \in figures}
    [] op = "convert down" -> {[f EXCEPT !.family = FALSE] : f \in figures}
    [] OTHER -> figures

Done(db, s) ==
  CASE s.op = "create" ->
         [db EXCEPT !.tables = @ \cup {s.table}, !.refs = @ \cup s.parts.refs, !.keys = @ \cup s.parts.keys,
                    !.checks = @ \cup s.parts.checks, !.may = @ \cup ByDefault(s.table)]
    [] s.op = "drop" ->
         [db EXCEPT !.tables = @ \ {s.table}, !.filled = @ \ {s.table},
                    !.refs = {r \in @ : r.table # s.table}, !.keys = {k \in @ : k[1] # s.table},
                    !.checks = {c \in @ : c[1] # s.table}, !.may = {m \in @ : m[3] # s.table},
                    !.figures = IF s.table = "metric_observation" THEN {} ELSE @,
                    !.models = IF s.table = "outcome_model" THEN {} ELSE @]
    [] s.op = "add" ->
         [db EXCEPT !.refs = @ \cup s.parts.refs, !.keys = @ \cup s.parts.keys, !.checks = @ \cup s.parts.checks]
    [] s.op = "remove" ->
         [db EXCEPT !.refs = @ \ s.parts.refs, !.keys = @ \ s.parts.keys, !.checks = @ \ s.parts.checks]
    [] s.op = "not null" ->
         LET r == CHOOSE x \in s.parts.refs : TRUE IN [db EXCEPT !.refs = Relaxed(@, r) \cup {r}]
    [] s.op = "grant" -> [db EXCEPT !.may = @ \cup {<<w[1], w[2], s.table>> : w \in s.who}]
    [] s.op = "revoke" -> [db EXCEPT !.may = @ \ {<<w[1], w[2], s.table>> : w \in s.who}]
    [] s.op = "delete unavailable models" -> [db EXCEPT !.models = @ \ {"unavailable"}]
    [] OTHER -> [db EXCEPT !.figures = FiguresAfter(@, s.op)]

\* A statement that the rows or the schema do not admit fails the migration.
Apply(db, s) == IF db.ok /\ Admits(db, s) THEN Done(db, s) ELSE [db EXCEPT !.ok = FALSE]
Run(db, statements) == FoldLeft(Apply, db, statements)

StructureOf(db) == [tables |-> db.tables, refs |-> db.refs, keys |-> db.keys, checks |-> db.checks]

=============================================================================
