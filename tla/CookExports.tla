------------------------------ MODULE CookExports ------------------------------
(***************************************************************************)
(* The five Cook County exports of a run, read together: each export into  *)
(* a sorted frame of clean rows (ingest/cook_sao/frames.py), what no       *)
(* single case knows, the judges and where they served (context.py), and   *)
(* the corpus parsed into drafts, case by case (connector.py).             *)
(*                                                                         *)
(* An export delivered by the portal is a sequence of rows in any order.   *)
(* The statute, title and amount columns are left out of every row.        *)
(***************************************************************************)
EXTENDS CookCase

CONSTANTS
  EarliestDay, CoverageEnd  \* the first and last day a date column may hold

Unparseable == -1  \* the instant of a text that is not a date

ReviewColumns == <<"reviewAt", "review">>
PersonColumns == <<"age", "race", "gender">>
ChargeColumns == <<"disposedAt", "class", "disposition", "reason">>
\* The columns read of each export, in sort order: the identifiers first.
ReadColumns ==
  [intake       |-> <<"case", "pid", "received">> \o ReviewColumns \o PersonColumns,
   initiation   |-> <<"case", "pid", "charge", "version", "received", "category", "updated", "class",
                      "event", "eventAt", "finding", "bond", "bondAt", "monitor">>
                    \o ReviewColumns \o PersonColumns,
   dispositions |-> <<"case", "pid", "charge", "version", "received", "category", "updated">>
                    \o ChargeColumns \o <<"judge", "courtName", "facility">>
                    \o ReviewColumns \o PersonColumns,
   sentencing   |-> <<"case", "pid", "charge", "version", "sentencedAt", "phase", "type", "commitment",
                      "term", "unit", "current", "received", "category", "updated">>
                    \o ChargeColumns \o <<"judge", "courtName", "facility">>
                    \o ReviewColumns \o PersonColumns,
   diversion    |-> <<"case", "pid", "program", "referredAt", "result", "closedAt", "received",
                      "race", "gender">>]
DateColumns ==
  {"received", "eventAt", "bondAt", "reviewAt", "disposedAt", "sentencedAt", "referredAt", "closedAt"}
NumberColumns == DateColumns \cup {"age", "term"}

\* A row without the identifiers that place it is dropped.
Required(file) == {"case", "pid"} \cup (IF file \in ToSet(VersionFiles) THEN {"charge", "version"} ELSE {})
Identified(file, row) == \A column \in Required(file) : row[column] # Blank

\* A value that is not a date, or is out of the corpus's range, becomes no date.
CleanDate(at) == IF at # Unparseable /\ Day(at) \in EarliestDay..CoverageEnd THEN at ELSE NoDate
CleanRow(row) == Over([column \in DateColumns |-> CleanDate(row[column])], row)

Rank(column, value) == IF column \in NumberColumns THEN value ELSE Position(value)
\* Rows in the order of every column read.
Before(file, a, b) ==
  \E i \in DOMAIN ReadColumns[file] :
    LET at(j) == ReadColumns[file][j]
    IN  /\ Rank(at(i), a[at(i)]) < Rank(at(i), b[at(i)])
        /\ \A j \in 1..(i - 1) : Rank(at(j), a[at(j)]) = Rank(at(j), b[at(j)])

ReadExportUnsorted(file, delivered) ==  \* mutant
  LET identified == SelectSeq(delivered, LAMBDA row : Identified(file, row))
  IN  [i \in DOMAIN identified |-> CleanRow(identified[i])]
ReadExport(file, delivered) ==
  LET identified == SelectSeq(delivered, LAMBDA row : Identified(file, row))
      cleaned    == [i \in DOMAIN identified |-> CleanRow(identified[i])]
  IN  SortSeq(cleaned, LAMBDA a, b : Before(file, a, b))

Frames(delivered) == LET frame(file) == ReadExport(file, delivered[file]) IN PerFile(frame)
-----------------------------------------------------------------------------
(* The judges of the corpus. *)

DateOfJudge == [dispositions |-> "disposedAt", sentencing |-> "sentencedAt"]
JudgeRows(frames) == UNION {{<<file, row>> : row \in ToSet(frames[file])} : file \in CourtFiles}
RowsOfJudge(t, frames, judge) == {r \in JudgeRows(frames) : judge \in JudgesNamed(t, r[2].judge)}
\* Every judge that a row names, whether or not a court is known for it.
Referenced(t, frames) == UNION {JudgesNamed(t, r[2].judge) : r \in JudgeRows(frames)}
CourtsServed(t, frames, judge) ==
  UNION {CourtsOfRow(t, r[2].courtName, r[2].facility) : r \in RowsOfJudge(t, frames, judge)}

\* The days of the rows attributed to a judge at a court.
ServiceDays(t, frames, judge, court) ==
  {Day(r[2][DateOfJudge[r[1]]]) :
     r \in {r \in RowsOfJudge(t, frames, judge) :
              /\ court \in CourtsOfRow(t, r[2].courtName, r[2].facility)
              /\ r[2][DateOfJudge[r[1]]] # NoDate}}

\* One service per judge and court, from the first to the last day attributed.
ServiceDrafts(t, frames) ==
  LET days(s)  == ServiceDays(t, frames, s[1], s[2])
      first(s) == IF days(s) = {} THEN NoDate ELSE Min(days(s))
      last(s)  == IF days(s) = {} THEN NoDate ELSE Max(days(s))
      position(s) == The(Listed(t.judges, s[1])).position
      served   == UNION {{<<judge, court>> : court \in CourtsServed(t, frames, judge)} :
                           judge \in Referenced(t, frames)}
  IN  {Draft(<<s[1], s[2], position(s), first(s)>>, "dispositions",
             [judge |-> s[1], court |-> s[2], end |-> last(s)]) : s \in served}

\* The jurisdiction, every listed court, the referenced judges and their services.
ReferenceDrafts(t, frames) ==
  [jurisdiction  |-> {Draft(<<"cook">>, "dispositions", [type |-> "county"])},
   court         |-> {Draft(<<court.key>>, "dispositions", [jurisdiction |-> <<"cook">>]) :
                        court \in Entries(t.courts)},
   judge         |-> {Draft(<<judge>>, "dispositions", [status |-> Unknown]) :
                        judge \in Referenced(t, frames)},
   judge_service |-> ServiceDrafts(t, frames)]

\* The judge strings the alias table holds: their rows are published without a judge.
HeldStrings(t, frames) ==
  {<<"judge_unresolved", r[1], r[2].judge>> : r \in
     {r \in JudgeRows(frames) : r[2].judge # Blank /\ JudgesNamed(t, r[2].judge) = {}}}
-----------------------------------------------------------------------------
(* The corpus. *)

CaseNumbers(frames) == UNION {{row.case : row \in ToSet(frames[file])} : file \in File}
RowsOfCase(frames, number) ==
  LET rows(file) == SelectSeq(frames[file], LAMBDA row : row.case = number) IN PerFile(rows)

\* A batch: what one record yields, each draft with its kind.
Tagged(drafts) == UNION {{kind} \X drafts[kind] : kind \in DOMAIN drafts}
Batch(number, drafts) == [case |-> number, drafts |-> Tagged(drafts)]
\* The batch of each case, and the reference record's, which stands under no case.
Parsed(t, frames) ==
  {Batch(Blank, ReferenceDrafts(t, frames))}
  \cup {Batch(n, BuildCase(t, n, RowsOfCase(frames, n))) : n \in CaseNumbers(frames)}
\* The order they are yielded in: the reference record, then case by case.
YieldedBefore(a, b) ==
  \/ a.case = Blank /\ b.case # Blank
  \/ Blank \notin {a.case, b.case} /\ Position(a.case) < Position(b.case)

\* What reading the exports drops, and what their cases leave out.
ReadFindings(delivered) ==
  {<<"row_without_key", file>> : file \in
     {file \in File : \E row \in ToSet(delivered[file]) : ~Identified(file, row)}}
  \cup UNION {{<<"unparseable_date", file, column>> : column \in
                  {column \in DateColumns \cap ToSet(ReadColumns[file]) :
                     \E row \in ToSet(delivered[file]) :
                       /\ Identified(file, row)
                       /\ row[column] # NoDate /\ CleanDate(row[column]) = NoDate}} : file \in File}
Findings(t, frames) ==
  UNION {CaseFindings(t, n, RowsOfCase(frames, n)) : n \in CaseNumbers(frames)}
  \cup HeldStrings(t, frames)
=============================================================================
