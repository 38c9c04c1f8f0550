------------------------------ MODULE ScanReport ------------------------------
(***************************************************************************)
(* cli/ScanReport.cpp: the table of links that scan prints and that fix    *)
(* shows before it begins.  A text is a sequence of UTF-16 code units,     *)
(* already sanitized and abbreviated; a line is such a text with the       *)
(* importance that --quiet goes by.                                        *)
(***************************************************************************)
EXTENDS Naturals, Sequences
LOCAL INSTANCE FiniteSetsExt
LOCAL INSTANCE SequencesExt

CONSTANTS
  High, Low,          \* code units that are high and low surrogates
  WideUnits,          \* other code units that isWideCodePoint()
  WidePairs,          \* pairs of a high and a low surrogate that do
  Rank(_)             \* of a text in ordinal case-insensitive order

Pairing(text, i) == text[i] \in High /\ i < Len(text) /\ text[i + 1] \in Low

isWideCodePoint(text, i) == IF Pairing(text, i) THEN <<text[i], text[i + 1]>> \in WidePairs
                                               ELSE text[i] \in WideUnits

displayWidth(text) ==
  LET from[i \in 1 .. Len(text) + 2] ==
        IF i > Len(text) THEN 0
        ELSE (IF isWideCodePoint(text, i) THEN 2 ELSE 1)
               + from[IF Pairing(text, i) THEN i + 2 ELSE i + 1]
  IN  from[1]

Repeated(c, n) == [i \in 1 .. n |-> c]

padToWidth(text, width) ==
  IF displayWidth(text) < width THEN text \o Repeated(" ", width - displayWidth(text)) ELSE text

\* isNgStatus(): whatever is not Ok.
isNgStatus(status) == status # "Ok"

Column == 1 .. 4   \* package, status, alias, target

Header == << <<"p">>, <<"s", "t">>, <<"a">>, <<"t">> >>

\* toReportRow()
Row(item) == <<IF item.packageId = << >> THEN <<"-">> ELSE item.packageId,
               <<item.status>>, item.alias, item.target>>

lessByAliasThenPath(a, b) ==
  \/ Rank(a.alias) < Rank(b.alias)
  \/ Rank(a.alias) = Rank(b.alias) /\ Rank(a.target) < Rank(b.target)

Group(items, ng) ==
  LET ordered == SortSeq(SelectSeq(items, LAMBDA item : isNgStatus(item.status) = ng),
                         lessByAliasThenPath)
  IN  [i \in DOMAIN ordered |-> Row(ordered[i])]

\* The widths of the columns, over both groups and the header.
Widths(items) ==
  [c \in Column |-> Max({displayWidth(Header[c])} \cup {displayWidth(Row(items[i])[c]) : i \in DOMAIN items})]

totalTableWidth(widths) == widths[1] + widths[2] + widths[3] + widths[4] + 9

Line(text, importance) == [text |-> text, importance |-> importance]

Bar == <<" ", "|", " ">>

\* The last column is not padded.
RowLine(row, widths) == padToWidth(row[1], widths[1]) \o Bar \o padToWidth(row[2], widths[2]) \o Bar
                          \o padToWidth(row[3], widths[3]) \o Bar \o row[4]

Rule(widths) == Repeated("-", totalTableWidth(widths))

\* appendGroup(), appendTableHeader() and appendTableRows().
GroupLines(heading, rows, widths, headingImportance, bodyImportance) ==
  <<Line(<<heading>>, headingImportance)>> \o
  IF rows = << >> THEN <<Line(<<"nothing">>, headingImportance)>>
  ELSE LET body == <<Rule(widths), RowLine(Header, widths), Rule(widths)>>
                     \o [i \in DOMAIN rows |-> RowLine(rows[i], widths)] \o <<Rule(widths)>>
       IN  [i \in DOMAIN body |-> Line(body[i], bodyImportance)]

formatGroupedReport(items, mode) ==
  LET ng     == Group(items, TRUE)
      widths == Widths(items)
      scan   == mode = "Scan"
  IN  GroupLines("NG", ng, widths,
                 IF scan /\ ng # << >> THEN "Normal" ELSE "Supplementary",
                 IF scan THEN "Normal" ELSE "Supplementary")
      \o <<Line(<< >>, "Supplementary")>>
      \o GroupLines("OK", Group(items, FALSE), widths, "Supplementary", "Supplementary")

-------------------------------------------------------------------------------
(***************************************************************************)
(* What the report promises.                                               *)
(***************************************************************************)
Texts(lines) == [i \in DOMAIN lines |-> lines[i].text]

\* The lines that --quiet leaves.
Quiet(lines) == SelectSeq(lines, LAMBDA line : line.importance = "Normal")

RowLines(items, ng) == {RowLine(Row(items[i]), Widths(items)) :
                          i \in {i \in DOMAIN items : isNgStatus(items[i].status) = ng}}

\* Every item is in the report; a quiet scan shows those to act on and no
\* other, and is silent when there is none; a preview is never shown by quiet.
ShowsWhatToActOn(items) ==
  LET scan  == formatGroupedReport(items, "Scan")
      quiet == ToSet(Texts(Quiet(scan)))
  IN  /\ RowLines(items, TRUE) \cup RowLines(items, FALSE) \subseteq ToSet(Texts(scan))
      /\ RowLines(items, TRUE) \subseteq quiet
      /\ quiet \cap (RowLines(items, FALSE) \ RowLines(items, TRUE)) = {}
      /\ RowLines(items, TRUE) = {} => quiet = {}
      /\ Quiet(formatGroupedReport(items, "FixPreview")) = << >>
      /\ Texts(formatGroupedReport(items, "FixPreview")) = Texts(scan)

\* The places on the screen where a line has its bars.
BarsAt(text) == {displayWidth(SubSeq(text, 1, i)) : i \in {i \in DOMAIN text : text[i] = "|"}}

\* The bars of all rows stand below each other, whatever the texts are made of,
\* and no row is longer than the rules.
LinesUp(items) ==
  LET lines == Texts(formatGroupedReport(items, "Scan"))
      rows  == {line \in ToSet(lines) : "|" \in ToSet(line)}
  IN  /\ \A row \in rows : Cardinality(BarsAt(row)) = 3
      /\ \A row, other \in rows : BarsAt(row) = BarsAt(other)
      /\ \A row \in rows : displayWidth(row) <= totalTableWidth(Widths(items))

\* The report does not depend on the order in which the links were found.
OrderOfItsOwn(items) ==
  \A f \in {f \in [DOMAIN items -> DOMAIN items] : IsInjective(f)} :
    formatGroupedReport([i \in DOMAIN items |-> items[f[i]]], "Scan")
      = formatGroupedReport(items, "Scan")
===============================================================================
