---------------------------- MODULE ReportLayout ----------------------------
(***************************************************************************)
(* The formatters: a report as a Markdown, a LaTeX and a Typst document.    *)
(*                                                                          *)
(* A document is the sequence of its lines: headings, bullets with the      *)
(* spaces before them (Markdown, Typst), items between the begin and the    *)
(* end of a list (LaTeX), plain texts and setup.  Each format writes its    *)
(* own order of the facts, as the code does; fonts, colours, escapes and    *)
(* the wording of labels are left out.                                      *)
(***************************************************************************)
EXTENDS ReportQueries

CONSTANT StatisticsItems   \* what is listed of a day: [label, show, sub]

Heading(what) == [is |-> "heading", what |-> what]
Bullet(indent, what) == [is |-> "bullet", indent |-> indent, what |-> what]
Item(what) == [is |-> "item", what |-> what]
Text(what) == [is |-> "text", what |-> what]
Setup(what) == [is |-> "setup", what |-> what]
BeginList == [is |-> "begin"]
EndList == [is |-> "end"]

Mapped(s, Op(_)) == [i \in DOMAIN s |-> Op(s[i])]

RECURSIVE Concat(_)
Concat(seqs) == IF seqs = <<>> THEN <<>> ELSE Head(seqs) \o Concat(Tail(seqs))

\* Hours and minutes, and those of the average day of several.
TimeFormatDuration(seconds, days) ==
  LET BuildDurationText(s) == <<s \div 3600, (s % 3600) \div 60>>
  IN  <<BuildDurationText(seconds)>> \o
        (IF days > 1 THEN <<BuildDurationText(seconds \div days)>> ELSE <<>>)

\* A count and its share in hundredths of a percent.
FormatCountWithPercentage(count, all) ==
  IF all <= 0 THEN <<count>>
  ELSE <<count, (10000 * count + all \div 2) \div all>>

\* A share in tenths of a percent.
CalculatePercentage(duration, total) ==
  IF total <= 0 THEN 0 ELSE (2000 * duration + total) \div (2 * total)

-----------------------------------------------------------------------------
(* The facts of the header, by label.                                        *)

FormatRatio(data, flag) ==
  FormatCountWithPercentage(data.figures.flags[flag], data.figures.active)

DayFact(data, label) ==
  CASE label = "date" -> data.label
    [] label = "total" -> TimeFormatDuration(data.figures.total, 1)
    [] label \in {"status", "exercise"} ->
         data.figures.flags[IF label = "status" THEN "study" ELSE label] > 0
    [] label = "wake_anchor" -> data.figures.flags.wake > 0
    [] label \in {"getup", "remark"} -> label

RangeFact(data, label) ==
  CASE label = "actual_days" -> data.figures.active
    [] label = "total" -> TimeFormatDuration(data.figures.total, data.figures.active)
    [] label = "status" -> FormatRatio(data, "study")
    [] label = "wake_anchor" -> FormatRatio(data, "wake")
    [] label \in {"exercise", "cardio", "anaerobic"} -> FormatRatio(data, label)

Facts(data, labels) ==
  [i \in DOMAIN labels |->
     <<labels[i], IF data.kind = "day" THEN DayFact(data, labels[i])
                  ELSE RangeFact(data, labels[i])>>]

\* Weeks, years, free ranges and recent days are laid out as ranges.
FormatterOf(kind) == IF kind \in {"day", "month"} THEN kind ELSE "range"

DayMdHeader ==
  <<"date", "total", "status", "wake_anchor", "exercise", "getup", "remark">>
MonthMdHeader ==
  <<"actual_days", "total", "status", "wake_anchor", "exercise", "cardio", "anaerobic">>
RangeMdHeader ==
  <<"total", "actual_days", "status", "wake_anchor", "exercise", "cardio", "anaerobic">>

DayTexHeader ==
  <<"date", "total", "status", "wake_anchor", "exercise", "getup", "remark">>
MonthTexHeader ==
  <<"actual_days", "total", "status", "wake_anchor", "exercise", "cardio", "anaerobic">>
RangeTexHeader ==
  <<"total", "actual_days", "status", "wake_anchor", "exercise", "cardio", "anaerobic">>

DayTypHeader ==
  <<"date", "total", "status", "wake_anchor", "exercise", "getup", "remark">>
MonthTypHeader ==
  <<"actual_days", "total", "status", "wake_anchor", "exercise", "cardio", "anaerobic">>
RangeTypHeader ==
  <<"total", "actual_days", "status", "wake_anchor", "exercise", "cardio", "anaerobic">>

\* A day has its header whatever is in it, a range only with recorded days.
HeaderOf(data, day, month, range) ==
  CASE FormatterOf(data.kind) = "day" -> Facts(data, day)
    [] FormatterOf(data.kind) = "month" /\ data.figures.active > 0 -> Facts(data, month)
    [] FormatterOf(data.kind) = "range" /\ data.figures.active > 0 -> Facts(data, range)
    [] OTHER -> <<>>

\* RenderSummaryList: no list for no items.
RenderSummaryList(facts) ==
  IF facts = <<>> THEN <<>> ELSE <<BeginList>> \o Mapped(facts, Item) \o <<EndList>>

-----------------------------------------------------------------------------
(* The statistics of a day.                                                  *)

StatOf(data, path) ==
  IF path \in DOMAIN data.figures.tree THEN data.figures.tree[path] ELSE 0

\* The items that are shown, those below them and so on, with their level;
\* an item that is not shown takes those below it along.
RECURSIVE ProcessStatItems(_, _, _)
ProcessStatItems(items, data, level) ==
  Concat(Mapped(SelectSeq(items, LAMBDA item : item.show), LAMBDA item :
    <<[level |-> level,
       what |-> <<"statistic", item.label,
                  TimeFormatDuration(StatOf(data, item.label), 1)>>]>>
      \o ProcessStatItems(item.sub, data, level + 1)))

\* There are main items and sub items: the third level is one with the second.
StatBullets(lines) ==
  Mapped(lines, LAMBDA line : Bullet(IF line.level = 0 THEN 0 ELSE 2, line.what))

\* Mutant: the end of a sub list is forgotten.
LatexBuildOutputStaysIn(lines) ==
  <<BeginList>> \o
  Concat([i \in DOMAIN lines |->
    LET sub == lines[i].level > 0
        before == i > 1 /\ lines[i - 1].level > 0
    IN  (IF sub /\ ~before THEN <<BeginList>> ELSE <<>>) \o <<Item(lines[i].what)>>])
  \o (IF Last(lines).level > 0 THEN <<EndList>> ELSE <<>>) \o <<EndList>>

\* The sub lists are opened and closed where the level of the lines changes.
LatexBuildOutput(lines) ==
  <<BeginList>> \o
  Concat([i \in DOMAIN lines |->
    LET sub == lines[i].level > 0
        before == i > 1 /\ lines[i - 1].level > 0
    IN  (IF sub = before THEN <<>> ELSE IF sub THEN <<BeginList>> ELSE <<EndList>>)
          \o <<Item(lines[i].what)>>])
  \o (IF Last(lines).level > 0 THEN <<EndList>> ELSE <<>>) \o <<EndList>>

StatFormat(data, format) ==
  LET lines == ProcessStatItems(StatisticsItems, data, 0)
  IN  IF lines = <<>> THEN <<>>
      ELSE <<Heading(<<"statistics">>)>> \o
           (IF format = "latex" THEN LatexBuildOutput(lines) ELSE StatBullets(lines))

-----------------------------------------------------------------------------
(* The activities of a day, each with its remark if it has one.              *)

ActivityLine(rec) == <<"activity", rec.path, TimeFormatDuration(rec.duration, 1)>>

MdActivities(data) ==
  IF data.records = <<>> THEN <<>>
  ELSE <<Heading(<<"activities">>)>> \o Concat(Mapped(data.records, LAMBDA rec :
         <<Bullet(0, ActivityLine(rec))>> \o
         (IF rec.remark THEN <<Bullet(2, <<"remark">>)>> ELSE <<>>)))

TexActivities(data) ==
  IF data.records = <<>> THEN <<>>
  ELSE <<Heading(<<"activities">>), BeginList>> \o
       Concat(Mapped(data.records, LAMBDA rec :
         <<Item(ActivityLine(rec))>> \o
         (IF rec.remark THEN <<BeginList, Item(<<"remark">>), EndList>> ELSE <<>>)))
       \o <<EndList>>

\* The remark is a line of the text of its activity.
TypActivities(data) ==
  IF data.records = <<>> THEN <<>>
  ELSE <<Heading(<<"activities">>)>> \o Concat(Mapped(data.records, LAMBDA rec :
         IF rec.remark THEN <<Bullet(0, ActivityLine(rec)), Bullet(2, <<"remark">>)>>
         ELSE <<Bullet(0, ActivityLine(rec))>>))

-----------------------------------------------------------------------------
(* The project tree: a heading for each root, and under it a walk with a     *)
(* stack, so that no depth of tree exhausts that of the calls.               *)

ChildrenOf(tree, node) ==
  {n \in DOMAIN tree : Len(n) = Len(node) + 1 /\ PathHasRoot(n, node)}

SortedByDuration(tree, nodes) ==
  OrderedBy(nodes, LAMBDA a, b : tree[a] > tree[b])

Frame(tree, node, indent) ==
  [indent |-> indent, left |-> SortedByDuration(tree, ChildrenOf(tree, node))]

\* What the walk asks of a format, in order: to begin and end a list of
\* children and to write a node.  A leaf without time is passed over.
RECURSIVE GenerateSortedOutput(_, _, _)
GenerateSortedOutput(tree, days, stack) ==
  IF stack = <<>> THEN <<>>
  ELSE
    LET top == Last(stack)
        below == Front(stack)
    IN  IF top.left = <<>>
        THEN <<[ask |-> "end"]>> \o GenerateSortedOutput(tree, days, below)
        ELSE
          LET node == Head(top.left)
              rest == Append(below, [top EXCEPT !.left = Tail(@)])
              call == [ask |-> "node", indent |-> top.indent,
                       what |-> <<"node", node, TimeFormatDuration(tree[node], days)>>]
          IN  IF ChildrenOf(tree, node) # {}
              THEN <<call, [ask |-> "begin"]>> \o
                     GenerateSortedOutput(tree, days,
                       Append(rest, Frame(tree, node, top.indent + 1)))
              ELSE (IF tree[node] > 0 THEN <<call>> ELSE <<>>) \o
                     GenerateSortedOutput(tree, days, rest)

\* The strategies: Markdown and Typst have indents, LaTeX has lists.
MarkdownLine(call) ==
  IF call.ask = "node" THEN <<Bullet(2 * call.indent, call.what)>> ELSE <<>>

TypstLine(call) ==
  IF call.ask = "node" THEN <<Bullet(2 * call.indent, call.what)>> ELSE <<>>

LatexLine(call) ==
  CASE call.ask = "node" -> <<Item(call.what)>>
    [] call.ask = "begin" -> <<BeginList>>
    [] call.ask = "end" -> <<EndList>>

FormatProjectTree(tree, total, days, format) ==
  LET Line(call) == CASE format = "markdown" -> MarkdownLine(call)
                      [] format = "latex" -> LatexLine(call)
                      [] format = "typst" -> TypstLine(call)
  IN  Concat(Mapped(
        SortedByDuration(tree, {n \in DOMAIN tree : Len(n) = 1}), LAMBDA root :
          <<Heading(<<"root", root, TimeFormatDuration(tree[root], days),
                      CalculatePercentage(tree[root], total)>>)>> \o
          (IF ChildrenOf(tree, root) = {} THEN <<>>
           ELSE Concat(Mapped(<<[ask |-> "begin"]>> \o
                  GenerateSortedOutput(tree, days, <<Frame(tree, root, 0)>>), Line)))))

-----------------------------------------------------------------------------
(* The documents.                                                            *)

\* The report of a day as the formatters get it: with its records.
DayData(db, d) ==
  LET paths == OrderedBy(DOMAIN db[d].recs, LAMBDA p, q : FALSE)
  IN  [kind |-> "day", ok |-> TRUE, label |-> d,
       figures |-> QueryDaily(db, d).figures,
       records |-> Mapped(paths, LAMBDA p :
         [path |-> p, duration |-> db[d].recs[p], remark |-> p \in db[d].remarked])]

RangeData(kind, report) ==
  IF report.ok
  THEN [kind |-> kind, ok |-> TRUE, label |-> report.label, figures |-> report.figures]
  ELSE [kind |-> kind, ok |-> FALSE]

\* A day is empty without time, the others without a day that has records.
IsEmptyData(data) ==
  IF data.kind = "day" THEN data.figures.total = 0 ELSE data.figures.active = 0

AvgDays(data) == IF data.kind = "day" THEN 1 ELSE data.figures.active

\* ValidateData: a month that is ill-formed or a range that is turned round.
Invalid == <<Text(<<"invalid">>)>>

NoRecords == Text(<<"No time records">>)

Body(data, extra, format) ==
  IF IsEmptyData(data) THEN <<NoRecords>>
  ELSE extra \o <<Heading(<<"projects">>)>> \o
       FormatProjectTree(data.figures.tree, data.figures.total, AvgDays(data), format)

\* Only the report of a day has statistics and activities.
OfDay(data, extra) == IF data.kind = "day" THEN extra ELSE <<>>

FormatMarkdown(data) ==
  IF ~data.ok THEN Invalid
  ELSE <<Heading(<<"report", data.label>>)>> \o
       Mapped(HeaderOf(data, DayMdHeader, MonthMdHeader, RangeMdHeader),
              LAMBDA fact : Bullet(0, fact)) \o
       Body(data, OfDay(data, StatFormat(data, "markdown") \o MdActivities(data)),
            "markdown")

FormatLatex(data) ==
  IF ~data.ok THEN Invalid
  ELSE <<Setup("preamble"), Heading(<<"report", data.label>>)>> \o
       RenderSummaryList(HeaderOf(data, DayTexHeader, MonthTexHeader, RangeTexHeader)) \o
       Body(data, OfDay(data, StatFormat(data, "latex") \o TexActivities(data)),
            "latex") \o
       <<Setup("postfix")>>

FormatTypst(data) ==
  <<Setup("page and text")>> \o
  (IF ~data.ok THEN Invalid
   ELSE <<Heading(<<"report", data.label>>)>> \o
        Mapped(HeaderOf(data, DayTypHeader, MonthTypHeader, RangeTypHeader),
               LAMBDA fact : Bullet(0, fact)) \o
        Body(data, OfDay(data, StatFormat(data, "typst") \o TypActivities(data)),
             "typst"))

-----------------------------------------------------------------------------
(* Reading a document: every line with the depth it is seen at.              *)

Opened(doc, i) ==
  Cardinality({j \in 1..i : doc[j].is = "begin"}) -
  Cardinality({j \in 1..i : doc[j].is = "end"})

Outline(doc) ==
  LET seen == SelectSeq([i \in DOMAIN doc |->
                CASE doc[i].is = "bullet" -> <<1 + doc[i].indent \div 2, doc[i].what>>
                  [] doc[i].is \in {"item", "heading", "text"} ->
                       <<Opened(doc, i), doc[i].what>>
                  [] OTHER -> <<>>], LAMBDA line : line # <<>>)
  IN  seen

ListsMatch(doc) ==
  /\ \A i \in DOMAIN doc : /\ Opened(doc, i) >= 0
                           /\ doc[i].is = "heading" => Opened(doc, i) = 0
                           /\ doc[i].is = "item" => Opened(doc, i) > 0
  /\ Opened(doc, Len(doc)) = 0

\* A report with its documents.
Written(data) == [data |-> data, markdown |-> FormatMarkdown(data),
                  latex |-> FormatLatex(data), typst |-> FormatTypst(data)]

\* The three documents say the same, in the same order and at the same depth.
SaysTheSame(w) ==
  /\ ListsMatch(w.latex)
  /\ Outline(w.latex) = Outline(w.markdown)
  /\ Outline(w.typst) = Outline(w.markdown)

\* What stands of the tree after the heading of the projects: the nodes in
\* the order of their lines.
NodesShown(w) ==
  LET doc == Outline(w.markdown)
      at == CHOOSE i \in DOMAIN doc : doc[i] = <<0, <<"projects">>>>
      part == SubSeq(doc, at + 1, Len(doc))
  IN  [i \in DOMAIN part |->
         [depth |-> part[i][1], node |-> part[i][2][2]]]

\* Every node that has time is shown once, deeper by one than the last line
\* before it that is less deep, which is the node above it; the nodes below
\* one node come with the longest first.
TreeShown(w) ==
  ~w.data.ok \/ IsEmptyData(w.data) \/
    LET tree == w.data.figures.tree
        shown == NodesShown(w)
    IN  /\ {shown[i].node : i \in DOMAIN shown} =
             {n \in DOMAIN tree : Len(n) = 1 \/ tree[n] > 0 \/ ChildrenOf(tree, n) # {}}
        /\ \A i, j \in DOMAIN shown : i # j => shown[i].node # shown[j].node
        /\ \A i \in DOMAIN shown :
             LET n == shown[i].node
                 above == {j \in 1..(i - 1) : shown[j].depth < shown[i].depth}
             IN  /\ shown[i].depth = Len(n) - 1
                 /\ Len(n) > 1 =>
                      above # {} /\ shown[Max(above)].node = Front(n)
        /\ \A i, j \in DOMAIN shown :
             i < j /\ Len(shown[i].node) = Len(shown[j].node) /\
             Front(shown[i].node) = Front(shown[j].node) =>
               tree[shown[i].node] >= tree[shown[j].node]

=============================================================================
