----------------------- MODULE ConverterConfigProofs -----------------------
(***************************************************************************)
(* What holds of every configuration folder and of every load of it: the    *)
(* two readers of the bundle and of the report files agree, the settings    *)
(* reach the command line, and a configuration that is kept is one in which *)
(* names are not empty, rules are in order and keys have one meaning.       *)
(***************************************************************************)
EXTENDS ConverterConfig, FiniteSetTheorems, FunctionTheorems, WellFoundedInduction, TLAPS

(***************************************************************************)
(* The two readers of the bundle, and of the report files.                  *)
(***************************************************************************)

\* A bundle the Android runtime takes has a table of markdown reports, and
\* whatever else the command line asks for.
LEMMA AndroidBundleIsCliBundle ==
  ASSUME NEW files, NEW bundle, AndroidBundleHolds(files, bundle)
  PROVE  CliBundleHolds(files, bundle)
<1>1. Kind(bundle, "profile") = "string"
  BY DEF AndroidBundleHolds, Filled, Kind
<1>2. "markdown" \in Formats \cap DOMAIN ReportTables(bundle)
  BY DEF AndroidBundleHolds, Kind, At, Formats
<1> QED BY <1>1, <1>2 DEF AndroidBundleHolds, CliBundleHolds

\* Every label, font and size that filling a report asks for is one the check
\* of the report asks for, and every list of items the filling goes through is
\* one the check went through.
LEMMA CheckedReportFills ==
  ASSUME NEW report, NEW format \in Formats, NEW kind \in ReportKinds,
         ReportHolds(report, format, kind)
  PROVE  Fills(report, format, kind)
<1>1. \A key : Filled(At(report, key)) => Kind(report, key) = "string"
  BY DEF Filled, Kind
<1>2. ASSUME NEW key \in FillRequires(format, kind)
      PROVE  Kind(report, key) = "string"
  <2>1. CASE key \in {"main_font", "base_font"}
    <3>1. /\ key = "main_font" => format = "latex"
          /\ key = "base_font" => format = "typst"
      BY <1>2, <2>1 DEF FillRequires
    <3> QED BY <1>1, <2>1, <3>1 DEF ReportHolds, StyleHolds
  <2>2. CASE key \notin {"main_font", "base_font"}
    <3>1. CASE kind = "day"
      <4>1. key \in DayLabels
        BY <1>2, <2>2, <3>1 DEF FillRequires, DayLabels
      <4> QED BY <1>1, <3>1, <4>1 DEF ReportHolds, DayHolds
    <3>2. CASE kind # "day"
      <4>1. key \in PeriodLabels
        BY <1>2, <2>2, <3>2 DEF FillRequires, PeriodLabels
      <4> QED BY <1>1, <3>2, <4>1 DEF ReportHolds, PeriodHolds
    <3> QED BY <3>1, <3>2
  <2> QED BY <2>1, <2>2
<1>3. format # "markdown" => \A size \in FontSizes : Kind(report, size) = "integer"
  BY DEF ReportHolds, StyleHolds
<1>4. kind = "day" => ItemsFill(At(report, "statistics_items"))
  BY DEF ReportHolds, DayHolds, ItemsHold, ItemsFill, Filled, Kind
<1> QED BY <1>2, <1>3, <1>4 DEF Fills

LEMMA FolderReadersAgree == ReadersAgree
<1>1. (Reads(folder, BundleFile) /\ AndroidResolves(folder, Requested)) =>
          CliBundleHolds(folder, Content(folder, BundleFile))
  BY AndroidBundleIsCliBundle DEF AndroidResolves, Reads
<1>2. ASSUME NEW format \in Formats, NEW kind \in ReportKinds
      PROVE  LET path == <<"reports", format, kind \o ".toml">>
             IN  (StyledReads(folder, path) /\ ReportHolds(Styled(folder, path), format, kind))
                     => Fills(Styled(folder, path), format, kind)
  BY CheckedReportFills
<1> QED BY <1>1, <1>2 DEF ReadersAgree

(***************************************************************************)
(* The settings of config.toml.                                            *)
(***************************************************************************)
LEMMA SettingsAreCopied ==
  ASSUME NEW files
  PROVE  CommandsAnswered(Content(files, MainFile), CliAnswer(files, <<>>, <<>>, "ingest"))
<1> DEFINE config == Content(files, MainFile)
           answer == CliAnswer(files, <<>>, <<>>, "ingest")
           snapshot == ToCliConfigSnapshot(files)
           commands == TableAt(config, "commands")
<1>1. Copied(Copied(CommandDefaults(config))) = CommandDefaults(config)
  BY Zenon DEF Copied, CommandDefaults
<1>2. snapshot.command_defaults = CommandDefaults(config)
      /\ "command_defaults" \in DOMAIN snapshot
  BY DEF ToCliConfigSnapshot
<1>3. ToCliConfigContext(snapshot).command_defaults = CommandDefaults(config)
  <2> HIDE DEF snapshot
  <2> QED BY <1>1, <1>2 DEF ToCliConfigContext
<1>4. answer.command_defaults = CommandDefaults(config)
  <2>1. ResolveCliContext(files, <<>>, <<>>, "ingest").context = ToCliConfigContext(snapshot)
    BY DEF ResolveCliContext
  <2> QED BY <1>3, <2>1 DEF CliAnswer
<1>5. ASSUME NEW place \in AnsweredAs
      PROVE  LET written == At(TableAt(commands, place[1]), place[2])
             IN  CommandDefaults(config)[place[3]] =
                     IF place[2] \in Switches THEN AsFlag(written) ELSE written
  <2> HIDE DEF config
  <2> QED BY <1>5, SMTT(40) DEF AnsweredAs, CommandDefaults, Switches
<1> QED BY <1>4, <1>5 DEF CommandsAnswered

LEMMA FolderSettingsReachTheCli ==
  ASSUME \A path \in DOMAIN folder : TypedFile(folder[path][2])
  PROVE  SettingsReachTheCli
<1> DEFINE config == Content(folder, MainFile)
           answer == CliAnswer(folder, <<>>, <<>>, "ingest")
           section == TableAt(config, "defaults")
           resolved == ResolveCliContext(folder, <<>>, <<>>, "ingest")
           context == ToCliConfigContext(ToCliConfigSnapshot(folder))
<1> SUFFICES ASSUME CliLoads(folder)
             PROVE  /\ CommandsAnswered(config, answer)
                    /\ \A place \in AnsweredAs : place[2] = "date_check" =>
                          answer.command_defaults[place[3]][2] \in DateCheckModes \cup {<<>>}
                    /\ "db_path" \in DOMAIN section =>
                          answer.db_path = FromExe(section.db_path[2])
                    /\ "output_root" \in DOMAIN section =>
                          answer.output_root = FromExe(section.output_root[2])
                    /\ answer.runtime_output_root = answer.output_root
  BY DEF SettingsReachTheCli
<1>1. CommandsAnswered(config, answer)
  BY SettingsAreCopied
<1>2. DefaultsHold(config)
  BY DEF CliLoads
<1>3. ASSUME NEW place \in AnsweredAs, place[2] = "date_check"
      PROVE  answer.command_defaults[place[3]][2] \in DateCheckModes \cup {<<>>}
  <2> DEFINE table == TableAt(TableAt(config, "commands"), place[1])
  <2>1. answer.command_defaults[place[3]] = At(table, "date_check")
    <3>1. "date_check" \notin Switches
      BY DEF Switches
    <3> QED BY <1>1, <1>3, <3>1 DEF CommandsAnswered
  <2>2. <<place[1], "date_check", "string">> \in CommandFields
    BY <1>3 DEF AnsweredAs, CommandFields
  <2>3. FieldHolds(table, "date_check", "string")
    BY <1>2, <2>2 DEF DefaultsHold
  <2> HIDE DEF table, answer
  <2>4. At(table, "date_check")[2] \in DateCheckModes \cup {<<>>}
    BY <2>3 DEF FieldHolds, Value, At
  <2> QED BY <2>1, <2>4
<1>4. TypedTable(section)
  BY <1>2 DEF CliLoads, Reads, IsFile, Content, TypedFile
<1>5. ASSUME NEW key \in {"db_path", "output_root"}, key \in DOMAIN section
      PROVE  PathSetting(section, key) = <<"string", FromExe(section[key][2])>>
  <2>1. Optional(section, key, "string")
    BY <1>2, <1>5 DEF DefaultsHold
  <2> HIDE DEF section
  <2>2. Kind(section, key) = "string"
    BY <1>4, <1>5, <2>1 DEF TypedTable, Typed, Optional, TakenFor, Kind, At
  <2> QED BY <1>5, <2>2 DEF PathSetting, Words, Value, At
<1>6. context.defaults = [db_path |-> PathSetting(section, "db_path"),
                          output_root |-> PathSetting(section, "output_root"),
                          default_format |-> At(section, "default_format")]
  BY DEF ToCliConfigContext, ToCliConfigSnapshot, GlobalDefaults
<1> HIDE DEF section, config
<1>7. "output_root" \in DOMAIN section => resolved.output_root = FromExe(section.output_root[2])
  BY <1>5, <1>6 DEF ResolveCliContext
<1>8. "db_path" \in DOMAIN section => resolved.db_path = FromExe(section.db_path[2])
  BY <1>5, <1>6 DEF ResolveCliContext
<1>9. resolved.runtime_output_root = resolved.output_root
  BY DEF ResolveCliContext
<1>10. /\ answer.db_path = resolved.db_path
       /\ answer.output_root = resolved.output_root
       /\ answer.runtime_output_root = resolved.runtime_output_root
  BY DEF CliAnswer
<1> HIDE DEF resolved, answer
<1> QED BY <1>1, <1>3, <1>7, <1>8, <1>9, <1>10

(***************************************************************************)
(* Sorting by rank.                                                        *)
(***************************************************************************)

RankOf(bound, n, i) == Cardinality({j \in 1 .. n : bound[j] <= bound[i]})

\* The rank of a number among numbers that differ is one of 1 .. n, each once,
\* and grows with the number.
LEMMA RanksSort ==
  ASSUME NEW n \in Nat, NEW bound \in [1 .. n -> Int],
         \A i, j \in 1 .. n : bound[i] = bound[j] => i = j
  PROVE  /\ \A r \in 1 .. n : \E i \in 1 .. n : RankOf(bound, n, i) = r
         /\ \A i, j \in 1 .. n :
              bound[i] <= bound[j] => RankOf(bound, n, i) <= RankOf(bound, n, j)
<1> DEFINE Upto(i) == {j \in 1 .. n : bound[j] <= bound[i]}
           rank == [i \in 1 .. n |-> RankOf(bound, n, i)]
<1>1. IsFiniteSet(1 .. n) /\ Cardinality(1 .. n) = n
  BY FS_Interval
<1>2. ASSUME NEW i \in 1 .. n
      PROVE  /\ IsFiniteSet(Upto(i)) /\ Cardinality(Upto(i)) \in 1 .. n
             /\ i \in Upto(i) /\ Upto(i) \subseteq 1 .. n
  <2>1. i \in Upto(i) /\ Upto(i) \subseteq 1 .. n
    OBVIOUS
  <2> HIDE DEF Upto
  <2>2. IsFiniteSet(Upto(i)) /\ Cardinality(Upto(i)) <= n
    BY <1>1, <2>1, FS_Subset
  <2>3. Cardinality(Upto(i)) \in Nat /\ Cardinality(Upto(i)) # 0
    BY <2>1, <2>2, FS_CardinalityType, FS_EmptySet
  <2> QED BY <2>1, <2>2, <2>3
<1>3. ASSUME NEW i \in 1 .. n, NEW j \in 1 .. n, bound[i] <= bound[j]
      PROVE  Upto(i) \subseteq Upto(j)
  BY <1>3
<1>4. \A i \in 1 .. n : rank[i] = Cardinality(Upto(i))
  BY DEF RankOf
<1> HIDE DEF Upto, rank
<1>5. ASSUME NEW i \in 1 .. n, NEW j \in 1 .. n, bound[i] <= bound[j]
      PROVE  rank[i] <= rank[j]
  BY <1>2, <1>3, <1>4, <1>5, FS_Subset
<1>6. ASSUME NEW i \in 1 .. n, NEW j \in 1 .. n, bound[i] < bound[j]
      PROVE  rank[i] # rank[j]
  <2>1. Upto(i) \subseteq Upto(j)
    BY <1>3, <1>6
  <2>2. j \notin Upto(i)
    BY <1>6 DEF Upto
  <2>3. Upto(i) # Upto(j)
    BY <1>2, <2>2
  <2>4. Cardinality(Upto(i)) # Cardinality(Upto(j))
    BY <1>2, <2>1, <2>3, FS_Subset
  <2> QED BY <1>4, <2>4
<1>7. ASSUME NEW i \in 1 .. n, NEW j \in 1 .. n, rank[i] = rank[j]
      PROVE  i = j
  <2>1. bound[i] < bound[j] \/ bound[j] < bound[i] \/ bound[i] = bound[j]
    OBVIOUS
  <2> QED BY <1>6, <1>7, <2>1
<1>8. rank \in [1 .. n -> 1 .. n]
  BY <1>2, <1>4 DEF rank
<1>9. rank \in Injection(1 .. n, 1 .. n)
  BY <1>7, <1>8, Fun_IsInj
<1>10. rank \in Surjection(1 .. n, 1 .. n)
  BY <1>1, <1>9, FS_Injection
<1>11. \A r \in 1 .. n : \E i \in 1 .. n : rank[i] = r
  BY <1>10 DEF Surjection
<1> QED BY <1>5, <1>11 DEF rank

\* A text that is not empty.
IsName(text) == text \in Seq(STRING) /\ text # <<>>

\* The rules of a name as the mapper is to find them: in the order of their
\* bounds, each with a name.
InOrder(rules) ==
  \E n \in Nat :
    /\ DOMAIN rules = 1 .. n
    /\ \A r \in 1 .. n : rules[r].less \in Int /\ IsName(rules[r].path)
    /\ \A r, q \in 1 .. n : r < q => rules[r].less < rules[q].less

\* ParseDurationMappings leaves the rules of a name in order.
LEMMA RulesAreInOrder ==
  ASSUME NEW mappings, DurationsHold(mappings), TypedTable(mappings), NEW name \in DOMAIN mappings
  PROVE  InOrder(Rules(mappings[name][2]))
<1> DEFINE rules == mappings[name][2]
           n == Len(rules)
<1>1. rules \in Seq({rules[i] : i \in DOMAIN rules})
  BY DEF DurationsHold, TypedTable, Typed
<1>2. n \in Nat /\ DOMAIN rules = 1 .. n
  <2> HIDE DEF rules
  <2> QED BY <1>1
<1>3. ASSUME NEW i \in DOMAIN rules
      PROVE  /\ Bound(rules[i]) \in Int
             /\ IsName(Value(rules[i][2], "value"))
  <2>1. /\ rules[i][1] = "table"
        /\ Kind(rules[i][2], "less_than_minutes") = "integer"
        /\ Filled(At(rules[i][2], "value"))
    BY <1>3 DEF DurationsHold
  <2>2. \A key \in DOMAIN rules[i][2] : Typed(rules[i][2][key])
    BY <1>3, <2>1 DEF DurationsHold, TypedTable, TypedRule
  <2> HIDE DEF rules
  <2>3. "less_than_minutes" \in DOMAIN rules[i][2] /\ "value" \in DOMAIN rules[i][2]
    BY <2>1 DEF Kind, At, Filled
  <2>4. Bound(rules[i]) \in Int
    BY <2>1, <2>2, <2>3 DEF Typed, Bound, Value, Kind, At
  <2>5. IsName(Value(rules[i][2], "value"))
    BY <2>1, <2>2, <2>3 DEF Typed, IsName, Value, Filled, At
  <2> QED BY <2>4, <2>5
<1>4. \A i, j \in DOMAIN rules : Bound(rules[i]) = Bound(rules[j]) => i = j
  BY DEF DurationsHold
<1> HIDE DEF rules, n
<1> DEFINE bound == [i \in 1 .. n |-> Bound(rules[i])]
           Rank(i) == Cardinality({j \in DOMAIN rules : Bound(rules[j]) <= Bound(rules[i])})
           Nth(r) == CHOOSE i \in DOMAIN rules : Rank(i) = r
<1>5. bound \in [1 .. n -> Int] /\ \A i, j \in 1 .. n : bound[i] = bound[j] => i = j
  BY <1>2, <1>3, <1>4
<1>6. \A i \in 1 .. n : Rank(i) = RankOf(bound, n, i)
  <2>1. ASSUME NEW i \in 1 .. n
        PROVE  {j \in DOMAIN rules : Bound(rules[j]) <= Bound(rules[i])} =
                   {j \in 1 .. n : bound[j] <= bound[i]}
    BY <1>2
  <2> QED BY <2>1 DEF RankOf
<1>7. /\ \A r \in 1 .. n : \E i \in 1 .. n : RankOf(bound, n, i) = r
      /\ \A i, j \in 1 .. n :
           bound[i] <= bound[j] => RankOf(bound, n, i) <= RankOf(bound, n, j)
  <2> HIDE DEF bound
  <2> QED BY <1>2, <1>5, RanksSort
<1> HIDE DEF Rank
<1>8. ASSUME NEW r \in 1 .. n
      PROVE  Nth(r) \in 1 .. n /\ RankOf(bound, n, Nth(r)) = r
  <2> HIDE DEF bound
  <2>1. \E i \in DOMAIN rules : Rank(i) = r
    BY <1>2, <1>6, <1>7
  <2>2. Nth(r) \in DOMAIN rules /\ Rank(Nth(r)) = r
    BY <2>1
  <2> QED BY <1>2, <1>6, <2>2
<1>9. Rules(rules) = [r \in 1 .. n |->
          [less |-> Bound(rules[Nth(r)]), path |-> Value(rules[Nth(r)][2], "value")]]
  BY <1>2 DEF Rules, Rank
<1> HIDE DEF Nth
<1>10. ASSUME NEW r \in 1 .. n, NEW q \in 1 .. n, r < q
       PROVE  Bound(rules[Nth(r)]) < Bound(rules[Nth(q)])
  <2>1. bound[Nth(r)] = Bound(rules[Nth(r)]) /\ bound[Nth(q)] = Bound(rules[Nth(q)])
    BY <1>8
  <2> HIDE DEF bound
  <2>2. bound[Nth(r)] \in Int /\ bound[Nth(q)] \in Int
    BY <1>5, <1>8
  <2>3. ~(bound[Nth(q)] <= bound[Nth(r)])
    BY <1>7, <1>8, <1>10
  <2> QED BY <2>1, <2>2, <2>3
<1>11. \A r \in 1 .. n : /\ Bound(rules[Nth(r)]) \in Int
                         /\ IsName(Value(rules[Nth(r)][2], "value"))
  BY <1>2, <1>3, <1>8
<1>12. InOrder(Rules(rules))
  <2> DEFINE s == Rules(rules)
  <2>1. /\ DOMAIN s = 1 .. n
        /\ \A r \in 1 .. n : s[r].less = Bound(rules[Nth(r)])
                             /\ s[r].path = Value(rules[Nth(r)][2], "value")
    BY <1>9
  <2> HIDE DEF s
  <2>2. \A r \in 1 .. n : s[r].less \in Int /\ IsName(s[r].path)
    BY <1>11, <2>1
  <2>3. \A r, q \in 1 .. n : r < q => s[r].less < s[q].less
    BY <1>10, <2>1
  <2>4. InOrder(s)
    BY <1>2, <2>1, <2>2, <2>3 DEF InOrder
  <2> QED BY <2>4 DEF s
<1> QED BY <1>12 DEF rules

(***************************************************************************)
(* What is built from files that were parsed.                               *)
(***************************************************************************)

\* A key of two merged tables has the node of one of them, or a table.
LEMMA MergedIsTyped ==
  ASSUME NEW target, NEW source, TypedTable(target), TypedTable(source)
  PROVE  TypedTable(MergeTomlTable(target, source))
<1> DEFINE merged == MergeTomlTable(target, source)
<1>1. ASSUME NEW key \in DOMAIN merged
      PROVE  \/ key \in DOMAIN target /\ merged[key] = target[key]
             \/ key \in DOMAIN source /\ merged[key] = source[key]
             \/ merged[key][1] = "table"
  BY <1>1, Zenon DEF MergeTomlTable, Table
<1> HIDE DEF merged
<1>2. ASSUME NEW key \in DOMAIN merged
      PROVE  /\ Typed(merged[key])
             /\ merged[key][1] = "array" =>
                    \A i \in DOMAIN merged[key][2] : TypedRule(merged[key][2][i])
  <2>1. CASE merged[key][1] = "table"
    BY <2>1 DEF Typed
  <2>2. CASE merged[key][1] # "table"
    BY <1>1, <1>2, <2>2 DEF TypedTable
  <2> QED BY <2>1, <2>2
<1>3. TypedTable(merged)
  BY <1>2 DEF TypedTable
<1> QED BY <1>3 DEF merged

LEMMA SectionIsTyped ==
  ASSUME NEW file, TypedFile(file),
         NEW key \in {"top_parent_mapping", "text_duration_mappings", "duration_mappings"}
  PROVE  TypedTable(TableAt(file, key))
BY DEF TypedFile

LEMMA FilledIsName ==
  ASSUME NEW node, Typed(node), Filled(node)
  PROVE  IsName(node[2])
BY DEF Typed, Filled, IsName

TypedFolder(files) == \A path \in DOMAIN files : TypedFile(files[path][2])

\* What is expanded from an alias file is the path of an activity.
LEMMA EntryIsName ==
  ASSUME NEW files, NEW main, NEW index, TypedFolder(files), TypedFile(index),
         AliasesHold(files, main, index), NEW e \in Entries(files, main, index)
  PROVE  e.file \in Nat /\ e.key # <<>> /\ IsName(e.path)
<1> DEFINE path(i) == ChildPath(main, Includes(index)[i])
<1>1. PICK i \in DOMAIN Includes(index) : \E leaf \in Leaves(Content(files, path(i))) :
          e = [file |-> i, key |-> leaf.key, groups |-> leaf.groups,
               path |-> Canonical(Content(files, path(i)), leaf)]
  BY DEF Entries
<1> DEFINE child == Content(files, path(i))
<1>2. PICK leaf \in Leaves(child) :
          e = [file |-> i, key |-> leaf.key, groups |-> leaf.groups,
               path |-> Canonical(child, leaf)]
  BY <1>1
<1>3. ChildHolds(files, path(i))
  BY DEF AliasesHold
<1>4. TypedFile(child)
  BY <1>3 DEF ChildHolds, Reads, IsFile, Content, TypedFolder
<1>5. /\ Filled(At(child, "parent")) /\ Kind(child, "aliases") = "table"
      /\ leaf.key # <<>> /\ Filled(leaf.value)
  BY <1>2, <1>3 DEF ChildHolds
<1> HIDE DEF child, path
<1>6. i \in Nat
  <2>1. FilledList(At(index, "includes"))
    BY DEF AliasesHold, IncludesHold
  <2>2. "includes" \in DOMAIN index /\ Value(index, "includes") = index["includes"][2]
        /\ index["includes"][1] = "array"
    BY <2>1 DEF FilledList, At, Value
  <2> DEFINE includes == index["includes"][2]
  <2>3. includes \in Seq({includes[k] : k \in DOMAIN includes})
    BY <2>2 DEF TypedFile, Typed
  <2>4. DOMAIN Includes(index) = DOMAIN includes
    BY <2>2 DEF Includes
  <2> HIDE DEF includes
  <2> QED BY <2>3, <2>4
<1>7. IsName(Value(child, "parent"))
  <2>1. "parent" \in DOMAIN child
    BY <1>5 DEF Filled, At
  <2> QED BY <1>4, <1>5, <2>1, FilledIsName DEF TypedFile, Value, At
<1>8. leaf.groups \in Seq(STRING) /\ IsName(leaf.value[2])
  BY <1>2, <1>4, <1>5, FilledIsName DEF TypedFile
<1>9. IsName(Canonical(child, leaf))
  <2>1. ASSUME NEW a, NEW b, NEW c, IsName(a), b \in Seq(STRING), IsName(c)
        PROVE  IsName(a \o b \o c)
    <3>1. a \o b \o c \in Seq(STRING) /\ Len(a \o b \o c) = Len(a) + Len(b) + Len(c)
      BY <2>1 DEF IsName
    <3>2. Len(a) # 0 /\ Len(a) \in Nat /\ Len(b) \in Nat /\ Len(c) \in Nat
      BY <2>1 DEF IsName
    <3> QED BY <3>1, <3>2 DEF IsName
  <2> QED BY <1>7, <1>8, <2>1 DEF Canonical
<1> QED BY <1>2, <1>5, <1>6, <1>9

\* A key is mapped to the path of the one place that declares it.
LEMMA KeysHaveOnePath ==
  ASSUME NEW files, NEW main, NEW index, TypedFolder(files), TypedFile(index),
         AliasesHold(files, main, index)
  PROVE  /\ \A key \in DOMAIN TextMappings(files, main, index) :
              \E e \in Entries(files, main, index) : e.key = key
         /\ \A e \in Entries(files, main, index) :
              /\ e.key \in DOMAIN TextMappings(files, main, index)
              /\ TextMappings(files, main, index)[e.key] = Words(e.path)
<1> DEFINE entries == Entries(files, main, index)
           First(key) == CHOOSE e \in entries :
               e.key = key /\ \A f \in entries : f.key = key => e.file <= f.file
<1>1. \A e, f \in entries : e.key = f.key => e = f
  BY DEF AliasesHold
<1>2. \A e \in entries : e.file <= e.file
  BY EntryIsName
<1>3. TextMappings(files, main, index) =
        [key \in {e.key : e \in entries} |-> Words(First(key).path)]
  BY DEF TextMappings
<1> HIDE DEF entries
<1>4. ASSUME NEW e \in entries
      PROVE  First(e.key) = e
  <2>1. \A f \in entries : f.key = e.key => e.file <= f.file
    BY <1>1, <1>2
  <2> QED BY <1>1, <2>1
<1> HIDE DEF First
<1> QED BY <1>3, <1>4 DEF entries

\* A configuration the mapper can use: no name is empty, and the rules of a
\* name are in order.
Sound(config) ==
  /\ \A key \in DOMAIN config.text : key # <<>> /\ IsName(config.text[key])
  /\ \A key \in DOMAIN config.shorter : IsName(config.shorter[key])
  /\ \A key \in DOMAIN config.parents : IsName(config.parents[key])
  /\ <<>> \notin config.wake
  /\ \A name \in DOMAIN config.durations : InOrder(config.durations[name])

LEMMA MappingIsNamed ==
  ASSUME NEW mapping, TypedTable(mapping), MappingHolds(mapping)
  PROVE  \A key \in DOMAIN Names(mapping) : IsName(Names(mapping)[key])
BY FilledIsName DEF TypedTable, MappingHolds, Names

LEMMA BuiltIsSound ==
  ASSUME NEW files, NEW main, NEW index, NEW rules,
         TypedFolder(files), TypedFile(main), TypedFile(index), TypedFile(rules),
         AliasesHold(files, main, index),
         NEW shorter, shorter = MergedSection(main, rules, "text_duration_mappings"),
         NEW durations, durations = MergedSection(main, rules, "duration_mappings"),
         NEW texts, texts = TextMappings(files, main, index),
         StructHolds(main, texts, shorter, durations)
  PROVE  Sound(Struct(main, texts, shorter, durations))
<1> DEFINE config == Struct(main, texts, shorter, durations)
           wakes == Value(main, "wake_keywords")
           entries == Entries(files, main, index)
<1>1. /\ config.text = Names(texts)
      /\ config.shorter = Names(shorter)
      /\ config.parents = Names(TableAt(main, "top_parent_mapping"))
      /\ config.wake = {wakes[i][2] : i \in DOMAIN wakes}
      /\ config.durations = [name \in DOMAIN durations |-> Rules(durations[name][2])]
  BY DEF Struct
<1>2. /\ FilledList(At(main, "wake_keywords"))
      /\ MappingHolds(TableAt(main, "top_parent_mapping"))
      /\ MappingHolds(texts) /\ MappingHolds(shorter) /\ DurationsHold(durations)
  BY DEF StructHolds
<1> HIDE DEF config
<1> HIDE DEF entries
<1>3. /\ \A key \in DOMAIN texts : \E e \in entries : e.key = key
      /\ \A e \in entries : texts[e.key] = Words(e.path)
  BY KeysHaveOnePath DEF entries
<1>4. ASSUME NEW key \in DOMAIN config.text
      PROVE  key # <<>> /\ IsName(config.text[key])
  <2>1. PICK e \in entries : key = e.key
    BY <1>1, <1>4, <1>3 DEF Names
  <2>2. texts[key] = Words(e.path)
    BY <1>3, <2>1
  <2>3. config.text[key] = e.path
    BY <1>1, <1>4, <2>2 DEF Names, Words
  <2> QED BY <2>1, <2>3, EntryIsName DEF entries
<1>5. TypedTable(shorter) /\ TypedTable(durations) /\ TypedTable(TableAt(main, "top_parent_mapping"))
  BY SectionIsTyped, MergedIsTyped DEF MergedSection
<1>6. /\ \A key \in DOMAIN config.shorter : IsName(config.shorter[key])
      /\ \A key \in DOMAIN config.parents : IsName(config.parents[key])
  BY <1>1, <1>2, <1>5, MappingIsNamed
<1>7. <<>> \notin config.wake
  BY <1>1, <1>2 DEF FilledList, Filled, Value
<1>8. \A name \in DOMAIN config.durations : InOrder(config.durations[name])
  BY <1>1, <1>2, <1>5, RulesAreInOrder
<1> QED BY <1>4, <1>6, <1>7, <1>8 DEF Sound, config

(***************************************************************************)
(* The invariant.                                                          *)
(***************************************************************************)

\* The files are parsed ones, those of the folder and those a load has read;
\* a configuration is kept only while nothing is loaded, and is sound.
ConfigInv ==
  /\ TypedFolder(folder)
  /\ load = [at |-> load.at, main |-> load.main, index |-> load.index, rules |-> load.rules]
  /\ TypedFile(load.main) /\ TypedFile(load.index) /\ TypedFile(load.rules)
  /\ cached.loaded \in BOOLEAN
  /\ cached.loaded => load.at = "idle" /\ Sound(cached)

LEMMA NoKeysTyped == TypedFile(NoKeys)
<1>1. \A key : Kind(NoKeys, key) = "absent"
  BY DEF Kind, At, NoKeys
<1>2. \A key : TableAt(NoKeys, key) = NoKeys
  BY <1>1 DEF TableAt
<1>3. DOMAIN NoKeys = {}
  BY DEF NoKeys
<1> QED BY <1>1, <1>2, <1>3 DEF TypedFile, TypedTable

LEMMA ConfigInvInit == ConfigInit => ConfigInv
BY NoKeysTyped, FilesAssumption DEF ConfigInit, ConfigInv, TypedFolder, Idle, NoConfig

LEMMA ContentIsTyped ==
  ASSUME NEW files, TypedFolder(files), NEW path, Reads(files, path)
  PROVE  TypedFile(Content(files, path))
BY DEF TypedFolder, Reads, IsFile, Content

LEMMA FailsKeepsInv ==
  ASSUME ConfigInv, Fails, UNCHANGED folder
  PROVE  ConfigInv'
BY NoKeysTyped DEF ConfigInv, Fails, Idle

LEMMA ConfigInvStep == ConfigInv /\ [ConfigNext]_configVars => ConfigInv'
<1> SUFFICES ASSUME ConfigInv, [ConfigNext]_configVars
             PROVE  ConfigInv'
  OBVIOUS
<1>1. ASSUME NEW s \in Saves, Save(s[1], s[2])
      PROVE  ConfigInv'
  <2>1. TypedFolder(folder')
    BY <1>1, FilesAssumption DEF ConfigInv, TypedFolder, Save
  <2> QED BY <1>1, <2>1 DEF ConfigInv, Save
<1>2. CASE ReadMain
  <2>1. CASE Fails
    BY <1>2, <2>1, FailsKeepsInv DEF ReadMain
  <2>2. CASE /\ Reads(folder, Requested) /\ UNCHANGED cached
             /\ load' = [load EXCEPT !.at = "index", !.main = Content(folder, Requested)]
    <3>1. TypedFile(Content(folder, Requested))
      BY <2>2, ContentIsTyped DEF ConfigInv
    <3>2. /\ load'.main = Content(folder, Requested)
          /\ load'.index = load.index /\ load'.rules = load.rules
          /\ load' = [at |-> load'.at, main |-> load'.main, index |-> load'.index,
                      rules |-> load'.rules]
      BY <2>2 DEF ConfigInv
    <3> QED BY <1>2, <2>2, <3>1, <3>2 DEF ConfigInv, ReadMain
  <2> QED BY <1>2, <2>1, <2>2 DEF ReadMain
<1>3. CASE ReadIndexAndRules
  <2> DEFINE index == IndexPath(load.main)
             rules == RulesPath(load.main)
  <2>1. CASE Fails
    BY <1>3, <2>1, FailsKeepsInv DEF ReadIndexAndRules
  <2>2. CASE /\ Reads(folder, index) /\ Reads(folder, rules) /\ UNCHANGED cached
             /\ load' = [load EXCEPT !.at = "check", !.index = Content(folder, index),
                                     !.rules = Content(folder, rules)]
    <3>1. TypedFile(Content(folder, index)) /\ TypedFile(Content(folder, rules))
      BY <2>2, ContentIsTyped DEF ConfigInv
    <3> HIDE DEF index, rules
    <3>2. /\ load'.index = Content(folder, index) /\ load'.rules = Content(folder, rules)
          /\ load'.main = load.main
          /\ load' = [at |-> load'.at, main |-> load'.main, index |-> load'.index,
                      rules |-> load'.rules]
      BY <2>2 DEF ConfigInv
    <3> QED BY <1>3, <2>2, <3>1, <3>2 DEF ConfigInv, ReadIndexAndRules
  <2> QED BY <1>3, <2>1, <2>2 DEF ReadIndexAndRules
<1>4. CASE CheckAliases
  <2>1. CASE Fails
    BY <1>4, <2>1, FailsKeepsInv DEF CheckAliases
  <2>2. CASE load' = [load EXCEPT !.at = "build"] /\ UNCHANGED cached
    <3>1. /\ load'.index = load.index /\ load'.rules = load.rules /\ load'.main = load.main
          /\ load' = [at |-> load'.at, main |-> load'.main, index |-> load'.index,
                      rules |-> load'.rules]
      BY <2>2 DEF ConfigInv
    <3> QED BY <1>4, <2>2, <3>1 DEF ConfigInv, CheckAliases
  <2> QED BY <1>4, <2>1, <2>2 DEF CheckAliases
<1>5. CASE BuildConfig
  <2> DEFINE texts == TextMappings(folder, load.main, load.index)
             shorter == MergedSection(load.main, load.rules, "text_duration_mappings")
             durations == MergedSection(load.main, load.rules, "duration_mappings")
  <2>1. CASE Fails
    BY <1>5, <2>1, FailsKeepsInv DEF BuildConfig
  <2>2. CASE /\ AliasesHold(folder, load.main, load.index)
             /\ StructHolds(load.main, texts, shorter, durations)
             /\ cached' = Struct(load.main, texts, shorter, durations) /\ load' = Idle
    <3>1. Sound(cached')
      BY <2>2, BuiltIsSound DEF ConfigInv
    <3>2. cached'.loaded
      BY <2>2 DEF Struct
    <3> QED BY <1>5, <2>2, <3>1, <3>2, NoKeysTyped DEF ConfigInv, Idle, BuildConfig
  <2> QED BY <1>5, <2>1, <2>2 DEF BuildConfig
<1>6. CASE Invalidate
  BY <1>6 DEF ConfigInv, Invalidate, NoConfig
<1>7. CASE UNCHANGED configVars
  BY <1>7 DEF ConfigInv, configVars
<1> QED BY <1>1, <1>2, <1>3, <1>4, <1>5, <1>6, <1>7 DEF ConfigNext

LEMMA ConfigIsSound == ConfigSpec => []ConfigInv
BY ConfigInvInit, ConfigInvStep, PTL DEF ConfigSpec

(***************************************************************************)
(* What the configuration is used for.                                     *)
(***************************************************************************)

LEMMA LeastOf ==
  ASSUME NEW S \in SUBSET Nat, S # {}
  PROVE  \E i \in S : \A j \in S : i <= j
<1> DEFINE Less == {p \in Nat \X Nat : p[1] < p[2]}
<1>1. IsWellFoundedOn(Less, Nat)
  BY NatLessThanWellFounded DEF OpToRel
<1>2. PICK i \in S : \A j \in S : <<j, i>> \notin Less
  <2> HIDE DEF Less
  <2> QED BY <1>1, WFMin
<1>3. ASSUME NEW j \in S
      PROVE  i <= j
  <2>1. <<j, i>> \in Nat \X Nat /\ ~(j < i)
    BY <1>2
  <2> QED BY <2>1
<1> QED BY <1>3

\* Whatever the length, a name that a rule gives is not empty.
LEMMA RuledIsName ==
  ASSUME NEW config, Sound(config), NEW name, IsName(name), NEW minutes
  PROVE  IsName(Ruled(config, name, minutes))
<1> DEFINE rules == config.durations[name]
           above == {i \in DOMAIN rules : minutes < rules[i].less}
<1>1. CASE name \notin DOMAIN config.durations \/ above = {}
  BY <1>1 DEF Ruled
<1>2. CASE name \in DOMAIN config.durations /\ above # {}
  <2>1. PICK n \in Nat : DOMAIN rules = 1 .. n /\ \A r \in 1 .. n : IsName(rules[r].path)
    BY <1>2 DEF Sound, InOrder
  <2>2. above \in SUBSET Nat /\ above \subseteq 1 .. n
    BY <2>1
  <2>3. Ruled(config, name, minutes) = rules[CHOOSE i \in above : \A j \in above : i <= j].path
    BY <1>2 DEF Ruled
  <2> HIDE DEF above, rules
  <2>4. (CHOOSE i \in above : \A j \in above : i <= j) \in above
    BY <1>2, <2>2, LeastOf
  <2> QED BY <2>1, <2>2, <2>3, <2>4
<1> QED BY <1>1, <1>2

LEMMA KeyIsAnActivity ==
  ASSUME NEW config, Sound(config), NEW name \in DOMAIN config.text, name \notin config.wake,
         NEW minutes
  PROVE  ProjectPath(config, name, minutes) # <<>>
<1> DEFINE full == config.text[name]
           mapped == MappedName(config, name)
           path == Ruled(config, mapped, minutes)
<1>1. IsName(full)
  BY DEF Sound
<1>2. IsName(mapped)
  BY <1>1 DEF Sound, MappedName
<1> HIDE DEF mapped
<1>3. IsName(path)
  BY <1>2, RuledIsName
<1> HIDE DEF path
<1>4. UnderTopParent(config, path) # <<>>
  <2>1. CASE <<path[1]>> \in DOMAIN config.parents
    <3> DEFINE parent == config.parents[<<path[1]>>]
    <3>1. IsName(parent)
      BY <2>1 DEF Sound
    <3>2. Tail(path) \in Seq(STRING)
      BY <1>3 DEF IsName
    <3> HIDE DEF parent
    <3>3. /\ parent \in Seq(STRING) /\ Len(parent) \in Nat /\ Len(parent) # 0
          /\ Len(Tail(path)) \in Nat
      BY <3>1, <3>2 DEF IsName
    <3>4. Len(parent \o Tail(path)) # 0
      <4> DEFINE rest == Tail(path)
      <4> HIDE DEF rest
      <4>1. rest \in Seq(STRING) /\ Len(rest) \in Nat
        BY <3>2, <3>3 DEF rest
      <4>2. Len(parent \o rest) = Len(parent) + Len(rest)
        BY <3>3, <4>1
      <4>3. Len(parent \o rest) # 0
        BY <3>3, <4>1, <4>2
      <4> QED BY <4>3 DEF rest
    <3>5. parent \o Tail(path) # <<>>
      <4>1. Len(<<>>) = 0
        OBVIOUS
      <4> QED BY <3>4, <4>1, Zenon
    <3> QED BY <2>1, <3>5 DEF UnderTopParent, parent
  <2>2. CASE <<path[1]>> \notin DOMAIN config.parents
    BY <1>3, <2>2 DEF UnderTopParent, IsName
  <2> QED BY <2>1, <2>2
<1> QED BY <1>4 DEF ProjectPath, path, mapped

LEMMA SoundIsAccepted == ConfigInv => OfferedIsAccepted
<1> SUFFICES ASSUME ConfigInv, cached.loaded,
                    NEW name \in DOMAIN cached.text \cup cached.wake, Writable(name)
             PROVE  /\ name \in Offered(cached) \cap Recognized(cached)
                    /\ name \notin cached.wake =>
                         \A minutes \in Durations : ProjectPath(cached, name, minutes) # <<>>
  BY DEF OfferedIsAccepted
<1>1. Sound(cached)
  BY DEF ConfigInv
<1>2. name # <<>>
  BY <1>1 DEF Sound
<1>3. Trimmed(name) = name
  BY DEF Trimmed, Writable
<1>4. name \in Offered(cached)
  BY <1>2, <1>3 DEF Offered, AliasKeys, WakeKeywords, TrimmedNames
<1>5. name \in Recognized(cached)
  BY DEF Recognized
<1> QED BY <1>1, <1>4, <1>5, KeyIsAnActivity

LEMMA SoundIsTightest == ConfigInv => TightestRuleApplies
<1> SUFFICES ASSUME ConfigInv, cached.loaded,
                    NEW name \in DOMAIN cached.durations, NEW minutes \in Durations,
                    NEW i \in {k \in DOMAIN cached.durations[name] :
                                  minutes < cached.durations[name][k].less},
                    \A j \in {k \in DOMAIN cached.durations[name] :
                                  minutes < cached.durations[name][k].less} :
                        cached.durations[name][i].less <= cached.durations[name][j].less
             PROVE  Ruled(cached, name, minutes) = cached.durations[name][i].path
  BY DEF TightestRuleApplies
<1> DEFINE rules == cached.durations[name]
           above == {k \in DOMAIN rules : minutes < rules[k].less}
<1>1. PICK n \in Nat :
        /\ DOMAIN rules = 1 .. n
        /\ \A r \in 1 .. n : rules[r].less \in Int
        /\ \A r, q \in 1 .. n : r < q => rules[r].less < rules[q].less
  BY DEF ConfigInv, Sound, InOrder
<1>2. above \subseteq 1 .. n /\ i \in above
  BY <1>1
<1>3. \A j \in above : rules[i].less <= rules[j].less
  OBVIOUS
<1>4. Ruled(cached, name, minutes) = rules[CHOOSE k \in above : \A j \in above : k <= j].path
  BY <1>2 DEF Ruled
<1> HIDE DEF rules, above
<1>5. \A j \in above : i <= j
  <2> SUFFICES ASSUME NEW j \in above, ~(i <= j)
               PROVE  FALSE
    OBVIOUS
  <2>1. j < i /\ i \in 1 .. n /\ j \in 1 .. n
    BY <1>2
  <2>2. rules[j].less < rules[i].less /\ rules[i].less \in Int /\ rules[j].less \in Int
    BY <1>1, <2>1
  <2> QED BY <1>3, <2>2
<1>6. (CHOOSE k \in above : \A j \in above : k <= j) = i
  <2>1. \A k \in above : k \in Int
    BY <1>2
  <2>2. \A k \in above : (\A j \in above : k <= j) => k = i
    BY <1>2, <1>5, <2>1
  <2> QED BY <1>2, <1>5, <2>2
<1> QED BY <1>4, <1>6 DEF rules

\* The names the core offers are names it takes: whatever the folder holds and
\* whenever it is saved, a key or wake keyword of a configuration that is kept
\* (ConverterConfigLoader) is recognised by the validator, and a key becomes an
\* activity under a path that is not empty.
THEOREM OfferedNamesAreAccepted == ConfigSpec => []OfferedIsAccepted
BY ConfigIsSound, SoundIsAccepted, PTL

\* ParseDurationMappings and ApplyDurationRules: of the rules of a name the one
\* with the least bound above the length applies, in whatever order and in
\* whichever file they were written.
THEOREM TheTightestRuleApplies == ConfigSpec => []TightestRuleApplies
BY ConfigIsSound, SoundIsTightest, PTL

LEMMA BuildIsUnambiguous ==
  ASSUME ConfigInv, BuildConfig, cached'.loaded
  PROVE  LET entries == Entries(folder, load.main, load.index)
         IN  \A key \in DOMAIN cached'.text :
                {e.path : e \in {f \in entries : f.key = key}} = {cached'.text[key]}
                /\ Cardinality({f \in entries : f.key = key}) = 1
<1> DEFINE entries == Entries(folder, load.main, load.index)
           texts == TextMappings(folder, load.main, load.index)
<1>1. ~Fails
  BY DEF ConfigInv, BuildConfig, Fails
<1>2. AliasesHold(folder, load.main, load.index) /\ cached'.text = Names(texts)
  BY <1>1 DEF BuildConfig, Struct
<1>3. /\ \A key \in DOMAIN texts : \E e \in entries : e.key = key
      /\ \A e \in entries : texts[e.key] = Words(e.path)
  BY <1>2, KeysHaveOnePath DEF ConfigInv
<1>4. \A e, f \in entries : e.key = f.key => e = f
  BY <1>2 DEF AliasesHold
<1> HIDE DEF entries, texts
<1>5. ASSUME NEW key \in DOMAIN cached'.text
      PROVE  {e.path : e \in {f \in entries : f.key = key}} = {cached'.text[key]}
             /\ Cardinality({f \in entries : f.key = key}) = 1
  <2>1. PICK e \in entries : e.key = key
    BY <1>2, <1>3, <1>5 DEF Names
  <2>2. cached'.text[key] = e.path
    BY <1>2, <1>3, <1>5, <2>1 DEF Names, Words
  <2>3. {f \in entries : f.key = key} = {e}
    BY <1>4, <2>1
  <2>4. {d.path : d \in {e}} = {e.path} /\ Cardinality({e}) = 1
    BY FS_Singleton
  <2> QED BY <2>2, <2>3, <2>4
<1> QED BY <1>5 DEF entries

\* LoadAliasMappingDefinition, the second time it reads the files: each key of
\* a configuration that is kept is declared in one place of the files as they
\* are when it is kept, whatever was saved since they were checked.
THEOREM AliasesStayUnambiguous == ConfigSpec => AliasesAreUnambiguous
<1>1. ConfigInv /\ [ConfigNext]_configVars =>
        [(BuildConfig /\ cached'.loaded) =>
            LET entries == Entries(folder, load.main, load.index)
            IN  \A key \in DOMAIN cached'.text :
                    {e.path : e \in {f \in entries : f.key = key}} = {cached'.text[key]}
                    /\ Cardinality({f \in entries : f.key = key}) = 1]_configVars
  BY BuildIsUnambiguous
<1> QED BY <1>1, ConfigIsSound, PTL DEF ConfigSpec, AliasesAreUnambiguous

\* Whatever is in the folder, and whoever saves what: a bundle Android takes is
\* one the command line takes, and a report file that passes the check of
\* ValidateStatisticsItemsArray and its neighbours can be filled.
THEOREM BothReadersAgree == ConfigSpec => []ReadersAgree
BY FolderReadersAgree, PTL

\* ToCliConfigSnapshot to BuildCliConfigJson: every setting of a command that is
\* written is answered under its own name, whatever else the folder holds.
THEOREM EverySettingReachesTheCli == ConfigSpec => []SettingsReachTheCli
<1>1. ConfigInv => SettingsReachTheCli
  BY FolderSettingsReachTheCli DEF ConfigInv, TypedFolder
<1> QED BY <1>1, ConfigIsSound, PTL
=============================================================================
