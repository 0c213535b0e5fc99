------------------------------ MODULE MCConfig ------------------------------
(***************************************************************************)
(* A small configuration folder, as it is shipped but for the number of     *)
(* files and names, and what may be wrong with it: each folder the checks   *)
(* start from departs from the shipped one in one file, and one more file   *)
(* may be saved at any time.                                               *)
(***************************************************************************)
EXTENDS ConverterConfig, TLC

MCExeDir == <<"exe">>
MCRequested == <<"converter", "interval_processor_config.toml">>

Over(table, key, node) == (key :> node) @@ table
Without(table, keys) == [key \in DOMAIN table \ keys |-> table[key]]
Label == Words(<<"label">>)

(* The converter's files. *)
Wakes == List(<<Words(<<"wake">>), Words(<<"w">>)>>)
Main == [alias_mapping_path |-> Words(<<"alias_mapping.toml">>),
         duration_rules_config_path |-> Words(<<"duration_rules.toml">>),
         header_order |-> List(<<Label>>),
         remark_prefix |-> Words(<<"r ">>),
         wake_keywords |-> Wakes]
RestRule(less, name) ==
    Table([less_than_minutes |-> Number(less), value |-> Words(<<"rest", name>>)])
RestRules(rules) == Table(<<"rest">> :> List(rules))
Rules_(shorter, durations) ==
    [text_duration_mappings |-> shorter, duration_mappings |-> durations]
Shorter == Table((<<"rest", "nap">> :> Words(<<"rest">>)) @@ (<<"insomnia">> :> Words(<<"insomnia">>)))
ShippedRules == Rules_(Shorter, RestRules(<<RestRule(10, "short"), RestRule(20, "medium")>>))

Leaf(key, groups, value) == [key |-> key, groups |-> groups, value |-> Words(value)]
Child(parent, leaves) == [parent |-> Words(<<parent>>), aliases |-> Table(leaves)]
Rest == {Leaf(<<"nap">>, <<>>, <<"nap">>), Leaf(<<"w">>, <<>>, <<"getup">>)}
Study == {Leaf(<<"sums">>, <<"math">>, <<"algebra">>)}
Index(files) == [includes |-> List([i \in DOMAIN files |-> Words(files[i])])]
A == <<"aliases", "a.toml">>
B == <<"aliases", "b.toml">>

Mains ==
    {Main,
     Without(Main, {"wake_keywords"}),
     Over(Main, "wake_keywords", List(<<Words(<<>>)>>)),
     Over(Main, "alias_mapping_path", Number(1)),
     Over(Main, "mappings_config_path", Words(<<"mappings.toml">>)),
     Over(Main, "alias_mapping_path", Words(<<"..", "converter", "alias_mapping.toml">>)),
     Over(Main, "top_parent_mapping", Table(<<"rest">> :> Words(<<"repose">>))),
     Over(Main, "duration_mappings", RestRules(<<RestRule(5, "brief")>>)),
     Over(Main, "duration_mappings", Table(<<"study">> :> Label)),
     Over(Main, "duration_mappings", Table(<<"study">> :> List(<<Label>>))),
     Over(Main, "duration_mappings", Table(<<"study">> :> List(<<RestRule(20, "medium"), RestRule(5, "brief")>>))),
     Over(Main, "generated_activities", Table([sleep_project_path |-> Words(<<>>)]))}
Indexes ==
    {Index(<<A, B>>), Index(<<B, A>>), Index(<<A>>), Index(<<>>), Index(<<A, <<"aliases", ".", "a.toml">>>>),
     Index(<<<<"..", "a.toml">>>>), Index(<<<<"/", "a.toml">>>>), Index(<<<<"aliases", "..", "..", "a.toml">>>>)}
RulesFiles ==
    {ShippedRules,
     Rules_(Shorter, RestRules(<<RestRule(20, "medium"), RestRule(10, "short")>>)),
     Rules_(Shorter, RestRules(<<RestRule(20, "medium"), RestRule(20, "short")>>)),
     Rules_(Shorter, RestRules(<<RestRule(0, "short")>>)),
     Rules_(Shorter, RestRules(<<>>)),
     Rules_(Label, RestRules(<<RestRule(10, "short")>>))}
Children ==
    {Child("rest", Rest), Child("study", Study),
     Child("study", Study \cup {Leaf(<<"nap">>, <<>>, <<"nap">>)}),
     Child("rest", Rest \cup {Leaf(<<"nap">>, <<"day">>, <<"nap">>)}),
     Child("study", {Leaf(<<" ", "sums">>, <<>>, <<"sums">>), Leaf(<<"c", "#">>, <<>>, <<"c">>)}),
     Child("study", {Leaf(<<"sums">>, <<>>, <<>>)}),
     [parent |-> Words(<<"study">>)]}

(* The bundle. *)
ReportPath(format, kind) == Words(<<"reports", format, kind \o ".toml">>)
ReportTable(format) == Table([kind \in ReportKinds |-> ReportPath(format, kind)])
PathsTable(converter, chart, reports) ==
    [converter |-> Table(converter), visualization |-> Table(chart), reports |-> Table(reports)]
ShippedConverter == [interval_config |-> Words(MCRequested)]
ShippedChart == [heatmap |-> Words(<<"charts", "heatmap.toml">>)]
ShippedReports == [format \in Formats |-> ReportTable(format)]
BundleOf(profile, paths) ==
    [schema_version |-> Number(1), profile |-> profile,
     file_list |-> Table([required |-> List(<<Words(<<".", "config.toml">>)>>)]),
     paths |-> Table(paths)]
ShippedPaths == PathsTable(ShippedConverter, ShippedChart, ShippedReports)
Shared == Words(<<"shared">>)
Bundle == BundleOf(Shared, ShippedPaths)
WithReports(profile, reports) ==
    BundleOf(profile, PathsTable(ShippedConverter, ShippedChart, reports))
Bundles ==
    {Bundle,
     WithReports(Words(<<"android">>), ShippedReports),
     WithReports(Words(<<"android">>), Without(ShippedReports, {"latex", "typst"})),
     WithReports(Shared, Without(ShippedReports, {"markdown"})),
     WithReports(Words(<<>>), ShippedReports),
     WithReports(Shared, NoKeys),
     WithReports(Shared, Over(ShippedReports, "latex", Table([day |-> Label]))),
     WithReports(Shared, Over(ShippedReports, "md", ReportTable("markdown"))),
     WithReports(Shared, Over(ShippedReports, "typst",
         Table(Over(ReportTable("typst")[2], "range", ReportPath("typst", "period"))))),
     WithReports(Shared, Over(ShippedReports, "markdown",
         Table(Over(ReportTable("markdown")[2], "week", Words(<<"reports", "none.toml">>))))),
     BundleOf(Shared, PathsTable(Over(ShippedConverter, "interval_processor_config", Label),
                                 ShippedChart, ShippedReports)),
     BundleOf(Shared, PathsTable(ShippedConverter, NoKeys, ShippedReports)),
     Over(Bundle, "file_list", Table([required |-> List(<<Words(<<"none.toml">>)>>)])),
     Over(Bundle, "file_list", Table([required |-> List(<<>>), optional |-> Label])),
     Over(Bundle, "schema_version", Flag(TRUE)),
     Without(Bundle, {"schema_version"})}

(* The report files. *)
Item == Table([label |-> Label])
Items == List(<<Table([label |-> Label, sub_items |-> List(<<Item>>)])>>)
Labelled(keys) == [key \in keys |-> Label]
Colors == [keyword_colors |-> Table([study |-> Words(<<"#2ECC40">>)])]
Style(format) ==
    [size \in FontSizes |-> Number(10)] @@
    IF format = "latex" THEN [main_font |-> Label] ELSE [base_font |-> Label]
StyleFor(format) ==
    IF format = "markdown" THEN NoKeys ELSE [style_source |-> Words(<<"style.toml">>)]
Day(format) ==
    Labelled(DayLabels \cup {IF format = "latex" THEN "report_title" ELSE "title_prefix"})
        @@ [statistics_items |-> Items] @@ StyleFor(format)
        @@ (IF format = "markdown" THEN NoKeys ELSE Colors)
Period(format) == Labelled(PeriodLabels) @@ StyleFor(format)
Report(format, kind) == IF kind = "day" THEN Day(format) ELSE Period(format)

Reports_ ==
    {<<<<"reports", "latex", "month.toml">>, Toml(Without(Period("latex"), {"style_source"}))>>,
     <<<<"reports", "latex", "style.toml">>, Toml(Over(Style("latex"), "base_font_size", Number(0)))>>,
     <<<<"reports", "markdown", "week.toml">>, Toml(Without(Period("markdown"), {"total_time_label"}))>>,
     <<<<"reports", "markdown", "day.toml">>,
       Toml(Over(Day("markdown"), "statistics_items", List(<<Table([show |-> Flag(TRUE)])>>)))>>,
     <<<<"reports", "typst", "day.toml">>, Toml(Without(Day("typst"), {"keyword_colors"}))>>}

(* config.toml. *)
Command(section, keys) == [commands |-> Table(section :> Table(keys))]
Settings ==
    [system |-> Table([save_processed_output |-> Flag(TRUE), date_check_continuity |-> Flag(TRUE),
                       export_root |-> Words(<<"exported">>)]),
     defaults |-> Table([db_path |-> Words(<<"db">>), output_root |-> Words(<<"out">>)])]
MainFiles ==
    {Settings @@ Command("convert", [date_check |-> Words(<<"full">>), validate_logic |-> Flag(TRUE),
                                     validate_structure |-> Flag(FALSE)]),
     Settings @@ Command("ingest", [date_check |-> Words(<<"continuity">>), save_processed_output |-> Flag(TRUE)]),
     Settings @@ Command("validate-logic", [date_check |-> Words(<<"none">>)]),
     Settings @@ Command("convert", [date_check |-> Words(<<"weekly">>)]),
     Settings @@ Command("query", [format |-> Number(1)]),
     Settings @@ Command("convert", [save_processed_output |-> Number(2), validate_logic |-> Number(0)]),
     [general |-> Table([error_log |-> Words(<<"log">>)]), defaults |-> Table(NoKeys)],
     [system |-> Words(<<"x">>)],
     [defaults |-> Table([output_root |-> Words(<<"/", "out">>)])]}

(* The folders. *)
ShippedMain == Settings @@ Command("export", [format |-> Words(<<"md">>)])
ReportFiles ==
    {<<<<"reports", f, k \o ".toml">>, Toml(Report(f, k))>> : f \in Formats, k \in ReportKinds}
    \cup {<<<<"reports", f, "style.toml">>, Toml(Style(f))>> : f \in {"latex", "typst"}}
ConverterFile(name) == <<"converter", name>>
ShippedFiles ==
    {<<MainFile, Toml(ShippedMain)>>, <<BundleFile, Toml(Bundle)>>,
     <<<<"charts", "heatmap.toml">>, Toml(NoKeys)>>,
     <<MCRequested, Toml(Main)>>,
     <<ConverterFile("alias_mapping.toml"), Toml(Index(<<A, B>>))>>,
     <<ConverterFile("duration_rules.toml"), Toml(ShippedRules)>>,
     <<<<"converter">> \o A, Toml(Child("rest", Rest))>>,
     <<<<"converter">> \o B, Toml(Child("study", Study))>>} \cup ReportFiles
Shipped == [path \in {f[1] : f \in ShippedFiles} |->
               (CHOOSE f \in ShippedFiles : f[1] = path)[2]]

Saved(path, tables) == {<<path, Toml(t)>> : t \in tables}
MCSaves ==
    Saved(MCRequested, Mains) \cup Saved(ConverterFile("alias_mapping.toml"), Indexes)
        \cup Saved(ConverterFile("duration_rules.toml"), RulesFiles)
        \cup Saved(<<"converter">> \o B, Children) \cup Saved(BundleFile, Bundles)
        \cup Reports_ \cup Saved(MainFile, MainFiles)
        \cup {<<<<"converter">> \o A, NotToml>>, <<BundleFile, NotToml>>}

MCFolders ==
    {Shipped, [path \in DOMAIN Shipped \ {BundleFile} |-> Shipped[path]],
     [path \in DOMAIN Shipped \ {<<"converter">> \o B} |-> Shipped[path]]}
        \cup {(s[1] :> s[2]) @@ Shipped : s \in MCSaves}
=============================================================================
