---------------------------- MODULE ConfigBundle ----------------------------
(***************************************************************************)
(* The readers of the configuration folder but for the converter's: the     *)
(* bundle, which names the other files, read once by the Windows command    *)
(* line and once, written apart, by the Android runtime; the report files;  *)
(* and the settings of config.toml, which are copied five times on the way  *)
(* from the file to the command line.                                      *)
(***************************************************************************)
EXTENDS TomlFiles

CONSTANT BuiltFormats \* of latex and typst, those this Android build supports

ReportKinds == {"day", "month", "period", "week", "year"}
Formats == {"markdown", "latex", "typst"}

BundleFile == <<"meta", "bundle.toml">>
MainFile == <<"config.toml">>

(***************************************************************************)
(* The bundle.                                                             *)
(***************************************************************************)

\* ValidateBundleFileList: the optional files are not looked at.
FileListHolds(folder, bundle) ==
    LET files == TableAt(bundle, "file_list")
    IN  /\ Kind(bundle, "file_list") = "table"
        /\ Kind(files, "required") = "array"
        /\ \A i \in DOMAIN Value(files, "required") :
              NamesFile(folder, Value(files, "required")[i])
        /\ Optional(files, "optional", "array")

\* LoadReportPathsFromTable.
ReportPathsHold(folder, section) ==
    /\ "range" \notin DOMAIN section
    /\ \A kind \in ReportKinds : NamesFile(folder, At(section, kind))

ReportPaths(section) == [kind \in ReportKinds |-> Normal(Value(section, kind))]

Paths(bundle) == TableAt(bundle, "paths")
ReportTables(bundle) == TableAt(Paths(bundle), "reports")

\* The part about the converter, the chart and the old names of the formats;
\* ValidateHeatmapConfigFile reads the chart's file and finds it usable.
ConverterAndChartHold(folder, bundle) ==
    LET converter == TableAt(Paths(bundle), "converter")
        chart == TableAt(Paths(bundle), "visualization")
    IN  /\ {"interval_processor_config", "interval_processor_config_path"}
               \cap DOMAIN converter = {}
        /\ NamesFile(folder, At(converter, "interval_config"))
        /\ NamesFile(folder, At(chart, "heatmap"))
        /\ Reads(folder, Value(chart, "heatmap"))
        /\ Kind(Paths(bundle), "reports") = "table"
        /\ {"md", "tex", "typ"} \cap DOMAIN ReportTables(bundle) = {}

\* Where the bundle says the converter's file is.
ConverterPath(bundle) == Normal(Value(TableAt(Paths(bundle), "converter"), "interval_config"))

FormatHolds(folder, reports, format) ==
    /\ Optional(reports, format, "table")
    /\ format \in DOMAIN reports =>
           ReportPathsHold(folder, TableAt(reports, format))

\* What either reader resolves: a path per format and kind.
Resolved(bundle) ==
    LET reports == ReportTables(bundle)
    IN  [converter |-> ConverterPath(bundle),
         reports |-> [format \in Formats \cap DOMAIN reports |->
                         ReportPaths(TableAt(reports, format))]]

\* Mutant: the tables of the other formats are looked at for any profile but
\* android, and only then.
AndroidBundleHoldsMarkdownOnly(folder, bundle) ==
    LET reports == ReportTables(bundle)
    IN  /\ Kind(bundle, "schema_version") \in TakenFor("integer")
        /\ Filled(At(bundle, "profile"))
        /\ FileListHolds(folder, bundle)
        /\ ConverterAndChartHold(folder, bundle)
        /\ Kind(reports, "markdown") = "table"
        /\ FormatHolds(folder, reports, "markdown")
        /\ Value(bundle, "profile") = <<"android">> =>
               {"latex", "typst"} \cap DOMAIN reports = {}

\* TryResolveAndroidBundleConfigPathsImpl.
AndroidBundleHolds(folder, bundle) ==
    LET reports == ReportTables(bundle)
    IN  /\ Kind(bundle, "schema_version") \in TakenFor("integer")
        /\ Filled(At(bundle, "profile"))
        /\ FileListHolds(folder, bundle)
        /\ ConverterAndChartHold(folder, bundle)
        /\ Kind(reports, "markdown") = "table"
        /\ Value(bundle, "profile") = <<"android">> =>
               {"latex", "typst"} \cap DOMAIN reports = {}
        /\ \A format \in Formats : FormatHolds(folder, reports, format)

\* TryParseBundlePathsImpl: one format is enough, and any profile.
CliBundleHolds(folder, bundle) ==
    LET reports == ReportTables(bundle)
    IN  /\ Kind(bundle, "schema_version") \in TakenFor("integer")
        /\ Kind(bundle, "profile") = "string"
        /\ FileListHolds(folder, bundle)
        /\ ConverterAndChartHold(folder, bundle)
        /\ \A format \in Formats : FormatHolds(folder, reports, format)
        /\ Formats \cap DOMAIN reports # {}

(***************************************************************************)
(* The report files: what the check asks of one, and what filling it takes. *)
(***************************************************************************)
DayLabels ==
    {"date_label", "total_time_label", "status_label", "wake_anchor_label",
     "exercise_label", "getup_time_label", "remark_label", "statistics_label",
     "all_activities_label", "activity_remark_label", "activity_connector",
     "no_records_message"}

PeriodLabels ==
    {"title_template", "actual_days_label", "status_days_label",
     "wake_anchor_days_label", "exercise_days_label", "cardio_days_label",
     "anaerobic_days_label", "total_time_label", "no_records_message",
     "invalid_range_message", "project_breakdown_label"}

FontSizes == {"base_font_size", "report_title_font_size", "category_title_font_size"}

\* ValidateTexStyle and ValidateTypStyle, but for the optional keys.
StyleHolds(report, format) ==
    \/ format = "markdown"
    \/ /\ Filled(At(report, IF format = "latex" THEN "main_font" ELSE "base_font"))
       /\ \A size \in FontSizes :
             Kind(report, size) = "integer" /\ Value(report, size) > 0

\* The list of a report's items and, to any depth, the lists within its items.
ItemLists(node) ==
    LET Within(list) ==
            {item[2].sub_items : item \in
                {list[2][i] : i \in {k \in DOMAIN list[2] :
                    list[2][k][1] = "table" /\ "sub_items" \in DOMAIN list[2][k][2]}}}
        at[depth \in Nat] ==
            IF depth = 0 THEN {node}
            ELSE UNION {Within(list) : list \in {l \in at[depth - 1] : l[1] = "array"}}
        from[depth \in Nat] ==
            IF at[depth] = {} THEN {} ELSE at[depth] \cup from[depth + 1]
    IN  from[0]

\* ValidateStatisticsItemsArray.
ItemsHold(node) ==
    \A list \in ItemLists(node) :
        /\ list[1] = "array" /\ list[2] # <<>>
        /\ \A i \in DOMAIN list[2] :
              /\ list[2][i][1] = "table"
              /\ Filled(At(list[2][i][2], "label"))
              /\ Kind(list[2][i][2], "show") \in {"absent", "boolean"}
              /\ Kind(list[2][i][2], "db_column") \in {"absent", "string"}

\* ValidateDailyStatistics and ValidateKeywordColors (a color is a filled text).
DayHolds(report, format) ==
    /\ Filled(At(report, IF format = "latex" THEN "report_title" ELSE "title_prefix"))
    /\ \A label \in DayLabels : Filled(At(report, label))
    /\ format # "markdown" =>
           LET colors == TableAt(report, "keyword_colors")
           IN  /\ Kind(report, "keyword_colors") = "table" /\ colors # NoKeys
               /\ \A word \in DOMAIN colors : Filled(colors[word])
    /\ ItemsHold(At(report, "statistics_items"))

\* ValidateRequiredPeriodLabels, the same for a month, a period, a week, a year.
PeriodHolds(report) == \A label \in PeriodLabels : Filled(At(report, label))

ReportHolds(report, format, kind) ==
    /\ StyleHolds(report, format)
    /\ IF kind = "day" THEN DayHolds(report, format) ELSE PeriodHolds(report)

\* ParseStatisticsItems: what is no table is passed over, a label is required.
ItemsFill(node) ==
    \A list \in ItemLists(node) : list[1] = "array" =>
        \A i \in {k \in DOMAIN list[2] : list[2][k][1] = "table"} :
            Kind(list[2][i][2], "label") = "string"

\* GetRequired over FillTexStyle, FillTypStyle, FillDailyLabels, FillRangeLabels.
FillRequires(format, kind) ==
    (IF kind = "day" THEN {"date_label", "total_time_label"}
     ELSE {"title_template", "total_time_label", "actual_days_label",
           "no_records_message"})
    \cup (IF format = "latex" THEN {"main_font"}
          ELSE IF format = "typst" THEN {"base_font"} ELSE {})

Fills(report, format, kind) ==
    /\ \A key \in FillRequires(format, kind) : Kind(report, key) = "string"
    /\ format # "markdown" =>
           \A size \in FontSizes : Kind(report, size) = "integer"
    /\ kind = "day" => ItemsFill(At(report, "statistics_items"))

\* LoadDailyTexConfig to LoadYearlyMdConfig.
ReportLoads(folder, path, format, kind) ==
    /\ StyledReads(folder, path)
    /\ ReportHolds(Styled(folder, path), format, kind)
    /\ Fills(Styled(folder, path), format, kind)

\* LoadDetailedReports and BuildAndroidReportCatalogBridge.
ReportsLoad(folder, paths) ==
    \A format \in DOMAIN paths : \A kind \in ReportKinds :
        ReportLoads(folder, paths[format][kind], format, kind)

(***************************************************************************)
(* The Android runtime.                                                    *)
(***************************************************************************)

\* BuildLegacyMarkdownConfigPaths.
LegacyPaths ==
    [format \in {"markdown"} |->
        [kind \in ReportKinds |-> <<"reports", "markdown", kind \o ".toml">>]]

\* ResolveAndroidRuntimeConfigPathsBridge: without a bundle, the folder is
\* taken as it was before there were any.
AndroidResolves(folder, requested) ==
    IF IsFile(folder, BundleFile)
    THEN LET bundle == Content(folder, BundleFile)
         IN  /\ Reads(folder, BundleFile)
             /\ AndroidBundleHolds(folder, bundle)
             /\ {"latex", "typst"} \cap DOMAIN ReportTables(bundle)
                    \subseteq BuiltFormats
    ELSE /\ IsFile(folder, requested)
         /\ \A kind \in ReportKinds :
               IsFile(folder, LegacyPaths["markdown"][kind])

=============================================================================
