---------------------------- MODULE MCHostCalls ----------------------------
(* Every call with every field by itself and all of them together, from every *)
(* host; every report; every request text with one fault in it.               *)
EXTENDS HostCalls

IntValue ==
    [year |-> "2024", month |-> "5", exercise |-> "0", status |-> "1", limit |-> "6",
     top_n |-> "4", lookback_days |-> "30", tree_max_depth |-> "3", max_depth |-> "2",
     days |-> "7"]
Value(f) ==
    CASE KindOf(f) = "int" -> IntValue[f]
      [] KindOf(f) = "bool" -> IF f \in {"validate_logic", "validate_structure"} THEN "false" ELSE "true"
      [] f = "output_mode" -> "kSemanticJson"
      [] f = "date_check_mode" -> "kFull"
      [] f = "ingest_mode" -> "kSingleTxtReplaceMonth"
      [] f = "time_order_mode" -> "kLogicalDay0600"
      [] f = "display_mode" -> "kMonth"
      [] f = "export_scope" -> "kAllMatching"
      [] f = "operation_kind" -> "kQuery"
      [] f = "selection_kind" -> "kDateRange"
      [] f = "format" -> "kTyp"
      [] f = "action" -> "kSearch"
      [] OTHER -> f

Filled(fields) == [f \in fields |-> Value(f)]
Fields(call) == Decoder[call].required \cup Decoder[call].optional
\* No option, one option, or all.
Choices(call, options) ==
    {Filled(Decoder[call].required \cup chosen) :
        chosen \in {{}, options} \cup {{f} : f \in options}}

Actions == DOMAIN ParseQueryAction
Queries(host, options, hyphens) ==
    {[host |-> host, call |-> "query", hyphens |-> hyphens, args |-> p] :
        p \in Choices("query", options) \cup {[action |-> e] : e \in Actions}}

Selections ==
    {[selection_kind |-> "kSingleDay", date |-> "date"],
     [selection_kind |-> "kDateRange", start_date |-> "start_date", end_date |-> "end_date"],
     [selection_kind |-> "kRecentDays", days |-> "7"],
     [selection_kind |-> "kRecentDays", days |-> "7", anchor_date |-> "anchor_date"]}
Modes == DOMAIN ParseReportDisplayMode
Of(kind, mode) == [operation_kind |-> kind, display_mode |-> mode]
Rendered ==
    {Of("kQuery", m) @@ s @@ [format |-> f] : m \in Modes, s \in Selections,
                                             f \in DOMAIN ParseReportFormat}
Structured == {Of("kStructuredQuery", m) @@ s : m \in Modes, s \in Selections}
Listed == {Of("kTargets", m) : m \in Modes}
Exported ==
    {Of("kExport", "kDay") @@ s @@ [export_scope |-> "kSingle", format |-> "kLaTeX"] : s \in Selections}
    \cup {Of("kExport", m) @@ [export_scope |-> "kAllMatching", format |-> "kTyp"] : m \in Modes}
    \cup {Of("kExport", "kRecent") @@ [export_scope |-> "kBatchRecentList",
                                       recent_days_list |-> "7,30", format |-> "kMarkdown"]}

As(host, call, ps) == {[host |-> host, call |-> call, hyphens |-> FALSE, args |-> p] : p \in ps}

AndroidAsks ==
    Queries("android", QueryOptions \ {"activity_prefix"}, FALSE)
    \cup As("android", "tree", {[period |-> "period", period_argument |-> "period_argument",
                                 max_depth |-> d] : d \in {"-1", "2"}})
    \cup As("android", "ingest",
            {[input_path |-> p, date_check_mode |-> m, save_processed_output |-> "true",
              ingest_mode |-> i] : p \in {"", "input_path"}, m \in DOMAIN ParseDateCheckMode,
                                   i \in DOMAIN ParseIngestMode})
    \cup As("android", "validate_structure", {[input_path |-> p] : p \in {"", "input_path"}})
    \cup As("android", "validate_logic",
            {[input_path |-> "input_path", date_check_mode |-> m] : m \in DOMAIN ParseDateCheckMode})
    \cup As("android", "record",
            {Filled(Fields("record")) @@ <<>>,
             [Filled(Fields("record")) EXCEPT !["preferred_txt_path"] = ""],
             [Filled(Fields("record")) EXCEPT !["remark"] = "", !["time_order_mode"] = "kStrictCalendar"],
             [Filled(Fields("record")) EXCEPT !["target_date_iso"] = ""]})
    \cup As("android", "sync_status", {<<>>, [months |-> "months"]})
    \cup As("android", "clear", {<<>>})
    \cup As("android", "report", Rendered)

CliAsks ==
    Queries("cli", QueryOptions \ {"project"}, FALSE)
    \cup Queries("cli", {"output_mode"}, TRUE)
    \cup As("cli", "tree", {[list_roots |-> b, root_pattern |-> r, max_depth |-> d] :
                                b \in {"true", "false"}, r \in {"", "root"}, d \in {"-1", "2"}})
    \cup As("cli", "convert", {Filled(Fields("convert"))})
    \cup As("cli", "import", {Filled(Fields("import"))})
    \cup As("cli", "ingest", {Filled(Fields("ingest") \ {"ingest_mode"})})
    \cup As("cli", "validate_structure", {Filled(Fields("validate_structure"))})
    \cup As("cli", "validate_logic", {Filled(Fields("validate_logic"))})
    \cup As("cli", "report", Rendered \cup Listed \cup Exported)
    \cup As("cli", "report_batch", {[days_list |-> "7,30", format |-> f] : f \in DOMAIN ParseReportFormat})

LibraryAsks ==
    UNION {As("library", c, Choices(c, Decoder[c].optional)) : c \in DOMAIN Decoder \ {"report"}}
    \cup As("library", "report", Structured \cup Exported)

MCAsks == AndroidAsks \cup CliAsks \cup LibraryAsks

\* A good text of a call, and that text with one fault; what it still means.
Good(c) ==
    IF c = "report" THEN Filled({"operation_kind", "display_mode", "format"} \cup SelectionFields)
    ELSE Filled(Fields(c))
Text(c, w, means) ==
    [host |-> "other", call |-> c, hyphens |-> FALSE, args |-> w, means |-> means]
Without(p, fs) == [f \in DOMAIN p \ fs |-> p[f]]
GoodOf(c) == Json(Spelled([args |-> Good(c), hyphens |-> FALSE])).of
With(c, f, v) == [body |-> "object", of |-> [GoodOf(c) EXCEPT ![f] = v]]
Lost(f) == IF f = "selection_kind" THEN SelectionFields ELSE {f}

Broken(c) ==
    {Text(c, [body |-> b, of |-> <<>>],
          IF c = "sync_status" /\ b = "empty" THEN <<>> ELSE Nothing) :
        b \in {"empty", "not json", "not an object"}}
Dropped(c) ==
    {Text(c, [body |-> "object", of |-> Without(GoodOf(c), {f})],
          IF f \in Decoder[c].required THEN Nothing ELSE Without(Good(c), Lost(f))) :
        f \in DOMAIN Good(c)}
Nulled(c) ==
    {Text(c, With(c, f, [kind |-> "null", is |-> "null"]),
          IF f \in Decoder[c].required THEN Nothing ELSE Without(Good(c), Lost(f))) :
        f \in DOMAIN Good(c)}
Misread(c) ==
    {Text(c, With(c, f, [kind |-> "object", is |-> "{}"]), Nothing) : f \in DOMAIN Good(c)}
Unknown(c) ==
    {Text(c, With(c, f, [kind |-> "string", is |-> "unheard of"]), Nothing) :
        f \in DOMAIN Good(c) \cap DOMAIN Vocabulary}
TooLarge(c) ==
    {LET v == IF KindOf(f) = "ints" THEN "4294967303,30" ELSE "4294967303"
     IN  Text(c, With(c, f, [kind |-> KindOf(f), is |-> v]), [Good(c) EXCEPT ![f] = v]) :
        f \in {g \in DOMAIN Good(c) : KindOf(g) \in {"int", "ints"}}}
MCTexts ==
    UNION {Broken(c) \cup Dropped(c) \cup Nulled(c) \cup Misread(c) \cup Unknown(c) \cup TooLarge(c) :
              c \in DOMAIN Decoder \ {"clear"}}

Service(ends, message) ==
    [ends |-> ends, message |-> message, code |-> "reporting.target.not_found",
     content |-> "content", window |-> "window", isUtf8 |-> TRUE]
MCServices ==
    {Service("ok", ""), [Service("ok", "") EXCEPT !.content = ""], [Service("ok", "") EXCEPT !.isUtf8 = FALSE],
     Service("refused", "message"), Service("refused", ""), Service("threw", "message"),
     [Service("threw", "message") EXCEPT !.isUtf8 = FALSE], Service("threw", ""),
     Service("contract", "message"), Service("unknown", "")}
=============================================================================
