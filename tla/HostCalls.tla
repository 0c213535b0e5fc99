------------------------------ MODULE HostCalls ------------------------------
(* One call of a host into the core and its answer: what the host wants is     *)
(* spelled as codes (Kotlin to JNI) or as JSON, decoded, parsed into the       *)
(* request the use case runs, and the outcome travels back through the        *)
(* envelope.  A field is a name with a value that is its own text; a JSON      *)
(* object is a function from names to [kind, is].  Case folding, hashes and    *)
(* the wording of messages are left out; what runs at the same time is the     *)
(* subject of AndroidSession.                                                  *)
EXTENDS Integers, FiniteSets, TLC

CONSTANTS
    Nothing,    \* no value yet
    Asks,       \* what hosts ask: [host, call, args, hyphens]
    Texts,      \* request texts a host of the C ABI may hand over by itself
    Services    \* how the service behind a use case may end:
                \* [ends, message, code, content, window, isUtf8]

VARIABLES
    stage,      \* "idle", "asked", "served", "shown"
    ask,        \* what is asked
    wire,       \* the request text, if it was written
    done,       \* the request the use case ran, if one ran
    service,    \* how its service ended
    reply,      \* the response text
    shown,      \* what the host makes of it
    first       \* the failed tree call the present call stands in for

vars == <<stage, ask, wire, done, service, reply, shown, first>>
----------------------------------------------------------------------------
(* The request codec: the fields each decoder reads and each encoder writes. *)

KindOf(f) ==
    CASE f \in {"year", "month", "exercise", "status", "limit", "top_n",
                "lookback_days", "tree_max_depth", "max_depth", "days"} -> "int"
      [] f \in {"overnight", "reverse", "activity_score_by_duration", "list_roots",
                "save_processed_output", "validate_logic", "validate_structure"} -> "bool"
      [] f \in {"days_list", "recent_days_list"} -> "ints"
      [] f = "months" -> "strings"
      [] OTHER -> "string"

QueryOptions ==
    {"output_mode", "year", "month", "from_date", "to_date", "remark", "day_remark",
     "project", "root", "exercise", "status", "overnight", "reverse", "limit", "top_n",
     "lookback_days", "activity_prefix", "activity_score_by_duration", "tree_period",
     "tree_period_argument", "tree_max_depth"}

DecodeQueryRequest == [required |-> {"action"}, optional |-> QueryOptions]
DecodeTreeRequest ==
    [required |-> {},
     optional |-> {"list_roots", "root_pattern", "max_depth", "period",
                   "period_argument", "root"}]
DecodeIngestRequest ==
    [required |-> {"input_path"},
     optional |-> {"date_check_mode", "save_processed_output", "ingest_mode"}]
DecodeIngestSyncStatusRequest == [required |-> {}, optional |-> {"months"}]
DecodeConvertRequest ==
    [required |-> {"input_path"},
     optional |-> {"date_check_mode", "save_processed_output", "validate_logic",
                   "validate_structure"}]
DecodeImportRequest == [required |-> {"processed_path"}, optional |-> {}]
DecodeValidateStructureRequest == [required |-> {"input_path"}, optional |-> {}]
DecodeValidateLogicRequest ==
    [required |-> {"input_path"}, optional |-> {"date_check_mode"}]
DecodeRecordActivityAtomicallyRequest ==
    [required |-> {"target_date_iso", "raw_activity_name", "remark"},
     optional |-> {"preferred_txt_path", "date_check_mode", "time_order_mode"}]
DecodeTemporalReportRequest ==
    [required |-> {"operation_kind", "display_mode"},
     optional |-> {"selection_kind", "date", "start_date", "end_date", "days",
                   "anchor_date", "format", "export_scope", "recent_days_list"}]
DecodeReportBatchRequest == [required |-> {"days_list"}, optional |-> {"format"}]

Decoder ==
    [query |-> DecodeQueryRequest, tree |-> DecodeTreeRequest,
     ingest |-> DecodeIngestRequest, sync_status |-> DecodeIngestSyncStatusRequest,
     convert |-> DecodeConvertRequest, import |-> DecodeImportRequest,
     validate_structure |-> DecodeValidateStructureRequest,
     validate_logic |-> DecodeValidateLogicRequest,
     record |-> DecodeRecordActivityAtomicallyRequest,
     report |-> DecodeTemporalReportRequest, report_batch |-> DecodeReportBatchRequest,
     clear |-> [required |-> {}, optional |-> {}]]

EncodeQueryRequest == {"action"} \cup QueryOptions
EncodeTreeRequest ==
    {"list_roots", "root_pattern", "max_depth", "period", "period_argument", "root"}
EncodeIngestRequest ==
    {"input_path", "date_check_mode", "save_processed_output", "ingest_mode"}
EncodeConvertRequest ==
    {"input_path", "date_check_mode", "save_processed_output", "validate_logic",
     "validate_structure"}
EncodeRecordActivityAtomicallyRequest ==
    {"target_date_iso", "raw_activity_name", "remark", "preferred_txt_path",
     "date_check_mode", "time_order_mode"}
EncodeTemporalReportRequest ==
    {"operation_kind", "display_mode", "selection_kind", "date", "start_date",
     "end_date", "days", "anchor_date", "format", "export_scope", "recent_days_list"}

\* The fields the encoder of a call writes when the payload has them.
Encoder ==
    [query |-> EncodeQueryRequest, tree |-> EncodeTreeRequest,
     ingest |-> EncodeIngestRequest, sync_status |-> {"months"},
     convert |-> EncodeConvertRequest, import |-> {"processed_path"},
     validate_structure |-> {"input_path"},
     validate_logic |-> {"input_path", "date_check_mode"},
     record |-> EncodeRecordActivityAtomicallyRequest,
     report |-> EncodeTemporalReportRequest,
     report_batch |-> {"days_list", "format"}, clear |-> {}]

Json(p) == [body |-> "object", of |-> [f \in DOMAIN p |-> [kind |-> KindOf(f), is |-> p[f]]]]
Encode(call, p) == Json([f \in Encoder[call] \cap DOMAIN p |-> p[f]])

\* A required field must be there with its kind; an optional one may be missing
\* or null, never of another kind.
Readable(v, f) == v.kind = KindOf(f)
HasRequired(of, f) == f \in DOMAIN of /\ Readable(of[f], f)
OptionalFits(of, f) == f \in DOMAIN of => of[f].kind = "null" \/ Readable(of[f], f)

Decodes(call, w) ==
    \/ call = "clear"
    \/ call = "sync_status" /\ w.body = "empty"
    \/ /\ w.body = "object"
       /\ \A f \in Decoder[call].required : HasRequired(w.of, f)
       /\ \A f \in Decoder[call].optional : OptionalFits(w.of, f)

\* An integer beyond 32 bits, and what get<int> makes of it, in silence.
Beyond == ("4294967303" :> "7") @@ ("4294967303,30" :> "7,30")
Narrowed(p) ==
    [f \in DOMAIN p |->
        IF KindOf(f) \in {"int", "ints"} /\ p[f] \in DOMAIN Beyond THEN Beyond[p[f]] ELSE p[f]]

Payload(call, w) ==
    Narrowed([f \in {g \in (Decoder[call].required \cup Decoder[call].optional) \cap DOMAIN w.of :
                         w.of[g].kind # "null"} |-> w.of[f].is])
----------------------------------------------------------------------------
(* The words the C API accepts for an enumerator. *)

ParseDateCheckMode ==
    [kNone |-> {"none"}, kContinuity |-> {"continuity"}, kFull |-> {"full"}]
ParseIngestMode ==
    [kStandard |-> {"standard"},
     kSingleTxtReplaceMonth |-> {"single_txt_replace_month", "single-txt-replace-month"}]
ParseTimeOrderMode ==
    [kStrictCalendar |-> {"strict_calendar"}, kLogicalDay0600 |-> {"logical_day_0600"}]
ParseQueryAction ==
    [kYears |-> {"years"}, kMonths |-> {"months"}, kDays |-> {"days"},
     kDaysDuration |-> {"days_duration", "days-duration"},
     kDaysStats |-> {"days_stats", "days-stats"}, kSearch |-> {"search"},
     kActivitySuggest |-> {"activity_suggest", "activity-suggest"},
     kMappingNames |-> {"mapping_names", "mapping-names"},
     kMappingAliasKeys |-> {"mapping_alias_keys", "mapping-alias-keys", "alias_keys",
                            "alias-keys"},
     kWakeKeywords |-> {"wake_keywords", "wake-keywords"},
     kAuthorableEventTokens |-> {"authorable_event_tokens", "authorable-event-tokens",
                                 "authorable_tokens", "authorable-tokens"},
     kReportChart |-> {"report_chart", "report-chart", "chart"},
     kReportComposition |-> {"report_composition", "report-composition", "composition"},
     kTree |-> {"tree"}]
ParseDataQueryOutputMode ==
    [kText |-> {"text"}, kSemanticJson |-> {"semantic_json", "semantic-json", "json"}]
ParseReportDisplayMode ==
    [kDay |-> {"day"}, kWeek |-> {"week"}, kMonth |-> {"month"}, kYear |-> {"year"},
     kRange |-> {"range"}, kRecent |-> {"recent"}]
ParseReportExportScope ==
    [kSingle |-> {"single"}, kAllMatching |-> {"all_matching", "all-matching"},
     kBatchRecentList |-> {"batch_recent_list", "batch-recent-list"}]
ParseReportOperationKind ==
    [kQuery |-> {"query"}, kStructuredQuery |-> {"structured_query", "structured-query"},
     kTargets |-> {"targets"}, kExport |-> {"export"}]
ParseTemporalSelectionKind ==
    [kSingleDay |-> {"single_day", "single-day"}, kDateRange |-> {"date_range", "date-range"},
     kRecentDays |-> {"recent_days", "recent-days"}]
ParseReportFormat ==
    [kMarkdown |-> {"markdown", "md"}, kLaTeX |-> {"latex", "tex"}, kTyp |-> {"typst", "typ"}]

\* The fields whose word the C API parses, with the table it uses.
Vocabulary ==
    [action |-> ParseQueryAction, output_mode |-> ParseDataQueryOutputMode,
     date_check_mode |-> ParseDateCheckMode, ingest_mode |-> ParseIngestMode,
     time_order_mode |-> ParseTimeOrderMode, display_mode |-> ParseReportDisplayMode,
     export_scope |-> ParseReportExportScope, operation_kind |-> ParseReportOperationKind,
     selection_kind |-> ParseTemporalSelectionKind, format |-> ParseReportFormat]

Known(f, word) ==
    f \in DOMAIN Vocabulary => \E e \in DOMAIN Vocabulary[f] : word \in Vocabulary[f][e]
Meaning(f, word) ==
    IF f \in DOMAIN Vocabulary
    THEN CHOOSE e \in DOMAIN Vocabulary[f] : word \in Vocabulary[f][e]
    ELSE word
----------------------------------------------------------------------------
(* The request a use case gets: the payload over the defaults of its type. *)

SelectionFields == {"selection_kind", "date", "start_date", "end_date", "days", "anchor_date"}

\* The fields the C API takes over from a temporal payload, by operation.
ReportFields(p) ==
    {"operation_kind", "display_mode"}
    \cup (IF "selection_kind" \in DOMAIN p THEN SelectionFields ELSE {})
    \cup {"format", "export_scope", "recent_days_list"}
TakenOver(p) ==
    LET kind == Meaning("operation_kind", p["operation_kind"])
    IN  CASE kind = "kTargets" -> {"operation_kind", "display_mode"}
          [] kind = "kStructuredQuery" ->
               ReportFields(p) \ {"format", "export_scope", "recent_days_list"}
          [] kind = "kQuery" -> ReportFields(p) \ {"export_scope", "recent_days_list"}
          [] OTHER -> ReportFields(p)

NoSelection ==
    [selection_kind |-> "kSingleDay", date |-> "", start_date |-> "", end_date |-> "",
     days |-> "0"]

Defaults(call, p) ==
    CASE call = "query" ->
           [output_mode |-> "kText", overnight |-> "false", reverse |-> "false",
            activity_score_by_duration |-> "false"]
      [] call = "tree" -> [list_roots |-> "false", root_pattern |-> "", max_depth |-> "-1"]
      [] call = "ingest" ->
           [date_check_mode |-> "kNone", save_processed_output |-> "false",
            ingest_mode |-> "kStandard"]
      [] call = "convert" ->
           [date_check_mode |-> "kNone", save_processed_output |-> "false",
            validate_logic |-> "true", validate_structure |-> "true"]
      [] call = "validate_logic" -> [date_check_mode |-> "kNone"]
      [] call = "record" ->
           [preferred_txt_path |-> "", date_check_mode |-> "kNone",
            time_order_mode |-> "kStrictCalendar"]
      [] call = "report_batch" -> [format |-> "kMarkdown"]
      [] call = "report" ->
           LET kind == Meaning("operation_kind", p["operation_kind"])
           IN  CASE kind = "kTargets" -> <<>>
                 [] kind = "kStructuredQuery" -> NoSelection
                 [] kind = "kQuery" -> NoSelection @@ [format |-> "kMarkdown"]
                 [] OTHER -> (IF "selection_kind" \in DOMAIN p THEN NoSelection ELSE <<>>)
                             @@ [format |-> "kMarkdown", export_scope |-> "kSingle",
                                 recent_days_list |-> ""]
      [] OTHER -> <<>>

Taken(call, p) == IF call = "report" THEN TakenOver(p) \cap DOMAIN p ELSE DOMAIN p

\* Every word the C API looks at is one it knows.
Parses(call, p) ==
    /\ call = "report" => Known("operation_kind", p["operation_kind"])
    /\ \A f \in Taken(call, p) : Known(f, p[f])

CoreRequest(call, p) ==
    [call |-> call,
     request |-> [f \in Taken(call, p) |-> Meaning(f, p[f])] @@ Defaults(call, p)]
----------------------------------------------------------------------------
(* The Android host: enumerators as the codes of NativeBridge, no value as a  *)
(* sentinel; the JNI bridge turns both back.                                  *)

KotlinCode ==
    [kNone |-> 0, kContinuity |-> 1, kFull |-> 2,
     kStrictCalendar |-> 0, kLogicalDay0600 |-> 1,
     kYears |-> 0, kMonths |-> 1, kDays |-> 2, kDaysDuration |-> 3, kDaysStats |-> 4,
     kSearch |-> 5, kActivitySuggest |-> 6, kTree |-> 7, kMappingNames |-> 8,
     kReportChart |-> 9, kMappingAliasKeys |-> 10, kWakeKeywords |-> 11,
     kAuthorableEventTokens |-> 12, kReportComposition |-> 13]

ParseDateCheckModeCode == <<"none", "continuity", "full">>
ParseRecordTimeOrderModeCode == <<"strict_calendar", "logical_day_0600">>
ParseDataQueryActionCode ==
    <<"years", "months", "days", "days_duration", "days_stats", "search",
      "activity_suggest", "tree", "mapping_names", "report_chart",
      "mapping_alias_keys", "wake_keywords", "authorable_event_tokens",
      "report_composition">>

\* The word a host writes for an enumerator when it writes JSON itself.
SpokenWord ==
    [kNone |-> "none", kContinuity |-> "continuity", kFull |-> "full",
     kStandard |-> "standard", kSingleTxtReplaceMonth |-> "single_txt_replace_month",
     kStrictCalendar |-> "strict_calendar", kLogicalDay0600 |-> "logical_day_0600",
     kYears |-> "years", kMonths |-> "months", kDays |-> "days",
     kDaysDuration |-> "days_duration", kDaysStats |-> "days_stats", kSearch |-> "search",
     kActivitySuggest |-> "activity_suggest", kMappingNames |-> "mapping_names",
     kMappingAliasKeys |-> "mapping_alias_keys", kWakeKeywords |-> "wake_keywords",
     kAuthorableEventTokens |-> "authorable_event_tokens", kReportChart |-> "report_chart",
     kReportComposition |-> "report_composition", kTree |-> "tree",
     kText |-> "text", kSemanticJson |-> "semantic_json",
     kDay |-> "day", kWeek |-> "week", kMonth |-> "month", kYear |-> "year",
     kRange |-> "range", kRecent |-> "recent", kSingle |-> "single",
     kAllMatching |-> "all_matching", kBatchRecentList |-> "batch_recent_list",
     kQuery |-> "query", kStructuredQuery |-> "structured_query", kTargets |-> "targets",
     kExport |-> "export", kSingleDay |-> "single_day", kDateRange |-> "date_range",
     kRecentDays |-> "recent_days", kMarkdown |-> "markdown", kLaTeX |-> "latex",
     kTyp |-> "typst"]

\* Other spellings a user of the command line may type.
TypedWord ==
    [kDaysDuration |-> "days-duration", kDaysStats |-> "days-stats",
     kActivitySuggest |-> "activity-suggest", kMappingNames |-> "mapping-names",
     kMappingAliasKeys |-> "alias-keys", kWakeKeywords |-> "wake-keywords",
     kAuthorableEventTokens |-> "authorable-tokens", kReportChart |-> "chart",
     kReportComposition |-> "composition", kSemanticJson |-> "json"]

Spell(a, f) ==
    LET e == a.args[f]
    IN  IF f \notin DOMAIN Vocabulary THEN e
        ELSE IF a.hyphens /\ e \in DOMAIN TypedWord THEN TypedWord[e] ELSE SpokenWord[e]
Spelled(a) == [f \in DOMAIN a.args |-> Spell(a, f)]

\* What Kotlin passes for an argument that has no value.
Sentinel(f) ==
    CASE KindOf(f) = "bool" -> "false"
      [] f \in {"year", "month"} -> "0"
      [] KindOf(f) = "int" -> "-1"
      [] OTHER -> ""

\* Mutant: zero is no value for any number.
IsSetPositive(f, v) ==
    CASE KindOf(f) = "bool" -> TRUE
      [] KindOf(f) = "int" -> v \notin {"0", "-1"}
      [] OTHER -> v # ""

\* What JNI takes as a value: text that is not empty, a number above zero for a
\* year or a month and not -1 elsewhere, any Boolean.
IsSet(f, v) ==
    CASE KindOf(f) = "bool" -> TRUE
      [] f \in {"year", "month"} -> v \notin {"0", "-1"}
      [] KindOf(f) = "int" -> v # "-1"
      [] OTHER -> v # ""

Arguments(a, fields) == [f \in fields |-> IF f \in DOMAIN a.args THEN a.args[f] ELSE Sentinel(f)]
OnlySet(args) == [f \in {g \in DOMAIN args : IsSet(g, args[g])} |-> args[f]]

DateCheckWord(a) == ParseDateCheckModeCode[KotlinCode[a.args["date_check_mode"]] + 1]

NativeIngest(a) ==
    [input_path |-> a.args["input_path"], date_check_mode |-> DateCheckWord(a),
     save_processed_output |-> a.args["save_processed_output"]]
    @@ (IF a.args["ingest_mode"] = "kStandard" THEN <<>>
        ELSE [ingest_mode |-> "single_txt_replace_month"])
NativeValidateLogic(a) ==
    [input_path |-> a.args["input_path"], date_check_mode |-> DateCheckWord(a)]
NativeRecordActivityAtomically(a) ==
    [target_date_iso |-> a.args["target_date_iso"],
     raw_activity_name |-> a.args["raw_activity_name"], remark |-> a.args["remark"],
     date_check_mode |-> DateCheckWord(a),
     time_order_mode |->
         ParseRecordTimeOrderModeCode[KotlinCode[a.args["time_order_mode"]] + 1]]
    @@ OnlySet([preferred_txt_path |-> a.args["preferred_txt_path"]])
\* There is no argument for activity_prefix; the output mode is passed as a word.
NativeQuery(a) ==
    LET spoken == [a EXCEPT !.args = Spelled(a)]
        args == Arguments(spoken, QueryOptions \ {"activity_prefix"})
    IN  [action |-> ParseDataQueryActionCode[KotlinCode[a.args["action"]] + 1]] @@ OnlySet(args)
NativeTree(a) == OnlySet(Arguments(a, EncodeTreeRequest))

\* The path or the date a native call insists on before it asks the core.
MissingArgument(a) ==
    \/ a.call \in {"ingest", "validate_structure", "validate_logic"} /\ a.args["input_path"] = ""
    \/ a.call = "record" /\ a.args["target_date_iso"] = ""

AndroidWire(a) ==
    CASE a.call = "ingest" -> Encode("ingest", NativeIngest(a))
      [] a.call = "record" -> Encode("record", NativeRecordActivityAtomically(a))
      [] a.call = "query" -> Encode("query", NativeQuery(a))
      [] a.call = "tree" -> Encode("tree", NativeTree(a))
      [] a.call = "validate_logic" -> Json(NativeValidateLogic(a))
      [] OTHER -> Json(Spelled(a))

\* The command line writes its JSON itself, a C++ host has the codec write it.
Wire(a) ==
    CASE a.host = "android" -> AndroidWire(a)
      [] a.host = "cli" -> Json(Spelled(a))
      [] a.host = "library" -> Encode(a.call, Spelled(a))
      [] OTHER -> a.args
----------------------------------------------------------------------------
(* The way back: a use case turns whatever its service does into an outcome,   *)
(* the C API turns that into JSON.                                             *)

Generic == "runtime.generic_error"

\* A service may refuse only where its answer has a place to say so.
Ends(call) == {s \in Services : s.ends = "refused" => call \in {"query", "record", "sync_status"}}

BuildErrorMessage(details) == IF details = "" THEN "the operation failed." ELSE details

\* Only a report keeps the code of an error it knows.
UseCase(call, s) ==
    [ok |-> s.ends = "ok",
     message |-> CASE s.ends = "ok" -> ""
                   [] s.ends = "refused" /\ call # "query" -> s.message
                   [] s.ends = "unknown" -> "Unknown non-standard exception."
                   [] OTHER -> BuildErrorMessage(s.message),
     code |-> IF s.ends = "contract" /\ call = "report" THEN s.code ELSE "",
     content |-> IF s.ends \in {"ok", "refused"} THEN s.content ELSE "",
     window |-> IF s.ends = "ok" THEN s.window ELSE ""]

Code(o, code) == IF o.ok THEN "" ELSE IF code = "" THEN Generic ELSE code
Base(o, code) ==
    [ok |-> o.ok, error_message |-> o.message, error_code |-> Code(o, code)]

BuildFailureResponse(message, code) ==
    [ok |-> FALSE, error_message |-> IF message = "" THEN "Unknown error." ELSE message,
     error_code |-> code]
BuildOperationResponse(o) == Base(o, o.code)
BuildIngestSyncStatusResponse(o) == Base(o, "") @@ [items |-> o.content]
BuildTextResponse(o) == Base(o, o.code) @@ [content |-> o.content]
BuildRecordResponse(o) == Base(o, "") @@ [content |-> o.content]
BuildReportTextResponse(o) ==
    IF o.ok THEN [ok |-> TRUE, error_message |-> o.message, error_code |-> "",
                  content |-> o.content, window |-> o.window]
    ELSE BuildTextResponse(o)
BuildStructuredResponse(o) ==
    [ok |-> o.ok, error_message |-> o.message, error_code |-> o.code]
    @@ (IF o.ok THEN [report |-> o.content] ELSE <<>>)
BuildReportTargetsResponse(o) == Base(o, o.code) @@ [items |-> o.content]
\* A pattern that matches nothing is no failure.
BuildTreeResponse(d, o) ==
    LET roots == d.request["list_roots"] = "true"
    IN  Base(o, "") @@ [found |-> o.ok /\ (roots \/ o.content # ""),
                        roots |-> IF roots THEN o.content ELSE "",
                        nodes |-> IF roots THEN "" ELSE o.content]

TemporalResponse(kind, o) ==
    CASE kind = "kQuery" -> BuildReportTextResponse(o)
      [] kind = "kStructuredQuery" -> BuildStructuredResponse(o)
      [] kind = "kTargets" -> BuildReportTargetsResponse(o)
      [] OTHER -> BuildOperationResponse(o)

Respond(d, o) ==
    CASE d.call = "query" -> BuildTextResponse(o)
      [] d.call = "tree" -> BuildTreeResponse(d, o)
      [] d.call = "sync_status" -> BuildIngestSyncStatusResponse(o)
      [] d.call = "record" -> BuildRecordResponse(o)
      [] d.call = "report" -> TemporalResponse(d.request["operation_kind"], o)
      [] d.call = "report_batch" -> BuildReportTextResponse(o)
      [] OTHER -> BuildOperationResponse(o)

CarriesData(d) ==
    \/ d.call \in {"query", "tree", "record", "report_batch", "sync_status"}
    \/ d.call = "report" /\ d.request["operation_kind"] # "kExport"

\* Text that is not UTF-8 cannot be written as JSON: the call answers that instead.
Answer(d, s) ==
    LET o == UseCase(d.call, s)
    IN  IF s.isUtf8 \/ (o.ok /\ ~CarriesData(d)) THEN Respond(d, o)
        ELSE BuildFailureResponse("invalid UTF-8 byte", Generic)

Field(r, f, otherwise) == IF f \in DOMAIN r THEN r[f] ELSE otherwise

\* Mutant: the content of a failure is not read.
ParseResponseEnvelopeOkOnly(r) ==
    [ok |-> r.ok, error_message |-> Field(r, "error_message", ""),
     error_code |-> Field(r, "error_code", ""),
     content |-> IF r.ok THEN Field(r, "content", "") ELSE ""]

\* The envelope keeps six fields and the window; others, such as items, are lost.
ParseResponseEnvelope(r) ==
    [ok |-> r.ok, error_message |-> Field(r, "error_message", ""),
     error_code |-> Field(r, "error_code", ""), content |-> Field(r, "content", "")]
    @@ (IF "window" \in DOMAIN r THEN [window |-> r.window] ELSE <<>>)
BuildResponseJson(ok, message, content) ==
    [ok |-> ok, error_message |-> message, error_code |-> "", content |-> content]

\* The content is the tree's own answer once more.
NativeTreeAnswer(r) ==
    IF r.ok THEN BuildResponseJson(TRUE, "", "")
                 @@ [found |-> r.found, roots |-> r.roots, nodes |-> r.nodes]
    ELSE BuildResponseJson(FALSE, IF r.error_message = "" THEN "tree query failed."
                                  ELSE r.error_message, "")

\* What a native method hands to Kotlin.
NativeAnswer(call, r) ==
    CASE call \in {"ingest", "validate_structure", "validate_logic"} ->
           LET e == ParseResponseEnvelope(r)
           IN  IF e.ok THEN [e EXCEPT !.content = "completed"] ELSE e
      [] call \in {"record", "query"} -> ParseResponseEnvelope(r)
      [] call = "tree" -> NativeTreeAnswer(r)
      [] OTHER -> r

\* What a request should mean: for a text of another host its author says so.
Intent(a) ==
    IF a.host = "other" THEN a.means
    ELSE [f \in {g \in DOMAIN a.args : ~(g = "tree_max_depth" /\ a.args[g] = "-1")} |-> a.args[f]]
AsksForRoots(a) == Field(Intent(a), "list_roots", "false") = "true"

\* What of the answer is data for the host.
Data(a, r) ==
    IF "items" \in DOMAIN r THEN r.items ELSE IF "report" \in DOMAIN r THEN r.report
    ELSE IF "nodes" \in DOMAIN r THEN IF AsksForRoots(a) THEN r.roots ELSE r.nodes
    ELSE Field(r, "content", "")

KotlinReads(a, r) ==
    [ok |-> r.ok, code |-> r.error_code, data |-> Data(a, r), window |-> Field(r, "window", ""),
     found |-> Field(r, "found", FALSE),
     message |-> IF r.ok THEN "" ELSE IF r.error_message = "" THEN "call failed."
                 ELSE r.error_message]

\* The command line prints the code with the message.
CliReads(a, r) ==
    [ok |-> r.ok, code |-> r.error_code, data |-> Data(a, r), window |-> Field(r, "window", ""),
     found |-> Field(r, "found", FALSE), message |-> r.error_message]

Read(a, r) ==
    IF a.host = "android" THEN KotlinReads(a, NativeAnswer(a.call, r)) ELSE CliReads(a, r)
NotStarted ==
    [ok |-> FALSE, code |-> "", data |-> "", window |-> "", found |-> FALSE, message |-> "native init failed."]
----------------------------------------------------------------------------
Init ==
    /\ stage = "idle"
    /\ ask = Nothing /\ wire = Nothing /\ done = Nothing /\ service = Nothing
    /\ reply = Nothing /\ shown = Nothing /\ first = Nothing

\* The call is written down, or refused by the bridge before it reaches the core.
Ask(a) ==
    /\ stage = "idle"
    /\ ask' = a
    /\ IF a.host = "android" /\ MissingArgument(a)
       THEN /\ stage' = "shown"
            /\ shown' = KotlinReads(a, BuildResponseJson(FALSE, "must not be empty.", ""))
            /\ UNCHANGED wire
       ELSE stage' = "asked" /\ wire' = Wire(a) /\ UNCHANGED shown
    /\ UNCHANGED <<done, service, reply, first>>

\* The runtime could not be created for the call.
AskWithoutRuntime(a) ==
    /\ stage = "idle" /\ a.host \in {"android", "cli"}
    /\ ask' = a /\ stage' = "shown" /\ shown' = NotStarted
    /\ UNCHANGED <<wire, done, service, reply, first>>

\* The C API: decode, parse, run the use case, build the response.
Serve ==
    /\ stage = "asked" /\ stage' = "served"
    /\ LET call == ask.call
           p == Payload(call, wire)
       IN  IF Decodes(call, wire) /\ Parses(call, p)
           THEN \E s \in Ends(call) :
                  /\ done' = CoreRequest(call, p)
                  /\ service' = s
                  /\ reply' = Answer(done', s)
           ELSE /\ reply' = BuildFailureResponse("bad request", Generic)
                /\ UNCHANGED <<done, service>>
    /\ UNCHANGED <<ask, wire, shown, first>>

\* The host reads the answer; a failed stand-in shows the failure it stood in for.
Show ==
    /\ stage = "served" /\ stage' = "shown"
    /\ LET answer == Read(ask, reply)
       IN  shown' = IF first # Nothing /\ ~answer.ok THEN first.shown ELSE answer
    /\ UNCHANGED <<ask, wire, done, service, reply, first>>

\* A project tree that failed on Android is asked for again as text.
LegacyTree(a) ==
    [host |-> "android", call |-> "query", hyphens |-> FALSE,
     args |-> [action |-> "kTree", tree_period |-> a.args["period"],
               tree_period_argument |-> a.args["period_argument"],
               tree_max_depth |-> a.args["max_depth"]]]
RunLegacyTreeQuery ==
    /\ stage = "shown" /\ ask.host = "android" /\ ask.call = "tree"
    /\ ~shown.ok /\ first = Nothing
    /\ first' = [ask |-> ask, done |-> done, service |-> service, shown |-> shown]
    /\ ask' = LegacyTree(ask)
    /\ done' = Nothing /\ service' = Nothing /\ reply' = Nothing
    /\ \/ wire' = Wire(ask') /\ stage' = "asked" /\ shown' = Nothing
       \/ wire' = Nothing /\ UNCHANGED <<stage, shown>>    \* no runtime for it

\* The host is done with the answer.
Return ==
    /\ stage = "shown"
    /\ ~(ask.host = "android" /\ ask.call = "tree" /\ ~shown.ok /\ first = Nothing)
    /\ stage' = "idle"
    /\ ask' = Nothing /\ wire' = Nothing /\ done' = Nothing /\ service' = Nothing
    /\ reply' = Nothing /\ shown' = Nothing /\ first' = Nothing

Next ==
    \/ \E a \in Asks \cup Texts : Ask(a) \/ AskWithoutRuntime(a)
    \/ Serve \/ Show \/ RunLegacyTreeQuery \/ Return

Spec == Init /\ [][Next]_vars
----------------------------------------------------------------------------
Words(a) == Spelled([args |-> Intent(a), hyphens |-> FALSE])

\* The request the use case runs is the one the host meant, field by field,
\* whatever codes, sentinels and words it went through, but for an integer
\* beyond 32 bits, which is cut; a text no decoder should take runs nothing,
\* and nothing well formed is turned away.
AsksReachTheCore ==
    /\ done # Nothing =>
          /\ Intent(ask) # Nothing
          /\ done = [call |-> ask.call,
                     request |-> Narrowed(Intent(ask)) @@ Defaults(ask.call, Words(ask))]
    /\ stage = "served" /\ done = Nothing => Intent(ask) = Nothing

CarriesWindow(d) ==
    d.call = "report_batch" \/ (d.call = "report" /\ d.request["operation_kind"] = "kQuery")

\* The host takes an answer for a success only when the use case ran and
\* succeeded, and then has its data and window and, of a tree, whether there is
\* one; it has an explanation of every failure, the message the core gave if it
\* gave one, and of a report the code of the error; a record call that was
\* refused still brings what was retained.
AnswersArrive ==
    stage = "shown" =>
        /\ shown.ok <=> /\ service # Nothing /\ service.ends = "ok"
                        /\ CarriesData(done) => service.isUtf8
        /\ shown.ok /\ CarriesData(done) => shown.data = service.content
        /\ shown.ok /\ CarriesWindow(done) => shown.window = service.window
        /\ shown.ok /\ ask.call = "tree" =>
              shown.found = (AsksForRoots(ask) \/ service.content # "")
        /\ ~shown.ok => shown.message # "" \/ shown.code # ""
        /\ service # Nothing /\ service.isUtf8 /\ ~shown.ok /\ first = Nothing =>
              /\ service.message # "" /\ service.ends # "unknown" => shown.message = service.message
              /\ service.ends = "contract" /\ ask.call = "report" => shown.code = service.code
              /\ service.ends = "refused" /\ ask.call = "record" => shown.data = service.content
=============================================================================
