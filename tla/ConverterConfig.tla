--------------------------- MODULE ConverterConfig ---------------------------
(***************************************************************************)
(* The converter's configuration: its main file, the index of the alias     *)
(* files, the alias files, and the duration rules.  It is loaded file by    *)
(* file, the alias files twice - once to be checked, once to be used -      *)
(* while whoever edits the folder may save any of them.                    *)
(*                                                                         *)
(* An alias file's "aliases" holds the leaves of its nested tables: a key,  *)
(* the groups it lies under, and the value.  An activity name is the        *)
(* sequence of its segments, so that joining the segments and taking the    *)
(* name apart again, as a path, is concatenation.                          *)
(***************************************************************************)
EXTENDS CliSettings

CONSTANTS Folders,   \* the folders there may be at first
          Saves,     \* what a user may save: pairs of a path and a document
          MaxSaves,  \* bound on the saves
          Requested, \* the path of the main file the host passes
          Durations  \* lengths of an activity, in minutes

VARIABLES folder, \* the configuration folder
          load,   \* the load that is under way, and what it has read so far
          cached, \* what FileConverterConfigProvider keeps
          saves   \* the saves made

configVars == <<folder, load, cached, saves>>

NoConfig == [loaded |-> FALSE]

(***************************************************************************)
(* Names.                                                                  *)
(***************************************************************************)
Padded(name) == name # <<>> /\ name[1] = " "
Marked(name) == \E i \in DOMAIN name : name[i] \in {"#", "//", ";"}

\* TrimCopy.
Trimmed(name) == IF Padded(name) THEN Tail(name) ELSE name

\* A name that is read from an event line as it is written there: the line is
\* trimmed, and what follows a mark is a remark.
Writable(name) == ~Padded(name) /\ ~Marked(name)

(***************************************************************************)
(* The main file.                                                          *)
(***************************************************************************)

\* ValidateMainStrictAlias.
MainHolds(main) ==
    /\ {"alias_mapping_path", "duration_rules_config_path", "header_order",
        "remark_prefix", "wake_keywords"} \subseteq DOMAIN main
    /\ "mappings_config_path" \notin DOMAIN main
    /\ \A key \in {"alias_mapping_path", "duration_rules_config_path", "remark_prefix"} :
          Kind(main, key) = "string"
    /\ Kind(main, "header_order") = "array" /\ Kind(main, "wake_keywords") = "array"
    /\ Optional(main, "top_parent_mapping", "table")

\* The other files are named beside the main file.
IndexPath(main) == Beside(Requested, At(main, "alias_mapping_path"))
RulesPath(main) == Beside(Requested, At(main, "duration_rules_config_path"))

(***************************************************************************)
(* The alias files.                                                        *)
(***************************************************************************)
IsTomlPath(path) == path # <<>> /\ path[Len(path)] \in {"a.toml", "b.toml"}

\* ParseAliasIndexIncludes: the order is kept and means nothing.
IncludesHold(index) ==
    /\ FilledList(At(index, "includes"))
    /\ LET includes == Value(index, "includes")
           path == [i \in DOMAIN includes |-> Normal(includes[i][2])]
       IN  \A i \in DOMAIN includes :
              /\ IsTomlPath(path[i])
              /\ path[i][1] \notin {"/", ".."}
              /\ \A j \in DOMAIN includes : i # j => path[i] # path[j]

Includes(index) ==
    LET includes == Value(index, "includes")
    IN  [i \in DOMAIN includes |-> Normal(includes[i][2])]

ChildPath(main, include) ==
    LET index == IndexPath(main) IN SubSeq(index, 1, Len(index) - 1) \o include

Leaves(child) == Value(child, "aliases")

ChildHolds(files, path) ==
    /\ Reads(files, path)
    /\ LET child == Content(files, path)
       IN  /\ Filled(At(child, "parent"))
           /\ Kind(child, "aliases") = "table"
           /\ \A leaf \in Leaves(child) : leaf.key # <<>> /\ Filled(leaf.value)

\* BuildCanonicalValue.
Canonical(child, leaf) == Value(child, "parent") \o leaf.groups \o leaf.value[2]

\* LoadAliasMappingDefinition: what is expanded from one edition of the files.
Entries(files, main, index) ==
    LET Of(i) == Content(files, ChildPath(main, Includes(index)[i]))
    IN  UNION {{[file |-> i, key |-> leaf.key, groups |-> leaf.groups,
                 path |-> Canonical(Of(i), leaf)] : leaf \in Leaves(Of(i))} :
               i \in DOMAIN Includes(index)}

\* LoadAliasMappingDefinition: a key may be declared once, even to one value.
AliasesHold(files, main, index) ==
    /\ IncludesHold(index)
    /\ \A i \in DOMAIN Includes(index) :
          ChildHolds(files, ChildPath(main, Includes(index)[i]))
    /\ \A e, f \in Entries(files, main, index) : e.key = f.key => e = f

\* BuildTextMappingsFromAlias: toml::table::insert keeps what is there.
TextMappings(files, main, index) ==
    LET entries == Entries(files, main, index)
        First(key) == CHOOSE e \in entries :
            e.key = key /\ \A f \in entries : f.key = key => e.file <= f.file
    IN  [key \in {e.key : e \in entries} |-> Words(First(key).path)]

(***************************************************************************)
(* The duration rules.                                                     *)
(***************************************************************************)

\* DurationRule::Validate: the shapes, not the numbers.
RulesHold(rules) ==
    LET mappings == TableAt(rules, "duration_mappings")
    IN  /\ Kind(rules, "text_duration_mappings") = "table"
        /\ Kind(rules, "duration_mappings") = "table"
        /\ \A name \in DOMAIN mappings :
              /\ mappings[name][1] = "array"
              /\ \A i \in DOMAIN mappings[name][2] :
                    LET rule == mappings[name][2][i]
                    IN  /\ rule[1] = "table"
                        /\ Kind(rule[2], "less_than_minutes") = "integer"
                        /\ Kind(rule[2], "value") = "string"

\* LoadMergedToml: a table in the main file is merged with that of the rules.
MergedSection(main, rules, key) ==
    MergeTomlTable(TableAt(main, key), TableAt(rules, key))

(***************************************************************************)
(* The configuration that comes of it.                                     *)
(***************************************************************************)
Bound(rule) == Value(rule[2], "less_than_minutes")

\* ParseDurationMappings: what it refuses.
DurationsHold(mappings) ==
    \A name \in DOMAIN mappings :
        /\ name # <<>> /\ mappings[name][1] = "array" /\ mappings[name][2] # <<>>
        /\ \A i \in DOMAIN mappings[name][2] :
              /\ mappings[name][2][i][1] = "table"
              /\ Kind(mappings[name][2][i][2], "less_than_minutes") = "integer"
              /\ Bound(mappings[name][2][i]) > 0
              /\ Filled(At(mappings[name][2][i][2], "value"))
              /\ \A j \in DOMAIN mappings[name][2] :
                    i # j => Bound(mappings[name][2][i]) # Bound(mappings[name][2][j])

\* Mutant: the rules stay in the order they are written in.
RulesUnsorted(rules) ==
    [i \in DOMAIN rules |->
        [less |-> Bound(rules[i]), path |-> Value(rules[i][2], "value")]]

\* ParseDurationMappings: the rules of a name, sorted by their bound.
Rules(rules) ==
    LET Rank(i) == Cardinality({j \in DOMAIN rules : Bound(rules[j]) <= Bound(rules[i])})
        Nth(r) == CHOOSE i \in DOMAIN rules : Rank(i) = r
    IN  [r \in DOMAIN rules |->
            [less |-> Bound(rules[Nth(r)]), path |-> Value(rules[Nth(r)][2], "value")]]

MappingHolds(mapping) ==
    \A key \in DOMAIN mapping : key # <<>> /\ Filled(mapping[key])

\* ParseTomlToStruct: what it refuses.
StructHolds(main, texts, shorter, durations) ==
    /\ Filled(At(main, "remark_prefix"))
    /\ FilledList(At(main, "header_order"))
    /\ FilledList(At(main, "wake_keywords"))
    /\ Optional(main, "generated_activities", "table")
    /\ LET generated == TableAt(main, "generated_activities")
       IN  "sleep_project_path" \in DOMAIN generated =>
               Filled(generated.sleep_project_path)
    /\ MappingHolds(TableAt(main, "top_parent_mapping"))
    /\ MappingHolds(texts) /\ MappingHolds(shorter)
    /\ DurationsHold(durations)

Names(mapping) == [key \in DOMAIN mapping |-> mapping[key][2]]

Struct(main, texts, shorter, durations) ==
    [loaded |-> TRUE,
     wake |-> {Value(main, "wake_keywords")[i][2] :
                   i \in DOMAIN Value(main, "wake_keywords")},
     text |-> Names(texts),
     shorter |-> Names(shorter),
     durations |-> [name \in DOMAIN durations |-> Rules(durations[name][2])],
     parents |-> Names(TableAt(main, "top_parent_mapping"))]

(***************************************************************************)
(* What toml::parse makes of a file: in the sections that are read below, a *)
(* key that is there has a value, a string is the sequence of its segments, *)
(* an array a sequence of nodes, and an integer one.                        *)
(***************************************************************************)
Typed(node) ==
    /\ node[1] # "absent"
    /\ node[1] = "string" => node[2] \in Seq(STRING)
    /\ node[1] = "array" => node[2] \in Seq({node[2][i] : i \in DOMAIN node[2]})
    /\ node[1] = "integer" => node[2] \in Int

TypedRule(rule) ==
    rule[1] = "table" => \A key \in DOMAIN rule[2] : Typed(rule[2][key])

TypedTable(table) ==
    \A key \in DOMAIN table :
        /\ Typed(table[key])
        /\ table[key][1] = "array" =>
               \A i \in DOMAIN table[key][2] : TypedRule(table[key][2][i])

TypedFile(file) ==
    /\ \A key \in DOMAIN file : Typed(file[key])
    /\ \A key \in {"top_parent_mapping", "text_duration_mappings", "duration_mappings",
                   "defaults"} : TypedTable(TableAt(file, key))
    /\ Kind(file, "aliases") = "table" =>
           \A leaf \in Leaves(file) : leaf.groups \in Seq(STRING) /\ Typed(leaf.value)

ASSUME FilesAssumption ==
    /\ \A files \in Folders : \A path \in DOMAIN files : TypedFile(files[path][2])
    /\ \A save \in Saves : TypedFile(save[2][2])

(***************************************************************************)
(* Loading.                                                                *)
(***************************************************************************)
Idle == [at |-> "idle", main |-> NoKeys, index |-> NoKeys, rules |-> NoKeys]

ConfigInit ==
    /\ folder \in Folders
    /\ load = Idle
    /\ cached = NoConfig
    /\ saves = 0

\* A user, or an import, saves a file or deletes it.
Save(path, document) ==
    /\ saves < MaxSaves
    /\ folder' = [p \in DOMAIN folder \cup {path} |->
                     IF p = path THEN document ELSE folder[p]]
    /\ saves' = saves + 1
    /\ UNCHANGED <<load, cached>>

Fails == load' = Idle /\ UNCHANGED cached

\* LoadConverterConfig and LoadMergedToml: a configuration that is kept is not
\* loaded again.
ReadMain ==
    /\ load.at = "idle" /\ ~cached.loaded
    /\ IF /\ Reads(folder, Requested)
          /\ MainHolds(Content(folder, Requested))
       THEN load' = [load EXCEPT !.at = "index", !.main = Content(folder, Requested)]
            /\ UNCHANGED cached
       ELSE Fails
    /\ UNCHANGED <<folder, saves>>

\* ReadRequiredToml, of the index and of the rules.
ReadIndexAndRules ==
    LET index == IndexPath(load.main)
        rules == RulesPath(load.main)
    IN  /\ load.at = "index"
        /\ IF Reads(folder, index) /\ Reads(folder, rules)
           THEN load' = [load EXCEPT !.at = "check", !.index = Content(folder, index),
                                     !.rules = Content(folder, rules)]
                /\ UNCHANGED cached
           ELSE Fails
        /\ UNCHANGED <<folder, saves>>

\* ValidateAliasMapping reads the alias files, and throws what it read away.
CheckAliases ==
    /\ load.at = "check"
    /\ IF AliasesHold(folder, load.main, load.index) /\ RulesHold(load.rules)
       THEN load' = [load EXCEPT !.at = "build"] /\ UNCHANGED cached
       ELSE Fails
    /\ UNCHANGED <<folder, saves>>

\* Mutant: the second reading trusts the check of the first.
BuildConfigUnchecked ==
    LET texts == TextMappings(folder, load.main, load.index)
        shorter == MergedSection(load.main, load.rules, "text_duration_mappings")
        durations == MergedSection(load.main, load.rules, "duration_mappings")
    IN  /\ load.at = "build"
        /\ IF /\ \A i \in DOMAIN Includes(load.index) :
                    ChildHolds(folder, ChildPath(load.main, Includes(load.index)[i]))
              /\ StructHolds(load.main, texts, shorter, durations)
           THEN cached' = Struct(load.main, texts, shorter, durations) /\ load' = Idle
           ELSE Fails
        /\ UNCHANGED <<folder, saves>>

\* BuildTextMappingsFromAlias reads them again.
BuildConfig ==
    LET texts == TextMappings(folder, load.main, load.index)
        shorter == MergedSection(load.main, load.rules, "text_duration_mappings")
        durations == MergedSection(load.main, load.rules, "duration_mappings")
    IN  /\ load.at = "build"
        /\ IF /\ AliasesHold(folder, load.main, load.index)
              /\ StructHolds(load.main, texts, shorter, durations)
           THEN cached' = Struct(load.main, texts, shorter, durations) /\ load' = Idle
           ELSE Fails
        /\ UNCHANGED <<folder, saves>>

\* InvalidateCache, at the beginning of an ingest.
Invalidate ==
    /\ load.at = "idle" /\ cached.loaded
    /\ cached' = NoConfig
    /\ UNCHANGED <<folder, load, saves>>

ConfigNext ==
    \/ \E s \in Saves : Save(s[1], s[2])
    \/ ReadMain
    \/ ReadIndexAndRules
    \/ CheckAliases
    \/ BuildConfig
    \/ Invalidate

ConfigSpec == ConfigInit /\ [][ConfigNext]_configVars

(***************************************************************************)
(* What the configuration is used for.                                     *)
(***************************************************************************)

TrimmedNames(names) == {Trimmed(name) : name \in names} \ {<<>>}

\* BuildMappingAliasKeysContent.
AliasKeys(config) == TrimmedNames(DOMAIN config.text)

\* BuildWakeKeywordsContent.
WakeKeywords(config) == TrimmedNames(config.wake)

\* BuildAuthorableEventTokensContent.
Offered(config) == AliasKeys(config) \cup WakeKeywords(config)

\* Mutant: the wake keywords are left to the names they stand for.
RecognizedButWakes(config) ==
    DOMAIN config.text \cup DOMAIN config.shorter \cup DOMAIN config.parents

\* LineRules::LineRules and IsValidEventLine: the names a line may have.
Recognized(config) ==
    config.wake \cup DOMAIN config.text \cup DOMAIN config.shorter
        \cup DOMAIN config.parents

\* MapDescription.
MappedName(config, name) ==
    LET full == IF name \in DOMAIN config.text THEN config.text[name] ELSE name
    IN  IF full \in DOMAIN config.shorter THEN config.shorter[full] ELSE full

\* ApplyDurationRules: the first rule whose bound is above the length.
Ruled(config, name, minutes) ==
    LET rules == config.durations[name]
        above == {i \in DOMAIN rules : minutes < rules[i].less}
    IN  IF name \notin DOMAIN config.durations THEN name
        ELSE IF above = {} THEN name
        ELSE rules[CHOOSE i \in above : \A j \in above : i <= j].path

\* ApplyTopParentMapping.
UnderTopParent(config, path) ==
    IF <<path[1]>> \in DOMAIN config.parents
    THEN config.parents[<<path[1]>>] \o Tail(path) ELSE path

\* MapActivities: the project path of an activity, none for a wake.
ProjectPath(config, name, minutes) ==
    IF name \in config.wake THEN <<>>
    ELSE UnderTopParent(config, Ruled(config, MappedName(config, name), minutes))

(***************************************************************************)
(* Properties.                                                             *)
(***************************************************************************)

\* The names a user is offered to write are those the validator knows: a key of
\* an alias file, and a wake keyword, is offered and recognised, and a key that
\* is no wake keyword becomes an activity under a path that is not empty,
\* however long it lasts.  (A key with a mark in it, or blanks around it, is
\* offered too, and cannot be written.)
OfferedIsAccepted ==
    cached.loaded =>
        \A name \in DOMAIN cached.text \cup cached.wake : Writable(name) =>
            /\ name \in Offered(cached) \cap Recognized(cached)
            /\ name \notin cached.wake =>
                   \A minutes \in Durations : ProjectPath(cached, name, minutes) # <<>>

\* Of the rules of a name, the one with the least bound above the length of an
\* activity applies, in whatever order the file has them: rules of the main
\* file and of the rules file together.
TightestRuleApplies ==
    cached.loaded =>
        \A name \in DOMAIN cached.durations, minutes \in Durations :
            LET rules == cached.durations[name]
                above == {i \in DOMAIN rules : minutes < rules[i].less}
            IN  \A i \in above :
                    (\A j \in above : rules[i].less <= rules[j].less) =>
                        Ruled(cached, name, minutes) = rules[i].path

\* A configuration that is loaded gives each alias key the path of the one
\* place that declares it, so that the order of the files means nothing; also
\* when a file is saved after it was checked and before it is read again.
AliasesAreUnambiguous ==
    [][(BuildConfig /\ cached'.loaded) =>
        LET entries == Entries(folder, load.main, load.index)
        IN  \A key \in DOMAIN cached'.text :
                {e.path : e \in {f \in entries : f.key = key}} = {cached'.text[key]}
                /\ Cardinality({f \in entries : f.key = key}) = 1]_configVars

\* The two descriptions of the folder agree: a bundle that the Android runtime
\* takes is one the command line takes, and both find the same files through
\* it; and a report file that passes the check lacks nothing that filling the
\* report's texts asks for.
ReadersAgree ==
    /\ (Reads(folder, BundleFile) /\ AndroidResolves(folder, Requested)) =>
           CliBundleHolds(folder, Content(folder, BundleFile))
    /\ \A format \in Formats, kind \in ReportKinds :
           LET path == <<"reports", format, kind \o ".toml">>
           IN  (StyledReads(folder, path) /\ ReportHolds(Styled(folder, path), format, kind))
                   => Fills(Styled(folder, path), format, kind)

\* What is written in config.toml reaches the command line through all of its
\* copies: every setting of a command, none under another's name, and where no
\* override is given the folders that are set.  A file with a setting that
\* cannot be used is refused as a whole.
SettingsReachTheCli ==
    CliLoads(folder) =>
        LET config == Content(folder, MainFile)
            answer == CliAnswer(folder, <<>>, <<>>, "ingest")
            section == TableAt(config, "defaults")
        IN  /\ CommandsAnswered(config, answer)
            /\ \A place \in AnsweredAs : place[2] = "date_check" =>
                  answer.command_defaults[place[3]][2] \in DateCheckModes \cup {<<>>}
            /\ "db_path" \in DOMAIN section =>
                  answer.db_path = FromExe(section.db_path[2])
            /\ "output_root" \in DOMAIN section =>
                  answer.output_root = FromExe(section.output_root[2])
            /\ answer.runtime_output_root = answer.output_root
=============================================================================
