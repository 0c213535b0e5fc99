---------------------------- MODULE CliSettings ----------------------------
(***************************************************************************)
(* What the command line is told of the configuration: the settings of      *)
(* config.toml, with the bundle and the report files read beside it.        *)
(***************************************************************************)
EXTENDS ConfigBundle

CONSTANT ExeDir \* the folder of the program, the configuration folder's parent

DateCheckModes == {<<"none">>, <<"continuity">>, <<"full">>}

Absolute(path) == path # <<>> /\ path[1] = "/"

\* ResolveDefaultPath.
FromExe(path) == IF Absolute(path) THEN path ELSE ExeDir \o path

(***************************************************************************)
(* Reading config.toml.                                                    *)
(***************************************************************************)

\* [general] is read only where there is no [system].
SystemSection(config) ==
    TableAt(config, IF "system" \in DOMAIN config THEN "system" ELSE "general")

\* ParseSystemSettingsImpl: what it refuses.
SystemHolds(config) ==
    LET section == SystemSection(config)
    IN  /\ Optional(config, "system", "table")
        /\ "system" \notin DOMAIN config => Optional(config, "general", "table")
        /\ Optional(section, "error_log", "string")
        /\ Optional(section, "export_root", "string")
        /\ Optional(section, "save_processed_output", "boolean")
        /\ Optional(section, "date_check_continuity", "boolean")

\* The settings of the commands: section, key and kind.
CommandFields ==
    {<<"export", "format", "string">>,
     <<"convert", "date_check", "string">>,
     <<"convert", "save_processed_output", "boolean">>,
     <<"convert", "validate_logic", "boolean">>,
     <<"convert", "validate_structure", "boolean">>,
     <<"query", "format", "string">>,
     <<"ingest", "date_check", "string">>,
     <<"ingest", "save_processed_output", "boolean">>,
     <<"validate-logic", "date_check", "string">>}

\* ParseDateCheckMode: a mode it does not know is refused.
FieldHolds(section, key, kind) ==
    /\ Optional(section, key, kind)
    /\ (key = "date_check" /\ key \in DOMAIN section) =>
           Value(section, key) \in DateCheckModes

\* ParseCliDefaultsImpl: what it refuses.
DefaultsHold(config) ==
    LET commands == TableAt(config, "commands")
    IN  /\ Optional(config, "defaults", "table")
        /\ \A key \in {"db_path", "output_root", "default_format"} :
              Optional(TableAt(config, "defaults"), key, "string")
        /\ Optional(config, "commands", "table")
        /\ \A field \in CommandFields :
              /\ Optional(commands, field[1], "table")
              /\ FieldHolds(TableAt(commands, field[1]), field[2], field[3])

PathSetting(section, key) ==
    IF Kind(section, key) = "string" THEN Words(FromExe(Value(section, key)))
    ELSE At(section, key)

\* ParseSystemSettingsImpl: what it leaves.
SystemSettings(config) ==
    LET section == SystemSection(config)
    IN  [export_path |-> PathSetting(section, "export_root"),
         default_save_processed_output |->
             AsFlag(At(section, "save_processed_output")) = Flag(TRUE),
         default_date_check_mode |->
             IF AsFlag(At(section, "date_check_continuity")) = Flag(TRUE)
             THEN <<"continuity">> ELSE <<"none">>]

\* ParseGlobalDefaults.
GlobalDefaults(config) ==
    LET section == TableAt(config, "defaults")
    IN  [db_path |-> PathSetting(section, "db_path"),
         output_root |-> PathSetting(section, "output_root"),
         default_format |-> At(section, "default_format")]

\* Mutant: the logic's setting is taken for the structure's.
CommandDefaultsMixed(config) ==
    LET commands == TableAt(config, "commands")
        Setting(section, key) == At(TableAt(commands, section), key)
    IN  [export_format |-> Setting("export", "format"),
         query_format |-> Setting("query", "format"),
         convert_date_check_mode |-> Setting("convert", "date_check"),
         convert_save_processed_output |-> AsFlag(Setting("convert", "save_processed_output")),
         convert_validate_logic |-> AsFlag(Setting("convert", "validate_logic")),
         convert_validate_structure |-> AsFlag(Setting("convert", "validate_logic")),
         ingest_date_check_mode |-> Setting("ingest", "date_check"),
         ingest_save_processed_output |-> AsFlag(Setting("ingest", "save_processed_output")),
         validate_logic_date_check_mode |-> Setting("validate-logic", "date_check")]

\* ParseExportDefaults to ParseValidateLogicDefaults.
CommandDefaults(config) ==
    LET commands == TableAt(config, "commands")
        Setting(section, key) == At(TableAt(commands, section), key)
    IN  [export_format |-> Setting("export", "format"),
         query_format |-> Setting("query", "format"),
         convert_date_check_mode |-> Setting("convert", "date_check"),
         convert_save_processed_output |-> AsFlag(Setting("convert", "save_processed_output")),
         convert_validate_logic |-> AsFlag(Setting("convert", "validate_logic")),
         convert_validate_structure |-> AsFlag(Setting("convert", "validate_structure")),
         ingest_date_check_mode |-> Setting("ingest", "date_check"),
         ingest_save_processed_output |-> AsFlag(Setting("ingest", "save_processed_output")),
         validate_logic_date_check_mode |-> Setting("validate-logic", "date_check")]

\* LoadConfiguration: whether it succeeds.
CliLoads(folder) ==
    /\ Reads(folder, MainFile)
    /\ SystemHolds(Content(folder, MainFile))
    /\ DefaultsHold(Content(folder, MainFile))
    /\ Reads(folder, BundleFile)
    /\ CliBundleHolds(folder, Content(folder, BundleFile))
    /\ ReportsLoad(folder, Resolved(Content(folder, BundleFile)).reports)

(***************************************************************************)
(* The copies.                                                             *)
(***************************************************************************)

\* ToCliConfigSnapshot: what is kept of the AppConfig.
ToCliConfigSnapshot(folder) ==
    LET config == Content(folder, MainFile)
    IN  [exe_dir_path |-> ExeDir,
         system |-> SystemSettings(config),
         converter |-> ConverterPath(Content(folder, BundleFile)),
         defaults |-> GlobalDefaults(config),
         command_defaults |-> CommandDefaults(config)]

\* ToCliCommandDefaultsSnapshot and ToCliCommandDefaultsContext copy field by
\* field; so does this.
Copied(defaults) ==
    [export_format |-> defaults.export_format,
     query_format |-> defaults.query_format,
     convert_date_check_mode |-> defaults.convert_date_check_mode,
     convert_save_processed_output |-> defaults.convert_save_processed_output,
     convert_validate_logic |-> defaults.convert_validate_logic,
     convert_validate_structure |-> defaults.convert_validate_structure,
     ingest_date_check_mode |-> defaults.ingest_date_check_mode,
     ingest_save_processed_output |-> defaults.ingest_save_processed_output,
     validate_logic_date_check_mode |-> defaults.validate_logic_date_check_mode]

\* LoadCliConfigSnapshot and ToCliConfigContext.
ToCliConfigContext(snapshot) ==
    [snapshot EXCEPT !.command_defaults = Copied(Copied(@))]

\* ResolveCliContext: an override, else the setting, else beside the program.
\* The database is put under the output folder wherever that was set to be.
ResolveCliContext(folder, dbOverride, outputOverride, command) ==
    LET context == ToCliConfigContext(ToCliConfigSnapshot(folder))
        Set(setting, otherwise) == IF setting[1] = "string" THEN setting[2] ELSE otherwise
        output == Set(context.defaults.output_root, ExeDir \o <<"output">>)
        export == IF outputOverride # <<>> THEN outputOverride
                  ELSE Set(context.system.export_path, <<>>)
        database == IF dbOverride # <<>> THEN dbOverride
                    ELSE Set(context.defaults.db_path,
                             output \o <<"db", "time_data.sqlite3">>)
    IN  [context |-> context, output_root |-> output, export_root |-> export,
         db_path |-> database,
         runtime_output_root |-> IF command = "export" /\ export # <<>>
                                 THEN export ELSE output]

\* The answer's text: BuildCliConfigJson, and the paths beside it.  A setting
\* that is absent is answered as null.
CliAnswer(folder, dbOverride, outputOverride, command) ==
    LET resolved == ResolveCliContext(folder, dbOverride, outputOverride, command)
        context == resolved.context
    IN  [default_save_processed_output |-> context.system.default_save_processed_output,
         default_date_check_mode |-> context.system.default_date_check_mode,
         default_format |-> context.defaults.default_format,
         command_defaults |-> context.command_defaults,
         db_path |-> resolved.db_path,
         output_root |-> resolved.output_root,
         export_root |-> resolved.export_root,
         runtime_output_root |-> resolved.runtime_output_root,
         converter |-> context.converter]

(***************************************************************************)
(* What the answer must say.                                               *)
(***************************************************************************)

\* Where a setting of a command is to be found in the answer.
AnsweredAs ==
    {<<"export", "format", "export_format">>,
     <<"query", "format", "query_format">>,
     <<"convert", "date_check", "convert_date_check_mode">>,
     <<"convert", "save_processed_output", "convert_save_processed_output">>,
     <<"convert", "validate_logic", "convert_validate_logic">>,
     <<"convert", "validate_structure", "convert_validate_structure">>,
     <<"ingest", "date_check", "ingest_date_check_mode">>,
     <<"ingest", "save_processed_output", "ingest_save_processed_output">>,
     <<"validate-logic", "date_check", "validate_logic_date_check_mode">>}

\* The settings that are a Boolean, whatever they are written as.
Switches == {"save_processed_output", "validate_logic", "validate_structure"}

\* Every setting of a command that is written, and no other, is in the answer.
CommandsAnswered(config, answer) ==
    \A place \in AnsweredAs :
        LET written == At(TableAt(TableAt(config, "commands"), place[1]), place[2])
        IN  answer.command_defaults[place[3]] =
                IF place[2] \in Switches THEN AsFlag(written) ELSE written
=============================================================================
