----------------------------- MODULE TomlFiles -----------------------------
(***************************************************************************)
(* The configuration folder and the readers of a TOML table.  A text is the *)
(* sequence of its segments: those of a path between slashes, those of an   *)
(* activity name between underscores; the empty text is <<>>.  A node is a  *)
(* pair of its kind and its value; a folder is a function from the paths of *)
(* its files to what they hold, which may not be TOML.                      *)
(***************************************************************************)
EXTENDS Integers, Sequences, FiniteSets

Words(segments) == <<"string", segments>>
List(nodes) == <<"array", nodes>>
Table(keys) == <<"table", keys>>
Number(n) == <<"integer", n>>
Flag(b) == <<"boolean", b>>

NoKeys == [key \in {} |-> <<>>]
Toml(keys) == <<"toml", keys>>
NotToml == <<"broken", NoKeys>>

At(table, key) == IF key \in DOMAIN table THEN table[key] ELSE <<"absent", <<>>>>
Kind(table, key) == At(table, key)[1]
Value(table, key) == At(table, key)[2]

\* TryReadTableField: the table at a key, or none.
TableAt(table, key) ==
    IF Kind(table, key) = "table" THEN Value(table, key) ELSE NoKeys

\* value<T> of toml++: a number is taken for a Boolean and a Boolean for a
\* number, no other kind for another.
TakenFor(kind) ==
    IF kind \in {"boolean", "integer"} THEN {"boolean", "integer"} ELSE {kind}

AsFlag(node) == IF node[1] = "integer" THEN Flag(node[2] # 0) ELSE node

\* TryReadTypedField and TryReadTableField: absent, or taken for this kind.
Optional(table, key, kind) == Kind(table, key) \in {"absent"} \cup TakenFor(kind)

\* RequireNonEmptyStringField.
Filled(node) == node[1] = "string" /\ node[2] # <<>>

FilledList(node) ==
    node[1] = "array" /\ node[2] # <<>> /\ \A i \in DOMAIN node[2] : Filled(node[2][i])

(***************************************************************************)
(* Paths.                                                                  *)
(***************************************************************************)
Entered(path, segment) ==
    CASE segment = "." -> path
      [] segment = ".." /\ path # <<>> /\ path[Len(path)] # ".." ->
             SubSeq(path, 1, Len(path) - 1)
      [] OTHER -> Append(path, segment)

\* lexically_normal.
Normal(path) ==
    LET upTo[i \in 0 .. Len(path)] ==
            IF i = 0 THEN <<>> ELSE Entered(upTo[i - 1], path[i])
    IN  upTo[Len(path)]

\* EnsureFileExists, of a path relative to the folder.
IsFile(folder, path) == Normal(path) \in DOMAIN folder

NamesFile(folder, node) == Filled(node) /\ IsFile(folder, node[2])

\* ReadCanonicalText and toml::parse: a file that is there and is TOML.
Reads(folder, path) == IsFile(folder, path) /\ folder[Normal(path)][1] = "toml"

Content(folder, path) == folder[Normal(path)][2]

(***************************************************************************)
(* style_source: the keys of a file over those of another.                  *)
(***************************************************************************)
\* Tables are merged, anything else is replaced.  The pairs of tables to merge
\* are those the first pair has at each depth.
MergeTomlTable(target, source) ==
    LET Tables(t, s) == {key \in DOMAIN t \cap DOMAIN s :
                            Kind(t, key) = "table" /\ Kind(s, key) = "table"}
        Inner(t, s, key) == <<t[key][2], s[key][2]>>
        Over(t, s, below) == [key \in DOMAIN t \cup DOMAIN s |->
            IF key \in Tables(t, s) THEN Table(below[Inner(t, s, key)])
            ELSE IF key \in DOMAIN s THEN s[key] ELSE t[key]]
        pairs[depth \in Nat] ==
            IF depth = 0 THEN {<<target, source>>}
            ELSE UNION {{Inner(p[1], p[2], key) : key \in Tables(p[1], p[2])} :
                        p \in pairs[depth - 1]}
        merged[depth \in Nat] ==
            [p \in pairs[depth] |-> Over(p[1], p[2], merged[depth + 1])]
    IN  Over(target, source, merged[1])

Beside(path, node) == SubSeq(path, 1, Len(path) - 1) \o node[2]

\* MergeStyleSource: the file named is required once it is named.
StyledReads(folder, path) ==
    /\ Reads(folder, path)
    /\ LET style == At(Content(folder, path), "style_source")
       IN  style[1] = "string" => Reads(folder, Beside(path, style))

Styled(folder, path) ==
    LET own == Content(folder, path)
        style == At(own, "style_source")
        all == MergeTomlTable(Content(folder, Beside(path, style)), own)
    IN  IF style[1] # "string" THEN own
        ELSE [key \in DOMAIN all \ {"style_source"} |-> all[key]]
=============================================================================
