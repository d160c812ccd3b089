--------------------------------- MODULE Params ---------------------------------
(*****************************************************************************)
(* What the pipeline takes from flags and config file                          *)
(* (src/cmd/params/params.go, src/pkg/vipertools/vipertools.go).                *)
(*                                                                           *)
(* The settings v are what viper found: a function on the keys that are set.    *)
(* A regular expression is the set of the paths it matches, None if it cannot   *)
(* be compiled.  A text that is "true", "false" or a list of regular            *)
(* expressions is a record of its word and its lines; the empty text has        *)
(* neither.                                                                    *)
(*****************************************************************************)
EXTENDS ProjectDetection

CONSTANT ApiKeys  (* The texts that have the format of an API key.           *)

Paths == Folders \cup {Root, Elsewhere, None}

EmptyText == [word |-> "", lines |-> {}]

Given(v, keys) == {i \in DOMAIN keys : keys[i] \in DOMAIN v}

FirstSet(v, keys, found, default) ==
  IF found = {} THEN default ELSE v[keys[CHOOSE i \in found : \A j \in found : i <= j]]

FirstNonEmptyText(v, keys) == FirstSet(v, keys, Given(v, keys), EmptyText)

FirstNonEmptyString(v, keys) == FirstSet(v, keys, Given(v, keys), None)

\* A bool that cannot be parsed is passed over; an empty text is not.
FirstNonEmptyBool(v, keys) ==
  FirstSet(v, keys, {i \in Given(v, keys) : v[keys[i]] \in BOOLEAN}, FALSE)

Compiled(patterns) == patterns \ {None}

\* Whether there are patterns, and which paths they match.  "false" is a pattern that
\* matches nothing.
ParseBoolOrRegexList(text) ==
  CASE text.word = "true"  -> [given |-> TRUE, paths |-> Paths]
    [] text.word = "false" -> [given |-> TRUE, paths |-> {}]
    [] OTHER -> [given |-> Compiled(text.lines) # {}, paths |-> UNION Compiled(text.lines)]

LoadPatterns(v, keys) == ParseBoolOrRegexList(FirstNonEmptyText(v, keys))

\* The patterns of all keys together.
AllPatterns(v, keys) == UNION {LoadPatterns(v, <<k>>).paths : k \in keys}

\* A map of regular expressions to texts, as a function of the path.
LoadProjectMapPatterns(v, key) ==
  LET entries == {e \in FirstSet(v, <<key>>, Given(v, <<key>>), {}) : e.paths # None}
  IN [d \in Paths |-> {e.text : e \in {f \in entries : d \in f.paths}}]

LoadFilterParams(v) ==
  [exclude |-> AllPatterns(v, {"exclude", "settings.exclude", "settings.ignore"}),
   include |-> AllPatterns(v, {"include", "settings.include"}),
   excludeUnknown |->
     FirstNonEmptyBool(v, <<"exclude-unknown-project", "settings.exclude_unknown_project">>),
   onlyProjectFile |->
     FirstNonEmptyBool(v, <<"include-only-with-project-file",
                            "settings.include_only_with_project_file">>)]

LoadSanitizeParams(v) ==
  [hideBranches |->
     LoadPatterns(v, <<"hide-branch-names", "settings.hide_branch_names",
                       "settings.hide_branchnames", "settings.hidebranchnames">>),
   hideDependencies |-> LoadPatterns(v, <<"hide-dependencies", "settings.hide_dependencies">>),
   hideNames |->
     LoadPatterns(v, <<"hide-project-names", "settings.hide_project_names",
                       "settings.hide_projectnames", "settings.hideprojectnames">>),
   hideFiles |->
     LoadPatterns(v, <<"hide-file-names", "hide-filenames", "hidefilenames",
                       "settings.hide_file_names", "settings.hide_filenames",
                       "settings.hidefilenames">>),
   hideFolder |-> FirstNonEmptyBool(v, <<"hide-project-folder", "settings.hide_project_folder">>)]

LoadProjectParams(v) ==
  [map |-> LoadProjectMapPatterns(v, "projectmap"),
   fromRemote |-> FirstNonEmptyBool(v, <<"git.project_from_git_remote">>),
   submodulesDisabled |-> LoadPatterns(v, <<"git.submodules_disabled">>).paths,
   submoduleMap |-> LoadProjectMapPatterns(v, "git_submodule_projectmap")]

\* None is an ErrAuth.
LoadAPIKey(v) ==
  LET flag == FirstNonEmptyString(v, <<"key", "settings.api_key", "settings.apikey">>)
      vault == FirstNonEmptyString(v, <<"settings.api_key_vault_cmd">>)
      key == FirstOf(flag, FirstOf(vault, FirstNonEmptyString(v, <<"WAKATIME_API_KEY">>)))
  IN IF key \in ApiKeys THEN key ELSE None

\* A pattern for the default key is left out: other patterns come before the default.
LoadKeyPatterns(v, default) ==
  LET map == LoadProjectMapPatterns(v, "project_api_key") IN [d \in Paths |-> map[d] \ {default}]

\* The API's parameters, or an ErrAuth: without a key, or if one of a project is invalid.
LoadAPIParams(v) ==
  LET key == LoadAPIKey(v)
      patterns == LoadKeyPatterns(v, key)
  IN IF key = None \/ ~ UNION {patterns[d] : d \in Paths} \subseteq ApiKeys
     THEN [ok |-> FALSE, key |-> None, patterns |-> [d \in Paths |-> {}]]
     ELSE [ok |-> TRUE, key |-> key, patterns |-> patterns]

\* parseExtraHeartbeat: a field that cannot be converted, or no time, is an error.
Parsed(e) == e.garbled = {} /\ e.given \cap {"time", "timestamp"} # {}

\* parseExtraHeartbeats: one error is an error of all.
ParseExtraHeartbeats(extras) ==
  IF \A i \in DOMAIN extras : Parsed(extras[i])
  THEN [i \in DOMAIN extras |-> extras[i].heartbeat] ELSE <<>>
================================================================================
