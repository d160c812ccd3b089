-------------------------------- MODULE Pipeline --------------------------------
(*****************************************************************************)
(* What happens to heartbeats before they are sent or queued: the handle        *)
(* options of src/cmd/heartbeat/heartbeat.go, and, without the API keys, of      *)
(* src/cmd/offline/offline.go.  A batch is the heartbeats of one handle; several  *)
(* are under way at once, of one process or of several, and meet in the project  *)
(* files, which hiding a project's name creates.                               *)
(*                                                                           *)
(* Options that may drop a heartbeat, or look at shared files, take one of them  *)
(* at a time; the others are one step for the whole batch.  Entities are        *)
(* already real paths (WithFormatting, WithEntityModifier).                     *)
(*****************************************************************************)
EXTENDS Params, SequencesExt

CONSTANTS
  Handles,   (* The batches.                                                  *)
  Inputs,    (* What each may be given: a heartbeat and extra ones from stdin. *)
  Settings,  (* The settings there may be.                                    *)
  Files,     (* The project files there may be at first.                      *)
  Cwd,       (* The folder the processes were started in.                     *)
  Random,    (* Any name of generateProjectName.                              *)
  MaxFaults  (* Bound on failures and kills.                                  *)

ASSUME PipelineAssumption ==
  /\ MaxFaults \in Nat
  /\ Cwd \in Folders \cup {Elsewhere}
  /\ Random \notin Folders \cup {Elsewhere, None}

IsSequence(s) == Len(s) \in Nat /\ DOMAIN s = 1 .. Len(s)

\* A project file is a sequence of lines, and no file is none.
ASSUME FileAssumption ==
  /\ None \notin {<<>>, <<Random>>}
  /\ \A c \in Files : c = [f \in Folders |-> c[f]] /\ \A f \in Folders : c[f] = None \/ IsSequence(c[f])

VARIABLES
  settings,  (* What all processes read.                                      *)
  input,     (* The heartbeats each batch was given.                          *)
  contents,  (* The project file of each folder.                              *)
  original,  (* History: what it was at first.                                *)
  temps,     (* The temporary files: of which batch, for which heartbeat.     *)
  pc,        (* Where each batch is.                                          *)
  saving,    (* The batches that are only to be saved.                        *)
  hh,        (* The heartbeats an option has still to look at.                *)
  kept,      (* Those it has kept.                                            *)
  queue,     (* The heartbeats in the offline queue.                          *)
  sent,      (* History: the heartbeats the API was sent.                     *)
  faults     (* Failures so far.                                              *)

vars == <<settings, input, contents, original, temps, pc, saving, hh, kept, queue, sent, faults>>

Options(v) ==
  [filter |-> LoadFilterParams(v), sanitize |-> LoadSanitizeParams(v),
   project |-> LoadProjectParams(v), api |-> LoadAPIParams(v)]

OptionsOf == [v \in Settings |-> Options(v)]

options == OptionsOf[settings]

\* heartbeat.New: what an option adds is not there yet.
New(h) ==
  [in |-> h, temp |-> FALSE, key |-> None, dependencies |-> FALSE, meta |-> TRUE,
   project |-> None, detector |-> "unknown", blank |-> FALSE, branch |-> None, path |-> None,
   roots |-> FALSE, entity |-> "full", queued |-> FALSE]

BuildHeartbeats(i) == [n \in 1 .. 1 + Len(ParseExtraHeartbeats(i.extras)) |->
  New(IF n = 1 THEN i.main ELSE ParseExtraHeartbeats(i.extras)[n - 1])]

\* A local file is in the tree, WithFormatting has made its path absolute; a remote one
\* is not.
IsInput(i) ==
  /\ {i.exists, i.unsaved, i.remote} \subseteq BOOLEAN
  /\ i.folder \in Folders \cup {Root, Elsewhere}
  /\ i.root \in Folders \cup {Root, Elsewhere, None}
  /\ i.type = "file" => (i.folder = Elsewhere <=> i.remote /\ ~ i.unsaved)

ASSUME InputAssumption ==
  \A p \in Handles : \A i \in Inputs[p] :
    LET batch == BuildHeartbeats(i)
    IN /\ IsSequence(i.extras)
       /\ \A n \in DOMAIN batch : IsInput(batch[n].in)
       /\ \A m, n \in DOMAIN batch : batch[m].in.id = batch[n].in.id => m = n

Init ==
  /\ settings \in Settings
  /\ input \in {f \in [Handles -> UNION {Inputs[p] : p \in Handles}] :
                  \A p \in Handles : f[p] \in Inputs[p]}
  /\ contents \in Files
  /\ original = contents
  /\ temps = {}
  /\ pc = [p \in Handles |-> "idle"]
  /\ saving = {}
  /\ hh = [p \in Handles |-> <<>>]
  /\ kept = [p \in Handles |-> <<>>]
  /\ queue = {}
  /\ sent = {}
  /\ faults = 0

Goto(p, l) == pc' = [pc EXCEPT ![p] = l]

Fault == faults < MaxFaults /\ faults' = faults + 1

Hold(p, s) == hh' = [hh EXCEPT ![p] = s]

This(p) == Head(hh[p])

\* The option has kept what is in s of the first heartbeat, and looks at the next one;
\* after the last one the heartbeats go to the next option.  None is left to be sent:
\* WithLengthValidator.
Pass(p, s, option, next) ==
  LET all == kept[p] \o s
  IN IF Len(hh[p]) > 1
     THEN Hold(p, Tail(hh[p])) /\ kept' = [kept EXCEPT ![p] = all] /\ Goto(p, option)
     ELSE /\ Hold(p, all)
          /\ kept' = [kept EXCEPT ![p] = <<>>]
          /\ Goto(p, IF all = <<>> THEN "exit" ELSE next)

\* The same for an option that is one step.
PassAll(p, s, next) == Hold(p, s) /\ Goto(p, IF s = <<>> THEN "exit" ELSE next) /\ UNCHANGED kept

Map(p, Change(_)) == [n \in DOMAIN hh[p] |-> Change(hh[p][n])]

IsFile(h) == h.in.type = "file"

IsRemote(h) == IsFile(h) /\ ~ h.in.unsaved /\ h.in.remote

static == <<settings, input, original, saving>>

--------------------------------------------------------------------------------

\* Heartbeats are sent, or only saved: without API parameters, or if the command is
\* rate limited, or for those beyond SendLimit.
Start(p) ==
  /\ pc[p] = "idle"
  /\ Hold(p, BuildHeartbeats(input[p]))
  /\ saving' \in {saving \cup {p}} \cup (IF options.api.ok THEN {saving} ELSE {})
  /\ Goto(p, "filter")
  /\ UNCHANGED <<settings, input, contents, original, temps, kept, queue, sent, faults>>

Excluded(h) ==
  h.in.folder \in options.filter.exclude /\ h.in.folder \notin options.filter.include

HasProjectFile(files, d) == Nearest(d, {f \in Folders : files[f] # None}) # None

\* filterFileEntity.
Tracked(h) ==
  \/ ~ IsFile(h)
  \/ h.in.unsaved
  \/ IsRemote(h)
  \/ /\ h.in.exists
     /\ options.filter.onlyProjectFile => HasProjectFile(contents, h.in.folder)

\* Mutant of Filter: unsaved entities are not spared.
FilterAny(p) ==
  /\ pc[p] = "filter"
  /\ Pass(p, IF This(p).in.exists THEN <<This(p)>> ELSE <<>>, "filter", "remote")
  /\ UNCHANGED <<static, contents, temps, queue, sent, faults>>

\* filter.WithFiltering.
Filter(p) ==
  /\ pc[p] = "filter"
  /\ Pass(p, IF ~ Excluded(This(p)) /\ Tracked(This(p)) THEN <<This(p)>> ELSE <<>>, "filter", "remote")
  /\ UNCHANGED <<static, contents, temps, queue, sent, faults>>

--------------------------------------------------------------------------------
(* remote.WithDetection.                                                       *)

\* Mutant of AfterRemote: the API keys are forgotten.
AfterRemoteNoKeys(p) == "describe"

AfterRemote(p) == IF p \in saving THEN "describe" ELSE "keys"

Underway(p) == ToSet(hh[p]) \cup ToSet(kept[p])

Temp(p) == <<p, This(p).in.id>>

SkipLocal(p) ==
  /\ pc[p] = "remote"
  /\ ~ IsRemote(This(p))
  /\ Pass(p, <<This(p)>>, "remote", AfterRemote(p))
  /\ UNCHANGED <<static, contents, temps, queue, sent, faults>>

CreateTemp(p) ==
  /\ pc[p] = "remote"
  /\ IsRemote(This(p))
  /\ \/ temps' = temps \cup {Temp(p)} /\ Goto(p, "download") /\ UNCHANGED <<hh, kept, faults>>
     \/ Fault /\ Pass(p, <<>>, "remote", AfterRemote(p)) /\ UNCHANGED temps
  /\ UNCHANGED <<static, contents, queue, sent>>

Download(p) ==
  /\ pc[p] = "download"
  /\ Pass(p, <<[This(p) EXCEPT !.temp = TRUE]>>, "remote", AfterRemote(p))
  /\ UNCHANGED <<static, contents, temps, queue, sent, faults>>

\* NewClient fails, or DownloadFile does.
DownloadFails(p) ==
  /\ pc[p] = "download"
  /\ Fault
  /\ \/ temps' = temps \ {Temp(p)} /\ Pass(p, <<>>, "remote", AfterRemote(p))
     \/ Goto(p, "fallback") /\ UNCHANGED <<temps, hh, kept>>
  /\ UNCHANGED <<static, contents, queue, sent>>

\* Whether scp fetches the file or not.
Fallback(p) ==
  /\ pc[p] = "fallback"
  /\ temps' = temps \ {Temp(p)}
  /\ Pass(p, <<>>, "remote", AfterRemote(p))
  /\ UNCHANGED <<static, contents, queue, sent, faults>>

--------------------------------------------------------------------------------
(* API keys, statistics, language and dependencies.                            *)

\* MatchPattern.
KeysOf(d) ==
  IF options.api.patterns[d] = {} THEN {options.api.key} ELSE options.api.patterns[d]

\* Mutant of ReplaceKeys: the default key for all.
ReplaceKeysDefault(p) ==
  /\ pc[p] = "keys"
  /\ PassAll(p, Map(p, LAMBDA h : [h EXCEPT !.key = options.api.key]), "describe")
  /\ UNCHANGED <<static, contents, temps, queue, sent, faults>>

\* apikey.WithReplacing.
ReplaceKeys(p) ==
  /\ pc[p] = "keys"
  /\ \E k \in [DOMAIN hh[p] -> ApiKeys] :
       /\ \A n \in DOMAIN hh[p] : k[n] \in KeysOf(hh[p][n].in.folder)
       /\ PassAll(p, [n \in DOMAIN hh[p] |-> [hh[p][n] EXCEPT !.key = k[n]]], "describe")
  /\ UNCHANGED <<static, contents, temps, queue, sent, faults>>

ShouldSanitize(h, patterns) == {h.in.folder, h.path, h.in.root} \cap patterns.paths # {}

\* filestats, language and deps.WithDetection.
Describe(p) ==
  /\ pc[p] = "describe"
  /\ PassAll(p, Map(p, LAMBDA h : [h EXCEPT !.dependencies =
       IsFile(h) /\ ~ h.in.unsaved /\ ~ ShouldSanitize(h, options.sanitize.hideFiles)]), "detect")
  /\ UNCHANGED <<static, contents, temps, queue, sent, faults>>

--------------------------------------------------------------------------------
(* project.WithDetection.                                                      *)

Override(h, c) ==
  IF c.project = None /\ h.override # None THEN Found(h.override, c.branch, h.root) ELSE c

RevControl(h, c) ==
  IF None \in {c.project, c.branch, c.folder}
  THEN {Found(FirstOf(c.project, r.project), FirstOf(c.branch, r.branch), FirstOf(c.folder, r.folder)) :
          r \in DetectWithRevControl(h, options.project)}
  ELSE {c}

Alternate(h, c) ==
  IF c.project = None /\ h.alternate # None
  THEN Found(h.alternate, c.branch, FirstOf(h.root, c.folder)) ELSE c

Folder(h, c) ==
  FirstOf(FirstOf(c.folder, h.root), IF h.type = "file" THEN h.folder ELSE None)

\* What is found for the heartbeat, given the project files, and by which of the config
\* plugins.
Detections(files, h) ==
  UNION {{LET a == Alternate(h.in, r)
              f == Folder(h.in, a)
          IN [h EXCEPT !.project = a.project, !.branch = FirstOf(a.branch, h.in.branchAlternate),
                       !.path = f, !.roots = Within(h.in.folder, f), !.detector = c.detector,
                       !.blank = /\ c.detector = "file"
                                 /\ \/ files[c.result.folder] = <<>>
                                    \/ c.result.project = None] :
            r \in RevControl(h.in, Override(h.in, c.result))} :
          c \in Detect(files, options.project.map, h.in)}

\* Mutant of Hides: a path that was only named is not looked at.
HidesFound(h) ==
  /\ h.in.folder \in options.sanitize.hideNames.paths
  /\ h.project # None
  /\ h.detector = "unknown"

Hides(h) ==
  /\ ShouldSanitize(h, options.sanitize.hideNames)
  /\ h.project # None
  /\ h.detector # "file"

DetectProject(p) ==
  /\ pc[p] = "detect"
  /\ \E h \in Detections(contents, This(p)) :
       \/ Hides(h) /\ Hold(p, <<h>> \o Tail(hh[p])) /\ Goto(p, "check") /\ UNCHANGED kept
       \/ ~ Hides(h) /\ Pass(p, <<h>>, "detect", "exclude")
  /\ UNCHANGED <<static, contents, temps, queue, sent, faults>>

\* Where obfuscateProjectName looks for the file, and creates it.
TargetOf(h) == IF h.path = None THEN Cwd ELSE h.path

Taken(h) == TargetOf(h) \in Folders /\ contents[TargetOf(h)] # None

Target(p) == TargetOf(This(p))

\* Mutant of CheckFile: a file that is there is written, too.
CheckFileNever(p) ==
  /\ pc[p] = "check"
  /\ Hold(p, <<[This(p) EXCEPT !.project = Random]>> \o Tail(hh[p]))
  /\ Goto(p, "create")
  /\ UNCHANGED <<static, contents, temps, kept, queue, sent, faults>>

\* "prevent overwriting existing project files, use Unknown Project instead".
CheckFile(p) ==
  /\ pc[p] = "check"
  /\ IF Taken(This(p))
     THEN Pass(p, <<[This(p) EXCEPT !.project = None]>>, "detect", "exclude")
     ELSE /\ Hold(p, <<[This(p) EXCEPT !.project = Random]>> \o Tail(hh[p]))
          /\ Goto(p, "create")
          /\ UNCHANGED kept
  /\ UNCHANGED <<static, contents, temps, queue, sent, faults>>

\* os.WriteFile creates the file or empties it.
CreateFile(p) ==
  /\ pc[p] = "create"
  /\ Target(p) \in Folders
  /\ contents' = [contents EXCEPT ![Target(p)] = <<>>]
  /\ Goto(p, "write")
  /\ UNCHANGED <<static, temps, hh, kept, queue, sent, faults>>

WriteFile(p) ==
  /\ pc[p] = "write"
  /\ contents' = [contents EXCEPT ![Target(p)] = <<Random>>]
  /\ Pass(p, <<This(p)>>, "detect", "exclude")
  /\ UNCHANGED <<static, temps, queue, sent, faults>>

\* The name is used all the same.
WriteFileFails(p) ==
  /\ pc[p] \in {"create", "write"}
  /\ \/ Target(p) \in Folders /\ Fault
     \/ Target(p) \notin Folders /\ UNCHANGED faults
  /\ Pass(p, <<This(p)>>, "detect", "exclude")
  /\ UNCHANGED <<static, contents, temps, queue, sent>>

--------------------------------------------------------------------------------
(* Unknown projects, sanitizing, cleaning up, sending.                         *)

TempsOf(p, S) == {<<p, h.in.id>> : h \in {h \in S : h.temp}}

Known(h) == ~ options.filter.excludeUnknown \/ h.project # None

\* Mutant of Exclude: the temporary files of the excluded stay.
ExcludeOnly(p) ==
  /\ pc[p] = "exclude"
  /\ Pass(p, IF Known(This(p)) THEN <<This(p)>> ELSE <<>>, "exclude", "sanitize")
  /\ UNCHANGED <<static, contents, temps, queue, sent, faults>>

\* project.WithFiltering.
Exclude(p) ==
  /\ pc[p] = "exclude"
  /\ Pass(p, IF Known(This(p)) THEN <<This(p)>> ELSE <<>>, "exclude", "sanitize")
  /\ temps' = IF Known(This(p)) THEN temps ELSE temps \ TempsOf(p, {This(p)})
  /\ UNCHANGED <<static, contents, queue, sent, faults>>

\* Mutant of HideProjectFolder: the folder the editor named is not tried.
HideProjectFolderOnly(h) ==
  IF IsFile(h) /\ options.sanitize.hideFolder /\ h.entity = "full" /\ Within(h.in.folder, h.path)
  THEN [h EXCEPT !.entity = "relative", !.roots = FALSE] ELSE h

\* Relative to the project's folder, else to the one the editor named.
HideProjectFolder(h) ==
  LET relative == h.entity = "full" /\ (Within(h.in.folder, h.path) \/ Within(h.in.folder, h.in.root))
  IN IF ~ IsFile(h) \/ ~ options.sanitize.hideFolder THEN h
     ELSE [h EXCEPT !.entity = IF relative THEN "relative" ELSE @,
                    !.roots = @ /\ ~ relative /\ h.in.root = None]

\* hideCredentials.
HideCredentials(h) ==
  IF IsRemote(h) /\ h.entity = "full" THEN [h EXCEPT !.entity = "stripped"] ELSE h

HideFile(h) ==
  [h EXCEPT !.entity = "hidden", !.meta = FALSE, !.roots = FALSE,
            !.branch = IF options.sanitize.hideBranches.given THEN @ ELSE None,
            !.dependencies = @ /\ options.sanitize.hideDependencies.given]

\* Sanitize.
Sanitized(h) ==
  LET Matches(patterns) == ShouldSanitize(h, patterns)
      name == IF Matches(options.sanitize.hideNames)
              THEN [h EXCEPT !.meta = FALSE, !.roots = FALSE] ELSE h
      file == IF Matches(options.sanitize.hideFiles) THEN HideFile(name) ELSE name
  IN HideCredentials(HideProjectFolder(
       [file EXCEPT
          !.branch = IF Matches(options.sanitize.hideBranches) THEN None ELSE @,
          !.dependencies = @ /\ ~ Matches(options.sanitize.hideDependencies)]))

Sanitize(p) ==
  /\ pc[p] = "sanitize"
  /\ PassAll(p, Map(p, Sanitized), "cleanup")
  /\ UNCHANGED <<static, contents, temps, queue, sent, faults>>

\* remote.WithCleanup.
Cleanup(p) ==
  /\ pc[p] = "cleanup"
  /\ temps' = temps \ TempsOf(p, ToSet(hh[p]))
  /\ Goto(p, "send")
  /\ UNCHANGED <<static, contents, hh, kept, queue, sent, faults>>

\* WithQueue: the sender takes them, or they are queued; after a failed request both may
\* be true of them.
Send(p) ==
  /\ pc[p] = "send"
  /\ \/ p \notin saving /\ sent' = sent \cup ToSet(hh[p]) /\ UNCHANGED <<queue, faults>>
     \/ p \notin saving /\ Fault /\ queue' = queue \cup ToSet(hh[p]) /\ UNCHANGED sent
     \/ p \notin saving /\ Fault /\ queue' = queue \cup ToSet(hh[p]) /\ sent' = sent \cup ToSet(hh[p])
     \/ p \in saving /\ queue' = queue \cup ToSet(hh[p]) /\ UNCHANGED <<sent, faults>>
  /\ Hold(p, <<>>)
  /\ Goto(p, "exit")
  /\ UNCHANGED <<static, contents, temps, kept>>

\* The keys that WithReplacing finds for a queued heartbeat, which has lost its own.  A
\* relative path may match what the full one does, or not.
QueuedKeys(h) ==
  CASE h.entity = "hidden"   -> KeysOf(None)
    [] h.entity = "relative" -> KeysOf(h.in.folder) \cup KeysOf(None)
    [] OTHER                 -> KeysOf(h.in.folder)

\* WithSync, WithReplacing: a sync sends a queued heartbeat.
Sync ==
  /\ options.api.ok
  /\ \E h \in queue, k \in ApiKeys :
       /\ k \in QueuedKeys(h)
       /\ queue' = queue \ {h}
       /\ sent' = sent \cup {[h EXCEPT !.key = k, !.queued = TRUE]}
  /\ UNCHANGED <<static, contents, temps, pc, hh, kept, faults>>

Kill(p) ==
  /\ pc[p] \notin {"idle", "exit", "killed"}
  /\ Fault
  /\ Hold(p, <<>>)
  /\ kept' = [kept EXCEPT ![p] = <<>>]
  /\ Goto(p, "killed")
  /\ UNCHANGED <<static, contents, temps, queue, sent>>

Next ==
  \/ \E p \in Handles :
       \/ Start(p) \/ Filter(p) \/ SkipLocal(p) \/ CreateTemp(p) \/ Download(p)
       \/ DownloadFails(p) \/ Fallback(p) \/ ReplaceKeys(p) \/ Describe(p)
       \/ DetectProject(p) \/ CheckFile(p) \/ CreateFile(p) \/ WriteFile(p) \/ WriteFileFails(p)
       \/ Exclude(p) \/ Sanitize(p) \/ Cleanup(p) \/ Send(p) \/ Kill(p)
  \/ Sync

Spec == Init /\ [][Next]_vars

--------------------------------------------------------------------------------

Stages == {"idle", "filter", "remote", "download", "fallback", "keys", "describe", "detect",
           "check", "create", "write", "exclude", "sanitize", "cleanup", "send", "exit", "killed"}

IsHeartbeat(h) ==
  /\ DOMAIN h = {"in", "temp", "key", "dependencies", "meta", "project", "detector", "blank",
                 "branch", "path", "roots", "entity", "queued"}
  /\ h.temp \in BOOLEAN
  /\ h.key \in ApiKeys \cup {None}
  /\ {h.dependencies, h.meta, h.blank, h.roots, h.queued} \subseteq BOOLEAN
  /\ h.detector \in {"unknown", "file", "map"}
  /\ h.path \in Folders \cup {Root, Elsewhere, None}
  /\ h.entity \in {"full", "relative", "hidden", "stripped"}
  /\ h.roots => h.entity = "full"

\* Every variable has the type of what it stands for, a heartbeat that is sent has an API
\* key, and one with a relative path does not count the folders above it.
TypeOK ==
  /\ settings \in Settings
  /\ \A p \in Handles : input[p] \in Inputs[p]
  /\ DOMAIN contents = Folders
  /\ \A f \in Folders : contents[f] \in {original[f], None, <<>>, <<Random>>}
  /\ temps \subseteq Handles \X {h.in.id : h \in UNION {ToSet(BuildHeartbeats(input[p])) : p \in Handles}}
  /\ pc \in [Handles -> Stages]
  /\ saving \subseteq Handles
  /\ \A p \in Handles : \A h \in Underway(p) : IsHeartbeat(h)
  /\ \A h \in queue : IsHeartbeat(h)
  /\ \A h \in sent : IsHeartbeat(h) /\ h.key \in ApiKeys
  /\ faults \in 0 .. MaxFaults

\* The temporary files are those of the heartbeats under way, and of the one being
\* fetched: on every way out of the pipeline but a kill they are deleted (remote.go,
\* project/filter.go).
TempFilesOwned ==
  \A p \in Handles : pc[p] # "killed" =>
    {t \in temps : t[1] = p} =
      IF pc[p] \in {"send", "exit"} THEN {}
      ELSE TempsOf(p, Underway(p)) \cup
           (IF pc[p] \in {"download", "fallback"} THEN {Temp(p)} ELSE {})

\* A hidden project is sent without a name, with a random one, or with the one its user
\* wrote into a project file; unless the project file was empty or its first line blank
\* ("hide-project-names", root.go).  A project file is empty when another process is
\* about to write it, or was killed or failed there.
NamesHidden ==
  \A h \in sent : ShouldSanitize(h, options.sanitize.hideNames) =>
    \/ h.project \in {None, Random}
    \/ h.detector = "file" /\ \E f \in Folders : original[f] # None /\ h.project \in ToSet(original[f])
    \/ h.blank

\* With hide_project_folder a local file's full path is sent only from within a linked
\* git directory or Subversion, or if the editor named a folder that is not above
\* the file (sanitize.go and the folders of project.go, git.go, subversion.go).
PathsHidden ==
  \A h \in sent :
    h.entity = "full" /\ IsFile(h) /\ ~ IsRemote(h) /\ options.sanitize.hideFolder =>
      /\ ~ Within(h.in.folder, h.in.root)
      /\ \/ h.in.root # None
         \/ Linked(Nearest(h.in.folder, {f \in Folders : DotGit[f] # None})) # None
         \/ Nearest(h.in.folder, Subversions) # None

\* "so the server never sees the full path" (hide-project-folder, root.go).
PathNeverSent ==
  \A h \in sent : options.sanitize.hideFolder /\ IsFile(h) /\ ~ IsRemote(h) /\ h.in.root = None =>
    h.entity # "full"

\* A heartbeat with a project's API key is not sent with the default one, unless it was
\* queued with its path hidden: queued heartbeats get their keys by what is left of
\* the path (apikey.go, offlinesync.go).
KeyOfPath ==
  \A h \in sent :
    h.key = options.api.key =>
      \/ options.api.patterns[h.in.folder] = {}
      \/ h.queued /\ h.entity \in {"hidden", "relative"}

\* A project file of the user's is never changed (obfuscateProjectName).
UserFileKept == \A f \in Folders : original[f] # None => contents[f] = original[f]

\* The heartbeats a command is given: its own and each one of stdin.
Received(i) == {i.main} \cup {i.extras[n].heartbeat : n \in DOMAIN i.extras}

\* No project is found for it with the files of its user, or one that is hidden although
\* its folder has a project file, which leaves it without a name.
ProjectUnknown(h) ==
  \E d \in Detections(original, h) : d.project = None \/ (Hides(d) /\ Taken(d))

\* When a batch is through, each heartbeat its command was given was sent or queued, or
\* there is a reason why not: it was read from stdin with one that cannot be parsed
\* (params.go), it is excluded, unknown projects are and its own is one, it could not be
\* fetched, it does not exist or has no project file (filter.go, project/filter.go,
\* remote.go).
Accounted ==
  \A p \in Handles : pc[p] = "exit" =>
    \A i \in Received(input[p]) :
      LET h == New(i)
      IN \/ \E g \in queue \cup sent : g.in = i
         \/ i # input[p].main /\ \E n \in DOMAIN input[p].extras : ~ Parsed(input[p].extras[n])
         \/ Excluded(h)
         \/ options.filter.excludeUnknown /\ ProjectUnknown(h)
         \/ IsRemote(h) /\ faults > 0
         \/ IsFile(h) /\ ~ h.in.unsaved /\ ~ IsRemote(h) /\
              (h.in.exists => options.filter.onlyProjectFile /\ ~ HasProjectFile(original, h.in.folder))
================================================================================
