------------------------------- MODULE MCPipeline -------------------------------
(* Two batches over a home folder with a repository, its submodule and worktree,    *)
(* projects of the other three systems, and a folder without a project.          *)
EXTENDS Pipeline, TLC

MCFolders == {"home", "repo", "dotgit", "modules", "modlib", "worktrees", "wtgit", "lib",
              "tree", "work", "hg", "tf", "plain"}

MCParent ==
  ("home" :> Root) @@ ("repo" :> "home") @@ ("dotgit" :> "repo") @@ ("modules" :> "dotgit") @@
  ("modlib" :> "modules") @@ ("worktrees" :> "dotgit") @@ ("wtgit" :> "worktrees") @@
  ("lib" :> "repo") @@ ("tf" :> Root) @@ [f \in {"tree", "work", "hg", "plain"} |-> "home"]

Of(f) == f @@ [d \in MCFolders |-> None]

MCDotGit == Of(("repo" :> "dotgit") @@ ("lib" :> "modlib") @@ ("tree" :> "wtgit"))

MCCommonDir == Of("wtgit" :> "dotgit")

MCBranch == Of([g \in {"dotgit", "modlib", "wtgit"} |-> "main"])

MCRemote == Of("dotgit" :> "origin")

\* Heartbeats.
File(n, d) ==
  [id |-> n, folder |-> d, type |-> "file", exists |-> TRUE, unsaved |-> FALSE, remote |-> FALSE,
   root |-> None, override |-> None, alternate |-> None, branchAlternate |-> None]

Unsaved(n) == [File(n, "plain") EXCEPT !.exists = FALSE, !.unsaved = TRUE, !.alternate = "other"]

Remote_(n) == [File(n, Elsewhere) EXCEPT !.exists = FALSE, !.remote = TRUE]

App(n) == [File(n, Elsewhere) EXCEPT !.type = "app", !.override = "named"]

Extra(h) == [heartbeat |-> h, given |-> {"time"}, garbled |-> {}]

Only(h) == [main |-> h, extras |-> <<>>]

MCInputs ==
  ("a" :> {[main |-> Remote_(1), extras |-> <<Extra(File(2, "lib"))>>],
           [main |-> File(1, "repo"), extras |-> <<Extra(Unsaved(2))>>],
           [main |-> [File(1, "plain") EXCEPT !.root = "repo"],
            extras |-> <<Extra(File(2, "work")), [Extra(App(3)) EXCEPT !.garbled = {"lines"}]>>],
           [main |-> [File(1, "lib") EXCEPT !.root = "lib", !.alternate = "other"],
            extras |-> <<Extra(App(2))>>],
           Only([File(1, "plain") EXCEPT !.exists = FALSE])}) @@
  ("b" :> {Only(File(4, "repo")), Only([Remote_(4) EXCEPT !.override = "named"]), Only(File(4, "tree")),
           Only(File(4, "hg")), Only(File(4, "tf"))})

\* Settings.
True == [word |-> "true", lines |-> {}]

False == [word |-> "false", lines |-> {}]

Lines(S) == [word |-> "", lines |-> S]

MCSettings ==
  {("settings.api_key" :> "k0") @@ ("hide-project-names" :> True),
   ("key" :> None) @@ ("WAKATIME_API_KEY" :> "k0") @@ ("settings.hide_project_folder" :> TRUE) @@
     ("settings.hide_branch_names" :> False) @@ ("hidefilenames" :> Lines({{"tree"}, None})),
   ("settings.api_key" :> "k0") @@ ("settings.exclude_unknown_project" :> TRUE) @@
     ("settings.hide_project_names" :> Lines({{"repo", "modules"}})) @@
     ("settings.exclude" :> Lines({{"work", "plain"}})) @@ ("include" :> Lines({{"work"}})),
   ("settings.apikey" :> "k0") @@ ("settings.hide_file_names" :> Lines({{"repo"}})) @@
     ("project_api_key" :> {[paths |-> {"repo", "lib"}, text |-> "k1"], [paths |-> {"lib"}, text |-> "k0"]}) @@
     ("hide-project-folder" :> TRUE) @@ ("git.submodules_disabled" :> True),
   ("settings.include_only_with_project_file" :> TRUE) @@
     ("projectmap" :> {[paths |-> {"repo"}, text |-> "mapped"], [paths |-> None, text |-> "other"]}) @@
     ("settings.hide_projectnames" :> True) @@ ("git.project_from_git_remote" :> TRUE)}

\* Project files: none, one of the user's, an empty one and one with a blank line.
MCFiles ==
  {Of(<<>>), Of("home" :> <<"mine", "topic">>), Of(("repo" :> <<>>) @@ ("plain" :> <<None>>))}
================================================================================
