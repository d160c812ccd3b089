---------------------------- MODULE ProjectDetection ----------------------------
(*****************************************************************************)
(* Which project, branch and folder a heartbeat belongs to (src/pkg/project).  *)
(* The paths are those of a small tree of folders.  Regular expressions are     *)
(* the sets of folders they match: a file is matched when its folder is.  A     *)
(* project is named by its folder.  Maps of patterns come out of a Go map, in   *)
(* any order: what they give for a path is a set of names.                     *)
(*                                                                           *)
(* contents[f] is the .wakatime-project file of the folder f: None, or the      *)
(* sequence of its lines, which Pipeline writes.                               *)
(*****************************************************************************)
EXTENDS Naturals, Sequences

CONSTANTS
  Folders,     (* The folders, those inside .git folders included.            *)
  Root,        (* The root path, where a search ends.                         *)
  Elsewhere,   (* A path that is not in the tree.                             *)
  None,        (* No path, no name, no file.                                  *)
  Parent,      (* The parent of each folder.                                  *)
  DotGit,      (* The git directory that a folder's .git is, or links to.     *)
  CommonDir,   (* The git directory that a worktree's one names.              *)
  InModules,   (* The git directories with modules in their path.             *)
  Branch,      (* The branch of each git directory.                           *)
  Remote,      (* The name of its remote origin.                              *)
  Mercurials,  (* The folders with a .hg.                                     *)
  Subversions, (* The folders with a .svn/wc.db.                              *)
  Tfvcs        (* The folders with a .tf/properties.tf1.                      *)

ASSUME TreeAssumption ==
  /\ {Root, Elsewhere, None} \cap Folders = {}
  /\ Root # Elsewhere /\ None \notin {Root, Elsewhere}
  /\ Parent \in [Folders -> Folders \cup {Root}]
  /\ DotGit \in [Folders -> Folders \cup {None}]
  /\ CommonDir \in [Folders -> Folders \cup {None}]
  /\ InModules \cup Mercurials \cup Subversions \cup Tfvcs \subseteq Folders

\* Every way up ends at the root.
ASSUME UpwardAssumption ==
  \A S \in SUBSET Folders : S # {} => \E d \in S : Parent[d] \notin S

FirstOf(a, b) == IF a # None THEN a ELSE b

ParentOf(d) == IF d \in Folders THEN Parent[d] ELSE d

\* FindFileOrDirectory: from a folder up to the root, which is not looked at.
Search(S) ==
  LET found[d \in Folders] ==
        IF d \in S THEN d ELSE IF Parent[d] = Root THEN None ELSE found[Parent[d]]
  IN found

Nearest(d, S) == IF d \in Folders THEN Search(S)[d] ELSE None

\* Whether a path in d begins with f.
Within(d, f) ==
  \/ Nearest(d, {f} \cap Folders) # None
  \/ f = Root /\ d \in Folders \cup {Root}

Nothing == [project |-> None, branch |-> None, folder |-> None]

Found(p, b, f) == [project |-> p, branch |-> b, folder |-> f]

--------------------------------------------------------------------------------
(* File and Map: config plugins.                                               *)

\* File.Detect.  An empty file stands for the folder's name, a blank line for no
\* name.
FileDetect(contents, d) ==
  LET f == Nearest(d, {g \in Folders : contents[g] # None})
  IN IF f = None THEN Nothing
     ELSE Found(IF contents[f] = <<>> THEN f ELSE contents[f][1],
                IF Len(contents[f]) > 1 THEN contents[f][2] ELSE None, f)

\* A path that is tried: what it is, its directory, and whether it is there.
Args(h) ==
  (IF h.type = "file" THEN <<[path |-> h.folder, dir |-> h.folder, exists |-> h.exists]>>
   ELSE <<>>) \o
  (IF h.root # None THEN <<[path |-> h.root, dir |-> ParentOf(h.root), exists |-> TRUE]>>
   ELSE <<>>)

\* The first that was found.
FirstFound(results) ==
  IF \E i \in DOMAIN results : results[i].folder # None
  THEN results[CHOOSE i \in DOMAIN results :
                 results[i].folder # None /\ \A j \in 1 .. i - 1 : results[j].folder = None]
  ELSE Nothing

\* Detect: each path with File, then with Map, which matches the path itself.
ConfigResults(contents, map, a) ==
  LET file == FileDetect(contents, a.path)
  IN IF file # Nothing THEN {[result |-> file, detector |-> "file"]}
     ELSE {[result |-> Found(n, None, a.dir), detector |-> "map"] : n \in map[a.path]}

Detect(contents, map, h) ==
  LET results(i) == ConfigResults(contents, map, Args(h)[i])
      finds == {i \in DOMAIN Args(h) : results(i) # {}}
  IN IF finds = {} THEN {[result |-> Nothing, detector |-> "unknown"]}
     ELSE results(CHOOSE i \in finds : \A j \in finds : i <= j)

--------------------------------------------------------------------------------
(* Revision control.                                                           *)

\* findGitdir: the git directory that the file .git of f links to.
Linked(f) == IF f # None /\ Parent[DotGit[f]] # f THEN DotGit[f] ELSE None

ProjectOrRemote(name, fromRemote, g) ==
  IF fromRemote /\ Remote[g] # None THEN Remote[g] ELSE name

InWorktrees(g) == g # None /\ CommonDir[g] # None

\* The repository a worktree belongs to, or its git directory if it is bare.
WorktreeFolder(g) ==
  LET c == CommonDir[g] IN IF DotGit[ParentOf(c)] = c THEN Parent[c] ELSE c

\* findSubmodule, if it is not disabled for the path.
Submodule(d, disabled) ==
  LET g == Linked(Nearest(d, {f \in Folders : DotGit[f] # None}))
  IN IF d \notin disabled /\ g \in InModules THEN g ELSE None

SubmoduleNames(g, options) ==
  IF options.submoduleMap[g] # {} THEN options.submoduleMap[g]
  ELSE {ProjectOrRemote(g, options.fromRemote, g)}

\* Git.Detect.  What is linked from a disabled submodule belongs to the repository
\* around it, whose .git has a config.
GitDetect(d, options) ==
  LET submodule == Submodule(d, options.submodulesDisabled)
      top == Nearest(d, {f \in Folders : DotGit[f] # None})
      link == Linked(top)
      around == Nearest(d, {f \in Folders : DotGit[f] # None /\ Linked(f) = None})
      Named(name, g, branch, folder) ==
        {Found(ProjectOrRemote(name, options.fromRemote, g), branch, folder)}
  IN IF submodule # None
     THEN {Found(n, Branch[submodule], Parent[submodule]) : n \in SubmoduleNames(submodule, options)}
     ELSE IF top = None THEN {Nothing}
     ELSE IF InWorktrees(link)
     THEN Named(WorktreeFolder(link), CommonDir[link], Branch[link], WorktreeFolder(link))
     ELSE IF link \notin InModules \cup {None}
     THEN Named(top, link, Branch[link], Parent[link])
     ELSE IF around = None THEN {Nothing}
     ELSE Named(around, DotGit[around], Branch[DotGit[around]], around)

\* Mercurial.Detect and Tfvc.Detect: the folder is the parent of the project's.
MercurialDetect(d) ==
  LET f == Nearest(d, Mercurials) IN IF f = None THEN Nothing ELSE Found(f, "default", Parent[f])

TfvcDetect(d) ==
  LET f == Nearest(d, Tfvcs) IN IF f = None THEN Nothing ELSE Found(f, None, Parent[f])

\* Subversion.Detect: the folder is a URL.
SubversionDetect(d) ==
  LET f == Nearest(d, Subversions) IN IF f = None THEN Nothing ELSE Found(f, f, Elsewhere)

\* Git begins at a path that is not there, the others do not.
RevControlResults(a, options) ==
  LET d == IF a.exists THEN a.dir ELSE Elsewhere
  IN {FirstFound(<<g, MercurialDetect(d), SubversionDetect(d), TfvcDetect(d)>>) :
        g \in GitDetect(a.dir, options)}

\* DetectWithRevControl: the first path in which one of them finds a project.
DetectWithRevControl(h, options) ==
  LET results(i) == RevControlResults(Args(h)[i], options)
      finds == {i \in DOMAIN Args(h) : Nothing \notin results(i)}
  IN IF finds = {} THEN {Nothing}
     ELSE results(CHOOSE i \in finds : \A j \in finds : i <= j)
================================================================================
