CONSTANTS
  Folders <- MCFolders
  Root = Root
  Elsewhere = Elsewhere
  None = None
  Parent <- MCParent
  DotGit <- MCDotGit
  CommonDir <- MCCommonDir
  InModules = {"modlib"}
  Branch <- MCBranch
  Remote <- MCRemote
  Mercurials = {"hg"}
  Subversions = {"work"}
  Tfvcs = {"tf"}
  ApiKeys = {"k0", "k1"}
  Handles = {"a", "b"}
  Inputs <- MCInputs
  Settings <- MCSettings
  Files <- MCFiles
  Cwd = "plain"
  Random = Random
  MaxFaults = 2
SPECIFICATION Spec
INVARIANT PathNeverSent
CHECK_DEADLOCK FALSE
