SPECIFICATION Spec
CONSTANTS
  Here = "/here"
  Absolute = {"/here", "/bin/job", "/data"}
  Dirs = {"srv"}
  MaxEnv = 1
  Pids = {1, 2, 3, 4, 5, 6, 7, 8, 9, 10}
  Children <- Tree
  ThreadChildren <- Forked
  Rss <- Sizes
  MaxDepth = 2
  PropertyOrder <- Order
  Unset = Unset
  CommandLines <- AllLines
  Dashed = {"-y", "--run-as", "--watch", "--name", "--cwd", "-w", "--restart-sec", "-f", "-n", "-x", "-h", "-5", "--update"}
  JsonNames = {"fire.json", "other.json", "fire.config.json", "ecosystem.config.json"}
  Valid = {"api", "job"}
  Stem <- Stems
  Numbers <- Integers5
  FileSets <- Files
  Registries <- NoneOrBoth
  MaxChanges = 1
INVARIANTS
  TypeOK
  ValidOnly
  PrefixDeployed
  Consent
  WatchUnderCwd
PROPERTIES
  RowsOwn
  MemoryOwn
CHECK_DEADLOCK FALSE
