SPECIFICATION Spec
CONSTANTS
  api = api
  job = job
  apiRestart = apiRestart
  jobRestart = jobRestart
  v1 = v1
  v2 = v2
  Apps = {api}
  Names = {api, apiRestart}
  HelperOf <- OneCompanion
  Programs = {v1, v2}
  Restarter = Restarter
  Off = Off
  Nothing = Nothing
  Clients = {c1}
  Configs <- Watched
  Commands <- Single
  Everything = FALSE
  Bus = TRUE
  FilesChange = TRUE
  MaxCommands = 2
  MaxCrashes = 0
  MaxFailures = 0
  MaxFull = 0
  MaxBoots = 0
INVARIANTS
  StopSticks
CHECK_DEADLOCK FALSE
