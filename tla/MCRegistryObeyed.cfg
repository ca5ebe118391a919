SPECIFICATION Spec
CONSTANTS
  api = api
  job = job
  apiRestart = apiRestart
  jobRestart = jobRestart
  v1 = v1
  v2 = v2
  Apps = {api}
  Names = {api, apiRestart}
  HelperOf <- OneCompanion
  Programs = {v1, v2}
  Restarter = Restarter
  Off = Off
  Nothing = Nothing
  Clients = {c1}
  Configs <- Mixed
  Commands <- Single
  Everything = FALSE
  Bus = TRUE
  FilesChange = FALSE
  MaxCommands = 5
  MaxCrashes = 2
  MaxFailures = 0
  MaxFull = 1
  MaxBoots = 1
INVARIANTS
  TypeOK
  Obeyed
  WatchObeyed
CHECK_DEADLOCK FALSE
