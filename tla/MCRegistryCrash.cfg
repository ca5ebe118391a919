SPECIFICATION Spec
CONSTANTS
  api = api
  job = job
  apiRestart = apiRestart
  jobRestart = jobRestart
  v1 = v1
  v2 = v2
  Apps = {api}
  Names = {api, apiRestart}
  HelperOf <- OneCompanion
  Programs = {v1, v2}
  Restarter = Restarter
  Off = Off
  Nothing = Nothing
  Clients = {c1}
  Configs <- Mixed
  Commands <- Single
  Everything = FALSE
  Bus = TRUE
  FilesChange = TRUE
  MaxCommands = 4
  MaxCrashes = 1
  MaxFailures = 1
  MaxFull = 1
  MaxBoots = 1
INVARIANTS
  EnvPresent
  TriggerHasHelper
  KeptRunning
CHECK_DEADLOCK FALSE
