SPECIFICATION Spec
CONSTANTS
  api = api
  job = job
  apiRestart = apiRestart
  jobRestart = jobRestart
  v1 = v1
  v2 = v2
  Apps = {api, job}
  Names = {api, job, apiRestart, jobRestart}
  HelperOf <- Companions
  Programs = {v1, v2}
  Restarter = Restarter
  Off = Off
  Nothing = Nothing
  Clients = {c1, c2}
  Configs <- PlainPair
  Commands <- Single
  Everything = TRUE
  Bus = FALSE
  FilesChange = FALSE
  MaxCommands = 3
  MaxCrashes = 1
  MaxFailures = 0
  MaxFull = 0
  MaxBoots = 1
INVARIANTS
  Obeyed
  LoadedFresh
CHECK_DEADLOCK FALSE
