---------------------------- MODULE MCUnitRegistry ----------------------------
(* UnitRegistry with one app, or with two, and their restart companions. *)
EXTENDS UnitRegistry, TLC

CONSTANTS api, job, apiRestart, jobRestart, v1, v2

Companions == api :> apiRestart @@ job :> jobRestart
OneCompanion == api :> apiRestart

App(name, program, env, watched) ==
  [name |-> name, program |-> program, env |-> env, watched |-> watched]

\* One app, first plain, then with secrets and a watch, then rewritten.
Watched == {<< App(api, v1, FALSE, TRUE) >>, << App(api, v2, TRUE, TRUE) >>}
Mixed   == {<< App(api, v1, FALSE, FALSE) >>, << App(api, v2, TRUE, TRUE) >>}
PlainPair == {<< App(api, v1, TRUE, FALSE), App(job, v2, FALSE, FALSE) >>,
              << App(api, v2, FALSE, FALSE) >>}

Single == {"start", "up", "stop", "restart", "delete", "save"}
===============================================================================
