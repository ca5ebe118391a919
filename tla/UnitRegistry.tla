---------------------------- MODULE UnitRegistry ----------------------------
(* The units fire-dash keeps in the systemd directory, and the fdash commands  *)
(* that write, start, stop, restart, enable and delete them.  fdash has no     *)
(* daemon and no lock: a command is a list of steps, each a file operation or  *)
(* a call to the service manager, and it can be killed between any two.  A     *)
(* unit file is written in place: fopen(.., "w") empties it, fclose fills it,  *)
(* and whether that worked is not looked at.                                   *)
(*                                                                             *)
(* The manager (mgr) is systemd, modelled from how the code uses it: it acts   *)
(* on what it loaded at the last reload, queues one job per service, and       *)
(* starts the restart companion of a watched app when a watched file changes.  *)
EXTENDS Naturals, SequencesExt

CONSTANTS
  Apps,        \* the names users give to their apps
  Names,       \* every <name> in a fire-<name>.service file
  HelperOf,    \* the name of an app's restart companion, "<app>-restart"
  Programs,    \* what an app can run
  Restarter,   \* what a companion runs: systemctl restart of its app
  Off,         \* not running, or no unit file
  Nothing,     \* what an empty unit file says to run
  Clients,     \* concurrent fdash processes
  Configs,     \* the lists of apps `fdash start` may be given
  Commands,    \* the commands clients issue
  Everything,  \* TRUE if "all" is a target
  Bus,         \* TRUE: sd-bus calls, which return when the job is queued;
               \* FALSE: systemctl, which waits for the job
  FilesChange, \* TRUE if watched files change
  MaxCommands, MaxCrashes, MaxFailures, MaxFull, MaxBoots  \* bounds

Runnable == Programs \cup {Restarter, Off}
Contents == Runnable \cup {Nothing}

NoUnit == [program |-> Off, env |-> FALSE]
Empty == [program |-> Nothing, env |-> FALSE]
Unit == [program : Runnable, env : BOOLEAN] \cup {Empty}
Companion == [program |-> Restarter, env |-> FALSE]

\* The manager starts nothing from these: an empty unit file counts as masked.
Unusable == {NoUnit, Empty}

\* What cmd_start, or parse_app_item for a config, fills in an AppService.
Deployment == [name : Apps, program : Programs, env : BOOLEAN, watched : BOOLEAN]

ASSUME RegistryAssumption ==
  /\ Apps \subseteq Names /\ IsFiniteSet(Names)
  /\ HelperOf \in [Apps -> Names]
  /\ \A a, b \in Apps : HelperOf[a] = HelperOf[b] => a = b
  /\ Off \notin Programs /\ Restarter \notin Programs /\ Off # Restarter
  /\ Nothing \notin Programs \cup {Off, Restarter}
  /\ \A config \in Configs : /\ config \in Seq(Deployment)
                             /\ \A i, j \in DOMAIN config :
                                  config[i].name = config[j].name => i = j
  /\ Commands \subseteq {"start", "up", "stop", "restart", "delete", "save"}
  /\ {Everything, Bus, FilesChange} \subseteq BOOLEAN
  /\ {MaxCommands, MaxCrashes, MaxFailures, MaxFull, MaxBoots} \subseteq Nat

VARIABLES
  disk,      \* fire-* files: service, and the names that have a .path with
             \* something in it, a .env
  mgr,       \* the manager's loaded units, jobs, running services, watches, links
  todo,      \* the steps each client has left
  used,      \* how much of each bound is used
  expected,  \* history: what an app may be running, and whether its watch may
             \* be active, once all is quiet
  saved,     \* history: apps a `save` completed for, and those it found watched
  torn       \* history: whose unit, companion and .path were emptied to be
             \* written, and not written since

vars == << disk, mgr, todo, used, expected, saved, torn >>

\* What a command promises of an app once it returns and all is quiet.
Outcome(running, watched) == [running |-> running, watched |-> watched]
Anything == Outcome(Programs \cup {Off}, BOOLEAN)
Stopped  == Outcome({Off}, {FALSE})

Init ==
  /\ disk = [service |-> [n \in Names |-> NoUnit], path |-> {}, env |-> {}]
  /\ mgr = [loaded |-> [n \in Names |-> NoUnit], running |-> [n \in Names |-> Off],
            job |-> [n \in Names |-> "none"], watching |-> {},
            bootService |-> {}, bootPath |-> {}]
  /\ todo = [c \in Clients |-> << >>]
  /\ used = [commands |-> 0, crashes |-> 0, failures |-> 0, full |-> 0, boots |-> 0]
  /\ expected = [a \in Apps |-> Stopped]
  /\ saved = [apps |-> {}, watches |-> {}]
  /\ torn = [service |-> {}, helper |-> {}, path |-> {}]

-----------------------------------------------------------------------------
(* The service manager. *)

\* A unit the manager has not loaded is read from disk when it is asked for.
Lookup(n) == IF mgr.loaded[n] = NoUnit THEN disk.service[n] ELSE mgr.loaded[n]

\* A start asked for while a restart is queued leaves the restart.
Merged(queued, asked) ==
  IF queued = "restart" /\ asked = "start" THEN "restart" ELSE asked

\* The manager after accepting a job for n.
WithJob(n, asked) == [mgr EXCEPT !.loaded[n] = Lookup(n), !.job[n] = Merged(@, asked)]

\* A service starts only if its unit says what, and its EnvironmentFile is there.
Launched(n) ==
  LET unit == Lookup(n)
  IN IF unit \in Unusable \/ (unit.env /\ n \notin disk.env) THEN Off ELSE unit.program

Complete(n) ==
  /\ mgr.job[n] # "none"
  /\ mgr' = [mgr EXCEPT
       !.job[n] = "none",
       !.running[n] = CASE mgr.job[n] = "stop"                -> Off
                        [] mgr.job[n] = "start" /\ @ # Off    -> @
                        [] OTHER                              -> Launched(n)]
  /\ UNCHANGED << disk, todo, used, expected, saved, torn >>

\* A companion runs systemctl restart of its app, and ends.
CompanionRuns(a) ==
  /\ mgr.running[HelperOf[a]] = Restarter
  /\ LET asked == IF Lookup(a) \in Unusable THEN mgr ELSE WithJob(a, "restart")
     IN mgr' = [asked EXCEPT !.running[HelperOf[a]] = Off]
  /\ UNCHANGED << disk, todo, used, expected, saved, torn >>

\* A watched file changes: the path unit starts the companion, or fails.
Trigger(a) ==
  /\ FilesChange
  /\ a \in mgr.watching
  /\ mgr' = IF Lookup(HelperOf[a]) \in Unusable
            THEN [mgr EXCEPT !.watching = @ \ {a}]
            ELSE WithJob(HelperOf[a], "start")
  /\ UNCHANGED << disk, todo, used, expected, saved, torn >>

\* The machine restarts: the enabled units that still have a file are started.  A
\* save does not stand for an app whose unit was left empty.
Reboot ==
  /\ used.boots < MaxBoots
  /\ used' = [used EXCEPT !.boots = @ + 1]
  /\ mgr' = [mgr EXCEPT
       !.loaded = disk.service,
       !.running = [n \in Names |-> Off],
       !.job = [n \in Names |-> IF n \in mgr.bootService /\ disk.service[n] \notin Unusable
                                THEN "start" ELSE "none"],
       !.watching = mgr.bootPath \cap disk.path]
  /\ todo' = [c \in Clients |-> << >>]
  /\ expected' = [a \in Apps |->
       IF a \notin saved.apps \ torn.service THEN Anything
       ELSE Outcome({disk.service[a].program},
                    IF a \in saved.watches THEN {TRUE} ELSE BOOLEAN)]
  /\ UNCHANGED << disk, saved, torn >>

-----------------------------------------------------------------------------
(* The steps of a command. *)

Do(step, n) == [do |-> step, name |-> n]
Write(n, unit) == [do |-> "service", name |-> n, unit |-> unit]
Finish(n, outcome) == [do |-> "finish", name |-> n, outcome |-> outcome]

Optional(condition, steps) == IF condition THEN steps ELSE << >>

\* systemctl waits for the jobs it asked for.
Wait(n) == Optional(~Bus, << Do("await", n) >>)

StartSteps(n) == << Do("start", n), Do("startPath", n) >> \o Wait(n)

\* Mutant: the watch is left on.
StopStepsKeepWatch(n) == << Do("stop", n) >> \o Wait(n)

StopSteps(n) == << Do("stop", n), Do("stopPath", n) >> \o Wait(n)

\* Mutant: restart asks for a start, which leaves a running app as it is.
RestartStepsByStart(n) == << Do("start", n) >> \o Wait(n)

RestartSteps(n) == << Do("restart", n) >> \o Wait(n)

\* Nothing of the app is running, queued or watched.
Cold(a) == /\ mgr.running[a] = Off /\ mgr.job[a] = "none"
           /\ mgr.running[HelperOf[a]] = Off /\ mgr.job[HelperOf[a]] = "none"
           /\ a \notin mgr.watching

\* The manager has n as it is on disk, or has yet to read it.
Fresh(n) == disk.service[n] \notin Unusable /\ mgr.loaded[n] \in {NoUnit, disk.service[n]}

\* What a deployment leaves: only a cold app is sure to run what was just
\* written, starting a running one changes nothing.
Deployed(d) == << Finish(d.name, Outcome(IF Cold(d.name) THEN {d.program} ELSE Programs,
                                         IF d.watched THEN {TRUE} ELSE BOOLEAN)) >>

ServiceSteps(d) ==
  Optional(d.env, << Do("env", d.name) >>)
  \o << Do("openService", d.name), Write(d.name, [program |-> d.program, env |-> d.env]) >>

\* Mutant: the .path is written before the companion it starts.
PathStepsFirst(d) ==
  Optional(d.watched, << Do("openPath", d.name), Do("path", d.name),
                         Do("openHelper", d.name), Do("helper", d.name) >>)

PathSteps(d) ==
  Optional(d.watched, << Do("openHelper", d.name), Do("helper", d.name),
                         Do("openPath", d.name), Do("path", d.name) >>)

\* Mutant: the manager is not told of the new files.
DeployStepsNoReload(d) ==
  ServiceSteps(d) \o PathSteps(d) \o StartSteps(d.name) \o Deployed(d)

\* start_single_app
DeploySteps(d) ==
  ServiceSteps(d) \o PathSteps(d) \o << Do("reload", d.name) >>
  \o StartSteps(d.name) \o Deployed(d)

\* Mutant: the app is left running.
DeleteStepsNoStop(n) ==
  << Do("disable", n), Do("unlinkService", n), Do("unlinkPath", n),
     Do("unlinkHelper", n), Do("unlinkEnv", n) >>

\* Mutant: the secrets go first.
DeleteStepsEnvFirst(n) ==
  StopSteps(n) \o << Do("disable", n), Do("unlinkEnv", n), Do("unlinkService", n),
                     Do("unlinkPath", n), Do("unlinkHelper", n) >>

DeleteSteps(n) ==
  StopSteps(n) \o << Do("disable", n), Do("unlinkService", n), Do("unlinkPath", n),
                     Do("unlinkHelper", n), Do("unlinkEnv", n) >>

EnableSteps(n) == << Do("enable", n), Do("saved", n) >>

\* What an existing app does after start (the dashboard's `s`), restart and stop.
Started(n)   == << Finish(n, IF Fresh(n) THEN Outcome(Programs, BOOLEAN) ELSE Anything) >>
Restarted(n) == << Finish(n, IF Fresh(n) THEN Outcome({disk.service[n].program}, BOOLEAN)
                             ELSE Anything) >>
Ended(n)     == << Finish(n, Stopped) >>

ForEach(names, Steps(_)) == FlattenSeq([i \in DOMAIN names |-> Steps(names[i])])

\* Mutant: nothing tells the manager that the files are gone.
DeleteCommandNoReload(ns) == ForEach(ns, DeleteSteps) \o ForEach(ns, Ended)

DeleteCommand(ns) ==
  ForEach(ns, DeleteSteps) \o << Do("reload", Head(ns)) >> \o ForEach(ns, Ended)

\* unit_gen_list_names: every fire-<name>.service, companions and empty files
\* included, in the order the directory has them.
Listed == {n \in Names : disk.service[n] # NoUnit}

Targets == {<< a >> : a \in Apps} \cup (IF Everything THEN SetToSeqs(Listed) ELSE {})

\* The commands a client may give now, as their steps.
StepsOf(command) ==
  CASE command = "start"   -> {ForEach(config, DeploySteps) : config \in Configs}
    [] command = "up"      -> {ForEach(ns, StartSteps) \o ForEach(ns, Started) : ns \in Targets}
    [] command = "stop"    -> {ForEach(ns, StopSteps) \o ForEach(ns, Ended) : ns \in Targets}
    [] command = "restart" -> {ForEach(ns, RestartSteps) \o ForEach(ns, Restarted) : ns \in Targets}
    [] command = "delete"  -> {DeleteCommand(ns) : ns \in Targets \ {<< >>}}
    [] command = "save"    -> {ForEach(ns, EnableSteps) : ns \in SetToSeqs(Listed)}

Mentions(steps) == {steps[i].name : i \in DOMAIN steps}

\* Commands of two clients that run at once are about different apps.
Begin(c, command) ==
  /\ todo[c] = << >>
  /\ used.commands < MaxCommands
  /\ used' = [used EXCEPT !.commands = @ + 1]
  /\ \E steps \in StepsOf(command) :
       /\ \A other \in Clients : Mentions(todo[other]) \cap Mentions(steps) = {}
       /\ todo' = [todo EXCEPT ![c] = steps]
       /\ expected' = [a \in Apps |-> IF command # "save" /\ a \in Mentions(steps)
                                      THEN Anything ELSE expected[a]]
       /\ saved' = IF command # "delete" THEN saved
                   ELSE [apps |-> saved.apps \ Mentions(steps),
                         watches |-> saved.watches \ Mentions(steps)]
  /\ UNCHANGED << disk, mgr, torn >>

\* The client's next step is `step` on n; it takes it, and has `left` to do.
Doing(c, step, n, left) ==
  /\ todo[c] # << >>
  /\ Head(todo[c]).do = step
  /\ Head(todo[c]).name = n
  /\ todo' = [todo EXCEPT ![c] = left]

Step(c, step, n) == Doing(c, step, n, Tail(todo[c])) /\ UNCHANGED used

\* The steps that are not in `dropped`, in their order.
Without(steps, dropped) ==
  LET left[i \in 0 .. Len(steps)] ==
        IF i = 0 THEN << >>
        ELSE IF steps[i] \in dropped THEN left[i - 1] ELSE Append(left[i - 1], steps[i])
  IN left[Len(steps)]

\* The steps on n, of some kinds.
StepsOn(steps, n, kinds) == {s \in ToSet(steps) : s.name = n /\ s.do \in kinds}

\* The steps left when one on n went wrong: the command no longer promises
\* anything of n.
NoPromise(steps, n) == Without(steps, StepsOn(steps, n, {"finish", "saved"}))

Files(c, step, n, result) ==
  Step(c, step, n) /\ disk' = result /\ UNCHANGED << mgr, expected, saved >>

\* fopen empties a file, or creates an empty one; fclose writes what goes in it.
Opens(c, step, n, result, file) ==
  Files(c, step, n, result) /\ torn' = [torn EXCEPT ![file] = @ \cup {n}]

Closes(c, file, n, result) ==
  Files(c, file, n, result) /\ torn' = [torn EXCEPT ![file] = @ \ {n}]

\* What is in a .env is not modelled, only that it is there.
WriteEnv(c, n) == Files(c, "env", n, [disk EXCEPT !.env = @ \cup {n}]) /\ UNCHANGED torn

OpenService(c, n) ==
  Opens(c, "openService", n, [disk EXCEPT !.service[n] = Empty], "service")

WriteService(c, n) ==
  Closes(c, "service", n, [disk EXCEPT !.service[n] = Head(todo[c]).unit])

OpenHelper(c, n) ==
  Opens(c, "openHelper", n, [disk EXCEPT !.service[HelperOf[n]] = Empty], "helper")

WriteHelper(c, n) ==
  Closes(c, "helper", n, [disk EXCEPT !.service[HelperOf[n]] = Companion])

OpenPath(c, n) == Opens(c, "openPath", n, [disk EXCEPT !.path = @ \ {n}], "path")

WritePath(c, n) == Closes(c, "path", n, [disk EXCEPT !.path = @ \cup {n}])

Removes(c, step, n, result) == Files(c, step, n, result) /\ UNCHANGED torn

UnlinkService(c, n) == Removes(c, "unlinkService", n, [disk EXCEPT !.service[n] = NoUnit])

UnlinkPath(c, n) == Removes(c, "unlinkPath", n, [disk EXCEPT !.path = @ \ {n}])

UnlinkHelper(c, n) ==
  Removes(c, "unlinkHelper", n,
          IF n \in Apps THEN [disk EXCEPT !.service[HelperOf[n]] = NoUnit] ELSE disk)

UnlinkEnv(c, n) == Removes(c, "unlinkEnv", n, [disk EXCEPT !.env = @ \ {n}])

Calls(c, step, n, result) ==
  Step(c, step, n) /\ mgr' = result /\ UNCHANGED << disk, expected, saved, torn >>

Reload(c, n) == Calls(c, "reload", n, [mgr EXCEPT !.loaded = disk.service])

Start(c, n) == Lookup(n) \notin Unusable /\ Calls(c, "start", n, WithJob(n, "start"))

\* Mutant: the call asks for TryRestartUnit.
RestartTry(c, n) == Lookup(n) \notin Unusable /\ Calls(c, "restart", n, WithJob(n, "try-restart"))

Restart(c, n) == Lookup(n) \notin Unusable /\ Calls(c, "restart", n, WithJob(n, "restart"))

Stop(c, n) ==
  Calls(c, "stop", n, IF Lookup(n) = NoUnit /\ mgr.running[n] = Off THEN mgr
                      ELSE WithJob(n, "stop"))

StartPath(c, n) ==
  Calls(c, "startPath", n, IF n \in disk.path THEN [mgr EXCEPT !.watching = @ \cup {n}]
                           ELSE mgr)

\* Over the bus the watch is stopped only if has_watch still finds its file; when the
\* bus knew no such service, systemctl is asked to stop both.
StopPath(c, n) ==
  LET refused == Lookup(n) = NoUnit /\ mgr.running[n] = Off
  IN Calls(c, "stopPath", n, IF Bus /\ n \notin disk.path /\ ~refused THEN mgr
                             ELSE [mgr EXCEPT !.watching = @ \ {n}])

Await(c, n) == mgr.job[n] = "none" /\ Calls(c, "await", n, mgr)

\* A companion has no [Install] section: there is nothing to link.
Enable(c, n) ==
  disk.service[n] # Empty /\ Calls(c, "enable", n,
        [mgr EXCEPT !.bootService = IF disk.service[n].program \in Programs
                                    THEN @ \cup {n} ELSE @,
                    !.bootPath = IF n \in disk.path THEN @ \cup {n} ELSE @])

\* Asked to disable a unit whose file is missing or empty, systemctl may refuse
\* both.
Disable(c, n) ==
  \/ Calls(c, "disable", n, [mgr EXCEPT !.bootService = @ \ {n}, !.bootPath = @ \ {n}])
  \/ /\ n \notin disk.path \/ disk.service[n] = Empty
     /\ Calls(c, "disable", n, mgr)

\* The manager does not know the unit, or only an empty file of its name: the call
\* fails by itself.
Refused(c, n) ==
  /\ \/ /\ Lookup(n) \in Unusable
        /\ \E step \in {"start", "restart"} : Doing(c, step, n, NoPromise(Tail(todo[c]), n))
     \/ disk.service[n] = Empty /\ Doing(c, "enable", n, NoPromise(Tail(todo[c]), n))
  /\ UNCHANGED << disk, mgr, used, expected, saved, torn >>

End(c, n) ==
  /\ Step(c, "finish", n)
  /\ expected' = [a \in Apps |-> IF a = n THEN Head(todo[c]).outcome ELSE expected[a]]
  /\ UNCHANGED << disk, mgr, saved, torn >>

Saved(c, n) ==
  /\ Step(c, "saved", n)
  /\ saved' = [apps |-> saved.apps \cup ({n} \cap Apps),
               watches |-> saved.watches \cup ({n} \cap disk.path)]
  /\ UNCHANGED << disk, mgr, expected, torn >>

\* A file cannot be opened and stays as it is: without its .env or .service the app
\* is given up, without its companion it gets no .path; the command goes on.
FileFails(c, n) ==
  LET left == Tail(todo[c])
  IN /\ used.failures < MaxFailures
     /\ \/ \E step \in {"env", "openService"} :
             Doing(c, step, n, Without(left, {s \in ToSet(left) : s.name = n}))
        \/ Doing(c, "openHelper", n,
                 NoPromise(Without(left, StepsOn(left, n, {"helper", "openPath", "path"})), n))
        \/ Doing(c, "openPath", n, NoPromise(Without(left, StepsOn(left, n, {"path"})), n))
     /\ used' = [used EXCEPT !.failures = @ + 1]
     /\ UNCHANGED << disk, mgr, expected, saved, torn >>

\* The disk is full: fclose leaves the file empty, and the command does not notice.
WriteLost(c, n) ==
  /\ used.full < MaxFull
  /\ \E file \in {"service", "helper", "path"} : Doing(c, file, n, Tail(todo[c]))
  /\ used' = [used EXCEPT !.full = @ + 1]
  /\ UNCHANGED << disk, mgr, expected, saved, torn >>

\* A call fails, over the bus and through systemctl: the command goes on.
CallFails(c, n) ==
  /\ used.failures < MaxFailures
  /\ \E step \in {"reload", "start", "startPath", "stop", "stopPath", "restart",
                  "enable", "disable"} : Doing(c, step, n, NoPromise(Tail(todo[c]), n))
  /\ used' = [used EXCEPT !.failures = @ + 1]
  /\ UNCHANGED << disk, mgr, expected, saved, torn >>

Killed(c) ==
  /\ used.crashes < MaxCrashes
  /\ todo[c] # << >>
  /\ todo' = [todo EXCEPT ![c] = << >>]
  /\ used' = [used EXCEPT !.crashes = @ + 1]
  /\ UNCHANGED << disk, mgr, expected, saved, torn >>

FileStep(c, n) ==
  \/ WriteEnv(c, n)
  \/ OpenService(c, n) \/ WriteService(c, n)
  \/ OpenHelper(c, n) \/ WriteHelper(c, n) \/ OpenPath(c, n) \/ WritePath(c, n)
  \/ UnlinkService(c, n) \/ UnlinkPath(c, n) \/ UnlinkHelper(c, n) \/ UnlinkEnv(c, n)
  \/ FileFails(c, n) \/ WriteLost(c, n)

CallStep(c, n) ==
  \/ Reload(c, n) \/ Start(c, n) \/ StartPath(c, n) \/ Stop(c, n) \/ StopPath(c, n)
  \/ Await(c, n) \/ Restart(c, n) \/ Enable(c, n) \/ Disable(c, n) \/ Refused(c, n)
  \/ CallFails(c, n) \/ End(c, n) \/ Saved(c, n)

Next ==
  \/ \E c \in Clients : \/ \E command \in Commands : Begin(c, command)
                        \/ Killed(c)
                        \/ \E n \in Names : FileStep(c, n) \/ CallStep(c, n)
  \/ \E n \in Names : Complete(n)
  \/ \E a \in Apps : CompanionRuns(a) \/ Trigger(a)
  \/ Reboot

Spec == Init /\ [][Next]_vars

-----------------------------------------------------------------------------

\* Files, manager and promises keep their shape.
TypeOK ==
  /\ disk \in [service : [Names -> Unit], path : SUBSET Apps, env : SUBSET Names]
  /\ mgr \in [loaded : [Names -> Unit],
              running : [Names -> Runnable],
              job : [Names -> {"none", "start", "stop", "restart"}],
              watching : SUBSET Names, bootService : SUBSET Names,
              bootPath : SUBSET Names]
  /\ used \in [commands : 0 .. MaxCommands, crashes : 0 .. MaxCrashes,
               failures : 0 .. MaxFailures, full : 0 .. MaxFull, boots : 0 .. MaxBoots]
  /\ expected \in [Apps -> [running : SUBSET Contents, watched : SUBSET BOOLEAN]]
  /\ saved \in [apps : SUBSET Apps, watches : SUBSET Apps]
  /\ torn \in [{"service", "helper", "path"} -> SUBSET Names]

\* A service file never names an environment file that is not there, at any step
\* of any command, whatever fails and wherever fdash is killed: the app could not
\* start.  (unit_gen.c writes .env before .service and unlinks it after.)
EnvPresent == \A n \in Names : disk.service[n].env => n \in disk.env

\* A .path file always has the companion it triggers beside it, whatever fails and
\* wherever fdash is killed: it may be empty only while it is written, or when that
\* was cut short, and then a change fails the watch.
TriggerHasHelper ==
  \A a \in disk.path : \/ disk.service[HelperOf[a]] = Companion
                       \/ disk.service[HelperOf[a]] = Empty /\ a \in torn.helper

Idle == \A c \in Clients : todo[c] = << >>

Quiet == /\ Idle
         /\ \A n \in Names : mgr.job[n] = "none" /\ mgr.running[n] # Restarter

\* Between commands, when none was killed or failed, the manager knows each unit
\* as it is on disk and no unit that was deleted: what it next restarts is what
\* was last written.
LoadedFresh ==
  Idle /\ used.crashes = 0 /\ used.failures = 0
    => \A n \in Names : mgr.loaded[n] \in {NoUnit, disk.service[n]}

\* A command that returned has its way once the jobs it queued are done: a cold
\* app runs what was written for it, a stopped or deleted one does not run, a
\* saved one is running again after a reboot.
Obeyed == Quiet => \A a \in Apps : mgr.running[a] \in expected[a].running

\* The same for apps that should be running, while watched files change.
KeptRunning ==
  Quiet => \A a \in Apps :
    expected[a].running \subseteq Programs => mgr.running[a] \in expected[a].running

\* An app deployed with a watch is watched, a stopped or deleted one is not, and
\* one that was saved watched is watched again after a reboot - unless writing its
\* .path or companion was cut short and they have not been written since: has_watch
\* then finds nothing to start or to stop, or a change fails the watch.
WatchObeyed ==
  Quiet => \A a \in Apps \ (torn.path \cup torn.helper) :
    (a \in mgr.watching) \in expected[a].watched

\* "fdash stop" stops the app (README.md:144, "Stop a service or all services").
StopSticks ==
  Quiet => \A a \in Apps : expected[a] = Stopped => mgr.running[a] = Off
=============================================================================
