------------------------------- MODULE MCCli -------------------------------
(* Command lines, files and process trees that take every branch of Cli. *)
EXTENDS Cli, TLC

Word(w)  == Json("string", w)
Item(fields) == Json("object", fields)
Apps(items)  == Json("object", [apps |-> Json("array", items)])

Api == Item([name |-> Word("api"), script |-> Word("serve"), cwd |-> Word("srv"),
             watch |-> Word("lib"), scope |-> Word("system"),
             env |-> Json("object", << Word("a"), Json("bool", TRUE), Json("number", 1) >>)])
Job == Item([name |-> Word("job"), exec |-> Word("/bin/job"), cwd |-> Word("gone"),
             watch |-> Json("array", << Word("/data") >>),
             restart_delay |-> Json("number", 5), env |-> Json("array", << >>)])
Whole   == Item([name |-> Word("job"), script |-> Word("serve"), cwd |-> Word("/data"),
                 watch |-> Json("bool", TRUE), scope |-> Word("none"), restart_sec |-> Json("number", -1)])
Spaced  == Item([name |-> Word("a b"), script |-> Word("serve"), watch |-> Json("array", << >>)])
Idle    == Item([name |-> Word("idle"), script |-> Json("number", 1), exec |-> Word("serve")])

Files ==
  {<< >>,
   "fire.json" :> Apps(<< Api, Job >>),
   "fire.config.json" :> Json("array", << Job, Spaced, Api >>)
     @@ "fire.json" :> Apps(<< Api >>),
   "ecosystem.config.json" :> Json("object", [services |-> Json("array", << Api, Idle >>)]),
   "fire.json" :> Json("object", [apps |-> Word("api"), services |-> Json("array", << Api >>)]),
   "fire.json" :> Apps(<< Whole >>)}

StartLines ==
  {<< "start" >>, << "start", "-y", "--run-as", "web" >>, << "start", "fire.json", "--system" >>,
   << "start", "other.json" >>,
   << "start", "/bin/job", "--watch", "--name", "job", "--cwd", "srv" >>,
   << "--system", "start", "api.js", "-w", "lib", "--user", "--restart-sec", "-5" >>,
   << "start", "--watch", "api.js" >>, << "start", "npm start" >>, << "start", "api.js", "extra", "-x" >>}

OtherLines ==
  {<< >>, << "monit", "--system" >>, << "ls" >>, << "--system", "list" >>,
   << "stop" >>, << "stop", "all" >>, << "delete", "a b" >>, << "restart", "api" >>, << "save" >>,
   << "logs", "-f", "-n", "5", "api" >>, << "logs", "a b" >>, << "update", "5" >>,
   << "start", "api.js", "--update" >>, << "logs", "api", "-h" >>, << "dance" >>}

AllLines == StartLines \cup OtherLines

Stems == "/bin/job" :> "job" @@ "api.js" :> "api" @@ "npm start" :> "npm start"

NoneOrBoth == {{}, {"api", "job"}}

Integers5 == "5" :> 5 @@ "-5" :> -5

Tree == 1 :> {2, 3} @@ 2 :> {4} @@ 3 :> {} @@ 4 :> {} @@ 5 :> {} @@ 6 :> {7} @@ 7 :> {8}
          @@ 8 :> {9} @@ 9 :> {} @@ 10 :> {}
Forked == [p \in 1 .. 10 |-> IF p = 5 THEN {10} ELSE {}]
Sizes == [p \in 1 .. 10 |-> 2 ^ p]

\* systemctl prints the properties of a service before those of units in general.
Order == << "MainPID", "NRestarts", "MemoryCurrent", "Id", "ActiveState", "UnitFileState" >>
=============================================================================
