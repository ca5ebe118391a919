-------------------------------- MODULE Cli --------------------------------
(* One fdash process started from a shell: src/main.c takes its arguments      *)
(* apart, decides what they ask for, deploys what `start` names - a command,   *)
(* or every app of a configuration file - and lists the apps.  Other processes *)
(* register, delete, start and stop apps between its steps.                    *)
(*                                                                             *)
(* What stop, restart, delete and save do to the units is UnitRegistry's; here *)
(* they are calls.  The dashboard and the updater are modules of their own.    *)
EXTENDS Config, Status, Integers, SequencesExt

CONSTANTS
  CommandLines, \* the argument lists fdash may be started with
  Dashed,      \* the words that start with "-"
  JsonNames,   \* the words that contain ".json"
  Valid,       \* the words is_valid_name accepts: the names an app may have
  Stem,        \* the name a command gives its app: no directory, no extension
  Numbers,     \* what atoi makes of the words that are numbers
  FileSets,    \* what the current directory may hold, a Json for each file name
  Registries,  \* the sets of apps that may be registered, stopped, at first
  MaxChanges   \* bound: what other processes do

Scopes == {"user", "system"}

\* An array is a sequence, whatever is in it.
IsArray(items) == items \in Seq(ToSet(items))

ASSUME CliAssumption ==
  /\ \A words \in CommandLines : words \in Seq(STRING)
  /\ "" \notin JsonNames /\ \A word \in DOMAIN Numbers : Numbers[word] \in Int
  /\ \A there \in FileSets : \A name \in DOMAIN there : IsArray(Items(there[name]))
  /\ "" \notin Valid /\ Registries \subseteq SUBSET Valid /\ MaxChanges \in Nat

VARIABLES
  phase,     \* where the process is
  line,      \* its arguments
  files,     \* what is in the current directory
  stdin,     \* its input: a pipe, or what the user types at a terminal
  command,   \* what it makes of them
  todo,      \* the apps it has still to deploy
  deployed,  \* history: the apps handed to start_single_app, in order
  called,    \* history: the command passed on, with its target
  rows,      \* the list of apps it will print
  units,     \* for each scope and name: the unit files and the process
  accounts,  \* who accounts for memory: the manager, the kernel only, or nobody
  changes    \* how much of the bound is used

input   == << line, files, stdin, accounts >>
history == << deployed, called >>
vars    == << phase, input, command, todo, history, rows, units, changes >>

NoUnit == [file |-> FALSE, watch |-> FALSE, pid |-> 0, restarts |-> 0, state |-> "disabled"]
NoCall == [command |-> "", target |-> "", scope |-> "user"]
NoOptions == [name |-> "", watch |-> "", cwd |-> "", user |-> "", restart_sec |-> 2,
              target |-> "", yes |-> FALSE, awaits |-> ""]
NoCommand == [options |-> NoOptions, scope |-> "user", found |-> FALSE]

Init ==
  /\ phase = "parse"
  /\ line \in CommandLines /\ files \in FileSets 
  /\ stdin \in {"pipe", "y", "n", "EOF"}
  /\ accounts \in {"manager", "kernel", "none"}
  /\ command = NoCommand
  /\ todo = << >> /\ deployed = << >> /\ called = NoCall /\ rows = << >>
  /\ \E there \in Registries :
       units = [s \in Scopes |-> [n \in Valid |->
                  IF s = "user" /\ n \in there THEN [NoUnit EXCEPT !.file = TRUE] ELSE NoUnit]]
  /\ changes = 0

-----------------------------------------------------------------------------
(* The arguments. *)

Globals == {"--user", "--system"}
Informs == {"-v", "--version", "-h", "--help", "help"}

\* The last of --user and --system holds, wherever it stands.
ScopeGiven ==
  LET given == SelectSeq(line, LAMBDA w : w \in Globals)
  IN IF given # << >> /\ Last(given) = "--system" THEN "system" ELSE "user"

Arguments ==
  LET kept[i \in 0 .. Len(line)] ==
        IF i = 0 THEN << >>
        ELSE IF line[i] \in Globals THEN kept[i - 1] ELSE Append(kept[i - 1], line[i])
  IN kept[Len(line)]

ToNumber(word) == IF word \in DOMAIN Numbers THEN Numbers[word] ELSE 0

OptionOf(word) ==
  CASE word \in {"--name", "-n"}            -> "name"
    [] word \in {"--watch", "-w"}           -> "watch"
    [] word \in {"--cwd", "-c"}             -> "cwd"
    [] word \in {"--run-as", "--user-name"} -> "user"
    [] word = "--restart-sec"               -> "restart_sec"
    [] word \in {"-y", "--yes"}             -> "yes"
    [] word \in Dashed                      -> "unknown"
    [] OTHER                                -> "target"

\* A word on its own.  An option that takes a value awaits the next word, and is
\* dropped if there is none; --watch means the current directory until then.
Option(options, word) ==
  LET option == OptionOf(word)
  IN CASE option = "yes"    -> [options EXCEPT !.yes = TRUE]
       [] option = "watch"  -> [options EXCEPT !.watch = ".", !.awaits = "watch"]
       [] option = "target" -> IF options.target = "" THEN [options EXCEPT !.target = word]
                               ELSE options
       [] option = "unknown" -> options
       [] OTHER             -> [options EXCEPT !.awaits = option]

\* The next word is the value awaited, but an option ends --watch.
TakeWord(options, word) ==
  LET rest == [options EXCEPT !.awaits = ""]
  IN CASE options.awaits = "" \/ (options.awaits = "watch" /\ word \in Dashed)
            -> Option(rest, word)
       [] options.awaits = "restart_sec" -> [rest EXCEPT !.restart_sec = ToNumber(word)]
       [] OTHER                          -> [rest EXCEPT ![options.awaits] = word]

StartOptions ==
  LET words == Tail(Arguments)
      taken[i \in 0 .. Len(words)] ==
        IF i = 0 THEN NoOptions ELSE TakeWord(taken[i - 1], words[i])
  IN taken[Len(words)]

\* cmd_logs: -f, -n <lines>, and the first other word.
LogsWord(asked, word) ==
  CASE asked.awaits = "lines"                      -> [asked EXCEPT !.awaits = "", !.lines = ToNumber(word)]
    [] word \in {"-n", "--lines"}                  -> [asked EXCEPT !.awaits = "lines"]
    [] word \in {"-f", "--follow"}                 -> [asked EXCEPT !.follow = TRUE]
    [] word \notin Dashed /\ asked.target = ""     -> [asked EXCEPT !.target = word]
    [] OTHER                                       -> asked

LogsAsked ==
  FoldLeft(LogsWord, [target |-> "", follow |-> FALSE, lines |-> 50, awaits |-> ""],
           Tail(Arguments))

-----------------------------------------------------------------------------
(* What they ask for. *)

Verb ==
  LET word == Head(Arguments)
  IN CASE word \in {"delete", "del"}     -> "delete"
       [] word \in {"list", "ls"}        -> "list"
       [] word \in {"logs", "log"}       -> "logs"
       [] word \in {"update", "upgrade"} -> "update"
       [] OTHER                          -> word

Target == IF Len(Arguments) > 1 THEN Arguments[2] ELSE ""

\* The process passes the command on and is done.
PassOn(verb, target) ==
  /\ called' = [command |-> verb, target |-> target, scope |-> ScopeGiven]
  /\ phase' = "ended"
  /\ UNCHANGED << command, todo, deployed, rows >>

GivesUp == phase' = "ended" /\ UNCHANGED << command, todo, history, rows >>

\* The first of the words that ask for it: the version, the usage or an update,
\* even where the command has other plans for the word.
Urgent == SelectSeq(line, LAMBDA w : w \in Informs \cup {"--update"})

Named(verb) ==
  CASE verb \in {"stop", "restart", "delete"} ->
         IF Target = "all" \/ Target \in Valid THEN PassOn(verb, Target) ELSE GivesUp
    [] verb = "save"   -> PassOn(verb, "")
    [] verb = "update" -> PassOn(verb, Target)
    [] verb = "logs"   -> IF LogsAsked.target \in Valid \cup {""}
                          THEN PassOn(verb, LogsAsked.target) ELSE GivesUp
    [] OTHER           -> GivesUp

Lists ==
  /\ phase' = "list"
  /\ command' = [NoCommand EXCEPT !.scope = ScopeGiven]
  /\ UNCHANGED << todo, history, rows >>

Starts ==
  /\ phase' = "choose"
  /\ command' = [options |-> StartOptions, scope |-> ScopeGiven, found |-> FALSE]
  /\ UNCHANGED << todo, history, rows >>

Dispatch ==
  /\ phase = "parse"
  /\ CASE Urgent # << >> -> IF Head(Urgent) = "--update" THEN PassOn("update", "") ELSE GivesUp
       [] Urgent = << >> /\ (Arguments = << >> \/ Head(Arguments) = "monit") -> PassOn("monit", "")
       [] OTHER -> CASE Verb = "start" -> Starts
                     [] Verb = "list"  -> Lists
                     [] OTHER          -> Named(Verb)
  /\ UNCHANGED << input, units, changes >>

-----------------------------------------------------------------------------
(* start *)

\* With no target, a configuration file that is there is the target.
Choose ==
  /\ phase = "choose"
  /\ LET target  == command.options.target
         default == FindDefault(files)
     IN CASE target \in JsonNames -> phase' = "load" /\ UNCHANGED command
          [] target = "" /\ default # << >> ->
               /\ command' = [command EXCEPT !.options.target = default[1], !.found = TRUE]
               /\ phase' = IF stdin # "pipe" /\ ~command.options.yes THEN "ask" ELSE "load"
          [] target = "" /\ default = << >> -> phase' = "ended" /\ UNCHANGED command
          [] OTHER -> phase' = "single" /\ UNCHANGED command
  /\ UNCHANGED << input, todo, history, rows, units, changes >>

\* Mutant: only an n is a no.
AgreedUnlessNo == stdin # "n"

\* Anything but y or Y, and the end of input, is no.
Agreed == stdin = "y"

Ask ==
  /\ phase = "ask"
  /\ phase' = IF Agreed THEN "load" ELSE "ended"
  /\ UNCHANGED << input, command, todo, history, rows, units, changes >>

FileNamed(name) == IF name \in DOMAIN files THEN files[name] ELSE Missing

ConfigLoad ==
  /\ phase = "load"
  /\ todo' = Load(FileNamed(command.options.target), command.scope)
  /\ phase' = IF todo' = << >> THEN "ended" ELSE "deploy"
  /\ UNCHANGED << input, command, history, rows, units, changes >>

\* The app a command line describes.
Single(options, scope) ==
  LET cwd == IF options.cwd = "" THEN << Here >> ELSE << options.cwd >>
  IN [name |-> IF options.name # "" THEN options.name ELSE Stem[options.target],
      script |-> Script(options.target),
      cwd |-> cwd,
      watch |-> IF options.watch = "" THEN << >> ELSE Under(cwd, options.watch),
      env |-> 0, restart_sec |-> options.restart_sec, scope |-> scope,
      user |-> options.user]

StartSingle ==
  /\ phase = "single"
  /\ LET app == Single(command.options, command.scope)
     IN IF app.name \in Valid
        THEN todo' = << app >> /\ phase' = "deploy"
        ELSE phase' = "ended" /\ UNCHANGED todo
  /\ UNCHANGED << input, command, history, rows, units, changes >>

InUse == {units[s][n].pid : s \in Scopes, n \in Valid}
Alive == InUse \ {0}

\* A process for a unit that has none; one of its children is never a main process.
Mains == Pids \ UNION {Started(p) : p \in Pids}
Running(unit) == IF unit.pid # 0 THEN {unit}
                 ELSE {[unit EXCEPT !.pid = p] : p \in Mains \ InUse}

\* start_single_app: the service file, the watch, the start; each may fail,
\* the first for every name that is not valid.  A watch it does not write stays.
Outcomes(app, unit) ==
  LET written == {[unit EXCEPT !.file = TRUE, !.watch = w] :
                    w \in IF app.watch = << >> THEN {unit.watch} ELSE {unit.watch, TRUE}}
  IN {unit} \cup written \cup UNION {Running(u) : u \in written}

\* Mutant: a name is not looked at again after the file was read.
MayDeployAny(app) == app.name # ""

MayDeploy(app) == app.name \in Valid

\* The results are not looked at: the next app follows, then the list.
Deploy ==
  /\ phase = "deploy" /\ todo # << >> /\ MayDeploy(Head(todo))
  /\ LET app == [Head(todo) EXCEPT !.user = IF command.options.user = "" THEN @
                                            ELSE command.options.user]
     IN /\ deployed' = Append(deployed, app)
        /\ IF app.name \in Valid
           THEN \E unit \in Outcomes(app, units[app.scope][app.name]) :
                  units' = [units EXCEPT ![app.scope][app.name] = unit]
           ELSE UNCHANGED units
  /\ todo' = Tail(todo)
  /\ UNCHANGED << phase, input, command, called, rows, changes >>

\* An app whose name is not valid ends the command, after those before it.
Refuse ==
  /\ phase = "deploy" /\ todo # << >> /\ ~MayDeploy(Head(todo))
  /\ phase' = "ended"
  /\ UNCHANGED << input, command, todo, history, rows, units, changes >>

Deployed ==
  /\ phase = "deploy" /\ todo = << >>
  /\ phase' = "list"
  /\ UNCHANGED << input, command, todo, history, rows, units, changes >>

-----------------------------------------------------------------------------
(* list *)

\* unit_gen_list_names, in the order the directory has them, and has_watch.
ListNames ==
  /\ phase = "list"
  /\ LET here == units[command.scope]
     IN \E names \in SetToSeqs({n \in Valid : here[n].file}) :
          /\ rows' = [i \in DOMAIN names |-> Blank(names[i], here[names[i]].watch)]
          /\ phase' = IF names = << >> THEN "ended" ELSE "show"
  /\ UNCHANGED << input, command, todo, history, units, changes >>

\* What the manager says of a unit, one that is not there included.
Figures(n) ==
  LET unit == units[command.scope][n]
  IN [Id            |-> n,
      ActiveState   |-> IF unit.pid # 0 THEN "active" ELSE "inactive",
      MainPID       |-> unit.pid,
      NRestarts     |-> unit.restarts,
      MemoryCurrent |-> IF unit.pid # 0 /\ accounts = "manager" THEN AllMemory(unit.pid)
                        ELSE Unset,
      UnitFileState |-> unit.state]

\* One systemctl show for all.
Show ==
  /\ phase = "show"
  /\ rows' = BatchRows(rows, [i \in DOMAIN rows |-> Figures(rows[i].name)])
  /\ phase' = "memory"
  /\ UNCHANGED << input, command, todo, history, units, changes >>

\* There is no systemctl to run: its output is empty, and the rows stay blank.
ShowNothing ==
  /\ phase = "show"
  /\ phase' = "ended"
  /\ UNCHANGED << input, command, todo, history, rows, units, changes >>

\* systemctl could not be started: it is tried again for each unit.
ShowFails ==
  /\ phase = "show"
  /\ phase' = "each"
  /\ todo' = [i \in DOMAIN rows |-> i]
  /\ UNCHANGED << input, command, history, rows, units, changes >>

\* The memory the manager did not give is read from the kernel.
WithMemory(row) ==
  IF row.pid = 0 \/ row.memory_bytes # 0 THEN row
  ELSE [row EXCEPT !.memory_bytes =
          ReadProcStats(row.pid, IF accounts = "kernel" THEN AllMemory(row.pid) ELSE 0, Alive)]

ShowEach ==
  /\ phase = "each"
  /\ rows' = [rows EXCEPT ![Head(todo)] = WithMemory(UnitRow(@, Figures(@.name)))]
  /\ todo' = Tail(todo)
  /\ phase' = IF todo' = << >> THEN "ended" ELSE "each"
  /\ UNCHANGED << input, command, history, units, changes >>

ReadMemory ==
  /\ phase = "memory"
  /\ rows' = [i \in DOMAIN rows |-> WithMemory(rows[i])]
  /\ phase' = "ended"
  /\ UNCHANGED << input, command, todo, history, units, changes >>

-----------------------------------------------------------------------------
(* What others do, while the process runs. *)

Becomes(s, n, unit) ==
  /\ phase # "ended" /\ changes < MaxChanges
  /\ changes' = changes + 1
  /\ units' = [units EXCEPT ![s][n] = unit]
  /\ UNCHANGED << phase, input, command, todo, history, rows >>

Registers(s, n) ==
  ~units[s][n].file /\ \E unit \in Running([units[s][n] EXCEPT !.file = TRUE]) : Becomes(s, n, unit)

Deletes(s, n) == units[s][n].file /\ Becomes(s, n, NoUnit)

Stops(s, n) == units[s][n].pid # 0 /\ Becomes(s, n, [units[s][n] EXCEPT !.pid = 0])

Restarts(s, n) ==
  /\ units[s][n].pid # 0
  /\ \E unit \in Running([units[s][n] EXCEPT !.pid = 0, !.restarts = @ + 1]) : Becomes(s, n, unit)

\* A restart companion has no [Install] section: its file is static.
Links(s, n) ==
  /\ units[s][n].file
  /\ \E state \in {"enabled", "static"} : Becomes(s, n, [units[s][n] EXCEPT !.state = state])

Others(s, n) ==
  Registers(s, n) \/ Deletes(s, n) \/ Stops(s, n) \/ Restarts(s, n) \/ Links(s, n)

Start == Choose \/ Ask \/ ConfigLoad \/ StartSingle \/ Deploy \/ Refuse \/ Deployed
List  == ListNames \/ Show \/ ShowNothing \/ ShowFails \/ ShowEach \/ ReadMemory

Next == Dispatch \/ Start \/ List \/ \E s \in Scopes, n \in Valid : Others(s, n)

Spec == Init /\ [][Next]_vars

-----------------------------------------------------------------------------

Phases == {"parse", "choose", "ask", "load", "single", "deploy", "list", "show", "each",
           "memory", "ended"}

App == [name : STRING, script : [shell : BOOLEAN, command : STRING], cwd : Seq(STRING),
        watch : Seq(STRING), env : 0 .. MaxEnv, restart_sec : Int, scope : Scopes,
        user : STRING]

IsSeqOf(s, S) == \A i \in DOMAIN s : s[i] \in S

\* The process, its commands and the units keep their shape; apps are complete.
TypeOK ==
  /\ phase \in Phases
  /\ command.scope \in Scopes /\ command.options.restart_sec \in Int
  /\ phase = "deploy" => IsSeqOf(todo, App)
  /\ IsSeqOf(deployed, App)
  /\ called.scope \in Scopes
  /\ IsSeqOf(rows, [name : Valid, has_watch : BOOLEAN, pid : Pids \cup {0}, enabled : BOOLEAN,
                    active_state : {"active", "inactive"}, restart_count : Nat,
                    memory_bytes : Nat])
  /\ units \in [Scopes -> [Valid -> [file : BOOLEAN, watch : BOOLEAN, pid : Mains \cup {0},
                                     restarts : Nat,
                                     state : {"disabled", "enabled", "static"}]]]
  /\ changes \in 0 .. MaxChanges

\* Whatever the arguments and files say, no command is passed on to the units, and
\* no app deployed, under a name that is not valid: it would be part of a path.
\* (main.c validates in every command, for a file only once apps are deployed.)
ValidOnly ==
  /\ \A i \in DOMAIN deployed : deployed[i].name \in Valid
  /\ called.command \in {"stop", "restart", "delete", "logs"} =>
       called.target \in Valid \cup {"all"} \/ (called.command = "logs" /\ called.target = "")

IsConfig == command.found \/ command.options.target \in JsonNames

\* A file is deployed in its own order, only if all its apps are complete, and the
\* list is printed only when each of them was handed over: an invalid name stops
\* the command with the apps before it deployed.
PrefixDeployed ==
  IsConfig =>
    LET items == Items(FileNamed(command.options.target))
    IN /\ deployed # << >> => \A i \in DOMAIN items : Proper(items[i])
       /\ \A i \in DOMAIN deployed :
            i \in DOMAIN items /\ deployed[i].name = Get(items[i], "name").value
       /\ phase \in {"list", "show", "each", "memory"} => Len(deployed) = Len(items)

\* At a terminal, a file nobody named is deployed only with -y or a typed y.
Consent ==
  command.found /\ stdin \in {"n", "EOF"} /\ deployed # << >> => command.options.yes

\* A watch that is not an absolute path lies in the directory the app runs in,
\* whatever order the keys or options came in.
WatchUnderCwd ==
  \A i \in DOMAIN deployed :
    LET app == deployed[i]
    IN \/ app.watch = << >> \/ IsPrefix(app.cwd, app.watch)
       \/ Len(app.watch) = 1 /\ app.watch[1] \in Absolute

\* The rows a step fills in.
Asked == CASE phase = "show" /\ phase' = "memory" -> DOMAIN rows
           [] phase = "each" /\ todo' # todo      -> {Head(todo)}
           [] OTHER                               -> {}

\* A row that is filled in says of its unit whether it runs and is started at
\* boot, as it is then, and nothing of another's, although apps come, go and
\* restart since the names were read.  So it does with the process and its
\* restarts, when each unit is asked about on its own.
RowsOwn ==
  [][\A i \in Asked :
       LET unit == units[command.scope][rows[i].name]
           row  == rows'[i]
       IN /\ row.name = rows[i].name
          /\ row.active_state = "active" <=> unit.pid # 0
          /\ row.enabled <=> unit.state = "enabled"
          /\ phase = "each" => row.pid = unit.pid /\ row.restart_count = unit.restarts]_vars

\* Whoever accounts for memory, a row shows no more than its process and those
\* that descend from it hold, each counted once; all of that, unless some of them are
\* too many generations down or were not started by a main thread; and no memory
\* where it shows no process.
MemoryOwn ==
  [][phase # "ended" /\ phase' = "ended" =>
       \A i \in (IF phase = "memory" THEN DOMAIN rows ELSE Asked) :
         LET row == rows'[i]
         IN /\ row.pid = 0 => row.memory_bytes = 0
            /\ row.pid \in Alive =>
                 /\ row.memory_bytes <= AllMemory(row.pid)
                 /\ Missed(row.pid) \/ row.memory_bytes = AllMemory(row.pid)]_vars
=============================================================================
