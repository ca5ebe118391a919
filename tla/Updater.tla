------------------------------- MODULE Updater -------------------------------
(* fdash looking for, downloading and installing its own next version          *)
(* (updater.c), started by `fdash update [version]` or by the dashboard, which *)
(* checks when it opens and when U is pressed, and starts itself again after   *)
(* an update (tui.c).  Any number of fdash processes do so at once; they share *)
(* the binary, the version cache and GitHub, and can be killed anywhere.       *)
EXTENDS Naturals, Sequences

CONSTANTS
  Procs,      \* concurrent fdash processes
  Versions,   \* version numbers, as sequences of up to three numbers
  First,      \* the version installed and released at first
  Pins,       \* what users give to `fdash update <version>`
  FreshFor,   \* how long the cache is believed, six hours
  MaxTime, MaxFaults, MaxDeleted  \* bounds

NoVersion == << >>
NoFile == [version |-> NoVersion, whole |-> FALSE, mode |-> "fresh"]

ASSUME UpdaterAssumption ==
  /\ Versions \subseteq Seq(Nat) \ {NoVersion}
  /\ \A v \in Versions : Len(v) <= 3
  /\ First \in Versions /\ Pins \subseteq Versions
  /\ {FreshFor, MaxTime, MaxFaults, MaxDeleted} \subseteq Nat

\* The path of the binary, followed by this many " (deleted)".
Paths == 0 .. MaxDeleted + 1

\* As curl leaves it, made executable, or not allowed to be.
File == [version : Versions \cup {NoVersion}, whole : BOOLEAN,
         mode : {"fresh", "executable", "refused"}]

Faults == [kills : 0 .. MaxFaults, refusals : 0 .. MaxFaults]

Stages == {"exited", "cache", "fetch", "note", "dashboard", "update", "fallback", "chmod",
           "rename", "drop", "restart"}

VARIABLES
  file,    \* what is at each path the binary may have
  new,     \* <path>.new.<pid>, each process's download
  cache,   \* version_cache: when it was written, and the version
  proc,    \* the processes
  github,  \* VERSION on main, the released versions, and the latest of them
  clock,   \* time(NULL)
  faults   \* how many processes were killed, and chmods refused

vars == << file, new, cache, proc, github, clock, faults >>

Process ==
  [at : Stages, job : {"monit", "update", "pin"},
   own : Versions,                  \* FIRE_VERSION
   exe : Paths, replaced : BOOLEAN, \* its binary's path, and if another took it
   self : Paths,                    \* self_path
   found : Versions \cup {NoVersion}]  \* update_version, or target_version

Exited == [at |-> "exited", job |-> "monit", own |-> First, exe |-> 0,
           replaced |-> FALSE, self |-> 0, found |-> NoVersion]

NoCache == [time |-> 0, version |-> NoVersion]

Init ==
  /\ file = [p \in Paths |-> IF p = 0 THEN [version |-> First, whole |-> TRUE, mode |-> "executable"]
                             ELSE NoFile]
  /\ new = [c \in Procs |-> NoFile]
  /\ cache = NoCache
  /\ proc = [c \in Procs |-> Exited]
  /\ github = [main |-> First, released |-> {First}, latest |-> First]
  /\ clock = 0
  /\ faults = [kills |-> 0, refusals |-> 0]

-----------------------------------------------------------------------------
(* Versions. *)

\* What sscanf("%d.%d.%d") leaves in the i-th number.
Part(v, i) == IF i \in DOMAIN v THEN v[i] ELSE 0

\* Semantic versions: the first number that differs decides.
Precedes(v, w) == \E i \in 1 .. 3 : /\ Part(v, i) < Part(w, i)
                                    /\ \A j \in 1 .. i - 1 : Part(v, j) = Part(w, j)

\* Mutant: a larger number wins wherever it is.
IsNewerSomewhere(remote, local) ==
  \/ Part(remote, 1) > Part(local, 1)
  \/ Part(remote, 2) > Part(local, 2)
  \/ Part(remote, 3) > Part(local, 3)

\* updater_is_newer
IsNewer(remote, local) ==
  \/ Part(remote, 1) > Part(local, 1)
  \/ /\ Part(remote, 1) = Part(local, 1)
     /\ \/ Part(remote, 2) > Part(local, 2)
        \/ Part(remote, 2) = Part(local, 2) /\ Part(remote, 3) > Part(local, 3)

HasUpdate(c) == proc[c].found # NoVersion /\ IsNewer(proc[c].found, proc[c].own)

-----------------------------------------------------------------------------
(* The world. *)

\* main gets a VERSION, and later the release of it that the workflow builds.
Commit(v) ==
  /\ Precedes(github.main, v)
  /\ github' = [github EXCEPT !.main = v]
  /\ UNCHANGED << file, new, cache, proc, clock, faults >>

Release ==
  /\ github.main \notin github.released
  /\ github' = [github EXCEPT !.released = @ \cup {github.main}, !.latest = github.main]
  /\ UNCHANGED << file, new, cache, proc, clock, faults >>

\* Time passes, or the clock is set.
Clock ==
  /\ clock' \in 0 .. MaxTime
  /\ UNCHANGED << file, new, cache, proc, github, faults >>

-----------------------------------------------------------------------------
(* A process. *)

\* readlink("/proc/self/exe")
SelfPath(c) == proc[c].exe + (IF proc[c].replaced THEN 1 ELSE 0)

Runnable(f) == f.whole /\ f.mode = "executable"

\* c starts the binary at `path`.
Running(path, job, version) ==
  [Exited EXCEPT !.at = CASE job = "monit" -> "cache" [] job = "update" -> "fetch"
                          [] job = "pin" -> "update",
                 !.job = job, !.own = file[path].version, !.exe = path, !.self = path, !.found = version]

\* The user runs fdash, `fdash update` or `fdash update <version>`.
Launch(c) ==
  /\ proc[c].at = "exited"
  /\ Runnable(file[0])
  /\ \/ \E job \in {"monit", "update"} :
          proc' = [proc EXCEPT ![c] = Running(0, job, NoVersion)]
     \/ \E v \in Pins : proc' = [proc EXCEPT ![c] = Running(0, "pin", v)]
  /\ UNCHANGED << file, new, cache, github, clock, faults >>

\* One more of what may go wrong.
Counts(fault) ==
  /\ faults.kills + faults.refusals < MaxFaults
  /\ faults' = [faults EXCEPT ![fault] = @ + 1]

\* c goes from one stage to another.
Goes(c, from, to) == proc[c].at = from /\ proc' = [proc EXCEPT ![c].at = to]

Open(me) == [me EXCEPT !.at = "dashboard", !.self = 0]

\* What a check that found this version, or none, returns to: the dashboard, or
\* `fdash update`, which goes on only with a newer one.
Answer(c, version) ==
  LET me == [proc[c] EXCEPT !.found = version]
  IN proc' = [proc EXCEPT ![c] =
       IF me.job = "monit" THEN Open(me)
       ELSE IF version # NoVersion /\ IsNewer(version, me.own) THEN [me EXCEPT !.at = "update"]
       ELSE Exited]

\* A cache from the future is not believed.
CacheFresh ==
  /\ cache.version # NoVersion
  /\ clock >= cache.time
  /\ clock - cache.time < FreshFor

ReadCache(c) ==
  /\ proc[c].at = "cache"
  /\ IF CacheFresh THEN Answer(c, cache.version) ELSE Goes(c, "cache", "fetch")
  /\ UNCHANGED << file, new, cache, github, clock, faults >>

\* Mutant: the cache gets the time it expires.
CacheExpires(version) ==
  \/ cache' \in {[time |-> clock + FreshFor, version |-> version], NoCache}
  \/ UNCHANGED cache

\* The cache is emptied and written; or it cannot be opened, or not be written.
CacheBecomes(version) ==
  \/ cache' \in {[time |-> clock, version |-> version], NoCache}
  \/ UNCHANGED cache

\* curl fetches VERSION or else, from the API, the latest tag; the cache gets
\* what was found.  Or the network is down.
FetchVersion(c) ==
  /\ proc[c].at = "fetch"
  /\ \/ \E version \in {github.main, github.latest} :
          Answer(c, version) /\ CacheBecomes(version)
     \/ Answer(c, NoVersion) /\ UNCHANGED cache
  /\ UNCHANGED << file, new, github, clock, faults >>

\* U without an update looks for one, whatever the cache says.
CheckNow(c) ==
  /\ proc[c].at = "dashboard"
  /\ ~HasUpdate(c)
  /\ proc' = [proc EXCEPT ![c].at = "fetch", ![c].found = NoVersion]
  /\ UNCHANGED << file, new, cache, github, clock, faults >>

\* U, then y: the path is that of the binary as it is now.
Confirm(c) ==
  /\ proc[c].at = "dashboard"
  /\ HasUpdate(c)
  /\ SelfPath(c) <= MaxDeleted
  /\ proc' = [proc EXCEPT ![c].at = "update", ![c].self = SelfPath(c)]
  /\ UNCHANGED << file, new, cache, github, clock, faults >>

Quit(c) ==
  /\ proc[c].at = "dashboard"
  /\ proc' = [proc EXCEPT ![c] = Exited]
  /\ UNCHANGED << file, new, cache, github, clock, faults >>

Asset(v) == [version |-> v, whole |-> TRUE, mode |-> "fresh"]
Piece(v) == [version |-> v, whole |-> FALSE, mode |-> "fresh"]

\* Mutant: whatever was downloaded will do.
CurlUnchecked(c, from, v, other) ==
  \/ /\ v \in github.released
     /\ Goes(c, from, "chmod")
     /\ \E asset \in {Asset(v), Piece(v)} : new' = [new EXCEPT ![c] = asset]
  \/ Goes(c, from, other) /\ UNCHANGED new

\* curl -o: the asset of version v is all there and c goes on, or some of it is,
\* or nothing changes, and c tries something else.
Curl(c, from, v, other) ==
  \/ /\ v \in github.released
     /\ \/ new' = [new EXCEPT ![c] = Asset(v)] /\ Goes(c, from, "chmod")
        \/ new' = [new EXCEPT ![c] = Piece(v)] /\ Goes(c, from, other)
  \/ Goes(c, from, other) /\ UNCHANGED new

\* The asset of the version asked for, or else of the latest release.
Download(c) ==
  /\ \/ Curl(c, "update", proc[c].found, "fallback")
     \/ Curl(c, "fallback", github.latest, "drop")
  /\ UNCHANGED << file, cache, github, clock, faults >>

\* The system may refuse, and nobody looks at the result.
Chmod(c) ==
  /\ Goes(c, "chmod", "rename")
  /\ \/ new' = [new EXCEPT ![c].mode = "executable"] /\ UNCHANGED faults
     \/ new' = [new EXCEPT ![c].mode = "refused"] /\ Counts("refusals")
  /\ UNCHANGED << file, cache, github, clock >>

\* The download takes the binary's place: whoever runs what was there before
\* runs a deleted file.
TakesPlace(c) ==
  /\ proc[c].at = "rename"
  /\ file' = [file EXCEPT ![proc[c].self] = new[c]]
  /\ new' = [new EXCEPT ![c] = NoFile]
  /\ proc' = [d \in Procs |->
       [proc[d] EXCEPT !.replaced = @ \/ (proc[d].at # "exited" /\ proc[d].exe = proc[c].self),
                       !.at = IF d = c THEN "note" ELSE @]]

\* Mutant: after a failed rename the download stays.
RenameLeaves(c) ==
  /\ \/ TakesPlace(c)
     \/ /\ proc[c].at = "rename"
        /\ proc' = [proc EXCEPT ![c] = Exited]
        /\ UNCHANGED << file, new >>
  /\ UNCHANGED << cache, github, clock, faults >>

\* rename(), or its failure: the directory cannot be written.
Rename(c) ==
  /\ TakesPlace(c) \/ (Goes(c, "rename", "drop") /\ UNCHANGED << file, new >>)
  /\ UNCHANGED << cache, github, clock, faults >>

\* The cache gets the version asked for; the dashboard starts itself again.
NoteUpdate(c) ==
  /\ proc[c].at = "note"
  /\ CacheBecomes(proc[c].found)
  /\ proc' = [proc EXCEPT ![c] = IF @.job = "monit" THEN [@ EXCEPT !.at = "restart"] ELSE Exited]
  /\ UNCHANGED << file, new, github, clock, faults >>

\* The update failed: its download is removed, the dashboard goes on.
Drop(c) ==
  /\ proc[c].at = "drop"
  /\ new' = [new EXCEPT ![c] = NoFile]
  /\ proc' = [proc EXCEPT ![c] = IF @.job = "monit" THEN Open(@) ELSE Exited]
  /\ UNCHANGED << file, cache, github, clock, faults >>

\* execl of its own path, or else the end.
Restart(c) ==
  /\ proc[c].at = "restart"
  /\ proc' = [proc EXCEPT ![c] = IF Runnable(file[SelfPath(c)])
                                 THEN Running(SelfPath(c), "monit", NoVersion) ELSE Exited]
  /\ UNCHANGED << file, new, cache, github, clock, faults >>

Killed(c) ==
  /\ proc[c].at # "exited"
  /\ Counts("kills")
  /\ proc' = [proc EXCEPT ![c] = Exited]
  /\ UNCHANGED << file, new, cache, github, clock >>

Update(c) ==
  Confirm(c) \/ Download(c) \/ Chmod(c) \/ Rename(c) \/ NoteUpdate(c) \/ Drop(c) \/ Restart(c)

Next ==
  \/ \E c \in Procs : \/ Launch(c) \/ ReadCache(c) \/ FetchVersion(c) \/ Update(c)
                      \/ CheckNow(c) \/ Quit(c) \/ Killed(c)
  \/ \E v \in Versions : Commit(v)
  \/ Release \/ Clock

Spec == Init /\ [][Next]_vars

-----------------------------------------------------------------------------

\* Files, cache and processes keep their shape.
TypeOK ==
  /\ file \in [Paths -> File]
  /\ new \in [Procs -> File]
  /\ cache \in [time : 0 .. MaxTime, version : Versions \cup {NoVersion}]
  /\ proc \in [Procs -> Process]
  /\ github \in [main : Versions, released : SUBSET Versions, latest : Versions]
  /\ clock \in 0 .. MaxTime
  /\ faults \in Faults

\* Whatever fails, whoever is killed and however many update at once, the
\* installed fdash is a whole binary, and was made executable before it was
\* installed, unless the system refused.  (updater.c downloads to a file of its own,
\* asks for it to be executable, and renames it.)
InstalledWhole == file[0].whole /\ file[0].mode # "fresh"

\* An update that ends, well or not, leaves no download behind unless it is
\* killed.
NoLitter ==
  faults.kills = 0 => \A c \in Procs :
    new[c] # NoFile => proc[c].at \in {"fallback", "chmod", "rename", "drop"}

\* Only a version that was asked for can replace fdash by an older one: not a
\* stale cache, not the latest release taken instead.
NotOlder ==
  \A c \in Procs : proc[c].at = "rename" /\ proc[c].job # "pin"
                     => ~Precedes(new[c].version, proc[c].own)

\* "upgrade and restart immediately" (README.md:183): the path a dashboard starts
\* itself from after its update is that of a binary.
RestartFinds == \A c \in Procs : proc[c].at = "restart" => Runnable(file[SelfPath(c)])
=============================================================================
