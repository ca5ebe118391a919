---------------------------- MODULE UpdaterProofs ----------------------------
(* Proofs about Updater, for any number of processes, versions and bounds.     *)
EXTENDS Updater, TLAPS

\* updater_is_newer decides as semantic versions do, whatever the numbers.
LEMMA IsNewerIsSemantic ==
  ASSUME NEW v \in Seq(Nat), NEW w \in Seq(Nat)
  PROVE  IsNewer(v, w) <=> Precedes(w, v)
<1>1. \A i \in 1 .. 3 : Part(v, i) \in Nat /\ Part(w, i) \in Nat
  BY DEF Part
<1>2. Precedes(w, v) <=> \/ Part(w, 1) < Part(v, 1)
                         \/ Part(w, 2) < Part(v, 2) /\ Part(w, 1) = Part(v, 1)
                         \/ Part(w, 3) < Part(v, 3) /\ Part(w, 1) = Part(v, 1)
                                                    /\ Part(w, 2) = Part(v, 2)
  <2>1. ASSUME Precedes(w, v)
        PROVE  \/ Part(w, 1) < Part(v, 1)
               \/ Part(w, 2) < Part(v, 2) /\ Part(w, 1) = Part(v, 1)
               \/ Part(w, 3) < Part(v, 3) /\ Part(w, 1) = Part(v, 1)
                                          /\ Part(w, 2) = Part(v, 2)
    <3>1. PICK i \in 1 .. 3 : /\ Part(w, i) < Part(v, i)
                              /\ \A j \in 1 .. i - 1 : Part(w, j) = Part(v, j)
      BY <2>1 DEF Precedes
    <3>2. i = 1 \/ i = 2 \/ i = 3
      OBVIOUS
    <3>3. CASE i = 1
      BY <3>1, <3>3
    <3>4. CASE i = 2
      BY <3>1, <3>4
    <3>5. CASE i = 3
      BY <3>1, <3>5
    <3> QED
      BY <3>2, <3>3, <3>4, <3>5
  <2>2. ASSUME \/ Part(w, 1) < Part(v, 1)
               \/ Part(w, 2) < Part(v, 2) /\ Part(w, 1) = Part(v, 1)
               \/ Part(w, 3) < Part(v, 3) /\ Part(w, 1) = Part(v, 1)
                                          /\ Part(w, 2) = Part(v, 2)
        PROVE  Precedes(w, v)
    <3>1. CASE Part(w, 1) < Part(v, 1)
      BY <3>1, 1 \in 1 .. 3, 1 .. 1 - 1 = {} DEF Precedes
    <3>2. CASE Part(w, 2) < Part(v, 2) /\ Part(w, 1) = Part(v, 1)
      BY <3>2, 2 \in 1 .. 3, \A j \in 1 .. 2 - 1 : j = 1 DEF Precedes
    <3>3. CASE Part(w, 3) < Part(v, 3) /\ Part(w, 1) = Part(v, 1) /\ Part(w, 2) = Part(v, 2)
      BY <3>3, 3 \in 1 .. 3, \A j \in 1 .. 3 - 1 : j = 1 \/ j = 2 DEF Precedes
    <3> QED
      BY <2>2, <3>1, <3>2, <3>3
  <2> QED
    BY <2>1, <2>2
<1> QED
  BY <1>1, <1>2 DEF IsNewer

-----------------------------------------------------------------------------

\* One more fault is within the bound, and no kill is forgotten.
LEMMA CountsTyped ==
  ASSUME faults \in Faults, NEW fault \in {"kills", "refusals"}, Counts(fault)
  PROVE  /\ faults' \in Faults /\ (faults'.kills = 0 => faults.kills = 0)
         /\ fault = "kills" => faults'.kills # 0
<1>1. /\ faults.kills \in 0 .. MaxFaults /\ faults.refusals \in 0 .. MaxFaults
      /\ faults.kills + faults.refusals < MaxFaults /\ MaxFaults \in Nat
  BY UpdaterAssumption DEF Faults, Counts
<1>2. /\ faults.kills + 1 \in 0 .. MaxFaults /\ faults.refusals + 1 \in 0 .. MaxFaults
      /\ faults.kills + 1 # 0
  BY <1>1
<1>3. CASE fault = "kills"
  <2>1. faults' = [faults EXCEPT !.kills = faults.kills + 1]
    BY <1>3 DEF Counts
  <2> QED
    BY <1>1, <1>2, <1>3, <2>1 DEF Faults
<1>4. CASE fault = "refusals"
  <2>1. faults' = [faults EXCEPT !.refusals = faults.refusals + 1]
    BY <1>4 DEF Counts
  <2> QED
    BY <1>1, <1>2, <1>4, <2>1 DEF Faults
<1> QED
  BY <1>3, <1>4

\* A whole file is one of some version.
Wholes == /\ \A p \in Paths : file[p].whole => file[p].version \in Versions
          /\ \A c \in Procs : new[c].whole => new[c].version \in Versions

\* No process runs, or is about to replace, a path past the bound.
InBound == /\ ~file[MaxDeleted + 1].whole
           /\ \A c \in Procs : proc[c].exe <= MaxDeleted /\ proc[c].self <= MaxDeleted

\* Only a download that is complete is made executable, and only after that renamed.
Checked == \A c \in Procs :
  /\ proc[c].at \in {"chmod", "rename"} => new[c].whole
  /\ proc[c].at = "rename" => new[c].mode # "fresh"

IInv == TypeOK /\ Wholes /\ InBound /\ Checked /\ InstalledWhole /\ NoLitter

\* The bounds are numbers, the empty version is not one of the versions.
LEMMA Constants ==
  /\ MaxDeleted \in Nat /\ MaxTime \in Nat /\ MaxFaults \in Nat /\ FreshFor \in Nat
  /\ First \in Versions /\ NoVersion \notin Versions /\ Pins \subseteq Versions
  /\ 0 \in Paths /\ MaxDeleted + 1 \in Paths
BY UpdaterAssumption DEF Paths

LEMMA InitIInv == Init => IInv
<1> SUFFICES ASSUME Init PROVE IInv
  OBVIOUS
<1> USE Constants
<1>1. NoFile \in File /\ Exited \in Process
  BY DEF NoFile, File, Exited, Process, Stages, Paths
<1>2. TypeOK
  <2>1. file \in [Paths -> File]
    BY DEF Init, File, NoFile
  <2>2. cache \in [time : 0 .. MaxTime, version : Versions \cup {NoVersion}]
    BY DEF Init, NoCache
  <2>3. new \in [Procs -> File] /\ proc \in [Procs -> Process]
    BY <1>1 DEF Init
  <2>4. github \in [main : Versions, released : SUBSET Versions, latest : Versions]
    BY DEF Init
  <2>5. clock \in 0 .. MaxTime /\ faults \in Faults
    BY DEF Init, Faults
  <2> QED
    BY <2>1, <2>2, <2>3, <2>4, <2>5 DEF TypeOK
<1>3. Wholes
  BY DEF Init, Wholes, NoFile
<1>4. InBound
  BY DEF Init, InBound, NoFile, Exited
<1>5. Checked /\ NoLitter
  BY DEF Init, Checked, NoLitter, Exited
<1>6. InstalledWhole
  BY DEF Init, InstalledWhole, Runnable
<1> QED
  BY <1>2, <1>3, <1>4, <1>5, <1>6 DEF IInv

-----------------------------------------------------------------------------

\* The variables that are not files or processes keep their types.
RestTyped ==
  /\ cache' \in [time : 0 .. MaxTime, version : Versions \cup {NoVersion}]
  /\ github' \in [main : Versions, released : SUBSET Versions, latest : Versions]
  /\ clock' \in 0 .. MaxTime
  /\ faults' \in Faults /\ (faults'.kills = 0 => faults.kills = 0)

\* What is asked of a process that is not about to install anything.
Fits(me, c) ==
  /\ me \in Process /\ me.exe <= MaxDeleted /\ me.self <= MaxDeleted
  /\ me.at \notin {"chmod", "rename"}
  /\ faults'.kills = 0 /\ new[c] # NoFile => me.at \in {"fallback", "drop"}

\* A step of one process that leaves the files alone.
LEMMA ProcessStep ==
  ASSUME IInv, NEW c \in Procs, NEW me, Fits(me, c), RestTyped,
         proc' = [proc EXCEPT ![c] = me], file' = file, new' = new
  PROVE  IInv'
<1>1. proc \in [Procs -> Process] /\ proc' \in [Procs -> Process]
  BY DEF IInv, TypeOK, Fits
<1>2. /\ proc'[c] = me
      /\ \A d \in Procs : d # c => proc'[d] = proc[d]
  BY <1>1
<1>3. TypeOK'
  BY <1>1 DEF IInv, TypeOK, RestTyped
<1>4. Wholes' /\ InstalledWhole'
  BY DEF IInv, Wholes, InstalledWhole, Runnable
<1>5. InBound'
  BY <1>2 DEF IInv, InBound, Fits
<1>6. Checked'
  BY <1>2 DEF IInv, Checked, Fits
<1>7. NoLitter'
  <2> SUFFICES ASSUME faults'.kills = 0, NEW d \in Procs, new[d] # NoFile
               PROVE  proc'[d].at \in {"fallback", "chmod", "rename", "drop"}
    BY DEF NoLitter
  <2>1. CASE d = c
    BY <1>2, <2>1 DEF Fits
  <2>2. CASE d # c
    BY <1>2, <2>2 DEF IInv, NoLitter, RestTyped
  <2> QED
    BY <2>1, <2>2
<1> QED
  BY <1>3, <1>4, <1>5, <1>6, <1>7 DEF IInv

\* A step of the world: nothing moves but the release, the time or the cache.
LEMMA WorldStep ==
  ASSUME IInv, RestTyped, UNCHANGED << file, new, proc >>
  PROVE  IInv'
<1>1. TypeOK' /\ NoLitter'
  BY DEF IInv, TypeOK, NoLitter, RestTyped
<1>2. Wholes' /\ InBound' /\ Checked' /\ InstalledWhole'
  BY DEF IInv, Wholes, InBound, Checked, InstalledWhole, Runnable
<1> QED
  BY <1>1, <1>2 DEF IInv

\* Nothing but files and processes changes.
LEMMA RestUnchanged ==
  ASSUME IInv, UNCHANGED << cache, github, clock, faults >>
  PROVE  RestTyped
BY DEF IInv, TypeOK, RestTyped

\* Whatever becomes of it, the cache holds a version and a time.
LEMMA CacheTyped ==
  ASSUME IInv, NEW v \in Versions \cup {NoVersion}, CacheBecomes(v)
  PROVE  cache' \in [time : 0 .. MaxTime, version : Versions \cup {NoVersion}]
BY Constants DEF IInv, TypeOK, CacheBecomes, NoCache

-----------------------------------------------------------------------------

\* A process that has left, or is back in its dashboard, has no download.
LEMMA LeavesFit ==
  ASSUME IInv, NEW c \in Procs, faults'.kills = 0 => faults.kills = 0,
         faults'.kills = 0 => new[c] = NoFile
  PROVE  /\ Fits(Exited, c)
         /\ \A found \in Versions \cup {NoVersion} : Fits(Open([proc[c] EXCEPT !.found = found]), c)
         /\ Fits(Open(proc[c]), c)
<1>1. proc[c] \in Process /\ proc[c].exe <= MaxDeleted /\ proc[c].self <= MaxDeleted
  BY DEF IInv, TypeOK, InBound
<1>2. Exited \in Process
  BY Constants DEF Exited, Process, Stages
<1>3. Fits(Exited, c)
  BY <1>2, Constants DEF Exited, Fits
<1>4. \A me \in Process : me.exe <= MaxDeleted => Fits(Open(me), c)
  <2> SUFFICES ASSUME NEW me \in Process, me.exe <= MaxDeleted PROVE Fits(Open(me), c)
    OBVIOUS
  <2>1. Open(me) \in Process
    BY Constants DEF Open, Process, Stages
  <2>2. Open(me).exe = me.exe /\ Open(me).self = 0 /\ Open(me).at = "dashboard"
    BY DEF Open, Process
  <2> QED
    BY <2>1, <2>2, Constants DEF Fits
<1>5. \A found \in Versions \cup {NoVersion} :
        [proc[c] EXCEPT !.found = found] \in Process /\ [proc[c] EXCEPT !.found = found].exe = proc[c].exe
  BY <1>1 DEF Process
<1> QED
  BY <1>1, <1>3, <1>4, <1>5

\* A process before its download has none, unless one was killed.
LEMMA NoDownload ==
  ASSUME IInv, NEW c \in Procs, proc[c].at \notin {"fallback", "chmod", "rename", "drop"}
  PROVE  faults.kills = 0 => new[c] = NoFile
BY DEF IInv, NoLitter

\* The answer to a check for a version leaves the process as it should be.
LEMMA AnswerStep ==
  ASSUME IInv, NEW c \in Procs, NEW v \in Versions \cup {NoVersion}, RestTyped,
         proc[c].at \in {"cache", "fetch"}, Answer(c, v), file' = file, new' = new
  PROVE  IInv'
<1> DEFINE me == [proc[c] EXCEPT !.found = v]
<1>1. /\ proc[c] \in Process /\ me \in Process
      /\ me.exe = proc[c].exe /\ me.self = proc[c].self /\ me.job = proc[c].job
  <2>1. proc[c] \in Process
    BY DEF IInv, TypeOK
  <2> QED  BY <2>1 DEF Process
<1>2. faults'.kills = 0 => new[c] = NoFile
  BY NoDownload DEF RestTyped
<1>3. Fits(Exited, c) /\ Fits(Open(me), c)
  BY <1>2, LeavesFit DEF RestTyped
<1>4. Fits([me EXCEPT !.at = "update"], c)
  <2>1. [me EXCEPT !.at = "update"] \in Process
    BY <1>1 DEF Process, Stages
  <2> QED
    BY <1>1, <1>2, <2>1 DEF Fits, IInv, InBound, Process
<1>5. PICK next : proc' = [proc EXCEPT ![c] = next] /\ Fits(next, c)
  BY <1>3, <1>4 DEF Answer
<1> QED
  BY <1>5, ProcessStep

\* A process starts from a path within the bound that holds a whole binary.
LEMMA RunningFits ==
  ASSUME IInv, NEW c \in Procs, NEW path \in Paths, Runnable(file[path]),
         NEW job \in {"monit", "update", "pin"}, NEW v \in Versions \cup {NoVersion},
         faults'.kills = 0 => faults.kills = 0,
         faults'.kills = 0 => new[c] = NoFile
  PROVE  Fits(Running(path, job, v), c)
<1>1. file[path].version \in Versions
  BY DEF IInv, Wholes, Runnable
<1>2. path <= MaxDeleted
  BY Constants DEF IInv, InBound, Runnable, Paths
<1>3. Running(path, job, v) \in Process
  BY <1>1, Constants DEF Running, Exited, Process, Stages
<1>4. /\ Running(path, job, v).exe = path /\ Running(path, job, v).self = path
      /\ Running(path, job, v).at \in {"cache", "fetch", "update"}
  BY DEF Running, Exited
<1> QED
  BY <1>2, <1>3, <1>4 DEF Fits

LEMMA LaunchStep == ASSUME IInv, NEW c \in Procs, Launch(c) PROVE IInv'
<1>1. RestTyped
  BY RestUnchanged DEF Launch
<1>2. faults'.kills = 0 => new[c] = NoFile
  BY <1>1, NoDownload DEF Launch, RestTyped
<1>3. PICK job \in {"monit", "update", "pin"}, v \in Versions \cup {NoVersion} :
        proc' = [proc EXCEPT ![c] = Running(0, job, v)]
  BY Constants DEF Launch
<1>4. Fits(Running(0, job, v), c)
  BY <1>1, <1>2, RunningFits, Constants DEF Launch, RestTyped
<1> QED
  BY <1>1, <1>3, <1>4, ProcessStep DEF Launch

LEMMA ReadCacheStep == ASSUME IInv, NEW c \in Procs, ReadCache(c) PROVE IInv'
<1>1. RestTyped
  BY RestUnchanged DEF ReadCache
<1>2. CASE CacheFresh
  <2>1. cache.version \in Versions \cup {NoVersion}
    BY DEF IInv, TypeOK
  <2>2. Answer(c, cache.version) /\ proc[c].at = "cache" /\ file' = file /\ new' = new
    BY <1>2 DEF ReadCache
  <2> QED
    BY <1>1, <2>1, <2>2, AnswerStep
<1>3. CASE ~CacheFresh
  <2>1. proc' = [proc EXCEPT ![c] = [proc[c] EXCEPT !.at = "fetch"]]
    BY <1>3 DEF ReadCache, Goes, IInv, TypeOK
  <2>2. Fits([proc[c] EXCEPT !.at = "fetch"], c)
    <3>1. proc[c] \in Process
      BY DEF IInv, TypeOK
    <3>2. [proc[c] EXCEPT !.at = "fetch"] \in Process
      BY <3>1 DEF Process, Stages
    <3> QED
      BY <1>1, <3>1, <3>2, NoDownload DEF Fits, IInv, InBound, Process, ReadCache, RestTyped
  <2> QED
    BY <1>1, <2>1, <2>2, ProcessStep DEF ReadCache
<1> QED
  BY <1>2, <1>3

LEMMA FetchVersionStep == ASSUME IInv, NEW c \in Procs, FetchVersion(c) PROVE IInv'
<1>1. PICK v \in Versions \cup {NoVersion} : Answer(c, v) /\ (CacheBecomes(v) \/ UNCHANGED cache)
  BY DEF FetchVersion, IInv, TypeOK
<1>2. cache' \in [time : 0 .. MaxTime, version : Versions \cup {NoVersion}]
  BY <1>1, CacheTyped DEF IInv, TypeOK
<1>3. RestTyped
  BY <1>2 DEF RestTyped, FetchVersion, IInv, TypeOK
<1> QED
  BY <1>1, <1>3, AnswerStep DEF FetchVersion

LEMMA DashboardStep ==
  ASSUME IInv, NEW c \in Procs, CheckNow(c) \/ Confirm(c) \/ Quit(c) \/ Killed(c)
  PROVE  IInv'
<1> DEFINE here == proc[c]
<1>1. here \in Process /\ here.exe <= MaxDeleted /\ here.self <= MaxDeleted
  BY DEF IInv, TypeOK, InBound
<1>2. RestTyped
  <2>1. CASE CheckNow(c) \/ Confirm(c) \/ Quit(c)
    BY <2>1, RestUnchanged DEF CheckNow, Confirm, Quit
  <2>2. CASE Killed(c)
    <3>1. faults \in Faults /\ Counts("kills") /\ UNCHANGED << cache, github, clock >>
      BY <2>2 DEF Killed, IInv, TypeOK
    <3> QED
      BY <3>1, CountsTyped DEF RestTyped, IInv, TypeOK
  <2> QED
    BY <2>1, <2>2
<1>3. Quit(c) \/ Killed(c) => Fits(Exited, c)
  <2>1. CASE Quit(c)
    BY <1>2, <2>1, NoDownload, LeavesFit DEF Quit, RestTyped
  <2>2. CASE Killed(c)
    <3>1. faults'.kills # 0
      BY <2>2, CountsTyped DEF Killed, IInv, TypeOK
    <3> QED
      BY <3>1, <1>2, LeavesFit DEF RestTyped
  <2> QED
    BY <2>1, <2>2
<1>4. CASE Quit(c) \/ Killed(c)
  BY <1>2, <1>3, <1>4, ProcessStep DEF Quit, Killed
<1>5. CASE CheckNow(c)
  <2> DEFINE me == [here EXCEPT !.at = "fetch", !.found = NoVersion]
  <2>1. me \in Process /\ me.exe = here.exe /\ me.self = here.self /\ me.at = "fetch"
    BY <1>1 DEF Process, Stages
  <2>2. Fits(me, c)
    BY <1>1, <1>2, <1>5, <2>1, NoDownload DEF Fits, CheckNow, RestTyped
  <2>3. proc' = [proc EXCEPT ![c] = me]
    BY <1>5 DEF CheckNow, IInv, TypeOK
  <2> QED
    BY <1>2, <1>5, <2>2, <2>3, ProcessStep DEF CheckNow
<1>6. CASE Confirm(c)
  <2> DEFINE me == [here EXCEPT !.at = "update", !.self = SelfPath(c)]
  <2>1. SelfPath(c) \in Paths /\ SelfPath(c) <= MaxDeleted
    BY <1>1, <1>6, Constants DEF Confirm, SelfPath, Paths, Process
  <2>2. me \in Process /\ me.exe = here.exe /\ me.self = SelfPath(c) /\ me.at = "update"
    BY <1>1, <2>1 DEF Process, Stages
  <2>3. Fits(me, c)
    BY <1>1, <1>2, <1>6, <2>1, <2>2, NoDownload DEF Fits, Confirm, RestTyped
  <2>4. proc' = [proc EXCEPT ![c] = me]
    BY <1>6 DEF Confirm, IInv, TypeOK
  <2> QED
    BY <1>2, <1>6, <2>3, <2>4, ProcessStep DEF Confirm
<1> QED
  BY <1>4, <1>5, <1>6

LEMMA NoteUpdateStep == ASSUME IInv, NEW c \in Procs, NoteUpdate(c) PROVE IInv'
<1>1. proc[c] \in Process /\ proc[c].exe <= MaxDeleted /\ proc[c].self <= MaxDeleted
  BY DEF IInv, TypeOK, InBound
<1>2. cache' \in [time : 0 .. MaxTime, version : Versions \cup {NoVersion}]
  BY <1>1, CacheTyped DEF NoteUpdate, Process
<1>3. RestTyped
  BY <1>2 DEF RestTyped, NoteUpdate, IInv, TypeOK
<1>4. faults'.kills = 0 => new[c] = NoFile
  BY <1>3, NoDownload DEF NoteUpdate, RestTyped
<1>5. [proc[c] EXCEPT !.at = "restart"] \in Process
  BY <1>1 DEF Process, Stages
<1>6. Fits([proc[c] EXCEPT !.at = "restart"], c)
  BY <1>1, <1>4, <1>5 DEF Fits, Process
<1>7. Fits(Exited, c)
  BY <1>3, <1>4, LeavesFit DEF RestTyped
<1>8. PICK me : proc' = [proc EXCEPT ![c] = me] /\ Fits(me, c)
  BY <1>6, <1>7 DEF NoteUpdate
<1> QED
  BY <1>3, <1>8, ProcessStep DEF NoteUpdate

LEMMA RestartStep == ASSUME IInv, NEW c \in Procs, Restart(c) PROVE IInv'
<1>1. RestTyped
  BY RestUnchanged DEF Restart
<1>2. faults'.kills = 0 => new[c] = NoFile
  BY <1>1, NoDownload DEF Restart, RestTyped
<1>3. SelfPath(c) \in Paths
  BY Constants DEF IInv, TypeOK, InBound, SelfPath, Paths, Process
<1>4. Fits(Exited, c)
  BY <1>1, <1>2, LeavesFit DEF RestTyped
<1>5. Runnable(file[SelfPath(c)]) => Fits(Running(SelfPath(c), "monit", NoVersion), c)
  BY <1>1, <1>2, <1>3, RunningFits DEF RestTyped
<1>6. PICK me : proc' = [proc EXCEPT ![c] = me] /\ Fits(me, c)
  BY <1>4, <1>5 DEF Restart
<1> QED
  BY <1>1, <1>6, ProcessStep DEF Restart

-----------------------------------------------------------------------------

\* A step of a process that is installing: it changes its own download, which is
\* there only until it is renamed or dropped, and goes on to `next`.
LEMMA InstallStep ==
  ASSUME IInv, NEW c \in Procs, NEW next \in Stages, NEW download \in File, RestTyped,
         proc' = [proc EXCEPT ![c].at = next], new' = [new EXCEPT ![c] = download],
         file' = file,
         download.whole => download.version \in Versions,
         next \in {"chmod", "rename"} => download.whole,
         next = "rename" => download.mode # "fresh",
         faults'.kills = 0 /\ download # NoFile => next \in {"fallback", "chmod", "rename", "drop"}
  PROVE  IInv'
<1> DEFINE me == [proc[c] EXCEPT !.at = next]
<1>1. proc \in [Procs -> Process] /\ proc[c] \in Process /\ new \in [Procs -> File]
  BY DEF IInv, TypeOK
<1>2. /\ me \in Process /\ me.at = next /\ me.exe = proc[c].exe /\ me.self = proc[c].self
      /\ proc' = [proc EXCEPT ![c] = me]
  BY <1>1 DEF Process
<1>3. /\ proc'[c] = me /\ new'[c] = download
      /\ \A d \in Procs : d # c => proc'[d] = proc[d] /\ new'[d] = new[d]
      /\ proc' \in [Procs -> Process] /\ new' \in [Procs -> File]
  BY <1>1, <1>2
<1> HIDE DEF me
<1>4. TypeOK'
  BY <1>3 DEF IInv, TypeOK, RestTyped
<1>5. Wholes'
  BY <1>3 DEF IInv, Wholes
<1>6. InBound'
  BY <1>2, <1>3 DEF IInv, InBound
<1>7. Checked'
  BY <1>2, <1>3 DEF IInv, Checked
<1>8. InstalledWhole'
  BY DEF IInv, InstalledWhole, Runnable
<1>9. NoLitter'
  <2> SUFFICES ASSUME faults'.kills = 0, NEW d \in Procs, new'[d] # NoFile
               PROVE  proc'[d].at \in {"fallback", "chmod", "rename", "drop"}
    BY DEF NoLitter
  <2>1. CASE d = c
    BY <1>2, <1>3, <2>1
  <2>2. CASE d # c
    BY <1>3, <2>2 DEF IInv, NoLitter, RestTyped
  <2> QED
    BY <2>1, <2>2
<1> QED
  BY <1>4, <1>5, <1>6, <1>7, <1>8, <1>9 DEF IInv

\* curl leaves a whole asset, a piece of one, or what was there.
LEMMA CurlStep ==
  ASSUME IInv, NEW c \in Procs, NEW v, RestTyped, file' = file,
         NEW from \in {"update", "fallback"}, NEW other \in {"fallback", "drop"},
         Curl(c, from, v, other)
  PROVE  IInv'
<1>1. /\ proc \in [Procs -> Process] /\ new \in [Procs -> File] /\ new[c] \in File
      /\ github.released \subseteq Versions
  BY DEF IInv, TypeOK
<1>2. CASE new' = [new EXCEPT ![c] = Asset(v)] /\ Goes(c, from, "chmod") /\ v \in github.released
  <2>1. v \in Versions
    BY <1>1, <1>2
  <2>2. Asset(v) \in File /\ Asset(v).whole /\ Asset(v).version \in Versions
    BY <2>1 DEF Asset, File
  <2> QED
    BY <1>2, <2>2, InstallStep DEF Goes, Stages
<1>3. CASE new' = [new EXCEPT ![c] = Piece(v)] /\ Goes(c, from, other) /\ v \in github.released
  <2>1. v \in Versions
    BY <1>1, <1>3
  <2>2. Piece(v) \in File /\ ~Piece(v).whole
    BY <2>1 DEF Piece, File
  <2> QED
    BY <1>3, <2>2, InstallStep DEF Goes, Stages
<1>4. CASE Goes(c, from, other) /\ UNCHANGED new
  <2>1. new' = [new EXCEPT ![c] = new[c]]
    BY <1>1, <1>4
  <2>2. new[c].whole => new[c].version \in Versions
    BY DEF IInv, Wholes
  <2> QED
    BY <1>1, <1>4, <2>1, <2>2, InstallStep DEF Goes, Stages
<1> QED
  BY <1>2, <1>3, <1>4 DEF Curl

LEMMA DownloadStep == ASSUME IInv, NEW c \in Procs, Download(c) PROVE IInv'
BY RestUnchanged, CurlStep DEF Download

\* A call of chmod, and what it may come to.
LEMMA ChmodDone ==
  ASSUME IInv, NEW c \in Procs, Chmod(c)
  PROVE  /\ RestTyped
         /\ \E mode \in {"executable", "refused"} : new' = [new EXCEPT ![c].mode = mode]
<1>1. /\ faults \in Faults /\ cache \in [time : 0 .. MaxTime, version : Versions \cup {NoVersion}]
      /\ github \in [main : Versions, released : SUBSET Versions, latest : Versions]
      /\ clock \in 0 .. MaxTime
  BY DEF IInv, TypeOK
<1>2. UNCHANGED << cache, github, clock >> /\ (UNCHANGED faults \/ Counts("refusals"))
  BY DEF Chmod
<1>3. faults' \in Faults /\ (faults'.kills = 0 => faults.kills = 0)
  BY <1>1, <1>2, CountsTyped
<1> QED
  BY <1>1, <1>2, <1>3 DEF RestTyped, Chmod

LEMMA ChmodStep == ASSUME IInv, NEW c \in Procs, Chmod(c) PROVE IInv'
<1>1. new \in [Procs -> File] /\ new[c] \in File
  BY DEF IInv, TypeOK
<1>2. PICK mode \in {"executable", "refused"} : new' = [new EXCEPT ![c].mode = mode]
  BY ChmodDone
<1> DEFINE download == [new[c] EXCEPT !.mode = mode]
<1>3. /\ download \in File /\ download.whole = new[c].whole /\ download.mode # "fresh"
      /\ download.version = new[c].version
      /\ new' = [new EXCEPT ![c] = download]
  BY <1>1, <1>2 DEF File
<1>4. new[c].whole /\ new[c].version \in Versions
  BY DEF IInv, Checked, Wholes, Chmod, Goes
<1> QED
  BY <1>3, <1>4, ChmodDone, InstallStep DEF Chmod, Goes, Stages

LEMMA DropStep == ASSUME IInv, NEW c \in Procs, Drop(c) PROVE IInv'
<1> DEFINE me == IF proc[c].job = "monit" THEN Open(proc[c]) ELSE Exited
<1>1. /\ new \in [Procs -> File] /\ proc \in [Procs -> Process] /\ proc[c] \in Process
      /\ proc[c].exe <= MaxDeleted
  BY DEF IInv, TypeOK, InBound
<1>2. NoFile \in File /\ ~NoFile.whole
  BY DEF NoFile, File
<1>3. me \in Process /\ me.at \in {"dashboard", "exited"} /\ me.exe <= MaxDeleted /\ me.self <= MaxDeleted
  <2> DEFINE opened == Open(proc[c])
  <2>1. /\ opened \in Process /\ opened.at = "dashboard"
        /\ opened.exe = proc[c].exe /\ opened.self = 0
    BY <1>1, Constants DEF Open, Process, Stages
  <2>2. /\ Exited \in Process /\ Exited.at = "exited" /\ Exited.exe = 0 /\ Exited.self = 0
    BY Constants DEF Exited, Process, Stages
  <2> HIDE DEF opened
  <2>3. me = opened \/ me = Exited
    BY DEF opened
  <2> HIDE DEF me
  <2> QED
    BY <1>1, <2>1, <2>2, <2>3, Constants
<1>4. proc' = [proc EXCEPT ![c] = me] /\ new' = [new EXCEPT ![c] = NoFile] /\ file' = file
  BY DEF Drop
<1>5. /\ proc'[c] = me /\ new'[c] = NoFile
      /\ \A d \in Procs : d # c => proc'[d] = proc[d] /\ new'[d] = new[d]
      /\ proc' \in [Procs -> Process] /\ new' \in [Procs -> File]
  BY <1>1, <1>2, <1>3, <1>4
<1> HIDE DEF me
<1>6. TypeOK' /\ NoLitter'
  <2>1. RestTyped
    BY RestUnchanged DEF Drop
  <2>2. TypeOK'
    BY <1>4, <1>5, <2>1 DEF IInv, TypeOK, RestTyped
  <2>3. NoLitter'
    BY <1>5, <2>1 DEF IInv, NoLitter, RestTyped
  <2> QED
    BY <2>2, <2>3
<1>7. Wholes' /\ InBound' /\ Checked' /\ InstalledWhole'
  BY <1>2, <1>3, <1>4, <1>5 DEF IInv, Wholes, InBound, Checked, InstalledWhole, Runnable
<1> QED
  BY <1>6, <1>7 DEF IInv

\* What takes the binary's place was checked, and chmod was called for it.
LEMMA TakesPlaceStep ==
  ASSUME IInv, NEW c \in Procs, TakesPlace(c), UNCHANGED << cache, github, clock, faults >>
  PROVE  IInv'
<1> DEFINE self == proc[c].self
<1>1. /\ new \in [Procs -> File] /\ new[c] \in File /\ proc \in [Procs -> Process]
      /\ file \in [Paths -> File] /\ self \in Paths /\ self <= MaxDeleted
  BY DEF IInv, TypeOK, InBound, Process
<1>2. new[c].whole /\ new[c].mode # "fresh" /\ new[c].version \in Versions
  BY DEF IInv, Checked, Wholes, TakesPlace
<1>3. NoFile \in File /\ ~NoFile.whole
  BY DEF NoFile, File
<1>4. /\ file' = [file EXCEPT ![self] = new[c]]
      /\ new' = [new EXCEPT ![c] = NoFile]
  BY DEF TakesPlace
<1>5. /\ file' \in [Paths -> File] /\ new' \in [Procs -> File] /\ new'[c] = NoFile
      /\ \A d \in Procs : d # c => new'[d] = new[d]
      /\ file'[self] = new[c] /\ \A p \in Paths : p # self => file'[p] = file[p]
  BY <1>1, <1>3, <1>4
<1>6. \A d \in Procs : /\ proc'[d] \in Process
                       /\ proc'[d].exe = proc[d].exe /\ proc'[d].self = proc[d].self
                       /\ proc'[d].at = IF d = c THEN "note" ELSE proc[d].at
  <2> TAKE d \in Procs
  <2>1. proc[d] \in Process
    BY <1>1
  <2> DEFINE mark == proc[d].replaced \/ (proc[d].at # "exited" /\ proc[d].exe = proc[c].self)
             next == IF d = c THEN "note" ELSE proc[d].at
  <2>2. proc'[d] = [proc[d] EXCEPT !.replaced = mark, !.at = next]
    BY DEF TakesPlace
  <2>3. mark \in BOOLEAN /\ next \in Stages
    BY <2>1 DEF Process, Stages
  <2> HIDE DEF mark
  <2> QED
    BY <2>1, <2>2, <2>3 DEF Process
<1>7. TypeOK'
  <2>1. proc' \in [Procs -> Process]
    BY <1>6 DEF TakesPlace
  <2> QED
    BY <1>5, <2>1 DEF IInv, TypeOK
<1>8. Wholes'
  BY <1>2, <1>3, <1>5 DEF IInv, Wholes
<1>9. InBound'
  BY <1>1, <1>5, <1>6, Constants DEF IInv, InBound
<1>10. Checked' /\ NoLitter'
  BY <1>5, <1>6 DEF IInv, Checked, NoLitter
<1>11. InstalledWhole'
  BY <1>2, <1>5, Constants DEF IInv, InstalledWhole, Runnable
<1> QED
  BY <1>7, <1>8, <1>9, <1>10, <1>11 DEF IInv

LEMMA RenameStep == ASSUME IInv, NEW c \in Procs, Rename(c) PROVE IInv'
<1>1. CASE TakesPlace(c)
  BY <1>1, TakesPlaceStep DEF Rename
<1>2. CASE Goes(c, "rename", "drop") /\ UNCHANGED << file, new >>
  <2>1. new \in [Procs -> File] /\ new[c] \in File /\ new' = [new EXCEPT ![c] = new[c]]
    BY <1>2 DEF IInv, TypeOK
  <2>2. new[c].whole => new[c].version \in Versions
    BY DEF IInv, Wholes
  <2> QED
    BY <1>2, <2>1, <2>2, RestUnchanged, InstallStep DEF Rename, Goes, Stages
<1> QED
  BY <1>1, <1>2 DEF Rename

LEMMA WorldSteps ==
  ASSUME IInv, (\E v \in Versions : Commit(v)) \/ Release \/ Clock
  PROVE  IInv'
<1>1. RestTyped
  <2>1. /\ cache \in [time : 0 .. MaxTime, version : Versions \cup {NoVersion}]
        /\ github \in [main : Versions, released : SUBSET Versions, latest : Versions]
        /\ clock \in 0 .. MaxTime /\ faults \in Faults
    BY DEF IInv, TypeOK
  <2>2. CASE \E v \in Versions : Commit(v)
    BY <2>1, <2>2 DEF Commit, RestTyped
  <2>3. CASE Release
    BY <2>1, <2>3 DEF Release, RestTyped
  <2>4. CASE Clock
    BY <2>1, <2>4, Constants DEF Clock, RestTyped
  <2> QED  BY <2>2, <2>3, <2>4
<1>2. UNCHANGED << file, new, proc >>
  BY DEF Commit, Release, Clock
<1> QED
  BY <1>1, <1>2, WorldStep

LEMMA NextIInv == IInv /\ [Next]_vars => IInv'
<1> SUFFICES ASSUME IInv, [Next]_vars PROVE IInv'
  OBVIOUS
<1>1. ASSUME NEW c \in Procs, Update(c) PROVE IInv'
  BY <1>1, DashboardStep, DownloadStep, ChmodStep, RenameStep, NoteUpdateStep, DropStep,
     RestartStep DEF Update
<1>2. ASSUME NEW c \in Procs, Launch(c) \/ ReadCache(c) \/ FetchVersion(c) PROVE IInv'
  BY <1>2, LaunchStep, ReadCacheStep, FetchVersionStep
<1>3. ASSUME NEW c \in Procs, CheckNow(c) \/ Quit(c) \/ Killed(c) PROVE IInv'
  BY <1>3, DashboardStep
<1>4. CASE UNCHANGED vars
  BY <1>4, WorldStep, RestUnchanged DEF vars
<1> QED
  BY <1>1, <1>2, <1>3, <1>4, WorldSteps DEF Next

LEMMA Invariance == Spec => []IInv
BY InitIInv, NextIInv, PTL DEF Spec

\* Files, cache and processes keep their shape, whoever updates, fails or is killed.
THEOREM UpdaterTypes == Spec => []TypeOK
<1>1. IInv => TypeOK
  BY DEF IInv
<1> QED
  BY <1>1, Invariance, PTL

\* What has the name of fdash is at every moment a whole binary that chmod was called
\* for: a download is renamed only once it is complete.  (updater.c does not look at
\* what chmod returned, so it may be one that cannot be executed.)
THEOREM InstalledAlwaysWhole == Spec => []InstalledWhole
<1>1. IInv => InstalledWhole
  BY DEF IInv
<1> QED
  BY <1>1, Invariance, PTL

\* An update that was not killed leaves no download behind.
THEOREM NothingLeftBehind == Spec => []NoLitter
<1>1. IInv => NoLitter
  BY DEF IInv
<1> QED
  BY <1>1, Invariance, PTL

-----------------------------------------------------------------------------
(* Releases only go up, and so does the binary unless a version is asked for. *)

LEMMA PrecedesIsOrder ==
  ASSUME NEW u \in Seq(Nat), NEW v \in Seq(Nat), NEW w \in Seq(Nat)
  PROVE  /\ ~Precedes(u, u)
         /\ Precedes(u, v) => ~Precedes(v, u)
         /\ Precedes(u, v) /\ Precedes(v, w) => Precedes(u, w)
<1>1. \A i \in 1 .. 3 : Part(u, i) \in Nat /\ Part(v, i) \in Nat /\ Part(w, i) \in Nat
  BY DEF Part
<1>2. /\ Part(u, 1) \in Nat /\ Part(v, 1) \in Nat /\ Part(w, 1) \in Nat
      /\ Part(u, 2) \in Nat /\ Part(v, 2) \in Nat /\ Part(w, 2) \in Nat
      /\ Part(u, 3) \in Nat /\ Part(v, 3) \in Nat /\ Part(w, 3) \in Nat
  BY <1>1
<1>3. /\ ~IsNewer(u, u)
      /\ IsNewer(v, u) => ~IsNewer(u, v)
      /\ IsNewer(v, u) /\ IsNewer(w, v) => IsNewer(w, u)
  BY <1>2 DEF IsNewer
<1> QED
  BY <1>3, IsNewerIsSemantic

\* The latest release is the newest, main is no older, and every file and process
\* is of a released version.
Released ==
  /\ {First, github.latest} \subseteq github.released
  /\ \A v \in github.released : ~Precedes(github.latest, v) /\ ~Precedes(github.main, v)
  /\ \A p \in Paths : file[p].whole => file[p].version \in github.released
  /\ \A c \in Procs : new[c].whole => new[c].version \in github.released
  /\ \A c \in Procs : proc[c].own \in github.released

\* An update nobody asked a version for is to a newer one.
Upwards == \A c \in Procs : proc[c].job # "pin" =>
  /\ proc[c].at = "update" => Precedes(proc[c].own, proc[c].found)
  /\ proc[c].at \in {"chmod", "rename"} => ~Precedes(new[c].version, proc[c].own)

Order == Released /\ Upwards

LEMMA VersionsAreSequences == \A v \in Versions \cup {NoVersion} : v \in Seq(Nat)
<1>1. NoVersion \in Seq(Nat)
  BY DEF NoVersion
<1>2. Versions \subseteq Seq(Nat)
  BY UpdaterAssumption
<1> QED
  BY <1>1, <1>2

LEMMA InitOrder == Init => Order
<1> SUFFICES ASSUME Init PROVE Order
  OBVIOUS
<1>1. First \in Seq(Nat)
  BY Constants, VersionsAreSequences
<1>2. ~Precedes(First, First)
  BY <1>1, PrecedesIsOrder
<1>3. Released
  BY <1>2 DEF Init, Released, NoFile, Exited
<1>4. Upwards
  BY DEF Init, Upwards, Exited
<1> QED
  BY <1>3, <1>4 DEF Order

\* A step of one process that is not about to install anything.
LEMMA ProcessOrder ==
  ASSUME IInv, Order, NEW c \in Procs, NEW me,
         proc' = [proc EXCEPT ![c] = me], UNCHANGED << file, new, github >>,
         me.own \in github.released, me.at \notin {"chmod", "rename"},
         me.at = "update" /\ me.job # "pin" => Precedes(me.own, me.found)
  PROVE  Order'
<1>1. proc'[c] = me /\ \A d \in Procs : d # c => proc'[d] = proc[d]
  BY DEF IInv, TypeOK
<1>2. Released'
  BY <1>1 DEF Order, Released
<1>3. Upwards'
  BY <1>1 DEF Order, Upwards
<1> QED
  BY <1>2, <1>3 DEF Order

LEMMA ExitedOrder ==
  ASSUME IInv, Order, NEW c \in Procs, proc' = [proc EXCEPT ![c] = Exited],
         UNCHANGED << file, new, github >>
  PROVE  Order'
<1>1. Exited.own \in github.released /\ Exited.at = "exited"
  BY DEF Order, Released, Exited
<1> QED
  BY <1>1, ProcessOrder

\* A process that was only moved on, and not to the update, keeps its version.
LEMMA MovedOrder ==
  ASSUME IInv, Order, NEW c \in Procs, NEW me, me.own = proc[c].own,
         me.at \notin {"update", "chmod", "rename"},
         proc' = [proc EXCEPT ![c] = me], UNCHANGED << file, new, github >>
  PROVE  Order'
<1>1. me.own \in github.released
  BY DEF Order, Released
<1> QED
  BY <1>1, ProcessOrder

LEMMA RunningOrder ==
  ASSUME IInv, Order, NEW c \in Procs, NEW path \in Paths, Runnable(file[path]),
         NEW job \in {"monit", "update", "pin"}, NEW v,
         proc' = [proc EXCEPT ![c] = Running(path, job, v)],
         UNCHANGED << file, new, github >>
  PROVE  Order'
<1> DEFINE me == Running(path, job, v)
<1>1. /\ me.own = file[path].version /\ me.job = job
      /\ me.at \in {"cache", "fetch", "update"} /\ (me.at = "update" => job = "pin")
  BY DEF Running, Exited
<1>2. me.own \in github.released
  BY <1>1 DEF Order, Released, Runnable
<1> QED
  BY <1>1, <1>2, ProcessOrder

LEMMA AnswerOrder ==
  ASSUME IInv, Order, NEW c \in Procs, NEW v \in Versions \cup {NoVersion}, Answer(c, v),
         UNCHANGED << file, new, github >>
  PROVE  Order'
<1> DEFINE me == [proc[c] EXCEPT !.found = v]
<1>1. /\ me \in Process /\ proc[c] \in Process /\ me.own = proc[c].own /\ me.found = v
      /\ me.job = proc[c].job
  BY DEF IInv, TypeOK, Process
<1>2. CASE proc' = [proc EXCEPT ![c] = Open(me)]
  <2>1. Open(me).own = proc[c].own /\ Open(me).at = "dashboard"
    BY <1>1 DEF Open, Process
  <2> QED
    BY <1>2, <2>1, MovedOrder
<1>3. CASE proc' = [proc EXCEPT ![c] = [me EXCEPT !.at = "update"]] /\ IsNewer(v, me.own)
  <2> DEFINE next == [me EXCEPT !.at = "update"]
  <2>1. next.own = proc[c].own /\ next.found = v /\ next.at = "update"
    BY <1>1 DEF Process
  <2>2. Precedes(proc[c].own, v)
    BY <1>1, <1>3, VersionsAreSequences, IsNewerIsSemantic DEF Process
  <2>3. next.own \in github.released
    BY <2>1 DEF Order, Released
  <2> HIDE DEF next
  <2>4. proc' = [proc EXCEPT ![c] = next]
    BY <1>3 DEF next
  <2> QED
    BY <2>1, <2>2, <2>3, <2>4, ProcessOrder
<1>4. CASE proc' = [proc EXCEPT ![c] = Exited]
  BY <1>4, ExitedOrder
<1> QED
  BY <1>2, <1>3, <1>4 DEF Answer

LEMMA ConfirmOrder == ASSUME IInv, Order, NEW c \in Procs, Confirm(c) PROVE Order'
<1> DEFINE me == [proc[c] EXCEPT !.at = "update", !.self = SelfPath(c)]
<1>1. proc \in [Procs -> Process] /\ proc[c] \in Process
  BY DEF IInv, TypeOK
<1>2. /\ me.own = proc[c].own /\ me.found = proc[c].found /\ me.at = "update"
      /\ proc' = [proc EXCEPT ![c] = me]
  BY <1>1 DEF Process, Confirm
<1>3. Precedes(proc[c].own, proc[c].found)
  BY <1>1, VersionsAreSequences, IsNewerIsSemantic DEF Confirm, HasUpdate, Process
<1>4. proc[c].own \in github.released
  BY DEF Order, Released
<1> HIDE DEF me
<1> QED
  BY <1>2, <1>3, <1>4, ProcessOrder DEF Confirm

\* A process that is installing goes on to `next` with `download`.
LEMMA InstallOrder ==
  ASSUME IInv, Order, NEW c \in Procs, NEW next, NEW download, next # "update",
         proc' = [proc EXCEPT ![c].at = next], new' = [new EXCEPT ![c] = download],
         UNCHANGED << file, github >>,
         download.whole => download.version \in github.released,
         next \in {"chmod", "rename"} /\ proc[c].job # "pin" =>
           ~Precedes(download.version, proc[c].own)
  PROVE  Order'
<1>1. proc \in [Procs -> Process] /\ proc[c] \in Process /\ new \in [Procs -> File]
  BY DEF IInv, TypeOK
<1>2. /\ proc'[c].at = next /\ proc'[c].own = proc[c].own /\ proc'[c].job = proc[c].job
      /\ new'[c] = download
      /\ \A d \in Procs : d # c => proc'[d] = proc[d] /\ new'[d] = new[d]
  BY <1>1 DEF Process
<1>3. Released'
  BY <1>2 DEF Order, Released
<1>4. Upwards'
  BY <1>2 DEF Order, Upwards
<1> QED
  BY <1>3, <1>4 DEF Order

LEMMA DownloadOrder == ASSUME IInv, Order, NEW c \in Procs, Download(c) PROVE Order'
<1>1. /\ proc[c] \in Process /\ new \in [Procs -> File] /\ github.released \subseteq Versions
      /\ github.latest \in github.released /\ proc[c].own \in github.released
  BY DEF IInv, TypeOK, Order, Released
<1>2. \A v, w \in github.released : Precedes(v, w) => ~Precedes(w, v)
  BY <1>1, PrecedesIsOrder, VersionsAreSequences
<1>3. ASSUME NEW from, NEW v, NEW other \in {"fallback", "drop"}, Curl(c, from, v, other),
             v \in github.released => proc[c].job = "pin" \/ ~Precedes(v, proc[c].own)
      PROVE  Order'
  <2>1. UNCHANGED << file, github >>
    BY DEF Download
  <2>2. CASE new' = [new EXCEPT ![c] = Asset(v)] /\ Goes(c, from, "chmod") /\ v \in github.released
    BY <1>3, <2>1, <2>2, InstallOrder DEF Goes, Asset
  <2>3. CASE new' = [new EXCEPT ![c] = Piece(v)] /\ Goes(c, from, other) /\ v \in github.released
    BY <1>3, <2>1, <2>3, InstallOrder DEF Goes, Piece
  <2>4. CASE Goes(c, from, other) /\ UNCHANGED new
    <3>1. new' = [new EXCEPT ![c] = new[c]]
      BY <1>1, <2>4
    <3>2. new[c].whole => new[c].version \in github.released
      BY DEF Order, Released
    <3> QED
      BY <1>3, <2>1, <2>4, <3>1, <3>2, InstallOrder DEF Goes
  <2> QED
    BY <1>3, <2>2, <2>3, <2>4 DEF Curl
<1>4. CASE Curl(c, "update", proc[c].found, "fallback")
  <2>1. proc[c].at = "update"
    BY <1>4 DEF Curl, Goes
  <2>2. proc[c].found \in github.released =>
          proc[c].job = "pin" \/ ~Precedes(proc[c].found, proc[c].own)
    BY <1>1, <1>2, <2>1 DEF Order, Upwards
  <2> QED
    BY <1>3, <1>4, <2>2
<1>5. CASE Curl(c, "fallback", github.latest, "drop")
  <2>1. ~Precedes(github.latest, proc[c].own)
    BY <1>1 DEF Order, Released
  <2> QED
    BY <1>3, <1>5, <2>1
<1> QED
  BY <1>4, <1>5 DEF Download

LEMMA ChmodOrder == ASSUME IInv, Order, NEW c \in Procs, Chmod(c) PROVE Order'
<1>1. new \in [Procs -> File] /\ new[c] \in File
  BY DEF IInv, TypeOK
<1>2. PICK mode \in {"executable", "refused"} : new' = [new EXCEPT ![c].mode = mode]
  BY ChmodDone
<1> DEFINE download == [new[c] EXCEPT !.mode = mode]
<1>3. /\ download.whole = new[c].whole /\ download.version = new[c].version
      /\ new' = [new EXCEPT ![c] = download]
  BY <1>1, <1>2 DEF File
<1>4. /\ new[c].whole => new[c].version \in github.released
      /\ proc[c].job # "pin" => ~Precedes(new[c].version, proc[c].own)
  BY DEF Order, Released, Upwards, Chmod, Goes
<1> HIDE DEF download
<1> QED
  BY <1>3, <1>4, InstallOrder DEF Chmod, Goes

LEMMA DropOrder == ASSUME IInv, Order, NEW c \in Procs, Drop(c) PROVE Order'
<1> DEFINE me == IF proc[c].job = "monit" THEN Open(proc[c]) ELSE Exited
<1>1. new \in [Procs -> File] /\ proc \in [Procs -> Process] /\ proc[c] \in Process
  BY DEF IInv, TypeOK
<1>2. Open(proc[c]).own = proc[c].own /\ Open(proc[c]).at = "dashboard"
  BY <1>1 DEF Open, Process
<1>3. Exited.own = First /\ Exited.at = "exited"
  BY DEF Exited
<1>4. me.own \in github.released /\ me.at \in {"dashboard", "exited"}
  BY <1>2, <1>3 DEF Order, Released
<1>5. proc' = [proc EXCEPT ![c] = me]
  BY DEF Drop
<1> HIDE DEF me
<1>6. /\ proc'[c] = me /\ new'[c] = NoFile /\ file' = file /\ github' = github
      /\ \A d \in Procs : d # c => proc'[d] = proc[d] /\ new'[d] = new[d]
  BY <1>1, <1>5 DEF Drop
<1>7. Released'
  BY <1>4, <1>6 DEF Order, Released, NoFile
<1>8. Upwards'
  BY <1>4, <1>6 DEF Order, Upwards
<1> QED
  BY <1>7, <1>8 DEF Order

LEMMA RenameOrder == ASSUME IInv, Order, NEW c \in Procs, Rename(c) PROVE Order'
<1>1. /\ new \in [Procs -> File] /\ proc \in [Procs -> Process] /\ file \in [Paths -> File]
      /\ github' = github
  BY DEF IInv, TypeOK, Rename
<1>2. CASE TakesPlace(c)
  <2>1. new[c].version \in github.released
    BY <1>2 DEF IInv, Checked, Order, Released, TakesPlace
  <2>2. \A p \in Paths : file'[p] = new[c] \/ file'[p] = file[p]
    BY <1>1, <1>2 DEF TakesPlace
  <2>3. /\ new'[c] = NoFile
        /\ \A d \in Procs : d # c => new'[d] = new[d]
    BY <1>1, <1>2 DEF TakesPlace
  <2>4. \A d \in Procs : /\ proc'[d].own = proc[d].own /\ proc'[d].job = proc[d].job
                         /\ proc'[d].found = proc[d].found
                         /\ proc'[d].at = IF d = c THEN "note" ELSE proc[d].at
    BY <1>1, <1>2 DEF TakesPlace, Process
  <2>5. Released'
    BY <1>1, <2>1, <2>2, <2>3, <2>4 DEF Order, Released, NoFile
  <2>6. Upwards'
    BY <2>3, <2>4 DEF Order, Upwards
  <2> QED
    BY <2>5, <2>6 DEF Order
<1>3. CASE Goes(c, "rename", "drop") /\ UNCHANGED << file, new >>
  <2>1. new' = [new EXCEPT ![c] = new[c]]
    BY <1>1, <1>3
  <2>2. new[c].whole => new[c].version \in github.released
    BY DEF Order, Released
  <2> QED
    BY <1>1, <1>3, <2>1, <2>2, InstallOrder DEF Goes
<1> QED
  BY <1>2, <1>3 DEF Rename

LEMMA CommitOrder == ASSUME IInv, Order, NEW v \in Versions, Commit(v) PROVE Order'
<1>1. github.main \in Versions /\ github.released \subseteq Versions
  BY DEF IInv, TypeOK
<1>2. /\ github'.main = v /\ github'.released = github.released /\ github'.latest = github.latest
      /\ file' = file /\ new' = new /\ proc' = proc
  BY DEF Commit, IInv, TypeOK
<1>3. \A w \in github.released : ~Precedes(v, w)
  <2> SUFFICES ASSUME NEW w \in github.released, Precedes(v, w) PROVE FALSE
    OBVIOUS
  <2>1. Precedes(github.main, w)
    BY <1>1, VersionsAreSequences, PrecedesIsOrder DEF Commit
  <2> QED
    BY <2>1 DEF Order, Released
<1>4. Released'
  BY <1>2, <1>3 DEF Order, Released
<1> QED
  BY <1>2, <1>4 DEF Order, Upwards

LEMMA ReleaseOrder == ASSUME IInv, Order, Release PROVE Order'
<1>1. /\ github'.main = github.main /\ github'.released = github.released \cup {github.main}
      /\ github'.latest = github.main /\ file' = file /\ new' = new /\ proc' = proc
  BY DEF Release, IInv, TypeOK
<1>2. ~Precedes(github.main, github.main)
  BY VersionsAreSequences, PrecedesIsOrder DEF IInv, TypeOK
<1>3. Released'
  BY <1>1, <1>2 DEF Order, Released
<1> QED
  BY <1>1, <1>3 DEF Order, Upwards

\* The steps of a process that has no download yet, or no longer.
LEMMA PlainOrder ==
  ASSUME IInv, Order, NEW c \in Procs,
         \/ Launch(c) \/ ReadCache(c) \/ FetchVersion(c) \/ CheckNow(c) \/ Quit(c)
         \/ Killed(c) \/ NoteUpdate(c) \/ Restart(c)
  PROVE  Order'
<1>1. proc \in [Procs -> Process] /\ proc[c] \in Process
  BY DEF IInv, TypeOK
<1>2. CASE Launch(c)
  <2>1. PICK job \in {"monit", "update", "pin"}, v \in Pins \cup {NoVersion} :
          proc' = [proc EXCEPT ![c] = Running(0, job, v)]
    BY <1>2 DEF Launch
  <2> QED
    BY <1>2, <2>1, Constants, RunningOrder DEF Launch
<1>3. CASE ReadCache(c)
  <2>1. CASE CacheFresh
    <3>1. cache.version \in Versions \cup {NoVersion}
      BY DEF IInv, TypeOK
    <3>2. Answer(c, cache.version) /\ UNCHANGED << file, new, github >>
      BY <1>3, <2>1 DEF ReadCache
    <3> QED
      BY <3>1, <3>2, AnswerOrder
  <2>2. CASE ~CacheFresh
    <3>1. proc' = [proc EXCEPT ![c] = [proc[c] EXCEPT !.at = "fetch"]]
      BY <1>1, <1>3, <2>2 DEF ReadCache, Goes
    <3>2. /\ [proc[c] EXCEPT !.at = "fetch"].own = proc[c].own
          /\ [proc[c] EXCEPT !.at = "fetch"].at = "fetch"
      BY <1>1 DEF Process
    <3> QED
      BY <1>3, <3>1, <3>2, MovedOrder DEF ReadCache
  <2> QED
    BY <2>1, <2>2
<1>4. CASE FetchVersion(c)
  <2>1. PICK v \in Versions \cup {NoVersion} : Answer(c, v)
    BY <1>4 DEF FetchVersion, IInv, TypeOK
  <2> QED
    BY <1>4, <2>1, AnswerOrder DEF FetchVersion
<1>5. CASE CheckNow(c)
  <2> DEFINE me == [proc[c] EXCEPT !.at = "fetch", !.found = NoVersion]
  <2>1. me.own = proc[c].own /\ me.at = "fetch" /\ proc' = [proc EXCEPT ![c] = me]
    BY <1>1, <1>5 DEF Process, CheckNow
  <2> HIDE DEF me
  <2> QED
    BY <1>5, <2>1, MovedOrder DEF CheckNow
<1>6. CASE Quit(c) \/ Killed(c)
  BY <1>6, ExitedOrder DEF Quit, Killed
<1>7. CASE NoteUpdate(c)
  <2>1. /\ [proc[c] EXCEPT !.at = "restart"].own = proc[c].own
        /\ [proc[c] EXCEPT !.at = "restart"].at = "restart"
    BY <1>1 DEF Process
  <2>2. \/ proc' = [proc EXCEPT ![c] = [proc[c] EXCEPT !.at = "restart"]]
        \/ proc' = [proc EXCEPT ![c] = Exited]
    BY <1>1, <1>7 DEF NoteUpdate
  <2> QED
    BY <1>7, <2>1, <2>2, MovedOrder, ExitedOrder DEF NoteUpdate
<1>8. CASE Restart(c)
  <2>1. SelfPath(c) \in Paths
    BY Constants DEF IInv, TypeOK, InBound, SelfPath, Paths, Process
  <2>2. CASE Runnable(file[SelfPath(c)])
    BY <1>8, <2>1, <2>2, RunningOrder DEF Restart
  <2>3. CASE ~Runnable(file[SelfPath(c)])
    BY <1>8, <2>3, ExitedOrder DEF Restart
  <2> QED
    BY <2>2, <2>3
<1> QED
  BY <1>2, <1>3, <1>4, <1>5, <1>6, <1>7, <1>8

LEMMA NextOrder == IInv /\ Order /\ [Next]_vars => Order'
<1> SUFFICES ASSUME IInv, Order, [Next]_vars PROVE Order'
  OBVIOUS
<1>1. ASSUME NEW c \in Procs, Update(c) PROVE Order'
  BY <1>1, ConfirmOrder, DownloadOrder, ChmodOrder, RenameOrder, DropOrder, PlainOrder
     DEF Update
<1>2. ASSUME NEW c \in Procs,
             \/ Launch(c) \/ ReadCache(c) \/ FetchVersion(c) \/ CheckNow(c) \/ Quit(c)
             \/ Killed(c)
      PROVE  Order'
  BY <1>2, PlainOrder
<1>3. CASE Clock
  BY <1>3 DEF Clock, Order, Released, Upwards
<1>4. CASE UNCHANGED vars
  BY <1>4 DEF vars, Order, Released, Upwards
<1> QED
  BY <1>1, <1>2, <1>3, <1>4, CommitOrder, ReleaseOrder DEF Next

\* Nothing but a version the user asked for puts an older fdash in the place of a
\* newer one, whatever the cache says and whichever asset is there.
THEOREM NeverOlder == Spec => []NotOlder
<1>1. Order => NotOlder
  BY DEF Order, Upwards, NotOlder
<1> QED
  BY <1>1, InitOrder, NextOrder, Invariance, PTL DEF Spec
=============================================================================
