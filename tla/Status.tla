------------------------------- MODULE Status -------------------------------
(* The rows of a list of apps, as src/dbus_systemd.c puts them together from   *)
(* the names in the unit directory, what systemctl prints of them and, where   *)
(* that gives no memory, what the kernel says of the processes.                *)
EXTENDS Naturals, Sequences, FiniteSets, SequencesExt

CONSTANTS
  Pids,           \* processes
  Children,       \* the processes the main thread of each has started
  ThreadChildren, \* those its other threads have started
  Rss,            \* the resident memory of each
  MaxDepth,       \* the generations that are counted (8)
  PropertyOrder,  \* the order systemctl prints a unit's properties in
  Unset           \* [not set], or 2^64 - 1: there is no such figure

Figure == {"Id", "ActiveState", "MainPID", "NRestarts", "MemoryCurrent", "UnitFileState"}

ASSUME StatusAssumption ==
  /\ {Children, ThreadChildren} \subseteq [Pids -> SUBSET Pids]
  /\ 0 \notin Pids
  /\ Rss \in [Pids -> Nat \ {0}]
  /\ MaxDepth \in Nat
  /\ PropertyOrder \in Seq(Figure)
  /\ Unset \notin Nat

-----------------------------------------------------------------------------
(* Memory. *)

\* Mutant: a worker's own workers are not looked for.
TreeMemoryOfChildren(pid) == Rss[pid] + MapThenSumSet(LAMBDA c : Rss[c], Children[pid])

\* linux_sum_proc_tree: a process and what the children of its main thread, the
\* only ones /proc/<pid>/task/<pid>/children names, come to, so many deep.
TreeMemory(pid) ==
  LET sum[d \in 0 .. MaxDepth, p \in Pids] ==
        Rss[p] + IF d = MaxDepth THEN 0
                 ELSE MapThenSumSet(LAMBDA c : sum[d + 1, c], Children[p] \ {p})
  IN sum[0, pid]

Started(pid) == Children[pid] \cup ThreadChildren[pid]

\* The descendants of a process so many generations down.
Generation[k \in Nat, pid \in Pids] ==
  IF k = 0 THEN {pid} ELSE UNION {Started(p) : p \in Generation[k - 1, pid]}

Descendants(pid) == UNION {Generation[k, pid] : k \in 0 .. Cardinality(Pids)}

\* Some of them are too deep to be counted, or started by another thread.
Missed(pid) == \/ Generation[MaxDepth + 1, pid] # {}
               \/ \E p \in Descendants(pid) : ThreadChildren[p] # {}

\* All that a process and its descendants hold, however deep they are.
AllMemory(pid) == MapThenSumSet(LAMBDA p : Rss[p], Descendants(pid))

\* read_proc_stats: the cgroup's figure if it has one, else the tree's.  Nothing
\* is found of a process that is gone.
ReadProcStats(pid, cgroup, alive) ==
  CASE pid \notin alive -> 0
    [] cgroup > 0       -> cgroup
    [] OTHER            -> TreeMemory(pid)

-----------------------------------------------------------------------------
(* Rows. *)

\* A ProcessInfo before anything is known of the unit.
Blank(name, has_watch) ==
  [name |-> name, has_watch |-> has_watch, active_state |-> "inactive", pid |-> 0,
   restart_count |-> 0, memory_bytes |-> 0, enabled |-> FALSE]

\* Mutant: whatever is not disabled counts as enabled.
StoreEnabled(row, line) ==
  CASE line.key = "ActiveState"   -> [row EXCEPT !.active_state = line.value]
    [] line.key = "MainPID"       -> [row EXCEPT !.pid = line.value]
    [] line.key = "NRestarts"     -> [row EXCEPT !.restart_count = line.value]
    [] line.key = "MemoryCurrent" -> IF line.value = Unset THEN row
                                     ELSE [row EXCEPT !.memory_bytes = line.value]
    [] line.key = "UnitFileState" -> [row EXCEPT !.enabled = @ \/ line.value # "disabled"]
    [] OTHER                      -> row

\* What a line KEY=value says, in the row it is about.
Store(row, line) ==
  CASE line.key = "ActiveState"   -> [row EXCEPT !.active_state = line.value]
    [] line.key = "MainPID"       -> [row EXCEPT !.pid = line.value]
    [] line.key = "NRestarts"     -> [row EXCEPT !.restart_count = line.value]
    [] line.key = "MemoryCurrent" -> IF line.value = Unset THEN row
                                     ELSE [row EXCEPT !.memory_bytes = line.value]
    [] line.key = "UnitFileState" -> [row EXCEPT !.enabled = @ \/ line.value = "enabled"]
    [] OTHER                      -> row

\* One unit's lines; several units', one after the other.
Lines(unit) == [i \in DOMAIN PropertyOrder |->
                  [key |-> PropertyOrder[i], value |-> unit[PropertyOrder[i]]]]

Output(units) == FlattenSeq([i \in DOMAIN units |-> Lines(units[i])])

\* systemd_get_unit_status: the lines are all the one unit's.
UnitRow(row, unit) == FoldLeft(Store, Blank(row.name, row.has_watch), Lines(unit))

\* systemd_list_all: a line belongs to the row whose name the last Id gave.
Read(state, line) ==
  IF line.key = "Id"
  THEN [state EXCEPT !.cur = {i \in DOMAIN state.rows : state.rows[i].name = line.value}]
  ELSE [state EXCEPT !.rows = [i \in DOMAIN @ |->
                                 IF i \in state.cur THEN Store(@[i], line) ELSE @[i]]]

BatchRows(rows, units) == FoldLeft(Read, [rows |-> rows, cur |-> {}], Output(units)).rows
=============================================================================
