------------------------------ MODULE LogStream ------------------------------
(* The journalctl children that feed the log viewer: log_viewer_set_app reads  *)
(* the last lines from one and follows the journal with another, whose pipe    *)
(* log_viewer_poll empties once per frame, and log_viewer_cleanup ends it      *)
(* (log_viewer.c).  The dashboard ends by q, by a signal, or by an upgrade     *)
(* (tui.c).  The ring the lines go to is LogRing's.                            *)
EXTENDS Naturals, Sequences, SequencesExt, FiniteSets, FiniteSetsExt

CONSTANTS
  Apps,        \* apps with a valid name
  All,         \* the target of all apps
  Invalid,     \* targets whose name is_valid_name refuses
  LineCap,     \* MAX_LOG_LINE_LEN: a line is stored with its terminating zero
  Backlog,     \* how many lines the first child prints, 120
  Pids,        \* process numbers
  Lengths,     \* lengths of the lines that are logged
  MaxLogged, MaxSwitches, MaxFailures  \* bounds

ASSUME LogStreamAssumption ==
  /\ All \notin Apps /\ Invalid \cap (Apps \cup {All}) = {}
  /\ LineCap \in Nat /\ LineCap > 1
  /\ Pids \subseteq Nat \ {0} /\ IsFiniteSet(Pids)
  /\ Lengths \subseteq Nat \ {0}
  /\ {Backlog, MaxLogged, MaxSwitches, MaxFailures} \subseteq Nat

Targets == Apps \cup {All}
Exit == "exit"
Newline == 0

\* A line's bytes are all its number in the journal.
Bytes == 0 .. MaxLogged

VARIABLES
  journal,   \* the lines logged so far: their app and length
  child,     \* by pid: what it does, for which target, and the lines it prints
  lv,        \* LogViewer: current_app, stream_pid, stream_pipe, partial_buf, lines
  dashboard, \* where tui_run is, what log_viewer_set_app was called for, how it ended
  used       \* how much of each bound is used

vars == << journal, child, lv, dashboard, used >>

\* asked: it was sent SIGTERM or SIGKILL; written: how many bytes it has written.
Child == [life : {"none", "backlog", "starting", "follows", "ended"}, target : Targets,
          prints : Seq(1 .. MaxLogged), written : Nat, asked : BOOLEAN]

NoChild == [life |-> "none", target |-> All, prints |-> << >>, written |-> 0,
            asked |-> FALSE]

Stages == {"poll", "frame", "term", "reap", "clear", "backlog", "read", "follow", "store",
           "gone"}

\* read: how many bytes were read from the pipe; streamed: how many of the lines
\* came that way.
NoStream == [app |-> All, pid |-> 0, open |-> FALSE, read |-> 0, partial |-> << >>,
             lines |-> << >>, streamed |-> 0]

Init ==
  /\ journal = << >>
  /\ child = [p \in Pids |-> NoChild]
  /\ lv = NoStream
  /\ dashboard = [at |-> "backlog", wants |-> All, forked |-> 0, ended |-> "no"]
  /\ used = [switches |-> 0, failures |-> 0]

-----------------------------------------------------------------------------
(* Lines and bytes. *)

About(target, i) == target = All \/ journal[i].app = target

\* What journalctl writes for the i-th line.
Written(i) == [b \in 1 .. journal[i].length |-> i] \o << Newline >>

Output(p) == FlattenSeq([i \in DOMAIN child[p].prints |-> Written(child[p].prints[i])])

\* The bytes in the pipe.
Pipe == IF lv.open THEN SubSeq(Output(lv.pid), lv.read + 1, child[lv.pid].written)
                   ELSE << >>

\* The pieces a line is stored as, each with room for the zero.
PiecesOf(i) ==
  LET room == LineCap - 1
      whole == journal[i].length \div room
      rest == journal[i].length % room
      piece(length) == [b \in 1 .. length |-> i]
  IN [k \in 1 .. whole |-> piece(room)] \o (IF rest = 0 THEN << >> ELSE << piece(rest) >>)

Pieces(prints) == FlattenSeq([i \in DOMAIN prints |-> PiecesOf(prints[i])])

\* log_viewer_append of what was gathered, if anything was.
Flush(got) == IF got.partial = << >> THEN got
              ELSE [partial |-> << >>, lines |-> Append(got.lines, got.partial)]

\* Mutant: the terminating zero has no room.
FeedPast(got, byte) ==
  IF byte = Newline THEN Flush(got)
  ELSE LET room == IF Len(got.partial) < LineCap THEN got ELSE Flush(got)
       IN [room EXCEPT !.partial = Append(@, byte)]

\* Mutant: a full buffer is stored and the byte that did not fit is lost.
FeedDrops(got, byte) ==
  IF byte = Newline THEN Flush(got)
  ELSE IF Len(got.partial) < LineCap - 1 THEN [got EXCEPT !.partial = Append(@, byte)]
  ELSE Flush(got)

\* One byte of log_viewer_poll.
Feed(got, byte) ==
  IF byte = Newline THEN Flush(got)
  ELSE LET room == IF Len(got.partial) < LineCap - 1 THEN got ELSE Flush(got)
       IN [room EXCEPT !.partial = Append(@, byte)]

\* The bytes of a read, one after the other.
Fed(got, bytes) ==
  LET fed[i \in 0 .. Len(bytes)] == IF i = 0 THEN got ELSE Feed(fed[i - 1], bytes[i])
  IN fed[Len(bytes)]

-----------------------------------------------------------------------------
(* The journal and the children. *)

Following(p) == child[p].life = "follows"

\* An app logs a line; whoever follows it will print it.
Log(app) ==
  /\ Len(journal) < MaxLogged
  /\ \E length \in Lengths : journal' = Append(journal, [app |-> app, length |-> length])
  /\ child' = [p \in Pids |->
       IF Following(p) /\ child[p].target \in {All, app}
       THEN [child[p] EXCEPT !.prints = Append(@, Len(journal) + 1)] ELSE child[p]]
  /\ UNCHANGED << lv, dashboard, used >>

\* The lines about a target, in their order.
LinesAbout(target) ==
  LET about[i \in 0 .. Len(journal)] ==
        IF i = 0 THEN << >>
        ELSE IF About(target, i) THEN Append(about[i - 1], i) ELSE about[i - 1]
  IN about[Len(journal)]

Latest(prints, n) == SubSeq(prints, Max({1, Len(prints) - n + 1}), Len(prints))

\* journalctl -n 120 prints and ends.
Prints(p) ==
  /\ child[p].life = "backlog"
  /\ child' = [child EXCEPT ![p].prints = Latest(LinesAbout(child[p].target), Backlog),
                            ![p].life = "ended"]
  /\ UNCHANGED << journal, lv, dashboard, used >>

\* journalctl -f -n 0 has opened the journal: it prints what comes after.
Opens(p) ==
  /\ child[p].life = "starting"
  /\ child' = [child EXCEPT ![p].life = "follows"]
  /\ UNCHANGED << journal, lv, dashboard, used >>

\* It writes some of its lines; with nobody to read them it is ended by SIGPIPE.
Writes(p) ==
  /\ Following(p)
  /\ \E n \in child[p].written + 1 .. Len(Output(p)) :
       child' = [child EXCEPT ![p].written = n,
                              ![p].life = IF dashboard.at = "gone" THEN "ended" ELSE @]
  /\ UNCHANGED << journal, lv, dashboard, used >>

\* A child ends by itself: journalctl is not there, or is killed.
Dies(p) ==
  /\ child[p].life \in {"backlog", "starting", "follows"}
  /\ used.failures < MaxFailures
  /\ used' = [used EXCEPT !.failures = @ + 1]
  /\ child' = [child EXCEPT ![p].life = "ended"]
  /\ UNCHANGED << journal, lv, dashboard >>

\* A child ends because it was asked to.
Obeys(p) ==
  /\ child[p].asked
  /\ child[p].life \in {"backlog", "starting", "follows"}
  /\ child' = [child EXCEPT ![p].life = "ended"]
  /\ UNCHANGED << journal, lv, dashboard, used >>

-----------------------------------------------------------------------------
(* The dashboard. *)

\* The process ends, and its memory with it.
Ends(how) ==
  /\ dashboard' = [at |-> "gone", wants |-> Exit, forked |-> 0, ended |-> how]
  /\ lv' = NoStream

Goes(from, to) == dashboard.at = from /\ dashboard' = [dashboard EXCEPT !.at = to]

\* A read() of log_viewer_poll, of any part of what is in the pipe.
Read ==
  /\ dashboard.at = "poll"
  /\ \E n \in 1 .. Len(Pipe) :
       LET got == Fed([partial |-> lv.partial, lines |-> lv.lines], SubSeq(Pipe, 1, n))
       IN lv' = [lv EXCEPT !.partial = got.partial, !.lines = got.lines, !.read = @ + n,
                           !.streamed = @ + Len(got.lines) - Len(lv.lines)]
  /\ UNCHANGED << journal, child, dashboard, used >>

\* Mutant: a frame may go by without a read.
PolledEarly ==
  /\ Goes("poll", "frame")
  /\ UNCHANGED << journal, child, lv, used >>

\* The pipe is empty, or at its end, or there is none.
Polled ==
  /\ Pipe = << >>
  /\ Goes("poll", "frame")
  /\ UNCHANGED << journal, child, lv, used >>

Frame ==
  /\ Goes("frame", "poll")
  /\ UNCHANGED << journal, child, lv, used >>

\* Mutant: the last child is not ended.
CleanupForgotten == "clear"

\* The selection moved: log_viewer_set_app.  Its first step is log_viewer_cleanup,
\* which has nothing to do without a child.
Cleanup == IF lv.pid > 0 THEN "term" ELSE "clear"

Switch(target) ==
  /\ dashboard.at = "frame"
  /\ used.switches < MaxSwitches
  /\ used' = [used EXCEPT !.switches = @ + 1]
  /\ dashboard' = [dashboard EXCEPT !.at = Cleanup, !.wants = target]
  /\ UNCHANGED << journal, child, lv >>

\* q
Quit ==
  /\ dashboard.at = "frame"
  /\ dashboard' = [dashboard EXCEPT !.at = Cleanup, !.wants = Exit]
  /\ UNCHANGED << journal, child, lv, used >>

\* Mutant: it waits for a child it did not end.
TerminateQuiet ==
  /\ Goes("term", "reap")
  /\ UNCHANGED << journal, child, lv, used >>

\* SIGTERM, then SIGKILL
Terminate ==
  /\ Goes("term", "reap")
  /\ child' = [child EXCEPT ![lv.pid].asked = TRUE]
  /\ UNCHANGED << journal, lv, used >>

\* waitpid
Reap ==
  /\ Goes("reap", "clear")
  /\ child[lv.pid].life = "ended"
  /\ child' = [child EXCEPT ![lv.pid] = NoChild]
  /\ UNCHANGED << journal, lv, used >>

\* Mutant: what was gathered of a line is kept.
ClearKeepsPartial ==
  /\ dashboard.at = "clear" /\ dashboard.wants # Exit
  /\ lv' = [NoStream EXCEPT !.partial = lv.partial,
                            !.app = IF dashboard.wants \in Targets THEN dashboard.wants ELSE lv.app]
  /\ dashboard' = [dashboard EXCEPT !.at = IF dashboard.wants \in Targets
                                           THEN "backlog" ELSE "poll"]
  /\ UNCHANGED << journal, child, used >>

\* The rest of log_viewer_cleanup, and what log_viewer_set_app resets; an invalid
\* name stops it there.
Clear ==
  /\ dashboard.at = "clear" /\ dashboard.wants # Exit
  /\ lv' = [NoStream EXCEPT !.app = IF dashboard.wants \in Targets THEN dashboard.wants
                                                                   ELSE lv.app]
  /\ dashboard' = [dashboard EXCEPT !.at = IF dashboard.wants \in Targets
                                           THEN "backlog" ELSE "poll"]
  /\ UNCHANGED << journal, child, used >>

\* The rest of tui_run.
Leave ==
  /\ dashboard.at = "clear" /\ dashboard.wants = Exit
  /\ Ends("quit")
  /\ UNCHANGED << journal, child, used >>

\* fork() gives the next free number.
Fork(life) ==
  LET free == {p \in Pids : child[p].life = "none"}
  IN /\ free # {}
     /\ child' = [child EXCEPT ![Min(free)] =
                    [NoChild EXCEPT !.life = life, !.target = lv.app]]
     /\ dashboard' = [dashboard EXCEPT !.at = IF life = "backlog" THEN "read" ELSE "store",
                                       !.forked = Min(free)]

\* pipe() or fork() fails: no lines, or no stream.
ForkFails(otherwise) ==
  /\ used.failures < MaxFailures
  /\ used' = [used EXCEPT !.failures = @ + 1]
  /\ dashboard' = [dashboard EXCEPT !.at = otherwise]
  /\ UNCHANGED << journal, child, lv >>

\* log_viewer_load_backlog
ForkBacklog ==
  /\ dashboard.at = "backlog"
  /\ \/ Fork("backlog") /\ UNCHANGED << journal, lv, used >>
     \/ ForkFails("follow")

\* It reads to the end of the pipe, with fgets, and waits for the child.
ReadBacklog ==
  /\ Goes("read", "follow")
  /\ child[dashboard.forked].life = "ended"
  /\ lv' = [lv EXCEPT !.lines = @ \o Pieces(child[dashboard.forked].prints)]
  /\ child' = [child EXCEPT ![dashboard.forked] = NoChild]
  /\ UNCHANGED << journal, used >>

\* log_stream_open_argv
ForkFollower ==
  /\ dashboard.at = "follow"
  /\ \/ Fork("starting") /\ UNCHANGED << journal, lv, used >>
     \/ ForkFails("poll")

\* It stores the pid and returns the pipe.
Store ==
  /\ Goes("store", "poll")
  /\ lv' = [lv EXCEPT !.pid = dashboard.forked, !.open = TRUE]
  /\ UNCHANGED << journal, child, used >>

How == IF dashboard.at \in {"read", "store"} THEN "forking" ELSE "signal"

\* Mutant: the handler only restores the terminal.
SignalQuiet ==
  /\ dashboard.at # "gone"
  /\ Ends(How)
  /\ UNCHANGED << journal, child, used >>

\* handle_sig_exit, wherever the dashboard is: the child it knows of is killed.
Signal ==
  /\ dashboard.at # "gone"
  /\ child' = IF lv.pid = 0 THEN child ELSE [child EXCEPT ![lv.pid] = NoChild]
  /\ Ends(How)
  /\ UNCHANGED << journal, used >>

\* SIGKILL, or a crash.
Killed ==
  /\ dashboard.at # "gone"
  /\ Ends("killed")
  /\ UNCHANGED << journal, child, used >>

\* The upgrade was confirmed and done: exit, or execl, without log_viewer_cleanup.
Upgrade ==
  /\ dashboard.at = "frame"
  /\ Ends("upgrade")
  /\ UNCHANGED << journal, child, used >>

Children == \E p \in Pids : Prints(p) \/ Opens(p) \/ Writes(p) \/ Obeys(p)

Loop == Read \/ Polled \/ Frame \/ Terminate \/ Reap \/ Clear \/ Leave \/ ForkBacklog \/ ReadBacklog
          \/ ForkFollower \/ Store

Next ==
  \/ \E app \in Apps : Log(app)
  \/ Children \/ Loop
  \/ \E p \in Pids : Dies(p)
  \/ \E target \in Targets \cup Invalid : Switch(target)
  \/ Quit \/ Signal \/ Killed \/ Upgrade

\* The dashboard keeps going through its frames; a journalctl that does not die
\* goes on.
Fairness == WF_vars(Loop) /\ WF_vars(Children)

Spec == Init /\ [][Next]_vars /\ Fairness

-----------------------------------------------------------------------------

InFrame == dashboard.at \in {"poll", "frame"}

\* Journal, children and viewer keep their shape.
TypeOK ==
  /\ journal \in Seq([app : Apps, length : Lengths])
  /\ child \in [Pids -> Child]
  /\ lv \in [app : Targets, pid : Pids \cup {0}, open : BOOLEAN, read : Nat,
             partial : Seq(1 .. MaxLogged), lines : Seq(Seq(1 .. MaxLogged)),
             streamed : Nat]
  /\ lv.open => lv.pid > 0
  /\ Len(lv.partial) < LineCap
  /\ \A i \in DOMAIN lv.lines : Len(lv.lines[i]) \in 1 .. LineCap - 1
  /\ dashboard \in [at : Stages, wants : Targets \cup Invalid \cup {Exit},
                    forked : Pids \cup {0},
                    ended : {"no", "quit", "signal", "forking", "upgrade", "killed"}]
  /\ used \in [switches : 0 .. MaxSwitches, failures : 0 .. MaxFailures]

Alive(p) == child[p].life \in {"backlog", "starting", "follows"}

\* The dashboard has one child at a time, and knows its pid: none is left behind
\* by a switch, none becomes a zombie nobody waits for.
OneChild ==
  dashboard.at # "gone" =>
    \A p \in Pids : child[p] # NoChild =>
      p = IF dashboard.at \in {"read", "store"} THEN dashboard.forked ELSE lv.pid

\* After q, or a signal that does not fall between fork and the store of the pid,
\* no journalctl is left (README.md: "kills & reaps streaming background
\* processes").
NoneLeft ==
  dashboard.ended \in {"quit", "signal"} => \A p \in Pids : ~Alive(p)

\* What came through the pipe is what the follower printed, cut where a line does
\* not fit, however the bytes were split among reads: nothing is missing, doubled
\* or joined to what another target left in partial_buf.
StreamExact ==
  InFrame /\ lv.open =>
    LET came == SubSeq(lv.lines, Len(lv.lines) - lv.streamed + 1, Len(lv.lines))
        sent == Pieces(child[lv.pid].prints)
    IN /\ IsPrefix(came, sent)
       /\ lv.read = Len(Output(lv.pid)) => came = sent

\* How many bytes of the i-th line are shown.
Shown(i) == LET bytes == FlattenSeq(lv.lines)
            IN Cardinality({b \in DOMAIN bytes : bytes[b] = i})

\* Only lines of the target are shown, in the order they were logged and none of
\* them twice, although two children printed them.
InOrder ==
  InFrame =>
    /\ \A i \in DOMAIN lv.lines : \A b \in Range(lv.lines[i]) : About(lv.app, b)
    /\ LET bytes == FlattenSeq(lv.lines)
       IN /\ \A i, j \in DOMAIN bytes : i < j => bytes[i] <= bytes[j]
          /\ \A b \in Range(bytes) : Shown(b) <= journal[b].length

\* In a frame, with a follower that lives.
Streams == InFrame /\ lv.pid > 0 /\ Following(lv.pid)

\* A line the follower has seen is shown, unless the follower ends or is changed
\* for another.
SeenIsShown ==
  \A i \in 1 .. MaxLogged :
    (Streams /\ i \in Range(child[lv.pid].prints))
      ~> (~Streams \/ (i \in DOMAIN journal /\ Shown(i) = journal[i].length))

\* A switch ends with the loop going on, q with the end: no wait is for ever.
SwitchEnds == dashboard.at = "term" ~> dashboard.at \in {"poll", "gone"}
=============================================================================
