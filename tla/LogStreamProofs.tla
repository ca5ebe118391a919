--------------------------- MODULE LogStreamProofs ---------------------------
(* What becomes of the children of LogStream and of the bytes they write, for  *)
(* any number of pids, lines, switches and failures: first the children, about *)
(* which nothing depends on what they write, then the stream, and last the     *)
(* order of what is shown.                                                     *)
EXTENDS LogStream, SequenceLemmas, FiniteSetTheorems

\* The fields of the records the steps change.
ChildShaped(me) == me = [life |-> me.life, target |-> me.target, prints |-> me.prints,
                         written |-> me.written, asked |-> me.asked]

\* Every child, the viewer and the dashboard keep their fields.
Shape ==
  /\ child = [p \in Pids |-> child[p]]
  /\ \A p \in Pids : ChildShaped(child[p])
  /\ lv = [app |-> lv.app, pid |-> lv.pid, open |-> lv.open, read |-> lv.read,
           partial |-> lv.partial, lines |-> lv.lines, streamed |-> lv.streamed]
  /\ dashboard = [at |-> dashboard.at, wants |-> dashboard.wants,
                  forked |-> dashboard.forked, ended |-> dashboard.ended]

\* The pids it holds are pids.
PidsHeld ==
  /\ lv.pid \in Pids \cup {0}
  /\ dashboard.at \in {"read", "store"} => dashboard.forked \in Pids

\* Before it forks the dashboard has no child, and before it stores a pid it has none.
NoneBefore ==
  /\ dashboard.at \in {"clear", "backlog", "follow"} => \A p \in Pids : child[p] = NoChild
  /\ dashboard.at \in {"backlog", "read", "follow", "store"} => lv.pid = 0

\* It has ended once it is gone, and only then.
EndedGone == dashboard.at = "gone" \/ dashboard.ended = "no"

\* The invariant of the children, inductive by itself.
IInv == Shape /\ PidsHeld /\ NoneBefore /\ EndedGone /\ OneChild /\ NoneLeft

\* The pid that fork returns is a free one.
LEMMA FreePid ==
  ASSUME NEW free \in SUBSET Pids, free # {}
  PROVE  Min(free) \in free
<1>1. free \subseteq Nat
  BY LogStreamAssumption
<1>2. PICK x \in free : \A y \in free : x <= y
  BY <1>1, NatMin
<1> QED
  BY <1>2 DEF Min

\* It holds before the first frame.
LEMMA InitIInv == Init => IInv
<1> SUFFICES ASSUME Init PROVE IInv
  OBVIOUS
<1>1. ChildShaped(NoChild)
  BY DEF ChildShaped, NoChild
<1>2. Shape
  BY <1>1 DEF Init, Shape, NoStream
<1>3. PidsHeld /\ NoneBefore /\ EndedGone /\ OneChild /\ NoneLeft
  BY DEF Init, PidsHeld, NoneBefore, EndedGone, OneChild, NoneLeft, NoStream
<1> QED
  BY <1>2, <1>3 DEF IInv

\* A step of the children themselves: none appears, none comes back to life.
ChildrenStep ==
  /\ child' = [p \in Pids |-> child'[p]]
  /\ \A p \in Pids : /\ ChildShaped(child'[p])
                     /\ child'[p] # NoChild => child[p] # NoChild
                     /\ Alive(p)' => Alive(p)

\* A step of the children keeps it.
LEMMA ChildrenKeep ==
  ASSUME IInv, ChildrenStep, UNCHANGED << lv, dashboard >>
  PROVE  IInv'
<1>1. Shape'
  BY DEF IInv, Shape, ChildrenStep
<1>2. PidsHeld' /\ NoneBefore' /\ EndedGone'
  BY DEF IInv, PidsHeld, NoneBefore, EndedGone, ChildrenStep
<1>3. OneChild'
  BY DEF IInv, OneChild, ChildrenStep
<1>4. NoneLeft'
  BY DEF IInv, NoneLeft, ChildrenStep
<1> QED
  BY <1>1, <1>2, <1>3, <1>4 DEF IInv

\* One child, which is alive, changes and does not become NoChild.
LEMMA OneChanges ==
  ASSUME IInv, NEW p \in Pids, Alive(p), ChildShaped(child'[p]),
         child' = [q \in Pids |-> child'[q]],
         \A q \in Pids : q # p => child'[q] = child[q]
  PROVE  ChildrenStep
<1>1. child[p] # NoChild
  BY DEF Alive, NoChild
<1>2. ASSUME NEW q \in Pids
      PROVE  /\ ChildShaped(child'[q])
             /\ child'[q] # NoChild => child[q] # NoChild
             /\ Alive(q)' => Alive(q)
  <2>1. CASE q = p
    BY <1>1, <2>1
  <2>2. CASE q # p
    BY <2>2 DEF IInv, Shape, Alive
  <2> QED
    BY <2>1, <2>2
<1> QED
  BY <1>2 DEF ChildrenStep

\* A service logs a line.
LEMMA LogStep == ASSUME IInv, NEW app \in Apps, Log(app) PROVE ChildrenStep
<1> DEFINE met(p) == Following(p) /\ child[p].target \in {All, app}
           more(p) == [child[p] EXCEPT !.prints = Append(@, Len(journal) + 1)]
<1>1. child' = [p \in Pids |-> IF met(p) THEN more(p) ELSE child[p]]
  BY DEF Log
<1>2. ASSUME NEW p \in Pids
      PROVE  /\ ChildShaped(child'[p])
             /\ child'[p] # NoChild => child[p] # NoChild
             /\ Alive(p)' => Alive(p)
  <2>1. ChildShaped(child[p]) /\ child'[p] = IF met(p) THEN more(p) ELSE child[p]
    BY <1>1 DEF IInv, Shape
  <2>2. CASE met(p)
    <3>1. ChildShaped(more(p))
      BY <2>1 DEF ChildShaped
    <3>2. child[p] # NoChild /\ Alive(p)
      BY <2>2 DEF Following, Alive, NoChild
    <3> QED
      BY <2>1, <2>2, <3>1, <3>2
  <2>3. CASE ~met(p)
    BY <2>1, <2>3 DEF Alive
  <2> QED
    BY <2>2, <2>3
<1>3. child' = [p \in Pids |-> child'[p]]
  BY <1>1
<1> QED
  BY <1>2, <1>3 DEF ChildrenStep

\* journalctl prints, opens, writes, obeys a signal or dies.
LEMMA ChildStep ==
  ASSUME IInv, NEW p \in Pids, Prints(p) \/ Opens(p) \/ Writes(p) \/ Obeys(p) \/ Dies(p)
  PROVE  ChildrenStep
<1>1. ChildShaped(child[p]) /\ child = [q \in Pids |-> child[q]]
  BY DEF IInv, Shape
<1>2. CASE Prints(p)
  <2>1. PICK all : child' = [child EXCEPT ![p].prints = Latest(all, Backlog), ![p].life = "ended"]
    BY <1>2 DEF Prints
  <2>2. ChildShaped(child'[p])
    BY <1>1, <2>1 DEF ChildShaped
  <2>3. Alive(p)
    BY <1>2 DEF Prints, Alive
  <2> QED
    BY <1>1, <2>1, <2>2, <2>3, OneChanges
<1>3. CASE Opens(p)
  <2>1. child' = [child EXCEPT ![p].life = "follows"] /\ Alive(p)
    BY <1>3 DEF Opens, Alive
  <2>2. ChildShaped(child'[p])
    BY <1>1, <2>1 DEF ChildShaped
  <2> QED
    BY <1>1, <2>1, <2>2, OneChanges
<1>4. CASE Writes(p)
  <2>1. PICK n : child' = [child EXCEPT ![p].written = n,
                                        ![p].life = IF dashboard.at = "gone" THEN "ended" ELSE @]
    BY <1>4 DEF Writes
  <2>2. ChildShaped(child'[p])
    BY <1>1, <2>1 DEF ChildShaped
  <2>3. Alive(p)
    BY <1>4 DEF Writes, Following, Alive
  <2> QED
    BY <1>1, <2>1, <2>2, <2>3, OneChanges
<1>5. CASE Obeys(p) \/ Dies(p)
  <2>1. child' = [child EXCEPT ![p].life = "ended"] /\ Alive(p)
    BY <1>5 DEF Obeys, Dies, Alive
  <2>2. ChildShaped(child'[p])
    BY <1>1, <2>1 DEF ChildShaped
  <2> QED
    BY <1>1, <2>1, <2>2, OneChanges
<1> QED
  BY <1>2, <1>3, <1>4, <1>5

-----------------------------------------------------------------------------
(* The dashboard. *)

\* The dashboard goes on from one stage to another.
LEMMA LoopMoves ==
  ASSUME IInv, Shape', dashboard.at # "gone", dashboard'.at # "gone",
         dashboard'.ended = dashboard.ended, PidsHeld', NoneBefore', OneChild'
  PROVE  IInv'
<1>1. dashboard.ended = "no"
  BY DEF IInv, EndedGone
<1>2. EndedGone' /\ NoneLeft'
  BY <1>1 DEF EndedGone, NoneLeft
<1> QED
  BY <1>2 DEF IInv

\* Frames, and what starts log_viewer_cleanup.
LEMMA FrameStep ==
  ASSUME IInv,
         \/ Read \/ Polled \/ Frame \/ Quit
         \/ \E target \in Targets \cup Invalid : Switch(target)
  PROVE  IInv'
<1>1. /\ UNCHANGED child /\ lv'.pid = lv.pid /\ Shape'
      /\ dashboard.at \in {"poll", "frame"} /\ dashboard'.ended = dashboard.ended
      /\ dashboard'.at \in {"poll", "frame", Cleanup}
  <2>1. CASE Read
    BY <2>1 DEF IInv, Shape, Read
  <2>2. CASE Polled \/ Frame \/ Quit \/ \E target \in Targets \cup Invalid : Switch(target)
    BY <2>2 DEF IInv, Shape, Polled, Frame, Quit, Switch, Goes
  <2> QED
    BY <2>1, <2>2
<1>2. Cleanup \in {"term", "clear"}
  BY DEF Cleanup
<1>3. Cleanup = "clear" => \A p \in Pids : child[p] = NoChild
  <2> SUFFICES ASSUME Cleanup = "clear", NEW p \in Pids, child[p] # NoChild PROVE FALSE
    OBVIOUS
  <2>1. p = lv.pid
    BY <1>1 DEF IInv, OneChild
  <2>2. p \in Nat /\ p > 0
    BY LogStreamAssumption
  <2> QED
    BY <2>1, <2>2 DEF Cleanup
<1>4. PidsHeld' /\ NoneBefore'
  BY <1>1, <1>2, <1>3 DEF IInv, PidsHeld, NoneBefore
<1>5. OneChild'
  BY <1>1, <1>2 DEF IInv, OneChild
<1> QED
  BY <1>1, <1>2, <1>4, <1>5, LoopMoves

\* log_viewer_cleanup: the child is told to end, waited for, and forgotten.
LEMMA CleanupStep ==
  ASSUME IInv, Terminate \/ Reap \/ Clear
  PROVE  IInv'
<1>1. CASE Terminate
  <2>1. /\ lv' = lv /\ dashboard.at = "term" /\ dashboard' = [dashboard EXCEPT !.at = "reap"]
        /\ child' = [child EXCEPT ![lv.pid].asked = TRUE]
    BY <1>1 DEF Terminate, Goes
  <2>2. dashboard'.at = "reap" /\ dashboard'.ended = dashboard.ended /\ Shape'
    BY <2>1 DEF IInv, Shape, ChildShaped
  <2>3. \A p \in Pids : p # lv.pid => child'[p] = child[p]
    BY <2>1 DEF IInv, Shape
  <2>4. PidsHeld' /\ NoneBefore' /\ OneChild'
    BY <2>1, <2>2, <2>3 DEF IInv, PidsHeld, NoneBefore, OneChild
  <2> QED
    BY <2>1, <2>2, <2>4, LoopMoves
<1>2. CASE Reap
  <2>1. /\ lv' = lv /\ dashboard.at = "reap" /\ dashboard' = [dashboard EXCEPT !.at = "clear"]
        /\ child' = [child EXCEPT ![lv.pid] = NoChild]
    BY <1>2 DEF Reap, Goes
  <2>2. dashboard'.at = "clear" /\ dashboard'.ended = dashboard.ended
    BY <2>1 DEF IInv, Shape
  <2>3. Shape'
    BY <2>1 DEF IInv, Shape, ChildShaped, NoChild
  <2>4. \A p \in Pids : child'[p] = NoChild
    BY <2>1 DEF IInv, Shape, OneChild
  <2>5. PidsHeld' /\ NoneBefore' /\ OneChild'
    BY <2>1, <2>2, <2>4 DEF IInv, PidsHeld, NoneBefore, OneChild
  <2> QED
    BY <2>1, <2>2, <2>3, <2>5, LoopMoves
<1>3. CASE Clear
  <2>1. /\ child' = child /\ dashboard.at = "clear" /\ lv'.pid = 0
        /\ dashboard'.at \in {"backlog", "poll"} /\ dashboard'.ended = dashboard.ended
    BY <1>3 DEF IInv, Shape, Clear, NoStream
  <2>2. Shape'
    BY <1>3 DEF IInv, Shape, Clear, NoStream
  <2>3. PidsHeld' /\ NoneBefore' /\ OneChild'
    BY <2>1 DEF IInv, PidsHeld, NoneBefore, OneChild
  <2> QED
    BY <2>1, <2>2, <2>3, LoopMoves
<1> QED
  BY <1>1, <1>2, <1>3

\* fork(): the new child is the only one.
LEMMA ForkStep ==
  ASSUME IInv, NEW life \in {"backlog", "starting"}, Fork(life), lv' = lv,
         dashboard.at \in {"backlog", "follow"}
  PROVE  IInv'
<1> DEFINE free == {p \in Pids : child[p].life = "none"}
           pid  == Min(free)
           me   == [NoChild EXCEPT !.life = life, !.target = lv.app]
<1>1. pid \in Pids
  BY FreePid DEF Fork
<1>2. /\ child' = [child EXCEPT ![pid] = me]
      /\ dashboard' = [dashboard EXCEPT !.at = IF life = "backlog" THEN "read" ELSE "store",
                                        !.forked = pid]
  BY DEF Fork
<1> HIDE DEF pid, free
<1>3. /\ dashboard'.at \in {"read", "store"} /\ dashboard'.ended = dashboard.ended
      /\ dashboard'.forked = pid
  BY <1>2 DEF IInv, Shape
<1>4. Shape'
  <2>1. ChildShaped(me)
    <3>1. ChildShaped(NoChild)
      BY DEF ChildShaped, NoChild
    <3>2. PICK born : born = [NoChild EXCEPT !.life = life]
      OBVIOUS
    <3>3. born = [life |-> life, target |-> NoChild.target, prints |-> NoChild.prints,
                  written |-> NoChild.written, asked |-> NoChild.asked]
      BY <3>1, <3>2 DEF ChildShaped
    <3>4. me = [born EXCEPT !.target = lv.app]
      BY <3>2
    <3> HIDE DEF me
    <3>5. me = [life |-> life, target |-> lv.app, prints |-> NoChild.prints,
                written |-> NoChild.written, asked |-> NoChild.asked]
      BY <3>3, <3>4
    <3> QED
      BY <3>5 DEF ChildShaped
  <2> HIDE DEF me
  <2> QED
    BY <1>2, <2>1 DEF IInv, Shape
<1>5. \A p \in Pids : p # pid => child'[p] = NoChild
  BY <1>2 DEF IInv, Shape, NoneBefore
<1>6. PidsHeld' /\ NoneBefore' /\ OneChild'
  BY <1>1, <1>3, <1>5 DEF IInv, PidsHeld, NoneBefore, OneChild
<1> QED
  BY <1>3, <1>4, <1>6, LoopMoves

\* Neither child could be forked: the dashboard goes on without.
LEMMA ForkFailsStep ==
  ASSUME IInv, NEW otherwise, ForkFails(otherwise),
         \/ dashboard.at = "backlog" /\ otherwise = "follow"
         \/ dashboard.at = "follow" /\ otherwise = "poll"
  PROVE  IInv'
<1>1. /\ child' = child /\ lv' = lv
      /\ dashboard'.at = otherwise /\ dashboard'.ended = dashboard.ended
  BY DEF IInv, Shape, ForkFails
<1>2. Shape'
  BY DEF IInv, Shape, ForkFails
<1>3. PidsHeld' /\ NoneBefore' /\ OneChild'
  BY <1>1 DEF IInv, PidsHeld, NoneBefore, OneChild
<1> QED
  BY <1>1, <1>2, <1>3, LoopMoves

\* The rest of log_viewer_set_app.
LEMMA SetAppStep ==
  ASSUME IInv, ForkBacklog \/ ReadBacklog \/ ForkFollower \/ Store
  PROVE  IInv'
<1>1. CASE ForkBacklog
  BY <1>1, ForkStep, ForkFailsStep DEF ForkBacklog
<1>2. CASE ReadBacklog
  <2>1. /\ dashboard.at = "read" /\ dashboard' = [dashboard EXCEPT !.at = "follow"]
        /\ child' = [child EXCEPT ![dashboard.forked] = NoChild]
    BY <1>2 DEF ReadBacklog, Goes
  <2>2. PICK lines : lv' = [lv EXCEPT !.lines = lines]
    <3>1. lv' = [lv EXCEPT !.lines = lv.lines \o Pieces(child[dashboard.forked].prints)]
      BY <1>2 DEF ReadBacklog
    <3> QED
      BY <3>1
  <2>3. lv'.pid = lv.pid /\ dashboard'.at = "follow" /\ dashboard'.ended = dashboard.ended
    BY <2>1, <2>2 DEF IInv, Shape
  <2>4. Shape'
    BY <2>1, <2>2 DEF IInv, Shape, ChildShaped, NoChild
  <2>5. \A p \in Pids : child'[p] = NoChild
    BY <2>1 DEF IInv, Shape, OneChild
  <2>6. PidsHeld' /\ NoneBefore' /\ OneChild'
    BY <2>1, <2>3, <2>5 DEF IInv, PidsHeld, NoneBefore, OneChild
  <2> QED
    BY <2>1, <2>3, <2>4, <2>6, LoopMoves
<1>3. CASE ForkFollower
  BY <1>3, ForkStep, ForkFailsStep DEF ForkFollower
<1>4. CASE Store
  <2>1. /\ child' = child /\ dashboard.at = "store" /\ dashboard'.at = "poll"
        /\ dashboard'.ended = dashboard.ended /\ lv'.pid = dashboard.forked
    BY <1>4 DEF IInv, Shape, Store, Goes
  <2>2. Shape'
    BY <1>4 DEF IInv, Shape, Store, Goes
  <2>3. PidsHeld' /\ NoneBefore' /\ OneChild'
    BY <2>1 DEF IInv, PidsHeld, NoneBefore, OneChild
  <2> QED
    BY <2>1, <2>2, <2>3, LoopMoves
<1> QED
  BY <1>1, <1>2, <1>3, <1>4

\* The end: by q no child was left, by a signal the one whose pid is stored is
\* killed, unless it is just being forked.
LEMMA EndStep ==
  ASSUME IInv, Leave \/ Signal \/ Killed \/ Upgrade
  PROVE  IInv'
<1>1. dashboard'.at = "gone" /\ lv' = NoStream /\ dashboard.at # "gone"
  BY DEF Leave, Signal, Killed, Upgrade, Ends
<1>2. Shape'
  <2>1. CASE child' = child
    BY <2>1 DEF IInv, Shape, Leave, Signal, Killed, Upgrade, Ends, NoStream
  <2>2. CASE child' = [child EXCEPT ![lv.pid] = NoChild]
    BY <2>2 DEF IInv, Shape, ChildShaped, NoChild, Leave, Signal, Killed, Upgrade, Ends, NoStream
  <2> QED
    BY <2>1, <2>2 DEF Leave, Signal, Killed, Upgrade
<1>3. PidsHeld' /\ NoneBefore' /\ EndedGone' /\ OneChild'
  BY <1>1 DEF PidsHeld, NoneBefore, EndedGone, OneChild, NoStream
<1>4. NoneLeft'
  <2> SUFFICES ASSUME dashboard'.ended \in {"quit", "signal"}
               PROVE  \A p \in Pids : child'[p] = NoChild
    BY DEF NoneLeft, Alive, NoChild
  <2>1. CASE Leave
    BY <2>1 DEF IInv, NoneBefore, Leave
  <2>2. CASE Signal
    <3>1. dashboard.at \notin {"read", "store"}
      BY <2>2 DEF Signal, Ends, How
    <3>2. \A p \in Pids : child[p] # NoChild => p = lv.pid
      BY <1>1, <3>1 DEF IInv, OneChild
    <3>3. CASE lv.pid = 0
      <4>1. \A p \in Pids : p # 0
        BY LogStreamAssumption
      <4> QED
        BY <2>2, <3>2, <3>3, <4>1 DEF Signal
    <3>4. CASE lv.pid # 0
      BY <2>2, <3>2, <3>4 DEF IInv, Shape, Signal
    <3> QED
      BY <3>3, <3>4
  <2>3. CASE Killed \/ Upgrade
    BY <2>3 DEF Killed, Upgrade, Ends
  <2> QED
    BY <2>1, <2>2, <2>3
<1> QED
  BY <1>2, <1>3, <1>4 DEF IInv

\* Every step keeps it.
LEMMA NextIInv == IInv /\ [Next]_vars => IInv'
<1> SUFFICES ASSUME IInv, [Next]_vars PROVE IInv'
  OBVIOUS
<1>1. CASE \E app \in Apps : Log(app)
  BY <1>1, LogStep, ChildrenKeep DEF Log
<1>2. CASE Children \/ \E p \in Pids : Dies(p)
  <2>1. PICK p \in Pids : Prints(p) \/ Opens(p) \/ Writes(p) \/ Obeys(p) \/ Dies(p)
    BY <1>2 DEF Children
  <2>2. UNCHANGED << lv, dashboard >>
    BY <2>1 DEF Prints, Opens, Writes, Obeys, Dies
  <2> QED
    BY <2>1, <2>2, ChildStep, ChildrenKeep
<1>3. CASE Loop
  BY <1>3, FrameStep, CleanupStep, SetAppStep, EndStep DEF Loop
<1>4. CASE (\E target \in Targets \cup Invalid : Switch(target)) \/ Quit
  BY <1>4, FrameStep
<1>5. CASE Signal \/ Killed \/ Upgrade
  BY <1>5, EndStep
<1>6. CASE UNCHANGED vars
  <2>1. ChildrenStep
    BY <1>6 DEF IInv, Shape, ChildrenStep, vars, Alive
  <2> QED
    BY <1>6, <2>1, ChildrenKeep DEF vars
<1> QED
  BY <1>1, <1>2, <1>3, <1>4, <1>5, <1>6 DEF Next

\* So it always holds.
LEMMA Invariance == Spec => []IInv
<1> QED
  BY InitIInv, NextIInv, PTL DEF Spec

\* However switches, failures, dying children and the end of the dashboard fall
\* together, it has one child at a time and knows its pid (log_viewer_cleanup,
\* log_viewer_set_app).
THEOREM OneChildAlways == Spec => []OneChild
<1>1. IInv => OneChild
  BY DEF IInv
<1> QED
  BY <1>1, Invariance, PTL

\* q, and a signal that does not meet a fork, leave no journalctl behind
\* (log_viewer_cleanup, handle_sig_exit).
THEOREM NoneLeftBehind == Spec => []NoneLeft
<1>1. IInv => NoneLeft
  BY DEF IInv
<1> QED
  BY <1>1, Invariance, PTL

-----------------------------------------------------------------------------
(* What is written on a pipe, and what is made of it. *)

\* The bytes a slot holds besides its terminator.
Room == LineCap - 1

\* n bytes of the i-th line, q full pieces of it.
Run(i, n) == [b \in 1 .. n |-> i]
Fulls(i, q) == [j \in 1 .. q |-> Run(i, Room)]

\* Lines by their number, and the pieces a slot can hold of one.
Line == 1 .. MaxLogged
Piece == {s \in Seq(Line) : Len(s) \in 1 .. Room}

\* The journal is a sequence of lines.
Journaled == journal \in Seq([app : Apps, length : Lengths]) /\ Len(journal) <= MaxLogged

\* What the lines printed read like on a pipe.
OutputOf(prints) == FlattenSeq([i \in DOMAIN prints |-> Written(prints[i])])

\* The room of a slot, the cap of the journal and the lengths are numbers, none a zero.
LEMMA Rooms ==
  /\ LineCap \in Nat /\ Room \in Nat /\ Room >= 1 /\ MaxLogged \in Nat
  /\ 0 \notin Lengths /\ Lengths \subseteq Nat
BY LogStreamAssumption DEF Room

\* A logged line has a length and a number that is no newline.
LEMMA LengthOf ==
  ASSUME Journaled, NEW i, i \in 1 .. Len(journal)
  PROVE  /\ journal[i].length \in Nat /\ journal[i].length >= 1
         /\ i \in Line /\ i \in Nat /\ i # Newline
<1>1. Len(journal) \in Nat
  BY LenProperties DEF Journaled
<1>2. journal[i] \in [app : Apps, length : Lengths]
  BY ElementOfSeq DEF Journaled
<1>3. journal[i].length \in Lengths
  BY <1>2
<1>4. journal[i].length \in Nat /\ journal[i].length >= 1
  <2>1. PICK n : n = journal[i].length
    OBVIOUS
  <2>2. n \in Nat /\ n # 0
    BY <1>3, <2>1, Rooms
  <2>3. n >= 1
    BY <2>2
  <2> QED  BY <2>1, <2>2, <2>3
<1> QED  BY <1>1, <1>4, Rooms DEF Journaled, Line, Newline

\* n bytes of a line fit a slot that has room for them; one byte more is the longer run.
LEMMA RunType ==
  ASSUME NEW i, i \in Line, NEW n, n \in Nat
  PROVE  /\ Run(i, n) \in Seq(Line) /\ Len(Run(i, n)) = n
         /\ \A b \in 1 .. n : Run(i, n)[b] = i
         /\ n \in 1 .. Room => Run(i, n) \in Piece
         /\ n = 0 => Run(i, n) = << >>
         /\ Run(i, n) = << >> => n = 0
         /\ Append(Run(i, n), i) = Run(i, n + 1)
<1>1. PICK r : r = Run(i, n)
  OBVIOUS
<1>2. r = [b \in 1 .. n |-> i]
  BY <1>1 DEF Run
<1>3. r \in Seq(Line) /\ Len(r) = n /\ \A b \in 1 .. n : r[b] = i
  BY <1>2
<1>4. n \in 1 .. Room => r \in Piece
  BY <1>3 DEF Piece
<1>5. n = 0 => r = << >>
  BY <1>3, EmptySeq
<1>6. r = << >> => n = 0
  BY <1>3, EmptySeq
<1>7. PICK s : s = Run(i, n + 1)
  OBVIOUS
<1>8. s = [b \in 1 .. n + 1 |-> i]
  BY <1>7 DEF Run
<1>9. s \in Seq(Line) /\ Len(s) = n + 1 /\ \A b \in 1 .. n + 1 : s[b] = i
  BY <1>8
<1>10. PICK a : a = Append(r, i)
  OBVIOUS
<1>11. /\ a \in Seq(Line) /\ Len(a) = n + 1 /\ a[n + 1] = i
       /\ \A b \in 1 .. n : a[b] = r[b]
  BY <1>3, <1>10, AppendProperties
<1>12. \A b \in 1 .. n + 1 : a[b] = s[b]
  BY <1>3, <1>9, <1>11
<1>13. a = s
  BY <1>9, <1>11, <1>12, SeqEqual
<1> QED  BY <1>1, <1>3, <1>4, <1>5, <1>6, <1>7, <1>10, <1>13

\* q full pieces of a line; one full piece more is q + 1 of them.
LEMMA FullsType ==
  ASSUME NEW i, i \in Line, NEW q, q \in Nat
  PROVE  /\ Fulls(i, q) \in Seq(Piece) /\ Len(Fulls(i, q)) = q
         /\ q = 0 => Fulls(i, q) = << >>
         /\ Append(Fulls(i, q), Run(i, Room)) = Fulls(i, q + 1)
<1>0. PICK full : full = Run(i, Room)
  OBVIOUS
<1>0a. full \in Piece
  BY <1>0, Rooms, RunType
<1>1. PICK r : r = Fulls(i, q)
  OBVIOUS
<1>2. r = [b \in 1 .. q |-> full]
  BY <1>0, <1>1 DEF Fulls
<1>3. r \in Seq(Piece) /\ Len(r) = q /\ \A b \in 1 .. q : r[b] = full
  BY <1>0a, <1>2
<1>5. q = 0 => r = << >>
  BY <1>3, EmptySeq
<1>7. PICK s : s = Fulls(i, q + 1)
  OBVIOUS
<1>8. s = [b \in 1 .. q + 1 |-> full]
  BY <1>0, <1>7 DEF Fulls
<1>9. s \in Seq(Piece) /\ Len(s) = q + 1 /\ \A b \in 1 .. q + 1 : s[b] = full
  BY <1>0a, <1>8
<1>10. PICK a : a = Append(r, full)
  OBVIOUS
<1>11. /\ a \in Seq(Piece) /\ Len(a) = q + 1 /\ a[q + 1] = full
       /\ \A b \in 1 .. q : a[b] = r[b]
  BY <1>0a, <1>3, <1>10, AppendProperties
<1>12. \A b \in 1 .. q + 1 : a[b] = s[b]
  BY <1>3, <1>9, <1>11
<1>13. a = s
  BY <1>9, <1>11, <1>12, SeqEqual
<1> QED  BY <1>0, <1>1, <1>3, <1>5, <1>7, <1>10, <1>13

\* A line is written as its bytes and a newline.
LEMMA WrittenType ==
  ASSUME Journaled, NEW i, i \in 1 .. Len(journal)
  PROVE  /\ Written(i) \in Seq(Bytes) /\ Len(Written(i)) = journal[i].length + 1
         /\ \A b \in 1 .. journal[i].length : Written(i)[b] = i
         /\ Written(i)[journal[i].length + 1] = Newline
<1>1. PICK n : n = journal[i].length
  OBVIOUS
<1>2. n \in Nat /\ i \in Line /\ i \in Bytes /\ Newline \in Bytes
  BY <1>1, LengthOf, Rooms DEF Line, Bytes, Newline
<1>3. PICK r : r = [b \in 1 .. n |-> i]
  OBVIOUS
<1>4. r \in Seq(Bytes) /\ Len(r) = n /\ \A b \in 1 .. n : r[b] = i
  BY <1>2, <1>3
<1>7. PICK w : w = Append(r, Newline)
  OBVIOUS
<1>8. /\ w \in Seq(Bytes) /\ Len(w) = n + 1 /\ w[n + 1] = Newline
      /\ \A b \in 1 .. n : w[b] = r[b]
  BY <1>2, <1>4, <1>7, AppendProperties
<1>9. Written(i) = w
  <2>1. Written(i) = r \o << Newline >>
    BY <1>1, <1>3 DEF Written
  <2>2. Append(r, Newline) = r \o << Newline >>
    BY <1>2, <1>4, AppendIsConcat
  <2> QED  BY <1>7, <2>1, <2>2
<1>10. \A b \in 1 .. n : w[b] = i
  BY <1>4, <1>8
<1> QED  BY <1>1, <1>8, <1>9, <1>10

\* A quotient and a remainder are those of the division.
LEMMA DivMod ==
  ASSUME NEW n, n \in Nat, NEW r, r \in Nat, r >= 1, NEW q, q \in Nat, NEW l, l \in Nat, l < r,
         n = q * r + l
  PROVE  n \div r = q /\ n % r = l
<1>1. PICK d, m : d = n \div r /\ m = n % r
  OBVIOUS
<1>2. d \in Nat /\ m \in Nat /\ m < r /\ n = d * r + m
  BY <1>1
<1>3. d = q
  <2>1. d < q => (d + 1) * r <= q * r
    BY <1>2
  <2>2. q < d => (q + 1) * r <= d * r
    BY <1>2
  <2>3. (d + 1) * r = d * r + r /\ (q + 1) * r = q * r + r
    BY <1>2
  <2>4. d * r \in Nat /\ q * r \in Nat
    BY <1>2
  <2> QED  BY <1>2, <2>1, <2>2, <2>3, <2>4
<1>4. m = l
  BY <1>2, <1>3
<1> QED  BY <1>1, <1>3, <1>4

\* A line of q full pieces and a last one.
LEMMA PiecesOfLine ==
  ASSUME Journaled, NEW i, i \in 1 .. Len(journal), NEW q, q \in Nat, NEW l, l \in 1 .. Room,
         journal[i].length = q * Room + l
  PROVE  PiecesOf(i) \in Seq(Piece) /\ PiecesOf(i) = Append(Fulls(i, q), Run(i, l))
<1>1. i \in Line /\ Room \in Nat /\ Room >= 1
  BY LengthOf, Rooms
<1>2. PICK fulls, last : fulls = Fulls(i, q) /\ last = Run(i, l)
  OBVIOUS
<1>3. fulls \in Seq(Piece) /\ last \in Piece
  <2>1. l \in Nat
    BY <1>1
  <2> QED  BY <1>1, <1>2, <2>1, FullsType, RunType
<1>4. Append(fulls, last) \in Seq(Piece)
  BY <1>3, AppendProperties
<1>5. PICK whole, rest : whole = journal[i].length \div Room /\ rest = journal[i].length % Room
  OBVIOUS
<1>6. PiecesOf(i) = [k \in 1 .. whole |-> [b \in 1 .. Room |-> i]]
                      \o (IF rest = 0 THEN << >> ELSE << [b \in 1 .. rest |-> i] >>)
  BY <1>5 DEF PiecesOf, Room
<1>7. PiecesOf(i) = Fulls(i, whole) \o (IF rest = 0 THEN << >> ELSE << Run(i, rest) >>)
  BY <1>6 DEF Fulls, Run
<1>8. PICK n : n = journal[i].length
  OBVIOUS
<1>9. n \in Nat /\ n = q * Room + l
  BY <1>8, LengthOf
<1>10. CASE l = Room
  <2>1. n = (q + 1) * Room + 0 /\ q + 1 \in Nat
    BY <1>1, <1>9, <1>10
  <2>2. whole = q + 1 /\ rest = 0
    BY <1>1, <1>5, <1>8, <1>9, <2>1, DivMod
  <2>3. PICK f : f = Fulls(i, q + 1)
    OBVIOUS
  <2>4. f \in Seq(Piece) /\ f = Append(fulls, last)
    BY <1>1, <1>2, <1>10, <2>1, <2>3, FullsType
  <2>5. f \o << >> = f
    BY <2>4, ConcatEmptySeq
  <2> QED  BY <1>2, <1>7, <2>2, <2>3, <2>4, <2>5
<1>11. CASE l # Room
  <2>1. l \in Nat /\ l < Room /\ l # 0
    BY <1>1, <1>11
  <2>2. whole = q /\ rest = l
    BY <1>1, <1>5, <1>8, <1>9, <2>1, DivMod
  <2>3. Append(fulls, last) = fulls \o << last >>
    BY <1>3, AppendIsConcat
  <2> QED  BY <1>2, <1>4, <1>7, <2>1, <2>2, <2>3
<1> QED  BY <1>10, <1>11

\* Every line is one of that kind.
LEMMA LineCut ==
  ASSUME Journaled, NEW i, i \in 1 .. Len(journal)
  PROVE  \E q \in Nat, l \in 1 .. Room : journal[i].length = q * Room + l
<1>1. PICK n : n = journal[i].length
  OBVIOUS
<1>2. n \in Nat /\ n >= 1 /\ Room \in Nat /\ Room >= 1
  BY <1>1, LengthOf, Rooms
<1>3. PICK d, m : d = (n - 1) \div Room /\ m = (n - 1) % Room
  OBVIOUS
<1>4. d \in Nat /\ m \in Nat /\ m < Room /\ n - 1 = d * Room + m
  <2>1. n - 1 \in Nat
    BY <1>2
  <2> QED  BY <1>2, <1>3, <2>1
<1>5. m + 1 \in 1 .. Room /\ n = d * Room + (m + 1)
  BY <1>2, <1>4
<1> QED  BY <1>1, <1>4, <1>5

\* The pieces of a line fit their slots.
LEMMA PiecesOfType ==
  ASSUME Journaled, NEW i, i \in 1 .. Len(journal)
  PROVE  PiecesOf(i) \in Seq(Piece)
<1>1. PICK q \in Nat, l \in 1 .. Room : journal[i].length = q * Room + l
  BY LineCut
<1> QED  BY <1>1, PiecesOfLine

\* The lines the journal holds.
Logged == 1 .. Len(journal)

\* What a child that prints these lines writes, and the pieces they make.
LEMMA OutputJoined ==
  ASSUME Journaled
  PROVE  \E w : /\ StandFor(w, Logged, Bytes) /\ \A i \in Logged : w[i] = Written(i)
                /\ \A s \in Seq(Logged) : OutputOf(s) = Joined(w, s)
<1>1. PICK w : w = [i \in Logged |-> Written(i)]
  OBVIOUS
<1>2. \A i \in Logged : w[i] = Written(i) /\ Written(i) \in Seq(Bytes)
  BY <1>1, WrittenType DEF Logged
<1>3. StandFor(w, Logged, Bytes)
  BY <1>1, <1>2 DEF StandFor
<1>4. ASSUME NEW s \in Seq(Logged) PROVE OutputOf(s) = Joined(w, s)
  <2>1. \A i \in DOMAIN s : s[i] \in Logged
    BY LenProperties, ElementOfSeq
  <2>2. [i \in DOMAIN s |-> w[s[i]]] = [i \in DOMAIN s |-> Written(s[i])]
    BY <1>2, <2>1
  <2> QED  BY <2>2 DEF OutputOf, Joined, Each
<1> QED  BY <1>2, <1>3, <1>4

\* What log_viewer_poll is to store of some lines is the pieces of each, joined.
LEMMA PiecesJoined ==
  ASSUME Journaled
  PROVE  \E w : /\ StandFor(w, Logged, Piece) /\ \A i \in Logged : w[i] = PiecesOf(i)
                /\ \A s \in Seq(Logged) : Pieces(s) = Joined(w, s)
<1>1. PICK w : w = [i \in Logged |-> PiecesOf(i)]
  OBVIOUS
<1>2. \A i \in Logged : w[i] = PiecesOf(i) /\ PiecesOf(i) \in Seq(Piece)
  BY <1>1, PiecesOfType DEF Logged
<1>3. StandFor(w, Logged, Piece)
  BY <1>1, <1>2 DEF StandFor
<1>4. ASSUME NEW s \in Seq(Logged) PROVE Pieces(s) = Joined(w, s)
  <2>1. \A i \in DOMAIN s : s[i] \in Logged
    BY LenProperties, ElementOfSeq
  <2>2. [i \in DOMAIN s |-> w[s[i]]] = [i \in DOMAIN s |-> PiecesOf(s[i])]
    BY <1>2, <2>1
  <2> QED  BY <2>2 DEF Pieces, Joined, Each
<1> QED  BY <1>2, <1>3, <1>4

\* The bytes of the first k lines, and of one line more.
LEMMA OutputFacts ==
  ASSUME Journaled, NEW s, s \in Seq(Logged)
  PROVE  /\ OutputOf(s) \in Seq(Bytes) /\ Len(OutputOf(s)) \in Nat
         /\ OutputOf(<< >>) = << >>
         /\ \A k \in Nat : k < Len(s) =>
              OutputOf(SubSeq(s, 1, k + 1)) = OutputOf(SubSeq(s, 1, k)) \o Written(s[k + 1])
         /\ \A k \in 0 .. Len(s) : Continues(Bytes, OutputOf(s), OutputOf(SubSeq(s, 1, k)))
<1>1. PICK w : /\ StandFor(w, Logged, Bytes) /\ \A i \in Logged : w[i] = Written(i)
               /\ \A t \in Seq(Logged) : OutputOf(t) = Joined(w, t)
  BY OutputJoined
<1>2. << >> \in Seq(Logged) /\ OutputOf(<< >>) = << >>
  BY <1>1, EmptySeq, JoinedEmpty
<1>3. Joined(w, s) \in Seq(Bytes)
  BY <1>1, JoinedParts
<1>4. OutputOf(s) \in Seq(Bytes) /\ Len(OutputOf(s)) \in Nat
  BY <1>1, <1>3, LenProperties
<1>5. ASSUME NEW k, k \in Nat, k < Len(s)
      PROVE  /\ OutputOf(SubSeq(s, 1, k + 1)) = OutputOf(SubSeq(s, 1, k)) \o Written(s[k + 1])
  <2>1. PICK a, b, x : a = SubSeq(s, 1, k) /\ b = SubSeq(s, 1, k + 1) /\ x = s[k + 1]
    OBVIOUS
  <2>2. a \in Seq(Logged) /\ x \in Logged /\ b = Append(a, x)
    BY <1>5, <2>1, SubSeqNext
  <2>3. b \in Seq(Logged)
    BY <2>2, AppendProperties
  <2>4. Joined(w, Append(a, x)) = Joined(w, a) \o w[x]
    BY <1>1, <2>2, JoinedAppend
  <2> QED  BY <1>1, <2>1, <2>2, <2>3, <2>4
<1>6. ASSUME NEW k, k \in 0 .. Len(s)
      PROVE  Continues(Bytes, OutputOf(s), OutputOf(SubSeq(s, 1, k)))
  <2>1. SubSeq(s, 1, k) \in Seq(Logged)
    <3>1. \A i \in 1 .. k : s[i] \in Logged
      BY <1>6, LenProperties, ElementOfSeq
    <3> QED  BY <1>6, <3>1, LenProperties, SubSeqProperties
  <2>2. Continues(Bytes, Joined(w, s), Joined(w, SubSeq(s, 1, k)))
    BY <1>1, <1>6, JoinedPrefix
  <2> QED  BY <1>1, <2>1, <2>2
<1> QED  BY <1>2, <1>4, <1>5, <1>6

\* The pieces of the first k lines, and of one line more.
LEMMA PieceFacts ==
  ASSUME Journaled, NEW s, s \in Seq(Logged)
  PROVE  /\ Pieces(s) \in Seq(Piece)
         /\ Pieces(<< >>) = << >>
         /\ \A k \in Nat : k < Len(s) =>
              Pieces(SubSeq(s, 1, k + 1)) = Pieces(SubSeq(s, 1, k)) \o PiecesOf(s[k + 1])
         /\ \A k \in 0 .. Len(s) : Continues(Piece, Pieces(s), Pieces(SubSeq(s, 1, k)))
<1>1. PICK w : /\ StandFor(w, Logged, Piece) /\ \A i \in Logged : w[i] = PiecesOf(i)
               /\ \A t \in Seq(Logged) : Pieces(t) = Joined(w, t)
  BY PiecesJoined
<1>2. << >> \in Seq(Logged) /\ Pieces(<< >>) = << >>
  BY <1>1, EmptySeq, JoinedEmpty
<1>3. Joined(w, s) \in Seq(Piece)
  BY <1>1, JoinedParts
<1>4. Pieces(s) \in Seq(Piece)
  BY <1>1, <1>3
<1>5. ASSUME NEW k, k \in Nat, k < Len(s)
      PROVE  /\ Pieces(SubSeq(s, 1, k + 1)) = Pieces(SubSeq(s, 1, k)) \o PiecesOf(s[k + 1])
  <2>1. PICK a, b, x : a = SubSeq(s, 1, k) /\ b = SubSeq(s, 1, k + 1) /\ x = s[k + 1]
    OBVIOUS
  <2>2. a \in Seq(Logged) /\ x \in Logged /\ b = Append(a, x)
    BY <1>5, <2>1, SubSeqNext
  <2>3. b \in Seq(Logged)
    BY <2>2, AppendProperties
  <2>4. Joined(w, Append(a, x)) = Joined(w, a) \o w[x]
    BY <1>1, <2>2, JoinedAppend
  <2> QED  BY <1>1, <2>1, <2>2, <2>3, <2>4
<1>6. ASSUME NEW k, k \in 0 .. Len(s)
      PROVE  Continues(Piece, Pieces(s), Pieces(SubSeq(s, 1, k)))
  <2>1. SubSeq(s, 1, k) \in Seq(Logged)
    <3>1. \A i \in 1 .. k : s[i] \in Logged
      BY <1>6, LenProperties, ElementOfSeq
    <3> QED  BY <1>6, <3>1, LenProperties, SubSeqProperties
  <2>2. Continues(Piece, Joined(w, s), Joined(w, SubSeq(s, 1, k)))
    BY <1>1, <1>6, JoinedPrefix
  <2> QED  BY <1>1, <2>1, <2>2
<1> QED  BY <1>2, <1>4, <1>5, <1>6

-----------------------------------------------------------------------------
(* What was made of the first bytes: k lines, and of the next q pieces and l bytes. *)

ParsedTo(s, read, partial, came, k, q, l) ==
  /\ k \in 0 .. Len(s) /\ q \in Nat /\ l \in 0 .. Room
  /\ read = Len(OutputOf(SubSeq(s, 1, k))) + (q * Room + l)
  /\ l = 0 => q = 0
  /\ k = Len(s) => /\ q = 0 /\ l = 0
                   /\ partial = << >>
                   /\ came = Pieces(SubSeq(s, 1, k))
  /\ k < Len(s) => /\ q * Room + l <= journal[s[k + 1]].length
                   /\ partial = Run(s[k + 1], l)
                   /\ came = Pieces(SubSeq(s, 1, k)) \o Fulls(s[k + 1], q)

\* Read in some way: the split into reads does not show.
Parsed(s, read, partial, came) == \E k, q, l : ParsedTo(s, read, partial, came, k, q, l)

\* The place of the next byte after k lines and m bytes, and what is there.
AtByte(s, k, m) ==
  s \in Seq(Logged) /\ k \in Nat /\ k < Len(s) /\ m \in Nat /\ m <= journal[s[k + 1]].length

ByteIs(s, k, m) ==
  OutputOf(s)[Len(OutputOf(SubSeq(s, 1, k))) + (m + 1)] = Written(s[k + 1])[m + 1]

\* The next byte of the pipe is the next one of the line that is being read.
LEMMA NextByte ==
  ASSUME Journaled, NEW s, NEW k, NEW m, AtByte(s, k, m)
  PROVE  ByteIs(s, k, m)
<1>0. /\ s \in Seq(Logged) /\ k \in Nat /\ k < Len(s) /\ m \in Nat
      /\ m <= journal[s[k + 1]].length
  BY DEF AtByte
<1>1. PICK i, n, a, b, o : /\ i = s[k + 1] /\ n = journal[i].length
                           /\ a = OutputOf(SubSeq(s, 1, k)) /\ b = OutputOf(SubSeq(s, 1, k + 1))
                           /\ o = OutputOf(s)
  OBVIOUS
<1>2. i \in Logged /\ SubSeq(s, 1, k) \in Seq(Logged) /\ Len(s) \in Nat
  BY <1>0, <1>1, SubSeqNext, LenProperties
<1>3. PICK w : w = Written(i)
  OBVIOUS
<1>4. w \in Seq(Bytes) /\ Len(w) = n + 1 /\ n \in Nat
  BY <1>1, <1>2, <1>3, WrittenType, LengthOf DEF Logged
<1>5. a \in Seq(Bytes) /\ Len(a) \in Nat
  BY <1>0, <1>1, <1>2, OutputFacts
<1>6. b = a \o w
  BY <1>0, <1>1, <1>3, OutputFacts
<1>7. k + 1 \in 0 .. Len(s)
  BY <1>0, <1>2
<1>8. Continues(Bytes, o, b)
  BY <1>0, <1>1, <1>7, OutputFacts
<1>9. PICK r : r \in Seq(Bytes) /\ o = b \o r
  BY <1>8 DEF Continues
<1>10. b \in Seq(Bytes) /\ Len(b) = Len(a) + (n + 1)
  <2>1. a \o w \in Seq(Bytes) /\ Len(a \o w) = Len(a) + Len(w)
    BY <1>4, <1>5, ConcatProperties
  <2> QED  BY <1>4, <1>6, <2>1
<1>11. Len(a) + (m + 1) \in 1 .. Len(b)
  <2>1. PICK x, y : x = Len(a) /\ y = Len(b)
    OBVIOUS
  <2>2. x \in Nat /\ y = x + (n + 1) /\ n \in Nat
    BY ONLY <1>4, <1>5, <1>10, <2>1
  <2>3. m \in Nat /\ m <= n
    BY ONLY <1>0, <1>1
  <2>4. x + (m + 1) \in 1 .. y
    BY ONLY <2>2, <2>3
  <2> QED  BY ONLY <2>1, <2>4
<1>12. o[Len(a) + (m + 1)] = b[Len(a) + (m + 1)]
  BY <1>9, <1>10, <1>11, ConcatProperties
<1>13. b[Len(a) + (m + 1)] = w[m + 1]
  <2>1. PICK x : x = Len(a) + (m + 1)
    OBVIOUS
  <2>2. x \in 1 .. Len(a) + Len(w) /\ ~(x <= Len(a)) /\ x - Len(a) = m + 1
    <3>1. PICK y : y = Len(a)
      OBVIOUS
    <3>2. y \in Nat /\ x = y + (m + 1) /\ n \in Nat /\ Len(w) = n + 1
      BY ONLY <1>4, <1>5, <2>1, <3>1
    <3>3. m \in Nat /\ m <= n
      BY ONLY <1>0, <1>1
    <3>4. x \in 1 .. y + (n + 1) /\ ~(x <= y) /\ x - y = m + 1
      BY ONLY <3>2, <3>3
    <3> QED  BY ONLY <3>1, <3>2, <3>4
  <2>3. (a \o w)[x] = w[x - Len(a)]
    BY <1>4, <1>5, <2>2, ConcatProperties
  <2> QED  BY <1>6, <2>1, <2>2, <2>3
<1> QED  BY <1>1, <1>3, <1>12, <1>13 DEF ByteIs

\* While bytes are left a line is left, and the next byte is one of it or its newline.
LEMMA ParsedNext ==
  ASSUME Journaled, NEW s, s \in Seq(Logged), NEW read, NEW partial, NEW came,
         NEW k, NEW q, NEW l, ParsedTo(s, read, partial, came, k, q, l),
         read < Len(OutputOf(s))
  PROVE  /\ k \in Nat /\ k < Len(s) /\ Len(s) \in Nat
         /\ q \in Nat /\ l \in Nat
         /\ s[k + 1] \in Logged
         /\ OutputOf(s)[read + 1] = IF q * Room + l < journal[s[k + 1]].length
                                    THEN s[k + 1] ELSE Newline
<1>1. Len(s) \in Nat /\ k \in 0 .. Len(s) /\ k \in Nat /\ q \in Nat /\ l \in Nat /\ Room \in Nat
  BY LenProperties, Rooms DEF ParsedTo
<1>2. k # Len(s)
  <2>1. SUFFICES ASSUME k = Len(s) PROVE FALSE
    OBVIOUS
  <2>2. SubSeq(s, 1, k) = s
    <3>1. PICK t : t = SubSeq(s, 1, k)
      OBVIOUS
    <3>2. \A i \in 1 .. k : s[i] \in Logged
      BY <1>1, ElementOfSeq
    <3>3. t \in Seq(Logged) /\ Len(t) = k /\ \A i \in 1 .. k : t[i] = s[i]
      BY <1>1, <3>1, <3>2, SubSeqProperties
    <3> QED  BY <2>1, <3>1, <3>3, SeqEqual
  <2>3. q = 0 /\ l = 0 /\ read = Len(OutputOf(s)) + (q * Room + l)
    BY <2>1, <2>2 DEF ParsedTo
  <2>4. Len(OutputOf(s)) \in Nat
    BY OutputFacts
  <2> QED  BY <1>1, <2>3, <2>4
<1>3. k < Len(s) /\ s[k + 1] \in Logged
  <2>1. k < Len(s)
    BY <1>1, <1>2
  <2> QED  BY <1>1, <2>1, SubSeqNext
<1>4. PICK m, n, i, e : /\ m = q * Room + l /\ i = s[k + 1] /\ n = journal[i].length
                        /\ e = Len(OutputOf(SubSeq(s, 1, k)))
  OBVIOUS
<1>5. m \in Nat /\ n \in Nat /\ m <= n
  <2>1. q * Room \in Nat
    BY <1>1
  <2>2. n \in Nat
    BY <1>3, <1>4, LengthOf DEF Logged
  <2>3. q * Room + l <= journal[s[k + 1]].length
    BY <1>3 DEF ParsedTo
  <2> QED  BY <1>1, <1>4, <2>1, <2>2, <2>3
<1>6. e \in Nat
  <2>1. SubSeq(s, 1, k) \in Seq(Logged)
    BY <1>1, <1>3, SubSeqNext
  <2> QED  BY <1>4, <2>1, OutputFacts
<1>7. read + 1 = e + (m + 1)
  <2>1. read = e + m
    BY <1>4 DEF ParsedTo
  <2> QED  BY <1>5, <1>6, <2>1
<1>8. OutputOf(s)[e + (m + 1)] = Written(i)[m + 1]
  <2>1. AtByte(s, k, m)
    BY <1>1, <1>3, <1>4, <1>5 DEF AtByte
  <2>2. ByteIs(s, k, m)
    BY <2>1, NextByte
  <2> QED  BY <1>4, <2>2 DEF ByteIs
<1>9. Written(i)[m + 1] = IF m < n THEN i ELSE Newline
  <2>1. /\ \A b \in 1 .. n : Written(i)[b] = i
        /\ Written(i)[n + 1] = Newline
    BY <1>3, <1>4, WrittenType DEF Logged
  <2>2. CASE m < n
    <3>1. m + 1 \in 1 .. n
      BY <1>5, <2>2
    <3> QED  BY <2>1, <2>2, <3>1
  <2>3. CASE ~(m < n)
    <3>1. m = n
      BY <1>5, <2>3
    <3> QED  BY <2>1, <2>3, <3>1
  <2> QED  BY <2>2, <2>3
<1> QED  BY <1>1, <1>3, <1>4, <1>7, <1>8, <1>9

\* What log_viewer_poll has gathered: a partial line, and behind base what it stored.
Gathers(got, s, base, read) ==
  /\ got = [partial |-> got.partial, lines |-> got.lines]
  /\ got.partial \in Seq(Line)
  /\ \E came : /\ came \in Seq(Piece) /\ got.lines = base \o came
               /\ Parsed(s, read, got.partial, came)

\* A byte that fits.
LEMMA FeedFits ==
  ASSUME Journaled, NEW s, s \in Seq(Logged), NEW base, base \in Seq(Piece),
         NEW got, NEW came, NEW read, NEW k, NEW q, NEW l,
         got = [partial |-> got.partial, lines |-> got.lines], got.lines = base \o came,
         came \in Seq(Piece), ParsedTo(s, read, got.partial, came, k, q, l),
         k \in Nat, k < Len(s), q \in Nat, l \in Nat, read \in Nat,
         q * Room + l < journal[s[k + 1]].length, l < Room, s[k + 1] \in Logged
  PROVE  Gathers(Feed(got, s[k + 1]), s, base, read + 1)
<1>1. PICK i, f : i = s[k + 1] /\ f = Feed(got, i)
  OBVIOUS
<1>2. i \in Line /\ i # Newline /\ Room \in Nat
  BY <1>1, LengthOf, Rooms DEF Logged
<1>3. got.partial = Run(i, l)
  BY <1>1 DEF ParsedTo
<1>4. Len(got.partial) = l /\ Append(got.partial, i) = Run(i, l + 1) /\ Run(i, l + 1) \in Seq(Line)
  <2>1. l + 1 \in Nat
    OBVIOUS
  <2> QED  BY <1>2, <1>3, <2>1, RunType
<1>5. f.partial = Run(i, l + 1) /\ f.lines = got.lines
      /\ f = [partial |-> f.partial, lines |-> f.lines]
  <2>1. PICK p, ls : p = got.partial /\ ls = got.lines
    OBVIOUS
  <2>2. got = [partial |-> p, lines |-> ls]
    BY <2>1
  <2>3. f = [got EXCEPT !.partial = Append(@, i)]
    BY <1>1, <1>2, <1>4 DEF Feed, Room
  <2>4. f = [partial |-> Append(p, i), lines |-> ls]
    BY <2>2, <2>3
  <2> QED  BY <1>4, <2>1, <2>4
<1>6. ParsedTo(s, read + 1, Run(i, l + 1), came, k, q, l + 1)
  <2>1. PICK e, m : e = Len(OutputOf(SubSeq(s, 1, k))) /\ m = q * Room + l
    OBVIOUS
  <2>2. e \in Nat
    <3>1. SubSeq(s, 1, k) \in Seq(Logged)
      BY SubSeqNext
    <3> QED  BY <2>1, <3>1, OutputFacts
  <2>3. m \in Nat /\ q * Room + (l + 1) = m + 1
    <3>1. q * Room \in Nat
      BY <1>2
    <3> QED  BY <2>1, <3>1
  <2>4. read = e + m
    BY <2>1 DEF ParsedTo
  <2>5. journal[i].length \in Nat /\ m < journal[i].length
    BY <1>1, <2>1, LengthOf DEF Logged
  <2>6. read + 1 = e + (q * Room + (l + 1)) /\ q * Room + (l + 1) <= journal[i].length
    <3>1. PICK n, mm : n = journal[i].length /\ mm = q * Room + (l + 1)
      OBVIOUS
    <3>2. mm = m + 1 /\ n \in Nat /\ m < n
      BY <2>3, <2>5, <3>1
    <3>3. e \in Nat /\ m \in Nat
      BY <2>2, <2>3
    <3>4. read + 1 = e + mm /\ mm <= n
      BY ONLY <2>4, <3>2, <3>3
    <3> QED  BY <3>1, <3>4
  <2>7. came = Pieces(SubSeq(s, 1, k)) \o Fulls(i, q) /\ k \in 0 .. Len(s)
    BY <1>1 DEF ParsedTo
  <2>8. l + 1 \in 0 .. Room /\ l + 1 # 0 /\ k # Len(s)
    BY <1>2
  <2> QED  BY <1>1, <2>1, <2>6, <2>7, <2>8 DEF ParsedTo
<1> QED  BY <1>1, <1>4, <1>5, <1>6 DEF Gathers, Parsed

\* A byte that does not: the piece is stored.
LEMMA FeedFull ==
  ASSUME Journaled, NEW s, s \in Seq(Logged), NEW base, base \in Seq(Piece),
         NEW got, NEW came, NEW read, NEW k, NEW q, NEW l,
         got = [partial |-> got.partial, lines |-> got.lines], got.lines = base \o came,
         came \in Seq(Piece), ParsedTo(s, read, got.partial, came, k, q, l),
         k \in Nat, k < Len(s), q \in Nat, l \in Nat, read \in Nat,
         q * Room + l < journal[s[k + 1]].length, l = Room, s[k + 1] \in Logged
  PROVE  Gathers(Feed(got, s[k + 1]), s, base, read + 1)
<1>1. PICK i, f, full : i = s[k + 1] /\ f = Feed(got, i) /\ full = Run(i, Room)
  OBVIOUS
<1>2. i \in Line /\ i # Newline /\ Room \in Nat /\ Room >= 1
  BY <1>1, LengthOf, Rooms DEF Logged
<1>3. got.partial = full
  BY <1>1 DEF ParsedTo
<1>4. Len(full) = Room /\ full \in Piece /\ full # << >> /\ 1 \in Nat
  <2>1. Room \in 1 .. Room /\ Room # 0
    BY <1>2
  <2>2. Len(Run(i, Room)) = Room /\ (Room \in 1 .. Room => Run(i, Room) \in Piece)
        /\ (Run(i, Room) = << >> => Room = 0)
    BY ONLY <1>2, RunType
  <2> QED  BY ONLY <1>1, <2>1, <2>2
<1>5. Append(<< >>, i) = Run(i, 1) /\ Run(i, 1) \in Seq(Line)
  <2>1. PICK a, r : a = Append(<< >>, i) /\ r = Run(i, 1)
    OBVIOUS
  <2>2. << >> \in Seq(Line) /\ Len(<< >>) = 0
    BY EmptySeq
  <2>3. a \in Seq(Line) /\ Len(a) = 1 /\ a[1] = i
    BY <1>2, <2>1, <2>2, AppendProperties
  <2>4. r \in Seq(Line) /\ Len(r) = 1 /\ \A b \in 1 .. 1 : r[b] = i
    <3>1. PICK one : one = 1
      OBVIOUS
    <3>2. one \in Nat /\ r = Run(i, one)
      BY <2>1, <3>1
    <3>3. r \in Seq(Line) /\ Len(r) = one /\ \A b \in 1 .. one : r[b] = i
      BY <1>2, <3>2, RunType
    <3> QED  BY <3>1, <3>3
  <2>5. \A b \in 1 .. 1 : a[b] = r[b]
    BY <2>3, <2>4
  <2>6. a = r
    BY <2>3, <2>4, <2>5, SeqEqual
  <2> QED  BY <2>1, <2>4, <2>6
<1>6. PICK more : more = Append(came, full)
  OBVIOUS
<1>7. more \in Seq(Piece) /\ Append(got.lines, full) = base \o more
  <2>1. base \in Seq(Piece) /\ came \in Seq(Piece) /\ full \in Piece
    BY <1>4
  <2>2. AppendsLater(base, came, full)
    BY ONLY <2>1, AppendLater
  <2>3. more \in Seq(Piece)
    BY <1>6, <2>1, AppendProperties
  <2> QED  BY <1>6, <2>2, <2>3 DEF AppendsLater
<1>8. f.partial = Run(i, 1) /\ f.lines = base \o more
      /\ f = [partial |-> f.partial, lines |-> f.lines]
  <2>1. PICK ls : ls = got.lines
    OBVIOUS
  <2>2. got = [partial |-> full, lines |-> ls]
    BY <1>3, <2>1
  <2>3. Flush(got) = [partial |-> << >>, lines |-> Append(ls, full)]
    BY <1>4, <2>2 DEF Flush
  <2>4. f = [Flush(got) EXCEPT !.partial = Append(@, i)]
    <3>1. ~(Len(got.partial) < LineCap - 1)
      BY <1>2, <1>3, <1>4 DEF Room
    <3> QED  BY <1>1, <1>2, <3>1 DEF Feed
  <2>5. f = [partial |-> Append(<< >>, i), lines |-> Append(ls, full)]
    <3>1. PICK g, more1 : g = Flush(got) /\ more1 = Append(ls, full)
      OBVIOUS
    <3>2. g = [partial |-> << >>, lines |-> more1] /\ f = [g EXCEPT !.partial = Append(@, i)]
      BY <2>3, <2>4, <3>1
    <3>3. f = [partial |-> Append(<< >>, i), lines |-> more1]
      BY ONLY <3>2
    <3> QED  BY <3>1, <3>3
  <2> QED  BY <1>5, <1>7, <2>1, <2>5
<1>9. ParsedTo(s, read + 1, Run(i, 1), more, k, q + 1, 1)
  <2>1. PICK e, m : e = Len(OutputOf(SubSeq(s, 1, k))) /\ m = q * Room + l
    OBVIOUS
  <2>2. e \in Nat /\ SubSeq(s, 1, k) \in Seq(Logged)
    <3>1. SubSeq(s, 1, k) \in Seq(Logged)
      BY SubSeqNext
    <3> QED  BY <2>1, <3>1, OutputFacts
  <2>3. m \in Nat /\ (q + 1) * Room + 1 = m + 1
    <3>1. PICK z : z = q * Room
      OBVIOUS
    <3>2. z \in Nat /\ (q + 1) * Room = z + Room
      BY <1>2, <3>1
    <3>3. m = z + Room /\ Room \in Nat
      BY <1>2, <2>1, <3>1
    <3> QED  BY ONLY <3>2, <3>3
  <2>4. read = e + m
    BY <2>1 DEF ParsedTo
  <2>5. journal[i].length \in Nat /\ m < journal[i].length
    BY <1>1, <2>1, LengthOf DEF Logged
  <2>6. read + 1 = e + ((q + 1) * Room + 1) /\ (q + 1) * Room + 1 <= journal[i].length
    <3>1. PICK n, mm : n = journal[i].length /\ mm = (q + 1) * Room + 1
      OBVIOUS
    <3>2. mm = m + 1 /\ n \in Nat /\ m < n
      BY <2>3, <2>5, <3>1
    <3>3. e \in Nat /\ m \in Nat
      BY <2>2, <2>3
    <3>4. read + 1 = e + mm /\ mm <= n
      BY ONLY <2>4, <3>2, <3>3
    <3> QED  BY <3>1, <3>4
  <2>7. came = Pieces(SubSeq(s, 1, k)) \o Fulls(i, q) /\ k \in 0 .. Len(s)
    BY <1>1 DEF ParsedTo
  <2>8. more = Pieces(SubSeq(s, 1, k)) \o Fulls(i, q + 1)
    <3>1. Pieces(SubSeq(s, 1, k)) \in Seq(Piece)
      BY <2>2, PieceFacts
    <3>2. Fulls(i, q) \in Seq(Piece) /\ Append(Fulls(i, q), full) = Fulls(i, q + 1)
      BY <1>1, <1>2, FullsType
    <3>3. PICK x, y : x = Pieces(SubSeq(s, 1, k)) /\ y = Fulls(i, q)
      OBVIOUS
    <3>4. x \in Seq(Piece) /\ y \in Seq(Piece) /\ full \in Piece
      BY <1>4, <3>1, <3>2, <3>3
    <3>5. AppendsLater(x, y, full)
      BY ONLY <3>4, AppendLater
    <3> QED  BY <1>6, <2>7, <3>2, <3>3, <3>5 DEF AppendsLater
  <2>9. q + 1 \in Nat /\ 1 \in 0 .. Room /\ k # Len(s)
    BY <1>2
  <2> QED  BY <1>1, <2>1, <2>6, <2>7, <2>8, <2>9 DEF ParsedTo
<1> QED  BY <1>1, <1>5, <1>7, <1>8, <1>9 DEF Gathers, Parsed

\* Between two lines.
LEMMA ParsedBetween ==
  ASSUME Journaled, NEW s, s \in Seq(Logged), NEW k, k \in 0 .. Len(s)
  PROVE  ParsedTo(s, Len(OutputOf(SubSeq(s, 1, k))), << >>, Pieces(SubSeq(s, 1, k)), k, 0, 0)
<1>1. Room \in Nat /\ 0 \in 0 .. Room /\ 0 \in Nat /\ 0 * Room + 0 = 0 /\ Len(s) \in Nat /\ k \in Nat
  BY Rooms, LenProperties
<1>2. PICK t : t = SubSeq(s, 1, k)
  OBVIOUS
<1>3. t \in Seq(Logged)
  <2>1. \A i \in 1 .. k : s[i] \in Logged
    BY <1>1, ElementOfSeq
  <2> QED  BY <1>1, <1>2, <2>1, SubSeqProperties
<1>4. Len(OutputOf(t)) = Len(OutputOf(t)) + (0 * Room + 0)
  <2>1. Len(OutputOf(t)) \in Nat
    BY <1>3, OutputFacts
  <2> QED  BY <1>1, <2>1
<1>5. ASSUME k < Len(s)
      PROVE  /\ 0 * Room + 0 <= journal[s[k + 1]].length
             /\ << >> = Run(s[k + 1], 0)
             /\ Pieces(t) = Pieces(t) \o Fulls(s[k + 1], 0)
  <2>1. PICK i, zero : i = s[k + 1] /\ zero = 0
    OBVIOUS
  <2>2. i \in Logged
    BY <1>1, <1>5, <2>1, SubSeqNext
  <2>3. i \in Line /\ journal[i].length \in Nat
    BY <2>2, LengthOf DEF Logged
  <2>4. Run(i, zero) = << >> /\ Fulls(i, zero) = << >>
    <3>1. zero \in Nat
      BY <2>1
    <3> QED  BY <2>1, <2>3, <3>1, RunType, FullsType
  <2>5. Pieces(t) \o << >> = Pieces(t)
    <3>1. Pieces(t) \in Seq(Piece)
      BY <1>3, PieceFacts
    <3> QED  BY <3>1, ConcatEmptySeq
  <2>6. 0 * Room + 0 <= journal[i].length
    BY <1>1, <2>3
  <2> QED  BY <2>1, <2>4, <2>5, <2>6
<1> QED  BY <1>1, <1>2, <1>4, <1>5 DEF ParsedTo

\* The end of a line.
LEMMA FeedEnd ==
  ASSUME Journaled, NEW s, s \in Seq(Logged), NEW base, base \in Seq(Piece),
         NEW got, NEW came, NEW read, NEW k, NEW q, NEW l,
         got = [partial |-> got.partial, lines |-> got.lines], got.lines = base \o came,
         came \in Seq(Piece), ParsedTo(s, read, got.partial, came, k, q, l),
         k \in Nat, k < Len(s), q \in Nat, l \in Nat, read \in Nat,
         ~(q * Room + l < journal[s[k + 1]].length), s[k + 1] \in Logged
  PROVE  Gathers(Feed(got, Newline), s, base, read + 1)
<1>1. PICK i, n, f, last : /\ i = s[k + 1] /\ n = journal[i].length
                           /\ f = Feed(got, Newline) /\ last = Run(i, l)
  OBVIOUS
<1>2. i \in Line /\ Room \in Nat /\ Room >= 1 /\ n \in Nat /\ n >= 1
  BY <1>1, LengthOf, Rooms DEF Logged
<1>3. got.partial = last
  BY <1>1 DEF ParsedTo
<1>4. l \in 1 .. Room /\ n = q * Room + l
  <2>1. q * Room + l <= n /\ l \in 0 .. Room /\ (l = 0 => q = 0)
    BY <1>1 DEF ParsedTo
  <2>2. PICK m : m = q * Room + l
    OBVIOUS
  <2>3. m \in Nat
    <3>1. q * Room \in Nat
      BY <1>2
    <3> QED  BY <2>2, <3>1
  <2>4. m = n
    <3>1. ~(m < n) /\ m <= n
      BY <1>1, <2>1, <2>2
    <3> QED  BY ONLY <1>2, <2>3, <3>1
  <2>5. l # 0
    <3>1. l = 0 => m = 0
      BY <1>2, <2>1, <2>2
    <3> QED  BY <1>2, <2>4, <3>1
  <2> QED  BY <2>1, <2>2, <2>4, <2>5
<1>5. last \in Piece /\ last # << >> /\ << >> \in Seq(Line)
  <2>1. l \in Nat /\ l # 0
    BY <1>4
  <2>2. last \in Piece /\ (last = << >> => l = 0)
    BY <1>1, <1>2, <1>4, <2>1, RunType
  <2> QED  BY <2>1, <2>2, EmptySeq
<1>6. PICK more, t, u : /\ more = Append(came, last)
                        /\ t = SubSeq(s, 1, k) /\ u = SubSeq(s, 1, k + 1)
  OBVIOUS
<1>7. more \in Seq(Piece) /\ Append(got.lines, last) = base \o more
  <2>1. base \in Seq(Piece) /\ came \in Seq(Piece) /\ last \in Piece
    BY <1>5
  <2>2. AppendsLater(base, came, last)
    BY ONLY <2>1, AppendLater
  <2>3. more \in Seq(Piece)
    BY <1>6, <2>1, AppendProperties
  <2> QED  BY <1>6, <2>2, <2>3 DEF AppendsLater
<1>8. f.partial = << >> /\ f.lines = base \o more
      /\ f = [partial |-> f.partial, lines |-> f.lines]
  <2>1. PICK ls : ls = got.lines
    OBVIOUS
  <2>2. got = [partial |-> last, lines |-> ls]
    BY <1>3, <2>1
  <2>3. f = [partial |-> << >>, lines |-> Append(ls, last)]
    BY <1>1, <1>5, <2>2 DEF Feed, Flush
  <2> QED  BY <1>7, <2>1, <2>3
<1>9. t \in Seq(Logged)
  BY <1>6, SubSeqNext
<1>10. more = Pieces(u)
  <2>1. came = Pieces(t) \o Fulls(i, q)
    BY <1>1, <1>6 DEF ParsedTo
  <2>2. PiecesOf(i) = Append(Fulls(i, q), last)
    BY <1>1, <1>4, PiecesOfLine DEF Logged
  <2>3. Pieces(u) = Pieces(t) \o PiecesOf(i)
    BY <1>1, <1>6, PieceFacts
  <2>4. PICK x, y : x = Pieces(t) /\ y = Fulls(i, q)
    OBVIOUS
  <2>5. x \in Seq(Piece) /\ y \in Seq(Piece) /\ last \in Piece
    BY <1>2, <1>5, <1>9, <2>4, PieceFacts, FullsType
  <2>6. AppendsLater(x, y, last)
    BY ONLY <2>5, AppendLater
  <2> QED  BY <1>6, <2>1, <2>2, <2>3, <2>4, <2>6 DEF AppendsLater
<1>11. read + 1 = Len(OutputOf(u))
  <2>1. OutputOf(u) = OutputOf(t) \o Written(i)
    BY <1>1, <1>6, OutputFacts
  <2>2. OutputOf(t) \in Seq(Bytes) /\ Len(OutputOf(t)) \in Nat
    BY <1>9, OutputFacts
  <2>3. Written(i) \in Seq(Bytes) /\ Len(Written(i)) = n + 1
    BY <1>1, WrittenType DEF Logged
  <2>4. Len(OutputOf(u)) = Len(OutputOf(t)) + (n + 1)
    <3>1. PICK a, b : a = OutputOf(t) /\ b = Written(i)
      OBVIOUS
    <3>2. a \in Seq(Bytes) /\ b \in Seq(Bytes) /\ OutputOf(u) = a \o b /\ Len(b) = n + 1
      BY <2>1, <2>2, <2>3, <3>1
    <3>3. Len(a \o b) = Len(a) + Len(b)
      BY <3>2, ConcatProperties
    <3> QED  BY <3>1, <3>2, <3>3
  <2>5. read = Len(OutputOf(t)) + n
    BY <1>4, <1>6 DEF ParsedTo
  <2>6. n \in Nat /\ Len(OutputOf(t)) \in Nat
    BY ONLY <1>2, <2>2
  <2> QED  BY ONLY <2>4, <2>5, <2>6
<1>12. k + 1 \in 0 .. Len(s)
  BY LenProperties
<1>13. ParsedTo(s, read + 1, << >>, more, k + 1, 0, 0)
  <2>1. PICK kk : kk = k + 1
    OBVIOUS
  <2>2. ParsedTo(s, Len(OutputOf(SubSeq(s, 1, kk))), << >>, Pieces(SubSeq(s, 1, kk)), kk, 0, 0)
    BY <1>12, <2>1, ParsedBetween
  <2> QED  BY <1>6, <1>10, <1>11, <2>1, <2>2
<1> QED  BY <1>1, <1>5, <1>7, <1>8, <1>13 DEF Gathers, Parsed

\* One byte more.
LEMMA FeedByte ==
  ASSUME Journaled, NEW s, s \in Seq(Logged), NEW base, base \in Seq(Piece),
         NEW got, NEW read, read \in Nat, read < Len(OutputOf(s)), Gathers(got, s, base, read)
  PROVE  Gathers(Feed(got, OutputOf(s)[read + 1]), s, base, read + 1)
<1>1. PICK came, k, q, l :
        /\ got = [partial |-> got.partial, lines |-> got.lines]
        /\ came \in Seq(Piece) /\ got.lines = base \o came
        /\ ParsedTo(s, read, got.partial, came, k, q, l)
  BY DEF Gathers, Parsed
<1>2. /\ k \in Nat /\ k < Len(s)
      /\ q \in Nat /\ l \in Nat
      /\ s[k + 1] \in Logged
      /\ OutputOf(s)[read + 1] = IF q * Room + l < journal[s[k + 1]].length
                                 THEN s[k + 1] ELSE Newline
  BY <1>1, ParsedNext
<1>3. Room \in Nat /\ l <= Room
  BY <1>1, <1>2, Rooms DEF ParsedTo
<1>4. CASE q * Room + l < journal[s[k + 1]].length /\ l < Room
  BY <1>1, <1>2, <1>4, FeedFits
<1>5. CASE q * Room + l < journal[s[k + 1]].length /\ l = Room
  BY <1>1, <1>2, <1>5, FeedFull
<1>6. CASE ~(q * Room + l < journal[s[k + 1]].length)
  BY <1>1, <1>2, <1>6, FeedEnd
<1> QED  BY <1>2, <1>3, <1>4, <1>5, <1>6

-----------------------------------------------------------------------------
(* The bytes of a read. *)

\* What the bytes of a read are fed to.
Got == [partial : Seq(Bytes), lines : Seq(Seq(Bytes))]

\* A byte leaves it that.
LEMMA FeedType ==
  ASSUME NEW got, got \in Got, NEW byte, byte \in Bytes
  PROVE  Feed(got, byte) \in Got
<1>1. PICK p, ls : p = got.partial /\ ls = got.lines
  OBVIOUS
<1>2. got = [partial |-> p, lines |-> ls] /\ p \in Seq(Bytes) /\ ls \in Seq(Seq(Bytes))
  BY <1>1 DEF Got
<1>3. PICK all, more : all = Append(ls, p) /\ more = Append(p, byte)
  OBVIOUS
<1>4. all \in Seq(Seq(Bytes)) /\ more \in Seq(Bytes)
  BY <1>2, <1>3, AppendProperties
<1>5. PICK one : one = Append(<< >>, byte)
  OBVIOUS
<1>6. << >> \in Seq(Bytes) /\ one \in Seq(Bytes)
  BY <1>5, EmptySeq, AppendProperties
<1>7. Flush(got) = IF p = << >> THEN [partial |-> << >>, lines |-> ls]
                   ELSE [partial |-> << >>, lines |-> all]
  BY <1>2, <1>3 DEF Flush
<1>8. PICK g, flushed : g = Feed(got, byte) /\ flushed = Flush(got)
  OBVIOUS
<1>9. \E l \in {ls, all} : flushed = [partial |-> << >>, lines |-> l]
  BY <1>7, <1>8
<1>10. g = flushed \/ g = [got EXCEPT !.partial = Append(@, byte)]
                   \/ g = [flushed EXCEPT !.partial = Append(@, byte)]
  BY <1>8 DEF Feed
<1>11. flushed \in Got
  BY <1>2, <1>4, <1>6, <1>9 DEF Got
<1>12. [got EXCEPT !.partial = Append(@, byte)] = [partial |-> more, lines |-> ls]
  <2>1. Append(got.partial, byte) = more
    BY <1>1, <1>3
  <2>2. [got EXCEPT !.partial = more] = [partial |-> more, lines |-> ls]
    BY ONLY <1>2
  <2> QED  BY <2>1, <2>2
<1>13. PICK l \in {ls, all} : flushed = [partial |-> << >>, lines |-> l]
  BY <1>9
<1>14. [flushed EXCEPT !.partial = Append(@, byte)] = [partial |-> one, lines |-> l]
  BY <1>5, <1>13
<1>15. [partial |-> more, lines |-> ls] \in Got /\ [partial |-> one, lines |-> l] \in Got
  BY <1>2, <1>4, <1>6 DEF Got
<1> QED  BY <1>8, <1>10, <1>11, <1>12, <1>14, <1>15

\* What a read leaves is computed byte by byte.
Feeds(f, got, bytes) ==
  f[0] = got /\ \A i \in 1 .. Len(bytes) : f[i] = Feed(f[i - 1], bytes[i])

\* The bytes of a read are fed one by one.
LEMMA FedFeeds ==
  ASSUME NEW got, got \in Got, NEW bytes, bytes \in Seq(Bytes)
  PROVE  \E f : Feeds(f, got, bytes) /\ Fed(got, bytes) = f[Len(bytes)]
<1>1. PICK n : n = Len(bytes)
  OBVIOUS
<1>2. n \in Nat /\ \A i \in 1 .. n : bytes[i] \in Bytes
  BY <1>1, LenProperties, ElementOfSeq
<1>3. PICK step : step = [p \in Got \X (1 .. n) |-> Feed(p[1], bytes[p[2]])]
  OBVIOUS
<1>4. step \in [Got \X (1 .. n) -> Got]
  <2>1. ASSUME NEW p \in Got \X (1 .. n) PROVE step[p] \in Got
    <3>1. p[1] \in Got /\ bytes[p[2]] \in Bytes /\ step[p] = Feed(p[1], bytes[p[2]])
      BY <1>2, <1>3
    <3> QED  BY <3>1, FeedType
  <2> QED  BY <1>3, <2>1
<1>5. PICK f \in [0 .. n -> Got] : Computes(f, n, got, step)
  BY <1>2, <1>4, ComputesExists
<1>6. ASSUME NEW i \in 0 .. n
      PROVE  f[i] = IF i = 0 THEN got ELSE Feed(f[i - 1], bytes[i])
  <2>1. f[i] = IF i = 0 THEN got ELSE step[<< f[i - 1], i >>]
    BY <1>5 DEF Computes
  <2>2. ASSUME i # 0 PROVE step[<< f[i - 1], i >>] = Feed(f[i - 1], bytes[i])
    <3>1. f[i - 1] \in Got /\ i \in 1 .. n
      BY <1>2, <2>2
    <3>2. PICK p : p = << f[i - 1], i >>
      OBVIOUS
    <3>3. p \in Got \X (1 .. n) /\ p[1] = f[i - 1] /\ p[2] = i
      BY <3>1, <3>2
    <3> QED  BY <1>3, <3>2, <3>3
  <2> QED  BY <2>1, <2>2
<1>7. f = [i \in 0 .. n |-> IF i = 0 THEN got ELSE Feed(f[i - 1], bytes[i])]
  BY <1>6
<1> DEFINE fed == CHOOSE fed : fed = [i \in 0 .. n |-> IF i = 0 THEN got
                                                       ELSE Feed(fed[i - 1], bytes[i])]
<1>8. fed = [i \in 0 .. n |-> IF i = 0 THEN got ELSE Feed(fed[i - 1], bytes[i])]
  BY <1>7
<1>9. Fed(got, bytes) = fed[n]
  BY <1>1 DEF Fed
<1> HIDE DEF fed
<1>10. fed[0] = got
  BY <1>2, <1>8
<1>11. ASSUME NEW i \in 1 .. n PROVE fed[i] = Feed(fed[i - 1], bytes[i])
  <2>1. i \in 0 .. n /\ i # 0
    BY <1>2
  <2> QED  BY <1>8, <2>1
<1> QED  BY <1>1, <1>9, <1>10, <1>11 DEF Feeds

\* The bytes are the next of the output.
NextBytes(s, read, bytes) ==
  /\ read \in Nat /\ Len(bytes) \in Nat /\ read + Len(bytes) <= Len(OutputOf(s))
  /\ \A j \in 1 .. Len(bytes) : bytes[j] = OutputOf(s)[read + j]

\* However many bytes a read returns, what was gathered stays what the bytes say.
LEMMA FeedAll ==
  ASSUME Journaled, NEW s, s \in Seq(Logged), NEW base, base \in Seq(Piece),
         NEW got, got \in Got, NEW read, NEW bytes, bytes \in Seq(Bytes),
         NextBytes(s, read, bytes), Gathers(got, s, base, read)
  PROVE  Gathers(Fed(got, bytes), s, base, read + Len(bytes))
<1>1. PICK n, o : n = Len(bytes) /\ o = OutputOf(s)
  OBVIOUS
<1>2. /\ n \in Nat /\ read \in Nat /\ read + n <= Len(o)
      /\ \A j \in 1 .. n : bytes[j] = o[read + j]
      /\ Len(o) \in Nat
  BY <1>1, OutputFacts DEF NextBytes
<1>3. PICK f : Feeds(f, got, bytes) /\ Fed(got, bytes) = f[n]
  BY <1>1, FedFeeds
<1> DEFINE Bad == {i \in 0 .. n : ~Gathers(f[i], s, base, read + i)}
<1>4. SUFFICES ASSUME Bad # {} PROVE FALSE
  <2>1. ASSUME Bad = {} PROVE Gathers(f[n], s, base, read + n)
    <3>1. n \in 0 .. n
      BY <1>2
    <3> QED  BY <2>1, <3>1
  <2> QED  BY <1>1, <1>3, <2>1
<1>5. PICK i \in Bad : \A j \in Bad : i <= j
  <2>1. Bad \in SUBSET Nat
    OBVIOUS
  <2> HIDE DEF Bad
  <2> QED  BY <2>1, <1>4, NatMin
<1>6. i \in 0 .. n /\ ~Gathers(f[i], s, base, read + i)
  BY <1>5
<1>7. i # 0
  <2>1. f[0] = got /\ read + 0 = read
    BY <1>2, <1>3 DEF Feeds
  <2> QED  BY <1>6, <2>1
<1>8. PICK h, r : h = i - 1 /\ r = read + (i - 1)
  OBVIOUS
<1>9. /\ h \in 0 .. n /\ ~(i <= h) /\ i \in 1 .. n /\ r \in Nat /\ r < Len(o)
      /\ r + 1 = read + i /\ r = read + h
  BY <1>2, <1>6, <1>7, <1>8
<1>10. h \notin Bad
  BY <1>5, <1>9
<1>11. Gathers(f[h], s, base, r)
  BY <1>9, <1>10
<1>12. f[i] = Feed(f[h], o[r + 1])
  BY <1>1, <1>2, <1>3, <1>8, <1>9 DEF Feeds
<1>13. PICK g : g = f[h]
  OBVIOUS
<1>14. Gathers(Feed(g, OutputOf(s)[r + 1]), s, base, r + 1)
  <2>1. r < Len(OutputOf(s)) /\ Gathers(g, s, base, r)
    BY <1>1, <1>9, <1>11, <1>13
  <2> QED  BY <1>9, <2>1, FeedByte
<1> QED  BY <1>1, <1>6, <1>9, <1>12, <1>13, <1>14

-----------------------------------------------------------------------------
(* What the pieces say of the lines. *)

\* More full pieces of a line go behind those it has.
LEMMA FullsContinue ==
  ASSUME NEW i, i \in Line, NEW q, q \in Nat, NEW more, more \in Nat
  PROVE  Fulls(i, q + more) = Fulls(i, q) \o Fulls(i, more)
<1>1. PICK full, a, b, c : /\ full = Run(i, Room)
                           /\ a = Fulls(i, q) /\ b = Fulls(i, more) /\ c = Fulls(i, q + more)
  OBVIOUS
<1>2. full \in Piece
  BY <1>1, Rooms, RunType
<1>3. a = [j \in 1 .. q |-> full] /\ b = [j \in 1 .. more |-> full]
      /\ c = [j \in 1 .. q + more |-> full]
  BY <1>1 DEF Fulls
<1>4. a \in Seq(Piece) /\ Len(a) = q /\ \A j \in 1 .. q : a[j] = full
  BY <1>2, <1>3
<1>5. b \in Seq(Piece) /\ Len(b) = more /\ \A j \in 1 .. more : b[j] = full
  BY <1>2, <1>3
<1>6. c \in Seq(Piece) /\ Len(c) = q + more /\ \A j \in 1 .. q + more : c[j] = full
  BY <1>2, <1>3
<1>7. PICK d : d = a \o b
  OBVIOUS
<1>8. /\ d \in Seq(Piece) /\ Len(d) = q + more
      /\ \A j \in 1 .. q + more : d[j] = IF j <= q THEN a[j] ELSE b[j - q]
  <2>1. a \in Seq(Piece) /\ b \in Seq(Piece) /\ Len(a) = q /\ Len(b) = more
    BY ONLY <1>4, <1>5
  <2> QED  BY ONLY <1>7, <2>1, ConcatProperties
<1>9. ASSUME NEW j \in 1 .. q + more PROVE d[j] = c[j]
  <2>1. CASE j <= q
    <3>1. j \in 1 .. q
      BY <2>1
    <3> QED  BY <1>4, <1>6, <1>8, <2>1, <3>1
  <2>2. CASE ~(j <= q)
    <3>1. j - q \in 1 .. more
      BY <2>2
    <3> QED  BY <1>5, <1>6, <1>8, <2>2, <3>1
  <2> QED  BY <2>1, <2>2
<1>10. d = c
  BY <1>6, <1>8, <1>9, SeqEqual
<1> QED  BY <1>1, <1>7, <1>10

\* The first full pieces of a line are pieces of it.
LEMMA FullsFirst ==
  ASSUME Journaled, NEW i, i \in Logged, NEW q, q \in Nat, NEW l, l \in Nat,
         l = 0 => q = 0, q * Room + l <= journal[i].length
  PROVE  \E r : r \in Seq(Piece) /\ PiecesOf(i) = Fulls(i, q) \o r
<1>1. i \in Line /\ Room \in Nat /\ Room >= 1
  BY LengthOf, Rooms DEF Logged
<1>2. PICK d \in Nat, m \in 1 .. Room : journal[i].length = d * Room + m
  BY LineCut DEF Logged
<1>3. PiecesOf(i) = Append(Fulls(i, d), Run(i, m))
  BY <1>2, PiecesOfLine DEF Logged
<1>4. q <= d
  <2>1. SUFFICES ASSUME ~(q <= d) PROVE FALSE
    OBVIOUS
  <2>2. q >= d + 1 /\ l >= 1
    BY <1>2, <2>1
  <2>3. q * Room >= (d + 1) * Room
    BY <1>1, <1>2, <2>2
  <2>4. (d + 1) * Room = d * Room + Room /\ d * Room \in Nat /\ q * Room \in Nat
    BY <1>1, <1>2
  <2>5. q * Room + l <= d * Room + m
    BY <1>2
  <2> QED  BY <1>1, <1>2, <2>2, <2>3, <2>4, <2>5
<1>5. PICK more : more = d - q
  OBVIOUS
<1>6. more \in Nat /\ d = q + more
  BY <1>2, <1>4, <1>5
<1>7. Fulls(i, d) = Fulls(i, q) \o Fulls(i, more)
  BY <1>1, <1>6, FullsContinue
<1>8. PICK x, y, e : x = Fulls(i, q) /\ y = Fulls(i, more) /\ e = Run(i, m)
  OBVIOUS
<1>9. x \in Seq(Piece) /\ y \in Seq(Piece)
  BY <1>1, <1>6, <1>8, FullsType
<1>10. e \in Piece
  <2>1. m \in Nat
    BY <1>1, <1>2
  <2> QED  BY <1>1, <1>2, <1>8, <2>1, RunType
<1>11. AppendsLater(x, y, e)
  BY <1>9, <1>10, AppendLater
<1>12. Append(y, e) \in Seq(Piece)
  BY <1>9, <1>10, AppendProperties
<1> QED  BY <1>3, <1>7, <1>8, <1>11, <1>12 DEF AppendsLater

\* What came is the beginning of what the lines make.
LEMMA CameFirst ==
  ASSUME Journaled, NEW s, s \in Seq(Logged), NEW read, NEW partial, NEW came,
         Parsed(s, read, partial, came)
  PROVE  Continues(Piece, Pieces(s), came)
<1>1. PICK k, q, l : ParsedTo(s, read, partial, came, k, q, l)
  BY DEF Parsed
<1>2. k \in 0 .. Len(s) /\ Len(s) \in Nat /\ k \in Nat /\ q \in Nat /\ l \in Nat /\ (l = 0 => q = 0)
  BY <1>1, LenProperties, Rooms DEF ParsedTo
<1>3. CASE k = Len(s)
  BY <1>1, <1>2, <1>3, PieceFacts DEF ParsedTo
<1>4. CASE k # Len(s)
  <2>1. k < Len(s) /\ k + 1 \in 0 .. Len(s)
    BY <1>2, <1>4
  <2>2. PICK i, t, u, all : /\ i = s[k + 1] /\ t = SubSeq(s, 1, k) /\ u = SubSeq(s, 1, k + 1)
                            /\ all = Pieces(s)
    OBVIOUS
  <2>3. i \in Logged /\ t \in Seq(Logged)
    BY <1>2, <2>1, <2>2, SubSeqNext
  <2>4. q * Room + l <= journal[i].length /\ came = Pieces(t) \o Fulls(i, q)
    BY <1>1, <2>1, <2>2 DEF ParsedTo
  <2>5. PICK r : r \in Seq(Piece) /\ PiecesOf(i) = Fulls(i, q) \o r
    BY <1>2, <2>3, <2>4, FullsFirst
  <2>6. Pieces(u) = Pieces(t) \o PiecesOf(i)
    BY <1>2, <2>1, <2>2, PieceFacts
  <2>7. Continues(Piece, all, Pieces(u))
    BY <2>1, <2>2, PieceFacts
  <2>8. PICK z : z \in Seq(Piece) /\ all = Pieces(u) \o z
    BY <2>7 DEF Continues
  <2>9. PICK x, y : x = Pieces(t) /\ y = Fulls(i, q)
    OBVIOUS
  <2>10. x \in Seq(Piece) /\ y \in Seq(Piece)
    <3>1. i \in Line
      BY <2>3, LengthOf DEF Logged
    <3> QED  BY <1>2, <2>3, <2>9, <3>1, PieceFacts, FullsType
  <2>11. all = (x \o (y \o r)) \o z
    BY <2>5, <2>6, <2>8, <2>9
  <2>12. y \o r \in Seq(Piece) /\ x \o y \in Seq(Piece) /\ r \o z \in Seq(Piece)
    BY <2>5, <2>8, <2>10, ConcatProperties
  <2>13. x \o (y \o r) = (x \o y) \o r
    <3>1. r \in Seq(Piece)
      BY ONLY <2>5
    <3> QED  BY ONLY <2>10, <3>1, ConcatAssociative
  <2>14. ((x \o y) \o r) \o z = (x \o y) \o (r \o z)
    <3>1. PICK xy : xy = x \o y
      OBVIOUS
    <3>2. xy \in Seq(Piece) /\ r \in Seq(Piece) /\ z \in Seq(Piece)
      BY <2>5, <2>8, <2>12, <3>1
    <3>3. (xy \o r) \o z = xy \o (r \o z)
      BY ONLY <3>2, ConcatAssociative
    <3> QED  BY <3>1, <3>3
  <2>15. all = came \o (r \o z)
    BY <2>4, <2>9, <2>11, <2>13, <2>14
  <2>16. all \in Seq(Piece)
    BY <2>2, PieceFacts
  <2> QED  BY <2>2, <2>12, <2>15, <2>16 DEF Continues
<1> QED  BY <1>3, <1>4

\* Once all was read, it is all of it.
LEMMA CameAll ==
  ASSUME Journaled, NEW s, s \in Seq(Logged), NEW partial, NEW came,
         NEW read, read = Len(OutputOf(s)), Parsed(s, read, partial, came)
  PROVE  came = Pieces(s)
<1>1. PICK k, q, l : ParsedTo(s, read, partial, came, k, q, l)
  BY DEF Parsed
<1>2. k \in 0 .. Len(s) /\ Len(s) \in Nat /\ k \in Nat /\ q \in Nat /\ l \in Nat
  BY <1>1, LenProperties, Rooms DEF ParsedTo
<1>3. CASE k = Len(s)
  <2>1. PICK t : t = SubSeq(s, 1, k)
    OBVIOUS
  <2>2. \A i \in 1 .. k : s[i] \in Logged
    BY <1>2, ElementOfSeq
  <2>3. t \in Seq(Logged) /\ Len(t) = k /\ \A i \in 1 .. k : t[i] = s[i]
    BY <1>2, <2>1, <2>2, SubSeqProperties
  <2>4. t = s
    BY <1>3, <2>3, SeqEqual
  <2> QED  BY <1>1, <1>3, <2>1, <2>4 DEF ParsedTo
<1>4. CASE k # Len(s)
  <2>1. k < Len(s) /\ k + 1 \in 0 .. Len(s)
    BY <1>2, <1>4
  <2>2. PICK i, t, u, o, n : /\ i = s[k + 1] /\ t = SubSeq(s, 1, k) /\ u = SubSeq(s, 1, k + 1)
                             /\ o = OutputOf(s) /\ n = journal[i].length
    OBVIOUS
  <2>3. i \in Logged /\ t \in Seq(Logged)
    BY <1>2, <2>1, <2>2, SubSeqNext
  <2>4. q * Room + l <= n /\ read = Len(OutputOf(t)) + (q * Room + l)
    BY <1>1, <2>1, <2>2 DEF ParsedTo
  <2>5. OutputOf(u) = OutputOf(t) \o Written(i)
    BY <1>2, <2>1, <2>2, OutputFacts
  <2>6. PICK a, b, c : a = OutputOf(t) /\ b = Written(i) /\ c = OutputOf(u)
    OBVIOUS
  <2>7. a \in Seq(Bytes) /\ b \in Seq(Bytes) /\ Len(b) = n + 1 /\ n \in Nat /\ Len(a) \in Nat
    BY <2>2, <2>3, <2>6, OutputFacts, WrittenType, LengthOf DEF Logged
  <2>8. c = a \o b
    BY <2>5, <2>6
  <2>9. Len(c) = Len(a) + (n + 1) /\ c \in Seq(Bytes)
    <3>1. Len(a \o b) = Len(a) + Len(b) /\ a \o b \in Seq(Bytes)
      BY <2>7, ConcatProperties
    <3> QED  BY <2>7, <2>8, <3>1
  <2>10. Continues(Bytes, o, c)
    BY <2>1, <2>2, <2>6, OutputFacts
  <2>11. PICK z : z \in Seq(Bytes) /\ o = c \o z
    BY <2>10 DEF Continues
  <2>12. Len(o) = Len(c) + Len(z) /\ Len(z) \in Nat
    BY <2>9, <2>11, ConcatProperties, LenProperties
  <2>13. PICK m : m = q * Room + l
    OBVIOUS
  <2>14. m \in Nat
    <3>1. q * Room \in Nat
      BY <1>2, Rooms
    <3> QED  BY <1>2, <2>13, <3>1
  <2>15. m <= n /\ Len(o) = Len(a) + m
    BY <2>2, <2>4, <2>6, <2>13
  <2> QED  BY ONLY <2>7, <2>9, <2>12, <2>14, <2>15
<1> QED  BY <1>3, <1>4

-----------------------------------------------------------------------------
(* The invariant of the stream. *)

\* A follower has not written more than its lines make, and nobody else has
\* written at all.
ChildOK(me) ==
  /\ me.life \in {"none", "backlog", "starting", "follows", "ended"}
  /\ me.target \in Targets /\ me.asked \in BOOLEAN
  /\ me.prints \in Seq(Logged)
  /\ me.written \in Nat /\ me.written <= Len(OutputOf(me.prints))
  /\ me.life \in {"none", "backlog", "starting"} => me.written = 0

ChildrenOK == \A p \in Pids : ChildOK(child[p])

\* The viewer holds pieces that fit their slots, and less than one more.
ViewerOK ==
  /\ lv.app \in Targets /\ lv.open \in BOOLEAN /\ (lv.open => lv.pid # 0)
  /\ lv.read \in Nat /\ lv.streamed \in Nat
  /\ lv.partial \in Seq(Line) /\ Len(lv.partial) <= Room
  /\ lv.lines \in Seq(Piece)

\* What the dashboard is at and how it ended.
DashboardOK ==
  /\ dashboard.at \in Stages
  /\ dashboard.wants \in Targets \cup Invalid \cup {Exit}
  /\ dashboard.forked \in Pids \cup {0}
  /\ dashboard.ended \in {"no", "quit", "signal", "forking", "upgrade", "killed"}

\* The bounds of the run are kept.
UsedOK == used \in [switches : 0 .. MaxSwitches, failures : 0 .. MaxFailures]

\* While log_viewer_set_app opens a stream, nothing has come through it.
Fresh ==
  dashboard.at \in {"backlog", "read", "follow", "store", "gone"} =>
    lv.open = FALSE /\ lv.partial = << >> /\ lv.read = 0 /\ lv.streamed = 0

\* The child whose pid is stored is the follower.
StoreOK == dashboard.at = "store" => child[dashboard.forked].life # "backlog"

\* The lines end with those that came through the pipe, and the bytes read are
\* those lines and what was gathered of the next.
Streamed(me, v) ==
  /\ me.life # "backlog" /\ v.read <= me.written
  /\ \E base, came : /\ base \in Seq(Piece) /\ came \in Seq(Piece)
                     /\ v.lines = base \o came /\ Len(came) = v.streamed
                     /\ Parsed(me.prints, v.read, v.partial, came)

\* The stream it has open says so of its child.
StreamInv == InFrame /\ lv.open = TRUE => Streamed(child[lv.pid], lv)

\* All of it; with IInv it is inductive.
SInv == /\ Journaled /\ ChildrenOK /\ ViewerOK /\ DashboardOK /\ UsedOK
        /\ Fresh /\ StoreOK /\ StreamInv

\* A child writes the lines it prints.
LEMMA OutputIs == ASSUME NEW p PROVE Output(p) = OutputOf(child[p].prints)
BY DEF Output, OutputOf

\* The last ones of two sequences joined are the second.
LEMMA LastOnes ==
  ASSUME NEW S, NEW base, base \in Seq(S), NEW came, came \in Seq(S)
  PROVE  SubSeq(base \o came, Len(base \o came) - Len(came) + 1, Len(base \o came)) = came
<1>1. PICK all, a, b : all = base \o came /\ a = Len(base) /\ b = Len(came)
  OBVIOUS
<1>2. a \in Nat /\ b \in Nat /\ \A i \in 1 .. b : came[i] \in S
  BY <1>1, LenProperties, ElementOfSeq
<1>3. /\ all \in Seq(S) /\ Len(all) = a + b
      /\ \A i \in 1 .. a + b : all[i] = IF i <= a THEN base[i] ELSE came[i - a]
  BY <1>1, ConcatProperties
<1>4. PICK sub : sub = SubSeq(all, a + 1, a + b)
  OBVIOUS
<1>5. \A i \in a + 1 .. a + b : all[i] = came[i - a] /\ i - a \in 1 .. b
  BY <1>2, <1>3
<1>6. /\ sub \in Seq(S) /\ Len(sub) = b
      /\ \A i \in 1 .. b : sub[i] = all[a + 1 + i - 1]
  <2>1. \A i \in a + 1 .. a + b : all[i] \in S
    BY <1>2, <1>5
  <2>2. sub = [i \in 1 .. b |-> all[i + a]]
    BY <1>2, <1>4
  <2>3. \A i \in 1 .. b : all[i + a] \in S /\ a + 1 + i - 1 = i + a
    BY <1>2, <2>1
  <2> QED  BY <1>2, <2>2, <2>3
<1>7. ASSUME NEW i \in 1 .. b PROVE sub[i] = came[i]
  <2>1. a + 1 + i - 1 \in a + 1 .. a + b /\ (a + 1 + i - 1) - a = i
    BY <1>2
  <2> QED  BY <1>5, <1>6, <2>1
<1>8. sub = came
  BY <1>1, <1>2, <1>6, <1>7, SeqEqual
<1>9. Len(all) - b + 1 = a + 1
  BY <1>2, <1>3
<1> QED  BY <1>1, <1>3, <1>4, <1>8, <1>9

\* Between two calls what was parsed is what StreamExact asks for.
LEMMA ExactFromInv == IInv /\ SInv => StreamExact
<1> SUFFICES ASSUME IInv, SInv, InFrame, lv.open
             PROVE  LET came == SubSeq(lv.lines, Len(lv.lines) - lv.streamed + 1, Len(lv.lines))
                        sent == Pieces(child[lv.pid].prints)
                    IN /\ IsPrefix(came, sent)
                       /\ lv.read = Len(Output(lv.pid)) => came = sent
  BY DEF StreamExact
<1>1. lv.open = TRUE /\ lv.pid \in Pids /\ Journaled
  BY DEF SInv, ViewerOK, IInv, PidsHeld
<1>2. Streamed(child[lv.pid], lv) /\ ChildOK(child[lv.pid])
  BY <1>1 DEF SInv, StreamInv, ChildrenOK
<1>3. PICK s, read, partial : /\ s = child[lv.pid].prints /\ read = lv.read
                              /\ partial = lv.partial
  OBVIOUS
<1>4. s \in Seq(Logged)
  BY <1>2, <1>3 DEF ChildOK
<1>5. PICK base, came : /\ base \in Seq(Piece) /\ came \in Seq(Piece)
                        /\ lv.lines = base \o came /\ Len(came) = lv.streamed
                        /\ Parsed(s, read, partial, came)
  BY <1>2, <1>3 DEF Streamed
<1>6. SubSeq(lv.lines, Len(lv.lines) - lv.streamed + 1, Len(lv.lines)) = came
  BY <1>5, LastOnes
<1>7. PICK sent : sent = Pieces(s)
  OBVIOUS
<1>8. Continues(Piece, sent, came)
  BY <1>1, <1>4, <1>5, <1>7, CameFirst
<1>9. PICK r : r \in Seq(Piece) /\ sent = came \o r
  BY <1>8 DEF Continues
<1>10. IsPrefix(came, sent)
  <2>1. PICK c : c = Len(came)
    OBVIOUS
  <2>2. c \in Nat /\ Len(r) \in Nat /\ \A i \in 1 .. c : came[i] \in Piece
    BY <1>5, <2>1, LenProperties, ElementOfSeq
  <2>3. Len(sent) = c + Len(r) /\ sent \in Seq(Piece) /\ \A i \in 1 .. c : sent[i] = came[i]
    <3>1. /\ came \o r \in Seq(Piece) /\ Len(came \o r) = Len(came) + Len(r)
          /\ \A i \in 1 .. Len(came) + Len(r) :
               (came \o r)[i] = IF i <= Len(came) THEN came[i] ELSE r[i - Len(came)]
      <4>1. came \in Seq(Piece) /\ r \in Seq(Piece)
        BY <1>5, <1>9
      <4> QED  BY ONLY <4>1, ConcatProperties
    <3> QED  BY <1>9, <2>1, <2>2, <3>1
  <2>4. PICK x, y : x = SubSeq(came, 1, c) /\ y = SubSeq(sent, 1, c)
    OBVIOUS
  <2>5. x \in Seq(Piece) /\ Len(x) = c /\ \A i \in 1 .. c : x[i] = came[i]
    BY <1>5, <2>1, <2>2, <2>4, SubSeqProperties
  <2>6. y \in Seq(Piece) /\ Len(y) = c /\ \A i \in 1 .. c : y[i] = sent[i]
    <3>1. \A i \in 1 .. c : sent[i] \in Piece
      BY <2>2, <2>3
    <3> QED  BY <2>2, <2>3, <2>4, <3>1, SubSeqProperties
  <2>7. \A i \in 1 .. c : x[i] = y[i]
    BY <2>3, <2>5, <2>6
  <2>8. x = y
    BY <2>5, <2>6, <2>7, SeqEqual
  <2>9. Len(came) <= Len(sent)
    BY <2>1, <2>2, <2>3
  <2> QED  BY <2>1, <2>4, <2>8, <2>9 DEF IsPrefix
<1>11. ASSUME lv.read = Len(Output(lv.pid)) PROVE came = sent
  <2>1. read = Len(OutputOf(s))
    BY <1>3, <1>11, OutputIs
  <2> QED  BY <1>1, <1>4, <1>5, <1>7, <2>1, CameAll
<1> QED  BY <1>3, <1>6, <1>7, <1>10, <1>11

-----------------------------------------------------------------------------
(* The steps of the journal and the children. *)

\* A pid that was never forked is in order.
LEMMA NoChildOK == ChildOK(NoChild)
<1>1. << >> \in Seq(Logged) /\ All \in Targets
  BY EmptySeq DEF Targets
<1>2. OutputOf(<< >>) = << >>
  <2>1. [i \in DOMAIN << >> |-> Written(<< >>[i])] = << >>
    OBVIOUS
  <2> QED  BY <2>1, FlattenEmpty DEF OutputOf
<1>3. Len(OutputOf(<< >>)) = 0
  BY <1>2
<1> QED  BY <1>1, <1>3 DEF ChildOK, NoChild

\* It holds before the first frame.
LEMMA InitSInv == Init => SInv
<1> SUFFICES ASSUME Init PROVE SInv
  OBVIOUS
<1>1. Journaled
  <2>1. << >> \in Seq([app : Apps, length : Lengths]) /\ Len(<< >>) = 0 /\ 0 <= MaxLogged
    BY Rooms, EmptySeq
  <2> QED  BY <2>1 DEF Init, Journaled
<1>2. ChildrenOK
  BY NoChildOK DEF Init, ChildrenOK
<1>3. ViewerOK
  <2>1. << >> \in Seq(Line) /\ << >> \in Seq(Piece) /\ Len(<< >>) = 0 /\ 0 <= Room
    BY Rooms, EmptySeq
  <2> QED  BY <2>1 DEF Init, ViewerOK, NoStream, Targets
<1>4. DashboardOK
  BY DEF Init, DashboardOK, Stages, Targets
<1>5. UsedOK
  BY LogStreamAssumption DEF Init, UsedOK
<1>6. Fresh /\ StoreOK /\ StreamInv
  BY DEF Init, Fresh, StoreOK, StreamInv, InFrame, NoStream
<1> QED  BY <1>1, <1>2, <1>3, <1>4, <1>5, <1>6 DEF SInv

\* A line more in the journal changes nothing of the earlier ones.
LEMMA JournalGrows ==
  ASSUME Journaled, NEW rec, rec \in [app : Apps, length : Lengths], Len(journal) < MaxLogged,
         journal' = Append(journal, rec)
  PROVE  /\ Journaled'
         /\ Len(journal') = Len(journal) + 1
         /\ \A i \in Logged : i \in Logged' /\ Written(i)' = Written(i) /\ PiecesOf(i)' = PiecesOf(i)
                              /\ journal'[i] = journal[i]
<1>1. PICK n : n = Len(journal)
  OBVIOUS
<1>2. n \in Nat /\ MaxLogged \in Nat
  BY <1>1, LenProperties, Rooms DEF Journaled
<1>3. /\ journal' \in Seq([app : Apps, length : Lengths]) /\ Len(journal') = n + 1
      /\ \A i \in 1 .. n : journal'[i] = journal[i]
  BY <1>1, AppendProperties DEF Journaled
<1>4. Journaled'
  BY <1>1, <1>2, <1>3 DEF Journaled
<1>5. ASSUME NEW i \in Logged
      PROVE  i \in Logged' /\ Written(i)' = Written(i) /\ PiecesOf(i)' = PiecesOf(i)
             /\ journal'[i] = journal[i]
  <2>1. i \in 1 .. n /\ i \in 1 .. Len(journal')
    BY <1>1, <1>2, <1>3 DEF Logged
  <2>2. journal'[i] = journal[i]
    BY <1>3, <2>1
  <2> QED  BY <2>1, <2>2 DEF Logged, Written, PiecesOf
<1> QED  BY <1>1, <1>3, <1>4, <1>5

\* Lines written as before print the same bytes and pieces.
LEMMA OutputKept ==
  ASSUME NEW s, s \in Seq(Logged), \A i \in Logged : Written(i)' = Written(i) /\ PiecesOf(i)' = PiecesOf(i)
  PROVE  OutputOf(s)' = OutputOf(s) /\ Pieces(s)' = Pieces(s)
<1>1. \A i \in DOMAIN s : s[i] \in Logged
  BY LenProperties, ElementOfSeq
<1>2. [i \in DOMAIN s |-> Written(s[i])]' = [i \in DOMAIN s |-> Written(s[i])]
  BY <1>1
<1>3. [i \in DOMAIN s |-> PiecesOf(s[i])]' = [i \in DOMAIN s |-> PiecesOf(s[i])]
  BY <1>1
<1> QED  BY <1>2, <1>3 DEF OutputOf, Pieces

\* What was read stays what it is when the child has more to print.
LEMMA ParsedStays ==
  ASSUME Journaled, NEW rec, rec \in [app : Apps, length : Lengths], Len(journal) < MaxLogged,
         journal' = Append(journal, rec),
         NEW s, s \in Seq(Logged), NEW t, t \in {s, Append(s, Len(journal) + 1)},
         NEW read, NEW partial, NEW came, Parsed(s, read, partial, came)
  PROVE  Parsed(t, read, partial, came)'
<1>1. PICK k, q, l : ParsedTo(s, read, partial, came, k, q, l)
  BY DEF Parsed
<1>2. PICK n, x : n = Len(s) /\ x = Len(journal) + 1
  OBVIOUS
<1>3. n \in Nat /\ k \in 0 .. n /\ k \in Nat /\ q \in Nat /\ l \in 0 .. Room /\ Room \in Nat
  BY <1>1, <1>2, LenProperties, Rooms DEF ParsedTo
<1>4. \A i \in 1 .. n : s[i] \in Logged
  BY <1>2, ElementOfSeq
<1>5. /\ Journaled' /\ Len(journal') = x
      /\ \A i \in Logged : Written(i)' = Written(i) /\ PiecesOf(i)' = PiecesOf(i)
                           /\ journal'[i] = journal[i]
  BY <1>2, JournalGrows
<1>6. Len(t) \in {n, n + 1} /\ \A i \in 1 .. n : t[i] = s[i]
  <2>1. CASE t = s
    BY <1>2, <2>1
  <2>2. CASE t = Append(s, x)
    BY <1>2, <2>2, AppendProperties
  <2> QED  BY <1>2, <2>1, <2>2
<1>7. PICK a : a = SubSeq(s, 1, k)
  OBVIOUS
<1>8. a \in Seq(Logged)
  <2>1. \A i \in 1 .. k : s[i] \in Logged
    BY <1>3, <1>4
  <2> QED  BY <1>3, <1>7, <2>1, SubSeqProperties
<1>9. SubSeq(t, 1, k) = a
  <2>1. \A i \in 1 .. k : t[i] = s[i]
    BY <1>3, <1>6
  <2>2. SubSeq(t, 1, k) = [i \in 1 .. k |-> t[i]] /\ a = [i \in 1 .. k |-> s[i]]
    BY <1>3, <1>7
  <2> QED  BY <2>1, <2>2
<1>10. OutputOf(a)' = OutputOf(a) /\ Pieces(a)' = Pieces(a)
  BY <1>5, <1>8, OutputKept
<1>11. CASE k < n
  <2>1. k < Len(t) /\ k # Len(t) /\ k \in 0 .. Len(t) /\ k + 1 \in 1 .. n
    BY <1>3, <1>6, <1>11
  <2>2. t[k + 1] = s[k + 1] /\ journal'[s[k + 1]] = journal[s[k + 1]]
    BY <1>4, <1>5, <1>6, <2>1
  <2>3. ParsedTo(t, read, partial, came, k, q, l)'
    BY <1>1, <1>2, <1>3, <1>7, <1>9, <1>10, <1>11, <2>1, <2>2 DEF ParsedTo
  <2> QED  BY <2>3 DEF Parsed
<1>12. CASE k = n
  <2>1. /\ q = 0 /\ l = 0 /\ partial = << >> /\ came = Pieces(a)
        /\ read = Len(OutputOf(a)) + (q * Room + l)
    BY <1>1, <1>2, <1>7, <1>12 DEF ParsedTo
  <2>2. k \in 0 .. Len(t)
    BY <1>3, <1>6, <1>12
  <2>3. ASSUME k < Len(t)
        PROVE  /\ q * Room + l <= journal'[t[k + 1]].length
               /\ partial = Run(t[k + 1], l)
               /\ came = Pieces(a) \o Fulls(t[k + 1], q)
    <3>1. t[k + 1] = x
      <4>1. t = Append(s, x)
        BY <1>2, <1>3, <1>12, <2>3
      <4> QED  BY <1>2, <1>12, <4>1, AppendProperties
    <3>2. x \in Line
      BY <1>2, LenProperties, Rooms DEF Line, Journaled
    <3>3. Run(x, l) = << >> /\ Fulls(x, q) = << >>
      BY <1>3, <2>1, <3>2, RunType, FullsType
    <3>4. Pieces(a) \o << >> = Pieces(a)
      <4>1. Pieces(a) \in Seq(Piece)
        BY <1>8, PieceFacts
      <4> QED  BY <4>1, ConcatEmptySeq
    <3>5. q * Room + l <= journal'[x].length
      <4>1. x \in 1 .. Len(journal') /\ journal' \in Seq([app : Apps, length : Lengths])
        BY <1>2, <1>5, LenProperties DEF Journaled
      <4>2. journal'[x] \in [app : Apps, length : Lengths]
        BY <4>1, ElementOfSeq
      <4>3. journal'[x].length \in Nat
        <5>1. journal'[x].length \in Lengths
          BY <4>2
        <5> QED  BY <5>1, Rooms
      <4>4. q * Room + l = 0
        BY <1>3, <2>1
      <4>5. PICK m, z : m = q * Room + l /\ z = journal'[x].length
        OBVIOUS
      <4>6. m <= z
        <5>1. m = 0 /\ z \in Nat
          BY <4>3, <4>4, <4>5
        <5> QED  BY ONLY <5>1
      <4> QED  BY <4>5, <4>6
    <3> QED  BY <2>1, <3>1, <3>3, <3>4, <3>5
  <2>4. ParsedTo(t, read, partial, came, k, q, l)'
    BY <1>3, <1>9, <1>10, <2>1, <2>2, <2>3 DEF ParsedTo
  <2> QED  BY <2>4 DEF Parsed
<1> QED  BY <1>2, <1>3, <1>11, <1>12

\* A service logs a line.
LEMMA LogSInv == ASSUME IInv, SInv, NEW app \in Apps, Log(app) PROVE SInv'
<1>1. PICK rec, x : /\ rec \in [app : Apps, length : Lengths] /\ x = Len(journal) + 1
                    /\ journal' = Append(journal, rec)
                    /\ Len(journal) < MaxLogged
  BY DEF Log
<1>2. Journaled
  BY DEF SInv
<1>3. /\ Journaled' /\ Len(journal') = x
      /\ \A i \in Logged : i \in Logged' /\ Written(i)' = Written(i) /\ PiecesOf(i)' = PiecesOf(i)
                           /\ journal'[i] = journal[i]
  BY <1>1, <1>2, JournalGrows
<1>4. x \in Logged'
  BY <1>1, <1>2, <1>3, LenProperties DEF Logged, Journaled
<1>5. UNCHANGED << lv, dashboard, used >>
  BY DEF Log
<1>6. ASSUME NEW p \in Pids
      PROVE  \/ child'[p] = child[p]
             \/ /\ child[p].life = "follows"
                /\ child'[p] = [child[p] EXCEPT !.prints = Append(child[p].prints, x)]
  <2>1. child' = [r \in Pids |-> IF Following(r) /\ child[r].target \in {All, app}
                                 THEN [child[r] EXCEPT !.prints = Append(child[r].prints, x)]
                                 ELSE child[r]]
    BY <1>1 DEF Log
  <2> QED  BY <2>1 DEF Following
<1>7. ASSUME NEW p \in Pids
      PROVE  /\ child'[p].life = child[p].life /\ child'[p].target = child[p].target
             /\ child'[p].asked = child[p].asked /\ child'[p].written = child[p].written
             /\ child'[p].prints \in {child[p].prints, Append(child[p].prints, x)}
             /\ child'[p].prints # child[p].prints => child[p].life = "follows"
  <2>1. ChildShaped(child[p])
    BY DEF IInv, Shape
  <2> QED  BY <1>6, <2>1 DEF ChildShaped
<1>8. ASSUME NEW p \in Pids
      PROVE  ChildOK(child[p])'
  <2>1. PICK s, t, n : s = child[p].prints /\ t = child'[p].prints /\ n = child[p].written
    OBVIOUS
  <2>2. ChildOK(child[p])
    BY DEF SInv, ChildrenOK
  <2>3. s \in Seq(Logged) /\ n \in Nat /\ n <= Len(OutputOf(s))
    BY <2>1, <2>2 DEF ChildOK
  <2>4. s \in Seq(Logged')
    <3>1. Logged \subseteq Logged'
      BY <1>3
    <3>2. \A i \in 1 .. Len(s) : s[i] \in Logged
      BY <2>3, ElementOfSeq
    <3>3. s = [i \in 1 .. Len(s) |-> s[i]] /\ Len(s) \in Nat
      BY <2>3, LenProperties
    <3> QED  BY <3>1, <3>2, <3>3
  <2>5. OutputOf(s)' = OutputOf(s)
    BY <1>3, <2>3, OutputKept
  <2>6. OutputOf(s) \in Seq(Bytes) /\ Len(OutputOf(s)) \in Nat
    BY <1>2, <2>3, OutputFacts
  <2>7. t \in Seq(Logged') /\ n <= Len(OutputOf(t)')
    <3>1. CASE t = s
      BY <2>3, <2>4, <2>5, <3>1
    <3>2. CASE t = Append(s, x)
      <4>1. t \in Seq(Logged')
        BY <1>4, <2>4, <3>2, AppendProperties
      <4>2. PICK w : /\ StandFor(w, Logged', Bytes)
                     /\ \A u \in Seq(Logged') : OutputOf(u)' = Joined(w, u)
        <5>1. PICK w : w = [i \in Logged' |-> Written(i)']
          OBVIOUS
        <5>2. \A i \in Logged' : w[i] = Written(i)' /\ Written(i)' \in Seq(Bytes)
          <6>1. ASSUME NEW i \in Logged' PROVE Written(i)' \in Seq(Bytes)
            <7>1. journal'[i] \in [app : Apps, length : Lengths]
              BY <1>3, ElementOfSeq DEF Logged, Journaled
            <7>2. journal'[i].length \in Lengths
              BY <7>1
            <7>3. PICK m : m = journal'[i].length
              OBVIOUS
            <7>4. m \in Nat
              BY <7>2, <7>3, Rooms
            <7>5. i \in Bytes /\ Newline \in Bytes
              BY <1>3, Rooms, LenProperties DEF Logged, Journaled, Bytes, Newline
            <7>6. PICK r : r = [b \in 1 .. m |-> i]
              OBVIOUS
            <7>7. r \in Seq(Bytes) /\ << Newline >> \in Seq(Bytes)
              BY <7>4, <7>5, <7>6
            <7>8. r \o << Newline >> \in Seq(Bytes)
              BY <7>7, ConcatProperties
            <7> QED  BY <7>3, <7>6, <7>8 DEF Written
          <6> QED  BY <5>1, <6>1
        <5>3. StandFor(w, Logged', Bytes)
          BY <5>1, <5>2 DEF StandFor
        <5>4. ASSUME NEW u \in Seq(Logged') PROVE OutputOf(u)' = Joined(w, u)
          <6>1. \A i \in DOMAIN u : u[i] \in Logged'
            BY LenProperties, ElementOfSeq
          <6>2. [i \in DOMAIN u |-> w[u[i]]] = [i \in DOMAIN u |-> Written(u[i])']
            BY <5>2, <6>1
          <6> QED  BY <6>2 DEF OutputOf, Joined, Each
        <5> QED  BY <5>3, <5>4
      <4>3. Joined(w, Append(s, x)) = Joined(w, s) \o w[x] /\ w[x] \in Seq(Bytes)
        <5>1. w[x] \in Seq(Bytes)
          BY <1>4, <4>2 DEF StandFor
        <5> QED  BY <1>4, <2>4, <4>2, <5>1, JoinedAppend
      <4>4. OutputOf(t)' = OutputOf(s) \o w[x]
        BY <2>4, <2>5, <3>2, <4>1, <4>2, <4>3
      <4>5. PICK a, b : a = OutputOf(s) /\ b = w[x]
        OBVIOUS
      <4>6. Len(a \o b) = Len(a) + Len(b) /\ Len(b) \in Nat
        BY <2>6, <4>3, <4>5, ConcatProperties, LenProperties
      <4>7. n <= Len(a \o b)
        BY <2>3, <2>6, <4>5, <4>6
      <4> QED  BY <4>1, <4>4, <4>5, <4>7
    <3> QED  BY <1>7, <2>1, <3>1, <3>2
  <2> QED  BY <1>7, <2>1, <2>2, <2>7 DEF ChildOK
<1>9. ChildrenOK'
  BY <1>8 DEF ChildrenOK
<1>10. ViewerOK' /\ DashboardOK' /\ UsedOK' /\ Fresh'
  BY <1>5 DEF SInv, ViewerOK, DashboardOK, UsedOK, Fresh
<1>11. StoreOK'
  <2> SUFFICES ASSUME dashboard.at = "store" PROVE child'[dashboard.forked].life # "backlog"
    BY <1>5 DEF StoreOK
  <2>1. dashboard.forked \in Pids
    BY DEF IInv, PidsHeld
  <2> QED  BY <1>7, <2>1 DEF SInv, StoreOK
<1>12. StreamInv'
  <2> SUFFICES ASSUME InFrame, lv.open = TRUE PROVE Streamed(child[lv.pid], lv)'
    BY <1>5 DEF StreamInv, InFrame
  <2>1. lv.pid \in Pids /\ lv' = lv
    BY <1>5 DEF IInv, PidsHeld, SInv, ViewerOK
  <2>2. Streamed(child[lv.pid], lv) /\ ChildOK(child[lv.pid])
    BY <2>1 DEF SInv, StreamInv, ChildrenOK
  <2>3. PICK s, t, me : s = child[lv.pid].prints /\ t = child'[lv.pid].prints /\ me = child'[lv.pid]
    OBVIOUS
  <2>4. s \in Seq(Logged)
    BY <2>2, <2>3 DEF ChildOK
  <2>5. PICK base, came : /\ base \in Seq(Piece) /\ came \in Seq(Piece)
                          /\ lv.lines = base \o came /\ Len(came) = lv.streamed
                          /\ Parsed(s, lv.read, lv.partial, came)
    BY <2>2, <2>3 DEF Streamed
  <2>6. PICK read, partial : read = lv.read /\ partial = lv.partial
    OBVIOUS
  <2>7. t \in {s, Append(s, x)}
    BY <1>7, <2>1, <2>3
  <2>8. Parsed(t, read, partial, came)'
    <3>1. t \in {s, Append(s, Len(journal) + 1)} /\ Parsed(s, read, partial, came)
      BY <1>1, <2>5, <2>6, <2>7
    <3> QED  BY <1>1, <1>2, <2>4, <3>1, ParsedStays
  <2>9. me.life # "backlog" /\ lv.read <= me.written
    BY <1>7, <2>1, <2>2, <2>3 DEF Streamed
  <2>10. Parsed(me.prints, lv.read, lv.partial, came)'
    BY <2>1, <2>3, <2>6, <2>8
  <2> QED  BY <2>1, <2>3, <2>5, <2>9, <2>10 DEF Streamed
<1> QED  BY <1>3, <1>9, <1>10, <1>11, <1>12 DEF SInv

\* The lines about a target are gathered one by one.
Gathered(f, target) ==
  /\ f[0] = << >>
  /\ \A i \in Logged : f[i] = IF About(target, i) THEN Append(f[i - 1], i) ELSE f[i - 1]

\* The function LinesAbout chooses is that one.
LEMMA AboutSteps ==
  ASSUME Journaled, NEW target
  PROVE  \E f : Gathered(f, target) /\ LinesAbout(target) = f[Len(journal)]
<1>1. PICK n : n = Len(journal)
  OBVIOUS
<1>2. n \in Nat
  BY <1>1, LenProperties DEF Journaled
<1>3. PICK step : step = [p \in Seq(Logged) \X (1 .. n) |-> IF About(target, p[2]) THEN Append(p[1], p[2])
                                                                                   ELSE p[1]]
  OBVIOUS
<1>4. step \in [Seq(Logged) \X (1 .. n) -> Seq(Logged)]
  <2>1. ASSUME NEW p \in Seq(Logged) \X (1 .. n) PROVE step[p] \in Seq(Logged)
    <3>1. p[1] \in Seq(Logged) /\ p[2] \in Logged
      BY <1>1 DEF Logged
    <3>2. Append(p[1], p[2]) \in Seq(Logged)
      BY <3>1, AppendProperties
    <3> QED  BY <1>3, <3>1, <3>2
  <2> QED  BY <1>3, <2>1
<1>5. << >> \in Seq(Logged)
  BY EmptySeq
<1>6. PICK f \in [0 .. n -> Seq(Logged)] : Computes(f, n, << >>, step)
  BY <1>2, <1>4, <1>5, ComputesExists
<1>7. ASSUME NEW i \in 0 .. n
      PROVE  f[i] = IF i = 0 THEN << >>
                    ELSE IF About(target, i) THEN Append(f[i - 1], i) ELSE f[i - 1]
  <2>1. f[i] = IF i = 0 THEN << >> ELSE step[<< f[i - 1], i >>]
    BY <1>6 DEF Computes
  <2>2. ASSUME i # 0
        PROVE  step[<< f[i - 1], i >>] = IF About(target, i) THEN Append(f[i - 1], i) ELSE f[i - 1]
    <3>1. f[i - 1] \in Seq(Logged) /\ i \in 1 .. n
      BY <1>2, <2>2
    <3>2. PICK p : p = << f[i - 1], i >>
      OBVIOUS
    <3>3. p \in Seq(Logged) \X (1 .. n) /\ p[1] = f[i - 1] /\ p[2] = i
      BY <3>1, <3>2
    <3> QED  BY <1>3, <3>2, <3>3
  <2> QED  BY <2>1, <2>2
<1>8. f = [i \in 0 .. n |-> IF i = 0 THEN << >>
                            ELSE IF About(target, i) THEN Append(f[i - 1], i) ELSE f[i - 1]]
  BY <1>7
<1> DEFINE about == CHOOSE about : about = [i \in 0 .. n |->
                      IF i = 0 THEN << >>
                      ELSE IF About(target, i) THEN Append(about[i - 1], i) ELSE about[i - 1]]
<1>9. about = [i \in 0 .. n |-> IF i = 0 THEN << >>
                                ELSE IF About(target, i) THEN Append(about[i - 1], i)
                                                         ELSE about[i - 1]]
  BY <1>8
<1>10. LinesAbout(target) = about[n]
  BY <1>1 DEF LinesAbout
<1> HIDE DEF about
<1>11. about[0] = << >>
  BY <1>2, <1>9
<1>12. ASSUME NEW i \in Logged
       PROVE  about[i] = IF About(target, i) THEN Append(about[i - 1], i) ELSE about[i - 1]
  <2>1. i \in 0 .. n /\ i # 0
    BY <1>1, <1>2 DEF Logged
  <2> QED  BY <1>9, <2>1
<1> QED  BY <1>1, <1>10, <1>11, <1>12 DEF Gathered

\* The lines a new child prints.
LEMMA AboutType ==
  ASSUME Journaled, NEW target
  PROVE  LinesAbout(target) \in Seq(Logged)
<1>1. PICK f : Gathered(f, target) /\ LinesAbout(target) = f[Len(journal)]
  BY AboutSteps
<1>2. PICK n : n = Len(journal)
  OBVIOUS
<1>3. n \in Nat
  BY <1>2, LenProperties DEF Journaled
<1>4. f[0] \in Seq(Logged)
  BY <1>1, EmptySeq DEF Gathered
<1>5. ASSUME NEW i \in 1 .. n, f[i - 1] \in Seq(Logged) PROVE f[i] \in Seq(Logged)
  <2>1. i \in Logged
    BY <1>2 DEF Logged
  <2>2. f[i] = IF About(target, i) THEN Append(f[i - 1], i) ELSE f[i - 1]
    BY <1>1, <2>1 DEF Gathered
  <2>3. Append(f[i - 1], i) \in Seq(Logged)
    BY <1>5, <2>1, AppendProperties
  <2> QED  BY <1>5, <2>2, <2>3
<1>6. \A i \in 0 .. n : f[i] \in Seq(Logged)
  BY <1>3, <1>4, <1>5, StaysIn
<1> QED  BY <1>1, <1>2, <1>3, <1>6

\* The newest of some lines are lines.
LEMMA LatestType ==
  ASSUME NEW T, NEW s, s \in Seq(T), NEW n, n \in Nat
  PROVE  Latest(s, n) \in Seq(T)
<1>1. PICK m, c, x : m = Max({1, Len(s) - n + 1}) /\ c = Len(s) /\ x = Len(s) - n + 1
  OBVIOUS
<1>2. c \in Nat /\ x \in Int /\ \A i \in 1 .. c : s[i] \in T
  BY <1>1, LenProperties, ElementOfSeq
<1>3. m \in {1, x} /\ m >= 1
  <2>1. \E y \in {1, x} : \A z \in {1, x} : y >= z
    BY <1>2
  <2>2. m \in {1, x} /\ \A z \in {1, x} : m >= z
    BY <1>1, <2>1 DEF Max
  <2> QED  BY <2>2
<1>4. m \in Int
  BY <1>2, <1>3
<1>5. \A i \in m .. c : s[i] \in T
  BY <1>2, <1>3, <1>4
<1>6. SubSeq(s, m, c) \in Seq(T)
  BY <1>2, <1>3, <1>4, <1>5, SubSeqProperties
<1> QED  BY <1>1, <1>6 DEF Latest

\* Parsing depends on the journal only.
LEMMA ParsedKept ==
  ASSUME journal' = journal, NEW s, NEW read, NEW partial, NEW came,
         Parsed(s, read, partial, came)
  PROVE  Parsed(s, read, partial, came)'
<1>1. PICK k, q, l : ParsedTo(s, read, partial, came, k, q, l)
  BY DEF Parsed
<1>2. ASSUME NEW x PROVE OutputOf(x)' = OutputOf(x) /\ Pieces(x)' = Pieces(x)
  <2>1. \A i : Written(i)' = Written(i) /\ PiecesOf(i)' = PiecesOf(i)
    BY DEF Written, PiecesOf
  <2>2. [i \in DOMAIN x |-> Written(x[i])]' = [i \in DOMAIN x |-> Written(x[i])]
    BY <2>1
  <2>3. [i \in DOMAIN x |-> PiecesOf(x[i])]' = [i \in DOMAIN x |-> PiecesOf(x[i])]
    BY <2>1
  <2> QED  BY <2>2, <2>3 DEF OutputOf, Pieces
<1>3. PICK a : a = SubSeq(s, 1, k)
  OBVIOUS
<1>4. OutputOf(a)' = OutputOf(a) /\ Pieces(a)' = Pieces(a)
  BY <1>2
<1>5. ParsedTo(s, read, partial, came, k, q, l)'
  BY <1>1, <1>3, <1>4 DEF ParsedTo
<1> QED  BY <1>5 DEF Parsed

\* A child that only writes more leaves what was parsed as it is.
LEMMA StreamedKept ==
  ASSUME journal' = journal, NEW me, NEW now, NEW v, Streamed(me, v), now.prints = me.prints,
         now.life # "backlog", v.read <= now.written
  PROVE  Streamed(now, v)'
<1>1. PICK base, came : /\ base \in Seq(Piece) /\ came \in Seq(Piece)
                        /\ v.lines = base \o came /\ Len(came) = v.streamed
                        /\ Parsed(me.prints, v.read, v.partial, came)
  BY DEF Streamed
<1>2. PICK s, read, partial : s = me.prints /\ read = v.read /\ partial = v.partial
  OBVIOUS
<1>3. Parsed(s, read, partial, came)
  BY <1>1, <1>2
<1>4. Parsed(s, read, partial, came)'
  BY <1>3, ParsedKept
<1>5. now.prints = s
  BY <1>2
<1> QED  BY <1>1, <1>2, <1>4, <1>5 DEF Streamed

\* One child changes; the dashboard's view of the others is the same.
LEMMA ChildSInv ==
  ASSUME IInv, SInv, NEW p, p \in Pids, UNCHANGED << journal, lv, dashboard >>, UsedOK',
         child' = [q \in Pids |-> child'[q]],
         \A q \in Pids : q # p => child'[q] = child[q],
         ChildOK(child'[p]), child'[p].life # "backlog",
         child'[p].written >= child[p].written,
         child[p].life = "backlog" \/ child'[p].prints = child[p].prints
  PROVE  SInv'
<1>1. ChildrenOK'
  <2>1. ASSUME NEW q \in Pids PROVE ChildOK(child[q])'
    <3>1. ChildOK(child'[q])
      BY DEF SInv, ChildrenOK
    <3>2. \A s : OutputOf(s)' = OutputOf(s)
      BY DEF OutputOf, Written
    <3> QED  BY <3>1, <3>2 DEF ChildOK, Logged
  <2> QED  BY <2>1 DEF ChildrenOK
<1>2. Journaled' /\ ViewerOK' /\ DashboardOK' /\ Fresh'
  BY DEF SInv, Journaled, ViewerOK, DashboardOK, Fresh
<1>3. StoreOK'
  <2>1. dashboard.at = "store" => dashboard.forked \in Pids
    BY DEF IInv, PidsHeld
  <2> QED  BY <2>1 DEF SInv, StoreOK
<1>4. StreamInv'
  <2> SUFFICES ASSUME InFrame, lv.open = TRUE PROVE Streamed(child[lv.pid], lv)'
    BY DEF StreamInv, InFrame
  <2>1. lv.pid \in Pids /\ Streamed(child[lv.pid], lv)
    BY DEF IInv, PidsHeld, SInv, ViewerOK, StreamInv
  <2>2. PICK me, now, v : me = child[lv.pid] /\ now = child'[lv.pid] /\ v = lv
    OBVIOUS
  <2>3. Streamed(me, v) /\ me.life # "backlog" /\ v.read <= me.written
    BY <2>1, <2>2 DEF Streamed
  <2>4. now.prints = me.prints /\ now.life # "backlog" /\ v.read <= now.written
    <3>1. CASE lv.pid # p
      BY <2>1, <2>2, <2>3, <3>1
    <3>2. CASE lv.pid = p
      <4>1. now.prints = me.prints /\ now.written >= me.written /\ now.life # "backlog"
        BY <2>2, <2>3, <3>2
      <4>2. v.read \in Nat /\ me.written \in Nat /\ now.written \in Nat
        BY <2>2, <3>2 DEF SInv, ViewerOK, ChildrenOK, ChildOK
      <4> QED  BY <2>3, <4>1, <4>2
    <3> QED  BY <3>1, <3>2
  <2>5. Streamed(now, v)'
    BY <2>3, <2>4, StreamedKept
  <2>6. child'[lv'.pid] = now /\ lv' = v
    BY <2>2
  <2> QED  BY <2>5, <2>6
<1> QED  BY <1>1, <1>2, <1>3, <1>4 DEF SInv

\* journalctl prints, opens, writes, obeys a signal or dies.
LEMMA ChildStepSInv ==
  ASSUME IInv, SInv, NEW p, p \in Pids, Prints(p) \/ Opens(p) \/ Writes(p) \/ Obeys(p) \/ Dies(p)
  PROVE  SInv'
<1>1. UNCHANGED << journal, lv, dashboard >>
  BY DEF Prints, Opens, Writes, Obeys, Dies
<1>2. UsedOK'
  <2>1. CASE Dies(p)
    <3>1. used' = [used EXCEPT !.failures = @ + 1] /\ used.failures < MaxFailures
      BY <2>1 DEF Dies
    <3>2. MaxFailures \in Nat
      BY LogStreamAssumption
    <3> QED  BY <3>1, <3>2 DEF SInv, UsedOK
  <2>2. CASE ~Dies(p)
    BY <2>2 DEF SInv, UsedOK, Prints, Opens, Writes, Obeys
  <2> QED  BY <2>1, <2>2
<1>3. PICK me : me = child[p]
  OBVIOUS
<1>4. /\ ChildOK(me) /\ Journaled
      /\ me = [life |-> me.life, target |-> me.target, prints |-> me.prints,
               written |-> me.written, asked |-> me.asked]
      /\ child = [q \in Pids |-> child[q]]
  BY <1>3 DEF SInv, ChildrenOK, IInv, Shape, ChildShaped
<1>5. me.prints \in Seq(Logged) /\ me.written \in Nat /\ me.written <= Len(OutputOf(me.prints))
      /\ Len(OutputOf(me.prints)) \in Nat
  BY <1>4, OutputFacts DEF ChildOK
<1>6. ASSUME NEW now, child' = [child EXCEPT ![p] = now], ChildOK(now), now.life # "backlog",
             now.written >= me.written, me.life = "backlog" \/ now.prints = me.prints
      PROVE  SInv'
  <2>1. child'[p] = now /\ child' = [q \in Pids |-> child'[q]]
        /\ \A q \in Pids : q # p => child'[q] = child[q]
    BY <1>4, <1>6
  <2> QED  BY <1>1, <1>2, <1>3, <1>6, <2>1, ChildSInv
<1>7. CASE Prints(p)
  <2>1. PICK lines : lines = Latest(LinesAbout(me.target), Backlog)
    OBVIOUS
  <2>2. lines \in Seq(Logged)
    <3>1. LinesAbout(me.target) \in Seq(Logged) /\ Backlog \in Nat
      BY <1>4, AboutType, LogStreamAssumption
    <3> QED  BY <2>1, <3>1, LatestType
  <2>3. PICK now : now = [life |-> "ended", target |-> me.target, prints |-> lines,
                          written |-> me.written, asked |-> me.asked]
    OBVIOUS
  <2>4. child' = [child EXCEPT ![p] = now] /\ me.life = "backlog"
    <3>1. child' = [child EXCEPT ![p].prints = lines, ![p].life = "ended"] /\ me.life = "backlog"
      BY <1>3, <1>7, <2>1 DEF Prints
    <3>2. PICK m1 : m1 = [me EXCEPT !.prints = lines]
      OBVIOUS
    <3>3. m1 = [life |-> me.life, target |-> me.target, prints |-> lines,
                written |-> me.written, asked |-> me.asked]
      BY ONLY <1>4, <3>2
    <3>4. [m1 EXCEPT !.life = "ended"] = now
      BY ONLY <2>3, <3>3
    <3>5. child' = [child EXCEPT ![p] = [m1 EXCEPT !.life = "ended"]]
      BY <1>3, <1>4, <3>1, <3>2
    <3> QED  BY <3>1, <3>4, <3>5
  <2>5. me.written = 0 /\ now.written = 0 /\ now.prints = lines
    BY <1>4, <2>3, <2>4 DEF ChildOK
  <2>6. ChildOK(now)
    <3>1. Len(OutputOf(lines)) \in Nat
      BY <1>4, <2>2, OutputFacts
    <3>2. 0 <= Len(OutputOf(lines))
      BY <3>1
    <3> QED  BY <1>4, <2>2, <2>3, <2>5, <3>2 DEF ChildOK
  <2>7. now.life # "backlog" /\ now.written >= me.written
    BY <2>3, <2>5
  <2> QED  BY <1>6, <2>4, <2>6, <2>7
<1>8. CASE Opens(p)
  <2>1. PICK now : now = [me EXCEPT !.life = "follows"]
    OBVIOUS
  <2>2. now = [life |-> "follows", target |-> me.target, prints |-> me.prints,
               written |-> me.written, asked |-> me.asked]
    BY <1>4, <2>1
  <2>3. child' = [child EXCEPT ![p] = now]
    BY <1>3, <1>8, <2>1 DEF Opens
  <2>4. ChildOK(now)
    BY <1>4, <2>2 DEF ChildOK
  <2>5. now.life # "backlog" /\ now.written >= me.written /\ now.prints = me.prints
    BY <1>5, <2>2
  <2> QED  BY <1>6, <2>3, <2>4, <2>5
<1>9. CASE Obeys(p) \/ Dies(p)
  <2>1. PICK now : now = [me EXCEPT !.life = "ended"]
    OBVIOUS
  <2>2. now = [life |-> "ended", target |-> me.target, prints |-> me.prints,
               written |-> me.written, asked |-> me.asked]
    BY <1>4, <2>1
  <2>3. child' = [child EXCEPT ![p] = now]
    BY <1>3, <1>9, <2>1 DEF Obeys, Dies
  <2>4. ChildOK(now)
    BY <1>4, <2>2 DEF ChildOK
  <2>5. now.life # "backlog" /\ now.written >= me.written /\ now.prints = me.prints
    BY <1>5, <2>2
  <2> QED  BY <1>6, <2>3, <2>4, <2>5
<1>10. CASE Writes(p)
  <2>1. PICK n \in me.written + 1 .. Len(OutputOf(me.prints)) :
          child' = [child EXCEPT ![p].written = n,
                                 ![p].life = IF dashboard.at = "gone" THEN "ended" ELSE @]
    <3>1. Output(p) = OutputOf(me.prints)
      BY <1>3, OutputIs
    <3> QED  BY <1>3, <1>10, <3>1 DEF Writes
  <2>2. n \in Nat /\ n >= me.written /\ n <= Len(OutputOf(me.prints))
    BY <1>5, <2>1
  <2>3. me.life = "follows"
    BY <1>3, <1>10 DEF Writes, Following
  <2>4. PICK life : life = IF dashboard.at = "gone" THEN "ended" ELSE me.life
    OBVIOUS
  <2>5. PICK m1, now : m1 = [me EXCEPT !.written = n] /\ now = [m1 EXCEPT !.life = life]
    OBVIOUS
  <2>6. m1 = [life |-> me.life, target |-> me.target, prints |-> me.prints,
              written |-> n, asked |-> me.asked]
    BY ONLY <1>4, <2>5
  <2>7. now = [life |-> life, target |-> me.target, prints |-> me.prints,
               written |-> n, asked |-> me.asked]
    BY ONLY <2>5, <2>6
  <2>8. child' = [child EXCEPT ![p] = now]
    <3>1. PICK c1 : c1 = [child EXCEPT ![p].written = n]
      OBVIOUS
    <3>2. c1 = [child EXCEPT ![p] = m1] /\ c1[p] = m1
      BY <1>3, <1>4, <2>5, <3>1
    <3>3. c1[p].life = me.life
      BY <2>6, <3>2
    <3>4. child' = [c1 EXCEPT ![p].life = life]
      BY <2>1, <2>4, <3>1, <3>3
    <3>5. child' = [c1 EXCEPT ![p] = now]
      BY <2>5, <3>2, <3>4
    <3> QED  BY <1>4, <3>2, <3>5
  <2>9. life \in {"ended", "follows"}
    BY <2>3, <2>4
  <2>10. now.written = n /\ now.prints = me.prints /\ now.life \in {"ended", "follows"}
    BY <2>9, <2>7
  <2>11. ChildOK(now)
    BY <1>4, <2>2, <2>9, <2>7 DEF ChildOK
  <2>12. now.life # "backlog" /\ now.written >= me.written /\ now.prints = me.prints
    BY <2>2, <2>10
  <2> QED  BY <1>6, <2>8, <2>11, <2>12
<1> QED  BY <1>7, <1>8, <1>9, <1>10

-----------------------------------------------------------------------------
(* The steps of the dashboard. *)

\* A read() of any part of what is in the pipe: the lines go on from where those that came
\* before it ended.
LEMMA ReadGathers ==
  ASSUME IInv, SInv, Read, NEW base, base \in Seq(Piece), NEW came, came \in Seq(Piece),
         lv.lines = base \o came, Len(came) = lv.streamed,
         Parsed(child[lv.pid].prints, lv.read, lv.partial, came)
  PROVE  /\ lv'.app = lv.app /\ lv'.pid = lv.pid /\ lv'.open = lv.open
         /\ lv'.read \in Nat /\ lv'.read <= child[lv.pid].written
         /\ lv'.partial \in Seq(Line) /\ Len(lv'.partial) <= Room
         /\ \E next : /\ next \in Seq(Piece)
                      /\ lv'.lines = base \o next /\ lv'.streamed = Len(next)
                      /\ Parsed(child[lv.pid].prints, lv'.read, lv'.partial, next)
<1>1. PICK n \in 1 .. Len(Pipe) :
        LET got == Fed([partial |-> lv.partial, lines |-> lv.lines], SubSeq(Pipe, 1, n))
        IN lv' = [lv EXCEPT !.partial = got.partial, !.lines = got.lines, !.read = @ + n,
                            !.streamed = @ + Len(got.lines) - Len(lv.lines)]
  BY DEF Read
<1>2. UNCHANGED << journal, child, dashboard, used >> /\ dashboard.at = "poll"
  BY DEF Read
<1>3. lv.open = TRUE
  <2>1. SUFFICES ASSUME ~lv.open PROVE FALSE
    BY DEF SInv, ViewerOK
  <2>2. Pipe = << >>
    BY <2>1 DEF Pipe
  <2>3. Len(Pipe) = 0
    BY <2>2
  <2> QED  BY <1>1, <2>3
<1>4. lv.pid \in Pids /\ Journaled
  BY <1>3 DEF SInv, ViewerOK, IInv, PidsHeld
<1>5. Streamed(child[lv.pid], lv) /\ ChildOK(child[lv.pid])
  BY <1>2, <1>3, <1>4 DEF SInv, StreamInv, InFrame, ChildrenOK
<1>6. PICK s, read, partial, lines, written :
        /\ s = child[lv.pid].prints /\ read = lv.read /\ partial = lv.partial
        /\ lines = lv.lines /\ written = child[lv.pid].written
  OBVIOUS
<1>7. /\ base \in Seq(Piece) /\ came \in Seq(Piece)
      /\ lines = base \o came /\ Len(came) = lv.streamed
      /\ Parsed(s, read, partial, came)
  BY <1>6
<1>8. PICK o : o = OutputOf(s)
  OBVIOUS
<1>9. /\ s \in Seq(Logged) /\ o \in Seq(Bytes) /\ Len(o) \in Nat
      /\ written \in Nat /\ written <= Len(o) /\ read \in Nat /\ read <= written
      /\ partial \in Seq(Line) /\ lines \in Seq(Piece)
  <2>1. s \in Seq(Logged) /\ written \in Nat /\ written <= Len(OutputOf(s))
    BY <1>5, <1>6 DEF ChildOK
  <2>2. read \in Nat /\ read <= written /\ partial \in Seq(Line) /\ lines \in Seq(Piece)
    BY <1>5, <1>6 DEF SInv, ViewerOK, Streamed
  <2> QED  BY <1>4, <1>8, <2>1, <2>2, OutputFacts
<1>10. Pipe = SubSeq(o, read + 1, written)
  BY <1>3, <1>6, <1>8, OutputIs DEF Pipe
<1>11. PICK bytes : bytes = SubSeq(Pipe, 1, n)
  OBVIOUS
<1>12. /\ bytes \in Seq(Bytes) /\ Len(bytes) = n /\ n \in Nat /\ read + n <= Len(o)
       /\ \A j \in 1 .. n : bytes[j] = o[read + j]
  <2>1. PICK w, c : w = Pipe /\ c = written - read
    OBVIOUS
  <2>2. c \in Nat /\ c = written - (read + 1) + 1
    BY <1>9, <2>1
  <2>3. w = [i \in 1 .. c |-> o[i + read]]
    BY <1>9, <1>10, <2>1, <2>2
  <2>4. \A i \in 1 .. Len(o) : o[i] \in Bytes
    BY <1>9, ElementOfSeq
  <2>5. \A i \in 1 .. c : i + read \in 1 .. Len(o)
    BY <1>9, <2>1, <2>2
  <2>6. w \in Seq(Bytes) /\ Len(w) = c
    <3>1. \A i \in 1 .. c : o[i + read] \in Bytes
      BY ONLY <2>4, <2>5
    <3>2. w \in Seq(Bytes)
      BY ONLY <2>2, <2>3, <3>1
    <3>3. Len(w) = c
      BY ONLY <2>2, <2>3
    <3> QED  BY <3>2, <3>3
  <2>7. n \in Nat /\ n <= c
    BY <1>1, <2>1, <2>2, <2>6
  <2>8. bytes \in Seq(Bytes) /\ Len(bytes) = n /\ \A j \in 1 .. n : bytes[j] = w[j]
    <3>1. \A j \in 1 .. n : w[j] \in Bytes
      BY <2>2, <2>3, <2>4, <2>5, <2>7
    <3> QED  BY <1>11, <2>1, <2>7, <3>1, SubSeqProperties
  <2>9. ASSUME NEW j \in 1 .. n PROVE bytes[j] = o[read + j]
    <3>1. j \in 1 .. c /\ j + read = read + j
      BY <1>9, <2>2, <2>7
    <3> QED  BY <2>3, <2>8, <3>1
  <2>10. read + n <= Len(o)
    BY <1>9, <2>1, <2>7
  <2> QED  BY <2>7, <2>8, <2>9, <2>10
<1>13. PICK before, got : before = [partial |-> partial, lines |-> lines] /\ got = Fed(before, bytes)
  OBVIOUS
<1>14. before \in Got
  <2>1. partial \in Seq(Bytes)
    <3>1. Line \subseteq Bytes
      BY DEF Line, Bytes
    <3>2. \A i \in 1 .. Len(partial) : partial[i] \in Bytes
      BY <1>9, <3>1, ElementOfSeq
    <3>3. partial = [i \in 1 .. Len(partial) |-> partial[i]] /\ Len(partial) \in Nat
      BY <1>9, LenProperties
    <3> QED  BY <3>2, <3>3
  <2>2. lines \in Seq(Seq(Bytes))
    <3>1. Piece \subseteq Seq(Bytes)
      <4>1. ASSUME NEW x \in Piece PROVE x \in Seq(Bytes)
        <5>1. x \in Seq(Line)
          BY DEF Piece
        <5>2. Line \subseteq Bytes
          BY DEF Line, Bytes
        <5>3. \A i \in 1 .. Len(x) : x[i] \in Bytes
          BY <5>1, <5>2, ElementOfSeq
        <5>4. x = [i \in 1 .. Len(x) |-> x[i]] /\ Len(x) \in Nat
          BY <5>1, LenProperties
        <5> QED  BY <5>3, <5>4
      <4> QED  BY <4>1
    <3>2. \A i \in 1 .. Len(lines) : lines[i] \in Seq(Bytes)
      BY <1>9, <3>1, ElementOfSeq
    <3>3. lines = [i \in 1 .. Len(lines) |-> lines[i]] /\ Len(lines) \in Nat
      BY <1>9, LenProperties
    <3>4. PICK S : S = Seq(Bytes)
      OBVIOUS
    <3>5. lines \in Seq(S)
      BY ONLY <3>2, <3>3, <3>4
    <3> QED  BY <3>4, <3>5
  <2> QED  BY <1>13, <2>1, <2>2 DEF Got
<1>15. Gathers(before, s, base, read)
  <2>1. before.partial = partial /\ before.lines = lines
    BY <1>13
  <2> QED  BY <1>7, <1>9, <1>13, <2>1 DEF Gathers
<1>16. NextBytes(s, read, bytes)
  BY <1>8, <1>9, <1>12 DEF NextBytes
<1>17. Gathers(got, s, base, read + n)
  <2>1. Gathers(Fed(before, bytes), s, base, read + Len(bytes))
    BY <1>4, <1>7, <1>9, <1>12, <1>14, <1>15, <1>16, FeedAll
  <2> QED  BY <1>12, <1>13, <2>1
<1>18. PICK next : /\ next \in Seq(Piece) /\ got.lines = base \o next
                   /\ Parsed(s, read + n, got.partial, next)
  BY <1>17 DEF Gathers
<1>19. got.partial \in Seq(Line) /\ Len(got.partial) <= Room
  <2>1. got.partial \in Seq(Line)
    BY <1>17 DEF Gathers
  <2>2. PICK k, q, l : ParsedTo(s, read + n, got.partial, next, k, q, l)
    BY <1>18 DEF Parsed
  <2>3. k \in 0 .. Len(s) /\ k \in Nat /\ Len(s) \in Nat /\ l \in Nat /\ l <= Room /\ Room \in Nat
    BY <1>9, <2>2, LenProperties, Rooms DEF ParsedTo
  <2>4. CASE k = Len(s)
    <3>1. got.partial = << >>
      BY <2>2, <2>4 DEF ParsedTo
    <3>2. Len(got.partial) = 0
      BY <3>1
    <3> QED  BY <2>1, <2>3, <3>2
  <2>5. CASE k # Len(s)
    <3>1. k < Len(s)
      BY <2>3, <2>5
    <3>2. got.partial = Run(s[k + 1], l)
      BY <2>2, <3>1 DEF ParsedTo
    <3>3. s[k + 1] \in Logged
      BY <1>9, <2>3, <3>1, SubSeqNext
    <3>4. s[k + 1] \in Line
      BY <1>4, <3>3, LengthOf DEF Logged
    <3>5. Len(got.partial) = l
      <4>1. PICK i : i = s[k + 1]
        OBVIOUS
      <4>2. i \in Line /\ l \in Nat
        BY ONLY <2>3, <3>4, <4>1
      <4>3. Len(Run(i, l)) = l
        BY ONLY <4>2, RunType
      <4> QED  BY ONLY <3>2, <4>1, <4>3
    <3> QED  BY ONLY <2>1, <2>3, <3>5
  <2> QED  BY <2>4, <2>5
<1>20. base \o next \in Seq(Piece) /\ Len(base \o next) = Len(base) + Len(next)
       /\ Len(base \o came) = Len(base) + Len(came)
       /\ Len(base) \in Nat /\ Len(next) \in Nat /\ Len(came) \in Nat
  BY <1>7, <1>18, ConcatProperties, LenProperties
<1>21. lv.streamed + Len(got.lines) - Len(lines) = Len(next)
  BY <1>7, <1>18, <1>20
<1>22. lv' = [lv EXCEPT !.partial = got.partial, !.lines = got.lines, !.read = read + n,
                        !.streamed = Len(next)]
  BY <1>1, <1>6, <1>11, <1>13, <1>21
<1>23. /\ lv'.app = lv.app /\ lv'.pid = lv.pid /\ lv'.open = lv.open
       /\ lv'.partial = got.partial /\ lv'.lines = got.lines /\ lv'.read = read + n
       /\ lv'.streamed = Len(next)
  BY <1>22 DEF IInv, Shape
<1>24. read + n \in Nat /\ read + n <= written
  <2>1. Len(Pipe) = written - read
    <3>1. PICK w, c : w = Pipe /\ c = written - read
      OBVIOUS
    <3>2. c \in Nat /\ c = written - (read + 1) + 1
      BY <1>9, <3>1
    <3>3. w = [i \in 1 .. c |-> o[i + read]]
      BY <1>9, <1>10, <3>1, <3>2
    <3> QED  BY <3>1, <3>2, <3>3
  <2>2. n <= written - read
    BY <1>1, <1>9, <2>1
  <2> QED  BY <1>9, <1>12, <2>2
<1> QED  BY <1>6, <1>18, <1>19, <1>23, <1>24

\* A read keeps the invariant.
LEMMA ReadSInv == ASSUME IInv, SInv, Read PROVE SInv'
<1>1. UNCHANGED << journal, child, dashboard, used >> /\ dashboard.at = "poll"
  BY DEF Read
<1>2. lv.open = TRUE
  <2>1. SUFFICES ASSUME ~lv.open PROVE FALSE
    BY DEF SInv, ViewerOK
  <2>2. Pipe = << >>
    BY <2>1 DEF Pipe
  <2>3. Len(Pipe) = 0
    BY <2>2
  <2> QED  BY <2>3 DEF Read
<1>3. lv.pid \in Pids
  BY <1>2 DEF SInv, ViewerOK, IInv, PidsHeld
<1>4. Streamed(child[lv.pid], lv) /\ ChildOK(child[lv.pid])
  BY <1>1, <1>2, <1>3 DEF SInv, StreamInv, InFrame, ChildrenOK
<1>5. PICK me, v : me = child[lv.pid] /\ v = lv'
  OBVIOUS
<1>6. PICK base, came : /\ base \in Seq(Piece) /\ came \in Seq(Piece)
                        /\ lv.lines = base \o came /\ Len(came) = lv.streamed
                        /\ Parsed(child[lv.pid].prints, lv.read, lv.partial, came)
  BY <1>4 DEF Streamed
<1>7. /\ lv'.app = lv.app /\ lv'.pid = lv.pid /\ lv'.open = lv.open
      /\ lv'.read \in Nat /\ lv'.read <= child[lv.pid].written
      /\ lv'.partial \in Seq(Line) /\ Len(lv'.partial) <= Room
  BY <1>6, ReadGathers
<1>8. PICK next : /\ next \in Seq(Piece)
                  /\ lv'.lines = base \o next /\ lv'.streamed = Len(next)
                  /\ Parsed(child[lv.pid].prints, lv'.read, lv'.partial, next)
  BY <1>6, ReadGathers
<1>9. ViewerOK'
  <2>1. base \o next \in Seq(Piece) /\ Len(next) \in Nat
    BY <1>6, <1>8, ConcatProperties, LenProperties
  <2> QED  BY <1>7, <1>8, <2>1 DEF SInv, ViewerOK
<1>10. Journaled' /\ DashboardOK' /\ UsedOK' /\ Fresh' /\ StoreOK'
  BY <1>1 DEF SInv, Journaled, DashboardOK, UsedOK, Fresh, StoreOK
<1>11. ChildrenOK'
  BY <1>1 DEF SInv, ChildrenOK, ChildOK, Logged, OutputOf, Written
<1>12. StreamInv'
  <2>1. me.life # "backlog"
    BY <1>4, <1>5 DEF Streamed
  <2>2. Streamed(me, v)
    BY <1>5, <1>6, <1>7, <1>8, <2>1 DEF Streamed
  <2>3. v.read <= me.written /\ me.prints = me.prints
    BY <1>5, <1>7
  <2>4. Streamed(me, v)'
    BY <1>1, <2>1, <2>2, <2>3, StreamedKept
  <2>5. child'[lv'.pid] = me
    BY <1>1, <1>5, <1>7
  <2> QED  BY <1>5, <2>4, <2>5 DEF StreamInv
<1> QED  BY <1>9, <1>10, <1>11, <1>12 DEF SInv

\* The journal and the children stay as they are.
LEMMA ChildrenAsTheyAre ==
  ASSUME SInv, UNCHANGED << journal, child >>
  PROVE  Journaled' /\ ChildrenOK'
<1>1. Journaled'
  BY DEF SInv, Journaled
<1>2. \A s : OutputOf(s)' = OutputOf(s)
  BY DEF OutputOf, Written
<1>3. ChildrenOK'
  BY <1>2 DEF SInv, ChildrenOK, ChildOK, Logged
<1> QED  BY <1>1, <1>3

\* One of them is forgotten, forked, or told to end.
LEMMA ChildReplaced ==
  ASSUME SInv, Shape, UNCHANGED journal, NEW p, p \in Pids, NEW now, ChildOK(now),
         child' = [child EXCEPT ![p] = now]
  PROVE  Journaled' /\ ChildrenOK'
<1>1. Journaled'
  BY DEF SInv, Journaled
<1>2. \A s : OutputOf(s)' = OutputOf(s)
  BY DEF OutputOf, Written
<1>3. \A q \in Pids : ChildOK(child'[q])
  BY DEF SInv, ChildrenOK, Shape
<1>4. ChildrenOK'
  BY <1>2, <1>3 DEF ChildrenOK, ChildOK, Logged
<1> QED  BY <1>1, <1>4

\* Frames, and what starts log_viewer_cleanup.
LEMMA FrameSInv ==
  ASSUME IInv, SInv,
         \/ Polled \/ Frame \/ Quit
         \/ \E target \in Targets \cup Invalid : Switch(target)
  PROVE  SInv'
<1>1. /\ UNCHANGED << journal, child, lv >>
      /\ dashboard.at \in {"poll", "frame"}
      /\ dashboard'.at \in {"poll", "frame", "term", "clear"}
      /\ DashboardOK'
  <2>1. Cleanup \in {"term", "clear"}
    BY DEF Cleanup
  <2>2. CASE Polled \/ Frame
    BY <2>2 DEF IInv, Shape, Polled, Frame, Goes, SInv, DashboardOK, Stages
  <2>3. CASE Quit \/ \E target \in Targets \cup Invalid : Switch(target)
    BY <2>1, <2>3 DEF IInv, Shape, Quit, Switch, SInv, DashboardOK, Stages
  <2> QED  BY <2>2, <2>3
<1>2. UsedOK'
  <2>1. CASE \E target \in Targets \cup Invalid : Switch(target)
    <3>1. used' = [used EXCEPT !.switches = @ + 1] /\ used.switches < MaxSwitches
      BY <2>1 DEF Switch
    <3>2. MaxSwitches \in Nat
      BY LogStreamAssumption
    <3> QED  BY <3>1, <3>2 DEF SInv, UsedOK
  <2>2. CASE Polled \/ Frame \/ Quit
    BY <2>2 DEF SInv, UsedOK, Polled, Frame, Quit
  <2> QED  BY <2>1, <2>2
<1>3. Journaled' /\ ChildrenOK'
  BY <1>1, ChildrenAsTheyAre
<1>4. ViewerOK'
  BY <1>1 DEF SInv, ViewerOK
<1>5. Fresh' /\ StoreOK'
  BY <1>1 DEF Fresh, StoreOK
<1>6. StreamInv'
  <2> SUFFICES ASSUME lv.open = TRUE PROVE Streamed(child[lv.pid], lv)'
    BY <1>1 DEF StreamInv
  <2>1. PICK me, v : me = child[lv.pid] /\ v = lv
    OBVIOUS
  <2>2. Streamed(me, v)
    BY <1>1, <2>1 DEF SInv, StreamInv, InFrame
  <2>3. me.life # "backlog" /\ v.read <= me.written /\ me.prints = me.prints
    BY <2>2 DEF Streamed
  <2>4. Streamed(me, v)'
    BY <1>1, <2>2, <2>3, StreamedKept
  <2> QED  BY <1>1, <2>1, <2>4
<1> QED  BY <1>1, <1>2, <1>3, <1>4, <1>5, <1>6 DEF SInv

\* log_viewer_cleanup.
LEMMA CleanupSInv ==
  ASSUME IInv, SInv, Terminate \/ Reap \/ Clear
  PROVE  SInv'
<1>1. CASE Terminate
  <2>1. /\ dashboard.at = "term" /\ dashboard' = [dashboard EXCEPT !.at = "reap"]
        /\ child' = [child EXCEPT ![lv.pid].asked = TRUE]
        /\ UNCHANGED << journal, lv, used >>
    BY <1>1 DEF Terminate, Goes
  <2>2. dashboard'.at = "reap" /\ DashboardOK'
    BY <2>1 DEF IInv, Shape, SInv, DashboardOK, Stages
  <2>3. Journaled' /\ ChildrenOK'
    <3>1. CASE lv.pid \in Pids
      <4>1. PICK me, now : me = child[lv.pid] /\ now = [me EXCEPT !.asked = TRUE]
        OBVIOUS
      <4>2. me = [life |-> me.life, target |-> me.target, prints |-> me.prints,
                  written |-> me.written, asked |-> me.asked]
        BY <3>1, <4>1 DEF IInv, Shape, ChildShaped
      <4>3. now = [life |-> me.life, target |-> me.target, prints |-> me.prints,
                   written |-> me.written, asked |-> TRUE]
        BY ONLY <4>1, <4>2
      <4>4. ChildOK(now)
        <5>1. ChildOK(me)
          BY <3>1, <4>1 DEF SInv, ChildrenOK
        <5> QED  BY <4>3, <5>1 DEF ChildOK
      <4>5. child' = [child EXCEPT ![lv.pid] = now]
        BY <2>1, <4>1
      <4> QED  BY <2>1, <3>1, <4>4, <4>5, ChildReplaced DEF IInv
    <3>2. CASE lv.pid \notin Pids
      <4>1. child' = child
        BY <2>1, <3>2 DEF IInv, Shape
      <4> QED  BY <2>1, <4>1, ChildrenAsTheyAre
    <3> QED  BY <3>1, <3>2
  <2>4. ViewerOK' /\ UsedOK'
    BY <2>1 DEF SInv, ViewerOK, UsedOK
  <2>5. Fresh' /\ StoreOK' /\ StreamInv'
    BY <2>2 DEF Fresh, StoreOK, StreamInv, InFrame
  <2> QED  BY <2>2, <2>3, <2>4, <2>5 DEF SInv
<1>2. CASE Reap
  <2>1. /\ dashboard.at = "reap" /\ dashboard' = [dashboard EXCEPT !.at = "clear"]
        /\ child' = [child EXCEPT ![lv.pid] = NoChild]
        /\ UNCHANGED << journal, lv, used >>
    BY <1>2 DEF Reap, Goes
  <2>2. dashboard'.at = "clear" /\ DashboardOK'
    BY <2>1 DEF IInv, Shape, SInv, DashboardOK, Stages
  <2>3. Journaled' /\ ChildrenOK'
    <3>1. CASE lv.pid \in Pids
      BY <2>1, <3>1, NoChildOK, ChildReplaced DEF IInv
    <3>2. CASE lv.pid \notin Pids
      <4>1. child' = child
        BY <2>1, <3>2 DEF IInv, Shape
      <4> QED  BY <2>1, <4>1, ChildrenAsTheyAre
    <3> QED  BY <3>1, <3>2
  <2>4. ViewerOK' /\ UsedOK'
    BY <2>1 DEF SInv, ViewerOK, UsedOK
  <2>5. Fresh' /\ StoreOK' /\ StreamInv'
    BY <2>2 DEF Fresh, StoreOK, StreamInv, InFrame
  <2> QED  BY <2>2, <2>3, <2>4, <2>5 DEF SInv
<1>3. CASE Clear
  <2>1. PICK app, at : /\ app = IF dashboard.wants \in Targets THEN dashboard.wants ELSE lv.app
                       /\ at = IF dashboard.wants \in Targets THEN "backlog" ELSE "poll"
    OBVIOUS
  <2>2. /\ lv' = [NoStream EXCEPT !.app = app] /\ dashboard' = [dashboard EXCEPT !.at = at]
        /\ UNCHANGED << journal, child, used >>
    BY <1>3, <2>1 DEF Clear
  <2>3. app \in Targets /\ at \in {"backlog", "poll"}
    BY <2>1 DEF SInv, ViewerOK
  <2>4. dashboard'.at = at /\ DashboardOK'
    BY <2>2, <2>3 DEF IInv, Shape, SInv, DashboardOK, Stages
  <2>5. lv' = [app |-> app, pid |-> 0, open |-> FALSE, read |-> 0, partial |-> << >>,
               lines |-> << >>, streamed |-> 0]
    BY <2>2 DEF NoStream
  <2>6. ViewerOK'
    <3>1. << >> \in Seq(Line) /\ << >> \in Seq(Piece) /\ Len(<< >>) = 0 /\ 0 <= Room
      BY Rooms, EmptySeq
    <3> QED  BY <2>3, <2>5, <3>1 DEF ViewerOK
  <2>7. Fresh' /\ StoreOK' /\ StreamInv'
    BY <2>3, <2>4, <2>5 DEF Fresh, StoreOK, StreamInv
  <2>8. Journaled' /\ ChildrenOK'
    BY <2>2, ChildrenAsTheyAre
  <2>9. UsedOK'
    BY <2>2 DEF SInv, UsedOK
  <2> QED  BY <2>4, <2>6, <2>7, <2>8, <2>9 DEF SInv
<1> QED  BY <1>1, <1>2, <1>3

\* fork()
LEMMA ForkSInv ==
  ASSUME IInv, SInv, NEW life \in {"backlog", "starting"}, Fork(life),
         UNCHANGED << journal, lv, used >>, dashboard.at \in {"backlog", "follow"}
  PROVE  SInv'
<1>1. PICK pid, me, at : /\ pid = Min({p \in Pids : child[p].life = "none"})
                         /\ me = [NoChild EXCEPT !.life = life, !.target = lv.app]
                         /\ at = IF life = "backlog" THEN "read" ELSE "store"
  OBVIOUS
<1>2. pid \in Pids
  BY <1>1, FreePid DEF Fork
<1>3. /\ child' = [child EXCEPT ![pid] = me]
      /\ dashboard' = [dashboard EXCEPT !.at = at, !.forked = pid]
  BY <1>1 DEF Fork
<1>4. me = [life |-> life, target |-> lv.app, prints |-> << >>, written |-> 0, asked |-> FALSE]
  <2>1. PICK born : born = [NoChild EXCEPT !.life = life]
    OBVIOUS
  <2>2. born = [life |-> life, target |-> All, prints |-> << >>, written |-> 0, asked |-> FALSE]
    BY <2>1 DEF NoChild
  <2>3. me = [born EXCEPT !.target = lv.app]
    BY <1>1, <2>1
  <2> QED  BY ONLY <2>2, <2>3
<1>5. ChildOK(me)
  BY <1>4, NoChildOK DEF ChildOK, NoChild, SInv, ViewerOK
<1>6. Journaled' /\ ChildrenOK'
  BY <1>2, <1>3, <1>5, ChildReplaced DEF IInv
<1>7. dashboard'.at = at /\ dashboard'.forked = pid /\ DashboardOK'
  BY <1>1, <1>2, <1>3 DEF IInv, Shape, SInv, DashboardOK, Stages
<1>8. ViewerOK' /\ UsedOK'
  BY DEF SInv, ViewerOK, UsedOK
<1>9. Fresh' /\ StreamInv'
  BY <1>1, <1>7 DEF SInv, Fresh, StreamInv, InFrame
<1>10. StoreOK'
  <2> SUFFICES ASSUME dashboard'.at = "store" PROVE child'[pid].life # "backlog"
    BY <1>7 DEF StoreOK
  <2>1. life = "starting"
    BY <1>1, <1>7
  <2>2. child'[pid] = me
    BY <1>2, <1>3 DEF IInv, Shape
  <2> QED  BY <1>4, <2>1, <2>2
<1> QED  BY <1>6, <1>7, <1>8, <1>9, <1>10 DEF SInv

\* A fork that fails leaves the dashboard without that child.
LEMMA ForkFailsSInv ==
  ASSUME IInv, SInv, NEW otherwise, ForkFails(otherwise),
         \/ dashboard.at = "backlog" /\ otherwise = "follow"
         \/ dashboard.at = "follow" /\ otherwise = "poll"
  PROVE  SInv'
<1>1. /\ used' = [used EXCEPT !.failures = @ + 1] /\ used.failures < MaxFailures
      /\ dashboard' = [dashboard EXCEPT !.at = otherwise]
      /\ UNCHANGED << journal, child, lv >>
  BY DEF ForkFails
<1>2. dashboard'.at = otherwise /\ otherwise \in {"follow", "poll"} /\ DashboardOK'
  BY <1>1 DEF IInv, Shape, SInv, DashboardOK, Stages
<1>3. UsedOK'
  <2>1. MaxFailures \in Nat
    BY LogStreamAssumption
  <2> QED  BY <1>1, <2>1 DEF SInv, UsedOK
<1>4. Journaled' /\ ChildrenOK'
  BY <1>1, ChildrenAsTheyAre
<1>5. ViewerOK'
  BY <1>1 DEF SInv, ViewerOK
<1>6. Fresh' /\ StoreOK' /\ StreamInv'
  BY <1>1, <1>2 DEF SInv, Fresh, StoreOK, StreamInv
<1> QED  BY <1>2, <1>3, <1>4, <1>5, <1>6 DEF SInv

\* The rest of log_viewer_set_app.
LEMMA SetAppSInv ==
  ASSUME IInv, SInv, ForkBacklog \/ ReadBacklog \/ ForkFollower \/ Store
  PROVE  SInv'
<1>1. CASE ForkBacklog
  BY <1>1, ForkSInv, ForkFailsSInv DEF ForkBacklog
<1>2. CASE ForkFollower
  BY <1>2, ForkSInv, ForkFailsSInv DEF ForkFollower
<1>3. CASE ReadBacklog
  <2>1. /\ dashboard.at = "read" /\ dashboard' = [dashboard EXCEPT !.at = "follow"]
        /\ child' = [child EXCEPT ![dashboard.forked] = NoChild]
        /\ UNCHANGED << journal, used >>
    BY <1>3 DEF ReadBacklog, Goes
  <2>2. dashboard.forked \in Pids
    BY <2>1 DEF IInv, PidsHeld
  <2>3. PICK more, all : /\ more = Pieces(child[dashboard.forked].prints)
                         /\ all = lv.lines \o more
    OBVIOUS
  <2>4. lv' = [lv EXCEPT !.lines = all]
    BY <1>3, <2>3 DEF ReadBacklog
  <2>5. all \in Seq(Piece)
    <3>1. child[dashboard.forked].prints \in Seq(Logged) /\ Journaled
      BY <2>2 DEF SInv, ChildrenOK, ChildOK
    <3>2. more \in Seq(Piece)
      BY <2>3, <3>1, PieceFacts
    <3>3. lv.lines \in Seq(Piece)
      BY DEF SInv, ViewerOK
    <3> QED  BY <2>3, <3>2, <3>3, ConcatProperties
  <2>6. /\ lv'.app = lv.app /\ lv'.pid = lv.pid /\ lv'.open = lv.open /\ lv'.read = lv.read
        /\ lv'.partial = lv.partial /\ lv'.lines = all /\ lv'.streamed = lv.streamed
    BY <2>4 DEF IInv, Shape
  <2>7. ViewerOK'
    BY <2>5, <2>6 DEF SInv, ViewerOK
  <2>8. dashboard'.at = "follow" /\ DashboardOK'
    BY <2>1 DEF IInv, Shape, SInv, DashboardOK, Stages
  <2>9. Fresh' /\ StoreOK' /\ StreamInv'
    BY <2>1, <2>6, <2>8 DEF SInv, Fresh, StoreOK, StreamInv, InFrame
  <2>10. Journaled' /\ ChildrenOK'
    BY <2>1, <2>2, NoChildOK, ChildReplaced DEF IInv
  <2>11. UsedOK'
    BY <2>1 DEF SInv, UsedOK
  <2> QED  BY <2>7, <2>8, <2>9, <2>10, <2>11 DEF SInv
<1>4. CASE Store
  <2>1. /\ dashboard.at = "store" /\ dashboard' = [dashboard EXCEPT !.at = "poll"]
        /\ lv' = [lv EXCEPT !.pid = dashboard.forked, !.open = TRUE]
        /\ UNCHANGED << journal, child, used >>
    BY <1>4 DEF Store, Goes
  <2>2. dashboard.forked \in Pids /\ dashboard.forked # 0
    BY <2>1, LogStreamAssumption DEF IInv, PidsHeld
  <2>3. /\ lv'.app = lv.app /\ lv'.pid = dashboard.forked /\ lv'.open = TRUE
        /\ lv'.read = 0 /\ lv'.partial = << >> /\ lv'.lines = lv.lines /\ lv'.streamed = 0
    <3>1. lv.read = 0 /\ lv.partial = << >> /\ lv.streamed = 0
      BY <2>1 DEF SInv, Fresh
    <3> QED  BY <2>1, <3>1 DEF IInv, Shape
  <2>4. ViewerOK'
    <3>1. lv.read = 0 /\ lv.partial = << >> /\ lv.streamed = 0
      BY <2>1 DEF SInv, Fresh
    <3> QED  BY <2>2, <2>3, <3>1 DEF SInv, ViewerOK
  <2>5. dashboard'.at = "poll" /\ DashboardOK'
    BY <2>1 DEF IInv, Shape, SInv, DashboardOK, Stages
  <2>6. Fresh' /\ StoreOK'
    BY <2>5 DEF Fresh, StoreOK
  <2>7. Journaled' /\ ChildrenOK'
    BY <2>1, ChildrenAsTheyAre
  <2>8. UsedOK'
    BY <2>1 DEF SInv, UsedOK
  <2>9. StreamInv'
    <3>1. PICK me, v, s : me = child[dashboard.forked] /\ v = lv' /\ s = me.prints
      OBVIOUS
    <3>2. ChildOK(me) /\ Journaled /\ me.life # "backlog"
      BY <2>1, <2>2, <3>1 DEF SInv, ChildrenOK, StoreOK
    <3>3. s \in Seq(Logged) /\ me.written \in Nat /\ Len(s) \in Nat
      BY <3>1, <3>2, LenProperties DEF ChildOK
    <3>4. Parsed(s, 0, << >>, << >>)
      <4>1. PICK k, a : k = 0 /\ a = SubSeq(s, 1, k)
        OBVIOUS
      <4>2. k \in 0 .. Len(s)
        BY <3>3, <4>1
      <4>3. ParsedTo(s, Len(OutputOf(SubSeq(s, 1, k))), << >>, Pieces(SubSeq(s, 1, k)), k, 0, 0)
        BY <3>2, <3>3, <4>2, ParsedBetween
      <4>4. a = << >>
        BY <4>1
      <4>5. OutputOf(a) = << >> /\ Pieces(a) = << >>
        BY <3>2, <3>3, <4>4, OutputFacts, PieceFacts
      <4>6. Len(OutputOf(a)) = 0
        BY <4>5
      <4>7. ParsedTo(s, 0, << >>, << >>, k, 0, 0)
        BY <4>1, <4>3, <4>5, <4>6
      <4> QED  BY <4>7 DEF Parsed
    <3>5. PICK base, came : base = lv.lines /\ came = << >>
      OBVIOUS
    <3>6. base \in Seq(Piece) /\ came \in Seq(Piece) /\ base \o came = base /\ Len(came) = 0
      <4>1. base \in Seq(Piece)
        BY <3>5 DEF SInv, ViewerOK
      <4> QED  BY <3>5, <4>1, EmptySeq, ConcatEmptySeq
    <3>7. Streamed(me, v)
      <4>1. v.read <= me.written
        BY <2>3, <3>1, <3>3
      <4>2. v.lines = base \o came /\ Len(came) = v.streamed
        BY <2>3, <3>1, <3>5, <3>6
      <4>3. Parsed(me.prints, v.read, v.partial, came)
        BY <2>3, <3>1, <3>4, <3>5
      <4> QED  BY <3>2, <3>6, <4>1, <4>2, <4>3 DEF Streamed
    <3>8. Streamed(me, v)'
      <4>1. v.read <= me.written /\ me.prints = me.prints
        BY <3>7 DEF Streamed
      <4> QED  BY <2>1, <3>2, <3>7, <4>1, StreamedKept
    <3>9. child'[lv'.pid] = me
      BY <2>1, <2>3, <3>1
    <3> QED  BY <3>1, <3>8, <3>9 DEF StreamInv
  <2> QED  BY <2>4, <2>5, <2>6, <2>7, <2>8, <2>9 DEF SInv
<1> QED  BY <1>1, <1>2, <1>3, <1>4

\* The end.
LEMMA EndSInv ==
  ASSUME IInv, SInv, Leave \/ Signal \/ Killed \/ Upgrade
  PROVE  SInv'
<1>1. PICK how : /\ how \in {"quit", "signal", "forking", "upgrade", "killed"}
                 /\ Ends(how) /\ UNCHANGED << journal, used >>
  BY DEF Leave, Signal, Killed, Upgrade, How
<1>2. dashboard' = [at |-> "gone", wants |-> Exit, forked |-> 0, ended |-> how] /\ lv' = NoStream
  BY <1>1 DEF Ends
<1>3. Journaled' /\ ChildrenOK'
  <2>1. CASE child' = child
    BY <1>1, <2>1, ChildrenAsTheyAre
  <2>2. CASE child' # child
    <3>1. lv.pid # 0 /\ child' = [child EXCEPT ![lv.pid] = NoChild]
      BY <2>2 DEF Leave, Signal, Killed, Upgrade
    <3>2. lv.pid \in Pids
      BY <3>1 DEF IInv, PidsHeld
    <3> QED  BY <1>1, <3>1, <3>2, NoChildOK, ChildReplaced DEF IInv
  <2> QED  BY <2>1, <2>2
<1>4. ViewerOK'
  <2>1. << >> \in Seq(Line) /\ << >> \in Seq(Piece) /\ Len(<< >>) = 0 /\ 0 <= Room
    BY Rooms, EmptySeq
  <2> QED  BY <1>2, <2>1 DEF ViewerOK, NoStream, Targets
<1>5. DashboardOK'
  BY <1>1, <1>2 DEF DashboardOK, Stages
<1>6. UsedOK'
  BY <1>1 DEF SInv, UsedOK
<1>7. Fresh' /\ StoreOK' /\ StreamInv'
  BY <1>2 DEF Fresh, StoreOK, StreamInv, InFrame, NoStream
<1> QED  BY <1>3, <1>4, <1>5, <1>6, <1>7 DEF SInv

\* Every step keeps it.
LEMMA NextSInv == IInv /\ SInv /\ [Next]_vars => SInv'
<1> SUFFICES ASSUME IInv, SInv, [Next]_vars PROVE SInv'
  OBVIOUS
<1>1. CASE \E app \in Apps : Log(app)
  BY <1>1, LogSInv
<1>2. CASE Children \/ \E p \in Pids : Dies(p)
  <2>1. PICK p \in Pids : Prints(p) \/ Opens(p) \/ Writes(p) \/ Obeys(p) \/ Dies(p)
    BY <1>2 DEF Children
  <2> QED  BY <2>1, ChildStepSInv
<1>3. CASE Loop
  BY <1>3, ReadSInv, FrameSInv, CleanupSInv, SetAppSInv, EndSInv DEF Loop
<1>4. CASE (\E target \in Targets \cup Invalid : Switch(target)) \/ Quit
  BY <1>4, FrameSInv
<1>5. CASE Signal \/ Killed \/ Upgrade
  BY <1>5, EndSInv
<1>6. CASE UNCHANGED vars
  <2>1. UNCHANGED << journal, child, lv, dashboard, used >>
    BY <1>6 DEF vars
  <2>2. Journaled' /\ ChildrenOK'
    BY <2>1, ChildrenAsTheyAre
  <2>3. ViewerOK' /\ DashboardOK' /\ UsedOK' /\ Fresh' /\ StoreOK'
    BY <2>1 DEF SInv, ViewerOK, DashboardOK, UsedOK, Fresh, StoreOK
  <2>4. StreamInv'
    <3> SUFFICES ASSUME InFrame, lv.open = TRUE PROVE Streamed(child[lv.pid], lv)'
      BY <2>1 DEF StreamInv, InFrame
    <3>1. PICK me, v : me = child[lv.pid] /\ v = lv
      OBVIOUS
    <3>2. Streamed(me, v)
      BY <3>1 DEF SInv, StreamInv
    <3>3. me.life # "backlog" /\ v.read <= me.written /\ me.prints = me.prints
      BY <3>2 DEF Streamed
    <3>4. Streamed(me, v)'
      BY <2>1, <3>2, <3>3, StreamedKept
    <3> QED  BY <2>1, <3>1, <3>4
  <2> QED  BY <2>2, <2>3, <2>4 DEF SInv
<1> QED  BY <1>1, <1>2, <1>3, <1>4, <1>5, <1>6 DEF Next

\* So it always holds.
LEMMA StreamInvariance == Spec => [](IInv /\ SInv)
<1> QED  BY InitIInv, NextIInv, InitSInv, NextSInv, PTL DEF Spec

\* However the bytes of the follower are split among reads, whatever was logged, switched
\* or killed in between, and even across a read that ends inside a line, what came of the
\* stream is exactly what the follower printed, cut where a line does not fit its slot
\* (log_viewer_poll, log_stream_open_argv, log_viewer_set_app).
THEOREM PipeExact == Spec => []StreamExact
<1> QED  BY ExactFromInv, StreamInvariance, PTL

\* The invariant says more than the types.
LEMMA TypesFromInv == IInv /\ SInv => TypeOK
<1> SUFFICES ASSUME IInv, SInv PROVE TypeOK
  OBVIOUS
<1>1. journal \in Seq([app : Apps, length : Lengths])
  BY DEF SInv, Journaled
<1>2. child \in [Pids -> Child]
  <2>1. ASSUME NEW p \in Pids PROVE child[p] \in Child
    <3>1. PICK me : me = child[p]
      OBVIOUS
    <3>2. ChildOK(me) /\ me = [life |-> me.life, target |-> me.target, prints |-> me.prints,
                               written |-> me.written, asked |-> me.asked]
      BY <3>1 DEF SInv, ChildrenOK, IInv, Shape, ChildShaped
    <3>3. me.prints \in Seq(1 .. MaxLogged)
      <4>1. Logged \subseteq 1 .. MaxLogged
        BY Rooms, LenProperties DEF SInv, Journaled, Logged
      <4>2. me.prints \in Seq(Logged)
        BY <3>2 DEF ChildOK
      <4> QED  BY <4>1, <4>2, SeqWider
    <3>4. me \in Child
      BY <3>2, <3>3 DEF ChildOK, Child
    <3> QED  BY <3>1, <3>4
  <2> QED  BY <2>1 DEF IInv, Shape
<1>3. lv.lines \in Seq(Seq(1 .. MaxLogged))
      /\ \A i \in DOMAIN lv.lines : Len(lv.lines[i]) \in 1 .. LineCap - 1
  <2>1. lv.lines \in Seq(Piece)
    BY DEF SInv, ViewerOK
  <2>2. PICK ls, S : ls = lv.lines /\ S = Seq(Line)
    OBVIOUS
  <2>3. Piece \subseteq S
    BY <2>2 DEF Piece
  <2>4. ls \in Seq(S)
    BY <2>1, <2>2, <2>3, SeqWider
  <2>5. ASSUME NEW i \in DOMAIN ls PROVE Len(ls[i]) \in 1 .. LineCap - 1
    <3>1. ls[i] \in Piece
      BY <2>1, <2>2, LenProperties, ElementOfSeq
    <3> QED  BY <3>1 DEF Piece, Room
  <2> QED  BY <2>2, <2>4, <2>5 DEF Line
<1>4. lv \in [app : Targets, pid : Pids \cup {0}, open : BOOLEAN, read : Nat,
              partial : Seq(1 .. MaxLogged), lines : Seq(Seq(1 .. MaxLogged)),
              streamed : Nat]
  <2>1. PICK S, T : S = Seq(1 .. MaxLogged) /\ T = Seq(S)
    OBVIOUS
  <2>2. /\ lv.app \in Targets /\ lv.pid \in Pids \cup {0} /\ lv.open \in BOOLEAN
        /\ lv.read \in Nat /\ lv.streamed \in Nat /\ lv.partial \in S /\ lv.lines \in T
    BY <1>3, <2>1 DEF SInv, ViewerOK, IInv, PidsHeld, Line
  <2>3. lv = [app |-> lv.app, pid |-> lv.pid, open |-> lv.open, read |-> lv.read,
              partial |-> lv.partial, lines |-> lv.lines, streamed |-> lv.streamed]
    BY DEF IInv, Shape
  <2>4. lv \in [app : Targets, pid : Pids \cup {0}, open : BOOLEAN, read : Nat,
                partial : S, lines : T, streamed : Nat]
    BY <2>2, <2>3
  <2> QED  BY <2>1, <2>4
<1>5. (lv.open => lv.pid > 0) /\ Len(lv.partial) < LineCap
  <2>1. lv.open => lv.pid > 0
    <3>1. \A p \in Pids : p \in Nat
      BY LogStreamAssumption
    <3> QED  BY <3>1 DEF SInv, ViewerOK, IInv, PidsHeld
  <2>2. Len(lv.partial) < LineCap
    <3>1. Len(lv.partial) \in Nat /\ Len(lv.partial) <= Room
      BY LenProperties DEF SInv, ViewerOK
    <3> QED  BY <3>1, Rooms DEF Room
  <2> QED  BY <2>1, <2>2
<1>6. dashboard \in [at : Stages, wants : Targets \cup Invalid \cup {Exit},
                     forked : Pids \cup {0},
                     ended : {"no", "quit", "signal", "forking", "upgrade", "killed"}]
  BY DEF SInv, DashboardOK, IInv, Shape
<1>7. used \in [switches : 0 .. MaxSwitches, failures : 0 .. MaxFailures]
  BY DEF SInv, UsedOK
<1> QED  BY <1>1, <1>2, <1>3, <1>4, <1>5, <1>6, <1>7 DEF TypeOK

\* The journal, the children, the viewer and the dashboard keep their shape: no stored line
\* and no partial one outgrows its slot, and an open pipe has a pid (log_viewer_poll indexes
\* partial_line by partial_len, log_viewer_cleanup signals journal_pid).
THEOREM StreamTypes == Spec => []TypeOK
<1> QED  BY TypesFromInv, StreamInvariance, PTL

-----------------------------------------------------------------------------
(* The order of what is shown. *)

\* Lines about a target, in the order they were logged and none of them twice.
Story(z, target) ==
  /\ z \in Seq(Logged)
  /\ \A i, j \in 1 .. Len(z) : i < j => z[i] < z[j]
  /\ \A i \in 1 .. Len(z) : About(target, z[i])

\* Bytes of the lines z in their order, no more of one than it has.
Told(z, bytes) ==
  /\ bytes \in Seq(Logged)
  /\ \A b \in 1 .. Len(bytes) : \E j \in 1 .. Len(z) : bytes[b] = z[j]
  /\ \A b, c \in 1 .. Len(bytes) : b < c => bytes[b] <= bytes[c]
  /\ \A i \in Logged : \E o \in Nat : \A b \in 1 .. Len(bytes) :
       bytes[b] = i => b \in o + 1 .. o + journal[i].length

\* Two runs of one line are a longer one.
LEMMA RunLonger ==
  ASSUME NEW i, i \in Line, NEW a, a \in Nat, NEW b, b \in Nat
  PROVE  Run(i, a) \o Run(i, b) = Run(i, a + b)
<1>1. PICK x, y, z, u : x = Run(i, a) /\ y = Run(i, b) /\ z = Run(i, a + b) /\ u = x \o y
  OBVIOUS
<1>2. a + b \in Nat
  OBVIOUS
<1>3. /\ x \in Seq(Line) /\ Len(x) = a /\ \A c \in 1 .. a : x[c] = i
      /\ y \in Seq(Line) /\ Len(y) = b /\ \A c \in 1 .. b : y[c] = i
      /\ z \in Seq(Line) /\ Len(z) = a + b /\ \A c \in 1 .. a + b : z[c] = i
  <2>1. x \in Seq(Line) /\ Len(x) = a /\ \A c \in 1 .. a : x[c] = i
    BY <1>1, RunType
  <2>2. y \in Seq(Line) /\ Len(y) = b /\ \A c \in 1 .. b : y[c] = i
    BY <1>1, RunType
  <2>3. z \in Seq(Line) /\ Len(z) = a + b /\ \A c \in 1 .. a + b : z[c] = i
    <3>1. PICK n : n = a + b
      OBVIOUS
    <3>2. Run(i, n) \in Seq(Line) /\ Len(Run(i, n)) = n /\ \A c \in 1 .. n : Run(i, n)[c] = i
      BY <1>2, <3>1, RunType
    <3> QED  BY <1>1, <3>1, <3>2
  <2> QED  BY <2>1, <2>2, <2>3
<1>4. /\ u \in Seq(Line) /\ Len(u) = a + b
      /\ \A c \in 1 .. a + b : u[c] = IF c <= a THEN x[c] ELSE y[c - a]
  <2>1. x \in Seq(Line) /\ y \in Seq(Line) /\ Len(x) = a /\ Len(y) = b
    BY ONLY <1>3
  <2> QED  BY ONLY <1>1, <2>1, ConcatProperties
<1>5. ASSUME NEW c \in 1 .. a + b PROVE u[c] = z[c]
  <2>1. CASE c <= a
    BY ONLY <1>3, <1>4, <2>1, <1>5, a \in Nat, b \in Nat
  <2>2. CASE ~(c <= a)
    <3>1. c - a \in 1 .. b
      BY <2>2
    <3> QED  BY ONLY <1>3, <1>4, <1>5, <2>2, <3>1
  <2> QED  BY <2>1, <2>2
<1>6. u = z
  BY <1>3, <1>4, <1>5, SeqEqual
<1> QED  BY <1>1, <1>6

\* Full pieces of a line are a run of its bytes.
LEMMA FullsFlat ==
  ASSUME NEW i, i \in Line, NEW q, q \in Nat
  PROVE  FlattenSeq(Fulls(i, q)) = Run(i, q * Room)
<1>1. Room \in Nat /\ Room >= 1
  BY Rooms
<1>2. PICK P, g : /\ P = {k \in Nat : FlattenSeq(Fulls(i, k)) = Run(i, k * Room)}
                  /\ g = [k \in 0 .. q |-> k]
  OBVIOUS
<1>3. g[0] \in P
  <2>1. 0 * Room = 0 /\ 0 \in Nat /\ g[0] = 0
    BY <1>1, <1>2
  <2>2. Fulls(i, 0) = << >> /\ Run(i, 0) = << >>
    BY FullsType, RunType
  <2> QED  BY <1>2, <2>1, <2>2, FlattenEmpty
<1>4. ASSUME NEW k \in 1 .. q, g[k - 1] \in P PROVE g[k] \in P
  <2>1. PICK h, full, x : h = k - 1 /\ full = Run(i, Room) /\ x = Fulls(i, h)
    OBVIOUS
  <2>2. h \in Nat /\ h + 1 = k /\ k \in Nat /\ g[k - 1] = h /\ g[k] = k
    BY <1>2, <2>1
  <2>3. PICK n : n = h * Room
    OBVIOUS
  <2>4. n \in Nat /\ k * Room = n + Room
    BY <1>1, <2>2, <2>3
  <2>5. FlattenSeq(x) = Run(i, n)
    BY <1>2, <1>4, <2>1, <2>2, <2>3
  <2>6. full \in Seq(Line)
    BY <1>1, <2>1, RunType
  <2>7. x \in Seq(Seq(Line)) /\ Append(x, full) = Fulls(i, k)
    <3>1. x \in Seq(Piece) /\ Append(x, full) = Fulls(i, h + 1)
      BY <2>1, <2>2, FullsType
    <3>2. PICK S : S = Seq(Line)
      OBVIOUS
    <3>3. Piece \subseteq S
      BY <3>2 DEF Piece
    <3>4. x \in Seq(S)
      BY <3>1, <3>3, SeqWider
    <3> QED  BY <2>2, <3>1, <3>2, <3>4
  <2>8. FlattenSeq(Append(x, full)) = FlattenSeq(x) \o full
    BY ONLY <2>6, <2>7, FlattenAppend
  <2>9. Run(i, n) \o Run(i, Room) = Run(i, n + Room)
    BY ONLY i \in Line, <1>1, <2>4, RunLonger
  <2>10. FlattenSeq(Fulls(i, k)) = Run(i, k * Room)
    <3>1. PICK t : t = k * Room
      OBVIOUS
    <3>2. FlattenSeq(Fulls(i, k)) = Run(i, n) \o full
      BY ONLY <2>5, <2>7, <2>8
    <3>3. Run(i, n) \o full = Run(i, t)
      <4>1. t = n + Room
        BY ONLY <2>4, <3>1
      <4> QED  BY ONLY <2>1, <2>9, <4>1
    <3> QED  BY ONLY <3>1, <3>2, <3>3
  <2> QED  BY ONLY <1>2, <2>2, <2>10
<1>5. \A k \in 0 .. q : g[k] \in P
  BY <1>3, <1>4, StaysIn
<1>6. q \in P
  BY <1>2, <1>5
<1> QED  BY <1>2, <1>6

\* The pieces of a line hold its bytes.
LEMMA PiecesFlat ==
  ASSUME Journaled, NEW i, i \in Logged
  PROVE  FlattenSeq(PiecesOf(i)) = Run(i, journal[i].length) /\ PiecesOf(i) \in Seq(Seq({i}))
<1>1. i \in Line /\ Room \in Nat /\ Room >= 1
  BY LengthOf, Rooms DEF Logged
<1>2. PICK d \in Nat, m \in 1 .. Room : journal[i].length = d * Room + m
  BY LineCut DEF Logged
<1>3. PICK x, last, n : x = Fulls(i, d) /\ last = Run(i, m) /\ n = d * Room
  OBVIOUS
<1>4. PiecesOf(i) = Append(x, last)
  BY <1>2, <1>3, PiecesOfLine DEF Logged
<1>5. m \in Nat /\ n \in Nat
  BY <1>1, <1>3
<1>6. last \in Seq(Line) /\ x \in Seq(Piece)
  BY <1>1, <1>3, <1>5, RunType, FullsType
<1>7. x \in Seq(Seq(Line))
  <2>1. PICK S : S = Seq(Line)
    OBVIOUS
  <2>2. Piece \subseteq S
    BY <2>1 DEF Piece
  <2>3. x \in Seq(S)
    BY <1>6, <2>2, SeqWider
  <2> QED  BY <2>1, <2>3
<1>8. FlattenSeq(Append(x, last)) = FlattenSeq(x) \o last
  BY ONLY <1>6, <1>7, FlattenAppend
<1>9. FlattenSeq(x) = Run(i, n)
  BY <1>1, <1>3, FullsFlat
<1>10. Run(i, n) \o Run(i, m) = Run(i, n + m)
  BY ONLY <1>1, <1>5, RunLonger
<1>11. PiecesOf(i) \in Seq(Seq({i}))
  <2>1. PICK S : S = Seq({i})
    OBVIOUS
  <2>2. \A c \in Nat : Run(i, c) \in S
    BY <2>1 DEF Run
  <2>3. x = [j \in 1 .. d |-> Run(i, Room)]
    BY <1>3 DEF Fulls
  <2>4. x \in Seq(S) /\ last \in S
    BY <1>1, <1>3, <1>5, <2>2, <2>3
  <2>5. Append(x, last) \in Seq(S)
    BY <2>4, AppendProperties
  <2> QED  BY <1>4, <2>1, <2>5
<1> QED  BY <1>2, <1>3, <1>4, <1>8, <1>9, <1>10, <1>11

\* A later line more is told by its bytes behind those there are.
LEMMA ToldNext ==
  ASSUME Journaled, NEW z, z \in Seq(Logged), NEW bytes, Told(z, bytes),
         NEW y, y \in Logged, \A j \in 1 .. Len(z) : z[j] < y
  PROVE  Told(Append(z, y), bytes \o Run(y, journal[y].length))
<1>1. PICK n, m, c, r, a, all : /\ n = Len(bytes) /\ m = journal[y].length /\ c = Len(z)
                                /\ r = Run(y, m) /\ a = Append(z, y) /\ all = bytes \o r
  OBVIOUS
<1>2. bytes \in Seq(Logged) /\ n \in Nat /\ c \in Nat /\ m \in Nat /\ y \in Nat
  <2>1. bytes \in Seq(Logged)
    BY DEF Told
  <2>2. n \in Nat /\ c \in Nat
    BY <1>1, <2>1, LenProperties
  <2> QED  BY <1>1, <2>1, <2>2, LengthOf DEF Logged
<1>3. r \in Seq(Logged) /\ Len(r) = m /\ \A b \in 1 .. m : r[b] = y
  <2>1. r = [b \in 1 .. m |-> y]
    BY ONLY <1>1 DEF Run
  <2>2. r \in Seq(Logged)
    <3>1. PICK S : S = Logged
      OBVIOUS
    <3>2. y \in S
      BY <3>1
    <3>3. r \in Seq(S)
      BY ONLY <1>2, <2>1, <3>2
    <3> QED  BY ONLY <3>1, <3>3
  <2> QED  BY ONLY <1>2, <2>1, <2>2
<1>4. /\ all \in Seq(Logged) /\ Len(all) = n + m
      /\ \A b \in 1 .. n + m : all[b] = IF b <= n THEN bytes[b] ELSE r[b - n]
  <2>1. bytes \in Seq(Logged) /\ r \in Seq(Logged) /\ Len(bytes) = n /\ Len(r) = m
    BY <1>1, <1>2, <1>3
  <2> QED  BY ONLY <1>1, <2>1, ConcatProperties
<1>5. ASSUME NEW b \in 1 .. n + m
      PROVE  \/ b \in 1 .. n /\ all[b] = bytes[b]
             \/ b \in n + 1 .. n + m /\ all[b] = y
  <2>1. CASE b <= n
    BY <1>2, <1>4, <2>1
  <2>2. CASE ~(b <= n)
    <3>1. b - n \in 1 .. m /\ b \in n + 1 .. n + m
      BY <1>2, <2>2
    <3>2. all[b] = r[b - n]
      BY <1>4, <2>2
    <3> QED  BY <1>3, <3>1, <3>2
  <2> QED  BY <2>1, <2>2
<1>6. a \in Seq(Logged) /\ Len(a) = c + 1 /\ (\A j \in 1 .. c : a[j] = z[j]) /\ a[c + 1] = y
  BY <1>1, AppendProperties
<1>7. ASSUME NEW b \in 1 .. n PROVE \E j \in 1 .. c : bytes[b] = z[j]
  BY <1>1 DEF Told
<1>8. ASSUME NEW b \in 1 .. n PROVE bytes[b] < y /\ bytes[b] \in Nat
  <2>1. PICK j \in 1 .. c : bytes[b] = z[j]
    BY <1>7
  <2>2. z[j] \in Logged
    BY <1>1, <2>1, ElementOfSeq
  <2> QED  BY <1>1, <2>1, <2>2 DEF Logged
<1>9. ASSUME NEW b \in 1 .. n + m PROVE \E j \in 1 .. c + 1 : all[b] = a[j]
  <2>1. CASE b \in 1 .. n /\ all[b] = bytes[b]
    <3>1. PICK j \in 1 .. c : bytes[b] = z[j]
      BY <1>7, <2>1
    <3>2. j \in 1 .. c + 1
      BY <1>2
    <3> QED  BY <1>6, <2>1, <3>1, <3>2
  <2>2. CASE all[b] = y
    <3>1. c + 1 \in 1 .. c + 1
      BY <1>2
    <3> QED  BY <1>6, <2>2, <3>1
  <2> QED  BY <1>5, <2>1, <2>2
<1>10. ASSUME NEW b \in 1 .. n + m, NEW d \in 1 .. n + m, b < d PROVE all[b] <= all[d]
  <2>1. CASE d \in 1 .. n /\ all[d] = bytes[d]
    <3>1. b \in 1 .. n /\ ~(b \in n + 1 .. n + m)
      BY <1>2, <1>10, <2>1
    <3>2. all[b] = bytes[b]
      BY <1>5, <3>1
    <3>3. bytes[b] <= bytes[d]
      BY <1>1, <1>10, <2>1, <3>1 DEF Told
    <3> QED  BY <2>1, <3>2, <3>3
  <2>2. CASE all[d] = y
    <3>1. CASE all[b] = y
      BY <1>2, <2>2, <3>1
    <3>2. CASE b \in 1 .. n /\ all[b] = bytes[b]
      BY <1>2, <1>8, <2>2, <3>2
    <3> QED  BY <1>5, <3>1, <3>2
  <2> QED  BY <1>5, <2>1, <2>2
<1>11. ASSUME NEW i \in Logged
       PROVE  \E o \in Nat : \A b \in 1 .. n + m : all[b] = i => b \in o + 1 .. o + journal[i].length
  <2>1. CASE i = y
    <3>1. ASSUME NEW b \in 1 .. n + m, all[b] = i PROVE b \in n + 1 .. n + m
      <4>1. CASE b \in 1 .. n /\ all[b] = bytes[b]
        BY <1>2, <1>8, <2>1, <3>1, <4>1
      <4> QED  BY <1>5, <4>1
    <3> QED  BY <1>1, <1>2, <2>1, <3>1
  <2>2. CASE i # y
    <3>1. PICK o \in Nat : \A b \in 1 .. n : bytes[b] = i => b \in o + 1 .. o + journal[i].length
      BY <1>1 DEF Told
    <3>2. ASSUME NEW b \in 1 .. n + m, all[b] = i PROVE b \in o + 1 .. o + journal[i].length
      BY <1>5, <2>2, <3>1, <3>2
    <3> QED  BY <3>1, <3>2
  <2> QED  BY <2>1, <2>2
<1>12. Told(a, all)
  BY <1>4, <1>6, <1>9, <1>10, <1>11 DEF Told
<1> QED  BY <1>1, <1>12

\* The pieces of one line more come behind the pieces of the others.
LEMMA PiecesMore ==
  ASSUME Journaled, NEW s, s \in Seq(Logged), NEW e, e \in Logged
  PROVE  Pieces(Append(s, e)) = Pieces(s) \o PiecesOf(e) /\ Append(s, e) \in Seq(Logged)
<1>1. PICK w : /\ StandFor(w, Logged, Piece) /\ \A i \in Logged : w[i] = PiecesOf(i)
               /\ \A t \in Seq(Logged) : Pieces(t) = Joined(w, t)
  BY PiecesJoined
<1>2. Append(s, e) \in Seq(Logged)
  BY AppendProperties
<1>3. Joined(w, Append(s, e)) = Joined(w, s) \o w[e]
  BY <1>1, JoinedAppend
<1> QED  BY <1>1, <1>2, <1>3

\* Pieces of lines are sequences of their bytes.
LEMMA PiecesAreBytes ==
  ASSUME NEW x, x \in Seq(Piece)
  PROVE  x \in Seq(Seq(Line))
<1>1. PICK S : S = Seq(Line)
  OBVIOUS
<1>2. Piece \subseteq S
  BY <1>1 DEF Piece
<1>3. x \in Seq(S)
  BY <1>2, SeqWider
<1> QED  BY <1>1, <1>3

\* Lines in their order are told by the bytes of their pieces.
LEMMA StoryTold ==
  ASSUME Journaled, NEW z, z \in Seq(Logged), \A i, j \in 1 .. Len(z) : i < j => z[i] < z[j]
  PROVE  Told(z, FlattenSeq(Pieces(z)))
<1>1. PICK P : P = {s \in Seq(Logged) :
                      (\A i, j \in 1 .. Len(s) : i < j => s[i] < s[j]) => Told(s, FlattenSeq(Pieces(s)))}
  OBVIOUS
<1>2. << >> \in P
  <2>1. PICK s : s = << >>
    OBVIOUS
  <2>2. s \in Seq(Logged) /\ Len(s) = 0
    BY <2>1, EmptySeq
  <2>3. Pieces(s) = << >>
    BY <2>1, <2>2, PieceFacts
  <2>4. FlattenSeq(Pieces(s)) = s
    BY <2>1, <2>3, FlattenEmpty
  <2>5. Told(s, s)
    BY <2>2 DEF Told
  <2> QED  BY <1>1, <2>1, <2>2, <2>4, <2>5
<1>3. ASSUME NEW s \in Seq(Logged), NEW e \in Logged, s \in P PROVE Append(s, e) \in P
  <2>1. PICK a, n : a = Append(s, e) /\ n = Len(s)
    OBVIOUS
  <2>2. /\ a \in Seq(Logged) /\ Len(a) = n + 1 /\ n \in Nat
        /\ (\A j \in 1 .. n : a[j] = s[j]) /\ a[n + 1] = e
    BY <2>1, AppendProperties, LenProperties
  <2> SUFFICES ASSUME \A i, j \in 1 .. Len(a) : i < j => a[i] < a[j]
               PROVE  Told(a, FlattenSeq(Pieces(a)))
    BY <1>1, <2>1, <2>2
  <2>3. \A i, j \in 1 .. Len(s) : i < j => s[i] < s[j]
    <3>1. \A i \in 1 .. n : i \in 1 .. Len(a)
      BY <2>2
    <3> QED  BY <2>1, <2>2, <3>1
  <2>4. \A j \in 1 .. Len(s) : s[j] < e
    <3>1. ASSUME NEW j \in 1 .. n PROVE s[j] < e
      <4>1. j \in 1 .. Len(a) /\ n + 1 \in 1 .. Len(a) /\ j < n + 1
        BY <2>2
      <4>2. a[j] < a[n + 1]
        BY <4>1
      <4> QED  BY <2>2, <4>2
    <3> QED  BY <2>1, <3>1
  <2>5. Told(s, FlattenSeq(Pieces(s)))
    BY <1>1, <1>3, <2>3
  <2>6. PICK x, y : x = Pieces(s) /\ y = PiecesOf(e)
    OBVIOUS
  <2>7. Pieces(a) = x \o y
    BY <2>1, <2>6, PiecesMore
  <2>8. x \in Seq(Seq(Line)) /\ y \in Seq(Seq(Line))
    <3>1. x \in Seq(Piece)
      BY <2>6, PieceFacts
    <3>2. y \in Seq(Piece)
      BY <2>6, PiecesOfType DEF Logged
    <3> QED  BY <3>1, <3>2, PiecesAreBytes
  <2>9. FlattenSeq(x \o y) = FlattenSeq(x) \o FlattenSeq(y)
    BY ONLY <2>8, FlattenConcat
  <2>10. FlattenSeq(y) = Run(e, journal[e].length)
    BY <2>6, PiecesFlat
  <2>11. PICK bytes : bytes = FlattenSeq(x)
    OBVIOUS
  <2>12. Told(s, bytes)
    BY <2>5, <2>6, <2>11
  <2>13. Told(Append(s, e), bytes \o Run(e, journal[e].length))
    BY <2>4, <2>12, ToldNext
  <2> QED  BY <2>1, <2>7, <2>9, <2>10, <2>11, <2>13
<1>4. \A s \in Seq(Logged) : s \in P
  BY <1>2, <1>3, SeqInduction
<1> QED  BY <1>1, <1>4

-----------------------------------------------------------------------------
(* What InOrder asks of lines that are the beginning of a story. *)

\* The elements of the beginning are those of the whole.
LEMMA BeginsWith ==
  ASSUME NEW S, NEW all, NEW x, x \in Seq(S), Continues(S, all, x)
  PROVE  /\ all \in Seq(S) /\ Len(x) \in Nat /\ Len(all) \in Nat /\ Len(x) <= Len(all)
         /\ \A i \in 1 .. Len(x) : all[i] = x[i]
         /\ SubSeq(all, 1, Len(x)) = x
<1>1. PICK r : r \in Seq(S) /\ all = x \o r
  BY DEF Continues
<1>2. PICK n, m : n = Len(x) /\ m = Len(r)
  OBVIOUS
<1>3. n \in Nat /\ m \in Nat /\ \A i \in 1 .. n : x[i] \in S
  BY <1>1, <1>2, LenProperties, ElementOfSeq
<1>4. /\ all \in Seq(S) /\ Len(all) = n + m
      /\ \A i \in 1 .. n + m : all[i] = IF i <= n THEN x[i] ELSE r[i - n]
  <2>1. x \in Seq(S) /\ r \in Seq(S)
    BY <1>1
  <2> QED  BY ONLY <1>1, <1>2, <2>1, ConcatProperties
<1>5. \A i \in 1 .. n : all[i] = x[i]
  BY <1>3, <1>4
<1>6. PICK b : b = SubSeq(all, 1, n)
  OBVIOUS
<1>7. b \in Seq(S) /\ Len(b) = n /\ \A i \in 1 .. n : b[i] = all[i]
  <2>1. \A i \in 1 .. n : all[i] \in S
    BY <1>3, <1>5
  <2> QED  BY <1>3, <1>4, <1>6, <2>1, SubSeqProperties
<1>8. \A i \in 1 .. n : b[i] = x[i]
  BY <1>5, <1>7
<1>9. b = x
  BY <1>2, <1>7, <1>8, SeqEqual
<1> QED  BY <1>2, <1>3, <1>4, <1>5, <1>6, <1>9

\* Bytes that are all in one interval are no more than it has.
LEMMA WithinInterval ==
  ASSUME NEW T, NEW o, o \in Nat, NEW n, n \in Nat, T \subseteq o + 1 .. o + n
  PROVE  Cardinality(T) <= n
<1>1. PICK I : I = o + 1 .. o + n
  OBVIOUS
<1>2. IsFiniteSet(I) /\ Cardinality(I) = n
  <2>1. PICK a, b : a = o + 1 /\ b = o + n
    OBVIOUS
  <2>2. a \in Int /\ b \in Int
    BY <2>1
  <2>3. IsFiniteSet(a .. b) /\ Cardinality(a .. b) = IF a > b THEN 0 ELSE b - a + 1
    BY ONLY <2>2, FS_Interval
  <2>4. I = a .. b
    BY <1>1, <2>1
  <2>5. (IF a > b THEN 0 ELSE b - a + 1) = n
    BY <2>1
  <2> QED  BY <2>3, <2>4, <2>5
<1>3. T \subseteq I
  BY <1>1
<1>4. Cardinality(T) <= Cardinality(I)
  BY ONLY <1>2, <1>3, FS_Subset
<1> QED  BY <1>2, <1>4

\* What the invariant below says of the lines is what InOrder asks.
LEMMA OrderOfStory ==
  ASSUME Journaled, NEW z, NEW target, Story(z, target), NEW lines, lines \in Seq(Piece),
         Continues(Piece, Pieces(z), lines)
  PROVE  /\ \A i \in DOMAIN lines : \A b \in Range(lines[i]) : About(target, b)
         /\ \A i, j \in DOMAIN FlattenSeq(lines) :
              i < j => FlattenSeq(lines)[i] <= FlattenSeq(lines)[j]
         /\ \A b \in Range(FlattenSeq(lines)) :
              Cardinality({c \in DOMAIN FlattenSeq(lines) : FlattenSeq(lines)[c] = b})
                <= journal[b].length
<1>1. PICK all, n : all = Pieces(z) /\ n = Len(lines)
  OBVIOUS
<1>2. /\ all \in Seq(Piece) /\ n \in Nat /\ Len(all) \in Nat /\ n <= Len(all)
      /\ \A i \in 1 .. n : all[i] = lines[i]
      /\ SubSeq(all, 1, n) = lines
  BY <1>1, BeginsWith
<1>3. z \in Seq(Logged)
  BY DEF Story
<1>4. ASSUME NEW i \in DOMAIN lines, NEW b \in Range(lines[i]) PROVE About(target, b)
  <2>1. PICK R, w : R = {r \in Logged : About(target, r)} /\ w = [r \in R |-> PiecesOf(r)]
    OBVIOUS
  <2>2. PICK T : T = Seq(R)
    OBVIOUS
  <2>3. ASSUME NEW r \in R PROVE PiecesOf(r) \in Seq(T)
    <3>1. PICK U : U = Seq({r})
      OBVIOUS
    <3>2. PiecesOf(r) \in Seq(U)
      BY <2>1, <3>1, PiecesFlat
    <3>3. U \subseteq T
      <4>1. {r} \subseteq R
        BY <2>3
      <4>2. ASSUME NEW x \in Seq({r}) PROVE x \in Seq(R)
        BY <4>1, SeqWider
      <4> QED  BY <2>2, <3>1, <4>2
    <3> QED  BY <3>2, <3>3, SeqWider
  <2>4. StandFor(w, R, T)
    BY <2>1, <2>3 DEF StandFor
  <2>5. z \in Seq(R)
    <3>1. Len(z) \in Nat /\ z = [j \in 1 .. Len(z) |-> z[j]]
      BY <1>3, LenProperties
    <3>2. \A j \in 1 .. Len(z) : z[j] \in R
      BY <1>3, <2>1, ElementOfSeq DEF Story
    <3> QED  BY <3>1, <3>2
  <2>6. Joined(w, z) \in Seq(T)
    BY <2>4, <2>5, JoinedParts
  <2>7. all = Joined(w, z)
    <3>1. \A j \in DOMAIN z : z[j] \in R
      BY <2>5, LenProperties, ElementOfSeq
    <3>2. [j \in DOMAIN z |-> w[z[j]]] = [j \in DOMAIN z |-> PiecesOf(z[j])]
      BY <2>1, <3>1
    <3> QED  BY <1>1, <3>2 DEF Pieces, Joined, Each
  <2>8. i \in 1 .. n /\ i \in 1 .. Len(all)
    <3>1. DOMAIN lines = 1 .. n
      BY <1>1, LenProperties
    <3> QED  BY <1>2, <3>1
  <2>9. lines[i] \in Seq(R)
    <3>1. all[i] \in T
      BY <2>6, <2>7, <2>8, ElementOfSeq
    <3> QED  BY <1>2, <2>2, <2>8, <3>1
  <2>10. b \in R
    <3>1. PICK c \in DOMAIN lines[i] : b = lines[i][c]
      BY DEF Range
    <3> QED  BY <2>9, <3>1, LenProperties, ElementOfSeq
  <2> QED  BY <2>1, <2>10
<1>5. PICK told, bytes : told = FlattenSeq(all) /\ bytes = FlattenSeq(lines)
  OBVIOUS
<1>6. Told(z, told)
  BY <1>1, <1>3, <1>5, StoryTold DEF Story
<1>7. bytes \in Seq(Line)
  <2>1. lines \in Seq(Seq(Line))
    BY PiecesAreBytes
  <2> QED  BY <1>5, <2>1, FlattenType
<1>8. Continues(Line, told, bytes)
  <2>1. all \in Seq(Seq(Line)) /\ n \in 0 .. Len(all)
    BY <1>2, PiecesAreBytes
  <2>2. Continues(Line, FlattenSeq(all), FlattenSeq(SubSeq(all, 1, n)))
    BY ONLY <2>1, FlattenPrefix
  <2> QED  BY <1>2, <1>5, <2>2
<1>9. PICK m : m = Len(bytes)
  OBVIOUS
<1>10. /\ m \in Nat /\ DOMAIN bytes = 1 .. m /\ Len(told) \in Nat /\ m <= Len(told)
       /\ \A c \in 1 .. m : told[c] = bytes[c]
  BY <1>7, <1>8, <1>9, BeginsWith, LenProperties
<1>11. ASSUME NEW c \in 1 .. m, NEW d \in 1 .. m, c < d PROVE bytes[c] <= bytes[d]
  <2>1. c \in 1 .. Len(told) /\ d \in 1 .. Len(told)
    BY <1>10
  <2>2. told[c] <= told[d]
    BY <1>6, <1>11, <2>1 DEF Told
  <2> QED  BY <1>10, <2>2
<1>12. ASSUME NEW b \in Range(bytes)
       PROVE  Cardinality({c \in 1 .. m : bytes[c] = b}) <= journal[b].length
  <2>1. PICK T, n1 : T = {c \in 1 .. m : bytes[c] = b} /\ n1 = journal[b].length
    OBVIOUS
  <2>2. b \in Logged
    <3>1. PICK c \in 1 .. m : b = bytes[c]
      BY <1>10 DEF Range
    <3>2. c \in 1 .. Len(told) /\ told \in Seq(Logged)
      BY <1>6, <1>10 DEF Told
    <3>3. told[c] \in Logged
      BY <3>2, ElementOfSeq
    <3> QED  BY <1>10, <3>1, <3>3
  <2>3. n1 \in Nat
    BY <2>1, <2>2, LengthOf DEF Logged
  <2>4. PICK o \in Nat : \A c \in 1 .. Len(told) : told[c] = b => c \in o + 1 .. o + n1
    BY <1>6, <2>1, <2>2 DEF Told
  <2>5. T \subseteq o + 1 .. o + n1
    <3>1. ASSUME NEW c \in T PROVE c \in o + 1 .. o + n1
      <4>1. c \in 1 .. m /\ bytes[c] = b
        BY <2>1
      <4>2. c \in 1 .. Len(told) /\ told[c] = b
        BY <1>10, <4>1
      <4> QED  BY <2>4, <4>2
    <3> QED  BY <3>1
  <2>6. Cardinality(T) <= n1
    BY <2>3, <2>5, WithinInterval
  <2> QED  BY <2>1, <2>6
<1> QED  BY <1>4, <1>5, <1>10, <1>11, <1>12

-----------------------------------------------------------------------------
(* The invariant of the order. *)

\* A child prints lines about its target, in their order; before it has printed, none.
TellOK(me) ==
  /\ Story(me.prints, me.target)
  /\ me.life \in {"none", "backlog", "starting"} => me.prints = << >>

\* The lines are those of a story: what the first child printed.
Alone(v) == \E bp : Story(bp, v.app) /\ v.lines = Pieces(bp)

\* They are those of a story and what came through the pipe, and what the follower
\* printed continues that story.
HeardFrom(me, v, bp, came) ==
  /\ came \in Seq(Piece) /\ bp \in Seq(Logged)
  /\ v.lines = Pieces(bp) \o came /\ Len(came) = v.streamed
  /\ Story(bp \o me.prints, v.app)
Heard(me, v) == me.target = v.app /\ \E bp, came : HeardFrom(me, v, bp, came)

\* What the viewer holds at each place of log_viewer_set_app, and in a frame.
LinesOK ==
  /\ dashboard.at \in {"backlog", "read"} => lv.lines = << >>
  /\ dashboard.at = "read" => child[dashboard.forked].target = lv.app
  /\ dashboard.at = "follow" => Alone(lv)
  /\ InFrame /\ lv.open = FALSE => Alone(lv)
  /\ dashboard.at = "store" => Heard(child[dashboard.forked], lv)
  /\ InFrame /\ lv.open = TRUE => Heard(child[lv.pid], lv)

TellersOK == \A p \in Pids : TellOK(child[p])

\* With IInv and SInv it is inductive.
OInv == TellersOK /\ LinesOK

\* No lines are a story about anything.
LEMMA NothingTold ==
  ASSUME NEW target, NEW z, z = << >>
  PROVE  Story(z, target)
<1>1. z \in Seq(Logged) /\ Len(z) = 0
  BY EmptySeq
<1> QED  BY <1>1 DEF Story

\* Of nothing nothing is held.
LEMMA NothingHeld ==
  ASSUME Journaled, NEW v, v.lines = << >>
  PROVE  Alone(v)
<1>1. PICK z : z = << >>
  OBVIOUS
<1>2. Story(z, v.app)
  BY <1>1, NothingTold
<1>3. Pieces(z) = << >>
  BY <1>1, <1>2, PieceFacts DEF Story
<1> QED  BY <1>2, <1>3 DEF Alone

\* A story depends on the journal only, and so do the pieces.
LEMMA StoryKept ==
  ASSUME journal' = journal, NEW z, NEW target, Story(z, target)
  PROVE  Story(z, target)' /\ Pieces(z)' = Pieces(z)
<1>1. \A i : About(target, i)' = About(target, i) /\ PiecesOf(i)' = PiecesOf(i)
  BY DEF About, PiecesOf
<1>2. Story(z, target)'
  BY <1>1 DEF Story, Logged
<1>3. [i \in DOMAIN z |-> PiecesOf(z[i])]' = [i \in DOMAIN z |-> PiecesOf(z[i])]
  BY <1>1
<1> QED  BY <1>2, <1>3 DEF Pieces

\* So what is told of it stays true when nothing is logged.
LEMMA TellKept ==
  ASSUME journal' = journal, NEW me, TellOK(me)
  PROVE  TellOK(me)'
<1>1. PICK z, target : z = me.prints /\ target = me.target
  OBVIOUS
<1>2. Story(z, target)'
  BY <1>1, StoryKept DEF TellOK
<1> QED  BY <1>1, <1>2 DEF TellOK

LEMMA AloneKept ==
  ASSUME journal' = journal, NEW v, Alone(v), NEW w, w.app = v.app, w.lines = v.lines
  PROVE  Alone(w)'
<1>1. PICK bp, target : Story(bp, target) /\ target = v.app /\ v.lines = Pieces(bp)
  BY DEF Alone
<1>2. Story(bp, target)' /\ Pieces(bp)' = Pieces(bp)
  BY <1>1, StoryKept
<1> QED  BY <1>1, <1>2 DEF Alone

LEMMA HeardKept ==
  ASSUME journal' = journal, NEW me, NEW v, Heard(me, v),
         NEW now, now.prints = me.prints, now.target = me.target,
         NEW w, w.app = v.app, w.lines = v.lines, w.streamed = v.streamed
  PROVE  Heard(now, w)'
<1>1. PICK bp, came : HeardFrom(me, v, bp, came)
  BY DEF Heard
<1>2. PICK z, target : z = bp \o me.prints /\ target = v.app
  OBVIOUS
<1>3. Story(z, target)'
  BY <1>1, <1>2, StoryKept DEF HeardFrom
<1>4. Pieces(bp)' = Pieces(bp) /\ bp \in Seq(Logged')
  <2>1. \A i : PiecesOf(i)' = PiecesOf(i)
    BY DEF PiecesOf
  <2>2. [i \in DOMAIN bp |-> PiecesOf(bp[i])]' = [i \in DOMAIN bp |-> PiecesOf(bp[i])]
    BY <2>1
  <2> QED  BY <1>1, <2>2 DEF Pieces, HeardFrom, Logged
<1>5. HeardFrom(now, w, bp, came)'
  BY <1>1, <1>2, <1>3, <1>4 DEF HeardFrom
<1> QED  BY <1>5 DEF Heard

\* It holds before anything is logged.
LEMMA InitOInv == Init => OInv
<1> SUFFICES ASSUME Init PROVE OInv
  OBVIOUS
<1>1. TellersOK
  <2>1. ASSUME NEW p \in Pids PROVE TellOK(child[p])
    <3>1. child[p] = NoChild /\ child[p].prints = << >>
      BY DEF Init, NoChild
    <3> QED  BY <3>1, NothingTold DEF TellOK
  <2> QED  BY <2>1 DEF TellersOK
<1>2. LinesOK
  BY DEF Init, LinesOK, NoStream, InFrame
<1> QED  BY <1>1, <1>2 DEF OInv

\* What came is told by both parts of the invariant: the pieces before it are those of
\* the story.
LEMMA SameCame ==
  ASSUME NEW S, NEW a, a \in Seq(S), NEW x, x \in Seq(S), NEW b, b \in Seq(S), NEW y, y \in Seq(S),
         a \o x = b \o y, Len(x) = Len(y)
  PROVE  x = y
<1>1. PICK p, q, u, v : p = a \o x /\ q = b \o y /\ u = Len(x) /\ v = Len(y)
  OBVIOUS
<1>2. SubSeq(p, Len(p) - u + 1, Len(p)) = x
  BY ONLY a \in Seq(S), x \in Seq(S), <1>1, LastOnes
<1>3. SubSeq(q, Len(q) - v + 1, Len(q)) = y
  BY ONLY b \in Seq(S), y \in Seq(S), <1>1, LastOnes
<1>4. p = q /\ u = v
  BY <1>1
<1> QED  BY <1>2, <1>3, <1>4

\* With an open stream the lines are the beginning of the story both children tell.
LEMMA HeardLines ==
  ASSUME Journaled, NEW me, NEW v, me.prints \in Seq(Logged), Heard(me, v), Streamed(me, v)
  PROVE  \E z : Story(z, v.app) /\ Continues(Piece, Pieces(z), v.lines)
<1>1. PICK bp, came : HeardFrom(me, v, bp, came)
  BY DEF Heard
<1>2. PICK base, more : /\ base \in Seq(Piece) /\ more \in Seq(Piece)
                        /\ v.lines = base \o more /\ Len(more) = v.streamed
                        /\ Parsed(me.prints, v.read, v.partial, more)
  BY DEF Streamed
<1>3. PICK s, a, z, read, partial : /\ s = me.prints /\ a = Pieces(bp) /\ z = bp \o s
                                    /\ read = v.read /\ partial = v.partial
  OBVIOUS
<1>4. /\ bp \in Seq(Logged) /\ s \in Seq(Logged) /\ came \in Seq(Piece)
      /\ a \in Seq(Piece) /\ v.lines = a \o came /\ Len(came) = Len(more)
  BY <1>1, <1>2, <1>3, PieceFacts DEF HeardFrom
<1>5. came = more
  <2>1. a \o came = base \o more
    BY <1>2, <1>4
  <2>2. base \in Seq(Piece) /\ more \in Seq(Piece)
    BY <1>2
  <2> QED  BY ONLY <1>4, <2>1, <2>2, SameCame
<1>6. Parsed(s, read, partial, came)
  BY <1>2, <1>3, <1>5
<1>7. Continues(Piece, Pieces(s), came)
  BY <1>4, <1>6, CameFirst
<1>8. PICK b, r : b = Pieces(s) /\ r \in Seq(Piece) /\ b = came \o r
  BY <1>7 DEF Continues
<1>9. Pieces(z) = a \o b
  <2>1. PICK w : /\ StandFor(w, Logged, Piece)
                 /\ \A t \in Seq(Logged) : Pieces(t) = Joined(w, t)
    BY PiecesJoined
  <2>2. Joined(w, bp \o s) = Joined(w, bp) \o Joined(w, s)
    BY ONLY <1>4, <2>1, JoinedConcat
  <2>3. bp \o s \in Seq(Logged)
    BY <1>4, ConcatProperties
  <2> QED  BY <1>3, <1>4, <1>8, <2>1, <2>2, <2>3
<1>10. (a \o came) \o r = a \o (came \o r)
  <2>1. a \in Seq(Piece) /\ came \in Seq(Piece) /\ r \in Seq(Piece)
    BY <1>4, <1>8
  <2> QED  BY ONLY <2>1, ConcatAssociative
<1>11. a \o came \in Seq(Piece)
  BY <1>4, ConcatProperties
<1>12. (a \o came) \o r \in Seq(Piece)
  BY <1>8, <1>11, ConcatProperties
<1>13. Continues(Piece, Pieces(z), v.lines)
  BY <1>4, <1>8, <1>9, <1>10, <1>12 DEF Continues
<1>14. Story(z, v.app)
  BY <1>1, <1>3 DEF HeardFrom
<1> QED  BY <1>13, <1>14

\* In a frame the lines shown are in order.
LEMMA OrderFromInv == IInv /\ SInv /\ OInv => InOrder
<1> SUFFICES ASSUME IInv, SInv, OInv, InFrame
             PROVE  /\ \A i \in DOMAIN lv.lines : \A b \in Range(lv.lines[i]) : About(lv.app, b)
                    /\ LET bytes == FlattenSeq(lv.lines)
                       IN /\ \A i, j \in DOMAIN bytes : i < j => bytes[i] <= bytes[j]
                          /\ \A b \in Range(bytes) : Shown(b) <= journal[b].length
  BY DEF InOrder
<1>1. PICK lines, target : lines = lv.lines /\ target = lv.app
  OBVIOUS
<1>2. lines \in Seq(Piece) /\ lv.open \in BOOLEAN /\ Journaled
  BY <1>1 DEF SInv, ViewerOK
<1>3. PICK z : Story(z, target) /\ Continues(Piece, Pieces(z), lines)
  <2>1. CASE lv.open = FALSE
    <3>1. PICK z : Story(z, target) /\ lines = Pieces(z)
      BY <1>1, <2>1 DEF OInv, LinesOK, Alone
    <3>2. Continues(Piece, lines, lines)
      BY <1>2, ContinuesItself
    <3> QED  BY <3>1, <3>2
  <2>2. CASE lv.open = TRUE
    <3>1. lv.pid \in Pids
      BY <2>2 DEF SInv, ViewerOK, IInv, PidsHeld
    <3>2. PICK me, v : me = child[lv.pid] /\ v = lv
      OBVIOUS
    <3>3. Heard(me, v) /\ Streamed(me, v) /\ me.prints \in Seq(Logged)
      BY <2>2, <3>1, <3>2 DEF OInv, LinesOK, SInv, StreamInv, ChildrenOK, ChildOK
    <3>4. \E z : Story(z, v.app) /\ Continues(Piece, Pieces(z), v.lines)
      BY <1>2, <3>3, HeardLines
    <3> QED  BY <1>1, <3>2, <3>4
  <2> QED  BY <1>2, <2>1, <2>2
<1>4. /\ \A i \in DOMAIN lines : \A b \in Range(lines[i]) : About(target, b)
      /\ \A i, j \in DOMAIN FlattenSeq(lines) :
           i < j => FlattenSeq(lines)[i] <= FlattenSeq(lines)[j]
      /\ \A b \in Range(FlattenSeq(lines)) :
           Cardinality({c \in DOMAIN FlattenSeq(lines) : FlattenSeq(lines)[c] = b})
             <= journal[b].length
  BY <1>2, <1>3, OrderOfStory
<1> QED  BY <1>1, <1>4 DEF Shown

-----------------------------------------------------------------------------
(* The steps. *)

\* A story goes on with the line that is logged, if it is about its target.
LEMMA StoryGrows ==
  ASSUME Journaled, NEW rec, rec \in [app : Apps, length : Lengths], Len(journal) < MaxLogged,
         journal' = Append(journal, rec), NEW z, NEW target, Story(z, target),
         NEW x, x = Len(journal) + 1
  PROVE  /\ Story(z, target)' /\ Pieces(z)' = Pieces(z)
         /\ target \in {All, rec.app} => Story(Append(z, x), target)'
<1>1. PICK n : n = Len(journal) /\ x = n + 1
  OBVIOUS
<1>2. /\ Len(journal') = n + 1 /\ n \in Nat
      /\ \A i \in Logged : i \in Logged' /\ Written(i)' = Written(i) /\ PiecesOf(i)' = PiecesOf(i)
                           /\ journal'[i] = journal[i]
  BY <1>1, JournalGrows, LenProperties DEF Journaled
<1>3. PICK m : m = Len(z)
  OBVIOUS
<1>4. /\ z \in Seq(Logged) /\ m \in Nat /\ \A j \in 1 .. m : z[j] \in Logged
  BY <1>3, LenProperties, ElementOfSeq DEF Story
<1>5. z \in Seq(Logged')
  <2>1. Logged \subseteq Logged'
    BY <1>2
  <2>2. PICK S, T : S = Logged /\ T = Logged'
    OBVIOUS
  <2>3. z \in Seq(T)
    BY <1>4, <2>1, <2>2, SeqWider
  <2> QED  BY <2>2, <2>3
<1>6. \A i \in Logged : About(target, i)' = About(target, i)
  BY <1>2 DEF About
<1>7. Story(z, target)'
  BY <1>3, <1>4, <1>5, <1>6 DEF Story
<1>8. Pieces(z)' = Pieces(z)
  BY <1>2, <1>4, OutputKept
<1>9. ASSUME target \in {All, rec.app} PROVE Story(Append(z, x), target)'
  <2>1. PICK a : a = Append(z, x)
    OBVIOUS
  <2>2. x \in Logged' /\ \A i \in Logged : i < x /\ i \in Nat /\ x \in Nat
    BY <1>1, <1>2 DEF Logged
  <2>3. /\ a \in Seq(Logged') /\ Len(a) = m + 1
        /\ (\A j \in 1 .. m : a[j] = z[j]) /\ a[m + 1] = x
    <3>1. PICK T : T = Logged'
      OBVIOUS
    <3>2. z \in Seq(T) /\ x \in T
      BY <1>5, <2>2, <3>1
    <3>3. /\ Append(z, x) \in Seq(T) /\ Len(Append(z, x)) = Len(z) + 1
          /\ (\A j \in 1 .. Len(z) : Append(z, x)[j] = z[j]) /\ Append(z, x)[Len(z) + 1] = x
      BY ONLY <3>2, AppendProperties
    <3> QED  BY <1>3, <2>1, <3>1, <3>3
  <2>4. About(target, x)'
    <3>1. journal'[x] = rec
      BY <1>1, AppendProperties DEF Journaled
    <3> QED  BY <1>9, <3>1 DEF About
  <2>5. ASSUME NEW i \in 1 .. m + 1 PROVE About(target, a[i])'
    <3>1. CASE i \in 1 .. m
      BY <1>3, <1>4, <1>6, <2>3, <3>1 DEF Story
    <3>2. CASE i = m + 1
      BY <2>3, <2>4, <3>2
    <3> QED  BY <1>4, <3>1, <3>2
  <2>6. ASSUME NEW i \in 1 .. m + 1, NEW j \in 1 .. m + 1, i < j PROVE a[i] < a[j]
    <3>1. i \in 1 .. m
      BY <1>4, <2>6
    <3>2. CASE j \in 1 .. m
      BY <1>3, <2>3, <2>6, <3>1, <3>2 DEF Story
    <3>3. CASE j = m + 1
      BY <1>4, <2>2, <2>3, <3>1, <3>3
    <3> QED  BY <1>4, <3>2, <3>3
  <2>7. Story(a, target)'
    BY <2>3, <2>5, <2>6 DEF Story
  <2> QED  BY <2>1, <2>7
<1> QED  BY <1>1, <1>7, <1>8, <1>9

\* A service logs a line: who follows it continues its story with it.
LEMMA LogOInv == ASSUME IInv, SInv, OInv, NEW app \in Apps, Log(app) PROVE OInv'
<1>1. PICK length \in Lengths : journal' = Append(journal, [app |-> app, length |-> length])
  BY DEF Log
<1>2. PICK rec, x : rec = [app |-> app, length |-> length] /\ x = Len(journal) + 1
  OBVIOUS
<1>3. /\ Journaled /\ rec \in [app : Apps, length : Lengths] /\ rec.app = app
      /\ journal' = Append(journal, rec) /\ Len(journal) < MaxLogged
      /\ UNCHANGED << lv, dashboard >>
  BY <1>1, <1>2 DEF Log, SInv
<1>4. ASSUME NEW p \in Pids
      PROVE  /\ child'[p].life = child[p].life /\ child'[p].target = child[p].target
             /\ \/ child'[p].prints = child[p].prints
                \/ /\ child'[p].prints = Append(child[p].prints, x)
                   /\ child[p].life = "follows" /\ child[p].target \in {All, rec.app}
  <2>1. child' = [r \in Pids |-> IF Following(r) /\ child[r].target \in {All, app}
                                 THEN [child[r] EXCEPT !.prints = Append(child[r].prints, x)]
                                 ELSE child[r]]
    BY <1>2 DEF Log
  <2>2. ChildShaped(child[p])
    BY DEF IInv, Shape
  <2>3. child'[p] = IF Following(p) /\ child[p].target \in {All, app}
                    THEN [child[p] EXCEPT !.prints = Append(child[p].prints, x)]
                    ELSE child[p]
    BY <2>1
  <2>4. CASE Following(p) /\ child[p].target \in {All, app}
    BY <1>3, <2>2, <2>3, <2>4 DEF Following, ChildShaped
  <2>5. CASE ~(Following(p) /\ child[p].target \in {All, app})
    BY <2>3, <2>5
  <2> QED  BY <2>4, <2>5
<1>5. ASSUME NEW z, NEW target, Story(z, target)
      PROVE  /\ Story(z, target)' /\ Pieces(z)' = Pieces(z)
             /\ target \in {All, rec.app} => Story(Append(z, x), target)'
  BY <1>2, <1>3, <1>5, StoryGrows
<1>6. TellersOK'
  <2>1. ASSUME NEW p \in Pids PROVE TellOK(child[p])'
    <3>1. PICK z, target, me, now : /\ me = child[p] /\ now = child'[p]
                                    /\ z = me.prints /\ target = me.target
      OBVIOUS
    <3>2. Story(z, target) /\ (me.life \in {"none", "backlog", "starting"} => z = << >>)
      BY <3>1 DEF OInv, TellersOK, TellOK
    <3>3. /\ Story(z, target)'
          /\ target \in {All, rec.app} => Story(Append(z, x), target)'
      BY <1>5, <3>2
    <3>4. Story(now.prints, now.target)'
      <4>1. now.target = target
        BY <1>4, <3>1
      <4>2. CASE now.prints = z
        BY <3>3, <4>1, <4>2
      <4>3. CASE now.prints = Append(z, x) /\ target \in {All, rec.app}
        BY <3>3, <4>1, <4>3
      <4> QED  BY <1>4, <3>1, <4>2, <4>3
    <3>5. now.life \in {"none", "backlog", "starting"} => now.prints = << >>
      BY <1>4, <3>1, <3>2
    <3> QED  BY <3>1, <3>4, <3>5 DEF TellOK
  <2> QED  BY <2>1 DEF TellersOK
<1>7. ASSUME NEW v, Alone(v) PROVE Alone(v)'
  <2>1. PICK bp, target : Story(bp, target) /\ target = v.app /\ v.lines = Pieces(bp)
    BY <1>7 DEF Alone
  <2>2. Story(bp, target)' /\ Pieces(bp)' = Pieces(bp)
    BY <1>5, <2>1
  <2> QED  BY <2>1, <2>2 DEF Alone
<1>8. ASSUME NEW p \in Pids, NEW me, me = child[p], NEW now, now = child'[p], NEW v, Heard(me, v)
      PROVE  Heard(now, v)'
  <2>1. PICK bp, came : HeardFrom(me, v, bp, came) /\ me.target = v.app
    BY <1>8 DEF Heard
  <2>2. PICK s, target, z : s = me.prints /\ target = v.app /\ z = bp \o s
    OBVIOUS
  <2>3. /\ Story(z, target)'
        /\ target \in {All, rec.app} => Story(Append(z, x), target)'
    BY <1>5, <2>1, <2>2 DEF HeardFrom
  <2>4. Pieces(bp)' = Pieces(bp) /\ bp \in Seq(Logged')
    <3>1. \A i \in Logged : i \in Logged' /\ Written(i)' = Written(i) /\ PiecesOf(i)' = PiecesOf(i)
      BY <1>3, JournalGrows
    <3>2. bp \in Seq(Logged)
      BY <2>1 DEF HeardFrom
    <3>3. PICK S, T : S = Logged /\ T = Logged'
      OBVIOUS
    <3>4. S \subseteq T
      BY <3>1, <3>3
    <3>5. bp \in Seq(T)
      BY <3>2, <3>3, <3>4, SeqWider
    <3> QED  BY <3>1, <3>2, <3>3, <3>5, OutputKept
  <2>5. Story(bp \o now.prints, target)'
    <3>1. CASE now.prints = s
      BY <2>2, <2>3, <3>1
    <3>2. CASE now.prints = Append(s, x) /\ target \in {All, rec.app}
      <4>1. AppendsLater(bp, s, x)
        <5>1. bp \in Seq(Nat) /\ s \in Seq(Nat) /\ x \in Nat
          <6>1. Logged \subseteq Nat /\ x \in Nat
            BY <1>2, <1>3, LenProperties DEF Logged, Journaled
          <6>2. bp \in Seq(Logged) /\ s \in Seq(Logged)
            BY <1>8, <2>1, <2>2 DEF HeardFrom, SInv, ChildrenOK, ChildOK
          <6> QED  BY <6>1, <6>2, SeqWider
        <5> QED  BY <5>1, AppendLater
      <4>2. bp \o now.prints = Append(z, x)
        BY <2>2, <3>2, <4>1 DEF AppendsLater
      <4> QED  BY <2>3, <3>2, <4>2
    <3> QED  BY <1>4, <1>8, <2>1, <2>2, <3>1, <3>2
  <2>6. HeardFrom(now, v, bp, came)'
    BY <2>1, <2>2, <2>4, <2>5 DEF HeardFrom
  <2>7. now.target = v.app
    BY <1>4, <1>8, <2>1
  <2> QED  BY <2>6, <2>7 DEF Heard
<1>9. LinesOK'
  <2>1. PICK v : v = lv /\ v = lv'
    BY <1>3
  <2>2. dashboard' = dashboard /\ InFrame' = InFrame
    BY <1>3 DEF InFrame
  <2>3. dashboard.at \in {"read", "store"} => dashboard.forked \in Pids
    BY DEF IInv, PidsHeld
  <2>4. lv.open = TRUE => lv.pid \in Pids
    BY DEF SInv, ViewerOK, IInv, PidsHeld
  <2>5. (dashboard.at = "follow" \/ (InFrame /\ lv.open = FALSE)) => Alone(v)'
    BY <1>7, <2>1 DEF OInv, LinesOK
  <2>6. ASSUME dashboard.at = "store" PROVE Heard(child[dashboard.forked], lv)'
    <3>1. PICK p, me, now : p = dashboard.forked /\ me = child[p] /\ now = child'[p]
      OBVIOUS
    <3>2. p \in Pids /\ Heard(me, v)
      BY <2>1, <2>3, <2>6, <3>1 DEF OInv, LinesOK
    <3>3. Heard(now, v)'
      BY <1>8, <3>1, <3>2
    <3> QED  BY <2>1, <2>2, <3>1, <3>3
  <2>7. ASSUME InFrame, lv.open = TRUE PROVE Heard(child[lv.pid], lv)'
    <3>1. PICK p, me, now : p = lv.pid /\ me = child[p] /\ now = child'[p]
      OBVIOUS
    <3>2. p \in Pids /\ Heard(me, v)
      BY <2>1, <2>4, <2>7, <3>1 DEF OInv, LinesOK
    <3>3. Heard(now, v)'
      BY <1>8, <3>1, <3>2
    <3> QED  BY <2>1, <3>1, <3>3
  <2>8. dashboard.at = "read" => child'[dashboard.forked].target = lv.app
    BY <1>4, <2>3 DEF OInv, LinesOK
  <2> QED  BY <2>1, <2>2, <2>5, <2>6, <2>7, <2>8 DEF OInv, LinesOK
<1> QED  BY <1>6, <1>9 DEF OInv

\* The lines about a target are a story about it.
LEMMA AboutStory ==
  ASSUME Journaled, NEW target
  PROVE  Story(LinesAbout(target), target)
<1>1. PICK f : Gathered(f, target) /\ LinesAbout(target) = f[Len(journal)]
  BY AboutSteps
<1>2. PICK n : n = Len(journal)
  OBVIOUS
<1>3. n \in Nat
  BY <1>2, LenProperties DEF Journaled
<1>4. PICK S, g : /\ S = {p \in Seq(Logged) \X (0 .. n) :
                            Story(p[1], target) /\ \A j \in 1 .. Len(p[1]) : p[1][j] <= p[2]}
                  /\ g = [i \in 0 .. n |-> << f[i], i >>]
  OBVIOUS
<1>5. ASSUME NEW i \in 0 .. n
      PROVE  g[i] \in S <=> /\ Story(f[i], target) /\ \A j \in 1 .. Len(f[i]) : f[i][j] <= i
  <2>1. PICK p : p = g[i]
    OBVIOUS
  <2>2. p = << f[i], i >>
    BY <1>4, <2>1
  <2>3. p[1] = f[i] /\ p[2] = i
    BY <2>2
  <2>4. Story(f[i], target) => p \in Seq(Logged) \X (0 .. n)
    BY <2>2 DEF Story
  <2> QED  BY <1>4, <2>1, <2>3, <2>4
<1>6. g[0] \in S
  <2>1. f[0] = << >> /\ Len(f[0]) = 0 /\ 0 \in 0 .. n
    BY <1>1, <1>3 DEF Gathered
  <2>2. Story(f[0], target)
    BY <2>1, NothingTold
  <2> QED  BY <1>5, <2>1, <2>2
<1>7. ASSUME NEW i \in 1 .. n, g[i - 1] \in S PROVE g[i] \in S
  <2>1. PICK h, z : h = i - 1 /\ z = f[h]
    OBVIOUS
  <2>2. h \in 0 .. n /\ i \in 0 .. n /\ h < i /\ h \in Nat /\ i \in Logged
    BY <1>2, <1>3, <2>1 DEF Logged
  <2>3. Story(z, target) /\ \A j \in 1 .. Len(z) : z[j] <= h
    BY <1>5, <1>7, <2>1, <2>2
  <2>4. PICK m : m = Len(z)
    OBVIOUS
  <2>5. z \in Seq(Logged) /\ m \in Nat /\ \A j \in 1 .. m : z[j] \in Logged
    BY <2>3, <2>4, LenProperties, ElementOfSeq DEF Story
  <2>6. \A j \in 1 .. m : z[j] \in Nat /\ z[j] < i
    BY <2>2, <2>3, <2>4, <2>5 DEF Logged
  <2>7. f[i] = IF About(target, i) THEN Append(z, i) ELSE z
    BY <1>1, <2>1, <2>2 DEF Gathered
  <2>8. CASE ~About(target, i)
    <3>1. f[i] = z /\ \A j \in 1 .. Len(z) : z[j] <= i
      BY <2>2, <2>4, <2>6, <2>7, <2>8
    <3> QED  BY <1>5, <2>2, <2>3, <3>1
  <2>9. CASE About(target, i)
    <3>1. PICK a : a = Append(z, i)
      OBVIOUS
    <3>2. /\ a \in Seq(Logged) /\ Len(a) = m + 1
          /\ (\A j \in 1 .. m : a[j] = z[j]) /\ a[m + 1] = i
      BY <2>2, <2>4, <2>5, <3>1, AppendProperties
    <3>3. ASSUME NEW j \in 1 .. m + 1 PROVE About(target, a[j]) /\ a[j] <= i
      <4>1. CASE j \in 1 .. m
        BY <2>2, <2>3, <2>4, <2>6, <3>2, <4>1 DEF Story
      <4>2. CASE j = m + 1
        BY <2>2, <2>9, <3>2, <4>2
      <4> QED  BY <2>5, <4>1, <4>2
    <3>4. ASSUME NEW j \in 1 .. m + 1, NEW k \in 1 .. m + 1, j < k PROVE a[j] < a[k]
      <4>1. j \in 1 .. m
        BY <2>5, <3>4
      <4>2. CASE k \in 1 .. m
        BY <2>3, <2>4, <3>2, <3>4, <4>1, <4>2 DEF Story
      <4>3. CASE k = m + 1
        BY <2>6, <3>2, <4>1, <4>3
      <4> QED  BY <2>5, <4>2, <4>3
    <3>5. Story(a, target)
      BY <3>2, <3>3, <3>4 DEF Story
    <3>6. f[i] = a /\ \A j \in 1 .. Len(a) : a[j] <= i
      BY <2>7, <2>9, <3>1, <3>2, <3>3
    <3> QED  BY <1>5, <2>2, <3>5, <3>6
  <2> QED  BY <2>8, <2>9
<1>8. \A i \in 0 .. n : g[i] \in S
  BY <1>3, <1>6, <1>7, StaysIn
<1>9. Story(f[n], target)
  BY <1>3, <1>5, <1>8
<1> QED  BY <1>1, <1>2, <1>9

\* The newest of a story are a story.
LEMMA LatestStory ==
  ASSUME NEW z, NEW target, Story(z, target), NEW n, n \in Nat
  PROVE  Story(Latest(z, n), target)
<1>1. PICK m, c, x, y : /\ m = Max({1, Len(z) - n + 1}) /\ c = Len(z) /\ x = Len(z) - n + 1
                        /\ y = SubSeq(z, m, c)
  OBVIOUS
<1>2. c \in Nat /\ x \in Int /\ z \in Seq(Logged) /\ \A i \in 1 .. c : z[i] \in Logged
  BY <1>1, LenProperties, ElementOfSeq DEF Story
<1>3. m \in {1, x} /\ m >= 1
  <2>1. \E a \in {1, x} : \A b \in {1, x} : a >= b
    BY <1>2
  <2>2. m \in {1, x} /\ \A b \in {1, x} : m >= b
    BY <1>1, <2>1 DEF Max
  <2> QED  BY <2>2
<1>4. m \in Int
  BY <1>2, <1>3
<1>5. /\ y \in Seq(Logged) /\ Len(y) = IF m <= c THEN c - m + 1 ELSE 0
      /\ \A i \in 1 .. c - m + 1 : y[i] = z[m + i - 1]
  <2>1. \A i \in m .. c : z[i] \in Logged
    BY <1>2, <1>3, <1>4
  <2>2. m \in Int /\ c \in Int
    BY <1>2, <1>4
  <2>3. /\ SubSeq(z, m, c) \in Seq(Logged)
        /\ Len(SubSeq(z, m, c)) = IF m <= c THEN c - m + 1 ELSE 0
        /\ \A i \in 1 .. c - m + 1 : SubSeq(z, m, c)[i] = z[m + i - 1]
    BY ONLY <2>1, <2>2, SubSeqProperties
  <2>4. y = SubSeq(z, m, c)
    BY <1>1
  <2> QED  BY ONLY <2>3, <2>4
<1>6. ASSUME NEW i \in 1 .. Len(y)
      PROVE  /\ m + i - 1 \in 1 .. c /\ y[i] = z[m + i - 1]
  BY <1>2, <1>3, <1>4, <1>5
<1>7. ASSUME NEW i \in 1 .. Len(y), NEW j \in 1 .. Len(y), i < j PROVE y[i] < y[j]
  <2>1. Len(y) \in Nat
    BY <1>5, LenProperties
  <2>2. m + i - 1 < m + j - 1
    BY <1>4, <1>7, <2>1
  <2> QED  BY <1>1, <1>6, <1>7, <2>2 DEF Story
<1>8. ASSUME NEW i \in 1 .. Len(y) PROVE About(target, y[i])
  BY <1>1, <1>6, <1>8 DEF Story
<1>9. Story(y, target)
  BY <1>5, <1>7, <1>8 DEF Story
<1> QED  BY <1>1, <1>9 DEF Latest

\* One child changes and is still one the dashboard knows of as it was, or it has printed
\* what the dashboard is to read.
LEMMA ChildOInv ==
  ASSUME IInv, SInv, OInv, NEW p, p \in Pids, UNCHANGED << journal, lv, dashboard >>,
         \A q \in Pids : q # p => child'[q] = child[q],
         TellOK(child'[p]), child'[p].target = child[p].target,
         child[p].life = "backlog" \/ child'[p].prints = child[p].prints
  PROVE  OInv'
<1>1. TellersOK'
  <2>1. ASSUME NEW q \in Pids PROVE TellOK(child[q])'
    <3>1. PICK now : now = child'[q]
      OBVIOUS
    <3>2. TellOK(now)
      BY <3>1 DEF OInv, TellersOK
    <3>3. TellOK(now)'
      BY <3>2, TellKept
    <3> QED  BY <3>1, <3>3
  <2> QED  BY <2>1 DEF TellersOK
<1>2. ASSUME NEW q \in Pids
      PROVE  /\ child'[q].target = child[q].target
             /\ child[q].life # "backlog" => child'[q].prints = child[q].prints
  <2>1. CASE q = p
    BY <2>1
  <2>2. CASE q # p
    BY <2>2
  <2> QED  BY <2>1, <2>2
<1>3. ASSUME NEW q \in Pids, child[q].life # "backlog", Heard(child[q], lv) PROVE Heard(child[q], lv)'
  <2>1. PICK me, now, v : me = child[q] /\ now = child'[q] /\ v = lv
    OBVIOUS
  <2>2. Heard(me, v) /\ now.prints = me.prints /\ now.target = me.target
    BY <1>2, <1>3, <2>1
  <2>3. Heard(now, v)'
    BY <2>2, HeardKept
  <2>4. v = lv'
    BY <2>1
  <2> QED  BY <2>1, <2>3, <2>4
<1>4. ASSUME Alone(lv) PROVE Alone(lv)'
  <2>1. PICK v : v = lv
    OBVIOUS
  <2>2. Alone(v)'
    BY <1>4, <2>1, AloneKept
  <2>3. v = lv'
    BY <2>1
  <2> QED  BY <2>2, <2>3
<1>5. dashboard.at \in {"read", "store"} => dashboard.forked \in Pids
  BY DEF IInv, PidsHeld
<1>6. ASSUME dashboard.at = "store" PROVE Heard(child[dashboard.forked], lv)'
  <2>1. PICK q : q = dashboard.forked
    OBVIOUS
  <2>2. q \in Pids /\ child[q].life # "backlog" /\ Heard(child[q], lv)
    BY <1>5, <1>6, <2>1 DEF SInv, StoreOK, OInv, LinesOK
  <2>3. Heard(child[q], lv)'
    BY <1>3, <2>2
  <2>4. q = dashboard'.forked
    BY <2>1
  <2> QED  BY <2>3, <2>4
<1>7. ASSUME InFrame, lv.open = TRUE PROVE Heard(child[lv.pid], lv)'
  <2>1. PICK q : q = lv.pid
    OBVIOUS
  <2>2. q \in Pids
    BY <1>7, <2>1 DEF SInv, ViewerOK, IInv, PidsHeld
  <2>3. child[q].life # "backlog" /\ Heard(child[q], lv)
    BY <1>7, <2>1 DEF SInv, StreamInv, Streamed, OInv, LinesOK
  <2>4. Heard(child[q], lv)'
    BY <1>3, <2>2, <2>3
  <2>5. q = lv'.pid
    BY <2>1
  <2> QED  BY <2>4, <2>5
<1>8. InFrame' = InFrame
  BY DEF InFrame
<1>9. LinesOK'
  BY <1>2, <1>4, <1>5, <1>6, <1>7, <1>8 DEF OInv, LinesOK
<1> QED  BY <1>1, <1>9 DEF OInv

\* journalctl prints, opens, writes, obeys a signal or dies.
LEMMA ChildStepOInv ==
  ASSUME IInv, SInv, OInv, NEW p, p \in Pids, Prints(p) \/ Opens(p) \/ Writes(p) \/ Obeys(p) \/ Dies(p)
  PROVE  OInv'
<1>1. UNCHANGED << journal, lv, dashboard >>
  BY DEF Prints, Opens, Writes, Obeys, Dies
<1>2. PICK me, now : me = child[p] /\ now = child'[p]
  OBVIOUS
<1>3. ChildShaped(me) /\ child = [q \in Pids |-> child[q]] /\ TellOK(me) /\ Journaled
  BY <1>2 DEF IInv, Shape, SInv, OInv, TellersOK
<1>4. \A q \in Pids : q # p => child'[q] = child[q]
  BY <1>3 DEF Prints, Opens, Writes, Obeys, Dies
<1>5. /\ TellOK(now) /\ now.target = me.target
      /\ me.life = "backlog" \/ now.prints = me.prints
  <2>1. CASE Prints(p)
    <3>1. PICK lines : lines = Latest(LinesAbout(me.target), Backlog)
      OBVIOUS
    <3>2. child' = [child EXCEPT ![p].prints = lines, ![p].life = "ended"] /\ me.life = "backlog"
      BY <1>2, <2>1, <3>1 DEF Prints
    <3>3. PICK m1 : m1 = [me EXCEPT !.prints = lines]
      OBVIOUS
    <3>4. now = [m1 EXCEPT !.life = "ended"]
      BY <1>2, <1>3, <3>2, <3>3
    <3>5. m1 = [life |-> me.life, target |-> me.target, prints |-> lines,
                written |-> me.written, asked |-> me.asked]
      BY ONLY <1>3, <3>3 DEF ChildShaped
    <3>6. now.prints = lines /\ now.target = me.target /\ now.life = "ended"
      BY ONLY <3>4, <3>5
    <3>7. Story(lines, me.target)
      <4>1. PICK target, all : target = me.target /\ all = LinesAbout(target)
        OBVIOUS
      <4>2. Story(all, target) /\ Backlog \in Nat
        BY <1>3, <4>1, AboutStory, LogStreamAssumption
      <4>3. Story(Latest(all, Backlog), target)
        BY <4>2, LatestStory
      <4> QED  BY <3>1, <4>1, <4>3
    <3> QED  BY <3>2, <3>6, <3>7 DEF TellOK
  <2>2. CASE Opens(p)
    <3>1. child' = [child EXCEPT ![p].life = "follows"]
      BY <2>2 DEF Opens
    <3>2. now = [me EXCEPT !.life = "follows"]
      BY <1>2, <1>3, <3>1
    <3>3. now.life = "follows" /\ now.prints = me.prints /\ now.target = me.target
      BY <1>3, <3>2 DEF ChildShaped
    <3> QED  BY <1>3, <3>3 DEF TellOK
  <2>3. CASE Obeys(p) \/ Dies(p)
    <3>1. child' = [child EXCEPT ![p].life = "ended"]
      BY <2>3 DEF Obeys, Dies
    <3>2. now = [me EXCEPT !.life = "ended"]
      BY <1>2, <1>3, <3>1
    <3>3. now.life = "ended" /\ now.prints = me.prints /\ now.target = me.target
      BY <1>3, <3>2 DEF ChildShaped
    <3> QED  BY <1>3, <3>3 DEF TellOK
  <2>4. CASE Writes(p)
    <3>1. PICK n, life : /\ life \in {"ended", "follows"}
                         /\ child' = [child EXCEPT ![p].written = n, ![p].life = life]
      <4>1. PICK n : child' = [child EXCEPT ![p].written = n,
                                            ![p].life = IF dashboard.at = "gone" THEN "ended" ELSE @]
        BY <2>4 DEF Writes
      <4>2. PICK c1 : c1 = [child EXCEPT ![p].written = n]
        OBVIOUS
      <4>3. PICK life : life = IF dashboard.at = "gone" THEN "ended" ELSE c1[p].life
        OBVIOUS
      <4>4. c1[p] = [me EXCEPT !.written = n] /\ child' = [c1 EXCEPT ![p].life = life]
        BY <1>2, <1>3, <4>1, <4>2, <4>3
      <4>5. c1[p].life = me.life
        BY <1>3, <4>4 DEF ChildShaped
      <4>6. me.life = "follows"
        BY <1>2, <2>4 DEF Writes, Following
      <4>7. child' = [child EXCEPT ![p].written = n, ![p].life = life]
        BY <4>2, <4>4
      <4> QED  BY <4>3, <4>5, <4>6, <4>7
    <3>2. PICK m1 : m1 = [me EXCEPT !.written = n]
      OBVIOUS
    <3>3. now = [m1 EXCEPT !.life = life]
      BY <1>2, <1>3, <3>1, <3>2
    <3>4. m1 = [life |-> me.life, target |-> me.target, prints |-> me.prints,
                written |-> n, asked |-> me.asked]
      BY ONLY <1>3, <3>2 DEF ChildShaped
    <3>5. now.life = life /\ now.prints = me.prints /\ now.target = me.target
      BY ONLY <3>3, <3>4
    <3> QED  BY <1>3, <3>1, <3>5 DEF TellOK
  <2> QED  BY <2>1, <2>2, <2>3, <2>4
<1> QED  BY <1>1, <1>2, <1>4, <1>5, ChildOInv

\* What the children told stays told when one of them is forgotten, forked, or told to end.
LEMMA TellersKept ==
  ASSUME IInv, OInv, UNCHANGED journal, NEW p, NEW now, TellOK(now),
         child' = child \/ child' = [child EXCEPT ![p] = now]
  PROVE  TellersOK'
<1>1. ASSUME NEW q \in Pids PROVE TellOK(child[q])'
  <2>1. PICK you : you = child'[q]
    OBVIOUS
  <2>2. TellOK(you)
    BY <2>1 DEF IInv, Shape, OInv, TellersOK
  <2>3. TellOK(you)'
    BY <2>2, TellKept
  <2> QED  BY <2>1, <2>3
<1> QED  BY <1>1 DEF TellersOK

\* A child that was just forked, and a pid that is free, have told nothing.
LEMMA QuietTells == ASSUME NEW me, me.prints = << >> PROVE TellOK(me)
<1> QED  BY NothingTold DEF TellOK

\* A read continues what was heard.
LEMMA ReadOInv == ASSUME IInv, SInv, OInv, Read PROVE OInv'
<1>1. UNCHANGED << journal, child, dashboard, used >> /\ dashboard.at = "poll"
  BY DEF Read
<1>2. lv.open = TRUE
  <2>1. SUFFICES ASSUME ~lv.open PROVE FALSE
    BY DEF SInv, ViewerOK
  <2>2. Pipe = << >>
    BY <2>1 DEF Pipe
  <2>3. Len(Pipe) = 0
    BY <2>2
  <2> QED  BY <2>3 DEF Read
<1>3. lv.pid \in Pids
  BY <1>2 DEF SInv, ViewerOK, IInv, PidsHeld
<1>4. PICK me, v, w : me = child[lv.pid] /\ v = lv /\ w = lv'
  OBVIOUS
<1>5. Heard(me, v) /\ Streamed(me, v) /\ Journaled /\ me.prints \in Seq(Logged)
  BY <1>1, <1>2, <1>3, <1>4
  DEF OInv, LinesOK, InFrame, SInv, StreamInv, ChildrenOK, ChildOK
<1>6. PICK bp, heard : HeardFrom(me, v, bp, heard)
  BY <1>5 DEF Heard
<1>7. PICK base, came : /\ base \in Seq(Piece) /\ came \in Seq(Piece)
                        /\ v.lines = base \o came /\ Len(came) = v.streamed
                        /\ Parsed(me.prints, v.read, v.partial, came)
  BY <1>5 DEF Streamed
<1>8. PICK a : a = Pieces(bp)
  OBVIOUS
<1>9. a \in Seq(Piece) /\ heard \in Seq(Piece) /\ v.lines = a \o heard /\ Len(heard) = Len(came)
  BY <1>5, <1>6, <1>7, <1>8, PieceFacts DEF HeardFrom
<1>10. heard = came
  <2>1. a \o heard = base \o came
    BY <1>7, <1>9
  <2>2. base \in Seq(Piece) /\ came \in Seq(Piece)
    BY <1>7
  <2> QED  BY ONLY <1>9, <2>1, <2>2, SameCame
<1>11. /\ lv.lines = a \o came /\ Len(came) = lv.streamed
       /\ Parsed(child[lv.pid].prints, lv.read, lv.partial, came)
  BY <1>4, <1>7, <1>9, <1>10
<1>12. lv'.app = lv.app /\ lv'.pid = lv.pid /\ lv'.open = lv.open
  BY <1>7, <1>9, <1>11, ReadGathers
<1>13. PICK next : next \in Seq(Piece) /\ lv'.lines = a \o next /\ lv'.streamed = Len(next)
  BY <1>7, <1>9, <1>11, ReadGathers
<1>14. HeardFrom(me, w, bp, next)
  BY <1>4, <1>6, <1>8, <1>12, <1>13 DEF HeardFrom
<1>15. Heard(me, w)
  BY <1>4, <1>5, <1>12, <1>14 DEF Heard
<1>16. Heard(me, w)'
  BY <1>1, <1>15, HeardKept
<1>17. TellersOK'
  <2>1. TellOK(NoChild)
    BY QuietTells DEF NoChild
  <2> QED  BY <1>1, <2>1, TellersKept
<1>18. LinesOK'
  <2>1. child'[lv'.pid] = me /\ lv'.open = TRUE /\ dashboard'.at = "poll"
    BY <1>1, <1>2, <1>4, <1>12
  <2> QED  BY <1>4, <1>16, <2>1 DEF LinesOK
<1> QED  BY <1>17, <1>18 DEF OInv

\* Frames, what starts log_viewer_cleanup, and a step that changes nothing.
LEMMA FrameOInv ==
  ASSUME IInv, SInv, OInv,
         \/ Polled \/ Frame \/ Quit \/ UNCHANGED vars
         \/ \E target \in Targets \cup Invalid : Switch(target)
  PROVE  OInv'
<1>1. /\ UNCHANGED << journal, child, lv >>
      /\ \/ /\ dashboard.at \in {"poll", "frame"}
            /\ dashboard'.at \in {"poll", "frame", "term", "clear"}
         \/ dashboard' = dashboard
  <2>1. Cleanup \in {"term", "clear"}
    BY DEF Cleanup
  <2>2. CASE Polled \/ Frame
    BY <2>2 DEF IInv, Shape, Polled, Frame, Goes
  <2>3. CASE Quit \/ \E target \in Targets \cup Invalid : Switch(target)
    BY <2>1, <2>3 DEF IInv, Shape, Quit, Switch
  <2>4. CASE UNCHANGED vars
    BY <2>4 DEF vars
  <2> QED  BY <2>2, <2>3, <2>4
<1>2. TellersOK'
  <2>1. TellOK(NoChild)
    BY QuietTells DEF NoChild
  <2> QED  BY <1>1, <2>1, TellersKept
<1>3. PICK v : v = lv /\ v = lv'
  BY <1>1
<1>4. ASSUME Alone(lv) PROVE Alone(lv)'
  <2>1. Alone(v)'
    BY <1>1, <1>3, <1>4, AloneKept
  <2> QED  BY <1>3, <2>1
<1>5. ASSUME NEW p, Heard(child[p], lv) PROVE Heard(child[p], lv)'
  <2>1. PICK me : me = child[p] /\ me = child'[p]
    BY <1>1
  <2>2. Heard(me, v)'
    BY <1>1, <1>3, <1>5, <2>1, HeardKept
  <2> QED  BY <1>3, <2>1, <2>2
<1>6. CASE dashboard' = dashboard
  <2>1. InFrame' = InFrame
    BY <1>6 DEF InFrame
  <2>2. ASSUME dashboard.at = "store" PROVE Heard(child[dashboard.forked], lv)'
    <3>1. PICK p : p = dashboard.forked /\ p = dashboard'.forked
      BY <1>6
    <3>2. Heard(child[p], lv)'
      BY <1>5, <2>2, <3>1 DEF OInv, LinesOK
    <3> QED  BY <3>1, <3>2
  <2>3. ASSUME InFrame, lv.open = TRUE PROVE Heard(child[lv.pid], lv)'
    <3>1. PICK p : p = lv.pid /\ p = lv'.pid
      BY <1>1
    <3>2. Heard(child[p], lv)'
      BY <1>5, <2>3, <3>1 DEF OInv, LinesOK
    <3> QED  BY <3>1, <3>2
  <2>4. LinesOK'
    BY <1>1, <1>4, <1>6, <2>1, <2>2, <2>3 DEF OInv, LinesOK
  <2> QED  BY <1>2, <2>4 DEF OInv
<1>7. CASE dashboard.at \in {"poll", "frame"} /\ dashboard'.at \in {"poll", "frame", "term", "clear"}
  <2>1. InFrame
    BY <1>7 DEF InFrame
  <2>2. ASSUME lv.open = TRUE PROVE Heard(child[lv.pid], lv)'
    <3>1. PICK p : p = lv.pid /\ p = lv'.pid
      BY <1>1
    <3>2. Heard(child[p], lv)'
      BY <1>5, <2>1, <2>2, <3>1 DEF OInv, LinesOK
    <3> QED  BY <3>1, <3>2
  <2>3. lv.open = FALSE => Alone(lv)'
    BY <1>4, <2>1 DEF OInv, LinesOK
  <2>4. LinesOK'
    BY <1>1, <1>7, <2>2, <2>3 DEF LinesOK
  <2> QED  BY <1>2, <2>4 DEF OInv
<1> QED  BY <1>1, <1>6, <1>7

\* log_viewer_cleanup.
LEMMA CleanupOInv ==
  ASSUME IInv, SInv, OInv, Terminate \/ Reap \/ Clear
  PROVE  OInv'
<1>1. CASE Terminate
  <2>1. /\ dashboard.at = "term" /\ dashboard' = [dashboard EXCEPT !.at = "reap"]
        /\ child' = [child EXCEPT ![lv.pid].asked = TRUE]
        /\ UNCHANGED << journal, lv, used >>
    BY <1>1 DEF Terminate, Goes
  <2>2. dashboard'.at = "reap"
    BY <2>1 DEF IInv, Shape
  <2>3. TellersOK'
    <3>1. CASE lv.pid \in Pids
      <4>1. PICK me, p : p = lv.pid /\ me = child[p]
        OBVIOUS
      <4>2. PICK now : now = [me EXCEPT !.asked = TRUE]
        OBVIOUS
      <4>3. ChildShaped(me) /\ TellOK(me)
        BY <3>1, <4>1 DEF IInv, Shape, OInv, TellersOK
      <4>4. now.prints = me.prints /\ now.target = me.target /\ now.life = me.life
        BY <4>2, <4>3 DEF ChildShaped
      <4>5. TellOK(now)
        BY <4>3, <4>4 DEF TellOK
      <4>6. child' = [child EXCEPT ![p] = now]
        BY <2>1, <4>1, <4>2
      <4> QED  BY <2>1, <4>5, <4>6, TellersKept
    <3>2. CASE lv.pid \notin Pids
      <4>1. child' = child
        BY <2>1, <3>2 DEF IInv, Shape
      <4>2. TellOK(NoChild)
        BY QuietTells DEF NoChild
      <4> QED  BY <2>1, <4>1, <4>2, TellersKept
    <3> QED  BY <3>1, <3>2
  <2>4. LinesOK'
    BY <2>2 DEF LinesOK, InFrame
  <2> QED  BY <2>3, <2>4 DEF OInv
<1>2. CASE Reap
  <2>1. /\ dashboard.at = "reap" /\ dashboard' = [dashboard EXCEPT !.at = "clear"]
        /\ child' = [child EXCEPT ![lv.pid] = NoChild]
        /\ UNCHANGED << journal, lv, used >>
    BY <1>2 DEF Reap, Goes
  <2>2. dashboard'.at = "clear"
    BY <2>1 DEF IInv, Shape
  <2>3. TellersOK'
    <3>1. PICK p, now : p = lv.pid /\ now = NoChild
      OBVIOUS
    <3>2. TellOK(now) /\ child' = [child EXCEPT ![p] = now]
      BY <2>1, <3>1, QuietTells DEF NoChild
    <3> QED  BY <2>1, <3>2, TellersKept
  <2>4. LinesOK'
    BY <2>2 DEF LinesOK, InFrame
  <2> QED  BY <2>3, <2>4 DEF OInv
<1>3. CASE Clear
  <2>1. PICK app, at : /\ app = IF dashboard.wants \in Targets THEN dashboard.wants ELSE lv.app
                       /\ at = IF dashboard.wants \in Targets THEN "backlog" ELSE "poll"
    OBVIOUS
  <2>2. /\ lv' = [NoStream EXCEPT !.app = app] /\ dashboard' = [dashboard EXCEPT !.at = at]
        /\ UNCHANGED << journal, child, used >>
    BY <1>3, <2>1 DEF Clear
  <2>3. lv' = [app |-> app, pid |-> 0, open |-> FALSE, read |-> 0, partial |-> << >>,
               lines |-> << >>, streamed |-> 0]
    BY <2>2 DEF NoStream
  <2>4. dashboard'.at = at /\ at \in {"backlog", "poll"}
    BY <2>1, <2>2 DEF IInv, Shape
  <2>5. TellersOK'
    <3>1. TellOK(NoChild)
      BY QuietTells DEF NoChild
    <3> QED  BY <2>2, <3>1, TellersKept
  <2>6. Alone(lv)'
    <3>1. PICK v : v = lv'
      OBVIOUS
    <3>2. Alone(v)
      BY <2>3, <3>1, NothingHeld DEF SInv
    <3>3. Alone(v)'
      BY <2>2, <3>2, AloneKept
    <3> QED  BY <3>1, <3>3
  <2>7. LinesOK'
    BY <2>3, <2>4, <2>6 DEF LinesOK, InFrame
  <2> QED  BY <2>5, <2>7 DEF OInv
<1> QED  BY <1>1, <1>2, <1>3

\* fork()
LEMMA ForkOInv ==
  ASSUME IInv, SInv, OInv, NEW life \in {"backlog", "starting"}, Fork(life),
         UNCHANGED << journal, lv, used >>,
         \/ dashboard.at = "backlog" /\ life = "backlog"
         \/ dashboard.at = "follow" /\ life = "starting"
  PROVE  OInv'
<1>1. PICK pid, at : /\ pid = Min({p \in Pids : child[p].life = "none"})
                     /\ at = IF life = "backlog" THEN "read" ELSE "store"
  OBVIOUS
<1>2. PICK me : me = [NoChild EXCEPT !.life = life, !.target = lv.app]
  OBVIOUS
<1>3. pid \in Pids
  BY <1>1, FreePid DEF Fork
<1>4. /\ child' = [child EXCEPT ![pid] = me]
      /\ dashboard' = [dashboard EXCEPT !.at = at, !.forked = pid]
  BY <1>1, <1>2 DEF Fork
<1>5. me.life = life /\ me.target = lv.app /\ me.prints = << >>
  <2>1. PICK born : born = [NoChild EXCEPT !.life = life]
    OBVIOUS
  <2>2. born = [life |-> life, target |-> All, prints |-> << >>, written |-> 0, asked |-> FALSE]
    BY <2>1 DEF NoChild
  <2>3. me = [born EXCEPT !.target = lv.app]
    BY <1>2, <2>1
  <2> QED  BY ONLY <2>2, <2>3
<1>6. TellersOK'
  <2>1. TellOK(me)
    BY <1>5, QuietTells
  <2> QED  BY <1>4, <2>1, TellersKept
<1>7. dashboard'.at = at /\ dashboard'.forked = pid /\ child'[pid] = me
  BY <1>3, <1>4 DEF IInv, Shape
<1>8. CASE dashboard.at = "backlog" /\ life = "backlog"
  <2>1. at = "read" /\ lv'.lines = << >>
    BY <1>1, <1>8 DEF OInv, LinesOK
  <2>2. LinesOK'
    BY <1>5, <1>7, <2>1 DEF LinesOK, InFrame
  <2> QED  BY <1>6, <2>2 DEF OInv
<1>9. CASE dashboard.at = "follow" /\ life = "starting"
  <2>1. at = "store" /\ Alone(lv) /\ lv.streamed = 0
    BY <1>1, <1>9 DEF OInv, LinesOK, SInv, Fresh
  <2>2. PICK v : v = lv /\ v = lv'
    OBVIOUS
  <2>3. PICK bp : Story(bp, v.app) /\ v.lines = Pieces(bp)
    BY <2>1, <2>2 DEF Alone
  <2>4. PICK none, a : none = << >> /\ a = Pieces(bp)
    OBVIOUS
  <2>5. bp \in Seq(Logged) /\ a \in Seq(Piece) /\ none \in Seq(Piece) /\ Len(none) = 0
    BY <2>3, <2>4, PieceFacts, EmptySeq DEF Story, SInv
  <2>6. bp \o none = bp /\ a \o none = a
    BY <2>4, <2>5, ConcatEmptySeq
  <2>7. HeardFrom(me, v, bp, none)
    BY <1>5, <2>1, <2>2, <2>3, <2>4, <2>5, <2>6 DEF HeardFrom
  <2>8. Heard(me, v)
    BY <1>5, <2>2, <2>7 DEF Heard
  <2>9. Heard(me, v)'
    BY <2>8, HeardKept
  <2>10. LinesOK'
    BY <1>7, <2>1, <2>2, <2>9 DEF LinesOK, InFrame
  <2> QED  BY <1>6, <2>10 DEF OInv
<1> QED  BY <1>8, <1>9

\* A fork that fails leaves the dashboard with the lines it has.
LEMMA ForkFailsOInv ==
  ASSUME IInv, SInv, OInv, NEW otherwise, ForkFails(otherwise),
         \/ dashboard.at = "backlog" /\ otherwise = "follow"
         \/ dashboard.at = "follow" /\ otherwise = "poll"
  PROVE  OInv'
<1>1. dashboard' = [dashboard EXCEPT !.at = otherwise] /\ UNCHANGED << journal, child, lv >>
  BY DEF ForkFails
<1>2. dashboard'.at = otherwise
  BY <1>1 DEF IInv, Shape
<1>3. TellersOK'
  <2>1. TellOK(NoChild)
    BY QuietTells DEF NoChild
  <2> QED  BY <1>1, <2>1, TellersKept
<1>4. PICK v : v = lv /\ v = lv'
  BY <1>1
<1>5. Alone(v)
  <2>1. CASE dashboard.at = "backlog"
    <3>1. v.lines = << >>
      BY <1>4, <2>1 DEF OInv, LinesOK
    <3> QED  BY <3>1, NothingHeld DEF SInv
  <2>2. CASE dashboard.at = "follow"
    BY <1>4, <2>2 DEF OInv, LinesOK
  <2> QED  BY <2>1, <2>2
<1>6. Alone(v)'
  BY <1>1, <1>5, AloneKept
<1>7. lv'.open = FALSE
  BY <1>1 DEF SInv, Fresh
<1>8. LinesOK'
  BY <1>2, <1>4, <1>6, <1>7 DEF LinesOK, InFrame
<1> QED  BY <1>3, <1>8 DEF OInv

\* The rest of log_viewer_set_app.
LEMMA SetAppOInv ==
  ASSUME IInv, SInv, OInv, ForkBacklog \/ ReadBacklog \/ ForkFollower \/ Store
  PROVE  OInv'
<1>1. CASE ForkBacklog
  BY <1>1, ForkOInv, ForkFailsOInv DEF ForkBacklog
<1>2. CASE ForkFollower
  BY <1>2, ForkOInv, ForkFailsOInv DEF ForkFollower
<1>3. CASE ReadBacklog
  <2>1. /\ dashboard.at = "read" /\ dashboard' = [dashboard EXCEPT !.at = "follow"]
        /\ child' = [child EXCEPT ![dashboard.forked] = NoChild]
        /\ UNCHANGED << journal, used >>
    BY <1>3 DEF ReadBacklog, Goes
  <2>2. dashboard.forked \in Pids
    BY <2>1 DEF IInv, PidsHeld
  <2>3. PICK me, more : me = child[dashboard.forked] /\ more = Pieces(me.prints)
    OBVIOUS
  <2>4. TellOK(me) /\ me.target = lv.app /\ lv.lines = << >>
    BY <2>1, <2>2, <2>3 DEF OInv, TellersOK, LinesOK
  <2>5. more \in Seq(Piece) /\ << >> \o more = more
    <3>1. me.prints \in Seq(Logged) /\ Journaled
      BY <2>4 DEF TellOK, Story, SInv
    <3>2. more \in Seq(Piece)
      BY <2>3, <3>1, PieceFacts
    <3> QED  BY <3>2, ConcatEmptySeq
  <2>6. lv' = [lv EXCEPT !.lines = more]
    BY <1>3, <2>3, <2>4, <2>5 DEF ReadBacklog
  <2>7. lv'.app = lv.app /\ lv'.lines = more
    BY <2>6 DEF IInv, Shape
  <2>8. PICK v : v = lv'
    OBVIOUS
  <2>9. Alone(v)
    BY <2>3, <2>4, <2>7, <2>8 DEF Alone, TellOK
  <2>10. Alone(v)'
    BY <2>1, <2>9, AloneKept
  <2>11. TellersOK'
    <3>1. PICK p, now : p = dashboard.forked /\ now = NoChild
      OBVIOUS
    <3>2. TellOK(now) /\ child' = [child EXCEPT ![p] = now]
      BY <2>1, <3>1, QuietTells DEF NoChild
    <3> QED  BY <2>1, <3>2, TellersKept
  <2>12. dashboard'.at = "follow"
    BY <2>1 DEF IInv, Shape
  <2>13. LinesOK'
    BY <2>8, <2>10, <2>12 DEF LinesOK, InFrame
  <2> QED  BY <2>11, <2>13 DEF OInv
<1>4. CASE Store
  <2>1. /\ dashboard.at = "store" /\ dashboard' = [dashboard EXCEPT !.at = "poll"]
        /\ lv' = [lv EXCEPT !.pid = dashboard.forked, !.open = TRUE]
        /\ UNCHANGED << journal, child, used >>
    BY <1>4 DEF Store, Goes
  <2>2. /\ lv'.app = lv.app /\ lv'.pid = dashboard.forked /\ lv'.open = TRUE
        /\ lv'.lines = lv.lines /\ lv'.streamed = lv.streamed
    BY <2>1 DEF IInv, Shape
  <2>3. PICK me, v, w : me = child[dashboard.forked] /\ v = lv /\ w = lv'
    OBVIOUS
  <2>4. Heard(me, v)
    BY <2>1, <2>3 DEF OInv, LinesOK
  <2>5. Heard(me, w)'
    BY <2>1, <2>2, <2>3, <2>4, HeardKept
  <2>6. child'[lv'.pid] = me
    BY <2>1, <2>2, <2>3
  <2>7. TellersOK'
    <3>1. TellOK(NoChild)
      BY QuietTells DEF NoChild
    <3> QED  BY <2>1, <3>1, TellersKept
  <2>8. dashboard'.at = "poll"
    BY <2>1 DEF IInv, Shape
  <2>9. LinesOK'
    BY <2>2, <2>3, <2>5, <2>6, <2>8 DEF LinesOK
  <2> QED  BY <2>7, <2>9 DEF OInv
<1> QED  BY <1>1, <1>2, <1>3, <1>4

\* The end.
LEMMA EndOInv ==
  ASSUME IInv, SInv, OInv, Leave \/ Signal \/ Killed \/ Upgrade
  PROVE  OInv'
<1>1. dashboard'.at = "gone" /\ UNCHANGED journal
  BY DEF Leave, Signal, Killed, Upgrade, Ends
<1>2. PICK p, now : p = lv.pid /\ now = NoChild
  OBVIOUS
<1>3. child' = child \/ child' = [child EXCEPT ![p] = now]
  BY <1>2 DEF Leave, Signal, Killed, Upgrade
<1>4. TellersOK'
  <2>1. TellOK(now)
    BY <1>2, QuietTells DEF NoChild
  <2> QED  BY <1>1, <1>3, <2>1, TellersKept
<1>5. LinesOK'
  BY <1>1 DEF LinesOK, InFrame
<1> QED  BY <1>4, <1>5 DEF OInv

\* Every step keeps it.
LEMMA NextOInv == IInv /\ SInv /\ OInv /\ [Next]_vars => OInv'
<1> SUFFICES ASSUME IInv, SInv, OInv, [Next]_vars PROVE OInv'
  OBVIOUS
<1>1. CASE \E app \in Apps : Log(app)
  BY <1>1, LogOInv
<1>2. CASE Children \/ \E p \in Pids : Dies(p)
  <2>1. PICK p \in Pids : Prints(p) \/ Opens(p) \/ Writes(p) \/ Obeys(p) \/ Dies(p)
    BY <1>2 DEF Children
  <2> QED  BY <2>1, ChildStepOInv
<1>3. CASE Loop
  BY <1>3, ReadOInv, FrameOInv, CleanupOInv, SetAppOInv, EndOInv DEF Loop
<1>4. CASE (\E target \in Targets \cup Invalid : Switch(target)) \/ Quit \/ UNCHANGED vars
  BY <1>4, FrameOInv
<1>5. CASE Signal \/ Killed \/ Upgrade
  BY <1>5, EndOInv
<1> QED  BY <1>1, <1>2, <1>3, <1>4, <1>5 DEF Next

\* Whatever is logged, switched or killed in between, and although one child prints the
\* lines that were there and another those logged after it opened the journal, a frame shows
\* only lines of its target, in the order they were logged, and of each no more bytes than
\* it has (log_viewer_load_backlog, log_stream_open_argv, log_viewer_set_app, log_viewer_poll).
THEOREM OrderKept == Spec => []InOrder
<1>1. Init => OInv
  BY InitOInv
<1>2. IInv /\ SInv /\ OInv /\ [Next]_vars => OInv'
  BY NextOInv
<1>3. IInv /\ SInv /\ OInv => InOrder
  BY OrderFromInv
<1> QED  BY <1>1, <1>2, <1>3, StreamInvariance, PTL DEF Spec
==============================================================================
