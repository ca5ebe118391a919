---------------------------- MODULE LogRingProofs ----------------------------
(* What MCLogRing checks on a ring of three slots, proved for every capacity,  *)
(* every set of texts and every number of arrivals: the indices, the markers   *)
(* and the cache first, then the live lines read as a sequence, what each      *)
(* operation makes of them, and that the ring implements LogWindow.            *)
EXTENDS LogRing, LogViewerLemmas

\* The viewer and the cache stay well-typed: head, count and every cached slot
\* are inside the ring whatever is called (log_viewer.c indexes lines[] by them).
THEOREM TypeCorrect == Spec => []TypeOK
<1>1. Init => TypeOK
  <2> SUFFICES ASSUME Init PROVE TypeOK
    OBVIOUS
  <2>1. 0 \in Slots /\ 0 \in 0 .. Cap /\ 0 \in Filters /\ 0 \in Levels
    BY CapAssumption, FilterCapAssumption DEF Slots, Filters, Levels
  <2>2. [s \in Slots |-> ZeroLine] \in [Slots -> LogLine]
    BY LineTypes
  <2>3. ViewerInit \in Viewer
    BY <2>1, <2>2 DEF ViewerInit, Viewer
  <2>4. << >> \in Seq(Slots)
    OBVIOUS
  <2> QED  BY <2>3, <2>4 DEF Init, TypeOK
<1>2. TypeOK /\ [Next]_vars => TypeOK'
  <2> SUFFICES ASSUME TypeOK, [Next]_vars PROVE TypeOK'
    OBVIOUS
  <2> USE DEF TypeOK
  <2>1. CASE Receive
    <3>1. PICK t \in Texts : /\ lv' = AppendLine(lv, t, arrived + 1)
                             /\ arrived' = IF t.blank THEN arrived ELSE arrived + 1
      BY <2>1 DEF Receive
    <3>2. t \in Text /\ arrived + 1 \in Nat
      BY LogRingAssumption
    <3>3. lv' \in Viewer
      BY <3>1, <3>2, AppendType
    <3> QED  BY <3>1, <3>3, <2>1 DEF Receive
  <2>2. CASE DropMarker
    <3>1. AddMarker(lv) \in Viewer
      <4>1. Push(lv, Marker) \in Viewer
        BY PushType, LineTypes
      <4> QED  BY <4>1 DEF AddMarker, Viewer
    <3> QED  BY <2>2, <3>1 DEF DropMarker, Call
  <2>3. CASE MarkAfter
    BY <2>3, InsertType DEF MarkAfter, Call
  <2>4. CASE DropMarkers
    BY <2>4, ClearType DEF DropMarkers, Call
  <2>5. CASE Pause \/ PickLevel \/ PickFilter \/ Up \/ Down \/ Bottom
    <3>1. 0 \in Levels /\ 0 \in Filters /\ 0 \in Nat
      BY FilterCapAssumption DEF Levels, Filters
    <3>2. CASE Pause
      BY <3>1, <3>2, ControlType DEF Pause, Call
    <3>3. CASE PickLevel
      BY <3>1, <3>3, ControlType DEF PickLevel, Call
    <3>4. CASE PickFilter
      BY <3>1, <3>4, ControlType DEF PickFilter, Call
    <3>5. CASE Up
      <4>1. lv.count \in Nat
        BY CapAssumption DEF Viewer
      <4>2. Deltas \cup {lv.count} \subseteq Nat
        BY <4>1, LogRingAssumption
      <4> QED  BY <3>1, <3>5, <4>2, ControlType DEF Up, Call
    <3>6. CASE Down
      BY <3>1, <3>6, LogRingAssumption, ControlType DEF Down, Call
    <3>7. CASE Bottom
      BY <3>1, <3>7, ControlType DEF Bottom, Call
    <3> QED  BY <2>5, <3>2, <3>3, <3>4, <3>5, <3>6, <3>7
  <2>6. CASE SwitchStart
    <3>1. 0 \in Levels /\ 0 \in Filters /\ 0 \in Nat
      BY FilterCapAssumption DEF Levels, Filters
    <3> QED  BY <2>6, <3>1, ControlType DEF SwitchStart
  <2>7. CASE SwitchEnd
    BY <2>7 DEF SwitchEnd
  <2>8. CASE Refresh
    <3>1. matching' \in Seq(Slots)
      BY <2>8, MatchingType DEF Refresh, UpdateMatching
    <3>2. lv' \in Viewer
      BY <2>8 DEF Refresh, Viewer
    <3> QED  BY <2>8, <3>1, <3>2 DEF Refresh
  <2>9. CASE UNCHANGED vars
    BY <2>9 DEF vars
  <2> QED
    BY <2>1, <2>2, <2>3, <2>4, <2>5, <2>6, <2>7, <2>8, <2>9 DEF Next
<1> QED  BY <1>1, <1>2, PTL DEF Spec

-----------------------------------------------------------------------------
(* Auto-scroll and the pause counter. *)

\* Each is inductive on its own, beside the types.
ViewInv == FollowsAtBottom /\ PausedCountHonest

\* How each operation moves the view and the pause counter.
LEMMA AppendView ==
  ASSUME NEW v \in Viewer, NEW t \in Text, NEW n \in Nat
  PROVE  LET w == AppendLine(v, t, n)
         IN  /\ w.auto_scroll = v.auto_scroll
             /\ w.is_paused = v.is_paused
             /\ w.scroll_offset \in {v.scroll_offset, 0}
             /\ w.paused_buffered_count =
                  IF v.is_paused /\ ~t.blank THEN v.paused_buffered_count + 1
                  ELSE v.paused_buffered_count
<1> DEFINE p == Push(v, AppLine(t, n))
<1>1. /\ p \in Viewer
      /\ p.scroll_offset = v.scroll_offset /\ p.auto_scroll = v.auto_scroll
      /\ p.is_paused = v.is_paused
      /\ p.paused_buffered_count = v.paused_buffered_count
  BY LineTypes, PushType
<1>2. t.blank \in BOOLEAN /\ v.is_paused \in BOOLEAN
  BY DEF Viewer, Text
<1> HIDE DEF p
<1>3. CASE t.blank
  BY <1>3, <1>2 DEF AppendLine
<1>4. CASE ~t.blank /\ v.is_paused
  <2>1. AppendLine(v, t, n) = [p EXCEPT !.paused_buffered_count = @ + 1]
    BY <1>4 DEF AppendLine, p
  <2> QED  BY <2>1, <1>1, <1>4 DEF Viewer
<1>5. CASE ~t.blank /\ ~v.is_paused
  <2>1. AppendLine(v, t, n) = [p EXCEPT !.scroll_offset = IF v.auto_scroll THEN 0 ELSE @]
    BY <1>5 DEF AppendLine, p
  <2> QED  BY <2>1, <1>1, <1>5 DEF Viewer
<1> QED  BY <1>2, <1>3, <1>4, <1>5

\* Placing and removing markers (log_viewer.c 148-240) touches neither auto-scroll
\* nor the pause; at most it returns to the bottom.
LEMMA RingOpsView ==
  ASSUME NEW v \in Viewer, NEW slot \in Slots,
         NEW w \in {AddMarker(v), InsertMarkerAfter(v, slot), ClearMarkers(v)}
  PROVE  /\ w.auto_scroll = v.auto_scroll
         /\ w.is_paused = v.is_paused
         /\ w.scroll_offset \in {v.scroll_offset, 0}
         /\ w.paused_buffered_count = v.paused_buffered_count
<1>1. CASE w = AddMarker(v)
  <2>1. /\ Push(v, Marker) \in Viewer
        /\ Push(v, Marker).scroll_offset = v.scroll_offset
        /\ Push(v, Marker).auto_scroll = v.auto_scroll
        /\ Push(v, Marker).is_paused = v.is_paused
        /\ Push(v, Marker).paused_buffered_count = v.paused_buffered_count
    BY LineTypes, PushType
  <2> QED  BY <1>1, <2>1 DEF AddMarker, Viewer
<1>2. CASE w = InsertMarkerAfter(v, slot)
  BY <1>2 DEF InsertMarkerAfter, Viewer
<1>3. CASE w = ClearMarkers(v)
  BY <1>3 DEF ClearMarkers, Viewer
<1> QED  BY <1>1, <1>2, <1>3

\* No call of the dashboard breaks what the header of the log view says.
LEMMA ViewStep == TypeOK /\ ViewInv /\ [Next]_vars => ViewInv'
<1> SUFFICES ASSUME TypeOK, ViewInv, [Next]_vars PROVE ViewInv'
  OBVIOUS
<1> USE DEF ViewInv, FollowsAtBottom, PausedCountHonest, TypeOK
<1>1. CASE Receive
  <2>1. PICK t \in Texts : /\ lv' = AppendLine(lv, t, arrived + 1)
                           /\ arrived' = IF t.blank THEN arrived ELSE arrived + 1
    BY <1>1 DEF Receive
  <2>2. t \in Text /\ t.blank \in BOOLEAN /\ arrived + 1 \in Nat
    BY LogRingAssumption DEF Text
  <2>3. lv.paused_buffered_count \in Nat
    BY DEF Viewer
  <2>4. /\ lv'.auto_scroll = lv.auto_scroll /\ lv'.is_paused = lv.is_paused
        /\ lv'.scroll_offset \in {lv.scroll_offset, 0}
        /\ lv'.paused_buffered_count =
             IF lv.is_paused /\ ~t.blank THEN lv.paused_buffered_count + 1
             ELSE lv.paused_buffered_count
    BY <2>1, <2>2, AppendView
  <2> QED  BY <2>1, <2>2, <2>3, <2>4
<1>2. CASE DropMarker \/ MarkAfter \/ DropMarkers
  <2>1. PICK slot \in Slots :
          lv' \in {AddMarker(lv), InsertMarkerAfter(lv, slot), ClearMarkers(lv)}
    <3>1. 0 \in Slots
      BY CapAssumption DEF Slots
    <3> QED  BY <1>2, <3>1 DEF DropMarker, MarkAfter, DropMarkers, Call
  <2>2. arrived' = arrived
    BY <1>2 DEF DropMarker, MarkAfter, DropMarkers, Call
  <2> QED  BY <2>1, <2>2, RingOpsView
<1>3. CASE Pause
  BY <1>3 DEF Pause, Call, TogglePause, Viewer
<1>4. CASE PickLevel \/ PickFilter
  BY <1>4 DEF PickLevel, PickFilter, Call, SetLevelFilter, SetFilter, Viewer
<1>5. CASE Up
  BY <1>5 DEF Up, Call, ScrollUp, Viewer
<1>6. CASE Down \/ Bottom
  <2>1. lv.is_paused \in BOOLEAN /\ lv.auto_scroll \in BOOLEAN
    BY DEF Viewer
  <2>2. CASE lv' = ScrollToBottom(lv) /\ arrived' = arrived
    BY <2>1, <2>2 DEF ScrollToBottom, Viewer
  <2>3. CASE lv'.auto_scroll = lv.auto_scroll /\ lv.scroll_offset > 0
             /\ lv'.is_paused = lv.is_paused /\ arrived' = arrived
             /\ lv'.paused_buffered_count = lv.paused_buffered_count
    BY <2>3
  <2>4. ASSUME NEW delta \in Deltas, lv' = ScrollDown(lv, delta), lv' # ScrollToBottom(lv)
        PROVE  /\ lv'.auto_scroll = lv.auto_scroll /\ lv.scroll_offset > 0
               /\ lv'.is_paused = lv.is_paused
               /\ lv'.paused_buffered_count = lv.paused_buffered_count
    BY <2>4, LogRingAssumption DEF ScrollDown, Viewer
  <2> QED  BY <1>6, <2>2, <2>3, <2>4 DEF Down, Bottom, Call
<1>7. CASE SwitchStart
  BY <1>7 DEF SwitchStart, Reset, Viewer
<1>8. CASE SwitchEnd
  BY <1>8 DEF SwitchEnd
<1>9. CASE Refresh
  BY <1>9 DEF Refresh, Viewer
<1>10. CASE UNCHANGED vars
  BY <1>10 DEF vars
<1> QED
  BY <1>1, <1>2, <1>3, <1>4, <1>5, <1>6, <1>7, <1>8, <1>9, <1>10 DEF Next

\* A view that follows the stream is at the bottom (scroll_offset in
\* log_viewer.h), as long as only the viewer's own functions are called.
THEOREM Follows == Spec => []FollowsAtBottom
<1>1. Init => ViewInv
  BY DEF Init, ViewInv, FollowsAtBottom, PausedCountHonest, ViewerInit
<1>2. QED
  BY <1>1, ViewStep, TypeCorrect, PTL DEF Spec, ViewInv

\* "[PAUSED +n]" never counts lines of an earlier pause or of another stream.
THEOREM PausedCount == Spec => []PausedCountHonest
<1>1. Init => ViewInv
  BY DEF Init, ViewInv, FollowsAtBottom, PausedCountHonest, ViewerInit
<1>2. QED
  BY <1>1, ViewStep, TypeCorrect, PTL DEF Spec, ViewInv

-----------------------------------------------------------------------------
(* The match cache. *)

\* No step leaves a stale cache: only Refresh turns is_dirty off, and it rescans.
LEMMA CacheStep == TypeOK /\ CacheCoherent /\ [Next]_vars => CacheCoherent'
<1> SUFFICES ASSUME TypeOK, CacheCoherent, [Next]_vars PROVE CacheCoherent'
  OBVIOUS
<1>1. CASE Refresh
  <2>1. SameLines(lv, lv')
    BY <1>1 DEF Refresh, SameLines, TypeOK, Viewer
  <2>2. Matching(lv') = Matching(lv)
    BY <2>1, MatchingSame
  <2> QED
    BY <1>1, <2>2 DEF Refresh, UpdateMatching, CacheCoherent
<1>2. CASE Announces(lv, lv') /\ matching' = matching
  BY <1>2, MatchingSame DEF Announces, CacheCoherent
<1>3. ASSUME ~Refresh PROVE Announces(lv, lv') /\ matching' = matching
  <2>1. CASE Receive
    BY <2>1, AppendAnnounces, LogRingAssumption DEF Receive, TypeOK
  <2>2. CASE DropMarker \/ MarkAfter \/ DropMarkers
    <3>1. 0 \in Slots
      BY CapAssumption DEF Slots
    <3> QED  BY <2>2, <3>1, MarkersAnnounce
             DEF DropMarker, MarkAfter, DropMarkers, Call, TypeOK
  <2>3. CASE Pause \/ PickLevel \/ PickFilter \/ Up \/ Down \/ Bottom \/ SwitchStart
    <3>1. /\ 0 \in Levels /\ 0 \in Filters /\ 0 \in Nat
          /\ lv.count \in Nat /\ Deltas \subseteq Nat
      BY FilterCapAssumption, LogRingAssumption, CapAssumption
         DEF Levels, Filters, TypeOK, Viewer
    <3>2. PICK level \in Levels, filter \in Filters, delta \in Nat :
            lv' \in {SetLevelFilter(lv, level), SetFilter(lv, filter), TogglePause(lv),
                     ScrollUp(lv, delta), ScrollDown(lv, delta), ScrollToBottom(lv),
                     Reset(lv)}
      BY <2>3, <3>1 DEF Pause, PickLevel, PickFilter, Up, Down, Bottom, SwitchStart, Call
    <3>3. matching' = matching
      BY <2>3 DEF Pause, PickLevel, PickFilter, Up, Down, Bottom, SwitchStart, Call
    <3> QED  BY <3>2, <3>3, ControlAnnounces DEF TypeOK
  <2>4. CASE SwitchEnd \/ UNCHANGED vars
    BY <2>4 DEF SwitchEnd, vars, Announces, SameLines
  <2> QED  BY <1>3, <2>1, <2>2, <2>3, <2>4 DEF Next
<1> QED  BY <1>1, <1>2, <1>3

\* The cache of matching_indices is never used stale (tui.c skips the scan while
\* is_dirty is off).
THEOREM CacheCorrect == Spec => []CacheCoherent
<1>1. Init => CacheCoherent
  BY DEF Init, CacheCoherent, ViewerInit
<1>2. QED
  BY <1>1, CacheStep, TypeCorrect, PTL DEF Spec

-----------------------------------------------------------------------------

\* Whatever the position of the head, and full or not, a marker goes where the
\* window of LogWindow has it.
LEMMA MarkerBehindStep == TypeOK => MarkerBehindLine
<1> SUFFICES ASSUME TypeOK, NEW p \in 1 .. lv.count
             PROVE  Window(InsertMarkerAfter(lv, SlotAt(lv.head, p - 1))) = Promise!MarkedBehind(p)
  BY DEF MarkerBehindLine
<1>1. lv \in Viewer /\ lv.count \in 0 .. Cap /\ Cap \in Nat /\ lv.head \in Slots
      /\ lv.lines \in [Slots -> LogLine]
  BY CapAssumption DEF TypeOK, Viewer
<1> DEFINE q == Window(lv)
<1>2. q \in Seq(LogLine) /\ Len(q) = lv.count
  <2>1. \A i \in 1 .. lv.count : SlotAt(lv.head, i - 1) \in Slots
    BY <1>1, SlotAtValue
  <2>2. q \in [1 .. lv.count -> LogLine]
    BY <1>1, <2>1 DEF Window
  <2> QED  BY <1>1, <2>2
<1>3. Marker \in LogLine
  BY LineTypes
<1> HIDE DEF q
<1>4. Promise!MarkedBehind(p) = Inserted(q, Marker, p, Cap)
  <2>1. p + 1 - 1 = p
    BY <1>1
  <2> QED  BY <2>1 DEF Promise!MarkedBehind, Promise!Keep, Promise!InsertAt, Inserted, q
<1>5. p \in 1 .. Len(q) /\ Len(q) <= Cap
  BY <1>1, <1>2
<1>6. Inserted(q, Marker, p, Cap) = Marked(q, Marker, p, Cap)
  BY <1>1, <1>2, <1>3, <1>5, InsertedIsMarked
<1> QED
  BY <1>1, <1>4, <1>6, InsertWindow DEF q

\* The marker of `m` stands right behind the selected line, in a ring of any size,
\* full or not, wherever its head is (log_viewer_insert_marker_after).
THEOREM MarkerPlaced == Spec => []MarkerBehindLine
<1>1. TypeOK => MarkerBehindLine
  BY MarkerBehindStep
<1> QED
  BY <1>1, TypeCorrect, PTL

-----------------------------------------------------------------------------
(* The window each operation leaves. *)

\* The live lines are a sequence of lines, as long as the ring is filled.
LEMMA WindowType ==
  ASSUME NEW v \in Viewer
  PROVE  /\ Window(v) \in Seq(LogLine)
         /\ Len(Window(v)) = v.count
         /\ v.count \in Nat /\ v.count <= Cap
         /\ \A i \in 1 .. v.count : /\ SlotAt(v.head, i - 1) \in Slots
                                    /\ Window(v)[i] = v.lines[SlotAt(v.head, i - 1)]
<1>1. v.count \in 0 .. Cap /\ Cap \in Nat /\ v.head \in Slots /\ v.lines \in [Slots -> LogLine]
  BY CapAssumption DEF Viewer
<1>2. \A i \in 1 .. v.count : SlotAt(v.head, i - 1) \in Slots
  BY <1>1, SlotAtValue
<1>3. Window(v) \in [1 .. v.count -> LogLine]
  BY <1>1, <1>2 DEF Window
<1> QED  BY <1>1, <1>2, <1>3 DEF Window

\* Two viewers whose live slots hold the same lines show the same window.
LEMMA WindowSame ==
  ASSUME NEW v \in Viewer, NEW w \in Viewer,
         w.lines = v.lines, w.head = v.head, w.count = v.count
  PROVE  Window(w) = Window(v)
BY DEF Window

\* A sequence with one line more, and without its first if that is one too many.
Kept(q, line) ==
  LET s == Append(q, line) IN IF Len(s) > Cap THEN Tail(s) ELSE s

\* Whatever the position of the head, a push adds the line behind the newest and
\* costs the oldest exactly when the ring is full.
LEMMA PushWindow ==
  ASSUME NEW v \in Viewer, NEW line \in LogLine
  PROVE  Window(Push(v, line)) = Kept(Window(v), line)
<1>1. /\ v.head \in Slots /\ v.count \in Nat /\ v.count <= Cap
      /\ v.lines \in [Slots -> LogLine] /\ Cap \in Nat /\ Cap >= 1
  BY CapAssumption DEF Viewer
<1>2. PICK q : q = Window(v)
  OBVIOUS
<1>3. q \in Seq(LogLine) /\ Len(q) = v.count
      /\ \A i \in 1 .. v.count : q[i] = v.lines[SlotAt(v.head, i - 1)]
  BY <1>2, WindowType
<1>4. PICK s : s = Append(q, line)
  OBVIOUS
<1>5. /\ s \in Seq(LogLine) /\ Len(s) = v.count + 1
      /\ \A i \in 1 .. v.count : s[i] = q[i]
      /\ s[v.count + 1] = line
  BY <1>1, <1>3, <1>4, AppendProperties
<1>6. PICK w : w = Push(v, line)
  OBVIOUS
<1>7. w \in Viewer
  BY <1>6, PushType
<1>8. Window(w) \in Seq(LogLine) /\ Len(Window(w)) = w.count
      /\ \A i \in 1 .. w.count : Window(w)[i] = w.lines[SlotAt(w.head, i - 1)]
  BY <1>7, WindowType
<1>9. CASE v.count = Cap
  <2>1. PICK h : h = SlotAt(v.head, 1)
    OBVIOUS
  <2>2. w.head = h /\ w.count = Cap /\ w.lines = [v.lines EXCEPT ![v.head] = line]
    BY <1>6, <1>9, <2>1 DEF Push, Viewer
  <2>3. s # << >> /\ Len(s) > Cap
    BY <1>1, <1>5, <1>9, EmptySeq
  <2>4. PICK t : t = Tail(s)
    OBVIOUS
  <2>5. t \in Seq(LogLine) /\ Len(t) = Cap /\ \A i \in 1 .. Cap : t[i] = s[i + 1]
    <3>1. t \in Seq(LogLine) /\ Len(t) = Len(s) - 1 /\ \A i \in 1 .. Len(t) : t[i] = s[i + 1]
      BY <1>5, <2>3, <2>4, HeadTailProperties
    <3>2. Len(t) = Cap
      BY <1>1, <1>5, <1>9, <3>1
    <3> QED  BY <3>1, <3>2
  <2>6. ASSUME NEW i \in 1 .. Cap PROVE Window(w)[i] = t[i]
    <3>1. i - 1 \in 0 .. Cap - 1 /\ (i - 1) + 1 = i
      BY <1>1
    <3>2. SlotAt(h, i - 1) = SlotAt(v.head, i)
      BY <1>1, <2>1, <3>1, SlotNext
    <3>3. Window(w)[i] = w.lines[SlotAt(v.head, i)]
      BY <1>8, <2>2, <3>2
    <3>4. CASE i = Cap
      <4>1. SlotAt(v.head, i) = v.head
        BY <1>1, <3>4, SlotAtValue DEF Slots
      <4> QED  BY <1>1, <1>5, <1>9, <2>2, <2>5, <3>3, <3>4, <4>1
    <3>5. CASE i # Cap
      <4>1. SlotAt(v.head, i) # v.head /\ SlotAt(v.head, i) \in Slots
        <5>1. i \in 0 .. Cap /\ i > 0 /\ i < Cap /\ v.head \in 0 .. Cap - 1
          BY <1>1, <3>5 DEF Slots
        <5>2. /\ SlotAt(v.head, i) = IF v.head + i < Cap THEN v.head + i ELSE v.head + i - Cap
              /\ SlotAt(v.head, i) \in Slots
          BY <1>1, <5>1, SlotAtValue
        <5> QED  BY <1>1, <5>1, <5>2
      <4>2. i + 1 \in 1 .. v.count /\ i + 1 - 1 = i
        BY <1>1, <1>9, <3>5
      <4>3. s[i + 1] = v.lines[SlotAt(v.head, i)]
        <5> DEFINE j == i + 1
        <5>1. j \in 1 .. v.count /\ j - 1 = i
          BY <4>2
        <5>2. s[j] = q[j]
          BY <1>5, <5>1
        <5>3. q[j] = v.lines[SlotAt(v.head, j - 1)]
          BY <1>3, <5>1
        <5> QED  BY <5>1, <5>2, <5>3
      <4> QED  BY <1>1, <2>2, <2>5, <3>3, <4>1, <4>3
    <3> QED  BY <3>4, <3>5
  <2>7. Window(w) = t
    BY <1>8, <2>2, <2>5, <2>6, SeqEqual
  <2> QED  BY <1>2, <1>4, <1>6, <2>3, <2>4, <2>7 DEF Kept
<1>10. CASE v.count # Cap
  <2>1. PICK z : z = SlotAt(v.head, v.count)
    OBVIOUS
  <2>2. w.head = v.head /\ w.count = v.count + 1 /\ w.lines = [v.lines EXCEPT ![z] = line]
    BY <1>6, <1>10, <2>1 DEF Push, Viewer
  <2>3. ~(Len(s) > Cap)
    BY <1>1, <1>5, <1>10
  <2>4. z \in Slots
    BY <1>1, <2>1, SlotAtValue
  <2>5. ASSUME NEW i \in 1 .. v.count + 1 PROVE Window(w)[i] = s[i]
    <3>1. Window(w)[i] = w.lines[SlotAt(v.head, i - 1)]
      BY <1>8, <2>2
    <3>2. CASE i = v.count + 1
      <4>1. SlotAt(v.head, i - 1) = z
        <5>1. i - 1 = v.count
          BY <1>1, <3>2
        <5> QED  BY <2>1, <5>1
      <4>2. w.lines[z] = line
        BY <1>1, <2>2, <2>4
      <4>3. s[i] = line
        BY <1>5, <3>2
      <4> QED  BY <3>1, <4>1, <4>2, <4>3
    <3>3. CASE i # v.count + 1
      <4>1. i \in 1 .. v.count /\ i - 1 \in 0 .. Cap - 1 /\ v.count \in 0 .. Cap - 1
        BY <1>1, <1>10, <3>3
      <4>2. Logical(v.head, SlotAt(v.head, i - 1)) = i - 1 /\ Logical(v.head, z) = v.count
        BY <1>1, <2>1, <4>1, SlotInverse
      <4>3. i - 1 # v.count
        BY <1>1, <4>1
      <4>4. SlotAt(v.head, i - 1) # z
        BY <4>2, <4>3
      <4>5. SlotAt(v.head, i - 1) \in Slots
        BY <1>1, <4>1, SlotAtValue
      <4> QED  BY <1>1, <1>3, <1>5, <2>2, <3>1, <4>1, <4>4, <4>5
    <3> QED  BY <3>2, <3>3
  <2>6. Window(w) = s
    BY <1>5, <1>8, <2>2, <2>5, SeqEqual
  <2> QED  BY <1>2, <1>4, <1>6, <2>3, <2>6 DEF Kept
<1> QED  BY <1>9, <1>10

-----------------------------------------------------------------------------
(* Lists of positions. *)

\* Lists, and every member is listed.
ListsAll(q, n, S) == Lists(q, n, S) /\ \A x \in S : \E k \in 1 .. n : q[k] = x

\* A list as long as its set is finite leaves no member out.
LEMMA ListOnto ==
  ASSUME NEW S \in SUBSET Int, IsFiniteSet(S), NEW q, Lists(q, Cardinality(S), S)
  PROVE  ListsAll(q, Cardinality(S), S)
<1>1. PICK n : n = Cardinality(S)
  OBVIOUS
<1>2. n \in Nat
  BY <1>1, FS_CardinalityType
<1>3. q \in [1 .. n -> S] /\ \A i, j \in 1 .. n : i < j => q[i] < q[j]
  BY <1>1 DEF Lists
<1>4. ASSUME NEW i \in 1 .. n, NEW j \in 1 .. n, q[i] = q[j] PROVE i = j
  <2>1. q[i] \in Int /\ ~(q[i] < q[j]) /\ ~(q[j] < q[i])
    <3>1. PICK x : x = q[i]
      OBVIOUS
    <3>2. x \in Int /\ q[j] = x
      BY <1>3, <1>4, <3>1
    <3>3. ~(x < x)
      BY <3>2
    <3> QED  BY <3>1, <3>2, <3>3
  <2>2. ~(i < j) /\ ~(j < i)
    BY <1>3, <2>1
  <2> QED  BY <1>2, <2>2
<1>5. q \in Injection(1 .. n, S)
  BY <1>3, <1>4 DEF Injection, IsInjective
<1>6. IsFiniteSet(1 .. n) /\ Cardinality(1 .. n) = n
  BY <1>2, FS_Interval, 1 \in Int, n \in Int
<1>7. q \in Surjection(1 .. n, S)
  BY <1>1, <1>5, <1>6, FS_Injection
<1>8. \A x \in S : \E k \in 1 .. n : q[k] = x
  BY <1>7 DEF Surjection
<1> QED  BY <1>1, <1>3, <1>8 DEF ListsAll, Lists

\* A list without repetition that leaves no member out is as long as its set.
LEMMA ListCount ==
  ASSUME NEW S \in SUBSET Int, NEW n \in Nat, NEW q, ListsAll(q, n, S)
  PROVE  IsFiniteSet(S) /\ Cardinality(S) = n
<1>3. /\ q \in [1 .. n -> S] /\ \A i, j \in 1 .. n : i < j => q[i] < q[j]
      /\ \A x \in S : \E k \in 1 .. n : q[k] = x
  BY DEF ListsAll, Lists
<1>4. ASSUME NEW i \in 1 .. n, NEW j \in 1 .. n, q[i] = q[j] PROVE i = j
  <2>1. q[i] \in Int /\ ~(q[i] < q[j]) /\ ~(q[j] < q[i])
    <3>1. PICK x : x = q[i]
      OBVIOUS
    <3>2. x \in Int /\ q[j] = x
      BY <1>3, <1>4, <3>1
    <3>3. ~(x < x)
      BY <3>2
    <3> QED  BY <3>1, <3>2, <3>3
  <2>2. ~(i < j) /\ ~(j < i)
    BY <1>3, <2>1
  <2> QED  BY <2>2
<1>5. q \in Bijection(1 .. n, S)
  BY <1>3, <1>4 DEF Bijection, Injection, Surjection, IsInjective
<1>6. ExistsBijection(1 .. n, S)
  BY <1>5 DEF ExistsBijection
<1> QED  BY <1>6, FS_CountingElements, FS_NatBijection

\* There is only one increasing list of a set.
LEMMA ListUnique ==
  ASSUME NEW S \in SUBSET Int, NEW n \in Nat,
         NEW q, ListsAll(q, n, S), NEW r, ListsAll(r, n, S)
  PROVE  q = r
<1>1. /\ q \in [1 .. n -> S] /\ \A i, j \in 1 .. n : i < j => q[i] < q[j]
      /\ \A x \in S : \E k \in 1 .. n : q[k] = x
  BY DEF ListsAll, Lists
<1>2. /\ r \in [1 .. n -> S] /\ \A i, j \in 1 .. n : i < j => r[i] < r[j]
      /\ \A x \in S : \E k \in 1 .. n : r[k] = x
  BY DEF ListsAll, Lists
<1> DEFINE Differ == {i \in 1 .. n : q[i] # r[i]}
<1>3. CASE Differ = {}
  BY <1>1, <1>2, <1>3
<1>4. CASE Differ # {}
  <2>1. Differ \in SUBSET Nat
    OBVIOUS
  <2>2. PICK i \in Differ : \A j \in Differ : i <= j
    BY <1>4, <2>1, NatMin
  <2>3. i \in 1 .. n /\ q[i] # r[i] /\ q[i] \in S /\ r[i] \in S /\ q[i] \in Int /\ r[i] \in Int
    BY <1>1, <1>2, <2>2
  <2>4. \A j \in 1 .. n : j < i => q[j] = r[j]
    BY <2>2, <2>3
  <2>5. CASE q[i] < r[i]
    <3>1. PICK j \in 1 .. n : r[j] = q[i]
      BY <1>2, <2>3
    <3>2. j < i
      BY <1>2, <2>3, <2>5, <3>1
    <3>3. q[j] = q[i] /\ q[j] < q[i]
      BY <1>1, <2>3, <2>4, <3>1, <3>2
    <3> QED  BY <2>3, <3>3
  <2>6. CASE r[i] < q[i]
    <3>1. PICK j \in 1 .. n : q[j] = r[i]
      BY <1>1, <2>3
    <3>2. j < i
      BY <1>1, <2>3, <2>6, <3>1
    <3>3. r[j] = r[i] /\ r[j] < r[i]
      BY <1>2, <2>3, <2>4, <3>1, <3>2
    <3> QED  BY <2>3, <3>3
  <2> QED  BY <2>3, <2>5, <2>6
<1> QED  BY <1>3, <1>4

-----------------------------------------------------------------------------
(* Markers removed. *)

\* The places of the journal lines among the lines.
AppPlaces(q) == {i \in DOMAIN q : IsAppLine(q[i])}

\* The lines that are no markers stay, in their order: packing them towards the
\* head, slot by slot, is picking them from the window.
LEMMA ClearWindow ==
  ASSUME NEW v \in Viewer, NEW stay, stay = AppPlaces(Window(v))
  PROVE  /\ IsFiniteSet(stay)
         /\ \E from : /\ ListsAll(from, Cardinality(stay), stay)
                      /\ Window(ClearMarkers(v)) =
                           [i \in 1 .. Cardinality(stay) |-> Window(v)[from[i]]]
<1> DEFINE kept == {i \in 0 .. v.count - 1 : IsAppLine(v.lines[SlotAt(v.head, i)])}
           n    == Cardinality(kept)
           Packed(s) ==
             LET i == Logical(v.head, s)
             IN IF i < n THEN v.lines[SlotAt(v.head, InOrder(kept)[i + 1])] ELSE v.lines[s]
           w    == ClearMarkers(v)
           from == [i \in 1 .. n |-> InOrder(kept)[i] + 1]
<1>1. /\ v.head \in Slots /\ v.count \in Nat /\ v.count <= Cap /\ Cap \in Nat /\ Cap >= 1
      /\ v.lines \in [Slots -> LogLine]
  BY CapAssumption DEF Viewer
<1>0. stay = {p \in 1 .. v.count : IsAppLine(Window(v)[p])}
  <2>1. DOMAIN Window(v) = 1 .. v.count
    BY DEF Window
  <2> QED  BY <2>1 DEF AppPlaces
<1>2. kept \in SUBSET (0 .. Cap - 1) /\ kept \in SUBSET Int
  BY <1>1
<1>3. IsFiniteSet(kept) /\ n \in Nat /\ n <= Cap /\ Lists(InOrder(kept), n, kept)
  BY <1>1, <1>2, InOrderLists
<1>4. ListsAll(InOrder(kept), n, kept)
  BY <1>2, <1>3, ListOnto
<1>5. w.lines = [s \in Slots |-> Packed(s)] /\ w.count = n /\ w.head = v.head
  BY DEF ClearMarkers, Viewer
<1>6. \A p \in 1 .. v.count : Window(v)[p] = v.lines[SlotAt(v.head, p - 1)]
  BY WindowType
<1>7. \A i : i \in kept <=> i + 1 \in stay /\ i \in Int
  <2> TAKE i
  <2>1. CASE i \in Int
    <3>1. i \in 0 .. v.count - 1 <=> i + 1 \in 1 .. v.count
      BY <1>1, <2>1
    <3>2. (i + 1) - 1 = i
      BY <2>1
    <3>3. i + 1 \in 1 .. v.count => Window(v)[i + 1] = v.lines[SlotAt(v.head, i)]
      BY <1>6, <3>2
    <3> QED  BY <1>0, <2>1, <3>1, <3>3
  <2>2. CASE i \notin Int
    BY <1>2, <2>2
  <2> QED  BY <2>1, <2>2
<1> HIDE DEF kept, n, Packed, w
<1>8. ListsAll(from, n, stay)
  <2>1. /\ InOrder(kept) \in [1 .. n -> kept]
        /\ \A i, j \in 1 .. n : i < j => InOrder(kept)[i] < InOrder(kept)[j]
        /\ \A x \in kept : \E k \in 1 .. n : InOrder(kept)[k] = x
    BY <1>4 DEF ListsAll, Lists
  <2>2. from \in [1 .. n -> stay]
    BY <1>7, <2>1
  <2>3. ASSUME NEW i \in 1 .. n, NEW j \in 1 .. n, i < j PROVE from[i] < from[j]
    <3>1. InOrder(kept)[i] \in Int /\ InOrder(kept)[j] \in Int
      BY <1>2, <2>1
    <3> QED  BY <2>1, <2>3, <3>1
  <2>4. ASSUME NEW x \in stay PROVE \E k \in 1 .. n : from[k] = x
    <3>1. x \in Int /\ (x - 1) + 1 = x /\ x - 1 \in Int
      BY <1>0, <1>1
    <3>2. x - 1 \in kept
      BY <1>7, <3>1
    <3>3. PICK k \in 1 .. n : InOrder(kept)[k] = x - 1
      BY <2>1, <3>2
    <3> QED  BY <3>1, <3>3
  <2> QED  BY <2>2, <2>3, <2>4 DEF ListsAll, Lists
<1>9. stay \in SUBSET Int
  BY <1>0, <1>1
<1>10. IsFiniteSet(stay) /\ Cardinality(stay) = n
  BY <1>3, <1>8, <1>9, ListCount
<1>11. ASSUME NEW i \in 1 .. n
       PROVE  w.lines[SlotAt(w.head, i - 1)] = Window(v)[from[i]]
  <2>1. i - 1 \in 0 .. Cap - 1 /\ i - 1 \in 0 .. Cap /\ i - 1 < n /\ (i - 1) + 1 = i
    BY <1>1, <1>3
  <2>2. PICK s : s = SlotAt(v.head, i - 1)
    OBVIOUS
  <2>3. s \in Slots /\ Logical(v.head, s) = i - 1
    BY <1>1, <2>1, <2>2, SlotAtValue, SlotInverse
  <2>4. w.lines[s] = v.lines[SlotAt(v.head, InOrder(kept)[i])]
    BY <1>5, <2>1, <2>3 DEF Packed
  <2>5. InOrder(kept)[i] \in kept
    BY <1>3 DEF Lists
  <2>6. from[i] \in 1 .. v.count /\ from[i] - 1 = InOrder(kept)[i]
    <3>1. from[i] \in stay /\ from[i] = InOrder(kept)[i] + 1 /\ InOrder(kept)[i] \in Int
      BY <1>7, <2>5
    <3> HIDE DEF from
    <3> QED  BY <1>0, <3>1
  <2>7. Window(v)[from[i]] = v.lines[SlotAt(v.head, InOrder(kept)[i])]
    BY <1>6, <2>6
  <2> QED  BY <1>5, <2>2, <2>4, <2>7
<1>12. Window(w) = [i \in 1 .. n |-> Window(v)[from[i]]]
  <2> HIDE DEF from
  <2> QED  BY <1>5, <1>11 DEF Window
<1> QED
  BY <1>8, <1>10, <1>12 DEF w

-----------------------------------------------------------------------------
(* The newest lines of the stream. *)

\* NewestKept, of any sequence of lines.
Newest(q, n) ==
  \A i \in AppPlaces(q) :
    LET later == {j \in AppPlaces(q) : i < j}
    IN IF later = {} THEN q[i].arrival = n
       ELSE \E j \in later : /\ \A k \in later : j <= k
                             /\ q[j].arrival = q[i].arrival + 1

\* Its consequence, which is inductive beside it: the arrivals increase.
Rising(q, n) ==
  \A i \in AppPlaces(q) :
    /\ q[i].arrival \in 1 .. n
    /\ \A j \in AppPlaces(q) : i < j => q[i].arrival < q[j].arrival

OfStream(q, n) == Newest(q, n) /\ Rising(q, n)

\* The journal lines of r are the last ones of q, in their order: f tells which.
Takes(f, r, q) ==
  /\ \A i \in AppPlaces(r) : f[i] \in AppPlaces(q) /\ r[i] = q[f[i]]
  /\ \A i, j \in AppPlaces(r) : i < j => f[i] < f[j]
  /\ \A i \in AppPlaces(r), l \in AppPlaces(q) :
       f[i] < l => \E j \in AppPlaces(r) : f[j] = l

\* A sequence whose journal lines are the last ones of another, whatever markers
\* stand between them, is as much of the stream as the other.
LEMMA TakenFrom ==
  ASSUME NEW q \in Seq(LogLine), NEW r \in Seq(LogLine), NEW n \in Nat, OfStream(q, n),
         NEW f, Takes(f, r, q)
  PROVE  OfStream(r, n)
<1> USE DEF Takes
<1>1. \A i \in AppPlaces(r) : i \in Int
  BY LenProperties DEF AppPlaces
<1>2. \A i \in AppPlaces(q) : i \in Int
  BY LenProperties DEF AppPlaces
<1>3. ASSUME NEW i \in AppPlaces(r), NEW j \in AppPlaces(r), f[i] < f[j] PROVE i < j
  <2>1. CASE j < i
    <3>1. f[j] < f[i] /\ f[i] \in Int /\ f[j] \in Int
      BY <1>2, <2>1
    <3> QED  BY <1>3, <3>1
  <2>2. CASE i = j
    <3>1. f[i] = f[j] /\ f[i] \in Int
      BY <1>2, <2>2
    <3> QED  BY <1>3, <3>1
  <2> QED  BY <1>1, <2>1, <2>2
<1>4. Rising(r, n)
  BY DEF OfStream, Rising
<1>5. ASSUME NEW i \in AppPlaces(r)
      PROVE  LET later == {j \in AppPlaces(r) : i < j}
             IN IF later = {} THEN r[i].arrival = n
                ELSE \E j \in later : /\ \A k \in later : j <= k
                                      /\ r[j].arrival = r[i].arrival + 1
  <2> DEFINE later == {j \in AppPlaces(r) : i < j}
             beyond == {l \in AppPlaces(q) : f[i] < l}
  <2>1. IF beyond = {} THEN q[f[i]].arrival = n
        ELSE \E l \in beyond : /\ \A k \in beyond : l <= k
                               /\ q[l].arrival = q[f[i]].arrival + 1
    BY DEF OfStream, Newest
  <2>2. \A j \in later : f[j] \in beyond
    OBVIOUS
  <2>3. \A l \in beyond : \E j \in later : f[j] = l
    BY <1>3
  <2>4. CASE later = {}
    <3>1. beyond = {}
      BY <2>3, <2>4
    <3> QED  BY <2>1, <2>4, <3>1
  <2>5. CASE later # {}
    <3>1. beyond # {}
      BY <2>2, <2>5
    <3>2. PICK l \in beyond : /\ \A k \in beyond : l <= k
                              /\ q[l].arrival = q[f[i]].arrival + 1
      BY <2>1, <3>1
    <3>3. PICK j \in later : f[j] = l
      BY <2>3
    <3>4. ASSUME NEW k \in later PROVE j <= k
      <4>1. f[j] <= f[k] /\ f[j] \in Int /\ f[k] \in Int
        BY <1>2, <2>2, <3>2, <3>3
      <4>2. ~(k < j)
        BY <4>1
      <4> QED  BY <1>1, <4>2
    <3>5. r[j].arrival = r[i].arrival + 1
      BY <3>2, <3>3
    <3> QED  BY <2>5, <3>4, <3>5
  <2> QED  BY <2>4, <2>5
<1>6. Newest(r, n)
  BY <1>5 DEF Newest
<1> QED  BY <1>4, <1>6 DEF OfStream

\* Losing the first line.
LEMMA TailOfStream ==
  ASSUME NEW q \in Seq(LogLine), q # << >>, NEW n \in Nat, OfStream(q, n)
  PROVE  OfStream(Tail(q), n)
<1>1. PICK r : r = Tail(q)
  OBVIOUS
<1>2. /\ r \in Seq(LogLine) /\ Len(r) = Len(q) - 1 /\ Len(q) \in Nat
      /\ DOMAIN r = 1 .. Len(r) /\ DOMAIN q = 1 .. Len(q)
      /\ \A i \in 1 .. Len(r) : r[i] = q[i + 1]
  BY <1>1, HeadTailProperties, LenProperties
<1>f. PICK f : f = [i \in AppPlaces(r) |-> i + 1]
  OBVIOUS
<1>3. \A i \in AppPlaces(r) : i \in Int /\ i + 1 \in AppPlaces(q) /\ r[i] = q[i + 1]
  BY <1>2 DEF AppPlaces
<1>4. ASSUME NEW i \in AppPlaces(r), NEW l \in AppPlaces(q), i + 1 < l
      PROVE  l - 1 \in AppPlaces(r) /\ (l - 1) + 1 = l
  <2>1. l \in 1 .. Len(q) /\ i \in 1 .. Len(r) /\ IsAppLine(q[l])
    BY <1>2 DEF AppPlaces
  <2>2. l - 1 \in 1 .. Len(r) /\ (l - 1) + 1 = l
    BY <1>2, <1>4, <2>1
  <2>3. r[l - 1] = q[l]
    BY <1>2, <2>2
  <2> QED  BY <1>2, <2>1, <2>2, <2>3 DEF AppPlaces
<1>5. OfStream(r, n)
  <2>1. \A i \in AppPlaces(r) : f[i] \in AppPlaces(q) /\ r[i] = q[f[i]]
    BY <1>3, <1>f
  <2>2. \A i, j \in AppPlaces(r) : i < j => f[i] < f[j]
    BY <1>3, <1>f
  <2>3. \A i \in AppPlaces(r), l \in AppPlaces(q) :
          f[i] < l => \E j \in AppPlaces(r) : f[j] = l
    BY <1>4, <1>f
  <2>4. Takes(f, r, q)
    BY <2>1, <2>2, <2>3 DEF Takes
  <2> QED  BY <1>2, <2>4, TakenFrom
<1> QED  BY <1>1, <1>5

\* One line more: a marker, or the next line of the stream.
LEMMA AppendOfStream ==
  ASSUME NEW q \in Seq(LogLine), NEW n \in Nat, OfStream(q, n),
         NEW line \in LogLine, NEW m \in Nat,
         \/ line = Marker /\ m = n
         \/ IsAppLine(line) /\ line.arrival = m /\ m = n + 1
  PROVE  OfStream(Append(q, line), m)
<1>1. PICK r : r = Append(q, line)
  OBVIOUS
<1>2. PICK z : z = Len(q) + 1
  OBVIOUS
<1>3. /\ r \in Seq(LogLine) /\ Len(r) = z /\ Len(q) \in Nat
      /\ DOMAIN r = 1 .. z /\ DOMAIN q = 1 .. Len(q)
      /\ \A i \in 1 .. Len(q) : r[i] = q[i]
      /\ r[z] = line
  BY <1>1, <1>2, AppendProperties, LenProperties
<1>4. \A i : i \in AppPlaces(r) /\ i # z <=> i \in AppPlaces(q)
  <2> TAKE i
  <2>1. i \in 1 .. Len(q) <=> i \in 1 .. z /\ i # z
    BY <1>2, <1>3
  <2> QED  BY <1>3, <2>1 DEF AppPlaces
<1>5. \A i \in AppPlaces(q) : i \in Int /\ i < z /\ r[i] = q[i]
  BY <1>2, <1>3 DEF AppPlaces
<1>6. CASE line = Marker /\ m = n
  <2>1. z \notin AppPlaces(r)
    BY <1>3, <1>6 DEF AppPlaces, IsAppLine, Marker, ZeroLine
  <2>2. AppPlaces(r) = AppPlaces(q)
    BY <1>4, <2>1
  <2>3. Newest(r, n)
    BY <1>5, <2>2 DEF OfStream, Newest
  <2>4. Rising(r, n)
    BY <1>5, <2>2 DEF OfStream, Rising
  <2> QED  BY <1>1, <1>6, <2>3, <2>4 DEF OfStream
<1>7. CASE IsAppLine(line) /\ line.arrival = m /\ m = n + 1
  <2>1. z \in AppPlaces(r)
    BY <1>2, <1>3, <1>7 DEF AppPlaces
  <2>2. Rising(r, m)
    <3>1. \A i \in AppPlaces(q) : q[i].arrival \in 1 .. n
      BY DEF OfStream, Rising
    <3>2. \A i \in AppPlaces(r) : r[i].arrival \in 1 .. m
      BY <1>3, <1>4, <1>5, <1>7, <3>1
    <3>3. ASSUME NEW i \in AppPlaces(r), NEW j \in AppPlaces(r), i < j
          PROVE  r[i].arrival < r[j].arrival
      <4>1. i \in AppPlaces(q)
        <5>1. z \in Int /\ (j = z \/ j < z)
          BY <1>2, <1>3, <1>4, <1>5
        <5>2. i # z
          BY <1>3, <3>3, <5>1 DEF AppPlaces
        <5> QED  BY <1>4, <5>2
      <4>2. CASE j = z
        BY <1>3, <1>5, <1>7, <3>1, <4>1, <4>2
      <4>3. CASE j # z
        BY <1>4, <1>5, <3>3, <4>1, <4>3 DEF OfStream, Rising
      <4> QED  BY <4>2, <4>3
    <3> QED  BY <3>2, <3>3 DEF Rising
  <2>3. ASSUME NEW i \in AppPlaces(r)
        PROVE  LET later == {j \in AppPlaces(r) : i < j}
               IN IF later = {} THEN r[i].arrival = m
                  ELSE \E j \in later : /\ \A k \in later : j <= k
                                        /\ r[j].arrival = r[i].arrival + 1
    <3> DEFINE later == {j \in AppPlaces(r) : i < j}
               before == {j \in AppPlaces(q) : i < j}
    <3>1. CASE i = z
      <4>1. later = {}
        BY <1>2, <1>3, <3>1 DEF AppPlaces
      <4> QED  BY <1>3, <1>7, <3>1, <4>1
    <3>2. CASE i # z
      <4>1. i \in AppPlaces(q) /\ i < z /\ r[i] = q[i]
        BY <1>4, <1>5, <3>2
      <4>2. later = before \cup {z}
        BY <1>4, <2>1, <4>1
      <4>3. IF before = {} THEN q[i].arrival = n
            ELSE \E j \in before : /\ \A k \in before : j <= k
                                   /\ q[j].arrival = q[i].arrival + 1
        BY <4>1 DEF OfStream, Newest
      <4>4. CASE before = {}
        <5>1. r[z].arrival = r[i].arrival + 1
          BY <1>3, <1>7, <4>1, <4>3, <4>4
        <5>2. \A k \in later : z <= k
          BY <1>2, <1>3, <4>2, <4>4
        <5>3. z \in later
          BY <4>2
        <5> QED  BY <5>1, <5>2, <5>3
      <4>5. CASE before # {}
        <5>1. PICK j \in before : /\ \A k \in before : j <= k
                                  /\ q[j].arrival = q[i].arrival + 1
          BY <4>3, <4>5
        <5>2. j \in later /\ r[j] = q[j] /\ j < z
          BY <1>5, <4>2
        <5>3. \A k \in later : j <= k
          BY <1>2, <1>3, <1>5, <4>2, <5>1, <5>2
        <5>4. r[j].arrival = r[i].arrival + 1
          BY <4>1, <5>1, <5>2
        <5> QED  BY <5>2, <5>3, <5>4
      <4> QED  BY <4>4, <4>5
    <3> QED  BY <3>1, <3>2
  <2>4. Newest(r, m)
    BY <2>3 DEF Newest
  <2> QED  BY <1>1, <2>2, <2>4 DEF OfStream
<1> QED  BY <1>6, <1>7

\* A line pushed into a window that may be full.
LEMMA KeptOfStream ==
  ASSUME NEW q \in Seq(LogLine), NEW n \in Nat, OfStream(q, n),
         NEW line \in LogLine, NEW m \in Nat,
         \/ line = Marker /\ m = n
         \/ IsAppLine(line) /\ line.arrival = m /\ m = n + 1
  PROVE  OfStream(Kept(q, line), m)
<1>1. PICK s : s = Append(q, line)
  OBVIOUS
<1>2. OfStream(s, m) /\ s \in Seq(LogLine) /\ s # << >>
  <2>1. OfStream(s, m)
    BY <1>1, AppendOfStream
  <2>2. s \in Seq(LogLine) /\ Len(s) = Len(q) + 1 /\ Len(q) \in Nat
    BY <1>1, AppendProperties, LenProperties
  <2>3. Len(s) # 0
    BY <2>2
  <2> QED  BY <2>1, <2>2, <2>3, EmptySeq
<1>3. OfStream(Tail(s), m)
  BY <1>2, TailOfStream
<1> QED  BY <1>1, <1>2, <1>3 DEF Kept

\* A marker placed behind the p-th line.
LEMMA MarkedOfStream ==
  ASSUME NEW q \in Seq(LogLine), NEW n \in Nat, OfStream(q, n), NEW p \in 1 .. Len(q),
         NEW r \in Seq(LogLine), r = Marked(q, Marker, p, Cap)
  PROVE  OfStream(r, n)
<1>1. PICK drop : drop = IF Len(q) = Cap THEN 1 ELSE 0
  OBVIOUS
<1>2. PICK z : z = Len(q) + 1 - drop
  OBVIOUS
<1>3. Len(q) \in Nat /\ p \in Nat /\ 1 <= p /\ p <= Len(q) /\ drop \in {0, 1} /\ z \in Nat
      /\ DOMAIN q = 1 .. Len(q)
  BY <1>1, <1>2, LenProperties
<1>4. r = [i \in 1 .. z |-> IF i + drop <= p THEN q[i + drop]
                            ELSE IF i + drop = p + 1 THEN Marker ELSE q[i + drop - 1]]
  BY <1>1, <1>2 DEF Marked
<1>5. PICK f : f = [i \in 1 .. z |-> IF i + drop <= p THEN i + drop ELSE i + drop - 1]
  OBVIOUS
<1>6. ASSUME NEW i \in AppPlaces(r)
      PROVE  /\ i \in 1 .. z /\ i + drop # p + 1
             /\ f[i] \in 1 .. Len(q) /\ r[i] = q[f[i]] /\ f[i] \in AppPlaces(q)
  <2>1. i \in 1 .. z /\ IsAppLine(r[i])
    BY <1>4 DEF AppPlaces
  <2>2. i + drop # p + 1
    <3> SUFFICES ASSUME i + drop = p + 1 PROVE FALSE
      OBVIOUS
    <3>1. ~(i + drop <= p)
      BY <1>3, <2>1
    <3>2. r[i] = Marker
      BY <1>4, <2>1, <3>1
    <3> QED  BY <2>1, <3>2 DEF IsAppLine, Marker, ZeroLine
  <2>3. f[i] = IF i + drop <= p THEN i + drop ELSE i + drop - 1
    BY <1>5, <2>1
  <2>4. f[i] \in 1 .. Len(q)
    BY <1>2, <1>3, <2>1, <2>2, <2>3
  <2>5. r[i] = q[f[i]]
    BY <1>4, <2>1, <2>2, <2>3
  <2> QED  BY <1>3, <2>1, <2>2, <2>4, <2>5 DEF AppPlaces
<1>7. ASSUME NEW i \in AppPlaces(r), NEW j \in AppPlaces(r), i < j PROVE f[i] < f[j]
  <2>1. /\ i \in 1 .. z /\ j \in 1 .. z /\ i + drop # p + 1 /\ j + drop # p + 1
        /\ f[i] = IF i + drop <= p THEN i + drop ELSE i + drop - 1
        /\ f[j] = IF j + drop <= p THEN j + drop ELSE j + drop - 1
    BY <1>5, <1>6
  <2> QED  BY <1>3, <1>7, <2>1
<1>8. ASSUME NEW i \in AppPlaces(r), NEW l \in AppPlaces(q), f[i] < l
      PROVE  \E j \in AppPlaces(r) : f[j] = l
  <2>1. l \in 1 .. Len(q) /\ IsAppLine(q[l])
    BY <1>3 DEF AppPlaces
  <2>2. l > drop
    BY <1>3, <1>5, <1>6, <1>8, <2>1
  <2>3. PICK j : j = IF l <= p THEN l - drop ELSE l + 1 - drop
    OBVIOUS
  <2>4. j \in 1 .. z /\ j + drop # p + 1 /\ (IF j + drop <= p THEN j + drop ELSE j + drop - 1) = l
    BY <1>2, <1>3, <2>1, <2>2, <2>3
  <2>5. f[j] = l
    BY <1>5, <2>4
  <2>6. r[j] = q[l]
    BY <1>4, <2>4
  <2>7. DOMAIN r = 1 .. z
    BY <1>4
  <2> QED  BY <2>1, <2>4, <2>5, <2>6, <2>7 DEF AppPlaces
<1>9. Takes(f, r, q)
  BY <1>6, <1>7, <1>8 DEF Takes
<1> QED  BY <1>9, TakenFrom

\* All markers removed.
LEMMA PickedOfStream ==
  ASSUME NEW q \in Seq(LogLine), NEW n \in Nat, OfStream(q, n),
         NEW m \in Nat, NEW from, ListsAll(from, m, AppPlaces(q)),
         NEW r \in Seq(LogLine), r = [i \in 1 .. m |-> q[from[i]]]
  PROVE  OfStream(r, n)
<1>1. /\ from \in [1 .. m -> AppPlaces(q)]
      /\ \A i, j \in 1 .. m : i < j => from[i] < from[j]
      /\ \A x \in AppPlaces(q) : \E k \in 1 .. m : from[k] = x
  BY DEF ListsAll, Lists
<1>2. AppPlaces(r) = 1 .. m
  <2>1. \A i \in 1 .. m : r[i] = q[from[i]] /\ IsAppLine(q[from[i]])
    BY <1>1 DEF AppPlaces
  <2>2. DOMAIN r = 1 .. m
    OBVIOUS
  <2> QED  BY <2>1, <2>2 DEF AppPlaces
<1>3. Takes(from, r, q)
  BY <1>1, <1>2 DEF Takes
<1> QED  BY <1>3, TakenFrom

-----------------------------------------------------------------------------
(* Each operation, as the window sees it. *)

\* A received line, when anything is left of it, is pushed.
LEMMA AppendWindow ==
  ASSUME NEW v \in Viewer, NEW t \in Text, NEW n \in Nat
  PROVE  Window(AppendLine(v, t, n)) = IF t.blank THEN Window(v)
                                       ELSE Kept(Window(v), AppLine(t, n))
<1>1. PICK w : w = Push(v, AppLine(t, n))
  OBVIOUS
<1>2. w \in Viewer /\ Window(w) = Kept(Window(v), AppLine(t, n))
  BY <1>1, LineTypes, PushType, PushWindow
<1>3. t.blank \in BOOLEAN /\ v.is_paused \in BOOLEAN
  BY DEF Viewer, Text
<1>4. CASE t.blank
  BY <1>3, <1>4 DEF AppendLine
<1>5. CASE ~t.blank /\ v.is_paused
  <2>1. AppendLine(v, t, n) = [w EXCEPT !.paused_buffered_count = @ + 1]
    BY <1>1, <1>5 DEF AppendLine
  <2>2. Window(AppendLine(v, t, n)) = Window(w)
    BY <1>2, <2>1 DEF Window, Viewer
  <2> QED  BY <1>2, <1>5, <2>2
<1>6. CASE ~t.blank /\ ~v.is_paused
  <2>1. AppendLine(v, t, n) = [w EXCEPT !.scroll_offset = IF v.auto_scroll THEN 0 ELSE @]
    BY <1>1, <1>6 DEF AppendLine
  <2>2. Window(AppendLine(v, t, n)) = Window(w)
    BY <1>2, <2>1 DEF Window, Viewer
  <2> QED  BY <1>2, <1>6, <2>2
<1> QED  BY <1>3, <1>4, <1>5, <1>6

\* So is a marker dropped at the end.
LEMMA AddMarkerWindow ==
  ASSUME NEW v \in Viewer
  PROVE  Window(AddMarker(v)) = Kept(Window(v), Marker)
<1>1. PICK w : w = Push(v, Marker)
  OBVIOUS
<1>2. w \in Viewer /\ Window(w) = Kept(Window(v), Marker)
  BY <1>1, LineTypes, PushType, PushWindow
<1>3. AddMarker(v) = [w EXCEPT !.scroll_offset = IF ~v.is_paused /\ v.auto_scroll THEN 0 ELSE @]
  BY <1>1 DEF AddMarker
<1> QED  BY <1>2, <1>3 DEF Window, Viewer

\* Whichever slot is named, a marker goes behind a live line or nowhere.
LEMMA InsertAnywhere ==
  ASSUME NEW v \in Viewer, NEW slot \in Slots
  PROVE  \/ v.count = 0 /\ InsertMarkerAfter(v, slot) = v
         \/ \E p \in 1 .. v.count :
              Window(InsertMarkerAfter(v, slot)) = Marked(Window(v), Marker, p, Cap)
<1>1. v.count \in 0 .. Cap /\ v.head \in Slots /\ Cap \in Nat
  BY CapAssumption DEF Viewer
<1>2. CASE v.count = 0
  BY <1>2 DEF InsertMarkerAfter
<1>3. CASE v.count # 0
  <2>1. PICK p : p = LineAt(v, slot) + 1
    OBVIOUS
  <2>2. LineAt(v, slot) \in 0 .. v.count - 1
    <3>1. Logical(v.head, slot) \in 0 .. Cap - 1
      BY <1>1, LogicalValue
    <3> QED  BY <1>1, <1>3, <3>1 DEF LineAt
  <2>3. p \in 1 .. v.count /\ p - 1 \in 0 .. Cap - 1 /\ p - 1 \in 0 .. Cap /\ LineAt(v, slot) = p - 1
    BY <1>1, <2>1, <2>2
  <2>4. PICK s : s = SlotAt(v.head, p - 1)
    OBVIOUS
  <2>5. s \in Slots /\ Logical(v.head, s) = p - 1
    BY <1>1, <2>3, <2>4, SlotAtValue, SlotInverse
  <2>6. LineAt(v, s) = p - 1
    BY <1>1, <2>3, <2>5 DEF LineAt
  <2>7. InsertMarkerAfter(v, slot) = InsertMarkerAfter(v, s)
    BY <2>3, <2>5, <2>6 DEF InsertMarkerAfter
  <2> QED  BY <2>3, <2>4, <2>7, InsertWindow
<1> QED  BY <1>2, <1>3

\* Filters, pause and scrolling leave the lines alone.
LEMMA ControlWindow ==
  ASSUME NEW v \in Viewer, NEW level \in Levels, NEW filter \in Filters, NEW delta \in Nat,
         NEW w \in {SetLevelFilter(v, level), SetFilter(v, filter), TogglePause(v),
                    ScrollUp(v, delta), ScrollDown(v, delta), ScrollToBottom(v),
                    [v EXCEPT !.is_dirty = FALSE]}
  PROVE  Window(w) = Window(v)
<1>1. w.lines = v.lines /\ w.head = v.head /\ w.count = v.count
  BY DEF Viewer, SetLevelFilter, SetFilter, TogglePause, ScrollUp, ScrollDown, ScrollToBottom
<1> QED  BY <1>1 DEF Window

\* An emptied ring shows nothing.
LEMMA EmptyWindow ==
  ASSUME NEW v, v.count = 0
  PROVE  Window(v) = << >> /\ OfStream(Window(v), 0)
<1>1. Window(v) = << >>
  BY DEF Window
<1>2. AppPlaces(<< >>) = {}
  BY DEF AppPlaces
<1> QED  BY <1>1, <1>2 DEF OfStream, Newest, Rising

\* The six things a step of LogRing can do to the window and to the count of
\* received lines.
LEMMA StepWindow ==
  ASSUME TypeOK, [Next]_vars
  PROVE  \/ \E t \in Texts : /\ Window(lv') = Kept(Window(lv), AppLine(t, arrived + 1))
                             /\ arrived' = arrived + 1
         \/ Window(lv') = Kept(Window(lv), Marker) /\ arrived' = arrived
         \/ \E p \in 1 .. lv.count : /\ Window(lv') = Marked(Window(lv), Marker, p, Cap)
                                     /\ arrived' = arrived
         \/ Window(lv') = Window(ClearMarkers(lv)) /\ arrived' = arrived
         \/ lv'.count = 0 /\ arrived' = 0
         \/ Window(lv') = Window(lv) /\ arrived' = arrived
<1>1. lv \in Viewer /\ arrived \in Nat
  BY DEF TypeOK
<1>2. CASE Receive
  <2>1. PICK t \in Texts : /\ lv' = AppendLine(lv, t, arrived + 1)
                           /\ arrived' = IF t.blank THEN arrived ELSE arrived + 1
    BY <1>2 DEF Receive
  <2>2. t \in Text /\ t.blank \in BOOLEAN /\ arrived + 1 \in Nat
    BY <1>1, LogRingAssumption DEF Text
  <2>3. Window(lv') = IF t.blank THEN Window(lv) ELSE Kept(Window(lv), AppLine(t, arrived + 1))
    BY <1>1, <2>1, <2>2, AppendWindow
  <2> QED  BY <2>1, <2>2, <2>3
<1>3. CASE DropMarker
  BY <1>1, <1>3, AddMarkerWindow DEF DropMarker, Call
<1>4. CASE MarkAfter
  <2>1. PICK slot \in Slots : lv' = InsertMarkerAfter(lv, slot) /\ arrived' = arrived
    BY <1>4 DEF MarkAfter, Call
  <2> QED  BY <1>1, <2>1, InsertAnywhere
<1>5. CASE DropMarkers
  BY <1>5 DEF DropMarkers, Call
<1>6. CASE Pause \/ PickLevel \/ PickFilter \/ Up \/ Down \/ Bottom \/ Refresh
  <2>1. /\ 0 \in Levels /\ 0 \in Filters /\ 0 \in Nat
        /\ lv.count \in Nat /\ Deltas \subseteq Nat
    BY FilterCapAssumption, LogRingAssumption, CapAssumption
       DEF Levels, Filters, TypeOK, Viewer
  <2>2. PICK level \in Levels, filter \in Filters, delta \in Nat :
          lv' \in {SetLevelFilter(lv, level), SetFilter(lv, filter), TogglePause(lv),
                   ScrollUp(lv, delta), ScrollDown(lv, delta), ScrollToBottom(lv),
                   [lv EXCEPT !.is_dirty = FALSE]}
    BY <1>6, <2>1 DEF Pause, PickLevel, PickFilter, Up, Down, Bottom, Refresh, Call
  <2>3. arrived' = arrived
    BY <1>6 DEF Pause, PickLevel, PickFilter, Up, Down, Bottom, Refresh, Call
  <2> QED  BY <1>1, <2>2, <2>3, ControlWindow
<1>7. CASE SwitchStart
  BY <1>1, <1>7 DEF SwitchStart, Reset, Viewer
<1>8. CASE SwitchEnd \/ UNCHANGED vars
  BY <1>8 DEF SwitchEnd, vars
<1> QED
  BY <1>2, <1>3, <1>4, <1>5, <1>6, <1>7, <1>8 DEF Next

\* The inductive invariant behind NewestKept.
StreamInv == OfStream(Window(lv), arrived)

LEMMA StreamStep == TypeOK /\ TypeOK' /\ StreamInv /\ [Next]_vars => StreamInv'
<1> SUFFICES ASSUME TypeOK, TypeOK', StreamInv, [Next]_vars PROVE OfStream(Window(lv'), arrived')
  BY DEF StreamInv
<1>1. PICK q : q = Window(lv)
  OBVIOUS
<1>2. PICK r : r = Window(lv')
  OBVIOUS
<1>3. /\ lv \in Viewer /\ arrived \in Nat /\ lv' \in Viewer
      /\ q \in Seq(LogLine) /\ Len(q) = lv.count /\ r \in Seq(LogLine)
      /\ lv.count \in Nat
  BY <1>1, <1>2, WindowType DEF TypeOK
<1>4. OfStream(q, arrived)
  BY <1>1 DEF StreamInv
<1>5. ASSUME NEW t \in Texts, r = Kept(q, AppLine(t, arrived + 1)), arrived' = arrived + 1
      PROVE  OfStream(r, arrived')
  <2>1. PICK line : line = AppLine(t, arrived + 1)
    OBVIOUS
  <2>2. line \in LogLine /\ arrived + 1 \in Nat
    BY <1>3, <2>1, LineTypes, LogRingAssumption
  <2>3. IsAppLine(line) /\ line.arrival = arrived + 1
    BY <2>1 DEF AppLine, IsAppLine
  <2> QED  BY <1>3, <1>4, <1>5, <2>1, <2>2, <2>3, KeptOfStream
<1>6. ASSUME r = Kept(q, Marker) /\ arrived' = arrived PROVE OfStream(r, arrived')
  BY <1>3, <1>4, <1>6, KeptOfStream, LineTypes
<1>7. ASSUME NEW p \in 1 .. lv.count, r = Marked(q, Marker, p, Cap), arrived' = arrived
      PROVE  OfStream(r, arrived')
  BY <1>3, <1>4, <1>7, MarkedOfStream
<1>8. ASSUME r = Window(ClearMarkers(lv)) /\ arrived' = arrived PROVE OfStream(r, arrived')
  <2>1. PICK stay : stay = AppPlaces(q)
    OBVIOUS
  <2>2. PICK from : /\ ListsAll(from, Cardinality(stay), stay)
                    /\ r = [i \in 1 .. Cardinality(stay) |-> q[from[i]]]
    <3>1. stay = AppPlaces(Window(lv))
      BY <1>1, <2>1
    <3>2. \E from : /\ ListsAll(from, Cardinality(stay), stay)
                    /\ Window(ClearMarkers(lv)) =
                         [i \in 1 .. Cardinality(stay) |-> Window(lv)[from[i]]]
      BY <1>3, <3>1, ClearWindow
    <3> QED  BY <1>1, <1>8, <3>2
  <2>4. Cardinality(stay) \in Nat
    <3>1. stay = AppPlaces(Window(lv))
      BY <1>1, <2>1
    <3> QED  BY <1>3, <3>1, ClearWindow, FS_CardinalityType
  <2> QED  BY <1>3, <1>4, <1>8, <2>1, <2>2, <2>4, PickedOfStream
<1>9. ASSUME lv'.count = 0, arrived' = 0 PROVE OfStream(r, arrived')
  BY <1>2, <1>9, EmptyWindow
<1>10. ASSUME r = q, arrived' = arrived PROVE OfStream(r, arrived')
  BY <1>4, <1>10
<1> QED
  BY <1>1, <1>2, <1>5, <1>6, <1>7, <1>8, <1>9, <1>10, StepWindow

LEMMA StreamInit == Init => StreamInv
<1> SUFFICES ASSUME Init PROVE StreamInv
  OBVIOUS
<1>1. lv.count = 0 /\ arrived = 0
  BY DEF Init, ViewerInit
<1> QED  BY <1>1, EmptyWindow DEF StreamInv

\* Always the newest lines, in the order received, with no gap, whatever the size
\* of the ring and wherever markers were placed, cleared or pushed out
\* (log_viewer_append overwrites the oldest, the marker calls shift the rest).
THEOREM NewestLinesKept == Spec => []NewestKept
<1>1. StreamInv => NewestKept
  BY DEF StreamInv, OfStream, Newest, AppPlaces, NewestKept
<1> QED  BY <1>1, StreamInit, StreamStep, TypeCorrect, PTL DEF Spec

-----------------------------------------------------------------------------
(* The ring implements the window of LogWindow. *)

\* The line pushed last is the newest one kept: there is room for at least one.
LEMMA KeptLast ==
  ASSUME NEW q \in Seq(LogLine), NEW line \in LogLine
  PROVE  /\ Kept(q, line) # << >>
         /\ Kept(q, line)[Len(Kept(q, line))] = line
<1>1. PICK s : s = Append(q, line)
  OBVIOUS
<1>2. PICK z : z = Len(s)
  OBVIOUS
<1>3. s \in Seq(LogLine) /\ z \in Nat /\ z >= 1 /\ s[z] = line
  BY <1>1, <1>2, AppendProperties, LenProperties
<1>4. s # << >>
  BY <1>2, <1>3, EmptySeq
<1>5. CASE z > Cap
  <2>1. PICK t : t = Tail(s)
    OBVIOUS
  <2>2. t \in Seq(LogLine) /\ Len(t) = z - 1 /\ \A i \in 1 .. Len(t) : t[i] = s[i + 1]
    BY <1>2, <1>3, <1>4, <2>1, HeadTailProperties
  <2>3. z - 1 \in 1 .. z - 1 /\ (z - 1) + 1 = z
    BY <1>3, <1>5, CapAssumption
  <2>4. t[z - 1] = line
    BY <1>3, <2>2, <2>3
  <2>5. t # << >>
    BY <2>2, <2>3, EmptySeq
  <2>6. Kept(q, line) = t
    BY <1>1, <1>2, <1>5, <2>1 DEF Kept
  <2> QED  BY <2>2, <2>4, <2>5, <2>6
<1>6. CASE ~(z > Cap)
  <2>1. Kept(q, line) = s
    BY <1>1, <1>2, <1>6 DEF Kept
  <2> QED  BY <1>2, <1>3, <1>4, <2>1
<1> QED  BY <1>5, <1>6

\* A step of LogRing is a step of the window: a received line is new because no
\* line in the ring has its arrival.
LEMMA WindowNext ==
  TypeOK /\ TypeOK' /\ StreamInv /\ [Next]_vars => [Promise!Next]_(Window(lv))
<1> SUFFICES ASSUME TypeOK, TypeOK', StreamInv, [Next]_vars
             PROVE  Promise!Next \/ Window(lv') = Window(lv)
  OBVIOUS
<1>1. PICK q : q = Window(lv)
  OBVIOUS
<1>2. PICK r : r = Window(lv')
  OBVIOUS
<1>3. /\ lv \in Viewer /\ arrived \in Nat /\ lv' \in Viewer
      /\ q \in Seq(LogLine) /\ Len(q) = lv.count /\ r \in Seq(LogLine)
      /\ lv.count \in Nat /\ lv.count <= Cap
      /\ DOMAIN q = 1 .. lv.count
  BY <1>1, <1>2, WindowType, LenProperties DEF TypeOK
<1>4. OfStream(q, arrived)
  BY <1>1 DEF StreamInv
<1>5. ASSUME NEW line \in LogLine, r = Kept(q, line),
             line = Marker \/ line \notin {q[i] : i \in DOMAIN q}
      PROVE  Promise!Receive
  <2>1. r # << >> /\ r[Len(r)] = line
    BY <1>3, <1>5, KeptLast
  <2>2. r = Promise!Keep(Append(q, line))
    BY <1>5 DEF Kept, Promise!Keep
  <2> QED
    BY <1>1, <1>2, <1>5, <2>1, <2>2 DEF Promise!Receive, Promise!Last, Promise!ToSet
<1>6. ASSUME NEW t \in Texts, r = Kept(q, AppLine(t, arrived + 1))
      PROVE  Promise!Next
  <2>1. PICK line : line = AppLine(t, arrived + 1)
    OBVIOUS
  <2>2. line \in LogLine /\ IsAppLine(line) /\ line.arrival = arrived + 1
    <3>1. line \in LogLine
      BY <1>3, <2>1, LineTypes, LogRingAssumption
    <3> QED  BY <2>1, <3>1 DEF AppLine, IsAppLine
  <2>3. ASSUME NEW i \in DOMAIN q, q[i] = line PROVE FALSE
    <3>1. i \in AppPlaces(q)
      BY <2>2, <2>3 DEF AppPlaces
    <3>2. q[i].arrival \in 1 .. arrived
      BY <1>4, <3>1 DEF OfStream, Rising
    <3> QED  BY <1>3, <2>2, <2>3, <3>2
  <2>4. Promise!Receive
    BY <1>5, <1>6, <2>1, <2>2, <2>3
  <2> QED  BY <2>4 DEF Promise!Next
<1>7. ASSUME r = Kept(q, Marker) PROVE Promise!Next
  BY <1>5, <1>7, LineTypes DEF Promise!Next
<1>8. ASSUME NEW p \in 1 .. lv.count, r = Marked(q, Marker, p, Cap)
      PROVE  Promise!Next
  <2>1. Promise!MarkedBehind(p) = Inserted(q, Marker, p, Cap)
    <3>1. p + 1 - 1 = p
      BY <1>3
    <3> QED  BY <1>1, <3>1 DEF Promise!MarkedBehind, Promise!Keep, Promise!InsertAt, Inserted
  <2>2. Inserted(q, Marker, p, Cap) = Marked(q, Marker, p, Cap)
    BY <1>3, CapAssumption, LineTypes, InsertedIsMarked
  <2>3. p \in DOMAIN q /\ r = Promise!MarkedBehind(p)
    BY <1>3, <1>8, <2>1, <2>2
  <2> QED  BY <1>1, <1>2, <2>3 DEF Promise!Next, Promise!Mark
<1>9. ASSUME r = Window(ClearMarkers(lv)) PROVE Promise!Next
  <2>1. PICK stay : stay = AppPlaces(q)
    OBVIOUS
  <2>2. PICK from : /\ ListsAll(from, Cardinality(stay), stay)
                    /\ r = [i \in 1 .. Cardinality(stay) |-> q[from[i]]]
    <3>1. stay = AppPlaces(Window(lv))
      BY <1>1, <2>1
    <3>2. \E from : /\ ListsAll(from, Cardinality(stay), stay)
                    /\ Window(ClearMarkers(lv)) =
                         [i \in 1 .. Cardinality(stay) |-> Window(lv)[from[i]]]
      BY <1>3, <3>1, ClearWindow
    <3> QED  BY <1>1, <1>9, <3>2
  <2>3. stay = {p \in DOMAIN q : q[p] # Marker}
    <3>1. \A p \in DOMAIN q : q[p] \in LogLine
      BY <1>3, ElementOfSeq
    <3>2. \A p \in DOMAIN q : IsAppLine(q[p]) <=> q[p] # Marker
      BY <3>1 DEF IsAppLine, LogLine, Marker, ZeroLine
    <3> QED  BY <2>1, <3>2 DEF AppPlaces
  <2>4. /\ from \in [1 .. Cardinality(stay) -> stay]
        /\ \A i, j \in DOMAIN from : i < j => from[i] < from[j]
        /\ r = [i \in DOMAIN from |-> q[from[i]]]
    BY <2>2 DEF ListsAll, Lists
  <2>5. Promise!ClearMarks
    <3>1. \E f \in [1 .. Cardinality(stay) -> stay] :
            /\ \A i, j \in DOMAIN f : i < j => f[i] < f[j]
            /\ Window(lv') = [i \in DOMAIN f |-> Window(lv)[f[i]]]
      BY <1>1, <1>2, <2>4
    <3>2. stay = {p \in DOMAIN Window(lv) : Window(lv)[p] # Marker}
      BY <1>1, <2>3
    <3>3. LET still == {p \in DOMAIN Window(lv) : Window(lv)[p] # Marker}
          IN \E f \in [1 .. Cardinality(still) -> still] :
               /\ \A i, j \in DOMAIN f : i < j => f[i] < f[j]
               /\ Window(lv') = [i \in DOMAIN f |-> Window(lv)[f[i]]]
      BY <3>1, <3>2
    <3> QED  BY <3>3 DEF Promise!ClearMarks, Promise!Cardinality, Cardinality
  <2> QED  BY <2>5 DEF Promise!Next
<1>10. ASSUME lv'.count = 0 PROVE Promise!Next
  <2>1. Window(lv') = << >>
    BY <1>10, EmptyWindow
  <2> QED  BY <2>1 DEF Promise!Next, Promise!Switch
<1> QED
  BY <1>1, <1>2, <1>6, <1>7, <1>8, <1>9, <1>10, StepWindow

\* Every call, and every line received, changes the live lines as the window it
\* stands for: the ring of log_viewer.c implements LogWindow.
THEOREM RingImplementsWindow == Spec => ImplementsWindow
<1>1. Init => Promise!Init
  <2> SUFFICES ASSUME Init PROVE Window(lv) = << >>
    BY DEF Promise!Init
  <2>1. lv.count = 0
    BY DEF Init, ViewerInit
  <2> QED  BY <2>1, EmptyWindow
<1> QED
  BY <1>1, WindowNext, StreamInit, StreamStep, TypeCorrect, PTL
     DEF Spec, ImplementsWindow, Promise!Spec

-----------------------------------------------------------------------------
(* What `c` copies. *)

\* InOrder is the list of any bounded set of natural numbers.
LEMMA InOrderListsAll ==
  ASSUME NEW b \in Nat, NEW S \in SUBSET (0 .. b)
  PROVE  /\ IsFiniteSet(S) /\ Cardinality(S) \in Nat
         /\ ListsAll(InOrder(S), Cardinality(S), S)
<1>1. IsFiniteSet(S) /\ Cardinality(S) \in Nat
  <2>1. IsFiniteSet(0 .. b)
    BY FS_Interval, 0 \in Int, b \in Int
  <2> QED  BY <2>1, FS_Subset, FS_CardinalityType
<1>2. \E q : Lists(q, Cardinality(S), S)
  BY <1>1, ListExists
<1>3. \E q \in [1 .. Cardinality(S) -> S] :
        \A i, j \in 1 .. Cardinality(S) : i < j => q[i] < q[j]
  BY <1>2 DEF Lists
<1>4. Lists(InOrder(S), Cardinality(S), S)
  BY <1>3 DEF InOrder, Lists
<1>5. S \in SUBSET Int
  OBVIOUS
<1> QED  BY <1>1, <1>4, <1>5, ListOnto

UpTo(S, i) == {x \in S : x <= i}

\* How many members are not above i: c of them, when i lies between the c-th and
\* the next.
LEMMA CountUpTo ==
  ASSUME NEW S \in SUBSET Int, NEW n \in Nat, NEW g, ListsAll(g, n, S),
         NEW i \in Int, NEW c \in 1 .. n
  PROVE  Cardinality(UpTo(S, i)) = c <=> g[c] <= i /\ (c < n => i < g[c + 1])
<1> USE DEF UpTo
<1>1. /\ g \in [1 .. n -> S] /\ \A k, l \in 1 .. n : k < l => g[k] < g[l]
      /\ \A x \in S : \E k \in 1 .. n : g[k] = x
  BY DEF ListsAll, Lists
<1>2. \A k \in 1 .. n : g[k] \in Int
  BY <1>1
<1> DEFINE Early == {k \in 1 .. n : g[k] <= i}
           Below == UpTo(S, i)
<1>3. PICK d \in 0 .. n : \A k \in 1 .. n : k \in Early <=> k <= d
  <2>1. CASE Early = {}
    <3>1. \A k \in 1 .. n : ~(k <= 0)
      OBVIOUS
    <3>2. 0 \in 0 .. n
      OBVIOUS
    <3> QED  BY <2>1, <3>1, <3>2
  <2>2. CASE Early # {}
    <3>1. Early \in SUBSET (0 .. n)
      OBVIOUS
    <3>2. PICK d \in Early : \A k \in Early : k <= d
      BY <2>2, <3>1, PositionMax
    <3>3. d \in 1 .. n /\ g[d] <= i
      BY <3>2
    <3>4. ASSUME NEW k \in 1 .. n, k <= d PROVE k \in Early
      <4>1. k = d \/ k < d
        BY <3>3, <3>4
      <4>2. g[k] <= g[d] /\ g[k] \in Int /\ g[d] \in Int
        BY <1>1, <1>2, <3>3, <4>1
      <4> QED  BY <3>3, <4>2
    <3>5. \A k \in 1 .. n : k \in Early <=> k <= d
      BY <3>2, <3>4
    <3>6. d \in 0 .. n
      BY <3>3
    <3> HIDE DEF Early
    <3> QED  BY <3>5, <3>6
  <2> QED  BY <2>1, <2>2
<1>4. \A k \in 1 .. n : g[k] <= i <=> k <= d
  BY <1>3
<1>5. ListsAll(g, n, S) /\ d \in Nat /\ d <= n
  BY <1>3
<1>6. PICK h : h = [k \in 1 .. d |-> g[k]]
  OBVIOUS
<1>7. ListsAll(h, d, Below)
  <2>1. h \in [1 .. d -> Below]
    BY <1>1, <1>4, <1>5, <1>6
  <2>2. \A k, l \in 1 .. d : k < l => h[k] < h[l]
    BY <1>1, <1>5, <1>6
  <2>3. ASSUME NEW x \in Below PROVE \E k \in 1 .. d : h[k] = x
    <3>1. PICK k \in 1 .. n : g[k] = x
      BY <1>1
    <3>2. k \in 1 .. d
      BY <1>4, <1>5, <3>1
    <3> QED  BY <1>6, <3>1, <3>2
  <2> QED  BY <2>1, <2>2, <2>3 DEF ListsAll, Lists
<1>8. Cardinality(Below) = d
  <2>1. Below \in SUBSET Int
    OBVIOUS
  <2> HIDE DEF Below
  <2> QED  BY <1>5, <1>7, <2>1, ListCount
<1>9. d = c <=> g[c] <= i /\ (c < n => i < g[c + 1])
  <2>1. g[c] <= i <=> c <= d
    BY <1>4
  <2>2. c < n => (i < g[c + 1] <=> ~(c + 1 <= d))
    <3> SUFFICES ASSUME c < n PROVE i < g[c + 1] <=> ~(c + 1 <= d)
      OBVIOUS
    <3>1. c + 1 \in 1 .. n
      OBVIOUS
    <3>2. g[c + 1] \in Int /\ (g[c + 1] <= i <=> c + 1 <= d)
      BY <1>2, <1>4, <3>1
    <3> QED  BY <3>2
  <2> QED  BY <1>5, <2>1, <2>2
<1> QED  BY <1>8, <1>9

\* The places of the lines that pass the filters of a viewer.
Passing(v) == {i \in 1 .. v.count : Passes(Window(v)[i], v.level_filter, v.search_filter)}

\* A fresh scan is a list of the places that pass the filters, and the cache
\* leads to their lines.
LEMMA MatchingList ==
  ASSUME NEW v \in Viewer, NEW H, H = Passing(v)
  PROVE  \E n \in Nat : \E L :
           /\ ListsAll(L, n, H)
           /\ Matching(v) \in Seq(Slots) /\ DOMAIN Matching(v) = 1 .. n /\ Len(Matching(v)) = n
           /\ \A k \in 1 .. n : v.lines[Matching(v)[k]] = Window(v)[L[k]]
<1> DEFINE hits == {i \in 0 .. v.count - 1 :
                     Passes(v.lines[SlotAt(v.head, i)], v.level_filter, v.search_filter)}
           n    == Cardinality(hits)
           L    == [k \in 1 .. n |-> InOrder(hits)[k] + 1]
<1> USE DEF Passing
<1>1. v.count \in Nat /\ \A p \in 1 .. v.count : Window(v)[p] = v.lines[SlotAt(v.head, p - 1)]
  BY WindowType
<1>2. hits \in SUBSET (0 .. v.count)
  BY <1>1
<1>3. n \in Nat /\ ListsAll(InOrder(hits), n, hits)
  BY <1>1, <1>2, InOrderListsAll
<1>4. Matching(v) = [k \in 1 .. n |-> SlotAt(v.head, InOrder(hits)[k])]
  BY DEF Matching, MatchingSlots
<1>5. \A i \in Int : i \in hits <=> i + 1 \in H
  <2> TAKE i \in Int
  <2>1. i \in 0 .. v.count - 1 <=> i + 1 \in 1 .. v.count
    BY <1>1
  <2>2. (i + 1) - 1 = i
    OBVIOUS
  <2>3. i + 1 \in 1 .. v.count => Window(v)[i + 1] = v.lines[SlotAt(v.head, i)]
    BY <1>1, <2>2
  <2> QED  BY <2>1, <2>3
<1>6. /\ InOrder(hits) \in [1 .. n -> hits]
      /\ \A i, j \in 1 .. n : i < j => InOrder(hits)[i] < InOrder(hits)[j]
      /\ \A x \in hits : \E k \in 1 .. n : InOrder(hits)[k] = x
  BY <1>3 DEF ListsAll, Lists
<1>7. \A x \in hits : x \in Int
  BY <1>2
<1>8. H \in SUBSET Int
  OBVIOUS
<1> HIDE DEF hits, n
<1>9. \A k \in 1 .. n : InOrder(hits)[k] \in Int /\ L[k] = InOrder(hits)[k] + 1 /\ L[k] \in H
  BY <1>5, <1>6, <1>7
<1>10. ListsAll(L, n, H)
  <2>1. L \in [1 .. n -> H]
    BY <1>9
  <2>2. \A i, j \in 1 .. n : i < j => L[i] < L[j]
    BY <1>6, <1>9
  <2>3. ASSUME NEW x \in H PROVE \E k \in 1 .. n : L[k] = x
    <3>1. x \in Int /\ x - 1 \in Int /\ (x - 1) + 1 = x
      BY <1>8
    <3>2. x - 1 \in hits
      BY <1>5, <3>1
    <3>3. PICK k \in 1 .. n : InOrder(hits)[k] = x - 1
      BY <1>6, <3>2
    <3> QED  BY <1>9, <3>1, <3>3
  <2> HIDE DEF L
  <2> QED  BY <2>1, <2>2, <2>3 DEF ListsAll, Lists
<1>11. ASSUME NEW k \in 1 .. n PROVE v.lines[Matching(v)[k]] = Window(v)[L[k]]
  <2>1. L[k] \in 1 .. v.count /\ L[k] - 1 = InOrder(hits)[k]
    BY <1>9
  <2>2. Window(v)[L[k]] = v.lines[SlotAt(v.head, InOrder(hits)[k])]
    BY <1>1, <2>1
  <2>3. Matching(v)[k] = SlotAt(v.head, InOrder(hits)[k])
    BY <1>4
  <2> QED  BY <2>2, <2>3
<1>12. Matching(v) \in Seq(Slots) /\ DOMAIN Matching(v) = 1 .. n /\ Len(Matching(v)) = n
  <2>1. Matching(v) \in Seq(Slots)
    BY MatchingType
  <2>2. DOMAIN Matching(v) = 1 .. n
    BY <1>4
  <2> QED  BY <1>3, <2>1, <2>2, LenProperties
<1> HIDE DEF L
<1> QED  BY <1>3, <1>10, <1>11, <1>12

MarkerPlaces(q) == {i \in DOMAIN q : q[i].is_marker}

\* The places of the lines that pass and have c markers before them.
Asked(q, c, level, filter) ==
  {i \in DOMAIN q : /\ IsAppLine(q[i])
                    /\ Passes(q[i], level, filter)
                    /\ Cardinality(UpTo(MarkerPlaces(q), i)) = c}

\* What `c` copies of a viewer with a marker and a fresh cache: the lines that
\* pass, behind the only marker or between the last two.
LEMMA CopyOfFresh ==
  ASSUME NEW v \in Viewer, NEW N \in Nat, Rising(Window(v), N),
         NEW q, q = Window(v),
         NEW M, M = MarkerPlaces(q), Cardinality(M) > 0,
         NEW c, c = IF Cardinality(M) = 1 THEN 1 ELSE Cardinality(M) - 1,
         NEW asked, asked = Asked(q, c, v.level_filter, v.search_filter),
         NEW m, m = Matching(v)
  PROVE  Copied(v, m, -1) = InOrder({q[i].arrival : i \in asked})
<1>1. /\ v.count \in Nat /\ q \in Seq(LogLine) /\ DOMAIN q = 1 .. v.count
      /\ \A i \in 1 .. v.count : q[i] \in LogLine /\ q[i].is_marker \in BOOLEAN
  <2>1. v.count \in Nat /\ q \in Seq(LogLine) /\ DOMAIN q = 1 .. v.count
    BY WindowType, LenProperties
  <2>2. \A i \in 1 .. v.count : q[i] \in LogLine
    BY <2>1, ElementOfSeq, LenProperties
  <2> QED  BY <2>1, <2>2 DEF LogLine, AnyLine
<1>0. M = {i \in 1 .. v.count : q[i].is_marker}
  BY <1>1 DEF MarkerPlaces
<1>a. asked = {i \in 1 .. v.count : /\ IsAppLine(q[i])
                                    /\ Passes(q[i], v.level_filter, v.search_filter)
                                    /\ Cardinality(UpTo(M, i)) = c}
  BY <1>1 DEF Asked
<1>b. PICK H : H = Passing(v)
  OBVIOUS
<1>2. H = {i \in 1 .. v.count : Passes(q[i], v.level_filter, v.search_filter)}
  BY <1>b DEF Passing
<1>3. PICK z \in Nat : \E L :
        /\ ListsAll(L, z, H)
        /\ m \in Seq(Slots) /\ DOMAIN m = 1 .. z /\ Len(m) = z
        /\ \A k \in 1 .. z : v.lines[m[k]] = q[L[k]]
  BY <1>b, MatchingList
<1>4. PICK L : /\ ListsAll(L, z, H)
               /\ m \in Seq(Slots) /\ DOMAIN m = 1 .. z /\ Len(m) = z
               /\ \A k \in 1 .. z : v.lines[m[k]] = q[L[k]]
  BY <1>3
<1>5. /\ L \in [1 .. z -> H]
      /\ \A k, l \in 1 .. z : k < l => L[k] < L[l]
      /\ \A x \in H : \E k \in 1 .. z : L[k] = x
  BY <1>4 DEF ListsAll, Lists
<1>6. \A k \in 1 .. z : L[k] \in Int /\ L[k] \in 1 .. v.count
  BY <1>2, <1>5
<1>7. ASSUME NEW k \in 1 .. z, NEW l \in 1 .. z PROVE k < l <=> L[k] < L[l]
  <2>1. L[k] \in Int /\ L[l] \in Int
    BY <1>6
  <2>2. k < l \/ k = l \/ l < k
    OBVIOUS
  <2>3. CASE k = l
    BY <2>1, <2>3
  <2>4. CASE k < l
    BY <1>5, <2>4
  <2>5. CASE l < k
    <3>1. L[l] < L[k]
      BY <1>5, <2>5
    <3> QED  BY <2>1, <2>5, <3>1
  <2> QED  BY <2>2, <2>3, <2>4, <2>5
\* The markers of the cache.
<1>8. PICK K : K = {k \in DOMAIN m : v.lines[m[k]].is_marker}
  OBVIOUS
<1>9. PICK n : n = Cardinality(K)
  OBVIOUS
<1>10. PICK marks : marks = InOrder(K)
  OBVIOUS
<1>11. n \in Nat /\ ListsAll(marks, n, K)
  <2>1. K \in SUBSET (0 .. z)
    BY <1>4, <1>8
  <2> QED  BY <1>9, <1>10, <2>1, InOrderListsAll
<1>12. /\ marks \in [1 .. n -> K] /\ Len(marks) = n
       /\ \A j, l \in 1 .. n : j < l => marks[j] < marks[l]
       /\ \A x \in K : \E j \in 1 .. n : marks[j] = x
       /\ \A j \in 1 .. n : marks[j] \in 1 .. z
  <2>1. marks \in [1 .. n -> K] /\ n \in Nat
    BY <1>11 DEF ListsAll, Lists
  <2>2. \A j \in 1 .. n : marks[j] \in 1 .. z
    BY <1>4, <1>8, <2>1
  <2>3. Len(marks) = n
    BY <2>1
  <2> QED  BY <1>11, <2>1, <2>2, <2>3 DEF ListsAll, Lists
<1>13. PICK g : g = [j \in 1 .. n |-> L[marks[j]]]
  OBVIOUS
<1>14. ListsAll(g, n, M)
  <2>1. ASSUME NEW j \in 1 .. n PROVE g[j] \in M
    <3>1. marks[j] \in 1 .. z /\ v.lines[m[marks[j]]].is_marker
      BY <1>8, <1>12
    <3>2. q[L[marks[j]]].is_marker /\ L[marks[j]] \in 1 .. v.count
      BY <1>4, <1>6, <3>1
    <3> QED  BY <1>0, <1>13, <3>2
  <2>2. ASSUME NEW j \in 1 .. n, NEW l \in 1 .. n, j < l PROVE g[j] < g[l]
    BY <1>5, <1>12, <1>13, <2>2
  <2>3. ASSUME NEW x \in M PROVE \E j \in 1 .. n : g[j] = x
    <3>1. x \in H
      BY <1>0, <1>2 DEF Passes
    <3>2. PICK k \in 1 .. z : L[k] = x
      BY <1>5, <3>1
    <3>3. k \in K
      BY <1>0, <1>4, <1>8, <3>2
    <3>4. PICK j \in 1 .. n : marks[j] = k
      BY <1>12, <3>3
    <3> QED  BY <1>13, <3>2, <3>4
  <2>4. g \in [1 .. n -> M]
    BY <1>13, <2>1
  <2> QED  BY <2>2, <2>3, <2>4 DEF ListsAll, Lists
<1>15. M \in SUBSET Int
  BY <1>0
<1>16. Cardinality(M) = n /\ n >= 1 /\ c \in 1 .. n /\ (n = 1 => c = 1) /\ (n > 1 => c = n - 1)
  <2>1. Cardinality(M) = n
    BY <1>11, <1>14, <1>15, ListCount
  <2> QED  BY <1>11, <2>1
\* The places copied from.
<1>17. PICK places :
         places = CASE n = 0 -> {-1 + 1} \cap DOMAIN m
                    [] n = 1 -> marks[1] + 1 .. Len(m)
                    [] n > 1 -> marks[n - 1] + 1 .. marks[n] - 1
  OBVIOUS
<1>18. Copied(v, m, -1) = AppLinesAt(v, m, places)
  BY <1>8, <1>10, <1>12, <1>17 DEF Copied
<1>19. ASSUME NEW k
       PROVE  k \in places <=> /\ k \in 1 .. z /\ marks[c] < k
                               /\ c < n => k < marks[c + 1]
  <2>1. marks[c] \in 1 .. z
    BY <1>12, <1>16
  <2>2. CASE n = 1
    <3>1. places = marks[1] + 1 .. z
      BY <1>4, <1>17, <2>2
    <3> QED  BY <1>16, <2>1, <2>2, <3>1
  <2>3. CASE n > 1
    <3>1. ~(n = 0) /\ ~(n = 1)
      BY <1>11, <2>3
    <3>2. places = marks[n - 1] + 1 .. marks[n] - 1
      BY <1>17, <2>3, <3>1
    <3>3. c = n - 1 /\ c + 1 = n /\ c < n /\ marks[n] \in 1 .. z
      BY <1>11, <1>12, <1>16, <2>3
    <3>4. places = marks[c] + 1 .. marks[c + 1] - 1
      BY <3>2, <3>3
    <3>5. marks[c] \in 1 .. z /\ marks[c + 1] \in 1 .. z
      BY <1>12, <1>16, <3>3
    <3>6. k \in places <=> k \in Int /\ marks[c] < k /\ k < marks[c + 1]
      <4>1. PICK a, b : a = marks[c] /\ b = marks[c + 1]
        OBVIOUS
      <4>2. a \in Int /\ b \in Int /\ places = a + 1 .. b - 1
        BY <3>4, <3>5, <4>1
      <4>3. k \in a + 1 .. b - 1 <=> k \in Int /\ a < k /\ k < b
        BY <4>2
      <4> QED  BY <4>1, <4>2, <4>3
    <3>7. k \in Int /\ marks[c] < k /\ k < marks[c + 1] => k \in 1 .. z
      BY <3>5
    <3>8. k \in 1 .. z => k \in Int
      OBVIOUS
    <3> QED  BY <3>3, <3>6, <3>7, <3>8
  <2>4. n = 1 \/ n > 1
    BY <1>11, <1>16
  <2> QED  BY <2>2, <2>3, <2>4
<1>20. ASSUME NEW k \in 1 .. z, IsAppLine(q[L[k]])
       PROVE  k \in places <=> Cardinality(UpTo(M, L[k])) = c
  <2>1. ASSUME NEW j \in 1 .. n PROVE marks[j] # k /\ (marks[j] < k <=> g[j] <= L[k])
    <3>1. marks[j] \in 1 .. z /\ g[j] = L[marks[j]] /\ g[j] \in Int /\ L[k] \in Int
      BY <1>6, <1>12, <1>13
    <3>2. marks[j] # k
      <4>1. g[j] \in M
        BY <1>14 DEF ListsAll, Lists
      <4>2. SUFFICES ASSUME marks[j] = k PROVE FALSE
        OBVIOUS
      <4>3. L[k] \in M
        BY <3>1, <4>1, <4>2
      <4> QED  BY <1>0, <1>20, <4>3 DEF IsAppLine
    <3>3. k < marks[j] \/ marks[j] < k
      BY <3>1, <3>2
    <3>4. CASE marks[j] < k
      BY <1>7, <3>1, <3>4
    <3>5. CASE k < marks[j]
      <4>1. L[k] < g[j]
        BY <1>7, <3>1, <3>5
      <4> QED  BY <3>1, <3>5, <4>1
    <3> QED  BY <3>2, <3>3, <3>4, <3>5
  <2>2. c < n => (k < marks[c + 1] <=> L[k] < g[c + 1])
    <3> SUFFICES ASSUME c < n PROVE k < marks[c + 1] <=> L[k] < g[c + 1]
      OBVIOUS
    <3>1. c + 1 \in 1 .. n
      BY <1>11, <1>16
    <3>2. marks[c + 1] \in 1 .. z /\ g[c + 1] = L[marks[c + 1]]
      BY <1>12, <1>13, <3>1
    <3> QED  BY <1>7, <3>2
  <2>3. Cardinality(UpTo(M, L[k])) = c <=> g[c] <= L[k] /\ (c < n => L[k] < g[c + 1])
    <3>1. PICK i : i = L[k]
      OBVIOUS
    <3>2. i \in Int /\ n \in Nat /\ c \in 1 .. n
      BY <1>6, <1>11, <1>16, <3>1
    <3>3. Cardinality(UpTo(M, i)) = c <=> g[c] <= i /\ (c < n => i < g[c + 1])
      BY ONLY <1>14, <1>15, <3>2, CountUpTo
    <3> QED  BY <3>1, <3>3
  <2> QED  BY <1>16, <1>19, <2>1, <2>2, <2>3
\* The lines taken, in the order of the cache and in the order of arrival.
<1>21. PICK T : T = {k \in places : IsAppLine(v.lines[m[k]])}
  OBVIOUS
<1>22. PICK taken : taken = InOrder(T)
  OBVIOUS
<1>23. PICK t : t = Cardinality(T)
  OBVIOUS
<1>24. /\ t \in Nat /\ T \in SUBSET (1 .. z)
       /\ taken \in [1 .. t -> T]
       /\ \A j, l \in 1 .. t : j < l => taken[j] < taken[l]
       /\ \A x \in T : \E j \in 1 .. t : taken[j] = x
  <2>1. T \in SUBSET (1 .. z)
    BY <1>19, <1>21
  <2>2. T \in SUBSET (0 .. z)
    BY <2>1
  <2>3. t \in Nat /\ ListsAll(taken, t, T)
    BY <1>22, <1>23, <2>2, InOrderListsAll
  <2> QED  BY <2>1, <2>3 DEF ListsAll, Lists
<1>25. ASSUME NEW k \in T PROVE L[k] \in asked
  <2>1. k \in 1 .. z /\ k \in places /\ IsAppLine(q[L[k]])
    BY <1>4, <1>21, <1>24
  <2>2. L[k] \in H /\ L[k] \in 1 .. v.count
    BY <1>5, <1>6, <2>1
  <2>3. Cardinality(UpTo(M, L[k])) = c
    BY <1>20, <2>1
  <2> QED  BY <1>2, <1>a, <2>1, <2>2, <2>3
<1>26. ASSUME NEW i \in asked PROVE \E k \in T : L[k] = i
  <2>1. i \in H
    BY <1>2, <1>a
  <2>2. PICK k \in 1 .. z : L[k] = i
    BY <1>5, <2>1
  <2>3. k \in places
    BY <1>20, <1>a, <2>2
  <2> QED  BY <1>4, <1>21, <1>a, <2>2, <2>3
<1>27. PICK a : a = [j \in 1 .. t |-> q[L[taken[j]]].arrival]
  OBVIOUS
<1>28. PICK R : R = {q[i].arrival : i \in asked}
  OBVIOUS
<1>29. AppLinesAt(v, m, places) = a
  <2>1. DOMAIN taken = 1 .. t
    BY <1>24
  <2>2. \A j \in 1 .. t : v.lines[m[taken[j]]] = q[L[taken[j]]]
    BY <1>4, <1>24
  <2>3. AppLinesAt(v, m, places) = [j \in DOMAIN taken |-> v.lines[m[taken[j]]].arrival]
    BY <1>21, <1>22 DEF AppLinesAt
  <2> QED  BY <1>27, <2>1, <2>2, <2>3
<1>30. \A i \in asked : i \in AppPlaces(q) /\ q[i].arrival \in 1 .. N
  <2>1. \A i \in asked : i \in AppPlaces(q)
    BY <1>1, <1>a DEF AppPlaces
  <2> QED  BY <2>1 DEF Rising
<1>31. ListsAll(a, t, R)
  <2>1. a \in [1 .. t -> R]
    <3>1. \A j \in 1 .. t : L[taken[j]] \in asked
      BY <1>24, <1>25
    <3> QED  BY <1>27, <1>28, <3>1
  <2>2. ASSUME NEW j \in 1 .. t, NEW l \in 1 .. t, j < l PROVE a[j] < a[l]
    <3>1. taken[j] \in 1 .. z /\ taken[l] \in 1 .. z /\ taken[j] < taken[l]
      BY <1>24, <2>2
    <3>2. L[taken[j]] < L[taken[l]]
      BY <1>7, <3>1
    <3>3. L[taken[j]] \in AppPlaces(q) /\ L[taken[l]] \in AppPlaces(q)
      BY <1>24, <1>25, <1>30
    <3>4. q[L[taken[j]]].arrival < q[L[taken[l]]].arrival
      BY <3>2, <3>3 DEF Rising
    <3> QED  BY <1>27, <3>4
  <2>3. ASSUME NEW x \in R PROVE \E j \in 1 .. t : a[j] = x
    <3>1. PICK i \in asked : x = q[i].arrival
      BY <1>28
    <3>2. PICK k \in T : L[k] = i
      BY <1>26
    <3>3. PICK j \in 1 .. t : taken[j] = k
      BY <1>24
    <3> QED  BY <1>27, <3>1, <3>2, <3>3
  <2> QED  BY <2>1, <2>2, <2>3 DEF ListsAll, Lists
<1>32. R \in SUBSET (0 .. N) /\ R \in SUBSET Int
  <2>1. \A x \in R : x \in 1 .. N
    BY <1>28, <1>30
  <2> QED  BY <2>1
<1>33. Cardinality(R) = t
  BY <1>24, <1>31, <1>32, ListCount
<1>34. ListsAll(InOrder(R), t, R)
  BY <1>32, <1>33, InOrderListsAll
<1>35. a = InOrder(R)
  BY <1>24, <1>31, <1>32, <1>34, ListUnique
<1> QED  BY <1>18, <1>28, <1>29, <1>35

\* What the README says of `c` (51-54), of every ring: the lines that pass the
\* filters behind the only marker or between the last two, each once, in the
\* order of arrival.
THEOREM CopiesRight == Spec => []CopiesAsPromised
<1>1. TypeOK /\ StreamInv /\ CacheCoherent => CopiesAsPromised
  <2> SUFFICES ASSUME TypeOK, StreamInv, CacheCoherent PROVE CopiesAsPromised
    OBVIOUS
  <2>1. PICK q : q = Window(lv)
    OBVIOUS
  <2>2. lv \in Viewer /\ arrived \in Nat /\ Rising(q, arrived)
    BY <2>1 DEF TypeOK, StreamInv, OfStream
  <2>3. lv.count \in Nat /\ DOMAIN q = 1 .. lv.count
    BY <2>1, <2>2, WindowType, LenProperties
  <2>4. PICK M : M = MarkerPlaces(q)
    OBVIOUS
  <2>5. PICK c : c = IF Cardinality(M) = 1 THEN 1 ELSE Cardinality(M) - 1
    OBVIOUS
  <2>6. PICK asked : asked = Asked(q, c, lv.level_filter, lv.search_filter)
    OBVIOUS
  <2>7. ASSUME ~lv.is_dirty, Cardinality(M) > 0
        PROVE  Copied(lv, matching, -1) = InOrder({q[i].arrival : i \in asked})
    <3>1. matching = Matching(lv)
      BY <2>7 DEF CacheCoherent
    <3> QED  BY <2>1, <2>2, <2>4, <2>5, <2>6, <2>7, <3>1, CopyOfFresh
  <2>8. ASSUME NEW i \in DOMAIN q PROVE {j \in 1 .. i : q[j].is_marker} = UpTo(M, i)
    BY <2>3, <2>4 DEF MarkerPlaces, UpTo
  <2>9. {i \in DOMAIN q : q[i].is_marker} = M
    BY <2>4 DEF MarkerPlaces
  <2>10. asked = {i \in DOMAIN q :
                    /\ IsAppLine(q[i])
                    /\ Passes(q[i], lv.level_filter, lv.search_filter)
                    /\ Cardinality({j \in 1 .. i : q[j].is_marker}) = c}
    BY <2>4, <2>6, <2>8 DEF Asked
  <2> QED  BY <2>1, <2>4, <2>5, <2>7, <2>9, <2>10 DEF CopiesAsPromised
<1> QED
  BY <1>1, StreamInit, StreamStep, TypeCorrect, CacheCorrect, PTL DEF Spec

==============================================================================
