--------------------------- MODULE DashboardProofs ---------------------------
(* The dashboard for every size of the ring and the screen, any number of apps *)
(* and of bytes sent, whatever keys they are taken for.                        *)
EXTENDS Dashboard, LogViewerLemmas

\* The types that TypeOK leaves to the definitions of the handlers.
ListOK == /\ apps \in Seq(1 .. MaxApps) /\ Len(apps) <= MaxApps
          /\ Len(matching) <= Cap
          /\ bounds \in [arrivals : Nat, changes : Nat]

UiType == [selected_idx : 0 .. MaxApps, last_app_idx : 1 .. MaxApps + 1,
           fullscreen_logs : BOOLEAN, focus : {"processes", "logs"},
           selected_log_idx : -1 .. Cap, mode : Modes, search_input : Filters,
           doomed : 0 .. MaxApps, has_update : BOOLEAN, should_quit : BOOLEAN]

\* From the switch of the stream to the key the log shown is the selected row's.
StreamIsRow == phase # "poll" => target = TargetOf(ui, apps)

\* The cache is fresh unless is_dirty says otherwise, which it does not at a key.
CacheOK == /\ ~lv.is_dirty => matching = Matching(lv)
           /\ phase = "key" => ~lv.is_dirty

IInv == TypeOK /\ ListOK /\ SelectedInList /\ StreamIsRow /\ CacheOK

\* The bounds are numbers.
LEMMA Constants ==
  /\ MaxApps \in Nat /\ SplitRows \in Nat /\ FullRows \in Nat /\ SplitGuess \in Nat
  /\ Cap \in Nat /\ Cap >= 1 /\ FilterCap \in Nat
BY DashboardAssumption, CapAssumption, FilterCapAssumption

\* A function on 1 .. n is a sequence of that length.
LEMMA FunctionIsSeq ==
  ASSUME NEW T, NEW n \in Nat, NEW f \in [1 .. n -> T]
  PROVE  f \in Seq(T) /\ Len(f) = n
OBVIOUS

\* The list of apps holds registered ones.
LEMMA AppList ==
  ASSUME NEW S \in SUBSET (1 .. MaxApps)
  PROVE  InOrder(S) \in Seq(1 .. MaxApps) /\ Len(InOrder(S)) <= MaxApps
<1>1. MaxApps \in Nat
  BY Constants
<1>2. IsFiniteSet(S) /\ Cardinality(S) \in Nat /\ Cardinality(S) <= MaxApps
  <2>1. IsFiniteSet(1 .. MaxApps) /\ Cardinality(1 .. MaxApps) = MaxApps
    BY <1>1, FS_Interval, 1 \in Int
  <2> QED
    BY <2>1, FS_Subset, FS_CardinalityType
<1>3. \E q : Lists(q, Cardinality(S), S)
  <2>1. S \in SUBSET (0 .. MaxApps)
    BY <1>1
  <2> QED
    BY <1>1, <1>2, <2>1, ListExists
<1>4. \E q \in [1 .. Cardinality(S) -> S] :
        \A i, j \in 1 .. Cardinality(S) : i < j => q[i] < q[j]
  BY <1>3 DEF Lists
<1>5. InOrder(S) \in [1 .. Cardinality(S) -> S]
  BY <1>4 DEF InOrder
<1>6. PICK n, q : n = Cardinality(S) /\ q = InOrder(S)
  OBVIOUS
<1>7. n \in Nat /\ q \in [1 .. n -> 1 .. MaxApps]
  BY <1>2, <1>5, <1>6
<1>8. q \in Seq(1 .. MaxApps) /\ Len(q) = n
  BY <1>7, FunctionIsSeq
<1> QED
  BY <1>2, <1>6, <1>8

\* The dashboard starts with nothing cached and [ALL APPS] selected.
LEMMA InitIInv == Init => IInv
<1> SUFFICES ASSUME Init PROVE IInv
  OBVIOUS
<1> USE Constants
<1>1. ViewerInit \in Viewer /\ ViewerInit.is_dirty
  <2>1. 0 \in Slots /\ 0 \in 0 .. Cap /\ 0 \in Filters /\ 0 \in Levels
    BY DEF Slots, Filters, Levels
  <2>2. [s \in Slots |-> ZeroLine] \in [Slots -> LogLine]
    BY LineTypes
  <2> QED
    BY <2>1, <2>2 DEF ViewerInit, Viewer
<1>2. ui \in UiType /\ ui.selected_idx = 0
  <2>1. PICK update \in BOOLEAN :
          ui = [selected_idx |-> 0, last_app_idx |-> 1, fullscreen_logs |-> FALSE,
                focus |-> "processes", selected_log_idx |-> -1, mode |-> "normal",
                search_input |-> 0, doomed |-> 0, has_update |-> update,
                should_quit |-> FALSE]
    BY DashboardAssumption DEF Init
  <2>2. 0 \in Filters /\ "normal" \in Modes /\ -1 \in -1 .. Cap
    BY DEF Filters, Modes
  <2> QED
    BY <2>1, <2>2 DEF UiType
<1>3. apps \in Seq(1 .. MaxApps) /\ Len(apps) <= MaxApps
  BY AppList DEF Init
<1>4. TypeOK
  BY <1>1, <1>2 DEF Init, TypeOK, UiType
<1>5. ListOK /\ SelectedInList
  BY <1>2, <1>3 DEF Init, ListOK, SelectedInList
<1>6. StreamIsRow /\ CacheOK
  BY <1>1 DEF Init, StreamIsRow, CacheOK
<1> QED
  BY <1>4, <1>5, <1>6 DEF IInv

-----------------------------------------------------------------------------
(* The frame. *)

\* A viewer with a cache that is as good as before.
LvFits(w) == w \in Viewer /\ Announces(lv, w)

\* A cache is as good for a viewer that announces its changes.
LEMMA CacheKept ==
  ASSUME NEW v, NEW w, NEW m, Announces(v, w), ~v.is_dirty => m = Matching(v)
  PROVE  ~w.is_dirty => m = Matching(w)
BY MatchingSame DEF Announces

\* A line arrives, from the follower or the backlog (log_viewer_append).
LEMMA LineStep ==
  ASSUME IInv, PollLine \/ BacklogLine
  PROVE  IInv'
<1>1. /\ phase \in {"poll", "backlog"} /\ phase' = phase /\ ui' = ui /\ matching' = matching
      /\ apps' = apps /\ registered' = registered /\ target' = target
      /\ bounds' = [bounds EXCEPT !.arrivals = @ + 1]
  BY DEF PollLine, BacklogLine, Receives, loop
<1>2. LvFits(lv')
  <2>1. PICK t \in Text : lv' = AppendLine(lv, t, bounds.arrivals + 1)
    BY DashboardAssumption DEF PollLine, BacklogLine, Receives
  <2>2. bounds.arrivals + 1 \in Nat
    BY DEF IInv, ListOK
  <2> QED
    BY <2>1, <2>2, AppendType, AppendAnnounces DEF IInv, TypeOK, LvFits
<1>3. TypeOK'
  BY <1>1, <1>2 DEF IInv, TypeOK, LvFits
<1>4. ListOK' /\ SelectedInList' /\ StreamIsRow'
  BY <1>1 DEF IInv, ListOK, SelectedInList, StreamIsRow, TargetOf
<1>5. CacheOK'
  BY <1>1, <1>2, CacheKept DEF IInv, CacheOK, LvFits
<1> QED
  BY <1>3, <1>4, <1>5 DEF IInv

\* A selection that is clipped to a list of apps is in it.
LEMMA ClampFits ==
  ASSUME NEW u \in UiType, NEW list \in Seq(1 .. MaxApps), Len(list) <= MaxApps
  PROVE  /\ Clamped(u, list) \in UiType
         /\ Clamped(u, list).selected_idx <= Len(list)
         /\ TargetOf(Clamped(u, list), list) \in 0 .. MaxApps
<1>1. Len(list) \in Nat /\ MaxApps \in Nat
  BY Constants
<1>2. /\ Clamped(u, list) \in UiType
      /\ Clamped(u, list).selected_idx <= Len(list)
  <2>1. PICK k : k = IF u.selected_idx > Len(list) THEN Len(list) ELSE u.selected_idx
    OBVIOUS
  <2>2. k \in 0 .. MaxApps /\ k <= Len(list)
    BY <1>1, <2>1 DEF UiType
  <2>3. Clamped(u, list) = [u EXCEPT !.selected_idx = k]
    BY <2>1 DEF Clamped
  <2> QED
    BY <2>2, <2>3 DEF UiType
<1>3. TargetOf(Clamped(u, list), list) \in 0 .. MaxApps
  BY SMTT(30), <1>1, <1>2 DEF TargetOf, UiType
<1> QED
  BY <1>2, <1>3

\* The list is read again and the stream follows the selected row.
LEMMA RefreshStep == ASSUME IInv, RefreshList PROVE IInv'
<1>1. PICK list \in {apps, InOrder(registered)} :
        apps' = list /\ SwitchStream(Clamped(ui, list), list)
  BY DEF RefreshList
<1>2. matching' = matching /\ registered' = registered
  BY DEF RefreshList
<1>3. list \in Seq(1 .. MaxApps) /\ Len(list) <= MaxApps
  BY <1>1, AppList DEF IInv, ListOK, TypeOK
<1> DEFINE u == Clamped(ui, list)
<1>4. u \in UiType /\ u.selected_idx <= Len(list) /\ TargetOf(u, list) \in 0 .. MaxApps
  BY <1>3, ClampFits DEF IInv, TypeOK, UiType
<1> HIDE DEF u
<1>5. target' = TargetOf(u, list)
  BY <1>1 DEF SwitchStream, u
<1>6. /\ phase' \in {"draw", "backlog"} /\ ui' \in UiType
      /\ ui'.selected_idx = u.selected_idx /\ bounds' \in [arrivals : Nat, changes : Nat]
  <2>1. CASE target' = target
    BY <1>1, <1>4, <2>1 DEF SwitchStream, u, IInv, ListOK
  <2>2. CASE target' # target
    <3>1. /\ phase' = "backlog" /\ ui' = [u EXCEPT !.selected_log_idx = -1]
          /\ bounds' = [bounds EXCEPT !.arrivals = 0]
      BY <1>1, <2>2 DEF SwitchStream, u
    <3>2. ui' \in UiType /\ ui'.selected_idx = u.selected_idx
      <4>1. -1 \in -1 .. Cap
        BY Constants
      <4> QED
        BY <1>4, <3>1, <4>1 DEF UiType
    <3>3. bounds' \in [arrivals : Nat, changes : Nat]
      BY <3>1 DEF IInv, ListOK
    <3> QED
      BY <3>1, <3>2, <3>3
  <2> QED
    BY <2>1, <2>2
<1>7. LvFits(lv')
  <2>1. lv' = lv \/ lv' = Reset(lv)
    BY <1>1 DEF SwitchStream
  <2>2. 0 \in Levels /\ 0 \in Filters /\ 0 \in Nat
    BY Constants DEF Levels, Filters
  <2>3. lv \in Viewer
    BY DEF IInv, TypeOK
  <2>4. Announces(lv, lv)
    BY DEF Announces, SameLines
  <2> QED
    BY <2>1, <2>2, <2>3, <2>4, ControlType, ControlAnnounces DEF LvFits
<1>8. TypeOK'
  BY <1>2, <1>4, <1>5, <1>6, <1>7 DEF IInv, TypeOK, UiType, LvFits
<1>9. ListOK' /\ SelectedInList' /\ StreamIsRow'
  BY <1>1, <1>2, <1>3, <1>4, <1>5, <1>6
     DEF IInv, ListOK, SelectedInList, StreamIsRow, TargetOf
<1>10. CacheOK'
  BY <1>2, <1>6, <1>7, CacheKept DEF IInv, CacheOK, LvFits
<1> QED
  BY <1>8, <1>9, <1>10 DEF IInv

\* The frame is drawn from a cache that is rebuilt if it has to be.
LEMMA DrawStep == ASSUME IInv, Draw PROVE IInv'
<1>1. /\ phase \in {"backlog", "draw"} /\ phase' = "key"
      /\ matching' = UpdateMatching(lv, matching) /\ lv' = [lv EXCEPT !.is_dirty = FALSE]
      /\ UNCHANGED << input, ui, apps, registered, target, bounds >>
  BY DEF Draw
<1>2. matching' = Matching(lv)
  BY <1>1 DEF IInv, CacheOK, UpdateMatching
<1>3. lv \in Viewer /\ matching' \in Seq(Slots) /\ Len(matching') <= Cap
  BY <1>2, MatchingType DEF IInv, TypeOK
<1>4. lv' \in Viewer /\ ~lv'.is_dirty /\ SameLines(lv, lv')
  BY <1>1, <1>3 DEF Viewer, SameLines
<1>5. TypeOK'
  BY <1>1, <1>3, <1>4 DEF IInv, TypeOK
<1>6. ListOK' /\ SelectedInList' /\ StreamIsRow'
  BY <1>1, <1>3 DEF IInv, ListOK, SelectedInList, StreamIsRow, TargetOf
<1>7. CacheOK'
  BY <1>2, <1>4, MatchingSame DEF CacheOK
<1> QED
  BY <1>5, <1>6, <1>7 DEF IInv

\* What happens beside the loop, and a frame without a key.
LEMMA AroundStep ==
  ASSUME IInv, NoKey \/ Press \/ PressEnter \/ OthersChange \/ UNCHANGED vars
  PROVE  IInv'
<1>1. /\ UNCHANGED << ui, lv, matching, apps, target >>
      /\ phase' \in {"poll", phase}
      /\ registered' \subseteq 1 .. MaxApps
      /\ bounds' \in [arrivals : Nat, changes : Nat]
  <2>1. CASE OthersChange
    BY SMTT(30), <2>1 DEF IInv, TypeOK, ListOK, OthersChange, loop
  <2>2. CASE NoKey \/ Press \/ PressEnter \/ UNCHANGED vars
    BY <2>2 DEF IInv, TypeOK, ListOK, NoKey, Press, PressEnter, vars, loop
  <2> QED
    BY <2>1, <2>2
<1>2. TypeOK' /\ ListOK'
  BY <1>1 DEF IInv, TypeOK, ListOK
<1>3. SelectedInList' /\ StreamIsRow' /\ CacheOK'
  BY <1>1 DEF IInv, SelectedInList, StreamIsRow, CacheOK, TargetOf
<1> QED
  BY <1>2, <1>3 DEF IInv

-----------------------------------------------------------------------------
(* Keys. *)

\* What every handler does but the deletion of an app: it sets ui and lv.
UiFits(u) == u \in UiType /\ u.selected_idx <= Len(apps)

Handled ==
  /\ phase = "key" /\ phase' = "poll"
  /\ UNCHANGED << matching, target, bounds >>

\* A handler that leaves the list alone keeps all, if what it sets fits.
LEMMA HandledKeeps ==
  ASSUME IInv, Handled, UNCHANGED << apps, registered >>, UiFits(ui'), LvFits(lv')
  PROVE  IInv'
<1>1. TypeOK' /\ ListOK'
  BY DEF IInv, TypeOK, ListOK, Handled, UiFits, LvFits, UiType
<1>2. SelectedInList' /\ StreamIsRow'
  BY DEF SelectedInList, StreamIsRow, Handled, UiFits
<1>3. CacheOK'
  BY CacheKept DEF IInv, CacheOK, Handled, LvFits
<1> QED
  BY <1>1, <1>2, <1>3 DEF IInv

\* What is there fits.
LEMMA Same == IInv => UiFits(ui) /\ LvFits(lv)
BY DEF IInv, TypeOK, UiFits, UiType, SelectedInList, LvFits, Announces, SameLines

\* The cursor is on a line of the cache, or nowhere.
LEMMA Cursors ==
  ASSUME IInv
  PROVE  /\ matches \in 0 .. Cap /\ cursor \in -1 .. Cap /\ Cap \in Nat
         /\ LineUp \in -1 .. Cap
         /\ Len(apps) \in Nat /\ Len(apps) <= MaxApps /\ MaxApps \in Nat
         /\ ui.selected_idx \in 0 .. Len(apps)
<1>1. matches \in 0 .. Cap /\ cursor \in -1 .. Cap /\ Cap \in Nat
  BY Constants DEF IInv, TypeOK, ListOK, UiType, matches, cursor
<1>2. LineUp \in -1 .. Cap
  BY <1>1 DEF LineUp
<1>3. /\ Len(apps) \in Nat /\ Len(apps) <= MaxApps /\ MaxApps \in Nat
      /\ ui.selected_idx \in 0 .. Len(apps)
  BY Constants DEF IInv, TypeOK, ListOK, SelectedInList, UiType
<1> QED
  BY <1>1, <1>2, <1>3

\* Moving the cursor or the selection keeps them where they may be.
LEMMA UiMoves ==
  ASSUME IInv
  PROVE  /\ \A i \in -1 .. Cap : UiFits(AtLine(i))
         /\ \A i \in 0 .. Len(apps) : UiFits(AtRow(i))
         /\ \A mode \in Modes : UiFits([ui EXCEPT !.mode = mode])
         /\ UiFits(ToggleFull)
         /\ \A name \in {"processes", "logs"} : UiFits(Focus(name))
<1>1. ui \in UiType /\ ui.selected_idx <= Len(apps)
  BY Same DEF UiFits
<1>2. \A i \in -1 .. Cap : UiFits(AtLine(i))
  BY <1>1 DEF UiFits, UiType, AtLine
<1>3. \A i \in 0 .. Len(apps) : UiFits(AtRow(i))
  BY SMTT(30), <1>1, Cursors DEF UiFits, UiType, AtRow
<1>4. \A mode \in Modes : UiFits([ui EXCEPT !.mode = mode])
  BY <1>1 DEF UiFits, UiType
<1>5. UiFits(ToggleFull)
  BY <1>1 DEF UiFits, UiType, ToggleFull
<1>6. \A name \in {"processes", "logs"} : UiFits(Focus(name))
  <2> TAKE name \in {"processes", "logs"}
  <2>1. PICK i \in -1 .. Cap : i = IF name = "logs" THEN ui.selected_log_idx ELSE -1
    BY <1>1, Cursors DEF UiType
  <2>2. Focus(name) = ui \/ Focus(name) = [ui EXCEPT !.focus = name, !.selected_log_idx = i]
    BY <2>1 DEF Focus
  <2> QED
    BY <1>1, <2>2 DEF UiFits, UiType
<1> QED
  BY <1>2, <1>3, <1>4, <1>5, <1>6

\* So do the operations of the viewer, and what the keys do to auto-scroll.
LEMMA LvMoves ==
  ASSUME IInv
  PROVE  /\ LvFits(Following) /\ LvFits(Detached)
         /\ LvFits([Following EXCEPT !.scroll_offset = 0])
         /\ LvFits(AddMarker(lv)) /\ LvFits(ClearMarkers(lv))
         /\ \A slot \in Slots : LvFits(InsertMarkerAfter(lv, slot))
         /\ LvFits(TogglePause(lv)) /\ LvFits(ScrollToBottom(lv))
         /\ \A level \in Levels : LvFits(SetLevelFilter(lv, level))
         /\ \A filter \in Filters : LvFits(SetFilter(lv, filter))
         /\ \A delta \in Nat : /\ LvFits(ScrollUp(lv, delta)) /\ LvFits(ScrollDown(lv, delta))
                               /\ LvFits(ScrollUp(Detached, delta))
<1>1. lv \in Viewer /\ 0 \in Slots /\ 0 \in Levels /\ 0 \in Filters /\ 0 \in Nat
  BY Constants DEF IInv, TypeOK, Slots, Levels, Filters
<1>2. LvFits(Following) /\ LvFits(Detached) /\ LvFits([Following EXCEPT !.scroll_offset = 0])
  BY <1>1 DEF LvFits, Following, Detached, Viewer, Announces, SameLines
<1>3. AddMarker(lv) \in Viewer
  <2>1. Push(lv, Marker) \in Viewer
    BY <1>1, PushType, LineTypes
  <2> QED
    BY <2>1 DEF AddMarker, Viewer
<1>4. /\ LvFits(AddMarker(lv)) /\ LvFits(ClearMarkers(lv))
      /\ \A slot \in Slots : LvFits(InsertMarkerAfter(lv, slot))
  BY <1>1, <1>3, InsertType, ClearType, MarkersAnnounce DEF LvFits
<1>5. /\ LvFits(TogglePause(lv)) /\ LvFits(ScrollToBottom(lv))
      /\ \A level \in Levels : LvFits(SetLevelFilter(lv, level))
      /\ \A filter \in Filters : LvFits(SetFilter(lv, filter))
      /\ \A delta \in Nat : LvFits(ScrollUp(lv, delta)) /\ LvFits(ScrollDown(lv, delta))
  BY <1>1, ControlType, ControlAnnounces DEF LvFits
<1>6. ASSUME NEW delta \in Nat PROVE LvFits(ScrollUp(Detached, delta))
  <2>1. Detached \in Viewer /\ Announces(lv, Detached)
    BY <1>2 DEF LvFits
  <2>2. ScrollUp(Detached, delta) \in Viewer /\ Announces(Detached, ScrollUp(Detached, delta))
    BY <1>1, <2>1, ControlType, ControlAnnounces
  <2> QED
    BY <2>1, <2>2 DEF LvFits, Announces, SameLines
<1> QED
  BY <1>2, <1>4, <1>5, <1>6

\* A handler that reads bytes and sets such a ui and such a viewer.
LEMMA SetsKeeps ==
  ASSUME IInv, NEW mode, NEW bytes, NEW u, NEW w, Reads(mode, bytes), Sets(u, w),
         UiFits(u), LvFits(w)
  PROVE  IInv'
BY HandledKeeps DEF Handled, Reads, Sets

\* The same in the normal mode, in the table, and in the log view.
LEMMA OnKeeps ==
  ASSUME IInv, NEW bytes, NEW u, NEW w, On(bytes, u, w), UiFits(u), LvFits(w)
  PROVE  IInv'
BY SetsKeeps DEF On

LEMMA TableKeeps ==
  ASSUME IInv, NEW bytes, NEW u, InTable(bytes, u), UiFits(u)
  PROVE  IInv'
BY OnKeeps, Same DEF InTable

LEMMA LogsKeep ==
  ASSUME IInv, NEW bytes, NEW u, NEW w, InLogs(bytes, u, w), UiFits(u), LvFits(w)
  PROVE  IInv'
BY OnKeeps DEF InLogs

\* A marker goes behind a line of the ring.
LEMMA MarkerLine == ASSUME IInv, HasLine PROVE matching[cursor + 1] \in Slots
<1>1. matching \in Seq(Slots) /\ cursor \in Int
  BY Cursors DEF IInv, TypeOK
<1> QED
  BY <1>1 DEF HasLine, matches

\* Keys that act on the viewer and the flags.
LEMMA SimpleKeys ==
  ASSUME IInv, Quit \/ Fullscreen \/ Open \/ Space \/ Mark \/ Unmark \/ CycleLevel \/ ToggleAll
  PROVE  IInv'
<1>1. CASE Quit
  <2>1. UiFits([ui EXCEPT !.should_quit = TRUE])
    BY Same DEF UiFits, UiType
  <2> QED
    BY <1>1, <2>1, OnKeeps, Same DEF Quit
<1>2. CASE Fullscreen
  BY <1>2, OnKeeps, Same, UiMoves DEF Fullscreen
<1>3. CASE Open
  <2>1. UiFits([ui EXCEPT !.mode = "detail"]) /\ UiFits(ToggleFull)
    <3>1. "detail" \in Modes
      BY DEF Modes
    <3> QED
      BY <3>1, UiMoves
  <2>2. UiFits(IF HasLine THEN [ui EXCEPT !.mode = "detail"] ELSE ToggleFull)
    BY <2>1
  <2> QED
    BY <1>3, <2>2, OnKeeps, Same DEF Open
<1>4. CASE Space
  BY <1>4, OnKeeps, Same, LvMoves DEF Space
<1>5. CASE Mark
  <2>1. LvFits(IF HasLine THEN InsertMarkerAfter(lv, matching[cursor + 1]) ELSE AddMarker(lv))
    BY MarkerLine, LvMoves
  <2> QED
    BY <1>5, <2>1, OnKeeps, Same DEF Mark
<1>6. CASE Unmark
  BY <1>6, OnKeeps, Same, LvMoves DEF Unmark
<1>7. CASE CycleLevel
  <2>1. (lv.level_filter + 1) % 3 \in Levels
    <3>1. lv.level_filter \in 0 .. 2
      BY DEF IInv, TypeOK, Viewer, Levels
    <3> QED
      BY <3>1 DEF Levels
  <2>2. -1 \in -1 .. Cap
    BY Constants
  <2>3. UiFits(AtLine(-1)) /\ LvFits(SetLevelFilter(lv, (lv.level_filter + 1) % 3))
    BY <2>1, <2>2, UiMoves, LvMoves
  <2> QED
    BY <1>7, <2>3, OnKeeps DEF CycleLevel
<1>8. CASE ToggleAll
  <2>1. ui \in UiType /\ Len(apps) \in Nat /\ (apps # << >> => Len(apps) >= 1)
    BY Same, Cursors DEF UiFits, IInv, ListOK
  <2>2. UiFits([ui EXCEPT !.last_app_idx = ui.selected_idx, !.selected_idx = 0])
           \/ ui.selected_idx = 0
    <3>1. PICK k : k = ui.selected_idx
      OBVIOUS
    <3>2. k = 0 \/ k \in 1 .. MaxApps + 1
      BY <2>1, <3>1, Constants DEF UiType
    <3>3. 0 \in 0 .. MaxApps /\ 0 <= Len(apps)
      BY <2>1, Constants
    <3>4. CASE k \in 1 .. MaxApps + 1
      BY <2>1, <3>1, <3>3, <3>4 DEF UiFits, UiType
    <3> QED
      BY <3>1, <3>2, <3>4
  <2>3. PICK i : i = IF 0 < ui.last_app_idx /\ ui.last_app_idx <= Len(apps)
                     THEN ui.last_app_idx ELSE IF apps # << >> THEN 1 ELSE 0
    OBVIOUS
  <2>4. i \in 0 .. Len(apps)
    BY <2>1, <2>3, Constants DEF UiType
  <2>5. UiFits(AtRow(i))
    BY <2>4, UiMoves
  <2>6. UiFits(IF ui.selected_idx # 0
               THEN [ui EXCEPT !.last_app_idx = ui.selected_idx, !.selected_idx = 0]
               ELSE AtRow(i))
    BY <2>2, <2>5
  <2> QED
    BY <1>8, <2>3, <2>6, OnKeeps, Same DEF ToggleAll
<1> QED
  BY <1>1, <1>2, <1>3, <1>4, <1>5, <1>6, <1>7, <1>8

\* The cursor or the selection moves up; the arrow scrolls along.
LEMMA UpKeys == ASSUME IInv, ArrowUp \/ PlainUp \/ TableUp PROVE IInv'
<1>1. UiFits(AtLine(LineUp)) /\ LvFits(Detached)
  BY Cursors, UiMoves, LvMoves
<1>2. CASE ArrowUp
  <2>1. PICK start : /\ start = ViewEnd - (IF ui.fullscreen_logs THEN FullRows + 1 ELSE SplitGuess)
                     /\ InLogs(Arrow("A"), AtLine(LineUp),
                               IF LineUp < start THEN ScrollUp(Detached, start - LineUp)
                               ELSE Detached)
    BY <1>2 DEF ArrowUp
  <2>2. start \in Int /\ LineUp \in Int
    <3>1. lv.scroll_offset \in Nat
      BY DEF IInv, TypeOK, Viewer
    <3> QED
      BY <2>1, <3>1, Constants, Cursors DEF ViewEnd
  <2>3. LineUp < start => start - LineUp \in Nat
    BY <2>2
  <2>4. LvFits(IF LineUp < start THEN ScrollUp(Detached, start - LineUp) ELSE Detached)
    BY <1>1, <2>3, LvMoves
  <2> QED
    BY <1>1, <2>1, <2>4, LogsKeep
<1>3. CASE PlainUp
  BY <1>1, <1>3, LogsKeep, Same DEF PlainUp
<1>4. CASE TableUp
  <2>1. (IF ui.selected_idx > 0 THEN ui.selected_idx - 1 ELSE 0) \in 0 .. Len(apps)
    BY Cursors
  <2>2. UiFits(RowUp)
    BY <2>1, UiMoves DEF RowUp
  <2> QED
    BY <1>4, <2>2, TableKeeps DEF TableUp
<1> QED
  BY <1>2, <1>3, <1>4

\* It moves down, or past the last line to nowhere.
LEMMA DownKeys == ASSUME IInv, ArrowDown \/ PlainDown \/ TableDown PROVE IInv'
<1>1. UiFits(AtLine(-1)) /\ (CanGoDown => cursor + 1 \in Nat /\ UiFits(AtLine(cursor + 1)))
  <2>1. -1 \in -1 .. Cap
    BY Constants
  <2>2. CanGoDown => cursor + 1 \in -1 .. Cap /\ cursor + 1 \in Nat
    BY Cursors DEF CanGoDown
  <2> QED
    BY <2>1, <2>2, UiMoves
<1>2. LvFits(lv) /\ LvFits(Following) /\ LvFits([Following EXCEPT !.scroll_offset = 0])
  BY Same, LvMoves
<1>3. CASE ArrowDown
  <2>1. CASE CanGoDown
    <3>1. lv.scroll_offset \in Nat
      BY DEF IInv, TypeOK, Viewer
    <3>2. cursor + 1 >= ViewEnd => cursor + 2 - ViewEnd \in Nat
      BY SMTT(30), <3>1, Cursors DEF ViewEnd
    <3>3. LvFits(IF cursor + 1 >= ViewEnd THEN ScrollDown(lv, cursor + 2 - ViewEnd) ELSE lv)
      BY <1>2, <3>2, LvMoves
    <3> QED
      BY <1>1, <1>3, <2>1, <3>3, LogsKeep DEF ArrowDown
  <2>2. CASE ~CanGoDown
    <3>1. LvFits(IF cursor = -1 THEN lv ELSE [Following EXCEPT !.scroll_offset = 0])
      BY <1>2
    <3> QED
      BY <1>1, <1>3, <2>2, <3>1, LogsKeep DEF ArrowDown
  <2> QED
    BY <2>1, <2>2
<1>4. CASE PlainDown
  BY <1>1, <1>2, <1>4, LogsKeep DEF PlainDown
<1>5. CASE TableDown
  <2>1. (IF ui.selected_idx < Len(apps) THEN ui.selected_idx + 1 ELSE ui.selected_idx)
          \in 0 .. Len(apps)
    BY Cursors
  <2>2. UiFits(RowDown)
    BY <2>1, UiMoves DEF RowDown
  <2> QED
    BY <1>5, <2>2, TableKeeps DEF TableDown
<1> QED
  BY <1>3, <1>4, <1>5

\* Keys that change what is in view.
LEMMA ViewKeys ==
  ASSUME IInv, ChangeFocus \/ ScrollKeys \/ ToOldest \/ ToNewest \/ TableEnds \/ PlainEsc
  PROVE  IInv'
<1>1. UiFits(ui) /\ UiFits(AtLine(-1)) /\ UiFits(AtLine(0))
  <2>1. -1 \in -1 .. Cap /\ 0 \in -1 .. Cap
    BY Constants
  <2> QED
    BY <2>1, Same, UiMoves
<1>2. CASE ChangeFocus
  <2>1. UiFits(Focus("logs")) /\ UiFits(Focus("processes"))
    BY UiMoves
  <2>2. UiFits(Focus(IF ui.focus = "logs" THEN "processes" ELSE "logs"))
    BY <2>1
  <2> QED
    BY <1>2, <2>1, <2>2, OnKeeps, Same DEF ChangeFocus
<1>3. CASE ScrollKeys
  <2>1. 10 \in Nat /\ 5 \in Nat
    OBVIOUS
  <2>2. /\ LvFits(ScrollUp(lv, 10)) /\ LvFits(ScrollDown(lv, 10))
        /\ LvFits(ScrollUp(lv, 5)) /\ LvFits(ScrollDown(lv, 5))
    BY <2>1, LvMoves
  <2> QED
    BY <1>1, <1>3, <2>2, OnKeeps, LogsKeep DEF ScrollKeys
<1>4. CASE ToOldest
  <2>1. lv.count \in Nat
    BY Constants DEF IInv, TypeOK, Viewer
  <2>2. LvFits(ScrollUp(lv, lv.count))
    BY <2>1, LvMoves
  <2> QED
    BY <1>1, <1>4, <2>2, OnKeeps, LogsKeep DEF ToOldest
<1>5. CASE ToNewest
  BY <1>1, <1>5, OnKeeps, LogsKeep, LvMoves DEF ToNewest
<1>6. CASE TableEnds
  <2>1. 0 \in 0 .. Len(apps) /\ Len(apps) \in 0 .. Len(apps)
    BY Cursors
  <2>2. UiFits(AtRow(0)) /\ UiFits(AtRow(Len(apps)))
    BY <2>1, UiMoves
  <2> QED
    BY <1>6, <2>2, TableKeeps DEF TableEnds
<1>7. CASE PlainEsc
  <2>1. cursor >= 0 \/ cursor < 0
    BY Cursors
  <2>2. CASE cursor >= 0
    <3>1. On(<< "Esc" >>, AtLine(-1), Following)
      <4>1. ~(cursor < 0)
        BY <2>2, Cursors
      <4> QED
        BY <1>7, <2>2, <4>1, Zenon DEF PlainEsc
    <3> QED
      BY <1>1, <3>1, OnKeeps, LvMoves
  <2>3. CASE cursor < 0 /\ ui.fullscreen_logs
    <3>1. On(<< "Esc" >>, [ui EXCEPT !.fullscreen_logs = FALSE], lv)
      BY <1>7, <2>3, Cursors DEF PlainEsc
    <3>2. UiFits([ui EXCEPT !.fullscreen_logs = FALSE])
      BY <1>1 DEF UiFits, UiType
    <3> QED
      BY <3>1, <3>2, OnKeeps, Same
  <2>4. CASE cursor < 0 /\ ~ui.fullscreen_logs
    <3>1. PICK w : /\ On(<< "Esc" >>, ui, w)
                   /\ w = CASE lv.search_filter > 0 -> SetFilter(lv, 0)
                            [] lv.search_filter = 0 /\ lv.level_filter # 0 ->
                                 SetLevelFilter(lv, 0)
                            [] OTHER -> lv
      <4>1. ~(cursor >= 0)
        BY <2>4, Cursors
      <4> QED
        BY <1>7, <2>4, <4>1, Zenon DEF PlainEsc
    <3>2. w \in {SetFilter(lv, 0), SetLevelFilter(lv, 0), lv}
      <4>1. lv.search_filter \in Nat
        BY Constants DEF IInv, TypeOK, Viewer, Filters
      <4> QED
        BY <3>1, <4>1
    <3>3. 0 \in Filters /\ 0 \in Levels
      BY Constants DEF Filters, Levels
    <3>4. LvFits(w)
      BY <3>2, <3>3, LvMoves, Same
    <3> QED
      BY <1>1, <3>1, <3>4, OnKeeps
  <2> QED
    BY <2>1, <2>2, <2>3, <2>4
<1> QED
  BY <1>2, <1>3, <1>4, <1>5, <1>6, <1>7

\* The search prompt applies its text with every character.
LEMMA SearchKeys == ASSUME IInv, StartSearch \/ Search PROVE IInv'
<1>1. ui \in UiType /\ ui.selected_idx <= Len(apps) /\ 0 \in Filters
      /\ "search" \in Modes /\ "normal" \in Modes
  BY Same, Constants DEF UiFits, Filters, Modes
<1>2. CASE StartSearch
  <2>1. UiFits([ui EXCEPT !.mode = "search", !.search_input = 0])
    BY <1>1 DEF UiFits, UiType
  <2> QED
    BY <1>2, <2>1, OnKeeps, Same DEF StartSearch
<1>3. CASE Search
  <2>1. ui.search_input \in Filters
    BY <1>1 DEF UiType
  <2>2. Typed \in Filters
    BY <2>1, Constants DEF Typed, Filters
  <2>3. PICK c : /\ Reads("search", << c >>)
                 /\ CASE c = "Esc"   -> Sets([ui EXCEPT !.mode = "normal", !.search_input = 0],
                                             SetFilter(lv, 0))
                      [] c = "Enter" -> Sets([ui EXCEPT !.mode = "normal"],
                                             SetFilter(lv, ui.search_input))
                      [] c \in {"Tab", "^C"} -> Sets(ui, lv)
                      [] OTHER -> Sets([ui EXCEPT !.search_input = Typed],
                                       IF Typed = ui.search_input THEN lv
                                       ELSE SetFilter(lv, Typed))
    BY <1>3 DEF Search
  <2>4. /\ UiFits([ui EXCEPT !.mode = "normal", !.search_input = 0])
        /\ UiFits([ui EXCEPT !.mode = "normal"])
        /\ UiFits([ui EXCEPT !.search_input = Typed])
    BY <1>1, <2>2 DEF UiFits, UiType
  <2>5. /\ LvFits(SetFilter(lv, 0)) /\ LvFits(SetFilter(lv, ui.search_input))
        /\ LvFits(IF Typed = ui.search_input THEN lv ELSE SetFilter(lv, Typed))
    BY <1>1, <2>1, <2>2, LvMoves, Same
  <2>6. CASE c = "Esc"
    BY <2>3, <2>4, <2>5, <2>6, SetsKeeps
  <2>7. CASE c = "Enter"
    BY <2>3, <2>4, <2>5, <2>7, SetsKeeps
  <2>8. CASE c \in {"Tab", "^C"}
    BY <2>3, <2>8, SetsKeeps, Same
  <2>9. CASE c \notin {"Esc", "Enter", "Tab", "^C"}
    BY <2>3, <2>4, <2>5, <2>9, SetsKeeps
  <2> QED
    BY <2>6, <2>7, <2>8, <2>9
<1> QED
  BY <1>2, <1>3

\* The inspector moves the cursor, marks its line, or closes.
LEMMA InspectKeys == ASSUME IInv, Inspect PROVE IInv'
<1>1. PICK c, size :
        /\ Reads("detail", SubSeq(input, 1, size))
        /\ CASE c = "k" \/ Up   -> Sets(Earlier, lv)
             [] c = "j" \/ Down -> Sets(Later, lv)
             [] c = "Esc" /\ ~Up /\ ~Down -> Sets(Closed, lv)
             [] c \in {"q", "Q", "Enter", "o"} -> Sets(Closed, lv)
             [] c \in {"m", "M"} /\ HasLine ->
                  Sets(ui, InsertMarkerAfter(lv, matching[cursor + 1]))
             [] OTHER -> Sets(ui, lv)
  BY DEF Inspect
<1>2. \/ Sets(Earlier, lv) \/ Sets(Later, lv) \/ Sets(Closed, lv) \/ Sets(ui, lv)
      \/ HasLine /\ Sets(ui, InsertMarkerAfter(lv, matching[cursor + 1]))
  BY <1>1
<1>3. UiFits(Earlier) /\ UiFits(Later)
  <2>1. (IF cursor > 0 THEN cursor - 1 ELSE cursor) \in -1 .. Cap
    BY Cursors
  <2>2. (IF cursor < matches - 1 THEN cursor + 1 ELSE cursor) \in -1 .. Cap
    BY Cursors
  <2> QED
    BY <2>1, <2>2, UiMoves DEF Earlier, Later
<1>4. UiFits(Closed)
  <2>1. "normal" \in Modes
    BY DEF Modes
  <2> QED
    BY <2>1, UiMoves DEF Closed
<1>5. HasLine => LvFits(InsertMarkerAfter(lv, matching[cursor + 1]))
  BY MarkerLine, LvMoves
<1> QED
  BY <1>1, <1>2, <1>3, <1>4, <1>5, SetsKeeps, Same

\* A deletion changes the list under the selection.
LEMMA DeleteKeys == ASSUME IInv, AskDelete \/ ConfirmDelete PROVE IInv'
<1>1. ui \in UiType /\ ui.selected_idx <= Len(apps) /\ 0 \in 0 .. MaxApps
      /\ "normal" \in Modes /\ "delete" \in Modes
  BY Same, Constants DEF UiFits, Modes
<1>2. Closed \in UiType
  BY <1>1 DEF UiType, Closed
<1>3. CASE AskDelete
  <2>1. PICK a : a = apps[ui.selected_idx]
    OBVIOUS
  <2>2. a \in 0 .. MaxApps
    <3>1. apps \in Seq(1 .. MaxApps) /\ ui.selected_idx \in 1 .. Len(apps)
      BY <1>3, Cursors DEF AskDelete, RowIsApp, IInv, ListOK
    <3>2. a \in 1 .. MaxApps
      BY <2>1, <3>1, ElementOfSeq
    <3> QED
      BY <3>2, Constants
  <2>3. UiFits([ui EXCEPT !.mode = "delete", !.doomed = a])
    BY <1>1, <2>2 DEF UiFits, UiType
  <2> QED
    BY <1>3, <2>1, <2>3, TableKeeps DEF AskDelete
<1>4. CASE ConfirmDelete
  <2>1. CASE \E c \in Declines : Reads("delete", << c >>) /\ Sets([Closed EXCEPT !.doomed = 0], lv)
    <3>1. UiFits([Closed EXCEPT !.doomed = 0])
      BY <1>1 DEF UiFits, UiType, Closed
    <3> QED
      BY <2>1, <3>1, SetsKeeps, Same
  <2>2. CASE /\ Reads("delete", << "y" >>)
             /\ registered' = registered \ {ui.doomed}
             /\ apps' = InOrder(registered')
             /\ ui' = Clamped(Closed, apps')
             /\ UNCHANGED lv
    <3>1. phase = "key" /\ phase' = "poll" /\ UNCHANGED << matching, target, bounds, lv >>
      BY <2>2 DEF Reads
    <3>2. registered' \in SUBSET (1 .. MaxApps)
      BY <2>2 DEF IInv, TypeOK
    <3>3. apps' \in Seq(1 .. MaxApps) /\ Len(apps') <= MaxApps
      BY <2>2, <3>2, AppList
    <3>4. ui' \in UiType /\ ui'.selected_idx <= Len(apps')
      BY <1>2, <2>2, <3>3, ClampFits
    <3>5. TypeOK'
      BY <3>1, <3>2, <3>4 DEF IInv, TypeOK, UiType
    <3>6. ListOK' /\ SelectedInList' /\ StreamIsRow' /\ CacheOK'
      BY <3>1, <3>3, <3>4 DEF IInv, ListOK, SelectedInList, StreamIsRow, CacheOK
    <3> QED
      BY <3>5, <3>6 DEF IInv
  <2> QED
    BY <1>4, <2>1, <2>2 DEF ConfirmDelete
<1> QED
  BY <1>3, <1>4

\* The upgrade prompt, and bytes nobody expects.
LEMMA UpdateKeys ==
  ASSUME IInv, AskUpdate \/ ConfirmUpdate \/ UpgradeFails \/ Dropped
  PROVE  IInv'
<1>1. ui \in UiType /\ ui.selected_idx <= Len(apps) /\ "normal" \in Modes /\ "update" \in Modes
  BY Same DEF UiFits, Modes
<1>2. CASE AskUpdate
  <2>1. UiFits([ui EXCEPT !.mode = "update"])
    BY <1>1 DEF UiFits, UiType
  <2>2. \A found \in Updates :
          UiFits([ui EXCEPT !.has_update = found, !.mode = IF found THEN "update" ELSE @])
    <3> TAKE found \in Updates
    <3>1. found \in BOOLEAN
      BY DashboardAssumption
    <3>2. PICK m \in Modes : m = IF found THEN "update" ELSE ui.mode
      BY <1>1 DEF UiType
    <3> QED
      BY <1>1, <3>1, <3>2 DEF UiFits, UiType
  <2> QED
    BY <1>2, <2>1, <2>2, OnKeeps, TableKeeps, Same DEF AskUpdate
<1>3. CASE ConfirmUpdate
  <2>1. UiFits(Closed) /\ UiFits([Closed EXCEPT !.should_quit = TRUE])
    BY <1>1 DEF UiFits, UiType, Closed
  <2> QED
    BY <1>3, <2>1, SetsKeeps, Same DEF ConfirmUpdate
<1>4. CASE Dropped
  BY <1>4, OnKeeps, SetsKeeps, Same DEF Dropped
<1>5. CASE UpgradeFails
  <2>1. UiFits(Closed)
    BY <1>1 DEF UiFits, UiType, Closed
  <2>2. /\ phase' = "enter" /\ ui' = Closed
        /\ UNCHANGED << lv, matching, apps, registered, target, bounds >>
    BY <1>5 DEF UpgradeFails, Sets
  <2>3. TypeOK' /\ ListOK' /\ SelectedInList' /\ CacheOK'
    <3>1. TypeOK' /\ ListOK'
      BY <2>1, <2>2 DEF IInv, TypeOK, ListOK, UiFits, UiType
    <3>2. SelectedInList'
      BY <2>1, <2>2 DEF SelectedInList, UiFits
    <3>3. CacheOK'
      BY <2>2 DEF IInv, CacheOK
    <3> QED
      BY <3>1, <3>2, <3>3
  <2>4. StreamIsRow'
    <3>1. target = TargetOf(ui, apps)
      BY <1>5 DEF IInv, StreamIsRow, UpgradeFails
    <3>2. Closed.selected_idx = ui.selected_idx
      BY <1>1 DEF Closed, UiType
    <3> QED
      BY <2>2, <3>1, <3>2 DEF StreamIsRow, TargetOf
  <2> QED
    BY <2>3, <2>4 DEF IInv
<1> QED
  BY <1>2, <1>3, <1>4, <1>5

-----------------------------------------------------------------------------

\* Every step of the loop, the user and other processes keeps the invariant.
LEMMA NextIInv == IInv /\ [Next]_vars => IInv'
<1> SUFFICES ASSUME IInv, [Next]_vars PROVE IInv'
  OBVIOUS
<1>1. CASE PollLine \/ RefreshList \/ BacklogLine \/ Draw
  BY <1>1, LineStep, RefreshStep, DrawStep
<1>2. CASE NoKey \/ Press \/ PressEnter \/ OthersChange \/ UNCHANGED vars
  BY <1>2, AroundStep
<1>3. CASE \/ Quit \/ Fullscreen \/ Open \/ Space \/ Mark \/ Unmark \/ CycleLevel \/ ToggleAll
           \/ ArrowUp \/ PlainUp \/ TableUp \/ ArrowDown \/ PlainDown \/ TableDown
  BY <1>3, SimpleKeys, UpKeys, DownKeys
<1>4. CASE \/ ChangeFocus \/ ScrollKeys \/ ToOldest \/ ToNewest \/ TableEnds \/ PlainEsc
           \/ StartSearch \/ Search \/ Inspect \/ AskDelete \/ ConfirmDelete
           \/ AskUpdate \/ ConfirmUpdate \/ UpgradeFails \/ Dropped
  BY <1>4, ViewKeys, SearchKeys, InspectKeys, DeleteKeys, UpdateKeys
<1> QED
  BY <1>1, <1>2, <1>3, <1>4 DEF Next, Loop

\* So it always holds.
LEMMA Invariance == Spec => []IInv
BY InitIInv, NextIInv, PTL DEF Spec

\* Every field of TUIState and of its viewer keeps a value its C type and the key
\* handlers allow, in whatever order keys, lines and other processes come.
THEOREM TypeCorrect == Spec => []TypeOK
<1>1. IInv => TypeOK
  BY DEF IInv
<1> QED
  BY <1>1, Invariance, PTL

\* The selected row is one of the list, whatever other processes delete, whatever
\* this one does, and wherever `a` returns to.
THEOREM SelectionExists == Spec => []SelectedInList
<1>1. IInv => SelectedInList
  BY DEF IInv
<1> QED
  BY <1>1, Invariance, PTL

\* Every key is handled with the log of the selected row on screen: the selection
\* may move with the list, but never without the stream.
THEOREM LogIsOfRow == Spec => []TargetShown
<1>1. IInv => TargetShown
  BY DEF IInv, StreamIsRow, TargetShown
<1> QED
  BY <1>1, Invariance, PTL

\* Every key finds in the match cache the lines of the ring that pass the filters:
\* is_dirty is set by every change that could make the cache wrong, and every frame
\* looks at it before it looks for a key.
THEOREM CacheFreshAtKeys == Spec => []KeyOnFresh
<1>1. IInv => KeyOnFresh
  BY DEF IInv, CacheOK, KeyOnFresh
<1> QED
  BY <1>1, Invariance, PTL
=============================================================================
