------------------------------- MODULE LogRing -------------------------------
(* The log viewer of src/log_viewer.c under the calls the dashboard makes, in  *)
(* any order, with the match cache of src/tui.c beside it: one action per      *)
(* operation.  A line reaches log_viewer_append one at a time, from the        *)
(* backlog while log_viewer_set_app is still running (loading), from           *)
(* log_viewer_poll afterwards.                                                 *)
EXTENDS LogViewer

CONSTANTS
  Texts,        \* the texts a journal line may have
  Deltas,       \* the distances the dashboard scrolls by
  MaxArrivals   \* bound: lines received from one stream

ASSUME LogRingAssumption ==
  /\ Texts \subseteq Text
  /\ Deltas \subseteq Nat
  /\ MaxArrivals \in Nat

VARIABLES
  lv,        \* the LogViewer
  matching,  \* matching_indices[0 .. match_count - 1] of TUIState
  loading,   \* log_viewer_set_app is reading the backlog
  arrived    \* lines received since the last switch (history only)

vars == << lv, matching, loading, arrived >>

Init == /\ lv = ViewerInit
        /\ matching = << >>
        /\ loading = FALSE
        /\ arrived = 0

Receive == \E t \in Texts :
  /\ arrived < MaxArrivals
  /\ lv' = AppendLine(lv, t, arrived + 1)
  /\ arrived' = IF t.blank THEN arrived ELSE arrived + 1
  /\ UNCHANGED << matching, loading >>

\* A call of the viewer's interface, made between two frames; set_app blocks the
\* caller.  What tui.c sets in the viewer without a call is Dashboard's.
Call(result) == /\ ~loading
                /\ lv' = result
                /\ UNCHANGED << matching, loading, arrived >>

DropMarker   == Call(AddMarker(lv))
MarkAfter    == \E slot \in Slots : Call(InsertMarkerAfter(lv, slot))
DropMarkers  == Call(ClearMarkers(lv))
Pause        == Call(TogglePause(lv))
PickLevel    == \E level \in Levels : Call(SetLevelFilter(lv, level))
PickFilter   == \E filter \in Filters : Call(SetFilter(lv, filter))
Up           == \E delta \in Deltas \cup {lv.count} : Call(ScrollUp(lv, delta))
Down         == \E delta \in Deltas : Call(ScrollDown(lv, delta))
Bottom       == Call(ScrollToBottom(lv))

SwitchStart == /\ ~loading
               /\ lv' = Reset(lv)
               /\ loading' = TRUE
               /\ arrived' = 0
               /\ UNCHANGED matching

SwitchEnd == /\ loading
             /\ loading' = FALSE
             /\ UNCHANGED << lv, matching, arrived >>

\* update_matching_indices: at every frame and before every key.
Refresh == /\ ~loading
           /\ matching' = UpdateMatching(lv, matching)
           /\ lv' = [lv EXCEPT !.is_dirty = FALSE]
           /\ UNCHANGED << loading, arrived >>

Next == \/ Receive \/ DropMarker \/ MarkAfter \/ DropMarkers \/ Pause
        \/ PickLevel \/ PickFilter \/ Up \/ Down \/ Bottom
        \/ SwitchStart \/ SwitchEnd \/ Refresh

Spec == Init /\ [][Next]_vars

-----------------------------------------------------------------------------

\* Every field has a value of its C type, and the ring indices stay in bounds.
TypeOK == /\ lv \in Viewer
          /\ matching \in Seq(Slots)
          /\ loading \in BOOLEAN
          /\ arrived \in Nat

\* While is_dirty is off the cached slots are the ones a fresh scan of the ring
\* would find: every operation that adds, moves, drops or refilters lines has
\* asked for a rescan, so keys that index the cache (m, c, Enter) hit the line
\* they are meant for.
CacheCoherent == ~lv.is_dirty => matching = Matching(lv)

\* README.md:51-54 of `c`, told of the lines and not of the cache: what is copied
\* passes the filters and lies behind the only marker, or between the last two;
\* each line once, in the order of arrival, whichever lines the ring has dropped
\* and wherever its markers have moved.
CopiesAsPromised ==
  LET ring  == Window(lv)
      Markers(places) == {i \in places : ring[i].is_marker}
      marks == Cardinality(Markers(DOMAIN ring))
      asked == {i \in DOMAIN ring :
                  /\ IsAppLine(ring[i])
                  /\ Passes(ring[i], lv.level_filter, lv.search_filter)
                  /\ Cardinality(Markers(1 .. i)) = IF marks = 1 THEN 1 ELSE marks - 1}
  IN ~lv.is_dirty /\ marks > 0
       => Copied(lv, matching, -1) = InOrder({ring[i].arrival : i \in asked})

\* The journal lines in the window are the newest ones received from the stream,
\* in the order received, with no gap: markers placed, removed or evicted between
\* them never cost a newer line than the oldest.
NewestKept ==
  LET ring == Window(lv)
      app  == {i \in DOMAIN ring : IsAppLine(ring[i])}
  IN \A i \in app :
       LET later == {j \in app : i < j}
       IN IF later = {} THEN ring[i].arrival = arrived
          ELSE \E j \in later : /\ \A k \in later : j <= k
                                /\ ring[j].arrival = ring[i].arrival + 1

\* Auto-scroll is only on at the bottom (scroll_offset in log_viewer.h: "0 =
\* bottom / auto-scroll, >0 = scrolled up"): no sequence of viewer calls leaves a
\* view that claims to follow the stream while it shows older lines.
FollowsAtBottom == lv.auto_scroll => lv.scroll_offset = 0

\* "[PAUSED +n]" counts lines of this pause and this stream only: the counter is
\* zero when not paused and never more than the stream has delivered.
PausedCountHonest == /\ lv.paused_buffered_count <= arrived
                     /\ ~lv.is_paused => lv.paused_buffered_count = 0

\* The ring implements the window of LogWindow.
Promise == INSTANCE LogWindow WITH window <- Window(lv), Lines <- LogLine

\* Each call changes the live lines exactly as the window it stands for, whatever
\* the position of the head and however full the ring is.
ImplementsWindow == Promise!Spec

\* The marker that `m` places stands right behind the selected line, also when it
\* costs the oldest line or that line is the oldest; no other line moves.  What is
\* copied "below the marker" (README.md:52) depends on it.
MarkerBehindLine ==
  \A p \in 1 .. lv.count :
    Window(InsertMarkerAfter(lv, SlotAt(lv.head, p - 1))) = Promise!MarkedBehind(p)
=============================================================================
