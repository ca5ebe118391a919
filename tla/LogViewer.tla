------------------------------ MODULE LogViewer ------------------------------
(* The LogViewer structure of include/log_viewer.h and the operations          *)
(* src/log_viewer.c performs on it, as functions from the structure to the     *)
(* structure, and the match cache that src/tui.c derives from it.  The module  *)
(* has no variables: LogRing and Dashboard own a viewer and apply these.       *)
(*                                                                             *)
(* A text is what the code can tell about a journal line: whether only CR/LF   *)
(* is left of it, which triage words it mentions, and how many characters of   *)
(* the search string it contains (a search string is its length; a longer one  *)
(* matches fewer lines).  An arrival number stands for the rest of the text.   *)
EXTENDS Integers, Sequences, FiniteSets

CONSTANTS
  Cap,          \* MAX_LOG_LINES, the slots of the ring
  FilterCap     \* longest search string considered

ASSUME CapAssumption == Cap \in Nat \ {0}
ASSUME FilterCapAssumption == FilterCap \in Nat

Slots   == 0 .. Cap - 1
Filters == 0 .. FilterCap
Levels  == 0 .. 2     \* LOG_LEVEL_ALL, LOG_LEVEL_WARN_ERR, LOG_LEVEL_ERR_ONLY

Text == [blank : BOOLEAN, mentions : SUBSET {"error", "warning"}, depth : Filters]

AnyLine == [arrival : Nat, depth : Filters,
            is_err : BOOLEAN, is_warn : BOOLEAN, is_marker : BOOLEAN]

ZeroLine == [arrival |-> 0, depth |-> 0,
             is_err |-> FALSE, is_warn |-> FALSE, is_marker |-> FALSE]

\* All markers are alike: their text is the time of day.
Marker == [ZeroLine EXCEPT !.is_marker = TRUE]

LogLine == {line \in AnyLine : line.is_marker => line = Marker}

\* A line that mentions an error is never counted as a warning.
AppLine(t, n) ==
  LET err == "error" \in t.mentions
  IN [arrival |-> n, depth |-> t.depth, is_marker |-> FALSE,
      is_err |-> err, is_warn |-> ~err /\ "warning" \in t.mentions]

Viewer == [lines : [Slots -> LogLine], count : 0 .. Cap, head : Slots,
           scroll_offset : Nat, search_filter : Filters, level_filter : Levels,
           auto_scroll : BOOLEAN, is_paused : BOOLEAN,
           paused_buffered_count : Nat, is_dirty : BOOLEAN]

ViewerInit == [lines |-> [s \in Slots |-> ZeroLine], count |-> 0, head |-> 0,
               scroll_offset |-> 0, search_filter |-> 0, level_filter |-> 0,
               auto_scroll |-> TRUE, is_paused |-> FALSE,
               paused_buffered_count |-> 0, is_dirty |-> TRUE]

-----------------------------------------------------------------------------
(* The ring. *)

\* Slot of the i-th live line counted from the oldest, i = 0 the oldest.
SlotAt(head, i) == (head + i) % Cap

\* The inverse: the distance of a slot from the head.
Logical(head, s) == (s - head + Cap) % Cap

\* The live lines, oldest first.
Window(v) == [i \in 1 .. v.count |-> v.lines[SlotAt(v.head, i - 1)]]

\* Mutant: a full ring counts one line more.
PushPastCap(v, line) ==
  [v EXCEPT !.lines[SlotAt(v.head, v.count)] = line, !.count = @ + 1, !.is_dirty = TRUE]

\* Mutant: the head stays when the oldest line is overwritten.
PushKeepsHead(v, line) ==
  IF v.count = Cap
  THEN [v EXCEPT !.lines[v.head] = line, !.is_dirty = TRUE]
  ELSE [v EXCEPT !.lines[SlotAt(v.head, v.count)] = line, !.count = @ + 1,
                 !.is_dirty = TRUE]

\* Writes a line at the newest end, over the oldest when the ring is full.
Push(v, line) ==
  IF v.count = Cap
  THEN [v EXCEPT !.lines[v.head] = line, !.head = SlotAt(v.head, 1), !.is_dirty = TRUE]
  ELSE [v EXCEPT !.lines[SlotAt(v.head, v.count)] = line, !.count = @ + 1,
                 !.is_dirty = TRUE]

\* log_viewer_append
AppendLine(v, t, n) ==
  LET w == Push(v, AppLine(t, n))
  IN CASE t.blank                    -> v
       [] ~t.blank /\ v.is_paused    -> [w EXCEPT !.paused_buffered_count = @ + 1]
       [] ~t.blank /\ ~v.is_paused   ->
            [w EXCEPT !.scroll_offset = IF v.auto_scroll THEN 0 ELSE @]

\* log_viewer_add_marker
AddMarker(v) ==
  [Push(v, Marker) EXCEPT
     !.scroll_offset = IF ~v.is_paused /\ v.auto_scroll THEN 0 ELSE @]

\* Mutant: the slot is located in the ring whose head has moved already.
LineAtMoved(v, slot) ==
  LET far == Logical(IF v.count = Cap THEN SlotAt(v.head, 1) ELSE v.head, slot)
  IN IF far >= v.count THEN v.count - 1 ELSE far

\* The live line a slot holds, counted from the oldest; the newest for an unused slot.
LineAt(v, slot) ==
  LET far == Logical(v.head, slot) IN IF far >= v.count THEN v.count - 1 ELSE far

\* Mutant: that the lines have moved down by one in a full ring is forgotten.
PlaceBehindUnmoved(full, k) == k + 1

\* Where a marker behind line k goes, once a full ring has lost its oldest line.
PlaceBehind(full, k) == IF full THEN k ELSE k + 1

\* log_viewer_insert_marker_after: in a full ring the oldest line makes room.
InsertMarkerAfter(v, slot) ==
  LET full  == v.count = Cap
      head  == IF full THEN SlotAt(v.head, 1) ELSE v.head
      count == IF full THEN Cap ELSE v.count + 1
      at    == PlaceBehind(full, LineAt(v, slot))
      Shifted(s) ==
        LET i == Logical(head, s)
        IN IF i = at THEN Marker
           ELSE IF at < i /\ i < count THEN v.lines[SlotAt(head, i - 1)]
           ELSE v.lines[s]
  IN IF v.count = 0 \/ slot \notin Slots THEN v
     ELSE [v EXCEPT !.lines = [s \in Slots |-> Shifted(s)],
                    !.head = head, !.count = count, !.is_dirty = TRUE]

IsAppLine(line) == ~line.is_marker

\* The members of a finite set of integers, in increasing order.
InOrder(S) ==
  CHOOSE q \in [1 .. Cardinality(S) -> S] :
    \A i, j \in 1 .. Cardinality(S) : i < j => q[i] < q[j]

\* Mutant: the cache is not told.
ClearMarkersQuiet(v) ==
  LET kept == {i \in 0 .. v.count - 1 : IsAppLine(v.lines[SlotAt(v.head, i)])}
      Packed(s) ==
        LET i == Logical(v.head, s)
        IN IF i < Cardinality(kept) THEN v.lines[SlotAt(v.head, InOrder(kept)[i + 1])]
           ELSE v.lines[s]
  IN [v EXCEPT !.lines = [s \in Slots |-> Packed(s)], !.count = Cardinality(kept)]

\* log_viewer_clear_markers: the other lines are packed towards the head.
ClearMarkers(v) ==
  LET kept == {i \in 0 .. v.count - 1 : IsAppLine(v.lines[SlotAt(v.head, i)])}
      n    == Cardinality(kept)
      Packed(s) ==
        LET i == Logical(v.head, s)
        IN IF i < n THEN v.lines[SlotAt(v.head, InOrder(kept)[i + 1])] ELSE v.lines[s]
  IN [v EXCEPT !.lines = [s \in Slots |-> Packed(s)], !.count = n,
               !.is_dirty = @ \/ n < v.count]

-----------------------------------------------------------------------------
(* Filters, pause and scrolling. *)

\* Mutants: the cache is not told.
SetLevelFilterQuiet(v, level) == [v EXCEPT !.level_filter = level, !.scroll_offset = 0]
SetFilterQuiet(v, filter) == [v EXCEPT !.search_filter = filter, !.scroll_offset = 0]

SetLevelFilter(v, level) ==
  [v EXCEPT !.level_filter = level, !.scroll_offset = 0, !.is_dirty = TRUE]

SetFilter(v, filter) ==
  [v EXCEPT !.search_filter = filter, !.scroll_offset = 0, !.is_dirty = TRUE]

TogglePause(v) ==
  IF v.is_paused
  THEN [v EXCEPT !.is_paused = FALSE, !.paused_buffered_count = 0,
                 !.auto_scroll = TRUE, !.scroll_offset = 0]
  ELSE [v EXCEPT !.is_paused = TRUE]

\* Mutant: auto-scroll stays on.
ScrollUpFollowing(v, delta) ==
  IF v.count = 0 THEN v
  ELSE [v EXCEPT !.scroll_offset = IF @ + delta >= v.count THEN v.count - 1 ELSE @ + delta]

ScrollUp(v, delta) ==
  IF v.count = 0 THEN v
  ELSE [v EXCEPT !.auto_scroll = FALSE,
                 !.scroll_offset = IF @ + delta >= v.count THEN v.count - 1 ELSE @ + delta]

ScrollToBottom(v) ==
  [v EXCEPT !.scroll_offset = 0, !.auto_scroll = @ \/ ~v.is_paused]

ScrollDown(v, delta) ==
  IF v.scroll_offset <= delta THEN ScrollToBottom(v)
  ELSE [v EXCEPT !.scroll_offset = @ - delta]

\* Mutant: the counter of the old target's pause is kept.
ResetKeepsCount(v) ==
  [v EXCEPT !.count = 0, !.head = 0, !.scroll_offset = 0, !.auto_scroll = TRUE,
            !.is_paused = FALSE, !.is_dirty = TRUE]

\* What log_viewer_set_app resets before it loads the target's backlog line by
\* line; both filters survive the switch.
Reset(v) ==
  [v EXCEPT !.count = 0, !.head = 0, !.scroll_offset = 0, !.auto_scroll = TRUE,
            !.is_paused = FALSE, !.paused_buffered_count = 0, !.is_dirty = TRUE]

-----------------------------------------------------------------------------
(* The match cache of src/tui.c. *)

Passes(line, level, filter) ==
  \/ line.is_marker
  \/ /\ level = 2 => line.is_err
     /\ level = 1 => line.is_err \/ line.is_warn
     /\ filter <= line.depth

\* The slots of the lines that pass both filters, oldest first.
MatchingSlots(lines, head, count, level, filter) ==
  LET hits == {i \in 0 .. count - 1 : Passes(lines[SlotAt(head, i)], level, filter)}
  IN [k \in 1 .. Cardinality(hits) |-> SlotAt(head, InOrder(hits)[k])]

Matching(v) ==
  MatchingSlots(v.lines, v.head, v.count, v.level_filter, v.search_filter)

\* update_matching_indices: the cache it leaves; the caller clears is_dirty.
UpdateMatching(v, cached) == IF v.is_dirty THEN Matching(v) ELSE cached

\* The lines at some places of the cache, by arrival, markers left out.
AppLinesAt(v, m, places) ==
  LET taken == InOrder({k \in places : IsAppLine(v.lines[m[k]])})
  IN [j \in DOMAIN taken |-> v.lines[m[taken[j]]].arrival]

\* Mutant: with two markers, everything behind the first of them.
CopiedToEnd(v, m, selected) ==
  LET marks == InOrder({k \in DOMAIN m : v.lines[m[k]].is_marker})
      n     == Len(marks)
  IN AppLinesAt(v, m, CASE n = 0 -> {selected + 1} \cap DOMAIN m
                        [] n = 1 -> marks[1] + 1 .. Len(m)
                        [] n > 1 -> marks[n - 1] + 1 .. Len(m))

\* copy_marked_logs: the lines behind the only marker, those between the last two,
\* or the selected line; of the lines that match.
Copied(v, m, selected) ==
  LET marks == InOrder({k \in DOMAIN m : v.lines[m[k]].is_marker})
      n     == Len(marks)
  IN AppLinesAt(v, m, CASE n = 0 -> {selected + 1} \cap DOMAIN m
                        [] n = 1 -> marks[1] + 1 .. Len(m)
                        [] n > 1 -> marks[n - 1] + 1 .. marks[n] - 1)
=============================================================================
