--------------------------- MODULE LogViewerLemmas ---------------------------
(* Facts about the operators of LogViewer for every capacity of the ring: the  *)
(* slot arithmetic stays in the ring, sets of line positions can be listed in  *)
(* order, and every operation yields a well-typed viewer.                      *)
EXTENDS LogViewer, FiniteSetTheorems, SequenceTheorems, WellFoundedInduction, TLAPS

\* A set of natural numbers that is not empty has a least member.
LEMMA NatMin ==
  ASSUME NEW T \in SUBSET Nat, T # {}
  PROVE  \E x \in T : \A y \in T : x <= y
<1> DEFINE R == {ss \in Nat \X Nat : ss[1] < ss[2]}
<1>1. IsWellFoundedOn(R, Nat)
  BY NatLessThanWellFounded DEF OpToRel
<1>2. PICK x \in T : \A y \in T : ~(<< y, x >> \in R)
  BY <1>1, WFMin
<1>3. \A y \in T : ~(y < x)
  BY <1>2
<1> QED  BY <1>3

\* A set of line positions that is not empty has a greatest member.
LEMMA PositionMax ==
  ASSUME NEW b \in Nat, NEW S \in SUBSET (0 .. b), S # {}
  PROVE  \E m \in S : \A x \in S : x <= m
<1> DEFINE T == {b - x : x \in S}
<1>1. T \in SUBSET Nat /\ T # {}
  <2>1. \A x \in S : b - x \in Nat
    OBVIOUS
  <2>2. \E x \in S : b - x \in T
    OBVIOUS
  <2> QED  BY <2>1, <2>2
<1>2. PICK d \in T : \A y \in T : d <= y
  BY <1>1, NatMin
<1>3. PICK m \in S : d = b - m
  BY <1>2
<1>4. \A x \in S : x <= m
  <2> TAKE x \in S
  <2>1. d <= b - x
    BY <1>2
  <2> QED  BY <2>1, <1>3
<1> QED  BY <1>4

\* What it takes to list a set in increasing order.
Lists(q, n, S) == /\ q \in [1 .. n -> S]
                  /\ \A i, j \in 1 .. n : i < j => q[i] < q[j]

\* Every set of line positions can be listed in increasing order: a smallest
\* number of positions for which this fails would have a greatest position, and
\* the list of the others could be extended by it.
LEMMA ListExists ==
  ASSUME NEW b \in Nat
  PROVE  \A n \in Nat : \A S \in SUBSET (0 .. b) :
           Cardinality(S) = n => \E q : Lists(q, n, S)
<1> DEFINE Bad == {n \in Nat : \E S \in SUBSET (0 .. b) :
                                 Cardinality(S) = n /\ ~ \E q : Lists(q, n, S)}
<1>1. SUFFICES ASSUME Bad # {} PROVE FALSE
  OBVIOUS
<1>2. PICK n \in Bad : \A m \in Bad : n <= m
  BY <1>1, NatMin
<1>3. PICK S \in SUBSET (0 .. b) : Cardinality(S) = n /\ ~ \E q : Lists(q, n, S)
  BY <1>2
<1>4. IsFiniteSet(S)
  BY FS_Interval, FS_Subset, 0 \in Int, b \in Int
<1>5. n \in Nat
  BY <1>2
<1>6. S # {}
  <2> SUFFICES ASSUME S = {} PROVE FALSE
    OBVIOUS
  <2>1. n = 0
    BY <1>3, FS_EmptySet
  <2>2. Lists([i \in 1 .. 0 |-> 0], 0, S)
    BY DEF Lists
  <2> QED  BY <2>1, <2>2, <1>3
<1>7. PICK m \in S : \A x \in S : x <= m
  BY <1>6, PositionMax
<1> DEFINE U == S \ {m}
<1>8. Cardinality(U) = n - 1 /\ n - 1 \in Nat
  <2>1. Cardinality(U) = n - 1
    BY <1>4, <1>3, FS_RemoveElement
  <2>2. IsFiniteSet(U) /\ Cardinality(U) \in Nat
    BY <1>4, FS_RemoveElement, FS_CardinalityType
  <2> QED  BY <2>1, <2>2
<1>9. \E q : Lists(q, n - 1, U)
  <2>1. n - 1 \notin Bad
    BY <1>2, <1>5, <1>8
  <2>2. U \in SUBSET (0 .. b)
    OBVIOUS
  <2> QED  BY <2>1, <2>2, <1>8
<1>10. PICK q : Lists(q, n - 1, U)
  BY <1>9
<1> DEFINE r == [i \in 1 .. n |-> IF i = n THEN m ELSE q[i]]
<1>11. r \in [1 .. n -> S]
  BY <1>10, <1>5 DEF Lists
<1>12. ASSUME NEW i \in 1 .. n, NEW j \in 1 .. n, i < j PROVE r[i] < r[j]
  <2>1. i \in 1 .. n - 1 /\ r[i] = q[i] /\ q[i] \in U
    BY <1>10, <1>12, <1>5 DEF Lists
  <2>2. CASE j = n
    <3>1. r[j] = m /\ m \in 0 .. b
      BY <2>2
    <3>2. q[i] \in 0 .. b /\ q[i] <= m /\ q[i] # m
      BY <2>1, <1>7
    <3> HIDE DEF r
    <3> QED  BY <2>1, <3>1, <3>2
  <2>3. CASE j # n
    BY <2>1, <2>3, <1>10, <1>12, <1>5 DEF Lists
  <2> QED  BY <2>2, <2>3
<1>13. Lists(r, n, S)
  BY <1>11, <1>12 DEF Lists
<1> QED  BY <1>13, <1>3

\* InOrder lists every set of positions of the ring, without repetition.
LEMMA InOrderLists ==
  ASSUME NEW S \in SUBSET (0 .. Cap - 1)
  PROVE  /\ IsFiniteSet(S)
         /\ Cardinality(S) \in 0 .. Cap
         /\ Lists(InOrder(S), Cardinality(S), S)
<1>1. IsFiniteSet(S) /\ Cardinality(S) \in Nat /\ Cardinality(S) <= Cap
  <2>1. IsFiniteSet(0 .. Cap - 1) /\ Cardinality(0 .. Cap - 1) = Cap
    BY FS_Interval, CapAssumption, 0 \in Int, Cap - 1 \in Int
  <2> QED  BY <2>1, FS_Subset, FS_CardinalityType
<1>2. \E q : Lists(q, Cardinality(S), S)
  BY <1>1, ListExists, CapAssumption, Cap - 1 \in Nat
<1>3. \E q \in [1 .. Cardinality(S) -> S] :
        \A i, j \in 1 .. Cardinality(S) : i < j => q[i] < q[j]
  BY <1>2 DEF Lists
<1> QED  BY <1>1, <1>3, CapAssumption DEF InOrder, Lists

\* There are n positions below n.
LEMMA PositionsBelow ==
  ASSUME NEW n \in Nat
  PROVE  IsFiniteSet(0 .. n - 1) /\ Cardinality(0 .. n - 1) = n
BY FS_Interval, 0 \in Int, n - 1 \in Int

\* The list of all positions up to n is the positions themselves: an increasing
\* list can neither fall behind nor run ahead of its index.
LEMMA InOrderAll ==
  ASSUME NEW n \in 0 .. Cap
  PROVE  \A i \in 0 .. n - 1 : InOrder(0 .. n - 1)[i + 1] = i
<1> DEFINE S == 0 .. n - 1
           q == InOrder(S)
<1>1. n \in Nat /\ S \in SUBSET (0 .. Cap - 1)
  BY CapAssumption
<1>2. Cardinality(S) = n
  BY FS_Interval, <1>1, 0 \in Int, n - 1 \in Int
<1>3. q \in [1 .. n -> S] /\ \A i, j \in 1 .. n : i < j => q[i] < q[j]
  BY <1>1, <1>2, InOrderLists DEF Lists
<1> HIDE DEF q
<1>4. ASSUME NEW k \in 1 .. n PROVE q[k] >= k - 1
  <2> DEFINE Behind == {i \in 1 .. n : q[i] < i - 1}
  <2>0. q[k] \in S
    BY <1>3
  <2>1. SUFFICES ASSUME Behind # {} PROVE FALSE
    BY <2>0
  <2>2. Behind \in SUBSET Nat
    OBVIOUS
  <2>3. PICK m \in Behind : \A i \in Behind : m <= i
    BY <2>1, <2>2, NatMin
  <2>4. m \in 1 .. n /\ q[m] \in S /\ q[m] < m - 1
    BY <1>3, <2>3
  <2>5. m - 1 \in 1 .. n /\ q[m - 1] \in S /\ q[m - 1] < q[m]
    BY <1>1, <1>3, <2>4
  <2>6. m - 1 \notin Behind
    BY <2>3, <2>4
  <2> QED  BY <2>4, <2>5, <2>6
<1>5. ASSUME NEW k \in 1 .. n PROVE q[k] <= k - 1
  <2> DEFINE Ahead == {i \in 1 .. n : q[i] > i - 1}
  <2>0. q[k] \in S
    BY <1>3
  <2>1. SUFFICES ASSUME Ahead # {} PROVE FALSE
    BY <2>0
  <2>2. Ahead \in SUBSET (0 .. n)
    OBVIOUS
  <2>3. PICK m \in Ahead : \A i \in Ahead : i <= m
    BY <1>1, <2>1, <2>2, PositionMax
  <2>4. m \in 1 .. n /\ q[m] \in S /\ q[m] > m - 1
    BY <1>3, <2>3
  <2>5. m + 1 \in 1 .. n /\ q[m + 1] \in S /\ q[m] < q[m + 1]
    BY <1>1, <1>3, <2>4
  <2>6. m + 1 \notin Ahead
    BY <2>3, <2>4
  <2> QED  BY <2>4, <2>5, <2>6
<1>6. ASSUME NEW i \in 0 .. n - 1 PROVE q[i + 1] = i
  <2>1. i + 1 \in 1 .. n
    BY <1>1
  <2>2. q[i + 1] >= i /\ q[i + 1] <= i /\ q[i + 1] \in S
    BY <2>1, <1>3, <1>4, <1>5
  <2> QED  BY <2>2
<1> QED  BY <1>6 DEF q

-----------------------------------------------------------------------------
(* Slot arithmetic. *)

\* Positions up to one turn of the ring: the remainder is a single subtraction.
LEMMA SlotAtValue ==
  ASSUME NEW head \in Slots, NEW i \in 0 .. Cap
  PROVE  /\ SlotAt(head, i) = IF head + i < Cap THEN head + i ELSE head + i - Cap
         /\ SlotAt(head, i) \in Slots
<1>1. CASE head + i < Cap
  BY <1>1, CapAssumption DEF SlotAt, Slots
<1>2. CASE head + i >= Cap
  BY <1>2, CapAssumption DEF SlotAt, Slots
<1> QED  BY <1>1, <1>2, CapAssumption DEF Slots

\* The same for the distance of a slot from the head.
LEMMA LogicalValue ==
  ASSUME NEW head \in Slots, NEW s \in Slots
  PROVE  /\ Logical(head, s) = IF s < head THEN s - head + Cap ELSE s - head
         /\ Logical(head, s) \in 0 .. Cap - 1
<1>1. CASE s < head
  BY <1>1, CapAssumption DEF Logical, Slots
<1>2. CASE s >= head
  BY <1>2, CapAssumption DEF Logical, Slots
<1> QED  BY <1>1, <1>2, CapAssumption DEF Slots

\* SlotAt and Logical are inverses: no two live lines share a slot.
LEMMA SlotInverse ==
  ASSUME NEW head \in Slots
  PROVE  /\ \A i \in 0 .. Cap - 1 : Logical(head, SlotAt(head, i)) = i
         /\ \A s \in Slots : SlotAt(head, Logical(head, s)) = s
<1>1. ASSUME NEW i \in 0 .. Cap - 1 PROVE Logical(head, SlotAt(head, i)) = i
  <2> DEFINE s == SlotAt(head, i)
  <2>1. s = (IF head + i < Cap THEN head + i ELSE head + i - Cap) /\ s \in Slots
    BY SlotAtValue, CapAssumption
  <2> HIDE DEF s
  <2>2. Logical(head, s) = IF s < head THEN s - head + Cap ELSE s - head
    BY <2>1, LogicalValue
  <2>3. Logical(head, s) = i
    BY <2>1, <2>2, CapAssumption DEF Slots
  <2> QED  BY <2>3 DEF s
<1>2. ASSUME NEW s \in Slots PROVE SlotAt(head, Logical(head, s)) = s
  <2> DEFINE i == Logical(head, s)
  <2>1. i = (IF s < head THEN s - head + Cap ELSE s - head) /\ i \in 0 .. Cap
    BY LogicalValue, CapAssumption
  <2> HIDE DEF i
  <2>2. SlotAt(head, i) = IF head + i < Cap THEN head + i ELSE head + i - Cap
    BY <2>1, SlotAtValue
  <2>3. SlotAt(head, i) = s
    BY <2>1, <2>2, CapAssumption DEF Slots
  <2> QED  BY <2>3 DEF i
<1> QED  BY <1>1, <1>2

-----------------------------------------------------------------------------
(* Every operation yields a viewer. *)

\* What log_viewer_append makes of a text is a line; so are the two constants.
LEMMA LineTypes ==
  /\ ZeroLine \in LogLine
  /\ Marker \in LogLine
  /\ \A t \in Text, n \in Nat : AppLine(t, n) \in LogLine
<1>1. \A t \in Text, n \in Nat : AppLine(t, n) \in LogLine
  BY DEF AppLine, LogLine, AnyLine, Text
<1>2. ZeroLine \in AnyLine /\ Marker \in AnyLine /\ ~ZeroLine.is_marker
  <2>1. 0 \in Filters
    BY FilterCapAssumption DEF Filters
  <2>2. ZeroLine \in AnyLine /\ ~ZeroLine.is_marker
    BY <2>1 DEF ZeroLine, AnyLine
  <2> QED  BY <2>2 DEF Marker, AnyLine
<1> QED  BY <1>1, <1>2 DEF LogLine

\* A push evicts at most the oldest line and keeps the indices in the ring.
LEMMA PushType ==
  ASSUME NEW v \in Viewer, NEW line \in LogLine
  PROVE  /\ Push(v, line) \in Viewer
         /\ Push(v, line).is_dirty
         /\ Push(v, line).scroll_offset = v.scroll_offset
         /\ Push(v, line).auto_scroll = v.auto_scroll
         /\ Push(v, line).is_paused = v.is_paused
         /\ Push(v, line).paused_buffered_count = v.paused_buffered_count
<1>1. v.head \in Slots /\ v.count \in 0 .. Cap /\ v.lines \in [Slots -> LogLine]
  BY DEF Viewer
<1>2. SlotAt(v.head, 1) \in Slots /\ SlotAt(v.head, v.count) \in Slots
  BY <1>1, SlotAtValue, CapAssumption
<1>3. CASE v.count = Cap
  <2>1. Push(v, line) = [v EXCEPT !.lines = [v.lines EXCEPT ![v.head] = line],
                                  !.head = SlotAt(v.head, 1), !.is_dirty = TRUE]
    BY <1>3 DEF Push, Viewer
  <2>2. [v.lines EXCEPT ![v.head] = line] \in [Slots -> LogLine]
    BY <1>1
  <2> QED  BY <1>2, <2>1, <2>2 DEF Viewer
<1>4. CASE v.count # Cap
  <2>1. Push(v, line) = [v EXCEPT !.lines = [v.lines EXCEPT ![SlotAt(v.head, v.count)] = line],
                                  !.count = v.count + 1, !.is_dirty = TRUE]
    BY <1>4 DEF Push, Viewer
  <2>2. v.count + 1 \in 0 .. Cap
    BY <1>1, <1>4, CapAssumption
  <2>3. [v.lines EXCEPT ![SlotAt(v.head, v.count)] = line] \in [Slots -> LogLine]
    BY <1>1, <1>2
  <2> QED  BY <2>1, <2>2, <2>3 DEF Viewer
<1> QED  BY <1>3, <1>4

\* Appending a text: the pause counter grows by one or not at all, and the view
\* moves only to the bottom.
LEMMA AppendType ==
  ASSUME NEW v \in Viewer, NEW t \in Text, NEW n \in Nat
  PROVE  AppendLine(v, t, n) \in Viewer
<1>1. Push(v, AppLine(t, n)) \in Viewer
  BY LineTypes, PushType
<1> HIDE DEF Viewer
<1>2. t.blank \in BOOLEAN /\ v.is_paused \in BOOLEAN
  BY DEF Viewer, Text
<1> QED
  BY <1>1, <1>2 DEF AppendLine, Viewer

\* A marker placed behind any slot.
LEMMA InsertType ==
  ASSUME NEW v \in Viewer, NEW slot \in Slots
  PROVE  InsertMarkerAfter(v, slot) \in Viewer
<1>1. /\ v.head \in Slots /\ v.count \in 0 .. Cap /\ v.lines \in [Slots -> LogLine]
      /\ Logical(v.head, slot) \in 0 .. Cap - 1
  BY LogicalValue DEF Viewer
<1> DEFINE full == v.count = Cap
           k    == IF Logical(v.head, slot) >= v.count
                   THEN v.count - 1 ELSE Logical(v.head, slot)
           head == IF full THEN SlotAt(v.head, 1) ELSE v.head
           count == IF full THEN Cap ELSE v.count + 1
           at   == IF full THEN k ELSE k + 1
           Shifted(s) ==
             LET i == Logical(head, s)
             IN IF i = at THEN Marker
                ELSE IF at < i /\ i < count THEN v.lines[SlotAt(head, i - 1)]
                ELSE v.lines[s]
<1>2. CASE v.count = 0
  BY <1>2 DEF InsertMarkerAfter
<1>3. CASE v.count # 0
  <2>1. /\ head \in Slots /\ count \in 0 .. Cap
        /\ k \in 0 .. Cap - 1 /\ at \in 0 .. Cap
    <3>1. SlotAt(v.head, 1) \in Slots
      BY <1>1, SlotAtValue, CapAssumption
    <3>2. k \in 0 .. Cap - 1
      BY <1>1, <1>3, CapAssumption
    <3> HIDE DEF k
    <3> QED  BY <1>1, <1>3, <3>1, <3>2, CapAssumption
  <2>2. ASSUME NEW s \in Slots PROVE Shifted(s) \in LogLine
    <3> HIDE DEF head, count, at, k, full
    <3>1. Logical(head, s) \in 0 .. Cap - 1
      BY <2>1, LogicalValue
    <3>2. at < Logical(head, s) => SlotAt(head, Logical(head, s) - 1) \in Slots
      BY <2>1, <3>1, SlotAtValue, CapAssumption
    <3> QED  BY <3>1, <3>2, <1>1, LineTypes
  <2>3. [s \in Slots |-> Shifted(s)] \in [Slots -> LogLine]
    BY <2>2
  <2>4. InsertMarkerAfter(v, slot) =
          [v EXCEPT !.lines = [s \in Slots |-> Shifted(s)],
                    !.head = head, !.count = count, !.is_dirty = TRUE]
    BY <1>3 DEF InsertMarkerAfter, LineAt, PlaceBehind
  <2> HIDE DEF head, count, Shifted
  <2> QED  BY <2>1, <2>3, <2>4 DEF Viewer
<1> QED  BY <1>2, <1>3

\* Markers removed: the lines that stay are listed by InOrder.
LEMMA ClearType ==
  ASSUME NEW v \in Viewer
  PROVE  ClearMarkers(v) \in Viewer
<1>1. /\ v.head \in Slots /\ v.count \in 0 .. Cap /\ v.lines \in [Slots -> LogLine]
  BY DEF Viewer
<1> DEFINE kept == {i \in 0 .. v.count - 1 : IsAppLine(v.lines[SlotAt(v.head, i)])}
           n    == Cardinality(kept)
           Packed(s) ==
             LET i == Logical(v.head, s)
             IN IF i < n THEN v.lines[SlotAt(v.head, InOrder(kept)[i + 1])] ELSE v.lines[s]
<1>2. kept \in SUBSET (0 .. Cap - 1)
  BY <1>1, CapAssumption
<1>3. n \in 0 .. Cap /\ InOrder(kept) \in [1 .. n -> kept]
  BY <1>2, InOrderLists DEF Lists
<1>4. ASSUME NEW s \in Slots PROVE Packed(s) \in LogLine
  <2> HIDE DEF n, kept
  <2>1. Logical(v.head, s) \in 0 .. Cap - 1
    BY <1>1, LogicalValue
  <2>2. ASSUME Logical(v.head, s) < n
        PROVE  SlotAt(v.head, InOrder(kept)[Logical(v.head, s) + 1]) \in Slots
    <3>1. Logical(v.head, s) + 1 \in 1 .. n
      BY <1>3, <2>1, <2>2, CapAssumption
    <3>2. InOrder(kept)[Logical(v.head, s) + 1] \in kept
      BY <1>3, <3>1
    <3>3. InOrder(kept)[Logical(v.head, s) + 1] \in 0 .. Cap - 1
      BY <1>2, <3>2
    <3> QED  BY <3>3, <1>1, SlotAtValue, CapAssumption
  <2> QED  BY <2>1, <2>2, <1>1
<1>5. [s \in Slots |-> Packed(s)] \in [Slots -> LogLine]
  BY <1>4
<1>6. ClearMarkers(v) = [v EXCEPT !.lines = [s \in Slots |-> Packed(s)], !.count = n,
                                  !.is_dirty = @ \/ n < v.count]
  BY DEF ClearMarkers
<1> HIDE DEF n, Packed
<1> QED  BY <1>3, <1>5, <1>6 DEF Viewer

\* Filters, pause, scrolling and the reset of a switch.
LEMMA ControlType ==
  ASSUME NEW v \in Viewer, NEW level \in Levels, NEW filter \in Filters, NEW delta \in Nat
  PROVE  /\ SetLevelFilter(v, level) \in Viewer
         /\ SetFilter(v, filter) \in Viewer
         /\ TogglePause(v) \in Viewer
         /\ ScrollUp(v, delta) \in Viewer
         /\ ScrollToBottom(v) \in Viewer
         /\ ScrollDown(v, delta) \in Viewer
         /\ Reset(v) \in Viewer
<1>1. SetLevelFilter(v, level) \in Viewer /\ SetFilter(v, filter) \in Viewer
  BY DEF SetLevelFilter, SetFilter, Viewer
<1>2. TogglePause(v) \in Viewer
  BY DEF TogglePause, Viewer
<1>3. ScrollUp(v, delta) \in Viewer
  <2> DEFINE off == IF v.scroll_offset + delta >= v.count
                    THEN v.count - 1 ELSE v.scroll_offset + delta
  <2>1. v.count # 0 => off \in Nat
    BY CapAssumption DEF Viewer
  <2>2. ScrollUp(v, delta) = IF v.count = 0 THEN v
                             ELSE [v EXCEPT !.auto_scroll = FALSE, !.scroll_offset = off]
    BY DEF ScrollUp
  <2> HIDE DEF off
  <2> QED  BY <2>1, <2>2 DEF Viewer
<1>4. ScrollToBottom(v) \in Viewer
  BY DEF ScrollToBottom, Viewer
<1>5. ScrollDown(v, delta) \in Viewer
  BY <1>4 DEF ScrollDown, Viewer
<1>6. Reset(v) \in Viewer
  <2>1. 0 \in Slots /\ 0 \in 0 .. Cap
    BY CapAssumption DEF Slots
  <2> QED  BY <2>1 DEF Reset, Viewer
<1> QED  BY <1>1, <1>2, <1>3, <1>4, <1>5, <1>6

\* The cache holds slots of the ring.
LEMMA MatchingType ==
  ASSUME NEW v \in Viewer
  PROVE  Matching(v) \in Seq(Slots) /\ Len(Matching(v)) <= Cap
<1> DEFINE hits == {i \in 0 .. v.count - 1 :
                     Passes(v.lines[SlotAt(v.head, i)], v.level_filter, v.search_filter)}
           n    == Cardinality(hits)
<1>1. v.head \in Slots /\ v.count \in 0 .. Cap
  BY DEF Viewer
<1>2. hits \in SUBSET (0 .. Cap - 1)
  BY <1>1, CapAssumption
<1>3. n \in 0 .. Cap /\ InOrder(hits) \in [1 .. n -> hits]
  BY <1>2, InOrderLists DEF Lists
<1>4. Matching(v) = [k \in 1 .. n |-> SlotAt(v.head, InOrder(hits)[k])]
  BY DEF Matching, MatchingSlots
<1> HIDE DEF n, hits
<1>5. \A k \in 1 .. n : SlotAt(v.head, InOrder(hits)[k]) \in Slots
  <2> TAKE k \in 1 .. n
  <2>1. InOrder(hits)[k] \in 0 .. Cap - 1
    BY <1>2, <1>3
  <2> QED  BY <2>1, <1>1, SlotAtValue, CapAssumption
<1> QED  BY <1>3, <1>4, <1>5

-----------------------------------------------------------------------------
(* The match cache. *)

\* What the cache is computed from.
SameLines(v, w) == /\ w.lines = v.lines /\ w.head = v.head /\ w.count = v.count
                   /\ w.level_filter = v.level_filter
                   /\ w.search_filter = v.search_filter

\* A scan reads the lines, the indices and the filters, and nothing else.
LEMMA MatchingSame ==
  ASSUME NEW v, NEW w, SameLines(v, w)
  PROVE  Matching(w) = Matching(v)
BY DEF SameLines, Matching

\* An operation either asks for a rescan or leaves everything a rescan reads.
Announces(v, w) == w.is_dirty \/ (w.is_dirty = v.is_dirty /\ SameLines(v, w))

\* A received line sets is_dirty, a blank one changes nothing (log_viewer.c 257-320).
LEMMA AppendAnnounces ==
  ASSUME NEW v \in Viewer, NEW t \in Text, NEW n \in Nat
  PROVE  Announces(v, AppendLine(v, t, n))
<1> DEFINE p == Push(v, AppLine(t, n))
<1>1. p \in Viewer /\ p.is_dirty
  BY LineTypes, PushType
<1>2. t.blank \in BOOLEAN /\ v.is_paused \in BOOLEAN
  BY DEF Viewer, Text
<1> HIDE DEF p
<1>3. CASE t.blank
  BY <1>3, <1>2 DEF AppendLine, Announces, SameLines
<1>4. CASE ~t.blank /\ v.is_paused
  <2>1. AppendLine(v, t, n) = [p EXCEPT !.paused_buffered_count = @ + 1]
    BY <1>4 DEF AppendLine, p
  <2> QED  BY <2>1, <1>1 DEF Viewer, Announces
<1>5. CASE ~t.blank /\ ~v.is_paused
  <2>1. AppendLine(v, t, n) = [p EXCEPT !.scroll_offset = IF v.auto_scroll THEN 0 ELSE @]
    BY <1>5 DEF AppendLine, p
  <2> QED  BY <2>1, <1>1 DEF Viewer, Announces
<1> QED  BY <1>2, <1>3, <1>4, <1>5

\* Markers: placed ones are announced, and clearing when there is none changes no
\* slot at all.
LEMMA MarkersAnnounce ==
  ASSUME NEW v \in Viewer, NEW slot \in Slots,
         NEW w \in {AddMarker(v), InsertMarkerAfter(v, slot), ClearMarkers(v)}
  PROVE  Announces(v, w)
<1>1. CASE w = AddMarker(v)
  <2>1. Push(v, Marker) \in Viewer /\ Push(v, Marker).is_dirty
    BY LineTypes, PushType
  <2> QED  BY <1>1, <2>1 DEF AddMarker, Viewer, Announces
<1>2. CASE w = InsertMarkerAfter(v, slot)
  BY <1>2 DEF InsertMarkerAfter, Viewer, Announces, SameLines
<1>3. CASE w = ClearMarkers(v)
  <2> DEFINE kept == {i \in 0 .. v.count - 1 : IsAppLine(v.lines[SlotAt(v.head, i)])}
             n    == Cardinality(kept)
             Packed(s) ==
               LET i == Logical(v.head, s)
               IN IF i < n THEN v.lines[SlotAt(v.head, InOrder(kept)[i + 1])]
                  ELSE v.lines[s]
  <2>1. w = [v EXCEPT !.lines = [s \in Slots |-> Packed(s)], !.count = n,
                      !.is_dirty = @ \/ n < v.count]
    BY <1>3 DEF ClearMarkers
  <2>2. v.head \in Slots /\ v.count \in 0 .. Cap /\ v.lines \in [Slots -> LogLine]
        /\ v.is_dirty \in BOOLEAN
    BY DEF Viewer
  <2>3. kept \in SUBSET (0 .. v.count - 1) /\ v.count \in Nat
    BY <2>2, CapAssumption
  <2>4. /\ IsFiniteSet(0 .. v.count - 1) /\ Cardinality(0 .. v.count - 1) = v.count
    BY <2>3, PositionsBelow
  <2>5. n \in Nat /\ n <= v.count /\ (n = v.count => kept = 0 .. v.count - 1)
    <3>1. PICK k, P : k = kept /\ P = 0 .. v.count - 1
      OBVIOUS
    <3>2. k \in SUBSET P /\ IsFiniteSet(P) /\ Cardinality(P) = v.count
      BY <2>3, <2>4, <3>1
    <3>3. IsFiniteSet(k) /\ Cardinality(k) <= Cardinality(P)
          /\ (Cardinality(P) = Cardinality(k) => P = k)
      BY <3>2, FS_Subset
    <3>4. Cardinality(k) \in Nat
      BY <3>3, FS_CardinalityType
    <3> QED  BY <3>1, <3>2, <3>3, <3>4
  <2>6. CASE n = v.count /\ ~v.is_dirty
    <3>1. ASSUME NEW s \in Slots PROVE Packed(s) = v.lines[s]
      <4> DEFINE i == Logical(v.head, s)
      <4>1. i \in 0 .. Cap - 1 /\ SlotAt(v.head, i) = s
        BY <2>2, LogicalValue, SlotInverse
      <4> HIDE DEF i
      <4>2. CASE i < n
        <5>1. kept = 0 .. v.count - 1 /\ i \in 0 .. v.count - 1
          BY <2>5, <2>6, <4>1, <4>2
        <5>2. InOrder(0 .. v.count - 1)[i + 1] = i
          BY <2>2, <5>1, InOrderAll
        <5>3. InOrder(kept)[i + 1] = i
          BY <5>1, <5>2
        <5> HIDE DEF kept, n
        <5> QED  BY <4>1, <4>2, <5>3 DEF i
      <4>3. CASE ~(i < n)
        BY <4>3 DEF i
      <4> QED  BY <4>2, <4>3
    <3>2. [s \in Slots |-> Packed(s)] = v.lines
      BY <2>2, <3>1
    <3> HIDE DEF n, Packed
    <3> QED  BY <2>1, <2>2, <2>6, <3>2 DEF Announces, SameLines, Viewer
  <2>7. CASE n < v.count \/ v.is_dirty
    <3> HIDE DEF n, Packed
    <3> QED  BY <2>1, <2>7 DEF Announces, Viewer
  <2> HIDE DEF n
  <2> QED  BY <2>2, <2>5, <2>6, <2>7, CapAssumption
<1> QED  BY <1>1, <1>2, <1>3

\* Filters and the switch of the target set is_dirty; pause and scrolling need not.
LEMMA ControlAnnounces ==
  ASSUME NEW v \in Viewer, NEW level \in Levels, NEW filter \in Filters, NEW delta \in Nat,
         NEW w \in {SetLevelFilter(v, level), SetFilter(v, filter), TogglePause(v),
                    ScrollUp(v, delta), ScrollDown(v, delta), ScrollToBottom(v), Reset(v)}
  PROVE  Announces(v, w)
BY DEF Announces, SameLines, Viewer, SetLevelFilter, SetFilter, TogglePause, ScrollUp,
       ScrollDown, ScrollToBottom, Reset

-----------------------------------------------------------------------------
(* Where a marker goes. *)

\* Moving the head by one shifts every position by one.
LEMMA SlotNext ==
  ASSUME NEW head \in Slots, NEW i \in 0 .. Cap - 1
  PROVE  SlotAt(SlotAt(head, 1), i) = SlotAt(head, i + 1)
<1>1. Cap \in Nat /\ Cap >= 1 /\ head \in 0 .. Cap - 1
  BY CapAssumption DEF Slots
<1>2. 1 \in 0 .. Cap /\ i \in 0 .. Cap /\ i + 1 \in 0 .. Cap
  BY <1>1
<1>3. PICK h : h = SlotAt(head, 1)
  OBVIOUS
<1>4. h \in Slots /\ h = IF head + 1 < Cap THEN head + 1 ELSE head + 1 - Cap
  BY <1>2, <1>3, SlotAtValue
<1>5. SlotAt(h, i) = IF h + i < Cap THEN h + i ELSE h + i - Cap
  BY <1>2, <1>4, SlotAtValue
<1>6. SlotAt(head, i + 1) = IF head + (i + 1) < Cap THEN head + (i + 1) ELSE head + (i + 1) - Cap
  BY <1>2, SlotAtValue
<1>7. h \in 0 .. Cap - 1
  BY <1>4 DEF Slots
<1>8. CASE head + 1 < Cap
  BY <1>1, <1>3, <1>4, <1>5, <1>6, <1>7, <1>8
<1>9. CASE ~(head + 1 < Cap)
  BY <1>1, <1>3, <1>4, <1>5, <1>6, <1>7, <1>9
<1> QED  BY <1>1, <1>3, <1>8, <1>9

\* A sequence with m behind its p-th place, and without its first if it was full.
Marked(q, m, p, cap) ==
  LET drop == IF Len(q) = cap THEN 1 ELSE 0
  IN [i \in 1 .. Len(q) + 1 - drop |->
        IF i + drop <= p THEN q[i + drop]
        ELSE IF i + drop = p + 1 THEN m ELSE q[i + drop - 1]]

Inserted(q, m, p, cap) ==
  LET r == SubSeq(q, 1, p) \o << m >> \o SubSeq(q, p + 1, Len(q))
  IN IF Len(r) > cap THEN Tail(r) ELSE r

\* What InsertMarkerAfter makes of the ring: the live lines up to the p-th, the
\* marker, and those behind it, without the oldest line when the ring was full.
LEMMA InsertWindow ==
  ASSUME NEW v \in Viewer, NEW p \in 1 .. v.count
  PROVE  Window(InsertMarkerAfter(v, SlotAt(v.head, p - 1))) = Marked(Window(v), Marker, p, Cap)
<1> DEFINE slot == SlotAt(v.head, p - 1)
           full == v.count = Cap
           drop == IF full THEN 1 ELSE 0
           head == IF full THEN SlotAt(v.head, 1) ELSE v.head
           count == IF full THEN Cap ELSE v.count + 1
           at   == PlaceBehind(full, LineAt(v, slot))
           Shifted(s) ==
             LET i == Logical(head, s)
             IN IF i = at THEN Marker
                ELSE IF at < i /\ i < count THEN v.lines[SlotAt(head, i - 1)]
                ELSE v.lines[s]
           w == [v EXCEPT !.lines = [s \in Slots |-> Shifted(s)],
                          !.head = head, !.count = count, !.is_dirty = TRUE]
<1>1. /\ v.head \in Slots /\ v.count \in 1 .. Cap /\ v.lines \in [Slots -> LogLine]
      /\ p \in Nat /\ p <= v.count /\ p >= 1 /\ Cap \in Nat /\ Cap >= 1
  BY CapAssumption DEF Viewer
<1>2. /\ slot \in Slots /\ Logical(v.head, slot) = p - 1
  <2>1. p - 1 \in 0 .. Cap - 1 /\ p - 1 \in 0 .. Cap
    BY <1>1
  <2> QED  BY <1>1, <2>1, SlotAtValue, SlotInverse
<1> HIDE DEF slot
<1>3. LineAt(v, slot) = p - 1
  BY <1>1, <1>2 DEF LineAt
<1>4. at = IF full THEN p - 1 ELSE p
  BY <1>1, <1>3 DEF PlaceBehind
<1>5. InsertMarkerAfter(v, slot) = w
  BY <1>1, <1>2 DEF InsertMarkerAfter
<1>6. head \in Slots /\ count = v.count + 1 - drop /\ count \in 1 .. Cap /\ at = p - drop
  <2>1. SlotAt(v.head, 1) \in Slots
    BY <1>1, SlotAtValue
  <2> QED  BY <1>1, <1>4, <2>1
<1>7. drop \in {0, 1} /\ (drop = 1 <=> full)
  OBVIOUS
<1>8. \A i \in 0 .. count - 1 : SlotAt(head, i) \in Slots /\ Logical(head, SlotAt(head, i)) = i
  <2> HIDE DEF head, count
  <2> TAKE i \in 0 .. count - 1
  <2>1. i \in 0 .. Cap - 1 /\ i \in 0 .. Cap
    BY <1>1, <1>6
  <2> QED  BY <1>6, <2>1, SlotAtValue, SlotInverse
<1>9. \A i \in 0 .. count - 1 : SlotAt(head, i) = SlotAt(v.head, i + drop)
  <2> TAKE i \in 0 .. count - 1
  <2>1. CASE full
    <3>1. i \in 0 .. Cap - 1
      BY <1>1, <2>1
    <3>2. SlotAt(SlotAt(v.head, 1), i) = SlotAt(v.head, i + 1)
      BY <1>1, <3>1, SlotNext
    <3> QED  BY <2>1, <3>2
  <2>2. CASE ~full
    BY <1>1, <2>2
  <2> QED  BY <2>1, <2>2
<1>10. ASSUME NEW i \in 1 .. count
       PROVE  Window(w)[i] =
                IF i + drop <= p THEN Window(v)[i + drop]
                ELSE IF i + drop = p + 1 THEN Marker ELSE Window(v)[i + drop - 1]
  <2> HIDE DEF head, count, drop, at, full, Shifted
  <2>1. w.head = head /\ w.count = count /\ w.lines = [s \in Slots |-> Shifted(s)]
    BY DEF Viewer
  <2> DEFINE s == SlotAt(head, i - 1)
  <2>2. i - 1 \in 0 .. count - 1
    BY <1>6
  <2>3. s \in Slots /\ Logical(head, s) = i - 1 /\ s = SlotAt(v.head, i + drop - 1)
    <3>1. (i - 1) + drop = i + drop - 1
      BY <1>6, <1>7
    <3> QED  BY <1>8, <1>9, <2>2, <3>1
  <2>4. Window(w)[i] = Shifted(s)
    BY <2>1, <2>3 DEF Window
  <2>8. \A j \in 1 .. v.count : Window(v)[j] = v.lines[SlotAt(v.head, j - 1)]
    BY DEF Window
  <2> HIDE DEF s, w
  <2>5. CASE i + drop <= p
    <3>1. i - 1 < at /\ i + drop \in 1 .. v.count
      BY <1>1, <1>6, <1>7, <2>5
    <3>2. Shifted(s) = v.lines[s]
      BY <1>6, <1>7, <1>1, <2>3, <3>1 DEF Shifted
    <3>3. Window(v)[i + drop] = v.lines[SlotAt(v.head, i + drop - 1)]
      <4>1. PICK j : j = i + drop
        OBVIOUS
      <4>2. Window(v)[j] = v.lines[SlotAt(v.head, j - 1)]
        BY <2>8, <3>1, <4>1
      <4>3. j - 1 = i + drop - 1
        BY <1>6, <1>7, <4>1
      <4> QED  BY <4>1, <4>2, <4>3
    <3> QED  BY <2>3, <2>4, <2>5, <3>2, <3>3
  <2>6. CASE i + drop = p + 1
    <3>1. i - 1 = at
      BY <1>1, <1>6, <1>7, <2>6
    <3>2. Shifted(s) = Marker
      BY <2>3, <3>1 DEF Shifted
    <3> QED  BY <1>1, <2>4, <2>6, <3>2
  <2>7. CASE i + drop > p + 1
    <3>1. at < i - 1 /\ i - 1 < count /\ i + drop - 1 \in 1 .. v.count /\ i - 2 \in 0 .. count - 1
      BY <1>1, <1>6, <1>7, <2>7
    <3>2. Shifted(s) = v.lines[SlotAt(head, i - 1 - 1)]
      BY <1>6, <1>7, <1>1, <2>3, <3>1 DEF Shifted
    <3>3. i - 1 - 1 = i - 2 /\ i - 2 + drop = i + drop - 1 - 1
      BY <1>6, <1>7
    <3>4. SlotAt(head, i - 2) = SlotAt(v.head, i - 2 + drop)
      BY <1>9, <3>1
    <3>5. Window(v)[i + drop - 1] = v.lines[SlotAt(v.head, i + drop - 1 - 1)]
      <4>1. PICK j : j = i + drop - 1
        OBVIOUS
      <4>2. Window(v)[j] = v.lines[SlotAt(v.head, j - 1)]
        BY <2>8, <3>1, <4>1
      <4>3. j - 1 = i + drop - 1 - 1
        BY <1>6, <1>7, <4>1
      <4> QED  BY <4>1, <4>2, <4>3
    <3> QED  BY <1>1, <1>6, <1>7, <2>4, <2>7, <3>2, <3>3, <3>4, <3>5
  <2> QED  BY <1>1, <1>6, <1>7, <2>5, <2>6, <2>7
<1>11. Window(w) = [i \in 1 .. count |-> Window(w)[i]]
  <2>1. w.count = count
    BY DEF Viewer
  <2> HIDE DEF w, count
  <2> QED  BY <2>1 DEF Window
<1>12. Window(w) = [i \in 1 .. count |->
                 IF i + drop <= p THEN Window(v)[i + drop]
                 ELSE IF i + drop = p + 1 THEN Marker ELSE Window(v)[i + drop - 1]]
  <2> HIDE DEF w, count, drop
  <2> QED  BY <1>10, <1>11
<1>13. Len(Window(v)) = v.count
  BY <1>1 DEF Window
<1> QED
  BY <1>5, <1>6, <1>12, <1>13 DEF slot, Marked

\* The same of the window: MarkedBehind, position by position.
LEMMA InsertedIsMarked ==
  ASSUME NEW S, NEW q \in Seq(S), NEW m \in S, NEW p \in 1 .. Len(q), NEW cap \in Nat,
         Len(q) <= cap
  PROVE  Inserted(q, m, p, cap) = Marked(q, m, p, cap)
<1>1. PICK n : n = Len(q)
  OBVIOUS
<1>2. n \in Nat /\ p \in Nat /\ 1 <= p /\ p <= n /\ n <= cap /\ \A i \in 1 .. n : q[i] \in S
  BY <1>1, LenProperties
<1>3. PICK a : a = SubSeq(q, 1, p)
  OBVIOUS
<1>4. PICK b : b = SubSeq(q, p + 1, n)
  OBVIOUS
<1>5. a \in Seq(S) /\ Len(a) = p /\ \A i \in 1 .. p : a[i] = q[i]
  <2>1. \A i \in 1 .. p : q[i] \in S
    BY <1>2
  <2>2. /\ a \in Seq(S) /\ Len(a) = IF 1 <= p THEN p - 1 + 1 ELSE 0
        /\ \A i \in 1 .. p - 1 + 1 : a[i] = q[1 + i - 1]
    BY <1>2, <1>3, <2>1, SubSeqProperties
  <2> QED  BY <1>2, <2>2
<1>6. b \in Seq(S) /\ Len(b) = n - p /\ \A i \in 1 .. n - p : b[i] = q[p + i]
  <2>1. \A i \in p + 1 .. n : q[i] \in S
    BY <1>2
  <2>2. /\ b \in Seq(S) /\ Len(b) = IF p + 1 <= n THEN n - (p + 1) + 1 ELSE 0
        /\ \A i \in 1 .. n - (p + 1) + 1 : b[i] = q[p + 1 + i - 1]
    <3>1. p + 1 \in Int /\ n \in Int
      BY <1>2
    <3> QED  BY <1>4, <2>1, <3>1, SubSeqProperties
  <2> QED  BY <1>2, <2>2
<1>7. << m >> \in Seq(S) /\ Len(<< m >>) = 1 /\ << m >>[1] = m
  OBVIOUS
<1>8. PICK ab : ab = a \o << m >>
  OBVIOUS
<1>9. /\ ab \in Seq(S) /\ Len(ab) = p + 1
      /\ \A i \in 1 .. p + 1 : ab[i] = IF i <= p THEN a[i] ELSE << m >>[i - p]
  BY <1>5, <1>7, <1>8, ConcatProperties
<1>10. PICK r : r = ab \o b
  OBVIOUS
<1>11. /\ r \in Seq(S) /\ Len(r) = n + 1
       /\ \A i \in 1 .. n + 1 : r[i] = IF i <= p + 1 THEN ab[i] ELSE b[i - (p + 1)]
  <2>1. /\ r \in Seq(S) /\ Len(r) = Len(ab) + Len(b)
        /\ \A i \in 1 .. Len(ab) + Len(b) : r[i] = IF i <= Len(ab) THEN ab[i] ELSE b[i - Len(ab)]
    BY <1>6, <1>9, <1>10, ConcatProperties
  <2>2. Len(ab) = p + 1 /\ Len(ab) + Len(b) = n + 1
    BY <1>2, <1>6, <1>9
  <2> QED  BY <2>1, <2>2
<1>12. ASSUME NEW i \in 1 .. n + 1
       PROVE  r[i] = IF i <= p THEN q[i] ELSE IF i = p + 1 THEN m ELSE q[i - 1]
  <2>1. CASE i <= p
    BY <1>2, <1>5, <1>9, <1>11, <2>1
  <2>2. CASE i = p + 1
    <3>1. i \in 1 .. p + 1 /\ i - p = 1 /\ ~(i <= p)
      BY <1>2, <2>2
    <3> QED  BY <1>7, <1>9, <1>11, <2>2, <3>1
  <2>3. CASE i > p + 1
    <3>1. i - (p + 1) \in 1 .. n - p /\ p + (i - (p + 1)) = i - 1
      BY <1>2, <2>3
    <3>2. b[i - (p + 1)] = q[i - 1]
      BY <1>6, <3>1
    <3> QED  BY <1>2, <1>11, <2>3, <3>2
  <2> QED  BY <1>2, <2>1, <2>2, <2>3
<1>13. r = SubSeq(q, 1, p) \o << m >> \o SubSeq(q, p + 1, Len(q))
  BY <1>1, <1>3, <1>4, <1>8, <1>10
<1>14. CASE n = cap
  <2>1. r # << >> /\ Len(r) > cap
    BY <1>2, <1>11, <1>14, EmptySeq
  <2>2. /\ Tail(r) \in Seq(S) /\ Len(Tail(r)) = Len(r) - 1
        /\ \A i \in 1 .. Len(Tail(r)) : Tail(r)[i] = r[i + 1]
    BY <1>11, <2>1, HeadTailProperties
  <2>3. Len(Tail(r)) = n
    BY <1>2, <1>11, <2>2
  <2>4. Tail(r) = [i \in 1 .. n |-> Tail(r)[i]]
    BY <2>2, <2>3, LenProperties
  <2>5. \A i \in 1 .. n : Tail(r)[i] = IF i + 1 <= p THEN q[i + 1]
                                        ELSE IF i + 1 = p + 1 THEN m ELSE q[i + 1 - 1]
    <3> TAKE i \in 1 .. n
    <3>1. i + 1 \in 1 .. n + 1
      BY <1>2
    <3> QED  BY <1>12, <2>2, <2>3, <3>1
  <2>6. Tail(r) = [i \in 1 .. n + 1 - 1 |-> IF i + 1 <= p THEN q[i + 1]
                                            ELSE IF i + 1 = p + 1 THEN m ELSE q[i + 1 - 1]]
    <3>1. n + 1 - 1 = n
      BY <1>2
    <3> QED  BY <2>4, <2>5, <3>1
  <2> QED  BY <1>1, <1>13, <1>14, <2>1, <2>6 DEF Inserted, Marked
<1>15. CASE n # cap
  <2>1. ~(Len(r) > cap)
    BY <1>2, <1>11, <1>15
  <2>2. r = [i \in 1 .. n + 1 |-> r[i]]
    BY <1>11, LenProperties
  <2>3. \A i \in 1 .. n + 1 : r[i] = IF i + 0 <= p THEN q[i + 0]
                                      ELSE IF i + 0 = p + 1 THEN m ELSE q[i + 0 - 1]
    <3> TAKE i \in 1 .. n + 1
    <3>1. i + 0 = i
      BY <1>2
    <3> QED  BY <1>12, <3>1
  <2>4. r = [i \in 1 .. n + 1 - 0 |-> IF i + 0 <= p THEN q[i + 0]
                                      ELSE IF i + 0 = p + 1 THEN m ELSE q[i + 0 - 1]]
    <3>1. n + 1 - 0 = n + 1
      BY <1>2
    <3> QED  BY <2>2, <2>3, <3>1
  <2> QED  BY <1>1, <1>13, <1>15, <2>1, <2>4 DEF Inserted, Marked
<1> QED  BY <1>14, <1>15
=============================================================================
