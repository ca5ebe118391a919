------------------------------ MODULE Dashboard ------------------------------
(* The event loop of src/tui.c: one frame polls the journal stream, refreshes  *)
(* the list of apps, switches the stream when another row is selected, draws,  *)
(* and handles at most one key.  The loop has one thread; what happens around  *)
(* it - lines, other fdash processes, the user - happens between its steps.    *)
(*                                                                             *)
(* A terminal sends an arrow or paging key as several bytes; the loop reads    *)
(* one, and more only where it expects a sequence, so bytes of a key may be    *)
(* left for later frames.                                                      *)
EXTENDS LogViewer, SequencesExt

CONSTANTS
  Texts,       \* the texts a journal line may have
  Keys,        \* the keys the user presses, each as the bytes it sends
  MaxApps,     \* apps are named 1 .. MaxApps, as the list orders them
  SplitRows,   \* log lines drawn below the process table
  FullRows,    \* log lines drawn in fullscreen
  SplitGuess,  \* log lines the arrow keys reckon with below the table; in
               \* fullscreen they reckon with one more than are drawn
  Updates,     \* what a look for a newer release may answer
  MaxArrivals, \* bound: lines received from one stream
  MaxChanges   \* bound: changes other processes make to the registered apps

ASSUME DashboardAssumption ==
  /\ Texts \subseteq Text /\ Keys \subseteq Seq(STRING) /\ Updates \subseteq BOOLEAN
  /\ {MaxApps, SplitRows, FullRows, SplitGuess, MaxArrivals, MaxChanges} \subseteq Nat

VARIABLES
  phase,       \* where the loop is in its frame
  input,       \* bytes sent by the terminal and not read yet
  ui,          \* TUIState, but for the two below
  lv,          \* its LogViewer
  matching,    \* its matching_indices[0 .. match_count - 1]
  apps,        \* the list systemd_list_all returned last
  registered,  \* the apps that have a unit file
  target,      \* last_target: the app whose log is streamed, 0 for [ALL APPS]
  bounds       \* how much of each bound is used

loop == << phase, input >>
vars == << loop, ui, lv, matching, apps, registered, target, bounds >>

Modes == {"normal", "search", "detail", "delete", "update"}

Init ==
  /\ phase = "poll"
  /\ input = << >>
  /\ \E update \in Updates :
       ui = [selected_idx |-> 0, last_app_idx |-> 1, fullscreen_logs |-> FALSE,
             focus |-> "processes", selected_log_idx |-> -1, mode |-> "normal",
             search_input |-> 0, doomed |-> 0, has_update |-> update,
             should_quit |-> FALSE]
  /\ lv = ViewerInit
  /\ matching = << >>
  /\ registered \in SUBSET (1 .. MaxApps)
  /\ apps = InOrder(registered)
  /\ target = 0
  /\ bounds = [arrivals |-> 0, changes |-> 0]

-----------------------------------------------------------------------------
(* The frame. *)

Receives ==
  /\ bounds.arrivals < MaxArrivals
  /\ \E t \in Texts : lv' = AppendLine(lv, t, bounds.arrivals + 1)
  /\ bounds' = [bounds EXCEPT !.arrivals = @ + 1]
  /\ UNCHANGED << loop, ui, matching, apps, registered, target >>

PollLine == phase = "poll" /\ ~ui.should_quit /\ Receives

\* Mutant: the row [ALL APPS] is forgotten.
ClampedPast(u, list) ==
  [u EXCEPT !.selected_idx = IF @ > Len(list) + 1 THEN Len(list) + 1 ELSE @]

\* The selection is an index: it stays within the new list, on whatever is there.
Clamped(u, list) ==
  [u EXCEPT !.selected_idx = IF @ > Len(list) THEN Len(list) ELSE @]

TargetOf(u, list) ==
  IF 0 < u.selected_idx /\ u.selected_idx <= Len(list) THEN list[u.selected_idx] ELSE 0

\* Mutant: the row is looked up in the list of a second ago.
SwitchStreamStale(u, list) ==
  /\ target' = TargetOf(u, apps)
  /\ IF target' = target
     THEN ui' = u /\ phase' = "draw" /\ UNCHANGED << lv, bounds >>
     ELSE /\ ui' = [u EXCEPT !.selected_log_idx = -1]
          /\ lv' = Reset(lv)
          /\ bounds' = [bounds EXCEPT !.arrivals = 0]
          /\ phase' = "backlog"

\* Another row is selected: its log replaces the one shown.
SwitchStream(u, list) ==
  /\ target' = TargetOf(u, list)
  /\ IF target' = target
     THEN ui' = u /\ phase' = "draw" /\ UNCHANGED << lv, bounds >>
     ELSE /\ ui' = [u EXCEPT !.selected_log_idx = -1]
          /\ lv' = Reset(lv)
          /\ bounds' = [bounds EXCEPT !.arrivals = 0]
          /\ phase' = "backlog"

\* Once a second the list is read again.
RefreshList ==
  /\ phase = "poll" /\ ~ui.should_quit
  /\ \E list \in {apps, InOrder(registered)} :
       apps' = list /\ SwitchStream(Clamped(ui, list), list)
  /\ UNCHANGED << input, matching, registered >>

BacklogLine == phase = "backlog" /\ Receives

Draw ==
  /\ phase \in {"backlog", "draw"}
  /\ phase' = "key"
  /\ matching' = UpdateMatching(lv, matching)
  /\ lv' = [lv EXCEPT !.is_dirty = FALSE]
  /\ UNCHANGED << input, ui, apps, registered, target, bounds >>

NoKey ==
  /\ phase = "key" /\ input = << >>
  /\ phase' = "poll"
  /\ UNCHANGED << input, ui, lv, matching, apps, registered, target, bounds >>

\* Another fdash process registers or deletes an app.
OthersChange ==
  /\ bounds.changes < MaxChanges
  /\ bounds' = [bounds EXCEPT !.changes = @ + 1]
  /\ \E a \in 1 .. MaxApps :
       registered' = IF a \in registered THEN registered \ {a} ELSE registered \cup {a}
  /\ UNCHANGED << loop, ui, lv, matching, apps, target >>

\* A key pressed earlier waits for the loop to look, so it may as well come now.
Press ==
  /\ phase = "key" /\ input = << >>
  /\ input' \in Keys
  /\ UNCHANGED << phase, ui, lv, matching, apps, registered, target, bounds >>

-----------------------------------------------------------------------------
(* Keys.  A handler reads the bytes it knows and leaves the rest. *)

Reads(mode, bytes) ==
  /\ phase = "key" /\ ui.mode = mode
  /\ IsPrefix(bytes, input)
  /\ input' = SubSeq(input, Len(bytes) + 1, Len(input))
  /\ phase' = "poll"
  /\ UNCHANGED << matching, target, bounds >>

Sets(newUi, newLv) == ui' = newUi /\ lv' = newLv /\ UNCHANGED << apps, registered >>

On(bytes, newUi, newLv) == Reads("normal", bytes) /\ Sets(newUi, newLv)

logMode == ui.fullscreen_logs \/ ui.focus = "logs"
cursor  == ui.selected_log_idx
matches == Len(matching)

HasLine == 0 <= cursor /\ cursor < matches
AtLine(i) == [ui EXCEPT !.selected_log_idx = i]
AtRow(i)  == [ui EXCEPT !.selected_idx = i]
Following == [lv EXCEPT !.auto_scroll = TRUE]
Detached  == [lv EXCEPT !.auto_scroll = FALSE]

\* Mutant: one row too many.
RowDownPast == AtRow(IF ui.selected_idx <= Len(apps) THEN ui.selected_idx + 1
                     ELSE ui.selected_idx)

RowUp   == AtRow(IF ui.selected_idx > 0 THEN ui.selected_idx - 1 ELSE 0)
RowDown == AtRow(IF ui.selected_idx < Len(apps) THEN ui.selected_idx + 1
                 ELSE ui.selected_idx)
LineUp  == CASE cursor = -1 -> matches - 1
             [] cursor > 0  -> cursor - 1
             [] OTHER       -> cursor

Quit == \E c \in {"q", "Q", "^C"} : On(<< c >>, [ui EXCEPT !.should_quit = TRUE], lv)

ToggleFull == [ui EXCEPT !.fullscreen_logs = ~@]

Fullscreen == On(<< "f" >>, ToggleFull, lv)

Open == \E c \in {"Enter", "o"} :
  On(<< c >>, IF HasLine THEN [ui EXCEPT !.mode = "detail"] ELSE ToggleFull, lv)

Space == On(<< "Space" >>, ui, TogglePause(lv))

Mark == On(<< "m" >>, ui, IF HasLine THEN InsertMarkerAfter(lv, matching[cursor + 1])
                          ELSE AddMarker(lv))

Unmark == On(<< "M" >>, ui, ClearMarkers(lv))

CycleLevel == \E c \in {"l", "L"} :
  On(<< c >>, AtLine(-1), SetLevelFilter(lv, (lv.level_filter + 1) % 3))

\* `a`: to [ALL APPS] and back to the app shown before, if it is still listed.
ToggleAll == \E c \in {"a", "A"} :
  On(<< c >>,
     IF ui.selected_idx # 0
     THEN [ui EXCEPT !.last_app_idx = ui.selected_idx, !.selected_idx = 0]
     ELSE AtRow(IF 0 < ui.last_app_idx /\ ui.last_app_idx <= Len(apps)
                THEN ui.last_app_idx
                ELSE IF apps # << >> THEN 1 ELSE 0),
     lv)

-----------------------------------------------------------------------------
(* Moving around. *)

InLogs(bytes, newUi, newLv) == logMode /\ On(bytes, newUi, newLv)
InTable(bytes, newUi)       == ~logMode /\ On(bytes, newUi, lv)

ViewEnd == matches - lv.scroll_offset

Arrow(final) == << "Esc", "[", final >>
AppArrow(final) == << "Esc", "O", final >>     \* in application mode
Arrows(final) == {Arrow(final), AppArrow(final)}

\* The arrow scrolls along; `k` and the application-mode arrow do not.
ArrowUp ==
  LET start == ViewEnd - (IF ui.fullscreen_logs THEN FullRows + 1 ELSE SplitGuess)
  IN InLogs(Arrow("A"), AtLine(LineUp),
            IF LineUp < start THEN ScrollUp(Detached, start - LineUp) ELSE Detached)

PlainUp == \/ InLogs(<< "k" >>, AtLine(LineUp), Detached)
           \/ InLogs(AppArrow("A"), AtLine(LineUp), lv)

TableUp == \E bytes \in Arrows("A") \cup {<< "k" >>} : InTable(bytes, RowUp)

CanGoDown == 0 <= cursor /\ cursor < matches - 1

ArrowDown ==
  \/ /\ CanGoDown
     /\ InLogs(Arrow("B"), AtLine(cursor + 1),
               IF cursor + 1 >= ViewEnd THEN ScrollDown(lv, cursor + 2 - ViewEnd) ELSE lv)
  \/ /\ ~CanGoDown
     /\ InLogs(Arrow("B"), AtLine(-1),
               IF cursor = -1 THEN lv ELSE [Following EXCEPT !.scroll_offset = 0])

\* Past the last line the cursor goes and auto-scroll comes back.
PlainDown == \E bytes \in {<< "j" >>, AppArrow("B")} :
  IF CanGoDown THEN InLogs(bytes, AtLine(cursor + 1), lv)
               ELSE InLogs(bytes, AtLine(-1), Following)

TableDown == \E bytes \in Arrows("B") \cup {<< "j" >>} : InTable(bytes, RowDown)

Focus(name) == IF ui.fullscreen_logs THEN ui
               ELSE [ui EXCEPT !.focus = name,
                               !.selected_log_idx = IF name = "logs" THEN @ ELSE -1]

ChangeFocus ==
  \/ \E bytes \in Arrows("C") : On(bytes, Focus("logs"), lv)
  \/ \E bytes \in Arrows("D") : On(bytes, Focus("processes"), lv)
  \/ On(<< "Tab" >>, Focus(IF ui.focus = "logs" THEN "processes" ELSE "logs"), lv)

ScrollKeys ==
  \/ On(<< "Esc", "[", "5", "~" >>, ui, ScrollUp(lv, 10))
  \/ On(<< "Esc", "[", "6", "~" >>, ui, ScrollDown(lv, 10))
  \/ InLogs(<< "u" >>, ui, ScrollUp(lv, 5))
  \/ \E c \in {"n", "d"} : InLogs(<< c >>, ui, ScrollDown(lv, 5))

\* Home and End (their other encodings are handled like these).
ToOldest == \/ On(<< "g" >>, AtLine(0), ScrollUp(lv, lv.count))
            \/ \E bytes \in Arrows("H") : InLogs(bytes, AtLine(0), ScrollUp(lv, lv.count))

ToNewest == \/ \E c \in {"b", "G"} : On(<< c >>, AtLine(-1), ScrollToBottom(lv))
            \/ \E bytes \in Arrows("F") : InLogs(bytes, AtLine(-1), ScrollToBottom(lv))

TableEnds == \/ \E bytes \in Arrows("H") : InTable(bytes, AtRow(0))
             \/ \E bytes \in Arrows("F") : InTable(bytes, AtRow(Len(apps)))

\* An Esc alone undoes one thing at a time.
PlainEsc == /\ Len(input) = 1
            /\ CASE cursor >= 0 -> On(<< "Esc" >>, AtLine(-1), Following)
                 [] cursor < 0 /\ ui.fullscreen_logs ->
                      On(<< "Esc" >>, [ui EXCEPT !.fullscreen_logs = FALSE], lv)
                 [] cursor < 0 /\ ~ui.fullscreen_logs ->
                      On(<< "Esc" >>, ui, CASE lv.search_filter > 0 -> SetFilter(lv, 0)
                                            [] lv.search_filter = 0 /\ lv.level_filter # 0 ->
                                                 SetLevelFilter(lv, 0)
                                            [] OTHER -> lv)

-----------------------------------------------------------------------------
(* What is drawn. *)

Rows(u) == IF u.fullscreen_logs THEN FullRows ELSE SplitRows

\* The places in the match cache, from 0, of the lines render_dashboard draws.
Viewport(v, u, n) ==
  LET end   == IF v.scroll_offset > n THEN 0 ELSE n - v.scroll_offset
      start == IF Rows(u) > end THEN 0 ELSE end - Rows(u)
  IN start .. end - 1

-----------------------------------------------------------------------------
(* The prompts: search, inspector, delete and upgrade confirmations. *)

StartSearch ==
  On(<< "/" >>, [ui EXCEPT !.mode = "search", !.search_input = 0], lv)

Typed == IF Head(input) = "Bksp"
         THEN IF ui.search_input > 0 THEN ui.search_input - 1 ELSE 0
         ELSE IF ui.search_input < FilterCap THEN ui.search_input + 1 ELSE FilterCap

\* The search is applied with every character; an empty one stays empty.
Search ==
  /\ input # << >>
  /\ LET c == Head(input)
     IN /\ Reads("search", << c >>)
        /\ CASE c = "Esc"   -> Sets([ui EXCEPT !.mode = "normal", !.search_input = 0],
                                    SetFilter(lv, 0))
             [] c = "Enter" -> Sets([ui EXCEPT !.mode = "normal"],
                                    SetFilter(lv, ui.search_input))
             [] c \in {"Tab", "^C"} -> Sets(ui, lv)
             [] OTHER -> Sets([ui EXCEPT !.search_input = Typed],
                              IF Typed = ui.search_input THEN lv ELSE SetFilter(lv, Typed))

Earlier == AtLine(IF cursor > 0 THEN cursor - 1 ELSE cursor)
Later   == AtLine(IF cursor < matches - 1 THEN cursor + 1 ELSE cursor)
Closed  == [ui EXCEPT !.mode = "normal"]

Up   == \E bytes \in Arrows("A") : IsPrefix(bytes, input)
Down == \E bytes \in Arrows("B") : IsPrefix(bytes, input)

\* Esc takes up to two more bytes with it, an arrow or not.
Inspect ==
  /\ input # << >>
  /\ LET c == Head(input)
         size == IF c = "Esc" THEN IF Len(input) < 3 THEN Len(input) ELSE 3 ELSE 1
     IN /\ Reads("detail", SubSeq(input, 1, size))
        /\ CASE c = "k" \/ Up   -> Sets(Earlier, lv)
             [] c = "j" \/ Down -> Sets(Later, lv)
             [] c = "Esc" /\ ~Up /\ ~Down -> Sets(Closed, lv)
             [] c \in {"q", "Q", "Enter", "o"} -> Sets(Closed, lv)
             [] c \in {"m", "M"} /\ HasLine ->
                  Sets(ui, InsertMarkerAfter(lv, matching[cursor + 1]))
             [] OTHER -> Sets(ui, lv)

RowIsApp == 0 < ui.selected_idx /\ ui.selected_idx <= Len(apps)


AskDelete ==
  /\ RowIsApp
  /\ InTable(<< "d" >>, [ui EXCEPT !.mode = "delete", !.doomed = apps[ui.selected_idx]])

Declines == {"n", "N", "Esc", "q", "Q"}

\* Stops, disables and deletes the app, reloads the manager and lists again.
ConfirmDelete ==
  \/ /\ Reads("delete", << "y" >>)
     /\ registered' = registered \ {ui.doomed}
     /\ apps' = InOrder(registered')
     /\ ui' = Clamped(Closed, apps')
     /\ UNCHANGED lv
  \/ \E c \in Declines : Reads("delete", << c >>) /\ Sets([Closed EXCEPT !.doomed = 0], lv)

\* `U` without a known update looks for one first.
AskUpdate ==
  \/ ui.has_update /\ (InTable(<< "u" >>, [ui EXCEPT !.mode = "update"])
                       \/ On(<< "U" >>, [ui EXCEPT !.mode = "update"], lv))
  \/ /\ ~ui.has_update
     /\ \E found \in Updates :
          On(<< "U" >>, [ui EXCEPT !.has_update = found,
                                   !.mode = IF found THEN "update" ELSE @], lv)

\* An upgrade that works replaces this process.
ConfirmUpdate ==
  \/ Reads("update", << "y" >>) /\ Sets([Closed EXCEPT !.should_quit = TRUE], lv)
  \/ \E c \in Declines : Reads("update", << c >>) /\ Sets(Closed, lv)

\* One that fails has taken the terminal out of raw mode, which drops what was
\* typed, and waits there for Enter as long as the user likes.
UpgradeFails ==
  /\ phase = "key" /\ ui.mode = "update" /\ IsPrefix(<< "y" >>, input)
  /\ phase' = "enter" /\ input' = << >>
  /\ Sets(Closed, lv)
  /\ UNCHANGED << matching, target, bounds >>

\* What else the user typed is dropped when raw mode comes back.
PressEnter ==
  /\ phase = "enter"
  /\ phase' = "poll"
  /\ UNCHANGED << input, ui, lv, matching, apps, registered, target, bounds >>

Prompts == {"delete", "update"}

\* Copying and the calls to start, stop and restart change nothing here; `u` and
\* `n` in the table and every other byte are dropped.
Known == {"q", "Q", "^C", "f", "Enter", "o", "Space", "m", "M", "l", "L", "a", "A", "k",
          "j", "Tab", "b", "G", "g", "/", "U", "Esc"}

Dropped ==
  /\ input # << >>
  /\ LET c == Head(input)
     IN \/ /\ c \notin Known
           /\ ~(c \in {"u", "n", "d"} /\ logMode)
           /\ ~(c = "u" /\ ui.has_update)
           /\ ~(c = "d" /\ RowIsApp)
           /\ On(<< c >>, ui, lv)
        \/ \E prompt \in Prompts :
             Reads(prompt, << c >>) /\ c \notin Declines \cup {"y"} /\ Sets(ui, lv)

Loop ==
  \/ PollLine \/ RefreshList \/ BacklogLine \/ Draw \/ NoKey
  \/ Quit \/ Fullscreen \/ Open \/ Space \/ Mark \/ Unmark \/ CycleLevel \/ ToggleAll
  \/ ArrowUp \/ PlainUp \/ TableUp \/ ArrowDown \/ PlainDown \/ TableDown
  \/ ChangeFocus \/ ScrollKeys \/ ToOldest \/ ToNewest \/ TableEnds \/ PlainEsc
  \/ StartSearch \/ Search \/ Inspect \/ AskDelete \/ ConfirmDelete
  \/ AskUpdate \/ ConfirmUpdate \/ UpgradeFails \/ Dropped

Next == Loop \/ Press \/ PressEnter \/ OthersChange

Spec == Init /\ [][Next]_vars

-----------------------------------------------------------------------------

\* Every field has a value its C type and the key handlers allow.
TypeOK ==
  /\ phase \in {"poll", "backlog", "draw", "key", "enter"}
  /\ ui \in [selected_idx : 0 .. MaxApps, last_app_idx : 1 .. MaxApps + 1,
             fullscreen_logs : BOOLEAN, focus : {"processes", "logs"},
             selected_log_idx : -1 .. Cap, mode : Modes, search_input : Filters,
             doomed : 0 .. MaxApps, has_update : BOOLEAN, should_quit : BOOLEAN]
  /\ lv \in Viewer
  /\ matching \in Seq(Slots)
  /\ registered \subseteq 1 .. MaxApps /\ target \in 0 .. MaxApps

\* The selected row exists, whatever others delete and wherever `a` returns to:
\* tui_run indexes apps[selected_idx - 1] without looking again.
SelectedInList == ui.selected_idx <= Len(apps)

\* When a key is handled the log shown is the selected row's: `x` or `d` never
\* acts on an app while the log of another is on screen.
TargetShown == phase = "key" => target = TargetOf(ui, apps)


\* A key acts on the lines as they are: the slots it finds in the match cache are
\* those a fresh scan of the ring would find, whatever arrived since the last key.
KeyOnFresh == phase = "key" => matching = Matching(lv)

-----------------------------------------------------------------------------
(* What the documentation says and the code does not do. *)

\* README.md:61, "Home or g: Jump to oldest log line in buffer".
OldestShown ==
  [][ToOldest /\ matches > 0 => 0 \in Viewport(lv', ui', matches)]_vars
=============================================================================
