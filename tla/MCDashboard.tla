----------------------------- MODULE MCDashboard -----------------------------
(* Dashboard on short lists, small rings and the keys one question needs. *)
EXTENDS Dashboard

Plain(letters) == {<< c >> : c \in letters}

\* The keys of the process table, its prompts, and a few that mean nothing there.
ListKeys == Plain({"q", "a", "d", "y", "n", "u", "U", "Tab", "x", "Space"})
              \cup Arrows("A") \cup {Arrow("B"), Arrow("D"), Arrow("H"), Arrow("F")}

\* The keys of the log view, the search prompt and the inspector.
LogKeys == Plain({"f", "Enter", "k", "j", "g", "b", "/", "u", "d", "m", "M", "l",
                  "c", "U", "Tab", "Esc", "Bksp"})
             \cup {<< "Esc", "[", "5", "~" >>, << "Esc", "[", "6", "~" >>}
             \cup UNION {Arrows(final) : final \in {"A", "B", "C", "D", "H", "F"}}

\* The keys of a short counterexample.
OldestKeys == Plain({"g", "l"})

InfoText  == [blank |-> FALSE, mentions |-> {}, depth |-> 0]
ErrorText == [blank |-> FALSE, mentions |-> {"error"}, depth |-> 1]

Outdated == {TRUE}
Newest   == {FALSE}

OneText  == {InfoText}
TwoTexts == {InfoText, ErrorText}
=============================================================================
