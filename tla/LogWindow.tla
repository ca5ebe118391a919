------------------------------ MODULE LogWindow ------------------------------
(* What the log viewer promises, without a ring: the newest lines of a stream, *)
(* oldest first, at most Cap of them; a checkpoint marker may be placed behind *)
(* any of them and all markers removed again.                                  *)
EXTENDS Naturals, Sequences, SequencesExt

CONSTANTS Cap,        \* the most lines a window holds
          Lines,      \* what may be in it
          Marker      \* the line that is a checkpoint marker

VARIABLE window

\* One line too many costs the oldest one.
Keep(s) == IF Len(s) > Cap THEN Tail(s) ELSE s

Init == window = << >>

\* A line of the stream is delivered once; a marker may be dropped at any time.
Receive == /\ window' # << >>
           /\ Last(window') \in (Lines \ ToSet(window)) \cup {Marker}
           /\ window' = Keep(Append(window, Last(window')))

\* The window with a marker behind its p-th line.
MarkedBehind(p) == Keep(InsertAt(window, p + 1, Marker))

Mark == \E p \in DOMAIN window : window' = MarkedBehind(p)

\* The lines that are not markers stay, in their order.
ClearMarks ==
  LET stay == {p \in DOMAIN window : window[p] # Marker}
  IN \E from \in [1 .. Cardinality(stay) -> stay] :
       /\ \A i, j \in DOMAIN from : i < j => from[i] < from[j]
       /\ window' = [i \in DOMAIN from |-> window[from[i]]]

\* The stream is switched: the window starts over.
Switch == window' = << >>

\* Scrolling, pausing and filtering leave the lines alone.
Look == UNCHANGED window

Next == Look \/ Receive \/ Mark \/ ClearMarks \/ Switch

Spec == Init /\ [][Next]_window
=============================================================================
