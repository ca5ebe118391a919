------------------------------ MODULE MCLogRing ------------------------------
(* LogRing on rings small enough to wrap around several times. *)
EXTENDS LogRing

BlankText == [blank |-> TRUE,  mentions |-> {}, depth |-> 0]
InfoText  == [blank |-> FALSE, mentions |-> {}, depth |-> 0]
ErrorText == [blank |-> FALSE, mentions |-> {"error", "warning"}, depth |-> 1]

\* What the filters tell apart: a level, and what is searched for.
RingTexts == {BlankText, InfoText, ErrorText}

OneStep == {1}
=============================================================================
