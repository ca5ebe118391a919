----------------------------- MODULE MCLogStream -----------------------------
(* Two apps that log a few lines, some longer than the buffer. *)
EXTENDS LogStream

ShortAndLong == {2, 3}
=============================================================================
