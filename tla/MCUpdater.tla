------------------------------ MODULE MCUpdater ------------------------------
(* Two fdash processes while a new version is published. *)
EXTENDS Updater, TLC

One  == << 1, 9 >>
Two  == << 2 >>

TwoVersions == {One, Two}
OnlyOne == {One}
OnlyTwo == {Two}
NoPins == {}

Symmetry == Permutations(Procs)
=============================================================================
