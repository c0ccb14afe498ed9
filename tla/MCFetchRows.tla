------------------------------ MODULE MCFetchRows -----------------------------
(***************************************************************************)
(* FetchRows for TLC: processes are interchangeable.  None of the checked  *)
(* properties is a liveness property, so the symmetry is sound.            *)
(***************************************************************************)
EXTENDS FetchRows, TLC

Symmetry == Permutations(Procs)

\* Two local days: one of 23 hours and one of 25.
ShortThenLong == <<0, 23, 48>>

\* Everything, up to the short day, the long day alone, and from it on.
SomeRanges == {<<0, 0>>, <<0, 1>>, <<2, 2>>, <<2, 0>>}
=============================================================================
