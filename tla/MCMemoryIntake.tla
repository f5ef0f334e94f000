--------------------------- MODULE MCMemoryIntake ---------------------------
(* Two memories of one key, two events, two dream workers and a tool caller. *)
EXTENDS MemoryIntake, TLC

CONSTANTS k, d
MCKind == <<"typed", "revise">>
MCAbout == <<k, k>>
MCAsks == [save |-> "save", forget |-> "delete"]
MCOf == [save |-> d, forget |-> k]
Symmetry == Permutations(Workers)

\* A memory that is saved, forgotten and saved again by another call.
MCChat == <<"chat">>
MCAboutOne == <<k>>
MCAsksAgain == [save |-> "save", forget |-> "delete", again |-> "save"]
MCOfAgain == [save |-> k, forget |-> k, again |-> k]
=============================================================================
