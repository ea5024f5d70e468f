--------------------------- MODULE MCStatusReader ---------------------------
(* Small instances of StatusReader for TLC. *)
EXTENDS StatusReader, TLC

CONSTANTS h1, h2, r1, cm, d1

TwoWorkers == {h1, h2}
OneReader  == {r1}
CMakeOnly  == {cm}
NoInsts    == {}
OneDir     == {d1}
InOneDir   == [i \in Insts |-> d1]

\* Progress is for builds only.
WritersMenu == [h \in TwoWorkers |->
                  [tool : {"build"}, token : BOOLEAN]
                    \cup [tool : {"configure", "clean"}, token : {FALSE}]]

Workers == Permutations(Handlers)
=============================================================================
