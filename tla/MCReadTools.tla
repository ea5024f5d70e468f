---------------------------- MODULE MCReadTools ----------------------------
(* Small instances of ReadTools for TLC. *)
EXTENDS ReadTools, TLC

CONSTANTS f, g, gone

TwoFiles == {f, g}

\* Around the size of the window of suggest_fix, and an error of the whole file.
ThreeContents ==
  {[total |-> 45, wrong |-> <<30, 13>>],
   [total |-> 1,  wrong |-> <<>>],
   [total |-> 12, wrong |-> <<0, 12>>]}

AllOrOne == {{f, g}, {f}, {g}}

Files == Permutations(TwoFiles)
=============================================================================
