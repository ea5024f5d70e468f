--------------------------- MODULE BuildContract ---------------------------
(***************************************************************************)
(* What the build tool promises about a build directory, whatever goes on  *)
(* inside the server: builds in one directory exclude each other, and once *)
(* a build was killed the next build in its directory cleans first.        *)
(***************************************************************************)
CONSTANT Dirs

VARIABLES
  running,   \* a build process is at work in the directory
  cleaning,  \* that process removes old build products before it compiles
  owed       \* a killed build left products behind and nothing cleaned since

vars == <<running, cleaning, owed>>

TypeOK == /\ running  \in [Dirs -> BOOLEAN]
          /\ cleaning \in [Dirs -> BOOLEAN]
          /\ owed     \in [Dirs -> BOOLEAN]

Init == /\ running  = [d \in Dirs |-> FALSE]
        /\ cleaning = [d \in Dirs |-> FALSE]
        /\ owed     = [d \in Dirs |-> FALSE]

Begin(d) ==
  /\ ~running[d]
  /\ running' = [running EXCEPT ![d] = TRUE]
  /\ \E c \in BOOLEAN : /\ owed[d] => c
                        /\ cleaning' = [cleaning EXCEPT ![d] = c]
  /\ UNCHANGED owed

\* A build ends by itself or is killed; only one that cleaned removes what an
\* earlier one left.
End(d) ==
  /\ running[d]
  /\ running'  = [running EXCEPT ![d] = FALSE]
  /\ cleaning' = [cleaning EXCEPT ![d] = FALSE]
  /\ \E o \in BOOLEAN : /\ owed[d] /\ ~cleaning[d] => o
                        /\ owed' = [owed EXCEPT ![d] = o]

\* The directory is cleaned: by the clean tool, at any time, or by the first
\* half of a cleaning build.
Clean(d) ==
  /\ owed' = [owed EXCEPT ![d] = FALSE]
  /\ UNCHANGED <<running, cleaning>>

Next == \E d \in Dirs : Begin(d) \/ End(d) \/ Clean(d)

Spec == Init /\ [][Next]_vars
=============================================================================
