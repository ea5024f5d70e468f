----------------------------- MODULE BuildStore -----------------------------
(***************************************************************************)
(* The per-configuration state of state/store.go.  Every method of Store   *)
(* takes the store's mutex for its whole body, so each is one function on  *)
(* the record that the mutex protects; the modules that extend this one    *)
(* decide when a handler calls it.                                         *)
(*                                                                         *)
(* Diagnostics are kept by origin only: which step produced the lists that *)
(* get_errors and get_warnings return ("none" stands for empty lists).     *)
(* ErrorCount and WarningCount are the lengths of those lists and carry    *)
(* nothing of their own.  Times and durations are left out.                *)
(***************************************************************************)
EXTENDS Integers

PhaseUnconfigured == 0
PhaseConfigured   == 1
PhaseBuilt        == 2

Origins == {"none", "configure", "build"}

\* 1 stands for every non-zero code, the -1 of a build that was killed or could
\* not be started included: nothing tells them apart but the client.
ExitCodes == {0, 1}

StoreState == [phase    : {PhaseUnconfigured, PhaseConfigured, PhaseBuilt},
               exit     : ExitCodes,     \* LastExitCode
               errors   : Origins,       \* Errors, Warnings and their counts
               dirty    : BOOLEAN,       \* Dirty
               building : BOOLEAN]       \* BuildInProgress

NewStore == [phase |-> PhaseUnconfigured, exit |-> 0, errors |-> "none",
             dirty |-> FALSE, building |-> FALSE]

SetConfigured(s) == [s EXCEPT !.phase = PhaseConfigured]

\* The condition under which StartBuild returns nil.
MayStartBuild_NoGuard(s)      == s.phase >= PhaseConfigured
MayStartBuild(s) == s.phase >= PhaseConfigured /\ ~s.building

StartBuild(s) == [s EXCEPT !.building = TRUE]

FinishBuild_KeepsFlag(s, code, errs) ==
  [s EXCEPT !.phase = PhaseBuilt, !.exit = code, !.errors = errs]
FinishBuild_NextPhase(s, code, errs) ==
  [s EXCEPT !.building = FALSE, !.phase = @ + 1, !.exit = code, !.errors = errs]
FinishBuild(s, code, errs) ==
  [s EXCEPT !.building = FALSE, !.phase = PhaseBuilt, !.exit = code,
            !.errors = errs]

SetDirty(s)   == [s EXCEPT !.dirty = TRUE]
ClearDirty(s) == [s EXCEPT !.dirty = FALSE]

SetConfigureDiagnostics(s, errs) == [s EXCEPT !.errors = errs]

\* Dirty and BuildInProgress survive a clean.
SetClean(s) == [s EXCEPT !.phase = PhaseConfigured, !.errors = "none"]

\* The word a one-line health summary begins with.
Health(s) ==
  CASE s.dirty                                   -> "DIRTY"
    [] ~s.dirty /\ s.phase = PhaseUnconfigured   -> "UNCONFIGURED"
    [] ~s.dirty /\ s.phase = PhaseConfigured     -> "READY"
    [] ~s.dirty /\ s.phase = PhaseBuilt /\ s.exit = 0 -> "OK"
    [] OTHER                                     -> "FAIL"
=============================================================================
