---------------------------- MODULE StatusReader ----------------------------
(***************************************************************************)
(* aggregateHealthToken and storeStatusToken of registry.go: a reader puts *)
(* a one-word status together from several methods of the store, each      *)
(* under a lock of its own, while the calls of BuildSession go on.         *)
(*                                                                         *)
(* The two functions ask the same questions in the same order; this is the *)
(* first, which asks one more.                                             *)
(***************************************************************************)
EXTENDS BuildSession

CONSTANT Readers   \* the workers that serve the health resource

VARIABLES
  rpc,     \* the method each reader calls next
  target,  \* the instance it reads
  token,   \* the token it ended with
  seen,    \* history: what the store was, at some moment of the read
  rest     \* history: the store has not changed since the read began

readerVars == <<rpc, target, token, seen, rest>>

\* ok: the last build had exited 0; fresh: nothing had been done yet; clean:
\* the dirty flag was not set.
Facts(s) == {f \in {"ok", "fresh", "clean"} :
               CASE f = "ok"    -> s.phase = PhaseBuilt /\ s.exit = 0
                 [] f = "fresh" -> Health(s) = "UNCONFIGURED" /\ ~s.building
                 [] f = "clean" -> ~s.dirty}

Tokens == {"BUILDING", "DIRTY", "UNCONFIGURED", "READY", "OK", "FAIL"}

ReaderTypeOK ==
  /\ rpc \in [Readers -> {"idle", "IsBuilding", "IsDirty", "GetPhase", "LastExitCode"}]
  /\ target \in [Readers -> Insts \cup {None}]
  /\ token \in [Readers -> Tokens \cup {"none"}]
  /\ seen \in [Readers -> SUBSET {"ok", "fresh", "clean"}]
  /\ rest \in [Readers -> BOOLEAN]

ReaderInit ==
  /\ Init
  /\ rpc = [r \in Readers |-> "idle"]
  /\ target = [r \in Readers |-> None]
  /\ token = [r \in Readers |-> "none"]
  /\ seen = [r \in Readers |-> {}]
  /\ rest = [r \in Readers |-> FALSE]

Store(r) == store[target[r]]

BeginRead(r, i) ==
  /\ rpc[r] = "idle"
  /\ rpc' = [rpc EXCEPT ![r] = "IsBuilding"]
  /\ target' = [target EXCEPT ![r] = i]
  /\ token' = [token EXCEPT ![r] = "none"]
  /\ seen' = [seen EXCEPT ![r] = Facts(store[i])]
  /\ rest' = [rest EXCEPT ![r] = TRUE]
  /\ UNCHANGED vars

\* The reader's method at "from" answers; the token is t, or the next method
\* is called.
Answered(r, from, to, t) ==
  /\ rpc[r] = from
  /\ rpc' = [rpc EXCEPT ![r] = to]
  /\ token' = [token EXCEPT ![r] = t]
  /\ UNCHANGED <<vars, target, seen, rest>>

ReadBuilding(r) ==
  IF Store(r).building THEN Answered(r, "IsBuilding", "idle", "BUILDING")
                       ELSE Answered(r, "IsBuilding", "IsDirty", "none")

ReadDirty_Configured(r) ==
  IF Store(r).dirty /\ Store(r).phase # PhaseConfigured
    THEN Answered(r, "IsDirty", "idle", "DIRTY")
    ELSE Answered(r, "IsDirty", "GetPhase", "none")
ReadDirty(r) ==
  IF Store(r).dirty THEN Answered(r, "IsDirty", "idle", "DIRTY")
                    ELSE Answered(r, "IsDirty", "GetPhase", "none")

ReadPhase(r) ==
  CASE Store(r).phase = PhaseUnconfigured -> Answered(r, "GetPhase", "idle", "UNCONFIGURED")
    [] Store(r).phase = PhaseConfigured   -> Answered(r, "GetPhase", "idle", "READY")
    [] Store(r).phase = PhaseBuilt        -> Answered(r, "GetPhase", "LastExitCode", "none")
    [] OTHER                              -> Answered(r, "GetPhase", "idle", "UNKNOWN")

\* len(Errors()), read when the build failed, is formatting.
ReadExit_Errors(r) ==
  Answered(r, "LastExitCode", "idle", IF Store(r).errors = "none" THEN "OK" ELSE "FAIL")
ReadExit(r) ==
  Answered(r, "LastExitCode", "idle", IF Store(r).exit = 0 THEN "OK" ELSE "FAIL")

Reading(r) == rpc[r] # "idle"

ReadStep(r) == /\ Reading(r)
               /\ ReadBuilding(r) \/ ReadDirty(r) \/ ReadPhase(r) \/ ReadExit(r)

\* A step of the session, which readers at work may live through; those that
\* are done forget their answer with it.
SessionStep ==
  /\ Next
  /\ target' = [r \in Readers |-> IF Reading(r) THEN target[r] ELSE None]
  /\ token' = [r \in Readers |-> "none"]
  /\ seen' = [r \in Readers |-> IF Reading(r) THEN seen[r] \cup Facts(store'[target[r]]) ELSE {}]
  /\ rest' = [r \in Readers |->
                Reading(r) /\ rest[r] /\ store'[target[r]] = store[target[r]]]
  /\ UNCHANGED rpc

ReaderNext == \/ SessionStep
              \/ \E r \in Readers : ReadStep(r) \/ \E i \in Insts : BeginRead(r, i)

ReaderSpec == ReaderInit /\ [][ReaderNext]_<<vars, readerVars>>

-----------------------------------------------------------------------------
(* Correctness *)

Done(r) == rpc[r] = "idle" /\ token[r] # "none"

\* For a store at rest the token is the word that Health begins with: the two
\* descriptions of one store agree, the dirty warning of a cleaned project
\* included (registry.go:236-239, store.go Health).
AgreesWithHealth ==
  \A r \in Readers :
    Done(r) /\ rest[r] /\ ~Store(r).building => token[r] = Health(Store(r))

\* A token put together from several moments does not invent a result: OK is
\* given only when, at some moment of the read, the last build had exited 0,
\* UNCONFIGURED only when nothing had been done yet, and no token but DIRTY
\* and BUILDING for a store that was dirty all along.
TokenIsReal ==
  \A r \in Readers :
    Done(r) =>
      /\ token[r] = "OK" => "ok" \in seen[r]
      /\ token[r] = "UNCONFIGURED" => "fresh" \in seen[r]
      /\ token[r] \notin {"DIRTY", "BUILDING"} => "clean" \in seen[r]
=============================================================================
