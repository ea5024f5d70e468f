------------------------- MODULE StatusReader_proofs -------------------------
(***************************************************************************)
(* Proofs about StatusReader, for every set of workers, of instances and   *)
(* of readers.                                                             *)
(***************************************************************************)
EXTENDS StatusReader, BuildSession_proofs

allVars == <<vars, readerVars>>

-----------------------------------------------------------------------------
(* The session under the readers *)

\* A project that is not configured was never built: it is not dirty.
FreshInv == \A i \in Insts : store[i].phase = PhaseUnconfigured => ~store[i].dirty

Session == Typed /\ ExclusiveBuild /\ ConfiguredInv /\ FreshInv

LEMMA FreshStep == Typed /\ ConfiguredInv /\ FreshInv /\ [Next]_vars => FreshInv'
<1> SUFFICES ASSUME Typed, ConfiguredInv, FreshInv, [Next]_vars,
                    NEW i \in Insts, store'[i].phase = PhaseUnconfigured
             PROVE  ~store'[i].dirty
  BY DEF FreshInv
<1>1. CASE UNCHANGED vars
  BY <1>1 DEF vars, FreshInv
<1>2. ASSUME NEW h \in Handlers, NEW j \in Insts, Call(h, j) PROVE ~store'[i].dirty
  BY <1>2, CallEffect DEF FreshInv
<1>3. ASSUME NEW h \in Handlers, HandlerStep(h) PROVE ~store'[i].dirty
  <2>1. store[i].phase = PhaseUnconfigured
    BY <1>3, PhaseStep
  <2>2. CASE i # I(h)
    BY <1>3, <2>1, <2>2, Locality DEF FreshInv
  <2>3. CASE i = I(h)
    <3>1. ~ParseResult(h)
      BY <2>1, <2>3 DEF ParseResult, Goto, ConfiguredInv, NeedsConfigured, BuildSection
    <3>2. QED
      BY <1>3, <2>1, <2>3, <3>1, StoreEffects, StoreChanges DEF StoreSteps, FreshInv
  <2>4. QED
    BY <2>2, <2>3
<1>4. QED
  BY <1>1, <1>2, <1>3 DEF Next

LEMMA SessionInit == Init => Session
<1>1. Init => ConfiguredInv /\ FreshInv
  BY DEF Init, ConfiguredInv, NeedsConfigured, BuildSection, FreshInv, NewStore
<1>2. QED
  BY <1>1, TypedInit, ExclusiveInit DEF Session

LEMMA SessionInvariant == Session /\ [Next]_vars => Session'
  BY TypedStep, ExclusiveStep, ConfiguredStep, FreshStep DEF Session

LEMMA ExitFields ==
  \A s \in StoreState :
    /\ SetConfigured(s).exit = s.exit /\ StartBuild(s).exit = s.exit
    /\ SetDirty(s).exit = s.exit /\ ClearDirty(s).exit = s.exit
    /\ SetClean(s).exit = s.exit
    /\ \A errs \in Origins : SetConfigureDiagnostics(s, errs).exit = s.exit
  BY DEF StoreState, SetConfigured, StartBuild, SetDirty, ClearDirty,
         SetConfigureDiagnostics, SetClean

\* Only FinishBuild changes the exit code.
LEMMA ExitStep ==
  ASSUME Typed, Next, NEW i \in Insts, store'[i].exit # store[i].exit
  PROVE  store'[i].phase = PhaseBuilt
<1>1. ASSUME NEW h \in Handlers, NEW j \in Insts, Call(h, j) PROVE FALSE
  BY <1>1, CallEffect
<1>2. ASSUME NEW h \in Handlers, HandlerStep(h) PROVE store'[i].phase = PhaseBuilt
  <2>1. i = I(h) /\ ~UNCHANGED store
    BY <1>2, Locality
  <2>2. store \in [Insts -> StoreState] /\ store[i] \in StoreState
    BY DEF Typed, TypeOK
  <2>3. ~RecordConfigured(h)
    BY <2>1, <2>2, ExitFields DEF RecordConfigured
  <2>4. ~RecordConfigureFailure(h)
    BY <2>1, <2>2, ExitFields DEF RecordConfigureFailure, Origins
  <2>5. ~StartBuild_Ok(h)
    BY <2>1, <2>2, ExitFields DEF StartBuild_Ok
  <2>6. ~ParseResult(h)
    BY <2>1, <2>2, ExitFields DEF ParseResult
  <2>7. ~ClearDirtyAfter(h)
    BY <2>1, <2>2, ExitFields DEF ClearDirtyAfter
  <2>8. ~RecordClean(h)
    BY <2>1, <2>2, ExitFields DEF RecordClean
  <2>9. BuildNotRun(h) \/ RecordBuild(h)
    BY <1>2, <2>1, <2>3, <2>4, <2>5, <2>6, <2>7, <2>8, StoreChanges DEF StoreSteps
  <2>10. QED
    BY <1>2, <2>1, <2>9, StoreEffects
<1>3. QED
  BY <1>1, <1>2 DEF Next

-----------------------------------------------------------------------------
(* Types *)

LEMMA FactsType == \A s : Facts(s) \in SUBSET {"ok", "fresh", "clean"}
  BY DEF Facts

\* The readers keep their types, and one that reads or has an answer has a
\* store.
ReaderInv ==
  /\ ReaderTypeOK
  /\ \A r \in Readers : Reading(r) \/ Done(r) => target[r] \in Insts

\* What one method's answer does.
LEMMA ReadEffect ==
  ASSUME Session, ReaderInv, NEW r \in Readers, ReadStep(r)
  PROVE  /\ UNCHANGED <<vars, target, seen, rest>>
         /\ rpc' = [rpc EXCEPT ![r] = rpc'[r]] /\ token' = [token EXCEPT ![r] = token'[r]]
         /\ target[r] \in Insts
         /\ \/ /\ rpc[r] = "IsBuilding" /\ Store(r).building
               /\ rpc'[r] = "idle" /\ token'[r] = "BUILDING"
            \/ /\ rpc[r] = "IsBuilding" /\ ~Store(r).building
               /\ rpc'[r] = "IsDirty" /\ token'[r] = "none"
            \/ /\ rpc[r] = "IsDirty" /\ Store(r).dirty
               /\ rpc'[r] = "idle" /\ token'[r] = "DIRTY"
            \/ /\ rpc[r] = "IsDirty" /\ ~Store(r).dirty
               /\ rpc'[r] = "GetPhase" /\ token'[r] = "none"
            \/ /\ rpc[r] = "GetPhase" /\ Store(r).phase = PhaseUnconfigured
               /\ rpc'[r] = "idle" /\ token'[r] = "UNCONFIGURED"
            \/ /\ rpc[r] = "GetPhase" /\ Store(r).phase = PhaseConfigured
               /\ rpc'[r] = "idle" /\ token'[r] = "READY"
            \/ /\ rpc[r] = "GetPhase" /\ Store(r).phase = PhaseBuilt
               /\ rpc'[r] = "LastExitCode" /\ token'[r] = "none"
            \/ /\ rpc[r] = "LastExitCode" /\ Store(r).exit = 0
               /\ rpc'[r] = "idle" /\ token'[r] = "OK"
            \/ /\ rpc[r] = "LastExitCode" /\ Store(r).exit # 0
               /\ rpc'[r] = "idle" /\ token'[r] = "FAIL"
<1>1. /\ target[r] \in Insts
      /\ rpc \in [Readers -> {"idle", "IsBuilding", "IsDirty", "GetPhase", "LastExitCode"}]
      /\ token \in [Readers -> Tokens \cup {"none"}]
  BY DEF ReadStep, ReaderInv, ReaderTypeOK
<1>2. Store(r).phase \in {PhaseUnconfigured, PhaseConfigured, PhaseBuilt}
  BY <1>1 DEF Session, Typed, TypeOK, StoreState, Store
<1>3. ReadBuilding(r) \/ ReadDirty(r) \/ ReadPhase(r) \/ ReadExit(r)
  BY DEF ReadStep
<1>4. CASE ReadBuilding(r)
  BY <1>1, <1>4 DEF ReadBuilding, Answered
<1>5. CASE ReadDirty(r)
  BY <1>1, <1>5 DEF ReadDirty, Answered
<1>6. CASE ReadPhase(r)
  BY <1>1, <1>2, <1>6 DEF ReadPhase, Answered, PhaseUnconfigured, PhaseConfigured, PhaseBuilt
<1>7. CASE ReadExit(r)
  BY <1>1, <1>7 DEF ReadExit, Answered
<1>8. QED
  BY <1>3, <1>4, <1>5, <1>6, <1>7

LEMMA ReaderInvInit == ReaderInit => ReaderInv
  BY DEF ReaderInit, ReaderInv, ReaderTypeOK, Reading, Done

LEMMA ReaderInvStep == Session /\ ReaderInv /\ [ReaderNext]_allVars => ReaderInv'
<1> SUFFICES ASSUME Session, ReaderInv, [ReaderNext]_allVars PROVE ReaderInv'
  OBVIOUS
<1> USE DEF ReaderInv, Reading, Done
<1>1. CASE UNCHANGED allVars
  BY <1>1 DEF allVars, readerVars, ReaderTypeOK
<1>2. CASE SessionStep
  <2>1. \A r \in Readers : target'[r] \in Insts \cup {None}
    BY <1>2 DEF SessionStep, ReaderTypeOK
  <2>2. \A r \in Readers : seen'[r] \in SUBSET {"ok", "fresh", "clean"}
    BY <1>2, FactsType DEF SessionStep, ReaderTypeOK
  <2>3. \A r \in Readers : rest'[r] \in BOOLEAN
    BY <1>2 DEF SessionStep, ReaderTypeOK
  <2>4. /\ target' = [r \in Readers |-> target'[r]]
        /\ seen' = [r \in Readers |-> seen'[r]]
        /\ rest' = [r \in Readers |-> rest'[r]]
    BY <1>2 DEF SessionStep
  <2>5. /\ rpc' = rpc /\ token' = [r \in Readers |-> "none"]
        /\ \A r \in Readers : Reading(r) => target'[r] = target[r]
    BY <1>2 DEF SessionStep
  <2>6. ReaderTypeOK'
    BY <2>1, <2>2, <2>3, <2>4, <2>5 DEF ReaderTypeOK
  <2>7. QED
    BY <2>5, <2>6
<1>3. ASSUME NEW r \in Readers, ReadStep(r) PROVE ReaderInv'
  <2>1. /\ UNCHANGED <<target, seen, rest>> /\ target[r] \in Insts
        /\ rpc' = [rpc EXCEPT ![r] = rpc'[r]] /\ token' = [token EXCEPT ![r] = token'[r]]
        /\ rpc'[r] \in {"idle", "IsDirty", "GetPhase", "LastExitCode"}
        /\ token'[r] \in Tokens \cup {"none"}
    BY <1>3, ReadEffect DEF Tokens
  <2>2. ReaderTypeOK'
    BY <2>1 DEF ReaderTypeOK
  <2>3. \A q \in Readers \ {r} : rpc'[q] = rpc[q] /\ token'[q] = token[q]
    BY <2>1 DEF ReaderTypeOK
  <2>4. QED
    BY <2>1, <2>2, <2>3
<1>4. ASSUME NEW r \in Readers, NEW i \in Insts, BeginRead(r, i) PROVE ReaderInv'
  <2>1. ReaderTypeOK'
    BY <1>4, FactsType DEF BeginRead, ReaderTypeOK
  <2>2. QED
    BY <1>4, <2>1 DEF BeginRead, ReaderTypeOK
<1>5. QED
  BY <1>1, <1>2, <1>3, <1>4 DEF ReaderNext

LEMMA ReaderSession == Session /\ [ReaderNext]_allVars => Session'
<1>1. [ReaderNext]_allVars /\ Session => [Next]_vars \/ \E r \in Readers : ReadStep(r)
  BY DEF ReaderNext, allVars, SessionStep, BeginRead
<1>2. \A r \in Readers : ReadStep(r) => UNCHANGED vars
  BY DEF ReadStep, ReadBuilding, ReadDirty, ReadPhase, ReadExit, Answered
<1>3. QED
  BY <1>1, <1>2, SessionInvariant

LEMMA ReaderSpecInvariant == ReaderSpec => [](Session /\ ReaderInv)
<1>1. ReaderInit => Init
  BY DEF ReaderInit
<1>2. QED
  BY <1>1, SessionInit, ReaderInvInit, ReaderInvStep, ReaderSession, PTL
     DEF ReaderSpec, allVars

\* The variables of the readers keep their types (registry.go
\* aggregateHealthToken, storeStatusToken).
THEOREM ReaderTypeCorrect == ReaderSpec => []ReaderTypeOK
<1>1. ReaderInv => ReaderTypeOK
  BY DEF ReaderInv
<1>2. QED
  BY <1>1, ReaderSpecInvariant, PTL

-----------------------------------------------------------------------------
(* A store at rest *)

\* What the answers have said is still so when the store is at rest.
RestInv ==
  \A r \in Readers :
    rest[r] =>
      /\ rpc[r] \in {"IsDirty", "GetPhase", "LastExitCode"} => ~Store(r).building
      /\ rpc[r] \in {"GetPhase", "LastExitCode"} => ~Store(r).dirty
      /\ rpc[r] = "LastExitCode" => Store(r).phase = PhaseBuilt
      /\ Done(r) => Store(r).building \/ token[r] = Health(Store(r))

LEMMA RestStep ==
  Session /\ ReaderInv /\ RestInv /\ [ReaderNext]_allVars => RestInv'
<1> SUFFICES ASSUME Session, ReaderInv, RestInv, [ReaderNext]_allVars,
                    NEW q \in Readers, rest'[q]
             PROVE  /\ rpc'[q] \in {"IsDirty", "GetPhase", "LastExitCode"} => ~Store(q)'.building
                    /\ rpc'[q] \in {"GetPhase", "LastExitCode"} => ~Store(q)'.dirty
                    /\ rpc'[q] = "LastExitCode" => Store(q)'.phase = PhaseBuilt
                    /\ Done(q)' => Store(q)'.building \/ token'[q] = Health(Store(q)')
  BY DEF RestInv, Health
<1>1. CASE UNCHANGED allVars
  BY <1>1 DEF allVars, readerVars, vars, RestInv, Store, Done
<1>2. CASE SessionStep
  <2>1. /\ rest[q] /\ rpc'[q] = rpc[q] /\ Store(q)' = Store(q) /\ token'[q] = "none"
    BY <1>2 DEF SessionStep, Store
  <2>2. QED
    BY <2>1 DEF RestInv, Done
<1>3. ASSUME NEW r \in Readers, ReadStep(r), q # r
      PROVE  /\ rpc'[q] = rpc[q] /\ rest[q] /\ token'[q] = token[q] /\ Store(q)' = Store(q)
  BY <1>3, ReadEffect DEF Store, vars, ReaderInv, ReaderTypeOK
<1>4. ASSUME ReadStep(q)
      PROVE  /\ rpc'[q] \in {"IsDirty", "GetPhase", "LastExitCode"} => ~Store(q)'.building
             /\ rpc'[q] \in {"GetPhase", "LastExitCode"} => ~Store(q)'.dirty
             /\ rpc'[q] = "LastExitCode" => Store(q)'.phase = PhaseBuilt
             /\ Done(q)' => Store(q)'.building \/ token'[q] = Health(Store(q)')
  <2>1. Store(q)' = Store(q) /\ rest[q]
    BY <1>4, ReadEffect DEF Store, vars
  <2>2. /\ rpc[q] \in {"IsDirty", "GetPhase", "LastExitCode"} => ~Store(q).building
        /\ rpc[q] \in {"GetPhase", "LastExitCode"} => ~Store(q).dirty
        /\ rpc[q] = "LastExitCode" => Store(q).phase = PhaseBuilt
    BY <2>1 DEF RestInv
  <2>3. Store(q) \in StoreState
    BY <1>4, ReadEffect DEF Session, Typed, TypeOK, Store
  <2>4. Done(q)' => Store(q).building \/ token'[q] = Health(Store(q))
    BY <1>4, <2>2, <2>3, ReadEffect
       DEF Done, Health, StoreState, PhaseUnconfigured, PhaseConfigured, PhaseBuilt
  <2>5. QED
    BY <1>4, <2>1, <2>2, <2>4, ReadEffect
<1>5. ASSUME NEW r \in Readers, NEW i \in Insts, BeginRead(r, i), q # r
      PROVE  /\ rpc'[q] = rpc[q] /\ rest[q] /\ token'[q] = token[q] /\ Store(q)' = Store(q)
  BY <1>5 DEF BeginRead, Store, vars, ReaderInv, ReaderTypeOK
<1>6. ASSUME NEW i \in Insts, BeginRead(q, i)
      PROVE  rpc'[q] = "IsBuilding" /\ ~Done(q)'
  BY <1>6 DEF BeginRead, Done, ReaderInv, ReaderTypeOK
<1>7. ASSUME rpc'[q] = rpc[q], rest[q], token'[q] = token[q], Store(q)' = Store(q)
      PROVE  /\ rpc'[q] \in {"IsDirty", "GetPhase", "LastExitCode"} => ~Store(q)'.building
             /\ rpc'[q] \in {"GetPhase", "LastExitCode"} => ~Store(q)'.dirty
             /\ rpc'[q] = "LastExitCode" => Store(q)'.phase = PhaseBuilt
             /\ Done(q)' => Store(q)'.building \/ token'[q] = Health(Store(q)')
  BY <1>7 DEF RestInv, Done
<1>8. QED
  BY <1>1, <1>2, <1>3, <1>4, <1>5, <1>6, <1>7 DEF ReaderNext

\* A status token put together from four lock sections is the word Health
\* begins with, when the store was at rest meanwhile and no build is in
\* progress (registry.go:236-239; store.go Health).
THEOREM TokenAgrees == ReaderSpec => []AgreesWithHealth
<1>1. ReaderInit => RestInv
  BY DEF ReaderInit, RestInv
<1>2. RestInv => AgreesWithHealth
  BY DEF RestInv, AgreesWithHealth
<1>3. QED
  BY <1>1, <1>2, ReaderSpecInvariant, RestStep, PTL DEF ReaderSpec, allVars

-----------------------------------------------------------------------------
(* A store that changes *)

LEMMA FactsOf ==
  ASSUME NEW s
  PROVE  /\ "ok" \in Facts(s) <=> s.phase = PhaseBuilt /\ s.exit = 0
         /\ "fresh" \in Facts(s) <=> Health(s) = "UNCONFIGURED" /\ ~s.building
         /\ "clean" \in Facts(s) <=> ~s.dirty
  BY DEF Facts

\* A reader at work has seen the store as it is.  A store that is not seen to
\* have exited 0 has another exit code: FinishBuild sets it with the phase.
SeenInv ==
  \A r \in Readers :
    /\ Reading(r) => Facts(Store(r)) \subseteq seen[r]
    /\ rpc[r] \in {"GetPhase", "LastExitCode"} => "clean" \in seen[r]
    /\ rpc[r] = "LastExitCode" => "ok" \in seen[r] \/ Store(r).exit # 0

\* A store whose phase is unconfigured is as new.
LEMMA FreshStore ==
  ASSUME Session, NEW i \in Insts, store[i].phase = PhaseUnconfigured
  PROVE  "fresh" \in Facts(store[i])
<1>1. ~store[i].dirty
  BY DEF Session, FreshInv
<1>2. ~store[i].building
  BY DEF Session, ExclusiveBuild, ConfiguredInv, NeedsConfigured
<1>3. Health(store[i]) = "UNCONFIGURED"
  BY <1>1 DEF Health, PhaseUnconfigured, PhaseConfigured, PhaseBuilt
<1>4. QED
  BY <1>2, <1>3, FactsOf

RealInv == SeenInv /\ TokenIsReal

LEMMA RealStep ==
  Session /\ Session' /\ ReaderInv /\ RealInv /\ [ReaderNext]_allVars => RealInv'
<1> DEFINE Seen(r) ==
      /\ Reading(r) => Facts(Store(r)) \subseteq seen[r]
      /\ rpc[r] \in {"GetPhase", "LastExitCode"} => "clean" \in seen[r]
      /\ rpc[r] = "LastExitCode" => "ok" \in seen[r] \/ Store(r).exit # 0
           Real(r) ==
      Done(r) =>
        /\ token[r] = "OK" => "ok" \in seen[r]
        /\ token[r] = "UNCONFIGURED" => "fresh" \in seen[r]
        /\ token[r] \notin {"DIRTY", "BUILDING"} => "clean" \in seen[r]
<1> SUFFICES ASSUME Session, Session', ReaderInv, RealInv, [ReaderNext]_allVars,
                    NEW q \in Readers
             PROVE  Seen(q)' /\ Real(q)'
  BY DEF RealInv, SeenInv, TokenIsReal
<1>0. Seen(q) /\ Real(q)
  BY DEF RealInv, SeenInv, TokenIsReal
<1>1. CASE UNCHANGED allVars
  BY <1>0, <1>1 DEF allVars, readerVars, vars, Store, Done, Reading
<1>2. CASE SessionStep
  <2>1. /\ rpc'[q] = rpc[q] /\ ~Done(q)'
        /\ Reading(q) => /\ target'[q] = target[q]
                         /\ seen'[q] = seen[q] \cup Facts(store'[target[q]])
                         /\ target[q] \in Insts
    BY <1>2 DEF SessionStep, Done, ReaderInv
  <2>2. ASSUME rpc[q] = "LastExitCode"
        PROVE  "ok" \in seen'[q] \/ Store(q)'.exit # 0
    <3>1. Reading(q) /\ Store(q)' = store'[target[q]]
      BY <2>1, <2>2 DEF Reading, Store
    <3>2. CASE Store(q).exit # 0 /\ Store(q)'.exit = 0
      <4>1. Store(q)'.phase = PhaseBuilt
        BY <1>2, <2>1, <3>1, <3>2, ExitStep DEF SessionStep, Session, Store
      <4>2. "ok" \in Facts(Store(q)')
        BY <3>2, <4>1, FactsOf
      <4>3. QED
        BY <2>1, <3>1, <4>2
    <3>3. QED
      BY <1>0, <2>1, <2>2, <3>1, <3>2
  <2>3. QED
    BY <1>0, <2>1, <2>2 DEF Reading, Store
<1>3. ASSUME NEW r \in Readers, ReadStep(r), q # r PROVE Seen(q)' /\ Real(q)'
  <2>1. /\ rpc'[q] = rpc[q] /\ seen'[q] = seen[q] /\ token'[q] = token[q]
        /\ Store(q)' = Store(q)
    BY <1>3, ReadEffect DEF Store, vars, ReaderInv, ReaderTypeOK
  <2>2. QED
    BY <1>0, <2>1 DEF Reading, Done
<1>4. CASE ReadStep(q)
  <2>1. /\ Store(q)' = Store(q) /\ seen'[q] = seen[q] /\ Reading(q)
        /\ Facts(Store(q)) \subseteq seen[q]
    BY <1>0, <1>4, ReadEffect DEF Store, vars, ReadStep
  <2>2. Store(q).phase = PhaseUnconfigured => "fresh" \in seen[q]
    BY <1>4, <2>1, ReadEffect, FreshStore DEF Store
  <2>3. ~Store(q).dirty => "clean" \in seen[q]
    BY <2>1, FactsOf
  <2>4. Store(q).phase = PhaseBuilt /\ Store(q).exit = 0 => "ok" \in seen[q]
    BY <2>1, FactsOf
  <2>5. Seen(q)'
    BY <1>0, <1>4, <2>1, <2>3, <2>4, ReadEffect DEF Reading
  <2>6. Real(q)'
    BY <1>0, <1>4, <2>1, <2>2, ReadEffect DEF Done
  <2>7. QED
    BY <2>5, <2>6
<1>5. ASSUME NEW r \in Readers, NEW i \in Insts, BeginRead(r, i) PROVE Seen(q)' /\ Real(q)'
  <2>1. CASE q # r
    <3>1. /\ rpc'[q] = rpc[q] /\ seen'[q] = seen[q] /\ token'[q] = token[q]
          /\ Store(q)' = Store(q)
      BY <1>5, <2>1 DEF BeginRead, Store, vars, ReaderInv, ReaderTypeOK
    <3>2. QED
      BY <1>0, <3>1 DEF Reading, Done
  <2>2. CASE q = r
    <3>1. /\ rpc'[q] = "IsBuilding" /\ token'[q] = "none" /\ seen'[q] = Facts(store[i])
          /\ Store(q)' = store[i]
      BY <1>5, <2>2 DEF BeginRead, Store, vars, ReaderInv, ReaderTypeOK
    <3>2. QED
      BY <3>1 DEF Reading, Done
  <2>3. QED
    BY <2>1, <2>2
<1>6. QED
  BY <1>1, <1>2, <1>3, <1>4, <1>5 DEF ReaderNext

\* A status token does not invent a result, however the calls of the session
\* come between the four lock sections: OK is given only when the last build
\* had exited 0 at some moment of the read, UNCONFIGURED only when nothing had
\* been done, and DIRTY is missed only if the store was not dirty all along
\* (registry.go aggregateHealthToken, storeStatusToken).
THEOREM TokenReal == ReaderSpec => []TokenIsReal
<1>1. ReaderInit => RealInv
  BY DEF ReaderInit, RealInv, SeenInv, TokenIsReal, Reading, Done
<1>2. RealInv => TokenIsReal
  BY DEF RealInv
<1>3. QED
  BY <1>1, <1>2, ReaderSpecInvariant, RealStep, PTL DEF ReaderSpec, allVars
=============================================================================
