------------------------- MODULE BuildSession_proofs -------------------------
(***************************************************************************)
(* Proofs about BuildSession, for every set of workers and of instances;   *)
(* at the end, what it promises of killed builds while requests to build   *)
(* reach one worker only and every instance has its own build directory.   *)
(***************************************************************************)
EXTENDS BuildSession, TLAPS

-----------------------------------------------------------------------------
(* What a step leaves alone *)

\* A call that is under way is about an instance; an idle worker has no call.
CallOK == \A h \in Handlers : IF pc[h] = "idle" THEN frame[h] = IdleFrame
                                                ELSE I(h) \in Insts

\* The steps of a handler that call a method of the store that writes.
StoreSteps(h) ==
  \/ RecordConfigured(h) \/ RecordConfigureFailure(h) \/ StartBuild_Ok(h)
  \/ BuildNotRun(h) \/ ParseResult(h) \/ RecordBuild(h) \/ ClearDirtyAfter(h)
  \/ RecordClean(h)

LEMMA StoreChanges ==
  ASSUME NEW h \in Handlers, HandlerStep(h)
  PROVE  UNCHANGED store \/ StoreSteps(h)
  BY DEF HandlerStep, ConfigureStep, BuildStep, CleanStep, ListStep, StoreSteps,
         ConfigureMake, ConfigureReset, ConfigureWrite, ConfigureSpawn,
         ConfigureExit, ConfigureNotRun, StartBuild_Refused, SetProgressFunc,
         MarkDirty, SpawnCMake, SpawnMake, MakeCleanExit_Ok,
         MakeCleanExit_Failed, CompileExit, ResetProgressFunc, CleanCheck,
         CleanExit_Ok, CleanExit_Failed, ListCheckPhase, ListCheckBuilding,
         ListExit, ScannerPanic

\* The steps that write a field of the builder or of its config.
BuilderSteps(h) ==
  \/ ConfigureReset(h) \/ ConfigureWrite(h) \/ SetProgressFunc(h)
  \/ MarkDirty(h) \/ SpawnCMake(h) \/ MakeCleanExit_Ok(h) \/ ParseResult(h)
  \/ ResetProgressFunc(h)

LEMMA BuilderChanges ==
  ASSUME NEW h \in Handlers, HandlerStep(h)
  PROVE  UNCHANGED builder \/ BuilderSteps(h)
  BY DEF HandlerStep, ConfigureStep, BuildStep, CleanStep, ListStep, BuilderSteps,
         ConfigureMake, ConfigureSpawn, ConfigureExit, RecordConfigured,
         RecordConfigureFailure, ConfigureNotRun, StartBuild_Ok,
         StartBuild_Refused, SpawnMake, MakeCleanExit_Failed, CompileExit,
         BuildNotRun, RecordBuild, ClearDirtyAfter, CleanCheck, CleanExit_Ok,
         CleanExit_Failed, RecordClean, ListCheckPhase, ListCheckBuilding,
         ListExit, ScannerPanic

\* The steps at which an external process has changed the build directory.
LeftoverSteps(h) ==
  MakeCleanExit_Ok(h) \/ MakeCleanExit_Failed(h) \/ CompileExit(h) \/ CleanExit_Ok(h)

LEMMA LeftoverChanges ==
  ASSUME NEW h \in Handlers, HandlerStep(h)
  PROVE  UNCHANGED leftover \/ LeftoverSteps(h)
  BY DEF HandlerStep, ConfigureStep, BuildStep, CleanStep, ListStep, LeftoverSteps,
         ConfigureMake, ConfigureReset, ConfigureWrite, ConfigureSpawn,
         ConfigureExit, RecordConfigured, RecordConfigureFailure,
         ConfigureNotRun, StartBuild_Ok, StartBuild_Refused, SetProgressFunc,
         MarkDirty, SpawnCMake, SpawnMake, BuildNotRun, ParseResult,
         RecordBuild, ClearDirtyAfter, ResetProgressFunc, CleanCheck,
         CleanExit_Failed, RecordClean, ListCheckPhase, ListCheckBuilding,
         ListExit, ScannerPanic

-----------------------------------------------------------------------------
(* Type correctness *)

LEMMA StoreOperators ==
  /\ NewStore \in StoreState
  /\ \A s \in StoreState : /\ SetConfigured(s) \in StoreState
                           /\ StartBuild(s) \in StoreState
                           /\ SetDirty(s) \in StoreState
                           /\ ClearDirty(s) \in StoreState
                           /\ SetClean(s) \in StoreState
  /\ \A s \in StoreState, errs \in Origins :
       /\ SetConfigureDiagnostics(s, errs) \in StoreState
       /\ \A code \in ExitCodes : FinishBuild(s, code, errs) \in StoreState
  BY DEF StoreState, NewStore, SetConfigured, StartBuild, FinishBuild, SetDirty,
         ClearDirty, SetConfigureDiagnostics, SetClean, Origins, PhaseConfigured,
         PhaseBuilt, PhaseUnconfigured, ExitCodes

LEMMA ExitCodeType ==
  ASSUME NEW o \in Outcomes \cup {"none"}
  PROVE  ExitCode(o) \in ExitCodes
  BY DEF ExitCode, ExitCodes, Outcomes

LEMMA PcType ==
  ASSUME TypeOK, NEW h \in Handlers, HandlerStep(h)
  PROVE  /\ pc' \in [Handlers -> Labels]
         /\ \A g \in Handlers \ {h} : pc'[g] = pc[g]
<1> USE DEF TypeOK, Labels, ConfigureSteps, CleanSteps, ListSteps, BuildSteps,
            BuildSection, Goto, Return
<1>1. CASE ConfigureStep(h)
  BY <1>1 DEF ConfigureStep, ConfigureMake, ConfigureReset, ConfigureWrite,
              ConfigureSpawn, ConfigureExit, RecordConfigured,
              RecordConfigureFailure, ConfigureNotRun
<1>2. CASE BuildStep(h)
  BY <1>2 DEF BuildStep, StartBuild_Ok, StartBuild_Refused, SetProgressFunc,
         MarkDirty, SpawnCMake, SpawnMake, MakeCleanExit_Ok,
         MakeCleanExit_Failed, CompileExit, BuildNotRun, ParseResult,
         RecordBuild, ClearDirtyAfter, ResetProgressFunc
<1>3. CASE CleanStep(h)
  BY <1>3 DEF CleanStep, CleanCheck, CleanExit_Ok, CleanExit_Failed, RecordClean
<1>4. CASE ListStep(h)
  BY <1>4 DEF ListStep, ListCheckPhase, ListCheckBuilding, ListExit
<1>5. CASE ScannerPanic(h)
  BY <1>5 DEF ScannerPanic
<1>6. QED
  BY <1>1, <1>2, <1>3, <1>4, <1>5 DEF HandlerStep

\* The steps that change a local variable of the call and do not end it.
FrameSteps(h) ==
  \/ ConfigureMake(h) \/ ConfigureSpawn(h) \/ ConfigureExit(h)
  \/ RecordConfigured(h) \/ MarkDirty(h) \/ SpawnCMake(h) \/ SpawnMake(h)
  \/ MakeCleanExit_Failed(h) \/ CompileExit(h) \/ CleanCheck(h)
  \/ CleanExit_Ok(h) \/ ScannerPanic(h)

LEMMA FrameChanges ==
  ASSUME NEW h \in Handlers, HandlerStep(h)
  PROVE  UNCHANGED frame \/ FrameSteps(h) \/ Return(h)
  BY DEF HandlerStep, ConfigureStep, BuildStep, CleanStep, ListStep, FrameSteps,
         ConfigureReset, ConfigureWrite, RecordConfigureFailure,
         ConfigureNotRun, StartBuild_Ok, StartBuild_Refused, SetProgressFunc,
         MakeCleanExit_Ok, BuildNotRun, ParseResult, RecordBuild,
         ClearDirtyAfter, ResetProgressFunc, CleanExit_Failed, RecordClean,
         ListCheckPhase, ListCheckBuilding, ListExit

\* f is a frame of the same call as g.
SameCall(f, g) ==
  f \in Frame /\ f.inst = g.inst /\ f.tool = g.tool /\ f.token = g.token

LEMMA FrameUpdate ==
  ASSUME frame \in [Handlers -> Frame], NEW h \in Handlers, NEW f,
         SameCall(f, frame[h]), frame' = [frame EXCEPT ![h] = f]
  PROVE  /\ frame' \in [Handlers -> Frame]
         /\ \A g \in Handlers \ {h} : frame'[g] = frame[g]
         /\ SameCall(frame'[h], frame[h])
  BY DEF SameCall

LEMMA FrameFields ==
  ASSUME NEW f \in Frame, NEW o \in Outcomes \cup {"none"},
         NEW b \in BOOLEAN, NEW c \in BOOLEAN
  PROVE  /\ SameCall([f EXCEPT !.res = o, !.piped = b], f)
         /\ SameCall([f EXCEPT !.res = o, !.flagged = b], f)
         /\ SameCall([f EXCEPT !.flagged = c, !.piped = b], f)
         /\ SameCall([f EXCEPT !.cleanFirst = c, !.piped = b], f)
         /\ SameCall([f EXCEPT !.cleanFirst = c, !.flagged = b], f)
         /\ SameCall([f EXCEPT !.res = o], f)
         /\ SameCall([f EXCEPT !.piped = b], f)
         /\ SameCall([f EXCEPT !.wasDirty = b], f)
  BY DEF Frame, SameCall

LEMMA FrameType ==
  ASSUME TypeOK, NEW h \in Handlers, HandlerStep(h), I(h) \in Insts
  PROVE  /\ frame' \in [Handlers -> Frame]
         /\ \A g \in Handlers \ {h} : frame'[g] = frame[g]
         /\ Return(h) \/ SameCall(frame'[h], frame[h])
<1>1. frame \in [Handlers -> Frame] /\ frame[h] \in Frame
  BY DEF TypeOK
<1>2. /\ builder[I(h)].dirty \in BOOLEAN /\ builder[I(h)].module \in BOOLEAN
      /\ builder[I(h)].inject \in BOOLEAN /\ store[I(h)].dirty \in BOOLEAN
      /\ (builder[I(h)].progress # None) \in BOOLEAN
  BY DEF TypeOK, BuilderState, StoreState
<1>3. CASE Return(h)
  BY <1>1, <1>3 DEF Return, IdleFrame, Frame
<1>4. CASE ConfigureMake(h)
  BY <1>1, <1>4, FrameFields, FrameUpdate DEF ConfigureMake, Outcomes
<1>5. CASE ConfigureSpawn(h)
  BY <1>1, <1>2, <1>5, FrameFields, FrameUpdate DEF ConfigureSpawn
<1>6. CASE ConfigureExit(h)
  BY <1>1, <1>6, FrameFields, FrameUpdate DEF ConfigureExit
<1>7. CASE RecordConfigured(h)
  BY <1>1, <1>3, <1>7, FrameFields, FrameUpdate DEF RecordConfigured
<1>8. CASE MarkDirty(h)
  BY <1>1, <1>2, <1>8, FrameFields, FrameUpdate DEF MarkDirty
<1>9. CASE SpawnCMake(h)
  BY <1>1, <1>2, <1>9, FrameFields, FrameUpdate DEF SpawnCMake
<1>10. CASE SpawnMake(h)
  BY <1>1, <1>2, <1>10, FrameFields, FrameUpdate DEF SpawnMake
<1>11. CASE MakeCleanExit_Failed(h)
  BY <1>1, <1>11, FrameFields, FrameUpdate DEF MakeCleanExit_Failed
<1>12. CASE CompileExit(h)
  BY <1>1, <1>12, FrameFields, FrameUpdate DEF CompileExit
<1>13. CASE CleanCheck(h)
  BY <1>1, <1>2, <1>3, <1>13, FrameFields, FrameUpdate DEF CleanCheck
<1>14. CASE CleanExit_Ok(h)
  BY <1>1, <1>14, FrameFields, FrameUpdate DEF CleanExit_Ok
<1>15. CASE ScannerPanic(h)
  BY <1>1, <1>15, FrameFields, FrameUpdate DEF ScannerPanic
<1>16. CASE UNCHANGED frame
  BY <1>1, <1>16 DEF SameCall
<1>17. QED
  BY <1>3, <1>4, <1>5, <1>6, <1>7, <1>8, <1>9, <1>10, <1>11, <1>12,
     <1>13, <1>14, <1>15, <1>16, FrameChanges DEF FrameSteps

LEMMA NotIdle ==
  ASSUME TypeOK, CallOK, NEW h \in Handlers, HandlerStep(h)
  PROVE  pc[h] # "idle" /\ I(h) \in Insts
<1>1. pc[h] # "idle"
  BY DEF HandlerStep, ConfigureStep, BuildStep, CleanStep, ListStep, Goto,
         ConfigureMake, ConfigureReset, ConfigureWrite, ConfigureSpawn,
         ConfigureExit, RecordConfigured, RecordConfigureFailure,
         ConfigureNotRun, StartBuild_Ok, StartBuild_Refused, SetProgressFunc,
         MarkDirty, SpawnCMake, SpawnMake, MakeCleanExit_Ok,
         MakeCleanExit_Failed, CompileExit, BuildNotRun, ParseResult,
         RecordBuild, ClearDirtyAfter, ResetProgressFunc, CleanCheck,
         CleanExit_Ok, CleanExit_Failed, RecordClean, ListCheckPhase,
         ListCheckBuilding, ListExit, ScannerPanic
<1>2. QED
  BY <1>1 DEF CallOK

LEMMA StoreType ==
  ASSUME TypeOK, CallOK, NEW h \in Handlers, HandlerStep(h)
  PROVE  /\ store' \in [Insts -> StoreState]
         /\ \A i \in Insts \ {I(h)} : store'[i] = store[i]
<1>1. /\ store \in [Insts -> StoreState]
      /\ I(h) \in Insts
      /\ frame[h].res \in Outcomes \cup {"none"}
  BY NotIdle DEF TypeOK, Frame
<1>2. CASE UNCHANGED store
  BY <1>1, <1>2
<1>3. CASE RecordConfigured(h)
  BY <1>1, <1>3, StoreOperators DEF RecordConfigured
<1>4. CASE RecordConfigureFailure(h)
  BY <1>1, <1>4, StoreOperators DEF RecordConfigureFailure, Origins
<1>5. CASE StartBuild_Ok(h)
  BY <1>1, <1>5, StoreOperators DEF StartBuild_Ok
<1>6. CASE BuildNotRun(h)
  BY <1>1, <1>6, StoreOperators DEF BuildNotRun, Origins, ExitCodes
<1>7. CASE ParseResult(h)
  BY <1>1, <1>7, StoreOperators DEF ParseResult
<1>8. CASE RecordBuild(h)
  <2>1. ExitCode(frame[h].res) \in ExitCodes
    BY <1>1, ExitCodeType
  <2>2. QED
    BY <1>1, <1>8, <2>1, StoreOperators DEF RecordBuild, Origins
<1>9. CASE ClearDirtyAfter(h)
  BY <1>1, <1>9, StoreOperators DEF ClearDirtyAfter
<1>10. CASE RecordClean(h)
  BY <1>1, <1>10, StoreOperators DEF RecordClean
<1>11. QED
  BY <1>2, <1>3, <1>4, <1>5, <1>6, <1>7, <1>8, <1>9, <1>10, StoreChanges
     DEF StoreSteps

LEMMA BuilderType ==
  ASSUME TypeOK, CallOK, NEW h \in Handlers, HandlerStep(h)
  PROVE  /\ builder' \in [Insts -> BuilderState]
         /\ \A i \in Insts \ {I(h)} : builder'[i] = builder[i]
<1>1. builder \in [Insts -> BuilderState] /\ I(h) \in Insts
  BY NotIdle DEF TypeOK
<1>2. CASE UNCHANGED builder
  BY <1>1, <1>2
<1>3. CASE ConfigureReset(h)
  BY <1>1, <1>3 DEF ConfigureReset, BuilderState
<1>4. CASE ConfigureWrite(h)
  BY <1>1, <1>4 DEF ConfigureWrite, BuilderState
<1>5. CASE SetProgressFunc(h)
  BY <1>1, <1>5 DEF SetProgressFunc, BuilderState
<1>6. CASE MarkDirty(h)
  BY <1>1, <1>6 DEF MarkDirty, BuilderState
<1>7. CASE SpawnCMake(h)
  BY <1>1, <1>7 DEF SpawnCMake, BuilderState
<1>8. CASE MakeCleanExit_Ok(h)
  BY <1>1, <1>8 DEF MakeCleanExit_Ok, BuilderState
<1>9. CASE ParseResult(h)
  BY <1>1, <1>9 DEF ParseResult, BuilderState
<1>10. CASE ResetProgressFunc(h)
  BY <1>1, <1>10 DEF ResetProgressFunc, BuilderState
<1>11. QED
  BY <1>2, <1>3, <1>4, <1>5, <1>6, <1>7, <1>8, <1>9, <1>10, BuilderChanges
     DEF BuilderSteps

LEMMA LeftoverType ==
  ASSUME TypeOK, CallOK, NEW h \in Handlers, HandlerStep(h)
  PROVE  /\ leftover' \in [Dirs -> BOOLEAN]
         /\ \A d \in Dirs \ {D(h)} : leftover'[d] = leftover[d]
<1>1. /\ leftover \in [Dirs -> BOOLEAN]
      /\ D(h) \in Dirs
      /\ frame[h].cleanFirst \in BOOLEAN
  BY NotIdle, ConstantsAssumption DEF TypeOK, Frame, D
<1>2. CASE UNCHANGED leftover
  BY <1>1, <1>2
<1>3. CASE LeftoverSteps(h)
  BY <1>1, <1>3 DEF LeftoverSteps, MakeCleanExit_Ok, MakeCleanExit_Failed,
       CompileExit, CleanExit_Ok, Leaves, LeftByKill
<1>4. QED
  BY <1>2, <1>3, LeftoverChanges

LEMMA CallType ==
  ASSUME TypeOK, NEW h \in Handlers, NEW i \in Insts, Call(h, i)
  PROVE  /\ pc' \in [Handlers -> Labels] /\ frame' \in [Handlers -> Frame]
         /\ \A g \in Handlers \ {h} : pc'[g] = pc[g] /\ frame'[g] = frame[g]
         /\ pc[h] = "idle" /\ pc'[h] \in {"start", "cfgReset", "cleanCheck", "listPhase"}
         /\ \E r \in Menu[h] : frame'[h] = [IdleFrame EXCEPT !.tool = r.tool,
                                               !.token = r.token, !.inst = i]
         /\ UNCHANGED <<store, builder, leftover>>
<1>1. PICK r \in Menu[h] :
        /\ Goto(h, "idle", Entry[r.tool])
        /\ frame' = [frame EXCEPT ![h] = [IdleFrame EXCEPT !.tool = r.tool,
                                            !.token = r.token, !.inst = i]]
        /\ UNCHANGED <<store, builder, leftover>>
  BY DEF Call
<1>2. r \in Requests
  BY ConstantsAssumption
<1>3. Entry[r.tool] \in {"start", "cfgReset", "cleanCheck", "listPhase"}
  BY <1>2 DEF Entry, Requests, Tools
<1>4. [IdleFrame EXCEPT !.tool = r.tool, !.token = r.token, !.inst = i] \in Frame
  BY <1>2 DEF IdleFrame, Frame, Requests
<1>5. pc' \in [Handlers -> Labels] /\ pc'[h] = Entry[r.tool]
  BY <1>1, <1>3 DEF TypeOK, Goto, Labels, ConfigureSteps, CleanSteps, ListSteps,
                    BuildSteps
<1>6. frame' \in [Handlers -> Frame]
  BY <1>1, <1>4 DEF TypeOK
<1>7. QED
  BY <1>1, <1>3, <1>5, <1>6 DEF TypeOK, Goto

LEMMA Continues ==
  ASSUME TypeOK, NEW h \in Handlers, HandlerStep(h)
  PROVE  Return(h) \/ pc'[h] # "idle"
<1>1. pc \in [Handlers -> Labels]
  BY DEF TypeOK
<1>3. ConfigureStep(h) => Return(h) \/ pc'[h] # "idle"
  BY <1>1 DEF Goto, ConfigureStep, ConfigureMake, ConfigureReset, ConfigureWrite,
         ConfigureSpawn, ConfigureExit, RecordConfigured,
         RecordConfigureFailure, ConfigureNotRun
<1>4. BuildStep(h) => Return(h) \/ pc'[h] # "idle"
  BY <1>1 DEF Goto, BuildStep, StartBuild_Ok, StartBuild_Refused, SetProgressFunc,
         MarkDirty, SpawnCMake, SpawnMake, MakeCleanExit_Ok,
         MakeCleanExit_Failed, CompileExit, BuildNotRun, ParseResult,
         RecordBuild, ClearDirtyAfter, ResetProgressFunc
<1>5. CleanStep(h) => Return(h) \/ pc'[h] # "idle"
  BY <1>1 DEF Goto, CleanStep, CleanCheck, CleanExit_Ok, CleanExit_Failed, RecordClean
<1>6. ListStep(h) => Return(h) \/ pc'[h] # "idle"
  BY <1>1 DEF Goto, ListStep, ListCheckPhase, ListCheckBuilding, ListExit
<1>7. ScannerPanic(h) => pc'[h] # "idle"
  BY <1>1 DEF ScannerPanic
<1>8. QED
  BY <1>3, <1>4, <1>5, <1>6, <1>7 DEF HandlerStep

LEMMA CallOKStep ==
  ASSUME TypeOK, CallOK, NEW h \in Handlers, HandlerStep(h)
  PROVE  CallOK' 
<1>1. /\ frame \in [Handlers -> Frame] /\ pc \in [Handlers -> Labels]
      /\ pc[h] # "idle" /\ I(h) \in Insts
  BY NotIdle DEF TypeOK
<1>2. \A g \in Handlers \ {h} : pc'[g] = pc[g] /\ frame'[g] = frame[g]
  BY PcType, FrameType, <1>1
<1>3. CASE Return(h)
  <2>1. pc'[h] = "idle" /\ frame'[h] = IdleFrame
    BY <1>1, <1>3 DEF Return
  <2>2. QED
    BY <1>2, <2>1 DEF CallOK, I
<1>4. CASE pc'[h] # "idle" /\ SameCall(frame'[h], frame[h])
  BY <1>1, <1>2, <1>4 DEF CallOK, I, SameCall
<1>5. QED
  BY <1>1, <1>3, <1>4, Continues, FrameType

\* Every step keeps the types and the link between workers and their calls.
Typed == TypeOK /\ CallOK

LEMMA TypedInit == Init => Typed
<1> SUFFICES ASSUME Init PROVE Typed
  OBVIOUS
<1>1. store \in [Insts -> StoreState]
  BY StoreOperators DEF Init
<1>2. builder \in [Insts -> BuilderState]
  <2>1. \A injects \in BOOLEAN : NewBuilder(injects) \in BuilderState
    BY DEF NewBuilder, BuilderState
  <2>2. QED
    BY <2>1 DEF Init
<1>3. frame \in [Handlers -> Frame]
  BY DEF Init, IdleFrame, Frame
<1>4. leftover \in [Dirs -> BOOLEAN] /\ pc \in [Handlers -> Labels]
  BY DEF Init, Labels
<1>5. CallOK
  BY DEF Init, CallOK
<1>6. QED
  BY <1>1, <1>2, <1>3, <1>4, <1>5 DEF Typed, TypeOK

LEMMA TypedStep == Typed /\ [Next]_vars => Typed'
<1> SUFFICES ASSUME Typed, [Next]_vars PROVE Typed'
  OBVIOUS
<1> USE DEF Typed
<1>1. CASE UNCHANGED vars
  BY <1>1 DEF vars, TypeOK, CallOK, I
<1>2. ASSUME NEW h \in Handlers, NEW i \in Insts, Call(h, i) PROVE Typed'
  <2>1. TypeOK'
    BY <1>2, CallType DEF TypeOK
  <2>2. PICK r \in Menu[h] : frame'[h] = [IdleFrame EXCEPT !.tool = r.tool,
                                            !.token = r.token, !.inst = i]
    BY <1>2, CallType
  <2>3. I(h)' = i
    BY <2>2 DEF I, IdleFrame
  <2>4. QED
    BY <1>2, <2>1, <2>3, CallType DEF CallOK, I
<1>3. ASSUME NEW h \in Handlers, HandlerStep(h) PROVE Typed'
  <2>1. TypeOK'
    BY <1>3, NotIdle, PcType, FrameType, StoreType, BuilderType, LeftoverType DEF TypeOK
  <2>2. QED
    BY <1>3, <2>1, CallOKStep
<1>4. QED
  BY <1>1, <1>2, <1>3 DEF Next

\* The variables of the session keep their types (main.go, store.go, cmake.go
\* and make.go as BuildSession models them).
THEOREM TypeCorrect == Spec => []TypeOK
<1>1. Typed => TypeOK
  BY DEF Typed
<1>2. QED
  BY <1>1, TypedInit, TypedStep, PTL DEF Spec

-----------------------------------------------------------------------------
(* Effects of the steps on a store *)

LEMMA StoreFields ==
  \A s \in StoreState :
    /\ LET t == SetConfigured(s)
       IN  t.phase = PhaseConfigured /\ t.building = s.building /\ t.dirty = s.dirty
    /\ LET t == StartBuild(s)
       IN  t.phase = s.phase /\ t.building /\ t.dirty = s.dirty
    /\ LET t == SetDirty(s)
       IN  t.phase = s.phase /\ t.building = s.building /\ t.dirty
    /\ LET t == ClearDirty(s)
       IN  t.phase = s.phase /\ t.building = s.building /\ ~t.dirty
    /\ LET t == SetClean(s)
       IN  t.phase = PhaseConfigured /\ t.building = s.building /\ t.dirty = s.dirty
    /\ \A errs \in Origins :
         /\ LET t == SetConfigureDiagnostics(s, errs)
            IN  t.phase = s.phase /\ t.building = s.building /\ t.dirty = s.dirty
         /\ \A code \in ExitCodes :
              LET t == FinishBuild(s, code, errs)
              IN  t.phase = PhaseBuilt /\ ~t.building /\ t.dirty = s.dirty
  BY DEF StoreState, SetConfigured, StartBuild, FinishBuild, SetDirty,
         ClearDirty, SetConfigureDiagnostics, SetClean

\* What a step of h does to the phase, BuildInProgress and Dirty of its store.
LEMMA StoreEffects ==
  ASSUME Typed, NEW h \in Handlers, HandlerStep(h),
         NEW s, NEW t, s = store[I(h)], t = store'[I(h)]
  PROVE  /\ StartBuild_Ok(h) => t.phase = s.phase /\ t.building /\ t.dirty = s.dirty
         /\ BuildNotRun(h) \/ RecordBuild(h) =>
              t.phase = PhaseBuilt /\ ~t.building /\ t.dirty = s.dirty
         /\ ParseResult(h) =>
              /\ t.phase = s.phase /\ t.building = s.building
              /\ frame[h].res = "killed" => t.dirty
              /\ frame[h].res # "killed" => t.dirty = s.dirty
         /\ ClearDirtyAfter(h) => t.phase = s.phase /\ t.building = s.building /\ ~t.dirty
         /\ RecordConfigured(h) \/ RecordClean(h) =>
              t.phase = PhaseConfigured /\ t.building = s.building /\ t.dirty = s.dirty
         /\ RecordConfigureFailure(h) \/ UNCHANGED store =>
              t.phase = s.phase /\ t.building = s.building /\ t.dirty = s.dirty
<1>1. /\ store \in [Insts -> StoreState] /\ s \in StoreState /\ I(h) \in Insts
      /\ frame[h].res \in Outcomes \cup {"none"}
  BY NotIdle DEF Typed, TypeOK, Frame
<1>2. ASSUME StartBuild_Ok(h)
      PROVE  t.phase = s.phase /\ t.building /\ t.dirty = s.dirty
  BY <1>1, <1>2, StoreFields DEF StartBuild_Ok
<1>3. ASSUME BuildNotRun(h)
      PROVE  t.phase = PhaseBuilt /\ ~t.building /\ t.dirty = s.dirty
  BY <1>1, <1>3, StoreFields DEF BuildNotRun, Origins, ExitCodes
<1>4. ASSUME RecordBuild(h)
      PROVE  t.phase = PhaseBuilt /\ ~t.building /\ t.dirty = s.dirty
  <2>1. ExitCode(frame[h].res) \in ExitCodes
    BY <1>1, ExitCodeType
  <2>2. QED
    BY <1>1, <1>4, <2>1, StoreFields DEF RecordBuild, Origins
<1>5. ASSUME ParseResult(h)
      PROVE  /\ t.phase = s.phase /\ t.building = s.building
             /\ frame[h].res = "killed" => t.dirty
             /\ frame[h].res # "killed" => t.dirty = s.dirty
  <2>1. CASE frame[h].res = "killed"
    BY <1>1, <1>5, <2>1, StoreFields DEF ParseResult
  <2>2. CASE frame[h].res # "killed"
    BY <1>1, <1>5, <2>2 DEF ParseResult
  <2>3. QED
    BY <2>1, <2>2
<1>6. ASSUME ClearDirtyAfter(h)
      PROVE  t.phase = s.phase /\ t.building = s.building /\ ~t.dirty
  BY <1>1, <1>6, StoreFields DEF ClearDirtyAfter
<1>7. ASSUME RecordConfigured(h)
      PROVE  t.phase = PhaseConfigured /\ t.building = s.building /\ t.dirty = s.dirty
  BY <1>1, <1>7, StoreFields DEF RecordConfigured
<1>8. ASSUME RecordClean(h)
      PROVE  t.phase = PhaseConfigured /\ t.building = s.building /\ t.dirty = s.dirty
  BY <1>1, <1>8, StoreFields DEF RecordClean
<1>9. ASSUME RecordConfigureFailure(h)
      PROVE  t.phase = s.phase /\ t.building = s.building /\ t.dirty = s.dirty
  BY <1>1, <1>9, StoreFields DEF RecordConfigureFailure, Origins
<1>10. QED
  BY <1>1, <1>2, <1>3, <1>4, <1>5, <1>6, <1>7, <1>8, <1>9

-----------------------------------------------------------------------------
(* Builds of an instance exclude each other *)

\* Only StartBuild enters the build section and only FinishBuild leaves it.
LEMMA SectionStep ==
  ASSUME Typed, NEW h \in Handlers, HandlerStep(h)
  PROVE  \/ /\ StartBuild_Ok(h)
            /\ pc[h] \notin BuildSection /\ pc'[h] \in BuildSection
         \/ /\ BuildNotRun(h) \/ RecordBuild(h)
            /\ pc[h] \in BuildSection /\ pc'[h] \notin BuildSection
         \/ /\ pc[h] \in BuildSection <=> pc'[h] \in BuildSection
            /\ store'[I(h)].building = store[I(h)].building
<1>1. pc \in [Handlers -> Labels]
  BY DEF Typed, TypeOK
<1>2. CASE StartBuild_Ok(h)
  BY <1>1, <1>2 DEF StartBuild_Ok, Goto, BuildSection
<1>3. CASE BuildNotRun(h) \/ RecordBuild(h)
  BY <1>1, <1>3 DEF BuildNotRun, RecordBuild, Goto, BuildSection
<1>4. ASSUME ~StartBuild_Ok(h), ~BuildNotRun(h), ~RecordBuild(h)
      PROVE  /\ pc[h] \in BuildSection <=> pc'[h] \in BuildSection
             /\ store'[I(h)].building = store[I(h)].building
  <2>1. store'[I(h)].building = store[I(h)].building
    BY <1>4, StoreEffects, StoreChanges DEF StoreSteps
  <2>2. CASE ConfigureStep(h)
    BY <1>1, <2>1, <2>2 DEF ConfigureStep, ConfigureMake, ConfigureReset,
         ConfigureWrite, ConfigureSpawn, ConfigureExit, RecordConfigured,
         RecordConfigureFailure, ConfigureNotRun, Goto, Return, BuildSection
  <2>3. CASE BuildStep(h)
    BY <1>1, <1>4, <2>1, <2>3 DEF BuildStep, StartBuild_Refused,
         SetProgressFunc, MarkDirty, SpawnCMake, SpawnMake, MakeCleanExit_Ok,
         MakeCleanExit_Failed, CompileExit, ParseResult, ClearDirtyAfter,
         ResetProgressFunc, Goto, Return, BuildSection
  <2>4. CASE CleanStep(h)
    BY <1>1, <2>1, <2>4 DEF CleanStep, CleanCheck, CleanExit_Ok,
         CleanExit_Failed, RecordClean, Goto, Return, BuildSection
  <2>5. CASE ListStep(h)
    BY <1>1, <2>1, <2>5 DEF ListStep, ListCheckPhase, ListCheckBuilding,
         ListExit, Return, BuildSection
  <2>6. CASE ScannerPanic(h)
    BY <2>1, <2>6 DEF ScannerPanic
  <2>7. QED
    BY <2>2, <2>3, <2>4, <2>5, <2>6 DEF HandlerStep
<1>5. QED
  BY <1>2, <1>3, <1>4

\* A step of h is local: the other workers and the instances that the call of
\* h is not about stay as they are, and h keeps its call unless it returns.
LEMMA Locality ==
  ASSUME Typed, NEW h \in Handlers, HandlerStep(h)
  PROVE  /\ I(h) \in Insts
         /\ \A g \in Handlers \ {h} : pc'[g] = pc[g] /\ frame'[g] = frame[g]
         /\ \A i \in Insts \ {I(h)} : /\ store'[i] = store[i]
                                      /\ builder'[i] = builder[i]
         /\ \A d \in Dirs \ {D(h)} : leftover'[d] = leftover[d]
         /\ Return(h) \/ SameCall(frame'[h], frame[h])
         /\ Return(h) => pc'[h] = "idle"
<1>1. Return(h) => pc'[h] = "idle"
  BY DEF Return, Typed, TypeOK
<1>2. QED
  BY <1>1, NotIdle, PcType, FrameType, StoreType, BuilderType, LeftoverType DEF Typed

LEMMA ExclusiveInit == Init => ExclusiveBuild
  BY DEF Init, ExclusiveBuild, BuildSection, NewStore

LEMMA ExclusiveStep == Typed /\ ExclusiveBuild /\ [Next]_vars => ExclusiveBuild'
<1> SUFFICES ASSUME Typed, ExclusiveBuild, [Next]_vars PROVE ExclusiveBuild'
  OBVIOUS
<1>1. CASE UNCHANGED vars
  BY <1>1 DEF vars, ExclusiveBuild, I
<1>2. ASSUME NEW h \in Handlers, NEW i \in Insts, Call(h, i) PROVE ExclusiveBuild'
  <2>1. /\ \A g \in Handlers \ {h} : pc'[g] = pc[g] /\ frame'[g] = frame[g]
        /\ pc[h] = "idle" /\ pc'[h] \in {"start", "cfgReset", "cleanCheck", "listPhase"}
        /\ UNCHANGED store
    BY <1>2, CallType DEF Typed
  <2>2. pc[h] \notin BuildSection /\ pc'[h] \notin BuildSection
    BY <2>1 DEF BuildSection
  <2>3. \A g \in Handlers : /\ pc'[g] \in BuildSection <=> pc[g] \in BuildSection
                            /\ pc[g] \in BuildSection => I(g)' = I(g)
    BY <2>1, <2>2 DEF I
  <2>4. QED
    BY <2>1, <2>3 DEF ExclusiveBuild
<1>3. ASSUME NEW h \in Handlers, HandlerStep(h) PROVE ExclusiveBuild'
  <2>1. \A g \in Handlers \ {h} : pc'[g] = pc[g] /\ I(g)' = I(g)
    BY <1>3, Locality DEF I
  <2>2. pc'[h] \in BuildSection => I(h)' = I(h)
    BY <1>3, Locality DEF I, SameCall, BuildSection
  <2>3. \A i \in Insts \ {I(h)} : store'[i] = store[i]
    BY <1>3, Locality
  <2>4. CASE StartBuild_Ok(h) /\ pc'[h] \in BuildSection
    <3>1. ~store[I(h)].building /\ store'[I(h)].building
      BY <1>3, <2>4, StoreEffects DEF StartBuild_Ok, MayStartBuild
    <3>2. \A g \in Handlers : ~(pc[g] \in BuildSection /\ I(g) = I(h))
      BY <1>3, <3>1, Locality DEF ExclusiveBuild
    <3>3. QED
      BY <2>1, <2>2, <2>3, <2>4, <3>1, <3>2 DEF ExclusiveBuild
  <2>5. CASE /\ BuildNotRun(h) \/ RecordBuild(h)
             /\ pc[h] \in BuildSection /\ pc'[h] \notin BuildSection
    <3>1. ~store'[I(h)].building
      BY <1>3, <2>5, StoreEffects
    <3>2. QED
      BY <2>1, <2>3, <2>5, <3>1 DEF ExclusiveBuild
  <2>6. CASE /\ pc[h] \in BuildSection <=> pc'[h] \in BuildSection
             /\ store'[I(h)].building = store[I(h)].building
    BY <2>1, <2>2, <2>3, <2>6 DEF ExclusiveBuild
  <2>7. QED
    BY <1>3, <2>4, <2>5, <2>6, SectionStep
<1>4. QED
  BY <1>1, <1>2, <1>3 DEF Next

\* Builds of one configuration exclude each other and BuildInProgress tells
\* the truth about them, however configure, clean and other calls interleave
\* (store.go StartBuild, FinishBuild; the guard of handleBuild).
THEOREM Exclusive == Spec => []ExclusiveBuild
  BY TypedInit, TypedStep, ExclusiveInit, ExclusiveStep, PTL DEF Spec

-----------------------------------------------------------------------------
(* A project stays configured *)

\* The points at which a call relies on the project being configured.
NeedsConfigured == BuildSection \cup {"cleanRun", "cleanRecord"}

ConfiguredInv ==
  \A h \in Handlers : pc[h] \in NeedsConfigured => store[I(h)].phase # PhaseUnconfigured

LEMMA CallEffect ==
  ASSUME Typed, NEW h \in Handlers, NEW i \in Insts, Call(h, i)
  PROVE  /\ \A g \in Handlers \ {h} : pc'[g] = pc[g] /\ frame'[g] = frame[g]
         /\ pc[h] = "idle" /\ pc'[h] \in {"start", "cfgReset", "cleanCheck", "listPhase"}
         /\ UNCHANGED <<store, builder, leftover>>
  BY CallType DEF Typed

LEMMA PhaseStep ==
  ASSUME Typed, ConfiguredInv, NEW h \in Handlers, HandlerStep(h)
  PROVE  \A i \in Insts :
           \/ store'[i].phase = store[i].phase
           \/ /\ i = I(h) /\ store'[i].phase # PhaseUnconfigured
              /\ store[i].phase # PhaseUnconfigured \/ RecordConfigured(h)
<1>1. \A i \in Insts \ {I(h)} : store'[i] = store[i]
  BY Locality
<1>2. \/ store'[I(h)].phase = store[I(h)].phase
      \/ /\ store'[I(h)].phase \in {PhaseConfigured, PhaseBuilt}
         /\ BuildNotRun(h) \/ RecordBuild(h) \/ RecordClean(h) \/ RecordConfigured(h)
  BY StoreChanges, StoreEffects DEF StoreSteps
<1>3. BuildNotRun(h) \/ RecordBuild(h) \/ RecordClean(h)
        => store[I(h)].phase # PhaseUnconfigured
  BY DEF ConfiguredInv, NeedsConfigured, BuildSection, BuildNotRun, RecordBuild,
         RecordClean, Goto
<1>4. QED
  BY <1>1, <1>2, <1>3 DEF PhaseConfigured, PhaseBuilt, PhaseUnconfigured

LEMMA ReachesGuarded ==
  ASSUME Typed, NEW h \in Handlers, HandlerStep(h), pc'[h] \in NeedsConfigured
  PROVE  \/ pc[h] \in NeedsConfigured
         \/ store[I(h)].phase # PhaseUnconfigured
<1>1. pc \in [Handlers -> Labels]
  BY DEF Typed, TypeOK
<1>2. CASE pc'[h] \in BuildSection
  BY <1>2, SectionStep DEF StartBuild_Ok, MayStartBuild, NeedsConfigured,
                           PhaseConfigured, PhaseUnconfigured
<1>3. CASE pc'[h] \in {"cleanRun", "cleanRecord"}
  <2>1. ~ConfigureStep(h)
    BY <1>1, <1>3 DEF ConfigureStep, ConfigureMake, ConfigureReset,
         ConfigureWrite, ConfigureSpawn, ConfigureExit, RecordConfigured,
         RecordConfigureFailure, ConfigureNotRun, Goto, Return
  <2>2. ~BuildStep(h)
    BY <1>1, <1>3 DEF BuildStep, StartBuild_Ok, StartBuild_Refused,
         SetProgressFunc, MarkDirty, SpawnCMake, SpawnMake, MakeCleanExit_Ok,
         MakeCleanExit_Failed, CompileExit, BuildNotRun, ParseResult,
         RecordBuild, ClearDirtyAfter, ResetProgressFunc, Goto, Return
  <2>3. ~ListStep(h)
    BY <1>1, <1>3 DEF ListStep, ListCheckPhase, ListCheckBuilding, ListExit, Return
  <2>4. CleanStep(h) => pc[h] = "cleanRun" \/ store[I(h)].phase >= PhaseConfigured
    BY <1>1, <1>3 DEF CleanStep, CleanCheck, CleanExit_Ok, CleanExit_Failed,
         RecordClean, Goto, Return
  <2>5. ScannerPanic(h) => pc'[h] = pc[h]
    BY DEF ScannerPanic
  <2>6. QED
    BY <1>3, <2>1, <2>2, <2>3, <2>4, <2>5
       DEF HandlerStep, NeedsConfigured, PhaseConfigured, PhaseUnconfigured
<1>4. QED
  BY <1>2, <1>3 DEF NeedsConfigured

LEMMA ConfiguredStep == Typed /\ ConfiguredInv /\ [Next]_vars => ConfiguredInv'
<1> SUFFICES ASSUME Typed, ConfiguredInv, [Next]_vars,
                    NEW g \in Handlers, pc'[g] \in NeedsConfigured
             PROVE  store'[I(g)'].phase # PhaseUnconfigured
  BY DEF ConfiguredInv
<1>1. CASE UNCHANGED vars
  BY <1>1 DEF vars, ConfiguredInv, I
<1>2. ASSUME NEW h \in Handlers, NEW i \in Insts, Call(h, i)
      PROVE  store'[I(g)'].phase # PhaseUnconfigured
  BY <1>2, CallEffect DEF ConfiguredInv, NeedsConfigured, BuildSection, I
<1>3. ASSUME NEW h \in Handlers, HandlerStep(h)
      PROVE  store'[I(g)'].phase # PhaseUnconfigured
  <2>1. I(g)' = I(g)
    BY <1>3, Locality DEF I, SameCall, NeedsConfigured, BuildSection
  <2>2. store[I(g)].phase # PhaseUnconfigured
    BY <1>3, Locality, ReachesGuarded DEF ConfiguredInv
  <2>3. I(g) \in Insts
    BY <1>3, Locality, NotIdle DEF Typed, CallOK, NeedsConfigured, BuildSection
  <2>4. QED
    BY <1>3, <2>1, <2>2, <2>3, PhaseStep
<1>4. QED
  BY <1>1, <1>2, <1>3 DEF Next

\* A project leaves the unconfigured phase by a recorded successful configure
\* only, and for good (store.go SetConfigured, SetClean, FinishBuild).
THEOREM StaysConfigured == Spec => ConfiguredForGood
<1> DEFINE A == \A i \in Insts :
       /\ store[i].phase # PhaseUnconfigured => store'[i].phase # PhaseUnconfigured
       /\ store[i].phase = PhaseUnconfigured /\ store'[i].phase # PhaseUnconfigured
            => \E h \in Handlers : I(h) = i /\ RecordConfigured(h)
<1>1. Init => ConfiguredInv
  BY DEF Init, ConfiguredInv, NeedsConfigured, BuildSection
<1>2. Typed /\ ConfiguredInv /\ [Next]_vars => [A]_vars
  <2> SUFFICES ASSUME Typed, ConfiguredInv, Next PROVE A
    OBVIOUS
  <2>1. ASSUME NEW h \in Handlers, NEW i \in Insts, Call(h, i) PROVE A
    BY <2>1, CallEffect
  <2>2. ASSUME NEW h \in Handlers, HandlerStep(h) PROVE A
    BY <2>2, PhaseStep
  <2>3. QED
    BY <2>1, <2>2 DEF Next
<1>3. QED
  BY <1>1, <1>2, TypedInit, TypedStep, ConfiguredStep, PTL DEF Spec, ConfiguredForGood

-----------------------------------------------------------------------------
(* The dirty flag on its way from the store to the build process *)

\* What a step of h does to the dirty flag and the callback of its builder.
LEMMA BuilderEffects ==
  ASSUME Typed, NEW h \in Handlers, HandlerStep(h),
         NEW b, NEW c, b = builder[I(h)], c = builder'[I(h)]
  PROVE  /\ MarkDirty(h) => (b.dirty \/ store[I(h)].dirty => c.dirty)
         /\ c.dirty # b.dirty => MarkDirty(h) \/ SpawnCMake(h) \/ MakeCleanExit_Ok(h)
         /\ SetProgressFunc(h) => c.progress = IF WantsProgress(h) THEN h ELSE b.progress
         /\ ResetProgressFunc(h) => c.progress = IF WantsProgress(h) THEN None ELSE b.progress
         /\ c.progress # b.progress => SetProgressFunc(h) \/ ResetProgressFunc(h)
<1>1. builder \in [Insts -> BuilderState] /\ b \in BuilderState /\ I(h) \in Insts
  BY NotIdle DEF Typed, TypeOK
<1>2. CASE /\ UNCHANGED builder
           /\ ~MarkDirty(h) /\ ~SetProgressFunc(h) /\ ~ResetProgressFunc(h)
  BY <1>1, <1>2
<1>3. CASE ConfigureReset(h)
  BY <1>1, <1>3 DEF ConfigureReset, BuilderState, Goto, MarkDirty, SetProgressFunc, ResetProgressFunc
<1>4. CASE ConfigureWrite(h)
  BY <1>1, <1>4 DEF ConfigureWrite, BuilderState, Goto, MarkDirty, SetProgressFunc, ResetProgressFunc
<1>5. CASE SetProgressFunc(h)
  BY <1>1, <1>5 DEF SetProgressFunc, BuilderState, Goto, MarkDirty, ResetProgressFunc
<1>6. CASE MarkDirty(h)
  BY <1>1, <1>6 DEF MarkDirty, BuilderState, Goto, SetProgressFunc, ResetProgressFunc
<1>7. CASE SpawnCMake(h)
  BY <1>1, <1>7 DEF SpawnCMake, BuilderState, Goto, MarkDirty, SetProgressFunc, ResetProgressFunc
<1>8. CASE MakeCleanExit_Ok(h)
  BY <1>1, <1>8 DEF MakeCleanExit_Ok, BuilderState, Goto, MarkDirty, SetProgressFunc, ResetProgressFunc
<1>9. CASE ParseResult(h)
  BY <1>1, <1>9 DEF ParseResult, BuilderState, Goto, MarkDirty, SetProgressFunc, ResetProgressFunc
<1>10. CASE ResetProgressFunc(h)
  BY <1>1, <1>10 DEF ResetProgressFunc, BuilderState, Goto, MarkDirty, SetProgressFunc
<1>11. QED
  BY <1>2, <1>3, <1>4, <1>5, <1>6, <1>7, <1>8, <1>9, <1>10, BuilderChanges
     DEF BuilderSteps

\* What a step of h does to the local variables of a call that goes on.
LEMMA FrameEffects ==
  ASSUME Typed, NEW h \in Handlers, HandlerStep(h), ~Return(h),
         NEW f, NEW k, f = frame[h], k = frame'[h]
  PROVE  /\ MarkDirty(h) => k.wasDirty = store[I(h)].dirty
         /\ ~MarkDirty(h) => k.wasDirty = f.wasDirty
         /\ SpawnCMake(h) \/ SpawnMake(h) => k.cleanFirst = builder[I(h)].dirty
         /\ ~(SpawnCMake(h) \/ SpawnMake(h)) => k.cleanFirst = f.cleanFirst
         /\ k.res # f.res => \/ ConfigureMake(h) \/ ConfigureExit(h)
                             \/ RecordConfigured(h)
                             \/ MakeCleanExit_Failed(h) \/ CompileExit(h)
<1>1. /\ frame \in [Handlers -> Frame] /\ f \in Frame /\ I(h) \in Insts
      /\ pc[h] = "mark" => ~(SpawnCMake(h) \/ SpawnMake(h))
      /\ pc[h] = "spawn" => ~MarkDirty(h)
      /\ pc[h] \notin {"mark", "spawn"} =>
           ~MarkDirty(h) /\ ~(SpawnCMake(h) \/ SpawnMake(h))
  BY NotIdle DEF Typed, TypeOK, Goto, MarkDirty, SpawnCMake, SpawnMake
<1>2. CASE UNCHANGED frame /\ ~(MarkDirty(h) \/ SpawnCMake(h) \/ SpawnMake(h))
  BY <1>2
<1>3. CASE ConfigureMake(h)
  BY <1>1, <1>3 DEF ConfigureMake, Goto, Frame
<1>4. CASE ConfigureSpawn(h)
  <2>1. pc[h] \notin {"mark", "spawn"}
    BY <1>4 DEF ConfigureSpawn, Goto
  <2>2. k.wasDirty = f.wasDirty /\ k.cleanFirst = f.cleanFirst /\ k.res = f.res
    BY <1>1, <1>4 DEF ConfigureSpawn, Frame
  <2>3. QED
    BY <1>1, <2>1, <2>2
<1>5. CASE ConfigureExit(h)
  <2>1. PICK o \in Outcomes : frame' = [frame EXCEPT ![h] =
                                    [@ EXCEPT !.res = o, !.piped = FALSE]]
    BY <1>5 DEF ConfigureExit
  <2>2. pc[h] \notin {"mark", "spawn"}
    BY <1>5 DEF ConfigureExit, Goto
  <2>3. k.wasDirty = f.wasDirty /\ k.cleanFirst = f.cleanFirst
    BY <1>1, <2>1 DEF Frame
  <2>4. QED
    BY <1>1, <1>5, <2>2, <2>3
<1>6. CASE RecordConfigured(h)
  BY <1>1, <1>6 DEF RecordConfigured, Goto, Frame
<1>7. CASE MarkDirty(h)
  BY <1>1, <1>7 DEF MarkDirty, Goto, Frame
<1>8. CASE SpawnCMake(h)
  BY <1>1, <1>8 DEF SpawnCMake, Goto, Frame
<1>9. CASE SpawnMake(h)
  BY <1>1, <1>9 DEF SpawnMake, Goto, Frame
<1>10. CASE MakeCleanExit_Failed(h)
  <2>1. PICK o \in Outcomes : frame' = [frame EXCEPT ![h].res = o]
    BY <1>10 DEF MakeCleanExit_Failed
  <2>2. pc[h] \notin {"mark", "spawn"}
    BY <1>10 DEF MakeCleanExit_Failed, Goto
  <2>3. k.wasDirty = f.wasDirty /\ k.cleanFirst = f.cleanFirst
    BY <1>1, <2>1 DEF Frame
  <2>4. QED
    BY <1>1, <1>10, <2>2, <2>3
<1>11. CASE CompileExit(h)
  <2>1. PICK o \in Outcomes : frame' = [frame EXCEPT ![h] =
                                    [@ EXCEPT !.res = o, !.piped = FALSE]]
    BY <1>11 DEF CompileExit
  <2>2. pc[h] \notin {"mark", "spawn"}
    BY <1>11 DEF CompileExit, Goto
  <2>3. k.wasDirty = f.wasDirty /\ k.cleanFirst = f.cleanFirst
    BY <1>1, <2>1 DEF Frame
  <2>4. QED
    BY <1>1, <1>11, <2>2, <2>3
<1>12. CASE CleanCheck(h)
  BY <1>1, <1>12 DEF CleanCheck, Goto, Frame
<1>13. CASE CleanExit_Ok(h)
  <2>1. pc[h] \notin {"mark", "spawn"}
    BY <1>13 DEF CleanExit_Ok, Goto
  <2>2. k.wasDirty = f.wasDirty /\ k.cleanFirst = f.cleanFirst /\ k.res = f.res
    BY <1>1, <1>13 DEF CleanExit_Ok, Frame
  <2>3. QED
    BY <1>1, <2>1, <2>2
<1>14. CASE ScannerPanic(h)
  BY <1>1, <1>14 DEF ScannerPanic, Frame
<1>15. QED
  BY <1>2, <1>3, <1>4, <1>5, <1>6, <1>7, <1>8, <1>9, <1>10, <1>11, <1>12,
     <1>13, <1>14, FrameChanges DEF FrameSteps

\* The way a build call goes from "mark" to "clear".
LEMMA BuildPath ==
  ASSUME Typed, NEW h \in Handlers, HandlerStep(h)
  PROVE  /\ pc'[h] = "spawn" => MarkDirty(h)
         /\ pc'[h] \in Building =>
              \/ SpawnCMake(h) \/ SpawnMake(h)
              \/ pc[h] \in Building /\ (MakeCleanExit_Ok(h) \/ ScannerPanic(h))
         /\ pc'[h] = "compiled" => MakeCleanExit_Failed(h) \/ CompileExit(h)
         /\ pc'[h] = "finish" => ParseResult(h)
         /\ pc'[h] = "clear" => /\ RecordBuild(h)
                                /\ frame[h].wasDirty /\ frame[h].res = "ok"
<1>1. pc \in [Handlers -> Labels]
  BY DEF Typed, TypeOK
<1> USE DEF Building
<1>2. CASE ConfigureStep(h)
  BY <1>1, <1>2 DEF ConfigureStep, ConfigureMake, ConfigureReset,
       ConfigureWrite, ConfigureSpawn, ConfigureExit, RecordConfigured,
       RecordConfigureFailure, ConfigureNotRun, Goto, Return
<1>3. CASE BuildStep(h)
  <2>1. CASE \/ StartBuild_Ok(h) \/ StartBuild_Refused(h) \/ SetProgressFunc(h)
             \/ BuildNotRun(h) \/ ClearDirtyAfter(h) \/ ResetProgressFunc(h)
    BY <1>1, <2>1 DEF StartBuild_Ok, StartBuild_Refused, SetProgressFunc,
         BuildNotRun, ClearDirtyAfter, ResetProgressFunc, Goto, Return
  <2>2. CASE MarkDirty(h)
    BY <1>1, <2>2 DEF MarkDirty, Goto
  <2>3. CASE SpawnCMake(h) \/ SpawnMake(h)
    BY <1>1, <2>3 DEF SpawnCMake, SpawnMake, Goto
  <2>4. CASE MakeCleanExit_Ok(h)
    BY <1>1, <2>4 DEF MakeCleanExit_Ok, Goto
  <2>5. CASE MakeCleanExit_Failed(h) \/ CompileExit(h)
    BY <1>1, <2>5 DEF MakeCleanExit_Failed, CompileExit, Goto
  <2>6. CASE ParseResult(h)
    BY <1>1, <2>6 DEF ParseResult, Goto
  <2>7. CASE RecordBuild(h)
    BY <1>1, <2>7 DEF RecordBuild, Goto
  <2>8. QED
    BY <1>3, <2>1, <2>2, <2>3, <2>4, <2>5, <2>6, <2>7 DEF BuildStep
<1>4. CASE CleanStep(h)
  BY <1>1, <1>4 DEF CleanStep, CleanCheck, CleanExit_Ok, CleanExit_Failed,
       RecordClean, Goto, Return
<1>5. CASE ListStep(h)
  BY <1>1, <1>5 DEF ListStep, ListCheckPhase, ListCheckBuilding, ListExit, Return
<1>6. CASE ScannerPanic(h)
  BY <1>1, <1>6 DEF ScannerPanic
<1>7. QED
  BY <1>2, <1>3, <1>4, <1>5, <1>6 DEF HandlerStep

\* A call that found its store dirty carries that to its build process.
DirtyHand ==
  \A h \in Handlers :
    frame[h].wasDirty => /\ pc[h] = "spawn" => builder[I(h)].dirty
                         /\ pc[h] \in Building => frame[h].cleanFirst

\* Between MarkDirty and the start of its process a call has the builder's
\* dirty flag to itself.
LEMMA FlagIsOwn ==
  ASSUME Typed, ExclusiveBuild, NEW h \in Handlers, HandlerStep(h),
         NEW g \in Handlers, g # h, pc[g] \in BuildSection
  PROVE  builder'[I(g)].dirty = builder[I(g)].dirty
<1>1. I(g) \in Insts
  BY DEF Typed, CallOK, BuildSection
<1>2. CASE I(g) # I(h)
  BY <1>1, <1>2, Locality
<1>3. CASE I(g) = I(h)
  <2>1. pc[h] \notin BuildSection
    BY <1>3 DEF ExclusiveBuild
  <2>2. ~(MarkDirty(h) \/ SpawnCMake(h) \/ MakeCleanExit_Ok(h))
    BY <2>1 DEF MarkDirty, SpawnCMake, MakeCleanExit_Ok, Goto, BuildSection
  <2>3. QED
    BY <1>3, <2>2, BuilderEffects
<1>4. QED
  BY <1>2, <1>3

LEMMA DirtyHandStep == Typed /\ ExclusiveBuild /\ DirtyHand /\ [Next]_vars => DirtyHand'
<1> SUFFICES ASSUME Typed, ExclusiveBuild, DirtyHand, [Next]_vars,
                    NEW g \in Handlers, frame'[g].wasDirty
             PROVE  /\ pc'[g] = "spawn" => builder'[I(g)'].dirty
                    /\ pc'[g] \in Building => frame'[g].cleanFirst
  BY DEF DirtyHand
<1>1. CASE UNCHANGED vars
  BY <1>1 DEF vars, DirtyHand, I
<1>2. ASSUME NEW h \in Handlers, NEW i \in Insts, Call(h, i)
      PROVE  /\ pc'[g] = "spawn" => builder'[I(g)'].dirty
             /\ pc'[g] \in Building => frame'[g].cleanFirst
  BY <1>2, CallEffect DEF DirtyHand, Building, I
<1>3. ASSUME NEW h \in Handlers, HandlerStep(h), h # g
      PROVE  /\ pc'[g] = "spawn" => builder'[I(g)'].dirty
             /\ pc'[g] \in Building => frame'[g].cleanFirst
  <2>1. pc'[g] = pc[g] /\ frame'[g] = frame[g] /\ I(g)' = I(g)
    BY <1>3, Locality DEF I
  <2>2. pc[g] = "spawn" => builder'[I(g)].dirty = builder[I(g)].dirty
    BY <1>3, FlagIsOwn DEF BuildSection
  <2>3. QED
    BY <2>1, <2>2 DEF DirtyHand
<1>4. ASSUME HandlerStep(g), pc'[g] \in {"spawn"} \cup Building
      PROVE  /\ pc'[g] = "spawn" => builder'[I(g)'].dirty
             /\ pc'[g] \in Building => frame'[g].cleanFirst
  <2>1. ~Return(g) /\ I(g)' = I(g)
    BY <1>4, Locality DEF I, SameCall, Building
  <2>2. pc'[g] = "spawn" => builder'[I(g)].dirty
    BY <1>4, <2>1, BuildPath, FrameEffects, BuilderEffects
  <2>3. ASSUME SpawnCMake(g) \/ SpawnMake(g) PROVE frame'[g].cleanFirst
    <3>1. pc[g] = "spawn" /\ ~MarkDirty(g)
      BY <2>3 DEF SpawnCMake, SpawnMake, MarkDirty, Goto
    <3>2. QED
      BY <1>4, <2>1, <2>3, <3>1, FrameEffects DEF DirtyHand
  <2>4. ASSUME pc[g] \in Building, MakeCleanExit_Ok(g) \/ ScannerPanic(g)
        PROVE  frame'[g].cleanFirst
    <3>1. ~MarkDirty(g) /\ ~(SpawnCMake(g) \/ SpawnMake(g))
      BY <2>4 DEF Building, SpawnCMake, SpawnMake, MarkDirty, Goto
    <3>2. QED
      BY <1>4, <2>1, <2>4, <3>1, FrameEffects DEF DirtyHand
  <2>5. QED
    BY <1>4, <2>1, <2>2, <2>3, <2>4, BuildPath
<1>5. QED
  BY <1>1, <1>2, <1>3, <1>4 DEF Next, Building

\* A build that found the store dirty cleans before it compiles (handleBuild;
\* Build of both builders), whatever other calls do meanwhile.
THEOREM DirtyCleans == Spec => []DirtyBuildCleans
<1>1. Init => DirtyHand
  BY DEF Init, DirtyHand, Building, IdleFrame
<1>2. DirtyHand => DirtyBuildCleans
  BY DEF DirtyHand, DirtyBuildCleans
<1>3. QED
  BY <1>1, <1>2, TypedInit, TypedStep, ExclusiveInit, ExclusiveStep,
     DirtyHandStep, PTL DEF Spec

-----------------------------------------------------------------------------
(* Progress callbacks *)

\* Where a call stands while a builder may hold its callback.
Reporting == (BuildSection \ {"token"}) \cup {"clear", "reset"}

LEMMA ReportingStep ==
  ASSUME Typed, NEW h \in Handlers, HandlerStep(h), pc[h] \in Reporting
  PROVE  /\ pc'[h] \in Reporting \/ ResetProgressFunc(h)
         /\ ~SetProgressFunc(h)
<1>1. pc \in [Handlers -> Labels]
  BY DEF Typed, TypeOK
<1> USE DEF Reporting, BuildSection
<1>2. ~SetProgressFunc(h)
  BY DEF SetProgressFunc, Goto
<1>3. ~ConfigureStep(h)
  BY DEF ConfigureStep, ConfigureMake, ConfigureReset, ConfigureWrite,
       ConfigureSpawn, ConfigureExit, RecordConfigured,
       RecordConfigureFailure, ConfigureNotRun, Goto
<1>4. ~CleanStep(h) /\ ~ListStep(h)
  BY DEF CleanStep, CleanCheck, CleanExit_Ok, CleanExit_Failed, RecordClean,
       ListStep, ListCheckPhase, ListCheckBuilding, ListExit, Goto
<1>5. BuildStep(h) => pc'[h] \in Reporting \/ ResetProgressFunc(h)
  BY <1>1, <1>2 DEF BuildStep, StartBuild_Ok, StartBuild_Refused, MarkDirty,
       SpawnCMake, SpawnMake, MakeCleanExit_Ok, MakeCleanExit_Failed,
       CompileExit, BuildNotRun, ParseResult, RecordBuild, ClearDirtyAfter, Goto
<1>6. ScannerPanic(h) => pc'[h] \in Reporting
  BY DEF ScannerPanic
<1>7. QED
  BY <1>2, <1>3, <1>4, <1>5, <1>6 DEF HandlerStep

LEMMA ProgressStep == Typed /\ NoLateProgress /\ [Next]_vars => NoLateProgress'
<1> SUFFICES ASSUME Typed, NoLateProgress, [Next]_vars,
                    NEW i \in Insts, NEW g \in Handlers, builder'[i].progress = g
             PROVE  pc'[g] \in Reporting /\ I(g)' = i /\ WantsProgress(g)'
  BY DEF NoLateProgress, Reporting
<1>1. builder[i].progress = g =>
        pc[g] \in Reporting /\ I(g) = i /\ WantsProgress(g)
  BY DEF NoLateProgress, Reporting
<1>2. CASE UNCHANGED vars
  BY <1>1, <1>2 DEF vars, I, WantsProgress
<1>3. ASSUME NEW h \in Handlers, NEW j \in Insts, Call(h, j)
      PROVE  pc'[g] \in Reporting /\ I(g)' = i /\ WantsProgress(g)'
  BY <1>1, <1>3, CallEffect DEF Reporting, BuildSection, I, WantsProgress
<1>4. ASSUME NEW h \in Handlers, HandlerStep(h)
      PROVE  pc'[g] \in Reporting /\ I(g)' = i /\ WantsProgress(g)'
  <2>1. CASE builder[i].progress = g /\ g # h
    BY <1>1, <1>4, <2>1, Locality DEF I, WantsProgress
  <2>2. CASE builder[i].progress = g /\ g = h
    <3>1. ~ResetProgressFunc(g)
      BY <1>1, <1>4, <2>2, BuilderEffects, ConstantsAssumption
    <3>2. pc'[g] \in Reporting
      BY <1>1, <1>4, <2>2, <3>1, ReportingStep
    <3>3. SameCall(frame'[g], frame[g])
      BY <1>4, <2>2, <3>2, Locality DEF Reporting, BuildSection
    <3>4. QED
      BY <1>1, <2>2, <3>2, <3>3 DEF SameCall, I, WantsProgress
  <2>3. CASE builder[i].progress # g
    <3>1. i = I(h)
      BY <1>4, <2>3, Locality
    <3>2. SetProgressFunc(h) /\ g = h /\ WantsProgress(h)
      BY <1>4, <2>3, <3>1, BuilderEffects, ConstantsAssumption
    <3>3. pc'[h] = "mark" /\ UNCHANGED frame
      BY <3>2 DEF SetProgressFunc, Goto, Typed, TypeOK
    <3>4. QED
      BY <3>1, <3>2, <3>3 DEF Reporting, BuildSection, I, WantsProgress
  <2>4. QED
    BY <2>1, <2>2, <2>3
<1>5. QED
  BY <1>2, <1>3, <1>4 DEF Next

\* No call is reported progress after it has returned (SetProgressFunc and the
\* deferred reset in handleBuild), although calls overwrite each other's
\* callback.
THEOREM NoneTooLate == Spec => []NoLateProgress
<1>1. Init => NoLateProgress
  BY ConstantsAssumption DEF Init, NoLateProgress, NewBuilder
<1>2. QED
  BY <1>1, TypedInit, TypedStep, ProgressStep, PTL DEF Spec

-----------------------------------------------------------------------------
(* One worker builds, and every instance has its own build directory *)

Builds(h) == \E r \in Menu[h] : r.tool \in {"build", "rebuild"}

OneBuilder ==
  /\ \A g, h \in Handlers : Builds(g) /\ Builds(h) => g = h
  /\ \A i, j \in Insts : DirOf[i] = DirOf[j] => i = j

-----------------------------------------------------------------------------
(* Only that worker builds *)

BuilderInv ==
  \A h \in Handlers :
    pc[h] \in BuildSteps \/ frame[h].tool = "rebuild" => Builds(h)

LEMMA BuildEntry ==
  ASSUME Typed, NEW h \in Handlers, HandlerStep(h), pc'[h] \in BuildSteps
  PROVE  pc[h] \in BuildSteps \/ frame[h].tool = "rebuild"
<1>1. pc \in [Handlers -> Labels]
  BY DEF Typed, TypeOK
<1> USE DEF BuildSteps, BuildSection
<1>2. CASE ConfigureStep(h)
  BY <1>1, <1>2 DEF ConfigureStep, ConfigureMake, ConfigureReset,
       ConfigureWrite, ConfigureSpawn, ConfigureExit, RecordConfigured,
       RecordConfigureFailure, ConfigureNotRun, Goto, Return
<1>3. CASE BuildStep(h)
  BY <1>1, <1>3 DEF BuildStep, StartBuild_Ok, StartBuild_Refused,
       SetProgressFunc, MarkDirty, SpawnCMake, SpawnMake, MakeCleanExit_Ok,
       MakeCleanExit_Failed, CompileExit, BuildNotRun, ParseResult,
       RecordBuild, ClearDirtyAfter, ResetProgressFunc, Goto
<1>4. CASE CleanStep(h)
  BY <1>1, <1>4 DEF CleanStep, CleanCheck, CleanExit_Ok, CleanExit_Failed,
       RecordClean, Goto, Return
<1>5. CASE ListStep(h)
  BY <1>1, <1>5 DEF ListStep, ListCheckPhase, ListCheckBuilding, ListExit, Return
<1>6. CASE ScannerPanic(h)
  BY <1>1, <1>6 DEF ScannerPanic
<1>7. QED
  BY <1>2, <1>3, <1>4, <1>5, <1>6 DEF HandlerStep

LEMMA BuilderStep == Typed /\ BuilderInv /\ [Next]_vars => BuilderInv'
<1> SUFFICES ASSUME Typed, BuilderInv, [Next]_vars, NEW g \in Handlers,
                    pc'[g] \in BuildSteps \/ frame'[g].tool = "rebuild"
             PROVE  Builds(g)
  BY DEF BuilderInv, Builds
<1>1. CASE UNCHANGED vars
  BY <1>1 DEF vars, BuilderInv
<1>2. ASSUME NEW h \in Handlers, NEW i \in Insts, Call(h, i) PROVE Builds(g)
  <2>1. CASE g # h
    BY <1>2, <2>1, CallEffect DEF BuilderInv
  <2>2. CASE g = h
    <3>1. PICK r \in Menu[h] :
            /\ Goto(h, "idle", Entry[r.tool])
            /\ frame' = [frame EXCEPT ![h] = [IdleFrame EXCEPT !.tool = r.tool,
                                                !.token = r.token, !.inst = i]]
      BY <1>2 DEF Call
    <3>2. pc'[h] = Entry[r.tool] /\ frame'[h].tool = r.tool
      BY <3>1 DEF Goto, Typed, TypeOK, IdleFrame
    <3>3. r.tool \in Tools
      BY ConstantsAssumption DEF Requests
    <3>4. r.tool \in {"build", "rebuild"}
      BY <2>2, <3>2, <3>3 DEF Entry, Tools, BuildSteps, BuildSection
    <3>5. QED
      BY <2>2, <3>4 DEF Builds
  <2>3. QED
    BY <2>1, <2>2
<1>3. ASSUME NEW h \in Handlers, HandlerStep(h) PROVE Builds(g)
  <2>1. CASE g # h
    BY <1>3, <2>1, Locality DEF BuilderInv
  <2>2. CASE g = h
    <3>1. frame'[h].tool = "rebuild" => frame[h].tool = "rebuild"
      <4>1. frame \in [Handlers -> Frame]
        BY DEF Typed, TypeOK
      <4>2. Return(h) => frame'[h].tool = "none"
        BY <4>1 DEF Return, IdleFrame
      <4>3. QED
        BY <1>3, <4>2, Locality DEF SameCall
    <3>2. QED
      BY <1>3, <2>2, <3>1, BuildEntry DEF BuilderInv
  <2>3. QED
    BY <2>1, <2>2
<1>4. QED
  BY <1>1, <1>2, <1>3 DEF Next

\* No two calls build at once, in whatever instances.
LEMMA OneAtATime ==
  ASSUME OneBuilder, BuilderInv, NEW g \in Handlers, NEW h \in Handlers,
         pc[g] \in BuildSteps, pc[h] \in BuildSteps
  PROVE  g = h
  BY DEF OneBuilder, BuilderInv

-----------------------------------------------------------------------------
(* Killed builds *)

\* Only a build process that is killed leaves traces, and one that cleaned
\* and succeeded leaves none.
LEMMA LeftoverEffects ==
  ASSUME Typed, NEW h \in Handlers, HandlerStep(h)
  PROVE  /\ leftover'[D(h)] /\ ~leftover[D(h)] =>
              pc[h] \in Building /\ pc'[h] = "compiled" /\ frame'[h].res = "killed"
         /\ pc[h] \in Building /\ frame[h].cleanFirst /\ frame'[h].res = "ok"
              /\ pc'[h] = "compiled" => ~leftover'[D(h)]
<1>1. /\ leftover \in [Dirs -> BOOLEAN] /\ frame \in [Handlers -> Frame]
      /\ frame[h] \in Frame /\ pc \in [Handlers -> Labels] /\ D(h) \in Dirs
  BY NotIdle, ConstantsAssumption DEF Typed, TypeOK, D
<1>2. CASE MakeCleanExit_Ok(h) \/ CleanExit_Ok(h)
  BY <1>1, <1>2 DEF MakeCleanExit_Ok, CleanExit_Ok, Goto
<1>3. CASE MakeCleanExit_Failed(h)
  <2>1. PICK o \in Outcomes \ {"ok"} :
          /\ frame' = [frame EXCEPT ![h].res = o]
          /\ \E l \in IF o = "killed" THEN LeftByKill(leftover[D(h)])
                                      ELSE {leftover[D(h)]} :
               leftover' = [leftover EXCEPT ![D(h)] = l]
    BY <1>3 DEF MakeCleanExit_Failed
  <2>2. frame'[h].res = o
    BY <1>1, <2>1 DEF Frame
  <2>3. pc[h] \in Building /\ pc'[h] = "compiled"
    BY <1>1, <1>3 DEF MakeCleanExit_Failed, Goto, Building
  <2>4. o # "killed" => leftover'[D(h)] = leftover[D(h)]
    BY <1>1, <2>1
  <2>5. QED
    BY <2>1, <2>2, <2>3, <2>4
<1>4. CASE CompileExit(h)
  <2>1. PICK o \in Outcomes :
          /\ frame' = [frame EXCEPT ![h] = [@ EXCEPT !.res = o, !.piped = FALSE]]
          /\ \E l \in Leaves(o, frame[h].cleanFirst, leftover[D(h)]) :
               leftover' = [leftover EXCEPT ![D(h)] = l]
    BY <1>4 DEF CompileExit
  <2>2. frame'[h].res = o
    BY <1>1, <2>1 DEF Frame
  <2>3. pc[h] \in Building /\ pc'[h] = "compiled"
    BY <1>1, <1>4 DEF CompileExit, Goto, Building
  <2>4. leftover'[D(h)] \in Leaves(o, frame[h].cleanFirst, leftover[D(h)])
    BY <1>1, <2>1
  <2>5. /\ o # "killed" /\ leftover'[D(h)] => leftover[D(h)]
        /\ o = "ok" /\ frame[h].cleanFirst => ~leftover'[D(h)]
    BY <2>4 DEF Leaves, Outcomes
  <2>6. QED
    BY <2>2, <2>3, <2>5
<1>5. CASE UNCHANGED leftover
  <2>1. ~(pc[h] \in Building /\ pc'[h] = "compiled") \/ LeftoverSteps(h)
    BY BuildPath DEF LeftoverSteps
  <2>2. QED
    BY <1>2, <1>3, <1>4, <1>5, <2>1 DEF LeftoverSteps
<1>6. QED
  BY <1>2, <1>3, <1>4, <1>5, LeftoverChanges DEF LeftoverSteps

\* While a call is on its way through a build, no other call makes traces in
\* its directory.
LEMMA OthersOnlyClean ==
  ASSUME OneBuilder, Typed, BuilderInv, NEW h \in Handlers, HandlerStep(h),
         NEW g \in Handlers, g # h, pc[g] \in BuildSteps, leftover'[D(g)]
  PROVE  leftover[D(g)]
<1>1. D(g) \in Dirs
  BY ConstantsAssumption DEF Typed, CallOK, BuildSteps, BuildSection, D
<1>2. CASE D(g) # D(h)
  BY <1>1, <1>2, Locality
<1>3. CASE D(g) = D(h)
  BY <1>3, LeftoverEffects, OneAtATime DEF BuildSteps, BuildSection, Building
<1>4. QED
  BY <1>2, <1>3

\* The call of h has seen its build process killed and has yet to say so.
Unreported(h) == pc[h] = "compiled" /\ frame[h].res = "killed"

\* The call of h has cleaned the directory, or has found that it need not.
Cleaned(h) ==
  \/ pc[h] \in {"compiled", "finish"} /\ frame[h].wasDirty /\ frame[h].res = "ok"
  \/ pc[h] = "clear"

RememberInv ==
  \A i \in Insts :
    leftover[DirOf[i]] => store[i].dirty \/ \E h \in Handlers : I(h) = i /\ Unreported(h)
SpawnInv   == \A h \in Handlers : pc[h] = "spawn" /\ leftover[D(h)] => frame[h].wasDirty
CleanedInv == \A h \in Handlers : Cleaned(h) => ~leftover[D(h)]

Inv == Typed /\ ExclusiveBuild /\ DirtyHand /\ BuilderInv

LEMMA CleanedStep ==
  ASSUME OneBuilder
  PROVE  Inv /\ CleanedInv /\ [Next]_vars => CleanedInv'
<1> SUFFICES ASSUME Inv, CleanedInv, [Next]_vars, NEW g \in Handlers, Cleaned(g)'
             PROVE  ~leftover'[D(g)']
  BY DEF CleanedInv
<1> USE DEF Inv
<1>1. CASE UNCHANGED vars
  BY <1>1 DEF vars, CleanedInv, Cleaned, D, I
<1>2. ASSUME NEW h \in Handlers, NEW i \in Insts, Call(h, i) PROVE ~leftover'[D(g)']
  BY <1>2, CallEffect DEF CleanedInv, Cleaned, D, I
<1>3. ASSUME NEW h \in Handlers, HandlerStep(h), g # h PROVE ~leftover'[D(g)']
  <2>1. pc'[g] = pc[g] /\ frame'[g] = frame[g] /\ D(g)' = D(g)
    BY <1>3, Locality DEF D, I
  <2>2. Cleaned(g) /\ pc[g] \in BuildSteps
    BY <2>1 DEF Cleaned, BuildSteps, BuildSection
  <2>3. QED
    BY <1>3, <2>1, <2>2, OthersOnlyClean DEF CleanedInv
<1>4. ASSUME HandlerStep(g) PROVE ~leftover'[D(g)']
  <2>1. ~Return(g) /\ D(g)' = D(g)
    BY <1>4, Locality DEF Cleaned, D, I, SameCall
  <2>2. CASE pc'[g] = "compiled"
    <3>1. pc[g] \in Building /\ ~MarkDirty(g) /\ ~(SpawnCMake(g) \/ SpawnMake(g))
      BY <1>4, <2>2, BuildPath DEF MakeCleanExit_Failed, CompileExit, Goto,
           Building, MarkDirty, SpawnCMake, SpawnMake
    <3>2. frame[g].wasDirty /\ frame'[g].res = "ok"
      BY <1>4, <2>1, <2>2, <3>1, FrameEffects DEF Cleaned
    <3>3. frame[g].cleanFirst
      BY <3>1, <3>2 DEF DirtyHand
    <3>4. QED
      BY <1>4, <2>1, <2>2, <3>1, <3>2, <3>3, LeftoverEffects
  <2>3. CASE pc'[g] = "finish"
    <3>1. /\ pc[g] = "compiled" /\ frame'[g] = frame[g] /\ UNCHANGED leftover
      BY <1>4, <2>3, BuildPath DEF ParseResult, Goto
    <3>2. QED
      BY <2>1, <2>3, <3>1 DEF CleanedInv, Cleaned
  <2>4. CASE pc'[g] = "clear"
    <3>1. /\ pc[g] = "finish" /\ frame[g].wasDirty /\ frame[g].res = "ok"
          /\ UNCHANGED leftover
      BY <1>4, <2>4, BuildPath DEF RecordBuild, Goto
    <3>2. QED
      BY <2>1, <3>1 DEF CleanedInv, Cleaned
  <2>5. QED
    BY <2>2, <2>3, <2>4 DEF Cleaned
<1>5. QED
  BY <1>1, <1>2, <1>3, <1>4 DEF Next

LEMMA DirtyKept ==
  ASSUME Typed, NEW h \in Handlers, HandlerStep(h), ~ClearDirtyAfter(h),
         NEW i \in Insts, store[i].dirty
  PROVE  store'[i].dirty
<1>1. CASE i # I(h)
  BY <1>1, Locality
<1>2. CASE i = I(h)
  BY <1>2, StoreEffects, StoreChanges DEF StoreSteps
<1>3. QED
  BY <1>1, <1>2

LEMMA RememberStep ==
  ASSUME OneBuilder
  PROVE  Inv /\ CleanedInv /\ RememberInv /\ [Next]_vars => RememberInv'
<1> SUFFICES ASSUME Inv, CleanedInv, RememberInv, [Next]_vars,
                    NEW i \in Insts, leftover'[DirOf[i]]
             PROVE  store'[i].dirty \/ \E g \in Handlers : I(g)' = i /\ Unreported(g)'
  BY DEF RememberInv
<1> USE DEF Inv
<1>1. CASE UNCHANGED vars
  BY <1>1 DEF vars, RememberInv, Unreported, I
<1>2. ASSUME NEW h \in Handlers, NEW j \in Insts, Call(h, j)
      PROVE  store'[i].dirty \/ \E g \in Handlers : I(g)' = i /\ Unreported(g)'
  BY <1>2, CallEffect DEF RememberInv, Unreported, I
<1>3. ASSUME NEW h \in Handlers, HandlerStep(h)
      PROVE  store'[i].dirty \/ \E g \in Handlers : I(g)' = i /\ Unreported(g)'
  <2>1. CASE ~leftover[DirOf[i]]
    <3>1. DirOf[i] = D(h) /\ I(h) \in Insts
      BY <1>3, <2>1, Locality, ConstantsAssumption
    <3>2. i = I(h)
      BY <3>1 DEF OneBuilder, D
    <3>3. pc'[h] = "compiled" /\ frame'[h].res = "killed"
      BY <1>3, <2>1, <3>1, LeftoverEffects
    <3>4. I(h)' = I(h)
      BY <1>3, <3>3, Locality DEF SameCall, I
    <3>5. QED
      BY <3>2, <3>3, <3>4 DEF Unreported
  <2>2. CASE leftover[DirOf[i]] /\ store[i].dirty
    <3>1. CASE ClearDirtyAfter(h) /\ i = I(h)
      BY <2>2, <3>1 DEF ClearDirtyAfter, Goto, CleanedInv, Cleaned, D
    <3>2. CASE i # I(h)
      BY <1>3, <2>2, <3>2, Locality
    <3>3. CASE ~ClearDirtyAfter(h)
      BY <1>3, <2>2, <3>3, DirtyKept
    <3>4. QED
      BY <3>1, <3>2, <3>3
  <2>3. ASSUME NEW g \in Handlers, I(g) = i, Unreported(g)
        PROVE  store'[i].dirty \/ \E k \in Handlers : I(k)' = i /\ Unreported(k)'
    <3>1. CASE g # h
      BY <1>3, <2>3, <3>1, Locality DEF Unreported, I
    <3>2. CASE g = h
      <4>1. ParseResult(h)
        BY <1>3, <2>3, <3>2 DEF Unreported, HandlerStep, ConfigureStep,
           BuildStep, CleanStep, ListStep, ConfigureMake, ConfigureReset,
           ConfigureWrite, ConfigureSpawn, ConfigureExit, RecordConfigured,
           RecordConfigureFailure, ConfigureNotRun, StartBuild_Ok,
           StartBuild_Refused, SetProgressFunc, MarkDirty, SpawnCMake,
           SpawnMake, MakeCleanExit_Ok, MakeCleanExit_Failed, CompileExit,
           BuildNotRun, RecordBuild, ClearDirtyAfter, ResetProgressFunc,
           CleanCheck, CleanExit_Ok, CleanExit_Failed, RecordClean,
           ListCheckPhase, ListCheckBuilding, ListExit, ScannerPanic, Goto
      <4>2. QED
        BY <1>3, <2>3, <3>2, <4>1, StoreEffects DEF Unreported
    <3>3. QED
      BY <3>1, <3>2
  <2>4. QED
    BY <2>1, <2>2, <2>3 DEF RememberInv
<1>4. QED
  BY <1>1, <1>2, <1>3 DEF Next

\* A killed build is known to the store wherever a call of its instance is not
\* between the end of its process and SetDirty.
LEMMA MarkFindsDirty ==
  ASSUME Inv, RememberInv, NEW g \in Handlers, pc[g] = "mark", leftover[D(g)]
  PROVE  store[I(g)].dirty
<1>1. I(g) \in Insts
  BY DEF Inv, Typed, CallOK
<1>2. \A k \in Handlers : ~(I(k) = I(g) /\ Unreported(k))
  BY DEF Inv, ExclusiveBuild, Unreported, BuildSection
<1>3. QED
  BY <1>1, <1>2 DEF RememberInv, D

LEMMA SpawnStep ==
  ASSUME OneBuilder
  PROVE  Inv /\ RememberInv /\ SpawnInv /\ [Next]_vars => SpawnInv'
<1> SUFFICES ASSUME Inv, RememberInv, SpawnInv, [Next]_vars, NEW g \in Handlers,
                    pc'[g] = "spawn", leftover'[D(g)']
             PROVE  frame'[g].wasDirty
  BY DEF SpawnInv
<1> USE DEF Inv
<1>1. CASE UNCHANGED vars
  BY <1>1 DEF vars, SpawnInv, D, I
<1>2. ASSUME NEW h \in Handlers, NEW i \in Insts, Call(h, i) PROVE frame'[g].wasDirty
  BY <1>2, CallEffect DEF SpawnInv, D, I
<1>3. ASSUME NEW h \in Handlers, HandlerStep(h), g # h PROVE frame'[g].wasDirty
  <2>1. pc'[g] = pc[g] /\ frame'[g] = frame[g] /\ D(g)' = D(g)
    BY <1>3, Locality DEF D, I
  <2>2. pc[g] \in BuildSteps
    BY <2>1 DEF BuildSteps, BuildSection
  <2>3. QED
    BY <1>3, <2>1, <2>2, OthersOnlyClean DEF SpawnInv
<1>4. ASSUME HandlerStep(g) PROVE frame'[g].wasDirty
  <2>1. MarkDirty(g) /\ ~Return(g) /\ D(g)' = D(g)
    BY <1>4, BuildPath, Locality DEF D, I, SameCall
  <2>2. pc[g] = "mark" /\ UNCHANGED leftover
    BY <2>1 DEF MarkDirty, Goto
  <2>3. QED
    BY <1>4, <2>1, <2>2, MarkFindsDirty, FrameEffects
<1>5. QED
  BY <1>1, <1>2, <1>3, <1>4 DEF Next

KilledInv == CleanedInv /\ RememberInv /\ SpawnInv

LEMMA InvInit == Init => Inv
<1>1. Init => DirtyHand /\ BuilderInv
  BY DEF Init, DirtyHand, BuilderInv, Building, BuildSteps, BuildSection, IdleFrame
<1>2. QED
  BY <1>1, TypedInit, ExclusiveInit DEF Inv

LEMMA InvStep == Inv /\ [Next]_vars => Inv'
  BY TypedStep, ExclusiveStep, DirtyHandStep, BuilderStep DEF Inv

LEMMA KilledInit == Init => KilledInv
<1> SUFFICES ASSUME Init PROVE KilledInv
  OBVIOUS
<1>1. \A d \in Dirs : ~leftover[d]
  BY DEF Init
<1>2. RememberInv
  BY <1>1, ConstantsAssumption DEF RememberInv
<1>3. CleanedInv /\ SpawnInv
  BY DEF Init, CleanedInv, SpawnInv, Cleaned
<1>4. QED
  BY <1>2, <1>3 DEF KilledInv

LEMMA KilledStep ==
  ASSUME OneBuilder
  PROVE  Inv /\ KilledInv /\ [Next]_vars => KilledInv'
  BY CleanedStep, RememberStep, SpawnStep DEF KilledInv

\* While one worker builds, the traces of a killed build are remembered until
\* a build or a clean has removed them: Health says DIRTY and the next build
\* cleans first, although other calls configure and clean meanwhile
\* (handleBuild; README.md:189).  Two builders can lose the mark: see the run
\* lost_dirty.
THEOREM KilledRemembered ==
  ASSUME OneBuilder
  PROVE  Spec => []KilledBuildRemembered
<1>1. Inv /\ KilledInv => KilledBuildRemembered
  <2> SUFFICES ASSUME Inv, KilledInv, NEW i \in Insts,
                      leftover[DirOf[i]], ~store[i].building
               PROVE  Health(store[i]) = "DIRTY"
    BY DEF KilledBuildRemembered
  <2>1. \A g \in Handlers : ~(I(g) = i /\ Unreported(g))
    BY DEF Inv, ExclusiveBuild, Unreported, BuildSection
  <2>2. store[i].dirty
    BY <2>1 DEF KilledInv, RememberInv
  <2>3. QED
    BY <2>2 DEF Health
<1>2. Inv /\ KilledInv /\ [Next]_vars => KilledInv'
  BY KilledStep
<1>3. QED
  BY <1>1, <1>2, InvInit, InvStep, KilledInit, PTL DEF Spec

-----------------------------------------------------------------------------
(* The session implements BuildContract *)

Running == [d \in Dirs |-> Compiling(d)]
Clearing == [d \in Dirs |-> Cleaning(d)]

\* A step that leaves every build process alone.
LEMMA SameProcesses ==
  ASSUME \A g \in Handlers : /\ pc'[g] \in Building <=> pc[g] \in Building
                             /\ pc[g] \in Building =>
                                  /\ D(g)' = D(g)
                                  /\ frame'[g].cleanFirst = frame[g].cleanFirst
  PROVE  Running' = Running /\ Clearing' = Clearing
<1>1. \A d \in Dirs : Compiling(d)' = Compiling(d)
  BY DEF Compiling
<1>2. \A d \in Dirs : Cleaning(d)' = Cleaning(d)
  BY DEF Cleaning
<1>3. QED
  BY <1>1, <1>2 DEF Running, Clearing

\* The processes when h, the only call with one, starts or ends it.
LEMMA OneProcess ==
  ASSUME OneBuilder, Inv, NEW h \in Handlers, HandlerStep(h), ~Return(h),
         pc[h] \in BuildSteps
  PROVE  /\ D(h)' = D(h) /\ D(h) \in Dirs
         /\ Running = [d \in Dirs |-> d = D(h) /\ pc[h] \in Building]
         /\ Running' = [d \in Dirs |-> d = D(h) /\ pc'[h] \in Building]
         /\ Clearing = [d \in Dirs |-> d = D(h) /\ pc[h] \in Building /\ frame[h].cleanFirst]
         /\ Clearing' = [d \in Dirs |-> d = D(h) /\ pc'[h] \in Building /\ frame'[h].cleanFirst]
<1> USE DEF Inv
<1>1. D(h)' = D(h) /\ D(h) \in Dirs
  BY Locality, ConstantsAssumption DEF D, I, SameCall
<1>2. \A g \in Handlers \ {h} : pc'[g] = pc[g] /\ pc[g] \notin Building
  BY Locality, OneAtATime DEF Building, BuildSteps, BuildSection
<1>3. \A d \in Dirs : Compiling(d) = (d = D(h) /\ pc[h] \in Building)
  BY <1>2 DEF Compiling
<1>4. \A d \in Dirs : Compiling(d)' = (d = D(h) /\ pc'[h] \in Building)
  BY <1>1, <1>2 DEF Compiling
<1>5. \A d \in Dirs : Cleaning(d) = (d = D(h) /\ pc[h] \in Building /\ frame[h].cleanFirst)
  BY <1>2 DEF Cleaning
<1>6. \A d \in Dirs : Cleaning(d)' = (d = D(h) /\ pc'[h] \in Building /\ frame'[h].cleanFirst)
  BY <1>1, <1>2 DEF Cleaning
<1>7. QED
  BY <1>1, <1>3, <1>4, <1>5, <1>6 DEF Running, Clearing

\* What a step of the contract is here.
LEMMA ContractNext ==
  ASSUME \/ \E d \in Dirs :
              \/ /\ ~Running[d]
                 /\ Running' = [Running EXCEPT ![d] = TRUE]
                 /\ \E c \in BOOLEAN : /\ leftover[d] => c
                                       /\ Clearing' = [Clearing EXCEPT ![d] = c]
                 /\ UNCHANGED leftover
              \/ /\ Running[d]
                 /\ Running' = [Running EXCEPT ![d] = FALSE]
                 /\ Clearing' = [Clearing EXCEPT ![d] = FALSE]
                 /\ \E o \in BOOLEAN : /\ leftover[d] /\ ~Clearing[d] => o
                                       /\ leftover' = [leftover EXCEPT ![d] = o]
              \/ /\ leftover' = [leftover EXCEPT ![d] = FALSE]
                 /\ Running' = Running /\ Clearing' = Clearing
         \/ Running' = Running /\ Clearing' = Clearing /\ UNCHANGED leftover
  PROVE  [Contract!Next]_(Contract!vars)
  BY DEF Contract!Next, Contract!vars, Contract!Begin, Contract!End,
         Contract!Clean, Running, Clearing

\* What a call can do while its process is at work.
LEMMA BuildingStep ==
  ASSUME NEW h \in Handlers, HandlerStep(h), pc[h] \in Building
  PROVE  MakeCleanExit_Ok(h) \/ MakeCleanExit_Failed(h) \/ CompileExit(h) \/ ScannerPanic(h)
  BY DEF Building, HandlerStep, ConfigureStep, BuildStep, CleanStep, ListStep,
     ConfigureMake, ConfigureReset, ConfigureWrite, ConfigureSpawn,
     ConfigureExit, RecordConfigured, RecordConfigureFailure, ConfigureNotRun,
     StartBuild_Ok, StartBuild_Refused, SetProgressFunc, MarkDirty, SpawnCMake,
     SpawnMake, BuildNotRun, ParseResult, RecordBuild, ClearDirtyAfter,
     ResetProgressFunc, CleanCheck, CleanExit_Ok, CleanExit_Failed,
     RecordClean, ListCheckPhase, ListCheckBuilding, ListExit, Goto

LEMMA ContractStep ==
  ASSUME OneBuilder
  PROVE  Inv /\ KilledInv /\ [Next]_vars => [Contract!Next]_(Contract!vars)
<1> SUFFICES ASSUME Inv, KilledInv, [Next]_vars
             PROVE  [Contract!Next]_(Contract!vars)
  OBVIOUS
<1>0. /\ Typed /\ Typed'
      /\ pc \in [Handlers -> Labels] /\ frame' \in [Handlers -> Frame]
      /\ leftover \in [Dirs -> BOOLEAN] /\ leftover' \in [Dirs -> BOOLEAN]
  BY TypedStep DEF Inv, Typed, TypeOK
<1>1. CASE UNCHANGED vars
  <2>1. Running' = Running /\ Clearing' = Clearing
    BY <1>1, SameProcesses DEF vars, D, I
  <2>2. QED
    BY <1>1, <2>1, ContractNext DEF vars
<1>2. ASSUME NEW h \in Handlers, NEW i \in Insts, Call(h, i)
      PROVE  [Contract!Next]_(Contract!vars)
  <2>1. UNCHANGED leftover
    BY <1>0, <1>2, CallEffect
  <2>2. Running' = Running /\ Clearing' = Clearing
    BY <1>0, <1>2, CallEffect, SameProcesses DEF Building, D, I
  <2>3. QED
    BY <2>1, <2>2, ContractNext
<1>3. ASSUME NEW h \in Handlers, HandlerStep(h)
      PROVE  [Contract!Next]_(Contract!vars)
  <2>1. CASE SpawnCMake(h) \/ SpawnMake(h)
    <3>1. /\ pc[h] = "spawn" /\ pc'[h] \in Building /\ UNCHANGED leftover
      BY <1>0, <2>1 DEF SpawnCMake, SpawnMake, Goto, Building
    <3>2. ~Return(h) /\ pc[h] \in BuildSteps /\ pc[h] \notin Building
      BY <1>0, <1>3, <3>1, Locality DEF Building, BuildSteps, BuildSection
    <3>3. leftover[D(h)] => frame'[h].cleanFirst
      BY <1>0, <1>3, <2>1, <3>1, <3>2, FrameEffects
         DEF KilledInv, SpawnInv, Inv, DirtyHand
    <3>4. frame'[h].cleanFirst \in BOOLEAN
      BY <1>0 DEF Frame
    <3>5. /\ ~Running[D(h)] /\ Running' = [Running EXCEPT ![D(h)] = TRUE]
          /\ Clearing' = [Clearing EXCEPT ![D(h)] = frame'[h].cleanFirst]
      BY <1>3, <3>1, <3>2, <3>4, OneProcess
    <3>6. QED
      BY <1>3, <3>1, <3>2, <3>3, <3>4, <3>5, OneProcess, ContractNext
  <2>2. CASE MakeCleanExit_Ok(h)
    <3>1. /\ pc[h] \in Building /\ pc'[h] \in Building /\ frame' = frame
          /\ leftover' = [leftover EXCEPT ![D(h)] = FALSE]
      BY <1>0, <2>2 DEF MakeCleanExit_Ok, Goto, Building
    <3>2. D(h)' = D(h) /\ D(h) \in Dirs
      BY <1>0, <3>1, ConstantsAssumption DEF D, I, Typed, CallOK, Building
    <3>3. Running' = Running /\ Clearing' = Clearing
      BY <1>0, <1>3, <3>1, Locality, SameProcesses DEF D, I
    <3>4. QED
      BY <3>1, <3>2, <3>3, ContractNext
  <2>3. CASE MakeCleanExit_Failed(h) \/ CompileExit(h)
    <3>1. pc[h] \in Building /\ pc'[h] = "compiled"
      BY <1>0, <2>3 DEF MakeCleanExit_Failed, CompileExit, Goto, Building
    <3>2. ~Return(h) /\ pc[h] \in BuildSteps /\ pc'[h] \notin Building
      BY <1>0, <1>3, <3>1, Locality DEF Building, BuildSteps, BuildSection
    <3>3. /\ Running[D(h)] /\ Running' = [Running EXCEPT ![D(h)] = FALSE]
          /\ Clearing' = [Clearing EXCEPT ![D(h)] = FALSE]
          /\ frame[h].cleanFirst => Clearing[D(h)]
          /\ D(h) \in Dirs
      BY <1>3, <3>1, <3>2, OneProcess
    <3>4. leftover' = [leftover EXCEPT ![D(h)] = leftover'[D(h)]]
      BY <1>0, <2>3 DEF MakeCleanExit_Failed, CompileExit
    <3>5. leftover[D(h)] /\ ~frame[h].cleanFirst => leftover'[D(h)]
      BY <1>0, <2>3, <3>3 DEF MakeCleanExit_Failed, CompileExit, LeftByKill, Leaves
    <3>6. QED
      BY <1>0, <3>3, <3>4, <3>5, ContractNext
  <2>4. CASE CleanExit_Ok(h)
    <3>1. /\ pc[h] \notin Building /\ pc'[h] \notin Building
          /\ leftover' = [leftover EXCEPT ![D(h)] = FALSE]
      BY <1>0, <2>4 DEF CleanExit_Ok, Goto, Building
    <3>2. D(h) \in Dirs
      BY <1>0, <1>3, Locality, ConstantsAssumption DEF D
    <3>3. Running' = Running /\ Clearing' = Clearing
      BY <1>0, <1>3, <3>1, Locality, SameProcesses DEF D, I
    <3>4. QED
      BY <3>1, <3>2, <3>3, ContractNext
  <2>5. CASE /\ ~(SpawnCMake(h) \/ SpawnMake(h)) /\ ~MakeCleanExit_Ok(h)
             /\ ~(MakeCleanExit_Failed(h) \/ CompileExit(h)) /\ ~CleanExit_Ok(h)
    <3>1. UNCHANGED leftover
      BY <1>3, <2>5, LeftoverChanges DEF LeftoverSteps
    <3>2. /\ pc'[h] \in Building <=> pc[h] \in Building
          /\ pc[h] \in Building => ScannerPanic(h)
      BY <1>0, <1>3, <2>5, BuildPath, BuildingStep DEF ScannerPanic
    <3>3. pc[h] \in Building => D(h)' = D(h) /\ frame'[h].cleanFirst = frame[h].cleanFirst
      <4> SUFFICES ASSUME pc[h] \in Building
                   PROVE  D(h)' = D(h) /\ frame'[h].cleanFirst = frame[h].cleanFirst
        OBVIOUS
      <4>1. ~Return(h) /\ SameCall(frame'[h], frame[h])
        BY <1>0, <1>3, <3>2, Locality DEF Building
      <4>2. QED
        BY <1>0, <1>3, <2>5, <4>1, FrameEffects DEF D, I, SameCall
    <3>4. Running' = Running /\ Clearing' = Clearing
      BY <1>0, <1>3, <3>2, <3>3, Locality, SameProcesses DEF D, I
    <3>5. QED
      BY <3>1, <3>4, ContractNext
  <2>6. QED
    BY <2>1, <2>2, <2>3, <2>4, <2>5
<1>4. QED
  BY <1>1, <1>2, <1>3 DEF Next

LEMMA ContractInit == Init => Contract!Init
<1> SUFFICES ASSUME Init PROVE Contract!Init
  OBVIOUS
<1>1. \A d \in Dirs : Compiling(d) = FALSE /\ Cleaning(d) = FALSE
  BY DEF Init, Compiling, Cleaning, Building
<1>2. QED
  BY <1>1 DEF Init, Contract!Init

\* While one worker builds, the session keeps the promises of BuildContract:
\* builds in one directory exclude each other and the build after a killed one
\* cleans first, whatever the other workers configure, clean and list.
THEOREM Implements ==
  ASSUME OneBuilder
  PROVE  Spec => ImplementsContract
<1>1. Inv /\ KilledInv /\ [Next]_vars => KilledInv'
  BY KilledStep
<1>2. Inv /\ KilledInv /\ [Next]_vars => [Contract!Next]_(Contract!vars)
  BY ContractStep
<1>3. QED
  BY <1>1, <1>2, InvInit, InvStep, KilledInit, ContractInit, PTL
     DEF Spec, ImplementsContract, Contract!Spec
=============================================================================
