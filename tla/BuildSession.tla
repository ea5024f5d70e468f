---------------------------- MODULE BuildSession ----------------------------
(***************************************************************************)
(* The tool calls of main.go at work on the build configurations of one    *)
(* server.  The MCP library hands tools/call requests to a pool of         *)
(* workers, so handlers of several calls run at once and interleave at     *)
(* every acquisition of a store's mutex, at every unguarded access to a    *)
(* builder's fields, and around the external processes they run.           *)
(*                                                                         *)
(* A handler is a worker: pc[h] is the point its call has reached and      *)
(* frame[h] the local variables of the call.  The build directories are    *)
(* outside the server; leftover[d] says whether a killed build left lock   *)
(* files or partial products in directory d.                               *)
(***************************************************************************)
EXTENDS BuildStore

CONSTANTS
  Handlers,   \* the workers that run tool calls
  Insts,      \* the configuration instances (config, builder, store)
  Dirs,       \* build directories
  DirOf,      \* the build_dir of each instance's configuration
  MakeInsts,  \* those whose builder is a MakeBuilder; the others use CMake
  LegacyGCC,  \* those whose toolchain is "auto" and is detected as gcc-legacy
  Menu,       \* the requests each worker may be handed
  None

\* "rebuild" is build with reconfigure=true.
Tools    == {"build", "rebuild", "configure", "clean", "list_targets"}
Requests == [tool : Tools, token : BOOLEAN]   \* token: a progressToken is given

ASSUME ConstantsAssumption ==
  /\ DirOf \in [Insts -> Dirs]
  /\ MakeInsts \subseteq Insts
  /\ LegacyGCC \subseteq Insts
  /\ Menu \in [Handlers -> SUBSET Requests]
  /\ None \notin Insts
  /\ None \notin Handlers

\* How a run of an external process ends for the code that started it: it
\* could not be run to an end (spawn error, or exit 0 with its pipes still
\* held open after WaitDelay), exit 0, another exit code, or killed because
\* the call was cancelled or timed out.
Outcomes == {"error", "ok", "failed", "killed"}

VARIABLES
  store,      \* Store of each instance
  builder,    \* the mutable fields of each instance's builder and config
  leftover,   \* external: a killed build left its traces in the directory
  pc,         \* where each handler is
  frame       \* the local variables of each handler

vars == <<store, builder, leftover, pc, frame>>

\* inject is cfg.InjectDiagnosticFlags, module is moduleWritten, progress the
\* call whose callback progressFunc is.
BuilderState == [dirty    : BOOLEAN,
                 module   : BOOLEAN,
                 inject   : BOOLEAN,
                 progress : Handlers \cup {None}]

NewBuilder(injects) == [dirty |-> FALSE, module |-> FALSE, inject |-> injects,
                        progress |-> None]

\* flagged: the process was given the diagnostic flags; piped: a scanner
\* goroutine reads its stdout and calls progressFunc.
Frame == [tool       : Tools \cup {"none"},
          token      : BOOLEAN,
          inst       : Insts \cup {None},
          wasDirty   : BOOLEAN,
          cleanFirst : BOOLEAN,
          flagged    : BOOLEAN,
          piped      : BOOLEAN,
          res        : Outcomes \cup {"none"}]

IdleFrame == [tool |-> "none", token |-> FALSE, inst |-> None,
              wasDirty |-> FALSE, cleanFirst |-> FALSE, flagged |-> FALSE,
              piped |-> FALSE, res |-> "none"]

ConfigureSteps == {"cfgReset", "cfgWrite", "cfgArgs", "cfgRun", "cfgDone"}
CleanSteps     == {"cleanCheck", "cleanRun", "cleanRecord"}
ListSteps      == {"listPhase", "listBuilding", "listRun"}

\* From a successful StartBuild to FinishBuild.
BuildSection   == {"token", "mark", "spawn", "makeClean", "compile", "compiled",
                   "finish"}
BuildSteps     == {"start"} \cup BuildSection \cup {"clear", "reset"}
Labels         == {"idle"} \cup ConfigureSteps \cup CleanSteps \cup ListSteps
                    \cup BuildSteps

\* A build process of the call is at work in the build directory.
Building  == {"makeClean", "compile"}

I(h) == frame[h].inst
D(h) == DirOf[I(h)]

Init ==
  /\ store = [i \in Insts |-> NewStore]
  /\ builder \in [Insts -> {NewBuilder(injects) : injects \in BOOLEAN}]
  /\ leftover = [d \in Dirs |-> FALSE]
  /\ pc = [h \in Handlers |-> "idle"]
  /\ frame = [h \in Handlers |-> IdleFrame]

-----------------------------------------------------------------------------
(* Calls and returns *)

Goto(h, from, to) == /\ pc[h] = from
                     /\ pc' = [pc EXCEPT ![h] = to]

Return(h) == /\ pc' = [pc EXCEPT ![h] = "idle"]
             /\ frame' = [frame EXCEPT ![h] = IdleFrame]

Entry == [build |-> "start", rebuild |-> "cfgReset", configure |-> "cfgReset",
          clean |-> "cleanCheck", list_targets |-> "listPhase"]

\* A request for instance i reaches worker h.
Call(h, i) ==
  \E r \in Menu[h] :
    /\ Goto(h, "idle", Entry[r.tool])
    /\ frame' = [frame EXCEPT ![h] = [IdleFrame EXCEPT !.tool = r.tool,
                                        !.token = r.token, !.inst = i]]
    /\ UNCHANGED <<store, builder, leftover>>

-----------------------------------------------------------------------------
(* runConfigureStep, for the configure tool and for build with reconfigure *)

\* MakeBuilder.Configure does nothing and reports exit code 0.
ConfigureMake(h) ==
  /\ Goto(h, "cfgReset", "cfgDone")
  /\ I(h) \in MakeInsts
  /\ frame' = [frame EXCEPT ![h].res = "ok"]
  /\ UNCHANGED <<store, builder, leftover>>

ConfigureReset(h) ==
  /\ Goto(h, "cfgReset", IF builder[I(h)].inject THEN "cfgWrite" ELSE "cfgArgs")
  /\ I(h) \notin MakeInsts
  /\ builder' = [builder EXCEPT ![I(h)].module = FALSE]
  /\ UNCHANGED <<store, leftover, frame>>

\* writeDiagnosticModule; when the write fails moduleWritten stays as it is.
ConfigureWrite(h) ==
  /\ Goto(h, "cfgWrite", "cfgArgs")
  /\ \E written \in BOOLEAN :
       builder' = [builder EXCEPT ![I(h)].module = @ \/ written]
  /\ UNCHANGED <<store, leftover, frame>>

\* buildConfigureArgs, then run starts the process.
ConfigureSpawn(h) ==
  /\ Goto(h, "cfgArgs", "cfgRun")
  /\ frame' = [frame EXCEPT ![h] =
                 [@ EXCEPT !.flagged = builder[I(h)].module,
                           !.piped = builder[I(h)].progress # None]]
  /\ UNCHANGED <<store, builder, leftover>>

ConfigureExit(h) ==
  /\ Goto(h, "cfgRun", "cfgDone")
  /\ \E o \in Outcomes :
       frame' = [frame EXCEPT ![h] = [@ EXCEPT !.res = o, !.piped = FALSE]]
  /\ UNCHANGED <<store, builder, leftover>>

\* The configure succeeded: the phase becomes configured, and build goes on.
RecordConfigured(h) ==
  /\ pc[h] = "cfgDone"
  /\ frame[h].res = "ok"
  /\ store' = [store EXCEPT ![I(h)] = SetConfigured(@)]
  /\ IF frame[h].tool = "rebuild"
       THEN /\ pc' = [pc EXCEPT ![h] = "start"]
            /\ frame' = [frame EXCEPT ![h] = [@ EXCEPT !.res = "none",
                                                    !.flagged = FALSE]]
       ELSE Return(h)
  /\ UNCHANGED <<builder, leftover>>

\* cmake exited with an error or was killed: its messages are kept, if it
\* printed any that parse, and the call ends.
RecordConfigureFailure(h) ==
  /\ pc[h] = "cfgDone"
  /\ frame[h].res \in {"failed", "killed"}
  /\ \E errs \in {"none", "configure"} :
       store' = [store EXCEPT ![I(h)] = SetConfigureDiagnostics(@, errs)]
  /\ Return(h)
  /\ UNCHANGED <<builder, leftover>>

ConfigureNotRun(h) ==
  /\ pc[h] = "cfgDone"
  /\ frame[h].res = "error"
  /\ Return(h)
  /\ UNCHANGED <<store, builder, leftover>>

ConfigureStep(h) ==
  \/ ConfigureMake(h) \/ ConfigureReset(h) \/ ConfigureWrite(h)
  \/ ConfigureSpawn(h) \/ ConfigureExit(h) \/ RecordConfigured(h)
  \/ RecordConfigureFailure(h) \/ ConfigureNotRun(h)

-----------------------------------------------------------------------------
(* handleBuild *)

StartBuild_Ok(h) ==
  /\ Goto(h, "start", "token")
  /\ MayStartBuild(store[I(h)])
  /\ store' = [store EXCEPT ![I(h)] = StartBuild(@)]
  /\ UNCHANGED <<builder, leftover, frame>>

StartBuild_Refused(h) ==
  /\ pc[h] = "start"
  /\ ~MayStartBuild(store[I(h)])
  /\ Return(h)
  /\ UNCHANGED <<store, builder, leftover>>

WantsProgress(h) == frame[h].token /\ I(h) \notin MakeInsts

SetProgressFunc(h) ==
  /\ Goto(h, "token", "mark")
  /\ builder' = IF WantsProgress(h)
                  THEN [builder EXCEPT ![I(h)].progress = h] ELSE builder
  /\ UNCHANGED <<store, leftover, frame>>

\* wasDirty := IsDirty(), then builder.SetDirty(true) if so.
MarkDirty_Forgets(h) ==
  /\ Goto(h, "mark", "spawn")
  /\ frame' = [frame EXCEPT ![h].wasDirty = store[I(h)].dirty]
  /\ UNCHANGED <<store, builder, leftover>>
MarkDirty(h) ==
  /\ Goto(h, "mark", "spawn")
  /\ frame' = [frame EXCEPT ![h].wasDirty = store[I(h)].dirty]
  /\ builder' = [builder EXCEPT ![I(h)].dirty = @ \/ store[I(h)].dirty]
  /\ UNCHANGED <<store, leftover>>

\* CMakeBuilder.Build: --clean-first consumes the dirty flag; run starts the
\* process.
SpawnCMake(h) ==
  /\ Goto(h, "spawn", "compile")
  /\ I(h) \notin MakeInsts
  /\ frame' = [frame EXCEPT ![h] =
                 [@ EXCEPT !.cleanFirst = builder[I(h)].dirty,
                           !.piped = builder[I(h)].progress # None]]
  /\ builder' = [builder EXCEPT ![I(h)].dirty = FALSE]
  /\ UNCHANGED <<store, leftover>>

\* MakeBuilder.Build: a dirty builder runs make clean first.
SpawnMake(h) ==
  /\ Goto(h, "spawn", IF builder[I(h)].dirty THEN "makeClean" ELSE "compile")
  /\ I(h) \in MakeInsts
  /\ frame' = [frame EXCEPT ![h] =
                 [@ EXCEPT !.cleanFirst = builder[I(h)].dirty,
                           !.flagged = builder[I(h)].inject]]
  /\ UNCHANGED <<store, builder, leftover>>

\* Killed before it could start, a process leaves the directory as it was.
LeftByKill(before) == {TRUE, before}

MakeCleanExit_Ok(h) ==
  /\ Goto(h, "makeClean", "compile")
  /\ builder' = [builder EXCEPT ![I(h)].dirty = FALSE]
  /\ leftover' = [leftover EXCEPT ![D(h)] = FALSE]
  /\ UNCHANGED <<store, frame>>

\* The result of make clean is returned as the result of the build, and the
\* builder stays dirty.
MakeCleanExit_Failed(h) ==
  /\ Goto(h, "makeClean", "compiled")
  /\ \E o \in Outcomes \ {"ok"} :
       /\ frame' = [frame EXCEPT ![h].res = o]
       /\ \E l \in IF o = "killed" THEN LeftByKill(leftover[D(h)])
                                   ELSE {leftover[D(h)]} :
            leftover' = [leftover EXCEPT ![D(h)] = l]
  /\ UNCHANGED <<store, builder>>

\* What a build that ended with outcome o leaves behind.  One that cleaned
\* first may fail before or after it has cleaned.
Leaves(o, cleaned, before) ==
  CASE o = "killed" -> LeftByKill(before)
    [] o = "ok"     -> {before /\ ~cleaned}
    [] OTHER        -> {before, before /\ ~cleaned}

CompileExit(h) ==
  /\ Goto(h, "compile", "compiled")
  /\ \E o \in Outcomes :
       /\ frame' = [frame EXCEPT ![h] = [@ EXCEPT !.res = o, !.piped = FALSE]]
       /\ \E l \in Leaves(o, frame[h].cleanFirst, leftover[D(h)]) :
            leftover' = [leftover EXCEPT ![D(h)] = l]
  /\ UNCHANGED <<store, builder>>

\* The process could not be run: the build is finished with a code of -1.
BuildNotRun(h) ==
  /\ Goto(h, "compiled", "reset")
  /\ frame[h].res = "error"
  /\ store' = [store EXCEPT ![I(h)] = FinishBuild(@, 1, "none")]
  /\ UNCHANGED <<builder, leftover, frame>>

\* resolveToolchain, parsing, and SetDirty if the build was killed.
ParseResult_NoDirty(h) ==
  /\ Goto(h, "compiled", "finish")
  /\ frame[h].res # "error"
  /\ UNCHANGED <<store, builder, leftover, frame>>
ParseResult(h) ==
  /\ Goto(h, "compiled", "finish")
  /\ frame[h].res # "error"
  /\ builder' = [builder EXCEPT ![I(h)].inject = @ /\ I(h) \notin LegacyGCC]
  /\ store' = IF frame[h].res = "killed"
                THEN [store EXCEPT ![I(h)] = SetDirty(@)] ELSE store
  /\ UNCHANGED <<leftover, frame>>

ExitCode(o) == IF o = "ok" THEN 0 ELSE 1

RecordBuild(h) ==
  /\ Goto(h, "finish", IF frame[h].wasDirty /\ frame[h].res = "ok"
                         THEN "clear" ELSE "reset")
  /\ \E errs \in {"none", "build"} :
       store' = [store EXCEPT ![I(h)] = FinishBuild(@, ExitCode(frame[h].res), errs)]
  /\ UNCHANGED <<builder, leftover, frame>>

ClearDirtyAfter(h) ==
  /\ Goto(h, "clear", "reset")
  /\ store' = [store EXCEPT ![I(h)] = ClearDirty(@)]
  /\ UNCHANGED <<builder, leftover, frame>>

\* The deferred SetProgressFunc(nil), then the call returns.
ResetProgressFunc_Forgets(h) ==
  /\ pc[h] = "reset"
  /\ Return(h)
  /\ UNCHANGED <<store, builder, leftover>>
ResetProgressFunc(h) ==
  /\ pc[h] = "reset"
  /\ builder' = IF WantsProgress(h)
                  THEN [builder EXCEPT ![I(h)].progress = None] ELSE builder
  /\ Return(h)
  /\ UNCHANGED <<store, leftover>>

BuildStep(h) ==
  \/ StartBuild_Ok(h) \/ StartBuild_Refused(h) \/ SetProgressFunc(h)
  \/ MarkDirty(h) \/ SpawnCMake(h) \/ SpawnMake(h) \/ MakeCleanExit_Ok(h)
  \/ MakeCleanExit_Failed(h) \/ CompileExit(h) \/ BuildNotRun(h)
  \/ ParseResult(h) \/ RecordBuild(h) \/ ClearDirtyAfter(h)
  \/ ResetProgressFunc(h)

-----------------------------------------------------------------------------
(* handleClean *)

CleanCheck_NoGuard(h) ==
  /\ Goto(h, "cleanCheck", "cleanRun")
  /\ UNCHANGED <<store, builder, leftover, frame>>
CleanCheck(h) ==
  /\ pc[h] = "cleanCheck"
  /\ IF store[I(h)].phase >= PhaseConfigured
       THEN /\ pc' = [pc EXCEPT ![h] = "cleanRun"]
            /\ frame' = [frame EXCEPT ![h].piped = builder[I(h)].progress # None]
       ELSE Return(h)
  /\ UNCHANGED <<store, builder, leftover>>

CleanExit_Ok(h) ==
  /\ Goto(h, "cleanRun", "cleanRecord")
  /\ leftover' = [leftover EXCEPT ![D(h)] = FALSE]
  /\ frame' = [frame EXCEPT ![h].piped = FALSE]
  /\ UNCHANGED <<store, builder>>

CleanExit_Failed(h) ==
  /\ pc[h] = "cleanRun"
  /\ Return(h)
  /\ UNCHANGED <<store, builder, leftover>>

RecordClean(h) ==
  /\ pc[h] = "cleanRecord"
  /\ store' = [store EXCEPT ![I(h)] = SetClean(@)]
  /\ Return(h)
  /\ UNCHANGED <<builder, leftover>>

CleanStep(h) ==
  CleanCheck(h) \/ CleanExit_Ok(h) \/ CleanExit_Failed(h) \/ RecordClean(h)

-----------------------------------------------------------------------------
(* handleListTargets: two checks, each under its own lock, then the tool *)

ListCheckPhase(h) ==
  /\ pc[h] = "listPhase"
  /\ IF store[I(h)].phase >= PhaseConfigured
       THEN pc' = [pc EXCEPT ![h] = "listBuilding"] /\ UNCHANGED frame
       ELSE Return(h)
  /\ UNCHANGED <<store, builder, leftover>>

\* MakeBuilder lists nothing and runs no process.
ListCheckBuilding(h) ==
  /\ pc[h] = "listBuilding"
  /\ IF ~store[I(h)].building /\ I(h) \notin MakeInsts
       THEN pc' = [pc EXCEPT ![h] = "listRun"] /\ UNCHANGED frame
       ELSE Return(h)
  /\ UNCHANGED <<store, builder, leftover>>

ListExit(h) ==
  /\ pc[h] = "listRun"
  /\ Return(h)
  /\ UNCHANGED <<store, builder, leftover>>

ListStep(h) == ListCheckPhase(h) \/ ListCheckBuilding(h) \/ ListExit(h)

-----------------------------------------------------------------------------
(* scanProgress, while the process of call h runs, calls whatever callback *)
(* progressFunc holds at that moment.  Calling a callback changes nothing  *)
(* here; when there is none the scanner panics and from then on drains.    *)

ScannerPanic(h) ==
  /\ pc[h] \in {"cfgRun", "compile", "cleanRun"}
  /\ frame[h].piped
  /\ builder[I(h)].progress = None
  /\ frame' = [frame EXCEPT ![h].piped = FALSE]
  /\ UNCHANGED <<store, builder, leftover, pc>>

-----------------------------------------------------------------------------

HandlerStep(h) == \/ ConfigureStep(h) \/ BuildStep(h) \/ CleanStep(h)
                  \/ ListStep(h) \/ ScannerPanic(h)

Next == \E h \in Handlers : \/ \E i \in Insts : Call(h, i)
                            \/ HandlerStep(h)

Spec == Init /\ [][Next]_vars

\* A handler that reached StartBuild goes on: the Go scheduler runs it, and
\* BuildTimeout followed by SIGTERM and SIGKILL ends every build process.
\* Nothing bounds a configure or a clean, so they get no fairness.
Fairness == \A h \in Handlers : WF_vars(BuildStep(h))

FairSpec == Spec /\ Fairness

-----------------------------------------------------------------------------
(* Correctness *)

TypeOK ==
  /\ store    \in [Insts -> StoreState]
  /\ builder  \in [Insts -> BuilderState]
  /\ leftover \in [Dirs -> BOOLEAN]
  /\ pc       \in [Handlers -> Labels]
  /\ frame    \in [Handlers -> Frame]

\* At most one call is between StartBuild and FinishBuild of an instance, and
\* BuildInProgress says whether there is one, whatever configure and clean
\* calls do to the same store meanwhile (store.go StartBuild, FinishBuild,
\* SetConfigured, SetClean).
ExclusiveBuild ==
  /\ \A g, h \in Handlers :
       pc[g] \in BuildSection /\ pc[h] \in BuildSection /\ I(g) = I(h) => g = h
  /\ \A i \in Insts :
       store[i].building <=> \E h \in Handlers : pc[h] \in BuildSection /\ I(h) = i

\* A project leaves the unconfigured phase only when a configure that exited
\* 0 is recorded, and never returns to it: neither the SetClean of a clean
\* that overlapped other calls ("Callers must ensure SetConfigured has been
\* called before SetClean", store.go:199) nor a late FinishBuild advances it.
ConfiguredForGood ==
  [][\A i \in Insts :
       /\ store[i].phase # PhaseUnconfigured => store'[i].phase # PhaseUnconfigured
       /\ store[i].phase = PhaseUnconfigured /\ store'[i].phase # PhaseUnconfigured
            => \E h \in Handlers : I(h) = i /\ RecordConfigured(h)]_vars

\* A build that found the store dirty cleans before it compiles: the flag it
\* hands to the builder is not consumed or lost on the way to the process
\* (handleBuild, SetDirty and Build of both builders), for overlapping calls
\* and after a failed make clean or a failed spawn.
DirtyBuildCleans ==
  \A h \in Handlers : pc[h] \in Building /\ frame[h].wasDirty => frame[h].cleanFirst

\* Traces a killed build left are remembered: while no build is in progress
\* the store is dirty, so Health says so and the next build cleans first
\* (README.md:189, store.go:152-155).
KilledBuildRemembered ==
  \A i \in Insts :
    leftover[DirOf[i]] /\ ~store[i].building => Health(store[i]) = "DIRTY"

\* No call is reported progress after it has returned: a builder holds the
\* callback of a call only from the SetProgressFunc of that call to its
\* deferred SetProgressFunc(nil), although other calls overwrite the field.
NoLateProgress ==
  \A i \in Insts, h \in Handlers :
    builder[i].progress = h =>
      /\ pc[h] \in (BuildSection \ {"token"}) \cup {"clear", "reset"}
      /\ I(h) = i /\ WantsProgress(h)

\* A build that is in progress comes to an end, so that builds are accepted
\* again (store.go:64-66: "If FinishBuild is never called, BuildInProgress
\* will remain true and all subsequent StartBuild calls will fail").
BuildFinishes ==
  \A i \in Insts : store[i].building ~> ~store[i].building

\* The session keeps the promises of BuildContract.
Compiling(d) == \E h \in Handlers : pc[h] \in Building /\ D(h) = d
Cleaning(d)  == \E h \in Handlers : pc[h] \in Building /\ D(h) = d /\ frame[h].cleanFirst

Contract == INSTANCE BuildContract WITH
              running  <- [d \in Dirs |-> Compiling(d)],
              cleaning <- [d \in Dirs |-> Cleaning(d)],
              owed     <- leftover

ImplementsContract == Contract!Spec

-----------------------------------------------------------------------------
(* What the repository says of itself and the code does not keep.          *)

\* A project whose compiler is detected as gcc-legacy is not compiled with
\* diagnostic flags (main.go:291-293).
LegacyNeverFlagged ==
  \A h \in Handlers :
    pc[h] \in Building /\ I(h) \in MakeInsts \cap LegacyGCC => ~frame[h].flagged
=============================================================================
