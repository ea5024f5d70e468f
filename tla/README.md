# A TLA+ model of cpp-build-mcp

cpp-build-mcp is an MCP server, written in Go, that lets a client configure,
build and clean C++ projects and read the results as structured data. This
directory holds TLA+ modules that model the server (its concurrent core, how it
loads its configurations, how it reads the output of builds, and the tools that
read), TLC configurations that check them on small instances, and proofs of
theorems about them that TLAPS checks for every instance. Line numbers refer to the sources of
the repository (`main.go`, `registry.go`, `state/store.go`, `builder/*.go`, ...).

To run it, with TLC and tlapm on the path:

    tlc -workers 2 -config MCStatusReader_reader.cfg MCStatusReader
    tlapm BuildSession_proofs.tla

## 1. The system

| component | state it keeps | operations |
|---|---|---|
| **state store** `state/store.go` | phase (unconfigured, configured, built), last exit code, error and warning lists, `Dirty`, `BuildInProgress`, times; one mutex | `StartBuild`, `FinishBuild`, `SetConfigured`, `SetClean`, `SetDirty`, `ClearDirty`, `SetConfigureDiagnostics`, readers, `Health` |
| **tool handlers** `main.go` | none of their own: locals of a call | `configure`, `build` (with `reconfigure`), `clean`, `list_targets`, `get_errors`, `get_warnings`, `suggest_fix`, `get_changed_files`, `get_build_graph`, `list_configs`, `load_presets`, the `build://health` resource |
| **CMake builder** `builder/cmake.go` | `dirty`, `moduleWritten`, `progressFunc`, and `cfg.InjectDiagnosticFlags`, all without a lock | `Configure`, `Build`, `Clean`, `ListTargets`, `SetDirty`, `SetProgressFunc`; `run` and `scanProgress` around each process |
| **Make builder** `builder/make.go` | `dirty`, `cfg.InjectDiagnosticFlags`, without a lock | the same; `Configure` does nothing, a dirty `Build` runs `make clean` first |
| **registry** `registry.go` | instances by name (configuration, builder, store), default name; one RW mutex | `get`, `defaultInstance`, `list`, `all`, `len`, `reload`; status tokens |
| **configuration loading** `config/` | none | `LoadMulti`: config file, presets with inheritance, environment; uniqueness of `build_dir` |
| **toolchain detection** `builder/detect.go` | none | `DetectToolchain`; `resolveToolchain` in `main.go` switches flag injection off for a legacy GCC |
| **diagnostics** `diagnostics/` | none | parsers for SARIF, Clang and GCC JSON, plain text |
| **change detection** `changes/`, **build graph** `graph/` | none | files changed since a time; a summary of `compile_commands.json` |
| **MCP library** (external) | a pool of workers | each worker runs one tool call at a time |

How they interact. The MCP library hands `tools/call` requests to a pool of
workers (`.plans/Plans/BuildIntelligenceMCP/notes/02-Diagnostics-Core-Loop.md:46`),
so the handlers of several calls run at once. A handler resolves the name of a
configuration in the registry and from then on holds the instance; it changes
the store and the builder of that instance and runs external processes in its
`build_dir`. The store is guarded by a mutex per method, the builder's fields
by nothing, the build directory by nothing but `BuildInProgress`. `load_presets`
replaces instances in the registry while handlers go on with the old ones. `run`
starts a goroutine that scans the output of a process and calls back into the
MCP library, and `os/exec` has goroutines of its own that copy the output and
end the process when the call's context is done.

What is hard about it, and what makes each part correct:

* *store and handlers*: calls interleave between any two lock sections. Builds
  of one configuration must exclude each other; `BuildInProgress` must be
  cleared on every path; the dirty mark of a killed build must survive until
  something has cleaned; the phase must never fall back to unconfigured.
* *builders*: a flag goes from the store to the builder to the command line and
  must not be lost on the way; a callback must not outlive its call.
* *`run`*: a process, three goroutines, a context that may end at any time, two
  timers. It must return, with the right verdict (ok, failed, killed, error), with
  all of the output, and not before the scanner has ended.
* *registry*: overlapping loads, outdated file contents, a load that fails half
  way; a default that must exist because `defaultInstance` panics otherwise;
  unchanged configurations must keep their state.
* *status*: read in pieces, while what it describes changes.
* *configuration loading*: three files and the environment say different things
  of one field; presets inherit from each other along diamonds, in any order in
  the file, and perhaps in a circle; directories are spelled with macros, "." and "..". What comes out must have unique directories,
  since the registry and every store rely on it.
* *diagnosis*: the compilers print one format, decided at configure time, and a
  parser reads another, decided after the build; the text between is a stream in
  which parallel compilers, the build tool and CMake mix, and which a kill may cut
  anywhere. Nothing said may be lost and nothing made up.
* *reading tools*: times and line numbers of an earlier build meet files that have
  been saved since, or while it ran.

`PROJECT.json` lists the hazards one by one, each at its line.

## 2. Modules

    BuildStore ──> BuildSession ──> ConfigServer ──> ConfigServer_proofs
                    │      │  └──> StatusReader ──> StatusReader_proofs
                    │      │                              │ extends
    BuildContract <─┘      └─────> BuildSession_proofs <──┘
    BuildProcess ──> BuildProcess_proofs
    PresetInherits ──> ConfigLoad ──> ConfigLoad_proofs    (what ConfigServer
                           │              │ extends         assumes of a load)
    Lists ─────────────────┤              ├──> Lists_proofs
                           │              │ extends
    DiagnosticParsers ──> Diagnose ──> Diagnose_proofs
    ReadTools ──> ReadTools_proofs

**BuildStore** is `state/store.go`: the record that the mutex protects, and one
operator per method. Diagnostics are kept by origin (from a configure, from a
build, none) and exit codes as zero or not. Times are left out.

**BuildSession** is the core: the handlers of `configure`, `build`, `clean` and
`list_targets` at work on a set of instances. `pc[h]` is where the call of worker
`h` is and `frame[h]` its local variables; `store[i]` and `builder[i]` are the
state of an instance; `leftover[d]` is outside the server and says that a killed
build left lock files or partial products in directory `d`. A step is what the
code does between two points at which another goroutine can observe it: one lock
section of a store, one access to an unguarded field, the start of a process, its
end. The order of steps is that of the code, with its early returns: for `build`,

| label | `handleBuild` |
|---|---|
| `cfgReset` .. `cfgDone` | `runConfigureStep`, with `reconfigure` (main.go:409-427, 677-714; cmake.go:76-89) |
| `start` | `StartBuild` (430) |
| `token` | `SetProgressFunc` (437-462) |
| `mark` | `IsDirty`, `builder.SetDirty` (465-468) |
| `spawn` | `Build` until the process has started: `--clean-first` consumes the flag (cmake.go:125-134, 423-430), or `make clean` comes first (make.go:49-58) |
| `makeClean`, `compile` | the processes are running |
| `compiled` | spawn error (487-491), or `resolveToolchain`, parsing and `SetDirty` (493-528) |
| `finish`, `clear` | `FinishBuild` (531), `ClearDirty` (534-536) |
| `reset` | the deferred `SetProgressFunc(nil)` (461) |

How a process ends is a choice among `Outcomes`, all that `run` and `runMake`
can return. `ScannerPanic` is a call of a nil `progressFunc`.

**BuildContract** is the abstract specification: builds in a directory exclude
each other, and after a killed build the next one cleans first, unless the
directory was cleaned in between. `ImplementsContract` maps it to BuildSession
by `running`, `cleaning` (a build process is at work, and it cleans) and
`owed <- leftover`.

**ConfigServer** puts the registry around the sessions. A configuration file
says which names have which configuration (`Contents`); `LoadMulti` is a choice of
any of them at each call, since files may change at any time, and what it
guarantees (unique directories, a default that exists) is `ServerAssumption`.
`LoadPresets`, `Reload_Ok` or `Reload_Failed`, and `Answer` are the three parts
of `handleLoadPresets`; calls that run on replaced instances go on. Instances are
taken from a pool that bounds how many a run can make. `HealthCount` and
`HealthAnswer` are the two lock sections of the health resource.

**StatusReader** lets a reader put together the token of
`aggregateHealthToken` (and of `storeStatusToken`, which asks the same first
three questions) from `IsBuilding`, `IsDirty`, `GetPhase` and `LastExitCode`, one
lock section each, between the steps of BuildSession. `seen` and `rest` are
history variables for its properties.

**BuildProcess** opens up what BuildSession takes as one step, the end of a
`compile`: one call of `CMakeBuilder.run`, with the process, the descendants that
inherit its stdout (`heir`), the copier goroutine of `os/exec`, its goroutine
that sends SIGTERM and SIGKILL, and `scanProgress`. Lines are of four kinds:
`text`, a `step` ([N/M]), the `final` step, and `long` (beyond the 64 KiB of
`bufio.Scanner`). `Result` gives the outcome that BuildSession chooses from.
`MakeBuilder.runMake` is the same without pipe and scanner (`piped` FALSE).

**PresetInherits** is `resolveInherits` (presets.go:94-148). Its recursion is
unfolded: `stack` holds the frames of `resolve` that are under way, `Descend`,
`InheritFrom`, `UnknownParent`, `CircularInherits` and `Leave` are the turns of
its loop over the parents, `EnterPreset` and `NextPreset` those of the outer one.
`given` keeps the presets as the files have them. A directory is a sequence of
segments, so that macros and what `filepath.Join` cleans ("." and "..") can be told apart
from names.

**ConfigLoad** is the rest of `LoadMulti`: the config file with and without a
`configs` map, the two presets files and their union, the filter, the overlay of
the file over each preset and the three fields that are restored, the
environment, the default and the two uniqueness checks. `Cases` says what is found
on disk; `result` is what `ConfigServer` takes as one of its `Contents`, and
`LoadGuarantee` what its `ServerAssumption` asks of it.

**DiagnosticParsers** are the functions of `diagnostics/` as operators on lines.
The text of a line is a sequence of tokens of which only brackets, braces,
quotes and backslashes count, and the ids that stand for messages; `noise` says that a pattern of `stripNinjaNoise`
matches, `states` and `cmake` what the plain parsers read in it. `Scan` is one turn
of `splitJSONArrays` and `splitJSONObjects`, which differ in their brackets only.
A diagnostic has a severity, a place or none, and an id. `Read` is what a parser makes
of a document in the dialect of GCC, of Clang or of SARIF: what another family wrote
keeps its message only. Its severity has another name (`kind`, `severity`), and one
that is not there is an error (`Misread`, gcc.go:154, clang.go:244); a run of SARIF read
as GCC's JSON is an empty error (`Blank`).

**Lists** has `Kept`, the filter of both, which the proofs need as a recursive
function.

**Diagnose** runs a build against them: a compiler of some family, name, version
and format, a toolchain setting, Ninja, Make under CMake or plain Make, flags
injected or not, serial or not. `ProbedFormat` is `diagnostic_format.cmake`,
`diagnosticFlag` that of MakeBuilder, `DetectToolchain` and `resolveToolchain` choose
the parser. The actions of Ninja, Make, CMake and the compilers are external:
they print what the parsers, their comments and their tests expect (Ninja a
unit's output at its end, after the command line if it failed; Make what each
compiler writes, when it writes it; CMake under Ninja on either stream). `Kill` may stop it anywhere. `Report` is
handleBuild from `resolveToolchain` to `FinishBuild`. Its assumptions are about what
there is to say: an id belongs to one diagnostic and is no other text, every
diagnostic is said once (`SaidAssumption`: two that read the same are two); a CMake
that fails says why, and no line of CMake's and no command line begins with a
bracket (section 3 says what happens otherwise) or holds JSON by chance: there are words
after each brace (`TextAssumption`).

**ReadTools** is `get_changed_files` (its `detectMtime`) and `suggest_fix`, between
the steps of a user who saves and deletes files and of builds that read them one
by one. Of a file its length, its wrong lines and the time of its last save are
kept; `since` and `errors` are `LastSuccessfulBuildTime` and `Errors` of the store.
`built` and `passed` are history: which version of a file the last good build of
it read, and which files were out of date all the same when it ended.

Definitions whose name ends in a lower-case or capitalised remark after an
underscore and that are used by no other definition (`MayStartBuild_NoGuard`,
`Join_NoWait`, ...) are faulty variants of the definition next to them. They
are there to show that the property a run checks notices such a fault; the
table `mutants` in `PROJECT.json` pairs each with a property.

## 3. What is checked

Each run is `MC<module>_<run>.cfg`. Bounds are the sets of workers, instances,
requests and files in the MC modules; nothing else in these models is unbounded
except the lines a process prints (`MaxLines`), the instances a load can make (the
pool) and the clock of ReadTools (`MaxClock`).

| run | instance | what it shows |
|---|---|---|
| `one_builder` | a CMake and a Make instance; one worker builds (`build` with a token, `rebuild` without), the other configures, cleans and lists; compilers that turn out to be legacy ones; 2.6 million states | `KilledBuildRemembered`, and that the session implements `BuildContract`, while builds come from one worker |
| `reader` | one reader, two workers that build with and without a token, configure and clean one CMake instance; 2.9 million states (up to symmetry of the workers) | `ExclusiveBuild`, `DirtyBuildCleans`, `NoLateProgress`, `ConfiguredForGood` under every overlap of two calls; `TokenIsReal`, `AgreesWithHealth` of the token read meanwhile |
| `liveness` | two workers, one Make instance, every call; 99 thousand states | `BuildFinishes`: every `StartBuild` is followed by a `FinishBuild` |
| `reload` | two loaders, five versions of the files, one of which cannot be built, a pool of four instances, a worker that configures; 538 thousand states | `OneSnapshot`, `DefaultRegistered`, `StatePreserved` |
| `overlap` | two workers that build, one loader, two configurations of one directory; 2.4 million states | `RegisteredBuildsIsolated` |
| `run` | one process, at most three lines of any kind; 387 thousand states | `KillReported`, `OutputComplete`, `PanicIsForeign`, `FinalDelivered`, `TimeoutEndsRunOrOverflow` |
| `config_load` | every graph of three presets with up to two parents each (one not defined, one malformed), each with or without values of its own; every combination of 86 config files, 39 presets files, 4 user files and 3 environments; 479 thousand states | `InheritedValues`, `CircularExact`, `LoadGuarantee`, `Precedence`, `RelativeDirsApart`, `LoadEnds` |
| `diagnose` | two units that say up to two things each, eight compilers in every setup, CMake run again or not; 1.4 million states | `NoneLost`, `ReconfigureExplained`, `NothingInvented`, `QuietFailureExplained` |
| `read_tools` | two files with three contents around the window's size, builds of both or one, three saves or ends of builds; 1.5 million states (up to symmetry of the files) | `QueryTells`, `FixShowsLine`, `PanicNeedsShrink` |

Why these bounds. Everything the handlers share belongs to one instance, and the
properties speak about one or two calls; two workers give every overlap of two
calls, and each worker takes any number of calls one after the other, so the
histories (a killed build, then a failed one, then a clean) are not bounded at
all. The theorems of section 4 carry most safety properties to any number of
workers, instances, lines, presets and files. Four instances and five file
contents let a name be added, dropped, changed, changed back once, and fail to
build, with two loads overlapping. Three lines let the scanner be in front of, at and behind a final
line. Three presets have every diamond, chain and circle of three, with the parent
before and after the child in the file, and a circle that is entered from
outside of it. Two units are two documents that can be mixed up, one cut, or one
in front of the other with a command line between. Three ticks are a save while a
build runs, its end, and another save or another build's end while a call walks.

### Fairness

`BuildSession.Fairness` is weak fairness of `BuildStep(h)` for each worker: the Go
scheduler runs a handler that can go on, and `BuildTimeout` followed by SIGTERM
and, after `WaitDelay`, SIGKILL ends every build process. There is none for
`configure` and `clean`, which have no timeout, and none for clients. `liveness`
is checked for a Make instance because that argument is complete for `runMake`
only: for `CMakeBuilder.run` it is the subject of BuildProcess, which assumes
fairness of each goroutine and of the `WaitDelay` timers alone, neither of the
process nor of the client, and shows nothing without the context being done.
Its `TimeoutEndsRunOrOverflow` is what the code keeps; what it does not is next.
`LoadSpec` has weak fairness of its next step: a load is one call that nothing
waits for or interrupts.

### Disagreements with what the repository says

These runs end in a counterexample; each checks one statement of the
documentation or of a comment (`findings` in `PROJECT.json` quotes them).

| run | property | counterexample |
|---|---|---|
| `lost_dirty` | `KilledBuildRemembered` | A build that found the store dirty succeeds and calls `FinishBuild`; before its `ClearDirty` (main.go:534-536) a second build starts, is killed and sets the store dirty; the first then clears that mark. |
| `long_line` | `TimeoutEndsRun` | A line that overflows `bufio.Scanner` ends `scanProgress` without draining the pipe (cmake.go:574); the copier blocks, `cmd.Run` waits for it even after `WaitDelay`, and `BuildInProgress` stays set for good. |
| `invocation_line` | `FailureExplained` | A unit whose command line has an escaped quote (`-DX=\"v\"`) fails under Ninja, which prints the line in front of its diagnostics; the quote opens a string in `splitJSONArrays` or `splitJSONObjects` (clang.go:207, sarif.go:112), the document is skipped, and the build is reported with exit code 1 and no error. |

Three more statements of the repository are in the modules as properties that
the code does not keep; a run of their own would repeat what another one explores,
and TLC refutes each in a few seconds when it takes the place of the properties
of the configuration named: `LegacyNeverFlagged` in `MCBuildSession_liveness.cfg`
(`main()` resolves no toolchain, so the first make build passes diagnostic flags to a
GCC older than 10, against main.go:291-293); `OneBuildPerDir` in
`MCConfigServer_overlap.cfg` (`load_presets` replaces a changed configuration while
its build is running, and the new instance, whose store knows of no build,
builds in the same directory, against README.md:229); `HealthCoversAll` in
`MCConfigServer_reload.cfg` (the registry grows between `len()` and
`defaultInstance()`; the comment at main.go:603-604 still calls it append-only).

Further ones follow from the same steps. In the session: `list_targets` starts
ninja after its check of `IsBuilding` and may run beside a build, against `.plans/Designs/PartialTargetBuilds/README.md:312`; a `configure` or
`clean` beside a build is scanned with the build's callback, against cmake.go:55;
a successful configure leaves the messages of a failed one for `get_errors`,
against main.go:93; the new store of a changed configuration has forgotten a
killed build in the same directory; of two overlapping loads one answers with
the list of the other (main.go:335); a `default_config` that changed in the files
is ignored while the old one exists (registry.go:229); a build that exits 0 while
a descendant holds its stdout is reported as "failed to start" (main.go:488,
cmake.go:539).

In loading: two entries of `configs` may spell one directory differently
(config.go:218 compares strings); the environment's `build_dir` reaches a single
preset although `cmake --preset` goes to the preset's own; files that a presets
file includes are not read.

In the diagnosis, `NoneLost` holds of the setups for which `Promised` holds, and
that leaves out: a compiler called `cc` or `c++`, which `classifyCompiler` does not
know, so that its JSON is read as plain text or by the parser of the system's
`cc`; GCC 9, which accepts the JSON flag but is read as legacy; a toolchain that is
legacy or MSVC under Ninja, whose plain messages come in stdout where
`RegexParser` does not look (regex.go:29), or any compiler that writes them there; a
modern GCC or Clang without `inject_diagnostic_flags`; plain Make with toolchain
`auto`, where a Clang is given the JSON flag (make.go:107) and a GCC is read as
the system's `cc` says; and compilers that write to one stream at the same time
under Make unless `diagnostic_serial_build` is set. Text in brackets outside of
documents, such as `[-Wfoo]` in a message of CMake, makes the whole result
one "Failed to parse" (`QuietBuild` excludes it); where such a line begins with
the bracket this hides the errors of a failing CMake as well (`TextAssumption`
excludes that). A failing link step prints no document and so gives no error.

Where the parser is one for another family (a Clang under plain Make with
toolchain `auto` where `cc` is GCC; a compiler called `c++` where `cc` is the other
one; a toolchain that was set wrong) warnings and notes become errors, and none has a
file or a line: `GCCParser` reads `kind` and `locations`, `ClangParser` `severity`,
`file` and `line`, and takes what is missing for an error (gcc.go:154, clang.go:244).
`GCCParser` does not look for SARIF either, and makes an empty error of each of its
runs (gcc.go:76); `ClangParser` does not look into the `children` of GCC's documents.
The run `diagnose` goes through all of these, and `NothingInvented` says that this is all
that happens: `Understood` tells the setups apart, `Accounted` what may be reported
in each.

In the reading tools: a file saved while a build runs, or outside of the targets
it was asked for, is older than `LastSuccessfulBuildTime` and is not named again
until it is saved again (`passed`), against README.md:195; with git, `git diff
--since=... HEAD` does not look at the time at all (detector.go:69); a file that
has lost more than eleven lines since the build can end the server in `suggest_fix`
(`PanicNeedsShrink` says when).

## 4. What is proved

The proof modules extend the module they are about; assumptions are the named
`ASSUME`s of the constants (types and disjointness of the sets, and for the
server what `LoadMulti` guarantees), which TLC evaluates in every run.

**BuildSession_proofs**, for any workers, instances, directories and requests:

* `TypeCorrect`: `TypeOK`. The inductive invariant is `Typed`, `TypeOK` together
  with `CallOK`: a worker that is not idle has an instance and a tool, and is at a
  label of that tool.
* `Exclusive`: `ExclusiveBuild`. Inductive together with `Typed`; the second half,
  `building` holds exactly when a worker is in the build section, is what makes
  the first half inductive, as a lock variable does for mutual exclusion.
* `StaysConfigured`: `ConfiguredForGood`, an action property. It rests on
  `ConfiguredInv`: where a call has passed a check of the phase (every build
  section, a clean under way), the store of its instance is configured. Without
  it `FinishBuild` and `SetClean` could configure a project.
* `DirtyCleans`: `DirtyBuildCleans`. Two steps hand the flag on, with other calls in
  between. `DirtyHand` says that at `spawn` a call with `wasDirty` has a dirty
  builder; that no other call consumes it there follows from `ExclusiveBuild`.
* `NoneTooLate`: `NoLateProgress`, inductive as it stands with `Typed`.

Its last part is for any workers and instances under `OneBuilder`: requests to
build reach one worker only, and instances have directories of their own. The
other workers may configure, clean and list meanwhile.

* `KilledRemembered`: `KilledBuildRemembered`. `RememberInv` says that what a killed
  build left is covered by a dirty store or by a call that has yet to report the kill.
  Only `ClearDirty`, after a successful build, takes the mark away (`DirtyKept`);
  `CleanedInv` says that the directory has no leftovers then, which in turn needs
  `DirtyHand` and that no other build ran since.
* `Implements`: `ImplementsContract`. Every step of the session is a step of
  `BuildContract` or leaves its variables alone. That a build which must clean does
  is `SpawnInv`: at `spawn` leftovers were seen when the store was asked.

**StatusReader_proofs**, for any workers, instances and readers:
`ReaderTypeCorrect`; `TokenAgrees`, from `RestInv` (what a reader was told is still so
while the store rests); `TokenReal`, from `SeenInv`: a reader that has passed
a question has seen a moment at which the answer was true. For `OK` this needs that
the exit code changes only together with the phase (`ExitStep`), for
`UNCONFIGURED` that a store in that phase was never marked dirty (`FreshInv`).

**ConfigServer_proofs**, for any number of loaders, contents and instances:
`ServerRunsSessions` shows that a server behaviour is a behaviour of BuildSession,
so that all of the above holds of the server. `RegistryIsOneSnapshot`,
`NoDefaultPanic`, `ReloadKeepsState` and `ServerTypeCorrect` follow from the invariant
`ServerInv` (types, one snapshot, registered default): the default needs the snapshot,
because the name a load falls back to is one that its own contents define.
`RegisteredIsolated` combines `Exclusive` with the snapshot: two registered
instances in one directory have the same name, and one instance has one build.

**BuildProcess_proofs**, for any number of lines of any kinds: `ProcessTypeCorrect`,
inductive with the bounds of `ProcessInv`; `PanicsAreForeign` (`PanicIsForeign`): until
another call touches it the callback is what `run` saw when it made the pipe, and a run
that has returned has no scanner left that could call it;
`KillIsReported`, from `KillInv` (a signal was sent only while `run` waited, and
shows in the error); `OutputIsComplete`, from `OutputInv` (a copier that ended
without its stdout being closed has copied everything, and no one is left to
print; without an error that is how it ended); `FinalIsDelivered`, from `FinalInv`
(a final line that was copied has been delivered, or the copier still holds it in
the pipe, or the scanner is about to report it).

**ConfigLoad_proofs**, first for any list of presets, through `InheritsSpec`
(`resolveInherits` alone; `LoadSpec` runs the same steps on the union of two files):
`CircularIsExact` and `ValuesAreInherited`. Both rest on `WalkInv`: each frame is
about a preset that is reached once and not complete, the parents it has passed
are complete (`FrameInv`), each frame inherits from the next (`ChainInv`), and
what is complete has complete parents only (`ClosedInv`). A parent that is under
way then closes a knot (`StackKnot`), and a preset that is in a knot never becomes
complete (`KnotInv`). For the values `ShownInv` adds that a frame has taken what
its earlier parents give and that presets not yet reached are as the files give
them; a complete preset never changes again, so what it gave it still shows.
That the walk ends (`LoadEnds`) stays with TLC.

Then for any files and any environment, with names that have a rank
(`RankAssumption`): `LoadTypeCorrect`; `LoadGuarantees`, which is what
`ServerAssumption` takes for granted of `Contents`; `SourcesInOrder`
(`Precedence`) and `DirsApart` (`RelativeDirsApart`). Each way to return is
shown to give an answer that is `Good`, and `LoadInv` carries it along, with the
list of presets that `ReadPresets` makes of two files. `LoadInherits` takes the
theorems about the walk over to the load, through the same `WalkProved`. Unique
directories survive the environment because it is laid over a configuration that
has no other beside it; relative ones differ once cleaned because cleaning twice
changes
nothing (`CleanTwice`: what `Clean` returns has no "." and no name in front of a ".."
(`Neat`), and such a directory is left as it is).

**Lists_proofs**, for any lists: what the filter `Kept`, `FlattenSeq` and a function
applied to each entry make of a list, of a longer one and of two lists joined; and
what is in the result, and how often (`Meets`, `OnceIn`). They take the place of
induction: `AppendInduction` says that a set of lists that has the empty one, and
with every list those that are one entry longer, has all lists. It is proved by
looking at the least length at which it would fail (`Least`). The induction theorems
of the library take operators, which the provers cannot instantiate; a set they
can. A recursive function over the positions of a list is unfolded by showing
first that a table of its values exists (`KeptTable`, `FlatTable`, `ScanTable`).

**Diagnose_proofs**, for any number of units, any setups and any messages:

* `DiagnoseTypes`: `DiagnoseTypeOK`. `TypeInv` adds the types of the streams and how
  far each unit can be (`Far`: a unit that waits has printed nothing, one that ended
  everything). `StepShape` sorts the steps by what they write: nothing but lines of the
  build tools (`Talks`), a slice of one unit's output after such lines
  (`Prints`), CMake's messages, or the report. The later invariants use it.
* `ReconfigureErrors`: `ReconfigureExplained`. `ReportInv` says that what is reported
  is what handleBuild makes of the two streams, `CMakeInv` that CMake's messages
  in them are what CMake said, in the one stream or the other, and `MuteInv` that,
  as long as no unit has printed anything, no line passes for a document; then every
  parser returns nothing (`NothingParsed`), and the fall-back reads both streams.
* `NothingIsInvented`: `NothingInvented`. `OnceInv` says that at most one line of each
  stream has to do with a diagnostic, and that a unit that has come that far
  says it. What a scan keeps has every token at most as often as the text it
  read, whatever that text is (`ScanOnce`); a chunk that reads as a document has the ids
  of its diagnostics and no others (`ParseChunksOnce`); and so what any parser returns
  was carried by a line, and is returned once (`ParseOnce`). What a document becomes
  depends on the parser: where it is one for the compiler's documents, `FitInv` (no line
  begins a document in another format) rules out that one is read as SARIF which is not,
  or the reverse (`MeaningRead`), and severity and place are kept; elsewhere `Read` gives
  nothing but what `Accounted` allows.

* `NoneIsLost`: `NoneLost`. `PromiseIs` reduces a promised setup to the tool, the stream
  and the parser it leads to; `SaidInv` then has a part for each: documents (`DocsInv`),
  lines that the pattern reads one by one (`LinesInv`), a flag that is refused
  (`RefusedInv`), and `SerialInv`, that the units of a serial build run one after
  another. `DocsInv` says that what the scan of the one stream has found are the documents of
  a list of units and that what was said is theirs; that the scan is inside of a
  document exactly when a unit is between its two lines, and where in it (`At`); and
  that all other lines leave the scan where it is (`Hush`). It is an
  invariant of the scanner's state, because the text so far may end anywhere. A chunk
  is read as the unit that printed it meant: two units whose documents read the same
  have nothing to say (`SameDocument`, from `SaidAssumption`).
* `QuietFailures`: `QuietFailureExplained`, from `NoneLost` and `CauseInv`: a unit that
  failed has an error to say, and what a line that was printed completes has been said.

**ReadTools_proofs**, for any files, contents and times: `ReadToolsTypeCorrect`;
`FixShowsItsLine` and `PanicOnlyAfterShrink`, from the arithmetic of the window
(`Window`) and `LinesInv`, by which errors are in lines that their file had;
`QueryAnswers`, from `TimesInv` (nothing is from the future, and the comparison of
times finds exactly what is due) and `WalkInv` (what was due all the time is
named or still to be visited).

**Model-checked only.** Every safety property that a passing run checks is proved.
Liveness (`BuildFinishes`, `TimeoutEndsRunOrOverflow`, `LoadEnds`) needs fairness
and ENABLED, which the prover does not have, and is checked on the instances of
section 3. Without `OneBuilder`, `KilledBuildRemembered` does
not hold: the run `lost_dirty` is a counterexample with two builders.

## 5. What is not modelled, and the plan

Left out for good: argument lists but for the flags that the properties depend
on, the wording of answers and the texts of diagnostics, the MCP protocol, what
ninja and the compilers do in the directory after cmake was killed (SIGTERM is
sent to cmake alone, cmake.go:494), and what git prints. `get_errors`,
`get_warnings` and `list_configs` return what they find in a store or the registry;
`get_build_graph` summarises one file that CMake wrote. `Load` of config.go is
called by tests only. GCC's children of a diagnostic are notes, which handleBuild
drops. Two presets of one name in one file are refused by CMake and left out.

What the plan has left:

1. **list_configs** in ConfigServer: `list()`, then `getDefault()`, with a load in
   between.
2. **GCC's children**: their flattening and its depth limit.
3. **The build graph**: the summary as an operator.
