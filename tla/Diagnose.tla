------------------------------ MODULE Diagnose ------------------------------
(***************************************************************************)
(* From a failing compiler to the errors of the store: which format the    *)
(* compilers are made to print (diagnostic_format.cmake, MakeBuilder), how *)
(* a build writes it between the lines of the build tool, which parser     *)
(* handleBuild takes (resolveToolchain) and what it makes of the output.   *)
(*                                                                         *)
(* Compilers, CMake, Ninja and Make are not part of the repository: their  *)
(* actions print what the parsers and their tests expect of them.          *)
(***************************************************************************)
EXTENDS DiagnosticParsers, FiniteSets

CONSTANTS
  Units,      \* what a build compiles
  Diagnostics,  \* what there is to say about units and about CMakeLists.txt
  Setups,     \* compilers, configurations and build tools
  Works,      \* what the compiler has to say of each unit
  Reconfigs   \* what CMake has to say when it is run again, None where it is not

\* A compiler: the family its file name shows, "" for a name like cc or c++;
\* what it is; whether its version is below 10; the formats it accepts and the
\* stream it writes to.  "system" is the family that "cc --version" shows.
IsCompiler(c) ==
  /\ c.name \in {"clang", "gcc", "cl", ""}
  /\ c.family \in {"clang", "gcc", "cl"}
  /\ c.accepts \subseteq {"json", "sarif"}
  /\ c.family = "cl" => c.accepts = {}
  /\ c.stream \in {"stdout", "stderr"}

ASSUME DiagnoseAssumption ==
  /\ IsFiniteSet(Units)
  /\ \A s \in Setups :
       /\ IsCompiler(s.compiler)
       /\ s.system \in {"clang", "gcc", "gcc-legacy", ""}
       /\ s.Toolchain \in {"auto", "clang", "gcc", "gcc-legacy", "msvc"}
       /\ s.tool \in {"ninja", "make", "plain make"}
       /\ {s.InjectDiagnosticFlags, s.DiagnosticSerialBuild} \subseteq BOOLEAN

\* What a parser may make of them.
Readings == Diagnostics \cup {Misread(d) : d \in Diagnostics} \cup {Blank}

\* An id belongs to one diagnostic and is no other text.  Every diagnostic is
\* said once: two that read the same are two.
ASSUME SaidAssumption ==
  /\ None \notin Diagnostics \cup Seq(Readings) \cup {ParseFailure}
  /\ \A d \in Diagnostics : d.id \notin Words \cup {Blank.id}
  /\ \A d, e \in Diagnostics : d.id = e.id => d = e
  /\ Works \subseteq [Units -> [says : Seq(Diagnostics), command : Seq(Words)]]
  /\ Reconfigs \subseteq {None} \cup [ok : BOOLEAN, says : Seq(Diagnostics), text : Seq(Words)]
  /\ \A w \in Works :
       /\ \A u \in Units : IsInjective(w[u].says)
       /\ \A u, v \in Units : u # v => ToSet(w[u].says) \cap ToSet(w[v].says) = {}
  /\ \A r \in Reconfigs \ {None} :
       /\ IsInjective(r.says)
       /\ \A w \in Works, u \in Units : ToSet(r.says) \cap ToSet(w[u].says) = {}

\* A line of CMake's, or a command line.  It does not begin with a bracket: a
\* document would be looked for there.  Words are not JSON, and there are some
\* between braces: no text is an array of objects by chance.
IsText(text) ==
  /\ ~Starts(Line(text), {"{", "["})
  /\ \A k \in DOMAIN text : text[k] = "{" => k < Len(text) /\ text[k + 1] = "words"

\* A CMake that fails says why.
ASSUME TextAssumption ==
  /\ \A r \in Reconfigs \ {None} :
       /\ ~r.ok => \E d \in ToSet(r.says) : d.severity = "error"
       /\ IsText(r.text)
  /\ \A w \in Works, u \in Units : IsText(w[u].command)

VARIABLES
  setup,    \* the setup of this build
  work,     \* of each unit: what the compiler says, and its command line
  reconfig, \* what CMake says: its diagnostics, their wording, whether it fails
  rerun,    \* CMake has still to be run again
  unit,     \* how far each unit is
  lines,    \* how many of its lines each unit has printed
  stdout, stderr,
  exit,     \* how the build ended
  errs, warns,  \* what FinishBuild is given, None before
  said      \* history: the diagnostics whose text is complete, in that order

inputs == <<setup, work, reconfig>>
diagnoseVars ==
  <<inputs, rerun, unit, lines, stdout, stderr, exit, errs, warns, said>>

DiagnoseInit ==
  /\ setup \in Setups
  /\ work \in Works
  /\ reconfig \in IF setup.tool = "plain make" THEN {None} ELSE Reconfigs
  /\ rerun = (reconfig # None)
  /\ unit = [u \in Units |-> "waiting"]
  /\ lines = [u \in Units |-> 0]
  /\ stdout = <<>> /\ stderr = <<>>
  /\ exit = "running"
  /\ errs = None /\ warns = None
  /\ said = <<>>

-----------------------------------------------------------------------------
(* Which format, which parser *)

\* diagnostic_format.cmake: the first format that both probes accept.
ProbedFormat(c) ==
  CASE c.family = "cl"                            -> "text"
    [] c.family # "cl" /\ "json" \in c.accepts    -> "json"
    [] c.family # "cl" /\ c.accepts = {"sarif"}   -> "sarif"
    [] c.family # "cl" /\ c.accepts = {}          -> "text"

\* MakeBuilder.diagnosticFlag
diagnosticFlag(s) == IF s.Toolchain = "clang" THEN "sarif" ELSE "json"

Format(s) ==
  IF ~s.InjectDiagnosticFlags THEN "text"
  ELSE IF s.tool # "plain make" THEN ProbedFormat(s.compiler)
  ELSE IF diagnosticFlag(s) \in s.compiler.accepts THEN diagnosticFlag(s)
  ELSE "refused"

classifyCompiler_Unversioned(c) == IF c.name = "cl" THEN "msvc" ELSE c.name
classifyCompiler(c) ==
  CASE c.name = "clang" -> "clang"
    [] c.name = "gcc"   -> IF c.legacy THEN "gcc-legacy" ELSE "gcc"
    [] c.name = "cl"    -> "msvc"
    [] c.name = ""      -> ""

\* Only CMake leaves a compile_commands.json.
detectFromCompileCommands(s) ==
  IF s.tool = "plain make" THEN "" ELSE classifyCompiler(s.compiler)

DetectToolchain(s) ==
  IF detectFromCompileCommands(s) # "" THEN detectFromCompileCommands(s)
  ELSE IF s.system # "" THEN s.system
  ELSE "unknown"

resolveToolchain(s) == IF s.Toolchain = "auto" THEN DetectToolchain(s) ELSE s.Toolchain

\* The names that the fields of a compiler's documents have.
Dialect(s) == IF Format(s) = "sarif" THEN "sarif" ELSE s.compiler.family

-----------------------------------------------------------------------------
(* The build: CMake, Ninja or Make, and compilers *)

\* With DiagnosticSerialBuild (-j1 -k) one unit at a time, to the last.
MayStart(u) ==
  /\ unit[u] = "waiting"
  /\ IF setup.DiagnosticSerialBuild
       THEN \A v \in Units : unit[v] # "running"
       ELSE \A v \in Units : unit[v] # "failed"

Progress == Noise(<<"[", "count", "]">>)

\* A unit's output, and what of it line k completes.
Output(u) ==
  CASE Format(setup) \in {"json", "sarif"} -> DocumentLines(Format(setup), work[u].says)
    [] Format(setup) = "text"              -> [k \in DOMAIN work[u].says |-> PlainLine(work[u].says[k])]
    [] Format(setup) = "refused"           -> <<Line(<<"words">>)>>

Completes(u, k) ==
  CASE Format(setup) \in {"json", "sarif"} -> IF k = 2 THEN work[u].says ELSE <<>>
    [] Format(setup) = "text"              -> <<work[u].says[k]>>
    [] Format(setup) = "refused"           -> <<>>

CompletedBy(u, k) == FlattenSeq([j \in 1 .. k |-> Completes(u, j)])

Fails(u) ==
  \/ Format(setup) = "refused"
  \/ \E k \in DOMAIN work[u].says : work[u].says[k].severity = "error"

Ended(u) == IF Fails(u) THEN "failed" ELSE "done"

\* Ninja, or Make before it builds, finds CMakeLists.txt changed.  Under Ninja
\* the messages come on either stream: it collects what its commands print, or
\* leaves them the console.
Reconfigure ==
  /\ exit = "running" /\ rerun
  /\ LET messages == [k \in DOMAIN reconfig.says |-> CMakeLine(reconfig.text, reconfig.says[k])]
         status   == <<Noise(<<"[", "status", "]">>)>>
     IN  \/ /\ setup.tool = "ninja"
            /\ stdout' = stdout \o status \o messages /\ stderr' = stderr
         \/ /\ setup.tool = "ninja"
            /\ stdout' = stdout \o status /\ stderr' = stderr \o messages
         \/ /\ setup.tool # "ninja"
            /\ stdout' = stdout /\ stderr' = stderr \o messages
  /\ rerun' = FALSE
  /\ exit' = IF reconfig.ok THEN "running" ELSE "failed"
  /\ UNCHANGED <<inputs, unit, lines, errs, warns, said>>

\* Make says what it starts: CMake's with its progress, others with the command.
Start(u) ==
  /\ exit = "running" /\ ~rerun
  /\ MayStart(u)
  /\ unit' = [unit EXCEPT ![u] = "running"]
  /\ stdout' = CASE setup.tool = "ninja"      -> stdout
                 [] setup.tool = "make"       -> Append(stdout, Progress)
                 [] setup.tool = "plain make" -> Append(stdout, Line(work[u].command))
  /\ UNCHANGED <<inputs, rerun, lines, stderr, exit, errs, warns, said>>

\* Under Make a compiler writes to the stream itself, line by line.
Write(u) ==
  /\ exit = "running" /\ unit[u] = "running"
  /\ setup.tool # "ninja"
  /\ lines[u] < Len(Output(u))
  /\ lines' = [lines EXCEPT ![u] = @ + 1]
  /\ LET l == Output(u)[lines'[u]]
     IN  IF setup.compiler.stream = "stdout"
           THEN stdout' = Append(stdout, l) /\ stderr' = stderr
           ELSE stdout' = stdout /\ stderr' = Append(stderr, l)
  /\ said' = said \o Completes(u, lines'[u])
  /\ UNCHANGED <<inputs, rerun, unit, exit, errs, warns>>

MakeEnds(u) ==
  /\ exit = "running" /\ unit[u] = "running"
  /\ setup.tool # "ninja"
  /\ lines[u] = Len(Output(u))
  /\ unit' = [unit EXCEPT ![u] = Ended(u)]
  /\ stderr' = IF Fails(u) THEN Append(stderr, Noise(<<"[", "target", "]">>)) ELSE stderr
  /\ UNCHANGED <<inputs, rerun, lines, stdout, exit, errs, warns, said>>

\* Ninja collects the output of a unit and writes it when the unit has ended,
\* with the command line if it failed.
Heading(u) ==
  <<Progress>> \o IF Fails(u) THEN <<Noise(<<"[", "code", "]">>), Line(work[u].command)>>
                              ELSE <<>>

NinjaEnds(u) ==
  /\ exit = "running" /\ unit[u] = "running"
  /\ setup.tool = "ninja"
  /\ unit' = [unit EXCEPT ![u] = Ended(u)]
  /\ lines' = [lines EXCEPT ![u] = Len(Output(u))]
  /\ stdout' = stdout \o Heading(u) \o Output(u)
  /\ said' = said \o CompletedBy(u, Len(Output(u)))
  /\ UNCHANGED <<inputs, rerun, stderr, exit, errs, warns>>

Exit ==
  /\ exit = "running" /\ ~rerun
  /\ \A u \in Units : unit[u] # "running" /\ ~MayStart(u)
  /\ exit' = IF \E u \in Units : unit[u] = "failed" THEN "failed" ELSE "ok"
  /\ UNCHANGED <<inputs, rerun, unit, lines, stdout, stderr, errs, warns, said>>

\* The context ends: the output stops short, of Ninja's too.
Kill ==
  /\ exit = "running"
  /\ exit' = "killed"
  /\ \/ UNCHANGED <<lines, stdout, said>>
     \/ /\ setup.tool = "ninja"
        /\ \E u \in Units :
             /\ unit[u] = "running"
             /\ \E k \in 0 .. Len(Output(u)) :
                  /\ lines' = [lines EXCEPT ![u] = k]
                  /\ stdout' = stdout \o Heading(u) \o SubSeq(Output(u), 1, k)
                  /\ said' = said \o CompletedBy(u, k)
  /\ UNCHANGED <<inputs, rerun, unit, stderr, errs, warns>>

-----------------------------------------------------------------------------
(* handleBuild *)

OfSeverity_NotNotes(severity, ds) == Kept(ds, {k \in DOMAIN ds : ds[k].severity # "note"})
OfSeverity(severity, ds) == Kept(ds, {k \in DOMAIN ds : ds[k].severity = severity})

Documents == IF Format(setup) \in {"json", "sarif"} THEN {work[u].says : u \in Units} ELSE {}

\* With no error among the diagnostics of a build that failed, CMake's count.
Fallback_Stderr(ds) ==
  IF exit # "ok" /\ OfSeverity("error", ds) = <<>>
    THEN CMakeDiagnostics(stderr) ELSE <<>>
Fallback(ds) ==
  IF exit # "ok" /\ OfSeverity("error", ds) = <<>>
    THEN CMakeDiagnostics(stdout \o stderr) ELSE <<>>

Report ==
  /\ exit # "running" /\ errs = None
  /\ LET parsed == Parse(resolveToolchain(setup), stdout, stderr, Documents, Dialect(setup))
         diags  == parsed \o Fallback(parsed)
     IN  /\ errs' = OfSeverity("error", diags)
         /\ warns' = OfSeverity("warning", diags)
  /\ UNCHANGED <<inputs, rerun, unit, lines, stdout, stderr, exit, said>>

DiagnoseNext ==
  \/ Reconfigure \/ Exit \/ Kill \/ Report
  \/ \E u \in Units : Start(u) \/ Write(u) \/ MakeEnds(u) \/ NinjaEnds(u)

DiagnoseSpec == DiagnoseInit /\ [][DiagnoseNext]_diagnoseVars

-----------------------------------------------------------------------------
(* Correctness *)

Reported == errs # None

DiagnoseTypeOK ==
  /\ rerun \in BOOLEAN
  /\ unit \in [Units -> {"waiting", "running", "done", "failed"}]
  /\ \A u \in Units : lines[u] \in 0 .. Len(Output(u))
  /\ exit \in {"running", "ok", "failed", "killed"}
  /\ errs = None <=> warns = None
  /\ Reported => /\ \A k \in DOMAIN errs : errs[k].severity = "error"
                 /\ \A k \in DOMAIN warns : warns[k].severity = "warning"

\* The setups for which the README promises diagnostics (README.md:311-341),
\* less those that the disagreements listed in this project's README are about.
Kind(c) ==
  CASE c.family = "clang" -> "clang"
    [] c.family = "gcc"   -> IF c.legacy THEN "gcc-legacy" ELSE "gcc"
    [] c.family = "cl"    -> "msvc"

Recognised(s) ==
  CASE s.Toolchain # "auto"                           -> s.Toolchain = Kind(s.compiler)
    [] s.Toolchain = "auto" /\ s.tool = "plain make"  -> s.system = "gcc" /\ Kind(s.compiler) = "gcc"
    [] s.Toolchain = "auto" /\ s.tool # "plain make"  -> s.compiler.name = s.compiler.family

Readable(s) ==
  IF Kind(s.compiler) \in {"clang", "gcc"}
    THEN /\ s.InjectDiagnosticFlags
         /\ IF Kind(s.compiler) = "clang" /\ s.tool = "plain make"
              THEN "sarif" \in s.compiler.accepts
              ELSE IF Kind(s.compiler) = "clang" THEN s.compiler.accepts # {}
              ELSE "json" \in s.compiler.accepts
    ELSE /\ s.compiler.accepts = {} \/ ~s.InjectDiagnosticFlags
         /\ s.tool = "make"
         /\ s.compiler.stream = "stderr"

\* Compilers that write documents to one stream at the same time mix them up.
Intact(s) == s.tool # "ninja" /\ Kind(s.compiler) \in {"clang", "gcc"} => s.DiagnosticSerialBuild

Promised == Recognised(setup) /\ Readable(setup) /\ Intact(setup)

Quiet(text) == \A k \in DOMAIN text : text[k] \notin {Quote, "[", "]", "{", "}"}

QuietBuild ==
  /\ \A u \in Units : Quiet(work[u].command)
  /\ reconfig # None => Quiet(reconfig.text)

CMakeSaid == IF reconfig = None \/ rerun THEN <<>> ELSE reconfig.says

\* Every diagnostic whose text the compilers completed is reported, in that
\* order and no other, also when the build was killed in the middle of the
\* next: toolchain detection, format probing, the choice of the stream, noise
\* stripping and splitting fit together.  CMake's own count where there is no
\* error (main.go:493-523).
NoneLost ==
  LET expected == said \o IF exit # "ok" /\ OfSeverity("error", said) = <<>>
                            THEN CMakeSaid ELSE <<>>
  IN  Reported /\ Promised /\ QuietBuild =>
        /\ errs = OfSeverity("error", expected)
        /\ warns = OfSeverity("warning", expected)

\* A build that a failing CMake ended reports CMake's errors, whatever the
\* compiler and the parser, and whatever the messages say inside their lines
\* ("This catches CMake re-configure failures", main.go:511).
ReconfigureExplained ==
  Reported /\ exit = "failed" /\ (\A u \in Units : unit[u] = "waiting") =>
    /\ errs # <<>>
    /\ errs = OfSeverity("error", CMakeSaid)

\* A build that fails has an error to report, that of a unit that failed or of
\* CMake, where no quote or bracket is outside of documents and the compiler does
\* not refuse the flag.  Without QuietBuild that is FailureExplained.
QuietFailureExplained ==
  Reported /\ Promised /\ QuietBuild /\ Format(setup) # "refused" =>
    (exit = "failed" => errs # <<>>)

\* What CMake said and what the compilers of the units that were started say.
Sources ==
  ToSet(CMakeSaid) \cup UNION {ToSet(work[u].says) : u \in {v \in Units : unit[v] # "waiting"}}

\* The parser is one for the documents that the compilers print.
Understood ==
  Format(setup) \in {"json", "sarif"} /\ resolveToolchain(setup) \in {"clang", "gcc"} =>
    \/ resolveToolchain(setup) = Dialect(setup)
    \/ resolveToolchain(setup) = "clang" /\ Dialect(setup) = "sarif"

\* What may be reported: what was said, and what the parser of another family
\* makes of that, which is an error with no place in a file.
Accounted ==
  CASE Understood                                  -> Sources
    [] ~Understood /\ Dialect(setup) = "sarif"     -> Sources \cup {Blank}
    [] ~Understood /\ Dialect(setup) # "sarif"     -> Sources \cup {Misread(d) : d \in Sources}

\* No diagnostic is made up out of pieces of the output or given twice, in any
\* setup, however documents are mixed up, cut and surrounded: what is reported
\* was said, or is the one that owns to a failure.  None changes its severity
\* or loses its place, unless the parser is one for other documents than the
\* compilers print (gcc.go:154, clang.go:244).
NothingInvented ==
  LET all == errs \o warns
  IN  Reported /\ errs # ParseFailure =>
        /\ ToSet(all) \subseteq Accounted
        /\ \A j, k \in DOMAIN all : all[j].id = all[k].id /\ all[j] # Blank => j = k

\* A build that failed because a unit did reports an error, also when Ninja
\* prints the unit's command line ("Ninja build output may contain non-JSON
\* text (FAILED: lines, compiler invocation lines) surrounding the actual JSON
\* diagnostic output.", clang.go:91-92).
FailureExplained ==
  Reported /\ Promised /\ exit = "failed" => errs # <<>>
=============================================================================
