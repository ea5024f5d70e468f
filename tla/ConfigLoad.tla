----------------------------- MODULE ConfigLoad -----------------------------
(***************************************************************************)
(* LoadMulti of config/config.go and loadPresetsMetadata of presets.go:    *)
(* from .cpp-build-mcp.json, CMakePresets.json, CMakeUserPresets.json and  *)
(* the environment to named configurations and the default among them.     *)
(* What it returns is what ConfigServer puts into its registry.            *)
(***************************************************************************)
EXTENDS PresetInherits, FiniteSets, Lists

CONSTANTS
  Cases,    \* what the files and the environment say when LoadMulti is called
  Rank,     \* the alphabetical order of names
  Mentions, \* the compiler a toolchain file or a preset name mentions, or "auto"
  Absent,   \* the file does not exist
  Broken    \* the file, or an entry of it, is not JSON of the right types

\* The fields of Config.
Fields == {"BuildDir", "SourceDir", "Toolchain", "Generator", "Preset", "CMakeArgs",
           "BuildTimeout", "InjectDiagnosticFlags", "DiagnosticSerialBuild"}

defaults ==
  [BuildDir |-> <<"build">>, SourceDir |-> <<".">>, Toolchain |-> "auto",
   Generator |-> "ninja", Preset |-> "", CMakeArgs |-> <<>>, BuildTimeout |-> "5m",
   InjectDiagnosticFlags |-> TRUE, DiagnosticSerialBuild |-> FALSE]

EnvFields == {"BuildDir", "SourceDir", "Toolchain", "Generator", "BuildTimeout"}

\* Settings give values to some of the fields.
IsSettings(s) == DOMAIN s \subseteq Fields
NoSettings    == [f \in {} |-> ""]

Bad(s) == "BuildTimeout" \in DOMAIN s /\ s["BuildTimeout"] = "invalid"

DistinctNames(list) ==
  \A i, j \in DOMAIN list : list[i].Name = list[j].Name => i = j

\* The three files and the CPP_BUILD_MCP_ variables that are set and not empty.
\* CMake refuses a file in which two presets have the same name.
IsFile(f) ==
  /\ IsSettings(f.top)
  /\ f.default_config \in STRING
  /\ f.configs # Absent =>
       \A n \in DOMAIN f.configs :
         /\ f.configs[n] = Broken \/ IsSettings(f.configs[n])
         /\ n \in DOMAIN Rank

IsPresetsFile(list) ==
  /\ list \in Seq(Preset) /\ DistinctNames(list)
  /\ \A k \in DOMAIN list : list[k].Name \in DOMAIN Rank

ASSUME RankAssumption == \A n \in DOMAIN Rank : Rank[n] \in Nat

ASSUME LoadAssumption ==
  \A c \in Cases :
    /\ c.file \in {Absent, Broken} \/ IsFile(c.file)
    /\ c.project \in {Absent, Broken} \/ IsPresetsFile(c.project)
    /\ c.user \in {Absent, Broken} \/ IsPresetsFile(c.user)
    /\ DOMAIN c.env \subseteq EnvFields

VARIABLES
  file, project, user, env,  \* what LoadMulti finds
  step,                      \* where it is
  result                     \* what it returns

loadVars == <<file, project, user, env, step, result, walk>>

\* The call has not returned, or has returned an error.
Pending == [configs |-> NoSettings, dflt |-> "pending"]
Failed  == [configs |-> NoSettings, dflt |-> "error"]

LoadInit ==
  /\ \E c \in Cases :
       file = c.file /\ project = c.project /\ user = c.user /\ env = c.env
  /\ step = "read"
  /\ result = Pending
  /\ Walk(<<>>)

Inputs == <<file, project, user, env>>

-----------------------------------------------------------------------------
(* applyJSON and applyEnv *)

Overlay_Only(config, s) == s
Overlay(config, s) == [f \in Fields |-> IF f \in DOMAIN s THEN s[f] ELSE config[f]]

\* An unparsable timeout is skipped; in a file it is an error.
applyEnv(config) ==
  Overlay(config, [f \in {g \in DOMAIN env : g = "BuildTimeout" => ~Bad(env)} |-> env[f]])

FileTop == IF file = Absent THEN NoSettings ELSE file.top

Wanted == IF file = Absent THEN "" ELSE file.default_config

First(names) == CHOOSE n \in names : \A m \in names : Rank[n] <= Rank[m]

\* configs, with the default that the file asks for, or the first of them.
Choose(configs) ==
  IF Wanted = "" THEN [configs |-> configs, dflt |-> First(DOMAIN configs)]
  ELSE IF Wanted \in DOMAIN configs THEN [configs |-> configs, dflt |-> Wanted]
  ELSE Failed

\* No two configurations have the same build_dir.
Unique(configs) ==
  \A m, n \in DOMAIN configs : configs[m].BuildDir = configs[n].BuildDir => m = n

Return(r) ==
  /\ step' = "done"
  /\ result' = r
  /\ UNCHANGED Inputs

-----------------------------------------------------------------------------
(* A config file with a configs map, or without any presets to go by *)

MultiMode == file \notin {Absent, Broken} /\ file.configs # Absent

Entry(n) == Overlay(Overlay(defaults, file.top), file.configs[n])

LoadMultiMode ==
  LET configs == [n \in DOMAIN file.configs |-> Entry(n)]
  IN  IF \/ Bad(file.top)
         \/ DOMAIN file.configs = {}
         \/ \E n \in DOMAIN file.configs : file.configs[n] = Broken \/ Bad(file.configs[n])
         \/ ~Unique(configs)
        THEN Failed ELSE Choose(configs)

LoadSingleMode ==
  IF Bad(FileTop) THEN Failed
  ELSE [configs |-> [default |-> applyEnv(Overlay(defaults, FileTop))], dflt |-> "default"]

\* The files that end the load at once: a broken one, or a configs map.
ReadConfigFile ==
  /\ step = "read"
  /\ \/ file = Broken /\ Return(Failed)
     \/ MultiMode /\ Return(LoadMultiMode)
  /\ UNCHANGED walk

\* readPresetsFile and readUserPresets: without CMakePresets.json there are no
\* presets, whatever CMakeUserPresets.json says.
NoPresets ==
  /\ step = "read"
  /\ file # Broken /\ ~MultiMode
  /\ \/ project = Absent /\ Return(LoadSingleMode)
     \/ project = Broken /\ Return(Failed)
     \/ project \notin {Absent, Broken} /\ user = Broken /\ Return(Failed)
  /\ UNCHANGED walk

-----------------------------------------------------------------------------
(* Presets *)

NamesOf(list) == {list[k].Name : k \in DOMAIN list}

\* A user preset takes the place of the project's preset of its name.
mergePresets(p, u) ==
  [k \in DOMAIN p |->
     IF p[k].Name \in NamesOf(u)
       THEN u[CHOOSE j \in DOMAIN u : u[j].Name = p[k].Name] ELSE p[k]]
  \o Kept(u, {k \in DOMAIN u : u[k].Name \notin NamesOf(p)})

ReadPresets ==
  /\ step = "read"
  /\ file # Broken /\ ~MultiMode
  /\ project \notin {Absent, Broken} /\ user # Broken
  /\ step' = "resolve"
  /\ given' = mergePresets(project, IF user = Absent THEN <<>> ELSE user)
  /\ presets' = given'
  /\ UNCHANGED <<Inputs, result, resolved, stack, cursor, outcome>>

Resolve ==
  /\ step = "resolve"
  /\ WalkStep
  /\ UNCHANGED <<Inputs, step, result>>

ResolveFails ==
  /\ step = "resolve"
  /\ outcome \in {"circular", "malformed"}
  /\ Return(Failed)
  /\ UNCHANGED walk

\* expandBinaryDir, called with "." for the source directory: a relative path
\* is cleaned by filepath.Join, one with a macro that is left over is refused.
Macros == {"$env{HOME}", "${hostSystemName}"}

Substituted(p) ==
  [k \in DOMAIN p.BinaryDir |->
     CASE p.BinaryDir[k] = "${presetName}" -> p.Name
       [] p.BinaryDir[k] = "${sourceDir}"  -> "."
       [] OTHER                            -> p.BinaryDir[k]]

\* A relative directory and one more segment: ".." takes the name before it away.
Joined(dir, segment) ==
  CASE segment = "."                                        -> dir
    [] segment = ".." /\ dir # <<>> /\ dir[Len(dir)] # ".." -> SubSeq(dir, 1, Len(dir) - 1)
    [] OTHER                                                -> Append(dir, segment)

Clean(path) ==
  LET clean[i \in 0 .. Len(path)] ==
        IF i = 0 THEN <<>> ELSE Joined(clean[i - 1], path[i])
  IN  clean[Len(path)]

expandBinaryDir_Raw(p) == Substituted(p)
expandBinaryDir(p) ==
  IF Head(p.BinaryDir) = "/" THEN Substituted(p) ELSE Clean(Substituted(p))

isMultiConfigGenerator(g) == g \in {"Ninja Multi-Config", "Visual Studio 17 2022"}
normalizeGenerator(g)     == IF g = "Unix Makefiles" THEN "make" ELSE "ninja"

\* The compiler that the toolchain file mentions, or else the preset's name.
classifyPresetToolchain(p) ==
  IF p.ToolchainFile # "" /\ Mentions[p.ToolchainFile] # "auto"
    THEN Mentions[p.ToolchainFile] ELSE Mentions[p.Name]

Usable(p) ==
  /\ ~p.Hidden
  /\ ~isMultiConfigGenerator(p.Generator)
  /\ p.BinaryDir # <<>>
  /\ \A k \in DOMAIN p.BinaryDir : p.BinaryDir[k] \notin Macros

UsablePresets == {presets[i] : i \in {j \in Indices : Usable(presets[j])}}

FromPreset(p) ==
  [BuildDir  |-> expandBinaryDir(p),
   Generator |-> normalizeGenerator(p.Generator),
   Preset    |-> p.Name,
   Toolchain |-> classifyPresetToolchain(p)]

Pinned == {"BuildDir", "Generator", "Preset"}

\* The fields of the config file are laid over those of the preset, and then
\* BuildDir, Generator and Preset are restored.
PresetConfig_NotRestored(p) == Overlay(Overlay(defaults, FromPreset(p)), FileTop)
PresetConfig(p) ==
  Overlay(Overlay(Overlay(defaults, FromPreset(p)), FileTop),
          [f \in Pinned |-> FromPreset(p)[f]])

\* The environment counts for a single preset only.
WithEnv_Always(config) == applyEnv(config)
WithEnv(config) ==
  IF Cardinality(UsablePresets) = 1 THEN applyEnv(config) ELSE config

PresetOf(n) == CHOOSE p \in UsablePresets : p.Name = n

LoadPresetMode ==
  LET config  == [p \in UsablePresets |-> PresetConfig(p)]
      configs == [n \in {p.Name : p \in UsablePresets} |-> config[PresetOf(n)]]
  IN  IF Bad(FileTop) \/ ~Unique(configs)
        THEN Failed
        ELSE Choose([n \in DOMAIN configs |-> WithEnv(configs[n])])

UsePresets ==
  /\ step = "resolve"
  /\ outcome = "complete"
  /\ Return(IF UsablePresets = {} THEN LoadSingleMode ELSE LoadPresetMode)
  /\ UNCHANGED walk

-----------------------------------------------------------------------------

LoadNext ==
  \/ ReadConfigFile \/ NoPresets \/ ReadPresets \/ Resolve \/ ResolveFails \/ UsePresets

\* The load is one call that runs on.
LoadSpec == LoadInit /\ [][LoadNext]_loadVars /\ WF_loadVars(LoadNext)

-----------------------------------------------------------------------------
(* Correctness *)

Loaded == step = "done" /\ result # Failed
Configs == result.configs

LoadTypeOK ==
  /\ WalkTypeOK
  /\ step \in {"read", "resolve", "done"}
  /\ \A n \in DOMAIN Configs : DOMAIN Configs[n] = Fields

\* What ConfigServer assumes of a load (its ServerAssumption): there is a
\* configuration, the default is one of them, and no two have the same
\* build_dir ("Each configuration must have a unique build_dir",
\* README.md:258), whatever the files, the inheritance and the environment do.
LoadGuarantee ==
  Loaded => /\ result.dflt \in DOMAIN Configs
            /\ Unique(Configs)

\* The value of a field is that of the first of the sources that sets it.
FirstOf(f, sources) ==
  LET k == CHOOSE j \in DOMAIN sources :
             f \in DOMAIN sources[j] /\ \A i \in 1 .. j - 1 : f \notin DOMAIN sources[i]
  IN  sources[k][f]

Environment == [f \in {g \in DOMAIN env : ~(g = "BuildTimeout" /\ Bad(env))} |-> env[f]]

PresetMode == ~MultiMode /\ UsablePresets # {}

Sources(n, f) ==
  IF MultiMode THEN <<file.configs[n], file.top, defaults>>
  ELSE IF ~PresetMode THEN <<Environment, FileTop, defaults>>
  ELSE LET over  == IF Cardinality(UsablePresets) = 1 THEN Environment ELSE NoSettings
           under == FromPreset(PresetOf(n))
       IN  IF f \in Pinned THEN <<over, under>> ELSE <<over, FileTop, under, defaults>>

\* Where each field of each configuration comes from: an entry of configs
\* before the top of the file before the defaults; of presets, directory,
\* generator and name from the preset although the file is laid over it, the
\* rest from the file first; the environment first of all, but only where
\* there is one configuration that is not an entry of configs (config.go
\* 110-131, README.md:219, 258-260, 309).
Precedence ==
  Loaded => \A n \in DOMAIN Configs, f \in Fields :
              Configs[n][f] = FirstOf(f, Sources(n, f))

\* Configurations of presets are in different directories, not only under
\* different names, as long as the presets' directories are relative.
RelativeDirsApart ==
  Loaded /\ PresetMode /\ (\A p \in UsablePresets : Head(p.BinaryDir) # "/") =>
    \A m, n \in DOMAIN Configs :
      Clean(Configs[m].BuildDir) = Clean(Configs[n].BuildDir) => m = n

\* A load ends: the walk over the presets never goes round in circles.
LoadEnds == <>(step = "done")
=============================================================================
