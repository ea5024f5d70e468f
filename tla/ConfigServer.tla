---------------------------- MODULE ConfigServer ----------------------------
(***************************************************************************)
(* The registry of registry.go around the sessions of BuildSession: names  *)
(* are resolved to instances when a call arrives, load_presets replaces    *)
(* the registry from disk while calls on its old instances go on, and      *)
(* list_configs and the health resource read it in several lock sections.  *)
(*                                                                         *)
(* Insts is the pool that instances are made from: each has a fixed        *)
(* configuration ConfigOf[i] (its originalCfg) and is made at most once.   *)
(* The size of the pool bounds how often load_presets can make instances.  *)
(***************************************************************************)
EXTENDS BuildSession, FiniteSets

CONSTANTS
  Loaders,    \* the workers that serve load_presets, list_configs and health
  Configs,    \* configurations, as LoadMulti returns them
  Unsupported, \* those whose generator NewBuilder rejects
  ConfigOf,   \* the configuration of each instance of the pool
  DirIn,      \* the build_dir of each configuration
  Contents    \* what the configuration files may say

Names == UNION {DOMAIN c.configs : c \in Contents}

\* LoadMulti checks that build_dir is unique and default_config is defined.
ASSUME ServerAssumption ==
  /\ ConfigOf \in [Insts -> Configs]
  /\ DirIn \in [Configs -> Dirs]
  /\ DirOf = [i \in Insts |-> DirIn[ConfigOf[i]]]
  /\ Unsupported \subseteq Configs
  /\ \A c \in Contents :
       /\ c.configs \in [DOMAIN c.configs -> Configs]
       /\ c.dflt \in DOMAIN c.configs
       /\ \A m, n \in DOMAIN c.configs :
            DirIn[c.configs[m]] = DirIn[c.configs[n]] => m = n
  /\ None \notin Contents

VARIABLES
  registry,  \* instances, by name
  dflt,      \* the name used when a call gives none
  made,      \* the instances of the pool made so far
  lpc,       \* where each loader is
  snap       \* what the LoadMulti of each loader returned

serverVars == <<registry, dflt, made, lpc, snap>>
allVars    == <<vars, serverVars>>

ServerTypeOK ==
  /\ DOMAIN registry \subseteq Names
  /\ registry \in [DOMAIN registry -> made]
  /\ dflt \in Names
  /\ made \subseteq Insts
  /\ lpc \in [Loaders -> {"idle", "loaded", "answer", "one", "many"}]
  /\ snap \in [Loaders -> Contents \cup {None}]

Registered == {registry[n] : n \in DOMAIN registry}

\* f makes one instance for each of the given configurations.
Makes(f, configs) ==
  /\ \A m, n \in DOMAIN configs : f[m] = f[n] => m = n
  /\ \A n \in DOMAIN configs : ConfigOf[f[n]] = configs[n]

\* main() resolves no toolchain; reload does for every instance it makes, so
\* those it will make start with the flags of a legacy GCC switched off.
ServerInit ==
  /\ Init
  /\ \E c \in Contents :
       /\ \A n \in DOMAIN c.configs : c.configs[n] \notin Unsupported
       /\ registry \in {f \in [DOMAIN c.configs -> Insts] : Makes(f, c.configs)}
       /\ dflt = c.dflt
  /\ made = Registered
  /\ \A i \in LegacyGCC \ made : ~builder[i].inject
  /\ lpc = [w \in Loaders |-> "idle"]
  /\ snap = [w \in Loaders |-> None]

-----------------------------------------------------------------------------
(* resolveConfig, at the head of every handler: the name given, or dflt.   *)
(* An unknown name is an error and changes nothing.                        *)

Default == "default"   \* the call names no configuration

Serve(h) ==
  /\ \E name \in Names \cup {Default} :
       LET n == IF name = Default THEN dflt ELSE name
       IN  n \in DOMAIN registry /\ Call(h, registry[n])
  /\ UNCHANGED serverVars

SessionStep(h) == HandlerStep(h) /\ UNCHANGED serverVars

-----------------------------------------------------------------------------
(* handleLoadPresets: LoadMulti, then reload under the write lock, then     *)
(* list() under a lock of its own for the answer.  The files may say         *)
(* anything each time they are read; when LoadMulti rejects them the call   *)
(* ends and nothing has changed.                                            *)

LGoto(w, from, to) == lpc[w] = from /\ lpc' = [lpc EXCEPT ![w] = to]

LoadPresets(w) ==
  /\ LGoto(w, "idle", "loaded")
  /\ \E c \in Contents : snap' = [snap EXCEPT ![w] = c]
  /\ UNCHANGED <<vars, registry, dflt, made>>

\* reflect.DeepEqual(existing.originalCfg, *cfg).  The mutant compares with
\* the cfg that resolveToolchain has changed since.
Unchanged_Resolved(n, config) ==
  /\ n \in DOMAIN registry
  /\ ConfigOf[registry[n]] = config
  /\ registry[n] \in LegacyGCC => builder[registry[n]].inject
Unchanged_ByName(n, config) == n \in DOMAIN registry
Unchanged(n, config) == n \in DOMAIN registry /\ ConfigOf[registry[n]] = config

Remade(configs) == {n \in DOMAIN configs : ~Unchanged(n, configs[n])}

NewDefault_Kept(content) == dflt
NewDefault_Unnamed(content) ==
  IF dflt \in DOMAIN content.configs THEN dflt ELSE Default
NewDefault(content) ==
  IF dflt \in DOMAIN content.configs THEN dflt ELSE content.dflt

Reload_Ok(w) ==
  LET new    == snap[w].configs
      remade == Remade(new)
  IN  /\ LGoto(w, "loaded", "answer")
      /\ \A n \in remade : new[n] \notin Unsupported
      /\ \E f \in [remade -> Insts \ made] :
           /\ Makes(f, [n \in remade |-> new[n]])
           /\ registry' = [n \in DOMAIN new |-> IF n \in remade THEN f[n] ELSE registry[n]]
           /\ made' = made \cup {f[n] : n \in remade}
      /\ dflt' = NewDefault(snap[w])
      /\ UNCHANGED <<vars, snap>>

\* builderFactory fails for one of the configurations: reload returns early.
Reload_Failed(w) ==
  /\ LGoto(w, "loaded", "idle")
  /\ \E n \in Remade(snap[w].configs) : snap[w].configs[n] \in Unsupported
  /\ snap' = [snap EXCEPT ![w] = None]
  /\ UNCHANGED <<vars, registry, dflt, made>>

Answer(w) ==
  /\ LGoto(w, "answer", "idle")
  /\ snap' = [snap EXCEPT ![w] = None]
  /\ UNCHANGED <<vars, registry, dflt, made>>

(* handleBuildHealth: len() chooses the format, then defaultInstance() or  *)
(* all() takes the lock again.                                             *)

HealthCount(w) ==
  /\ LGoto(w, "idle", IF Cardinality(DOMAIN registry) = 1 THEN "one" ELSE "many")
  /\ UNCHANGED <<vars, registry, dflt, made, snap>>

HealthAnswer(w) ==
  /\ lpc[w] \in {"one", "many"}
  /\ lpc' = [lpc EXCEPT ![w] = "idle"]
  /\ UNCHANGED <<vars, registry, dflt, made, snap>>

LoaderStep(w) == \/ LoadPresets(w) \/ Reload_Ok(w) \/ Reload_Failed(w)
                 \/ Answer(w) \/ HealthCount(w) \/ HealthAnswer(w)

ServerNext == \/ \E h \in Handlers : Serve(h) \/ SessionStep(h)
              \/ \E w \in Loaders : LoaderStep(w)

ServerSpec == ServerInit /\ [][ServerNext]_allVars

-----------------------------------------------------------------------------
(* Correctness *)

\* The registry is what one version of the files says, however many loads
\* with different and outdated versions overlap (registry.go reload), so the
\* directories of registered instances differ.
OneSnapshot ==
  \E c \in Contents : /\ DOMAIN registry = DOMAIN c.configs
                      /\ \A n \in DOMAIN registry : ConfigOf[registry[n]] = c.configs[n]

\* defaultInstance() never panics (registry.go:70-71: a missing default
\* "indicates a programming error"), whichever load came last and whatever
\* default its files gave.
DefaultRegistered == dflt \in DOMAIN registry

\* Unchanged configurations preserve their build state (main.go:159): a name
\* that keeps its configuration keeps its instance, although resolveToolchain
\* has changed the configuration of that instance in memory since.
StatePreserved ==
  [][\A n \in DOMAIN registry \cap DOMAIN registry' :
       ConfigOf[registry[n]] = ConfigOf[registry'[n]] => registry[n] = registry'[n]]_allVars

\* Two builds are at work in one directory only when one of them belongs to
\* an instance that load_presets has replaced: the guard of the store and the
\* uniqueness of build_dir together isolate the registered configurations
\* ("fully isolated from each other", README.md:229).
RegisteredBuildsIsolated ==
  \A g, h \in Handlers :
    /\ pc[g] \in Building /\ pc[h] \in Building
    /\ {I(g), I(h)} \subseteq Registered
    /\ D(g) = D(h)
    => g = h

-----------------------------------------------------------------------------
(* What the repository says of itself and the code does not keep.          *)

\* Each configuration has "its own build directory" and they are "fully
\* isolated" (README.md:229): no two builds are at work in one directory.
OneBuildPerDir ==
  \A g, h \in Handlers :
    pc[g] \in Building /\ pc[h] \in Building /\ D(g) = D(h) => g = h

\* The health text of one configuration is given only when there is one:
\* calling len() and then defaultInstance() is safe "because the registry is
\* append-only after startup" (main.go:603-604).
HealthCoversAll ==
  \A w \in Loaders : lpc[w] = "one" => Cardinality(DOMAIN registry) = 1
=============================================================================
