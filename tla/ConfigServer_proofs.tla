------------------------ MODULE ConfigServer_proofs ------------------------
(***************************************************************************)
(* Proofs about ConfigServer.  Its steps are steps of BuildSession, so     *)
(* what is proved of a session holds while the registry is reloaded.       *)
(***************************************************************************)
EXTENDS ConfigServer, BuildSession_proofs

\* A loader about to reload holds what LoadMulti returned.
ServerTyped ==
  /\ ServerTypeOK
  /\ \A w \in Loaders : lpc[w] = "loaded" => snap[w] \in Contents

\* What a reload does to the registry, from the assumption on LoadMulti.
LEMMA ReloadEffect ==
  ASSUME ServerTyped, NEW w \in Loaders, Reload_Ok(w)
  PROVE  /\ snap[w] \in Contents
         /\ DOMAIN registry' = DOMAIN snap[w].configs
         /\ registry' \in [DOMAIN registry' -> made']
         /\ \A n \in DOMAIN registry' : ConfigOf[registry'[n]] = snap[w].configs[n]
         /\ \A n \in DOMAIN registry \cap DOMAIN registry' :
              ConfigOf[registry[n]] = ConfigOf[registry'[n]] => registry[n] = registry'[n]
         /\ dflt' \in DOMAIN registry'
         /\ made \subseteq made' /\ made' \subseteq Insts
         /\ lpc' \in [Loaders -> {"idle", "loaded", "answer", "one", "many"}]
         /\ \A v \in Loaders : lpc'[v] = "loaded" => lpc[v] = "loaded"
         /\ UNCHANGED <<vars, snap>>
<1> DEFINE new    == snap[w].configs
           remade == Remade(new)
<1>1. /\ lpc[w] = "loaded" /\ lpc' = [lpc EXCEPT ![w] = "answer"]
      /\ UNCHANGED <<vars, snap>> /\ dflt' = NewDefault(snap[w])
  BY DEF Reload_Ok, LGoto
<1>2. PICK f \in [remade -> Insts \ made] :
        /\ Makes(f, [n \in remade |-> new[n]])
        /\ registry' = [n \in DOMAIN new |-> IF n \in remade THEN f[n] ELSE registry[n]]
        /\ made' = made \cup {f[n] : n \in remade}
  BY DEF Reload_Ok
<1>3. snap[w] \in Contents
  BY <1>1 DEF ServerTyped
<1>4. made \subseteq made' /\ made' \subseteq Insts
  BY <1>2 DEF ServerTyped, ServerTypeOK
<1>5. DOMAIN registry' = DOMAIN new
  BY <1>2
<1>6. \A n \in remade : f[n] \in made' /\ ConfigOf[f[n]] = new[n]
  BY <1>2 DEF Makes
<1>7. \A n \in DOMAIN new \ remade :
        /\ n \in DOMAIN registry /\ registry[n] \in made
        /\ ConfigOf[registry[n]] = new[n]
  BY DEF Remade, Unchanged, ServerTyped, ServerTypeOK
<1>8. \A n \in DOMAIN new : registry'[n] \in made' /\ ConfigOf[registry'[n]] = new[n]
  BY <1>2, <1>4, <1>6, <1>7
<1>9. registry' \in [DOMAIN registry' -> made']
  BY <1>2, <1>5, <1>8
<1>10. \A n \in DOMAIN registry \cap DOMAIN registry' :
         ConfigOf[registry[n]] = ConfigOf[registry'[n]] => registry[n] = registry'[n]
  BY <1>2, <1>5, <1>8 DEF Remade, Unchanged
<1>11. dflt' \in DOMAIN registry'
  BY <1>1, <1>3, <1>5, ServerAssumption DEF NewDefault
<1>12. /\ lpc' \in [Loaders -> {"idle", "loaded", "answer", "one", "many"}]
       /\ \A v \in Loaders : lpc'[v] = "loaded" => lpc[v] = "loaded"
  BY <1>1 DEF ServerTyped, ServerTypeOK
<1>13. QED
  BY <1>1, <1>3, <1>4, <1>5, <1>8, <1>9, <1>10, <1>11, <1>12

\* The other steps of the registry's workers change no registry.
LEMMA OtherLoaderSteps ==
  ASSUME ServerTyped, NEW w \in Loaders, LoaderStep(w), ~Reload_Ok(w)
  PROVE  /\ UNCHANGED <<vars, registry, dflt, made>>
         /\ lpc' \in [Loaders -> {"idle", "loaded", "answer", "one", "many"}]
         /\ snap' \in [Loaders -> Contents \cup {None}]
         /\ \A v \in Loaders : lpc'[v] = "loaded" => snap'[v] \in Contents
<1> USE DEF ServerTyped, ServerTypeOK, LGoto
<1>1. CASE LoadPresets(w)
  BY <1>1 DEF LoadPresets
<1>2. CASE Reload_Failed(w) \/ Answer(w)
  BY <1>2 DEF Reload_Failed, Answer
<1>3. CASE HealthCount(w) \/ HealthAnswer(w)
  BY <1>3 DEF HealthCount, HealthAnswer
<1>4. QED
  BY <1>1, <1>2, <1>3 DEF LoaderStep

LEMMA ServerInitTyped == ServerInit => ServerTyped /\ OneSnapshot /\ DefaultRegistered
<1> SUFFICES ASSUME ServerInit PROVE ServerTyped /\ OneSnapshot /\ DefaultRegistered
  OBVIOUS
<1>1. PICK c \in Contents :
        /\ registry \in [DOMAIN c.configs -> Insts]
        /\ Makes(registry, c.configs)
        /\ dflt = c.dflt
  BY DEF ServerInit
<1>2. made = Registered /\ registry \in [DOMAIN registry -> made] /\ made \subseteq Insts
  BY <1>1 DEF ServerInit, Registered
<1>3. DOMAIN registry = DOMAIN c.configs /\ dflt \in DOMAIN registry
  BY <1>1, ServerAssumption
<1>4. DOMAIN registry \subseteq Names
  BY <1>3 DEF Names
<1>5. OneSnapshot
  BY <1>1, <1>3 DEF OneSnapshot, Makes
<1>6. QED
  BY <1>2, <1>3, <1>4, <1>5 DEF ServerInit, ServerTyped, ServerTypeOK, DefaultRegistered

ServerInv == ServerTyped /\ OneSnapshot /\ DefaultRegistered

LEMMA ServerStep == ServerInv /\ [ServerNext]_allVars => ServerInv'
<1> SUFFICES ASSUME ServerInv, [ServerNext]_allVars PROVE ServerInv'
  OBVIOUS
<1> USE DEF ServerInv
<1>1. CASE UNCHANGED serverVars
  BY <1>1 DEF serverVars, ServerTyped, ServerTypeOK, OneSnapshot, DefaultRegistered
<1>2. ASSUME NEW w \in Loaders, Reload_Ok(w) PROVE ServerInv'
  <2>1. DOMAIN registry' \subseteq Names
    BY <1>2, ReloadEffect DEF Names
  <2>2. ServerTyped'
    BY <1>2, <2>1, ReloadEffect DEF ServerTyped, ServerTypeOK
  <2>3. OneSnapshot' /\ DefaultRegistered'
    BY <1>2, ReloadEffect DEF OneSnapshot, DefaultRegistered
  <2>4. QED
    BY <2>2, <2>3
<1>3. ASSUME NEW w \in Loaders, LoaderStep(w), ~Reload_Ok(w) PROVE ServerInv'
  BY <1>3, OtherLoaderSteps DEF ServerTyped, ServerTypeOK, OneSnapshot, DefaultRegistered
<1>4. QED
  BY <1>1, <1>2, <1>3 DEF ServerNext, Serve, SessionStep, allVars, serverVars

LEMMA ServerInvariant == ServerSpec => []ServerInv
<1>1. ServerInit => ServerInv
  BY ServerInitTyped DEF ServerInv
<1>2. QED
  BY <1>1, ServerStep, PTL DEF ServerSpec

\* The registry always holds what one version of the files says (reload).
THEOREM RegistryIsOneSnapshot == ServerSpec => []OneSnapshot
<1>1. ServerInv => OneSnapshot
  BY DEF ServerInv
<1>2. QED
  BY <1>1, ServerInvariant, PTL

\* The registry and its loaders keep their types: every name has one instance
\* that was made, and the default is a name.
THEOREM ServerTypeCorrect == ServerSpec => []ServerTypeOK
<1>1. ServerInv => ServerTypeOK
  BY DEF ServerInv, ServerTyped
<1>2. QED
  BY <1>1, ServerInvariant, PTL

\* defaultInstance() finds the default, so it does not panic (registry.go:78).
THEOREM NoDefaultPanic == ServerSpec => []DefaultRegistered
<1>1. ServerInv => DefaultRegistered
  BY DEF ServerInv
<1>2. QED
  BY <1>1, ServerInvariant, PTL

\* A load keeps the instance, and with it the build state, of every
\* configuration it does not change (main.go:159).
THEOREM ReloadKeepsState == ServerSpec => StatePreserved
<1> DEFINE A == \A n \in DOMAIN registry \cap DOMAIN registry' :
       ConfigOf[registry[n]] = ConfigOf[registry'[n]] => registry[n] = registry'[n]
<1>1. ServerInv /\ [ServerNext]_allVars => [A]_allVars
  <2> SUFFICES ASSUME ServerInv, ServerNext PROVE A
    OBVIOUS
  <2>1. CASE \E w \in Loaders : Reload_Ok(w)
    BY <2>1, ReloadEffect DEF ServerInv
  <2>2. CASE UNCHANGED registry
    BY <2>2
  <2>3. QED
    BY <2>1, <2>2, OtherLoaderSteps DEF ServerInv, ServerNext, Serve, SessionStep, serverVars
<1>2. QED
  BY <1>1, ServerInvariant, PTL DEF ServerSpec, StatePreserved

\* The server runs sessions: whatever the registry does, the stores, builders,
\* directories and calls behave as BuildSession says (resolveConfig hands each
\* call an instance, and reload touches none).
THEOREM ServerRunsSessions == ServerSpec => Spec
<1>1. ServerInit => Init
  BY DEF ServerInit
<1>2. ServerInv /\ [ServerNext]_allVars => [Next]_vars
  <2> SUFFICES ASSUME ServerInv, ServerNext PROVE [Next]_vars
    BY DEF allVars
  <2>1. ASSUME NEW h \in Handlers, Serve(h) PROVE Next
    <3>1. PICK n \in DOMAIN registry : Call(h, registry[n])
      BY <2>1 DEF Serve
    <3>2. registry[n] \in Insts
      BY DEF ServerInv, ServerTyped, ServerTypeOK
    <3>3. QED
      BY <3>1, <3>2 DEF Next
  <2>2. ASSUME NEW h \in Handlers, SessionStep(h) PROVE Next
    BY <2>2 DEF SessionStep, Next
  <2>3. ASSUME NEW w \in Loaders, LoaderStep(w) PROVE UNCHANGED vars
    BY <2>3, ReloadEffect, OtherLoaderSteps DEF ServerInv
  <2>4. QED
    BY <2>1, <2>2, <2>3 DEF ServerNext
<1>3. QED
  BY <1>1, <1>2, ServerInvariant, PTL DEF ServerSpec, Spec

\* Builds of registered configurations never share a build directory: the
\* guard of StartBuild keeps one store to one build, and LoadMulti's check of
\* build_dir together with reload keeps one directory to one registered store.
THEOREM RegisteredIsolated == ServerSpec => []RegisteredBuildsIsolated
<1>1. ExclusiveBuild /\ ServerInv => RegisteredBuildsIsolated
  <2> SUFFICES ASSUME ExclusiveBuild, ServerInv, NEW g \in Handlers, NEW h \in Handlers,
                      pc[g] \in Building, pc[h] \in Building,
                      {I(g), I(h)} \subseteq Registered, D(g) = D(h)
               PROVE  g = h
    BY DEF RegisteredBuildsIsolated
  <2>1. PICK c \in Contents :
          /\ DOMAIN registry = DOMAIN c.configs
          /\ \A n \in DOMAIN registry : ConfigOf[registry[n]] = c.configs[n]
    BY DEF ServerInv, OneSnapshot
  <2>2. PICK m \in DOMAIN registry, n \in DOMAIN registry :
          I(g) = registry[m] /\ I(h) = registry[n]
    BY DEF Registered
  <2>3. registry[m] \in Insts /\ registry[n] \in Insts
    BY DEF ServerInv, ServerTyped, ServerTypeOK
  <2>4. DirIn[c.configs[m]] = DirIn[c.configs[n]]
    BY <2>1, <2>2, <2>3, ServerAssumption DEF D
  <2>5. m = n
    BY <2>1, <2>4, ServerAssumption
  <2>6. QED
    BY <2>2, <2>5 DEF ExclusiveBuild, Building, BuildSection
<1>2. QED
  BY <1>1, ServerRunsSessions, Exclusive, ServerInvariant, PTL
=============================================================================
