--------------------------- MODULE MCConfigServer ---------------------------
(* Small instances of ConfigServer for TLC. *)
EXTENDS ConfigServer, TLC

CONSTANTS h1, h2, w1, w2, i1, i2, i3, i4, d1, d2, a, a2, b, bad

OneWorker  == {h1}
TwoWorkers == {h1, h2}
OneLoader  == {w1}
TwoLoaders == {w1, w2}
TwoDirs    == {d1, d2}

\* a2 is a with another option, bad a configuration with an unknown generator.
AllConfigs == {a, a2, b, bad}
OnlyBad    == {bad}
InDir      == [c \in AllConfigs |-> IF c = b THEN d2 ELSE d1]

\* The pools: how many instances may be made of each configuration.
EditPool   == {i1, i2, i3, i4}
EditOf     == [i \in EditPool |-> CASE i = i1 -> a [] i = i2 -> a2 [] i = i3 -> b [] OTHER -> a]
SwapPool   == {i1, i2}
SwapOf     == [i \in SwapPool |-> IF i = i1 THEN a ELSE a2]
PoolDir    == [i \in Insts |-> InDir[ConfigOf[i]]]
NoInsts    == {}

Content(configs, default) == [configs |-> configs, dflt |-> default]

\* Versions of the files in which a name is added, dropped, changed, given
\* to nothing that can be built, or no longer the default.
EditedContents ==
  {Content([debug |-> a], "debug"),
   Content([debug |-> a, release |-> b], "release"),
   Content([debug |-> a2, release |-> b], "debug"),
   Content([release |-> b], "release"),
   Content([debug |-> bad, release |-> b], "debug")}

SwapContents == {Content([debug |-> a], "debug"), Content([debug |-> a2], "debug")}

Plain(tools) == [tool : tools, token : {FALSE}]
ConfigureMenu == [h \in Handlers |-> Plain({"configure"})]
RebuildMenu   == [h \in Handlers |-> Plain({"rebuild"})]

Workers == Permutations(Handlers)
Both    == Permutations(Handlers) \cup Permutations(Loaders)
=============================================================================
