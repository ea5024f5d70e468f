-------------------------- MODULE MCBuildSession --------------------------
(* Small instances of BuildSession for TLC. *)
EXTENDS BuildSession, TLC

CONSTANTS h1, h2, cm, mk, d1, d2

TwoWorkers == {h1, h2}
CMakeOnly  == {cm}
MakeOnly   == {mk}
BothInsts  == {cm, mk}
NoInsts    == {}
OneDir     == {d1}
InOneDir   == [i \in Insts |-> d1]
TwoDirs    == {d1, d2}
InTwoDirs  == [i \in Insts |-> IF i = cm THEN d1 ELSE d2]

Plain(tools) == [tool : tools, token : {FALSE}]

\* Two workers, each handed any call.
ToolsMenu == [h \in TwoWorkers |-> Plain(Tools)]

\* Only the first worker builds; the second is handed what else can change
\* the store or the directory.
OneBuilderMenu == [h \in TwoWorkers |->
                     IF h = h1 THEN [tool : {"build"}, token : {TRUE}] \cup Plain({"rebuild"})
                               ELSE Plain({"configure", "clean", "list_targets"})]

Workers == Permutations(Handlers)
=============================================================================
