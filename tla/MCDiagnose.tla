----------------------------- MODULE MCDiagnose -----------------------------
(* Small instances of Diagnose for TLC. *)
EXTENDS Diagnose

CONSTANTS a, b, none

TwoUnits == {a, b}

Compiler(name, family, legacy, accepts, stream) ==
  [name |-> name, family |-> family, legacy |-> legacy, accepts |-> accepts, stream |-> stream]

Compilers ==
  {Compiler("clang", "clang", FALSE, {"sarif"}, "stderr"),
   Compiler("clang", "clang", FALSE, {"json"}, "stdout"),
   Compiler("gcc", "gcc", FALSE, {"json"}, "stdout"),
   Compiler("gcc", "gcc", FALSE, {"json", "sarif"}, "stderr"),
   Compiler("gcc", "gcc", TRUE, {"json"}, "stderr"),
   Compiler("gcc", "gcc", TRUE, {}, "stderr"),
   Compiler("", "gcc", FALSE, {"json"}, "stderr"),
   Compiler("", "clang", FALSE, {"sarif"}, "stderr"),
   Compiler("cl", "cl", FALSE, {}, "stderr")}

AllSetups == [compiler : Compilers, system : {"clang", "gcc", ""},
              Toolchain : {"auto", "clang", "gcc", "gcc-legacy", "msvc"},
              tool : {"ninja", "make", "plain make"},
              InjectDiagnosticFlags : BOOLEAN, DiagnosticSerialBuild : BOOLEAN]

\* A configured toolchain is the compiler's.  The system's is looked at when it
\* is "auto", and differs from the compiler's where that is called cc.
ManySetups ==
  {s \in AllSetups :
     /\ s.Toolchain \in {"auto", Kind(s.compiler)}
     /\ s.system # "gcc" => s.Toolchain = "auto"
     /\ s.system = "clang" => s.compiler.name = ""}

Diag(severity, id) == [severity |-> severity, located |-> TRUE, id |-> id]

AllDiagnostics ==
  [severity : {"warning"}, located : {TRUE}, id : {"a1", "b1", "c1"}] \cup
  [severity : {"error"}, located : {TRUE}, id : {"a3", "b2", "b3", "c2"}] \cup
  [severity : {"note"}, located : {TRUE}, id : {"a2"}]

SaysA == {<<>>, <<Diag("warning", "a1"), Diag("note", "a2")>>,
          <<Diag("warning", "a1"), Diag("error", "a3")>>}
SaysB == {<<Diag("warning", "b1")>>, <<Diag("error", "b2"), Diag("error", "b3")>>}

PlainCommand  == <<"words">>
QuotedCommand == <<"words", Backslash, Quote, "words", Backslash, Quote>>

ManyWorks ==
  {[u \in Units |-> IF u = a THEN [says |-> sa, command |-> c] ELSE [says |-> sb, command |-> PlainCommand]] :
     sa \in SaysA, sb \in SaysB, c \in {PlainCommand, QuotedCommand}}

ManyReconfigs ==
  {none,
   [ok |-> TRUE, says |-> <<Diag("warning", "c1")>>, text |-> <<"words">>],
   [ok |-> TRUE, says |-> <<Diag("warning", "c1")>>, text |-> <<"words", "[", "words", "]">>],
   [ok |-> TRUE, says |-> <<Diag("warning", "c1")>>, text |-> <<"words", "[", "]">>],
   [ok |-> FALSE, says |-> <<Diag("warning", "c1"), Diag("error", "c2")>>, text |-> <<"words", "[", "words", "]">>]}
=============================================================================
