---------------------------- MODULE MCConfigLoad ----------------------------
(* Small instances of ConfigLoad for TLC. *)
EXTENDS ConfigLoad, TLC

CONSTANTS absent, broken, malformed

PlainPreset == [Name |-> "", Hidden |-> FALSE, Inherits |-> <<>>, BinaryDir |-> <<>>,
                Generator |-> "", ToolchainFile |-> ""]

Alphabetical == [asan |-> 1, base |-> 2, clang |-> 3, debug |-> 4, default |-> 5, gone |-> 6]
Compilers == [asan |-> "auto", base |-> "auto", clang |-> "clang", debug |-> "auto",
              default |-> "auto", gone |-> "auto", gccfile |-> "gcc", otherfile |-> "auto"]

-----------------------------------------------------------------------------
(* Every way in which three presets can inherit from at most two of each    *)
(* other, of themselves and of one that is not defined, each with or        *)
(* without a directory of its own and with a generator where it has none.   *)

Parent   == {"asan", "base", "clang", "gone"}
Heritage == {<<>>, malformed} \cup {<<p>> : p \in Parent}
              \cup {s \in Parent \X Parent : s[1] # s[2]}

Heir(n, parents, own) ==
  [PlainPreset EXCEPT !.Name = n, !.Inherits = parents,
                      !.BinaryDir = IF own THEN <<"build", n>> ELSE <<>>,
                      !.Generator = IF own THEN "" ELSE "Ninja",
                      !.ToolchainFile = IF own THEN "" ELSE "gccfile"]

Families == {<<Heir("asan", x, a), Heir("base", y, b), Heir("clang", z, c)>> :
               x, y, z \in Heritage, a, b, c \in BOOLEAN}

HeritageCases == [file : {absent}, project : Families, user : {absent}, env : {NoSettings}]

-----------------------------------------------------------------------------
(* The other files and the environment, around a hidden preset and two that *)
(* inherit from it.                                                         *)

Tops == {NoSettings,
         [BuildDir |-> <<"out">>, Generator |-> "make", Preset |-> "gone"],
         [Toolchain |-> "msvc", BuildTimeout |-> "10m", CMakeArgs |-> <<"-DX=1">>],
         [BuildTimeout |-> "invalid"]}

Maps == {absent, NoSettings,
         [debug |-> NoSettings],
         [debug |-> NoSettings, asan |-> NoSettings],
         [debug |-> NoSettings, asan |-> [BuildDir |-> <<"asan">>, Toolchain |-> "clang"]],
         [debug |-> [BuildDir |-> <<"build">>], asan |-> broken],
         [debug |-> [BuildTimeout |-> "invalid"], asan |-> [BuildDir |-> <<"asan">>]]}

Files == {absent, broken} \cup
         [top : Tops, configs : Maps, default_config : {"", "debug", "gone"}]

BaseOf(dir, generator) ==
  [PlainPreset EXCEPT !.Name = "base", !.Hidden = TRUE, !.BinaryDir = dir, !.Generator = generator]
ChildOf(n, dir, tool) ==
  [PlainPreset EXCEPT !.Name = n, !.Inherits = <<"base">>, !.BinaryDir = dir,
                      !.ToolchainFile = tool]

Projects ==
  {absent, broken, <<>>} \cup
  {<<ChildOf("debug", d1, ""), BaseOf(d, g), clang>> :
     d \in {<<"build", "${presetName}">>, <<"$env{HOME}", "b">>, <<"/", "b">>},
     d1 \in {<<>>, <<"${sourceDir}", "b">>, <<"build", "..", "b">>},
     g \in {"Unix Makefiles", "Ninja Multi-Config"},
     clang \in {ChildOf("clang", <<>>, "gccfile"), ChildOf("clang", <<"b">>, "otherfile")}}

Users == {absent, broken,
          <<[PlainPreset EXCEPT !.Name = "base", !.Hidden = TRUE, !.BinaryDir = <<"user">>]>>,
          <<ChildOf("asan", <<>>, ""), ChildOf("debug", <<"mine">>, "")>>}

Envs == {NoSettings,
         [BuildDir |-> <<"envdir">>, Toolchain |-> "gcc", BuildTimeout |-> "invalid"],
         [SourceDir |-> <<"src">>, Generator |-> "make", BuildTimeout |-> "1m"]}

OptionCases == [file : Files, project : Projects, user : Users, env : Envs]

AllCases == HeritageCases \cup OptionCases
=============================================================================
