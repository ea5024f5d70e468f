--------------------------- MODULE PresetInherits ---------------------------
(***************************************************************************)
(* resolveInherits of config/presets.go: presets name the presets they     *)
(* inherit from, and a depth-first walk copies to each what it leaves      *)
(* unset.  The recursion is unfolded: stack holds the frames of resolve    *)
(* that are under way, innermost last, and each step is one turn of one of *)
(* its loops.                                                              *)
(***************************************************************************)
EXTENDS Naturals, Sequences

CONSTANT Malformed  \* an inherits field that is neither a string nor a list of them

\* A directory is a sequence of path segments; <<>> is one that is not given.
Preset == [Name          : STRING,
           Hidden        : BOOLEAN,
           Inherits      : Seq(STRING) \cup {Malformed},
           BinaryDir     : Seq(STRING),
           Generator     : STRING,
           ToolchainFile : STRING]

ASSUME MalformedAssumption == Malformed \notin Seq(STRING)

VARIABLES
  given,     \* the presets as the files give them
  presets,   \* the same, filled in as the walk goes on
  resolved,  \* the indices of those that are complete
  stack,     \* frames of resolve: the preset, and which parent is next
  cursor,    \* the preset the outer loop has reached
  outcome    \* how the walk ended

walk == <<given, presets, resolved, stack, cursor, outcome>>

Indices == DOMAIN presets
Frame   == [idx : Nat, next : Nat]
Top     == stack[Len(stack)]
Pop     == SubSeq(stack, 1, Len(stack) - 1)

InStack(i) == \E k \in DOMAIN stack : stack[k].idx = i

\* byName: of presets with one name the last counts.
Named(name, i) ==
  presets[i].Name = name /\ \A j \in Indices : presets[j].Name = name => j <= i

Known(name) == \E i \in Indices : presets[i].Name = name

\* The walk of a list begins.
Walk(list) ==
  /\ given = list
  /\ presets = list
  /\ resolved = {}
  /\ stack = <<>>
  /\ cursor = 1
  /\ outcome = "walking"

-----------------------------------------------------------------------------
(* The outer loop *)

Enter(i) == [idx |-> i, next |-> 1]

EnterPreset ==
  /\ outcome = "walking" /\ stack = <<>>
  /\ cursor \in Indices \ resolved
  /\ stack' = <<Enter(cursor)>>
  /\ UNCHANGED <<given, presets, resolved, cursor, outcome>>

NextPreset ==
  /\ outcome = "walking" /\ stack = <<>>
  /\ cursor \in resolved
  /\ cursor' = cursor + 1
  /\ UNCHANGED <<given, presets, resolved, stack, outcome>>

WalkEnds ==
  /\ outcome = "walking" /\ stack = <<>>
  /\ cursor \notin Indices
  /\ outcome' = "complete"
  /\ UNCHANGED <<given, presets, resolved, stack, cursor>>

-----------------------------------------------------------------------------
(* resolve(idx): the loop over the parents of the innermost frame *)

Parents == presets[Top.idx].Inherits

\* parseInherits fails.
MalformedInherits ==
  /\ outcome = "walking" /\ stack # <<>>
  /\ Parents = Malformed
  /\ outcome' = "malformed"
  /\ UNCHANGED <<given, presets, resolved, stack, cursor>>

\* There is a next parent.
AtParent ==
  /\ outcome = "walking" /\ stack # <<>>
  /\ Parents # Malformed
  /\ Top.next \in DOMAIN Parents

NextParent == Parents[Top.next]

SkipParent == stack' = [stack EXCEPT ![Len(stack)].next = @ + 1]

UnknownParent ==
  /\ AtParent /\ ~Known(NextParent)
  /\ SkipParent
  /\ UNCHANGED <<given, presets, resolved, cursor, outcome>>

FillIn_Last(child, parent) ==
  [child EXCEPT !.BinaryDir     = IF parent.BinaryDir = <<>> THEN @ ELSE parent.BinaryDir,
                !.Generator     = IF @ = "" THEN parent.Generator ELSE @,
                !.ToolchainFile = IF @ = "" THEN parent.ToolchainFile ELSE @]
FillIn(child, parent) ==
  [child EXCEPT !.BinaryDir     = IF @ = <<>> THEN parent.BinaryDir ELSE @,
                !.Generator     = IF @ = "" THEN parent.Generator ELSE @,
                !.ToolchainFile = IF @ = "" THEN parent.ToolchainFile ELSE @]

\* resolve(pi) returns at once, or has returned: the child takes what it lacks.
InheritFrom ==
  /\ AtParent
  /\ \E p \in resolved :
       /\ Named(NextParent, p)
       /\ presets' = [presets EXCEPT ![Top.idx] = FillIn(@, presets[p])]
  /\ SkipParent
  /\ UNCHANGED <<given, resolved, cursor, outcome>>

Descend ==
  /\ AtParent
  /\ \E p \in Indices \ resolved :
       /\ Named(NextParent, p)
       /\ ~InStack(p)
       /\ stack' = Append(stack, Enter(p))
  /\ UNCHANGED <<given, presets, resolved, cursor, outcome>>

CircularInherits_Skips ==
  /\ AtParent
  /\ \E p \in Indices \ resolved : Named(NextParent, p) /\ InStack(p)
  /\ SkipParent
  /\ UNCHANGED <<given, presets, resolved, cursor, outcome>>
CircularInherits ==
  /\ AtParent
  /\ \E p \in Indices \ resolved :
       /\ Named(NextParent, p)
       /\ InStack(p)
  /\ outcome' = "circular"
  /\ UNCHANGED <<given, presets, resolved, stack, cursor>>

\* All parents are done: resolve(idx) returns.
Leave_Unmarked ==
  /\ outcome = "walking" /\ stack # <<>>
  /\ Parents # Malformed
  /\ Top.next \notin DOMAIN Parents
  /\ stack' = Pop
  /\ UNCHANGED <<given, presets, resolved, cursor, outcome>>
Leave ==
  /\ outcome = "walking" /\ stack # <<>>
  /\ Parents # Malformed
  /\ Top.next \notin DOMAIN Parents
  /\ resolved' = resolved \cup {Top.idx}
  /\ stack' = Pop
  /\ UNCHANGED <<given, presets, cursor, outcome>>

WalkStep ==
  \/ EnterPreset \/ NextPreset \/ WalkEnds \/ MalformedInherits \/ UnknownParent
  \/ InheritFrom \/ Descend \/ CircularInherits \/ Leave

\* resolveInherits of any list.
InheritsSpec == (\E list \in Seq(Preset) : Walk(list)) /\ [][WalkStep]_walk

-----------------------------------------------------------------------------
(* Correctness *)

WalkTypeOK ==
  /\ given \in Seq(Preset)
  /\ presets \in Seq(Preset) /\ Len(presets) = Len(given)
  /\ resolved \subseteq Indices
  /\ stack \in Seq(Frame) /\ \A k \in DOMAIN stack : stack[k].idx \in Indices
  /\ cursor \in Nat
  /\ outcome \in {"walking", "complete", "malformed", "circular"}

\* i inherits from p.
Inherits(i, p) ==
  /\ presets[i].Inherits # Malformed
  /\ \E k \in DOMAIN presets[i].Inherits : Named(presets[i].Inherits[k], p)

\* A set of presets each of which inherits from another one of them (or from
\* itself): there is one exactly when inherits is circular.
Knot(S) == S # {} /\ \A i \in S : \E p \in S : Inherits(i, p)

\* The fields that are inherited, and what they are when they are not given.
Inherited == {"BinaryDir", "Generator", "ToolchainFile"}
Unset(f)  == IF f = "BinaryDir" THEN <<>> ELSE ""

\* Preset p is the k-th parent of i, and has a value for f.
Gives(i, k, p, f) == Named(presets[i].Inherits[k], p) /\ presets[p][f] # Unset(f)

\* Preset i shows, of a field, its own value, else that of the first of its
\* first n parents that shows one.
Shows(i, n, f) ==
  \/ given[i][f] # Unset(f) /\ presets[i][f] = given[i][f]
  \/ /\ given[i][f] = Unset(f)
     /\ \E k \in 1 .. n, p \in Indices :
          /\ Gives(i, k, p, f) /\ presets[i][f] = presets[p][f]
          /\ \A j \in 1 .. k - 1, q \in Indices : ~Gives(i, j, q, f)
  \/ /\ given[i][f] = Unset(f) /\ presets[i][f] = Unset(f)
     /\ \A k \in 1 .. n, p \in Indices : ~Gives(i, k, p, f)

\* Every preset of a completed walk shows, of each field, its own value or
\* the one of its nearest ancestor, leftmost parent first, whatever the order
\* in which presets appear and diamonds are walked (presets.go:90-91: "the
\* first non-empty value wins (left-to-right precedence)").
Shown(i) == \A f \in Inherited : Shows(i, Len(presets[i].Inherits), f)

InheritedValues == outcome = "complete" => \A i \in Indices : Shown(i)

\* A walk reports a circular chain exactly when there is one, and never gets
\* lost in it: not a diamond, not a preset that is reached twice, and not a
\* parent that is not defined (presets.go:93, 108-122).
CircularExact ==
  /\ outcome = "circular" => \E S \in SUBSET Indices : Knot(S)
  /\ outcome = "complete" => \A S \in SUBSET Indices : ~Knot(S)

\* What the walk does not fill in stays as the files give it.
Untouched(i) ==
  /\ presets[i].Name = given[i].Name
  /\ presets[i].Hidden = given[i].Hidden
  /\ presets[i].Inherits = given[i].Inherits
=============================================================================
